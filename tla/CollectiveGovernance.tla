------------------------- MODULE CollectiveGovernance -------------------------
(***************************************************************************)
(* Votes, ballots, amendments and the artifact they change, in one         *)
(* collective: services/api/src/lib/collective-governance.ts, with the     *)
(* routes votes.ts and amendments.ts, artifact-store.ts and decision-log.ts*)
(*                                                                         *)
(* A handler is synchronous, so nobody sees it half done; but it writes    *)
(* several files one after the other, and the process can die in between.  *)
(* The parameter `cut` of an action is the number of its writes that reach *)
(* the disk: all of them, or, while crashes are left, a shorter prefix.    *)
(*                                                                         *)
(* The one artifact modelled is collective_config, because its             *)
(* active_member_count is read back when a vote is resolved.  A payload is *)
(* that count, or BadPayload, which the JSON schema refuses.  Percentages  *)
(* are integers.  The decision log is the set of its events: its sequence  *)
(* numbers and hashes add nothing the properties speak of.                 *)
(***************************************************************************)
EXTENDS Naturals, Sequences, FiniteSets, FiniteSetsExt

CONSTANTS Members,        \* who can cast a ballot
          Answers,        \* what they answer; free text in the code
          VoteIds,        \* bound: the votes that can be opened
          AmendmentIds,   \* bound: the amendments that can be proposed
          Counts,         \* values of active_member_count
          BadPayload,     \* a payload the schema refuses
          Decisions,      \* the decision_ids operators open votes on
          Methods,        \* vote methods asked for
          Quorums,        \* values of quorum_threshold, in per cent
          Supermajority,  \* supermajority_threshold, in per cent
          TracksVotes,    \* contribution_tracking covers "vote"
          MaxVersions,    \* bound: versions of the artifact
          MaxCrashes      \* bound: crashes in the middle of a handler

ASSUME GovernanceAssumption ==
    /\ IsFiniteSet(Members) /\ IsFiniteSet(Answers) /\ IsFiniteSet(VoteIds)
    /\ Counts \subseteq Nat /\ BadPayload \notin Counts
    /\ "other" \notin AmendmentIds /\ "none" \notin VoteIds   \* ids are uuids
    /\ Decisions \subseteq {"other"} \cup AmendmentIds
    /\ Methods \subseteq {"simple_majority", "supermajority", "consensus"}
    /\ Quorums \subseteq 0..100 /\ Quorums # {}
    /\ Methods # {}
    /\ Supermajority \in 0..100
    /\ TracksVotes \in BOOLEAN
    /\ MaxVersions \in Nat /\ MaxCrashes \in Nat

(* The decision_id of a vote that decides no amendment, and the vote_id of *)
(* an amendment not yet voted on.                                          *)
Other == "other"
None == "none"

VARIABLES
    votes,         \* votes/<org>.json, by vote_id
    ballots,       \* vote-ballots/<org>.json
    amendments,    \* amendments/<org>.json, by amendment_id
    artifact,      \* artifacts/<org>/collective_config.json: its versions
    contributions, \* contributions/<org>.json: rows for a vote, per member
    log,           \* decision-log/<org>.json
    closed,        \* the votes whose closes_at is past
    noticeOver,    \* the amendments whose notice_until is past
    crashes        \* handlers cut short so far

orgVars == <<votes, ballots, amendments, artifact, contributions, log>>
clockVars == <<closed, noticeOver>>
vars == <<orgVars, clockVars, crashes>>

Opened(v) == <<"vote_opened", v>>
Resolved(v) == <<"vote_resolved", v>>
Proposed(a) == <<"amendment_proposed", a>>
Applied(a) == <<"amendment_applied", a>>
Written(n) == <<"artifact_written", n>>

NoVote == [status |-> "absent", decision |-> Other,
           method |-> CHOOSE m \in Methods : TRUE,
           quorum |-> CHOOSE q \in Quorums : TRUE,
           tally |-> [c \in Answers |-> 0]]

NoAmendment == [status |-> "absent", notice |-> FALSE,
                payload |-> BadPayload, vote |-> None]

Init ==
    /\ votes = [v \in VoteIds |-> NoVote]
    /\ ballots = {}
    /\ amendments = [a \in AmendmentIds |-> NoAmendment]
    /\ artifact = <<>>
    /\ contributions = [m \in Members |-> 0]
    /\ log = {}
    /\ closed = {}
    /\ noticeOver = {}
    /\ crashes = 0

(* How many of n writes reach the disk, and the crash that is the reason.  *)
Cuts(n) == IF crashes < MaxCrashes THEN 1..n ELSE {n}
CountCrash(cut, n) == crashes' = IF cut < n THEN crashes + 1 ELSE crashes

(* The active_member_count in force: collectiveConfig(orgId) ... ?? 1.     *)
MemberCount ==
    IF artifact = <<>> THEN 1 ELSE artifact[Len(artifact)].payload

-----------------------------------------------------------------------------
(***************************************************************************)
(* Votes                                                                   *)
(***************************************************************************)

(* The two writes of openVote: the event, then the vote. *)
VoteOpened(v, decision, method, quorum, cut) ==
    /\ Opened(v) \notin log                   \* a fresh uuid
    /\ log' = log \cup {Opened(v)}
    /\ votes' = IF cut < 2 THEN votes
                ELSE [votes EXCEPT ![v] = [NoVote EXCEPT !.status = "open",
                                             !.decision = decision,
                                             !.method = method,
                                             !.quorum = quorum]]

(* POST /votes.  The decision_id is whatever the operator sends, the id of *)
(* an amendment too.                                                       *)
OpenVote(v) ==
    \E decision \in Decisions, method \in Methods, quorum \in Quorums, cut \in Cuts(2) :
        /\ VoteOpened(v, decision, method, quorum, cut)
        /\ CountCrash(cut, 2)
        /\ UNCHANGED <<ballots, amendments, artifact, contributions, clockVars>>

BallotsOn(v) == {b \in ballots : b.vote = v}

(* Mutants: the tally is saved before the ballot is; it is not saved.      *)
CastTallyFirst(m, v) ==
    \E choice \in Answers, cut \in Cuts(2) :
        /\ votes[v].status = "open" /\ v \notin closed
        /\ \A b \in BallotsOn(v) : b.member # m
        /\ votes' = [votes EXCEPT ![v].tally[choice] = @ + 1]
        /\ ballots' = IF cut < 2 THEN ballots
                      ELSE ballots \cup {[vote |-> v, member |-> m, choice |-> choice]}
        /\ CountCrash(cut, 2)
        /\ UNCHANGED <<amendments, artifact, contributions, log, clockVars>>

CastUntallied(m, v) ==
    \E choice \in Answers :
        /\ votes[v].status = "open" /\ v \notin closed
        /\ \A b \in BallotsOn(v) : b.member # m
        /\ ballots' = ballots \cup {[vote |-> v, member |-> m, choice |-> choice]}
        /\ UNCHANGED <<votes, amendments, artifact, contributions, log, clockVars, crashes>>

(* POST /votes/:id/cast: the ballot, the vote with its tally, and, when    *)
(* contributions are tracked, a contribution.                              *)
CastBallot(m, v) ==
    LET n == IF TracksVotes THEN 3 ELSE 2
    IN \E choice \in Answers, cut \in Cuts(n) :
        /\ votes[v].status = "open"
        /\ v \notin closed
        /\ \A b \in BallotsOn(v) : b.member # m
        /\ ballots' = ballots \cup {[vote |-> v, member |-> m, choice |-> choice]}
        /\ votes' = IF cut < 2 THEN votes
                    ELSE [votes EXCEPT ![v].tally[choice] = @ + 1]
        /\ contributions' = IF cut < 3 THEN contributions
                            ELSE [contributions EXCEPT ![m] = @ + 1]
        /\ CountCrash(cut, n)
        /\ UNCHANGED <<amendments, artifact, log, clockVars>>

(* tally["yes"] ?? tally["yea"] ?? 0: a key is there once somebody used it. *)
Count(tally, choice) == IF choice \in Answers THEN tally[choice] ELSE 0
FirstOf(tally, c, d) == IF Count(tally, c) > 0 THEN Count(tally, c) ELSE Count(tally, d)
Yeas(tally) == FirstOf(tally, "yes", "yea")
Nays(tally) == FirstOf(tally, "no", "nay")
Total(tally) == SumFunctionOnSet(tally, Answers)

(* Math.ceil(activeMemberCount * quorumFraction). *)
QuorumSize(members, quorum) == (members * quorum + 99) \div 100

(* Mutant: half of the ballots is enough, whatever the method. *)
OutcomeOnEquality(vote, members) ==
    IF Total(vote.tally) > 0 /\ Yeas(vote.tally) * 2 >= Total(vote.tally)
    THEN "passed" ELSE "failed"

(* What resolveVote decides. *)
Outcome(vote, members) ==
    LET total == Total(vote.tally)
        carried ==
            CASE vote.method = "consensus" -> Nays(vote.tally) = 0
              [] vote.method = "supermajority" ->
                    Yeas(vote.tally) * 100 >= Supermajority * total
              [] OTHER -> Yeas(vote.tally) * 2 > total
    IN  IF carried /\ total > 0 /\ total >= QuorumSize(members, vote.quorum)
        THEN "passed" ELSE "failed"

(* POST /votes/:id/resolve, at any time: the vote first, then the event.   *)
ResolveVote(v) ==
    \E cut \in Cuts(2) :
        /\ votes[v].status = "open"
        /\ votes' = [votes EXCEPT ![v].status = Outcome(votes[v], MemberCount)]
        /\ log' = IF cut < 2 THEN log ELSE log \cup {Resolved(v)}
        /\ CountCrash(cut, 2)
        /\ UNCHANGED <<ballots, amendments, artifact, contributions, clockVars>>

-----------------------------------------------------------------------------
(***************************************************************************)
(* Amendments                                                              *)
(***************************************************************************)

(* POST /amendments: the event, then the amendment.  A notice period of 0  *)
(* hours leaves notice_until null.                                         *)
ProposeAmendment(a) ==
    \E payload \in Counts \cup {BadPayload}, notice \in BOOLEAN, cut \in Cuts(2) :
        /\ Proposed(a) \notin log               \* a fresh uuid
        /\ log' = log \cup {Proposed(a)}
        /\ amendments' = IF cut < 2 THEN amendments
                         ELSE [amendments EXCEPT ![a] =
                                 [status |-> "proposed", notice |-> notice,
                                  payload |-> payload, vote |-> None]]
        /\ CountCrash(cut, 2)
        /\ UNCHANGED <<votes, ballots, artifact, contributions, clockVars>>

UnderNotice(a) == amendments[a].notice /\ a \notin noticeOver

(* POST /amendments/:id/advance, first branch: the notice still runs. *)
GiveNotice(a) ==
    /\ amendments[a].status = "proposed"
    /\ UnderNotice(a)
    /\ amendments' = [amendments EXCEPT ![a].status = "noticed"]
    /\ UNCHANGED <<votes, ballots, artifact, contributions, log, clockVars, crashes>>

(* The other branches: openVote, its two writes, and then the amendment.   *)
PutToVote(a, v) ==
    \E method \in Methods, quorum \in Quorums, cut \in Cuts(3) :
        /\ amendments[a].status \in {"proposed", "noticed"}
        /\ ~UnderNotice(a)
        /\ VoteOpened(v, a, method, quorum, cut)
        /\ amendments' = IF cut < 3 THEN amendments
                         ELSE [amendments EXCEPT ![a].status = "voting", ![a].vote = v]
        /\ CountCrash(cut, 3)
        /\ UNCHANGED <<ballots, artifact, contributions, clockVars>>

(* Mutant: the new version is stored before the event that records it. *)
WriteUnrecorded(payload, source, logged, first, cut) ==
    /\ artifact' = IF cut < first THEN artifact
                   ELSE Append(artifact, [payload |-> payload, source |-> source])
    /\ log' = IF cut < first + 1 THEN logged
              ELSE logged \cup {Written(Len(artifact) + 1)}

(* The two writes of writeArtifact, `first` being the first of them: the   *)
(* event, then the new version.  `source` remembers who wrote it (an       *)
(* observation: no action reads it).                                       *)
WriteArtifact(payload, source, logged, first, cut) ==
    /\ log' = IF cut < first THEN logged
              ELSE logged \cup {Written(Len(artifact) + 1)}
    /\ artifact' = IF cut < first + 1 THEN artifact
                   ELSE Append(artifact, [payload |-> payload, source |-> source])

(* POST /artifacts/collective_config: no vote asked for; a bad payload is  *)
(* refused before anything is written.                                     *)
WriteConfig(payload) ==
    \E cut \in Cuts(2) :
        /\ Len(artifact) < MaxVersions
        /\ WriteArtifact(payload, Other, log, 1, cut)
        /\ CountCrash(cut, 2)
        /\ UNCHANGED <<votes, ballots, amendments, contributions, clockVars>>

CanApply(a) ==
    /\ amendments[a].status = "voting"
    /\ amendments[a].vote # None
    /\ votes[amendments[a].vote].status \notin {"absent", "open"}

VotePassed(a) == votes[amendments[a].vote].status = "passed"

(* POST /amendments/:id/apply when the vote failed. *)
RejectAmendment(a) ==
    /\ CanApply(a)
    /\ ~VotePassed(a)
    /\ amendments' = [amendments EXCEPT ![a].status = "rejected"]
    /\ UNCHANGED <<votes, ballots, artifact, contributions, log, clockVars, crashes>>

(* Mutants: the artifact is written first, so that a crash leaves the      *)
(* amendment to be applied again; any resolved vote will do; the payload   *)
(* is not validated.                                                       *)
ApplyArtifactFirst(a) ==
    \E cut \in Cuts(2) :
        /\ CanApply(a) /\ VotePassed(a) /\ Len(artifact) < MaxVersions
        /\ artifact' = Append(artifact, [payload |-> amendments[a].payload, source |-> a])
        /\ log' = log \cup {Applied(a), Written(Len(artifact) + 1)}
        /\ amendments' = IF cut < 2 THEN amendments
                         ELSE [amendments EXCEPT ![a].status = "applied"]
        /\ CountCrash(cut, 2)
        /\ UNCHANGED <<votes, ballots, contributions, clockVars>>

ApplyWhateverTheVote(a) ==
    /\ CanApply(a)
    /\ amendments' = [amendments EXCEPT ![a].status = "applied"]
    /\ log' = log \cup {Applied(a)}
    /\ UNCHANGED <<votes, ballots, artifact, contributions, clockVars, crashes>>

ApplyUnvalidated(a) ==
    /\ CanApply(a) /\ VotePassed(a) /\ Len(artifact) < MaxVersions
    /\ amendments' = [amendments EXCEPT ![a].status = "applied"]
    /\ artifact' = Append(artifact, [payload |-> amendments[a].payload, source |-> a])
    /\ log' = log \cup {Applied(a), Written(Len(artifact) + 1)}
    /\ UNCHANGED <<votes, ballots, contributions, clockVars, crashes>>

(* The same when it passed: the amendment, its event, and then the writes  *)
(* of writeArtifact.  A payload the schema refuses is found out only now,  *)
(* and the amendment stays applied.                                        *)
ApplyAmendment(a) ==
    LET valid == amendments[a].payload # BadPayload
        n == IF valid THEN 4 ELSE 2
    IN \E cut \in Cuts(n) :
        /\ CanApply(a)
        /\ VotePassed(a)
        /\ Len(artifact) < MaxVersions
        /\ amendments' = [amendments EXCEPT ![a].status = "applied"]
        /\ LET logged == IF cut < 2 THEN log ELSE log \cup {Applied(a)}
           IN  IF valid
               THEN WriteArtifact(amendments[a].payload, a, logged, 3, cut)
               ELSE log' = logged /\ UNCHANGED artifact
        /\ CountCrash(cut, n)
        /\ UNCHANGED <<votes, ballots, contributions, clockVars>>

-----------------------------------------------------------------------------
(* The clock: closes_at and notice_until pass. *)
VoteCloses(v) ==
    /\ votes[v].status = "open"
    /\ v \notin closed
    /\ closed' = closed \cup {v}
    /\ UNCHANGED <<orgVars, noticeOver, crashes>>

NoticeEnds(a) ==
    /\ amendments[a].status # "absent"
    /\ UnderNotice(a)
    /\ noticeOver' = noticeOver \cup {a}
    /\ UNCHANGED <<orgVars, closed, crashes>>

Next ==
    \/ \E v \in VoteIds : OpenVote(v)
    \/ \E m \in Members, v \in VoteIds : CastBallot(m, v)
    \/ \E v \in VoteIds : ResolveVote(v)
    \/ \E a \in AmendmentIds : ProposeAmendment(a)
    \/ \E a \in AmendmentIds : GiveNotice(a)
    \/ \E a \in AmendmentIds, v \in VoteIds : PutToVote(a, v)
    \/ \E payload \in Counts : WriteConfig(payload)
    \/ \E a \in AmendmentIds : RejectAmendment(a)
    \/ \E a \in AmendmentIds : ApplyAmendment(a)
    \/ \E v \in VoteIds : VoteCloses(v)
    \/ \E a \in AmendmentIds : NoticeEnds(a)

Spec == Init /\ [][Next]_vars

-----------------------------------------------------------------------------
(***************************************************************************)
(* Properties                                                              *)
(***************************************************************************)

(* Every file has the shape its readers expect. *)
TypeOK ==
    /\ votes \in [VoteIds ->
            [status : {"absent", "open", "passed", "failed"},
             decision : {Other} \cup AmendmentIds,
             method : Methods, quorum : Quorums, tally : [Answers -> Nat]]]
    /\ ballots \subseteq [vote : VoteIds, member : Members, choice : Answers]
    /\ amendments \in [AmendmentIds ->
            [status : {"absent", "proposed", "noticed", "voting", "applied", "rejected"},
             notice : BOOLEAN, payload : Counts \cup {BadPayload},
             vote : {None} \cup VoteIds]]
    /\ artifact \in Seq([payload : Counts, source : {Other} \cup AmendmentIds])
    /\ contributions \in [Members -> Nat]
    /\ closed \subseteq VoteIds
    /\ noticeOver \subseteq AmendmentIds
    /\ crashes \in 0..MaxCrashes

(* A member counts once at most in a vote, even when the process dies      *)
(* between the ballot and the tally and the member tries again: a choice   *)
(* is tallied no more often than there are members with a ballot for it,   *)
(* and no member has two ballots, or more contributions than ballots.      *)
NobodyCountsTwice ==
    /\ \A m \in Members : contributions[m] <= Cardinality({b \in ballots : b.member = m})
    /\ \A v \in VoteIds, c \in Answers :
            votes[v].tally[c] <= Cardinality({b \in ballots : b.vote = v /\ b.choice = c})
    /\ \A b1, b2 \in ballots : b1.vote = b2.vote /\ b1.member = b2.member => b1 = b2

(* A ballot on file that its vote does not count.  The member cannot cast  *)
(* it again.  Each crash leaves one at most, and nothing else leaves any.  *)
Uncounted(v) == Cardinality(BallotsOn(v)) - Total(votes[v].tally)
BallotsLostOnlyInCrashes == SumFunctionOnSet([v \in VoteIds |-> Uncounted(v)], VoteIds) <= crashes

(* A vote that passed, all its ballots counted, passed by its ballots: the *)
(* rule of its method holds of the people who said yes or yea, no or nay.  *)
PassedByItsBallots ==
    \A v \in VoteIds :
        LET said(S) == Cardinality({b \in BallotsOn(v) : b.choice \in S})
            cast == Cardinality(BallotsOn(v))
        IN  votes[v].status = "passed" /\ Uncounted(v) = 0 =>
                /\ cast > 0
                /\ votes[v].method = "consensus" => said({"no", "nay"}) = 0
                /\ votes[v].method = "supermajority" =>
                        said({"yes", "yea"}) * 100 >= Supermajority * cast
                /\ votes[v].method = "simple_majority" => said({"yes", "yea"}) * 2 > cast

(* A resolved vote is final: neither a late ballot nor a second resolution *)
(* changes its outcome, its tally or its ballots (proved; no run checks it). *)
ResolvedVotesAreFinal ==
    [][\A v \in VoteIds : votes[v].status \in {"passed", "failed"} =>
            votes'[v] = votes[v] /\ BallotsOn(v)' = BallotsOn(v)]_vars

(* An amendment is voted on only when its notice is over, by a vote opened *)
(* for it, and it is applied or rejected as that vote ended.               *)
AmendmentsFollowTheirVotes ==
    \A a \in AmendmentIds :
        LET am == amendments[a]
        IN  am.status \in {"voting", "applied", "rejected"} =>
                /\ ~UnderNotice(a)
                /\ am.vote \in VoteIds
                /\ votes[am.vote].decision = a
                /\ am.status = "voting" => votes[am.vote].status # "absent"
                /\ am.status = "applied" => votes[am.vote].status = "passed"
                /\ am.status = "rejected" => votes[am.vote].status = "failed"

(* An amendment changes the artifact once at most, with the payload that   *)
(* was proposed, and only once it is applied: no retry after a crash       *)
(* writes it again.                                                        *)
AmendedOnce ==
    \A i \in DOMAIN artifact :
        LET a == artifact[i].source
        IN  a # Other =>
                /\ amendments[a].status = "applied"
                /\ artifact[i].payload = amendments[a].payload
                /\ \A j \in DOMAIN artifact : artifact[j].source = a => j = i

(* What exists was recorded first: a vote, an amendment and an artifact    *)
(* version each have their event in the log, whenever the process dies.    *)
RecordedFirst ==
    /\ \A v \in VoteIds : votes[v].status # "absent" => Opened(v) \in log
    /\ \A a \in AmendmentIds : amendments[a].status # "absent" => Proposed(a) \in log
    /\ \A i \in DOMAIN artifact : Written(i) \in log

(* The promise of decision-log.ts (lines 4-5 and 31-32): every governance  *)
(* event is in the log before the action it records executes; here for the *)
(* resolution of a vote.                                                   *)
LoggedBeforeResolved ==
    \A v \in VoteIds : votes[v].status \in {"passed", "failed"} => Resolved(v) \in log
=============================================================================
