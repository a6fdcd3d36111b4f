---------------------- MODULE CollectiveGovernanceProofs ----------------------
(***************************************************************************)
(* Votes, ballots and amendments (CollectiveGovernance) for every set of   *)
(* members, answers, votes and amendments, every rule and every bound:     *)
(* wherever a handler is cut short between two of its writes.              *)
(***************************************************************************)
EXTENDS CollectiveGovernance, FiniteSums, SequenceTheorems

-----------------------------------------------------------------------------
(* The inductive invariant. *)

VoteRecords == [status : {"absent", "open", "passed", "failed"},
                decision : {Other} \cup AmendmentIds,
                method : Methods, quorum : Quorums, tally : [Answers -> Nat]]

AmendmentRecords ==
    [status : {"absent", "proposed", "noticed", "voting", "applied", "rejected"},
     notice : BOOLEAN, payload : Counts \cup {BadPayload}, vote : {None} \cup VoteIds]

Versions == [payload : Counts, source : {Other} \cup AmendmentIds]

(* A vote that is not on file has no tally. *)
AbsentIsBlank ==
    \A v \in VoteIds : votes[v].status = "absent" => votes[v].tally = NoVote.tally

(* A vote that passed was carried by the tally it still has. *)
PassedWasCarried ==
    \A v \in VoteIds : votes[v].status = "passed" =>
        \E members \in Nat : Outcome(votes[v], members) = "passed"

(* What the votes and their ballots amount to, and what became of the      *)
(* amendments.                                                             *)
CountingIsRight ==
    /\ IsFiniteSet(ballots)
    /\ AbsentIsBlank
    /\ NobodyCountsTwice
    /\ BallotsLostOnlyInCrashes
    /\ PassedWasCarried

AmendingIsRight ==
    /\ AmendmentsFollowTheirVotes
    /\ AmendedOnce

IInv ==
    /\ TypeOK
    /\ RecordedFirst
    /\ CountingIsRight
    /\ AmendingIsRight

-----------------------------------------------------------------------------
(* The operators of the model. *)

LEMMA Cutting ==
    ASSUME crashes \in 0..MaxCrashes, NEW n \in Nat, n > 0, NEW cut \in Cuts(n), CountCrash(cut, n)
    PROVE  /\ cut \in 1..n
           /\ crashes' \in 0..MaxCrashes
           /\ crashes' = crashes + (IF cut < n THEN 1 ELSE 0)
<1>1. cut \in 1..n
  BY DEF Cuts
<1>2. cut < n => crashes < MaxCrashes
  BY <1>1 DEF Cuts
<1>3. QED
  BY <1>1, <1>2, GovernanceAssumption DEF CountCrash

LEMMA Blank ==
    /\ NoVote \in VoteRecords /\ NoAmendment \in AmendmentRecords
    /\ NoVote.tally = [c \in Answers |-> 0]
<1>1. (CHOOSE m \in Methods : TRUE) \in Methods /\ (CHOOSE q \in Quorums : TRUE) \in Quorums
  BY GovernanceAssumption
<1>2. QED
  BY <1>1 DEF NoVote, NoAmendment, VoteRecords, AmendmentRecords, Other, None

(* The uncounted ballots of a vote are a number. *)
LEMMA UncountedType ==
    ASSUME TypeOK, IsFiniteSet(ballots), NEW v \in VoteIds
    PROVE  /\ IsFiniteSet(BallotsOn(v)) /\ Cardinality(BallotsOn(v)) \in Nat
           /\ Total(votes[v].tally) \in Nat
           /\ Uncounted(v) \in Int
<1>1. IsFiniteSet(BallotsOn(v)) /\ Cardinality(BallotsOn(v)) \in Nat
  BY FS_Subset, FS_CardinalityType DEF BallotsOn
<1>2. PICK t : t = votes[v].tally
  OBVIOUS
<1>3. \A c \in Answers : t[c] \in Nat
  BY <1>2 DEF TypeOK
<1>4. SumFunctionOnSet(t, Answers) \in Nat
  BY <1>3, SumType, GovernanceAssumption
<1>5. QED
  BY <1>1, <1>2, <1>4 DEF Total, Uncounted

(* The ballots lost, vote by vote, and their number. *)
LostBallots == [v \in VoteIds |-> Uncounted(v)]

LEMMA LossIsTheSum ==
    /\ BallotsLostOnlyInCrashes <=> SumFunctionOnSet(LostBallots, VoteIds) <= crashes
    /\ BallotsLostOnlyInCrashes' <=> SumFunctionOnSet(LostBallots', VoteIds) <= crashes'
BY DEF BallotsLostOnlyInCrashes, LostBallots

LEMMA InitIInv == Init => IInv
<1> SUFFICES ASSUME Init
             PROVE  IInv
  OBVIOUS
<1>1. TypeOK
  BY Blank, GovernanceAssumption DEF Init, TypeOK, VoteRecords, AmendmentRecords
<1>2. RecordedFirst
  BY DEF Init, RecordedFirst, NoVote, NoAmendment
<1>3. AbsentIsBlank /\ PassedWasCarried /\ AmendmentsFollowTheirVotes /\ AmendedOnce
  BY DEF Init, AbsentIsBlank, PassedWasCarried, AmendmentsFollowTheirVotes, AmendedOnce,
         NoVote, NoAmendment
<1>4. IsFiniteSet(ballots) /\ Cardinality({}) = 0
  BY FS_EmptySet DEF Init
<1>5. NobodyCountsTwice
  <2>1. \A m \in Members : {b \in ballots : b.member = m} = {}
    BY DEF Init
  <2>2. \A v \in VoteIds, c \in Answers : {b \in ballots : b.vote = v /\ b.choice = c} = {}
    BY DEF Init
  <2>3. \A v \in VoteIds, c \in Answers : votes[v].tally[c] = 0
    BY DEF Init, NoVote
  <2>4. QED
    BY <1>4, <2>1, <2>2, <2>3 DEF Init, NobodyCountsTwice
<1>6. BallotsLostOnlyInCrashes
  <2>1. ASSUME NEW v \in VoteIds
        PROVE  LostBallots[v] = 0
    <3>1. PICK t : t = votes[v].tally
      OBVIOUS
    <3>2. SumFunctionOnSet(t, Answers) = 0
      BY <3>1, Blank, SumOfZeros, GovernanceAssumption DEF Init
    <3>3. Total(t) = 0
      BY <3>2 DEF Total
    <3>4. BallotsOn(v) = {}
      BY DEF Init, BallotsOn
    <3>5. QED
      BY <1>4, <3>1, <3>3, <3>4 DEF Uncounted, LostBallots
  <2>2. PICK u : u = LostBallots
    OBVIOUS
  <2>3. SumFunctionOnSet(u, VoteIds) = 0
    BY <2>1, <2>2, SumOfZeros, GovernanceAssumption
  <2>4. QED
    BY <2>2, <2>3, LossIsTheSum DEF Init
<1>7. QED
  BY <1>1, <1>2, <1>3, <1>4, <1>5, <1>6 DEF IInv, CountingIsRight, AmendingIsRight

-----------------------------------------------------------------------------
(* What a step has to do to keep each part of the invariant. *)

(* What AmendmentsFollowTheirVotes says of an amendment put to the vote. *)
AmendmentFollows(a) ==
    LET am == amendments[a]
    IN  /\ ~UnderNotice(a)
        /\ am.vote \in VoteIds
        /\ votes[am.vote].decision = a
        /\ am.status = "voting" => votes[am.vote].status # "absent"
        /\ am.status = "applied" => votes[am.vote].status = "passed"
        /\ am.status = "rejected" => votes[am.vote].status = "failed"

(* Votes go forward: what one decides stays, and so does a result.         *)
VotesOnward ==
    \A v \in VoteIds :
        /\ votes[v].status # "absent" =>
                votes'[v].status # "absent" /\ votes'[v].decision = votes[v].decision
        /\ votes[v].status \in {"passed", "failed"} => votes'[v].status = votes[v].status

(* An amendment that was put to the vote is left alone, and none is put to *)
(* the vote.                                                               *)
NothingPut ==
    \A a \in AmendmentIds :
        \/ amendments'[a] = amendments[a]
        \/ /\ amendments[a].status \in {"absent", "proposed", "noticed"}
           /\ amendments'[a].status \in {"absent", "proposed", "noticed"}

(* A step that neither takes a ballot nor touches a tally, and lets a vote *)
(* pass only by its tally, counts as rightly as before.                    *)
LEMMA CountingKept ==
    ASSUME TypeOK, TypeOK', CountingIsRight,
           ballots' = ballots, contributions' = contributions, crashes <= crashes',
           \A v \in VoteIds : votes'[v].tally = votes[v].tally,
           \A v \in VoteIds : votes'[v].status = "absent" => votes'[v] = votes[v],
           \A v \in VoteIds : votes'[v].status = "passed" =>
                \/ votes'[v] = votes[v]
                \/ \E members \in Nat : Outcome(votes'[v], members) = "passed"
    PROVE  CountingIsRight'
<1>1. IsFiniteSet(ballots)'
  BY DEF CountingIsRight
<1>2. AbsentIsBlank'
  <2>1. PICK t : t = NoVote.tally
    OBVIOUS
  <2>2. (NoVote.tally)' = t
    BY <2>1 DEF NoVote
  <2>3. \A v \in VoteIds : votes[v].status = "absent" => votes[v].tally = t
    BY <2>1 DEF CountingIsRight, AbsentIsBlank
  <2>4. QED
    BY <2>2, <2>3 DEF AbsentIsBlank
<1>3. NobodyCountsTwice'
  BY DEF CountingIsRight, NobodyCountsTwice
<1>4. BallotsLostOnlyInCrashes'
  <2>1. \A v \in VoteIds : Uncounted(v)' = Uncounted(v)
    BY DEF Uncounted, BallotsOn
  <2>3. PICK u : u = LostBallots
    OBVIOUS
  <2>4. LostBallots' = u
    BY <2>1, <2>3 DEF LostBallots
  <2>5. SumFunctionOnSet(u, VoteIds) <= crashes
    BY <2>3, LossIsTheSum DEF CountingIsRight
  <2>6. SumFunctionOnSet(u, VoteIds) \in Int
    <3>1. \A v \in VoteIds : u[v] \in Int
      BY <2>3, UncountedType DEF CountingIsRight, LostBallots
    <3>2. QED
      BY <3>1, SumType, GovernanceAssumption
  <2>7. SumFunctionOnSet(u, VoteIds) <= crashes'
    BY <2>5, <2>6 DEF TypeOK
  <2>8. QED
    BY <2>4, <2>7, LossIsTheSum
<1>5. PassedWasCarried'
  <2> SUFFICES ASSUME NEW v \in VoteIds, votes'[v].status = "passed"
               PROVE  \E members \in Nat : Outcome(votes'[v], members) = "passed"
    BY DEF PassedWasCarried
  <2>1. CASE votes'[v] = votes[v]
    <3>1. PICK members \in Nat : Outcome(votes[v], members) = "passed"
      BY <2>1 DEF CountingIsRight, PassedWasCarried
    <3>2. QED
      BY <2>1, <3>1
  <2>2. QED
    BY <2>1
<1>6. QED
  BY <1>1, <1>2, <1>3, <1>4, <1>5 DEF CountingIsRight

(* A step that leaves the artifact alone, puts nothing to the vote and     *)
(* lets votes go forward keeps the amendments with their votes.            *)
LEMMA AmendingKept ==
    ASSUME TypeOK, AmendingIsRight, VotesOnward, NothingPut,
           artifact' = artifact, noticeOver \subseteq noticeOver'
    PROVE  AmendingIsRight'
<1>1. AmendmentsFollowTheirVotes'
  <2> SUFFICES ASSUME NEW a \in AmendmentIds,
                      amendments'[a].status \in {"voting", "applied", "rejected"}
               PROVE  AmendmentFollows(a)'
    BY DEF AmendmentsFollowTheirVotes, AmendmentFollows, UnderNotice
  <2>1. amendments'[a] = amendments[a]
    BY DEF NothingPut
  <2>2. AmendmentFollows(a)
    BY <2>1 DEF AmendingIsRight, AmendmentsFollowTheirVotes, AmendmentFollows
  <2>3. QED
    BY <2>1, <2>2 DEF AmendmentFollows, UnderNotice, VotesOnward
<1>2. AmendedOnce'
  <2>1. \A i \in DOMAIN artifact : artifact[i].source # Other => artifact[i].source \in AmendmentIds
    <3>1. artifact \in Seq(Versions)
      BY DEF TypeOK, Versions
    <3>2. \A i \in DOMAIN artifact : artifact[i] \in Versions
      BY <3>1, ElementOfSeq, LenProperties
    <3>3. QED
      BY <3>2 DEF Versions
  <2>2. QED
    BY <2>1 DEF AmendingIsRight, AmendedOnce, NothingPut
<1>3. QED
  BY <1>1, <1>2 DEF AmendingIsRight

-----------------------------------------------------------------------------
(* Opening a vote and resolving it. *)

LEMMA OpeningKeeps ==
    ASSUME IInv, NEW v \in VoteIds, NEW decision \in {Other} \cup AmendmentIds,
           NEW method \in Methods, NEW quorum \in Quorums, NEW cut \in Nat,
           VoteOpened(v, decision, method, quorum, cut)
    PROVE  /\ votes[v].status = "absent"
           /\ votes' \in [VoteIds -> VoteRecords]
           /\ VotesOnward
           /\ log' = log \cup {Opened(v)}
           /\ \A w \in VoteIds : votes'[w].tally = votes[w].tally
           /\ \A w \in VoteIds : votes'[w].status = "absent" => votes'[w] = votes[w]
           /\ \A w \in VoteIds : votes'[w].status = "passed" => votes'[w] = votes[w]
           /\ \A w \in VoteIds : votes'[w].status # "absent" => Opened(w) \in log'
           /\ cut >= 2 => votes'[v].status = "open" /\ votes'[v].decision = decision
<1> DEFINE opened == [NoVote EXCEPT !.status = "open", !.decision = decision,
                                    !.method = method, !.quorum = quorum]
<1>1. votes \in [VoteIds -> VoteRecords]
  BY DEF IInv, TypeOK, VoteRecords
<1>2. votes[v].status = "absent"
  BY DEF IInv, RecordedFirst, VoteOpened
<1>3. votes[v].tally = NoVote.tally
  BY <1>2 DEF IInv, CountingIsRight, AbsentIsBlank
<1>4. NoVote \in VoteRecords
  BY Blank
<1>5. /\ opened \in VoteRecords /\ opened.status = "open" /\ opened.decision = decision
      /\ opened.tally = votes[v].tally
  BY <1>3, <1>4 DEF VoteRecords
<1>6. log' = log \cup {Opened(v)} /\ votes' = (IF cut < 2 THEN votes ELSE [votes EXCEPT ![v] = opened])
  BY DEF VoteOpened
<1> HIDE DEF opened
<1>7. votes' \in [VoteIds -> VoteRecords]
  BY <1>1, <1>5, <1>6
<1>8. \A w \in VoteIds : votes'[w] = votes[w] \/ (w = v /\ cut >= 2 /\ votes'[w] = opened)
  BY <1>1, <1>6
<1>9. \A w \in VoteIds : votes'[w].status # "absent" => Opened(w) \in log'
  BY <1>6, <1>8 DEF IInv, RecordedFirst
<1>10. VotesOnward
  BY <1>2, <1>8 DEF VotesOnward
<1>11. cut >= 2 => votes'[v] = opened
  BY <1>1, <1>6
<1>12. QED
  BY <1>2, <1>5, <1>6, <1>7, <1>8, <1>9, <1>10, <1>11

(* What every action but the casting of a ballot, the vote on an amendment *)
(* and the writing of the artifact has to show.                            *)
LEMMA QuietKeeps ==
    ASSUME IInv, TypeOK', VotesOnward, NothingPut,
           UNCHANGED <<ballots, contributions, artifact>>,
           crashes <= crashes', noticeOver \subseteq noticeOver', log \subseteq log',
           \A v \in VoteIds : votes'[v].tally = votes[v].tally,
           \A v \in VoteIds : votes'[v].status = "absent" => votes'[v] = votes[v],
           \A v \in VoteIds : votes'[v].status = "passed" =>
                \/ votes'[v] = votes[v]
                \/ \E members \in Nat : Outcome(votes'[v], members) = "passed",
           \A v \in VoteIds : votes'[v].status # "absent" => Opened(v) \in log',
           \A a \in AmendmentIds : amendments'[a].status # "absent" => Proposed(a) \in log'
    PROVE  IInv'
<1>1. CountingIsRight'
  BY CountingKept DEF IInv
<1>2. AmendingIsRight'
  BY AmendingKept DEF IInv
<1>3. RecordedFirst'
  BY DEF IInv, RecordedFirst, Opened, Proposed, Written
<1>4. QED
  BY <1>1, <1>2, <1>3 DEF IInv

LEMMA OpenVoteKeeps ==
    ASSUME IInv, NEW v \in VoteIds, OpenVote(v)
    PROVE  IInv'
<1>1. PICK decision \in Decisions, method \in Methods, quorum \in Quorums, cut \in Cuts(2) :
        /\ VoteOpened(v, decision, method, quorum, cut)
        /\ CountCrash(cut, 2)
        /\ UNCHANGED <<ballots, amendments, artifact, contributions, clockVars>>
  BY DEF OpenVote
<1>2. decision \in {Other} \cup AmendmentIds
  BY GovernanceAssumption DEF Other
<1>3. TypeOK /\ crashes \in 0..MaxCrashes
  BY DEF IInv, TypeOK
<1>4. cut \in 1..2 /\ crashes' \in 0..MaxCrashes /\ crashes <= crashes'
  BY <1>1, <1>3, Cutting
<1>5. /\ votes' \in [VoteIds -> VoteRecords] /\ VotesOnward /\ log' = log \cup {Opened(v)}
      /\ \A w \in VoteIds : votes'[w].tally = votes[w].tally
      /\ \A w \in VoteIds : votes'[w].status = "absent" => votes'[w] = votes[w]
      /\ \A w \in VoteIds : votes'[w].status = "passed" => votes'[w] = votes[w]
      /\ \A w \in VoteIds : votes'[w].status # "absent" => Opened(w) \in log'
  BY <1>1, <1>2, <1>4, OpeningKeeps
<1>6. TypeOK'
  BY <1>1, <1>3, <1>4, <1>5 DEF TypeOK, VoteRecords, clockVars
<1>7. \A a \in AmendmentIds : amendments'[a].status # "absent" => Proposed(a) \in log'
  BY <1>1, <1>5 DEF IInv, RecordedFirst
<1>8. NothingPut
  BY <1>1 DEF NothingPut
<1>9. QED
  BY <1>1, <1>4, <1>5, <1>6, <1>7, <1>8, QuietKeeps DEF clockVars

(* The outcome of a vote is one of two, and does not depend on its status. *)
LEMMA Outcomes ==
    ASSUME NEW vote \in VoteRecords, NEW members, NEW status \in {"passed", "failed"}
    PROVE  /\ Outcome(vote, members) \in {"passed", "failed"}
           /\ Outcome([vote EXCEPT !.status = status], members) = Outcome(vote, members)
<1>1. PICK decided : decided = [vote EXCEPT !.status = status]
  OBVIOUS
<1>2. decided.tally = vote.tally /\ decided.method = vote.method /\ decided.quorum = vote.quorum
  BY <1>1 DEF VoteRecords
<1>3. Outcome(decided, members) = Outcome(vote, members)
  BY <1>2 DEF Outcome
<1>4. Outcome(vote, members) \in {"passed", "failed"}
  BY DEF Outcome
<1>5. QED
  BY <1>1, <1>3, <1>4

LEMMA ResolveVoteKeeps ==
    ASSUME IInv, NEW v \in VoteIds, ResolveVote(v)
    PROVE  IInv'
<1>1. PICK cut \in Cuts(2) :
        /\ votes[v].status = "open"
        /\ votes' = [votes EXCEPT ![v].status = Outcome(votes[v], MemberCount)]
        /\ log' = IF cut < 2 THEN log ELSE log \cup {Resolved(v)}
        /\ CountCrash(cut, 2)
        /\ UNCHANGED <<ballots, amendments, artifact, contributions, clockVars>>
  BY DEF ResolveVote
<1>2. TypeOK /\ crashes \in 0..MaxCrashes /\ votes \in [VoteIds -> VoteRecords]
  BY DEF IInv, TypeOK, VoteRecords
<1>3. crashes' \in 0..MaxCrashes /\ crashes <= crashes'
  BY <1>1, <1>2, Cutting
<1>4. MemberCount \in Nat
  <2>1. artifact \in Seq(Versions)
    BY <1>2 DEF TypeOK, Versions
  <2>2. artifact # <<>> => artifact[Len(artifact)] \in Versions
    BY <2>1, ElementOfSeq, EmptySeq, LenProperties
  <2>3. QED
    BY <2>2, GovernanceAssumption DEF MemberCount, Versions
<1>5. PICK members \in Nat : members = MemberCount
  BY <1>4
<1>6. PICK result : result = Outcome(votes[v], members)
  OBVIOUS
<1>7. /\ result \in {"passed", "failed"}
      /\ Outcome([votes[v] EXCEPT !.status = result], members) = result
  BY <1>2, <1>6, Outcomes
<1>8. votes' = [votes EXCEPT ![v] = [votes[v] EXCEPT !.status = result]]
  BY <1>1, <1>2, <1>5, <1>6
<1>9. \A w \in VoteIds :
        votes'[w] = votes[w] \/ (w = v /\ votes'[w] = [votes[v] EXCEPT !.status = result])
  BY <1>2, <1>8
<1>10. \A w \in VoteIds : votes'[w].status = "passed" =>
            votes'[w] = votes[w] \/ \E n \in Nat : Outcome(votes'[w], n) = "passed"
  <2> SUFFICES ASSUME NEW w \in VoteIds, votes'[w].status = "passed", votes'[w] # votes[w]
               PROVE  \E n \in Nat : Outcome(votes'[w], n) = "passed"
    OBVIOUS
  <2>1. votes'[w] = [votes[v] EXCEPT !.status = result] /\ result = "passed"
    BY <1>2, <1>9 DEF VoteRecords
  <2>2. Outcome(votes'[w], members) = "passed"
    BY <1>7, <2>1
  <2>3. QED
    BY <2>2
<1>11. /\ \A w \in VoteIds : votes'[w].tally = votes[w].tally
       /\ \A w \in VoteIds : votes'[w].status = "absent" => votes'[w] = votes[w]
       /\ \A w \in VoteIds : votes'[w].status # "absent" => votes[w].status # "absent"
       /\ VotesOnward
       /\ votes' \in [VoteIds -> VoteRecords]
  BY <1>1, <1>2, <1>7, <1>8, <1>9 DEF VotesOnward, VoteRecords
<1>12. log \subseteq log'
  BY <1>1
<1>13. TypeOK'
  BY <1>1, <1>2, <1>3, <1>11 DEF TypeOK, VoteRecords, clockVars
<1>14. /\ \A w \in VoteIds : votes'[w].status # "absent" => Opened(w) \in log'
       /\ \A a \in AmendmentIds : amendments'[a].status # "absent" => Proposed(a) \in log'
  BY <1>1, <1>11, <1>12 DEF IInv, RecordedFirst
<1>15. NothingPut
  BY <1>1 DEF NothingPut
<1>16. QED
  BY <1>1, <1>3, <1>10, <1>11, <1>12, <1>13, <1>14, <1>15, QuietKeeps DEF clockVars

-----------------------------------------------------------------------------
(* Amendments up to the vote, and the clock. *)

LEMMA ProposeAmendmentKeeps ==
    ASSUME IInv, NEW a \in AmendmentIds, ProposeAmendment(a)
    PROVE  IInv'
<1>1. PICK payload \in Counts \cup {BadPayload}, notice \in BOOLEAN, cut \in Cuts(2) :
        /\ Proposed(a) \notin log
        /\ log' = log \cup {Proposed(a)}
        /\ amendments' = IF cut < 2 THEN amendments
                         ELSE [amendments EXCEPT ![a] =
                                 [status |-> "proposed", notice |-> notice,
                                  payload |-> payload, vote |-> None]]
        /\ CountCrash(cut, 2)
        /\ UNCHANGED <<votes, ballots, artifact, contributions, clockVars>>
  BY DEF ProposeAmendment
<1>2. TypeOK /\ crashes \in 0..MaxCrashes
  BY DEF IInv, TypeOK
<1>3. crashes' \in 0..MaxCrashes /\ crashes <= crashes'
  BY <1>1, <1>2, Cutting
<1>4. amendments[a].status = "absent"
  BY <1>1 DEF IInv, RecordedFirst
<1>5. TypeOK'
  BY <1>1, <1>2, <1>3 DEF TypeOK, clockVars
<1>6. NothingPut
  BY <1>1, <1>2, <1>4 DEF NothingPut, TypeOK
<1>7. VotesOnward
  BY <1>1 DEF VotesOnward
<1>8. /\ \A w \in VoteIds : votes'[w].status # "absent" => Opened(w) \in log'
      /\ \A b \in AmendmentIds : amendments'[b].status # "absent" => Proposed(b) \in log'
  BY <1>1, <1>2 DEF IInv, RecordedFirst, TypeOK
<1>9. QED
  BY <1>1, <1>3, <1>5, <1>6, <1>7, <1>8, QuietKeeps DEF clockVars

LEMMA GiveNoticeKeeps ==
    ASSUME IInv, NEW a \in AmendmentIds, GiveNotice(a)
    PROVE  IInv'
<1>1. /\ amendments[a].status = "proposed"
      /\ amendments' = [amendments EXCEPT ![a].status = "noticed"]
      /\ UNCHANGED <<votes, ballots, artifact, contributions, log, closed, noticeOver, crashes>>
  BY DEF GiveNotice, clockVars
<1>2. TypeOK
  BY DEF IInv
<1>3. TypeOK'
  BY <1>1, <1>2 DEF TypeOK
<1>4. NothingPut
  BY <1>1, <1>2 DEF NothingPut, TypeOK
<1>5. VotesOnward
  BY <1>1 DEF VotesOnward
<1>6. /\ \A w \in VoteIds : votes'[w].status # "absent" => Opened(w) \in log'
      /\ \A b \in AmendmentIds : amendments'[b].status # "absent" => Proposed(b) \in log'
  BY <1>1, <1>2 DEF IInv, RecordedFirst, TypeOK
<1>7. crashes <= crashes'
  BY <1>1, <1>2 DEF TypeOK
<1>8. QED
  BY <1>1, <1>3, <1>4, <1>5, <1>6, <1>7, QuietKeeps

(* The clock, and steps that change nothing. *)
LEMMA ClockKeeps ==
    ASSUME IInv, UNCHANGED <<orgVars, crashes>>,
           closed' \in SUBSET VoteIds, noticeOver' \in SUBSET AmendmentIds,
           noticeOver \subseteq noticeOver'
    PROVE  IInv'
<1>1. UNCHANGED <<votes, ballots, amendments, artifact, contributions, log, crashes>>
  BY DEF orgVars
<1>2. TypeOK /\ TypeOK'
  BY <1>1 DEF IInv, TypeOK
<1>3. VotesOnward /\ NothingPut /\ crashes <= crashes'
  BY <1>1, <1>2 DEF VotesOnward, NothingPut, TypeOK
<1>4. /\ \A w \in VoteIds : votes'[w].status # "absent" => Opened(w) \in log'
      /\ \A b \in AmendmentIds : amendments'[b].status # "absent" => Proposed(b) \in log'
  BY <1>1 DEF IInv, RecordedFirst
<1>5. QED
  BY <1>1, <1>2, <1>3, <1>4, QuietKeeps

LEMMA VoteClosesKeeps ==
    ASSUME IInv, NEW v \in VoteIds, VoteCloses(v)
    PROVE  IInv'
BY ClockKeeps DEF VoteCloses, IInv, TypeOK

LEMMA NoticeEndsKeeps ==
    ASSUME IInv, NEW a \in AmendmentIds, NoticeEnds(a)
    PROVE  IInv'
BY ClockKeeps DEF NoticeEnds, IInv, TypeOK

-----------------------------------------------------------------------------
(* The vote on an amendment, and what comes of it. *)

(* A step after which amendment `a`, and no other that is put to the vote, *)
(* has changed.                                                            *)
LEMMA OthersFollow ==
    ASSUME TypeOK, AmendmentsFollowTheirVotes, VotesOnward, noticeOver \subseteq noticeOver',
           NEW a \in AmendmentIds, \A b \in AmendmentIds \ {a} : amendments'[b] = amendments[b],
           amendments'[a].status \in {"voting", "applied", "rejected"} => AmendmentFollows(a)'
    PROVE  AmendmentsFollowTheirVotes'
<1> SUFFICES ASSUME NEW b \in AmendmentIds,
                    amendments'[b].status \in {"voting", "applied", "rejected"}, b # a
             PROVE  AmendmentFollows(b)'
  BY DEF AmendmentsFollowTheirVotes, AmendmentFollows, UnderNotice
<1>1. amendments'[b] = amendments[b]
  OBVIOUS
<1>2. AmendmentFollows(b)
  BY <1>1 DEF AmendmentsFollowTheirVotes, AmendmentFollows
<1>3. QED
  BY <1>1, <1>2 DEF AmendmentFollows, UnderNotice, VotesOnward

(* The sources of the versions are amendments, or nobody's.                *)
LEMMA Sources ==
    ASSUME TypeOK
    PROVE  /\ artifact \in Seq(Versions)
           /\ \A i \in DOMAIN artifact : artifact[i] \in Versions
           /\ \A i \in DOMAIN artifact : artifact[i].source # Other => artifact[i].source \in AmendmentIds
<1>1. artifact \in Seq(Versions)
  BY DEF TypeOK, Versions
<1>2. \A i \in DOMAIN artifact : artifact[i] \in Versions
  BY <1>1, ElementOfSeq, LenProperties
<1>3. QED
  BY <1>1, <1>2 DEF Versions

(* The versions are what they should be as long as the amendments that      *)
(* wrote them are left alone.                                              *)
LEMMA VersionsKept ==
    ASSUME AmendedOnce, artifact' = artifact,
           \A i \in DOMAIN artifact : artifact[i].source # Other =>
                amendments'[artifact[i].source] = amendments[artifact[i].source]
    PROVE  AmendedOnce'
BY DEF AmendedOnce

LEMMA PutToVoteKeeps ==
    ASSUME IInv, NEW a \in AmendmentIds, NEW v \in VoteIds, PutToVote(a, v)
    PROVE  IInv'
<1>1. PICK method \in Methods, quorum \in Quorums, cut \in Cuts(3) :
        /\ amendments[a].status \in {"proposed", "noticed"}
        /\ ~UnderNotice(a)
        /\ VoteOpened(v, a, method, quorum, cut)
        /\ amendments' = IF cut < 3 THEN amendments
                         ELSE [amendments EXCEPT ![a].status = "voting", ![a].vote = v]
        /\ CountCrash(cut, 3)
        /\ UNCHANGED <<ballots, artifact, contributions, clockVars>>
  BY DEF PutToVote
<1>2. TypeOK /\ crashes \in 0..MaxCrashes
  BY DEF IInv, TypeOK
<1>3. cut \in 1..3 /\ crashes' \in 0..MaxCrashes /\ crashes <= crashes'
  BY <1>1, <1>2, Cutting
<1>4. /\ votes' \in [VoteIds -> VoteRecords] /\ VotesOnward /\ log' = log \cup {Opened(v)}
      /\ \A w \in VoteIds : votes'[w].tally = votes[w].tally
      /\ \A w \in VoteIds : votes'[w].status = "absent" => votes'[w] = votes[w]
      /\ \A w \in VoteIds : votes'[w].status = "passed" => votes'[w] = votes[w]
      /\ \A w \in VoteIds : votes'[w].status # "absent" => Opened(w) \in log'
      /\ cut >= 2 => votes'[v].status = "open" /\ votes'[v].decision = a
  BY <1>1, <1>3, OpeningKeeps
<1>5. TypeOK'
  <2>1. amendments' \in [AmendmentIds -> AmendmentRecords]
    <3>1. amendments \in [AmendmentIds -> AmendmentRecords]
      BY <1>2 DEF TypeOK, AmendmentRecords
    <3>2. [amendments[a] EXCEPT !.status = "voting", !.vote = v] \in AmendmentRecords
      BY <3>1 DEF AmendmentRecords
    <3>3. CASE cut < 3
      BY <1>1, <3>1, <3>3
    <3>4. CASE ~(cut < 3)
      BY <1>1, <3>1, <3>2, <3>4
    <3>5. QED
      BY <3>3, <3>4
  <2>2. QED
    BY <1>1, <1>2, <1>3, <1>4, <2>1 DEF TypeOK, VoteRecords, AmendmentRecords, clockVars
<1>6. CountingIsRight'
  BY <1>1, <1>2, <1>3, <1>4, <1>5, CountingKept DEF IInv
<1>7. RecordedFirst'
  <2>1. \A b \in AmendmentIds : amendments'[b].status # "absent" => Proposed(b) \in log'
    BY <1>1, <1>2, <1>4 DEF IInv, RecordedFirst, TypeOK
  <2>2. \A i \in DOMAIN artifact' : Written(i) \in log'
    BY <1>1, <1>4 DEF IInv, RecordedFirst
  <2>3. QED
    BY <1>4, <2>1, <2>2 DEF RecordedFirst, Opened, Proposed, Written
<1>8. AmendmentsFollowTheirVotes'
  <2>1. \A b \in AmendmentIds \ {a} : amendments'[b] = amendments[b]
    BY <1>1, <1>2 DEF TypeOK
  <2>2. ASSUME amendments'[a].status \in {"voting", "applied", "rejected"}
        PROVE  AmendmentFollows(a)'
    <3>1. cut = 3
      BY <1>1, <1>3, <2>2
    <3>2. amendments'[a] = [amendments[a] EXCEPT !.status = "voting", !.vote = v]
      BY <1>1, <1>2, <3>1 DEF TypeOK
    <3>3. amendments'[a].status = "voting" /\ amendments'[a].vote = v
          /\ amendments'[a].notice = amendments[a].notice
      BY <1>2, <3>2 DEF TypeOK
    <3>4. QED
      BY <1>1, <1>4, <3>1, <3>3 DEF AmendmentFollows, UnderNotice, clockVars
  <2>3. QED
    BY <1>1, <1>2, <1>4, <2>1, <2>2, OthersFollow DEF IInv, AmendingIsRight, clockVars
<1>9. AmendedOnce'
  <2>1. \A i \in DOMAIN artifact : artifact[i].source # a
    BY <1>1, <1>2, GovernanceAssumption DEF IInv, AmendingIsRight, AmendedOnce, Other
  <2>2. \A b \in AmendmentIds \ {a} : amendments'[b] = amendments[b]
    BY <1>1, <1>2 DEF TypeOK
  <2>3. \A i \in DOMAIN artifact : artifact[i].source # Other =>
            amendments'[artifact[i].source] = amendments[artifact[i].source]
    BY <1>2, <2>1, <2>2, Sources
  <2>4. QED
    BY <1>1, <2>3, VersionsKept DEF IInv, AmendingIsRight
<1>10. QED
  BY <1>5, <1>6, <1>7, <1>8, <1>9 DEF IInv, AmendingIsRight

LEMMA RejectAmendmentKeeps ==
    ASSUME IInv, NEW a \in AmendmentIds, RejectAmendment(a)
    PROVE  IInv'
<1>1. /\ CanApply(a) /\ ~VotePassed(a)
      /\ amendments' = [amendments EXCEPT ![a].status = "rejected"]
      /\ UNCHANGED <<votes, ballots, artifact, contributions, log, closed, noticeOver, crashes>>
  BY DEF RejectAmendment, clockVars
<1>2. TypeOK /\ crashes <= crashes'
  BY <1>1 DEF IInv, TypeOK
<1>3. /\ amendments[a] \in AmendmentRecords
      /\ amendments'[a] = [amendments[a] EXCEPT !.status = "rejected"]
      /\ \A b \in AmendmentIds \ {a} : amendments'[b] = amendments[b]
  BY <1>1, <1>2 DEF TypeOK, AmendmentRecords
<1>4. TypeOK'
  BY <1>1, <1>2 DEF TypeOK
<1>5. CountingIsRight'
  BY <1>1, <1>2, <1>4, CountingKept DEF IInv
<1>6. RecordedFirst'
  <2>1. \A b \in AmendmentIds : amendments'[b].status # "absent" => amendments[b].status # "absent"
    BY <1>1, <1>3 DEF CanApply
  <2>2. QED
    BY <1>1, <2>1 DEF IInv, RecordedFirst, Opened, Proposed, Written
<1>7. VotesOnward
  BY <1>1 DEF VotesOnward
<1>8. AmendmentFollows(a)'
  <2>1. AmendmentFollows(a) /\ votes[amendments[a].vote].status = "failed"
    BY <1>1, <1>2 DEF IInv, AmendingIsRight, AmendmentsFollowTheirVotes, AmendmentFollows,
                      CanApply, VotePassed, TypeOK
  <2>2. /\ amendments'[a].status = "rejected" /\ amendments'[a].vote = amendments[a].vote
        /\ amendments'[a].notice = amendments[a].notice
    BY <1>3 DEF AmendmentRecords
  <2>3. QED
    BY <1>1, <2>1, <2>2 DEF AmendmentFollows, UnderNotice
<1>9. AmendmentsFollowTheirVotes'
  BY <1>1, <1>2, <1>3, <1>7, <1>8, OthersFollow DEF IInv, AmendingIsRight
<1>10. AmendedOnce'
  <2>1. \A i \in DOMAIN artifact : artifact[i].source # Other =>
            amendments'[artifact[i].source] = amendments[artifact[i].source]
    BY <1>1, <1>2, <1>3, Sources DEF IInv, AmendingIsRight, AmendedOnce, CanApply
  <2>2. QED
    BY <1>1, <2>1, VersionsKept DEF IInv, AmendingIsRight
<1>11. QED
  BY <1>4, <1>5, <1>6, <1>9, <1>10 DEF IInv, AmendingIsRight

-----------------------------------------------------------------------------
(* Writing the artifact. *)

(* What the writes of writeArtifact do to the log and to the versions.     *)
LEMMA Writing ==
    ASSUME IInv, NEW payload \in Counts, NEW source \in {Other} \cup AmendmentIds,
           NEW logged, log \subseteq logged, NEW first \in Nat, NEW cut \in Nat,
           WriteArtifact(payload, source, logged, first, cut)
    PROVE  /\ artifact' \in Seq(Versions)
           /\ log \subseteq log' /\ logged \subseteq log'
           /\ \A i \in DOMAIN artifact' : Written(i) \in log'
           /\ \/ artifact' = artifact
              \/ /\ DOMAIN artifact' = DOMAIN artifact \cup {Len(artifact) + 1}
                 /\ Len(artifact) + 1 \notin DOMAIN artifact
                 /\ \A i \in DOMAIN artifact : artifact'[i] = artifact[i]
                 /\ artifact'[Len(artifact) + 1] = [payload |-> payload, source |-> source]
<1> DEFINE version == [payload |-> payload, source |-> source]
<1>1. artifact \in Seq(Versions) /\ version \in Versions
  BY Sources DEF IInv, Versions
<1>2. /\ log' = IF cut < first THEN logged ELSE logged \cup {Written(Len(artifact) + 1)}
      /\ artifact' = IF cut < first + 1 THEN artifact ELSE Append(artifact, version)
  BY DEF WriteArtifact
<1> HIDE DEF version
<1>3. /\ Append(artifact, version) \in Seq(Versions)
      /\ Len(Append(artifact, version)) = Len(artifact) + 1
      /\ \A i \in 1..Len(artifact) : Append(artifact, version)[i] = artifact[i]
      /\ Append(artifact, version)[Len(artifact) + 1] = version
  BY <1>1, AppendProperties
<1>4. /\ Len(artifact) \in Nat /\ DOMAIN artifact = 1..Len(artifact)
      /\ DOMAIN Append(artifact, version) = 1..Len(artifact) + 1
  BY <1>1, <1>3, LenProperties
<1>5. \A i \in DOMAIN artifact : Written(i) \in log
  BY DEF IInv, RecordedFirst
<1>6. CASE cut < first + 1
  BY <1>1, <1>2, <1>5, <1>6
<1>7. CASE ~(cut < first + 1)
  <2>1. artifact' = Append(artifact, version) /\ log' = logged \cup {Written(Len(artifact) + 1)}
    BY <1>2, <1>7
  <2>2. /\ DOMAIN artifact' = DOMAIN artifact \cup {Len(artifact) + 1}
        /\ Len(artifact) + 1 \notin DOMAIN artifact
    BY <1>4, <2>1
  <2>3. \A i \in DOMAIN artifact' : Written(i) \in log'
    BY <1>5, <2>1, <2>2
  <2>4. \A i \in DOMAIN artifact : artifact'[i] = artifact[i]
    BY <1>3, <1>4, <2>1
  <2>5. artifact'[Len(artifact) + 1] = version
    BY <1>3, <2>1
  <2>6. QED
    BY <1>3, <2>1, <2>2, <2>3, <2>4, <2>5 DEF version
<1>8. QED
  BY <1>6, <1>7

LEMMA WriteConfigKeeps ==
    ASSUME IInv, NEW payload \in Counts, WriteConfig(payload)
    PROVE  IInv'
<1>1. PICK cut \in Cuts(2) :
        /\ WriteArtifact(payload, Other, log, 1, cut)
        /\ CountCrash(cut, 2)
        /\ UNCHANGED <<votes, ballots, amendments, contributions, closed, noticeOver>>
  BY DEF WriteConfig, clockVars
<1>2. TypeOK /\ crashes \in 0..MaxCrashes
  BY DEF IInv, TypeOK
<1>3. cut \in 1..2 /\ crashes' \in 0..MaxCrashes /\ crashes <= crashes'
  BY <1>1, <1>2, Cutting
<1>4. /\ artifact' \in Seq(Versions)
      /\ log \subseteq log'
      /\ \A i \in DOMAIN artifact' : Written(i) \in log'
      /\ \/ artifact' = artifact
         \/ /\ DOMAIN artifact' = DOMAIN artifact \cup {Len(artifact) + 1}
            /\ Len(artifact) + 1 \notin DOMAIN artifact
            /\ \A i \in DOMAIN artifact : artifact'[i] = artifact[i]
            /\ artifact'[Len(artifact) + 1] = [payload |-> payload, source |-> Other]
  <2>1. PICK source, logged, first : source = Other /\ logged = log /\ first = 1
    OBVIOUS
  <2>2. WriteArtifact(payload, source, logged, first, cut)
    BY <1>1, <2>1
  <2>3. source \in {Other} \cup AmendmentIds /\ log \subseteq logged /\ first \in Nat /\ cut \in Nat
    BY <1>3, <2>1
  <2>4. QED
    BY <2>1, <2>2, <2>3, Writing
<1>5. TypeOK'
  BY <1>1, <1>2, <1>3, <1>4 DEF TypeOK, Versions
<1>6. CountingIsRight'
  BY <1>1, <1>2, <1>3, <1>5, CountingKept DEF IInv
<1>7. RecordedFirst'
  BY <1>1, <1>4 DEF IInv, RecordedFirst, Opened, Proposed, Written
<1>8. AmendmentsFollowTheirVotes'
  BY <1>1 DEF IInv, AmendingIsRight, AmendmentsFollowTheirVotes, UnderNotice
<1>9. AmendedOnce'
  BY <1>1, <1>4 DEF IInv, AmendingIsRight, AmendedOnce
<1>10. QED
  BY <1>5, <1>6, <1>7, <1>8, <1>9 DEF IInv, AmendingIsRight

LEMMA ApplyAmendmentKeeps ==
    ASSUME IInv, NEW a \in AmendmentIds, ApplyAmendment(a)
    PROVE  IInv'
<1> DEFINE valid == amendments[a].payload # BadPayload
           n == IF valid THEN 4 ELSE 2
<1>1. PICK cut \in Cuts(n) :
        /\ CanApply(a)
        /\ VotePassed(a)
        /\ amendments' = [amendments EXCEPT ![a].status = "applied"]
        /\ LET logged == IF cut < 2 THEN log ELSE log \cup {Applied(a)}
           IN  IF valid
               THEN WriteArtifact(amendments[a].payload, a, logged, 3, cut)
               ELSE log' = logged /\ UNCHANGED artifact
        /\ CountCrash(cut, n)
        /\ UNCHANGED <<votes, ballots, contributions, closed, noticeOver>>
  BY DEF ApplyAmendment, clockVars
<1>2. TypeOK /\ crashes \in 0..MaxCrashes
  BY DEF IInv, TypeOK
<1>3. cut \in Nat /\ crashes' \in 0..MaxCrashes /\ crashes <= crashes'
  <2>1. n \in Nat /\ n > 0
    OBVIOUS
  <2>2. QED
    BY <1>1, <1>2, <2>1, Cutting
<1>4. /\ amendments[a] \in AmendmentRecords
      /\ amendments'[a] = [amendments[a] EXCEPT !.status = "applied"]
      /\ \A b \in AmendmentIds \ {a} : amendments'[b] = amendments[b]
  BY <1>1, <1>2 DEF TypeOK, AmendmentRecords
<1>5. /\ artifact' \in Seq(Versions)
      /\ log \subseteq log'
      /\ \A i \in DOMAIN artifact' : Written(i) \in log'
      /\ \/ artifact' = artifact
         \/ /\ DOMAIN artifact' = DOMAIN artifact \cup {Len(artifact) + 1}
            /\ Len(artifact) + 1 \notin DOMAIN artifact
            /\ \A i \in DOMAIN artifact : artifact'[i] = artifact[i]
            /\ artifact'[Len(artifact) + 1] = [payload |-> amendments[a].payload, source |-> a]
  <2>1. CASE valid
    <3>1. amendments[a].payload \in Counts
      BY <1>4, <2>1 DEF AmendmentRecords
    <3>2. PICK logged : /\ log \subseteq logged
                        /\ WriteArtifact(amendments[a].payload, a, logged, 3, cut)
      BY <1>1, <2>1
    <3>3. QED
      BY <1>3, <3>1, <3>2, Writing
  <2>2. CASE ~valid
    <3>1. artifact' = artifact /\ log \subseteq log'
      BY <1>1, <2>2
    <3>2. QED
      BY <1>2, <3>1, Sources DEF IInv, RecordedFirst
  <2>3. QED
    BY <2>1, <2>2
<1> HIDE DEF valid, n
<1>6. TypeOK'
  BY <1>1, <1>2, <1>3, <1>5, SMTT(20) DEF TypeOK, Versions
<1>7. CountingIsRight'
  BY <1>1, <1>2, <1>3, <1>6, CountingKept DEF IInv
<1>8. RecordedFirst'
  <2>1. \A b \in AmendmentIds : amendments'[b].status # "absent" => amendments[b].status # "absent"
    BY <1>1, <1>4 DEF CanApply
  <2>2. QED
    BY <1>1, <1>5, <2>1 DEF IInv, RecordedFirst, Opened, Proposed, Written
<1>9. VotesOnward
  BY <1>1 DEF VotesOnward
<1>10. /\ amendments'[a].status = "applied" /\ amendments'[a].vote = amendments[a].vote
       /\ amendments'[a].notice = amendments[a].notice
       /\ amendments'[a].payload = amendments[a].payload
  BY <1>4 DEF AmendmentRecords
<1>11. AmendmentsFollowTheirVotes'
  <2>1. AmendmentFollows(a) /\ votes[amendments[a].vote].status = "passed"
    BY <1>1 DEF IInv, AmendingIsRight, AmendmentsFollowTheirVotes, AmendmentFollows,
                CanApply, VotePassed
  <2>2. AmendmentFollows(a)'
    BY <1>1, <1>10, <2>1 DEF AmendmentFollows, UnderNotice
  <2>3. QED
    BY <1>1, <1>2, <1>4, <1>9, <2>2, OthersFollow DEF IInv, AmendingIsRight
<1>12. AmendedOnce'
  <2>1. \A i \in DOMAIN artifact : artifact[i].source # a
    BY <1>1, GovernanceAssumption DEF IInv, AmendingIsRight, AmendedOnce, CanApply, Other
  <2>2. \A i \in DOMAIN artifact : artifact[i].source # Other =>
            amendments'[artifact[i].source] = amendments[artifact[i].source]
    BY <1>2, <1>4, <2>1, Sources
  <2>3. CASE artifact' = artifact
    BY <2>2, <2>3, VersionsKept DEF IInv, AmendingIsRight
  <2>4. CASE artifact' # artifact
    BY <1>5, <1>10, <2>1, <2>2, <2>4 DEF IInv, AmendingIsRight, AmendedOnce
  <2>5. QED
    BY <2>3, <2>4
<1>13. QED
  BY <1>6, <1>7, <1>8, <1>11, <1>12 DEF IInv, AmendingIsRight

-----------------------------------------------------------------------------
(* Casting a ballot. *)

(* One more ballot on file is one more in each set of ballots it belongs   *)
(* to.                                                                     *)
LEMMA OneMore ==
    ASSUME NEW B, IsFiniteSet(B), NEW b, b \notin B, NEW S, S \subseteq B
    PROVE  Cardinality(S) \in Nat /\ Cardinality(S \cup {b}) = Cardinality(S) + 1
<1>1. IsFiniteSet(S) /\ Cardinality(S) \in Nat
  BY FS_Subset, FS_CardinalityType
<1>2. b \notin S
  OBVIOUS
<1>3. QED
  BY <1>1, <1>2, FS_AddElement

LEMMA CastBallotKeeps ==
    ASSUME IInv, NEW m \in Members, NEW v \in VoteIds, CastBallot(m, v)
    PROVE  IInv'
<1> DEFINE n == IF TracksVotes THEN 3 ELSE 2
<1>1. PICK choice \in Answers, cut \in Cuts(n) :
        /\ votes[v].status = "open"
        /\ \A x \in BallotsOn(v) : x.member # m
        /\ ballots' = ballots \cup {[vote |-> v, member |-> m, choice |-> choice]}
        /\ votes' = IF cut < 2 THEN votes
                    ELSE [votes EXCEPT ![v].tally[choice] = @ + 1]
        /\ contributions' = IF cut < 3 THEN contributions
                            ELSE [contributions EXCEPT ![m] = @ + 1]
        /\ CountCrash(cut, n)
        /\ UNCHANGED <<amendments, artifact, log, closed, noticeOver>>
  BY DEF CastBallot, clockVars
<1>2. TypeOK /\ crashes \in 0..MaxCrashes /\ IsFiniteSet(ballots)
  BY DEF IInv, TypeOK, CountingIsRight
<1>3. /\ cut \in Nat /\ cut > 0 /\ crashes' \in 0..MaxCrashes /\ crashes <= crashes'
      /\ cut < 2 => crashes' = crashes + 1
  <2>1. n \in Nat /\ n >= 2
    OBVIOUS
  <2> HIDE DEF n
  <2>2. /\ cut \in 1..n /\ crashes' \in 0..MaxCrashes
        /\ crashes' = crashes + (IF cut < n THEN 1 ELSE 0)
    BY <1>1, <1>2, <2>1, Cutting
  <2>3. QED
    BY <1>2, <2>1, <2>2
<1> HIDE DEF n
<1>4. PICK b : b = [vote |-> v, member |-> m, choice |-> choice]
  OBVIOUS
<1>5. b.vote = v /\ b.member = m /\ b.choice = choice
  BY <1>4
<1>6. ballots' = ballots \cup {b} /\ b \notin ballots
  BY <1>1, <1>4, <1>5 DEF BallotsOn
<1>7. PICK tallied : tallied = [votes[v].tally EXCEPT ![choice] = @ + 1]
  OBVIOUS
<1>8. votes \in [VoteIds -> VoteRecords] /\ votes[v].tally \in [Answers -> Nat]
  BY <1>2 DEF TypeOK, VoteRecords
<1>9. PICK voted : voted = [votes[v] EXCEPT !.tally = tallied]
  OBVIOUS
<1>10. /\ voted \in VoteRecords /\ voted.tally = tallied /\ tallied \in [Answers -> Nat]
       /\ voted.status = "open" /\ voted.decision = votes[v].decision
  BY <1>1, <1>7, <1>8, <1>9, SMTT(20) DEF VoteRecords
<1>11. /\ cut < 2 => votes' = votes
       /\ cut >= 2 => votes' = [votes EXCEPT ![v] = voted]
  BY <1>1, <1>3, <1>7, <1>8, <1>9
<1>12. \A w \in VoteIds : votes'[w] = votes[w] \/ (w = v /\ cut >= 2 /\ votes'[w] = voted)
  BY <1>3, <1>8, <1>11
<1>13. TypeOK'
  <2>1. votes' \in [VoteIds -> VoteRecords]
    BY <1>3, <1>8, <1>10, <1>11
  <2>2. contributions' \in [Members -> Nat]
    BY <1>1, <1>2 DEF TypeOK
  <2>3. ballots' \subseteq [vote : VoteIds, member : Members, choice : Answers]
    BY <1>2, <1>4, <1>6 DEF TypeOK
  <2>4. QED
    BY <1>1, <1>2, <1>3, <2>1, <2>2, <2>3 DEF TypeOK, VoteRecords
<1>14. IsFiniteSet(ballots')
  BY <1>2, <1>6, FS_AddElement
<1>15. /\ VotesOnward /\ NothingPut
       /\ \A w \in VoteIds : votes'[w].status = votes[w].status
  BY <1>1, <1>10, <1>12 DEF VotesOnward, NothingPut
<1>16. AmendingIsRight'
  BY <1>1, <1>2, <1>15, AmendingKept DEF IInv
<1>17. RecordedFirst'
  BY <1>1, <1>15 DEF IInv, RecordedFirst, Opened, Proposed, Written
<1>18. AbsentIsBlank'
  <2>1. PICK t : t = NoVote.tally
    OBVIOUS
  <2>2. (NoVote.tally)' = t
    BY <2>1 DEF NoVote
  <2>3. \A w \in VoteIds : votes[w].status = "absent" => votes[w].tally = t
    BY <2>1 DEF IInv, CountingIsRight, AbsentIsBlank
  <2>4. \A w \in VoteIds : votes'[w].status = "absent" => votes'[w].tally = t
    BY <1>10, <1>12, <2>3
  <2>5. QED
    BY <2>2, <2>4 DEF AbsentIsBlank
<1>19. PassedWasCarried'
  <2> SUFFICES ASSUME NEW w \in VoteIds, votes'[w].status = "passed"
               PROVE  \E members \in Nat : Outcome(votes'[w], members) = "passed"
    BY DEF PassedWasCarried
  <2>1. votes'[w] = votes[w]
    BY <1>10, <1>12
  <2>2. PICK members \in Nat : Outcome(votes[w], members) = "passed"
    BY <2>1 DEF IInv, CountingIsRight, PassedWasCarried
  <2>3. QED
    BY <2>1, <2>2
<1>20. NobodyCountsTwice'
  <2>1. NobodyCountsTwice
    BY DEF IInv, CountingIsRight
  <2>2. ASSUME NEW k \in Members
        PROVE  contributions'[k] <= Cardinality({x \in ballots' : x.member = k})
    <3> PICK S, T : S = {x \in ballots : x.member = k} /\ T = {x \in ballots' : x.member = k}
      OBVIOUS
    <3>1. S \subseteq ballots /\ ((T = S /\ ~(k = m)) \/ T = S \cup {b})
      BY <1>5, <1>6
    <3>2. /\ Cardinality(S) \in Nat /\ Cardinality(S \cup {b}) = Cardinality(S) + 1
          /\ \/ Cardinality(T) = Cardinality(S) /\ ~(k = m)
             \/ Cardinality(T) = Cardinality(S \cup {b})
      <4>1. Cardinality(S) \in Nat /\ Cardinality(S \cup {b}) = Cardinality(S) + 1
        BY <1>2, <1>6, <3>1, OneMore
      <4>2. \/ Cardinality(T) = Cardinality(S) /\ ~(k = m)
            \/ Cardinality(T) = Cardinality(S \cup {b})
        BY <3>1, Zenon
      <4>3. QED
        BY <4>1, <4>2
    <3>3. contributions[k] <= Cardinality(S) /\ contributions[k] \in Nat
      BY <1>2, <2>1 DEF NobodyCountsTwice, TypeOK
    <3>4. contributions'[k] <= Cardinality(T)
      BY <1>1, <1>2, <3>2, <3>3 DEF TypeOK
    <3>5. QED
      BY <3>4
  <2>3. ASSUME NEW w \in VoteIds, NEW c \in Answers
        PROVE  votes'[w].tally[c] <= Cardinality({x \in ballots' : x.vote = w /\ x.choice = c})
    <3> PICK S, T : /\ S = {x \in ballots : x.vote = w /\ x.choice = c}
                    /\ T = {x \in ballots' : x.vote = w /\ x.choice = c}
      OBVIOUS
    <3>1. S \subseteq ballots /\ ((T = S /\ ~(w = v /\ c = choice)) \/ T = S \cup {b})
      BY <1>5, <1>6
    <3>2. /\ Cardinality(S) \in Nat /\ Cardinality(S \cup {b}) = Cardinality(S) + 1
          /\ \/ Cardinality(T) = Cardinality(S) /\ ~(w = v /\ c = choice)
             \/ Cardinality(T) = Cardinality(S \cup {b})
      <4>1. Cardinality(S) \in Nat /\ Cardinality(S \cup {b}) = Cardinality(S) + 1
        BY <1>2, <1>6, <3>1, OneMore
      <4>2. \/ Cardinality(T) = Cardinality(S) /\ ~(w = v /\ c = choice)
            \/ Cardinality(T) = Cardinality(S \cup {b})
        BY <3>1, Zenon
      <4>3. QED
        BY <4>1, <4>2
    <3>3. votes[w].tally[c] <= Cardinality(S)
      BY <2>1 DEF NobodyCountsTwice
    <3>4. votes[w].tally[c] \in Nat
      BY <1>8 DEF VoteRecords
    <3>5. \/ votes'[w].tally[c] = votes[w].tally[c]
          \/ w = v /\ c = choice /\ votes'[w].tally[c] = votes[w].tally[c] + 1
      BY <1>7, <1>8, <1>10, <1>12
    <3>6. votes'[w].tally[c] <= Cardinality(T)
      BY <3>2, <3>3, <3>4, <3>5
    <3>7. QED
      BY <3>6
  <2>4. \A b1, b2 \in ballots' : b1.vote = b2.vote /\ b1.member = b2.member => b1 = b2
    BY <1>1, <1>5, <1>6, <2>1 DEF NobodyCountsTwice, BallotsOn
  <2>5. QED
    BY <2>2, <2>3, <2>4 DEF NobodyCountsTwice
<1>21. BallotsLostOnlyInCrashes'
  <2>1. \A w \in VoteIds :
            /\ IsFiniteSet(BallotsOn(w)) /\ Cardinality(BallotsOn(w)) \in Nat
            /\ Total(votes[w].tally) \in Nat /\ Uncounted(w) \in Int
    BY <1>2, UncountedType
  <2>2. \A w \in VoteIds \ {v} : Uncounted(w)' = Uncounted(w)
    <3> SUFFICES ASSUME NEW w \in VoteIds \ {v}
                 PROVE  Uncounted(w)' = Uncounted(w)
      OBVIOUS
    <3>1. BallotsOn(w)' = BallotsOn(w)
      BY <1>5, <1>6 DEF BallotsOn
    <3>2. votes'[w] = votes[w]
      BY <1>12
    <3>3. QED
      BY <3>1, <3>2 DEF Uncounted
  <2>3. Cardinality(BallotsOn(v)') = Cardinality(BallotsOn(v)) + 1
    <3>1. BallotsOn(v)' = BallotsOn(v) \cup {b} /\ BallotsOn(v) \subseteq ballots
      BY <1>5, <1>6 DEF BallotsOn
    <3>2. QED
      BY <1>2, <1>6, <3>1, OneMore
  <2>4. cut < 2 => Uncounted(v)' = Uncounted(v) + 1
    BY <1>11, <2>1, <2>3 DEF Uncounted
  <2>5. cut >= 2 => Uncounted(v)' = Uncounted(v)
    <3> SUFFICES ASSUME cut >= 2
                 PROVE  Uncounted(v)' = Uncounted(v)
      OBVIOUS
    <3>1. votes'[v].tally = tallied
      BY <1>8, <1>10, <1>11
    <3>2. PICK old : old = votes[v].tally
      OBVIOUS
    <3>3. /\ choice \in Answers
          /\ \A c \in Answers : old[c] \in Int /\ tallied[c] \in Int
          /\ \A c \in Answers \ {choice} : old[c] = tallied[c]
          /\ tallied[choice] - old[choice] = 1
      BY <1>1, <1>7, <1>8, <3>2
    <3>4. SumFunctionOnSet(tallied, Answers) = SumFunctionOnSet(old, Answers) + (tallied[choice] - old[choice])
      <4>1. PICK x : x = choice
        OBVIOUS
      <4>2. SumFunctionOnSet(tallied, Answers) = SumFunctionOnSet(old, Answers) + (tallied[x] - old[x])
        BY <3>3, <4>1, SumChange, GovernanceAssumption
      <4>3. QED
        BY <4>1, <4>2
    <3>5. Total(tallied) = Total(old) + 1
      BY <3>3, <3>4 DEF Total
    <3>6. Total(votes[v].tally)' = Total(votes[v].tally) + 1
      BY <3>1, <3>2, <3>5
    <3>7. QED
      BY <2>1, <2>3, <3>6 DEF Uncounted
  <2>6. PICK f, g : f = LostBallots /\ g = LostBallots'
    OBVIOUS
  <2>7. \A w \in VoteIds : f[w] = Uncounted(w) /\ g[w] = Uncounted(w)'
    BY <2>6 DEF LostBallots
  <2>8. \A w \in VoteIds : f[w] \in Int /\ g[w] \in Int
    BY <1>3, <2>1, <2>2, <2>4, <2>5, <2>7
  <2>9. \A w \in VoteIds \ {v} : f[w] = g[w]
    BY <2>2, <2>7
  <2>10. SumFunctionOnSet(g, VoteIds) = SumFunctionOnSet(f, VoteIds) + (g[v] - f[v])
    BY <2>8, <2>9, SumChange, GovernanceAssumption
  <2>11. SumFunctionOnSet(f, VoteIds) \in Int
    BY <2>8, SumType, GovernanceAssumption
  <2>12. SumFunctionOnSet(f, VoteIds) <= crashes
    BY <2>6, LossIsTheSum DEF IInv, CountingIsRight
  <2>13. SumFunctionOnSet(g, VoteIds) <= crashes'
    <3>1. CASE cut < 2
      BY <1>2, <1>3, <2>1, <2>4, <2>7, <2>10, <2>11, <2>12, <3>1
    <3>2. CASE cut >= 2
      BY <1>2, <1>3, <2>1, <2>5, <2>7, <2>10, <2>11, <2>12, <3>2
    <3>3. QED
      BY <1>3, <3>1, <3>2
  <2>14. QED
    BY <2>6, <2>13, LossIsTheSum
<1>22. QED
  BY <1>13, <1>14, <1>16, <1>17, <1>18, <1>19, <1>20, <1>21 DEF IInv, CountingIsRight

-----------------------------------------------------------------------------
(* Every step keeps the invariant. *)
LEMMA NextKeeps == IInv /\ [Next]_vars => IInv'
<1> SUFFICES ASSUME IInv, [Next]_vars
             PROVE  IInv'
  OBVIOUS
<1>1. CASE UNCHANGED vars
  BY <1>1, ClockKeeps DEF vars, orgVars, clockVars, IInv, TypeOK
<1>2. CASE \E v \in VoteIds : OpenVote(v)
  BY <1>2, OpenVoteKeeps
<1>3. CASE \E m \in Members, v \in VoteIds : CastBallot(m, v)
  BY <1>3, CastBallotKeeps
<1>4. CASE \E v \in VoteIds : ResolveVote(v)
  BY <1>4, ResolveVoteKeeps
<1>5. CASE \E a \in AmendmentIds : ProposeAmendment(a)
  BY <1>5, ProposeAmendmentKeeps
<1>6. CASE \E a \in AmendmentIds : GiveNotice(a)
  BY <1>6, GiveNoticeKeeps
<1>7. CASE \E a \in AmendmentIds, v \in VoteIds : PutToVote(a, v)
  BY <1>7, PutToVoteKeeps
<1>8. CASE \E payload \in Counts : WriteConfig(payload)
  BY <1>8, WriteConfigKeeps
<1>9. CASE \E a \in AmendmentIds : RejectAmendment(a)
  BY <1>9, RejectAmendmentKeeps
<1>10. CASE \E a \in AmendmentIds : ApplyAmendment(a)
  BY <1>10, ApplyAmendmentKeeps
<1>11. CASE \E v \in VoteIds : VoteCloses(v)
  BY <1>11, VoteClosesKeeps
<1>12. CASE \E a \in AmendmentIds : NoticeEnds(a)
  BY <1>12, NoticeEndsKeeps
<1>13. QED
  BY <1>1, <1>2, <1>3, <1>4, <1>5, <1>6, <1>7, <1>8, <1>9, <1>10, <1>11, <1>12 DEF Next

-----------------------------------------------------------------------------
(* A vote whose ballots are all counted has, for every answer, the ballots *)
(* its tally says: no tally is too high, and they add up.                  *)
LEMMA TallyIsExact ==
    ASSUME IInv, NEW v \in VoteIds, Uncounted(v) = 0
    PROVE  /\ Total(votes[v].tally) = Cardinality(BallotsOn(v))
           /\ \A c \in Answers :
                /\ votes[v].tally[c] \in Nat
                /\ votes[v].tally[c] = Cardinality({b \in BallotsOn(v) : b.choice = c})
<1>1. TypeOK /\ IsFiniteSet(ballots) /\ NobodyCountsTwice
  BY DEF IInv, CountingIsRight
<1>2. /\ IsFiniteSet(BallotsOn(v)) /\ Cardinality(BallotsOn(v)) \in Nat
      /\ Total(votes[v].tally) \in Nat
  BY <1>1, UncountedType
<1>3. Total(votes[v].tally) = Cardinality(BallotsOn(v))
  BY <1>2 DEF Uncounted
<1>4. PICK S, tally, key :
        S = BallotsOn(v) /\ tally = votes[v].tally /\ key = [b \in S |-> b.choice]
  OBVIOUS
<1>5. PICK counts : counts = [c \in Answers |-> Cardinality(WithKey(S, key, c))]
  OBVIOUS
<1>6. \A b \in S : key[b] \in Answers
  BY <1>1, <1>4 DEF TypeOK, BallotsOn
<1>7. SumFunctionOnSet(counts, Answers) = Cardinality(S)
  BY <1>2, <1>4, <1>5, <1>6, CountByKey, GovernanceAssumption
<1>8. SumFunctionOnSet(tally, Answers) = Cardinality(S)
  BY <1>3, <1>4 DEF Total
<1>9. ASSUME NEW c \in Answers
      PROVE  /\ WithKey(S, key, c) = {b \in BallotsOn(v) : b.choice = c}
             /\ counts[c] = Cardinality({b \in BallotsOn(v) : b.choice = c})
             /\ counts[c] \in Int /\ tally[c] \in Int /\ tally[c] \in Nat
             /\ tally[c] <= counts[c]
  <2>1. WithKey(S, key, c) = {b \in BallotsOn(v) : b.choice = c}
    BY <1>4 DEF WithKey
  <2>2. {b \in BallotsOn(v) : b.choice = c} = {b \in ballots : b.vote = v /\ b.choice = c}
    BY DEF BallotsOn
  <2>3. counts[c] = Cardinality({b \in BallotsOn(v) : b.choice = c})
    BY <1>5, <2>1
  <2>4. Cardinality({b \in BallotsOn(v) : b.choice = c}) \in Nat
    BY <1>2, FS_Subset, FS_CardinalityType
  <2>5. tally[c] \in Nat
    BY <1>1, <1>4 DEF TypeOK
  <2>6. tally[c] <= Cardinality({b \in ballots : b.vote = v /\ b.choice = c})
    BY <1>1, <1>4 DEF NobodyCountsTwice
  <2>7. tally[c] <= Cardinality({b \in BallotsOn(v) : b.choice = c})
    BY <2>2, <2>6, Zenon
  <2>8. tally[c] <= counts[c] /\ counts[c] \in Nat
    BY <2>3, <2>4, <2>7, Zenon
  <2>9. counts[c] \in Int /\ tally[c] \in Int
    BY <2>5, <2>8
  <2>10. QED
    BY <2>1, <2>3, <2>5, <2>8, <2>9, Zenon
<1>10. \A c \in Answers : tally[c] = counts[c]
  <2>1. \A c \in Answers : tally[c] \in Int /\ counts[c] \in Int /\ tally[c] <= counts[c]
    BY <1>9
  <2>2. SumFunctionOnSet(tally, Answers) = SumFunctionOnSet(counts, Answers)
    BY <1>7, <1>8
  <2>3. QED
    BY <2>1, <2>2, SumMonotone, GovernanceAssumption
<1>11. QED
  BY <1>3, <1>4, <1>9, <1>10

LEMMA PassedIsJustified == IInv => PassedByItsBallots
<1> SUFFICES ASSUME IInv, NEW v \in VoteIds, votes[v].status = "passed", Uncounted(v) = 0
             PROVE  LET said(S) == Cardinality({b \in BallotsOn(v) : b.choice \in S})
                        cast == Cardinality(BallotsOn(v))
                    IN  /\ cast > 0
                        /\ votes[v].method = "consensus" => said({"no", "nay"}) = 0
                        /\ votes[v].method = "supermajority" =>
                                said({"yes", "yea"}) * 100 >= Supermajority * cast
                        /\ votes[v].method = "simple_majority" => said({"yes", "yea"}) * 2 > cast
  BY DEF PassedByItsBallots
<1> DEFINE yes == {b \in BallotsOn(v) : b.choice \in {"yes", "yea"}}
           no == {b \in BallotsOn(v) : b.choice \in {"no", "nay"}}
<1>1. PICK tally, cast : tally = votes[v].tally /\ cast = Cardinality(BallotsOn(v))
  OBVIOUS
<1>2. /\ Total(tally) = cast
      /\ \A c \in Answers : tally[c] \in Nat /\ tally[c] = Cardinality({b \in BallotsOn(v) : b.choice = c})
  BY <1>1, TallyIsExact
<1>3. TypeOK /\ IsFiniteSet(BallotsOn(v)) /\ cast \in Nat
  BY <1>1, UncountedType DEF IInv, CountingIsRight
<1>4. PICK members \in Nat : Outcome(votes[v], members) = "passed"
  BY DEF IInv, CountingIsRight, PassedWasCarried
<1>5. /\ cast > 0
      /\ votes[v].method = "consensus" => Nays(tally) = 0
      /\ votes[v].method = "supermajority" => Yeas(tally) * 100 >= Supermajority * cast
      /\ votes[v].method = "simple_majority" => Yeas(tally) * 2 > cast
  BY <1>1, <1>2, <1>4 DEF Outcome
<1>6. IsFiniteSet(yes) /\ Cardinality(yes) \in Nat
  BY <1>3, FS_Subset, FS_CardinalityType
<1>7. ASSUME NEW c \in {"yes", "yea"}
      PROVE  Count(tally, c) \in Nat /\ Count(tally, c) <= Cardinality(yes)
  <2>1. CASE c \in Answers
    <3>1. {b \in BallotsOn(v) : b.choice = c} \subseteq yes
      OBVIOUS
    <3>2. Cardinality({b \in BallotsOn(v) : b.choice = c}) <= Cardinality(yes)
      BY <1>6, <3>1, FS_Subset
    <3>3. QED
      BY <1>2, <2>1, <3>2 DEF Count
  <2>2. CASE c \notin Answers
    BY <1>6, <2>2 DEF Count
  <2>3. QED
    BY <2>1, <2>2
<1>8. Yeas(tally) \in Nat /\ Yeas(tally) <= Cardinality(yes)
  BY <1>7 DEF Yeas, FirstOf
<1>9. Nays(tally) = 0 => Cardinality(no) = 0
  <2> SUFFICES ASSUME Nays(tally) = 0
               PROVE  no = {}
    BY FS_EmptySet
  <2>1. Count(tally, "no") \in Nat /\ Count(tally, "nay") \in Nat
    BY <1>2 DEF Count
  <2>2. Count(tally, "no") = 0 /\ Count(tally, "nay") = 0
    BY <2>1 DEF Nays, FirstOf
  <2>3. ASSUME NEW b \in no
        PROVE  FALSE
    <3>1. b.choice \in Answers /\ b \in BallotsOn(v) /\ b.choice \in {"no", "nay"}
      BY <1>3 DEF TypeOK, BallotsOn
    <3>2. tally[b.choice] = 0
      BY <2>2, <3>1 DEF Count
    <3>3. Cardinality({d \in BallotsOn(v) : d.choice = b.choice}) = 0
      BY <1>2, <3>1, <3>2
    <3>4. IsFiniteSet({d \in BallotsOn(v) : d.choice = b.choice})
      BY <1>3, FS_Subset
    <3>5. {d \in BallotsOn(v) : d.choice = b.choice} = {}
      BY <3>3, <3>4, FS_EmptySet
    <3>6. QED
      BY <3>1, <3>5
  <2>4. QED
    BY <2>3
<1>10. votes[v].method = "supermajority" => Cardinality(yes) * 100 >= Supermajority * cast
  <2>1. PICK need \in Nat : need = Supermajority * cast
    BY <1>3, GovernanceAssumption
  <2>2. QED
    BY <1>5, <1>6, <1>8, <2>1
<1>11. votes[v].method = "simple_majority" => Cardinality(yes) * 2 > cast
  BY <1>3, <1>5, <1>6, <1>8
<1> HIDE DEF yes, no
<1>12. QED
  BY <1>1, <1>5, <1>9, <1>10, <1>11 DEF yes, no

(* No step changes a vote that was resolved, or its ballots.               *)
LEMMA ResolvedStaysSo ==
    ASSUME IInv, [Next]_vars, NEW v \in VoteIds, votes[v].status \in {"passed", "failed"}
    PROVE  votes'[v] = votes[v] /\ BallotsOn(v)' = BallotsOn(v)
<1>1. CASE UNCHANGED <<votes, ballots>>
  BY <1>1 DEF BallotsOn
<1>2. ASSUME NEW w \in VoteIds, NEW decision, NEW method, NEW quorum, NEW cut,
             VoteOpened(w, decision, method, quorum, cut), UNCHANGED ballots
      PROVE  votes'[v] = votes[v] /\ BallotsOn(v)' = BallotsOn(v)
  <2>1. w # v
    BY <1>2 DEF IInv, RecordedFirst, VoteOpened
  <2>2. votes'[v] = votes[v]
    BY <1>2, <2>1 DEF VoteOpened, IInv, TypeOK
  <2>3. QED
    BY <1>2, <2>2 DEF BallotsOn
<1>3. ASSUME NEW m \in Members, NEW w \in VoteIds, CastBallot(m, w)
      PROVE  votes'[v] = votes[v] /\ BallotsOn(v)' = BallotsOn(v)
  <2>1. PICK choice, cut :
            /\ votes[w].status = "open"
            /\ ballots' = ballots \cup {[vote |-> w, member |-> m, choice |-> choice]}
            /\ votes' = IF cut < 2 THEN votes ELSE [votes EXCEPT ![w].tally[choice] = @ + 1]
    BY <1>3 DEF CastBallot
  <2>2. w # v
    BY <2>1
  <2>3. QED
    BY <2>1, <2>2 DEF BallotsOn, IInv, TypeOK
<1>4. ASSUME NEW w \in VoteIds, ResolveVote(w)
      PROVE  votes'[v] = votes[v] /\ BallotsOn(v)' = BallotsOn(v)
  BY <1>4 DEF ResolveVote, BallotsOn, IInv, TypeOK
<1>5. CASE \E w \in VoteIds : OpenVote(w)
  BY <1>2, <1>5 DEF OpenVote
<1>6. CASE \E a \in AmendmentIds, w \in VoteIds : PutToVote(a, w)
  BY <1>2, <1>6 DEF PutToVote
<1>7. CASE \/ \E a \in AmendmentIds : ProposeAmendment(a) \/ GiveNotice(a) \/ RejectAmendment(a)
           \/ \E a \in AmendmentIds : ApplyAmendment(a) \/ NoticeEnds(a)
           \/ \E payload \in Counts : WriteConfig(payload)
           \/ \E w \in VoteIds : VoteCloses(w)
           \/ UNCHANGED vars
  <2>1. UNCHANGED <<votes, ballots>>
    BY <1>7 DEF ProposeAmendment, GiveNotice, RejectAmendment, ApplyAmendment, NoticeEnds,
                WriteConfig, VoteCloses, vars, orgVars
  <2>2. QED
    BY <1>1, <2>1
<1>8. QED
  BY <1>3, <1>4, <1>5, <1>6, <1>7 DEF Next

-----------------------------------------------------------------------------
(* In every reachable state the invariant holds. *)
THEOREM GovernanceInvariant == Spec => []IInv
BY InitIInv, NextKeeps, PTL DEF Spec

(* Every file of the collective always has the shape its readers expect.   *)
THEOREM TypeCorrect == Spec => []TypeOK
<1>1. IInv => TypeOK
  BY DEF IInv
<1>2. QED
  BY <1>1, GovernanceInvariant, PTL

(* Whatever is on file was recorded in the decision log before.            *)
THEOREM EverythingWasRecorded == Spec => []RecordedFirst
<1>1. IInv => RecordedFirst
  BY DEF IInv
<1>2. QED
  BY <1>1, GovernanceInvariant, PTL

(* No member counts twice in a vote, however often a ballot is retried.    *)
THEOREM OneMemberOneVote == Spec => []NobodyCountsTwice
<1>1. IInv => NobodyCountsTwice
  BY DEF IInv, CountingIsRight
<1>2. QED
  BY <1>1, GovernanceInvariant, PTL

(* Ballots are left out of the tally only by crashes, one each.            *)
THEOREM CrashesLoseOneEach == Spec => []BallotsLostOnlyInCrashes
<1>1. IInv => BallotsLostOnlyInCrashes
  BY DEF IInv, CountingIsRight
<1>2. QED
  BY <1>1, GovernanceInvariant, PTL

(* A vote that passed, its ballots all counted, passed by its ballots.     *)
THEOREM BallotsDecide == Spec => []PassedByItsBallots
BY PassedIsJustified, GovernanceInvariant, PTL

(* An amendment goes the way of the vote that was opened for it.           *)
THEOREM AmendmentsObeyVotes == Spec => []AmendmentsFollowTheirVotes
<1>1. IInv => AmendmentsFollowTheirVotes
  BY DEF IInv, AmendingIsRight
<1>2. QED
  BY <1>1, GovernanceInvariant, PTL

(* An amendment changes the artifact once at most, with its own payload.   *)
THEOREM OneChangePerAmendment == Spec => []AmendedOnce
<1>1. IInv => AmendedOnce
  BY DEF IInv, AmendingIsRight
<1>2. QED
  BY <1>1, GovernanceInvariant, PTL

(* What a vote resolved to stays, with its tally and its ballots.          *)
THEOREM ResolutionIsFinal == Spec => ResolvedVotesAreFinal
<1>1. IInv /\ [Next]_vars =>
        [\A v \in VoteIds : votes[v].status \in {"passed", "failed"} =>
            votes'[v] = votes[v] /\ BallotsOn(v)' = BallotsOn(v)]_vars
  BY ResolvedStaysSo
<1>2. QED
  BY <1>1, GovernanceInvariant, PTL DEF Spec, ResolvedVotesAreFinal
=============================================================================
