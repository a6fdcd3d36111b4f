------------------------------- MODULE Approvals -------------------------------
(***************************************************************************)
(* Approvals by several people: routes/approvals.ts, and the policy of     *)
(* lib/verification-policy.ts that says how many are needed.               *)
(*                                                                         *)
(* The handlers are synchronous.  A request is logged and then stored, a   *)
(* response stored and then logged; `done` of the two writes happen before *)
(* the process dies.                                                       *)
(***************************************************************************)
EXTENDS Integers, Sequences, FiniteSets, SequencesExt, FiniteSetsExt, Durable

CONSTANTS Approvers,      \* operators and admins
          Risks,          \* risk scores an approval may be requested with
          RiskThresholds, \* risk_escalation_threshold of the autonomy policy
          AskedApprovers, \* required_approvers of a request; -1 when it has none
          MaxApprovals, MaxApprovalCrashes  \* bounds

ASSUME ApprovalAssumption ==
    /\ Risks \subseteq Nat /\ RiskThresholds \subseteq Nat
    /\ AskedApprovers \subseteq Nat \cup {-1}
    /\ {MaxApprovals, MaxApprovalCrashes} \subseteq Nat

VARIABLES approvals,       \* approvals/<workspace>
          approvalLog,     \* how many of their events the decision log has
          approvalCrashes  \* handlers cut short by a crash

approvalVars == <<approvals, approvalLog, approvalCrashes>>

Blasts == {"low", "medium", "high"}

ApprovalInit == approvals = <<>> /\ approvalLog = 0 /\ approvalCrashes = 0

(* The handler's k-th write is the log's; it made `done` of its two. *)
ApprovalLogged(k, done) ==
    /\ approvalLog' = writeJsonAtomic(done, k, approvalLog + 1, approvalLog)
    /\ done < 2 => approvalCrashes < MaxApprovalCrashes
    /\ approvalCrashes' = IF done < 2 THEN approvalCrashes + 1 ELSE approvalCrashes

-----------------------------------------------------------------------------
(* lib/verification-policy.ts and routes/approvals.ts. *)

BLAST_RADIUS_FLOOR == [low |-> 0, medium |-> 60, high |-> 85]

EffectiveScore(risk, blast, blastThreshold) ==
    LET floor == BLAST_RADIUS_FLOOR[blast]
    IN  Max({risk, IF floor >= BLAST_RADIUS_FLOOR[blastThreshold] THEN floor ELSE 0})

(* What classifyAction answers in business mode, which is how its callers  *)
(* ask: the number of approvers.                                           *)
classifyAction(risk, blast, riskThreshold, blastThreshold) ==
    LET score == EffectiveScore(risk, blast, blastThreshold)
    IN  IF score < riskThreshold THEN 0 ELSE IF score >= 85 THEN 2 ELSE 1

Voters(responses) == {responses[k].by : k \in DOMAIN responses}
Approving(responses) == Cardinality({k \in DOMAIN responses : responses[k].decision = "approve"})

(* A requested number of approvers replaces the policy's, whatever it is.  *)
RequestApproval(asked, risk, blast, done) ==
    \E riskThreshold \in RiskThresholds, blastThreshold \in Blasts :
        LET policy == classifyAction(risk, blast, riskThreshold, blastThreshold)
            record == [required |-> IF asked = -1 THEN policy ELSE asked,
                       policy |-> policy, responses |-> <<>>, status |-> "pending"]
        IN  /\ Len(approvals) < MaxApprovals
            /\ ApprovalLogged(1, done)
            /\ approvals' = writeJsonAtomic(done, 2, Append(approvals, record), approvals)

(* The two writes of a response: the approvals, then the log. *)
WriteApprovals(new, done) ==
    /\ approvals' = writeJsonAtomic(done, 1, new, approvals)
    /\ ApprovalLogged(2, done)

Approve(i, actor, done) ==
    LET responses == Append(approvals[i].responses, [by |-> actor, decision |-> "approve"])
        status == IF Approving(responses) >= approvals[i].required THEN "approved" ELSE "pending"
    IN  /\ approvals[i].status = "pending"
        /\ actor \notin Voters(approvals[i].responses)
        /\ WriteApprovals([approvals EXCEPT ![i].responses = responses, ![i].status = status], done)

(* One rejection settles it; who approved before may still reject. *)
Reject(i, actor, done) ==
    LET responses == Append(approvals[i].responses, [by |-> actor, decision |-> "reject"])
    IN  /\ approvals[i].status = "pending"
        /\ WriteApprovals([approvals EXCEPT ![i].responses = responses, ![i].status = "rejected"], done)

ApprovalNext ==
    \/ \E asked \in AskedApprovers, risk \in Risks, blast \in Blasts, done \in 1..2 :
         RequestApproval(asked, risk, blast, done)
    \/ \E i \in DOMAIN approvals, actor \in Approvers, done \in 1..2 : Approve(i, actor, done)
    \/ \E i \in DOMAIN approvals, actor \in Approvers, done \in 1..2 : Reject(i, actor, done)

ApprovalSpec == ApprovalInit /\ [][ApprovalNext]_approvalVars

-----------------------------------------------------------------------------
(* Properties. *)

ApprovalTypeOK ==
    /\ approvals \in Seq([required : Nat, policy : 0..2,
                          responses : Seq([by : Approvers, decision : {"approve", "reject"}]),
                          status : {"pending", "approved", "rejected"}])
    /\ approvalLog \in Nat
    /\ approvalCrashes \in 0..MaxApprovalCrashes

(* A request is approved exactly when as many different people as it asked *)
(* for (one at least) have approved it and none has rejected it: nobody is *)
(* counted twice, and no response comes after the one that settled it.     *)
ApprovedByEnough ==
    \A i \in DOMAIN approvals :
        LET responses == approvals[i].responses
            enough == Max({approvals[i].required, 1})
            by(decision) == {responses[k].by : k \in {j \in DOMAIN responses :
                                                         responses[j].decision = decision}}
        IN  CASE approvals[i].status = "approved" ->
                     Cardinality(by("approve")) = enough /\ by("reject") = {}
              [] approvals[i].status = "pending" ->
                     Len(responses) < enough /\ by("reject") = {}
              [] approvals[i].status = "rejected" ->
                     Len(responses) <= enough /\ Last(responses).decision = "reject"
=============================================================================
