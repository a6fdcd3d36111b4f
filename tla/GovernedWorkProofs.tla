-------------------------- MODULE GovernedWorkProofs --------------------------
(***************************************************************************)
(* The components that carry out work, for every number of runs, members,  *)
(* amounts, agents and crashes: provisioning and outreach, the autonomous  *)
(* company, the organisation, its catalog and the execution engine; and,   *)
(* at the end, what the composition of all components inherits from them   *)
(* and from those of ControlProofs.                                        *)
(***************************************************************************)
EXTENDS MCGovernedWork, ControlProofs

-----------------------------------------------------------------------------
(* Lists and sets of the model, whatever they hold: an enumeration of a    *)
(* finite set, what a filter keeps.                                        *)
(* A finite set in a sequence: all of its elements, and no other.          *)
LEMMA Enumerated ==
  ASSUME NEW S, IsFiniteSet(S)
  PROVE  /\ SetToSeq(S) \in Seq(S)
         /\ Len(SetToSeq(S)) = Cardinality(S)
         /\ \A x \in S : \E k \in DOMAIN SetToSeq(S) : SetToSeq(S)[k] = x
<1> DEFINE n == Cardinality(S)
<1>1. n \in Nat /\ ExistsBijection(1..n, S)
  BY FS_CardinalityType
<1>2. PICK g : g \in Bijection(1..n, S)
  BY <1>1 DEF ExistsBijection
<1>3. g \in [1..n -> S] /\ IsInjective(g)
  BY <1>2, SMT DEF Bijection, Injection, IsInjective
<1>4. SetToSeq(S) \in [1..n -> S] /\ IsInjective(SetToSeq(S))
  BY <1>3 DEF SetToSeq
<1>5. SetToSeq(S) \in Injection(1..n, S)
  BY <1>4, SMT DEF Injection, IsInjective
<1>6. Cardinality(1..n) = n
  BY <1>1, FS_Interval
<1>7. SetToSeq(S) \in Surjection(1..n, S)
  BY <1>5, <1>6, FS_Injection
<1>8. QED
  BY <1>1, <1>4, <1>7, SMT DEF Surjection

(* What a filter keeps: elements of the list at the places it was told,    *)
(* and each of them.                                                       *)
LEMMA KeptElements ==
  ASSUME NEW S, NEW list \in Seq(S), NEW keep \in SUBSET DOMAIN list
  PROVE  /\ Kept(list, keep) \in Seq(S)
         /\ Len(Kept(list, keep)) = Cardinality(keep)
         /\ \A k \in DOMAIN Kept(list, keep) : \E i \in keep : Kept(list, keep)[k] = list[i]
         /\ \A i \in keep : \E k \in DOMAIN Kept(list, keep) : Kept(list, keep)[k] = list[i]
<1> DEFINE rank(i) == {j \in keep : j <= i}
           n == Cardinality(keep)
           r == [i \in keep |-> Cardinality(rank(i))]
           place(k) == CHOOSE i \in keep : Cardinality(rank(i)) = k
<1>1. keep \subseteq 1..Len(list) /\ Len(list) \in Nat
  BY LenProperties
<1>2. IsFiniteSet(keep)
  BY <1>1, FS_Interval, FS_Subset
<1>3. n \in Nat
  BY <1>2, FS_CardinalityType
<1>4. ASSUME NEW i \in keep
      PROVE  /\ IsFiniteSet(rank(i)) /\ Cardinality(rank(i)) \in 1..n
  <2>1. IsFiniteSet(rank(i)) /\ Cardinality(rank(i)) <= n
    BY <1>2, FS_Subset
  <2>2. Cardinality(rank(i)) \in Nat
    BY <2>1, FS_CardinalityType
  <2>3. i \in rank(i)
    BY <1>1
  <2>4. Cardinality(rank(i)) # 0
    BY <2>1, <2>3, FS_EmptySet
  <2>5. QED
    BY <1>3, <2>1, <2>2, <2>4
<1>5. ASSUME NEW i \in keep, NEW j \in keep, Cardinality(rank(i)) = Cardinality(rank(j)) PROVE i = j
  <2>1. ASSUME NEW a \in keep, NEW b \in keep, a < b PROVE Cardinality(rank(a)) # Cardinality(rank(b))
    <3>1. rank(a) \subseteq rank(b) /\ b \in rank(b) /\ b \notin rank(a)
      BY <1>1, <2>1
    <3>2. IsFiniteSet(rank(b))
      BY <1>4
    <3>3. QED
      BY <3>1, <3>2, FS_Subset
  <2>2. i < j \/ j < i \/ i = j
    BY <1>1
  <2>3. QED
    BY <1>5, <2>1, <2>2
<1>6. r \in Injection(keep, 1..n)
  <2>1. r \in [keep -> 1..n]
    BY <1>4
  <2>2. IsInjective(r)
    BY <1>5 DEF IsInjective
  <2>3. QED
    BY <2>1, <2>2, Zenon DEF Injection
<1>7. IsFiniteSet(1..n) /\ Cardinality(1..n) = n
  BY <1>3, FS_Interval
<1>8. r \in Surjection(keep, 1..n)
  BY <1>6, <1>7, FS_Injection
<1>9. ASSUME NEW k \in 1..n PROVE place(k) \in keep /\ Cardinality(rank(place(k))) = k
  <2>1. PICK i \in keep : r[i] = k
    BY <1>8 DEF Surjection
  <2>2. Cardinality(rank(i)) = k
    BY <2>1
  <2>3. QED
    BY <2>2
<1>10. Kept(list, keep) = [k \in 1..n |-> list[place(k)]]
  BY DEF Kept
<1> HIDE DEF rank, n, r, place
<1>11. ASSUME NEW k \in 1..n PROVE list[place(k)] \in S
  BY <1>1, <1>9, ElementOfSeq
<1>12. Kept(list, keep) \in [1..n -> S]
  BY <1>10, <1>11
<1>13. Kept(list, keep) \in Seq(S) /\ Len(Kept(list, keep)) = n
  BY <1>3, <1>12, SeqDef, LenProperties
<1>14. DOMAIN Kept(list, keep) = 1..n
  BY <1>10
<1>15. \A k \in 1..n : \E i \in keep : Kept(list, keep)[k] = list[i]
  BY <1>9, <1>10
<1>16. ASSUME NEW i \in keep PROVE \E k \in 1..n : Kept(list, keep)[k] = list[i]
  <2>1. Cardinality(rank(i)) \in 1..n
    BY <1>4
  <2>2. place(Cardinality(rank(i))) = i
    BY <1>5, <1>9, <2>1
  <2>3. QED
    BY <1>10, <2>1, <2>2
<1>17. n = Cardinality(keep)
  BY DEF n
<1>18. QED
  BY <1>13, <1>14, <1>15, <1>16, <1>17

-----------------------------------------------------------------------------
(* Provisioning.  The inductive invariant, until the first crash: an       *)
(* action is executing exactly if an approval is in flight for it, that    *)
(* approval has made the calls of its steps so far and no other, and the   *)
(* action's record says what the log and the dead letters say.             *)
LaunchStatuses == {"pending", "approved", "executing", "completed", "failed", "blocked"}
CheckpointStages == {"none", "operation", "verification", "governance", "deployment"}
Level4Records == [type : Range(LaunchActions), domain : VentureDomains, status : LaunchStatuses,
                  stage : CheckpointStages, approval : {"none", "pending", "approved"}]

(* The last patch of a field counts (an update is a merge of objects).     *)
LEMMA LastPatch ==
  ASSUME NEW r, NEW patches, DOMAIN patches \subseteq Int, NEW done \in Int,
         NEW f \in DOMAIN r, NEW i \in DOMAIN patches, i <= done, f \in DOMAIN patches[i],
         \A j \in DOMAIN patches : j > i => f \notin DOMAIN patches[j]
  PROVE  Patched(r, patches, done)[f] = patches[i][f]
<1> DEFINE last == {k \in {j \in DOMAIN patches : j <= done} : f \in DOMAIN patches[k]}
<1>1. i \in last /\ last \subseteq Int /\ \A j \in last : i >= j
  OBVIOUS
<1>0. \A k \in last : k \in DOMAIN patches
  OBVIOUS
<1>4. Patched(r, patches, done)[f] = IF last = {} THEN r[f] ELSE patches[Max(last)][f]
  BY DEF Patched
<1> HIDE DEF last
<1>2. Max(last) = i
  <2>1. \E x \in last : \A y \in last : x >= y
    BY <1>1
  <2>2. Max(last) \in last /\ \A y \in last : Max(last) >= y
    BY <2>1 DEF Max
  <2> QED
    BY <1>1, <2>2
<1>3. last # {}
  BY <1>1
<1> QED
  BY <1>2, <1>3, <1>4

LEMMA NoPatch ==
  ASSUME NEW r, NEW patches, NEW done \in Int,
         NEW f \in DOMAIN r, \A j \in DOMAIN patches : f \notin DOMAIN patches[j]
  PROVE  Patched(r, patches, done)[f] = r[f]
<1>1. {k \in {j \in DOMAIN patches : j <= done} : f \in DOMAIN patches[k]} = {}
  OBVIOUS
<1> QED
  BY <1>1 DEF Patched

LEMMA RecordByFields ==
  ASSUME NEW r \in Level4Records, NEW patches, NEW done
  PROVE  LET p == Patched(r, patches, done)
         IN  p = [type |-> p.type, domain |-> p.domain, status |-> p.status, stage |-> p.stage,
                  approval |-> p.approval]
<1>1. DOMAIN r = {"type", "domain", "status", "stage", "approval"}
  BY DEF Level4Records
<1> DEFINE p == Patched(r, patches, done)
<1>2. DOMAIN p = {"type", "domain", "status", "stage", "approval"} /\ p = [f \in DOMAIN p |-> p[f]]
  BY <1>1 DEF Patched
<1> HIDE DEF p
<1> QED
  BY <1>2 DEF p

(* What the writes of each outcome leave in the record of an action.        *)
LEMMA BegunRecord ==
  ASSUME NEW r \in Level4Records, NEW done \in Int, done >= 6
  PROVE  Patched(r, Begun, done) =
           [type |-> r.type, domain |-> r.domain, status |-> "executing", stage |-> "governance",
            approval |-> "approved"]
<1> DEFINE p == Patched(r, Begun, done)
<1>1. DOMAIN r = {"type", "domain", "status", "stage", "approval"}
  BY DEF Level4Records
<1>2. DOMAIN Begun = {1, 2, 3, 4, 5, 6} /\ DOMAIN Begun \subseteq Int
  BY DEF Begun, Approved
<1>3. /\ DOMAIN Begun[1] = {"status"}
      /\ DOMAIN Begun[2] = {"approval"}
      /\ DOMAIN Begun[3] = {"stage"}
      /\ DOMAIN Begun[4] = {"stage"}
      /\ DOMAIN Begun[5] = {"status"}
      /\ DOMAIN Begun[6] = {"stage"}
      /\ Begun[5]["status"] = "executing"
      /\ Begun[6]["stage"] = "governance"
      /\ Begun[2]["approval"] = "approved"
  BY DEF Begun, Approved
<1>4. p["type"] = r["type"]
  BY <1>1, <1>2, <1>3, NoPatch
<1>5. p["domain"] = r["domain"]
  BY <1>1, <1>2, <1>3, NoPatch
<1>6. p["status"] = "executing"
  BY <1>1, <1>2, <1>3, LastPatch
<1>7. p["stage"] = "governance"
  BY <1>1, <1>2, <1>3, LastPatch
<1>8. p["approval"] = "approved"
  BY <1>1, <1>2, <1>3, LastPatch
<1>9. p = [type |-> p.type, domain |-> p.domain, status |-> p.status, stage |-> p.stage,
            approval |-> p.approval]
  BY RecordByFields
<1> HIDE DEF p
<1>10. p = [type |-> r.type, domain |-> r.domain, status |-> "executing", stage |-> "governance",
            approval |-> "approved"]
  BY <1>4, <1>5, <1>6, <1>7, <1>8, <1>9
<1> QED
  BY <1>10 DEF p

(* The container policy refused it.                                         *)
LEMMA BlockedRecord ==
  ASSUME NEW r \in Level4Records, NEW done \in Int, done >= 5
  PROVE  Patched(r, BlockedAction, done) =
           [type |-> r.type, domain |-> r.domain, status |-> "blocked", stage |-> "verification",
            approval |-> "approved"]
<1> DEFINE p == Patched(r, BlockedAction, done)
<1>1. DOMAIN r = {"type", "domain", "status", "stage", "approval"}
  BY DEF Level4Records
<1>2. DOMAIN BlockedAction = {1, 2, 3, 4, 5} /\ DOMAIN BlockedAction \subseteq Int
  BY DEF BlockedAction, Approved
<1>3. /\ DOMAIN BlockedAction[1] = {"status"}
      /\ DOMAIN BlockedAction[2] = {"approval"}
      /\ DOMAIN BlockedAction[3] = {"stage"}
      /\ DOMAIN BlockedAction[4] = {"status"}
      /\ DOMAIN BlockedAction[5] = {"stage"}
      /\ BlockedAction[4]["status"] = "blocked"
      /\ BlockedAction[5]["stage"] = "verification"
      /\ BlockedAction[2]["approval"] = "approved"
  BY DEF BlockedAction, Approved
<1>4. p["type"] = r["type"]
  BY <1>1, <1>2, <1>3, NoPatch
<1>5. p["domain"] = r["domain"]
  BY <1>1, <1>2, <1>3, NoPatch
<1>6. p["status"] = "blocked"
  BY <1>1, <1>2, <1>3, LastPatch
<1>7. p["stage"] = "verification"
  BY <1>1, <1>2, <1>3, LastPatch
<1>8. p["approval"] = "approved"
  BY <1>1, <1>2, <1>3, LastPatch
<1>9. p = [type |-> p.type, domain |-> p.domain, status |-> p.status, stage |-> p.stage,
            approval |-> p.approval]
  BY RecordByFields
<1> HIDE DEF p
<1>10. p = [type |-> r.type, domain |-> r.domain, status |-> "blocked", stage |-> "verification",
            approval |-> "approved"]
  BY <1>4, <1>5, <1>6, <1>7, <1>8, <1>9
<1> QED
  BY <1>10 DEF p

(* Its connector calls returned.                                            *)
LEMMA CompletedRecord ==
  ASSUME NEW r \in Level4Records, NEW done \in Int, done >= 2
  PROVE  Patched(r, Completed, done) =
           [type |-> r.type, domain |-> r.domain, status |-> "completed", stage |-> "deployment",
            approval |-> r.approval]
<1> DEFINE p == Patched(r, Completed, done)
<1>1. DOMAIN r = {"type", "domain", "status", "stage", "approval"}
  BY DEF Level4Records
<1>2. DOMAIN Completed = {1, 2} /\ DOMAIN Completed \subseteq Int
  BY DEF Completed
<1>3. /\ DOMAIN Completed[1] = {"status"}
      /\ DOMAIN Completed[2] = {"stage"}
      /\ Completed[1]["status"] = "completed"
      /\ Completed[2]["stage"] = "deployment"
  BY DEF Completed
<1>4. p["type"] = r["type"]
  BY <1>1, <1>2, <1>3, NoPatch
<1>5. p["domain"] = r["domain"]
  BY <1>1, <1>2, <1>3, NoPatch
<1>6. p["status"] = "completed"
  BY <1>1, <1>2, <1>3, LastPatch
<1>7. p["stage"] = "deployment"
  BY <1>1, <1>2, <1>3, LastPatch
<1>8. p["approval"] = r["approval"]
  BY <1>1, <1>2, <1>3, NoPatch
<1>9. p = [type |-> p.type, domain |-> p.domain, status |-> p.status, stage |-> p.stage,
            approval |-> p.approval]
  BY RecordByFields
<1> HIDE DEF p
<1>10. p = [type |-> r.type, domain |-> r.domain, status |-> "completed", stage |-> "deployment",
            approval |-> r.approval]
  BY <1>4, <1>5, <1>6, <1>7, <1>8, <1>9
<1> QED
  BY <1>10 DEF p

(* One of them threw.                                                       *)
LEMMA FailedRecord ==
  ASSUME NEW r \in Level4Records, NEW done \in Int, done >= 1
  PROVE  Patched(r, Failed, done) =
           [type |-> r.type, domain |-> r.domain, status |-> "failed", stage |-> r.stage,
            approval |-> r.approval]
<1> DEFINE p == Patched(r, Failed, done)
<1>1. DOMAIN r = {"type", "domain", "status", "stage", "approval"}
  BY DEF Level4Records
<1>2. DOMAIN Failed = {1} /\ DOMAIN Failed \subseteq Int
  BY DEF Failed
<1>3. /\ DOMAIN Failed[1] = {"status"}
      /\ Failed[1]["status"] = "failed"
  BY DEF Failed
<1>4. p["type"] = r["type"]
  BY <1>1, <1>2, <1>3, NoPatch
<1>5. p["domain"] = r["domain"]
  BY <1>1, <1>2, <1>3, NoPatch
<1>6. p["status"] = "failed"
  BY <1>1, <1>2, <1>3, LastPatch
<1>7. p["stage"] = r["stage"]
  BY <1>1, <1>2, <1>3, NoPatch
<1>8. p["approval"] = r["approval"]
  BY <1>1, <1>2, <1>3, NoPatch
<1>9. p = [type |-> p.type, domain |-> p.domain, status |-> p.status, stage |-> p.stage,
            approval |-> p.approval]
  BY RecordByFields
<1> HIDE DEF p
<1>10. p = [type |-> r.type, domain |-> r.domain, status |-> "failed", stage |-> r.stage,
            approval |-> r.approval]
  BY <1>4, <1>5, <1>6, <1>7, <1>8, <1>9
<1> QED
  BY <1>10 DEF p

(* What approve-execute keeps of one action while the process lives. *)
OneOutcome(a) ==
    LET status == level4Actions[a].status
    IN  /\ status # "approved"
        /\ status = "executing" <=> a \in DOMAIN awaited
        /\ status = "failed" <=> a \in deadLetters
        /\ status = "failed" <=> <<a, "failed">> \in externalWrites
        /\ status = "completed" <=> <<"action_executed", a>> \in level4Log
        /\ status = "pending" => outsideCalls[a] = 0
        /\ outsideCalls[a] <= CallsOf(level4Actions[a].type)
        /\ a \in DOMAIN awaited => awaited[a] = outsideCalls[a]

NothingOf(a) ==
    /\ outsideCalls[a] = 0
    /\ a \notin deadLetters /\ a \notin DOMAIN awaited
    /\ <<a, "failed">> \notin externalWrites
    /\ <<"action_executed", a>> \notin level4Log

OutcomesInv ==
    /\ level4Actions \in Seq(Level4Records)
    /\ Len(level4Actions) <= 4 * launches
    /\ outsideCalls \in [ActionIds -> Nat]
    /\ DOMAIN awaited \subseteq DOMAIN level4Actions
    /\ \A a \in DOMAIN level4Actions : OneOutcome(a)
    /\ \A a \in ActionIds \ DOMAIN level4Actions : NothingOf(a)

LaunchInv ==
    /\ provisioningCrashes \in Nat
    /\ launches \in Nat /\ launches <= MaxLaunches
    /\ provisioningCrashes = 0 => OutcomesInv

LEMMA LaunchTypes ==
  /\ Range(LaunchActions) = {"provisioning.domain_dns", "provisioning.deploy", "provisioning.email_setup",
                             "monetization.stripe_setup"}
  /\ Len(LaunchActions) = 4 /\ ActionIds = 1..(4 * MaxLaunches)
  /\ \A i \in 1..4 : LaunchActions[i] \in Range(LaunchActions)
  BY DEF LaunchActions, Range, ActionIds

LEMMA OutcomesFromInv == LaunchInv => OutcomesAreOnFile
<1> SUFFICES ASSUME LaunchInv, provisioningCrashes = 0, NEW a \in DOMAIN level4Actions
             PROVE  LET status == level4Actions[a].status
                    IN  /\ status \in {"approved", "executing"} <=> a \in DOMAIN awaited
                        /\ status = "failed" <=> a \in deadLetters
                        /\ status = "failed" <=> <<a, "failed">> \in externalWrites
                        /\ status = "completed" <=> <<"action_executed", a>> \in level4Log
                        /\ outsideCalls[a] <= CallsOf(level4Actions[a].type)
  BY DEF OutcomesAreOnFile
<1>1. OneOutcome(a)
  BY DEF LaunchInv, OutcomesInv
<1> QED
  BY <1>1 DEF OneOutcome

LEMMA LaunchInvInit == ProvisioningInit => LaunchInv
<1> SUFFICES ASSUME ProvisioningInit PROVE LaunchInv
  OBVIOUS
<1> USE DEF ProvisioningInit
<1>1. /\ provisioningCrashes = 0 /\ launches = 0 /\ level4Actions = <<>> /\ DOMAIN level4Actions = {}
      /\ Len(level4Actions) = 0 /\ level4Actions \in Seq(Level4Records)
  OBVIOUS
<1>2. \A a \in ActionIds : NothingOf(a)
  BY DEF NothingOf
<1>3. outsideCalls \in [ActionIds -> Nat] /\ DOMAIN awaited = {}
  OBVIOUS
<1>4. OutcomesInv
  BY <1>1, <1>2, <1>3 DEF OutcomesInv
<1> QED
  BY <1>1, <1>4, ProvisioningAssumption DEF LaunchInv, ProvisioningAssumption

(* A handler that ends with the process asks nothing more of the files. *)
LEMMA Whole ==
  ASSUME LaunchInv, NEW done \in Int, NEW last \in Int, Ending(done, last),
         launches' \in Nat, launches' <= MaxLaunches,
         (done >= last /\ provisioningCrashes = 0 /\ provisioningCrashes' = 0 /\ OutcomesInv) => OutcomesInv'
  PROVE  LaunchInv'
<1>1. provisioningCrashes \in Nat /\ provisioningCrashes' \in Nat
  BY DEF LaunchInv, Ending
<1>2. CASE done < last
  BY <1>1, <1>2 DEF LaunchInv, Ending
<1>3. CASE done >= last
  BY <1>1, <1>3 DEF LaunchInv, Ending
<1> QED
  BY <1>2, <1>3

LEMMA LaunchKeeps ==
  ASSUME LaunchInv, NEW domain \in VentureDomains, NEW done \in 0..LaunchWrites, LaunchFromPrompt(domain, done)
  PROVE  LaunchInv'
<1>1. LaunchWrites = 20
  BY DEF LaunchWrites, LaunchActions
<1>2. Ending(done, 20) /\ launches' = launches + 1 /\ launches < MaxLaunches
  BY <1>1 DEF LaunchFromPrompt
<1>3. launches' \in Nat /\ launches' <= MaxLaunches
  BY <1>2, ProvisioningAssumption DEF LaunchInv, ProvisioningAssumption
<1>4. ASSUME done >= 20, OutcomesInv PROVE OutcomesInv'
  <2>1. done = 20 /\ ~(done > 20)
    BY <1>4, <1>1
  <2>2. (12 + 2) \div 3 = 4 /\ 12 \div 3 = 4 /\ done - 8 = 12 /\ done > 8
    BY <2>1
  <2> DEFINE new == [i \in 1..4 |->
                 [type |-> LaunchActions[i], domain |-> domain, status |-> "pending", stage |-> "none",
                  approval |-> IF 12 >= 3 * i - 1 THEN "pending" ELSE "none"]]
             first == Len(level4Actions)
  <2>3. /\ level4Actions' = level4Actions \o new
        /\ level4Log' = level4Log \cup {<<"action_proposed", first + i>> : i \in 1..4}
        /\ UNCHANGED <<deadLetters, externalWrites, outsideCalls>>
    BY <2>2 DEF LaunchFromPrompt
  <2>4. DOMAIN awaited' = DOMAIN awaited \ {0} /\ \A b \in DOMAIN awaited' : awaited'[b] = awaited[b]
    BY <2>1, <1>1 DEF LaunchFromPrompt, Unlocked
  <2>5. new \in [1..4 -> Level4Records] /\ \A i \in 1..4 : new[i].status = "pending"
    BY LaunchTypes DEF Level4Records, LaunchStatuses, CheckpointStages
  <2>6. new \in Seq(Level4Records) /\ Len(new) = 4
    BY <2>5
  <2> HIDE DEF new
  <2>7. level4Actions \in Seq(Level4Records) /\ first \in Nat /\ first <= 4 * launches
    BY <1>4 DEF OutcomesInv
  <2>8. /\ level4Actions' \in Seq(Level4Records) /\ Len(level4Actions') = first + 4
        /\ DOMAIN level4Actions = 1..first /\ DOMAIN level4Actions' = 1..(first + 4)
        /\ \A a \in 1..first : level4Actions'[a] = level4Actions[a]
        /\ \A a \in 1..(first + 4) : a > first => level4Actions'[a] = new[a - first]
    <3>0. /\ level4Actions \o new \in Seq(Level4Records)
          /\ Len(level4Actions \o new) = Len(level4Actions) + Len(new)
          /\ \A i \in 1 .. Len(level4Actions) + Len(new) : (level4Actions \o new)[i] =
                IF i <= Len(level4Actions) THEN level4Actions[i] ELSE new[i - Len(level4Actions)]
      BY <2>6, <2>7, ConcatProperties
    <3>1. level4Actions \o new \in Seq(Level4Records) /\ Len(level4Actions \o new) = first + 4
      BY <3>0, <2>6, <2>7
    <3>2. DOMAIN level4Actions = 1..first /\ DOMAIN level4Actions' = 1..(first + 4)
      BY <2>3, <2>7, <3>1
    <3>3. \A a \in 1..first : (level4Actions \o new)[a] = level4Actions[a]
      BY <2>6, <2>7
    <3>4. \A a \in 1..(first + 4) : a > first => (level4Actions \o new)[a] = new[a - first]
      BY <3>0, <2>6, <2>7
    <3> QED
      BY <2>3, <3>1, <3>2, <3>3, <3>4
  <2>9. 1..(first + 4) \subseteq ActionIds /\ Len(level4Actions') <= 4 * launches'
    <3>1. first + 4 <= 4 * launches' /\ first + 4 <= 4 * MaxLaunches
      <4>1. launches \in Nat /\ MaxLaunches \in Nat
        BY ProvisioningAssumption DEF LaunchInv, ProvisioningAssumption
      <4> HIDE DEF first
      <4> QED
        BY <2>7, <1>2, <4>1
    <3>2. \A k \in 1..(first + 4) : k \in 1..(4 * MaxLaunches)
      <4> HIDE DEF first
      <4> QED
        BY <3>1, <2>7, ProvisioningAssumption DEF ProvisioningAssumption
    <3> QED
      BY <3>1, <3>2, <2>8, LaunchTypes
  <2>10. \A a : <<"action_executed", a>> \in level4Log' <=> <<"action_executed", a>> \in level4Log
    BY <2>3
  <2>11. DOMAIN awaited' = DOMAIN awaited
    <3>1. 0 \notin DOMAIN awaited
      BY <2>8, <1>4 DEF OutcomesInv
    <3> QED
      BY <2>4, <3>1
  <2>12. ASSUME NEW a \in 1..(first + 4) PROVE OneOutcome(a)'
    <3>1. CASE a \in 1..first
      <4>1. OneOutcome(a) /\ level4Actions'[a] = level4Actions[a]
        BY <3>1, <2>8, <1>4 DEF OutcomesInv
      <4> QED
        BY <4>1, <2>3, <2>4, <2>10, <2>11 DEF OneOutcome
    <3>2. CASE a > first
      <4>1. NothingOf(a)
        BY <3>2, <2>8, <2>9, <1>4 DEF OutcomesInv
      <4>2. level4Actions'[a].status = "pending"
        <5>1. a - first \in 1..4 /\ level4Actions'[a] = new[a - first]
          BY <3>2, <2>7, <2>8
        <5> QED
          BY <5>1, <2>5
      <4>3. CallsOf(level4Actions'[a].type) \in Nat
        BY DEF CallsOf
      <4>4. /\ outsideCalls'[a] = 0 /\ a \notin deadLetters' /\ a \notin DOMAIN awaited'
            /\ <<a, "failed">> \notin externalWrites' /\ <<"action_executed", a>> \notin level4Log'
        BY <4>1, <2>3, <2>10, <2>11 DEF NothingOf
      <4> QED
        BY <4>2, <4>3, <4>4 DEF OneOutcome
    <3> QED
      BY <3>1, <3>2, <2>7
  <2>13. ASSUME NEW a \in ActionIds \ 1..(first + 4) PROVE NothingOf(a)'
    <3>1. NothingOf(a)
      BY <2>7, <2>8, <1>4, LaunchTypes DEF OutcomesInv
    <3> QED
      BY <3>1, <2>3, <2>10, <2>11 DEF NothingOf
  <2>14. outsideCalls' \in [ActionIds -> Nat] /\ DOMAIN awaited' \subseteq DOMAIN level4Actions'
    BY <1>4, <2>3, <2>11, <2>8, <2>7 DEF OutcomesInv
  <2> QED
    BY <2>8, <2>9, <2>12, <2>13, <2>14 DEF OutcomesInv
<1>5. done \in Int /\ 20 \in Int
  BY <1>1
<1> QED
  BY <1>2, <1>3, <1>4, <1>5, Whole

(* A handler touches what is kept of its own action only. *)
Elsewhere(a) ==
    /\ DOMAIN awaited' \ {a} = DOMAIN awaited \ {a}
    /\ \A b \in DOMAIN awaited' \ {a} : awaited'[b] = awaited[b]
    /\ \A b \in ActionIds \ {a} :
         /\ outsideCalls'[b] = outsideCalls[b]
         /\ b \in deadLetters' <=> b \in deadLetters
         /\ <<b, "failed">> \in externalWrites' <=> <<b, "failed">> \in externalWrites
         /\ <<"action_executed", b>> \in level4Log' <=> <<"action_executed", b>> \in level4Log

LEMMA OneActionChanges ==
  ASSUME OutcomesInv, launches \in Nat, launches <= MaxLaunches, launches' = launches, 
         NEW a \in DOMAIN level4Actions, NEW new \in Level4Records,
         level4Actions' = [level4Actions EXCEPT ![a] = new],
         outsideCalls' \in [ActionIds -> Nat], Elsewhere(a), OneOutcome(a)'
  PROVE  OutcomesInv'
<1>1. level4Actions \in Seq(Level4Records) /\ Len(level4Actions) \in Nat /\ DOMAIN level4Actions = 1..Len(level4Actions)
  BY DEF OutcomesInv
<1>2. level4Actions' \in Seq(Level4Records) /\ Len(level4Actions') = Len(level4Actions)
  BY <1>1
<1>3. DOMAIN level4Actions' = DOMAIN level4Actions /\ \A b \in DOMAIN level4Actions : b # a => level4Actions'[b] = level4Actions[b]
  BY <1>1
<1>4. DOMAIN level4Actions \subseteq ActionIds
  BY <1>1, LaunchTypes, ProvisioningAssumption DEF OutcomesInv, ProvisioningAssumption
<1>5. ASSUME NEW b \in DOMAIN level4Actions, b # a PROVE OneOutcome(b)'
  <2>1. OneOutcome(b) /\ level4Actions'[b] = level4Actions[b] /\ b \in ActionIds
    BY <1>3, <1>4, <1>5 DEF OutcomesInv
  <2>2. /\ outsideCalls'[b] = outsideCalls[b]
        /\ b \in deadLetters' <=> b \in deadLetters
        /\ <<b, "failed">> \in externalWrites' <=> <<b, "failed">> \in externalWrites
        /\ <<"action_executed", b>> \in level4Log' <=> <<"action_executed", b>> \in level4Log
        /\ b \in DOMAIN awaited' <=> b \in DOMAIN awaited
        /\ b \in DOMAIN awaited' => awaited'[b] = awaited[b]
    BY <2>1, <1>5 DEF Elsewhere
  <2> QED
    BY <2>1, <2>2 DEF OneOutcome
<1>6. ASSUME NEW b \in ActionIds \ DOMAIN level4Actions PROVE NothingOf(b)'
  <2>1. NothingOf(b) /\ b # a
    BY <1>6 DEF OutcomesInv
  <2>2. /\ outsideCalls'[b] = outsideCalls[b]
        /\ b \in deadLetters' <=> b \in deadLetters
        /\ <<b, "failed">> \in externalWrites' <=> <<b, "failed">> \in externalWrites
        /\ <<"action_executed", b>> \in level4Log' <=> <<"action_executed", b>> \in level4Log
        /\ b \in DOMAIN awaited' <=> b \in DOMAIN awaited
    BY <2>1, <1>6 DEF Elsewhere
  <2> QED
    BY <2>1, <2>2 DEF NothingOf
<1>7. DOMAIN awaited' \subseteq DOMAIN level4Actions'
  BY <1>3 DEF OutcomesInv, Elsewhere
<1>8. Len(level4Actions') <= 4 * launches'
  BY <1>2 DEF OutcomesInv
<1> QED
  BY <1>2, <1>3, <1>5, <1>6, <1>7, <1>8 DEF OutcomesInv

LEMMA BlockKeeps ==
  ASSUME LaunchInv, NEW a \in DOMAIN level4Actions, NEW key, NEW done \in 0..Len(BlockedAction),
         BlockExecute(a, key, done)
  PROVE  LaunchInv'
<1>1. Len(BlockedAction) = 5
  BY DEF BlockedAction, Approved
<1>2. Ending(done, 5) /\ launches' = launches
  BY <1>1 DEF BlockExecute
<1>3. ASSUME done >= 5, OutcomesInv PROVE OutcomesInv'
  <2> DEFINE r == level4Actions[a]
             new == [type |-> r.type, domain |-> r.domain, status |-> "blocked",
                     stage |-> "verification", approval |-> "approved"]
  <2>1. r \in Level4Records /\ a \in ActionIds /\ OneOutcome(a)
    BY <1>3, LaunchTypes, ProvisioningAssumption DEF OutcomesInv, LaunchInv, ProvisioningAssumption
  <2>2. Patched(r, BlockedAction, done) = new
    BY <2>1, <1>3, BlockedRecord
  <2>3. /\ level4Actions' = [level4Actions EXCEPT ![a] = new]
        /\ UNCHANGED <<externalWrites, deadLetters, level4Log, outsideCalls>>
        /\ r.status = "pending"
    BY <2>2 DEF BlockExecute, MayExecute
  <2>4. DOMAIN awaited' = DOMAIN awaited \ {a} /\ \A b \in DOMAIN awaited' : awaited'[b] = awaited[b]
    BY <1>1, <1>3 DEF BlockExecute, Unlocked
  <2>5. new \in Level4Records /\ new.status = "blocked" /\ new.type = r.type
    BY <2>1 DEF Level4Records, LaunchStatuses, CheckpointStages
  <2> HIDE DEF new
  <2>6. level4Actions'[a] = new
    BY <2>3
  <2>7. OneOutcome(a)'
    BY <2>1, <2>3, <2>4, <2>5, <2>6 DEF OneOutcome
  <2>8. Elsewhere(a)
    BY <2>3, <2>4 DEF Elsewhere
  <2>9. outsideCalls' \in [ActionIds -> Nat]
    BY <2>3, <1>3 DEF OutcomesInv
  <2> QED
    BY <1>2, <1>3, <2>3, <2>5, <2>7, <2>8, <2>9, OneActionChanges DEF LaunchInv
<1> QED
  BY <1>1, <1>2, <1>3, Whole DEF LaunchInv

LEMMA BeginActionKeeps ==
  ASSUME LaunchInv, NEW a \in DOMAIN level4Actions, NEW key, NEW done \in 0..Len(Begun),
         BeginExecute(a, key, done)
  PROVE  LaunchInv'
<1>1. Len(Begun) = 6
  BY DEF Begun, Approved
<1>2. Ending(done, 6) /\ launches' = launches
  BY <1>1 DEF BeginExecute
<1>3. ASSUME done >= 6, OutcomesInv PROVE OutcomesInv'
  <2> DEFINE r == level4Actions[a]
             new == [type |-> r.type, domain |-> r.domain, status |-> "executing",
                     stage |-> "governance", approval |-> "approved"]
  <2>1. r \in Level4Records /\ a \in ActionIds /\ OneOutcome(a) /\ outsideCalls \in [ActionIds -> Nat]
    BY <1>3, LaunchTypes, ProvisioningAssumption DEF OutcomesInv, LaunchInv, ProvisioningAssumption
  <2>2. Patched(r, Begun, done) = new
    BY <2>1, <1>3, BegunRecord
  <2>3. /\ level4Actions' = [level4Actions EXCEPT ![a] = new]
        /\ UNCHANGED <<externalWrites, deadLetters, level4Log>>
        /\ r.status = "pending" /\ CallsOf(r.type) > 0
    BY <2>2 DEF BeginExecute, MayExecute
  <2>4. /\ awaited' = [b \in DOMAIN awaited \cup {a} |-> IF b = a THEN 1 ELSE awaited[b]]
        /\ outsideCalls' = [outsideCalls EXCEPT ![a] = @ + 1]
    BY <1>1, <1>3 DEF BeginExecute
  <2>5. new \in Level4Records /\ new.status = "executing" /\ new.type = r.type
    BY <2>1 DEF Level4Records, LaunchStatuses, CheckpointStages
  <2> HIDE DEF new
  <2>6. level4Actions'[a] = new /\ outsideCalls'[a] = 1
    BY <2>1, <2>3, <2>4 DEF OneOutcome
  <2>7. OneOutcome(a)'
    <3>1. awaited'[a] = 1 /\ a \in DOMAIN awaited' /\ CallsOf(r.type) >= 1
      BY <2>3, <2>4 DEF CallsOf
    <3> QED
      BY <2>1, <2>3, <2>5, <2>6, <3>1 DEF OneOutcome
  <2>8. Elsewhere(a)
    BY <2>1, <2>3, <2>4 DEF Elsewhere
  <2>9. outsideCalls' \in [ActionIds -> Nat]
    BY <2>1, <2>4
  <2> QED
    BY <1>2, <1>3, <2>3, <2>5, <2>7, <2>8, <2>9, OneActionChanges DEF LaunchInv
<1> QED
  BY <1>1, <1>2, <1>3, Whole DEF LaunchInv

LEMMA NextCallKeeps ==
  ASSUME LaunchInv, NEW a \in DOMAIN level4Actions, NextCall(a)
  PROVE  LaunchInv'
<1>1. UNCHANGED <<level4Actions, externalWrites, deadLetters, level4Log, launches, provisioningCrashes>>
  BY DEF NextCall
<1>2. ASSUME OutcomesInv PROVE OutcomesInv'
  <2> DEFINE r == level4Actions[a]
  <2>1. r \in Level4Records /\ a \in ActionIds /\ OneOutcome(a) /\ outsideCalls \in [ActionIds -> Nat]
        /\ level4Actions \in Seq(Level4Records)
    BY <1>2, LaunchTypes, ProvisioningAssumption DEF OutcomesInv, LaunchInv, ProvisioningAssumption
  <2>2. /\ awaited' = [awaited EXCEPT ![a] = @ + 1] /\ a \in DOMAIN awaited
        /\ outsideCalls' = [outsideCalls EXCEPT ![a] = @ + 1]
        /\ awaited[a] < CallsOf(r.type)
    BY DEF NextCall
  <2>3. awaited[a] = outsideCalls[a] /\ awaited[a] \in Nat /\ r.status = "executing"
    BY <2>1, <2>2 DEF OneOutcome
  <2>4. DOMAIN awaited' = DOMAIN awaited /\ awaited'[a] = outsideCalls'[a] /\ outsideCalls'[a] = awaited[a] + 1
    BY <2>1, <2>2, <2>3
  <2>5. CallsOf(r.type) \in Nat
    BY DEF CallsOf
  <2>6. OneOutcome(a)'
    BY <1>1, <2>1, <2>2, <2>3, <2>4, <2>5 DEF OneOutcome
  <2>7. Elsewhere(a)
    BY <1>1, <2>1, <2>2, <2>4 DEF Elsewhere
  <2>8. level4Actions' = [level4Actions EXCEPT ![a] = r] /\ outsideCalls' \in [ActionIds -> Nat]
    BY <1>1, <2>1, <2>2
  <2> QED
    BY <1>1, <1>2, <2>1, <2>6, <2>7, <2>8, OneActionChanges DEF LaunchInv
<1> QED
  BY <1>1, <1>2 DEF LaunchInv

LEMMA FailKeeps ==
  ASSUME LaunchInv, NEW a \in DOMAIN level4Actions, NEW done \in 0..4, FailExecute(a, done)
  PROVE  LaunchInv'
<1>1. Ending(done, 4) /\ launches' = launches
  BY DEF FailExecute
<1>2. ASSUME done >= 4, OutcomesInv PROVE OutcomesInv'
  <2> DEFINE r == level4Actions[a]
             new == [type |-> r.type, domain |-> r.domain, status |-> "failed",
                     stage |-> r.stage, approval |-> r.approval]
  <2>1. r \in Level4Records /\ a \in ActionIds /\ OneOutcome(a)
    BY <1>2, LaunchTypes, ProvisioningAssumption DEF OutcomesInv, LaunchInv, ProvisioningAssumption
  <2>2. Patched(r, Failed, done) = new
    BY <2>1, <1>2, FailedRecord
  <2>3. /\ level4Actions' = [level4Actions EXCEPT ![a] = new]
        /\ externalWrites' = externalWrites \cup {<<a, "failed">>}
        /\ deadLetters' = deadLetters \cup {a}
        /\ UNCHANGED <<level4Log, outsideCalls>>
        /\ a \in DOMAIN awaited
    BY <1>2, <2>2 DEF FailExecute
  <2>4. DOMAIN awaited' = DOMAIN awaited \ {a} /\ \A b \in DOMAIN awaited' : awaited'[b] = awaited[b]
    BY <1>2 DEF FailExecute, Unlocked
  <2>5. new \in Level4Records /\ new.status = "failed" /\ new.type = r.type
    BY <2>1 DEF Level4Records, LaunchStatuses, CheckpointStages
  <2> HIDE DEF new
  <2>6. level4Actions'[a] = new
    BY <2>3
  <2>7. OneOutcome(a)'
    BY <2>1, <2>3, <2>4, <2>5, <2>6 DEF OneOutcome
  <2>8. Elsewhere(a)
    BY <2>3, <2>4 DEF Elsewhere
  <2>9. outsideCalls' \in [ActionIds -> Nat]
    BY <2>3, <1>2 DEF OutcomesInv
  <2> QED
    BY <1>1, <1>2, <2>3, <2>5, <2>7, <2>8, <2>9, OneActionChanges DEF LaunchInv
<1> QED
  BY <1>1, <1>2, Whole DEF LaunchInv

(* The writes that end an execution, the last of them included. *)
LEMMA FiledKeeps ==
  ASSUME OutcomesInv, launches \in Nat, launches <= MaxLaunches, launches' = launches,
         NEW a \in DOMAIN level4Actions, NEW r \in Level4Records, r.type = level4Actions[a].type,
         NEW done \in Int, Filed(a, r, done), done >= Len(SitePatches(r.type)) + 4,
         level4Actions[a].status \in {"pending", "executing"},
         outsideCalls[a] <= CallsOf(r.type),
         UNCHANGED <<deadLetters, outsideCalls>>
  PROVE  OutcomesInv'
<1> DEFINE n == Len(SitePatches(r.type))
           new == [type |-> r.type, domain |-> r.domain, status |-> "completed",
                   stage |-> "deployment", approval |-> r.approval]
<1>1. n \in Nat
  BY DEF SitePatches
<1>2. /\ level4Actions' = [level4Actions EXCEPT ![a] = Patched(r, Completed, done - 1 - n)]
      /\ externalWrites' = IF done >= 1 THEN externalWrites \cup {<<a, "success">>} ELSE externalWrites
      /\ level4Log' = IF done >= n + 4 THEN level4Log \cup {<<"action_executed", a>>} ELSE level4Log
      /\ awaited' = Unlocked(a, done, n + 4)
  BY DEF Filed
<1>3. done >= n + 4
  OBVIOUS
<1> HIDE DEF n
<1>4. Patched(r, Completed, done - 1 - n) = new
  BY <1>1, <1>3, CompletedRecord
<1>5. new \in Level4Records /\ new.status = "completed" /\ new.type = r.type
  BY DEF Level4Records, LaunchStatuses, CheckpointStages
<1> HIDE DEF new
<1>6. /\ level4Actions' = [level4Actions EXCEPT ![a] = new] /\ level4Actions'[a] = new
      /\ externalWrites' = externalWrites \cup {<<a, "success">>}
      /\ level4Log' = level4Log \cup {<<"action_executed", a>>}
  <2>1. done >= 1
    BY <1>1, <1>3
  <2>2. level4Actions' = [level4Actions EXCEPT ![a] = new]
    BY <1>2, <1>4
  <2>3. level4Actions'[a] = new
    BY <2>2
  <2> QED
    BY <1>2, <1>3, <2>1, <2>2, <2>3
<1>7. DOMAIN awaited' = DOMAIN awaited \ {a} /\ \A b \in DOMAIN awaited' : awaited'[b] = awaited[b]
  BY <1>1, <1>2, <1>3 DEF Unlocked
<1>8. OneOutcome(a) /\ outsideCalls' \in [ActionIds -> Nat]
  BY DEF OutcomesInv
<1>9. OneOutcome(a)'
  <2>1. /\ a \notin deadLetters' /\ <<a, "failed">> \notin externalWrites' /\ <<"action_executed", a>> \in level4Log'
        /\ a \notin DOMAIN awaited' /\ outsideCalls'[a] <= CallsOf(r.type)
    BY <1>6, <1>7, <1>8 DEF OneOutcome
  <2> QED
    BY <2>1, <1>5, <1>6 DEF OneOutcome
<1>10. Elsewhere(a)
  BY <1>6, <1>7 DEF Elsewhere
<1> QED
  BY <1>5, <1>6, <1>8, <1>9, <1>10, OneActionChanges

LEMMA CompleteKeeps ==
  ASSUME LaunchInv, NEW a \in DOMAIN level4Actions,
         NEW done \in 0..(Len(SitePatches(level4Actions[a].type)) + 4), CompleteAction(a, done)
  PROVE  LaunchInv'
<1> DEFINE last == Len(SitePatches(level4Actions[a].type)) + 4
<1>1. last \in Int /\ done \in Int
  BY DEF SitePatches
<1>2. Ending(done, last) /\ launches' = launches
  BY DEF CompleteAction, Filed
<1>3. ASSUME done >= last, OutcomesInv PROVE OutcomesInv'
  <2> DEFINE r == level4Actions[a]
  <2>1. r \in Level4Records /\ OneOutcome(a)
    BY <1>3 DEF OutcomesInv
  <2>2. /\ Filed(a, r, done) /\ a \in DOMAIN awaited
        /\ UNCHANGED <<deadLetters, outsideCalls>>
    BY DEF CompleteAction
  <2>3. r.status \in {"pending", "executing"} /\ outsideCalls[a] <= CallsOf(r.type)
    BY <2>1, <2>2 DEF OneOutcome
  <2> QED
    BY <1>1, <1>2, <1>3, <2>1, <2>2, <2>3, FiledKeeps DEF LaunchInv
<1> HIDE DEF last
<1> QED
  BY <1>1, <1>2, <1>3, Whole DEF LaunchInv

LEMMA AtOnceKeeps ==
  ASSUME LaunchInv, NEW a \in DOMAIN level4Actions, NEW key,
         NEW done \in 0..(Len(Begun) + Len(SitePatches(level4Actions[a].type)) + 4),
         ExecuteAtOnce(a, key, done)
  PROVE  LaunchInv'
<1> DEFINE last == Len(SitePatches(level4Actions[a].type)) + 4
           r == Patched(level4Actions[a], Begun, done)
<1>1. Len(Begun) = 6
  BY DEF Begun, Approved
<1>2. last \in Int /\ done - 6 \in Int /\ done \in Int
  BY <1>1 DEF SitePatches
<1>3. /\ Filed(a, r, done - 6) /\ launches' = launches /\ UNCHANGED <<deadLetters, outsideCalls>>
      /\ level4Actions[a].status = "pending"
  BY <1>1 DEF ExecuteAtOnce, MayExecute
<1>4. Ending(done - 6, Len(SitePatches(r.type)) + 4)
  BY <1>3 DEF Filed
<1>5. Len(SitePatches(r.type)) \in Nat
  BY DEF SitePatches
<1>6. ASSUME done - 6 >= Len(SitePatches(r.type)) + 4, OutcomesInv PROVE OutcomesInv'
  <2>1. level4Actions[a] \in Level4Records /\ OneOutcome(a)
    BY <1>6 DEF OutcomesInv
  <2>2. done >= 6
    BY <1>2, <1>5, <1>6
  <2>3. r \in Level4Records /\ r.type = level4Actions[a].type
    BY <1>2, <2>1, <2>2, BegunRecord DEF Level4Records, LaunchStatuses, CheckpointStages
  <2>4. outsideCalls[a] <= CallsOf(r.type)
    BY <2>1, <2>3 DEF OneOutcome
  <2> HIDE DEF r
  <2> QED
    BY <1>2, <1>3, <1>6, <2>3, <2>4, FiledKeeps DEF LaunchInv
<1> HIDE DEF r
<1> QED
  BY <1>2, <1>3, <1>4, <1>5, <1>6, Whole DEF LaunchInv

LEMMA LaunchInvStep == LaunchInv /\ [ProvisioningNext]_provisioningVars => LaunchInv'
<1> SUFFICES ASSUME LaunchInv, [ProvisioningNext]_provisioningVars PROVE LaunchInv'
  OBVIOUS
<1>1. ASSUME UNCHANGED <<level4Actions, awaited, externalWrites, deadLetters, level4Log, outsideCalls,
                         launches, provisioningCrashes>>
      PROVE  LaunchInv'
  BY <1>1 DEF LaunchInv, OutcomesInv, OneOutcome, NothingOf
<1>2. ASSUME NEW domain \in VentureDomains, NEW done \in 0..LaunchWrites, LaunchFromPrompt(domain, done)
      PROVE  LaunchInv'
  BY <1>2, LaunchKeeps
<1>3. ASSUME NEW a \in DOMAIN level4Actions, NEW key \in ApproveKeys, RefuseExecute(a, key) PROVE LaunchInv'
  BY <1>3, <1>1 DEF RefuseExecute
<1>4. ASSUME NEW a \in DOMAIN level4Actions, NEW key \in ApproveKeys, NEW done \in 0..Len(BlockedAction),
             BlockExecute(a, key, done)
      PROVE  LaunchInv'
  BY <1>4, BlockKeeps
<1>5. ASSUME NEW a \in DOMAIN level4Actions, NEW key \in ApproveKeys, NEW done \in 0..Len(Begun),
             BeginExecute(a, key, done)
      PROVE  LaunchInv'
  BY <1>5, BeginActionKeeps
<1>6. ASSUME NEW a \in DOMAIN level4Actions, NEW key \in ApproveKeys,
             NEW done \in 0..(Len(Begun) + Len(SitePatches(level4Actions[a].type)) + 4),
             ExecuteAtOnce(a, key, done)
      PROVE  LaunchInv'
  BY <1>6, AtOnceKeeps
<1>7. ASSUME NEW a \in DOMAIN level4Actions, NextCall(a) PROVE LaunchInv'
  BY <1>7, NextCallKeeps
<1>8. ASSUME NEW a \in DOMAIN level4Actions,
             NEW done \in 0..(Len(SitePatches(level4Actions[a].type)) + 4), CompleteAction(a, done)
      PROVE  LaunchInv'
  BY <1>8, CompleteKeeps
<1>9. ASSUME NEW a \in DOMAIN level4Actions, NEW done \in 0..4, FailExecute(a, done) PROVE LaunchInv'
  BY <1>9, FailKeeps
<1>10. CASE UNCHANGED provisioningVars
  BY <1>10, <1>1 DEF provisioningVars
<1> QED
  BY <1>2, <1>3, <1>4, <1>5, <1>6, <1>7, <1>8, <1>9, <1>10 DEF ProvisioningNext

(* approve-execute and its catch: while the process lives no approved      *)
(* action is left half done, the dead letters and the failed writes are    *)
(* the failed actions, the executions on the log the completed ones, and   *)
(* no action makes a call outside twice.                                   *)
THEOREM OutcomesFiled == ProvisioningSpec => []OutcomesAreOnFile
<1>1. ProvisioningInit => LaunchInv
  BY LaunchInvInit
<1>2. LaunchInv /\ [ProvisioningNext]_provisioningVars => LaunchInv'
  BY LaunchInvStep
<1>3. LaunchInv => OutcomesAreOnFile
  BY OutcomesFromInv
<1> QED
  BY <1>1, <1>2, <1>3, PTL DEF ProvisioningSpec

(* A field after the first writes: as it was, or as one of them left it.   *)
PatchesOf(patches, done, f) == {i \in DOMAIN patches : i <= done /\ f \in DOMAIN patches[i]}

LEMMA PatchedField ==
    ASSUME NEW r, NEW patches, NEW n \in Nat, DOMAIN patches = 1..n, NEW done \in Int, NEW f \in DOMAIN r
    PROVE  /\ PatchesOf(patches, done, f) = {} => Patched(r, patches, done)[f] = r[f]
           /\ PatchesOf(patches, done, f) # {} =>
                \E i \in PatchesOf(patches, done, f) : Patched(r, patches, done)[f] = patches[i][f]
<1>1. PICK last : last = PatchesOf(patches, done, f)
  OBVIOUS
<1>2. last = {k \in {j \in DOMAIN patches : j <= done} : f \in DOMAIN patches[k]}
  BY <1>1 DEF PatchesOf
<1>3. Patched(r, patches, done)[f] = IF last = {} THEN r[f] ELSE patches[Max(last)][f]
  BY <1>2 DEF Patched
<1>4. ASSUME last # {}
      PROVE  Max(last) \in last
  <2> DEFINE D == {x \in Nat : n - x \in last}
  <2>1. last \subseteq 1..n
    BY <1>2
  <2>2. PICK k \in last : k \in 1..n
    BY <1>4, <2>1
  <2>3. n - (n - k) = k /\ n - k \in Nat
    BY <2>2
  <2>4. D \subseteq Nat /\ D # {}
    BY <2>2, <2>3
  <2>5. PICK x \in D : \A y \in D : ~(<<y, x>> \in OpToRel(<, Nat))
    BY <2>4, NatLessThanWellFounded, WFMin
  <2>6. ASSUME NEW y \in last
        PROVE  n - x >= y
    <3>1. y \in 1..n /\ n - y \in Nat /\ n - (n - y) = y /\ x \in Nat
      BY <2>1
    <3>2. n - y \in D
      BY <3>1
    <3>3. ~(n - y < x)
      BY <2>5, <3>1, <3>2 DEF OpToRel
    <3>4. QED
      BY <3>1, <3>3
  <2>7. n - x \in last
    OBVIOUS
  <2>8. \E z \in last : \A y \in last : z >= y
    BY <2>6, <2>7
  <2>9. QED
    BY <2>8 DEF Max
<1>5. QED
  BY <1>1, <1>3, <1>4

(* What approve-execute writes of an action: it is pending only as long as *)
(* nothing is written.                                                     *)
ActionPatches == [status : LaunchStatuses \ {"pending"}] \cup [approval : {"approved"}] \cup [stage : CheckpointStages]

LEMMA PatchedAction ==
    ASSUME NEW r \in Level4Records, NEW patches, NEW n \in Nat, DOMAIN patches = 1..n,
           \A i \in 1..n : patches[i] \in ActionPatches, NEW done \in Int
    PROVE  /\ Patched(r, patches, done) \in Level4Records
           /\ Patched(r, patches, done).status \in {r.status} \cup (LaunchStatuses \ {"pending"})
           /\ done <= 0 => Patched(r, patches, done) = r
           /\ done >= 1 /\ n >= 1 /\ "status" \in DOMAIN patches[1] => Patched(r, patches, done).status # "pending"
<1> DEFINE p == Patched(r, patches, done)
<1>1. DOMAIN r = {"type", "domain", "status", "stage", "approval"}
  BY DEF Level4Records
<1>2. p = [type |-> p.type, domain |-> p.domain, status |-> p.status, stage |-> p.stage,
           approval |-> p.approval]
  BY RecordByFields
<1>3. ASSUME NEW f \in {"type", "domain", "status", "stage", "approval"}
      PROVE  \/ PatchesOf(patches, done, f) = {} /\ p[f] = r[f]
             \/ \E i \in PatchesOf(patches, done, f) : p[f] = patches[i][f]
  <2>1. f \in DOMAIN r
    BY <1>1
  <2>2. QED
    BY <2>1, PatchedField
<1>4. ASSUME NEW f, NEW i \in PatchesOf(patches, done, f)
      PROVE  /\ i <= done /\ i >= 1
             /\ \/ f = "status" /\ patches[i][f] \in LaunchStatuses \ {"pending"}
                \/ f = "approval" /\ patches[i][f] = "approved"
                \/ f = "stage" /\ patches[i][f] \in CheckpointStages
  <2>1. i \in 1..n /\ i <= done /\ f \in DOMAIN patches[i] /\ patches[i] \in ActionPatches
    BY DEF PatchesOf
  <2>2. QED
    BY <2>1 DEF ActionPatches
<1>5. ASSUME NEW f \in {"type", "domain"}
      PROVE  p[f] = r[f]
  BY <1>3, <1>4
<1>6. p["status"] \in {r["status"]} \cup (LaunchStatuses \ {"pending"})
  BY <1>3, <1>4
<1>7. p["stage"] \in {r["stage"]} \cup CheckpointStages
  BY <1>3, <1>4
<1>8. p["approval"] \in {r["approval"], "approved"}
  BY <1>3, <1>4
<1>9. ASSUME done <= 0
      PROVE  p = r
  <2>1. ASSUME NEW f \in {"type", "domain", "status", "stage", "approval"}
        PROVE  p[f] = r[f]
    <3>1. \A i \in PatchesOf(patches, done, f) : i <= done /\ i \in 1..n
      BY DEF PatchesOf
    <3>2. PatchesOf(patches, done, f) = {}
      BY <1>9, <3>1
    <3>3. QED
      BY <1>3, <3>2
  <2>2. DOMAIN p = DOMAIN r /\ p = [f \in DOMAIN r |-> p[f]] /\ r = [f \in DOMAIN r |-> r[f]]
    BY DEF Patched, Level4Records
  <2> HIDE DEF p
  <2>3. QED
    BY <1>1, <2>1, <2>2
<1>10. ASSUME done >= 1, n >= 1, "status" \in DOMAIN patches[1]
       PROVE  p["status"] # "pending"
  <2>1. 1 \in PatchesOf(patches, done, "status")
    BY <1>10 DEF PatchesOf
  <2>2. PICK i \in PatchesOf(patches, done, "status") : p["status"] = patches[i]["status"]
    BY <1>3, <2>1
  <2>3. patches[i]["status"] \in LaunchStatuses \ {"pending"}
    BY <1>4
  <2>4. QED
    BY <2>2, <2>3
<1>11. r.type \in Range(LaunchActions) /\ r.domain \in VentureDomains /\ r.status \in LaunchStatuses
       /\ r.stage \in CheckpointStages /\ r.approval \in {"none", "pending", "approved"}
  BY DEF Level4Records
<1> HIDE DEF p
<1>12. p \in Level4Records
  BY <1>2, <1>5, <1>6, <1>7, <1>8, <1>11 DEF Level4Records
<1>13. QED
  BY <1>6, <1>9, <1>10, <1>12 DEF p

LEMMA PatchLists ==
    /\ Len(Begun) = 6 /\ DOMAIN Begun = 1..6 /\ \A i \in 1..6 : Begun[i] \in ActionPatches
    /\ Len(BlockedAction) = 5 /\ DOMAIN BlockedAction = 1..5 /\ \A i \in 1..5 : BlockedAction[i] \in ActionPatches
    /\ DOMAIN Completed = 1..2 /\ \A i \in 1..2 : Completed[i] \in ActionPatches
    /\ DOMAIN Failed = 1..1 /\ \A i \in 1..1 : Failed[i] \in ActionPatches
    /\ "status" \in DOMAIN Begun[1] /\ "status" \in DOMAIN BlockedAction[1]
BY DEF Begun, BlockedAction, Approved, Completed, Failed, ActionPatches, LaunchStatuses, CheckpointStages

LEMMA PatchedOutcomes ==
    ASSUME NEW r \in Level4Records, NEW done \in Int
    PROVE  /\ \A patches \in {Begun, BlockedAction} :
                /\ Patched(r, patches, done) \in Level4Records
                /\ Patched(r, patches, done).status = "pending" => done <= 0 /\ Patched(r, patches, done) = r
           /\ \A patches \in {Completed, Failed} :
                /\ Patched(r, patches, done) \in Level4Records
                /\ Patched(r, patches, done).status = "pending" => r.status = "pending"
                /\ done <= 0 => Patched(r, patches, done) = r
<1>1. ASSUME NEW patches, NEW n \in Nat, n >= 1, DOMAIN patches = 1..n, \A i \in 1..n : patches[i] \in ActionPatches,
             "status" \in DOMAIN patches[1]
      PROVE  /\ Patched(r, patches, done) \in Level4Records
             /\ Patched(r, patches, done).status = "pending" => done <= 0 /\ Patched(r, patches, done) = r
  BY <1>1, PatchedAction
<1>2. ASSUME NEW patches, NEW n \in Nat, DOMAIN patches = 1..n, \A i \in 1..n : patches[i] \in ActionPatches
      PROVE  /\ Patched(r, patches, done) \in Level4Records
             /\ Patched(r, patches, done).status = "pending" => r.status = "pending"
             /\ done <= 0 => Patched(r, patches, done) = r
  BY <1>2, PatchedAction
<1>3. 1 \in Nat /\ 2 \in Nat /\ 5 \in Nat /\ 6 \in Nat /\ 5 >= 1 /\ 6 >= 1
  OBVIOUS
<1>4. QED
  BY <1>1, <1>2, <1>3, PatchLists

(* Crashes or not: an action that is pending waits at no stage and holds   *)
(* no lock, and what is locked or dead is an action on file.               *)
SiteTyped == "dns" \in DOMAIN site /\ "deploy" \in DOMAIN site
             /\ site["dns"] \in {"pending", "green"} /\ site["deploy"] \in {"pending", "green"}

ActionsTyped ==
    /\ launches \in Nat /\ launches <= MaxLaunches
    /\ level4Actions \in Seq(Level4Records)
    /\ Len(level4Actions) <= 4 * launches
    /\ \A a \in DOMAIN level4Actions : level4Actions[a].status = "pending" =>
          level4Actions[a].stage = "none" /\ a \notin DOMAIN awaited
    /\ DOMAIN awaited \subseteq DOMAIN level4Actions
    /\ deadLetters \subseteq DOMAIN level4Actions

ProvisioningTyped == ActionsTyped /\ SiteTyped /\ provisioningCrashes \in 0..MaxProvisioningCrashes

LEMMA EndingTyped ==
    ASSUME provisioningCrashes \in 0..MaxProvisioningCrashes, NEW done \in Int, NEW last \in Int, Ending(done, last)
    PROVE  provisioningCrashes' \in 0..MaxProvisioningCrashes
BY ProvisioningAssumption DEF ProvisioningAssumption, Ending

LEMMA OneTyped ==
    ASSUME ActionsTyped, NEW a \in DOMAIN level4Actions, NEW new \in Level4Records,
           level4Actions' = [level4Actions EXCEPT ![a] = new],
           new.status = "pending" => new.stage = "none" /\ a \notin DOMAIN awaited',
           DOMAIN awaited' \subseteq DOMAIN awaited \cup {a},
           deadLetters' \subseteq deadLetters \cup {a}, launches' = launches
    PROVE  ActionsTyped'
<1>1. /\ level4Actions \in Seq(Level4Records) /\ Len(level4Actions) \in Nat
      /\ DOMAIN level4Actions = 1..Len(level4Actions)
  BY LenProperties DEF ActionsTyped
<1>2. level4Actions' \in Seq(Level4Records) /\ Len(level4Actions') = Len(level4Actions)
  BY <1>1
<1>3. /\ DOMAIN level4Actions' = DOMAIN level4Actions /\ level4Actions'[a] = new
      /\ \A b \in DOMAIN level4Actions : b # a => level4Actions'[b] = level4Actions[b]
  BY <1>1
<1>4. \A b \in DOMAIN level4Actions : level4Actions'[b].status = "pending" =>
          level4Actions'[b].stage = "none" /\ b \notin DOMAIN awaited'
  BY <1>3 DEF ActionsTyped
<1>5. QED
  BY <1>2, <1>3, <1>4 DEF ActionsTyped

LEMMA SitePatched ==
    ASSUME SiteTyped, NEW type, NEW done \in Int
    PROVE  LET p == Patched(site, SitePatches(type), done)
           IN  /\ "dns" \in DOMAIN p /\ "deploy" \in DOMAIN p
               /\ p["dns"] \in {"pending", "green"} /\ p["deploy"] \in {"pending", "green"}
<1>1. PICK patches : patches = SitePatches(type)
  OBVIOUS
<1>2. PICK n \in Nat : /\ DOMAIN patches = 1..n
                       /\ \A i \in 1..n, f \in {"dns", "deploy"} : f \in DOMAIN patches[i] => patches[i][f] = "green"
  <2>1. CASE type = "provisioning.domain_dns"
    <3>1. patches = <<[dns |-> "green"]>>
      BY <1>1, <2>1 DEF SitePatches
    <3>2. DOMAIN patches = 1..1 /\ \A i \in 1..1, f \in {"dns", "deploy"} : f \in DOMAIN patches[i] => patches[i][f] = "green"
      BY <3>1
    <3>3. QED
      BY <3>2
  <2>2. CASE type = "provisioning.deploy"
    <3>1. patches = <<[landing |-> TRUE, linked |-> FALSE], [deploy |-> "green"]>>
      BY <1>1, <2>2 DEF SitePatches
    <3>2. DOMAIN patches = 1..2 /\ \A i \in 1..2, f \in {"dns", "deploy"} : f \in DOMAIN patches[i] => patches[i][f] = "green"
      BY <3>1
    <3>3. QED
      BY <3>2
  <2>3. CASE type = "provisioning.email_setup"
    <3>1. patches = <<[email |-> TRUE]>>
      BY <1>1, <2>3 DEF SitePatches
    <3>2. DOMAIN patches = 1..1 /\ \A i \in 1..1, f \in {"dns", "deploy"} : f \notin DOMAIN patches[i]
      BY <3>1
    <3>3. QED
      BY <3>2
  <2>4. CASE type \notin {"provisioning.domain_dns", "provisioning.deploy", "provisioning.email_setup"}
    <3>1. PICK link, page, tail : /\ link = [linked |-> TRUE] /\ page = [checkout |-> TRUE]
                                  /\ tail = IF site.landing THEN <<link>> ELSE <<>>
      OBVIOUS
    <3>2. tail \in Seq({link}) /\ Len(tail) \in 0..1
      BY <3>1
    <3>3. patches = <<page>> \o tail
      BY <1>1, <2>4, <3>1 DEF SitePatches
    <3>4. PICK m \in 0..1 : DOMAIN patches = 1..(m + 1) /\ \A i \in 1..(m + 1) : patches[i] \in {page, link}
      <4>1. <<page>> \in Seq({page, link}) /\ tail \in Seq({page, link}) /\ Len(<<page>>) = 1
        BY <3>2
      <4>2. patches \in Seq({page, link}) /\ Len(patches) = 1 + Len(tail)
        BY <3>3, <4>1, ConcatProperties
      <4>3. QED
        BY <3>2, <4>2, LenProperties, ElementOfSeq
    <3>5. \A i \in 1..(m + 1), f \in {"dns", "deploy"} : f \notin DOMAIN patches[i]
      <4>1. \A f \in {"dns", "deploy"} : f \notin DOMAIN page /\ f \notin DOMAIN link
        BY <3>1
      <4>2. QED
        BY <3>4, <4>1
    <3>6. m + 1 \in Nat
      OBVIOUS
    <3>7. QED
      BY <3>4, <3>5, <3>6
  <2>5. QED
    BY <2>1, <2>2, <2>3, <2>4
<1>3. ASSUME NEW f \in {"dns", "deploy"}
      PROVE  f \in DOMAIN Patched(site, patches, done) /\ Patched(site, patches, done)[f] \in {"pending", "green"}
  <2>1. f \in DOMAIN site /\ site[f] \in {"pending", "green"}
    BY DEF SiteTyped
  <2>2. f \in DOMAIN Patched(site, patches, done)
    BY <2>1 DEF Patched
  <2>3. CASE PatchesOf(patches, done, f) = {}
    BY <1>2, <2>1, <2>2, <2>3, PatchedField
  <2>4. CASE PatchesOf(patches, done, f) # {}
    <3>1. PICK i \in PatchesOf(patches, done, f) : Patched(site, patches, done)[f] = patches[i][f]
      BY <1>2, <2>1, <2>4, PatchedField
    <3>2. patches[i][f] = "green"
      BY <1>2, <3>1 DEF PatchesOf
    <3>3. QED
      BY <2>2, <3>1, <3>2
  <2>5. QED
    BY <2>3, <2>4
<1>4. QED
  BY <1>1, <1>3

LEMMA FiledTyped ==
    ASSUME ProvisioningTyped, NEW a \in DOMAIN level4Actions, NEW action \in Level4Records, NEW done \in Int,
           action.status = "pending" => done < 1 /\ action.stage = "none" /\ a \notin DOMAIN awaited,
           Filed(a, action, done), deadLetters' = deadLetters, launches' = launches
    PROVE  ProvisioningTyped'
<1>1. PICK patches, k : patches = SitePatches(action.type) /\ k = Len(patches)
  OBVIOUS
<1>2. k \in Nat
  BY <1>1 DEF SitePatches
<1>3. /\ site' = Patched(site, patches, done - 1)
      /\ level4Actions' = [level4Actions EXCEPT ![a] = Patched(action, Completed, done - 1 - k)]
      /\ Ending(done, k + 4) /\ awaited' = Unlocked(a, done, k + 4)
  BY <1>1, Zenon DEF Filed
<1>4. SiteTyped'
  <2>1. done - 1 \in Int
    OBVIOUS
  <2>2. QED
    BY <1>1, <1>3, <2>1, SitePatched DEF SiteTyped, ProvisioningTyped
<1>5. PICK new, past : past = done - 1 - k /\ new = Patched(action, Completed, past)
  OBVIOUS
<1>6. /\ new \in Level4Records
      /\ new.status = "pending" => action.status = "pending"
      /\ done - 1 - k <= 0 => new = action
  <2>1. past \in Int
    BY <1>2, <1>5
  <2>2. /\ new \in Level4Records
        /\ new.status = "pending" => action.status = "pending"
        /\ past <= 0 => new = action
    BY <1>5, <2>1, PatchedOutcomes
  <2>3. QED
    BY <1>5, <2>2
<1>7. DOMAIN awaited' \subseteq DOMAIN awaited
  BY <1>3 DEF Unlocked
<1>8. new.status = "pending" => new.stage = "none" /\ a \notin DOMAIN awaited'
  <2>1. ASSUME new.status = "pending"
        PROVE  action.status = "pending"
    BY <1>6, <2>1
  <2>2. action.status = "pending" => done - 1 - k <= 0
    BY <1>2
  <2>3. QED
    BY <1>6, <1>7, <2>1, <2>2
<1>9. ActionsTyped'
  BY <1>3, <1>5, <1>6, <1>7, <1>8, OneTyped DEF ProvisioningTyped
<1>10. provisioningCrashes' \in 0..MaxProvisioningCrashes
  BY <1>2, <1>3, EndingTyped DEF ProvisioningTyped
<1>11. QED
  BY <1>4, <1>9, <1>10 DEF ProvisioningTyped

LEMMA LaunchTyped ==
    ASSUME ProvisioningTyped, NEW domain \in VentureDomains, NEW done \in 0..LaunchWrites,
           LaunchFromPrompt(domain, done)
    PROVE  ProvisioningTyped'
<1>0. LaunchWrites = 20
  BY LaunchTypes DEF LaunchWrites
<1>1. PICK actionsDone \in 0..12 : actionsDone = IF done > 8 THEN done - 8 ELSE 0
  BY <1>0
<1>2. PICK made \in 0..4 : made = (actionsDone + 2) \div 3
  OBVIOUS
<1>3. PICK new : new = [i \in 1..made |->
                 [type |-> LaunchActions[i], domain |-> domain, status |-> "pending", stage |-> "none",
                  approval |-> IF actionsDone >= 3 * i - 1 THEN "pending" ELSE "none"]]
  OBVIOUS
<1>4. /\ level4Actions' = level4Actions \o new
      /\ launches < MaxLaunches /\ launches' = launches + 1
      /\ Ending(done, 20) /\ awaited' = Unlocked(0, done, 20) /\ deadLetters' = deadLetters
  BY <1>0, <1>1, <1>2, <1>3, Zenon DEF LaunchFromPrompt
<1>5. ASSUME NEW i \in 1..made
      PROVE  new[i] \in Level4Records /\ new[i].stage = "none"
  <2>1. LaunchActions[i] \in Range(LaunchActions)
    <3>1. i \in 1..4
      OBVIOUS
    <3>2. QED
      BY <3>1, LaunchTypes
  <2>2. new[i] = [type |-> LaunchActions[i], domain |-> domain, status |-> "pending", stage |-> "none",
                  approval |-> IF actionsDone >= 3 * i - 1 THEN "pending" ELSE "none"]
    BY <1>3
  <2>3. (IF actionsDone >= 3 * i - 1 THEN "pending" ELSE "none") \in {"none", "pending", "approved"}
    OBVIOUS
  <2>4. QED
    BY <2>1, <2>2, <2>3 DEF Level4Records, LaunchStatuses, CheckpointStages
<1>6. new \in Seq(Level4Records) /\ Len(new) = made
  <2>1. new \in [1..made -> Level4Records]
    BY <1>3, <1>5
  <2>2. QED
    BY <2>1
<1>7. PICK list, n : list = level4Actions /\ n = Len(list)
  OBVIOUS
<1>8. list \in Seq(Level4Records) /\ n \in Nat /\ DOMAIN list = 1..n /\ n <= 4 * launches /\ launches \in Nat
  BY <1>7, LenProperties DEF ProvisioningTyped, ActionsTyped
<1>9. /\ list \o new \in Seq(Level4Records) /\ Len(list \o new) = n + made /\ DOMAIN (list \o new) = 1..(n + made)
      /\ \A i \in 1..(n + made) : (list \o new)[i] = IF i <= n THEN list[i] ELSE new[i - n]
  BY <1>6, <1>7, <1>8
<1>10. DOMAIN awaited' \subseteq DOMAIN awaited
  BY <1>4 DEF Unlocked
<1>11. ASSUME NEW a \in 1..(n + made)
       PROVE  (list \o new)[a].status = "pending" => (list \o new)[a].stage = "none" /\ a \notin DOMAIN awaited'
  <2>1. CASE a <= n
    <3>1. a \in DOMAIN level4Actions /\ (list \o new)[a] = level4Actions[a]
      BY <1>7, <1>8, <1>9, <2>1
    <3>2. QED
      BY <1>10, <3>1 DEF ProvisioningTyped, ActionsTyped
  <2>2. CASE ~(a <= n)
    <3>1. a - n \in 1..made /\ (list \o new)[a] = new[a - n] /\ a \notin DOMAIN list
      BY <1>8, <1>9, <2>2
    <3>2. (list \o new)[a].stage = "none"
      BY <1>5, <3>1
    <3>3. a \notin DOMAIN awaited'
      BY <1>7, <1>10, <3>1 DEF ProvisioningTyped, ActionsTyped
    <3>4. QED
      BY <3>2, <3>3
  <2>3. QED
    BY <2>1, <2>2
<1>12. ActionsTyped'
  <2>1. level4Actions' = list \o new
    BY <1>4, <1>7
  <2>2. DOMAIN list \subseteq DOMAIN level4Actions'
    BY <1>8, <1>9, <2>1
  <2>3. DOMAIN awaited' \subseteq DOMAIN level4Actions' /\ deadLetters' \subseteq DOMAIN level4Actions'
    BY <1>4, <1>7, <1>10, <2>2 DEF ProvisioningTyped, ActionsTyped
  <2>4. Len(level4Actions') <= 4 * launches' /\ launches' \in Nat /\ launches' <= MaxLaunches
    BY <1>4, <1>8, <1>9, <2>1, ProvisioningAssumption DEF ProvisioningAssumption
  <2>5. QED
    BY <1>9, <1>11, <2>1, <2>3, <2>4 DEF ActionsTyped
<1>13. SiteTyped'
  BY DEF LaunchFromPrompt, SiteTyped, ProvisioningTyped
<1>14. provisioningCrashes' \in 0..MaxProvisioningCrashes
  BY <1>0, <1>4, EndingTyped DEF ProvisioningTyped
<1>15. QED
  BY <1>12, <1>13, <1>14 DEF ProvisioningTyped

LEMMA ExecuteTyped ==
    ASSUME ProvisioningTyped, NEW a \in DOMAIN level4Actions, NEW new \in Level4Records,
           level4Actions' = [level4Actions EXCEPT ![a] = new],
           new.status = "pending" => new = level4Actions[a] /\ DOMAIN awaited' \subseteq DOMAIN awaited,
           DOMAIN awaited' \subseteq DOMAIN awaited \cup {a}, deadLetters' \subseteq deadLetters \cup {a},
           launches' = launches, site' = site,
           NEW done \in Int, NEW last \in Int, Ending(done, last)
    PROVE  ProvisioningTyped'
<1>1. new.status = "pending" => new.stage = "none" /\ a \notin DOMAIN awaited'
  BY DEF ProvisioningTyped, ActionsTyped
<1>2. ActionsTyped'
  BY <1>1, OneTyped DEF ProvisioningTyped
<1>3. provisioningCrashes' \in 0..MaxProvisioningCrashes
  BY EndingTyped DEF ProvisioningTyped
<1>4. SiteTyped'
  BY DEF ProvisioningTyped, SiteTyped
<1>5. QED
  BY <1>2, <1>3, <1>4 DEF ProvisioningTyped

LEMMA ProvisioningStepTyped ==
    ASSUME ProvisioningTyped, [ProvisioningNext]_provisioningVars
    PROVE  ProvisioningTyped'
<1>0. \A a \in DOMAIN level4Actions : level4Actions[a] \in Level4Records
  BY LenProperties, ElementOfSeq DEF ProvisioningTyped, ActionsTyped
<1>1. ASSUME NEW domain \in VentureDomains, NEW done \in 0..LaunchWrites, LaunchFromPrompt(domain, done)
      PROVE  ProvisioningTyped'
  BY <1>1, LaunchTyped
<1>2. ASSUME NEW a, NEW key, RefuseExecute(a, key)
      PROVE  ProvisioningTyped'
  BY <1>2 DEF RefuseExecute, ProvisioningTyped, ActionsTyped, SiteTyped
<1>3. ASSUME NEW a \in DOMAIN level4Actions, NEW key, NEW done \in 0..Len(BlockedAction), BlockExecute(a, key, done)
      PROVE  ProvisioningTyped'
  <2>1. /\ level4Actions' = [level4Actions EXCEPT ![a] = Patched(@, BlockedAction, done)]
        /\ level4Actions[a].status = "pending" /\ Ending(done, 5) /\ awaited' = Unlocked(a, done, 5)
        /\ deadLetters' = deadLetters /\ launches' = launches /\ site' = site
    BY <1>3, PatchLists DEF BlockExecute, MayExecute
  <2>2. DOMAIN awaited' \subseteq DOMAIN awaited
    BY <2>1 DEF Unlocked
  <2>3. done \in Int
    BY PatchLists
  <2>4. PICK new : new = Patched(level4Actions[a], BlockedAction, done)
    OBVIOUS
  <2>5. new \in Level4Records /\ (new.status = "pending" => done <= 0 /\ new = level4Actions[a])
    BY <1>0, <2>3, <2>4, PatchedOutcomes
  <2>6. level4Actions' = [level4Actions EXCEPT ![a] = new]
    BY <2>1, <2>4
  <2>7. new \in Level4Records
    BY <2>5
  <2>8. new.status = "pending" => new = level4Actions[a] /\ DOMAIN awaited' \subseteq DOMAIN awaited
    BY <2>2, <2>5
  <2>9. DOMAIN awaited' \subseteq DOMAIN awaited \cup {a} /\ deadLetters' \subseteq deadLetters \cup {a}
    BY <2>1, <2>2
  <2>10. launches' = launches /\ site' = site
    BY <2>1
  <2>11. PICK last \in Int : last = 5 /\ Ending(done, last)
    BY <2>1
  <2>12. Ending(done, last)
    BY <2>11
  <2>13. QED
    BY <2>3, <2>6, <2>7, <2>8, <2>9, <2>10, <2>12, ExecuteTyped, Zenon
<1>4. ASSUME NEW a \in DOMAIN level4Actions, NEW key, NEW done \in 0..Len(Begun), BeginExecute(a, key, done)
      PROVE  ProvisioningTyped'
  <2>1. /\ level4Actions' = [level4Actions EXCEPT ![a] = Patched(@, Begun, done)]
        /\ level4Actions[a].status = "pending" /\ Ending(done, 6)
        /\ awaited' = IF done < 6 THEN Unlocked(a, done, 6)
                      ELSE [b \in DOMAIN awaited \cup {a} |-> IF b = a THEN 1 ELSE awaited[b]]
        /\ deadLetters' = deadLetters /\ launches' = launches /\ site' = site
    BY <1>4, PatchLists DEF BeginExecute, MayExecute
  <2>2. DOMAIN awaited' \subseteq DOMAIN awaited \cup {a} /\ (done < 6 => DOMAIN awaited' \subseteq DOMAIN awaited)
    BY <2>1 DEF Unlocked
  <2>3. done \in Int
    BY PatchLists
  <2>4. PICK new : new = Patched(level4Actions[a], Begun, done)
    OBVIOUS
  <2>5. new \in Level4Records /\ (new.status = "pending" => done <= 0 /\ new = level4Actions[a])
    BY <1>0, <2>3, <2>4, PatchedOutcomes
  <2>6. level4Actions' = [level4Actions EXCEPT ![a] = new]
    BY <2>1, <2>4
  <2>7. new \in Level4Records
    BY <2>5
  <2>8. new.status = "pending" => new = level4Actions[a] /\ DOMAIN awaited' \subseteq DOMAIN awaited
    BY <2>2, <2>3, <2>5
  <2>9. DOMAIN awaited' \subseteq DOMAIN awaited \cup {a} /\ deadLetters' \subseteq deadLetters \cup {a}
    BY <2>1, <2>2
  <2>10. launches' = launches /\ site' = site
    BY <2>1
  <2>11. PICK last \in Int : last = 6 /\ Ending(done, last)
    BY <2>1
  <2>12. Ending(done, last)
    BY <2>11
  <2>13. QED
    BY <2>3, <2>6, <2>7, <2>8, <2>9, <2>10, <2>12, ExecuteTyped, Zenon
<1>5. ASSUME NEW a, NextCall(a)
      PROVE  ProvisioningTyped'
  BY <1>5 DEF NextCall, ProvisioningTyped, ActionsTyped, SiteTyped
<1>6. ASSUME NEW a \in DOMAIN level4Actions, NEW done \in 0..(Len(SitePatches(level4Actions[a].type)) + 4),
             CompleteAction(a, done)
      PROVE  ProvisioningTyped'
  <2>1. level4Actions[a] \in Level4Records
    BY LenProperties, ElementOfSeq DEF ProvisioningTyped, ActionsTyped
  <2>2. a \in DOMAIN awaited /\ Filed(a, level4Actions[a], done) /\ deadLetters' = deadLetters /\ launches' = launches
    BY <1>6 DEF CompleteAction
  <2>3. level4Actions[a].status # "pending"
    BY <2>2 DEF ProvisioningTyped, ActionsTyped
  <2>4. done \in Int
    OBVIOUS
  <2>5. QED
    BY <2>1, <2>2, <2>3, <2>4, FiledTyped
<1>7. ASSUME NEW a \in DOMAIN level4Actions, NEW key,
             NEW done \in 0..(Len(Begun) + Len(SitePatches(level4Actions[a].type)) + 4), ExecuteAtOnce(a, key, done)
      PROVE  ProvisioningTyped'
  <2>1. PICK r, action, past : r = level4Actions[a] /\ action = Patched(r, Begun, done) /\ past = done - 6
    OBVIOUS
  <2>2. r \in Level4Records /\ done \in Int /\ past \in Int
    BY <2>1, PatchLists, LenProperties, ElementOfSeq DEF ProvisioningTyped, ActionsTyped
  <2>3. /\ Filed(a, action, past) /\ deadLetters' = deadLetters /\ launches' = launches
        /\ r.status = "pending" /\ a \notin DOMAIN awaited
    BY <1>7, <2>1, PatchLists DEF ExecuteAtOnce, MayExecute
  <2>4. /\ action \in Level4Records
        /\ action.status = "pending" => done <= 0 /\ action = r
    BY <2>1, <2>2, PatchedOutcomes
  <2>5. r.stage = "none"
    BY <2>1, <2>3 DEF ProvisioningTyped, ActionsTyped
  <2>6. action.status = "pending" => past < 1 /\ action.stage = "none" /\ a \notin DOMAIN awaited
    BY <2>1, <2>2, <2>3, <2>4, <2>5
  <2>7. QED
    BY <2>2, <2>3, <2>4, <2>6, FiledTyped
<1>8. ASSUME NEW a \in DOMAIN level4Actions, NEW done \in 0..4, FailExecute(a, done)
      PROVE  ProvisioningTyped'
  <2>1. /\ level4Actions' = [level4Actions EXCEPT ![a] = Patched(@, Failed, done)]
        /\ a \in DOMAIN awaited /\ Ending(done, 4) /\ awaited' = Unlocked(a, done, 4)
        /\ deadLetters' \subseteq deadLetters \cup {a} /\ launches' = launches /\ site' = site
    BY <1>8 DEF FailExecute
  <2>2. DOMAIN awaited' \subseteq DOMAIN awaited /\ level4Actions[a].status # "pending"
    BY <2>1 DEF Unlocked, ProvisioningTyped, ActionsTyped
  <2>3. PICK new : new = Patched(level4Actions[a], Failed, done)
    OBVIOUS
  <2>4. done \in Int
    OBVIOUS
  <2>5. new \in Level4Records /\ (new.status = "pending" => level4Actions[a].status = "pending")
    BY <1>0, <2>3, <2>4, PatchedOutcomes
  <2>6. level4Actions' = [level4Actions EXCEPT ![a] = new]
    BY <2>1, <2>3
  <2>7. new \in Level4Records
    BY <2>5
  <2>8. new.status = "pending" => new = level4Actions[a] /\ DOMAIN awaited' \subseteq DOMAIN awaited
    BY <2>2, <2>5
  <2>9. DOMAIN awaited' \subseteq DOMAIN awaited \cup {a} /\ deadLetters' \subseteq deadLetters \cup {a}
    BY <2>1, <2>2
  <2>10. launches' = launches /\ site' = site
    BY <2>1
  <2>11. PICK last \in Int : last = 4 /\ Ending(done, last)
    BY <2>1
  <2>12. Ending(done, last)
    BY <2>11
  <2>13. QED
    BY <2>4, <2>6, <2>7, <2>8, <2>9, <2>10, <2>12, ExecuteTyped, Zenon
<1>9. CASE UNCHANGED provisioningVars
  BY <1>9 DEF provisioningVars, ProvisioningTyped, ActionsTyped, SiteTyped
<1>10. QED
  BY <1>1, <1>2, <1>3, <1>4, <1>5, <1>6, <1>7, <1>8, <1>9, Zenon DEF ProvisioningNext

LEMMA ProvisioningTypes == ProvisioningSpec => []ProvisioningTypeOK
<1>1. ProvisioningInit => ProvisioningTyped
  <2> SUFFICES ASSUME ProvisioningInit
               PROVE  ProvisioningTyped
    OBVIOUS
  <2>1. MaxLaunches \in Nat /\ MaxProvisioningCrashes \in Nat
    BY ProvisioningAssumption DEF ProvisioningAssumption
  <2>2. /\ level4Actions = <<>> /\ deadLetters = {} /\ launches = 0 /\ provisioningCrashes = 0
        /\ DOMAIN awaited = {}
    BY DEF ProvisioningInit
  <2>3. SiteTyped
    BY DEF ProvisioningInit, SiteTyped
  <2>4. ActionsTyped
    BY <2>1, <2>2 DEF ActionsTyped
  <2>5. QED
    BY <2>1, <2>2, <2>3, <2>4 DEF ProvisioningTyped
<1>2. ProvisioningTyped => ProvisioningTypeOK
  <2> SUFFICES ASSUME ProvisioningTyped
               PROVE  ProvisioningTypeOK
    OBVIOUS
  <2>1. Len(level4Actions) <= Len(LaunchActions) * MaxLaunches
    <3>1. PICK n : n = Len(level4Actions)
      OBVIOUS
    <3>2. n \in Nat /\ n <= 4 * launches /\ launches \in Nat /\ launches <= MaxLaunches /\ MaxLaunches \in Nat
      BY <3>1, LenProperties, ProvisioningAssumption DEF ProvisioningTyped, ActionsTyped, ProvisioningAssumption
    <3>3. n <= 4 * MaxLaunches
      BY <3>2
    <3>4. QED
      BY <3>1, <3>3, LaunchTypes
  <2>2. ASSUME NEW a \in DOMAIN level4Actions
        PROVE  /\ level4Actions[a].status \in {"pending", "approved", "executing", "completed", "failed", "blocked"}
               /\ level4Actions[a].status = "pending" => level4Actions[a].stage = "none"
    <3>1. level4Actions[a] \in Level4Records
      BY LenProperties, ElementOfSeq DEF ProvisioningTyped, ActionsTyped
    <3>2. QED
      BY <3>1 DEF ProvisioningTyped, ActionsTyped, Level4Records, LaunchStatuses
  <2>3. QED
    BY <2>1, <2>2 DEF ProvisioningTyped, ActionsTyped, SiteTyped, ProvisioningTypeOK
<1>3. QED
  BY <1>1, <1>2, ProvisioningStepTyped, PTL DEF ProvisioningSpec

-----------------------------------------------------------------------------
(* Outreach.  First what is on file of prospects and replies: the list of  *)
(* a mailing is finite, and a contact said to be interested.               *)
ProspectRecords == [email : Emails, suppressed : BOOLEAN]
Interested(list) == {i \in DOMAIN list : list[i] = "interested"}

RepliesInv ==
    /\ replies \in Seq(Classifications) /\ Len(replies) <= MaxReplies
    /\ contacts \subseteq Emails /\ IsFiniteSet(contacts)
    /\ Cardinality(contacts) <= Cardinality(Interested(replies))

ProspectsInv ==
    /\ outreachConfig.cap \in Nat
    /\ prospects \in Seq(ProspectRecords) /\ Len(prospects) <= MaxProspects

LEMMA ProspectsInit == OutreachInit => ProspectsInv /\ RepliesInv
<1> SUFFICES ASSUME OutreachInit PROVE ProspectsInv /\ RepliesInv
  OBVIOUS
<1>1. /\ prospects = <<>> /\ replies = <<>> /\ contacts = {} /\ outreachConfig.cap = 50
      /\ MaxProspects \in Nat /\ MaxReplies \in Nat
  BY OutreachAssumption DEF OutreachInit, OutreachAssumption
<1>2. Interested(<<>>) = {} /\ IsFiniteSet({}) /\ Cardinality({}) = 0
  BY EmptySeq, FS_EmptySet DEF Interested
<1>3. ProspectsInv
  BY <1>1, EmptySeq DEF ProspectsInv
<1>4. RepliesInv
  <2>1. <<>> \in Seq(Classifications) /\ Len(<<>>) = 0
    BY EmptySeq
  <2>2. Cardinality({}) <= Cardinality(Interested(<<>>))
    BY <1>2
  <2>3. QED
    BY <1>1, <1>2, <2>1, <2>2 DEF RepliesInv
<1>5. QED
  BY <1>3, <1>4

(* A mailing has a number of mails.                                        *)
LEMMA RecipientsCount == ASSUME ProspectsInv PROVE Recipients \in Nat
<1>1. PICK n : n = Len(prospects) /\ n \in Nat /\ DOMAIN prospects = 1..n
  BY LenProperties DEF ProspectsInv
<1>2. PICK open : open = {i \in DOMAIN prospects : ~prospects[i].suppressed}
  OBVIOUS
<1>3. IsFiniteSet(1..n) /\ open \subseteq 1..n
  BY <1>1, <1>2, FS_Interval
<1>4. Cardinality(open) \in Nat
  BY <1>3, FS_Subset, FS_CardinalityType
<1>5. QED
  BY <1>2, <1>4 DEF Recipients, ProspectsInv

LEMMA UploadKeepsProspects ==
    ASSUME ProspectsInv, NEW emails \in Uploads, UploadProspects(emails)
    PROVE  ProspectsInv'
<1>1. PICK n : n = Len(prospects) /\ n \in Nat
  BY LenProperties DEF ProspectsInv
<1>2. PICK m : m = Len(emails) /\ m \in Nat /\ DOMAIN emails = 1..m
  BY LenProperties, OutreachAssumption DEF OutreachAssumption
<1>3. emails \in Seq(Emails)
  BY OutreachAssumption DEF OutreachAssumption
<1>4. PICK more : more = [i \in 1..m |-> [email |-> emails[i], suppressed |-> FALSE]]
  OBVIOUS
<1>5. more \in Seq(ProspectRecords) /\ Len(more) = m
  <2>1. more \in [1..m -> ProspectRecords]
    <3>1. \A i \in 1..m : emails[i] \in Emails
      BY <1>2, <1>3, ElementOfSeq
    <3>2. QED
      BY <1>4, <3>1 DEF ProspectRecords
  <2>2. QED
    BY <1>2, <2>1
<1>6. prospects' = prospects \o more /\ n + m <= MaxProspects /\ outreachConfig' = outreachConfig
  BY <1>1, <1>2, <1>4 DEF UploadProspects
<1>7. prospects \o more \in Seq(ProspectRecords) /\ Len(prospects \o more) = n + m
  BY <1>1, <1>5 DEF ProspectsInv
<1>8. QED
  BY <1>6, <1>7 DEF ProspectsInv

LEMMA ReplyKeepsProspects ==
    ASSUME ProspectsInv, RepliesInv, NEW email \in Emails, NEW classification \in Classifications,
           ReceiveReply(email, classification)
    PROVE  ProspectsInv' /\ RepliesInv'
<1>1. PICK n : n = Len(prospects) /\ n \in Nat /\ DOMAIN prospects = 1..n
  BY LenProperties DEF ProspectsInv
<1>2. PICK marked : marked = [i \in DOMAIN prospects |->
                                [prospects[i] EXCEPT !.suppressed = @ \/ prospects[i].email = email]]
  OBVIOUS
<1>3. marked \in Seq(ProspectRecords) /\ Len(marked) = n
  <2>1. ASSUME NEW i \in 1..n
        PROVE  marked[i] \in ProspectRecords
    <3>1. PICK p : p = prospects[i]
      OBVIOUS
    <3>2. p \in ProspectRecords
      BY <1>1, <3>1, ElementOfSeq DEF ProspectsInv
    <3>3. PICK flag \in BOOLEAN : flag = (p.suppressed \/ p.email = email)
      OBVIOUS
    <3>4. marked[i] = [p EXCEPT !.suppressed = flag]
      BY <1>1, <1>2, <3>1, <3>3
    <3>5. QED
      BY <3>2, <3>4 DEF ProspectRecords
  <2>2. marked \in [1..n -> ProspectRecords]
    BY <1>1, <1>2, <2>1
  <2>3. QED
    BY <1>1, <2>2
<1>4. prospects' \in {prospects, marked} /\ outreachConfig' = outreachConfig
  BY <1>2 DEF ReceiveReply
<1>5. ProspectsInv'
  BY <1>1, <1>3, <1>4 DEF ProspectsInv
<1>6. PICK old, k, S : old = replies /\ k = Len(old) /\ S = Interested(old)
  OBVIOUS
<1>7. old \in Seq(Classifications) /\ k \in Nat /\ DOMAIN old = 1..k /\ S \subseteq 1..k
  BY <1>6, LenProperties DEF RepliesInv, Interested
<1>8. IsFiniteSet(S) /\ Cardinality(S) \in Nat
  <2>1. IsFiniteSet(1..k)
    BY <1>7, FS_Interval
  <2>2. IsFiniteSet(S)
    BY <1>7, <2>1, FS_Subset
  <2>3. QED
    BY <2>2, FS_CardinalityType
<1>9. replies' = Append(old, classification) /\ k < MaxReplies
  BY <1>6 DEF ReceiveReply
<1>10. replies' \in Seq(Classifications) /\ Len(replies') = k + 1 /\ DOMAIN replies' = 1..(k + 1)
       /\ replies'[k + 1] = classification /\ \A i \in 1..k : replies'[i] = old[i]
  BY <1>7, <1>9, AppendProperties, LenProperties
<1>11. Interested(replies') = IF classification = "interested" THEN S \cup {k + 1} ELSE S
  BY <1>6, <1>7, <1>10 DEF Interested
<1>12. k + 1 \notin S
  BY <1>7
<1>13. PICK people : people = contacts /\ people \subseteq Emails /\ IsFiniteSet(people)
                     /\ Cardinality(people) <= Cardinality(S)
  BY <1>6 DEF RepliesInv
<1>14. MaxReplies \in Nat
  BY OutreachAssumption DEF OutreachAssumption
<1>15. CASE classification = "interested"
  <2>1. contacts' = people \cup {email}
    BY <1>13, <1>15 DEF ReceiveReply
  <2>2. Cardinality(S \cup {k + 1}) = Cardinality(S) + 1
    BY <1>8, <1>12, FS_AddElement
  <2>3. /\ IsFiniteSet(people \cup {email}) /\ Cardinality(people) \in Nat
        /\ Cardinality(people \cup {email}) = (IF email \in people THEN Cardinality(people) ELSE Cardinality(people) + 1)
    BY <1>13, FS_AddElement, FS_CardinalityType
  <2>4. Cardinality(people \cup {email}) <= Cardinality(S) + 1
    BY <1>8, <1>13, <2>3
  <2>5. QED
    BY <1>5, <1>7, <1>9, <1>10, <1>11, <1>13, <1>14, <1>15, <2>1, <2>2, <2>3, <2>4 DEF RepliesInv
<1>16. CASE classification # "interested"
  <2>1. contacts' = people
    BY <1>13, <1>16 DEF ReceiveReply
  <2>2. QED
    BY <1>5, <1>7, <1>9, <1>10, <1>11, <1>13, <1>14, <1>16, <2>1 DEF RepliesInv
<1>17. QED
  BY <1>15, <1>16

LEMMA ProspectsStep ==
    ASSUME ProspectsInv, RepliesInv, [OutreachNext]_outreachVars
    PROVE  ProspectsInv' /\ RepliesInv'
<1>0. /\ UNCHANGED <<outreachConfig, prospects>> => ProspectsInv'
      /\ UNCHANGED <<replies, contacts>> => RepliesInv'
  BY DEF ProspectsInv, RepliesInv
<1>1. ASSUME NEW enabled \in BOOLEAN, NEW cap \in DailyCaps, PatchConfig(enabled, cap)
      PROVE  ProspectsInv' /\ RepliesInv'
  <2>1. outreachConfig'.cap \in Nat /\ UNCHANGED <<prospects, replies, contacts>>
    BY <1>1, OutreachAssumption DEF PatchConfig, OutreachAssumption
  <2>2. QED
    BY <1>0, <2>1 DEF ProspectsInv
<1>2. ASSUME RelaunchResets
      PROVE  ProspectsInv' /\ RepliesInv'
  <2>1. outreachConfig'.cap \in Nat /\ contacts' = {} /\ UNCHANGED <<prospects, replies>>
    BY <1>2 DEF RelaunchResets
  <2>2. Cardinality(Interested(replies)) \in Nat
    <3>1. PICK k : k \in Nat /\ DOMAIN replies = 1..k
      BY LenProperties DEF RepliesInv
    <3>2. IsFiniteSet(1..k) /\ Interested(replies) \subseteq 1..k
      BY <3>1, FS_Interval DEF Interested
    <3>3. QED
      BY <3>2, FS_Subset, FS_CardinalityType
  <2>3. ProspectsInv'
    BY <2>1 DEF ProspectsInv
  <2>4. RepliesInv'
    BY <2>1, <2>2, FS_EmptySet DEF RepliesInv, Interested
  <2>5. QED
    BY <2>3, <2>4
<1>3. ASSUME NEW emails \in Uploads, UploadProspects(emails)
      PROVE  ProspectsInv' /\ RepliesInv'
  <2>1. UNCHANGED <<replies, contacts>>
    BY <1>3 DEF UploadProspects
  <2>2. QED
    BY <1>0, <1>3, <2>1, UploadKeepsProspects
<1>4. ASSUME NEW email \in Emails, NEW classification \in Classifications, ReceiveReply(email, classification)
      PROVE  ProspectsInv' /\ RepliesInv'
  BY <1>4, ReplyKeepsProspects
<1>5. ASSUME CreateCampaign \/ DieSending \/ UNCHANGED outreachVars
      PROVE  ProspectsInv' /\ RepliesInv'
  BY <1>0, <1>5 DEF CreateCampaign, DieSending, outreachVars
<1>6. ASSUME NEW c, NEW enabled, AskToSend(c, enabled) \/ BeginSend(c, enabled) \/ NextMail(c) \/ BreakOff(c)
      PROVE  ProspectsInv' /\ RepliesInv'
  BY <1>0, <1>6 DEF AskToSend, BeginSend, NextMail, BreakOff
<1>7. ASSUME NEW i, ApproveSend(i)
      PROVE  ProspectsInv' /\ RepliesInv'
  BY <1>0, <1>7 DEF ApproveSend
<1>8. QED
  BY <1>1, <1>2, <1>3, <1>4, <1>5, <1>6, <1>7 DEF OutreachNext

(* The campaigns.  The inductive invariant: the count a send in flight has *)
(* read is still its campaign's, it has a mail out, and a mail in no count *)
(* is that send's or one of a send that broke off.                         *)
CampaignRecords ==
    [status : {"draft", "sent", "paused"}, sentCount : Nat, unsubscribes : Nat, complaints : Nat]

Flight(f) ==
    /\ f \in [sending : BOOLEAN, left : Nat, sent : Nat, counted : Nat]
    /\ IF f.sending THEN f.left > 0 ELSE f = Unsent

(* A campaign's mails: those its send in flight made and read, those lost, *)
(* and those the file counts.                                              *)
Counted(mails, flight, lost, campaign) ==
    /\ mails = campaign.sentCount + lost + (IF flight.sending THEN flight.sent + 1 ELSE 0)
    /\ flight.sending => flight.counted = campaign.sentCount

MailsInv ==
    /\ campaigns \in Seq(CampaignRecords) /\ Len(campaigns) <= MaxCampaigns
    /\ mailed = [c \in CampaignIds |-> mailed[c]] /\ uncounted = [c \in CampaignIds |-> uncounted[c]]
    /\ sends = [c \in CampaignIds |-> sends[c]]
    /\ \A c \in CampaignIds : mailed[c] \in Nat /\ uncounted[c] \in Nat /\ Flight(sends[c])
    /\ \A c \in CampaignIds : IF c \in DOMAIN campaigns
                              THEN Counted(mailed[c], sends[c], uncounted[c], campaigns[c])
                              ELSE mailed[c] = 0 /\ uncounted[c] = 0 /\ ~sends[c].sending

LEMMA CampaignsOnFile ==
    ASSUME MailsInv
    PROVE  /\ Len(campaigns) \in Nat /\ DOMAIN campaigns = 1..Len(campaigns)
           /\ MaxCampaigns \in Nat /\ DOMAIN campaigns \subseteq CampaignIds
           /\ \A c \in DOMAIN campaigns : campaigns[c] \in CampaignRecords
<1>1. /\ Len(campaigns) \in Nat /\ DOMAIN campaigns = 1..Len(campaigns)
      /\ \A c \in DOMAIN campaigns : campaigns[c] \in CampaignRecords
  <2>1. campaigns \in Seq(CampaignRecords)
    BY DEF MailsInv
  <2>2. QED
    BY <2>1, LenProperties, ElementOfSeq
<1>2. MaxCampaigns \in Nat
  BY OutreachAssumption DEF OutreachAssumption
<1>3. QED
  BY <1>1, <1>2 DEF MailsInv, CampaignIds

LEMMA MailsInvInit == OutreachInit => MailsInv
<1> SUFFICES ASSUME OutreachInit PROVE MailsInv
  OBVIOUS
<1>1. /\ campaigns = <<>> /\ sends = [c \in CampaignIds |-> Unsent]
      /\ mailed = [c \in CampaignIds |-> 0] /\ uncounted = [c \in CampaignIds |-> 0]
  BY DEF OutreachInit
<1>2. <<>> \in Seq(CampaignRecords) /\ Len(<<>>) = 0 /\ DOMAIN <<>> = {}
  BY EmptySeq
<1>3. MaxCampaigns \in Nat
  BY OutreachAssumption DEF OutreachAssumption
<1>4. Flight(Unsent) /\ ~Unsent.sending
  BY DEF Flight, Unsent
<1>5. QED
  BY <1>1, <1>2, <1>3, <1>4 DEF MailsInv

(* One campaign's mails change, with what is on file of it.                *)
LEMMA OneCampaign ==
    ASSUME MailsInv, NEW c \in DOMAIN campaigns, NEW new, new \in CampaignRecords,
           NEW mails, mails \in Nat, NEW lost, lost \in Nat, NEW flight, Flight(flight),
           Counted(mails, flight, lost, new),
           campaigns' = [campaigns EXCEPT ![c] = new],
           mailed' = [mailed EXCEPT ![c] = mails],
           uncounted' = [uncounted EXCEPT ![c] = lost],
           sends' = [sends EXCEPT ![c] = flight]
    PROVE  MailsInv'
<1>1. /\ Len(campaigns) \in Nat /\ DOMAIN campaigns = 1..Len(campaigns)
      /\ MaxCampaigns \in Nat /\ DOMAIN campaigns \subseteq CampaignIds
  BY CampaignsOnFile
<1>2. PICK n : n = Len(campaigns) /\ n \in Nat /\ DOMAIN campaigns = 1..n /\ n <= MaxCampaigns /\ c \in 1..n
  BY <1>1 DEF MailsInv
<1>3. campaigns \in Seq(CampaignRecords)
  BY DEF MailsInv
<1>4. campaigns' \in Seq(CampaignRecords) /\ Len(campaigns') = n /\ DOMAIN campaigns' = 1..n
  BY <1>2, <1>3
<1>5. /\ campaigns'[c] = new /\ mailed'[c] = mails /\ uncounted'[c] = lost /\ sends'[c] = flight
      /\ \A d \in CampaignIds : d # c => /\ mailed'[d] = mailed[d] /\ uncounted'[d] = uncounted[d]
                                         /\ sends'[d] = sends[d]
      /\ \A d \in DOMAIN campaigns : d # c => campaigns'[d] = campaigns[d]
  BY <1>1, <1>2 DEF MailsInv
<1>6. /\ mailed' = [d \in CampaignIds |-> mailed'[d]] /\ uncounted' = [d \in CampaignIds |-> uncounted'[d]]
      /\ sends' = [d \in CampaignIds |-> sends'[d]]
  BY DEF MailsInv
<1>7. CampaignIds' = CampaignIds
  BY DEF CampaignIds
<1>8. \A d \in CampaignIds : mailed'[d] \in Nat /\ uncounted'[d] \in Nat /\ Flight(sends'[d])
  BY <1>5 DEF MailsInv
<1>9. \A d \in CampaignIds : IF d \in 1..n
                             THEN Counted(mailed'[d], sends'[d], uncounted'[d], campaigns'[d])
                             ELSE mailed'[d] = 0 /\ uncounted'[d] = 0 /\ ~sends'[d].sending
  BY <1>2, <1>5 DEF MailsInv
<1>10. QED
  BY <1>2, <1>4, <1>6, <1>7, <1>8, <1>9 DEF MailsInv, Flight, Counted, Unsent

(* A step that changes nothing of this.                                    *)
LEMMA MailsUntouched ==
    ASSUME MailsInv, UNCHANGED <<campaigns, sends, mailed, uncounted>>
    PROVE  MailsInv'
BY DEF MailsInv, CampaignIds, Flight, Counted, Unsent

LEMMA CreateKeepsMails == ASSUME MailsInv, CreateCampaign PROVE MailsInv'
<1>1. PICK n : n = Len(campaigns) /\ n \in Nat /\ DOMAIN campaigns = 1..n /\ n < MaxCampaigns /\ MaxCampaigns \in Nat
  BY CampaignsOnFile DEF CreateCampaign
<1>2. PICK new : /\ new = [status |-> "draft", sentCount |-> 0, unsubscribes |-> 0, complaints |-> 0]
                 /\ new \in CampaignRecords /\ new.sentCount = 0
  <2>1. PICK new : new = [status |-> "draft", sentCount |-> 0, unsubscribes |-> 0, complaints |-> 0]
    OBVIOUS
  <2>2. new \in CampaignRecords /\ new.sentCount = 0
    BY <2>1 DEF CampaignRecords
  <2>3. QED
    BY <2>1, <2>2
<1>3. PICK list : list = campaigns /\ list \in Seq(CampaignRecords) /\ campaigns' = Append(list, new)
  BY <1>2 DEF CreateCampaign, MailsInv
<1>4. /\ campaigns' \in Seq(CampaignRecords) /\ Len(campaigns') = n + 1 /\ campaigns'[n + 1] = new
      /\ \A c \in 1..n : campaigns'[c] = campaigns[c]
  BY <1>1, <1>2, <1>3, AppendProperties
<1>5. DOMAIN campaigns' = 1..n + 1 /\ 1..n + 1 = 1..n \cup {n + 1} /\ n + 1 \notin 1..n /\ n + 1 \in CampaignIds
  BY <1>1, <1>4, LenProperties DEF CampaignIds
<1>6. UNCHANGED <<sends, mailed, uncounted>>
  BY DEF CreateCampaign
<1>7. Counted(mailed[n + 1], sends[n + 1], uncounted[n + 1], new)
  BY <1>1, <1>2, <1>5 DEF MailsInv, Counted
<1>8. \A c \in CampaignIds : IF c \in 1..n + 1
                             THEN Counted(mailed[c], sends[c], uncounted[c], campaigns'[c])
                             ELSE mailed[c] = 0 /\ uncounted[c] = 0 /\ ~sends[c].sending
  BY <1>1, <1>4, <1>5, <1>7 DEF MailsInv
<1>9. n + 1 <= MaxCampaigns
  BY <1>1
<1>10. QED
  BY <1>4, <1>5, <1>6, <1>8, <1>9 DEF MailsInv, CampaignIds, Flight, Counted, Unsent

(* What a campaign in flight is, taken apart.                              *)
LEMMA InFlight ==
    ASSUME MailsInv, NEW c \in DOMAIN campaigns
    PROVE  \E old, flight, mails, lost :
             /\ old = campaigns[c] /\ flight = sends[c] /\ mails = mailed[c] /\ lost = uncounted[c]
             /\ old \in CampaignRecords /\ Flight(flight) /\ mails \in Nat /\ lost \in Nat
             /\ Counted(mails, flight, lost, old) /\ c \in CampaignIds
<1>1. c \in CampaignIds /\ campaigns[c] \in CampaignRecords
  BY CampaignsOnFile
<1>2. QED
  BY <1>1 DEF MailsInv

LEMMA SameEntry == ASSUME NEW S, NEW f, f = [x \in S |-> f[x]], NEW c PROVE [f EXCEPT ![c] = f[c]] = f
OBVIOUS

(* The send is over: the campaign says what was counted.                   *)
LEMMA SentRecord ==
    ASSUME NEW old \in CampaignRecords, NEW count \in Nat,
           NEW new, new = [old EXCEPT !.status = "sent", !.sentCount = count]
    PROVE  new \in CampaignRecords /\ new.sentCount = count
BY DEF CampaignRecords

LEMMA BeginKeepsMails ==
    ASSUME MailsInv, ProspectsInv, NEW c \in DOMAIN campaigns, NEW enabled, BeginSend(c, enabled)
    PROVE  MailsInv'
<1>1. PICK old, flight, mails, lost :
        /\ old = campaigns[c] /\ flight = sends[c] /\ mails = mailed[c] /\ lost = uncounted[c]
        /\ old \in CampaignRecords /\ Flight(flight) /\ mails \in Nat /\ lost \in Nat
        /\ Counted(mails, flight, lost, old) /\ c \in CampaignIds
  BY InFlight
<1>2. old.sentCount \in Nat
  BY <1>1 DEF CampaignRecords
<1>3. ~flight.sending
  BY <1>1 DEF BeginSend, MaySend
<1>4. mails = old.sentCount + lost
  BY <1>1, <1>2, <1>3 DEF Counted
<1>5. PICK next : /\ next = [sending |-> TRUE, left |-> Recipients, sent |-> 0, counted |-> old.sentCount]
                  /\ next.sending /\ next.sent = 0 /\ next.counted = old.sentCount
  <2>1. PICK next : next = [sending |-> TRUE, left |-> Recipients, sent |-> 0, counted |-> old.sentCount]
    OBVIOUS
  <2>2. next.sending /\ next.sent = 0 /\ next.counted = old.sentCount
    BY <2>1
  <2>3. QED
    BY <2>1, <2>2
<1>6. CASE Recipients = 0
  <2>0. PICK k : k = old.sentCount /\ k \in Nat
    BY <1>2
  <2>1. PICK new : /\ new = [old EXCEPT !.status = "sent", !.sentCount = k]
                   /\ new \in CampaignRecords /\ new.sentCount = k
    <3>1. PICK new : new = [old EXCEPT !.status = "sent", !.sentCount = k]
      OBVIOUS
    <3>2. old \in CampaignRecords /\ k \in Nat
      BY <1>1, <2>0
    <3>3. new \in CampaignRecords /\ new.sentCount = k
      BY <3>1, <3>2, SentRecord
    <3>4. QED
      BY <3>1, <3>3
  <2>2. Sent(c, next) /\ UNCHANGED <<sends, mailed, uncounted>>
    BY <1>1, <1>5, <1>6 DEF BeginSend
  <2>3. k = next.counted + next.sent
    BY <2>0, <1>5
  <2>4. campaigns' = [campaigns EXCEPT ![c] = new]
    <3>1. old = campaigns[c] /\ new = [old EXCEPT !.status = "sent", !.sentCount = k]
      BY <1>1, <2>1
    <3>2. Sent(c, next)
      BY <2>2
    <3>3. QED
      BY <2>3, <3>1, <3>2 DEF Sent
  <2>5. /\ mailed' = [mailed EXCEPT ![c] = mails] /\ uncounted' = [uncounted EXCEPT ![c] = lost]
        /\ sends' = [sends EXCEPT ![c] = flight]
    BY <1>1, <2>2, SameEntry DEF MailsInv
  <2>6. Counted(mails, flight, lost, new)
    BY <1>1, <1>3, <1>4, <2>0, <2>1 DEF Counted
  <2>7. QED
    BY <1>1, <2>1, <2>4, <2>5, <2>6, OneCampaign
<1>7. CASE Recipients # 0
  <2>1. /\ sends' = [sends EXCEPT ![c] = next] /\ mailed' = [mailed EXCEPT ![c] = mails + 1]
        /\ UNCHANGED <<campaigns, uncounted>>
    BY <1>1, <1>5, <1>7 DEF BeginSend
  <2>2. campaigns' = [campaigns EXCEPT ![c] = old] /\ uncounted' = [uncounted EXCEPT ![c] = lost]
    <3>1. campaigns = [d \in DOMAIN campaigns |-> campaigns[d]]
      BY DEF MailsInv
    <3>2. QED
      BY <1>1, <2>1, <3>1, SameEntry DEF MailsInv
  <2>3. Flight(next) /\ Counted(mails + 1, next, lost, old) /\ mails + 1 \in Nat
    <3>1. Recipients \in Nat /\ Recipients > 0
      BY <1>7, RecipientsCount
    <3>2. next \in [sending : BOOLEAN, left : Nat, sent : Nat, counted : Nat] /\ next.left > 0
      BY <1>2, <1>5, <3>1
    <3>3. QED
      BY <1>1, <1>2, <1>4, <1>5, <3>2 DEF Flight, Counted
  <2>4. QED
    BY <1>1, <2>1, <2>2, <2>3, OneCampaign
<1>8. QED
  BY <1>6, <1>7

LEMMA NextMailKeepsMails ==
    ASSUME MailsInv, NEW c \in DOMAIN campaigns, NextMail(c)
    PROVE  MailsInv'
<1>1. PICK old, flight, mails, lost :
        /\ old = campaigns[c] /\ flight = sends[c] /\ mails = mailed[c] /\ lost = uncounted[c]
        /\ old \in CampaignRecords /\ Flight(flight) /\ mails \in Nat /\ lost \in Nat
        /\ Counted(mails, flight, lost, old) /\ c \in CampaignIds
  BY InFlight
<1>2. old.sentCount \in Nat
  BY <1>1 DEF CampaignRecords
<1>3. flight.sending /\ flight.sent \in Nat /\ flight.counted = old.sentCount
  BY <1>1 DEF NextMail, Flight, Counted
<1>4. mails = old.sentCount + lost + (flight.sent + 1)
  BY <1>1, <1>3 DEF Counted
<1>5. PICK next : /\ next = [flight EXCEPT !.left = @ - 1, !.sent = @ + 1] /\ next.sending
                  /\ next.sent = flight.sent + 1 /\ next.counted = flight.counted
                  /\ next.left # 0 => Flight(next)
  <2>0. PICK rest, k : rest = flight.left - 1 /\ k = flight.sent + 1
    OBVIOUS
  <2>1. PICK next : next = [flight EXCEPT !.left = rest, !.sent = k]
    OBVIOUS
  <2>2. flight \in [sending : BOOLEAN, left : Nat, sent : Nat, counted : Nat] /\ flight.left > 0
    BY <1>1, <1>3 DEF Flight
  <2>3. rest \in Nat /\ k \in Nat
    BY <1>3, <2>0, <2>2
  <2>4. next \in [sending : BOOLEAN, left : Nat, sent : Nat, counted : Nat]
    BY <2>1, <2>2, <2>3
  <2>5. next.sending = flight.sending /\ next.sent = k /\ next.counted = flight.counted /\ next.left = rest
    BY <2>1, <2>2
  <2>6. next.left # 0 => Flight(next)
    BY <1>3, <2>3, <2>4, <2>5 DEF Flight
  <2>7. QED
    BY <1>3, <2>0, <2>1, <2>5, <2>6
<1>6. CASE next.left # 0
  <2>1. /\ sends' = [sends EXCEPT ![c] = next] /\ mailed' = [mailed EXCEPT ![c] = mails + 1]
        /\ UNCHANGED <<campaigns, uncounted>>
    BY <1>1, <1>5, <1>6 DEF NextMail
  <2>2. campaigns' = [campaigns EXCEPT ![c] = old] /\ uncounted' = [uncounted EXCEPT ![c] = lost]
    <3>1. campaigns = [d \in DOMAIN campaigns |-> campaigns[d]]
      BY DEF MailsInv
    <3>2. QED
      BY <1>1, <2>1, <3>1, SameEntry DEF MailsInv
  <2>3. Counted(mails + 1, next, lost, old) /\ mails + 1 \in Nat
    BY <1>1, <1>2, <1>3, <1>4, <1>5 DEF Counted
  <2>4. QED
    BY <1>1, <1>5, <1>6, <2>1, <2>2, <2>3, OneCampaign
<1>7. CASE next.left = 0
  <2>0. PICK k : k = next.counted + next.sent /\ k \in Nat /\ k = old.sentCount + flight.sent + 1
    BY <1>2, <1>3, <1>5
  <2>1. PICK new : /\ new = [old EXCEPT !.status = "sent", !.sentCount = k]
                   /\ new \in CampaignRecords /\ new.sentCount = k
    <3>1. PICK new : new = [old EXCEPT !.status = "sent", !.sentCount = k]
      OBVIOUS
    <3>2. old \in CampaignRecords /\ k \in Nat
      BY <1>1, <2>0
    <3>3. new \in CampaignRecords /\ new.sentCount = k
      BY <3>1, <3>2, SentRecord
    <3>4. QED
      BY <3>1, <3>3
  <2>2. Sent(c, next) /\ sends' = [sends EXCEPT ![c] = Unsent] /\ UNCHANGED <<mailed, uncounted>>
    BY <1>1, <1>5, <1>7 DEF NextMail
  <2>4. campaigns' = [campaigns EXCEPT ![c] = new]
    <3>1. old = campaigns[c] /\ new = [old EXCEPT !.status = "sent", !.sentCount = k]
      BY <1>1, <2>1
    <3>2. Sent(c, next) /\ k = next.counted + next.sent
      BY <2>0, <2>2
    <3>3. QED
      BY <3>1, <3>2 DEF Sent
  <2>5. /\ mailed' = [mailed EXCEPT ![c] = mails] /\ uncounted' = [uncounted EXCEPT ![c] = lost]
    BY <1>1, <2>2, SameEntry DEF MailsInv
  <2>6. Flight(Unsent) /\ ~Unsent.sending
    BY DEF Flight, Unsent
  <2>7. mails = k + lost
    BY <1>1, <1>2, <1>3, <1>4, <2>0
  <2>8. Counted(mails, Unsent, lost, new)
    BY <1>1, <2>0, <2>1, <2>6, <2>7 DEF Counted
  <2>9. QED
    BY <1>1, <2>1, <2>2, <2>4, <2>5, <2>6, <2>8, OneCampaign
<1>8. QED
  BY <1>6, <1>7

LEMMA BreakOffKeepsMails ==
    ASSUME MailsInv, NEW c \in DOMAIN campaigns, BreakOff(c)
    PROVE  MailsInv'
<1>1. PICK old, flight, mails, lost :
        /\ old = campaigns[c] /\ flight = sends[c] /\ mails = mailed[c] /\ lost = uncounted[c]
        /\ old \in CampaignRecords /\ Flight(flight) /\ mails \in Nat /\ lost \in Nat
        /\ Counted(mails, flight, lost, old) /\ c \in CampaignIds
  BY InFlight
<1>2. old.sentCount \in Nat
  BY <1>1 DEF CampaignRecords
<1>3. flight.sending /\ flight.sent \in Nat
  BY <1>1 DEF BreakOff, Flight
<1>4. mails = old.sentCount + lost + (flight.sent + 1)
  BY <1>1, <1>3 DEF Counted
<1>5. /\ sends' = [sends EXCEPT ![c] = Unsent] /\ mailed' = [mailed EXCEPT ![c] = mails - 1]
      /\ uncounted' = [uncounted EXCEPT ![c] = lost + flight.sent] /\ UNCHANGED campaigns
  BY <1>1 DEF BreakOff
<1>6. campaigns' = [campaigns EXCEPT ![c] = old]
  <2>1. campaigns = [d \in DOMAIN campaigns |-> campaigns[d]]
    BY DEF MailsInv
  <2>2. QED
    BY <1>1, <1>5, <2>1, SameEntry
<1>7. Flight(Unsent) /\ ~Unsent.sending
  BY DEF Flight, Unsent
<1>8. mails - 1 \in Nat /\ lost + flight.sent \in Nat /\ mails - 1 = old.sentCount + (lost + flight.sent)
  BY <1>1, <1>2, <1>3, <1>4
<1>9. Counted(mails - 1, Unsent, lost + flight.sent, old)
  BY <1>1, <1>2, <1>7, <1>8 DEF Counted
<1>10. QED
  BY <1>1, <1>5, <1>6, <1>7, <1>8, <1>9, OneCampaign

LEMMA DieKeepsMails == ASSUME MailsInv, DieSending PROVE MailsInv'
<1>1. /\ uncounted' = [c \in CampaignIds |-> uncounted[c] + sends[c].sent + (IF sends[c].sending THEN 1 ELSE 0)]
      /\ sends' = [c \in CampaignIds |-> Unsent] /\ UNCHANGED <<campaigns, mailed>>
  BY DEF DieSending
<1>2. Flight(Unsent) /\ ~Unsent.sending /\ Unsent.sent = 0
  BY DEF Flight, Unsent
<1>3. ASSUME NEW c \in CampaignIds
      PROVE  /\ uncounted'[c] \in Nat /\ sends'[c] = Unsent
             /\ IF c \in DOMAIN campaigns
                THEN Counted(mailed[c], Unsent, uncounted'[c], campaigns[c])
                ELSE mailed[c] = 0 /\ uncounted'[c] = 0
  <2>1. PICK flight, lost, mails : /\ flight = sends[c] /\ lost = uncounted[c] /\ mails = mailed[c]
                                   /\ Flight(flight) /\ lost \in Nat /\ mails \in Nat
    BY DEF MailsInv
  <2>2. flight.sent \in Nat /\ (~flight.sending => flight.sent = 0)
    BY <1>2, <2>1 DEF Flight
  <2>3. uncounted'[c] = lost + flight.sent + (IF flight.sending THEN 1 ELSE 0)
    BY <1>1, <2>1
  <2>4. PICK more : more = uncounted'[c] /\ more \in Nat /\ more = lost + (IF flight.sending THEN flight.sent + 1 ELSE 0)
    BY <2>1, <2>2, <2>3
  <2>5. CASE c \in DOMAIN campaigns
    <3>1. PICK old : old = campaigns[c] /\ Counted(mails, flight, lost, old) /\ old.sentCount \in Nat
      BY <2>1, <2>5, InFlight DEF CampaignRecords
    <3>2. mails = old.sentCount + more
      BY <2>1, <2>2, <2>4, <3>1 DEF Counted
    <3>3. Counted(mails, Unsent, more, old)
      BY <1>2, <2>4, <3>1, <3>2 DEF Counted
    <3>4. QED
      BY <1>1, <2>1, <2>4, <2>5, <3>1, <3>3
  <2>6. CASE c \notin DOMAIN campaigns
    <3>1. ~flight.sending /\ lost = 0 /\ mails = 0
      BY <2>1, <2>6 DEF MailsInv
    <3>2. QED
      BY <1>1, <2>1, <2>4, <2>6, <3>1
  <2>7. QED
    BY <2>5, <2>6
<1>4. uncounted' = [c \in CampaignIds |-> uncounted'[c]] /\ sends' = [c \in CampaignIds |-> sends'[c]]
  BY <1>1
<1>5. CampaignIds' = CampaignIds /\ DOMAIN campaigns' = DOMAIN campaigns
  BY <1>1 DEF CampaignIds
<1>6. \A c \in CampaignIds : /\ sends'[c] = Unsent /\ uncounted'[c] \in Nat /\ mailed'[c] \in Nat
                             /\ Flight(sends'[c]) /\ ~sends'[c].sending
  BY <1>1, <1>2, <1>3 DEF MailsInv
<1>7. \A c \in CampaignIds : IF c \in DOMAIN campaigns'
                             THEN Counted(mailed'[c], sends'[c], uncounted'[c], campaigns'[c])
                             ELSE mailed'[c] = 0 /\ uncounted'[c] = 0 /\ ~sends'[c].sending
  BY <1>1, <1>2, <1>3, <1>5
<1>8. campaigns' \in Seq(CampaignRecords) /\ Len(campaigns') <= MaxCampaigns /\ mailed' = [c \in CampaignIds |-> mailed'[c]]
  BY <1>1 DEF MailsInv
<1>9. QED
  BY <1>4, <1>5, <1>6, <1>7, <1>8 DEF MailsInv, Flight, Counted, Unsent

(* A reply charges the first campaign, whose count of mails stays.         *)
LEMMA ReplyKeepsMails ==
    ASSUME MailsInv, NEW email, NEW classification, ReceiveReply(email, classification)
    PROVE  MailsInv'
<1>1. UNCHANGED <<sends, mailed, uncounted>>
  BY DEF ReceiveReply
<1>2. CASE campaigns' = campaigns
  BY <1>1, <1>2, MailsUntouched
<1>3. CASE campaigns' # campaigns
  <2>1. Len(campaigns) > 0 /\ classification \in {"unsubscribe", "complaint"}
    BY <1>3 DEF ReceiveReply
  <2>2. 1 \in DOMAIN campaigns
    BY <2>1, CampaignsOnFile
  <2>3. PICK old, flight, mails, lost :
        /\ old = campaigns[1] /\ flight = sends[1] /\ mails = mailed[1] /\ lost = uncounted[1]
        /\ old \in CampaignRecords /\ Flight(flight) /\ mails \in Nat /\ lost \in Nat
        /\ Counted(mails, flight, lost, old) /\ 1 \in CampaignIds
    BY <2>2, InFlight
  <2>4. PICK new : /\ new \in CampaignRecords /\ new.sentCount = old.sentCount
                   /\ campaigns' = [campaigns EXCEPT ![1] = new]
    <3>0. PICK list : list = campaigns /\ list[1] = old
      BY <2>3
    <3>1. CASE classification = "unsubscribe"
      <4>1. PICK new : new = [old EXCEPT !.unsubscribes = @ + 1]
        OBVIOUS
      <4>2. new \in CampaignRecords /\ new.sentCount = old.sentCount
        BY <2>3, <4>1 DEF CampaignRecords
      <4>3. campaigns' = [list EXCEPT ![1] = new]
        BY <2>1, <3>0, <3>1, <4>1 DEF ReceiveReply
      <4>4. QED
        BY <3>0, <4>2, <4>3
    <3>2. CASE classification = "complaint"
      <4>0. PICK n, status : /\ n = old.complaints + 1
                             /\ status = (IF (n * 100 >= PausePerCent * old.sentCount /\ old.sentCount > 0)
                                             \/ PausePerCent = 0 THEN "paused" ELSE old.status)
        OBVIOUS
      <4>1. PICK new : new = [old EXCEPT !.complaints = n, !.status = status]
        OBVIOUS
      <4>2. n \in Nat /\ status \in {"draft", "sent", "paused"}
        BY <2>3, <4>0 DEF CampaignRecords
      <4>3. new \in CampaignRecords /\ new.sentCount = old.sentCount
        BY <2>3, <4>1, <4>2 DEF CampaignRecords
      <4>4. campaigns' = [list EXCEPT ![1].complaints = n, ![1].status = status]
        BY <2>1, <3>0, <3>2, <4>0 DEF ReceiveReply
      <4>5. [list EXCEPT ![1].complaints = n, ![1].status = status] = [list EXCEPT ![1] = new]
        BY <2>2, <3>0, <4>1
      <4>6. QED
        BY <3>0, <4>3, <4>4, <4>5
    <3>3. QED
      BY <2>1, <3>1, <3>2
  <2>5. /\ mailed' = [mailed EXCEPT ![1] = mails] /\ uncounted' = [uncounted EXCEPT ![1] = lost]
        /\ sends' = [sends EXCEPT ![1] = flight]
    BY <1>1, <2>3, SameEntry DEF MailsInv
  <2>6. Counted(mails, flight, lost, new)
    BY <2>3, <2>4 DEF Counted
  <2>7. QED
    BY <2>2, <2>3, <2>4, <2>5, <2>6, OneCampaign
<1>4. QED
  BY <1>2, <1>3

LEMMA MailsInvStep == MailsInv /\ ProspectsInv /\ [OutreachNext]_outreachVars => MailsInv'
<1> SUFFICES ASSUME MailsInv, ProspectsInv, [OutreachNext]_outreachVars PROVE MailsInv'
  OBVIOUS
<1>1. ASSUME NEW enabled, NEW cap, PatchConfig(enabled, cap) PROVE MailsInv'
  BY <1>1, MailsUntouched DEF PatchConfig
<1>2. ASSUME RelaunchResets PROVE MailsInv'
  BY <1>2, MailsUntouched DEF RelaunchResets
<1>3. ASSUME NEW emails, UploadProspects(emails) PROVE MailsInv'
  BY <1>3, MailsUntouched DEF UploadProspects
<1>4. ASSUME NEW c, NEW enabled, AskToSend(c, enabled) PROVE MailsInv'
  BY <1>4, MailsUntouched DEF AskToSend
<1>5. ASSUME NEW i, ApproveSend(i) PROVE MailsInv'
  BY <1>5, MailsUntouched DEF ApproveSend
<1>6. ASSUME UNCHANGED outreachVars PROVE MailsInv'
  BY <1>6, MailsUntouched DEF outreachVars
<1>7. QED
  BY <1>1, <1>2, <1>3, <1>4, <1>5, <1>6, CreateKeepsMails, BeginKeepsMails, NextMailKeepsMails,
     BreakOffKeepsMails, DieKeepsMails, ReplyKeepsMails DEF OutreachNext

(* For any number of campaigns, prospects, sends, replies and crashes:     *)
(* the mails that left are the campaign's count, those of its send in      *)
(* flight and those of sends that broke off.                               *)
THEOREM MailsCounted == OutreachSpec => []MailsAreCounted
<1>1. MailsInv => MailsAreCounted
  <2> SUFFICES ASSUME MailsInv, NEW c \in DOMAIN campaigns
               PROVE  mailed[c] = campaigns[c].sentCount + uncounted[c] +
                                    (IF sends[c].sending THEN sends[c].sent + 1 ELSE 0)
    BY DEF MailsAreCounted
  <2>1. QED
    BY InFlight DEF Counted
<1>2. QED
  BY <1>1, MailsInvInit, MailsInvStep, ProspectsInit, ProspectsStep, PTL DEF OutreachSpec

LEMMA OutreachTypes == OutreachSpec => []OutreachTypeOK
<1>1. MailsInv /\ ProspectsInv /\ RepliesInv => OutreachTypeOK
  <2> SUFFICES ASSUME MailsInv, ProspectsInv, RepliesInv PROVE OutreachTypeOK
    OBVIOUS
  <2>1. Len(prospects) <= MaxProspects /\ Len(campaigns) <= MaxCampaigns /\ Len(replies) <= MaxReplies
        /\ contacts \subseteq Emails
    BY DEF MailsInv, ProspectsInv, RepliesInv
  <2>2. \A c \in CampaignIds : sends[c].sending => c \in DOMAIN campaigns /\ sends[c].left > 0
    BY DEF MailsInv, Flight
  <2>3. \A c \in DOMAIN campaigns : campaigns[c].status \in {"draft", "sent", "paused"}
    BY CampaignsOnFile DEF CampaignRecords
  <2>4. computeLevel4Dashboard.interested >= Cardinality(contacts)
    <3>1. PICK interested : interested = Cardinality(Interested(replies))
      OBVIOUS
    <3>2. interested \in Nat /\ Cardinality(contacts) \in Nat
      <4>1. PICK k : k \in Nat /\ DOMAIN replies = 1..k
        BY LenProperties DEF RepliesInv
      <4>2. IsFiniteSet(1..k) /\ Interested(replies) \subseteq 1..k
        BY <4>1, FS_Interval DEF Interested
      <4>3. QED
        BY <3>1, <4>2, FS_Subset, FS_CardinalityType DEF RepliesInv
    <3>3. computeLevel4Dashboard.interested = interested
      BY <3>1 DEF computeLevel4Dashboard, Interested
    <3>4. Cardinality(contacts) <= interested
      BY <3>1 DEF RepliesInv
    <3>5. QED
      BY <3>2, <3>3, <3>4
  <2>5. QED
    BY <2>1, <2>2, <2>3, <2>4 DEF OutreachTypeOK
<1>2. QED
  BY <1>1, MailsInvInit, MailsInvStep, ProspectsInit, ProspectsStep, PTL DEF OutreachSpec

-----------------------------------------------------------------------------
(* The autonomous company.  The inductive invariant: the records are what  *)
(* the code writes, the burn is never negative, and the pivots not asked   *)
(* for are those that crashes cut off.                                     *)
ExperimentRecords ==
    [lift : Int, roi : Int, channel : {o.channel : o \in Outcomes},
     status : {"active", "success", "fail", "killed", "scaled"}, streak : 0..2]
SignalRecords == [date : Int, cpa : Nat, score : 0..100]
HandoffRecords == [experiment : About, status : DOMAIN handoffTransitions]
PivotRecords == [reason : {"health", "experiments"}, asked : BOOLEAN]
CycleRecords == [acted : Nat, pivot : BOOLEAN, shutdown : BOOLEAN]

Unasked(list) == {k \in DOMAIN list : ~list[k].asked}

CompanyInv ==
    /\ signals \in Seq(SignalRecords)
    /\ experiments \in Seq(ExperimentRecords)
    /\ \A i \in DOMAIN experiments : experiments[i].status = "killed" \/ experiments[i].streak \in 0..1
    /\ packets \in [Stages -> Nat]
    /\ handoffs \in Seq(HandoffRecords)
    /\ rewriting \subseteq Seq(HandoffRecords)
    /\ Len(experiments) <= MaxExperiments
    /\ pivots \in Seq(PivotRecords)
    /\ Cardinality(Unasked(pivots)) <= companyCrashes
    /\ cycles \in Seq(CycleRecords) /\ Len(cycles) <= KeepCycles
    /\ companyRuns \in 0..MaxCompanyRuns
    /\ shutdowns \in Nat /\ shutdowns <= companyRuns
    /\ plan.burn \in Nat
    /\ deployments \subseteq DOMAIN experiments
    /\ companyCrashes \in 0..MaxCompanyCrashes

LEMMA OnList ==
    ASSUME NEW S, NEW s, s \in Seq(S)
    PROVE  /\ Len(s) \in Nat /\ DOMAIN s = 1..Len(s) /\ s \in [1..Len(s) -> S]
           /\ \A i \in DOMAIN s : s[i] \in S
BY LenProperties, ElementOfSeq

LEMMA CompanyFromInv == CompanyInv => CompanyTypeOK /\ PivotsAreAsked
<1> SUFFICES ASSUME CompanyInv PROVE CompanyTypeOK /\ PivotsAreAsked
  OBVIOUS
<1>1. \A i \in DOMAIN signals : signals[i].score \in 0..100
  <2>1. \A i \in DOMAIN signals : signals[i] \in SignalRecords
    BY OnList DEF CompanyInv
  <2> QED
    BY <2>1 DEF SignalRecords
<1>2. \A i \in DOMAIN experiments :
         /\ experiments[i].status \in {"active", "success", "fail", "killed", "scaled"}
         /\ experiments[i].streak \in 0..2
  <2>1. \A i \in DOMAIN experiments : experiments[i] \in ExperimentRecords
    BY OnList DEF CompanyInv
  <2> QED
    BY <2>1 DEF ExperimentRecords
<1>3. \A s \in Stages : packets[s] \in Nat
  BY DEF CompanyInv
<1>4. \A k \in DOMAIN pivots : pivots[k].reason \in {"health", "experiments"}
  <2>1. \A k \in DOMAIN pivots : pivots[k] \in PivotRecords
    BY OnList DEF CompanyInv
  <2> QED
    BY <2>1 DEF PivotRecords
<1>5. shutdowns \in 0..MaxCompanyRuns
  BY CompanyAssumption DEF CompanyInv, CompanyAssumption
<1>6. \A list \in rewriting \cup {handoffs} : \A k \in DOMAIN list :
         list[k].experiment \in About /\ list[k].status \in DOMAIN handoffTransitions
  <2>1. ASSUME NEW list \in rewriting \cup {handoffs}, NEW k \in DOMAIN list PROVE list[k] \in HandoffRecords
    BY OnList DEF CompanyInv
  <2> QED
    BY <2>1 DEF HandoffRecords
<1> QED
  BY <1>1, <1>2, <1>3, <1>4, <1>5, <1>6 DEF CompanyTypeOK, PivotsAreAsked, CompanyInv, Unasked

LEMMA CompanyInvInit == CompanyInit => CompanyInv
<1> SUFFICES ASSUME CompanyInit PROVE CompanyInv
  OBVIOUS
<1>1. Unasked(pivots) = {} /\ Cardinality({}) = 0
  BY FS_EmptySet DEF CompanyInit, Unasked
<1>2. KeepCycles \in Nat /\ MaxCompanyRuns \in Nat /\ MaxCompanyCrashes \in Nat
  BY CompanyAssumption DEF CompanyAssumption
<1>3. plan.burn \in Nat /\ packets \in [Stages -> Nat]
  BY DEF CompanyInit, NoPlan
<1>4. \A S : <<>> \in Seq(S) /\ Len(<<>>) = 0 /\ DOMAIN <<>> = {}
  BY EmptySeq
<1>5. /\ signals = <<>> /\ experiments = <<>> /\ handoffs = <<>> /\ pivots = <<>> /\ cycles = <<>>
      /\ rewriting = {} /\ MaxExperiments \in Nat /\ shutdowns = 0 /\ deployments = {} /\ companyRuns = 0 /\ companyCrashes = 0
  BY CompanyAssumption DEF CompanyInit, CompanyAssumption
<1> QED
  BY <1>1, <1>2, <1>3, <1>4, <1>5 DEF CompanyInv

-----------------------------------------------------------------------------
(* The newest signal is one of them.                                       *)
LEMMA LatestIsOnFile ==
    ASSUME signals \in Seq(SignalRecords), signals # <<>>
    PROVE  LatestSignal \in DOMAIN signals
<1> DEFINE After(i, j) == signals[j].date < signals[i].date \/ (signals[j].date = signals[i].date /\ j <= i)
           P == {t \in SUBSET DOMAIN signals : t # {} => \E i \in t : \A j \in t : After(i, j)}
<1>1. DOMAIN signals \subseteq Nat /\ \A i \in DOMAIN signals : signals[i].date \in Int
  <2>1. DOMAIN signals = 1..Len(signals) /\ Len(signals) \in Nat /\ \A i \in DOMAIN signals : signals[i] \in SignalRecords
    BY OnList
  <2> QED
    BY <2>1 DEF SignalRecords
<1>2. IsFiniteSet(DOMAIN signals) /\ DOMAIN signals # {}
  <2>1. PICK n \in Nat : n = Len(signals) /\ DOMAIN signals = 1..n
    BY OnList
  <2>2. n # 0
    BY <2>1, EmptySeq
  <2>3. IsFiniteSet(1..n) /\ 1 \in 1..n
    BY <2>2, FS_Interval
  <2> QED
    BY <2>1, <2>3
<1>3. \A i, j \in DOMAIN signals : After(i, j) \/ After(j, i)
  BY <1>1
<1>4. \A i, j, k \in DOMAIN signals : After(i, j) /\ After(j, k) => After(i, k)
  BY <1>1
<1>5. \A i \in DOMAIN signals : After(i, i)
  BY <1>1
<1> HIDE DEF After
<1>6. ASSUME NEW t \in SUBSET DOMAIN signals, t # {}, \A x \in t : t \ {x} \in P
      PROVE  t \in P
  <2>1. PICK x \in t : TRUE
    BY <1>6
  <2>2. CASE t \ {x} = {}
    BY <2>1, <2>2, <1>5
  <2>3. CASE t \ {x} # {}
    <3>1. PICK z \in t \ {x} : \A y \in t \ {x} : After(z, y)
      BY <1>6, <2>1, <2>3
    <3>2. CASE After(x, z)
      BY <3>1, <3>2, <1>4, <1>5
    <3>3. CASE After(z, x)
      BY <3>1, <3>3
    <3> QED
      BY <3>2, <3>3, <1>3
  <2> QED
    BY <2>2, <2>3
<1>7. P = SUBSET DOMAIN signals
  <2>1. {} \in P /\ P \subseteq SUBSET DOMAIN signals
    OBVIOUS
  <2> HIDE DEF P
  <2> QED
    BY <1>2, <1>6, <2>1, SubsetsByInduction
<1>8. \E i \in DOMAIN signals : \A j \in DOMAIN signals : After(i, j)
  BY <1>2, <1>7
<1> QED
  BY <1>8 DEF LatestSignal, After

LEMMA NatMax == ASSUME NEW a \in Int, NEW b \in Int PROVE Max({a, b}) = IF a >= b THEN a ELSE b
<1>1. \E x \in {a, b} : \A y \in {a, b} : x >= y
  OBVIOUS
<1>2. Max({a, b}) \in {a, b} /\ \A y \in {a, b} : Max({a, b}) >= y
  BY <1>1 DEF Max
<1> QED
  BY <1>2

LEMMA NatMin == ASSUME NEW a \in Int, NEW b \in Int PROVE Min({a, b}) = IF a <= b THEN a ELSE b
<1>1. \E x \in {a, b} : \A y \in {a, b} : x <= y
  OBVIOUS
<1>2. Min({a, b}) \in {a, b} /\ \A y \in {a, b} : Min({a, b}) <= y
  BY <1>1 DEF Min
<1> QED
  BY <1>2

(* computeMarketHealthScore stays between 0 and 100. *)
LEMMA ScoreBounded ==
    ASSUME NEW m, m.cpa \in Int, m.rest \in Int
    PROVE  computeMarketHealthScore(m) \in 0..100
<1>1. PICK x \in Int : x = (m.rest + Max({0, 10000 - m.cpa}) + 500) \div 1000
  <2>1. Max({0, 10000 - m.cpa}) \in Int
    BY NatMax
  <2> QED
    BY <2>1
<1>2. PICK y \in Int : y = Min({100, x}) /\ y <= 100
  BY NatMin
<1>3. Max({0, y}) = IF 0 >= y THEN 0 ELSE y
  BY NatMax
<1>4. Max({0, y}) \in 0..100
  BY <1>2, <1>3
<1> QED
  BY <1>1, <1>2, <1>4 DEF computeMarketHealthScore, Clamp

-----------------------------------------------------------------------------
LEMMA SignalAdded ==
    ASSUME CompanyInv, NEW m, m.date \in Int, m.cpa \in Nat, m.rest \in Int,
           addMarketSignal(m), RestUnchanged
    PROVE  CompanyInv'
<1> DEFINE new == [date |-> m.date, cpa |-> m.cpa, score |-> computeMarketHealthScore(m)]
<1>1. new \in SignalRecords
  BY ScoreBounded DEF SignalRecords
<1> HIDE DEF new
<1>2. signals' = Append(signals, new)
  BY DEF addMarketSignal, new
<1>3. signals' \in Seq(SignalRecords)
  BY <1>1, <1>2, AppendProperties DEF CompanyInv
<1> QED
  BY <1>3 DEF RestUnchanged, CompanyInv, Unasked

LEMMA AggregateKeeps ==
    ASSUME CompanyInv, NEW rest \in Int, NEW interested \in 0..2, AggregateDaily(rest, interested)
    PROVE  CompanyInv'
<1>1. PICK cpa : cpa = plan.burn \div Max({1, interested})
  OBVIOUS
<1>2. cpa \in Nat
  <2>1. Max({1, interested}) = IF 1 >= interested THEN 1 ELSE interested
    BY NatMax
  <2>2. PICK d \in Nat : d = Max({1, interested}) /\ d >= 1
    BY <2>1
  <2>3. PICK b \in Nat : b = plan.burn
    BY DEF CompanyInv
  <2>4. b \div d \in Nat
    BY <2>2
  <2> QED
    BY <1>1, <2>2, <2>3, <2>4
<1>3. PICK m : m = [date |-> Today, cpa |-> cpa, rest |-> rest]
  OBVIOUS
<1>4. m.date \in Int /\ m.cpa \in Nat /\ m.rest \in Int
  BY <1>2, <1>3, CompanyAssumption DEF CompanyAssumption
<1>5. addMarketSignal(m) /\ RestUnchanged
  BY <1>1, <1>3 DEF AggregateDaily
<1> QED
  BY <1>4, <1>5, SignalAdded

(* Counting the experiments of a stage gives a number. *)
LEMMA PacketsCounted ==
    ASSUME CompanyInv, NEW list, IsFiniteSet(DOMAIN list)
    PROVE  PacketsOf(list) \in [Stages -> Nat]
<1>1. ASSUME NEW s \in Stages
      PROVE  packets[s] + Cardinality({i \in DOMAIN list : StageOf(list[i]) = s}) \in Nat
  <2> DEFINE t == {i \in DOMAIN list : StageOf(list[i]) = s}
  <2>1. t \subseteq DOMAIN list
    OBVIOUS
  <2> HIDE DEF t
  <2>2. Cardinality(t) \in Nat
    BY <2>1, FS_Subset, FS_CardinalityType
  <2>3. packets[s] \in Nat
    BY DEF CompanyInv
  <2> QED
    BY <2>2, <2>3 DEF t
<1> QED
  BY <1>1 DEF PacketsOf

LEMMA UnaskedCounted ==
    ASSUME NEW list, list \in Seq(PivotRecords)
    PROVE  IsFiniteSet(Unasked(list)) /\ Cardinality(Unasked(list)) \in Nat
<1>1. PICK n \in Nat : DOMAIN list = 1..n
  BY OnList
<1>2. Unasked(list) \subseteq 1..n /\ IsFiniteSet(1..n)
  BY <1>1, FS_Interval DEF Unasked
<1> QED
  BY <1>2, FS_Subset, FS_CardinalityType

(* A death costs one of those there may be. *)
LEMMA CompanyDeaths ==
    ASSUME CompanyInv
    PROVE  /\ companyCrashes \in Nat /\ companyCrashes <= MaxCompanyCrashes /\ MaxCompanyCrashes \in Nat
           /\ companyRuns \in Nat /\ companyRuns <= MaxCompanyRuns /\ MaxCompanyRuns \in Nat
           /\ shutdowns \in Nat /\ shutdowns <= companyRuns
BY CompanyAssumption DEF CompanyInv, CompanyAssumption

LEMMA CreateExperimentKeeps ==
    ASSUME CompanyInv, NEW o \in Outcomes, NEW done \in 1..3, CreateExperiment(o, done)
    PROVE  CompanyInv'
<1>1. PICK e : /\ e = [lift |-> o.lift, roi |-> o.roi, channel |-> o.channel, status |-> "active", streak |-> 0]
               /\ CompanyMayDie(done < 3) /\ Len(experiments) < MaxExperiments
               /\ experiments' = Append(experiments, e)
               /\ packets' = writeJsonAtomic(done, 2, PacketsOf(<<e>>), packets)
               /\ UNCHANGED <<signals, handoffs, plan, pivots, shutdowns, cycles, deployments, companyRuns>>
  BY DEF CreateExperiment, writeJsonAtomic
<1>2. e \in ExperimentRecords /\ e.streak = 0
  BY <1>1, CompanyAssumption DEF ExperimentRecords, CompanyAssumption
<1>3. PICK n \in Nat : /\ n = Len(experiments) /\ DOMAIN experiments = 1..n
  BY OnList DEF CompanyInv
<1>4. /\ experiments' \in Seq(ExperimentRecords) /\ DOMAIN experiments' = 1..(n + 1)
      /\ Len(experiments') = n + 1
      /\ \A i \in 1..n : experiments'[i] = experiments[i]
      /\ experiments'[n + 1] = e
  <2>1. /\ Append(experiments, e) \in Seq(ExperimentRecords)
        /\ Len(Append(experiments, e)) = n + 1
        /\ \A i \in 1..n : Append(experiments, e)[i] = experiments[i]
        /\ Append(experiments, e)[n + 1] = e
    BY <1>2, <1>3, AppendProperties DEF CompanyInv
  <2> QED
    BY <1>1, <2>1, OnList
<1>5. packets' \in [Stages -> Nat]
  <2>0. DOMAIN <<e>> = {1}
    OBVIOUS
  <2>1. IsFiniteSet(DOMAIN <<e>>)
    BY <2>0, FS_Singleton
  <2>2. PacketsOf(<<e>>) \in [Stages -> Nat]
    BY <2>1, PacketsCounted
  <2> QED
    BY <1>1, <2>2 DEF writeJsonAtomic, CompanyInv
<1>6. \A i \in DOMAIN experiments' : experiments'[i].status = "killed" \/ experiments'[i].streak \in 0..1
  <2>1. ASSUME NEW i \in 1..n
        PROVE  experiments'[i].status = "killed" \/ experiments'[i].streak \in 0..1
    BY <1>3, <1>4 DEF CompanyInv
  <2>2. \A i \in 1..(n + 1) : i \in 1..n \/ i = n + 1
    OBVIOUS
  <2> QED
    BY <1>2, <1>4, <2>1, <2>2
<1>7. DOMAIN experiments \subseteq DOMAIN experiments'
  BY <1>3, <1>4
<1>8. companyCrashes' \in 0..MaxCompanyCrashes /\ companyCrashes' >= companyCrashes
  <2>1. /\ done < 3 => companyCrashes < MaxCompanyCrashes
        /\ companyCrashes' = IF done < 3 THEN companyCrashes + 1 ELSE companyCrashes
    BY <1>1 DEF CompanyMayDie
  <2>2. companyCrashes \in Nat /\ companyCrashes <= MaxCompanyCrashes /\ MaxCompanyCrashes \in Nat
    BY CompanyDeaths
  <2> QED
    BY <2>1, <2>2
<1>9. Cardinality(Unasked(pivots)) <= companyCrashes'
  <2>2. Cardinality(Unasked(pivots)) \in Nat /\ companyCrashes \in Nat /\ companyCrashes' \in Nat
    BY <1>8, UnaskedCounted DEF CompanyInv
  <2> QED
    BY <1>8, <2>2 DEF CompanyInv
<1>10. deployments' \subseteq DOMAIN experiments' /\ Len(experiments') <= MaxExperiments
  <2>1. MaxExperiments \in Nat
    BY CompanyAssumption DEF CompanyAssumption
  <2> QED
    BY <1>1, <1>3, <1>4, <1>7, <2>1 DEF CompanyInv
<1>11. rewriting' \subseteq Seq(HandoffRecords)
  BY <1>1 DEF CompanyMayDie, CompanyInv
<1>12. Cardinality(Unasked(pivots))' <= companyCrashes'
  BY <1>1, <1>9 DEF Unasked
<1> QED
  BY <1>1, <1>4, <1>5, <1>6, <1>8, <1>10, <1>11, <1>12 DEF CompanyInv

LEMMA ReviewKeeps ==
    ASSUME CompanyInv, NEW i \in DOMAIN experiments, NEW seated \in BOOLEAN, NEW done \in 1..4,
           ReviewExperiment(i, seated, done)
    PROVE  CompanyInv'
<1> DEFINE stage == StageOf(experiments[i])
           asks == stage # "active" /\ seated
<1>1. PICK request :
         /\ request = [experiment |-> i, status |-> IF done = 4 THEN "triaged" ELSE "submitted"]
         /\ handoffs' = IF asks /\ done >= 2 THEN Append(handoffs, request) ELSE handoffs
         /\ companyRuns < MaxCompanyRuns /\ companyRuns' = companyRuns + 1
         /\ CompanyMayDie(asks /\ done < 4)
         /\ packets' = PacketsOf(<<experiments[i]>>)
         /\ UNCHANGED <<signals, experiments, plan, pivots, shutdowns, cycles, deployments>>
  BY DEF ReviewExperiment
<1>2. PICK n \in Nat : DOMAIN experiments = 1..n /\ n <= MaxExperiments /\ MaxExperiments \in Nat
  <2>1. MaxExperiments \in Nat
    BY CompanyAssumption DEF CompanyAssumption
  <2>2. /\ Len(experiments) \in Nat /\ DOMAIN experiments = 1..Len(experiments)
        /\ Len(experiments) <= MaxExperiments
    BY OnList DEF CompanyInv
  <2> QED
    BY <2>1, <2>2
<1>3. request \in HandoffRecords
  <2>1. i \in About
    BY <1>2 DEF About
  <2> QED
    BY <1>1, <2>1 DEF HandoffRecords, handoffTransitions
<1>5. handoffs' \in Seq(HandoffRecords)
  <2>1. Append(handoffs, request) \in Seq(HandoffRecords)
    BY <1>3, AppendProperties DEF CompanyInv
  <2> HIDE DEF asks
  <2> QED
    BY <1>1, <2>1 DEF CompanyInv
<1>6. packets' \in [Stages -> Nat]
  <2>0. DOMAIN <<experiments[i]>> = {1}
    OBVIOUS
  <2>1. IsFiniteSet(DOMAIN <<experiments[i]>>)
    BY <2>0, FS_Singleton
  <2> QED
    BY <1>1, <2>1, PacketsCounted
<1>7. rewriting' \subseteq Seq(HandoffRecords)
  BY <1>1 DEF CompanyMayDie, CompanyInv
<1>8. companyCrashes' \in 0..MaxCompanyCrashes /\ companyCrashes' >= companyCrashes
  <2> HIDE DEF asks
  <2>1. /\ asks /\ done < 4 => companyCrashes < MaxCompanyCrashes
        /\ companyCrashes' = IF asks /\ done < 4 THEN companyCrashes + 1 ELSE companyCrashes
    BY <1>1 DEF CompanyMayDie
  <2>2. companyCrashes \in Nat /\ companyCrashes <= MaxCompanyCrashes /\ MaxCompanyCrashes \in Nat
    BY CompanyDeaths
  <2> QED
    BY <2>1, <2>2
<1>9. Cardinality(Unasked(pivots)) <= companyCrashes'
  <2>2. Cardinality(Unasked(pivots)) \in Nat /\ companyCrashes \in Nat /\ companyCrashes' \in Nat
    BY <1>8, UnaskedCounted DEF CompanyInv
  <2> QED
    BY <1>8, <2>2 DEF CompanyInv
<1>11. /\ companyRuns' \in 0..MaxCompanyRuns /\ shutdowns' <= companyRuns'
  BY <1>1, CompanyDeaths
<1> QED
  BY <1>1, <1>5, <1>6, <1>7, <1>8, <1>9, <1>11 DEF CompanyInv, Unasked

(* What the board's routes write, or hold back, is a list of requests.      *)
LEMMA PatchedIsOnList ==
    ASSUME CompanyInv, NEW k \in DOMAIN handoffs, NEW status \in DOMAIN handoffTransitions, NEW about \in About
    PROVE  HandoffPatched(k, status, about) \in Seq(HandoffRecords)
<1>1. PICK new : new = [experiment |-> about, status |-> status]
  OBVIOUS
<1>2. new \in HandoffRecords
  BY <1>1 DEF HandoffRecords
<1>3. handoffs \in Seq(HandoffRecords) /\ k \in 1..Len(handoffs)
  BY OnList DEF CompanyInv
<1>4. [handoffs EXCEPT ![k] = new] \in Seq(HandoffRecords)
  BY <1>2, <1>3, ExceptSeq
<1> QED
  BY <1>1, <1>4 DEF HandoffPatched

LEMMA BoardWritesKeep ==
    ASSUME CompanyInv, NEW list \in Seq(HandoffRecords), BoardWrites(list), rewriting' \subseteq Seq(HandoffRecords)
    PROVE  CompanyInv'
  BY DEF BoardWrites, CompanyInv, Unasked

LEMMA BoardKeeps ==
    ASSUME CompanyInv
    PROVE  /\ \A about \in About : HandoffPosted(about) => CompanyInv'
           /\ \A k \in DOMAIN handoffs, status \in DOMAIN handoffTransitions, about \in About :
                 HandoffMoves(k, status, about) => CompanyInv'
           /\ \A list \in Seq(HandoffRecords) : BeginRewrite(list) => CompanyInv'
           /\ \A list \in rewriting, failed \in BOOLEAN : EndRewrite(list, failed) => CompanyInv'
<1>1. handoffs \in Seq(HandoffRecords) /\ rewriting \subseteq Seq(HandoffRecords)
  BY DEF CompanyInv
<1>2. ASSUME NEW about \in About, HandoffPosted(about) PROVE CompanyInv'
  <2>1. PICK new : new = [experiment |-> about, status |-> "submitted"]
    OBVIOUS
  <2>2. new \in HandoffRecords
    BY <2>1 DEF HandoffRecords, handoffTransitions
  <2>3. Append(handoffs, new) \in Seq(HandoffRecords)
    BY <1>1, <2>2, AppendProperties
  <2>4. BoardWrites(Append(handoffs, new)) /\ rewriting' = rewriting
    BY <1>2, <2>1 DEF HandoffPosted
  <2> QED
    BY <1>1, <2>3, <2>4, BoardWritesKeep
<1>3. ASSUME NEW k \in DOMAIN handoffs, NEW status \in DOMAIN handoffTransitions, NEW about \in About,
             HandoffMoves(k, status, about)
      PROVE  CompanyInv'
  <2>1. HandoffPatched(k, status, about) \in Seq(HandoffRecords)
    BY PatchedIsOnList
  <2>2. BoardWrites(HandoffPatched(k, status, about)) /\ rewriting' = rewriting
    BY <1>3 DEF HandoffMoves
  <2> QED
    BY <1>1, <2>1, <2>2, BoardWritesKeep
<1>4. ASSUME NEW list \in Seq(HandoffRecords), BeginRewrite(list) PROVE CompanyInv'
  BY <1>1, <1>4, BoardWritesKeep DEF BeginRewrite
<1>5. ASSUME NEW list \in rewriting, NEW failed \in BOOLEAN, EndRewrite(list, failed) PROVE CompanyInv'
  BY <1>1, <1>5, BoardWritesKeep DEF EndRewrite
<1> QED
  BY <1>2, <1>3, <1>4, <1>5

LEMMA DeployKeeps ==
    ASSUME CompanyInv, NEW i \in DOMAIN experiments, DeployExperiment(i)
    PROVE  CompanyInv'
  BY DEF DeployExperiment, CompanyInv, Unasked

LEMMA EvaluatedRecord ==
    ASSUME NEW e, e \in ExperimentRecords, e.status = "killed" \/ e.streak \in 0..1
    PROVE  Evaluated(e) \in ExperimentRecords /\ (Evaluated(e).status = "killed" \/ Evaluated(e).streak \in 0..1)
<1>1. CASE e.status = "killed"
  BY <1>1 DEF Evaluated
<1>2. CASE e.status # "killed" /\ Underperforms(e)
  <2>1. PICK x : x = [e EXCEPT !.streak = e.streak + 1, !.status = IF e.streak >= 1 THEN "killed" ELSE "fail"]
    OBVIOUS
  <2>2. e.streak + 1 \in 0..2 /\ (e.streak >= 1 \/ e.streak + 1 \in 0..1)
    BY <1>2
  <2>3. x \in ExperimentRecords /\ (x.status = "killed" \/ x.streak \in 0..1)
    BY <2>1, <2>2 DEF ExperimentRecords
  <2> QED
    BY <1>2, <2>1, <2>3 DEF Evaluated
<1>3. CASE e.status # "killed" /\ ~Underperforms(e)
  <2>0. PICK st \in {"scaled", "success"} : st = IF e.lift >= 15 /\ e.roi > 40 THEN "scaled" ELSE "success"
    OBVIOUS
  <2>1. PICK k \in 0..2 : k = 0
    OBVIOUS
  <2>2. PICK x : x = [e EXCEPT !.streak = k, !.status = st]
    OBVIOUS
  <2>3. x \in ExperimentRecords /\ x.streak = k
    BY <2>2 DEF ExperimentRecords
  <2> QED
    <3>1. x.streak \in 0..1
      BY <2>1, <2>3
    <3> QED
      BY <1>3, <2>0, <2>1, <2>2, <2>3, <3>1 DEF Evaluated
<1> QED
  BY <1>1, <1>2, <1>3

LEMMA BurnOfPlan == ASSUME NEW burn, NEW runway PROVE PlanFrom(burn, runway).burn = burn
BY DEF PlanFrom

LEMMA NextBurn == ASSUME CompanyInv PROVE NextPlan.burn \in Nat
<1>1. CASE signals = <<>>
  <2>1. NextPlan = PlanFrom(12000, 12)
    BY <1>1 DEF NextPlan
  <2> QED
    BY <2>1, BurnOfPlan
<1>2. CASE signals # <<>>
  <2>1. LatestSignal \in DOMAIN signals
    BY <1>2, LatestIsOnFile DEF CompanyInv
  <2>2. signals[LatestSignal] \in SignalRecords
    BY <2>1, OnList DEF CompanyInv
  <2>3. signals[LatestSignal].cpa \in Nat
    BY <2>2 DEF SignalRecords
  <2>4. NextPlan.burn = 5 * signals[LatestSignal].cpa
    <3>1. PICK runway : NextPlan = PlanFrom(5 * signals[LatestSignal].cpa, runway)
      BY <1>2 DEF NextPlan
    <3> QED
      BY <3>1, BurnOfPlan
  <2> QED
    BY <2>3, <2>4
<1> QED
  BY <1>1, <1>2

LEMMA PivotFiled ==
    ASSUME CompanyInv, NEW done \in 1..7, RunCycle(done)
    PROVE  /\ pivots' \in Seq(PivotRecords)
           /\ Cardinality(Unasked(pivots')) <= companyCrashes'
           /\ companyCrashes' \in 0..MaxCompanyCrashes
<1>1. /\ companyCrashes' \in 0..MaxCompanyCrashes
      /\ companyCrashes' = IF done < 7 THEN companyCrashes + 1 ELSE companyCrashes
      /\ companyCrashes \in Nat
  <2>1. /\ done < 7 => companyCrashes < MaxCompanyCrashes
        /\ companyCrashes' = IF done < 7 THEN companyCrashes + 1 ELSE companyCrashes
    BY DEF RunCycle, CompanyMayDie
  <2>2. companyCrashes \in Nat /\ companyCrashes <= MaxCompanyCrashes /\ MaxCompanyCrashes \in Nat
    BY CompanyDeaths
  <2> QED
    BY <2>1, <2>2
<1>2. /\ pivots \in Seq(PivotRecords) /\ IsFiniteSet(Unasked(pivots))
      /\ Cardinality(Unasked(pivots)) \in Nat /\ Cardinality(Unasked(pivots)) <= companyCrashes
  BY UnaskedCounted DEF CompanyInv
<1>3. CASE PivotReason = "none" \/ done < 2
  <2>1. pivots' = pivots
    BY <1>3 DEF RunCycle
  <2> QED
    BY <1>1, <1>2, <2>1
<1>4. CASE ~(PivotReason = "none" \/ done < 2)
  <2>1. PICK p : p = [reason |-> PivotReason, asked |-> done >= 3]
    OBVIOUS
  <2>2. pivots' = Append(pivots, p)
    BY <1>4, <2>1 DEF RunCycle
  <2>3. p \in PivotRecords /\ (p.asked <=> done >= 3)
    <3>1. PICK reason \in {"health", "experiments"} : reason = PivotReason
      BY <1>4 DEF PivotReason
    <3>2. CASE done >= 3
      <4>1. p = [reason |-> reason, asked |-> TRUE]
        BY <2>1, <3>1, <3>2
      <4> QED
        BY <3>2, <4>1 DEF PivotRecords
    <3>3. CASE ~(done >= 3)
      <4>1. p = [reason |-> reason, asked |-> FALSE]
        <5>1. (done >= 3) = FALSE
          BY <3>3
        <5> QED
          BY <2>1, <3>1, <5>1
      <4> QED
        BY <3>3, <4>1 DEF PivotRecords
    <3> QED
      BY <3>2, <3>3
  <2>4. PICK n \in Nat : n = Len(pivots) /\ DOMAIN pivots = 1..n
    BY <1>2, OnList
  <2>5. /\ pivots' \in Seq(PivotRecords) /\ Len(pivots') = n + 1
        /\ \A k \in 1..n : pivots'[k] = pivots[k]
        /\ pivots'[n + 1] = p
    BY <1>2, <2>2, <2>3, <2>4, AppendProperties
  <2>6. DOMAIN pivots' = 1..(n + 1) /\ \A k \in 1..(n + 1) : k \in 1..n \/ k = n + 1
    BY <2>5, OnList
  <2>7. CASE done >= 3
    <3>1. Unasked(pivots') = Unasked(pivots)
      BY <2>3, <2>4, <2>5, <2>6, <2>7 DEF Unasked
    <3> QED
      BY <1>1, <1>2, <2>5, <3>1
  <2>8. CASE ~(done >= 3)
    <3>1. Unasked(pivots') = Unasked(pivots) \cup {n + 1} /\ n + 1 \notin Unasked(pivots)
      BY <2>3, <2>4, <2>5, <2>6, <2>8 DEF Unasked
    <3>2. Cardinality(Unasked(pivots')) = Cardinality(Unasked(pivots)) + 1
      BY <1>2, <3>1, FS_AddElement
    <3> QED
      BY <1>1, <1>2, <2>5, <2>8, <3>2
  <2> QED
    BY <2>7, <2>8
<1> QED
  BY <1>3, <1>4

LEMMA CycleFiled ==
    ASSUME CompanyInv, NEW done \in 1..7, RunCycle(done)
    PROVE  cycles' \in Seq(CycleRecords) /\ Len(cycles') <= KeepCycles
<1>1. PICK c : c = [acted |-> Cardinality(Killed \cup Scaled), pivot |-> PivotReason # "none", shutdown |-> ShutdownDue]
  OBVIOUS
<1>2. Cardinality(Killed \cup Scaled) \in Nat
  <2>1. PICK n \in Nat : DOMAIN experiments = 1..n
    BY OnList DEF CompanyInv
  <2>2. Killed \cup Scaled \subseteq 1..n /\ IsFiniteSet(1..n)
    BY <2>1, FS_Interval DEF Killed, Scaled
  <2> QED
    BY <2>2, FS_Subset, FS_CardinalityType
<1>3. c \in CycleRecords
  BY <1>1, <1>2 DEF CycleRecords, ShutdownDue
<1>4. PICK n, keep \in Nat : /\ n = Len(cycles) /\ keep = KeepCycles /\ n <= keep /\ keep > 0
                             /\ cycles \in Seq(CycleRecords)
  <2>1. KeepCycles \in Nat /\ KeepCycles > 0
    BY CompanyAssumption DEF CompanyAssumption
  <2>2. cycles \in Seq(CycleRecords) /\ Len(cycles) \in Nat /\ Len(cycles) <= KeepCycles
    BY OnList DEF CompanyInv
  <2> QED
    BY <2>1, <2>2
<1>5. PICK all : all = Append(cycles, c)
  OBVIOUS
<1>6. all \in Seq(CycleRecords) /\ Len(all) = n + 1
  BY <1>3, <1>4, <1>5, AppendProperties
<1>7. all # <<>> /\ Tail(all) \in Seq(CycleRecords) /\ Len(Tail(all)) = n
  <2>1. all # <<>>
    BY <1>6
  <2> QED
    BY <1>6, <2>1, HeadTailProperties
<1>8. cycles' = IF done >= 7 THEN IF Len(all) > KeepCycles THEN Tail(all) ELSE all ELSE cycles
  BY <1>1, <1>5 DEF RunCycle, writeJsonAtomic
<1> QED
  BY <1>4, <1>6, <1>7, <1>8

LEMMA CycleKeeps ==
    ASSUME CompanyInv, NEW done \in 1..7, RunCycle(done)
    PROVE  CompanyInv'
<1>1. PICK n \in Nat : /\ DOMAIN experiments = 1..n /\ \A i \in 1..n : experiments[i] \in ExperimentRecords
                      /\ n = Len(experiments)
  BY OnList DEF CompanyInv
<1>2. /\ experiments' = [i \in 1..n |-> Evaluated(experiments[i])] /\ UNCHANGED <<signals, handoffs, deployments>>
      /\ companyRuns < MaxCompanyRuns /\ companyRuns' = companyRuns + 1
      /\ shutdowns' \in {shutdowns, shutdowns + 1}
      /\ plan' \in {plan, NextPlan}
      /\ packets' \in {packets, PacketsOf([i \in Acted |-> Evaluation[i]])}
  BY <1>1 DEF RunCycle, Evaluation, writeJsonAtomic
<1>3. \A i \in 1..n : /\ Evaluated(experiments[i]) \in ExperimentRecords
                      /\ Evaluated(experiments[i]).status = "killed" \/ Evaluated(experiments[i]).streak \in 0..1
  BY <1>1, EvaluatedRecord DEF CompanyInv
<1>4. /\ experiments' \in Seq(ExperimentRecords) /\ DOMAIN experiments' = 1..n
      /\ \A i \in DOMAIN experiments' : experiments'[i].status = "killed" \/ experiments'[i].streak \in 0..1
  BY <1>2, <1>3, IsASeq
<1>5. packets' \in [Stages -> Nat]
  <2>1. Acted \subseteq 1..n /\ IsFiniteSet(1..n)
    BY <1>1, FS_Interval DEF Acted
  <2>2. PICK list : list = [i \in Acted |-> Evaluation[i]]
    OBVIOUS
  <2>3. IsFiniteSet(DOMAIN list)
    BY <2>1, <2>2, FS_Subset
  <2>4. PacketsOf(list) \in [Stages -> Nat]
    BY <2>3, PacketsCounted
  <2> QED
    BY <1>2, <2>2, <2>4 DEF CompanyInv
<1>6. plan'.burn \in Nat
  BY <1>2, NextBurn DEF CompanyInv
<1>7. companyRuns' \in 0..MaxCompanyRuns /\ shutdowns' \in Nat /\ shutdowns' <= companyRuns'
  BY <1>2, CompanyDeaths
<1>8. /\ pivots' \in Seq(PivotRecords) /\ Cardinality(Unasked(pivots')) <= companyCrashes'
      /\ companyCrashes' \in 0..MaxCompanyCrashes
  BY PivotFiled
<1>9. cycles' \in Seq(CycleRecords) /\ Len(cycles') <= KeepCycles
  BY CycleFiled
<1>10. rewriting' \subseteq Seq(HandoffRecords)
  BY DEF RunCycle, CompanyMayDie, CompanyInv
<1>11. Len(experiments') <= MaxExperiments
  <2>1. Len(experiments') \in Nat /\ 1..Len(experiments') = 1..n
    BY <1>4, OnList
  <2>2. Len(experiments') = n
    BY <2>1
  <2> QED
    BY <1>1, <2>2 DEF CompanyInv
<1> QED
  BY <1>1, <1>2, <1>4, <1>5, <1>6, <1>7, <1>8, <1>9, <1>10, <1>11, SMTT(30) DEF CompanyInv, Unasked

LEMMA CompanyInvStep == CompanyInv /\ [CompanyNext]_companyVars => CompanyInv'
<1> SUFFICES ASSUME CompanyInv, [CompanyNext]_companyVars PROVE CompanyInv'
  OBVIOUS
<1>1. ASSUME NEW m \in Metrics, RecordSignal(m) PROVE CompanyInv'
  BY <1>1, SignalAdded, CompanyAssumption DEF RecordSignal, CompanyAssumption
<1>2. ASSUME NEW m \in Metrics, NEW interested \in 0..2, AggregateDaily(m.rest, interested) PROVE CompanyInv'
  BY <1>2, AggregateKeeps, CompanyAssumption DEF CompanyAssumption
<1>3. ASSUME NEW o \in Outcomes, NEW done \in 1..3, CreateExperiment(o, done) PROVE CompanyInv'
  BY <1>3, CreateExperimentKeeps
<1>4. ASSUME NEW i \in DOMAIN experiments, NEW seated \in BOOLEAN, NEW done \in 1..4,
             ReviewExperiment(i, seated, done)
      PROVE  CompanyInv'
  BY <1>4, ReviewKeeps
<1>5. ASSUME NEW k \in DOMAIN handoffs, NEW about \in About,
             NEW status \in AskedStatuses \cup {handoffs[k].status}, HandoffMoves(k, status, about)
      PROVE  CompanyInv'
  <2>1. handoffs[k] \in HandoffRecords
    BY OnList DEF CompanyInv
  <2>2. status \in DOMAIN handoffTransitions
    BY <2>1, CompanyAssumption DEF HandoffRecords, CompanyAssumption, handoffTransitions
  <2> QED
    BY <1>5, <2>2, BoardKeeps
<1>6. ASSUME NEW i \in DOMAIN experiments, DeployExperiment(i) PROVE CompanyInv'
  BY <1>6, DeployKeeps
<1>7. ASSUME NEW done \in 1..7, RunCycle(done) PROVE CompanyInv'
  BY <1>7, CycleKeeps
<1>8. CASE UNCHANGED companyVars
  BY <1>8 DEF companyVars, CompanyInv, Unasked
<1>9. ASSUME NEW about \in About, HandoffPosted(about) PROVE CompanyInv'
  BY <1>9, BoardKeeps
<1>10. ASSUME BeginRewrite(handoffs) PROVE CompanyInv'
  BY <1>10, BoardKeeps DEF CompanyInv
<1>11. ASSUME NEW k \in DOMAIN handoffs, NEW about \in About, BeginRewrite(HandoffPatched(k, "approved", about))
       PROVE  CompanyInv'
  <2>1. "approved" \in DOMAIN handoffTransitions
    BY DEF handoffTransitions
  <2> QED
    BY <1>11, <2>1, BoardKeeps, PatchedIsOnList
<1>12. ASSUME NEW list \in rewriting, NEW failed \in BOOLEAN, EndRewrite(list, failed) PROVE CompanyInv'
  BY <1>12, BoardKeeps
<1> QED
  BY <1>1, <1>2, <1>3, <1>4, <1>5, <1>6, <1>7, <1>8, <1>9, <1>10, <1>11, <1>12 DEF CompanyNext

THEOREM CompanyIsTyped == CompanySpec => [](CompanyTypeOK /\ PivotsAreAsked)
<1>1. CompanyInit => CompanyInv
  BY CompanyInvInit
<1>2. CompanyInv /\ [CompanyNext]_companyVars => CompanyInv'
  BY CompanyInvStep
<1>3. CompanyInv => CompanyTypeOK /\ PivotsAreAsked
  BY CompanyFromInv
<1> QED
  BY <1>1, <1>2, <1>3, PTL DEF CompanySpec

-----------------------------------------------------------------------------
(* The organisation.  The inductive invariant: in every version on file a  *)
(* department or a team has its chair, or its id is one that a delegation  *)
(* made; what is approved is such an id.                                   *)
Settings == {"pending", "approved", "rejected"}
StoredIds == {StoredChairs[i].id : i \in DOMAIN StoredChairs}
UnitDomains == OrgDomains \cup UnitIds \cup {"none"}

ChairIdsEver == (OrgDomains \cup {"ops"}) \X Nat
ChairRecords == [id : ChairIdsEver, domain : OrgDomains \cup {"ops"}, status : OrgStatus]
DepartmentRecords == [id : KnownUnits, chair : ChairIdsEver, status : OrgStatus, teams : SUBSET KnownUnits]
TeamRecords == [id : KnownUnits, dept : UnitDomains, chair : ChairIdsEver, status : OrgStatus]
Blueprints == [chairs : Seq(ChairRecords), departments : Seq(DepartmentRecords),
               teams : Seq(TeamRecords), autoApprove : BOOLEAN]
DelegationRecords == [target : {"department", "team"}, status : Settings, chair : ChairIds,
                      dept : UnitDomains, unit : UnitIds]

(* The chair that is on file, or the unit that a delegation made.          *)
Seated(b, made, unit) == unit.chair \in Ids(b.chairs) \/ unit.id \in made

Sound(b, made) ==
    /\ \A i \in DOMAIN b.departments : Seated(b, made, b.departments[i])
    /\ \A i \in DOMAIN b.teams : Seated(b, made, b.teams[i])

Orphanless(versions, made) == \A v \in DOMAIN versions : Sound(versions[v], made)

Applied(requests, made) ==
    \A i \in DOMAIN requests : requests[i].status = "approved" => requests[i].unit \in made

OrgInv ==
    /\ orgVersions \in Seq(Blueprints)
    /\ Len(orgVersions) <= KeepVersions
    /\ Orphanless(orgVersions, delegated)
    /\ delegations.requests \in Seq(DelegationRecords)
    /\ DOMAIN delegations = {"ready", "requests"}
    /\ Applied(delegations.requests, delegated)
    /\ orgChanges \in 0..MaxOrgChanges

LEMMA OrgFromInv == OrgInv => OrgTypeOK /\ ApprovedIsApplied /\ OrphansWereDelegated
<1> SUFFICES ASSUME OrgInv PROVE OrgTypeOK /\ ApprovedIsApplied /\ OrphansWereDelegated
  OBVIOUS
<1>1. ASSUME NEW v \in DOMAIN orgVersions PROVE orgVersions[v] \in Blueprints
  BY ElementOfSeq, LenProperties DEF OrgInv
<1>2. ASSUME NEW v \in DOMAIN orgVersions
      PROVE  /\ \A i \in DOMAIN orgVersions[v].chairs : orgVersions[v].chairs[i].status \in OrgStatus
             /\ \A i \in DOMAIN orgVersions[v].departments :
                  orgVersions[v].departments[i].teams \subseteq KnownUnits
  <2>1. orgVersions[v].chairs \in Seq(ChairRecords) /\ orgVersions[v].departments \in Seq(DepartmentRecords)
    BY <1>1 DEF Blueprints
  <2>2. ASSUME NEW i \in DOMAIN orgVersions[v].chairs PROVE orgVersions[v].chairs[i] \in ChairRecords
    BY <2>1, ElementOfSeq, LenProperties
  <2>3. ASSUME NEW i \in DOMAIN orgVersions[v].departments
        PROVE  orgVersions[v].departments[i] \in DepartmentRecords
    BY <2>1, ElementOfSeq, LenProperties
  <2>4. QED
    BY <2>2, <2>3 DEF ChairRecords, DepartmentRecords
<1>3. ASSUME NEW i \in DOMAIN delegations.requests
      PROVE  delegations.requests[i].status \in Settings
  <2>1. delegations.requests[i] \in DelegationRecords
    BY ElementOfSeq, LenProperties DEF OrgInv
  <2>2. QED
    BY <2>1 DEF DelegationRecords
<1>4. OrgTypeOK
  BY <1>2, <1>3 DEF OrgTypeOK, OrgInv, Settings
<1>5. ApprovedIsApplied
  BY DEF OrgInv, ApprovedIsApplied, Applied
<1>6. OrphansWereDelegated
  BY DEF OrgInv, OrphansWereDelegated, Orphanless, Sound, Seated
<1>7. QED
  BY <1>4, <1>5, <1>6

LEMMA OrgInvInit == OrgAssumption /\ OrgInit => OrgInv
<1> SUFFICES ASSUME OrgAssumption, OrgInit PROVE OrgInv
  OBVIOUS
<1>1. orgVersions = <<>> /\ delegations = [ready |-> FALSE, requests |-> <<>>] /\ orgChanges = 0
  BY DEF OrgInit
<1>2. orgVersions \in Seq(Blueprints) /\ Len(orgVersions) = 0 /\ DOMAIN orgVersions = {}
  BY <1>1, EmptySeq, LenProperties
<1>3. delegations.requests = <<>> /\ DOMAIN delegations = {"ready", "requests"}
  BY <1>1
<1>4. delegations.requests \in Seq(DelegationRecords) /\ DOMAIN delegations.requests = {}
  BY <1>3, EmptySeq, LenProperties
<1>5. KeepVersions \in Nat /\ MaxOrgChanges \in Nat
  BY DEF OrgAssumption
<1>6. QED
  BY <1>1, <1>2, <1>3, <1>4, <1>5 DEF OrgInv, Orphanless, Applied

(* The last KeepVersions versions stay, the new one among them.            *)
LEMMA Persisted ==
  ASSUME OrgAssumption, orgVersions \in Seq(Blueprints), Len(orgVersions) <= KeepVersions,
         NEW made, Orphanless(orgVersions, made),
         NEW b \in Blueprints, Sound(b, made)
  PROVE  /\ ObPersist(b) \in Seq(Blueprints) /\ Len(ObPersist(b)) <= KeepVersions
         /\ Orphanless(ObPersist(b), made)
<1> DEFINE all == Append(orgVersions, b)
<1>1. KeepVersions \in Nat \ {0}
  BY DEF OrgAssumption
<1>2. /\ all \in Seq(Blueprints) /\ Len(all) = Len(orgVersions) + 1
      /\ \A i \in 1..Len(orgVersions) : all[i] = orgVersions[i]
      /\ all[Len(orgVersions) + 1] = b
  BY AppendProperties
<1>3. Len(orgVersions) \in Nat /\ DOMAIN orgVersions = 1..Len(orgVersions) /\ DOMAIN all = 1..Len(all)
  BY <1>2, LenProperties
<1> HIDE DEF all
<1>4. ASSUME NEW i \in DOMAIN all PROVE Sound(all[i], made)
  <2>1. CASE i \in 1..Len(orgVersions)
    BY <1>2, <1>3, <2>1 DEF Orphanless
  <2>2. CASE i = Len(orgVersions) + 1
    BY <1>2, <2>2
  <2>3. QED
    BY <1>2, <1>3, <2>1, <2>2
<1>5. CASE Len(all) > KeepVersions
  <2>1. ObPersist(b) = Tail(all)
    BY <1>5 DEF ObPersist, all
  <2>2. all # <<>>
    BY <1>2, <1>3, EmptySeq
  <2>3. /\ Tail(all) \in Seq(Blueprints) /\ Len(Tail(all)) = Len(all) - 1
        /\ \A i \in 1..Len(Tail(all)) : Tail(all)[i] = all[i + 1]
    BY <1>2, <2>2, HeadTailProperties
  <2>4. DOMAIN Tail(all) = 1..Len(Tail(all))
    BY <2>3, LenProperties
  <2>5. \A i \in DOMAIN Tail(all) : i + 1 \in DOMAIN all
    BY <1>2, <1>3, <2>3, <2>4
  <2>6. QED
    BY <1>1, <1>2, <1>3, <1>4, <2>1, <2>3, <2>4, <2>5 DEF Orphanless
<1>6. CASE ~(Len(all) > KeepVersions)
  <2>1. ObPersist(b) = all
    BY <1>6 DEF ObPersist, all
  <2>2. QED
    BY <1>1, <1>2, <1>3, <1>4, <1>6, <2>1 DEF Orphanless
<1>7. QED
  BY <1>5, <1>6

LEMMA LatestIsSound ==
  ASSUME OrgInv, HasBlueprint
  PROVE  ObLatest \in Blueprints /\ Sound(ObLatest, delegated)
<1>1. Len(orgVersions) \in 1..Len(orgVersions) /\ DOMAIN orgVersions = 1..Len(orgVersions)
  BY EmptySeq, LenProperties DEF OrgInv, HasBlueprint
<1>2. QED
  BY <1>1, ElementOfSeq DEF OrgInv, Orphanless, ObLatest

(* The fields of a blueprint and of a unit. *)
LEMMA BlueprintFields ==
  ASSUME NEW b \in Blueprints
  PROVE  /\ b = [chairs |-> b.chairs, departments |-> b.departments, teams |-> b.teams,
                 autoApprove |-> b.autoApprove]
         /\ b.chairs \in Seq(ChairRecords) /\ b.departments \in Seq(DepartmentRecords)
         /\ b.teams \in Seq(TeamRecords) /\ b.autoApprove \in BOOLEAN
         /\ \A i \in DOMAIN b.chairs : b.chairs[i] \in ChairRecords
         /\ \A i \in DOMAIN b.departments : b.departments[i] \in DepartmentRecords
         /\ \A i \in DOMAIN b.teams : b.teams[i] \in TeamRecords
<1>1. /\ b = [chairs |-> b.chairs, departments |-> b.departments, teams |-> b.teams,
              autoApprove |-> b.autoApprove]
      /\ b.chairs \in Seq(ChairRecords) /\ b.departments \in Seq(DepartmentRecords)
      /\ b.teams \in Seq(TeamRecords) /\ b.autoApprove \in BOOLEAN
  BY DEF Blueprints
<1>2. QED
  BY <1>1, ElementOfSeq, LenProperties

(* A version made of the latest.                                           *)
LEMMA ReviseKeeps ==
  ASSUME OrgAssumption, OrgInv, NEW b \in Blueprints, Sound(b, delegated), Revise(b)
  PROVE  OrgInv'
<1>1. /\ orgVersions' = ObPersist(b) /\ delegations' = delegations /\ delegated' = delegated
      /\ orgChanges < MaxOrgChanges /\ orgChanges' = orgChanges + 1
  BY DEF Revise, OrgChange
<1>2. /\ ObPersist(b) \in Seq(Blueprints) /\ Len(ObPersist(b)) <= KeepVersions
      /\ Orphanless(ObPersist(b), delegated)
  BY Persisted DEF OrgInv
<1>3. MaxOrgChanges \in Nat
  BY DEF OrgAssumption
<1>4. orgChanges' \in 0..MaxOrgChanges
  BY <1>1, <1>3 DEF OrgInv
<1>5. QED
  BY <1>1, <1>2, <1>4 DEF OrgInv

(* A blueprint with other units whose chairs it has, or whose units came   *)
(* from a delegation, is sound.                                            *)
LEMMA SoundIf ==
  ASSUME NEW b \in Blueprints, NEW made,
         \A i \in DOMAIN b.departments : Seated(b, made, b.departments[i]),
         \A i \in DOMAIN b.teams : Seated(b, made, b.teams[i])
  PROVE  Sound(b, made)
  BY DEF Sound

(* A list with one element more. *)
LEMMA OneMore ==
  ASSUME NEW S, NEW list \in Seq(S), NEW x \in S
  PROVE  /\ Append(list, x) \in Seq(S)
         /\ \A i \in DOMAIN Append(list, x) :
              Append(list, x)[i] = x \/ \E j \in DOMAIN list : Append(list, x)[i] = list[j]
         /\ \A j \in DOMAIN list : j \in DOMAIN Append(list, x) /\ Append(list, x)[j] = list[j]
         /\ \E i \in DOMAIN Append(list, x) : Append(list, x)[i] = x
<1>1. /\ Append(list, x) \in Seq(S) /\ Len(Append(list, x)) = Len(list) + 1
      /\ \A i \in 1..Len(list) : Append(list, x)[i] = list[i]
      /\ Append(list, x)[Len(list) + 1] = x
  BY AppendProperties
<1>2. Len(list) \in Nat /\ DOMAIN list = 1..Len(list) /\ DOMAIN Append(list, x) = 1..Len(Append(list, x))
  BY <1>1, LenProperties
<1>3. QED
  BY <1>1, <1>2

LEMMA ChairsGrow ==
  ASSUME NEW b \in Blueprints, NEW chairs \in Seq(ChairRecords), NEW made, Sound(b, made),
         Ids(b.chairs) \subseteq Ids(chairs)
  PROVE  /\ [b EXCEPT !.chairs = chairs] \in Blueprints
         /\ Sound([b EXCEPT !.chairs = chairs], made)
<1> DEFINE new == [b EXCEPT !.chairs = chairs]
<1>1. new = [chairs |-> chairs, departments |-> b.departments, teams |-> b.teams,
             autoApprove |-> b.autoApprove]
  BY BlueprintFields
<1>2. new \in Blueprints
  BY <1>1, BlueprintFields DEF Blueprints
<1>3. new.chairs = chairs /\ new.departments = b.departments /\ new.teams = b.teams
  BY <1>1
<1> HIDE DEF new
<1>4. Sound(new, made)
  BY <1>3 DEF Sound, Seated
<1>5. QED
  BY <1>2, <1>4 DEF new

LEMMA AddChairKeeps ==
  ASSUME OrgAssumption, OrgInv, NEW id \in ChairIds, NEW status \in {"active", "paused"},
         AddChair(id, id[1], status)
  PROVE  OrgInv'
<1> DEFINE c == NewChair(id, id[1], status)
           chairs == Append(ObLatest.chairs, c)
<1>1. HasBlueprint /\ Revise([ObLatest EXCEPT !.chairs = chairs])
  BY DEF AddChair
<1>2. ObLatest \in Blueprints /\ Sound(ObLatest, delegated)
  BY <1>1, LatestIsSound
<1>3. PICK d \in OrgDomains, n \in 1..2 : id = <<d, n>>
  BY DEF ChairIds
<1>4. id \in ChairIdsEver /\ id[1] \in OrgDomains
  BY <1>3 DEF ChairIdsEver
<1>5. c \in ChairRecords
  BY <1>4 DEF NewChair, ChairRecords, OrgStatus
<1>6. ObLatest.chairs \in Seq(ChairRecords)
  BY <1>2, BlueprintFields
<1> HIDE DEF c
<1>7. chairs \in Seq(ChairRecords) /\ Ids(ObLatest.chairs) \subseteq Ids(chairs)
  BY <1>5, <1>6, OneMore DEF Ids
<1> HIDE DEF chairs
<1>8. [ObLatest EXCEPT !.chairs = chairs] \in Blueprints /\ Sound([ObLatest EXCEPT !.chairs = chairs], delegated)
  BY <1>2, <1>7, ChairsGrow
<1>9. QED
  BY <1>1, <1>8, ReviseKeeps

LEMMA PatchChairKeeps ==
  ASSUME OrgAssumption, OrgInv, NEW id \in ChairIds,
         NEW patch \in [{"status"} -> {"active", "retired"}] \cup [{"domain"} -> OrgDomains],
         PatchChair(id, patch)
  PROVE  OrgInv'
<1> DEFINE patched(c) == [f \in DOMAIN c |-> IF f \in DOMAIN patch THEN patch[f] ELSE c[f]]
           chairs == [i \in DOMAIN ObLatest.chairs |->
                        IF ObLatest.chairs[i].id = id THEN patched(ObLatest.chairs[i]) ELSE ObLatest.chairs[i]]
<1>1. HasBlueprint /\ Revise([ObLatest EXCEPT !.chairs = chairs])
  BY DEF PatchChair
<1>2. ObLatest \in Blueprints /\ Sound(ObLatest, delegated)
  BY <1>1, LatestIsSound
<1>3. /\ ObLatest.chairs \in Seq(ChairRecords)
      /\ \A i \in DOMAIN ObLatest.chairs : ObLatest.chairs[i] \in ChairRecords
  BY <1>2, BlueprintFields
<1>4. ASSUME NEW c \in ChairRecords PROVE patched(c) \in ChairRecords /\ patched(c).id = c.id
  <2>1. DOMAIN c = {"id", "domain", "status"} /\ c.id \in ChairIdsEver
        /\ c.domain \in OrgDomains \cup {"ops"} /\ c.status \in OrgStatus
    BY DEF ChairRecords
  <2>2. PICK domain \in OrgDomains \cup {"ops"}, status \in OrgStatus :
          /\ domain = IF "domain" \in DOMAIN patch THEN patch["domain"] ELSE c.domain
          /\ status = IF "status" \in DOMAIN patch THEN patch["status"] ELSE c.status
    BY <2>1 DEF OrgStatus
  <2>3. "id" \notin DOMAIN patch
    OBVIOUS
  <2>4. patched(c) = [id |-> c.id, domain |-> domain, status |-> status]
    BY <2>1, <2>2, <2>3
  <2>5. QED
    BY <2>1, <2>4 DEF ChairRecords
<1> HIDE DEF patched
<1>5. /\ \A i \in DOMAIN ObLatest.chairs : chairs[i] \in ChairRecords /\ chairs[i].id = ObLatest.chairs[i].id
      /\ DOMAIN chairs = DOMAIN ObLatest.chairs
  BY <1>3, <1>4
<1> HIDE DEF chairs
<1>6. chairs \in Seq(ChairRecords)
  <2>1. DOMAIN ObLatest.chairs = 1..Len(ObLatest.chairs) /\ Len(ObLatest.chairs) \in Nat
    BY <1>3, LenProperties
  <2>2. chairs = [i \in 1..Len(ObLatest.chairs) |-> chairs[i]]
    BY <1>5, <2>1 DEF chairs
  <2>3. chairs \in [1..Len(ObLatest.chairs) -> ChairRecords]
    BY <1>5, <2>1, <2>2
  <2>4. QED
    BY <2>1, <2>3, SeqDef
<1>7. Ids(ObLatest.chairs) \subseteq Ids(chairs)
  BY <1>5 DEF Ids
<1>8. [ObLatest EXCEPT !.chairs = chairs] \in Blueprints /\ Sound([ObLatest EXCEPT !.chairs = chairs], delegated)
  BY <1>2, <1>6, <1>7, ChairsGrow
<1>9. QED
  BY <1>1, <1>8, ReviseKeeps

LEMMA DeleteChairKeeps ==
  ASSUME OrgAssumption, OrgInv, NEW id \in ChairIds, NEW cascade \in BOOLEAN, DeleteChair(id, cascade)
  PROVE  OrgInv'
<1> DEFINE b == ObLatest
           others == DOMAIN b.chairs \ ById(b.chairs, id)
           chairs == Kept(b.chairs, others)
           depts == {i \in DOMAIN b.departments : b.departments[i].chair # id}
           departments == IF cascade THEN Kept(b.departments, depts) ELSE b.departments
           groups == {i \in DOMAIN b.teams : ~UnderChair(b, id, b.teams[i])}
           teams == IF cascade THEN Kept(b.teams, groups) ELSE b.teams
           new == [chairs |-> chairs, departments |-> departments, teams |-> teams,
                   autoApprove |-> b.autoApprove]
<1>1. HasBlueprint /\ (cascade \/ ~LinkedUnits(b, id))
  BY DEF DeleteChair
<1>2. b \in Blueprints /\ Sound(b, delegated)
  BY <1>1, LatestIsSound
<1>3. /\ b = [chairs |-> b.chairs, departments |-> b.departments, teams |-> b.teams,
              autoApprove |-> b.autoApprove]
      /\ b.chairs \in Seq(ChairRecords) /\ b.departments \in Seq(DepartmentRecords)
      /\ b.teams \in Seq(TeamRecords) /\ b.autoApprove \in BOOLEAN
  BY <1>2, BlueprintFields
<1>4. Revise(new)
  BY DEF DeleteChair
<1> HIDE DEF chairs, departments, teams, b
<1>8. others \in SUBSET DOMAIN b.chairs /\ depts \in SUBSET DOMAIN b.departments /\ groups \in SUBSET DOMAIN b.teams
  OBVIOUS
<1>a. \A i \in groups : b.teams[i].chair # id
  BY DEF UnderChair
<1>b. \A i \in depts : b.departments[i].chair # id
  OBVIOUS
<1>c. \A c : c \in Ids(b.chairs) /\ c # id => \E i \in others : b.chairs[i].id = c
  BY DEF Ids, ById
<1>d. (\A i \in DOMAIN b.departments : b.departments[i].chair # id) => depts = DOMAIN b.departments
  OBVIOUS
<1>e. (\A i \in DOMAIN b.teams : ~UnderChair(b, id, b.teams[i])) => groups = DOMAIN b.teams
  OBVIOUS
<1> HIDE DEF others, depts, groups
<1>9. chairs \in Seq(ChairRecords) /\ \A i \in others : \E k \in DOMAIN chairs : chairs[k] = b.chairs[i]
  BY <1>3, <1>8, KeptElements DEF chairs
<1>10. /\ departments \in Seq(DepartmentRecords)
       /\ \A k \in DOMAIN departments : \E i \in depts : departments[k] = b.departments[i]
  <2>1. CASE cascade
    BY <1>3, <1>8, <2>1, KeptElements DEF departments
  <2>2. CASE ~cascade
    <3>1. \A i \in DOMAIN b.departments : b.departments[i].chair # id
      BY <1>1, <2>2 DEF LinkedUnits, Depts
    <3>2. QED
      BY <1>3, <1>d, <2>2, <3>1 DEF departments
  <2>3. QED
    BY <2>1, <2>2
<1>11. /\ teams \in Seq(TeamRecords)
       /\ \A k \in DOMAIN teams : \E i \in groups : teams[k] = b.teams[i]
  <2>1. CASE cascade
    BY <1>3, <1>8, <2>1, KeptElements DEF teams
  <2>2. CASE ~cascade
    <3>1. \A i \in DOMAIN b.teams : ~UnderChair(b, id, b.teams[i])
      BY <1>1, <2>2 DEF LinkedUnits
    <3>2. QED
      BY <1>3, <1>e, <2>2, <3>1 DEF teams
  <2>3. QED
    BY <2>1, <2>2
<1>12. ASSUME NEW c, c \in Ids(b.chairs), c # id PROVE c \in Ids(chairs)
  <2>1. PICK i \in others : b.chairs[i].id = c
    BY <1>c, <1>12
  <2>2. PICK k \in DOMAIN chairs : chairs[k] = b.chairs[i]
    BY <1>9
  <2>3. QED
    BY <2>1, <2>2 DEF Ids
<1>13. new \in Blueprints
  BY <1>3, <1>9, <1>10, <1>11 DEF Blueprints
<1>14. ASSUME NEW k \in DOMAIN departments PROVE Seated(new, delegated, departments[k])
  <2>1. PICK i \in depts : departments[k] = b.departments[i]
    BY <1>10
  <2>2. Seated(b, delegated, b.departments[i]) /\ b.departments[i].chair # id
    BY <1>2, <1>8, <1>b DEF Sound
  <2>3. QED
    BY <1>12, <2>1, <2>2 DEF Seated
<1>15. ASSUME NEW k \in DOMAIN teams PROVE Seated(new, delegated, teams[k])
  <2>1. PICK i \in groups : teams[k] = b.teams[i]
    BY <1>11
  <2>2. Seated(b, delegated, b.teams[i]) /\ b.teams[i].chair # id
    BY <1>2, <1>8, <1>a DEF Sound
  <2>3. QED
    BY <1>12, <2>1, <2>2 DEF Seated
<1>16. new.departments = departments /\ new.teams = teams
  OBVIOUS
<1> HIDE DEF new
<1>17. Sound(new, delegated)
  BY <1>14, <1>15, <1>16 DEF Sound
<1>18. QED
  BY <1>4, <1>13, <1>17, ReviseKeeps

(* A list made of another, place by place. *)
LEMMA PlaceByPlace ==
  ASSUME NEW S, NEW T, NEW list \in Seq(S), NEW new, DOMAIN new = DOMAIN list,
         new = [i \in DOMAIN list |-> new[i]], \A i \in DOMAIN list : new[i] \in T
  PROVE  new \in Seq(T)
<1>1. DOMAIN list = 1..Len(list) /\ Len(list) \in Nat
  BY LenProperties
<1>2. new \in [1..Len(list) -> T]
  BY <1>1
<1>3. QED
  BY <1>1, <1>2, SeqDef

LEMMA KnownTypes ==
  ASSUME NEW id \in ChairIds
  PROVE  /\ id \in ChairIdsEver
         /\ UnitIds \subseteq KnownUnits /\ OrgDomains \subseteq KnownUnits
<1>1. id \in ChairIdsEver
  BY DEF ChairIds, ChairIdsEver
<1>2. QED
  BY <1>1 DEF KnownUnits

(* A department more: its chair is on file, or it came from a delegation. *)
LEMMA DepartmentAdded ==
  ASSUME NEW b \in Blueprints, NEW made, Sound(b, made), NEW id \in UnitIds, NEW chair \in ChairIds,
         chair \in Ids(b.chairs) \/ id \in made
  PROVE  /\ [b EXCEPT !.departments = Append(@, NewDepartment(id, chair))] \in Blueprints
         /\ Sound([b EXCEPT !.departments = Append(@, NewDepartment(id, chair))], made)
<1> DEFINE d == NewDepartment(id, chair)
           departments == Append(b.departments, d)
           new == [b EXCEPT !.departments = departments]
<1>1. d \in DepartmentRecords /\ d.id = id /\ d.chair = chair
  BY KnownTypes DEF NewDepartment, DepartmentRecords, OrgStatus
<1> HIDE DEF d
<1>2. /\ departments \in Seq(DepartmentRecords)
      /\ \A i \in DOMAIN departments : departments[i] = d \/ \E j \in DOMAIN b.departments :
                                                               departments[i] = b.departments[j]
  <2>1. b.departments \in Seq(DepartmentRecords)
    BY BlueprintFields
  <2>2. QED
    BY <1>1, <2>1, OneMore
<1> HIDE DEF departments
<1>3. new = [chairs |-> b.chairs, departments |-> departments, teams |-> b.teams,
             autoApprove |-> b.autoApprove]
  <2>1. b = [chairs |-> b.chairs, departments |-> b.departments, teams |-> b.teams,
             autoApprove |-> b.autoApprove]
    BY BlueprintFields
  <2>2. QED
    BY <2>1
<1>4. new \in Blueprints
  BY <1>2, <1>3, BlueprintFields DEF Blueprints
<1>5. new.chairs = b.chairs /\ new.departments = departments /\ new.teams = b.teams
  BY <1>3
<1> HIDE DEF new
<1>6. Sound(new, made)
  BY <1>1, <1>2, <1>5 DEF Sound, Seated
<1>7. QED
  BY <1>4, <1>6 DEF new, departments, d

LEMMA TeamAdded ==
  ASSUME NEW b \in Blueprints, NEW made, Sound(b, made), NEW id \in UnitIds, NEW chair \in ChairIds,
         NEW dept \in UnitDomains, chair \in Ids(b.chairs) \/ id \in made
  PROVE  /\ WithTeam(b, id, dept, chair) \in Blueprints
         /\ Sound(WithTeam(b, id, dept, chair), made)
<1> DEFINE t == [id |-> id, dept |-> dept, chair |-> chair, status |-> "active"]
           teams == Append(b.teams, t)
           listed(d) == IF d.id = dept THEN [d EXCEPT !.teams = @ \cup {id}] ELSE d
           departments == [i \in DOMAIN b.departments |-> listed(b.departments[i])]
           new == WithTeam(b, id, dept, chair)
<1>1. new = [chairs |-> b.chairs, departments |-> departments, teams |-> teams, autoApprove |-> b.autoApprove]
  BY DEF WithTeam
<1>2. t \in TeamRecords /\ t.id = id /\ t.chair = chair
  BY KnownTypes DEF TeamRecords, OrgStatus
<1> HIDE DEF t, new
<1>3. /\ teams \in Seq(TeamRecords)
      /\ \A i \in DOMAIN teams : teams[i] = t \/ \E j \in DOMAIN b.teams : teams[i] = b.teams[j]
  <2>1. b.teams \in Seq(TeamRecords)
    BY BlueprintFields
  <2>2. QED
    BY <1>2, <2>1, OneMore
<1>4. ASSUME NEW d \in DepartmentRecords
      PROVE  listed(d) \in DepartmentRecords /\ listed(d).id = d.id /\ listed(d).chair = d.chair
  <2>1. /\ d = [id |-> d.id, chair |-> d.chair, status |-> d.status, teams |-> d.teams]
        /\ d.id \in KnownUnits /\ d.chair \in ChairIdsEver /\ d.status \in OrgStatus /\ d.teams \subseteq KnownUnits
    BY DEF DepartmentRecords
  <2>2. PICK more : more = d.teams \cup {id}
    OBVIOUS
  <2>3. more \in SUBSET KnownUnits
    BY <2>1, <2>2, KnownTypes
  <2>4. [d EXCEPT !.teams = @ \cup {id}] = [id |-> d.id, chair |-> d.chair, status |-> d.status, teams |-> more]
    BY <2>1, <2>2
  <2>5. [id |-> d.id, chair |-> d.chair, status |-> d.status, teams |-> more] \in DepartmentRecords
    BY <2>1, <2>3 DEF DepartmentRecords
  <2>6. QED
    BY <2>4, <2>5
<1> HIDE DEF listed, teams
<1>5. /\ DOMAIN departments = DOMAIN b.departments
      /\ \A i \in DOMAIN b.departments :
           /\ departments[i] \in DepartmentRecords
           /\ departments[i].id = b.departments[i].id
           /\ departments[i].chair = b.departments[i].chair
  BY <1>4, BlueprintFields
<1>6. departments = [i \in DOMAIN b.departments |-> departments[i]]
  OBVIOUS
<1> HIDE DEF departments
<1>7. departments \in Seq(DepartmentRecords)
  BY <1>5, <1>6, BlueprintFields, PlaceByPlace
<1>8. new \in Blueprints
  BY <1>1, <1>3, <1>7, BlueprintFields DEF Blueprints
<1>9. new.chairs = b.chairs /\ new.departments = departments /\ new.teams = teams
  BY <1>1
<1>10. Sound(new, made)
  BY <1>2, <1>3, <1>5, <1>9 DEF Sound, Seated
<1>11. QED
  BY <1>8, <1>10 DEF new

LEMMA UnitsOfChairs ==
  ASSUME OrgAssumption, OrgInv, NEW id \in UnitIds, NEW chair \in ChairIds
  PROVE  /\ AddDepartment(id, chair) => OrgInv'
         /\ \A dept \in OrgDomains \cup UnitIds : AddTeam(id, dept, chair) => OrgInv'
<1>1. ASSUME AddDepartment(id, chair) PROVE OrgInv'
  <2>1. /\ HasBlueprint /\ ById(ObLatest.chairs, chair) # {}
        /\ Revise([ObLatest EXCEPT !.departments = Append(@, NewDepartment(id, chair))])
    BY <1>1 DEF AddDepartment
  <2>2. ObLatest \in Blueprints /\ Sound(ObLatest, delegated) /\ chair \in Ids(ObLatest.chairs)
    BY <2>1, LatestIsSound DEF ById, Ids
  <2>3. QED
    BY <2>1, <2>2, DepartmentAdded, ReviseKeeps
<1>2. ASSUME NEW dept \in OrgDomains \cup UnitIds, AddTeam(id, dept, chair) PROVE OrgInv'
  <2>1. /\ HasBlueprint /\ ById(ObLatest.chairs, chair) # {}
        /\ Revise(WithTeam(ObLatest, id, dept, chair))
    BY <1>2 DEF AddTeam
  <2>2. ObLatest \in Blueprints /\ Sound(ObLatest, delegated) /\ chair \in Ids(ObLatest.chairs)
    BY <2>1, LatestIsSound DEF ById, Ids
  <2>3. dept \in UnitDomains
    BY DEF UnitDomains
  <2>4. QED
    BY <2>1, <2>2, <2>3, TeamAdded, ReviseKeeps
<1>3. QED
  BY <1>1, <1>2

StatusOnly(S, u, status) ==
    /\ [u EXCEPT !.status = status] \in S
    /\ [u EXCEPT !.status = status].id = u.id
    /\ [u EXCEPT !.status = status].chair = u.chair

LEMMA StatusSet ==
  ASSUME NEW S, NEW units \in Seq(S), NEW id, NEW status,
         \A u \in S : StatusOnly(S, u, status)
  PROVE  /\ UnitStatus(units, id, status) \in Seq(S)
         /\ DOMAIN UnitStatus(units, id, status) = DOMAIN units
         /\ \A i \in DOMAIN units : /\ UnitStatus(units, id, status)[i].id = units[i].id
                                    /\ UnitStatus(units, id, status)[i].chair = units[i].chair
<1> DEFINE new == UnitStatus(units, id, status)
<1>1. new = [i \in DOMAIN units |-> IF units[i].id = id THEN [units[i] EXCEPT !.status = status] ELSE units[i]]
  BY DEF UnitStatus
<1>2. DOMAIN new = DOMAIN units /\ new = [i \in DOMAIN units |-> new[i]]
  BY <1>1
<1>3. ASSUME NEW i \in DOMAIN units
      PROVE  new[i] \in S /\ new[i].id = units[i].id /\ new[i].chair = units[i].chair
  <2>1. units[i] \in S
    BY ElementOfSeq, LenProperties
  <2>2. new[i] = IF units[i].id = id THEN [units[i] EXCEPT !.status = status] ELSE units[i]
    BY <1>1
  <2>3. QED
    BY <2>1, <2>2 DEF StatusOnly
<1> HIDE DEF new
<1>4. new \in Seq(S)
  BY <1>2, <1>3, PlaceByPlace
<1>5. QED
  BY <1>2, <1>3, <1>4 DEF new

LEMMA SetUnitStatusKeeps ==
  ASSUME OrgAssumption, OrgInv, NEW id, SetUnitStatus(id, "paused")
  PROVE  OrgInv'
<1>1. HasBlueprint
  BY DEF SetUnitStatus
<1>2. ObLatest \in Blueprints /\ Sound(ObLatest, delegated)
  BY <1>1, LatestIsSound
<1>3. PICK b : b = ObLatest
  OBVIOUS
<1>4. b \in Blueprints /\ Sound(b, delegated)
  BY <1>2, <1>3
<1>5. /\ b = [chairs |-> b.chairs, departments |-> b.departments, teams |-> b.teams,
              autoApprove |-> b.autoApprove]
      /\ b.chairs \in Seq(ChairRecords) /\ b.departments \in Seq(DepartmentRecords)
      /\ b.teams \in Seq(TeamRecords) /\ b.autoApprove \in BOOLEAN
  BY <1>4, BlueprintFields
<1>6. \A u \in DepartmentRecords : StatusOnly(DepartmentRecords, u, "paused")
  BY DEF StatusOnly, DepartmentRecords, OrgStatus
<1>7. \A u \in TeamRecords : StatusOnly(TeamRecords, u, "paused")
  BY DEF StatusOnly, TeamRecords, OrgStatus
<1>8. CASE Revise([b EXCEPT !.departments = UnitStatus(@, id, "paused")])
  <2>1. PICK departments : departments = UnitStatus(b.departments, id, "paused")
    OBVIOUS
  <2>2. /\ departments \in Seq(DepartmentRecords) /\ DOMAIN departments = DOMAIN b.departments
        /\ \A i \in DOMAIN b.departments : /\ departments[i].id = b.departments[i].id
                                           /\ departments[i].chair = b.departments[i].chair
    BY <1>5, <1>6, <2>1, StatusSet
  <2>3. PICK new : new = [b EXCEPT !.departments = departments]
    OBVIOUS
  <2>4. new = [chairs |-> b.chairs, departments |-> departments, teams |-> b.teams, autoApprove |-> b.autoApprove]
    BY <1>5, <2>3
  <2>5. new \in Blueprints
    BY <1>5, <2>2, <2>4 DEF Blueprints
  <2>6. Sound(new, delegated)
    BY <1>4, <2>2, <2>4 DEF Sound, Seated
  <2>7. Revise(new)
    BY <1>8, <2>1, <2>3
  <2>8. QED
    BY <2>5, <2>6, <2>7, ReviseKeeps
<1>9. CASE Revise([b EXCEPT !.teams = UnitStatus(@, id, "paused")])
  <2>1. PICK teams : teams = UnitStatus(b.teams, id, "paused")
    OBVIOUS
  <2>2. /\ teams \in Seq(TeamRecords) /\ DOMAIN teams = DOMAIN b.teams
        /\ \A i \in DOMAIN b.teams : teams[i].id = b.teams[i].id /\ teams[i].chair = b.teams[i].chair
    BY <1>5, <1>7, <2>1, StatusSet
  <2>3. PICK new : new = [b EXCEPT !.teams = teams]
    OBVIOUS
  <2>4. new = [chairs |-> b.chairs, departments |-> b.departments, teams |-> teams, autoApprove |-> b.autoApprove]
    BY <1>5, <2>3
  <2>5. new \in Blueprints
    BY <1>5, <2>2, <2>4 DEF Blueprints
  <2>6. Sound(new, delegated)
    BY <1>4, <2>2, <2>4 DEF Sound, Seated
  <2>7. Revise(new)
    BY <1>9, <2>1, <2>3
  <2>8. QED
    BY <2>5, <2>6, <2>7, ReviseKeeps
<1>10. QED
  BY <1>3, <1>8, <1>9 DEF SetUnitStatus

LEMMA SetScopesKeeps ==
  ASSUME OrgAssumption, OrgInv, NEW auto \in BOOLEAN, SetScopes(auto)
  PROVE  OrgInv'
<1>1. HasBlueprint /\ Revise([ObLatest EXCEPT !.autoApprove = auto])
  BY DEF SetScopes
<1>2. PICK b : b = ObLatest
  OBVIOUS
<1>3. b \in Blueprints /\ Sound(b, delegated)
  BY <1>1, <1>2, LatestIsSound
<1>4. PICK new : new = [b EXCEPT !.autoApprove = auto]
  OBVIOUS
<1>5. new = [chairs |-> b.chairs, departments |-> b.departments, teams |-> b.teams, autoApprove |-> auto]
  BY <1>3, <1>4, BlueprintFields
<1>6. new \in Blueprints
  BY <1>3, <1>5, BlueprintFields DEF Blueprints
<1>7. Sound(new, delegated)
  BY <1>3, <1>5 DEF Sound, Seated
<1>8. QED
  BY <1>1, <1>2, <1>4, <1>6, <1>7, ReviseKeeps

LEMMA RollbackKeeps ==
  ASSUME OrgAssumption, OrgInv, NEW version \in DOMAIN orgVersions, Rollback(version)
  PROVE  OrgInv'
<1>1. orgVersions[version] \in Blueprints /\ Sound(orgVersions[version], delegated)
  BY ElementOfSeq, LenProperties DEF OrgInv, Orphanless
<1>2. QED
  BY <1>1, ReviseKeeps DEF Rollback

(* A unit that a delegation makes is remembered as one.                    *)
LEMMA Remembered ==
  ASSUME NEW made, NEW more, made \subseteq more
  PROVE  /\ \A b : Sound(b, made) => Sound(b, more)
         /\ \A versions : Orphanless(versions, made) => Orphanless(versions, more)
         /\ \A requests : Applied(requests, made) => Applied(requests, more)
<1>1. \A b : Sound(b, made) => Sound(b, more)
  BY DEF Sound, Seated
<1>2. QED
  BY <1>1 DEF Orphanless, Applied

LEMMA ObApplied ==
  ASSUME NEW b \in Blueprints, NEW made, Sound(b, made), NEW request \in DelegationRecords
  PROVE  /\ ObApply(b, request) \in Blueprints
         /\ Sound(ObApply(b, request), made \cup {request.unit})
<1>1. /\ request.unit \in UnitIds /\ request.chair \in ChairIds /\ request.dept \in UnitDomains
  BY DEF DelegationRecords
<1>2. Sound(b, made \cup {request.unit})
  BY Remembered
<1>3. QED
  BY <1>1, <1>2, DepartmentAdded, TeamAdded DEF ObApply

(* An approval: the blueprint first, then the queue. *)
LEMMA ApprovalKeeps ==
  ASSUME OrgAssumption, OrgInv, HasBlueprint, OrgChange, NEW request \in DelegationRecords,
         NEW requests \in Seq(DelegationRecords), Applied(requests, delegated \cup {request.unit}),
         NEW done \in 0..2, PersistApproval(done, ObApply(ObLatest, request), requests, request.unit)
  PROVE  OrgInv'
<1> DEFINE more == delegated \cup {request.unit}
<1>1. orgChanges < MaxOrgChanges /\ orgChanges' = orgChanges + 1
  BY DEF OrgChange
<1>2. orgChanges' \in 0..MaxOrgChanges
  BY <1>1 DEF OrgInv, OrgAssumption
<1>3. ObLatest \in Blueprints /\ Sound(ObLatest, delegated)
  BY LatestIsSound
<1>4. PICK b : b = ObApply(ObLatest, request)
  OBVIOUS
<1>5. b \in Blueprints /\ Sound(b, more)
  BY <1>3, <1>4, ObApplied
<1>6. Orphanless(orgVersions, more) /\ Applied(delegations.requests, more)
  BY Remembered DEF OrgInv
<1>7. /\ ObPersist(b) \in Seq(Blueprints) /\ Len(ObPersist(b)) <= KeepVersions
      /\ Orphanless(ObPersist(b), more)
  BY <1>5, <1>6, Persisted DEF OrgInv
<1>8. CASE done = 0
  <2>1. orgVersions' = orgVersions /\ delegations' = delegations /\ delegated' = delegated
    BY <1>8 DEF PersistApproval, writeJsonAtomic
  <2>2. QED
    BY <1>2, <2>1 DEF OrgInv
<1>9. CASE done = 1
  <2>1. orgVersions' = ObPersist(b) /\ delegations' = delegations /\ delegated' = more
    BY <1>4, <1>9 DEF PersistApproval, writeJsonAtomic
  <2>2. QED
    BY <1>2, <1>6, <1>7, <2>1 DEF OrgInv
<1>10. CASE done = 2
  <2>1. /\ orgVersions' = ObPersist(b) /\ delegated' = more
        /\ delegations' = [delegations EXCEPT !.requests = requests]
    BY <1>4, <1>10 DEF PersistApproval, writeJsonAtomic
  <2>2. delegations'.requests = requests /\ DOMAIN delegations' = {"ready", "requests"}
    BY <2>1 DEF OrgInv
  <2>3. QED
    BY <1>2, <1>7, <2>1, <2>2 DEF OrgInv
<1>11. QED
  BY <1>8, <1>9, <1>10

(* A request at the head of the queue. *)
LEMMA Queued ==
  ASSUME OrgInv, NEW request \in DelegationRecords, NEW more, delegated \subseteq more,
         request.status = "approved" => request.unit \in more
  PROVE  /\ <<request>> \o delegations.requests \in Seq(DelegationRecords)
         /\ Applied(<<request>> \o delegations.requests, more)
<1> DEFINE old == delegations.requests
           new == <<request>> \o old
<1>1. /\ <<request>> \in Seq(DelegationRecords) /\ Len(<<request>>) = 1 /\ <<request>>[1] = request
      /\ old \in Seq(DelegationRecords) /\ Applied(old, more)
  <2>1. old \in Seq(DelegationRecords) /\ Applied(old, delegated)
    BY DEF OrgInv
  <2>2. Applied(old, more)
    BY <2>1, Remembered
  <2>3. QED
    BY <2>1, <2>2
<1> HIDE DEF old
<1>2. /\ new \in Seq(DelegationRecords) /\ Len(new) = 1 + Len(old)
      /\ \A i \in 1..(1 + Len(old)) : new[i] = IF i <= 1 THEN <<request>>[i] ELSE old[i - 1]
  BY <1>1, ConcatProperties
<1>3. DOMAIN new = 1..Len(new) /\ DOMAIN old = 1..Len(old) /\ Len(old) \in Nat
  BY <1>1, <1>2, LenProperties
<1> HIDE DEF new
<1>4. ASSUME NEW i \in DOMAIN new, new[i].status = "approved" PROVE new[i].unit \in more
  <2>1. CASE i = 1
    BY <1>1, <1>2, <1>3, <1>4, <2>1
  <2>2. CASE i - 1 \in DOMAIN old
    BY <1>1, <1>2, <1>3, <1>4, <2>2 DEF Applied
  <2>3. QED
    BY <1>2, <1>3, <2>1, <2>2
<1>5. QED
  BY <1>2, <1>4 DEF Applied, new, old

LEMMA DelegationTypes ==
  /\ \A request \in Requests("pending") :
       request \in DelegationRecords /\ request.status = "pending"
  /\ \A request \in DelegationRecords, status \in Settings :
       /\ [request EXCEPT !.status = status] \in DelegationRecords
       /\ [request EXCEPT !.status = status].status = status
       /\ [request EXCEPT !.status = status].unit = request.unit
       /\ [request EXCEPT !.status = status].chair = request.chair
<1>1. ASSUME NEW request \in Requests("pending")
      PROVE  request \in DelegationRecords /\ request.status = "pending"
  <2>1. request.dept \in UnitDomains
    BY DEF Requests, UnitDomains
  <2>2. QED
    BY <2>1 DEF Requests, DelegationRecords, Settings
<1>2. QED
  BY <1>1 DEF DelegationRecords

(* A request decided: approved when its unit is in the blueprint, rejected *)
(* at any time.                                                            *)
LEMMA DelegationDecided ==
  ASSUME OrgInv, NEW i \in DOMAIN delegations.requests, NEW status \in Settings, NEW more,
         delegated \subseteq more, status = "approved" => delegations.requests[i].unit \in more
  PROVE  /\ delegations.requests[i] \in DelegationRecords
         /\ [delegations.requests EXCEPT ![i].status = status] \in Seq(DelegationRecords)
         /\ Applied([delegations.requests EXCEPT ![i].status = status], more)
<1> DEFINE old == delegations.requests
           r == [old[i] EXCEPT !.status = status]
           new == [old EXCEPT ![i] = r]
<1>1. old \in Seq(DelegationRecords) /\ Applied(old, delegated) /\ i \in DOMAIN old
  BY DEF OrgInv
<1>2. Applied(old, more)
  BY <1>1, Remembered
<1>3. old[i] \in DelegationRecords
  BY <1>1, ElementOfSeq, LenProperties
<1>4. r \in DelegationRecords /\ r.status = status /\ r.unit = old[i].unit
  BY <1>3, DelegationTypes
<1>5. [old EXCEPT ![i].status = status] = new
  OBVIOUS
<1> HIDE DEF old, r
<1>6. new \in Seq(DelegationRecords) /\ DOMAIN new = DOMAIN old
  BY <1>1, <1>4, ExceptSeq, LenProperties
<1>7. \A j \in DOMAIN new : new[j] = IF j = i THEN r ELSE old[j]
  BY <1>1, <1>6
<1> HIDE DEF new
<1>8. ASSUME NEW j \in DOMAIN new, new[j].status = "approved" PROVE new[j].unit \in more
  <2>1. CASE j = i
    BY <1>4, <1>7, <1>8, <2>1 DEF old
  <2>2. CASE j # i
    BY <1>2, <1>6, <1>7, <1>8, <2>2 DEF Applied
  <2>3. QED
    BY <2>1, <2>2
<1>9. Applied(new, more)
  BY <1>8 DEF Applied
<1>10. QED
  BY <1>3, <1>5, <1>6, <1>9 DEF old

LEMMA DelegateKeeps ==
  ASSUME OrgAssumption, OrgInv, NEW request \in Requests("pending"), NEW manualOnly \in BOOLEAN,
         NEW done \in 0..2, Delegate(request, manualOnly, done)
  PROVE  OrgInv'
<1>1. /\ HasBlueprint /\ OrgChange
      /\ request \in DelegationRecords /\ request.status = "pending"
  BY DelegationTypes DEF Delegate
<1>2. CASE ObLatest.autoApprove /\ ~manualOnly
  <2>1. PICK r : r = [request EXCEPT !.status = "approved"]
    OBVIOUS
  <2>2. r \in DelegationRecords /\ r.unit = request.unit
    BY <1>1, <2>1, DelegationTypes DEF Settings
  <2>3. PersistApproval(done, ObApply(ObLatest, request), <<r>> \o delegations.requests, request.unit)
    BY <1>2, <2>1 DEF Delegate
  <2>4. /\ <<r>> \o delegations.requests \in Seq(DelegationRecords)
        /\ Applied(<<r>> \o delegations.requests, delegated \cup {request.unit})
    BY <2>2, Queued
  <2>5. QED
    BY <1>1, <2>3, <2>4, ApprovalKeeps
<1>3. CASE ~(ObLatest.autoApprove /\ ~manualOnly)
  <2>1. /\ delegations' = [ready |-> TRUE, requests |-> <<request>> \o delegations.requests]
        /\ UNCHANGED <<orgVersions, delegated>>
    BY <1>3 DEF Delegate
  <2>2. /\ <<request>> \o delegations.requests \in Seq(DelegationRecords)
        /\ Applied(<<request>> \o delegations.requests, delegated)
    BY <1>1, Queued
  <2>3. orgChanges' \in 0..MaxOrgChanges
    BY <1>1 DEF OrgChange, OrgInv, OrgAssumption
  <2>4. delegations'.requests = <<request>> \o delegations.requests /\ DOMAIN delegations' = {"ready", "requests"}
    BY <2>1
  <2>5. QED
    BY <2>1, <2>2, <2>3, <2>4 DEF OrgInv
<1>4. QED
  BY <1>2, <1>3

LEMMA ApproveDelegationKeeps ==
  ASSUME OrgAssumption, OrgInv, NEW i \in DOMAIN delegations.requests, NEW done \in 0..2,
         ApproveDelegation(i, done)
  PROVE  OrgInv'
<1>1. /\ HasBlueprint /\ OrgChange
      /\ PersistApproval(done, ObApply(ObLatest, delegations.requests[i]),
                         [delegations.requests EXCEPT ![i].status = "approved"], delegations.requests[i].unit)
  BY DEF ApproveDelegation
<1>2. PICK requests, request : /\ requests = [delegations.requests EXCEPT ![i].status = "approved"]
                               /\ request = delegations.requests[i]
  OBVIOUS
<1>3. PICK more : more = delegated \cup {request.unit}
  OBVIOUS
<1>4. /\ request \in DelegationRecords /\ requests \in Seq(DelegationRecords)
      /\ Applied(requests, more)
  <2>1. /\ delegations.requests[i] \in DelegationRecords
        /\ [delegations.requests EXCEPT ![i].status = "approved"] \in Seq(DelegationRecords)
        /\ Applied([delegations.requests EXCEPT ![i].status = "approved"], more)
    <3>1. "approved" \in Settings /\ delegated \subseteq more /\ delegations.requests[i].unit \in more
      BY <1>2, <1>3 DEF Settings
    <3>2. QED
      BY <3>1, DelegationDecided
  <2>2. QED
    BY <1>2, <2>1
<1>5. QED
  BY <1>1, <1>2, <1>3, <1>4, ApprovalKeeps

LEMMA RejectDelegationKeeps ==
  ASSUME OrgAssumption, OrgInv, NEW i \in DOMAIN delegations.requests, RejectDelegation(i)
  PROVE  OrgInv'
<1>1. /\ delegations' = [delegations EXCEPT !.requests[i].status = "rejected"]
      /\ UNCHANGED <<orgVersions, delegated>> /\ OrgChange
  BY DEF RejectDelegation
<1>2. PICK requests : requests = [delegations.requests EXCEPT ![i].status = "rejected"]
  OBVIOUS
<1>3. requests \in Seq(DelegationRecords) /\ Applied(requests, delegated)
  BY <1>2, DelegationDecided DEF Settings
<1>4. delegations' = [delegations EXCEPT !.requests = requests]
  BY <1>1, <1>2
<1>5. delegations'.requests = requests /\ DOMAIN delegations' = {"ready", "requests"}
  BY <1>4 DEF OrgInv
<1>6. orgChanges' \in 0..MaxOrgChanges
  BY <1>1 DEF OrgChange, OrgInv, OrgAssumption
<1>7. QED
  BY <1>1, <1>3, <1>5, <1>6 DEF OrgInv

-----------------------------------------------------------------------------
(* obToChairId finds a free number. *)
LEMMA ChairIdFound ==
  ASSUME NEW chairs \in Seq(ChairRecords), NEW d \in OrgDomains
  PROVE  ObToChairId(d, Ids(chairs)) \in ChairIdsEver
<1>1. PICK ids : ids = Ids(chairs)
  OBVIOUS
<1>2. IsFiniteSet(ids)
  <2>1. DOMAIN chairs = 1..Len(chairs) /\ Len(chairs) \in Nat
    BY LenProperties
  <2>2. IsFiniteSet(1..Len(chairs))
    BY <2>1, FS_Interval
  <2>3. [i \in 1..Len(chairs) |-> chairs[i].id] \in Surjection(1..Len(chairs), ids)
    BY <1>1, <2>1 DEF Ids, Surjection
  <2>4. QED
    BY <2>2, <2>3, FS_Surjection
<1>3. PICK limit \in Nat : limit = Cardinality(ids)
  BY <1>2, FS_CardinalityType
<1>4. PICK free : free = {n \in 1..(limit + 1) : <<d, n>> \notin ids}
  OBVIOUS
<1>5. free # {}
  <2>1. SUFFICES ASSUME \A n \in 1..(limit + 1) : <<d, n>> \in ids PROVE FALSE
    BY <1>3, <1>4
  <2>2. PICK ns : ns = [n \in 1..(limit + 1) |-> <<d, n>>]
    OBVIOUS
  <2>3. ns \in [1..(limit + 1) -> ids]
    BY <2>1, <2>2
  <2>4. IsInjective(ns)
    BY <2>2 DEF IsInjective
  <2>5. ns \in Injection(1..(limit + 1), ids)
    BY <2>3, <2>4, Zenon DEF Injection
  <2>6. Cardinality(1..(limit + 1)) <= limit
    BY <1>2, <1>3, <2>5, FS_Injection
  <2>7. Cardinality(1..(limit + 1)) = limit + 1
    BY <1>3, FS_Interval
  <2>8. QED
    BY <1>3, <2>6, <2>7
<1>6. PICK m \in free : \A n \in free : m <= n
  <2>1. free \subseteq Nat
    BY <1>3, <1>4
  <2>2. PICK m \in free : \A n \in free : ~(<<n, m>> \in OpToRel(<, Nat))
    BY <1>5, <2>1, NatLessThanWellFounded, WFMin
  <2>3. \A n \in free : ~(n < m) /\ m \in Nat /\ n \in Nat
    BY <2>1, <2>2 DEF OpToRel
  <2>4. QED
    BY <2>3
<1>7. ObToChairId(d, ids) = <<d, CHOOSE n \in free : \A k \in free : n <= k>>
  BY <1>3, <1>4 DEF ObToChairId
<1>8. (CHOOSE n \in free : \A k \in free : n <= k) \in free
  BY <1>6
<1>9. PICK k : k = CHOOSE n \in free : \A j \in free : n <= j
  OBVIOUS
<1>a. k \in Nat
  BY <1>3, <1>4, <1>8, <1>9
<1>10. ObToChairId(d, ids) = <<d, k>>
  BY <1>7, <1>9
<1>11. <<d, k>> \in ChairIdsEver
  BY <1>a DEF ChairIdsEver
<1>12. QED
  BY <1>1, <1>10, <1>11

LEMMA ListOfMore ==
  ASSUME NEW S, NEW T, S \subseteq T, NEW list \in Seq(S)
  PROVE  list \in Seq(T)
<1>1. list \in [1..Len(list) -> S] /\ Len(list) \in Nat
  BY LenProperties
<1>2. list \in [1..Len(list) -> T]
  BY <1>1
<1>3. QED
  BY <1>1, <1>2, SeqDef

(* obReconcileRequiredChairs drops no chair. *)
LEMMA Reconciled ==
  ASSUME OrgAssumption, NEW b \in Blueprints, NEW made, Sound(b, made)
  PROVE  ObReconcile(b) \in Blueprints /\ Sound(ObReconcile(b), made)
<1> DEFINE active(c) == IF c.domain \in OB_REQUIRED_DOMAINS THEN [c EXCEPT !.status = "active"] ELSE c
           chairs == [i \in DOMAIN b.chairs |-> active(b.chairs[i])]
           missing == OB_REQUIRED_DOMAINS \ {chairs[i].domain : i \in DOMAIN chairs}
           fresh == {NewChair(ObToChairId(d, Ids(chairs)), d, "active") : d \in missing}
           added == SetToSeq(fresh)
           all == chairs \o added
<1>1. ObReconcile(b) = [b EXCEPT !.chairs = all]
  BY DEF ObReconcile
<1>2. b.chairs \in Seq(ChairRecords) /\ \A i \in DOMAIN b.chairs : b.chairs[i] \in ChairRecords
  BY BlueprintFields
<1>3. ASSUME NEW c \in ChairRecords PROVE active(c) \in ChairRecords /\ active(c).id = c.id
  BY DEF ChairRecords, OrgStatus
<1> HIDE DEF active
<1>4. /\ DOMAIN chairs = DOMAIN b.chairs /\ chairs = [i \in DOMAIN b.chairs |-> chairs[i]]
      /\ \A i \in DOMAIN b.chairs : chairs[i] \in ChairRecords /\ chairs[i].id = b.chairs[i].id
  BY <1>2, <1>3
<1> HIDE DEF chairs
<1>5. chairs \in Seq(ChairRecords)
  BY <1>2, <1>4, PlaceByPlace
<1>6. missing \subseteq OrgDomains /\ IsFiniteSet(missing)
  <2>1. missing \subseteq OB_REQUIRED_DOMAINS /\ IsFiniteSet(OB_REQUIRED_DOMAINS)
        /\ OB_REQUIRED_DOMAINS \subseteq OrgDomains
    BY DEF OrgAssumption
  <2>2. QED
    BY <2>1, FS_Subset
<1> HIDE DEF missing
<1>7. ASSUME NEW d \in missing
      PROVE  NewChair(ObToChairId(d, Ids(chairs)), d, "active") \in ChairRecords
  BY <1>5, <1>6, ChairIdFound DEF NewChair, ChairRecords, OrgStatus
<1>8. fresh \subseteq ChairRecords
  BY <1>7
<1>9. IsFiniteSet(fresh)
  <2>1. [d \in missing |-> NewChair(ObToChairId(d, Ids(chairs)), d, "active")] \in Surjection(missing, fresh)
    BY DEF Surjection
  <2>2. QED
    BY <1>6, <2>1, FS_Surjection
<1> HIDE DEF fresh
<1>10. added \in Seq(ChairRecords)
  <2>1. added \in Seq(fresh)
    BY <1>9, Enumerated
  <2>2. QED
    BY <1>8, <2>1, ListOfMore
<1> HIDE DEF added
<1>11. /\ all \in Seq(ChairRecords) /\ Len(all) = Len(chairs) + Len(added)
       /\ \A i \in 1..(Len(chairs) + Len(added)) :
            all[i] = IF i <= Len(chairs) THEN chairs[i] ELSE added[i - Len(chairs)]
  BY <1>5, <1>10, ConcatProperties
<1>12. /\ DOMAIN all = 1..Len(all) /\ DOMAIN chairs = 1..Len(chairs)
       /\ Len(chairs) \in Nat /\ Len(added) \in Nat
  BY <1>5, <1>10, <1>11, LenProperties
<1> HIDE DEF all
<1>13. ASSUME NEW i \in DOMAIN b.chairs PROVE b.chairs[i].id \in Ids(all)
  <2>1. i \in 1..Len(chairs) /\ i \in 1..(Len(chairs) + Len(added))
    BY <1>4, <1>12
  <2>2. all[i] = chairs[i]
    BY <1>11, <2>1
  <2>3. i \in DOMAIN all
    BY <1>11, <1>12, <2>1
  <2>4. all[i].id = b.chairs[i].id
    BY <1>4, <2>2
  <2>5. QED
    BY <2>3, <2>4 DEF Ids
<1>14. Ids(b.chairs) \subseteq Ids(all)
  BY <1>13 DEF Ids
<1>15. QED
  <2>1. all \in Seq(ChairRecords)
    BY <1>11
  <2>2. /\ [b EXCEPT !.chairs = all] \in Blueprints
        /\ Sound([b EXCEPT !.chairs = all], made)
    BY <1>14, <2>1, ChairsGrow
  <2>3. QED
    BY <1>1, <2>2

(* obBuildDefaultOrgBlueprint: every department and team has its chair.    *)
LEMMA DefaultIsSound ==
  ASSUME OrgAssumption
  PROVE  ObDefault \in Blueprints /\ Sound(ObDefault, delegated)
<1> DEFINE domains == {StoredChairs[i].domain : i \in DOMAIN StoredChairs}
           members(d) == {StoredChairs[i].id : i \in {j \in DOMAIN StoredChairs : StoredChairs[j].domain = d}}
           fresh == {NewChair(<<d, 1>>, d, "active") : d \in domains}
           chairs == SetToSeq(fresh)
           some == IF chairs = <<>> THEN <<NewChair(<<"ops", 1>>, "ops", "active")>> ELSE chairs
           units == {[id |-> d, chair |-> <<d, 1>>, status |-> "active", teams |-> members(d)] : d \in domains}
           departments == SetToSeq(units)
           teams == [i \in DOMAIN StoredChairs |->
                      [id |-> StoredChairs[i].id, dept |-> StoredChairs[i].domain,
                       chair |-> <<StoredChairs[i].domain, 1>>, status |-> "active"]]
           Stored == [id : {StoredChairs[i].id : i \in DOMAIN StoredChairs}, domain : OrgDomains]
<1>1. ObDefault = [chairs |-> some, departments |-> departments, teams |-> teams, autoApprove |-> FALSE]
  BY DEF ObDefault
<1>2. StoredChairs \in Seq(Stored)
  BY DEF OrgAssumption
<1>3. /\ DOMAIN StoredChairs = 1..Len(StoredChairs) /\ Len(StoredChairs) \in Nat
      /\ \A i \in DOMAIN StoredChairs : StoredChairs[i] \in Stored
  BY <1>2, ElementOfSeq, LenProperties
<1>4. \A i \in DOMAIN StoredChairs : StoredChairs[i].domain \in OrgDomains /\ StoredChairs[i].id \in KnownUnits
  BY <1>3 DEF KnownUnits
<1>5. domains \subseteq OrgDomains /\ \A d : members(d) \subseteq KnownUnits
  BY <1>4
<1>6. IsFiniteSet(domains)
  <2>1. [i \in 1..Len(StoredChairs) |-> StoredChairs[i].domain] \in Surjection(1..Len(StoredChairs), domains)
    BY <1>3 DEF Surjection
  <2>2. QED
    BY <1>3, <2>1, FS_Interval, FS_Surjection
<1>7. \A i \in DOMAIN StoredChairs : StoredChairs[i].domain \in domains
  OBVIOUS
<1> HIDE DEF domains, members
<1>8. \A d \in domains : <<d, 1>> \in ChairIdsEver /\ d \in KnownUnits
  BY <1>5 DEF ChairIdsEver, KnownUnits
<1>9. fresh \subseteq ChairRecords /\ units \subseteq DepartmentRecords
  BY <1>5, <1>8 DEF NewChair, ChairRecords, DepartmentRecords, OrgStatus
<1>10. IsFiniteSet(fresh) /\ IsFiniteSet(units)
  <2>1. [d \in domains |-> NewChair(<<d, 1>>, d, "active")] \in Surjection(domains, fresh)
    BY DEF Surjection
  <2>2. [d \in domains |-> [id |-> d, chair |-> <<d, 1>>, status |-> "active", teams |-> members(d)]]
          \in Surjection(domains, units)
    BY DEF Surjection
  <2>3. QED
    BY <1>6, <2>1, <2>2, FS_Surjection
<1>11. \A d \in domains : \E s \in fresh : s.id = <<d, 1>>
  <2>1. \A d \in domains : NewChair(<<d, 1>>, d, "active") \in fresh
    OBVIOUS
  <2>2. \A d : NewChair(<<d, 1>>, d, "active").id = <<d, 1>>
    BY DEF NewChair
  <2>3. QED
    BY <2>1, <2>2
<1>12. \A u \in units : \E d \in domains : u.chair = <<d, 1>>
  OBVIOUS
<1> HIDE DEF fresh, units
<1>13. /\ chairs \in Seq(fresh) /\ departments \in Seq(units)
       /\ \A s \in fresh : \E k \in DOMAIN chairs : chairs[k] = s
  BY <1>10, Enumerated
<1> HIDE DEF chairs, departments
<1>14. chairs \in Seq(ChairRecords) /\ departments \in Seq(DepartmentRecords)
  BY <1>9, <1>13, ListOfMore
<1>15. some \in Seq(ChairRecords)
  <2>1. <<"ops", 1>> \in ChairIdsEver
    BY DEF ChairIdsEver
  <2>2. NewChair(<<"ops", 1>>, "ops", "active") \in ChairRecords
    BY <2>1 DEF NewChair, ChairRecords, OrgStatus
  <2>3. QED
    BY <1>14, <2>2
<1>16. \A d \in domains : <<d, 1>> \in Ids(some)
  <2>1. ASSUME NEW d \in domains PROVE <<d, 1>> \in Ids(some)
    <3>1. PICK k \in DOMAIN chairs : chairs[k].id = <<d, 1>>
      BY <1>11, <1>13
    <3>2. chairs # <<>>
      BY <3>1, EmptySeq, LenProperties
    <3>3. some = chairs
      BY <3>2
    <3>4. QED
      BY <3>1, <3>3 DEF Ids
  <2>2. QED
    BY <2>1
<1> HIDE DEF some
<1>17. teams \in Seq(TeamRecords) /\ \A i \in DOMAIN teams : teams[i].chair \in Ids(some)
  <2>1. ASSUME NEW i \in DOMAIN StoredChairs
        PROVE  teams[i] \in TeamRecords /\ teams[i].chair = <<StoredChairs[i].domain, 1>>
    <3>1. /\ StoredChairs[i].id \in KnownUnits /\ StoredChairs[i].domain \in UnitDomains
          /\ <<StoredChairs[i].domain, 1>> \in ChairIdsEver
      BY <1>4, <1>7, <1>8 DEF UnitDomains
    <3>2. teams[i] = [id |-> StoredChairs[i].id, dept |-> StoredChairs[i].domain,
                      chair |-> <<StoredChairs[i].domain, 1>>, status |-> "active"]
      OBVIOUS
    <3>3. QED
      BY <3>1, <3>2 DEF TeamRecords, OrgStatus
  <2>2. DOMAIN teams = DOMAIN StoredChairs /\ teams = [i \in DOMAIN StoredChairs |-> teams[i]]
    OBVIOUS
  <2> HIDE DEF teams, Stored
  <2>3. teams \in Seq(TeamRecords)
    BY <1>2, <2>1, <2>2, PlaceByPlace
  <2>4. QED
    BY <1>7, <1>16, <2>1, <2>2, <2>3
<1> HIDE DEF teams
<1>18. ObDefault \in Blueprints
  BY <1>1, <1>14, <1>15, <1>17 DEF Blueprints
<1>19. ObDefault.chairs = some /\ ObDefault.departments = departments /\ ObDefault.teams = teams
  BY <1>1
<1>20. \A i \in DOMAIN departments : departments[i].chair \in Ids(some)
  <2>1. \A i \in DOMAIN departments : departments[i] \in units
    BY <1>13, ElementOfSeq, LenProperties
  <2>2. QED
    BY <1>12, <1>16, <2>1
<1>21. Sound(ObDefault, delegated)
  BY <1>17, <1>19, <1>20 DEF Sound, Seated
<1>22. QED
  BY <1>18, <1>21

LEMMA BootstrapKeeps ==
  ASSUME OrgAssumption, OrgInv, NEW done \in 0..3, Bootstrap(done)
  PROVE  OrgInv'
<1>1. PICK base : base = IF HasBlueprint THEN ObLatest ELSE ObDefault
  OBVIOUS
<1>2. base \in Blueprints /\ Sound(base, delegated)
  BY <1>1, LatestIsSound, DefaultIsSound
<1>3. PICK b : b = ObReconcile(base)
  OBVIOUS
<1>4. b \in Blueprints /\ Sound(b, delegated)
  BY <1>2, <1>3, Reconciled
<1>5. /\ ObPersist(b) \in Seq(Blueprints) /\ Len(ObPersist(b)) <= KeepVersions
      /\ Orphanless(ObPersist(b), delegated)
  BY <1>4, Persisted DEF OrgInv
<1>6. /\ orgVersions' = IF done >= 1 THEN ObPersist(b) ELSE orgVersions
      /\ delegations' = IF done >= 2 THEN [delegations EXCEPT !.ready = TRUE] ELSE delegations
      /\ delegated' = delegated /\ OrgChange
  BY <1>1, <1>3 DEF Bootstrap, writeJsonAtomic
<1>7. delegations'.requests = delegations.requests /\ DOMAIN delegations' = {"ready", "requests"}
  BY <1>6 DEF OrgInv
<1>8. /\ orgVersions' \in Seq(Blueprints) /\ Len(orgVersions') <= KeepVersions
      /\ Orphanless(orgVersions', delegated)
  BY <1>5, <1>6 DEF OrgInv
<1>9. orgChanges' \in 0..MaxOrgChanges
  BY <1>6 DEF OrgChange, OrgInv, OrgAssumption
<1>10. QED
  BY <1>6, <1>7, <1>8, <1>9 DEF OrgInv

LEMMA OrgInvStep == OrgAssumption /\ OrgInv /\ [OrgNext]_orgVars => OrgInv'
<1> SUFFICES ASSUME OrgAssumption, OrgInv, [OrgNext]_orgVars PROVE OrgInv'
  OBVIOUS
<1>1. CASE UNCHANGED orgVars
  BY <1>1 DEF orgVars, OrgInv
<1>2. ASSUME NEW done \in 0..3, Bootstrap(done) PROVE OrgInv'
  BY <1>2, BootstrapKeeps
<1>3. ASSUME NEW id \in ChairIds, NEW status \in {"active", "paused"}, AddChair(id, id[1], status) PROVE OrgInv'
  BY <1>3, AddChairKeeps
<1>4. ASSUME NEW id \in ChairIds,
             NEW patch \in [{"status"} -> {"active", "retired"}] \cup [{"domain"} -> OrgDomains],
             PatchChair(id, patch)
      PROVE  OrgInv'
  BY <1>4, PatchChairKeeps
<1>5. ASSUME NEW id \in ChairIds, NEW cascade \in BOOLEAN, DeleteChair(id, cascade) PROVE OrgInv'
  BY <1>5, DeleteChairKeeps
<1>6. ASSUME NEW id \in ChairIds, NEW unit \in UnitIds, AddDepartment(unit, id) PROVE OrgInv'
  BY <1>6, UnitsOfChairs
<1>7. ASSUME NEW id \in ChairIds, NEW unit \in UnitIds, NEW dept \in OrgDomains \cup UnitIds,
             AddTeam(unit, dept, id)
      PROVE  OrgInv'
  BY <1>7, UnitsOfChairs
<1>8. ASSUME NEW unit, SetUnitStatus(unit, "paused") PROVE OrgInv'
  BY <1>8, SetUnitStatusKeeps
<1>9. ASSUME NEW auto \in BOOLEAN, SetScopes(auto) PROVE OrgInv'
  BY <1>9, SetScopesKeeps
<1>10. ASSUME NEW request \in Requests("pending"), NEW manualOnly \in BOOLEAN, NEW done \in 0..2,
              Delegate(request, manualOnly, done)
       PROVE  OrgInv'
  BY <1>10, DelegateKeeps
<1>11. ASSUME NEW i \in DOMAIN delegations.requests, NEW done \in 0..2, ApproveDelegation(i, done) PROVE OrgInv'
  BY <1>11, ApproveDelegationKeeps
<1>12. ASSUME NEW i \in DOMAIN delegations.requests, RejectDelegation(i) PROVE OrgInv'
  BY <1>12, RejectDelegationKeeps
<1>13. ASSUME NEW version \in DOMAIN orgVersions, Rollback(version) PROVE OrgInv'
  BY <1>13, RollbackKeeps
<1>14. QED
  BY <1>1, <1>2, <1>3, <1>4, <1>5, <1>6, <1>7, <1>8, <1>9, <1>10, <1>11, <1>12, <1>13 DEF OrgNext

(* An approved delegation is in force, and a unit without its chair came   *)
(* from a delegation (routes/org.ts), for every set of domains, ids,       *)
(* stored chairs, changes, rollbacks and crashes.                          *)
THEOREM OrgIsSound == OrgSpec => [](OrgTypeOK /\ ApprovedIsApplied /\ OrphansWereDelegated)
  BY OrgAssumption, OrgFromInv, OrgInvInit, OrgInvStep, PTL DEF OrgSpec

-----------------------------------------------------------------------------
(* The catalog.  The inductive invariant: a closed gap has a chair unless  *)
(* a blueprint left it out, the chairs read for a regeneration name gaps   *)
(* that were reported, and no version known is newer than the file.        *)
(* A list, whatever its elements are. *)
IsList(list) == list \in Seq({list[i] : i \in DOMAIN list})

LEMMA Listed ==
  /\ \A list : IsList(list) <=> \E n \in Nat : /\ DOMAIN list = 1..n
                                               /\ list = [i \in 1..n |-> list[i]]
  /\ \A list : IsList(list) => Len(list) \in Nat /\ DOMAIN list = 1..Len(list)
<1>1. ASSUME NEW list, IsList(list)
      PROVE  /\ \E n \in Nat : DOMAIN list = 1..n /\ list = [i \in 1..n |-> list[i]]
             /\ Len(list) \in Nat /\ DOMAIN list = 1..Len(list)
  <2>1. PICK S : list \in Seq(S)
    BY <1>1 DEF IsList
  <2>2. list \in [1..Len(list) -> S] /\ Len(list) \in Nat
    BY <2>1, LenProperties
  <2>3. QED
    BY <2>2
<1>2. ASSUME NEW list, NEW n \in Nat, DOMAIN list = 1..n, list = [i \in 1..n |-> list[i]]
      PROVE  IsList(list)
  <2>1. PICK S : S = {list[i] : i \in DOMAIN list}
    OBVIOUS
  <2>2. list \in [1..n -> S]
    BY <1>2, <2>1
  <2>3. list \in Seq(S)
    BY <2>2, SeqDef
  <2>4. QED
    BY <2>1, <2>3 DEF IsList
<1>3. QED
  BY <1>1, <1>2

LEMMA ListMade ==
  ASSUME NEW list, IsList(list), NEW new, DOMAIN new = DOMAIN list, new = [i \in DOMAIN list |-> new[i]]
  PROVE  IsList(new) /\ Len(new) = Len(list)
<1>1. PICK n \in Nat : DOMAIN list = 1..n
  BY Listed
<1>2. IsList(new)
  BY <1>1, Listed
<1>3. QED
  BY <1>2, Listed

LEMMA ListAppended ==
  ASSUME NEW list, IsList(list), NEW x
  PROVE  /\ IsList(Append(list, x)) /\ Len(Append(list, x)) = Len(list) + 1
         /\ DOMAIN Append(list, x) = 1..(Len(list) + 1)
         /\ \A i \in DOMAIN list : Append(list, x)[i] = list[i]
         /\ Append(list, x)[Len(list) + 1] = x
<1>1. PICK S : list \in Seq(S)
  BY DEF IsList
<1>2. list \in Seq(S \cup {x})
  BY <1>1, ListOfMore
<1>3. /\ Append(list, x) \in Seq(S \cup {x}) /\ Len(Append(list, x)) = Len(list) + 1
      /\ \A i \in 1..Len(list) : Append(list, x)[i] = list[i]
      /\ Append(list, x)[Len(list) + 1] = x
  BY <1>2, AppendProperties
<1>4. DOMAIN Append(list, x) = 1..Len(Append(list, x)) /\ Len(Append(list, x)) \in Nat
  BY <1>3, LenProperties
<1>5. Append(list, x) = [i \in 1..Len(Append(list, x)) |-> Append(list, x)[i]]
  BY <1>3, LenProperties
<1>6. QED
  BY <1>3, <1>4, <1>5, Listed

LEMMA ListsJoined ==
  ASSUME NEW s, IsList(s), NEW t, IsList(t)
  PROVE  /\ IsList(s \o t) /\ Len(s \o t) = Len(s) + Len(t)
         /\ DOMAIN (s \o t) = 1..(Len(s) + Len(t))
         /\ \A i \in 1..(Len(s) + Len(t)) : (s \o t)[i] = IF i <= Len(s) THEN s[i] ELSE t[i - Len(s)]
<1>1. PICK S, T : s \in Seq(S) /\ t \in Seq(T)
  BY DEF IsList
<1>2. PICK U : U = S \cup T
  OBVIOUS
<1>3. s \in Seq(U) /\ t \in Seq(U)
  BY <1>1, <1>2, ListOfMore
<1>4. PICK st : st = s \o t
  OBVIOUS
<1>5. /\ s \o t \in Seq(U) /\ Len(s \o t) = Len(s) + Len(t)
      /\ \A i \in 1..(Len(s) + Len(t)) : (s \o t)[i] = IF i <= Len(s) THEN s[i] ELSE t[i - Len(s)]
  BY <1>3, ConcatProperties
<1>6. /\ st \in [1..Len(st) -> U] /\ Len(st) \in Nat
  BY <1>4, <1>5, LenProperties
<1>7. IsList(st) /\ DOMAIN st = 1..Len(st)
  BY <1>6, Listed
<1>8. QED
  BY <1>4, <1>5, <1>7

-----------------------------------------------------------------------------
SeatShaped(s) == s = Seat(s.id, s.domain, s.refs, s.gap)
GapShaped(g) == g = [domain |-> g.domain, resolved |-> g.resolved, submitted |-> g.submitted]

SpecsInv(files, cache, sync) ==
    /\ files \in [Specialists -> 1..MaxSpecVersion]
    /\ cache \in [Specialists -> Int] /\ sync \in [Specialists -> Int]
    /\ \A s \in Specialists : -1 <= cache[s] /\ cache[s] <= files[s] /\ 0 <= sync[s] /\ sync[s] <= files[s]

SeatsInv(list, reported) ==
    /\ IsList(list)
    /\ \A i \in DOMAIN list : SeatShaped(list[i]) /\ list[i].gap \in Int /\ -1 <= list[i].gap
                              /\ list[i].gap <= Len(reported)

GapsInv(list, chairs, lost) ==
    /\ IsList(list)
    /\ \A i \in DOMAIN list :
         /\ GapShaped(list[i])
         /\ list[i].resolved => (\E k \in DOMAIN chairs : chairs[k].domain = list[i].domain) \/ i \in lost

ReadInv(under, reported) == \A g \in under : SeatsInv(g.chairs, reported)

ProposalsInv(p) ==
    /\ p = [underway |-> p.underway, opened |-> p.opened, logged |-> p.logged]
    /\ p.opened \in Nat /\ p.logged \in Nat /\ p.logged <= p.opened

CatalogInv ==
    /\ SpecsInv(specFiles, specCache, syncState)
    /\ SeatsInv(seats, gaps)
    /\ GapsInv(gaps, seats, unseated)
    /\ ProposalsInv(proposals)
    /\ unseated \subseteq DOMAIN gaps /\ ReadInv(regenerating, gaps)
    /\ catalogSteps \in 0..MaxCatalogSteps /\ catalogCrashes \in 0..MaxCatalogCrashes

LEMMA CatalogFromInv == CatalogInv => CatalogTypeOK /\ ClosedGapsHaveChairs
<1> SUFFICES ASSUME CatalogInv PROVE CatalogTypeOK /\ ClosedGapsHaveChairs
  OBVIOUS
<1>1. \A s \in Specialists : /\ specFiles[s] \in 1..MaxSpecVersion
                             /\ specCache[s] \in -1..specFiles[s]
                             /\ syncState[s] \in 0..specFiles[s]
  BY DEF CatalogInv, SpecsInv
<1>2. \A i \in DOMAIN seats : seats[i].gap \in -1..Len(gaps)
  <2>1. Len(gaps) \in Nat
    BY Listed DEF CatalogInv, GapsInv
  <2>2. QED
    BY <2>1 DEF CatalogInv, SeatsInv
<1>3. CatalogTypeOK
  BY <1>1, <1>2 DEF CatalogTypeOK, CatalogInv, ProposalsInv
<1>4. ClosedGapsHaveChairs
  BY DEF CatalogInv, GapsInv, ClosedGapsHaveChairs, HasSeat
<1>5. QED
  BY <1>3, <1>4

LEMMA CatalogInvInit == CatalogAssumption /\ CatalogInit => CatalogInv
<1> SUFFICES ASSUME CatalogAssumption, CatalogInit PROVE CatalogInv
  OBVIOUS
<1>1. IsList(SeatedChairs)
  BY DEF CatalogAssumption, IsList, Range
<1>2. seats = [i \in DOMAIN SeatedChairs |-> Seat(SeatedChairs[i].id, SeatedChairs[i].domain, <<>>, NoGap)]
  BY DEF CatalogInit
<1>3. IsList(seats) /\ \A i \in DOMAIN seats : SeatShaped(seats[i]) /\ seats[i].gap = 0
  <2>1. DOMAIN seats = DOMAIN SeatedChairs
    BY <1>2
  <2>2. seats = [i \in DOMAIN SeatedChairs |-> seats[i]]
    BY <1>2
  <2>3. IsList(seats)
    BY <1>1, <2>1, <2>2, ListMade
  <2>4. QED
    BY <1>2, <2>3 DEF SeatShaped, Seat, NoGap
<1>4. gaps = <<>> /\ DOMAIN gaps = {}
  BY DEF CatalogInit
<1>5. IsList(gaps)
  BY <1>4, EmptySeq DEF IsList
<1>6. Len(gaps) \in Nat
  BY <1>5, Listed
<1>7. SeatsInv(seats, gaps) /\ GapsInv(gaps, seats, unseated)
  BY <1>3, <1>4, <1>5, <1>6 DEF SeatsInv, GapsInv
<1>8. SpecsInv(specFiles, specCache, syncState)
  BY DEF CatalogInit, SpecsInv, CatalogAssumption, Unloaded
<1>9. QED
  BY <1>7, <1>8 DEF CatalogInv, CatalogInit, CatalogAssumption, ReadInv, ProposalsInv

-----------------------------------------------------------------------------
(* Chairs change, none goes, and reports are added. *)
LEMMA SeatsChange ==
  ASSUME SeatsInv(seats, gaps), GapsInv(gaps, seats, unseated), NEW new, IsList(new),
         Len(seats) <= Len(new), Len(new) \in Nat,
         \A i \in DOMAIN seats : new[i].domain = seats[i].domain,
         \A i \in DOMAIN new : SeatShaped(new[i]) /\ new[i].gap \in Int /\ -1 <= new[i].gap
                               /\ new[i].gap <= Len(gaps)
  PROVE  SeatsInv(new, gaps) /\ GapsInv(gaps, new, unseated)
<1>1. DOMAIN seats \subseteq DOMAIN new
  <2>1. DOMAIN seats = 1..Len(seats) /\ DOMAIN new = 1..Len(new) /\ Len(seats) \in Nat
    BY Listed DEF SeatsInv
  <2>2. QED
    BY <2>1
<1>2. QED
  BY <1>1 DEF SeatsInv, GapsInv

LEMMA Loaded ==
  ASSUME SpecsInv(specFiles, specCache, syncState), NEW slugs
  PROVE  SpecsInv(specFiles, LoadAll(slugs), syncState)
<1>1. \A s \in Specialists : LoadAll(slugs)[s] \in {specFiles[s], specCache[s]}
  BY DEF LoadAll
<1>2. LoadAll(slugs) = [s \in Specialists |-> LoadAll(slugs)[s]]
  BY DEF LoadAll
<1> QED
  BY <1>1, <1>2 DEF SpecsInv

LEMMA CatalogDeath ==
  ASSUME CatalogAssumption, CatalogInv, NEW cut, NEW cache,
         SpecsInv(specFiles, cache, syncState), CatalogMayDie(cut, cache)
  PROVE  /\ SpecsInv(specFiles, specCache', syncState) /\ catalogCrashes' \in 0..MaxCatalogCrashes
         /\ ProposalsInv(proposals') /\ regenerating' \subseteq regenerating
<1>1. specCache' = [s \in Specialists |-> -1] \/ specCache' = cache
  BY DEF CatalogMayDie, Unloaded
<1>2. SpecsInv(specFiles, [s \in Specialists |-> -1], syncState)
  BY DEF SpecsInv
<1>3. catalogCrashes' \in 0..MaxCatalogCrashes
  BY DEF CatalogMayDie, CatalogInv, CatalogAssumption
<1>4. regenerating' \subseteq regenerating
  BY DEF CatalogMayDie
<1>5. ProposalsInv(proposals')
  <2>1. PICK underway, opened, logged :
          proposals = [underway |-> underway, opened |-> opened, logged |-> logged]
          /\ opened \in Nat /\ logged \in Nat /\ logged <= opened
    BY DEF CatalogInv, ProposalsInv
  <2>2. proposals' = [proposals EXCEPT !.underway = {}] \/ proposals' = proposals
    BY DEF CatalogMayDie
  <2>3. CASE proposals' = [proposals EXCEPT !.underway = {}]
    <3>1. proposals' = [underway |-> {}, opened |-> opened, logged |-> logged]
      BY <2>1, <2>3
    <3>2. QED
      BY <2>1, <3>1 DEF ProposalsInv
  <2>4. QED
    BY <2>2, <2>3 DEF CatalogInv
<1>6. QED
  BY <1>1, <1>2, <1>3, <1>4, <1>5

(* More reports: what names a reported gap still does. *)
LEMMA ReportsGrow ==
  ASSUME CatalogInv, NEW more, IsList(more), Len(gaps) <= Len(more)
  PROVE  /\ unseated \subseteq DOMAIN more
         /\ \A under : under \subseteq regenerating => ReadInv(under, more)
<1>1. /\ Len(gaps) \in Nat /\ DOMAIN gaps = 1..Len(gaps)
      /\ Len(more) \in Nat /\ DOMAIN more = 1..Len(more)
  BY Listed DEF CatalogInv, GapsInv
<1>2. unseated \subseteq DOMAIN more
  BY <1>1 DEF CatalogInv
<1>3. ASSUME NEW g \in regenerating PROVE SeatsInv(g.chairs, more)
  BY <1>1 DEF CatalogInv, ReadInv, SeatsInv
<1>4. QED
  BY <1>2, <1>3 DEF ReadInv

LEMMA CatalogStepCounts ==
  ASSUME CatalogAssumption, CatalogInv, CatalogStep
  PROVE  catalogSteps' \in 0..MaxCatalogSteps
  BY DEF CatalogStep, CatalogInv, CatalogAssumption

LEMMA ResolveKeeps ==
  ASSUME CatalogAssumption, CatalogInv, NEW uncovered \in BOOLEAN, NEW cut \in BOOLEAN,
         ResolveSpecialists(uncovered, cut)
  PROVE  CatalogInv'
<1> DEFINE cache == LoadAll(UNION {SpecialistsOf[seats[i].domain] : i \in DOMAIN seats})
           keep == {i \in DOMAIN seats : SpecialistsOf[seats[i].domain] = {}}
           missing == Kept(seats, keep)
           new == [i \in DOMAIN missing |-> NewGap(missing[i].domain)]
           all == gaps \o new
<1>1. /\ gaps' = all /\ CatalogMayDie(cut, cache) /\ CatalogStep
      /\ UNCHANGED <<specFiles, seats, syncState, unseated>>
  BY DEF ResolveSpecialists
<1>2. IsList(seats) /\ IsList(gaps) /\ SpecsInv(specFiles, specCache, syncState)
  BY DEF CatalogInv, SeatsInv, GapsInv
<1>3. SpecsInv(specFiles, cache, syncState)
  BY <1>2, Loaded
<1> HIDE DEF cache
<1>4. IsList(missing)
  <2>1. PICK S : seats \in Seq(S)
    BY <1>2 DEF IsList
  <2>2. keep \in SUBSET DOMAIN seats
    OBVIOUS
  <2> HIDE DEF keep
  <2>3. missing \in Seq(S)
    BY <2>1, <2>2, KeptElements
  <2>4. missing \in [1..Len(missing) -> S] /\ Len(missing) \in Nat
    BY <2>3, LenProperties
  <2>5. QED
    BY <2>4, Listed
<1> HIDE DEF missing
<1>5. IsList(new) /\ \A i \in DOMAIN new : GapShaped(new[i]) /\ new[i].resolved = FALSE
  <2>1. DOMAIN new = DOMAIN missing /\ new = [i \in DOMAIN missing |-> new[i]]
    OBVIOUS
  <2>2. \A i \in DOMAIN new : GapShaped(new[i]) /\ new[i].resolved = FALSE
    BY DEF GapShaped, NewGap
  <2> HIDE DEF new
  <2>3. QED
    BY <1>4, <2>1, <2>2, ListMade
<1> HIDE DEF new
<1>6. /\ IsList(all) /\ Len(all) = Len(gaps) + Len(new) /\ DOMAIN all = 1..(Len(gaps) + Len(new))
      /\ \A i \in 1..(Len(gaps) + Len(new)) : all[i] = IF i <= Len(gaps) THEN gaps[i] ELSE new[i - Len(gaps)]
  BY <1>2, <1>5, ListsJoined
<1>7. /\ Len(gaps) \in Nat /\ DOMAIN gaps = 1..Len(gaps) /\ Len(new) \in Nat /\ DOMAIN new = 1..Len(new)
  BY <1>2, <1>5, Listed
<1> HIDE DEF all
<1>8. ASSUME NEW i \in DOMAIN all
      PROVE  /\ GapShaped(all[i])
             /\ all[i].resolved =>
                  (\E k \in DOMAIN seats : seats[k].domain = all[i].domain) \/ i \in unseated
  <2>1. CASE i <= Len(gaps)
    <3>1. i \in DOMAIN gaps /\ all[i] = gaps[i]
      BY <1>6, <1>7, <2>1
    <3>2. QED
      BY <3>1 DEF CatalogInv, GapsInv
  <2>2. CASE ~(i <= Len(gaps))
    <3>1. i - Len(gaps) \in DOMAIN new /\ all[i] = new[i - Len(gaps)]
      BY <1>6, <1>7, <2>2
    <3>2. QED
      BY <1>5, <3>1
  <2>3. QED
    BY <2>1, <2>2
<1>9. GapsInv(all, seats, unseated)
  BY <1>6, <1>8 DEF GapsInv
<1>10. SeatsInv(seats, all)
  <2>1. Len(gaps) <= Len(all) /\ Len(all) \in Nat
    BY <1>6, <1>7
  <2>2. QED
    BY <1>7, <2>1 DEF CatalogInv, SeatsInv
<1>11. /\ SpecsInv(specFiles, specCache', syncState) /\ catalogCrashes' \in 0..MaxCatalogCrashes
       /\ ProposalsInv(proposals') /\ regenerating' \subseteq regenerating
  BY <1>1, <1>3, CatalogDeath
<1>12. catalogSteps' \in 0..MaxCatalogSteps
  BY <1>1, CatalogStepCounts
<1>13. unseated \subseteq DOMAIN all /\ ReadInv(regenerating', all)
  BY <1>6, <1>7, <1>11, ReportsGrow
<1>14. QED
  BY <1>1, <1>9, <1>10, <1>11, <1>12, <1>13 DEF CatalogInv

LEMMA ConfirmKeeps ==
  ASSUME CatalogAssumption, CatalogInv, NEW done \in 0..2, ConfirmSpecialists(done)
  PROVE  CatalogInv'
<1> DEFINE new == applyResolutionsToBlueprint
<1>1. /\ seats' = (IF done >= 1 THEN new ELSE seats) /\ CatalogMayDie(done < 2, specCache) /\ CatalogStep
      /\ UNCHANGED <<specFiles, gaps, syncState, unseated>>
  BY DEF ConfirmSpecialists, writeJsonAtomic
<1>2. /\ DOMAIN new = DOMAIN seats /\ new = [i \in DOMAIN seats |-> new[i]]
      /\ \A i \in DOMAIN seats :
            \/ new[i] = seats[i]
            \/ \E refs, gap : gap \in {FreshGap, NoGap} /\ new[i] = Seat(seats[i].id, seats[i].domain, refs, gap)
  <2>1. DOMAIN new = DOMAIN seats /\ new = [i \in DOMAIN seats |-> new[i]]
    BY DEF applyResolutionsToBlueprint
  <2>2. ASSUME NEW i \in DOMAIN seats
        PROVE  \/ new[i] = seats[i]
               \/ \E refs, gap : gap \in {FreshGap, NoGap} /\ new[i] = Seat(seats[i].id, seats[i].domain, refs, gap)
    <3>1. PICK mine : mine = {m \in DOMAIN matches : matches[m].chair = seats[i].id}
      OBVIOUS
    <3>2. PICK m : m = matches[CHOOSE k \in mine : TRUE]
      OBVIOUS
    <3>3. PICK refs : refs = [k \in DOMAIN m.slugs |-> [slug |-> m.slugs[k], pinned |-> FALSE]]
      OBVIOUS
    <3>4. PICK gap : gap = IF m.catalogGap THEN FreshGap ELSE NoGap
      OBVIOUS
    <3>5. gap \in {FreshGap, NoGap}
      BY <3>4
    <3>6. new[i] = IF mine = {} THEN seats[i] ELSE Seat(seats[i].id, seats[i].domain, refs, gap)
      BY <3>1, <3>2, <3>3, <3>4 DEF applyResolutionsToBlueprint
    <3>7. QED
      BY <3>5, <3>6
  <2>3. QED
    BY <2>1, <2>2
<1> HIDE DEF new
<1>3. Len(gaps) \in Nat /\ IsList(seats)
  BY Listed DEF CatalogInv, GapsInv, SeatsInv
<1>4. IsList(new) /\ Len(new) = Len(seats) /\ Len(seats) \in Nat
  BY <1>2, <1>3, ListMade, Listed
<1>5. ASSUME NEW i \in DOMAIN seats
      PROVE  /\ new[i].domain = seats[i].domain /\ SeatShaped(new[i]) /\ new[i].gap \in Int
             /\ -1 <= new[i].gap /\ new[i].gap <= Len(gaps)
  <2>1. CASE new[i] = seats[i]
    BY <2>1 DEF CatalogInv, SeatsInv
  <2>2. ASSUME NEW refs, NEW gap \in {FreshGap, NoGap}, new[i] = Seat(seats[i].id, seats[i].domain, refs, gap)
        PROVE  /\ new[i].domain = seats[i].domain /\ SeatShaped(new[i]) /\ new[i].gap \in Int
               /\ -1 <= new[i].gap /\ new[i].gap <= Len(gaps)
    <3>1. new[i].domain = seats[i].domain /\ new[i].gap = gap /\ SeatShaped(new[i])
      BY <2>2 DEF Seat, SeatShaped
    <3>2. QED
      BY <1>3, <3>1 DEF FreshGap, NoGap
  <2>3. QED
    BY <1>2, <2>1, <2>2
<1>6. SeatsInv(seats, gaps) /\ GapsInv(gaps, seats, unseated) /\ SpecsInv(specFiles, specCache, syncState)
  BY DEF CatalogInv
<1>7. SeatsInv(new, gaps) /\ GapsInv(gaps, new, unseated)
  <2>1. \A i \in DOMAIN seats : new[i].domain = seats[i].domain
    BY <1>5
  <2>2. \A i \in DOMAIN new : SeatShaped(new[i]) /\ new[i].gap \in Int /\ -1 <= new[i].gap
                              /\ new[i].gap <= Len(gaps)
    BY <1>2, <1>5
  <2>3. QED
    BY <1>4, <1>6, <2>1, <2>2, SeatsChange
<1>9. /\ SpecsInv(specFiles, specCache', syncState) /\ catalogCrashes' \in 0..MaxCatalogCrashes
      /\ ProposalsInv(proposals') /\ regenerating' \subseteq regenerating
  BY <1>1, <1>6, CatalogDeath
<1>10. catalogSteps' \in 0..MaxCatalogSteps
  BY <1>1, CatalogStepCounts
<1>11. SeatsInv(seats', gaps) /\ GapsInv(gaps, seats', unseated)
  BY <1>1, <1>6, <1>7
<1>12. QED
  BY <1>1, <1>9, <1>10, <1>11 DEF CatalogInv, ReadInv

LEMMA OverrideKeeps ==
  ASSUME CatalogAssumption, CatalogInv, NEW i \in DOMAIN seats, NEW slug, NEW pinned,
         OverrideSpecialists(i, slug, pinned)
  PROVE  CatalogInv'
<1> DEFINE refs == <<[slug |-> slug, pinned |-> pinned]>>
           new == [seats EXCEPT ![i].refs = refs]
<1>1. /\ seats' = new /\ CatalogStep
      /\ UNCHANGED <<specFiles, specCache, gaps, syncState, proposals, regenerating, unseated, catalogCrashes>>
  BY DEF OverrideSpecialists
<1> HIDE DEF refs
<1>2. SeatsInv(seats, gaps) /\ GapsInv(gaps, seats, unseated)
  BY DEF CatalogInv
<1>3. /\ DOMAIN new = DOMAIN seats /\ new = [k \in DOMAIN seats |-> new[k]]
      /\ \A k \in DOMAIN seats : new[k] = IF k = i THEN [seats[i] EXCEPT !.refs = refs] ELSE seats[k]
  <2>1. IsList(seats)
    BY <1>2 DEF SeatsInv
  <2>2. PICK n \in Nat : DOMAIN seats = 1..n /\ seats = [k \in 1..n |-> seats[k]]
    BY <2>1, Listed
  <2>3. QED
    BY <2>2
<1> HIDE DEF new
<1>4. ASSUME NEW k \in DOMAIN seats
      PROVE  /\ new[k].domain = seats[k].domain /\ new[k].gap = seats[k].gap /\ SeatShaped(new[k])
  <2>1. CASE k = i
    <3>1. PICK id, domain, old, gap : seats[i] = [id |-> id, domain |-> domain, refs |-> old, gap |-> gap]
      BY <1>2 DEF SeatsInv, SeatShaped, Seat
    <3>2. new[k] = [id |-> id, domain |-> domain, refs |-> refs, gap |-> gap]
      BY <1>3, <2>1, <3>1
    <3>3. QED
      BY <2>1, <3>1, <3>2 DEF SeatShaped, Seat
  <2>2. CASE k # i
    BY <1>2, <1>3, <2>2 DEF SeatsInv
  <2>3. QED
    BY <2>1, <2>2
<1>5. IsList(seats)
  BY <1>2 DEF SeatsInv
<1>6. IsList(new) /\ Len(new) = Len(seats) /\ Len(seats) \in Nat
  BY <1>3, <1>5, ListMade, Listed
<1>7. SeatsInv(new, gaps) /\ GapsInv(gaps, new, unseated)
  <2>1. \A k \in DOMAIN new : SeatShaped(new[k]) /\ new[k].gap \in Int /\ -1 <= new[k].gap
                              /\ new[k].gap <= Len(gaps)
    BY <1>2, <1>3, <1>4 DEF SeatsInv
  <2>2. QED
    BY <1>2, <1>4, <1>6, <2>1, SeatsChange
<1>8. catalogSteps' \in 0..MaxCatalogSteps
  BY <1>1, CatalogStepCounts
<1>9. QED
  BY <1>1, <1>7, <1>8 DEF CatalogInv

(* A gap reported: closed only when its domain has a chair. *)
LEMMA GapReported ==
  ASSUME NEW list, NEW chairs, NEW lost, GapsInv(list, chairs, lost), NEW domain, NEW closed,
         closed => \E k \in DOMAIN chairs : chairs[k].domain = domain
  PROVE  /\ GapsInv(Append(list, [NewGap(domain) EXCEPT !.resolved = closed]), chairs, lost)
         /\ Len(Append(list, [NewGap(domain) EXCEPT !.resolved = closed])) = Len(list) + 1
         /\ Len(list) \in Nat
<1>1. PICK g : g = [NewGap(domain) EXCEPT !.resolved = closed]
  OBVIOUS
<1>2. g = [domain |-> domain, resolved |-> closed, submitted |-> FALSE]
  BY <1>1 DEF NewGap
<1>3. GapShaped(g) /\ g.resolved = closed /\ g.domain = domain
  BY <1>2 DEF GapShaped
<1>4. PICK new : new = Append(list, g)
  OBVIOUS
<1>5. /\ IsList(new) /\ Len(new) = Len(list) + 1 /\ DOMAIN new = 1..(Len(list) + 1)
      /\ \A i \in DOMAIN list : new[i] = list[i]
      /\ new[Len(list) + 1] = g
  BY <1>4, ListAppended DEF GapsInv
<1>6. Len(list) \in Nat /\ DOMAIN list = 1..Len(list)
  BY Listed DEF GapsInv
<1>7. ASSUME NEW i \in DOMAIN new
      PROVE  /\ GapShaped(new[i])
             /\ new[i].resolved => (\E k \in DOMAIN chairs : chairs[k].domain = new[i].domain) \/ i \in lost
  <2>1. CASE i \in DOMAIN list
    BY <1>5, <2>1 DEF GapsInv
  <2>2. CASE i = Len(list) + 1
    BY <1>3, <1>5, <2>2
  <2>3. QED
    BY <1>5, <1>6, <2>1, <2>2
<1>8. GapsInv(new, chairs, lost)
  BY <1>5, <1>7 DEF GapsInv
<1>9. QED
  BY <1>1, <1>4, <1>5, <1>6, <1>8

LEMMA PostGapKeeps ==
  ASSUME CatalogAssumption, CatalogInv, NEW domain \in GapDomains, NEW refused \in BOOLEAN, NEW done \in 0..3,
         PostGap(domain, refused, done)
  PROVE  CatalogInv'
<1>1. /\ CatalogMayDie(done < 3, specCache) /\ CatalogStep
      /\ UNCHANGED <<specFiles, syncState, unseated>>
  BY DEF PostGap
<1>2. SeatsInv(seats, gaps) /\ GapsInv(gaps, seats, unseated) /\ SpecsInv(specFiles, specCache, syncState)
  BY DEF CatalogInv
<1>3. /\ SpecsInv(specFiles, specCache', syncState) /\ catalogCrashes' \in 0..MaxCatalogCrashes
      /\ ProposalsInv(proposals') /\ regenerating' \subseteq regenerating
  BY <1>1, <1>2, CatalogDeath
<1>4. catalogSteps' \in 0..MaxCatalogSteps
  BY <1>1, CatalogStepCounts
<1>5. IsList(seats) /\ Len(seats) \in Nat /\ DOMAIN seats = 1..Len(seats) /\ Len(gaps) \in Nat
  BY <1>2, Listed DEF SeatsInv, GapsInv
<1>6. CASE domain = "none" \/ HasSeat(domain)
  <2>1. PICK closed : closed = (domain # "none" /\ done >= 2)
    OBVIOUS
  <2>2. /\ gaps' = IF done >= 1 THEN Append(gaps, [NewGap(domain) EXCEPT !.resolved = closed]) ELSE gaps
        /\ seats' = seats
    BY <1>6, <2>1 DEF PostGap, writeJsonAtomic
  <2>3. closed => \E k \in DOMAIN seats : seats[k].domain = domain
    BY <1>6, <2>1 DEF HasSeat
  <2>4. /\ GapsInv(Append(gaps, [NewGap(domain) EXCEPT !.resolved = closed]), seats, unseated)
        /\ Len(Append(gaps, [NewGap(domain) EXCEPT !.resolved = closed])) = Len(gaps) + 1
    BY <1>2, <2>3, GapReported
  <2>5. GapsInv(gaps', seats', unseated) /\ Len(gaps) <= Len(gaps') /\ Len(gaps') \in Nat
    BY <1>2, <1>5, <2>2, <2>4
  <2>6. SeatsInv(seats', gaps')
    BY <1>2, <1>5, <2>2, <2>5 DEF SeatsInv
  <2>7. unseated \subseteq DOMAIN gaps' /\ ReadInv(regenerating', gaps')
    BY <1>3, <2>5, ReportsGrow DEF GapsInv
  <2>8. QED
    BY <1>1, <1>3, <1>4, <2>5, <2>6, <2>7 DEF CatalogInv
<1>7. CASE ~(domain = "none" \/ HasSeat(domain))
  <2>1. PICK closed : closed = (~refused /\ done >= 3)
    OBVIOUS
  <2>2. PICK seat : seat = Seat(domain, domain, <<>>, Len(gaps) + 1)
    OBVIOUS
  <2>3. /\ gaps' = IF done >= 1 THEN Append(gaps, [NewGap(domain) EXCEPT !.resolved = closed]) ELSE gaps
        /\ seats' = IF ~refused /\ done >= 2 THEN Append(seats, seat) ELSE seats
    BY <1>7, <2>1, <2>2 DEF PostGap, SeatForGap, writeJsonAtomic
  <2>4. SeatShaped(seat) /\ seat.domain = domain /\ seat.gap = Len(gaps) + 1
    BY <2>2 DEF SeatShaped, Seat
  <2>5. /\ IsList(Append(seats, seat)) /\ Len(Append(seats, seat)) = Len(seats) + 1
        /\ DOMAIN Append(seats, seat) = 1..(Len(seats) + 1)
        /\ \A i \in DOMAIN seats : Append(seats, seat)[i] = seats[i]
        /\ Append(seats, seat)[Len(seats) + 1] = seat
    BY <1>5, ListAppended
  <2>6. PICK more : more = Append(seats, seat)
    OBVIOUS
  <2>7. /\ IsList(more)
        /\ \A i \in DOMAIN seats : i \in DOMAIN more /\ more[i] = seats[i]
        /\ \E i \in DOMAIN more : more[i].domain = domain
        /\ \A i \in DOMAIN more : more[i] = seat \/ \E k \in DOMAIN seats : more[i] = seats[k]
    <3>1. IsList(more) /\ DOMAIN more = 1..(Len(seats) + 1) /\ more[Len(seats) + 1] = seat
      BY <2>5, <2>6
    <3>2. \A i \in DOMAIN seats : i \in DOMAIN more /\ more[i] = seats[i]
      BY <1>5, <2>5, <2>6, <3>1
    <3>3. Len(seats) + 1 \in DOMAIN more
      BY <1>5, <3>1
    <3>4. \A i \in DOMAIN more : i \in DOMAIN seats \/ i = Len(seats) + 1
      BY <1>5, <3>1
    <3>5. QED
      BY <2>4, <3>1, <3>2, <3>3, <3>4
  <2>8. GapsInv(gaps, more, unseated)
    BY <1>2, <2>7 DEF GapsInv
  <2>9. CASE done = 0
    <3>1. gaps' = gaps /\ seats' = seats
      BY <2>3, <2>9
    <3>2. QED
      BY <1>1, <1>2, <1>3, <1>4, <3>1 DEF CatalogInv, ReadInv
  <2>10. CASE done >= 1 /\ ~(~refused /\ done >= 2)
    <3>a. (~refused /\ done >= 3) = FALSE
      BY <2>10
    <3>1. closed = FALSE
      BY <2>1, <3>a
    <3>2. /\ GapsInv(Append(gaps, [NewGap(domain) EXCEPT !.resolved = closed]), seats, unseated)
          /\ Len(Append(gaps, [NewGap(domain) EXCEPT !.resolved = closed])) = Len(gaps) + 1
      BY <1>2, <3>1, GapReported
    <3>b. /\ seats' = seats
          /\ gaps' = Append(gaps, [NewGap(domain) EXCEPT !.resolved = closed])
      BY <2>3, <2>10
    <3>3. GapsInv(gaps', seats', unseated) /\ Len(gaps) <= Len(gaps') /\ Len(gaps') \in Nat /\ seats' = seats
      BY <1>5, <3>2, <3>b
    <3>4. SeatsInv(seats', gaps')
      BY <1>2, <1>5, <3>3 DEF SeatsInv
    <3>5. unseated \subseteq DOMAIN gaps' /\ ReadInv(regenerating', gaps')
      BY <1>3, <3>3, ReportsGrow DEF GapsInv
    <3>6. QED
      BY <1>1, <1>3, <1>4, <3>3, <3>4, <3>5 DEF CatalogInv
  <2>11. CASE ~refused /\ done >= 2
    <3>1. /\ GapsInv(Append(gaps, [NewGap(domain) EXCEPT !.resolved = closed]), more, unseated)
          /\ Len(Append(gaps, [NewGap(domain) EXCEPT !.resolved = closed])) = Len(gaps) + 1
      <4>1. closed => \E k \in DOMAIN more : more[k].domain = domain
        BY <2>7
      <4> HIDE <2>7
      <4>2. QED
        BY <2>8, <4>1, GapReported
    <3>2. GapsInv(gaps', more, unseated) /\ Len(gaps') = Len(gaps) + 1 /\ seats' = more
      BY <2>3, <2>6, <2>11, <3>1
    <3>3. SeatsInv(more, gaps')
      BY <1>2, <1>5, <2>4, <2>7, <3>2 DEF SeatsInv
    <3>4. unseated \subseteq DOMAIN gaps' /\ ReadInv(regenerating', gaps')
      BY <1>3, <1>5, <3>2, ReportsGrow DEF GapsInv
    <3>5. QED
      BY <1>1, <1>3, <1>4, <3>2, <3>3, <3>4 DEF CatalogInv
  <2>12. QED
    BY <2>9, <2>10, <2>11
<1>8. QED
  BY <1>6, <1>7

LEMMA SubmitKeeps ==
  ASSUME CatalogAssumption, CatalogInv, NEW i \in DOMAIN gaps, SubmitGap(i)
  PROVE  CatalogInv'
<1> DEFINE new == [gaps EXCEPT ![i].submitted = TRUE]
<1>1. /\ gaps' = new /\ CatalogStep
      /\ UNCHANGED <<specFiles, specCache, seats, syncState, proposals, regenerating, unseated, catalogCrashes>>
  BY DEF SubmitGap
<1>2. SeatsInv(seats, gaps) /\ GapsInv(gaps, seats, unseated) /\ IsList(gaps)
  BY DEF CatalogInv, GapsInv
<1>3. /\ DOMAIN new = DOMAIN gaps /\ new = [k \in DOMAIN gaps |-> new[k]]
      /\ \A k \in DOMAIN gaps : new[k] = IF k = i THEN [gaps[i] EXCEPT !.submitted = TRUE] ELSE gaps[k]
  <2>1. PICK n \in Nat : DOMAIN gaps = 1..n /\ gaps = [k \in 1..n |-> gaps[k]]
    BY <1>2, Listed
  <2>2. QED
    BY <2>1
<1> HIDE DEF new
<1>4. IsList(new) /\ Len(new) = Len(gaps)
  BY <1>2, <1>3, ListMade
<1>5. ASSUME NEW k \in DOMAIN gaps
      PROVE  GapShaped(new[k]) /\ new[k].resolved = gaps[k].resolved /\ new[k].domain = gaps[k].domain
  <2>1. CASE k = i
    <3>1. PICK domain, resolved, submitted :
            gaps[i] = [domain |-> domain, resolved |-> resolved, submitted |-> submitted]
      BY <1>2 DEF GapsInv, GapShaped
    <3>2. new[k] = [domain |-> domain, resolved |-> resolved, submitted |-> TRUE]
      BY <1>3, <2>1, <3>1
    <3>3. QED
      BY <2>1, <3>1, <3>2 DEF GapShaped
  <2>2. CASE k # i
    BY <1>2, <1>3, <2>2 DEF GapsInv
  <2>3. QED
    BY <2>1, <2>2
<1>6. GapsInv(new, seats, unseated)
  BY <1>2, <1>3, <1>4, <1>5 DEF GapsInv
<1>7. SeatsInv(seats, new)
  BY <1>2, <1>4 DEF SeatsInv
<1>8. catalogSteps' \in 0..MaxCatalogSteps
  BY <1>1, CatalogStepCounts
<1>9. unseated \subseteq DOMAIN new /\ ReadInv(regenerating, new)
  BY <1>2, <1>4, ReportsGrow, Listed
<1>10. QED
  BY <1>1, <1>6, <1>7, <1>8, <1>9 DEF CatalogInv

LEMMA SyncKeeps ==
  ASSUME CatalogAssumption, CatalogInv, RunCatalogSync
  PROVE  CatalogInv'
<1> DEFINE cache == LoadAll(Unpinned)
           changed == {s \in Unpinned : cache[s] > syncState[s]}
<1>1. /\ syncState' = [s \in Specialists |-> IF s \in changed THEN cache[s] ELSE syncState[s]]
      /\ CatalogMayDie(FALSE, cache) /\ CatalogStep
      /\ UNCHANGED <<specFiles, seats, gaps, unseated>>
  BY DEF RunCatalogSync, SaveSyncState
<1>2. SpecsInv(specFiles, specCache, syncState)
  BY DEF CatalogInv
<1>3. SpecsInv(specFiles, cache, syncState)
  BY <1>2, Loaded
<1> HIDE DEF cache
<1>4. specCache' = cache /\ UNCHANGED <<catalogCrashes, proposals, regenerating>>
  BY <1>1 DEF CatalogMayDie
<1>5. ASSUME NEW s \in Specialists PROVE syncState'[s] \in Int /\ 0 <= syncState'[s] /\ syncState'[s] <= specFiles[s]
  <2>1. CASE s \in changed
    BY <1>1, <1>3, <2>1 DEF SpecsInv
  <2>2. CASE s \notin changed
    BY <1>1, <1>2, <2>2 DEF SpecsInv
  <2>3. QED
    BY <2>1, <2>2
<1>6. SpecsInv(specFiles, cache, syncState')
  BY <1>1, <1>3, <1>5 DEF SpecsInv
<1>7. catalogSteps' \in 0..MaxCatalogSteps
  BY <1>1, CatalogStepCounts
<1>8. QED
  BY <1>1, <1>4, <1>6, <1>7 DEF CatalogInv

LEMMA CorrectionKeeps ==
  ASSUME CatalogAssumption, CatalogInv, NEW c \in CorrectionsMade
  PROVE  /\ BeginCorrection(c) => CatalogInv'
         /\ \A opened, told \in BOOLEAN : EndCorrection(c, opened, told) => CatalogInv'
<1>1. PICK underway, opened, logged :
        proposals = [underway |-> underway, opened |-> opened, logged |-> logged]
        /\ opened \in Nat /\ logged \in Nat /\ logged <= opened
  BY DEF CatalogInv, ProposalsInv
<1>2. ASSUME BeginCorrection(c) PROVE CatalogInv'
  <2>1. proposals' = [underway |-> underway \cup {c}, opened |-> opened, logged |-> logged]
    BY <1>1, <1>2 DEF BeginCorrection
  <2>2. catalogSteps' \in 0..MaxCatalogSteps
    BY <1>2, CatalogStepCounts DEF BeginCorrection
  <2>3. UNCHANGED <<specFiles, specCache, seats, gaps, syncState, regenerating, unseated, catalogCrashes>>
    BY <1>2 DEF BeginCorrection
  <2>4. QED
    BY <1>1, <2>1, <2>2, <2>3 DEF CatalogInv, ProposalsInv
<1>3. ASSUME NEW o \in BOOLEAN, NEW told \in BOOLEAN, EndCorrection(c, o, told) PROVE CatalogInv'
  <2>1. PICK more \in 0..1, said \in 0..1 :
          more = (IF o THEN 1 ELSE 0) /\ said = (IF told THEN 1 ELSE 0)
    OBVIOUS
  <2>2. said <= more
    BY <1>3, <2>1 DEF EndCorrection
  <2>3. proposals' = [underway |-> underway \ {c}, opened |-> opened + more, logged |-> logged + said]
    BY <1>1, <1>3, <2>1 DEF EndCorrection
  <2>4. UNCHANGED <<specFiles, specCache, seats, gaps, syncState, regenerating, unseated,
                    catalogSteps, catalogCrashes>>
    BY <1>3 DEF EndCorrection
  <2>5. QED
    BY <1>1, <2>2, <2>3, <2>4 DEF CatalogInv, ProposalsInv
<1>4. QED
  BY <1>2, <1>3

(* Other chairs: a closed gap that has none among them is written down. *)
LEMMA Replaced ==
  ASSUME CatalogInv, NEW new, SeatsInv(new, gaps), NEW read, DOMAIN read = DOMAIN new,
         \A k \in DOMAIN new : read[k].domain = new[k].domain
  PROVE  /\ GapsInv(gaps, new, unseated \cup LeftOut(read))
         /\ unseated \cup LeftOut(read) \subseteq DOMAIN gaps
<1>1. \A i \in DOMAIN gaps :
        gaps[i].resolved => (\E k \in DOMAIN new : new[k].domain = gaps[i].domain) \/ i \in LeftOut(read)
  BY DEF LeftOut
<1>2. LeftOut(read) \subseteq DOMAIN gaps
  BY DEF LeftOut
<1>3. QED
  BY <1>1, <1>2 DEF CatalogInv, GapsInv

LEMMA ReplacementKeeps ==
  ASSUME CatalogAssumption, CatalogInv, NEW chairs \in WrittenBlueprints, ReplaceBlueprint(chairs)
  PROVE  CatalogInv'
<1>1. /\ seats' = chairs /\ unseated' = unseated \cup LeftOut(chairs) /\ CatalogStep
      /\ \A i \in DOMAIN chairs : chairs[i].gap <= Len(gaps)
      /\ UNCHANGED <<specFiles, specCache, gaps, syncState, proposals, regenerating, catalogCrashes>>
  BY DEF ReplaceBlueprint
<1>2. IsBlueprint(chairs)
  BY DEF CatalogAssumption
<1>3. SeatsInv(chairs, gaps)
  <2>1. IsList(chairs)
    BY <1>2 DEF IsBlueprint, IsList, Range
  <2>2. \A i \in DOMAIN chairs : SeatShaped(chairs[i]) /\ chairs[i].gap \in Int /\ -1 <= chairs[i].gap
    BY <1>2 DEF IsBlueprint, SeatShaped, FreshGap
  <2>3. QED
    BY <1>1, <2>1, <2>2 DEF SeatsInv
<1>4. GapsInv(gaps, chairs, unseated') /\ unseated' \subseteq DOMAIN gaps
  BY <1>1, <1>3, Replaced
<1>5. catalogSteps' \in 0..MaxCatalogSteps
  BY <1>1, CatalogStepCounts
<1>6. QED
  BY <1>1, <1>3, <1>4, <1>5 DEF CatalogInv

LEMMA RegenerationKeeps ==
  ASSUME CatalogAssumption, CatalogInv
  PROVE  /\ \A domain : BeginRegeneration(domain) => CatalogInv'
         /\ \A g \in regenerating : \A refs, failed : EndRegeneration(g, refs, failed) => CatalogInv'
<1>1. ASSUME NEW domain, BeginRegeneration(domain) PROVE CatalogInv'
  <2>1. /\ regenerating' = regenerating \cup {[domain |-> domain, chairs |-> seats]} /\ CatalogStep
        /\ UNCHANGED <<specFiles, specCache, seats, gaps, syncState, proposals, unseated, catalogCrashes>>
    BY <1>1 DEF BeginRegeneration
  <2>2. ReadInv(regenerating', gaps)
    BY <2>1 DEF CatalogInv, ReadInv
  <2>3. catalogSteps' \in 0..MaxCatalogSteps
    BY <2>1, CatalogStepCounts
  <2>4. QED
    BY <2>1, <2>2, <2>3 DEF CatalogInv
<1>2. ASSUME NEW g \in regenerating, NEW refs, NEW failed, EndRegeneration(g, refs, failed) PROVE CatalogInv'
  <2> DEFINE new == regenerateChairWorkers(g, refs)
  <2>1. /\ regenerating' = regenerating \ {g}
        /\ IF failed THEN UNCHANGED <<seats, unseated>>
           ELSE seats' = new /\ unseated' = unseated \cup LeftOut(g.chairs)
        /\ UNCHANGED <<specFiles, specCache, gaps, syncState, proposals, catalogSteps, catalogCrashes>>
    BY <1>2 DEF EndRegeneration
  <2>2. SeatsInv(g.chairs, gaps) /\ Len(gaps) \in Nat
    BY Listed DEF CatalogInv, ReadInv, GapsInv
  <2>3. PICK id : new = [i \in DOMAIN g.chairs |->
                           IF g.chairs[i].domain = g.domain THEN Seat(id, g.domain, refs, NoGap) ELSE g.chairs[i]]
    <3>1. PICK first : first = CHOOSE i \in DOMAIN g.chairs :
                                 /\ g.chairs[i].domain = g.domain
                                 /\ \A k \in 1..(i - 1) : g.chairs[k].domain # g.domain
      OBVIOUS
    <3>2. new = [i \in DOMAIN g.chairs |->
                   IF g.chairs[i].domain = g.domain THEN Seat(g.chairs[first].id, g.domain, refs, NoGap)
                   ELSE g.chairs[i]]
      BY <3>1 DEF regenerateChairWorkers
    <3>3. QED
      BY <3>2
  <2> HIDE DEF new
  <2>4. DOMAIN new = DOMAIN g.chairs /\ new = [i \in DOMAIN g.chairs |-> new[i]]
    BY <2>3
  <2>5. IsList(new)
    BY <2>2, <2>4, ListMade DEF SeatsInv
  <2>6. ASSUME NEW i \in DOMAIN new
        PROVE  /\ SeatShaped(new[i]) /\ new[i].gap \in Int /\ -1 <= new[i].gap /\ new[i].gap <= Len(gaps)
               /\ g.chairs[i].domain = new[i].domain
    <3>1. CASE g.chairs[i].domain = g.domain
      BY <2>2, <2>3, <2>4, <3>1 DEF Seat, SeatShaped, NoGap
    <3>2. CASE g.chairs[i].domain # g.domain
      BY <2>2, <2>3, <2>4, <3>2 DEF SeatsInv
    <3>3. QED
      BY <3>1, <3>2
  <2>7. SeatsInv(new, gaps)
    BY <2>5, <2>6 DEF SeatsInv
  <2>8. /\ GapsInv(gaps, new, unseated \cup LeftOut(g.chairs))
        /\ unseated \cup LeftOut(g.chairs) \subseteq DOMAIN gaps
    BY <2>4, <2>6, <2>7, Replaced
  <2>9. SeatsInv(seats', gaps) /\ GapsInv(gaps, seats', unseated') /\ unseated' \subseteq DOMAIN gaps
    BY <2>1, <2>7, <2>8 DEF CatalogInv
  <2>10. ReadInv(regenerating', gaps)
    BY <2>1 DEF CatalogInv, ReadInv
  <2>11. QED
    BY <2>1, <2>9, <2>10 DEF CatalogInv
<1>3. QED
  BY <1>1, <1>2

LEMMA CatalogInvStep == CatalogAssumption /\ CatalogInv /\ [CatalogNext]_catalogVars => CatalogInv'
<1> SUFFICES ASSUME CatalogAssumption, CatalogInv, [CatalogNext]_catalogVars PROVE CatalogInv'
  OBVIOUS
<1>1. CASE UNCHANGED catalogVars
  BY <1>1 DEF catalogVars, CatalogInv
<1>2. ASSUME NEW uncovered \in BOOLEAN, NEW cut \in BOOLEAN, ResolveSpecialists(uncovered, cut) PROVE CatalogInv'
  BY <1>2, ResolveKeeps
<1>3. ASSUME NEW done \in 0..2, ConfirmSpecialists(done) PROVE CatalogInv'
  BY <1>3, ConfirmKeeps
<1>4. ASSUME NEW i \in DOMAIN seats, NEW slug \in Specialists, NEW pinned \in BOOLEAN,
             OverrideSpecialists(i, slug, pinned)
      PROVE  CatalogInv'
  BY <1>4, OverrideKeeps
<1>5. ASSUME NEW domain \in GapDomains, NEW refused \in BOOLEAN, NEW done \in 0..3, PostGap(domain, refused, done)
      PROVE  CatalogInv'
  BY <1>5, PostGapKeeps
<1>6. ASSUME NEW i \in DOMAIN gaps, SubmitGap(i) PROVE CatalogInv'
  BY <1>6, SubmitKeeps
<1>7. ASSUME RunCatalogSync PROVE CatalogInv'
  BY <1>7, SyncKeeps
<1>8. ASSUME NEW s \in Specialists, UpdateSpec(s) PROVE CatalogInv'
  <2>1. /\ specFiles' = [specFiles EXCEPT ![s] = @ + 1] /\ specFiles[s] < MaxSpecVersion
        /\ UNCHANGED <<specCache, seats, gaps, syncState, proposals, regenerating, unseated,
                       catalogSteps, catalogCrashes>>
    BY <1>8 DEF UpdateSpec
  <2>2. SpecsInv(specFiles', specCache, syncState)
    BY <2>1 DEF CatalogInv, SpecsInv, CatalogAssumption
  <2>3. QED
    BY <2>1, <2>2 DEF CatalogInv
<1>9. ASSUME NEW c \in CorrectionsMade, BeginCorrection(c) PROVE CatalogInv'
  BY <1>9, CorrectionKeeps
<1>10. ASSUME NEW c \in CorrectionsMade, NEW opened \in BOOLEAN, NEW told \in BOOLEAN,
              EndCorrection(c, opened, told)
       PROVE  CatalogInv'
  BY <1>10, CorrectionKeeps
<1>11. ASSUME CatalogRestart PROVE CatalogInv'
  <2>1. CatalogMayDie(TRUE, specCache) /\ UNCHANGED <<specFiles, seats, gaps, syncState, unseated, catalogSteps>>
    BY <1>11 DEF CatalogRestart
  <2>2. /\ SpecsInv(specFiles, specCache', syncState) /\ catalogCrashes' \in 0..MaxCatalogCrashes
        /\ ProposalsInv(proposals') /\ regenerating' \subseteq regenerating
    BY <2>1, CatalogDeath DEF CatalogInv
  <2>3. QED
    BY <2>1, <2>2 DEF CatalogInv, ReadInv
<1>12. ASSUME NEW chairs \in WrittenBlueprints, ReplaceBlueprint(chairs) PROVE CatalogInv'
  BY <1>12, ReplacementKeeps
<1>13. ASSUME NEW i \in DOMAIN seats, BeginRegeneration(seats[i].domain) PROVE CatalogInv'
  BY <1>13, RegenerationKeeps
<1>14. ASSUME NEW g \in regenerating, NEW slug \in Specialists, NEW failed \in BOOLEAN,
              EndRegeneration(g, <<[slug |-> slug, pinned |-> FALSE]>>, failed)
       PROVE  CatalogInv'
  BY <1>14, RegenerationKeeps
<1>15. ASSUME \/ \E chairs \in WrittenBlueprints : ReplaceBlueprint(chairs)
              \/ \E i \in DOMAIN seats : BeginRegeneration(seats[i].domain)
              \/ \E g \in regenerating, slug \in Specialists, failed \in BOOLEAN :
                    EndRegeneration(g, <<[slug |-> slug, pinned |-> FALSE]>>, failed)
       PROVE  CatalogInv'
  BY <1>12, <1>13, <1>14, <1>15
<1>16. QED
  BY <1>1, <1>2, <1>3, <1>4, <1>5, <1>6, <1>7, <1>8, <1>9, <1>10, <1>11, <1>15 DEF CatalogNext

(* A gap is closed only with a chair of its domain on file, which only a   *)
(* blueprint that leaves it out takes away, and versions and counts of the *)
(* catalog stay in their bounds (routes/org.ts, routes/interview.ts,       *)
(* lib/labor-commons-client.ts), for every catalog, every number of chairs *)
(* and gaps, every blueprint written by others and every crash.            *)
THEOREM GapsHaveChairs == CatalogSpec => [](CatalogTypeOK /\ ClosedGapsHaveChairs)
  BY CatalogAssumption, CatalogFromInv, CatalogInvInit, CatalogInvStep, PTL DEF CatalogSpec

-----------------------------------------------------------------------------
(* The execution engine.  The inductive invariant: whom a run charged is   *)
(* within the budgets after every agent, the last run let nobody else      *)
(* spend, and the log's runs are the recorded ones and one for each crash. *)
(* A part spends no more than the whole.                                   *)
LEMMA PartOfSum ==
  ASSUME NEW S, IsFiniteSet(S), NEW f, \A x \in S : f[x] \in Nat, NEW T \in SUBSET S
  PROVE  SumFunctionOnSet(f, T) <= SumFunctionOnSet(f, S)
<1> DEFINE P == {t \in SUBSET S : SumFunctionOnSet(f, T \cap t) <= SumFunctionOnSet(f, t)}
<1>0. \A t \in SUBSET S : IsFiniteSet(t) /\ IsFiniteSet(T \cap t)
  BY FS_Subset
<1>1. {} \in P
  <2>1. T \cap {} = {}
    OBVIOUS
  <2>2. SumFunctionOnSet(f, {}) = 0
    BY FS_EmptySet, SumOfZeros
  <2>3. QED
    BY <2>1, <2>2
<1>2. ASSUME NEW t \in SUBSET S, t # {}, \A x \in t : t \ {x} \in P PROVE t \in P
  <2>1. PICK x : x \in t
    BY <1>2
  <2>2. SumFunctionOnSet(f, T \cap (t \ {x})) <= SumFunctionOnSet(f, t \ {x})
    BY <1>2, <2>1
  <2>3. SumFunctionOnSet(f, t) = f[x] + SumFunctionOnSet(f, t \ {x})
    <3>1. IsFiniteSet(t)
      BY <1>0
    <3>2. \A y \in t : f[y] \in Int
      <4>1. \A y \in t : y \in S
        OBVIOUS
      <4>2. QED
        BY <4>1
    <3>3. QED
      BY <2>1, <3>1, <3>2, SumWithout
  <2>4. f[x] \in Nat /\ SumFunctionOnSet(f, t \ {x}) \in Nat /\ SumFunctionOnSet(f, T \cap (t \ {x})) \in Nat
    <3>1. t \ {x} \in SUBSET S
      OBVIOUS
    <3>2. IsFiniteSet(t \ {x}) /\ IsFiniteSet(T \cap (t \ {x}))
      BY <1>0, <3>1
    <3>3. (\A y \in t \ {x} : f[y] \in Nat) /\ (\A y \in T \cap (t \ {x}) : f[y] \in Nat) /\ f[x] \in Nat
      BY <2>1
    <3>4. QED
      BY <3>2, <3>3, SumType
  <2>5. CASE x \in T
    <3>1. IsFiniteSet(T \cap t) /\ (\A y \in T \cap t : f[y] \in Int) /\ x \in T \cap t
      BY <1>0, <2>1, <2>5
    <3>2. SumFunctionOnSet(f, T \cap t) = f[x] + SumFunctionOnSet(f, (T \cap t) \ {x})
      BY <3>1, SumWithout
    <3>3. (T \cap t) \ {x} = T \cap (t \ {x})
      OBVIOUS
    <3>4. SumFunctionOnSet(f, T \cap t) = f[x] + SumFunctionOnSet(f, T \cap (t \ {x}))
      BY <3>2, <3>3
    <3>5. QED
      BY <2>2, <2>3, <2>4, <3>4
  <2>6. CASE x \notin T
    <3>1. T \cap t = T \cap (t \ {x})
      BY <2>6
    <3>2. SumFunctionOnSet(f, T \cap t) = SumFunctionOnSet(f, T \cap (t \ {x}))
      BY <3>1
    <3>3. QED
      BY <2>2, <2>3, <2>4, <3>2
  <2>7. SumFunctionOnSet(f, T \cap t) <= SumFunctionOnSet(f, t)
    BY <2>5, <2>6
  <2>8. QED
    BY <2>7
<1>3. P = SUBSET S
  <2> HIDE DEF P
  <2>1. P \subseteq SUBSET S
    BY DEF P
  <2>2. QED
    BY <1>1, <1>2, <2>1, SubsetsByInduction
<1>4. T \cap S = T
  OBVIOUS
<1>5. QED
  BY <1>3, <1>4

LEMMA SpendType == \A agent : SpendOf(agent) \in {0, 100}
  BY DEF SpendOf, financialSpendProfile

(* What agents spent: of some of them no more, with one more at most as    *)
(* much more as that one spends.                                           *)
LEMMA SpentProperties ==
  ASSUME NEW all, IsFiniteSet(all), NEW unit, NEW name
  PROVE  /\ Spent(all, unit, name) \in Nat
         /\ \A some \in SUBSET all : Spent(some, unit, name) <= Spent(all, unit, name)
         /\ \A b \in all : /\ Spent(all, unit, name) <= Spent(all \ {b}, unit, name) + SpendOf(b)
                           /\ b[unit] # name => Spent(all, unit, name) = Spent(all \ {b}, unit, name)
<1> DEFINE f == [a \in all |-> SpendOf(a)]
           of(set) == {a \in set : a[unit] = name}
<1>1. \A x \in all : f[x] \in Nat
  BY SpendType
<1>2. ASSUME NEW some \in SUBSET all
      PROVE  IsFiniteSet(of(some)) /\ Spent(some, unit, name) = SumFunctionOnSet(f, of(some))
  <2> DEFINE g == [a \in some |-> SpendOf(a)]
  <2>1. IsFiniteSet(of(some))
    BY FS_Subset
  <2>2. \A x \in of(some) : f[x] = g[x] /\ f[x] \in Int /\ g[x] \in Int /\ f[x] <= g[x] /\ g[x] <= f[x]
    BY SpendType
  <2>3. Spent(some, unit, name) = SumFunctionOnSet(g, of(some))
    BY DEF Spent
  <2> HIDE DEF f, g, of
  <2>4. SumFunctionOnSet(f, of(some)) <= SumFunctionOnSet(g, of(some))
    BY <2>1, <2>2, SumMonotone
  <2>5. SumFunctionOnSet(g, of(some)) <= SumFunctionOnSet(f, of(some))
    BY <2>1, <2>2, SumMonotone
  <2>6. SumFunctionOnSet(f, of(some)) \in Int /\ SumFunctionOnSet(g, of(some)) \in Int
    BY <2>1, <2>2, SumType
  <2>7. QED
    BY <2>1, <2>3, <2>4, <2>5, <2>6
<1>3. Spent(all, unit, name) \in Nat
  <2>1. IsFiniteSet(of(all)) /\ Spent(all, unit, name) = SumFunctionOnSet(f, of(all))
    BY <1>2
  <2>2. \A x \in of(all) : f[x] \in Nat
    BY <1>1
  <2> HIDE DEF f, of
  <2>3. QED
    BY <2>1, <2>2, SumType
<1>4. ASSUME NEW some \in SUBSET all PROVE Spent(some, unit, name) <= Spent(all, unit, name)
  <2>1. of(some) \in SUBSET of(all) /\ (\A x \in of(all) : f[x] \in Nat)
    BY <1>1
  <2>2. Spent(some, unit, name) = SumFunctionOnSet(f, of(some))
    BY <1>2
  <2>3. IsFiniteSet(of(all)) /\ Spent(all, unit, name) = SumFunctionOnSet(f, of(all))
    BY <1>2
  <2> HIDE DEF f, of
  <2>4. QED
    BY <2>1, <2>2, <2>3, PartOfSum
<1>5. ASSUME NEW b \in all
      PROVE  /\ Spent(all, unit, name) <= Spent(all \ {b}, unit, name) + SpendOf(b)
             /\ b[unit] # name => Spent(all, unit, name) = Spent(all \ {b}, unit, name)
  <2>1. Spent(all \ {b}, unit, name) = SumFunctionOnSet(f, of(all \ {b}))
    BY <1>2
  <2>2. IsFiniteSet(of(all)) /\ Spent(all, unit, name) = SumFunctionOnSet(f, of(all))
    BY <1>2
  <2>3. /\ b \in of(all) => of(all \ {b}) = of(all) \ {b}
        /\ b \notin of(all) => of(all \ {b}) = of(all)
        /\ b[unit] # name => b \notin of(all)
        /\ \A x \in of(all) : f[x] \in Int
        /\ f[b] = SpendOf(b)
    BY <1>1
  <2>4. SpendOf(b) \in Nat /\ IsFiniteSet(all \ {b})
    BY SpendType, FS_Subset
  <2>5. SumFunctionOnSet(f, of(all)) \in Nat
    BY <1>3, <2>2
  <2> HIDE DEF f, of
  <2>6. b \in of(all) => SumFunctionOnSet(f, of(all)) = f[b] + SumFunctionOnSet(f, of(all) \ {b})
    BY <2>2, <2>3, SumWithout
  <2>7. IsFiniteSet(of(all) \ {b}) /\ \A x \in of(all) \ {b} : f[x] \in Int
    BY <2>2, <2>3, FS_Subset
  <2>8. SumFunctionOnSet(f, of(all) \ {b}) \in Int
    BY <2>7, SumType
  <2>9. CASE b \in of(all)
    <3>1. Spent(all \ {b}, unit, name) = SumFunctionOnSet(f, of(all) \ {b})
      BY <2>1, <2>3, <2>9
    <3>2. Spent(all, unit, name) = SpendOf(b) + Spent(all \ {b}, unit, name)
      BY <2>2, <2>3, <2>6, <2>9, <3>1
    <3>3. Spent(all \ {b}, unit, name) \in Int
      BY <2>8, <3>1
    <3>4. QED
      BY <2>3, <2>4, <2>9, <3>2, <3>3
  <2>10. CASE b \notin of(all)
    <3>1. Spent(all, unit, name) = Spent(all \ {b}, unit, name)
      BY <2>1, <2>2, <2>3, <2>10
    <3>2. QED
      BY <1>3, <2>4, <3>1
  <2>11. QED
    BY <2>9, <2>10
<1>6. QED
  BY <1>3, <1>4, <1>5

-----------------------------------------------------------------------------
(* Who is charged after k agents is what the code's loop makes it.         *)
Charges(g, agents, n) ==
    g = [k \in 0..n |-> IF k = 0 THEN {}
                        ELSE g[k - 1] \cup {a \in {agents[k]} : Enveloped(a, g[k - 1]) # "blocked"}]

LEMMA ChargedOneByOne ==
  ASSUME NEW agents, Len(agents) \in Nat
  PROVE  Charges(ChargedAfter(agents), agents, Len(agents))
<1> DEFINE P == {n \in Nat : \E g : Charges(g, agents, n)}
<1>1. 0 \in P
  <2> DEFINE g == [k \in 0..0 |-> {}]
  <2>1. g = [k \in 0..0 |-> IF k = 0 THEN {}
                            ELSE g[k - 1] \cup {a \in {agents[k]} : Enveloped(a, g[k - 1]) # "blocked"}]
    OBVIOUS
  <2> HIDE DEF g
  <2>2. Charges(g, agents, 0)
    BY <2>1 DEF Charges
  <2>3. QED
    BY <2>2
<1>2. ASSUME NEW n \in P PROVE n + 1 \in P
  <2>1. n \in Nat
    OBVIOUS
  <2>2. PICK h : Charges(h, agents, n)
    OBVIOUS
  <2> DEFINE next(k) == h[k - 1] \cup {a \in {agents[k]} : Enveloped(a, h[k - 1]) # "blocked"}
             g == [k \in 0..(n + 1) |-> IF k = 0 THEN {} ELSE next(k)]
  <2>3. ASSUME NEW k \in 0..n PROVE g[k] = h[k]
    <3>1. h[k] = IF k = 0 THEN {} ELSE next(k)
      BY <2>2 DEF Charges
    <3>2. k \in 0..(n + 1)
      BY <2>1
    <3>3. g[k] = IF k = 0 THEN {} ELSE next(k)
      BY <3>2
    <3>4. QED
      BY <3>1, <3>3
  <2>4. ASSUME NEW k \in 0..(n + 1)
        PROVE  g[k] = IF k = 0 THEN {}
                      ELSE g[k - 1] \cup {a \in {agents[k]} : Enveloped(a, g[k - 1]) # "blocked"}
    <3>1. CASE k = 0
      BY <3>1
    <3>2. CASE k # 0
      <4>1. k - 1 \in 0..n
        BY <2>1, <3>2
      <4>2. g[k] = next(k)
        BY <3>2
      <4>3. g[k - 1] = h[k - 1]
        BY <2>3, <4>1
      <4> HIDE DEF g
      <4>4. QED
        BY <3>2, <4>2, <4>3
    <3>3. QED
      BY <3>1, <3>2
  <2>5. DOMAIN g = 0..(n + 1) /\ g = [k \in 0..(n + 1) |-> g[k]]
    OBVIOUS
  <2> HIDE DEF g
  <2>6. Charges(g, agents, n + 1)
    BY <2>4, <2>5 DEF Charges
  <2>7. QED
    BY <2>1, <2>6
<1>3. P = Nat
  <2> HIDE DEF P
  <2>1. P \subseteq Nat
    BY DEF P
  <2>2. QED
    BY <1>1, <1>2, <2>1, NumbersByInduction
<1>4. \E g : Charges(g, agents, Len(agents))
  BY <1>3
<1>5. ChargedAfter(agents) = CHOOSE g : Charges(g, agents, Len(agents))
  BY DEF ChargedAfter, Charges
<1>6. QED
  BY <1>4, <1>5

(* Agents of one department share its cap, and those of one chair that     *)
(* spend share the chair's.                                                *)
SameCaps(a, b) ==
    /\ a.dept = b.dept => a.deptCap = b.deptCap
    /\ a.chair = b.chair /\ SpendOf(a) > 0 /\ SpendOf(b) > 0 => a.chairCap = b.chairCap

Agents(agents) ==
    /\ Len(agents) \in Nat /\ DOMAIN agents = 1..Len(agents)
    /\ \A k \in DOMAIN agents : /\ agents[k].cap \in Int /\ agents[k].deptCap \in Int
                                /\ agents[k].chairCap \in Int
    /\ \A j, k \in DOMAIN agents : SameCaps(agents[j], agents[k])

(* What was charged is within the budgets.                                 *)
InBudget(charged, agents) ==
    /\ IsFiniteSet(charged)
    /\ charged \subseteq {agents[k] : k \in DOMAIN agents}
    /\ \A a \in charged : SpendOf(a) > 0 => /\ Spent(charged, "dept", a.dept) <= a.deptCap
                                            /\ Spent(charged, "chair", a.chair) <= a.chairCap

(* One agent more, which the envelope let pass.                            *)
LEMMA ChargeStaysInBudget ==
  ASSUME NEW agents, Agents(agents), NEW charged, InBudget(charged, agents), NEW k \in DOMAIN agents,
         Enveloped(agents[k], charged) # "blocked"
  PROVE  InBudget(charged \cup {agents[k]}, agents)
<1>1. PICK b : b = agents[k]
  OBVIOUS
<1>2. PICK all : all = charged \cup {b}
  OBVIOUS
<1>3. IsFiniteSet(all) /\ all \subseteq {agents[i] : i \in DOMAIN agents}
  <2>1. IsFiniteSet(charged) /\ charged \subseteq {agents[i] : i \in DOMAIN agents}
    BY DEF InBudget
  <2>2. IsFiniteSet(charged \cup {b})
    BY <2>1, FS_AddElement
  <2>3. QED
    BY <1>1, <1>2, <2>1, <2>2
<1>4. CASE b \in charged
  <2>1. all = charged
    BY <1>2, <1>4
  <2>2. QED
    BY <1>1, <1>2, <2>1
<1>5. CASE b \notin charged
  <2>1. all \ {b} = charged /\ b \in all
    BY <1>2, <1>5
  <2>2. SpendOf(b) \in {0, 100}
    BY SpendType
  <2>3. SpendOf(b) > 0 => /\ Spent(charged, "dept", b.dept) + SpendOf(b) <= b.deptCap
                          /\ Spent(charged, "chair", b.chair) + SpendOf(b) <= b.chairCap
    <3>1. ~(SpendOf(b) > 0 /\ \/ Spent(charged, "dept", b.dept) + SpendOf(b) > b.deptCap
                              \/ Spent(charged, "chair", b.chair) + SpendOf(b) > b.chairCap)
      BY <1>1 DEF Enveloped, applyOrgEnvelope
    <3>2. Spent(charged, "dept", b.dept) \in Nat /\ Spent(charged, "chair", b.chair) \in Nat
      BY SpentProperties DEF InBudget
    <3>3. b.deptCap \in Int /\ b.chairCap \in Int
      BY <1>1 DEF Agents
    <3>4. QED
      BY <2>2, <3>1, <3>2, <3>3
  <2>4. ASSUME NEW unit, NEW name
        PROVE  /\ Spent(all, unit, name) \in Nat /\ Spent(charged, unit, name) \in Nat
               /\ Spent(all, unit, name) <= Spent(charged, unit, name) + SpendOf(b)
               /\ b[unit] # name => Spent(all, unit, name) = Spent(charged, unit, name)
    <3>1. IsFiniteSet(charged)
      BY DEF InBudget
    <3>2. QED
      BY <1>3, <2>1, <3>1, SpentProperties
  <2>5. ASSUME NEW a \in all, SpendOf(a) > 0
        PROVE  Spent(all, "dept", a.dept) <= a.deptCap /\ Spent(all, "chair", a.chair) <= a.chairCap
    <3>1. a.deptCap \in Int /\ a.chairCap \in Int /\ SameCaps(a, b)
      BY <1>1, <1>3 DEF Agents
    <3>2. CASE a = b
      BY <2>2, <2>3, <2>4, <2>5, <3>1, <3>2
    <3>3. CASE a # b
      <4>1. Spent(charged, "dept", a.dept) <= a.deptCap /\ Spent(charged, "chair", a.chair) <= a.chairCap
        BY <1>2, <2>5, <3>3 DEF InBudget
      <4>2. CASE SpendOf(b) = 0
        BY <2>4, <3>1, <4>1, <4>2
      <4>3. CASE SpendOf(b) > 0
        <5>1. Spent(all, "dept", a.dept) <= a.deptCap
          <6>1. CASE a.dept = b.dept
            <7>1. a.deptCap = b.deptCap
              BY <3>1, <6>1 DEF SameCaps
            <7>2. Spent(all, "dept", b.dept) <= Spent(charged, "dept", b.dept) + SpendOf(b)
                  /\ Spent(all, "dept", b.dept) \in Nat /\ Spent(charged, "dept", b.dept) \in Nat
              BY <2>4
            <7>3. Spent(charged, "dept", b.dept) + SpendOf(b) <= b.deptCap
              BY <2>3, <4>3
            <7>4. QED
              BY <2>2, <3>1, <6>1, <7>1, <7>2, <7>3
          <6>2. CASE a.dept # b.dept
            <7>1. b["dept"] # a.dept
              BY <6>2
            <7>2. Spent(all, "dept", a.dept) = Spent(charged, "dept", a.dept)
              BY <2>4, <7>1
            <7>3. QED
              BY <4>1, <7>2
          <6>3. QED
            BY <6>1, <6>2
        <5>2. Spent(all, "chair", a.chair) <= a.chairCap
          <6>1. CASE a.chair = b.chair
            <7>1. a.chairCap = b.chairCap
              BY <2>5, <3>1, <4>3, <6>1 DEF SameCaps
            <7>2. Spent(all, "chair", b.chair) <= Spent(charged, "chair", b.chair) + SpendOf(b)
                  /\ Spent(all, "chair", b.chair) \in Nat /\ Spent(charged, "chair", b.chair) \in Nat
              BY <2>4
            <7>3. Spent(charged, "chair", b.chair) + SpendOf(b) <= b.chairCap
              BY <2>3, <4>3
            <7>4. QED
              BY <2>2, <3>1, <6>1, <7>1, <7>2, <7>3
          <6>2. CASE a.chair # b.chair
            <7>1. b["chair"] # a.chair
              BY <6>2
            <7>2. Spent(all, "chair", a.chair) = Spent(charged, "chair", a.chair)
              BY <2>4, <7>1
            <7>3. QED
              BY <4>1, <7>2
          <6>3. QED
            BY <6>1, <6>2
        <5>3. QED
          BY <5>1, <5>2
      <4>4. QED
        BY <2>2, <4>2, <4>3
    <3>4. QED
      BY <3>2, <3>3
  <2>6. QED
    BY <1>1, <1>2, <1>3, <2>5 DEF InBudget
<1>6. QED
  BY <1>4, <1>5

(* Whom the loop charged is within the budgets after every agent, and who  *)
(* passed the envelope is charged in the end.                              *)
LEMMA ChargesStayInBudget ==
  ASSUME NEW agents, Agents(agents)
  PROVE  /\ InBudget(ChargedAfter(agents)[Len(agents)], agents)
         /\ \A k \in DOMAIN agents :
              Enveloped(agents[k], ChargedAfter(agents)[k - 1]) # "blocked" =>
                agents[k] \in ChargedAfter(agents)[Len(agents)]
<1>1. PICK n : n = Len(agents)
  OBVIOUS
<1>2. n \in Nat /\ DOMAIN agents = 1..n
  BY <1>1 DEF Agents
<1>3. PICK g : g = ChargedAfter(agents)
  OBVIOUS
<1> DEFINE with(k, s) == s \cup {a \in {agents[k]} : Enveloped(a, s) # "blocked"}
<1>4. g[0] = {} /\ \A k \in 0..n : k # 0 => g[k] = with(k, g[k - 1])
  <2>1. Charges(g, agents, n)
    BY <1>1, <1>2, <1>3, ChargedOneByOne
  <2>2. g = [k \in 0..n |-> IF k = 0 THEN {} ELSE with(k, g[k - 1])]
    BY <2>1 DEF Charges
  <2> HIDE DEF with
  <2>3. 0 \in 0..n
    BY <1>2
  <2>4. QED
    BY <2>2, <2>3
<1> DEFINE passed(k) == Enveloped(agents[k], g[k - 1]) # "blocked"
           P == {k \in Nat : k <= n => /\ InBudget(g[k], agents)
                                       /\ \A j \in 1..k : passed(j) => agents[j] \in g[k]}
<1>5. 0 \in P
  <2>1. g[0] = {}
    BY <1>2, <1>4
  <2>2. InBudget(g[0], agents)
    BY <2>1, FS_EmptySet DEF InBudget
  <2>3. QED
    BY <2>2
<1>6. ASSUME NEW k \in P PROVE k + 1 \in P
  <2>1. k \in Nat /\ (k + 1) - 1 = k
    OBVIOUS
  <2>2. SUFFICES ASSUME k + 1 <= n
                 PROVE  /\ InBudget(g[k + 1], agents)
                        /\ \A j \in 1..(k + 1) : passed(j) => agents[j] \in g[k + 1]
    BY <2>1
  <2>3. InBudget(g[k], agents) /\ \A j \in 1..k : passed(j) => agents[j] \in g[k]
    BY <1>2, <2>1, <2>2
  <2>4. k + 1 \in DOMAIN agents /\ k + 1 \in 0..n /\ k + 1 # 0
    BY <1>2, <2>1, <2>2
  <2>5. g[k + 1] = g[k] \cup {a \in {agents[k + 1]} : Enveloped(a, g[k]) # "blocked"}
    <3> HIDE DEF with
    <3>1. g[k + 1] = with(k + 1, g[k])
      BY <1>4, <2>1, <2>4
    <3>2. QED
      BY <3>1 DEF with
  <2>6. CASE Enveloped(agents[k + 1], g[k]) # "blocked"
    <3>1. g[k + 1] = g[k] \cup {agents[k + 1]}
      BY <2>5, <2>6
    <3>2. InBudget(g[k] \cup {agents[k + 1]}, agents)
      BY <2>3, <2>4, <2>6, ChargeStaysInBudget
    <3>3. \A j \in 1..(k + 1) : j \in 1..k \/ j = k + 1
      BY <2>1
    <3>4. QED
      BY <2>3, <3>1, <3>2, <3>3
  <2>7. CASE ~(Enveloped(agents[k + 1], g[k]) # "blocked")
    <3>1. g[k + 1] = g[k]
      BY <2>5, <2>7
    <3>2. \A j \in 1..(k + 1) : j \in 1..k \/ j = k + 1
      BY <2>1
    <3>3. ~passed(k + 1)
      BY <2>1, <2>7
    <3>4. QED
      BY <2>3, <3>1, <3>2, <3>3
  <2>8. QED
    BY <2>6, <2>7
<1>7. P = Nat
  <2> HIDE DEF P
  <2>1. P \subseteq Nat
    BY DEF P
  <2>2. QED
    BY <1>5, <1>6, <2>1, NumbersByInduction
<1>8. n \in P
  BY <1>2, <1>7
<1>9. InBudget(g[n], agents) /\ \A j \in 1..n : passed(j) => agents[j] \in g[n]
  BY <1>2, <1>8
<1>10. QED
  BY <1>1, <1>2, <1>3, <1>9

Decisions == {"blocked", "requires_approval", "auto_approved"}

LEMMA DecisionTypes ==
  \A agent : /\ governAction(agent) \in Decisions
             /\ \A charged : Enveloped(agent, charged) \in Decisions
             /\ \A d \in Decisions : applyFinancialPolicy(agent, d) \in Decisions
<1> TAKE agent
<1>1. governAction(agent) \in Decisions
  BY DEF governAction, Decisions
<1>2. \A charged : Enveloped(agent, charged) \in Decisions
  BY <1>1 DEF Enveloped, applyOrgEnvelope, Decisions
<1>3. \A d \in Decisions : applyFinancialPolicy(agent, d) \in Decisions
  BY DEF applyFinancialPolicy, Decisions
<1>4. QED
  BY <1>1, <1>2, <1>3

(* No later stage revives what an earlier one blocked.                     *)
Stopped(agent, known) ==
    \/ known.policy.categories = {} /\ actionTypeForDomain(agent.domain) \in UNION known.policy.disabled
    \/ actionTypeForDomain(agent.domain) \in
         known.scopes.global.forbidden
           \cup ScopeOf(known.scopes.domains, agent.scope).forbidden
           \cup ScopeOf(known.scopes.teams, agent.team).forbidden
    \/ baseRisk(actionTypeForDomain(agent.domain)) > agent.ceiling
    \/ financialSpendProfile(actionTypeForDomain(agent.domain)).category \in known.finance.forbidden

LEMMA StoppedIsBlocked ==
  ASSUME "none" \notin setup.finance.forbidden, NEW agent, Stopped(agent, setup), NEW charged
  PROVE  applyFinancialPolicy(agent, Enveloped(agent, charged)) = "blocked"
<1>1. PICK action : action = actionTypeForDomain(agent.domain)
  OBVIOUS
<1>2. applyFinancialPolicy(agent, "blocked") = "blocked"
  BY DEF applyFinancialPolicy
<1>3. CASE \/ setup.policy.categories = {} /\ action \in UNION setup.policy.disabled
           \/ action \in setup.scopes.global.forbidden
                \cup ScopeOf(setup.scopes.domains, agent.scope).forbidden
                \cup ScopeOf(setup.scopes.teams, agent.team).forbidden
  <2>1. \A base, scoped : mergePolicy(base, scoped).forbidden = base.forbidden \cup scoped.forbidden
    BY DEF mergePolicy
  <2>2. ASSUME setup.policy.categories = {}, action \in UNION setup.policy.disabled
        PROVE  action \in normalizeAutonomyPolicy(setup.policy).forbidden
    BY <2>2 DEF normalizeAutonomyPolicy
  <2>3. action \in resolvePolicyForAgent(agent).forbidden
    BY <1>3, <2>1, <2>2 DEF resolvePolicyForAgent
  <2>4. governAction(agent) = "blocked"
    BY <1>1, <2>3 DEF governAction
  <2>5. Enveloped(agent, charged) = "blocked"
    BY <2>4 DEF Enveloped, applyOrgEnvelope
  <2>6. QED
    BY <1>2, <2>5
<1>4. CASE baseRisk(action) > agent.ceiling
  <2>1. Enveloped(agent, charged) = "blocked"
    BY <1>1, <1>4 DEF Enveloped, applyOrgEnvelope
  <2>2. QED
    BY <1>2, <2>1
<1>5. CASE financialSpendProfile(action).category \in setup.finance.forbidden
  <2>a. financialSpendProfile(action).amount = 0 => financialSpendProfile(action).category = "none"
    BY DEF financialSpendProfile
  <2>1. financialSpendProfile(action).amount # 0
    BY <1>5, <2>a
  <2>2. QED
    BY <1>1, <1>5, <2>1 DEF applyFinancialPolicy
<1>6. QED
  BY <1>1, <1>3, <1>4, <1>5 DEF Stopped

(* What a run decides, in the terms of the properties.                     *)
WithinBudgets(run) ==
    LET allowed == {k \in DOMAIN run.agents : run.decisions[k] # "blocked"}
        spending == {run.agents[j] : j \in allowed}
    IN  \A k \in allowed :
          SpendOf(run.agents[k]) > 0 =>
            /\ Spent(spending, "dept", run.agents[k].dept) <= run.agents[k].deptCap
            /\ Spent(spending, "chair", run.agents[k].chair) <= run.agents[k].chairCap
            /\ SpendOf(run.agents[k]) <= run.agents[k].cap

LEMMA RunObeysLimits ==
  ASSUME NEW agents, Agents(agents), "none" \notin setup.finance.forbidden
  PROVE  /\ runAgentExecution(agents) \in Seq(Decisions)
         /\ Len(runAgentExecution(agents)) = Len(agents)
         /\ \A k \in DOMAIN agents : Stopped(agents[k], setup) => runAgentExecution(agents)[k] = "blocked"
         /\ WithinBudgets([agents |-> agents, decisions |-> runAgentExecution(agents)])
<1>1. PICK n : n = Len(agents)
  OBVIOUS
<1>2. n \in Nat /\ DOMAIN agents = 1..n
  BY <1>1 DEF Agents
<1>3. PICK g : g = ChargedAfter(agents)
  OBVIOUS
<1>4. PICK d : d = runAgentExecution(agents)
  OBVIOUS
<1>5. d = [k \in 1..n |-> applyFinancialPolicy(agents[k], Enveloped(agents[k], g[k - 1]))]
  BY <1>2, <1>3, <1>4 DEF runAgentExecution
<1>6. d \in [1..n -> Decisions]
  BY <1>5, DecisionTypes
<1>7. d \in Seq(Decisions) /\ Len(d) = n
  BY <1>2, <1>6
<1>8. \A k \in DOMAIN agents : Stopped(agents[k], setup) => d[k] = "blocked"
  BY <1>2, <1>5, StoppedIsBlocked
<1>9. PICK total : total = g[n]
  OBVIOUS
<1>10. /\ InBudget(total, agents)
       /\ \A k \in 1..n : Enveloped(agents[k], g[k - 1]) # "blocked" => agents[k] \in total
  BY <1>1, <1>2, <1>3, <1>9, ChargesStayInBudget
<1>11. ASSUME NEW k \in 1..n, d[k] # "blocked"
       PROVE  /\ agents[k] \in total
              /\ SpendOf(agents[k]) > 0 => SpendOf(agents[k]) <= agents[k].cap
  <2>1. \A agent : applyFinancialPolicy(agent, "blocked") = "blocked"
    BY DEF applyFinancialPolicy
  <2>2. Enveloped(agents[k], g[k - 1]) # "blocked"
    BY <1>5, <1>11, <2>1
  <2>3. ~(SpendOf(agents[k]) > 0 /\ SpendOf(agents[k]) > agents[k].cap)
    BY <2>2 DEF Enveloped, applyOrgEnvelope
  <2>4. agents[k].cap \in Int /\ SpendOf(agents[k]) \in {0, 100}
    BY <1>2, SpendType DEF Agents
  <2>5. QED
    BY <1>10, <2>2, <2>3, <2>4
<1>12. PICK spending : spending = {agents[j] : j \in {k \in 1..n : d[k] # "blocked"}}
  OBVIOUS
<1>13. spending \subseteq total
  BY <1>11, <1>12
<1>14. ASSUME NEW k \in 1..n, d[k] # "blocked", SpendOf(agents[k]) > 0
       PROVE  /\ Spent(spending, "dept", agents[k].dept) <= agents[k].deptCap
              /\ Spent(spending, "chair", agents[k].chair) <= agents[k].chairCap
              /\ SpendOf(agents[k]) <= agents[k].cap
  <2>1. agents[k] \in total /\ SpendOf(agents[k]) <= agents[k].cap
    BY <1>11, <1>14
  <2>2. IsFiniteSet(total)
    BY <1>10 DEF InBudget
  <2>3. IsFiniteSet(spending) /\ spending \in SUBSET total
    BY <1>13, <2>2, FS_Subset
  <2>4. ASSUME NEW unit, NEW name
        PROVE  /\ Spent(spending, unit, name) <= Spent(total, unit, name)
               /\ Spent(spending, unit, name) \in Nat /\ Spent(total, unit, name) \in Nat
    <3>1. Spent(spending, unit, name) \in Nat
      BY <2>3, SpentProperties
    <3>2. Spent(total, unit, name) \in Nat
          /\ \A some \in SUBSET total : Spent(some, unit, name) <= Spent(total, unit, name)
      BY <2>2, SpentProperties
    <3>3. QED
      BY <2>3, <3>1, <3>2
  <2>5. Spent(total, "dept", agents[k].dept) <= agents[k].deptCap
        /\ Spent(total, "chair", agents[k].chair) <= agents[k].chairCap
    BY <1>10, <1>14, <2>1 DEF InBudget
  <2>6. agents[k].deptCap \in Int /\ agents[k].chairCap \in Int
    BY <1>2 DEF Agents
  <2>7. QED
    BY <2>1, <2>4, <2>5, <2>6
<1>15. WithinBudgets([agents |-> agents, decisions |-> d])
  <2>1. PICK run : run = [agents |-> agents, decisions |-> d]
    OBVIOUS
  <2>2. run.agents = agents /\ run.decisions = d
    BY <2>1
  <2>3. WithinBudgets(run)
    BY <1>2, <1>12, <1>14, <2>2 DEF WithinBudgets
  <2>4. QED
    BY <2>1, <2>3
<1>16. QED
  BY <1>1, <1>4, <1>7, <1>8, <1>15

Synthetic == [id |-> "strategy-1", domain |-> "strategy", status |-> "active",
              cap |-> Unlimited, ceiling |-> Unlimited]
ChairsOfRun == Range(setup.chairs) \cup {Synthetic}
TeamsOfRun == Range(setup.teams)
AgentsMade == {ChairAgent(c) : c \in ChairsOfRun} \cup {TeamAgent(t) : t \in TeamsOfRun}

DeptCapOf(dept) == IF dept \in DOMAIN setup.departments THEN setup.departments[dept].cap ELSE Unlimited
ChairsNamed(id) == {k \in DOMAIN setup.chairs : setup.chairs[k].id = id}
ChairCapOf(id) ==
    IF ChairsNamed(id) = {} THEN Unlimited ELSE setup.chairs[CHOOSE k \in ChairsNamed(id) : TRUE].cap

LEMMA AgentFields ==
  /\ \A c : /\ ChairAgent(c).dept = "board" /\ ChairAgent(c).deptCap = Unlimited
            /\ ChairAgent(c).chair = c.id /\ ChairAgent(c).chairCap = c.cap /\ ChairAgent(c).cap = c.cap
            /\ ChairAgent(c).domain = c.domain
  /\ \A t : /\ TeamAgent(t).dept = t.dept /\ TeamAgent(t).deptCap = DeptCapOf(t.dept)
            /\ TeamAgent(t).chair = t.chair /\ TeamAgent(t).chairCap = ChairCapOf(t.chair)
            /\ TeamAgent(t).cap = IF t.cap = Unlimited THEN DeptCapOf(t.dept) ELSE t.cap
<1>1. ASSUME NEW t
      PROVE  /\ TeamAgent(t).dept = t.dept /\ TeamAgent(t).deptCap = DeptCapOf(t.dept)
             /\ TeamAgent(t).chair = t.chair /\ TeamAgent(t).chairCap = ChairCapOf(t.chair)
             /\ TeamAgent(t).cap = IF t.cap = Unlimited THEN DeptCapOf(t.dept) ELSE t.cap
  <2>1. PICK dept : dept = IF t.dept \in DOMAIN setup.departments THEN setup.departments[t.dept]
                           ELSE [domain |-> t.domain, cap |-> Unlimited, ceiling |-> Unlimited]
    OBVIOUS
  <2>2. dept.cap = DeptCapOf(t.dept)
    BY <2>1 DEF DeptCapOf
  <2>3. PICK chairCap : chairCap = ChairCapOf(t.chair)
    OBVIOUS
  <2>4. TeamAgent(t) =
          [id |-> t.id, domain |-> t.domain, scope |-> dept.domain, chair |-> t.chair, team |-> t.id,
           dept |-> t.dept, cap |-> IF t.cap = Unlimited THEN dept.cap ELSE t.cap, deptCap |-> dept.cap,
           chairCap |-> chairCap,
           ceiling |-> IF t.ceiling = Unlimited THEN dept.ceiling ELSE t.ceiling]
    BY <2>1, <2>3 DEF TeamAgent, ChairCapOf, ChairsNamed
  <2>5. QED
    BY <2>2, <2>3, <2>4
<1>2. QED
  BY <1>1 DEF ChairAgent

CapsAre(x) ==
    /\ x.deptCap = IF x.dept = "board" THEN Unlimited ELSE DeptCapOf(x.dept)
    /\ SpendOf(x) > 0 => x.chairCap = ChairCapOf(x.chair)
    /\ x.cap \in Int /\ x.deptCap \in Int /\ x.chairCap \in Int

LEMMA AgentsAgree ==
  ASSUME EngineAssumption, setup \in Setups, NEW a \in AgentsMade, NEW b \in AgentsMade
  PROVE  SameCaps(a, b) /\ a.cap \in Int /\ a.deptCap \in Int /\ a.chairCap \in Int
<1>1. /\ KnownById(setup.chairs) /\ Capped(setup.chairs) /\ Capped(setup.teams) /\ Capped(setup.departments)
      /\ "board" \notin DOMAIN setup.departments
  BY DEF EngineAssumption
<1>2. \A dept : DeptCapOf(dept) \in Int
  BY <1>1 DEF DeptCapOf, Capped, Unlimited
<1>3. \A id : ChairCapOf(id) \in Int
  <2>1. ASSUME NEW id, ChairsNamed(id) # {}
        PROVE  (CHOOSE k \in ChairsNamed(id) : TRUE) \in DOMAIN setup.chairs
    BY <2>1 DEF ChairsNamed
  <2>2. QED
    BY <1>1, <2>1 DEF ChairCapOf, Capped, Unlimited
<1>4. \A k \in DOMAIN setup.chairs : ChairCapOf(setup.chairs[k].id) = setup.chairs[k].cap
  <2>1. ASSUME NEW k \in DOMAIN setup.chairs
        PROVE  ChairCapOf(setup.chairs[k].id) = setup.chairs[k].cap
    <3>1. k \in ChairsNamed(setup.chairs[k].id)
      BY DEF ChairsNamed
    <3>2. PICK j : j = CHOOSE i \in ChairsNamed(setup.chairs[k].id) : TRUE
      OBVIOUS
    <3>3. j \in DOMAIN setup.chairs /\ setup.chairs[j].id = setup.chairs[k].id
      BY <3>1, <3>2 DEF ChairsNamed
    <3>4. j = k
      BY <1>1, <3>3 DEF KnownById
    <3>5. QED
      BY <3>1, <3>2, <3>4 DEF ChairCapOf
  <2>2. QED
    BY <2>1
<1>5. SpendOf(ChairAgent(Synthetic)) = 0
  <2>1. ChairAgent(Synthetic).domain = "strategy"
    BY AgentFields DEF Synthetic
  <2>2. actionTypeForDomain("strategy") = "create_tasks"
    BY DEF actionTypeForDomain
  <2>3. financialSpendProfile("create_tasks").amount = 0
    BY DEF financialSpendProfile
  <2>4. QED
    BY <2>1, <2>2, <2>3 DEF SpendOf
<1>6. ASSUME NEW x \in AgentsMade
      PROVE  CapsAre(x)
  <2>1. CASE x = ChairAgent(Synthetic)
    <3>1. Synthetic.cap = Unlimited /\ Unlimited \in Int
      BY DEF Synthetic, Unlimited
    <3>2. /\ x.dept = "board" /\ x.deptCap = Unlimited /\ x.chairCap = Unlimited /\ x.cap = Unlimited
      BY <2>1, <3>1, AgentFields
    <3>3. ~(SpendOf(x) > 0)
      BY <1>5, <2>1
    <3>4. QED
      BY <3>1, <3>2, <3>3 DEF CapsAre
  <2>2. ASSUME NEW k \in DOMAIN setup.chairs, x = ChairAgent(setup.chairs[k]) PROVE CapsAre(x)
    <3>1. setup.chairs[k].cap \in Int /\ Unlimited \in Int
      BY <1>1 DEF Capped, Unlimited
    <3>2. /\ x.dept = "board" /\ x.deptCap = Unlimited /\ x.chair = setup.chairs[k].id
          /\ x.chairCap = setup.chairs[k].cap /\ x.cap = setup.chairs[k].cap
      BY <2>2, AgentFields
    <3>3. x.chairCap = ChairCapOf(x.chair)
      BY <1>4, <3>2
    <3>4. QED
      BY <3>1, <3>2, <3>3 DEF CapsAre
  <2>3. ASSUME NEW k \in DOMAIN setup.teams, x = TeamAgent(setup.teams[k]) PROVE CapsAre(x)
    <3>1. PICK t : t = setup.teams[k]
      OBVIOUS
    <3>2. t.cap \in Int /\ (t.dept = "board" => DeptCapOf(t.dept) = Unlimited)
      BY <1>1, <3>1 DEF Capped, DeptCapOf
    <3>3. /\ x.dept = t.dept /\ x.deptCap = DeptCapOf(t.dept)
          /\ x.chair = t.chair /\ x.chairCap = ChairCapOf(t.chair)
          /\ x.cap = IF t.cap = Unlimited THEN DeptCapOf(t.dept) ELSE t.cap
      BY <2>3, <3>1, AgentFields
    <3>4. DeptCapOf(t.dept) \in Int /\ ChairCapOf(t.chair) \in Int
      BY <1>2, <1>3
    <3>5. x.cap \in Int
      BY <3>2, <3>3, <3>4
    <3>6. QED
      BY <3>2, <3>3, <3>4, <3>5 DEF CapsAre
  <2>4. \/ x = ChairAgent(Synthetic)
        \/ \E k \in DOMAIN setup.chairs : x = ChairAgent(setup.chairs[k])
        \/ \E k \in DOMAIN setup.teams : x = TeamAgent(setup.teams[k])
    BY DEF AgentsMade, ChairsOfRun, TeamsOfRun, Range
  <2>5. QED
    BY <2>1, <2>2, <2>3, <2>4
<1>7. CapsAre(a) /\ CapsAre(b)
  BY <1>6
<1>8. QED
  BY <1>7 DEF SameCaps, CapsAre

(* The agents that act.                                                    *)
ActingAgents ==
    Kept(blueprintAgents, {k \in DOMAIN blueprintAgents : blueprintAgents[k].domain # "governor"})

LEMMA ActingAgentsAgree ==
  ASSUME EngineAssumption, setup \in Setups
  PROVE  Agents(ActingAgents)
<1>1. /\ setup.chairs \in Seq(Range(setup.chairs)) /\ setup.teams \in Seq(Range(setup.teams))
  BY DEF EngineAssumption
<1>2. \A S : \A members \in Seq(S) : Active(members) \in Seq(S)
  <2>1. ASSUME NEW S, NEW members \in Seq(S) PROVE Active(members) \in Seq(S)
    <3>1. PICK keep : keep = {k \in DOMAIN members : members[k].status = "active"}
      OBVIOUS
    <3>2. keep \in SUBSET DOMAIN members
      BY <3>1
    <3>3. Kept(members, keep) \in Seq(S)
      BY <3>2, KeptElements
    <3>4. QED
      BY <3>1, <3>3 DEF Active
  <2>2. QED
    BY <2>1
<1>3. PICK chairs : chairs = IF \E k \in DOMAIN setup.chairs : Governs(setup.chairs[k])
                             THEN setup.chairs ELSE <<Synthetic>> \o setup.chairs
  OBVIOUS
<1>4. chairs \in Seq(ChairsOfRun)
  <2>1. setup.chairs \in Seq(ChairsOfRun)
    BY <1>1 DEF ChairsOfRun
  <2>2. <<Synthetic>> \in Seq(ChairsOfRun)
    BY DEF ChairsOfRun
  <2>3. <<Synthetic>> \o setup.chairs \in Seq(ChairsOfRun)
    BY <2>1, <2>2, ConcatProperties
  <2>4. QED
    BY <1>3, <2>1, <2>3
<1>5. PICK c, t : c = Active(chairs) /\ t = Active(setup.teams)
  OBVIOUS
<1>6. c \in Seq(ChairsOfRun) /\ t \in Seq(TeamsOfRun)
  BY <1>1, <1>2, <1>4, <1>5 DEF TeamsOfRun
<1>7. PICK p, q : p = [k \in DOMAIN c |-> ChairAgent(c[k])] /\ q = [k \in DOMAIN t |-> TeamAgent(t[k])]
  OBVIOUS
<1>8. p \in Seq(AgentsMade) /\ q \in Seq(AgentsMade)
  <2>1. \A x \in ChairsOfRun : ChairAgent(x) \in AgentsMade
    BY DEF AgentsMade
  <2>2. \A x \in TeamsOfRun : TeamAgent(x) \in AgentsMade
    BY DEF AgentsMade
  <2>3. /\ DOMAIN c = 1..Len(c) /\ Len(c) \in Nat /\ \A k \in 1..Len(c) : c[k] \in ChairsOfRun
        /\ DOMAIN t = 1..Len(t) /\ Len(t) \in Nat /\ \A k \in 1..Len(t) : t[k] \in TeamsOfRun
    BY <1>6
  <2>4. p \in [1..Len(c) -> AgentsMade] /\ q \in [1..Len(t) -> AgentsMade]
    BY <1>7, <2>1, <2>2, <2>3
  <2>5. \A n \in Nat : \A f \in [1..n -> AgentsMade] : f \in Seq(AgentsMade)
    BY SeqDef
  <2>6. QED
    BY <2>3, <2>4, <2>5
<1>9. blueprintAgents = p \o q
  BY <1>3, <1>5, <1>7 DEF blueprintAgents, Synthetic
<1>10. blueprintAgents \in Seq(AgentsMade)
  BY <1>8, <1>9, ConcatProperties
<1>11. PICK keep : keep = {k \in DOMAIN blueprintAgents : blueprintAgents[k].domain # "governor"}
  OBVIOUS
<1>12. keep \in SUBSET DOMAIN blueprintAgents
  BY <1>11
<1>13. Kept(blueprintAgents, keep) \in Seq(AgentsMade)
  BY <1>10, <1>12, KeptElements
<1>14. ActingAgents \in Seq(AgentsMade)
  BY <1>11, <1>13 DEF ActingAgents
<1>15. /\ Len(ActingAgents) \in Nat /\ DOMAIN ActingAgents = 1..Len(ActingAgents)
       /\ \A k \in DOMAIN ActingAgents : ActingAgents[k] \in AgentsMade
  BY <1>14
<1>16. QED
  BY <1>15, AgentsAgree DEF Agents

EventsOf(log, r) == {j \in DOMAIN log : log[j].run = r}
IdsIn(log) == {log[k].run : k \in DOMAIN log}
Unrecorded(log, records) == IdsIn(log) \ (IdsIn(records) \cup {0})

(* A record and the log agree on what the run was.                         *)
Logged(log, record) ==
    /\ Cardinality(EventsOf(log, record.run)) = record.total
    /\ record.total = record.blocked + record.approval + record.auto
    /\ record.blocked = Cardinality({j \in EventsOf(log, record.run) : log[j].event = "action_proposed"})

(* The log and the records, with `last` the last run's number: each cut is *)
(* a run without its record, or none.                                      *)
LogInv(log, records, cuts) ==
    /\ IsList(log) /\ IsList(records) /\ cuts \in Nat
    /\ \A j \in DOMAIN log : log[j].run \in 0..(Len(records) + cuts)
    /\ \A k \in DOMAIN records : records[k].run \in 1..(Len(records) + cuts) /\ Logged(log, records[k])
    /\ Cardinality(Unrecorded(log, records)) <= cuts

(* As many places further down as there were.                              *)
LEMMA ShiftedPlaces ==
  ASSUME NEW n \in Nat, NEW m \in Nat, NEW S \in SUBSET (1..m)
  PROVE  /\ IsFiniteSet(S) /\ IsFiniteSet({n + i : i \in S})
         /\ Cardinality({n + i : i \in S}) = Cardinality(S)
<1> DEFINE T == {n + i : i \in S}
           f == [i \in S |-> n + i]
<1>1. IsFiniteSet(S)
  <2>1. IsFiniteSet(1..m)
    BY FS_Interval
  <2>2. QED
    BY <2>1, FS_Subset
<1>2. f \in [S -> T]
  OBVIOUS
<1>3. \A i, j \in S : f[i] = f[j] => i = j
  BY SMT
<1>4. \A t \in T : \E i \in S : f[i] = t
  OBVIOUS
<1> HIDE DEF f, T
<1>5. f \in Injection(S, T)
  <2>1. IsInjective(f)
    BY <1>2, <1>3 DEF IsInjective
  <2>2. QED
    BY <1>2, <2>1, Zenon DEF Injection
<1>6. f \in Surjection(S, T)
  BY <1>2, <1>4, Zenon DEF Surjection
<1>7. ExistsBijection(S, T)
  BY <1>5, <1>6, Zenon DEF ExistsBijection, Bijection
<1>8. IsFiniteSet(T) /\ Cardinality(T) = Cardinality(S)
  BY <1>1, <1>7, FS_Bijection
<1>9. QED
  BY <1>1, <1>8 DEF T

EngineLogGrown(log, long, m, R) ==
    /\ IsList(log) /\ IsList(long) /\ m \in Nat /\ Len(long) = Len(log) + m
    /\ \A j \in DOMAIN log : long[j] = log[j]
    /\ \A i \in 1..m : long[Len(log) + i].run = R

(* A log that grows by events of one run: those of the other runs stay.    *)
LEMMA EngineLogGrows ==
  ASSUME NEW log, NEW long, NEW m, NEW R, EngineLogGrown(log, long, m, R)
  PROVE  /\ \A r : r # R => EventsOf(long, r) = EventsOf(log, r)
         /\ \A j \in DOMAIN long : long[j].run = R \/ \E k \in DOMAIN log : long[j].run = log[k].run
         /\ IdsIn(log) \subseteq IdsIn(long) /\ IdsIn(long) \subseteq IdsIn(log) \cup {R}
         /\ (\A j \in DOMAIN log : log[j].run # R) => EventsOf(long, R) = {Len(log) + i : i \in 1..m}
<1>1. /\ Len(log) \in Nat /\ DOMAIN log = 1..Len(log)
      /\ DOMAIN long = 1..(Len(log) + m) /\ m \in Nat
  BY Listed DEF EngineLogGrown
<1>2. PICK n : n = Len(log)
  OBVIOUS
<1>3. n \in Nat /\ m \in Nat /\ DOMAIN log = 1..n /\ DOMAIN long = 1..(n + m)
  BY <1>1, <1>2
<1>4. \A j \in 1..n : j \in 1..(n + m) /\ long[j] = log[j]
  BY <1>1, <1>3 DEF EngineLogGrown
<1>5. \A j \in 1..(n + m) : j \in 1..n \/ \E i \in 1..m : j = n + i
  <2>1. ASSUME NEW j \in 1..(n + m), j \notin 1..n PROVE \E i \in 1..m : j = n + i
    <3>1. j - n \in 1..m /\ j = n + (j - n)
      BY <1>1, <1>3, <2>1
    <3>2. QED
      BY <3>1
  <2>2. QED
    BY <2>1
<1>6. \A i \in 1..m : long[n + i].run = R /\ n + i \in 1..(n + m) /\ n + i \notin 1..n
  <2>1. \A i \in 1..m : long[n + i].run = R
    BY <1>2 DEF EngineLogGrown
  <2>2. \A i \in 1..m : n + i \in 1..(n + m) /\ n + i \notin 1..n
    BY <1>3
  <2>3. QED
    BY <2>1, <2>2
<1>7. \A j \in 1..(n + m) : (j \in 1..n /\ long[j] = log[j]) \/ long[j].run = R
  BY <1>4, <1>5, <1>6
<1>8. ASSUME NEW r, r # R PROVE EventsOf(long, r) = EventsOf(log, r)
  BY <1>3, <1>4, <1>7, <1>8 DEF EventsOf
<1>9. \A j \in DOMAIN long : long[j].run = R \/ \E k \in DOMAIN log : long[j].run = log[k].run
  BY <1>3, <1>7
<1>10. IdsIn(log) \subseteq IdsIn(long) /\ IdsIn(long) \subseteq IdsIn(log) \cup {R}
  BY <1>3, <1>4, <1>7 DEF IdsIn
<1>11. ASSUME \A j \in DOMAIN log : log[j].run # R PROVE EventsOf(long, R) = {n + i : i \in 1..m}
  <2>1. \A j \in EventsOf(long, R) : \E i \in 1..m : j = n + i
    BY <1>3, <1>4, <1>5, <1>11 DEF EventsOf
  <2>2. \A i \in 1..m : n + i \in EventsOf(long, R)
    BY <1>3, <1>6 DEF EventsOf
  <2>3. QED
    BY <2>1, <2>2
<1>12. QED
  BY <1>2, <1>8, <1>9, <1>10, <1>11

(* The records keep agreeing with the log.                                 *)
LEMMA StillLogged ==
  ASSUME NEW log, NEW long, NEW m, NEW R, EngineLogGrown(log, long, m, R),
         NEW record, record.run # R, Logged(log, record)
  PROVE  Logged(long, record)
<1>1. PICK r : r = record.run
  OBVIOUS
<1>2. EventsOf(long, r) = EventsOf(log, r)
  <2>1. \A q : q # R => EventsOf(long, q) = EventsOf(log, q)
    BY EngineLogGrows
  <2>2. QED
    BY <1>1, <2>1
<1>3. \A j \in EventsOf(log, r) : long[j] = log[j]
  BY DEF EventsOf, EngineLogGrown
<1>4. {j \in EventsOf(long, r) : long[j].event = "action_proposed"}
        = {j \in EventsOf(log, r) : log[j].event = "action_proposed"}
  BY <1>2, <1>3
<1>5. QED
  BY <1>1, <1>2, <1>4 DEF Logged

(* Decisions are of three kinds.                                           *)
LEMMA CountsAddUp ==
  ASSUME NEW n \in Nat, NEW d \in [1..n -> Decisions]
  PROVE  /\ Count(d, "blocked") \in Nat /\ Count(d, "requires_approval") \in Nat /\ Count(d, "auto_approved") \in Nat
         /\ n = Count(d, "blocked") + Count(d, "requires_approval") + Count(d, "auto_approved")
<1>1. PICK B, R, A : /\ B = {k \in 1..n : d[k] = "blocked"} /\ R = {k \in 1..n : d[k] = "requires_approval"}
                     /\ A = {k \in 1..n : d[k] = "auto_approved"}
  OBVIOUS
<1>2. IsFiniteSet(1..n) /\ Cardinality(1..n) = n
  BY FS_Interval
<1>3. IsFiniteSet(B) /\ IsFiniteSet(R) /\ IsFiniteSet(A)
  <2>1. B \subseteq 1..n /\ R \subseteq 1..n /\ A \subseteq 1..n
    BY <1>1
  <2>2. QED
    BY <1>2, <2>1, FS_Subset
<1>4. Cardinality(B) \in Nat /\ Cardinality(R) \in Nat /\ Cardinality(A) \in Nat
  BY <1>3, FS_CardinalityType
<1>5. B \cap R = {} /\ (B \cup R) \cap A = {} /\ (B \cup R) \cup A = 1..n
  BY <1>1 DEF Decisions
<1>6. Cardinality({}) = 0
  BY FS_EmptySet
<1>7. IsFiniteSet(B \cup R) /\ Cardinality(B \cup R) = Cardinality(B) + Cardinality(R) - 0
  BY <1>3, <1>5, <1>6, FS_Union
<1>8. PICK BR : BR = B \cup R
  OBVIOUS
<1>9. n = Cardinality(B) + Cardinality(R) + Cardinality(A)
  <2>1. IsFiniteSet(BR) /\ BR \cap A = {} /\ BR \cup A = 1..n
    BY <1>5, <1>7, <1>8
  <2>2. Cardinality(BR \cup A) = Cardinality(BR) + Cardinality(A) - Cardinality(BR \cap A)
    BY <1>3, <2>1, FS_Union
  <2>3. n = Cardinality(BR) + Cardinality(A) - 0
    BY <1>2, <1>6, <2>1, <2>2
  <2>4. Cardinality(BR) = Cardinality(B) + Cardinality(R)
    BY <1>4, <1>7, <1>8
  <2>5. QED
    BY <1>4, <2>3, <2>4
<1>10. Count(d, "blocked") = Cardinality(B) /\ Count(d, "requires_approval") = Cardinality(R)
       /\ Count(d, "auto_approved") = Cardinality(A)
  BY <1>1 DEF Count
<1>11. QED
  BY <1>4, <1>9, <1>10

LEMMA UnrecordedFinite ==
  ASSUME NEW log, NEW records, NEW cuts, LogInv(log, records, cuts)
  PROVE  /\ IsFiniteSet(Unrecorded(log, records)) /\ Cardinality(Unrecorded(log, records)) \in Nat
         /\ Len(records) \in Nat /\ cuts \in Nat
<1>1. PICK n : n = Len(records) + cuts
  OBVIOUS
<1>2. Len(records) \in Nat /\ cuts \in Nat /\ n \in Nat
  BY <1>1, Listed DEF LogInv
<1>3. IsFiniteSet(0..n)
  BY <1>2, FS_Interval
<1>4. Unrecorded(log, records) \subseteq 0..n
  BY <1>1 DEF LogInv, Unrecorded, IdsIn
<1>5. QED
  BY <1>2, <1>3, <1>4, FS_Subset, FS_CardinalityType

LEMMA CutAllowed ==
  ASSUME NEW log, NEW records, NEW cuts, LogInv(log, records, cuts)
  PROVE  LogInv(log, records, cuts + 1)
<1>1. Cardinality(Unrecorded(log, records)) \in Nat /\ Len(records) \in Nat /\ cuts \in Nat
  BY UnrecordedFinite
<1>2. \A j \in DOMAIN log : log[j].run \in 0..(Len(records) + (cuts + 1))
  BY <1>1 DEF LogInv
<1>3. \A k \in DOMAIN records : records[k].run \in 1..(Len(records) + (cuts + 1)) /\ Logged(log, records[k])
  BY <1>1 DEF LogInv
<1>4. Cardinality(Unrecorded(log, records)) <= cuts + 1
  BY <1>1 DEF LogInv
<1>5. QED
  BY <1>1, <1>2, <1>3, <1>4 DEF LogInv

(* An event of no run.                                                     *)
LEMMA ChildLogged ==
  ASSUME NEW log, NEW records, NEW cuts, LogInv(log, records, cuts), NEW long, NEW m, EngineLogGrown(log, long, m, 0)
  PROVE  LogInv(long, records, cuts)
<1>1. Len(records) \in Nat /\ cuts \in Nat
  BY UnrecordedFinite
<1>2. /\ \A j \in DOMAIN long : long[j].run = 0 \/ \E k \in DOMAIN log : long[j].run = log[k].run
      /\ IdsIn(log) \subseteq IdsIn(long) /\ IdsIn(long) \subseteq IdsIn(log) \cup {0}
  BY EngineLogGrows
<1>3. \A j \in DOMAIN long : long[j].run \in 0..(Len(records) + cuts)
  BY <1>1, <1>2 DEF LogInv
<1>4. ASSUME NEW k \in DOMAIN records
      PROVE  records[k].run \in 1..(Len(records) + cuts) /\ Logged(long, records[k])
  <2>1. records[k].run \in 1..(Len(records) + cuts) /\ Logged(log, records[k])
    BY DEF LogInv
  <2>2. records[k].run # 0
    BY <1>1, <2>1
  <2>3. QED
    BY <2>1, <2>2, StillLogged
<1>5. Unrecorded(long, records) = Unrecorded(log, records)
  BY <1>2 DEF Unrecorded
<1>6. QED
  BY <1>3, <1>4, <1>5 DEF LogInv, EngineLogGrown

(* Events of a run of its own number.                                      *)
LEMMA NewRunLogged ==
  ASSUME NEW log, NEW records, NEW cuts, LogInv(log, records, cuts), NEW long, NEW m,
         NEW R, R = Len(records) + cuts + 1, EngineLogGrown(log, long, m, R)
  PROVE  /\ R \in Nat /\ Len(records) \in Nat /\ cuts \in Nat
         /\ \A j \in DOMAIN long : long[j].run \in 0..R
         /\ \A k \in DOMAIN records : records[k].run \in 1..R /\ Logged(long, records[k])
         /\ IdsIn(long) \subseteq IdsIn(log) \cup {R}
         /\ EventsOf(long, R) = {Len(log) + i : i \in 1..m}
<1>1. Len(records) \in Nat /\ cuts \in Nat /\ R \in Nat
  BY UnrecordedFinite
<1>2. /\ \A j \in DOMAIN long : long[j].run = R \/ \E k \in DOMAIN log : long[j].run = log[k].run
      /\ IdsIn(long) \subseteq IdsIn(log) \cup {R}
      /\ (\A j \in DOMAIN log : log[j].run # R) => EventsOf(long, R) = {Len(log) + i : i \in 1..m}
  BY EngineLogGrows
<1>3. \A j \in DOMAIN log : log[j].run \in 0..R /\ log[j].run # R
  BY <1>1 DEF LogInv
<1>4. \A j \in DOMAIN long : long[j].run \in 0..R
  BY <1>1, <1>2, <1>3
<1>5. ASSUME NEW k \in DOMAIN records
      PROVE  records[k].run \in 1..R /\ Logged(long, records[k])
  <2>1. records[k].run \in 1..(Len(records) + cuts) /\ Logged(log, records[k])
    BY DEF LogInv
  <2>2. records[k].run # R /\ records[k].run \in 1..R
    BY <1>1, <2>1
  <2>3. QED
    BY <2>1, <2>2, StillLogged
<1>6. QED
  BY <1>1, <1>2, <1>3, <1>4, <1>5

(* A run cut short, without its record.                                    *)
LEMMA RunCut ==
  ASSUME NEW log, NEW records, NEW cuts, LogInv(log, records, cuts), NEW long, NEW m,
         EngineLogGrown(log, long, m, Len(records) + cuts + 1)
  PROVE  LogInv(long, records, cuts + 1)
<1>1. PICK R : R = Len(records) + cuts + 1
  OBVIOUS
<1>2. EngineLogGrown(log, long, m, R)
  BY <1>1
<1>3. /\ R \in Nat /\ Len(records) \in Nat /\ cuts \in Nat
      /\ \A j \in DOMAIN long : long[j].run \in 0..R
      /\ \A k \in DOMAIN records : records[k].run \in 1..R /\ Logged(long, records[k])
      /\ IdsIn(long) \subseteq IdsIn(log) \cup {R}
  BY <1>1, <1>2, NewRunLogged
<1>4. Unrecorded(long, records) \subseteq Unrecorded(log, records) \cup {R}
  BY <1>3 DEF Unrecorded
<1>5. PICK U : U = Unrecorded(log, records)
  OBVIOUS
<1>6. IsFiniteSet(U) /\ Cardinality(U) \in Nat /\ Cardinality(U) <= cuts
  BY <1>5, UnrecordedFinite DEF LogInv
<1>7. IsFiniteSet(U \cup {R}) /\ Cardinality(U \cup {R}) <= cuts + 1
  <2>1. IsFiniteSet(U \cup {R}) /\ (Cardinality(U \cup {R}) = Cardinality(U) \/ Cardinality(U \cup {R}) = Cardinality(U) + 1)
    BY <1>6, FS_AddElement
  <2>2. QED
    BY <1>3, <1>6, <2>1
<1>8. Cardinality(Unrecorded(long, records)) <= cuts + 1
  <2>1. /\ IsFiniteSet(Unrecorded(long, records))
        /\ Cardinality(Unrecorded(long, records)) <= Cardinality(U \cup {R})
    BY <1>4, <1>5, <1>7, FS_Subset
  <2>2. Cardinality(Unrecorded(long, records)) \in Nat /\ Cardinality(U \cup {R}) \in Nat
    BY <1>7, <2>1, FS_CardinalityType
  <2>3. QED
    BY <1>3, <1>7, <2>1, <2>2
<1>9. R = Len(records) + (cuts + 1)
  BY <1>1, <1>3
<1>10. QED
  BY <1>3, <1>8, <1>9 DEF LogInv, EngineLogGrown

(* A run with its record.                                                  *)
LEMMA RunRecorded ==
  ASSUME NEW log, NEW records, NEW cuts, LogInv(log, records, cuts), NEW long, NEW m,
         NEW R, R = Len(records) + cuts + 1, EngineLogGrown(log, long, m, R),
         NEW record, record.run = R, Logged(long, record)
  PROVE  LogInv(long, Append(records, record), cuts)
<1>1. PICK more : more = Append(records, record)
  OBVIOUS
<1>2. /\ R \in Nat /\ Len(records) \in Nat /\ cuts \in Nat
      /\ \A j \in DOMAIN long : long[j].run \in 0..R
      /\ \A k \in DOMAIN records : records[k].run \in 1..R /\ Logged(long, records[k])
      /\ IdsIn(long) \subseteq IdsIn(log) \cup {R}
  BY NewRunLogged
<1>3. IsList(records) /\ DOMAIN records = 1..Len(records)
  BY Listed DEF LogInv
<1>4. /\ IsList(more) /\ Len(more) = Len(records) + 1 /\ DOMAIN more = 1..(Len(records) + 1)
      /\ \A k \in DOMAIN records : more[k] = records[k]
      /\ more[Len(records) + 1] = record
  BY <1>1, <1>3, ListAppended
<1>5. R = Len(more) + cuts
  BY <1>2, <1>4
<1>6. \A k \in DOMAIN more : k \in DOMAIN records \/ k = Len(records) + 1
  BY <1>2, <1>3, <1>4
<1>7. R \in 1..R
  BY <1>2
<1>8. \A k \in DOMAIN more : more[k].run \in 1..R /\ Logged(long, more[k])
  BY <1>2, <1>4, <1>6, <1>7
<1>9. IdsIn(records) \cup {R} \subseteq IdsIn(more)
  <2>1. \A k \in DOMAIN records : k \in DOMAIN more
    BY <1>2, <1>3, <1>4
  <2>2. Len(records) + 1 \in DOMAIN more
    BY <1>2, <1>4
  <2>3. QED
    BY <1>4, <2>1, <2>2 DEF IdsIn
<1>10. Unrecorded(long, more) \subseteq Unrecorded(log, records)
  BY <1>2, <1>9 DEF Unrecorded
<1>11. Cardinality(Unrecorded(long, more)) <= cuts
  <2>1. IsFiniteSet(Unrecorded(log, records)) /\ Cardinality(Unrecorded(log, records)) \in Nat
    BY UnrecordedFinite
  <2>2. /\ IsFiniteSet(Unrecorded(long, more))
        /\ Cardinality(Unrecorded(long, more)) <= Cardinality(Unrecorded(log, records))
    BY <1>10, <2>1, FS_Subset
  <2>3. Cardinality(Unrecorded(long, more)) \in Nat
    BY <2>2, FS_CardinalityType
  <2>4. Cardinality(Unrecorded(log, records)) <= cuts
    BY DEF LogInv
  <2>5. QED
    BY <1>2, <2>1, <2>2, <2>3, <2>4
<1>12. LogInv(long, more, cuts)
  BY <1>2, <1>4, <1>5, <1>8, <1>11 DEF LogInv, EngineLogGrown
<1>13. QED
  BY <1>1, <1>12

EventKinds == {"action_proposed", "action_executed", "federation_linked"}
ChildRecords == [id : ChildIds, workspace : ChildWorkspaces]

(* What the properties need of the last run.                               *)
RunInv(run, known) ==
    /\ run.decisions \in Seq(Decisions) /\ Len(run.agents) = Len(run.decisions)
    /\ WithinBudgets(run)
    /\ \A k \in DOMAIN run.agents : Stopped(run.agents[k], known) => run.decisions[k] = "blocked"

EngineInv ==
    /\ setup \in Setups /\ processKilled \in BOOLEAN
    /\ \A k \in DOMAIN engineLog : engineLog[k].event \in EventKinds
    /\ RunInv(lastRun, setup)
    /\ children \in Seq(ChildRecords)
    /\ engineCrashes \in 0..MaxEngineCrashes
    /\ LogInv(engineLog, runs, engineCrashes)

LEMMA EngineFromInv == EngineAssumption /\ EngineInv => EngineTypeOK /\ RunsObeyTheirLimits
<1> SUFFICES ASSUME EngineAssumption, EngineInv PROVE EngineTypeOK /\ RunsObeyTheirLimits
  OBVIOUS
<1>1. EngineTypeOK
  <2>1. setup.policy.mode \in ExecutionModes
    BY DEF EngineInv, EngineAssumption
  <2>2. QED
    BY <2>1 DEF EngineInv, EngineTypeOK, RunInv, Decisions, EventKinds, ChildRecords
<1>2. BudgetsHold
  <2>1. WithinBudgets(lastRun)
    BY DEF EngineInv, RunInv
  <2>2. QED
    BY <2>1 DEF BudgetsHold, Allowed, WithinBudgets
<1>3. BlockedStaysBlocked
  BY DEF EngineInv, RunInv, BlockedStaysBlocked, Stopped
<1>4. RunsAreLogged
  <2>1. LogInv(engineLog, runs, engineCrashes)
    BY DEF EngineInv
  <2>2. \A k \in DOMAIN runs : Logged(engineLog, runs[k])
    BY <2>1 DEF LogInv
  <2>3. Cardinality(Unrecorded(engineLog, runs)) <= engineCrashes
    BY <2>1 DEF LogInv
  <2>4. Unrecorded(engineLog, runs)
          = {engineLog[k].run : k \in DOMAIN engineLog} \ ({runs[k].run : k \in DOMAIN runs} \cup {0})
    BY DEF Unrecorded, IdsIn
  <2>5. QED
    BY <2>2, <2>3, <2>4 DEF Logged, EventsOf, RunsAreLogged
<1>5. QED
  BY <1>1, <1>2, <1>3, <1>4 DEF RunsObeyTheirLimits

LEMMA EngineInvInit == EngineAssumption /\ EngineInit => EngineInv
<1> SUFFICES ASSUME EngineAssumption, EngineInit PROVE EngineInv
  OBVIOUS
<1>1. /\ setup \in Setups /\ processKilled \in BOOLEAN /\ runs = <<>> /\ engineLog = <<>>
      /\ lastRun = [agents |-> <<>>, decisions |-> <<>>] /\ children = <<>> /\ engineCrashes = 0
  BY DEF EngineInit
<1>2. IsList(<<>>) /\ DOMAIN <<>> = {}
  BY DEF IsList
<1>3. LogInv(engineLog, runs, engineCrashes)
  <2>1. Unrecorded(engineLog, runs) = {}
    BY <1>1, <1>2 DEF Unrecorded, IdsIn
  <2>2. Cardinality({}) = 0
    BY FS_EmptySet
  <2>a. Cardinality(Unrecorded(engineLog, runs)) = 0
    BY <2>1, <2>2
  <2>3. engineCrashes \in Nat /\ Cardinality(Unrecorded(engineLog, runs)) <= engineCrashes
    BY <1>1, <2>a
  <2>4. IsList(engineLog) /\ IsList(runs) /\ DOMAIN engineLog = {} /\ DOMAIN runs = {}
    BY <1>1, <1>2
  <2>5. QED
    BY <2>3, <2>4 DEF LogInv
<1>4. RunInv(lastRun, setup)
  <2>1. lastRun.agents = <<>> /\ lastRun.decisions = <<>>
    BY <1>1
  <2>2. WithinBudgets(lastRun)
    BY <1>2, <2>1 DEF WithinBudgets
  <2>3. QED
    BY <1>2, <2>1, <2>2 DEF RunInv
<1>5. engineCrashes \in 0..MaxEngineCrashes
  BY <1>1 DEF EngineAssumption
<1>6. QED
  BY <1>1, <1>2, <1>3, <1>4, <1>5 DEF EngineInv

LEMMA EngineCutKeeps ==
  ASSUME EngineAssumption, engineCrashes \in 0..MaxEngineCrashes, NEW done, NEW all, EngineCut(done, all)
  PROVE  engineCrashes' \in 0..MaxEngineCrashes
BY DEF EngineCut, EngineAssumption

LEMMA RunKeeps ==
  ASSUME EngineAssumption, EngineInv, NEW sim \in BOOLEAN, NEW done, RunExecution(sim, done)
  PROVE  EngineInv'
<1>1. PICK agents : agents = ActingAgents
  OBVIOUS
<1>2. Agents(agents)
  BY <1>1, ActingAgentsAgree DEF EngineInv
<1>3. PICK n : n = Len(agents)
  OBVIOUS
<1>4. n \in Nat /\ DOMAIN agents = 1..n
  BY <1>2, <1>3 DEF Agents
<1>5. PICK d : d = runAgentExecution(agents)
  OBVIOUS
<1>6. /\ d \in Seq(Decisions) /\ Len(d) = n
      /\ \A k \in DOMAIN agents : Stopped(agents[k], setup) => d[k] = "blocked"
      /\ WithinBudgets([agents |-> agents, decisions |-> d])
  <2>1. "none" \notin setup.finance.forbidden
    BY DEF EngineInv, EngineAssumption
  <2>2. QED
    BY <1>2, <1>3, <1>5, <2>1, RunObeysLimits
<1>7. d \in [1..n -> Decisions]
  BY <1>6
<1>8. PICK R : R = Len(runs) + engineCrashes + 1
  OBVIOUS
<1> DEFINE event(k) == [run |-> R, sim |-> sim, agent |-> agents[k].id, decision |-> d[k],
                        event |-> IF d[k] = "blocked" THEN "action_proposed" ELSE "action_executed"]
<1>9. PICK m : m = Min({done, n})
  OBVIOUS
<1>10. PICK record : record = [run |-> R, sim |-> sim, total |-> n, blocked |-> Count(d, "blocked"),
                               approval |-> Count(d, "requires_approval"), auto |-> Count(d, "auto_approved")]
  OBVIOUS
<1>11. PICK events : events = [k \in 1..m |-> event(k)]
  OBVIOUS
<1>12. /\ done \in 1..(n + 1)
       /\ engineLog' = engineLog \o events
       /\ runs' = writeJsonAtomic(done, n + 1, Append(runs, record), runs)
       /\ lastRun' = [agents |-> agents, decisions |-> d]
       /\ EngineCut(done, n + 1)
       /\ UNCHANGED <<setup, processKilled, children>>
  BY <1>1, <1>3, <1>5, <1>8, <1>9, <1>10, <1>11 DEF RunExecution, ActingAgents
<1>13. m \in 0..n /\ (done = n + 1 => m = n)
  <2>1. CASE done <= n
    <3>1. \A x \in {done, n} : done <= x
      BY <1>4, <1>12, <2>1
    <3>2. PICK y \in {done, n} : y = m /\ \A x \in {done, n} : y <= x
      BY <1>9, <3>1 DEF Min
    <3>3. QED
      BY <1>4, <1>12, <2>1, <3>2
  <2>2. CASE done = n + 1
    <3>1. \A x \in {done, n} : n <= x
      BY <1>4, <2>2
    <3>2. PICK y \in {done, n} : y = m /\ \A x \in {done, n} : y <= x
      BY <1>9, <3>1 DEF Min
    <3>3. QED
      BY <1>4, <2>2, <3>2
  <2>3. QED
    BY <1>4, <1>12, <2>1, <2>2
<1>14. LogInv(engineLog, runs, engineCrashes) /\ IsList(engineLog) /\ Len(engineLog) \in Nat
       /\ DOMAIN engineLog = 1..Len(engineLog)
  BY Listed DEF EngineInv, LogInv
<1>15. IsList(events) /\ Len(events) = m /\ DOMAIN events = 1..m
  <2>1. m \in Nat
    BY <1>4, <1>13
  <2>2. DOMAIN events = 1..m /\ events = [k \in 1..m |-> events[k]]
    BY <1>11
  <2>3. QED
    BY <2>1, <2>2, Listed
<1>16. PICK long : long = engineLog \o events
  OBVIOUS
<1>17. /\ IsList(long) /\ Len(long) = Len(engineLog) + m /\ DOMAIN long = 1..(Len(engineLog) + m)
       /\ \A j \in DOMAIN engineLog : long[j] = engineLog[j]
       /\ \A i \in 1..m : long[Len(engineLog) + i] = event(i)
  <2>1. /\ IsList(long) /\ Len(long) = Len(engineLog) + m /\ DOMAIN long = 1..(Len(engineLog) + m)
        /\ \A i \in 1..(Len(engineLog) + m) :
             long[i] = IF i <= Len(engineLog) THEN engineLog[i] ELSE events[i - Len(engineLog)]
    <3>1. IsList(engineLog) /\ IsList(events)
      BY <1>14, <1>15
    <3>2. /\ IsList(engineLog \o events) /\ Len(engineLog \o events) = Len(engineLog) + Len(events)
          /\ DOMAIN (engineLog \o events) = 1..(Len(engineLog) + Len(events))
          /\ \A i \in 1..(Len(engineLog) + Len(events)) :
               (engineLog \o events)[i] = IF i <= Len(engineLog) THEN engineLog[i] ELSE events[i - Len(engineLog)]
      BY <3>1, ListsJoined
    <3>3. QED
      BY <1>15, <1>16, <3>2
  <2>2. m \in Nat
    BY <1>4, <1>13
  <2>3. \A j \in DOMAIN engineLog : long[j] = engineLog[j]
    BY <1>14, <2>1, <2>2
  <2>4. ASSUME NEW i \in 1..m PROVE long[Len(engineLog) + i] = event(i)
    <3>1. PICK j : j = Len(engineLog) + i
      OBVIOUS
    <3>2. j \in 1..(Len(engineLog) + m) /\ ~(j <= Len(engineLog)) /\ j - Len(engineLog) = i
      BY <1>14, <2>2, <3>1
    <3>3. long[j] = events[i]
      BY <2>1, <3>2
    <3>4. QED
      BY <1>11, <3>1, <3>3
  <2>5. QED
    BY <2>1, <2>3, <2>4
<1>18. \A k : /\ event(k).run = R
              /\ event(k).event = IF d[k] = "blocked" THEN "action_proposed" ELSE "action_executed"
  OBVIOUS
<1> HIDE DEF event
<1>19. EngineLogGrown(engineLog, long, m, R)
  BY <1>4, <1>13, <1>14, <1>17, <1>18 DEF EngineLogGrown
<1>20. \A k \in DOMAIN long : long[k].event \in EventKinds
  <2>1. \A k \in DOMAIN long : k \in DOMAIN engineLog \/ \E i \in 1..m : k = Len(engineLog) + i
    <3>1. ASSUME NEW k \in DOMAIN long, k \notin DOMAIN engineLog PROVE \E i \in 1..m : k = Len(engineLog) + i
      <4>1. m \in Nat
        BY <1>4, <1>13
      <4>2. k - Len(engineLog) \in 1..m /\ k = Len(engineLog) + (k - Len(engineLog))
        BY <1>14, <1>17, <3>1, <4>1
      <4>3. QED
        BY <4>2
    <3>2. QED
      BY <3>1
  <2>2. \A k \in DOMAIN engineLog : engineLog[k].event \in EventKinds
    BY DEF EngineInv
  <2>3. \A i : event(i).event \in EventKinds
    BY <1>18 DEF EventKinds
  <2>4. QED
    BY <1>17, <2>1, <2>2, <2>3
<1>21. LogInv(long, runs', engineCrashes')
  <2>1. CASE done <= n
    <3>1. runs' = runs /\ engineCrashes' = engineCrashes + 1
      BY <1>4, <1>12, <2>1 DEF writeJsonAtomic, EngineCut
    <3>2. LogInv(long, runs, engineCrashes + 1)
      BY <1>8, <1>14, <1>19, RunCut
    <3>3. QED
      BY <3>1, <3>2
  <2>2. CASE done = n + 1
    <3>1. runs' = Append(runs, record) /\ engineCrashes' = engineCrashes
      BY <1>4, <1>12, <2>2 DEF writeJsonAtomic, EngineCut
    <3>2. m = n
      BY <1>13, <2>2
    <3>3. EventsOf(long, R) = {Len(engineLog) + i : i \in 1..n}
      BY <1>8, <1>14, <1>19, <3>2, NewRunLogged
    <3>4. Cardinality(EventsOf(long, R)) = n
      <4>0. (1..n) \in SUBSET (1..n) /\ n \in Nat /\ Len(engineLog) \in Nat
        BY <1>4, <1>14
      <4>1. Cardinality({Len(engineLog) + i : i \in 1..n}) = Cardinality(1..n)
        BY <4>0, ShiftedPlaces
      <4>2. Cardinality(1..n) = n
        BY <1>4, FS_Interval
      <4>3. QED
        BY <3>3, <4>1, <4>2
    <3>5. PICK B : B = {k \in 1..n : d[k] = "blocked"}
      OBVIOUS
    <3>6. {j \in EventsOf(long, R) : long[j].event = "action_proposed"} = {Len(engineLog) + i : i \in B}
      <4>1. \A i \in 1..n : long[Len(engineLog) + i].event = "action_proposed" <=> d[i] = "blocked"
        BY <1>17, <1>18, <3>2
      <4>2. QED
        BY <3>3, <3>5, <4>1
    <3>7. Cardinality({Len(engineLog) + i : i \in B}) = Cardinality(B)
      <4>1. B \in SUBSET (1..n)
        BY <3>5
      <4>2. QED
        BY <1>4, <1>14, <4>1, ShiftedPlaces
    <3>8. Count(d, "blocked") = Cardinality(B)
      BY <1>7, <3>5 DEF Count
    <3>9. n = Count(d, "blocked") + Count(d, "requires_approval") + Count(d, "auto_approved")
      BY <1>4, <1>7, CountsAddUp
    <3>10. /\ record.run = R /\ record.total = n /\ record.blocked = Count(d, "blocked")
           /\ record.approval = Count(d, "requires_approval") /\ record.auto = Count(d, "auto_approved")
      BY <1>10
    <3>11. Logged(long, record)
      BY <3>4, <3>6, <3>7, <3>8, <3>9, <3>10 DEF Logged
    <3>12. LogInv(long, Append(runs, record), engineCrashes)
      BY <1>8, <1>14, <1>19, <3>10, <3>11, RunRecorded
    <3>13. QED
      BY <3>1, <3>12
  <2>3. QED
    BY <1>4, <1>12, <2>1, <2>2
<1>22. RunInv(lastRun, setup)'
  <2>1. PICK run : run = [agents |-> agents, decisions |-> d]
    OBVIOUS
  <2>2. run.agents = agents /\ run.decisions = d /\ lastRun' = run
    BY <1>12, <2>1
  <2>3. RunInv(run, setup)
    BY <1>3, <1>6, <2>1, <2>2 DEF RunInv
  <2>4. setup' = setup
    BY <1>12
  <2>5. QED
    BY <2>2, <2>3, <2>4
<1>23. engineCrashes' \in 0..MaxEngineCrashes
  BY <1>12, EngineCutKeeps DEF EngineInv
<1>24. engineLog' = long
  BY <1>12, <1>16
<1>25. QED
  BY <1>12, <1>20, <1>21, <1>22, <1>23, <1>24 DEF EngineInv

LEMMA RegisterKeeps ==
  ASSUME EngineAssumption, EngineInv, NEW id \in ChildIds, NEW workspace \in ChildWorkspaces, NEW done \in 1..2,
         RegisterChild(id, workspace, done)
  PROVE  EngineInv'
<1>1. PICK child, event : /\ child = [id |-> id, workspace |-> workspace]
                          /\ event = [run |-> 0, sim |-> FALSE, agent |-> id, decision |-> "none",
                                      event |-> "federation_linked"]
  OBVIOUS
<1>2. PICK keep : keep = {k \in DOMAIN children : children[k].id # id}
  OBVIOUS
<1>3. /\ children' = Append(Kept(children, keep), child)
      /\ engineLog' = writeJsonAtomic(done, 2, Append(engineLog, event), engineLog)
      /\ EngineCut(done, 2)
      /\ UNCHANGED <<setup, processKilled, runs, lastRun>>
  BY <1>1, <1>2 DEF RegisterChild
<1>4. children' \in Seq(ChildRecords)
  <2>1. keep \in SUBSET DOMAIN children /\ children \in Seq(ChildRecords)
    BY <1>2 DEF EngineInv
  <2>2. Kept(children, keep) \in Seq(ChildRecords)
    BY <2>1, KeptElements
  <2>3. child \in ChildRecords
    BY <1>1 DEF ChildRecords
  <2>4. QED
    BY <1>3, <2>2, <2>3, AppendProperties
<1>5. LogInv(engineLog, runs, engineCrashes) /\ IsList(engineLog) /\ Len(engineLog) \in Nat
      /\ DOMAIN engineLog = 1..Len(engineLog)
  BY Listed DEF EngineInv, LogInv
<1>6. PICK long : long = Append(engineLog, event)
  OBVIOUS
<1>7. /\ IsList(long) /\ Len(long) = Len(engineLog) + 1 /\ DOMAIN long = 1..(Len(engineLog) + 1)
      /\ \A i \in DOMAIN engineLog : long[i] = engineLog[i]
      /\ long[Len(engineLog) + 1] = event
  BY <1>5, <1>6, ListAppended
<1>8. event.run = 0 /\ event.event \in EventKinds
  BY <1>1 DEF EventKinds
<1>9. EngineLogGrown(engineLog, long, 1, 0)
  BY <1>5, <1>7, <1>8 DEF EngineLogGrown
<1>10. LogInv(long, runs, engineCrashes)
  BY <1>5, <1>9, ChildLogged
<1>11. \A k \in DOMAIN long : long[k].event \in EventKinds
  BY <1>5, <1>7, <1>8 DEF EngineInv
<1>12. engineCrashes' \in 0..MaxEngineCrashes
  BY <1>3, EngineCutKeeps DEF EngineInv
<1>13. LogInv(engineLog', runs', engineCrashes') /\ \A k \in DOMAIN engineLog' : engineLog'[k].event \in EventKinds
  <2>1. CASE done = 1
    <3>1. engineLog' = engineLog /\ runs' = runs /\ engineCrashes' = engineCrashes + 1
      BY <1>3, <2>1 DEF writeJsonAtomic, EngineCut
    <3>2. LogInv(engineLog, runs, engineCrashes + 1)
      BY <1>5, CutAllowed
    <3>3. QED
      BY <3>1, <3>2 DEF EngineInv
  <2>2. CASE done = 2
    <3>1. engineLog' = long /\ runs' = runs /\ engineCrashes' = engineCrashes
      BY <1>3, <1>6, <2>2 DEF writeJsonAtomic, EngineCut
    <3>2. QED
      BY <1>10, <1>11, <3>1
  <2>3. QED
    BY <2>1, <2>2
<1>14. RunInv(lastRun, setup)'
  BY <1>3 DEF EngineInv
<1>15. QED
  BY <1>3, <1>4, <1>12, <1>13, <1>14 DEF EngineInv

LEMMA EngineInvStep == EngineAssumption /\ EngineInv /\ [EngineNext]_engineVars => EngineInv'
<1> SUFFICES ASSUME EngineAssumption, EngineInv, [EngineNext]_engineVars PROVE EngineInv'
  OBVIOUS
<1>1. CASE UNCHANGED engineVars
  <2>1. RunInv(lastRun, setup)'
    BY <1>1 DEF EngineInv, engineVars
  <2>2. QED
    BY <1>1, <2>1 DEF EngineInv, engineVars
<1>2. CASE EngineNext
  BY <1>2, RunKeeps, RegisterKeeps DEF EngineNext
<1>3. QED
  BY <1>1, <1>2

(* A run of the agents stays within the budgets of departments, chairs and *)
(* teams, no stage revives what another blocked, and log and record say    *)
(* the same of it, or a crash is why they do not (engine.ts,               *)
(* routes/execution.ts), for any artifacts a workspace may have and any    *)
(* number of agents.                                                       *)
THEOREM RunsAreLimited == EngineSpec => [](EngineTypeOK /\ RunsObeyTheirLimits)
BY EngineAssumption, EngineFromInv, EngineInvInit, EngineInvStep, PTL DEF EngineSpec

-----------------------------------------------------------------------------
(* The components together: a step of another component leaves a           *)
(* component's stores alone.                                               *)
LEMMA GatewayInComposition == Spec => GatewaySpec
<1>1. Init => GatewayInit
  BY DEF Init
<1>2. ASSUME NEW c \in Components \ {"gateway"}, Only(c) PROVE UNCHANGED gatewayVars
  BY <1>2 DEF Only
<1>3. ASSUME Next PROVE [GatewayNext]_gatewayVars
  BY <1>2, <1>3 DEF Next, Components
<1>4. ASSUME UNCHANGED vars PROVE UNCHANGED gatewayVars
  BY <1>4 DEF vars
<1>5. QED
  BY <1>1, <1>3, <1>4, PTL DEF Spec, GatewaySpec

LEMMA ActionInComposition == Spec => ActionSpec
<1>1. Init => ActionInit
  BY DEF Init
<1>2. ASSUME NEW c \in Components \ {"actions"}, Only(c) PROVE UNCHANGED actionVars
  BY <1>2 DEF Only
<1>3. ASSUME Next PROVE [ActionNext]_actionVars
  BY <1>2, <1>3 DEF Next, Components
<1>4. ASSUME UNCHANGED vars PROVE UNCHANGED actionVars
  BY <1>4 DEF vars
<1>5. QED
  BY <1>1, <1>3, <1>4, PTL DEF Spec, ActionSpec

LEMMA ObservabilityInComposition == Spec => ObservabilitySpec
<1>1. Init => ObservabilityInit
  BY DEF Init
<1>2. ASSUME NEW c \in Components \ {"approvals"}, Only(c) PROVE UNCHANGED observabilityVars
  BY <1>2 DEF Only
<1>3. ASSUME Next PROVE [ObservabilityNext]_observabilityVars
  BY <1>2, <1>3 DEF Next, Components
<1>4. ASSUME UNCHANGED vars PROVE UNCHANGED observabilityVars
  BY <1>4 DEF vars
<1>5. QED
  BY <1>1, <1>3, <1>4, PTL DEF Spec, ObservabilitySpec

LEMMA TreasuryInComposition == Spec => TreasurySpec
<1>1. Init => TreasuryInit
  BY DEF Init
<1>2. ASSUME NEW c \in Components \ {"treasury"}, Only(c) PROVE UNCHANGED treasuryVars
  BY <1>2 DEF Only
<1>3. ASSUME Next PROVE [TreasuryNext]_treasuryVars
  BY <1>2, <1>3 DEF Next, Components
<1>4. ASSUME UNCHANGED vars PROVE UNCHANGED treasuryVars
  BY <1>4 DEF vars
<1>5. QED
  BY <1>1, <1>3, <1>4, PTL DEF Spec, TreasurySpec

LEMMA EngineInComposition == Spec => EngineSpec
<1>1. Init => EngineInit
  BY DEF Init
<1>2. ASSUME NEW c \in Components \ {"engine"}, Only(c) PROVE UNCHANGED engineVars
  BY <1>2 DEF Only
<1>3. ASSUME Next PROVE [EngineNext]_engineVars
  BY <1>2, <1>3 DEF Next, Components
<1>4. ASSUME UNCHANGED vars PROVE UNCHANGED engineVars
  BY <1>4 DEF vars
<1>5. QED
  BY <1>1, <1>3, <1>4, PTL DEF Spec, EngineSpec

LEMMA OrgInComposition == Spec => OrgSpec
<1>1. Init => OrgInit
  BY DEF Init
<1>2. ASSUME NEW c \in Components \ {"org"}, Only(c) PROVE UNCHANGED orgVars
  BY <1>2 DEF Only
<1>3. ASSUME Next PROVE [OrgNext]_orgVars
  BY <1>2, <1>3 DEF Next, Components
<1>4. ASSUME UNCHANGED vars PROVE UNCHANGED orgVars
  BY <1>4 DEF vars
<1>5. QED
  BY <1>1, <1>3, <1>4, PTL DEF Spec, OrgSpec

LEMMA CatalogInComposition == Spec => CatalogSpec
<1>1. Init => CatalogInit
  BY DEF Init
<1>2. ASSUME NEW c \in Components \ {"catalog"}, Only(c) PROVE UNCHANGED catalogVars
  BY <1>2 DEF Only
<1>3. ASSUME Next PROVE [CatalogNext]_catalogVars
  BY <1>2, <1>3 DEF Next, Components
<1>4. ASSUME UNCHANGED vars PROVE UNCHANGED catalogVars
  BY <1>4 DEF vars
<1>5. QED
  BY <1>1, <1>3, <1>4, PTL DEF Spec, CatalogSpec

LEMMA CadenceInComposition == Spec => CadenceSpec
<1>1. Init => CadenceInit
  BY DEF Init
<1>2. ASSUME NEW c \in Components \ {"cadence"}, Only(c) PROVE UNCHANGED cadenceVars
  BY <1>2 DEF Only
<1>3. ASSUME Next PROVE [CadenceNext]_cadenceVars
  BY <1>2, <1>3 DEF Next, Components
<1>4. ASSUME UNCHANGED vars PROVE UNCHANGED cadenceVars
  BY <1>4 DEF vars
<1>5. QED
  BY <1>1, <1>3, <1>4, PTL DEF Spec, CadenceSpec

LEMMA ProvisioningInComposition == Spec => ProvisioningSpec
<1>1. Init => ProvisioningInit
  BY DEF Init
<1>2. ASSUME NEW c \in Components \ {"provisioning"}, Only(c) PROVE UNCHANGED provisioningVars
  BY <1>2 DEF Only
<1>3. ASSUME Next PROVE [ProvisioningNext]_provisioningVars
  BY <1>2, <1>3 DEF Next, Components
<1>4. ASSUME UNCHANGED vars PROVE UNCHANGED provisioningVars
  BY <1>4 DEF vars
<1>5. QED
  BY <1>1, <1>3, <1>4, PTL DEF Spec, ProvisioningSpec

LEMMA OutreachInComposition == Spec => OutreachSpec
<1>1. Init => OutreachInit
  BY DEF Init
<1>2. ASSUME NEW c \in Components \ {"outreach"}, Only(c) PROVE UNCHANGED outreachVars
  BY <1>2 DEF Only
<1>3. ASSUME Next PROVE [OutreachNext]_outreachVars
  BY <1>2, <1>3 DEF Next, Components
<1>4. ASSUME UNCHANGED vars PROVE UNCHANGED outreachVars
  BY <1>4 DEF vars
<1>5. QED
  BY <1>1, <1>3, <1>4, PTL DEF Spec, OutreachSpec

LEMMA CompanyInComposition == Spec => CompanySpec
<1>1. Init => CompanyInit
  BY DEF Init
<1>2. ASSUME NEW c \in Components \ {"company"}, Only(c) PROVE UNCHANGED companyVars
  BY <1>2 DEF Only
<1>3. ASSUME Next PROVE [CompanyNext]_companyVars
  BY <1>2, <1>3 DEF Next, Components
<1>4. ASSUME UNCHANGED vars PROVE UNCHANGED companyVars
  BY <1>4 DEF vars
<1>5. QED
  BY <1>1, <1>3, <1>4, PTL DEF Spec, CompanySpec

(* What is observed is beside the approvals.                               *)
LEMMA ApprovalsInComposition == Spec => ApprovalSpec
<1>1. ObservabilityInit => ApprovalInit
  BY DEF ObservabilityInit
<1>2. QED
  BY <1>1, ApprovalsAlone, ObservabilityInComposition, PTL DEF ObservabilitySpec, ApprovalSpec

(* What was decided about an action or a request for approval is what the  *)
(* records of actions.ts and approvals.ts say, whatever the other          *)
(* components of the composition do.                                       *)
THEOREM DecisionsAreHeld == Spec => []DecisionsHold
<1>1. LedgerExplainsActions /\ ApprovedByEnough => DecisionsHold
  BY DEF DecisionsHold
<1>2. QED
  BY <1>1, ApprovalsInComposition, ActionInComposition, ApprovedByThatMany, ActionsAreExplained, PTL

(* A plan fits the capacity its tenant has left (the gateway), a           *)
(* distribution gives away what was there and once (treasury.ts), and a    *)
(* run of the cadence keeps the end it came to (cadence.ts), whatever the  *)
(* other components of the composition do.                                 *)
THEOREM ControlsAreKept == Spec => [](CapacityHolds /\ DistributionsHold /\ RunsKeepTheirEnd)
BY GatewayInComposition, TreasuryInComposition, CadenceInComposition,
   CapacityIsHeld, MoneyIsDivided, RunsKeepEnds, PTL

(* A run of the agents obeys every budget and every ban there is, and says *)
(* so on record (agent-runtime/execution/engine.ts, routes/execution.ts),  *)
(* whatever the other components of the composition do.                    *)
THEOREM RunsKeepTheirLimits == Spec => []RunsObeyTheirLimits
BY EngineInComposition, RunsAreLimited, PTL

(* An organisation's units, gaps and delegations have the chairs they are  *)
(* said to have (routes/org.ts), whatever the other components of the      *)
(* composition do.                                                         *)
THEOREM UnitsKeepChairs == Spec => []UnitsHaveChairs
<1>1. ApprovedIsApplied /\ OrphansWereDelegated /\ ClosedGapsHaveChairs => UnitsHaveChairs
  BY DEF UnitsHaveChairs
<1>2. QED
  BY <1>1, OrgInComposition, CatalogInComposition, OrgIsSound, GapsHaveChairs, PTL

(* What was done outside is on file as it went: the launches and the calls *)
(* of approve-execute, the mails of a campaign (routes/level4.ts), and the *)
(* pivots that were asked for (autonomous-company.ts), whatever the other  *)
(* components of the composition do.                                       *)
THEOREM OperationsStayOnFile == Spec => []OperationsAreOnFile
<1>1. OutcomesAreOnFile /\ MailsAreCounted /\ PivotsAreAsked => OperationsAreOnFile
  BY DEF OperationsAreOnFile
<1>2. QED
  BY <1>1, ProvisioningInComposition, OutreachInComposition, CompanyInComposition,
     OutcomesFiled, MailsCounted, CompanyIsTyped, PTL

(* Every store of the eleven components holds what the code writes: the    *)
(* statuses, references and counters of the routes that keep them, and the *)
(* reports computed from them.                                             *)
THEOREM WorkIsTyped == Spec => []WorkTypeOK
<1>1. /\ GatewayTypeOK /\ ActionTypeOK /\ ObservabilityTypeOK /\ TreasuryTypeOK
      /\ EngineTypeOK /\ OrgTypeOK /\ CatalogTypeOK /\ CadenceTypeOK
      /\ ProvisioningTypeOK /\ OutreachTypeOK /\ CompanyTypeOK
      => WorkTypeOK
  BY DEF WorkTypeOK
<1>2. Spec => [](GatewayTypeOK /\ ActionTypeOK /\ ObservabilityTypeOK /\ TreasuryTypeOK)
  BY GatewayInComposition, ActionInComposition, ObservabilityInComposition, TreasuryInComposition,
     GatewayTypes, ActionTypes, ObservabilityTypes, TreasuryTypes, PTL
<1>3. Spec => [](EngineTypeOK /\ OrgTypeOK /\ CatalogTypeOK /\ CadenceTypeOK)
  BY EngineInComposition, OrgInComposition, CatalogInComposition, CadenceInComposition,
     RunsAreLimited, OrgIsSound, GapsHaveChairs, CadenceTypes, PTL
<1>4. Spec => [](ProvisioningTypeOK /\ OutreachTypeOK /\ CompanyTypeOK)
  BY ProvisioningInComposition, OutreachInComposition, CompanyInComposition,
     ProvisioningTypes, OutreachTypes, CompanyIsTyped, PTL
<1>5. QED
  BY <1>1, <1>2, <1>3, <1>4, PTL
===============================================================================
