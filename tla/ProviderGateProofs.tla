-------------------------- MODULE ProviderGateProofs --------------------------
(***************************************************************************)
(* The gate of lib/model-client.ts for every set of calls, every limit,    *)
(* every spacing and every backoff table: its type invariant, the count of *)
(* its slots, and that no waiting call is stranded.                        *)
(***************************************************************************)
EXTENDS ProviderGate, FiniteSetTheorems, SequenceTheorems, TLAPS

(* The inductive invariant.  SlotAccounting needs QueueOfWaiters (the call  *)
(* woken by a release did not hold a slot yet), and NoStrandedWaiter needs  *)
(* SlotAccounting (the releasing call is counted).                          *)
IInv ==
    /\ TypeOK
    /\ SlotAccounting
    /\ QueueOfWaiters
    /\ NoStrandedWaiter
    /\ WithinLargestLimit

(* A sequence without repetition that gains a new element at its end       *)
(* repeats nothing, and holds what it held and that element.               *)
LEMMA AppendFresh ==
    ASSUME NEW S, NEW s \in Seq(S), NEW e \in S, IsInjective(s), e \notin Range(s)
    PROVE  /\ IsInjective(Append(s, e))
           /\ Range(Append(s, e)) = Range(s) \cup {e}
<1> DEFINE n == Len(s)
           t == Append(s, e)
<1>1. n \in Nat /\ DOMAIN s = 1..n /\ DOMAIN t = 1..(n + 1)
  BY LenProperties, AppendProperties
<1>2. t[n + 1] = e /\ \A i \in 1..n : t[i] = s[i]
  BY AppendProperties
<1>3. \A i \in 1..n : s[i] # e
  BY <1>1 DEF Range
<1>4. \A i, j \in 1..n : s[i] = s[j] => i = j
  BY <1>1 DEF IsInjective
<1>5. (1..n) \cup {n + 1} = 1..(n + 1)
  BY <1>1
<1> HIDE DEF n, t
<1>6. \A i, j \in 1..(n + 1) : t[i] = t[j] => i = j
  BY <1>1, <1>2, <1>3, <1>4, <1>5
<1>7. Range(t) = Range(s) \cup {e}
  BY <1>1, <1>2, <1>5 DEF Range
<1>8. IsInjective(t)
  BY <1>1, <1>6 DEF IsInjective
<1>9. QED
  BY <1>7, <1>8 DEF t

(* Without its head it repeats nothing, and holds what it held but that.   *)
LEMMA TailDistinct ==
    ASSUME NEW S, NEW s \in Seq(S), s # <<>>, IsInjective(s)
    PROVE  /\ IsInjective(Tail(s))
           /\ Range(Tail(s)) = Range(s) \ {Head(s)}
           /\ Head(s) \in Range(s)
<1> DEFINE n == Len(s)
           t == Tail(s)
           h == Head(s)
<1>1. n \in Nat /\ n # 0 /\ h = s[1] /\ DOMAIN s = 1..n
  BY LenProperties, EmptySeq
<1>2. Len(t) = n - 1 /\ t \in Seq(S) /\ \A i \in 1..(n - 1) : t[i] = s[i + 1]
  BY HeadTailProperties
<1>2a. DOMAIN t = 1..(n - 1)
  BY <1>2, LenProperties
<1>3. \A i, j \in 1..n : s[i] = s[j] => i = j
  BY <1>1 DEF IsInjective
<1> HIDE DEF n, h, t
<1>4. \A i \in 1..(n - 1) : i + 1 \in 1..n /\ i + 1 # 1
  BY <1>1
<1>5. \A i \in 1..n : i = 1 \/ (i - 1 \in 1..(n - 1) /\ (i - 1) + 1 = i)
  BY <1>1
<1>6. \A i, j \in 1..(n - 1) : t[i] = t[j] => i = j
  BY <1>1, <1>2, <1>3, <1>4
<1>7. Range(t) \subseteq Range(s) \ {h}
  <2>1. SUFFICES ASSUME NEW i \in 1..(n - 1)
                 PROVE  t[i] \in Range(s) /\ t[i] # h
    BY <1>2a DEF Range
  <2>2. t[i] = s[i + 1] /\ i + 1 \in 1..n /\ i + 1 # 1 /\ 1 \in 1..n
    BY <1>1, <1>2, <1>4
  <2>3. QED
    BY <1>1, <1>3, <2>2 DEF Range
<1>8. Range(s) \ {h} \subseteq Range(t)
  <2>1. SUFFICES ASSUME NEW k \in 1..n, s[k] # h
                 PROVE  \E i \in 1..(n - 1) : t[i] = s[k]
    BY <1>1, <1>2a DEF Range
  <2>2. k - 1 \in 1..(n - 1) /\ (k - 1) + 1 = k
    BY <1>1, <1>5, <2>1
  <2>3. t[k - 1] = s[k]
    BY <1>2, <2>2
  <2>4. QED
    BY <2>2, <2>3
<1>9. IsInjective(t)
  BY <1>2a, <1>6 DEF IsInjective
<1>10. h \in Range(s)
  BY <1>1 DEF Range
<1>11. QED
  BY <1>7, <1>8, <1>9, <1>10 DEF h, t

LEMMA InitIInv == Init => IInv
<1> SUFFICES ASSUME Init PROVE IInv
  OBVIOUS
<1> USE GateAssumption DEF Init
<1>1. TypeOK
  BY DEF TypeOK, PCs
<1>2. Holders = {}
  BY DEF Holders, HoldingPC
<1>3. SlotAccounting
  BY <1>2, FS_EmptySet DEF SlotAccounting
<1>4. QueueOfWaiters
  BY DEF QueueOfWaiters, IsInjective, Range
<1>5. NoStrandedWaiter /\ WithinLargestLimit
  BY DEF NoStrandedWaiter, WithinLargestLimit
<1>6. QED
  BY <1>1, <1>3, <1>4, <1>5 DEF IInv

(* Types: one step per action.                                             *)
LEMMA TypePreserved == TypeOK /\ [Next]_vars => TypeOK'
<1> SUFFICES ASSUME TypeOK, [Next]_vars PROVE TypeOK'
  OBVIOUS
<1> USE GateAssumption DEF TypeOK, PCs, HoldingPC
<1>0. Len(Backoff) \in Nat
  BY LenProperties
<1>1. ASSUME NEW c \in Calls, Arrive(c) PROVE TypeOK'
  <2>1. CASE TakeSlot(c)
    BY <1>0, <1>1, <2>1 DEF Arrive, TakeSlot
  <2>2. CASE JoinQueue(c)
    <3>1. queue' \in Seq(Calls)
      BY <2>2, AppendProperties DEF JoinQueue
    <3>2. QED
      BY <1>0, <1>1, <2>2, <3>1 DEF Arrive, JoinQueue
  <2>3. QED
    BY <1>1, <2>1, <2>2 DEF Arrive
<1>2. ASSUME NEW c \in Calls, Pace(c) PROVE TypeOK'
  <2>0. UNCHANGED <<limit, active, queue, retries>>
    BY <1>2 DEF Pace
  <2>1. CASE age >= Spacing
    <3>1. /\ pc' = [pc EXCEPT ![c] = "calling"] /\ age' = 0 /\ timer' = timer
          /\ sinceGrant' = [sinceGrant EXCEPT ![c] = 0]
      BY <1>2, <2>1 DEF Pace, Grant
    <3>2. QED
      BY <2>0, <3>1
  <2>2. CASE age < Spacing
    <3>1. /\ pc' = [pc EXCEPT ![c] = "pacing"] /\ age' = age
          /\ sinceGrant' = sinceGrant
          /\ timer' = [timer EXCEPT ![c] = Spacing - age]
      BY <1>2, <2>2 DEF Pace, Grant
    <3>2. Spacing - age \in Nat
      BY <2>2
    <3>3. QED
      BY <2>0, <3>1, <3>2
  <2>3. QED
    BY <2>1, <2>2
<1>3. ASSUME NEW c \in Calls, WakeFromPacing(c) PROVE TypeOK'
  BY <1>3 DEF WakeFromPacing, Grant
<1>4. ASSUME NEW c \in Calls, Finish(c) PROVE TypeOK'
  <2>0. UNCHANGED <<limit, age, timer, retries, sinceGrant>>
    BY <1>4 DEF Finish
  <2>1. CASE queue = <<>>
    <3>1. /\ pc' = [pc EXCEPT ![c] = "idle"] /\ queue' = queue
          /\ active' = IF active = 0 THEN 0 ELSE active - 1
      BY <1>4, <2>1 DEF Finish, Release
    <3>2. active' \in Nat
      BY <3>1
    <3>3. QED
      BY <2>0, <3>1, <3>2
  <2>2. CASE queue # <<>>
    <3>1. Head(queue) \in Calls /\ Tail(queue) \in Seq(Calls)
      BY <2>2, HeadTailProperties
    <3>2. /\ pc' = [pc EXCEPT ![c] = "idle", ![Head(queue)] = "admitted"]
          /\ queue' = Tail(queue)
          /\ active' = (IF active = 0 THEN 0 ELSE active - 1) + 1
      BY <1>4, <2>2 DEF Finish, Release
    <3>3. active' \in Nat
      BY <3>2
    <3>4. QED
      BY <2>0, <3>1, <3>2, <3>3
  <2>3. QED
    BY <2>1, <2>2
<1>5. ASSUME NEW c \in Calls, RateLimited(c) PROVE TypeOK'
  <2>1. Len(Backoff) \in Nat
    BY LenProperties
  <2>2. retries[c] + 1 \in 1..Len(Backoff)
    BY <1>5, <2>1 DEF RateLimited
  <2>3. Backoff[retries[c] + 1] \in Nat
    BY <2>2
  <2>4. QED
    BY <1>5, <2>1, <2>2, <2>3 DEF RateLimited, gateVars
<1>6. ASSUME NEW c \in Calls, Retry(c) PROVE TypeOK'
  BY <1>6 DEF Retry, gateVars
<1>7. CASE Tick
  BY <1>7 DEF Tick
<1>8. CASE EditSettings
  BY <1>8 DEF EditSettings, gateVars, callVars
<1>9. CASE UNCHANGED vars
  BY <1>9 DEF vars, gateVars, callVars
<1>10. QED
  BY <1>1, <1>2, <1>3, <1>4, <1>5, <1>6, <1>7, <1>8, <1>9 DEF Next

(* The calls that hold a slot are finitely many.                           *)
LEMMA HoldersFinite == IsFiniteSet(Holders)
BY GateAssumption, FS_Subset DEF Holders

(* A step that moves no call into or out of HoldingPC or "queued" and      *)
(* leaves the gate's count and queue alone keeps the invariant.            *)
LEMMA QuietStep ==
    ASSUME IInv, TypeOK',
           UNCHANGED <<active, queue>>,
           \A c \in Calls : pc'[c] \in HoldingPC <=> pc[c] \in HoldingPC,
           \A c \in Calls : pc'[c] = "queued" <=> pc[c] = "queued"
    PROVE  IInv'
<1>1. Holders' = Holders
  BY DEF Holders
<1>2. SlotAccounting'
  BY <1>1 DEF IInv, SlotAccounting
<1>3. QueueOfWaiters'
  BY DEF IInv, QueueOfWaiters
<1>4. NoStrandedWaiter' /\ WithinLargestLimit'
  BY DEF IInv, NoStrandedWaiter, WithinLargestLimit
<1>5. QED
  BY <1>2, <1>3, <1>4 DEF IInv

LEMMA ArriveStep ==
    ASSUME IInv, TypeOK', NEW c \in Calls, Arrive(c)
    PROVE  IInv'
<1> USE GateAssumption DEF IInv, TypeOK
<1>1. CASE TakeSlot(c)
  <2>1. /\ pc[c] = "idle"
        /\ pc' = [pc EXCEPT ![c] = "admitted"]
        /\ active < limit /\ active' = active + 1 /\ queue' = queue
    BY <1>1 DEF Arrive, TakeSlot
  <2>2. c \notin Holders /\ Holders' = Holders \cup {c}
    BY <2>1 DEF Holders, HoldingPC
  <2>3. SlotAccounting'
    BY <2>1, <2>2, HoldersFinite, FS_AddElement DEF SlotAccounting
  <2>4. QueueOfWaiters'
    BY <2>1 DEF QueueOfWaiters
  <2>5. NoStrandedWaiter' /\ WithinLargestLimit'
    BY <2>1 DEF NoStrandedWaiter, WithinLargestLimit
  <2>6. QED
    BY <2>3, <2>4, <2>5
<1>2. CASE JoinQueue(c)
  <2>1. /\ pc[c] = "idle"
        /\ pc' = [pc EXCEPT ![c] = "queued"]
        /\ active >= limit /\ active' = active
        /\ queue' = Append(queue, c)
    BY <1>2 DEF Arrive, JoinQueue
  <2>2. Holders' = Holders
    BY <2>1 DEF Holders, HoldingPC
  <2>3. SlotAccounting'
    BY <2>1, <2>2 DEF SlotAccounting
  <2>4. c \notin Range(queue)
    BY <2>1 DEF QueueOfWaiters
  <2>5. IsInjective(queue') /\ Range(queue') = Range(queue) \cup {c}
    BY <2>1, <2>4, AppendFresh DEF QueueOfWaiters
  <2>6. QueueOfWaiters'
    BY <2>1, <2>5 DEF QueueOfWaiters
  <2>7. NoStrandedWaiter' /\ WithinLargestLimit'
    BY <2>1 DEF NoStrandedWaiter, WithinLargestLimit
  <2>8. QED
    BY <2>3, <2>6, <2>7
<1>3. QED
  BY <1>1, <1>2 DEF Arrive

LEMMA FinishStep ==
    ASSUME IInv, TypeOK', NEW c \in Calls, Finish(c)
    PROVE  IInv'
<1> USE GateAssumption DEF IInv, TypeOK
<1>1. pc[c] = "calling" /\ c \in Holders
  BY DEF Finish, Holders, HoldingPC
<1>2. active > 0
  <2>1. Cardinality(Holders) # 0
    BY <1>1, HoldersFinite, FS_EmptySet
  <2>2. QED
    BY <2>1 DEF SlotAccounting
<1>3. CASE queue = <<>>
  <2>1. /\ pc' = [pc EXCEPT ![c] = "idle"]
        /\ active' = active - 1 /\ queue' = queue
    BY <1>2, <1>3 DEF Finish, Release
  <2>2. Holders' = Holders \ {c}
    BY <1>1, <2>1 DEF Holders, HoldingPC
  <2>3. SlotAccounting'
    BY <1>1, <2>1, <2>2, HoldersFinite, FS_RemoveElement DEF SlotAccounting
  <2>4. QueueOfWaiters'
    BY <1>1, <2>1 DEF QueueOfWaiters
  <2>5. NoStrandedWaiter' /\ WithinLargestLimit'
    BY <1>2, <1>3, <2>1 DEF NoStrandedWaiter, WithinLargestLimit
  <2>6. QED
    BY <2>3, <2>4, <2>5
<1>4. CASE queue # <<>>
  <2> DEFINE w == Head(queue)
  <2>1. /\ IsInjective(Tail(queue))
        /\ Range(Tail(queue)) = Range(queue) \ {w}
        /\ w \in Range(queue)
    BY <1>4, TailDistinct DEF QueueOfWaiters
  <2>2. w \in Calls /\ pc[w] = "queued" /\ w # c
    BY <1>1, <2>1 DEF QueueOfWaiters
  <2>3. /\ pc' = [pc EXCEPT ![c] = "idle", ![w] = "admitted"]
        /\ active' = active /\ queue' = Tail(queue)
    BY <1>2, <1>4, SMTT(20) DEF Finish, Release
  <2>4. Holders' = (Holders \ {c}) \cup {w} /\ w \notin Holders
    BY <1>1, <2>2, <2>3 DEF Holders, HoldingPC
  <2>5. SlotAccounting'
    <3>1. /\ IsFiniteSet(Holders \ {c})
          /\ Cardinality(Holders \ {c}) = active - 1
      BY <1>1, HoldersFinite, FS_RemoveElement DEF SlotAccounting
    <3>2. Cardinality((Holders \ {c}) \cup {w}) = (active - 1) + 1
      BY <2>4, <3>1, FS_AddElement
    <3>3. QED
      BY <2>3, <2>4, <3>2 DEF SlotAccounting
  <2>6. QueueOfWaiters'
    <3>1. \A d \in Calls : pc'[d] = "queued" <=> (d # w /\ pc[d] = "queued")
      BY <1>1, <2>2, <2>3
    <3>2. QED
      BY <2>1, <2>3, <3>1 DEF QueueOfWaiters
  <2>7. NoStrandedWaiter' /\ WithinLargestLimit'
    BY <1>2, <2>3 DEF NoStrandedWaiter, WithinLargestLimit
  <2>8. QED
    BY <2>5, <2>6, <2>7
<1>5. QED
  BY <1>3, <1>4

(* Every step keeps the invariant: the two steps that move slots by the    *)
(* lemmas above, all the others because they are quiet.                    *)
LEMMA NextIInv == IInv /\ [Next]_vars => IInv'
<1> SUFFICES ASSUME IInv, [Next]_vars PROVE IInv'
  OBVIOUS
<1>t. TypeOK'
  BY TypePreserved DEF IInv
<1> USE DEF IInv, TypeOK
<1>1. ASSUME NEW c \in Calls, Arrive(c) PROVE IInv'
  BY <1>t, <1>1, ArriveStep
<1>2. ASSUME NEW c \in Calls, Pace(c) PROVE IInv'
  BY <1>t, <1>2, QuietStep DEF Pace, Grant, HoldingPC
<1>3. ASSUME NEW c \in Calls, WakeFromPacing(c) PROVE IInv'
  BY <1>t, <1>3, QuietStep DEF WakeFromPacing, Grant, HoldingPC
<1>4. ASSUME NEW c \in Calls, Finish(c) PROVE IInv'
  BY <1>t, <1>4, FinishStep
<1>5. ASSUME NEW c \in Calls, RateLimited(c) PROVE IInv'
  BY <1>t, <1>5, QuietStep DEF RateLimited, gateVars, HoldingPC
<1>6. ASSUME NEW c \in Calls, Retry(c) PROVE IInv'
  BY <1>t, <1>6, QuietStep DEF Retry, gateVars, HoldingPC
<1>7. CASE Tick
  BY <1>t, <1>7, QuietStep DEF Tick
<1>8. CASE EditSettings
  BY <1>t, <1>8, QuietStep DEF EditSettings, gateVars, callVars
<1>9. CASE UNCHANGED vars
  BY <1>t, <1>9, QuietStep DEF vars, gateVars, callVars
<1>10. QED
  BY <1>1, <1>2, <1>3, <1>4, <1>5, <1>6, <1>7, <1>8, <1>9 DEF Next

(* IInv holds in every state of every execution of the gate.               *)
THEOREM GateInvariant == Spec => []IInv
<1>1. QED
  BY InitIInv, NextIInv, PTL DEF Spec

(* Every variable of the gate keeps its type.                              *)
THEOREM TypeCorrect == Spec => []TypeOK
<1>1. IInv => TypeOK
  BY DEF IInv
<1>2. QED
  BY <1>1, GateInvariant, PTL

(* The count in activeCallCounts is the number of calls that own a slot,   *)
(* for every number of callers and every sequence of answers and edits.    *)
THEOREM SlotsAreCounted == Spec => []SlotAccounting
<1>1. IInv => SlotAccounting
  BY DEF IInv
<1>2. QED
  BY <1>1, GateInvariant, PTL

(* A call never waits at a gate nobody is going to release.                *)
THEOREM WaitersAreNotStranded == Spec => []NoStrandedWaiter
<1>1. IInv => NoStrandedWaiter
  BY DEF IInv
<1>2. QED
  BY <1>1, GateInvariant, PTL

(* Each waiting call is in the queue, once, and nobody else is.            *)
THEOREM QueueIsExact == Spec => []QueueOfWaiters
<1>1. IInv => QueueOfWaiters
  BY DEF IInv
<1>2. QED
  BY <1>1, GateInvariant, PTL

-----------------------------------------------------------------------------
(***************************************************************************)
(* How many calls are granted within one spacing interval.                 *)
(***************************************************************************)

(* The calls granted within the last s ticks, and those asleep that may be *)
(* granted before s ticks are a whole interval.                            *)
Burst(s) ==
    {c \in Calls : sinceGrant[c] <= s} \cup
        {c \in Calls : pc[c] = "pacing" /\ timer[c] + s < Spacing}

(* BurstBound is not inductive: it says nothing of the calls asleep.  What *)
(* bounds them is that they were all admitted when the first was granted,  *)
(* since a call that reads lastGrantedAt later sleeps longer.              *)
BurstInv ==
    /\ \A c \in Calls : age <= sinceGrant[c]
    /\ \A s \in 0..(Spacing - 1) : Cardinality(Burst(s)) <= MaxLimit

LEMMA BurstFinite == \A s : IsFiniteSet(Burst(s)) /\ Cardinality(Burst(s)) \in Nat
BY GateAssumption, FS_Subset, FS_CardinalityType DEF Burst

(* After a step, a burst of calls that all hold a slot is within the bound. *)
LEMMA HoldersAreFew ==
    ASSUME IInv', NEW B, B \subseteq Holders'
    PROVE  Cardinality(B) <= MaxLimit
<1>1. IsFiniteSet(Holders')
  BY GateAssumption, FS_Subset DEF Holders
<1>2. Cardinality(B) <= Cardinality(Holders') /\ Cardinality(B) \in Nat
  BY <1>1, FS_Subset, FS_CardinalityType
<1>3. Cardinality(Holders') <= MaxLimit /\ Cardinality(Holders') \in Nat
  BY <1>1, FS_CardinalityType DEF IInv, SlotAccounting, WithinLargestLimit
<1>4. QED
  BY <1>2, <1>3, GateAssumption

(* A burst inside one that is within the bound is within it.               *)
LEMMA SmallerBurst ==
    ASSUME NEW B, NEW s \in 0..(Spacing - 1), BurstInv, B \subseteq Burst(s)
    PROVE  Cardinality(B) <= MaxLimit
<1>1. Cardinality(B) <= Cardinality(Burst(s)) /\ Cardinality(B) \in Nat
  BY BurstFinite, FS_Subset, FS_CardinalityType
<1>2. Cardinality(Burst(s)) <= MaxLimit /\ Cardinality(Burst(s)) \in Nat
  BY BurstFinite DEF BurstInv
<1>3. QED
  BY <1>1, <1>2, GateAssumption

LEMMA InitBurst == Init => BurstInv
<1> SUFFICES ASSUME Init
             PROVE  BurstInv
  OBVIOUS
<1>1. \A c \in Calls : age <= sinceGrant[c]
  BY GateAssumption DEF Init
<1>2. \A s \in 0..(Spacing - 1) : Burst(s) = {}
  BY GateAssumption DEF Init, Burst
<1>3. QED
  BY <1>1, <1>2, FS_EmptySet, GateAssumption DEF BurstInv

(* A step that grants nothing, puts nobody to sleep and lets no time pass. *)
LEMMA NoGrant ==
    ASSUME IInv, IInv', BurstInv, UNCHANGED <<age, sinceGrant>>,
           \A c \in Calls : pc'[c] = "pacing" => pc[c] = "pacing" /\ timer'[c] = timer[c]
    PROVE  BurstInv'
<1>1. ASSUME NEW s \in 0..(Spacing - 1)
      PROVE  Cardinality(Burst(s)') <= MaxLimit
  <2>1. Burst(s)' \subseteq Burst(s)
    BY DEF Burst
  <2>2. QED
    BY <2>1, SmallerBurst
<1>2. QED
  BY <1>1 DEF BurstInv

(* A call that does not sleep is granted its slot when nobody else has     *)
(* been for a whole interval; one that does goes to sleep for the rest of  *)
(* the interval.                                                           *)
LEMMA PaceBurst ==
    ASSUME IInv, IInv', BurstInv, NEW c \in Calls, Pace(c)
    PROVE  BurstInv'
<1> USE GateAssumption DEF IInv, TypeOK
<1>1. CASE age >= Spacing
  <2>1. /\ age' = 0 /\ pc' = [pc EXCEPT ![c] = "calling"] /\ timer' = timer
        /\ sinceGrant' = [sinceGrant EXCEPT ![c] = 0]
    BY <1>1 DEF Pace, Grant
  <2>2. \A d \in Calls : d # c => sinceGrant'[d] = Spacing
    BY <1>1, <2>1, SMTT(20) DEF BurstInv
  <2>3. ASSUME NEW s \in 0..(Spacing - 1)
        PROVE  Cardinality(Burst(s)') <= MaxLimit
    <3>1. Burst(s)' \subseteq Holders'
      BY <2>1, <2>2 DEF Burst, Holders, HoldingPC
    <3>2. QED
      BY <3>1, HoldersAreFew
  <2>4. QED
    BY <2>1, <2>3 DEF BurstInv
<1>2. CASE age < Spacing
  <2>1. /\ pc[c] = "admitted" /\ age' = age /\ sinceGrant' = sinceGrant
        /\ pc' = [pc EXCEPT ![c] = "pacing"] /\ timer' = [timer EXCEPT ![c] = Spacing - age]
    BY <1>2, SMTT(20) DEF Pace, Grant
  <2>2. ASSUME NEW s \in 0..(Spacing - 1)
        PROVE  Cardinality(Burst(s)') <= MaxLimit
    <3>1. CASE s < age
      <4>1. Burst(s)' \subseteq Holders'
        BY <2>1, <3>1, SMTT(20) DEF Burst, BurstInv, Holders, HoldingPC
      <4>2. QED
        BY <4>1, HoldersAreFew
    <3>2. CASE s >= age
      <4>1. \A d \in Calls : d # c => (pc'[d] = pc[d] /\ timer'[d] = timer[d])
        BY <2>1
      <4>2. ~(timer'[c] + s < Spacing)
        BY <1>2, <2>1, <3>2
      <4>3. Burst(s)' \subseteq Burst(s)
        BY <2>1, <4>1, <4>2 DEF Burst
      <4>4. QED
        BY <4>3, SmallerBurst
    <3>3. QED
      BY <3>1, <3>2
  <2>3. QED
    BY <2>1, <2>2 DEF BurstInv
<1>3. QED
  BY <1>1, <1>2

(* A call whose sleep is over was in every burst.                          *)
LEMMA WakeBurst ==
    ASSUME IInv, IInv', BurstInv, NEW c \in Calls, WakeFromPacing(c)
    PROVE  BurstInv'
<1> USE GateAssumption DEF IInv, TypeOK
<1>1. /\ pc[c] = "pacing" /\ timer[c] = 0
      /\ age' = 0 /\ pc' = [pc EXCEPT ![c] = "calling"] /\ timer' = timer
      /\ sinceGrant' = [sinceGrant EXCEPT ![c] = 0]
  BY DEF WakeFromPacing, Grant
<1>2. ASSUME NEW s \in 0..(Spacing - 1)
      PROVE  Cardinality(Burst(s)') <= MaxLimit
  <2>1. Burst(s)' \subseteq Burst(s)
    BY <1>1, SMTT(20) DEF Burst
  <2>2. QED
    BY <2>1, SmallerBurst
<1>3. QED
  BY <1>1, <1>2 DEF BurstInv

(* A tick: who is in a burst of s ticks was in that of one tick less.      *)
LEMMA TickBurst ==
    ASSUME IInv, IInv', BurstInv, Tick
    PROVE  BurstInv'
<1> USE GateAssumption DEF IInv, TypeOK
<1>1. /\ age' = IF age < Spacing THEN age + 1 ELSE age
      /\ timer' = [c \in Calls |-> IF timer[c] > 0 THEN timer[c] - 1 ELSE 0]
      /\ sinceGrant' = [c \in Calls |->
                          IF sinceGrant[c] < Spacing THEN sinceGrant[c] + 1 ELSE Spacing]
      /\ pc' = pc
  BY DEF Tick
<1>2. ASSUME NEW s \in 0..(Spacing - 1)
      PROVE  Cardinality(Burst(s)') <= MaxLimit
  <2>1. CASE s = 0
    <3>1. \A c \in Calls : sinceGrant'[c] > 0
      BY <1>1
    <3>2. Burst(s)' \subseteq Holders'
      BY <2>1, <3>1 DEF Burst, Holders, HoldingPC
    <3>3. QED
      BY <3>2, HoldersAreFew
  <2>2. CASE s > 0
    <3>1. PICK r \in 0..(Spacing - 1) : r = s - 1
      BY <2>2
    <3>2. ASSUME NEW c \in Calls
          PROVE  /\ sinceGrant'[c] <= s => sinceGrant[c] <= r
                 /\ timer'[c] + s < Spacing => timer[c] + r < Spacing
      BY <1>1, <3>1
    <3>3. Burst(s)' \subseteq Burst(r)
      BY <1>1, <3>2 DEF Burst
    <3>4. QED
      BY <3>3, SmallerBurst
  <2>3. QED
    BY <2>1, <2>2
<1>3. \A c \in Calls : age' <= sinceGrant'[c]
  BY <1>1, SMTT(20) DEF BurstInv
<1>4. QED
  BY <1>2, <1>3 DEF BurstInv

LEMMA NextBurst == IInv /\ IInv' /\ BurstInv /\ [Next]_vars => BurstInv'
<1> SUFFICES ASSUME IInv, IInv', BurstInv, [Next]_vars
             PROVE  BurstInv'
  OBVIOUS
<1> USE DEF IInv, TypeOK
<1>1. ASSUME NEW c \in Calls, Arrive(c) PROVE BurstInv'
  BY <1>1, NoGrant DEF Arrive, TakeSlot, JoinQueue
<1>2. ASSUME NEW c \in Calls, Pace(c) PROVE BurstInv'
  BY <1>2, PaceBurst
<1>3. ASSUME NEW c \in Calls, WakeFromPacing(c) PROVE BurstInv'
  BY <1>3, WakeBurst
<1>4. ASSUME NEW c \in Calls, Finish(c) PROVE BurstInv'
  <2>1. UNCHANGED <<age, sinceGrant, timer>>
    BY <1>4 DEF Finish
  <2>2. \A d \in Calls : pc'[d] = "pacing" => pc[d] = "pacing"
    BY <1>4 DEF Finish, Release
  <2>3. QED
    BY <2>1, <2>2, NoGrant
<1>5. ASSUME NEW c \in Calls, RateLimited(c) \/ Retry(c) PROVE BurstInv'
  BY <1>5, NoGrant DEF RateLimited, Retry, gateVars
<1>6. CASE Tick
  BY <1>6, TickBurst
<1>7. CASE EditSettings \/ UNCHANGED vars
  BY <1>7, NoGrant DEF EditSettings, vars, gateVars, callVars
<1>8. QED
  BY <1>1, <1>2, <1>3, <1>4, <1>5, <1>6, <1>7 DEF Next

(* Within one spacing interval no more calls are granted than the largest  *)
(* limit allows, whatever the limit was edited to in between.              *)
THEOREM BurstsAreBounded == Spec => []BurstBound
<1>1. IInv /\ BurstInv => BurstBound
  <2> SUFFICES ASSUME IInv, BurstInv
               PROVE  BurstBound
    OBVIOUS
  <2>1. Spacing - 1 \in 0..(Spacing - 1)
    BY GateAssumption
  <2>2. {c \in Calls : sinceGrant[c] < Spacing} \subseteq Burst(Spacing - 1)
    BY GateAssumption DEF Burst, IInv, TypeOK
  <2>3. QED
    BY <2>1, <2>2, SmallerBurst DEF BurstBound
<1>2. QED
  BY <1>1, InitBurst, NextBurst, GateInvariant, PTL DEF Spec

-----------------------------------------------------------------------------
(***************************************************************************)
(* The gate implements CallSemaphore.                                      *)
(***************************************************************************)

LEMMA InitSemaphore == Init => Semaphore!Init
BY DEF Init, Semaphore!Init, Holders, HoldingPC

(* A step that leaves every holder and the queue as they are is a stutter. *)
LEMMA Stutter ==
    ASSUME TypeOK, queue' = queue,
           \A c \in Calls : pc'[c] \in HoldingPC <=> pc[c] \in HoldingPC
    PROVE  UNCHANGED Semaphore!vars
<1>1. Holders' = Holders
  BY DEF Holders
<1>2. QED
  BY <1>1 DEF Semaphore!vars

(* A call that arrives enters, or waits behind those that wait.            *)
LEMMA ArriveIsEnterOrWait ==
    ASSUME IInv, NEW c \in Calls, Arrive(c)
    PROVE  Semaphore!Next
<1> USE GateAssumption DEF IInv, TypeOK
<1>1. c \in Semaphore!Outside
  <2>1. pc[c] = "idle"
    BY DEF Arrive
  <2>2. c \notin Holders /\ c \notin Range(queue)
    BY <2>1 DEF Holders, HoldingPC, QueueOfWaiters
  <2>3. QED
    BY <2>2 DEF Semaphore!Outside, Semaphore!Range, Range
<1>2. CASE TakeSlot(c)
  <2>1. /\ pc[c] = "idle" /\ pc' = [pc EXCEPT ![c] = "admitted"]
        /\ active < limit /\ queue' = queue
    BY <1>2 DEF Arrive, TakeSlot
  <2>2. Holders' = Holders \cup {c}
    BY <2>1 DEF Holders, HoldingPC
  <2>3. Semaphore!Cardinality(Holders) < MaxLimit
    <3>1. Cardinality(Holders) < MaxLimit
      BY <2>1 DEF SlotAccounting
    <3>2. Semaphore!Cardinality(Holders) = Cardinality(Holders)
      BY DEF Semaphore!Cardinality, Cardinality
    <3>3. QED
      BY <3>1, <3>2
  <2>4. Semaphore!Enter(c)
    BY <1>1, <2>1, <2>2, <2>3 DEF Semaphore!Enter
  <2>5. QED
    BY <2>4 DEF Semaphore!Next
<1>3. CASE JoinQueue(c)
  <2>1. /\ pc[c] = "idle" /\ pc' = [pc EXCEPT ![c] = "queued"]
        /\ active >= limit /\ queue' = Append(queue, c)
    BY <1>3 DEF Arrive, JoinQueue
  <2>2. Holders' = Holders
    BY <2>1 DEF Holders, HoldingPC
  <2>3. Holders # {}
    <3>1. limit >= 1 /\ Cardinality(Holders) # 0
      BY <2>1 DEF SlotAccounting
    <3>2. QED
      BY <3>1, FS_EmptySet
  <2>4. Semaphore!Wait(c)
    BY <1>1, <2>1, <2>2, <2>3 DEF Semaphore!Wait
  <2>5. QED
    BY <2>4 DEF Semaphore!Next
<1>4. QED
  BY <1>2, <1>3 DEF Arrive

(* A call that ends leaves, or hands its slot to the longest waiting.      *)
LEMMA FinishIsLeaveOrHandOver ==
    ASSUME IInv, NEW c \in Calls, Finish(c)
    PROVE  Semaphore!Next
<1> USE GateAssumption DEF IInv, TypeOK
<1>1. pc[c] = "calling" /\ c \in Holders
  BY DEF Finish, Holders, HoldingPC
<1>2. CASE queue = <<>>
  <2>1. pc' = [pc EXCEPT ![c] = "idle"] /\ queue' = queue
    BY <1>2 DEF Finish, Release
  <2>2. Holders' = Holders \ {c}
    BY <1>1, <2>1 DEF Holders, HoldingPC
  <2>3. Semaphore!Leave(c)
    BY <1>1, <1>2, <2>1, <2>2 DEF Semaphore!Leave
  <2>4. QED
    BY <2>3 DEF Semaphore!Next
<1>3. CASE queue # <<>>
  <2> DEFINE w == Head(queue)
  <2>1. w \in Range(queue)
    BY <1>3, TailDistinct DEF QueueOfWaiters
  <2>2. w \in Calls /\ pc[w] = "queued" /\ w # c
    BY <1>1, <2>1 DEF QueueOfWaiters
  <2>3. pc' = [pc EXCEPT ![c] = "idle", ![w] = "admitted"] /\ queue' = Tail(queue)
    BY <1>3 DEF Finish, Release
  <2>4. Holders' = (Holders \ {c}) \cup {w}
    BY <1>1, <2>2, <2>3 DEF Holders, HoldingPC
  <2>5. Semaphore!HandOver(c)
    BY <1>1, <1>3, <2>3, <2>4 DEF Semaphore!HandOver
  <2>6. QED
    BY <2>5 DEF Semaphore!Next
<1>4. QED
  BY <1>2, <1>3

LEMMA NextSemaphore == IInv /\ [Next]_vars => [Semaphore!Next]_Semaphore!vars
<1> SUFFICES ASSUME IInv, [Next]_vars
             PROVE  [Semaphore!Next]_Semaphore!vars
  OBVIOUS
<1> USE DEF IInv, TypeOK
<1>1. ASSUME NEW c \in Calls, Arrive(c) PROVE Semaphore!Next
  BY <1>1, ArriveIsEnterOrWait
<1>2. ASSUME NEW c \in Calls, Finish(c) PROVE Semaphore!Next
  BY <1>2, FinishIsLeaveOrHandOver
<1>3. ASSUME NEW c \in Calls, Pace(c) PROVE UNCHANGED Semaphore!vars
  BY <1>3, Stutter DEF Pace, Grant, HoldingPC
<1>4. ASSUME NEW c \in Calls, WakeFromPacing(c) PROVE UNCHANGED Semaphore!vars
  BY <1>4, Stutter DEF WakeFromPacing, Grant, HoldingPC
<1>5. ASSUME NEW c \in Calls, RateLimited(c) \/ Retry(c) PROVE UNCHANGED Semaphore!vars
  BY <1>5, Stutter DEF RateLimited, Retry, gateVars, HoldingPC
<1>6. CASE Tick \/ EditSettings \/ UNCHANGED vars
  BY <1>6, Stutter DEF Tick, EditSettings, vars, gateVars, callVars
<1>7. QED
  BY <1>1, <1>2, <1>3, <1>4, <1>5, <1>6 DEF Next

(* The gate of model-client.ts is a first-in first-out counting semaphore: *)
(* every behaviour of it is one of CallSemaphore.                          *)
THEOREM GateIsASemaphore == Spec => ImplementsSemaphore
BY InitSemaphore, NextSemaphore, GateInvariant, PTL
   DEF Spec, ImplementsSemaphore, Semaphore!Spec
=============================================================================
