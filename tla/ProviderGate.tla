----------------------------- MODULE ProviderGate -----------------------------
(***************************************************************************)
(* The process-wide gate in front of one inference provider, and complete()*)
(* which passes through it: services/api/src/lib/model-client.ts.          *)
(*                                                                         *)
(* The gate is the three maps activeCallCounts, waitQueues, lastGrantedAt, *)
(* keyed by provider; providers do not share state, so one is modelled.    *)
(* JavaScript runs one continuation at a time: an action is the code       *)
(* between two suspension points of complete(), acquireProviderSlot() or   *)
(* the provider call.                                                      *)
(*                                                                         *)
(* Time is relative.  `age` is Date.now() - lastGrantedAt, cut off at      *)
(* Spacing (a larger age behaves the same); timer[c] is what is left of    *)
(* the sleep of c.  A timer may fire late, never early.                    *)
(***************************************************************************)
EXTENDS Naturals, Sequences, FiniteSets, Functions

CONSTANTS Calls,      \* the calls of complete() that can be under way together
          Limits,     \* the values resolveMaxParallel can return for the provider
          MaxLimit,   \* a bound on them
          Spacing,    \* MIN_CALL_SPACING_MS, in ticks
          Backoff     \* RATE_LIMIT_BACKOFF_MS, in ticks: one delay per retry

ASSUME GateAssumption ==
    /\ IsFiniteSet(Calls)
    /\ MaxLimit \in Nat
    /\ Limits # {} /\ Limits \subseteq 1..MaxLimit
    /\ Spacing \in Nat \ {0}
    /\ Backoff \in Seq(Nat \ {0})

VARIABLES
    limit,    \* what resolveMaxParallel would return now: settings can be edited
    active,   \* activeCallCounts.get(provider)
    queue,    \* waitQueues.get(provider): the calls whose resolver is queued
    age,      \* time since lastGrantedAt, at most Spacing
    pc,       \* where each call is suspended
    timer,    \* ticks left of the call's sleep
    retries,  \* how many backoff delays the call has used
    sinceGrant \* time since the call was last granted a slot, at most Spacing
               \* (an observation: no action reads it)

gateVars == <<active, queue, age>>
callVars == <<pc, timer, retries, sinceGrant>>
vars == <<limit, gateVars, callVars>>

(* "admitted": the slot is taken, the await in acquireProviderSlot has not *)
(* resumed; "pacing": asleep until the spacing has passed; "calling": the  *)
(* provider is answering; "backoff": asleep between two attempts.          *)
HoldingPC == {"admitted", "pacing", "calling", "backoff"}
PCs == {"idle", "queued"} \cup HoldingPC

Holders == {c \in Calls : pc[c] \in HoldingPC}

Init ==
    /\ limit \in Limits
    /\ active = 0
    /\ queue = <<>>
    /\ age = Spacing                  \* nothing granted yet: (?? 0) is long ago
    /\ pc = [c \in Calls |-> "idle"]
    /\ timer = [c \in Calls |-> 0]
    /\ retries = [c \in Calls |-> 0]
    /\ sinceGrant = [c \in Calls |-> Spacing]

(***************************************************************************)
(* acquireConcurrencySlot                                                  *)
(***************************************************************************)

(* A free slot: counted at once, and the caller resumes in a microtask. *)
TakeSlot(c) ==
    /\ active < limit
    /\ active' = active + 1
    /\ pc' = [pc EXCEPT ![c] = "admitted"]
    /\ UNCHANGED queue

(* Mutant: the queue is served last in, first out. *)
JoinAtHead(c) ==
    /\ active >= limit
    /\ queue' = <<c>> \o queue
    /\ pc' = [pc EXCEPT ![c] = "queued"]
    /\ UNCHANGED active

(* No free slot: the resolver goes to the end of the queue. *)
JoinQueue(c) ==
    /\ active >= limit
    /\ queue' = Append(queue, c)
    /\ pc' = [pc EXCEPT ![c] = "queued"]
    /\ UNCHANGED active

(* complete() up to its first await.  A call that finds no provider        *)
(* configured throws before it touches the gate and is not a call here.    *)
Arrive(c) ==
    /\ pc[c] = "idle"
    /\ TakeSlot(c) \/ JoinQueue(c)
    /\ retries' = [retries EXCEPT ![c] = 0]
    /\ UNCHANGED <<limit, age, timer, sinceGrant>>

(***************************************************************************)
(* acquireProviderSlot after its first await                               *)
(***************************************************************************)

(* Mutant: lastGrantedAt is never set. *)
GrantUnrecorded(c) ==
    /\ UNCHANGED age
    /\ pc' = [pc EXCEPT ![c] = "calling"]
    /\ sinceGrant' = [sinceGrant EXCEPT ![c] = 0]

(* lastGrantedAt.set(now): the call has its slot and goes to the provider. *)
Grant(c) ==
    /\ age' = 0
    /\ pc' = [pc EXCEPT ![c] = "calling"]
    /\ sinceGrant' = [sinceGrant EXCEPT ![c] = 0]

(* Mutant: the comparison with the gap is the wrong way round, so a call    *)
(* that need not wait sleeps for a "negative" time.                         *)
PaceBackwards(c) ==
    /\ pc[c] = "admitted"
    /\ timer' = [timer EXCEPT ![c] = age - Spacing]
    /\ pc' = [pc EXCEPT ![c] = "pacing"]
    /\ UNCHANGED <<limit, active, queue, age, retries, sinceGrant>>

(* The wait is computed from lastGrantedAt as it is now. *)
Pace(c) ==
    /\ pc[c] = "admitted"
    /\ \/ /\ age >= Spacing
          /\ Grant(c)
          /\ UNCHANGED timer
       \/ /\ age < Spacing
          /\ timer' = [timer EXCEPT ![c] = Spacing - age]
          /\ pc' = [pc EXCEPT ![c] = "pacing"]
          /\ UNCHANGED <<age, sinceGrant>>
    /\ UNCHANGED <<limit, active, queue, retries>>

(* The sleep is over.  lastGrantedAt is written, not read again. *)
WakeFromPacing(c) ==
    /\ pc[c] = "pacing"
    /\ timer[c] = 0
    /\ Grant(c)
    /\ UNCHANGED <<limit, active, queue, timer, retries>>

(***************************************************************************)
(* The rest of complete(): the answer, the backoff, and the finally        *)
(***************************************************************************)

(* Mutants: the woken call is left in the queue; the count is not given     *)
(* back before the hand-over; nobody is woken.                              *)
ReleaseWithoutShift(c) ==
    /\ active' = IF queue = <<>> THEN active - 1 ELSE active
    /\ pc' = IF queue = <<>> THEN [pc EXCEPT ![c] = "idle"]
             ELSE [pc EXCEPT ![c] = "idle", ![Head(queue)] = "admitted"]
    /\ UNCHANGED queue

ReleaseWithoutDecrement(c) ==
    IF queue = <<>>
    THEN /\ active' = active - 1
         /\ pc' = [pc EXCEPT ![c] = "idle"]
         /\ UNCHANGED queue
    ELSE /\ active' = active + 1
         /\ pc' = [pc EXCEPT ![c] = "idle", ![Head(queue)] = "admitted"]
         /\ queue' = Tail(queue)

ReleaseWithoutWaking(c) ==
    /\ active' = active - 1
    /\ pc' = [pc EXCEPT ![c] = "idle"]
    /\ UNCHANGED queue

(* The resolver at the head of the queue counts its own slot. *)
Release(c) ==
    LET left == IF active = 0 THEN 0 ELSE active - 1
    IN  IF queue = <<>>
        THEN /\ active' = left
             /\ pc' = [pc EXCEPT ![c] = "idle"]
             /\ UNCHANGED queue
        ELSE /\ active' = left + 1
             /\ pc' = [pc EXCEPT ![c] = "idle", ![Head(queue)] = "admitted"]
             /\ queue' = Tail(queue)

(* Any answer but a 429 ends the call, and so does an exception. *)
Finish(c) ==
    /\ pc[c] = "calling"
    /\ Release(c)
    /\ UNCHANGED <<limit, age, timer, retries, sinceGrant>>

(* Mutant: the retries are not counted. *)
RateLimitedForEver(c) ==
    /\ pc[c] = "calling"
    /\ retries[c] < Len(Backoff)
    /\ timer' = [timer EXCEPT ![c] = Backoff[retries[c] + 1]]
    /\ pc' = [pc EXCEPT ![c] = "backoff"]
    /\ UNCHANGED <<limit, gateVars, retries, sinceGrant>>

(* A 429 with a delay left: the slot is kept through the sleep. *)
RateLimited(c) ==
    /\ pc[c] = "calling"
    /\ retries[c] < Len(Backoff)
    /\ retries' = [retries EXCEPT ![c] = @ + 1]
    /\ timer' = [timer EXCEPT ![c] = Backoff[retries[c] + 1]]
    /\ pc' = [pc EXCEPT ![c] = "backoff"]
    /\ UNCHANGED <<limit, gateVars, sinceGrant>>

Retry(c) ==
    /\ pc[c] = "backoff"
    /\ timer[c] = 0
    /\ pc' = [pc EXCEPT ![c] = "calling"]
    /\ UNCHANGED <<limit, gateVars, timer, retries, sinceGrant>>

(***************************************************************************)
(* The environment                                                         *)
(***************************************************************************)

(* The clock.  Microtasks run before any timer, so no time passes while an *)
(* admitted call has yet to read lastGrantedAt.                            *)
Tick ==
    /\ \A c \in Calls : pc[c] # "admitted"
    /\ age' = IF age < Spacing THEN age + 1 ELSE age
    /\ timer' = [c \in Calls |-> IF timer[c] > 0 THEN timer[c] - 1 ELSE 0]
    /\ sinceGrant' = [c \in Calls |->
                        IF sinceGrant[c] < Spacing THEN sinceGrant[c] + 1 ELSE Spacing]
    /\ UNCHANGED <<limit, active, queue, pc, retries>>

(* An operator edits the provider's lanes or cost, or a workspace with      *)
(* other lanes uses the same provider: the next caller sees another limit.  *)
EditSettings ==
    /\ limit' \in Limits \ {limit}
    /\ UNCHANGED <<gateVars, callVars>>

Step(c) == Pace(c) \/ WakeFromPacing(c) \/ Retry(c)
Answer(c) == Finish(c) \/ RateLimited(c)

Next ==
    \/ \E c \in Calls : Arrive(c)
    \/ \E c \in Calls : Pace(c)
    \/ \E c \in Calls : WakeFromPacing(c)
    \/ \E c \in Calls : Finish(c)
    \/ \E c \in Calls : RateLimited(c)
    \/ \E c \in Calls : Retry(c)
    \/ Tick
    \/ EditSettings

(* The event loop runs what is ready, timers fire, the clock advances, and *)
(* the provider answers or the request fails: the hosted adapters abort    *)
(* after 240 s, and fetch gives up on a silent local one.  (A harness      *)
(* command that never exits is outside this assumption: it keeps its slot.)*)
(* Nobody has to call, and nobody has to edit settings.                    *)
Fairness ==
    /\ WF_vars(Tick)
    /\ \A c \in Calls : WF_vars(Step(c)) /\ WF_vars(Answer(c))

Spec == Init /\ [][Next]_vars
FairSpec == Spec /\ Fairness

-----------------------------------------------------------------------------
(***************************************************************************)
(* Properties                                                              *)
(***************************************************************************)

(* Every variable has its type. *)
TypeOK ==
    /\ limit \in Limits
    /\ active \in Nat
    /\ queue \in Seq(Calls)
    /\ age \in 0..Spacing
    /\ pc \in [Calls -> PCs]
    /\ timer \in [Calls -> Nat]
    /\ retries \in [Calls -> 0..Len(Backoff)]
    /\ sinceGrant \in [Calls -> 0..Spacing]

(* activeCallCounts counts exactly the calls between a granted slot and the *)
(* release in complete()'s finally: no slot is leaked on a retry or an      *)
(* error, none is released twice (the Math.max(0, ...) never matters).      *)
SlotAccounting == active = Cardinality(Holders)

(* The queue holds each waiting call once and nobody else: no resolver is   *)
(* lost or called twice.                                                    *)
QueueOfWaiters ==
    /\ IsInjective(queue)
    /\ Range(queue) = {c \in Calls : pc[c] = "queued"}

(* A waiting call is woken only by a release, so while one waits somebody   *)
(* must hold a slot, whatever the limit has been edited to meanwhile.       *)
NoStrandedWaiter == queue # <<>> => active > 0

(* The calls in flight never exceed the largest limit configured.           *)
WithinLargestLimit == active <= MaxLimit

(* What the pacing of acquireProviderSlot really guarantees: the grants     *)
(* that fall within one spacing interval are at most as many as the slots.  *)
(* A call admitted after one of them has read the newer lastGrantedAt.      *)
BurstBound == Cardinality({c \in Calls : sinceGrant[c] < Spacing}) <= MaxLimit

(* The comment on MIN_CALL_SPACING_MS (lines 47-49): consecutive calls are  *)
(* granted a slot at least the minimum gap apart.                           *)
MinimumSpacing ==
    [][\A c \in Calls : pc[c] # "calling" /\ pc[c] # "backoff" /\ pc'[c] = "calling"
                           => age >= Spacing]_vars

(* No call waits for ever: whoever enters complete() leaves it.             *)
EveryCallEnds == \A c \in Calls : pc[c] # "idle" ~> pc[c] = "idle"

(* The gate is a first-in first-out counting semaphore.                     *)
Semaphore == INSTANCE CallSemaphore WITH holding <- Holders, waiting <- queue
ImplementsSemaphore == Semaphore!Spec
=============================================================================
