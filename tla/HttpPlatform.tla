------------------------------- MODULE HttpPlatform -------------------------------
(***************************************************************************)
(* The way of a request to its handler and back: createApp of index.ts     *)
(* with the rate limit of lib/http-security.ts, lib/idempotency.ts and the *)
(* context and roles of lib/auth.ts.  The limiter's windows and the keys   *)
(* are memory of the process and gone when it restarts.                    *)
(***************************************************************************)
EXTENDS Integers, Sequences, FiniteSets

CONSTANTS Callers,         \* requests that may be under way together
          Keys, Paths,     \* idempotency keys; address and path, which the limiter counts by
          maxRequests, windowMs,   \* CB_RATE_LIMIT_MAX and CB_RATE_LIMIT_WINDOW_MS
          MaxRequests, MaxTime, MaxRestarts  \* bounds

ASSUME HttpAssumption ==
    /\ "none" \notin Keys /\ {maxRequests, windowMs} \subseteq Nat \ {0}
    /\ {MaxRequests, MaxTime, MaxRestarts} \subseteq Nat

VARIABLES now,             \* Date.now()
          requestCounter,  \* the limiter's windows, by path
          store,           \* the idempotency store: the status on record, 0 for an unknown key
          underway,        \* requests whose handler runs
          admitted,        \* when requests passed the limiter since the restart, by path
          handled,         \* by key: the statuses of the requests past the guard since the restart
          restarts

httpVars == <<now, requestCounter, store, underway, admitted, handled, restarts>>

NoWindow == [count |-> 0, windowStart |-> -1]

NoWindows == [p \in Paths |-> NoWindow]
NoKeys == [k \in Keys |-> 0]
Nobody == [c \in Callers |-> [busy |-> FALSE, key |-> "none"]]
NothingAdmitted == [p \in Paths |-> <<>>]
NothingHandled == [k \in Keys |-> <<>>]

HttpInit ==
    /\ now = 0 /\ restarts = 0
    /\ requestCounter = NoWindows /\ store = NoKeys /\ underway = Nobody
    /\ admitted = NothingAdmitted /\ handled = NothingHandled

-----------------------------------------------------------------------------
(* basicRateLimitMiddleware *)
NewWindow(p) == requestCounter[p] = NoWindow \/ now - requestCounter[p].windowStart > windowMs
RateLimited(p) == ~NewWindow(p) /\ requestCounter[p].count >= maxRequests

CountRequest(p) ==
    /\ requestCounter' = [requestCounter EXCEPT ![p] =
          IF NewWindow(p) THEN [count |-> 1, windowStart |-> now]
          ELSE [count |-> @.count + 1, windowStart |-> @.windowStart]]
    /\ admitted' = [admitted EXCEPT ![p] = Append(@, now)]

(* Mutant: only what has been answered is a duplicate. *)
DuplicateOfAnswered(key) == key # "none" /\ store[key] \notin {0, 202}

(* idempotencyGuard; `key` is "none" for a GET and without the header. *)
Duplicate(key) == key # "none" /\ store[key] # 0

Admitted == LET Count(p) == Len(admitted[p]) IN {Count(p) : p \in Paths}

(* A request the limiter or the guard turns away ends there: 429, 409. *)
TurnedAway(p, key) ==
    /\ RateLimited(p) \/ Duplicate(key)
    /\ IF RateLimited(p) THEN UNCHANGED <<requestCounter, admitted>> ELSE CountRequest(p)
    /\ \A n \in Admitted : n < MaxRequests
    /\ UNCHANGED <<now, store, underway, handled, restarts>>

(* One past the guard has taken its key, whatever becomes of it: no        *)
(* identity (401, 500), another workspace or a missing role (403), its     *)
(* handler's answer or the error handler's 500.                            *)
Enters(c, p, key) ==
    /\ ~underway[c].busy
    /\ ~RateLimited(p) /\ ~Duplicate(key)
    /\ \A n \in Admitted : n < MaxRequests
    /\ CountRequest(p)
    /\ store' = [k \in Keys |-> IF k = key THEN 202 ELSE store[k]]
    /\ handled' = [k \in Keys |-> IF k = key THEN Append(handled[k], 202) ELSE handled[k]]
    /\ underway' = [underway EXCEPT ![c] = [busy |-> TRUE, key |-> key]]
    /\ UNCHANGED <<now, restarts>>

(* requireContext, requireRole and the handler: what each may answer. *)
ContextAnswers == {401, 403, 500}
HandlerAnswers == {200, 404, 409, 500}

(* The answer goes out, "finish" is emitted, and the store has its status. *)
(* If the caller hung up before, it is not.                                *)
Answered(c, status, heard) ==
    LET key == underway[c].key
        record(old) == IF heard THEN status ELSE old
    IN  /\ underway[c].busy
        /\ store' = [k \in Keys |-> IF k = key THEN record(store[k]) ELSE store[k]]
        /\ handled' = [k \in Keys |-> IF k = key /\ heard
                                      THEN [handled[k] EXCEPT ![Len(handled[k])] = status] ELSE handled[k]]
        /\ underway' = [underway EXCEPT ![c] = [busy |-> FALSE, key |-> "none"]]
        /\ UNCHANGED <<now, requestCounter, admitted, restarts>>

Tick ==
    /\ now < MaxTime
    /\ now' = now + 1
    /\ UNCHANGED <<requestCounter, store, underway, admitted, handled, restarts>>

ProcessRestart ==
    /\ restarts < MaxRestarts
    /\ restarts' = restarts + 1
    /\ requestCounter' = NoWindows /\ store' = NoKeys /\ underway' = Nobody
    /\ admitted' = NothingAdmitted /\ handled' = NothingHandled
    /\ UNCHANGED now

HttpNext ==
    \/ \E p \in Paths, key \in Keys \cup {"none"} : TurnedAway(p, key)
    \/ \E c \in Callers, p \in Paths, key \in Keys \cup {"none"} : Enters(c, p, key)
    \/ \E c \in Callers, status \in ContextAnswers \cup HandlerAnswers, heard \in BOOLEAN :
         Answered(c, status, heard)
    \/ Tick
    \/ ProcessRestart

HttpSpec == HttpInit /\ [][HttpNext]_httpVars

-----------------------------------------------------------------------------
HttpTypeOK ==
    /\ now \in 0..MaxTime /\ restarts \in 0..MaxRestarts
    /\ \A p \in Paths : requestCounter[p].count \in 0..maxRequests
    /\ \A k \in Keys : store[k] \in {0, 202} \cup ContextAnswers \cup HandlerAnswers
    /\ \A c \in Callers : underway[c].key \in Keys \cup {"none"}

(* While the process lives a key gets one request past the guard, however  *)
(* many carry it at once, and the store answers the others with that one's *)
(* status, or 202 until it is known - so a request that failed cannot be   *)
(* tried again under its key.                                              *)
KeysAreUsedOnce ==
    \A k \in Keys : IF store[k] = 0 THEN handled[k] = <<>> ELSE handled[k] = <<store[k]>>

(* The limiter's promise over any window, not only over its own: no more   *)
(* than twice the limit pass on a path within windowMs.                    *)
RateHeld ==
    \A p \in Paths : \A i \in DOMAIN admitted[p] :
        Cardinality({j \in DOMAIN admitted[p] : admitted[p][j] \in admitted[p][i]..admitted[p][i] + windowMs})
            <= 2 * maxRequests

(* What stands before every handler holds for requests that come together. *)
RequestsAreHeld == KeysAreUsedOnce /\ RateHeld
=============================================================================
