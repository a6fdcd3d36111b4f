---------------------------- MODULE CallSemaphore ----------------------------
(***************************************************************************)
(* What the inference gate of services/api/src/lib/model-client.ts         *)
(* promises its callers, with pacing, backoff and the provider left out: a *)
(* counting semaphore with a first-in first-out queue.  A call either      *)
(* takes a free slot, or waits behind the calls that already wait; a slot  *)
(* that is given back goes to the call that has waited longest.            *)
(***************************************************************************)
EXTENDS Naturals, Sequences, FiniteSets, Functions

CONSTANTS Calls,     \* the inference calls that may be made
          MaxLimit   \* no more calls than this hold a slot together

VARIABLES holding,   \* the calls that own a slot
          waiting    \* the calls that wait for one, oldest first

vars == <<holding, waiting>>

Outside == Calls \ (holding \cup Range(waiting))

Init ==
    /\ holding = {}
    /\ waiting = <<>>

(* A call finds a slot free. *)
Enter(c) ==
    /\ c \in Outside
    /\ Cardinality(holding) < MaxLimit
    /\ holding' = holding \cup {c}
    /\ UNCHANGED waiting

(* A call finds none free; somebody else holds one and will hand it over. *)
Wait(c) ==
    /\ c \in Outside
    /\ holding # {}
    /\ waiting' = Append(waiting, c)
    /\ UNCHANGED holding

(* A call gives its slot back and nobody waits for it. *)
Leave(c) ==
    /\ c \in holding
    /\ waiting = <<>>
    /\ holding' = holding \ {c}
    /\ UNCHANGED waiting

(* A call gives its slot to the oldest waiting call. *)
HandOver(c) ==
    /\ c \in holding
    /\ waiting # <<>>
    /\ holding' = (holding \ {c}) \cup {Head(waiting)}
    /\ waiting' = Tail(waiting)

Next == \E c \in Calls : Enter(c) \/ Wait(c) \/ Leave(c) \/ HandOver(c)

Spec == Init /\ [][Next]_vars
=============================================================================
