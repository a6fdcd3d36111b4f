----------------------------- MODULE ActionControl -----------------------------
(***************************************************************************)
(* Actions of routes/actions.ts: submit, approve, deny and rerun, the      *)
(* SIM/LIVE mode and the ledger.                                           *)
(*                                                                         *)
(* Every handler is synchronous; it writes the actions, then the ledger,   *)
(* then the decision log, and `done` of these writes happen before the     *)
(* process dies.                                                           *)
(***************************************************************************)
EXTENDS Integers, Sequences, FiniteSets, SequencesExt, FiniteSetsExt, Durable

CONSTANTS MaxActions, MaxDecisions, MaxModeChanges, MaxActionCrashes  \* bounds

ASSUME ActionAssumption ==
    {MaxActions, MaxDecisions, MaxModeChanges, MaxActionCrashes} \subseteq Nat

VARIABLES simMode,       \* sim-mode/<workspace>
          actions,       \* actions/<workspace>
          ledger,        \* ledger/<workspace>
          actionLog,     \* how many events the decision log has of each kind
          actionCrashes  \* handlers cut short by a crash

actionVars == <<simMode, actions, ledger, actionLog, actionCrashes>>

ActionModes == {"SIM", "LIVE"}

ActionInit ==
    /\ simMode = "LIVE"
    /\ actions = <<>> /\ ledger = <<>>
    /\ actionLog = [mode |-> 0, action |-> 0]
    /\ actionCrashes = 0

(* The handler made `done` of its `all` writes. *)
ActionCut(done, all) ==
    /\ done < all => actionCrashes < MaxActionCrashes
    /\ actionCrashes' = IF done < all THEN actionCrashes + 1 ELSE actionCrashes

(* appendEvent, the k-th write of a handler. *)
ActionLogged(done, k, kind) ==
    actionLog' = writeJsonAtomic(done, k, [actionLog EXCEPT ![kind] = @ + 1], actionLog)

-----------------------------------------------------------------------------
InitialStatus(mode, requires) ==
    IF mode = "SIM" THEN "SIMULATED"
    ELSE IF requires = "required" THEN "REQUESTED" ELSE "EXECUTED"

LedgerEntry(i, event) == [action |-> i, event |-> event]

(* The three writes of a handler. *)
WriteActions(done, new, entry) ==
    /\ actions' = writeJsonAtomic(done, 1, new, actions)
    /\ ledger' = writeJsonAtomic(done, 2, Append(ledger, entry), ledger)
    /\ ActionLogged(done, 3, "action")
    /\ ActionCut(done, 3)

SetMode(mode, done) ==
    /\ actionLog.mode < MaxModeChanges
    /\ simMode' = mode
    /\ ActionLogged(done, 2, "mode")
    /\ ActionCut(done, 2)
    /\ UNCHANGED <<actions, ledger>>

Submit(asked, requires, done) ==
    LET mode == IF asked = "none" THEN simMode ELSE asked
        action == [mode |-> mode, requires |-> requires,
                   status |-> InitialStatus(mode, requires), origin |-> 0]
    IN  /\ Len(actions) < MaxActions
        /\ WriteActions(done, Append(actions, action),
                        LedgerEntry(Len(actions) + 1, action.status))
        /\ UNCHANGED simMode

ApproveAction(i, done) ==
    /\ actions[i].status = "REQUESTED"
    /\ WriteActions(done, [actions EXCEPT ![i].status = "APPROVED"],
                    LedgerEntry(i, "APPROVED"))
    /\ UNCHANGED simMode

(* Mutant: the denial is not written to the ledger. *)
DenyUnledgered(i, done) ==
    /\ done > 1 /\ Len(ledger) < MaxActions + MaxDecisions
    /\ actions' = [actions EXCEPT ![i].status = "DENIED"]
    /\ ActionLogged(done, 2, "action")
    /\ UNCHANGED <<simMode, ledger, actionCrashes>>

(* There is no guard: an action in any status can be denied, and again. *)
Deny(i, done) ==
    /\ Len(ledger) < MaxActions + MaxDecisions
    /\ WriteActions(done, [actions EXCEPT ![i].status = "DENIED"],
                    LedgerEntry(i, "DENIED"))
    /\ UNCHANGED simMode

Rerun(i, asked, done) ==
    LET mode == IF asked = "none" THEN actions[i].mode ELSE asked
        rerun == [actions[i] EXCEPT !.mode = mode, !.origin = i,
                    !.status = InitialStatus(mode, actions[i].requires)]
    IN  /\ Len(actions) < MaxActions
        /\ WriteActions(done, Append(actions, rerun),
                        LedgerEntry(Len(actions) + 1, "RERUN"))
        /\ UNCHANGED simMode

ActionNext ==
    \/ \E mode \in ActionModes, done \in 1..2 : SetMode(mode, done)
    \/ \E asked \in ActionModes \cup {"none"}, requires \in {"auto", "required"}, done \in 1..3 :
         Submit(asked, requires, done)
    \/ \E i \in DOMAIN actions, done \in 1..3 : ApproveAction(i, done)
    \/ \E i \in DOMAIN actions, done \in 1..3 : Deny(i, done)
    \/ \E i \in DOMAIN actions, asked \in ActionModes \cup {"none"}, done \in 1..3 : Rerun(i, asked, done)

ActionSpec == ActionInit /\ [][ActionNext]_actionVars

-----------------------------------------------------------------------------
(* Properties. *)

ActionTypeOK ==
    /\ simMode \in ActionModes
    /\ actions \in Seq([mode : ActionModes, requires : {"auto", "required"}, origin : Nat,
                        status : {"REQUESTED", "SIMULATED", "APPROVED", "DENIED", "EXECUTED"}])
    /\ ledger \in Seq([action : Nat, event : {"REQUESTED", "SIMULATED", "APPROVED", "DENIED",
                                              "EXECUTED", "RERUN"}])
    /\ actionLog \in [{"mode", "action"} -> Nat]
    /\ actionCrashes \in 0..MaxActionCrashes

(* The k-th entry of the ledger is the last about action i. *)
IsLastOf(k, i) ==
    /\ ledger[k].action = i
    /\ \A l \in (k + 1)..Len(ledger) : ledger[l].action # i

(* The last of an action's entries says what the file says; a rerun's      *)
(* first entry stands for whatever status it started with.                 *)
Explained(i) ==
    \E k \in DOMAIN ledger :
        /\ IsLastOf(k, i)
        /\ \/ ledger[k].event = actions[i].status
           \/ ledger[k].event = "RERUN" /\ actions[i].status
                 = InitialStatus(actions[i].mode, actions[i].requires)

(* The ledger tells the whole story: an action's status is what its last   *)
(* ledger entry says, whatever was approved, denied or rerun in whatever   *)
(* order - and every one of which it does not was cut short by a crash of  *)
(* its own.                                                                *)
LedgerExplainsActions ==
    /\ \A k \in DOMAIN ledger : ledger[k].action \in DOMAIN actions
    /\ Cardinality({i \in DOMAIN actions : ~Explained(i)}) <= actionCrashes
=============================================================================
