----------------------------- MODULE Provisioning -----------------------------
(***************************************************************************)
(* The governed launch of routes/level4.ts: a prompt becomes four actions, *)
(* and an administrator's approve-execute carries one out. The connectors  *)
(* (DNS, deployment, payments) are called outside the process, so requests *)
(* for several actions, or for the same one, are under way together; each  *)
(* file is written on its own and the process may die between two.         *)
(***************************************************************************)
EXTENDS ProcessEnvironment, Integers, Sequences, SequencesExt, TLC

CONSTANTS VentureDomains,    \* what prompts name
          ApproveKeys,       \* x-idempotency-key; "none" for a request without one
          MaxLaunches, MaxApproveRequests, MaxProvisioningCrashes    \* bounds

ASSUME ProvisioningAssumption ==
    {MaxLaunches, MaxApproveRequests, MaxProvisioningCrashes} \subseteq Nat

VARIABLES enabledAdapters,   \* of this deployment
          ventures,          \* artifacts launches have filed: the number of versions by type
          site,              \* provisioning-status, landing-page and payment-setup
          level4Actions,     \* level4-actions, each with its approval and last checkpoint
          usedKeys,          \* idempotency-keys of the scope level4.approve-execute
          awaited,           \* in memory: the actions locked, with the connector call each waits for
          externalWrites,    \* external-writes: action and status
          deadLetters,       \* dead-letters: actions
          level4Log,         \* events: action_proposed and action_executed
          outsideCalls,      \* calls each action has made outside, whatever the files say
          launches, approveRequests, provisioningCrashes

provisioningVars ==
    <<enabledAdapters, ventures, site, level4Actions, usedKeys, awaited, externalWrites, deadLetters,
      level4Log, outsideCalls, launches, approveRequests, provisioningCrashes>>

LaunchActions == <<"provisioning.domain_dns", "provisioning.deploy", "provisioning.email_setup",
                   "monetization.stripe_setup">>
VentureArtifacts == <<"venture_profile", "launch_plan", "tooling_plan", "financial_policy", "agent_blueprint">>

(* The connector calls an action of each type waits for, in turn. *)
CallsOf(type) == CASE type = "monetization.stripe_setup" -> 3
                   [] type = "provisioning.email_setup" -> 0
                   [] OTHER -> 1

actionAdapter(type) == IF type = "provisioning.deploy" THEN "deploy" ELSE "publish"

ActionIds == 1..(Len(LaunchActions) * MaxLaunches)

ProvisioningInit ==
    /\ enabledAdapters \in EnabledAdapters
    /\ ventures = [type \in Range(VentureArtifacts) |-> 0]
    /\ site = [domain |-> "none", dns |-> "pending", deploy |-> "pending", email |-> FALSE,
               landing |-> FALSE, checkout |-> FALSE, linked |-> FALSE]
    /\ level4Actions = <<>>
    /\ usedKeys = {} /\ externalWrites = {} /\ deadLetters = {} /\ level4Log = {}
    /\ awaited = [a \in {} |-> 0]
    /\ outsideCalls = [a \in ActionIds |-> 0]
    /\ launches = 0 /\ approveRequests = 0 /\ provisioningCrashes = 0

-----------------------------------------------------------------------------
(* The first `done` of a handler's writes to one record. *)
Patched(record, patches, done) ==
    LET written == {i \in DOMAIN patches : i <= done}
        last(field) == {i \in written : field \in DOMAIN patches[i]}
    IN  [field \in DOMAIN record |->
            IF last(field) = {} THEN record[field] ELSE patches[Max(last(field))][field]]

(* lib/operational-loop.ts, and recordCheckpoint's condition. *)
canTransitionLoopStage(from, to) ==
    to \in CASE from = "operation" -> {"verification"}
             [] from = "verification" -> {"rnd", "governance"}
             [] from = "rnd" -> {"governance"}
             [] from = "governance" -> {"deployment"}
             [] OTHER -> {}

MayEnter(from, to) == from \in {"none", to} \/ canTransitionLoopStage(from, to)

(* A handler of `last` writes ends after `done`: whole, or with the process. *)
Ending(done, last) ==
    /\ done < last => provisioningCrashes < MaxProvisioningCrashes
    /\ provisioningCrashes' = IF done < last THEN provisioningCrashes + 1 ELSE provisioningCrashes

Unlocked(a, done, last) ==
    [b \in IF done < last THEN {} ELSE DOMAIN awaited \ {a} |-> awaited[b]]

-----------------------------------------------------------------------------
(* POST /launch-from-prompt: artifacts, of which the blueprint only where  *)
(* there is none, the state of the venture from its beginning, then each   *)
(* action with its approval and its event.                                 *)
LaunchWrites == 5 + 3 + 3 * Len(LaunchActions)

LaunchFromPrompt(domain, done) ==
    LET actionsDone == IF done > 8 THEN done - 8 ELSE 0
        made == (actionsDone + 2) \div 3
        first == Len(level4Actions)
    IN  /\ launches < MaxLaunches
        /\ launches' = launches + 1
        /\ ventures' = [type \in DOMAIN ventures |->
              LET place == CHOOSE i \in DOMAIN VentureArtifacts : VentureArtifacts[i] = type
              IN  IF done >= place /\ (type = "agent_blueprint" => ventures[type] = 0)
                  THEN ventures[type] + 1 ELSE ventures[type]]
        /\ site' = IF done >= 8 THEN [site EXCEPT !.domain = domain, !.dns = "pending", !.deploy = "pending",
                                                  !.email = FALSE] ELSE site
        /\ level4Actions' = level4Actions \o
              [i \in 1..made |->
                 [type |-> LaunchActions[i], domain |-> domain, status |-> "pending", stage |-> "none",
                  approval |-> IF actionsDone >= 3 * i - 1 THEN "pending" ELSE "none"]]
        /\ level4Log' = level4Log \cup {<<"action_proposed", first + i>> : i \in 1..(actionsDone \div 3)}
        /\ Ending(done, LaunchWrites)
        /\ awaited' = Unlocked(0, done, LaunchWrites)
        /\ UNCHANGED <<enabledAdapters, usedKeys, externalWrites, deadLetters, outsideCalls, approveRequests>>

-----------------------------------------------------------------------------
(* registerIdempotency comes first: a request refused below keeps its key. *)
NewRequest(key) ==
    /\ approveRequests < MaxApproveRequests
    /\ approveRequests' = approveRequests + 1
    /\ key \in usedKeys \cup ApproveKeys
    /\ usedKeys' = IF key = "none" THEN usedKeys ELSE usedKeys \cup {key}

MayExecute(a, key) ==
    /\ key \notin usedKeys
    /\ ~CB_KILL_SWITCH
    /\ a \notin DOMAIN awaited
    /\ level4Actions[a].status = "pending"

(* 409, 423: the key, the kill switch, the lock, or the action's status. *)
RefuseExecute(a, key) ==
    /\ ~MayExecute(a, key)
    /\ NewRequest(key)
    /\ UNCHANGED <<enabledAdapters, ventures, site, level4Actions, awaited, externalWrites, deadLetters, level4Log,
                   outsideCalls, launches, provisioningCrashes>>

(* Approved, checked against the container policy and begun, up to the     *)
(* first call outside.                                                     *)
Approved == <<[status |-> "approved"], [approval |-> "approved"], [stage |-> "operation"]>>
BlockedAction == Approved \o <<[status |-> "blocked"], [stage |-> "verification"]>>
Begun == Approved \o <<[stage |-> "verification"], [status |-> "executing"], [stage |-> "governance"]>>
Completed == <<[status |-> "completed"], [stage |-> "deployment"]>>
Failed == <<[status |-> "failed"]>>

BlockExecute(a, key, done) ==
    /\ MayExecute(a, key)
    /\ ~externalWriteAllowed(actionAdapter(level4Actions[a].type), enabledAdapters)
    /\ NewRequest(key)
    /\ level4Actions' = [level4Actions EXCEPT ![a] = Patched(@, BlockedAction, done)]
    /\ Ending(done, Len(BlockedAction))
    /\ awaited' = Unlocked(a, done, Len(BlockedAction))
    /\ UNCHANGED <<enabledAdapters, ventures, site, externalWrites, deadLetters, level4Log, outsideCalls, launches>>

BeginExecute(a, key, done) ==
    /\ MayExecute(a, key)
    /\ externalWriteAllowed(actionAdapter(level4Actions[a].type), enabledAdapters)
    /\ CallsOf(level4Actions[a].type) > 0
    /\ MayEnter(level4Actions[a].stage, "operation")
    /\ NewRequest(key)
    /\ level4Actions' = [level4Actions EXCEPT ![a] = Patched(@, Begun, done)]
    /\ Ending(done, Len(Begun))
    /\ awaited' = IF done < Len(Begun) THEN Unlocked(a, done, Len(Begun))
                  ELSE [b \in DOMAIN awaited \cup {a} |-> IF b = a THEN 1 ELSE awaited[b]]
    /\ outsideCalls' = IF done < Len(Begun) THEN outsideCalls ELSE [outsideCalls EXCEPT ![a] = @ + 1]
    /\ UNCHANGED <<enabledAdapters, ventures, site, externalWrites, deadLetters, level4Log, launches>>

(* stripe_setup: the product, then its price, then the checkout link. *)
NextCall(a) ==
    /\ a \in DOMAIN awaited
    /\ awaited[a] < CallsOf(level4Actions[a].type)
    /\ awaited' = [awaited EXCEPT ![a] = @ + 1]
    /\ outsideCalls' = [outsideCalls EXCEPT ![a] = @ + 1]
    /\ UNCHANGED <<enabledAdapters, ventures, site, level4Actions, usedKeys, externalWrites, deadLetters, level4Log,
                   launches, approveRequests, provisioningCrashes>>

(* What each type files once its calls are made. A page deployed anew      *)
(* carries no checkout link; a link goes on the page there is.             *)
SitePatches(type) ==
    CASE type = "provisioning.domain_dns" -> <<[dns |-> "green"]>>
      [] type = "provisioning.deploy" -> <<[landing |-> TRUE, linked |-> FALSE], [deploy |-> "green"]>>
      [] type = "provisioning.email_setup" -> <<[email |-> TRUE]>>
      [] OTHER -> <<[checkout |-> TRUE]>> \o IF site.landing THEN <<[linked |-> TRUE]>> ELSE <<>>

(* The record of the write outside, the venture's state, the action, its   *)
(* checkpoint and the event.                                               *)
Filed(a, action, done) ==
    LET patches == SitePatches(action.type)
        last == Len(patches) + 4
    IN  /\ externalWrites' = IF done >= 1 THEN externalWrites \cup {<<a, "success">>} ELSE externalWrites
        /\ site' = Patched(site, patches, done - 1)
        /\ level4Actions' = [level4Actions EXCEPT ![a] = Patched(action, Completed, done - 1 - Len(patches))]
        /\ level4Log' = IF done >= last THEN level4Log \cup {<<"action_executed", a>>} ELSE level4Log
        /\ Ending(done, last)
        /\ awaited' = Unlocked(a, done, last)

CompleteAction(a, done) ==
    /\ a \in DOMAIN awaited
    /\ awaited[a] = CallsOf(level4Actions[a].type)
    /\ Filed(a, level4Actions[a], done)
    /\ UNCHANGED <<enabledAdapters, ventures, usedKeys, deadLetters, outsideCalls, launches, approveRequests>>

(* email_setup waits for nothing: one turn, from the request to the event. *)
ExecuteAtOnce(a, key, done) ==
    /\ MayExecute(a, key)
    /\ externalWriteAllowed(actionAdapter(level4Actions[a].type), enabledAdapters)
    /\ CallsOf(level4Actions[a].type) = 0
    /\ NewRequest(key)
    /\ Filed(a, Patched(level4Actions[a], Begun, done), done - Len(Begun))
    /\ UNCHANGED <<enabledAdapters, ventures, deadLetters, outsideCalls, launches>>

(* A call outside threw: failed, on the record, in the dead letters.       *)
(* The checkpoint goes back to no earlier stage.                           *)
FailExecute(a, done) ==
    LET last == 4
    IN  /\ a \in DOMAIN awaited
        /\ level4Actions' = [level4Actions EXCEPT ![a] = Patched(@, Failed, done)]
        /\ externalWrites' = IF done >= 2 THEN externalWrites \cup {<<a, "failed">>} ELSE externalWrites
        /\ deadLetters' = IF done >= last THEN deadLetters \cup {a} ELSE deadLetters
        /\ Ending(done, last)
        /\ awaited' = Unlocked(a, done, last)
        /\ UNCHANGED <<enabledAdapters, ventures, site, usedKeys, level4Log, outsideCalls, launches, approveRequests>>

ProvisioningNext ==
    \/ \E domain \in VentureDomains, done \in 0..LaunchWrites : LaunchFromPrompt(domain, done)
    \/ \E a \in DOMAIN level4Actions :
         \/ \E key \in ApproveKeys :
              \/ RefuseExecute(a, key)
              \/ \E done \in 0..Len(BlockedAction) : BlockExecute(a, key, done)
              \/ \E done \in 0..Len(Begun) : BeginExecute(a, key, done)
              \/ \E done \in 0..(Len(Begun) + Len(SitePatches(level4Actions[a].type)) + 4) : ExecuteAtOnce(a, key, done)
         \/ NextCall(a)
         \/ \E done \in 0..(Len(SitePatches(level4Actions[a].type)) + 4) : CompleteAction(a, done)
         \/ \E done \in 0..4 : FailExecute(a, done)

ProvisioningSpec == ProvisioningInit /\ [][ProvisioningNext]_provisioningVars

-----------------------------------------------------------------------------
ProvisioningTypeOK ==
    /\ Len(level4Actions) <= Len(LaunchActions) * MaxLaunches
    /\ \A a \in DOMAIN level4Actions :
         /\ level4Actions[a].status \in {"pending", "approved", "executing", "completed", "failed", "blocked"}
         /\ level4Actions[a].status = "pending" => level4Actions[a].stage = "none"
    /\ DOMAIN awaited \subseteq DOMAIN level4Actions
    /\ deadLetters \subseteq DOMAIN level4Actions
    /\ site.dns \in {"pending", "green"} /\ site.deploy \in {"pending", "green"}
    /\ provisioningCrashes \in 0..MaxProvisioningCrashes

(* While the process lives, no action is left half done: one that was      *)
(* approved and neither completed, failed nor blocked is still executing,  *)
(* a failed one is among the external writes and the dead letters, and the *)
(* executions on the log are the completed actions (approve-execute and    *)
(* its catch).                                                             *)
OutcomesAreOnFile ==
    provisioningCrashes = 0 =>
       \A a \in DOMAIN level4Actions :
          LET status == level4Actions[a].status
          IN  /\ status \in {"approved", "executing"} <=> a \in DOMAIN awaited
              /\ status = "failed" <=> a \in deadLetters
              /\ status = "failed" <=> <<a, "failed">> \in externalWrites
              /\ status = "completed" <=> <<"action_executed", a>> \in level4Log
              /\ outsideCalls[a] <= CallsOf(level4Actions[a].type)
=============================================================================
