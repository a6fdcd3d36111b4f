----------------------------- MODULE Observability -----------------------------
(***************************************************************************)
(* What the board tells its operators: routes/observability.ts, the        *)
(* business intelligence of services/business-intelligence.ts, and the     *)
(* small stores beside them: the simulation switch, dead letters and their *)
(* triage, the demo, feedback and the templates of briefs.                 *)
(*                                                                         *)
(* Reports are operators over the stores they read.  Percentages stand for *)
(* the fractions of the code.                                              *)
(***************************************************************************)
EXTENDS Approvals

CONSTANTS ObservedRuns,      \* execution-runs/<ws> as they may be: [actions, blocked, approval, failed]
          RequestStatuses,   \* statuses of the board requests there may be
          KeepDemoBriefs,    \* 10
          MaxObserved        \* bound: changes of the stores

ASSUME ObservabilityAssumption ==
    /\ KeepDemoBriefs \in Nat \ {0} /\ MaxObserved \in Nat
    /\ \A r \in ObservedRuns : r.actions \in Nat /\ r.blocked \in 0..r.actions

VARIABLES simFile,      \* sim-mode/<ws>; "absent" before the first switch
          letters,      \* dead-letters/<ws>: the status of each
          artifacts,    \* types of artifact on file
          demoBriefs,   \* briefs/<ws>, which the demo alone writes
          feedback,     \* user_feedback events: how many helpful, how many not
          templates,    \* custom-brief-templates/<ws>: enabled or not
          runsOnFile,   \* execution-runs/<ws>
          requestsOnFile,  \* board-requests/<ws>
          observed      \* changes so far

observedVars == <<simFile, letters, artifacts, demoBriefs, feedback, templates,
                  runsOnFile, requestsOnFile, observed>>
observabilityVars == <<approvalVars, observedVars>>

RequiredTypes == {"business_profile", "objective_config", "autonomy_policy",
                  "cadence_protocol", "agent_blueprint"}
Triages == [acknowledge |-> "acknowledged", escalate |-> "escalated", dismiss |-> "dismissed"]
BUILTIN_TEMPLATES == {"exec-weekly-v1", "daily-pulse-v1"}

ObservabilityInit ==
    /\ ApprovalInit
    /\ simFile = "absent" /\ letters = <<>> /\ artifacts = {} /\ demoBriefs = 0
    /\ feedback = [helpful |-> 0, not |-> 0]
    /\ templates = <<>>
    /\ runsOnFile = <<>> /\ requestsOnFile = <<>> /\ observed = 0

-----------------------------------------------------------------------------
(* Reports. *)

TrueCount(seq, Test(_)) == Cardinality({i \in DOMAIN seq : Test(seq[i])})
Total(seq, Of(_)) == SumFunction([i \in DOMAIN seq |-> Of(seq[i])])
AtLeast1(n) == IF n = 0 THEN 1 ELSE n
Clamp01(x) == IF x < 0 THEN 0 ELSE IF x > 100 THEN 100 ELSE x

(* The store both reports read approvals from: routes/approvals.ts writes  *)
(* another one, and nobody writes this.                                    *)
approvalRecords == <<>>

workspaceSignals ==
    LET pending == TrueCount(approvalRecords, LAMBDA a : a.status = "pending")
        completed == TrueCount(requestsOnFile, LAMBDA s : s = "completed")
        failed == TrueCount(runsOnFile, LAMBDA r : r.failed)
    IN  [approvals_pending |-> pending,
         approvals_signal |-> Clamp01(100 - (100 * pending) \div AtLeast1(Len(approvalRecords))),
         request_open |-> TrueCount(requestsOnFile, LAMBDA s : s \notin {"completed", "rejected"}),
         request_completed |-> completed,
         request_completion_signal |-> Clamp01((100 * completed) \div AtLeast1(Len(requestsOnFile))),
         block_ratio |-> Clamp01((100 * Total(runsOnFile, LAMBDA r : r.blocked))
                                   \div AtLeast1(Total(runsOnFile, LAMBDA r : r.actions))),
         worker_uptime_signal |-> Clamp01(100 - (100 * failed) \div AtLeast1(Len(runsOnFile)))]

(* deriveValue: a hash of the capability picks two of the signals and a    *)
(* base.                                                                   *)
deriveValue(seed, first, second) ==
    Clamp01((35 * seed + 40 * Clamp01(first) + 25 * Clamp01(second)) \div 100)

trendFromValue(value) == IF value >= 67 THEN "up" ELSE IF value >= 45 THEN "flat" ELSE "down"

evaluateDashboard(values) == 
    LET score == Total(values, LAMBDA v : v) \div AtLeast1(Len(values))
    IN  [score |-> score, trend |-> trendFromValue(score)]

(* GET /health: the score of a domain is halved into the next capability's.*)
DomainScore(values) ==
    FoldLeft(LAMBDA acc, v : IF acc = 0 THEN v ELSE (acc + v) \div 2, 0, values)

errorCounts ==
    [failed_execution_runs |-> TrueCount(runsOnFile, LAMBDA r : r.failed),
     rejected_approvals |-> TrueCount(approvalRecords, LAMBDA a : a.status = "rejected")]

(* loopBottlenecks gets the status of a request for its stage, too. *)
LoopStages == {"operation", "verification", "rnd", "governance", "deployment"}

bottlenecks ==
    {stage \in LoopStages : \E i \in DOMAIN requestsOnFile :
        requestsOnFile[i] \in {"blocked", "pending"} /\ requestsOnFile[i] = stage}

quality ==
    LET actions == AtLeast1(Total(runsOnFile, LAMBDA r : r.actions))
    IN  [approval_rate |-> (100 * Total(runsOnFile, LAMBDA r : r.approval)) \div actions,
         overall_score |-> 100 - (100 * Total(runsOnFile, LAMBDA r : r.blocked)) \div actions]

(* Four checks; one may fail for a "needs_review". *)
compliancePosture(policyMode, chairs, killSwitchOn) ==
    LET passed == {check \in 1..4 :
                     \/ check = 1 /\ RequiredTypes \subseteq artifacts
                     \/ check = 2 /\ (policyMode = "sim" \/ simFile = "sim")
                     \/ check = 3 /\ "agent_blueprint" \in artifacts /\ chairs > 0
                     \/ check = 4 /\ ~killSwitchOn}
    IN  CASE Cardinality(passed) = 4 -> "compliant"
          [] Cardinality(passed) = 3 -> "needs_review"
          [] OTHER -> "non_compliant"

(* routes/onboarding.ts *)
checklistDone(collective) == artifacts \cap (RequiredTypes \cup IF collective THEN {"collective_config"} ELSE {})

-----------------------------------------------------------------------------
(* Changes. *)

Observe == observed < MaxObserved /\ observed' = observed + 1 /\ UNCHANGED approvalVars

SwitchSimulation(mode) ==
    /\ Observe
    /\ simFile' = mode
    /\ UNCHANGED <<letters, artifacts, demoBriefs, feedback, templates, runsOnFile, requestsOnFile>>

(* Letters come without a status. *)
LetterArrives ==
    /\ Observe
    /\ letters' = Append(letters, "none")
    /\ UNCHANGED <<simFile, artifacts, demoBriefs, feedback, templates, runsOnFile, requestsOnFile>>

(* A letter may be triaged again; an unknown action acknowledges. *)
TriageLetter(i, action) ==
    /\ Observe
    /\ letters' = [letters EXCEPT ![i] = IF action \in DOMAIN Triages THEN Triages[action] ELSE "acknowledged"]
    /\ UNCHANGED <<simFile, artifacts, demoBriefs, feedback, templates, runsOnFile, requestsOnFile>>

(* POST /demo/try: the artifacts that are absent are seeded, a refused one *)
(* ends it; then a brief in the demo's own store.                          *)
TryDemo(refused) ==
    /\ Observe
    /\ refused \cap artifacts = {}
    /\ artifacts' = artifacts \cup (RequiredTypes \ refused)
    /\ demoBriefs' = IF refused # {} THEN demoBriefs
                     ELSE IF demoBriefs < KeepDemoBriefs THEN demoBriefs + 1 ELSE KeepDemoBriefs
    /\ UNCHANGED <<simFile, letters, feedback, templates, runsOnFile, requestsOnFile>>

GiveFeedback(helpful) ==
    /\ Observe
    /\ feedback' = IF helpful THEN [feedback EXCEPT !.helpful = @ + 1] ELSE [feedback EXCEPT !.not = @ + 1]
    /\ UNCHANGED <<simFile, letters, artifacts, demoBriefs, templates, runsOnFile, requestsOnFile>>

(* routes/brief-templates.ts: the built-in ones are not among the custom.  *)
ChangeTemplates(new) ==
    /\ Observe
    /\ templates' = new
    /\ UNCHANGED <<simFile, letters, artifacts, demoBriefs, feedback, runsOnFile, requestsOnFile>>

(* Runs and requests are other components': they come as they may be. *)
StoreChanges ==
    /\ Observe
    /\ \/ (\E r \in ObservedRuns : runsOnFile' = Append(runsOnFile, r)) /\ UNCHANGED requestsOnFile
       \/ (\E s \in RequestStatuses : requestsOnFile' = Append(requestsOnFile, s)) /\ UNCHANGED runsOnFile
    /\ UNCHANGED <<simFile, letters, artifacts, demoBriefs, feedback, templates>>

ObservabilityNext ==
    \/ ApprovalNext /\ UNCHANGED observedVars
    \/ \E mode \in {"sim", "live"} : SwitchSimulation(mode)
    \/ LetterArrives
    \/ \E i \in DOMAIN letters, action \in DOMAIN Triages : TriageLetter(i, action)
    \/ \E refused \in {{}, {"agent_blueprint"}} : TryDemo(refused)
    \/ \E helpful \in BOOLEAN : GiveFeedback(helpful)
    \/ \E enabled \in BOOLEAN : ChangeTemplates(Append(templates, enabled))
    \/ \E i \in DOMAIN templates, enabled \in BOOLEAN : ChangeTemplates([templates EXCEPT ![i] = enabled])
    \/ \E i \in DOMAIN templates : ChangeTemplates(RemoveAt(templates, i))
    \/ StoreChanges

ObservabilitySpec == ObservabilityInit /\ [][ObservabilityNext]_observabilityVars

-----------------------------------------------------------------------------
(* Properties. *)

(* Every report can be made of every state of the stores, and says what    *)
(* its type allows.                                                        *)
ObservabilityTypeOK ==
    /\ ApprovalTypeOK
    /\ simFile \in {"absent", "sim", "live"} /\ demoBriefs \in 0..KeepDemoBriefs
    /\ \A i \in DOMAIN letters : letters[i] \in {"none", "acknowledged", "escalated", "dismissed"}
    /\ \E signals \in {workspaceSignals} :
         LET values == {signals[s] : s \in DOMAIN signals}
         IN  /\ values \subseteq Nat
             /\ \A a, b \in values, seed \in {0, 99} : deriveValue(seed, a, b) \in 0..100
    /\ bottlenecks \subseteq LoopStages
    /\ quality.overall_score \in 0..100 /\ errorCounts.rejected_approvals \in Nat
    /\ \A mode \in {"sim", "real"}, chairs \in 0..1, on \in BOOLEAN :
         (compliancePosture(mode, chairs, on) = "compliant") => ~on /\ chairs = 1
    /\ observed \in 0..MaxObserved
=============================================================================
