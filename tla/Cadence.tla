-------------------------------- MODULE Cadence --------------------------------
(***************************************************************************)
(* The board's cadence: routes/cadence.ts (runCadence), the scheduler of   *)
(* index.ts and workers/scheduler.ts, and the briefs of workers/cadence.ts.*)
(* A run with all five artifacts is one turn of the event loop; without    *)
(* them it waits for the model, while the scheduler ticks on and requests  *)
(* start runs of their own.                                                *)
(***************************************************************************)
EXTENDS Workspace, ProcessEnvironment, Durable, Sequences, SequencesExt

CONSTANTS Runners,            \* runs that may be under way together
          Verdicts,           \* decisions of the Autonomy Governor the engine may reach: sequences
          ModelDecisions,     \* how many decisions the model may ask for
          KeepRuns, KeepBriefs,     \* 50 and 10
          Elapses, MaxHours, MaxCadenceRuns, MaxCadenceCrashes  \* bounds; hours that pass at once

ASSUME CadenceAssumption ==
    /\ {KeepRuns, KeepBriefs} \subseteq Nat \ {0}
    /\ ModelDecisions \subseteq Nat /\ Elapses \subseteq Nat \ {0}
    /\ {MaxHours, MaxCadenceRuns, MaxCadenceCrashes} \subseteq Nat

VARIABLES hour,             \* the clock, in hours
          cadenceRuns,      \* cadence-runs/<workspace>, the last KeepRuns
          briefs,           \* cadence-briefs/<workspace>, the last KeepBriefs
          cadenceState,     \* cadence-state/<workspace>: when a run was last recorded
          cadenceRequests,  \* how many board requests a run made
          cadenceLog,       \* the events action_executed of runs: run and decisions_created
          runners,          \* runs waiting for the model
          ends,             \* how each run ended, whatever the records say
          cadenceCrashes

runVars == <<hour, cadenceRuns, briefs, cadenceState, cadenceRequests, cadenceLog, runners, ends,
             cadenceCrashes>>
cadenceVars == <<runVars, workspaceVars>>

Never == -1000
AtRest == [run |-> 0, seen |-> <<>>]
Frequencies == {"daily", "weekly", "monthly"}

CadenceInit ==
    /\ WorkspaceInit
    /\ hour = 0
    /\ cadenceRuns = <<>> /\ briefs = <<>> /\ ends = <<>>
    /\ cadenceRequests = [run \in 1..MaxCadenceRuns |-> 0]
    /\ cadenceState = [f \in Frequencies |-> Never]
    /\ cadenceLog = {}
    /\ runners = [c \in Runners |-> AtRest]
    /\ cadenceCrashes = 0

-----------------------------------------------------------------------------
Lasting(list, keep) == IF Len(list) > keep THEN Tail(list) ELSE list

(* isDue, for a protocol with all of them enabled: 20 hours, 6 and 27 days *)
MinimumElapsed == [daily |-> 20, weekly |-> 6 * 24, monthly |-> 27 * 24]

isDue(frequency) ==
    \/ cadenceState[frequency] = Never
    \/ hour - cadenceState[frequency] >= MinimumElapsed[frequency]

(* buildWeeklyBrief on what the Governor decided of each action: a list of *)
(* three decisions, filled up with "No additional decision required".      *)
Decided(verdicts, verdict) == Len(SelectSeq(verdicts, LAMBDA v : v = verdict))
Least(a, b) == IF a < b THEN a ELSE b

buildWeeklyBrief(verdicts) ==
    LET blocked == Decided(verdicts, "blocked")
        requiring == Decided(verdicts, "requires_approval")
    IN  [trend |-> CASE blocked > 1 -> "down" [] requiring > 1 -> "flat" [] OTHER -> "up",
         decisions |-> 3,
         filler |-> 3 - Least(requiring, 3)]

(* buildDailyPulse: the first action that is not blocked, by its place. *)
buildDailyPulse(verdicts) ==
    LET open == {i \in DOMAIN verdicts : verdicts[i] # "blocked"}
    IN  [next |-> IF open = {} THEN 0 ELSE CHOOSE i \in open : \A j \in open : i <= j,
         risk |-> \E v \in Range(verdicts) : v = "blocked",
         reminders |-> Least(Decided(verdicts, "requires_approval"), 2)]

(* Mutant: the records read before the model was called are written back. *)
MarkStale(runs, seen, run, status) ==
    [i \in DOMAIN seen |-> IF seen[i].id = run THEN [seen[i] EXCEPT !.status = status] ELSE seen[i]]

MarkRun(runs, seen, run, status) ==
    [i \in DOMAIN runs |-> IF runs[i].id = run THEN [runs[i] EXCEPT !.status = status] ELSE runs[i]]

(* A brief: what the engine's actions make of it, what the model answered, *)
(* or the fallback, with one decision, of a workspace without a provider.  *)
Brief(decisions, trend) ==
    [weekly |-> [trend |-> trend, decisions |-> decisions, filler |-> 0],
     daily |-> [next |-> 1, risk |-> FALSE, reminders |-> 0]]

FallbackBrief == Brief(1, "flat")
EngineBrief(verdicts) == [weekly |-> buildWeeklyBrief(verdicts), daily |-> buildDailyPulse(verdicts)]

WithRun(run, status) == Lasting(Append(cadenceRuns, [id |-> run, status |-> status]), KeepRuns)

(* What follows a brief, in the order of the code; `done` is 6 unless the  *)
(* process dies on the way.                                                *)
FileBrief(run, runs, seen, brief, done) ==
    /\ briefs' = writeJsonAtomic(done, 1, Lasting(Append(briefs, brief), KeepBriefs), briefs)
    /\ cadenceRuns' = writeJsonAtomic(done, 2, MarkRun(runs, seen, run, "completed"), runs)
    /\ cadenceState' = [f \in Frequencies |-> CASE f = "daily" /\ done >= 3 -> hour
                                                [] f = "weekly" /\ done >= 4 -> hour
                                                [] OTHER -> cadenceState[f]]
    /\ cadenceRequests' = writeJsonAtomic(done, 5, [cadenceRequests EXCEPT ![run] = brief.weekly.decisions], cadenceRequests)
    /\ cadenceLog' = writeJsonAtomic(done, 6, 
          cadenceLog \cup {[run |-> run, decisions |-> brief.weekly.decisions, trend |-> brief.weekly.trend]},
          cadenceLog)

Ended(list, run, done) == IF done >= 2 THEN [list EXCEPT ![run] = "completed"] ELSE list

(* A death in the middle takes every run under way with it. *)
OrDie(done) ==
    /\ done < 6 => cadenceCrashes < MaxCadenceCrashes
    /\ cadenceCrashes' = IF done < 6 THEN cadenceCrashes + 1 ELSE cadenceCrashes

-----------------------------------------------------------------------------
(* POST /run refuses under CB_KILL_SWITCH; the scheduler's tick runs what  *)
(* is due.  Neither looks at the workspace's kill switch.                  *)
MayBegin(scheduled) ==
    /\ Len(ends) < MaxCadenceRuns
    /\ IF scheduled THEN isDue("daily") ELSE ~CB_KILL_SWITCH

BeginCadence(c, scheduled) ==
    LET run == Len(ends) + 1
    IN  /\ MayBegin(scheduled)
        /\ runners[c] = AtRest
        /\ cadenceRuns' = WithRun(run, "running")
        /\ runners' = [runners EXCEPT ![c] = [run |-> run, seen |-> WithRun(run, "running")]]
        /\ ends' = Append(ends, "running")
        /\ UNCHANGED <<hour, briefs, cadenceState, cadenceRequests, cadenceLog, cadenceCrashes, workspaceVars>>

EndCadence(c, brief, done) ==
    LET flight == runners[c]
    IN  /\ flight # AtRest
        /\ FileBrief(flight.run, cadenceRuns, flight.seen, brief, done)
        /\ ends' = Ended(ends, flight.run, done)
        /\ OrDie(done)
        /\ runners' = IF done < 6 THEN [r \in Runners |-> AtRest] ELSE [runners EXCEPT ![c] = AtRest]
        /\ UNCHANGED <<hour, workspaceVars>>

(* The model call or its JSON failed. *)
FailCadence(c) ==
    /\ runners[c] # AtRest
    /\ cadenceRuns' = MarkRun(cadenceRuns, runners[c].seen, runners[c].run, "failed")
    /\ ends' = [ends EXCEPT ![runners[c].run] = "failed"]
    /\ runners' = [runners EXCEPT ![c] = AtRest]
    /\ UNCHANGED <<hour, briefs, cadenceState, cadenceRequests, cadenceLog, cadenceCrashes, workspaceVars>>

(* All five artifacts, or no provider (a fallback brief):                  *)
(* from the first record to the event in one turn.                         *)
RunAtOnce(scheduled, brief, done) ==
    LET run == Len(ends) + 1
    IN  /\ MayBegin(scheduled)
        /\ FileBrief(run, WithRun(run, "running"), WithRun(run, "running"), brief, done)
        /\ ends' = Ended(Append(ends, "running"), run, done)
        /\ OrDie(done)
        /\ runners' = IF done < 6 THEN [r \in Runners |-> AtRest] ELSE runners
        /\ UNCHANGED <<hour, workspaceVars>>

PassHours(hours) ==
    /\ hour + hours <= MaxHours
    /\ hour' = hour + hours
    /\ UNCHANGED <<cadenceRuns, briefs, cadenceState, cadenceRequests, cadenceLog, runners, ends,
                   cadenceCrashes, workspaceVars>>

CadenceNext ==
    \/ \E c \in Runners, scheduled \in BOOLEAN : BeginCadence(c, scheduled)
    \/ \E c \in Runners, n \in ModelDecisions, done \in 0..6 : EndCadence(c, Brief(n, "up"), done)
    \/ \E c \in Runners : FailCadence(c)
    \/ \E scheduled \in BOOLEAN, done \in 0..6,
          brief \in {FallbackBrief} \cup {EngineBrief(v) : v \in Verdicts} :
         RunAtOnce(scheduled, brief, done)
    \/ \E hours \in Elapses : PassHours(hours)
    \/ WorkspaceActions /\ UNCHANGED runVars

CadenceSpec == CadenceInit /\ [][CadenceNext]_cadenceVars

-----------------------------------------------------------------------------
CadenceTypeOK ==
    /\ WorkspaceTypeOK
    /\ hour \in 0..MaxHours
    /\ Len(cadenceRuns) <= KeepRuns /\ Len(briefs) <= KeepBriefs
    /\ Len(ends) <= MaxCadenceRuns
    /\ \A c \in Runners : runners[c].run \in 0..Len(ends)
    /\ \A entry \in cadenceLog : entry.run \in DOMAIN ends
    /\ cadenceCrashes \in 0..MaxCadenceCrashes

(* The list of runs shows the last KeepRuns runs, each as it ended,        *)
(* whatever other runs recorded while it waited for the model; a run the   *)
(* log tells of has ended and has its decisions among the board requests.  *)
RunsKeepTheirEnd ==
    /\ Len(cadenceRuns) = Least(Len(ends), KeepRuns)
    /\ \A i \in DOMAIN cadenceRuns :
        LET run == Len(ends) - Len(cadenceRuns) + i
        IN  cadenceRuns[i] = [id |-> run, status |-> ends[run]]
    /\ \A entry \in cadenceLog : ends[entry.run] = "completed"
                                 /\ cadenceRequests[entry.run] = entry.decisions
=============================================================================
