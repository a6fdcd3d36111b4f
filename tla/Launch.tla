-------------------------------- MODULE Launch --------------------------------
(***************************************************************************)
(* The launch interview: routes/launch.ts with agent-runtime/launch, and   *)
(* the artifact routes of routes/artifacts.ts.  Four of the artifacts it   *)
(* writes are of types only add-ins declare, so whether a launch succeeds  *)
(* depends on the packs installed at that moment.                          *)
(***************************************************************************)
EXTENDS Addins, ArtifactStore

CONSTANTS FoundTypes,   \* core artifacts there may be before the launch
          PostedTypes, MaxPosts  \* types of artifacts posted, and a bound on those

ASSUME LaunchAssumption == SchemaTypes \subseteq {"venture_profile", "launch_plan", "tooling_plan", "financial_policy"}

VARIABLES venture,      \* the launch session: memory of the process
          ventureStore, \* the artifact store
          launchLog,    \* launch_session_started and launch_artifacts_written events
          posts

launchVars == <<addinVars, venture, ventureStore, launchLog, posts>>

LaunchTypes == <<"venture_profile", "launch_plan", "tooling_plan", "financial_policy">>
ExecutionTypes == <<"business_profile", "objective_config", "autonomy_policy", "cadence_protocol">>
VentureTypes == ToSet(LaunchTypes) \cup {"agent_blueprint"} \cup ToSet(ExecutionTypes)

NoVenture == [stage |-> "none", section |-> 0, sound |-> TRUE, confirmed |-> FALSE, finalized |-> FALSE]

LaunchInit ==
    /\ AddinInit
    /\ venture = NoVenture
    /\ \E found \in FoundTypes :
         ventureStore = [type \in VentureTypes |->
                           IF type \in found THEN [versions |-> 1, logged |-> 1, payload |-> "interview"] ELSE NoArtifact]
    /\ launchLog = [started |-> 0, written |-> 0]
    /\ posts = 0

-----------------------------------------------------------------------------
(* POST /sessions *)
StartLaunch ==
    /\ venture.stage = "none"
    /\ venture' = [NoVenture EXCEPT !.stage = "live"]
    /\ launchLog' = [launchLog EXCEPT !.started = @ + 1]
    /\ UNCHANGED <<addinVars, ventureStore, posts>>

(* submit and skip: L6 may hold caps that are no numbers (`sound`); L7     *)
(* confirms or not and may be submitted again, with corrections.           *)
SubmitSection(sound, confirmed) ==
    /\ venture.stage = "live"
    /\ venture' = [venture EXCEPT
          !.section = IF @ < 7 THEN @ + 1 ELSE @,
          !.sound = IF venture.section \in {6, 7} THEN sound ELSE @,
          !.confirmed = IF venture.section = 7 THEN confirmed ELSE @]
    /\ UNCHANGED <<addinVars, ventureStore, launchLog, posts>>

LaunchArtifacts(types, by) == [i \in DOMAIN types |-> [type |-> types[i], payload |-> by]]

(* What a finalization writes: the launch's artifacts always, the          *)
(* blueprint and the execution artifacts where there are none.             *)
FinalizedArtifacts ==
    LET missing(type) == IF OnFile(ventureStore, type) THEN <<>> ELSE <<type>>
    IN  LaunchArtifacts(LaunchTypes \o missing("agent_blueprint")
          \o missing(ExecutionTypes[1]) \o missing(ExecutionTypes[2])
          \o missing(ExecutionTypes[3]) \o missing(ExecutionTypes[4]), "launch")

Unloadable == {type \in ToSet(LaunchTypes) : ~Loadable(type)}

(* The writes of a batch, the schemas compiled on the way, and the rest of *)
(* the handler - or the process dies after `done` writes.                  *)
WriteVenture(batch, done, after, events) ==
    LET reach == Reach(batch, Unloadable)
    IN  /\ done \in 0..2 * reach
        /\ ventureStore' = writeArtifacts(ventureStore, batch, done)
        /\ IF done < 2 * reach
           THEN /\ AddinDies
                /\ venture' = NoVenture
                /\ UNCHANGED launchLog
           ELSE /\ validators' = validators \cup ({batch[i].type : i \in 1..reach} \cap SchemaTypes)
                /\ venture' = after
                /\ launchLog' = [launchLog EXCEPT !.written = @ + events]
                /\ UNCHANGED <<addinCrashes, installing>>
        /\ UNCHANGED <<registry, packFiles, rebuildPending, rebuildSignal, webPages, installs, dismissed>>

(* POST /sessions/:id/finalize.  The machine is finalized once its answers *)
(* are sound; if an artifact is then refused, the session stays and cannot *)
(* be finalized again.                                                     *)
FinalizeLaunch(done) ==
    LET batch == FinalizedArtifacts
        whole == Reach(batch, Unloadable) = Len(batch)
        stuck == [venture EXCEPT !.finalized = TRUE]
        gone == [stuck EXCEPT !.stage = "gone"]
    IN  /\ venture.stage = "live" /\ venture.confirmed /\ venture.sound /\ ~venture.finalized
        /\ WriteVenture(batch, done, IF whole THEN gone ELSE stuck, IF whole THEN 1 ELSE 0)
        /\ UNCHANGED posts

(* POST /artifacts/:type, for the core types and what packs declare. *)
PostArtifact(type, done) ==
    /\ posts < MaxPosts
    /\ type \in SchemaTypes => Declares(type) # <<>>
    /\ type \notin Unloadable
    /\ posts' = posts + 1
    /\ WriteVenture(LaunchArtifacts(<<type>>, "posted"), done, venture, 0)

LaunchRestart ==
    /\ venture.stage # "none"
    /\ AddinDies
    /\ venture' = NoVenture
    /\ UNCHANGED <<registry, packFiles, rebuildPending, rebuildSignal, webPages, installs, dismissed,
                   ventureStore, launchLog, posts>>

LaunchNext ==
    \/ /\ AddinActions
       /\ venture' = IF addinCrashes' > addinCrashes THEN NoVenture ELSE venture
       /\ UNCHANGED <<ventureStore, launchLog, posts>>
    \/ StartLaunch
    \/ \E sound, confirmed \in BOOLEAN : SubmitSection(sound, confirmed)
    \/ \E done \in 0..18 : FinalizeLaunch(done)
    \/ \E type \in PostedTypes, done \in 0..2 : PostArtifact(type, done)
    \/ LaunchRestart

LaunchSpec == LaunchInit /\ [][LaunchNext]_launchVars

-----------------------------------------------------------------------------
LaunchTypeOK ==
    /\ AddinTypeOK
    /\ venture.section \in 0..7
    /\ \A type \in VentureTypes : ventureStore[type].payload \in {"none", "interview", "launch", "posted"}
    /\ WritesAreLogged(ventureStore, addinCrashes)

(* A launch that was logged as written has left everything the execution   *)
(* engine asks for and the four launch artifacts, and a board that was     *)
(* there before is not replaced by the launch's.                           *)
LaunchedMeansRunnable ==
    launchLog.written > 0 =>
        \A type \in VentureTypes : OnFile(ventureStore, type)

(* What was installed can be seen, and what was launched can be run. *)
InstalledMeansUsable == UnservedPagesAreAskedFor /\ LaunchedMeansRunnable
=============================================================================
