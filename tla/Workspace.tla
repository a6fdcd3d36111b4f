-------------------------------- MODULE Workspace --------------------------------
(***************************************************************************)
(* Runtime overrides of a workspace: routes/workspace.ts.  Three stores    *)
(* that no handler keeps in step: the operational settings (which carry a  *)
(* kill switch and a map of paused connectors of their own), the kill      *)
(* switch record and the connector pauses.                                 *)
(***************************************************************************)
EXTENDS Naturals, FiniteSets

CONSTANTS ConnectorNames,   \* connectors a request may name
          KNOWN_CONNECTORS, \* those the routes know
          MaxOpsChanges     \* bound

ASSUME WorkspaceAssumption == MaxOpsChanges \in Nat

VARIABLES ops,              \* workspace_ops/<workspace>
          killSwitch,       \* kill-switch/<workspace>, `enabled`
          connectorPauses,  \* connector-pauses/<workspace>
          opsChanges

workspaceVars == <<ops, killSwitch, connectorPauses, opsChanges>>

defaultSettings == [agentsPaused |-> FALSE, killSwitch |-> FALSE, pausedConnectors |-> {}]

WorkspaceInit ==
    /\ ops = defaultSettings
    /\ killSwitch = FALSE
    /\ connectorPauses = {}
    /\ opsChanges = 0

OpsChange == opsChanges < MaxOpsChanges /\ opsChanges' = opsChanges + 1

(* PATCH /settings: the fields the body has replace those on file. *)
PatchOps(patch) ==
    /\ OpsChange
    /\ ops' = [field \in DOMAIN ops |-> IF field \in DOMAIN patch THEN patch[field] ELSE ops[field]]
    /\ UNCHANGED <<killSwitch, connectorPauses>>

(* PATCH /kill-switch *)
PatchKillSwitch(enabled) ==
    /\ OpsChange
    /\ killSwitch' = enabled
    /\ UNCHANGED <<ops, connectorPauses>>

(* POST /connectors/:connector/pause and /resume *)
PauseConnector(c, paused) ==
    /\ OpsChange
    /\ c \in KNOWN_CONNECTORS
    /\ connectorPauses' = IF paused THEN connectorPauses \cup {c} ELSE connectorPauses \ {c}
    /\ UNCHANGED <<ops, killSwitch>>

WorkspaceActions ==
    \/ \E patch \in [{"agentsPaused"} -> BOOLEAN] \cup [{"killSwitch"} -> BOOLEAN]
                    \cup [{"pausedConnectors"} -> SUBSET ConnectorNames] : PatchOps(patch)
    \/ \E enabled \in BOOLEAN : PatchKillSwitch(enabled)
    \/ \E c \in ConnectorNames, paused \in BOOLEAN : PauseConnector(c, paused)

WorkspaceTypeOK ==
    /\ ops.agentsPaused \in BOOLEAN /\ ops.killSwitch \in BOOLEAN
    /\ ops.pausedConnectors \subseteq ConnectorNames
    /\ killSwitch \in BOOLEAN
    /\ connectorPauses \subseteq KNOWN_CONNECTORS
    /\ opsChanges \in 0..MaxOpsChanges
=============================================================================
