---- MODULE ProcessEnvironment ----
(***************************************************************************)
(* What the process reads from its environment: the kill switch of         *)
(* level4.ts and cadence.ts, and the policy of lib/container-policy.ts.    *)
(***************************************************************************)
CONSTANTS CB_KILL_SWITCH, BOARD_NETWORK_MODE, BOARD_OUTBOUND_ALLOWLIST,
          EnabledAdapters     \* sets the ENABLE_*_ADAPTER variables may turn on

ASSUME EnvironmentAssumption ==
    /\ CB_KILL_SWITCH \in BOOLEAN
    /\ BOARD_NETWORK_MODE \in {"offline", "controlled", "restricted"}

externalWriteAllowed(adapter, enabled) ==
    /\ BOARD_NETWORK_MODE # "offline"
    /\ BOARD_NETWORK_MODE = "restricted" => adapter \in BOARD_OUTBOUND_ALLOWLIST
    /\ adapter \in enabled
====
