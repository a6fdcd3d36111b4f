--------------------------- MODULE MCConversations ----------------------------
(***************************************************************************)
(* The components that talk: with the people of an organisation, with its  *)
(* browsers, and with other systems.  As in MCGovernedWork one of them is  *)
(* at work in a behaviour, and the states are the sum of theirs.           *)
(***************************************************************************)
EXTENDS Meetings, BoardChat, AiChat, Bridges, HttpPlatform, Interview, Launch,
        ProviderSettings

VARIABLE running  \* the component at work

(* Values of the constants. *)
Msg(names, scores, committee, followUp, short, strong) ==
    [names |-> names, scores |-> scores, committee |-> committee, followUp |-> followUp,
     short |-> short, strong |-> strong]
ChatTextsV == {Msg("legal", "ops", FALSE, FALSE, FALSE, FALSE),
               Msg("none", "none", FALSE, FALSE, TRUE, FALSE),
               Msg("none", "sales", TRUE, FALSE, FALSE, TRUE)}
MeetingTextsV == {Msg("legal", "none", FALSE, FALSE, FALSE, FALSE),
                  Msg("none", "sales", FALSE, TRUE, FALSE, TRUE)}
ForcedV == {[chair |-> "none", domain |-> "none"], [chair |-> "none", domain |-> "sales"]}
ChairsV == <<"ops", "legal">>
KindsV == [m \in {"m", "x"} |-> IF m = "m" THEN "meeting" ELSE "session"]

SeatRepliesV == {<<>>, <<"ops", "ops", "sales", "hr", "it">>}
PatchesV == {{"a"}, {"b"}}

PackTypesV == [p \in {"p", "q"} |->
    IF p = "p" THEN <<"venture_profile", "launch_plan", "tooling_plan", "financial_policy">> ELSE <<>>]
FoundTypesV == {{"agent_blueprint", "autonomy_policy"}}

ProviderKindsV == [p \in {"f", "o", "x"} |-> CASE p = "o" -> "olf_managed" [] p = "x" -> "other" [] OTHER -> "hosted_api"]
Provider(key, kind) == [key |-> key, kind |-> kind]
SentProvidersV == {[p \in {} |-> Provider("none", "other")],
                   [p \in {"f", "o"} |-> Provider("s", "hosted_api")],
                   [p \in {"o", "x"} |-> Provider("none", "olf_managed")]}

-----------------------------------------------------------------------------
Components == {"meetings", "chat", "ai", "bridges", "http", "interview",
               "launch", "settings"}

Init ==
    /\ running \in Components
    /\ MeetingInit
    /\ ChatInit
    /\ AiInit
    /\ BridgeInit
    /\ HttpInit
    /\ InterviewInit
    /\ LaunchInit
    /\ SettingsInit

(* The component c takes the step. *)
Only(c) ==
    /\ running = c /\ UNCHANGED running
    /\ IF c = "meetings" THEN TRUE ELSE UNCHANGED meetingVars
    /\ IF c = "chat" THEN TRUE ELSE UNCHANGED chatVars
    /\ IF c = "ai" THEN TRUE ELSE UNCHANGED aiVars
    /\ IF c = "bridges" THEN TRUE ELSE UNCHANGED bridgeVars
    /\ IF c = "http" THEN TRUE ELSE UNCHANGED httpVars
    /\ IF c = "interview" THEN TRUE ELSE UNCHANGED interviewVars
    /\ IF c = "launch" THEN TRUE ELSE UNCHANGED launchVars
    /\ IF c = "settings" THEN TRUE ELSE UNCHANGED settingsVars

Next ==
    \/ Only("meetings") /\ MeetingNext
    \/ Only("chat") /\ ChatNext
    \/ Only("ai") /\ AiNext
    \/ Only("bridges") /\ BridgeNext
    \/ Only("http") /\ HttpNext
    \/ Only("interview") /\ InterviewNext
    \/ Only("launch") /\ LaunchNext
    \/ Only("settings") /\ SettingsNext

vars == <<running, meetingVars, chatVars, aiVars, bridgeVars, httpVars,
          interviewVars, launchVars, settingsVars>>

Spec == Init /\ [][Next]_vars

-----------------------------------------------------------------------------
(* Every component's stores hold what their code writes.                   *)
TalkTypeOK ==
    /\ running = "meetings" => MeetingTypeOK
    /\ running = "chat" => ChatTypeOK
    /\ running = "ai" => AiTypeOK
    /\ running = "bridges" => BridgeTypeOK
    /\ running = "http" => HttpTypeOK
    /\ running = "interview" => InterviewTypeOK
    /\ running = "launch" => LaunchTypeOK
    /\ running = "settings" => SettingsTypeOK

(* What was said, delivered or answered is on file, unless a request that  *)
(* had begun before it wrote what it had read over it (meetings.ts,        *)
(* webhook-delivery.ts; ai-chat-session-store.ts loses nothing).           *)
LostToOverlapOnly == LostToAnAnswerOnly /\ DeliveryLostOnlyToOverlap /\ RepliesAreKept
===============================================================================
