------------------------------ MODULE BoardSession ------------------------------
(***************************************************************************)
(* What a message to the board is taken to ask for: services/              *)
(* chat-interpreter.ts, the lexical cues of model-native-router.ts and the *)
(* thread's context of board-session-state.ts.                             *)
(*                                                                         *)
(* Of a message's text the code looks at cues; a message is here the cues  *)
(* found in it: the chair it names (or an alias of the request names), the *)
(* domain that scores at least 0.15, whether it asks for a committee,      *)
(* whether it reads as a follow-up or is short, and whether its best score *)
(* reaches the workspace's confidence floor.                               *)
(***************************************************************************)
EXTENDS Integers, Sequences, FiniteSets

CONSTANT BoardDomains  \* the domains messages are about

ASSUME DomainAssumption == "ops" \in BoardDomains /\ "none" \notin BoardDomains

MaybeDomain == BoardDomains \cup {"none"}

BoardMessage == [names : MaybeDomain, scores : MaybeDomain, committee : BOOLEAN,
                 followUp : BOOLEAN, short : BOOLEAN, strong : BOOLEAN]

(* value ?? other *)
Else(value, other) == IF value = "none" THEN other ELSE value

(* inferRoutingFromText *)
primary_domain(msg) == Else(msg.names, Else(msg.scores, "ops"))
confident(msg) == msg.names # "none" \/ msg.strong
conversation_mode(msg) ==
    IF msg.committee THEN "committee" ELSE IF msg.names # "none" THEN "chair" ELSE "board"

NoSpec == [mode |-> "none", chair |-> "none", domain |-> "none", confident |-> FALSE]

(* emptySession: the chair and the domain in force and the last interpretation. *)
emptySession == [chair |-> "none", domain |-> "none", last |-> NoSpec]

(* reuseContextIfMinor, and there is an interpretation to use again. *)
Reuses(msg, session) ==
    /\ session.last # NoSpec
    /\ msg.followUp \/ (msg.short /\ session.domain # "none")

(* buildInterpretationSpec: the domain in force comes before the one the   *)
(* message names.                                                          *)
buildInterpretationSpec(msg, session, force) ==
    [mode |-> conversation_mode(msg),
     chair |-> IF msg.committee THEN "none" ELSE Else(force.chair, session.chair),
     domain |-> IF msg.committee THEN "none"
                ELSE Else(force.domain, Else(session.domain, primary_domain(msg))),
     confident |-> confident(msg)]

interpretChatMessage(msg, session, force) ==
    IF Reuses(msg, session) THEN session.last ELSE buildInterpretationSpec(msg, session, force)

applyInterpretation(session, spec) ==
    [chair |-> Else(spec.chair, session.chair),
     domain |-> Else(spec.domain, session.domain),
     last |-> spec]

NotForced == [chair |-> "none", domain |-> "none"]

SessionState ==
    LET specs == [mode : {"none", "committee", "chair", "board"}, chair : MaybeDomain,
                  domain : MaybeDomain, confident : BOOLEAN]
    IN  [chair : MaybeDomain, domain : MaybeDomain, last : specs]
=============================================================================
