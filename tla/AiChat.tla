--------------------------------- MODULE AiChat ---------------------------------
(***************************************************************************)
(* The freeform chat: routes/ai-chat.ts (stream and sync) and              *)
(* lib/ai-chat-session-store.ts.  A turn reads the session's history,      *)
(* calls the model and appends the question and the answer to the session  *)
(* it reads again.  The streaming route passes the tokens on as they come, *)
(* before it stores the turn; whether the client still listens, neither    *)
(* route asks.  The store writes in place: a crash in the middle of a      *)
(* write leaves a file that does not parse, which reads as no session.     *)
(***************************************************************************)
EXTENDS Integers, Sequences, FiniteSets, SequencesExt

CONSTANTS Turns,             \* turns that overlap
          ChatModels,        \* models of the active provider
          MaxAiSessions, MaxTurns, MaxAiCrashes  \* bounds

ASSUME AiChatAssumption == {MaxAiSessions, MaxTurns, MaxAiCrashes} \subseteq Nat

VARIABLES aiSessions,  \* ai-chat-sessions/<workspace>; `torn`: the file does not parse
          turns,       \* requests under way; `tokens`: the client has part of the answer
          ended,       \* the turns that ended, with their session and what the client was
                       \* told: the "end" of its answer, an "error", or "nothing"
          aiCrashes

aiVars == <<aiSessions, turns, ended, aiCrashes>>

NoTurn == [session |-> 0, history |-> <<>>, model |-> "none", streaming |-> FALSE, tokens |-> FALSE]

AiInit ==
    /\ aiSessions = <<>>
    /\ turns = [u \in Turns |-> NoTurn]
    /\ ended = <<>>
    /\ aiCrashes = 0

AiFlights == {u \in Turns : turns[u] # NoTurn}
Readable(s) == s \in DOMAIN aiSessions /\ ~aiSessions[s].torn

(* The request's session if it can be read, and a new one otherwise.  The  *)
(* streaming route creates it with the provider's model, the other without *)
(* one.  `asked` 0 names no session.                                       *)
BeginTurn(u, asked, model, streaming) ==
    /\ turns[u] = NoTurn
    /\ Len(ended) + Cardinality(AiFlights) < MaxTurns
    /\ LET s == IF Readable(asked) THEN asked ELSE Len(aiSessions) + 1
           fresh == [messages |-> <<>>, model |-> IF streaming THEN model ELSE "none", torn |-> FALSE]
       IN  /\ s <= MaxAiSessions
           /\ aiSessions' = IF s \in DOMAIN aiSessions THEN aiSessions ELSE Append(aiSessions, fresh)
           /\ turns' = [turns EXCEPT ![u] = [session |-> s, history |-> aiSessions'[s].messages,
                                             model |-> model, streaming |-> streaming, tokens |-> FALSE]]
    /\ UNCHANGED <<ended, aiCrashes>>

(* A part of the answer came and goes on to the client. *)
StreamTokens(u) ==
    /\ turns[u].streaming /\ ~turns[u].tokens
    /\ turns' = [turns EXCEPT ![u].tokens = TRUE]
    /\ UNCHANGED <<aiSessions, ended, aiCrashes>>

appendAiChatMessages(session, turn) == [session EXCEPT !.messages = Append(@, turn)]

(* updateAiChatSessionModel: only once. *)
SetModelOnce(session, model) ==
    IF session.model = "none" THEN [session EXCEPT !.model = model] ELSE session

Told(u, what) == ended' = Append(ended, [session |-> turns[u].session, told |-> what])

(* The process is stopped: no request outlives it. *)
AiStops(stops) ==
    /\ stops => aiCrashes < MaxAiCrashes
    /\ aiCrashes' = IF stops THEN aiCrashes + 1 ELSE aiCrashes

(* The answer is whole.  The turn is stored, then the model, then the      *)
(* client is told the end; `done` of the three happen.  A session that     *)
(* cannot be read is left alone, and the client told all the same.         *)
EndTurn(u, done) ==
    LET s == turns[u].session
        stored == appendAiChatMessages(aiSessions[s], Len(ended) + 1)
    IN  /\ turns[u] # NoTurn
        /\ aiSessions' = IF Readable(s)
             THEN [aiSessions EXCEPT ![s] =
                     IF done = 1 THEN stored ELSE SetModelOnce(stored, turns[u].model)]
             ELSE aiSessions
        /\ Told(u, IF done = 3 THEN "end" ELSE "nothing")
        /\ turns' = IF done = 3 THEN [turns EXCEPT ![u] = NoTurn] ELSE [v \in Turns |-> NoTurn]
        /\ AiStops(done < 3)

(* The provider failed, or broke off after some tokens: nothing is stored. *)
FailTurn(u) ==
    /\ turns[u] # NoTurn
    /\ Told(u, "error")
    /\ turns' = [turns EXCEPT ![u] = NoTurn]
    /\ UNCHANGED <<aiSessions, aiCrashes>>

(* The process dies, perhaps while it writes a session. *)
AiCrash(torn) ==
    /\ AiStops(TRUE)
    /\ turns' = [u \in Turns |-> NoTurn]
    /\ aiSessions' = [s \in DOMAIN aiSessions |->
                        IF s \in torn THEN [messages |-> <<>>, model |-> "none", torn |-> TRUE]
                        ELSE aiSessions[s]]
    /\ UNCHANGED ended

AiNext ==
    \/ \E u \in Turns, asked \in 0..Len(aiSessions), model \in ChatModels, streaming \in BOOLEAN :
         BeginTurn(u, asked, model, streaming)
    \/ \E u \in Turns : StreamTokens(u) \/ FailTurn(u)
    \/ \E u \in Turns, done \in 1..3 : EndTurn(u, done)
    \/ \E torn \in {{}} \cup {{turns[u].session} : u \in AiFlights} : AiCrash(torn)

AiSpec == AiInit /\ [][AiNext]_aiVars

-----------------------------------------------------------------------------
AiTypeOK ==
    /\ \A s \in DOMAIN aiSessions : /\ aiSessions[s].torn \in BOOLEAN
                                    /\ aiSessions[s].model \in ChatModels \cup {"none"}
    /\ \A u \in Turns : turns[u].session \in 0..Len(aiSessions) /\ (turns[u].tokens => turns[u].streaming)
    /\ aiCrashes \in 0..MaxAiCrashes

(* An answer whose end the client was told is in its session, once and in  *)
(* the order they ended, however many turns of a session overlap - unless  *)
(* a crash has torn the session's file.  One it was told has failed is in  *)
(* none, though some of its tokens may have gone out.  What is stored and  *)
(* nobody was told is the turn that a crash cut short, one for each.       *)
RepliesAreKept ==
    /\ \A s \in DOMAIN aiSessions : ~aiSessions[s].torn =>
        LET kept == aiSessions[s].messages
            turnsTold(what) == {i \in DOMAIN ended : ended[i].session = s /\ ended[i].told \in what}
        IN  /\ turnsTold({"end"}) \subseteq ToSet(kept)
            /\ ToSet(kept) \subseteq turnsTold({"end", "nothing"})
            /\ \A i, j \in DOMAIN kept : i < j => kept[i] < kept[j]
    /\ Cardinality({i \in DOMAIN ended : ended[i].told = "nothing"}) <= aiCrashes
=============================================================================
