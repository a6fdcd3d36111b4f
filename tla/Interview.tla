------------------------------- MODULE Interview -------------------------------
(***************************************************************************)
(* The interview that generates a board: routes/interview.ts with          *)
(* agent-runtime/interview/state-machine.ts and generate-artifacts.ts.     *)
(* The session is memory of the process; what it generates are artifacts.  *)
(* An answer, a correction, a confirmation and a regeneration each wait    *)
(* for models, and any other request may come in the meantime.             *)
(*                                                                         *)
(* Sections are 0 (S0) to 9 (S9).  Of the answers the model keeps the      *)
(* governance mode and which corrections of the review they reflect;       *)
(* `told` are the corrections the user was shown in a new review.          *)
(***************************************************************************)
EXTENDS Integers, Sequences, FiniteSets, SequencesExt, ArtifactStore

CONSTANTS Corrections,       \* what users correct in the review
          InterviewCalls,    \* requests that may wait for a model together
          Patches,           \* what extractCorrections makes of a message: sets of them
          SeatReplies,       \* what the model makes of the seats: sequences of domains
          Rosters,           \* how the workers of chairs come about
          Refusals,          \* sets of artifact types the schemas refuse
          MaxRegenerations, MaxGenerations, MaxInterviewCrashes  \* bounds

ASSUME InterviewAssumption ==
    /\ Patches \subseteq SUBSET Corrections
    /\ SeatReplies \subseteq Seq(STRING)
    /\ Rosters \subseteq {"selected", "ranked", "advisor"}
    /\ {MaxRegenerations, MaxGenerations, MaxInterviewCrashes} \subseteq Nat

VARIABLES interview,    \* the session and its state machine
          pending,      \* the requests that wait, by call
          board,        \* the artifact store
          generations,  \* boards generated so far
          registered,   \* boards whose chairs this session registered with commons-crew
          regenerated,  \* chairs regenerated so far
          interviewCrashes

interviewVars == <<interview, pending, board, generations, registered, regenerated, interviewCrashes>>

CoreTypes == <<"business_profile", "objective_config", "autonomy_policy", "cadence_protocol", "agent_blueprint">>
BoardTypes == {CoreTypes[i] : i \in 1..5} \cup {"collective_config"}

NoInterview == [stage |-> "none", section |-> 0, mode |-> "business", confirmed |-> FALSE,
                corrections |-> {}, told |-> {}, applied |-> {}, finalized |-> FALSE]
NoCall == [kind |-> "none", section |-> 0, from |-> {}, due |-> {}, chairs |-> <<>>, domain |-> "none"]
NoPayload == [from |-> {}, due |-> {}, chairs |-> <<>>]

InterviewInit ==
    /\ interview = NoInterview
    /\ pending = [c \in InterviewCalls |-> NoCall]
    /\ board = [type \in BoardTypes |-> [NoArtifact EXCEPT !.payload = NoPayload]]
    /\ generations = 0 /\ registered = 0 /\ regenerated = 0 /\ interviewCrashes = 0

-----------------------------------------------------------------------------
(* InterviewStateMachine: submit moves on to the next section, past S8     *)
(* when the organisation is a business; S9 stays.                          *)
advance(section, mode) ==
    IF section = 9 THEN 9 ELSE IF section = 7 /\ mode = "business" THEN 9 ELSE section + 1

Parsed == {1, 2, 4, 6, 8}  \* the sections parseSection asks a model about

Free(c) == pending[c].kind = "none"
Waits(c, call) == pending' = [pending EXCEPT ![c] = call]
Ends(c) == Waits(c, NoCall)

StartInterview ==
    /\ interview.stage = "none"
    /\ interview' = [NoInterview EXCEPT !.stage = "live"]
    /\ registered' = 0
    /\ UNCHANGED <<pending, board, generations, regenerated, interviewCrashes>>

(* /:id/respond to a section a few words decide. *)
Respond(mode) ==
    /\ interview.stage = "live"
    /\ interview.section \in 0..8 \ Parsed
    /\ interview' = [interview EXCEPT
          !.mode = IF interview.section = 0 THEN mode ELSE @,
          !.section = advance(@, IF interview.section = 0 THEN mode ELSE interview.mode)]
    /\ UNCHANGED <<pending, board, generations, registered, regenerated, interviewCrashes>>

AskParse(c) ==
    /\ Free(c)
    /\ interview.stage = "live"
    /\ interview.section \in Parsed
    /\ Waits(c, [NoCall EXCEPT !.kind = "answer", !.section = interview.section])
    /\ UNCHANGED <<interview, board, generations, registered, regenerated, interviewCrashes>>

(* The parsed answer is submitted, unless another one of the same section  *)
(* came first: 400.                                                        *)
SubmitParsed(c) ==
    /\ pending[c].kind = "answer"
    /\ interview' = IF pending[c].section = interview.section
                    THEN [interview EXCEPT !.section = advance(@, interview.mode)] ELSE interview
    /\ Ends(c)
    /\ UNCHANGED <<board, generations, registered, regenerated, interviewCrashes>>

(* A review answer that does not confirm: extractCorrections is asked, and *)
(* its patch joins the corrections there are by then.                      *)
AskCorrection(c, patch) ==
    /\ Free(c)
    /\ interview.stage = "live" /\ interview.section = 9
    /\ Waits(c, [NoCall EXCEPT !.kind = "correction", !.from = patch])
    /\ UNCHANGED <<interview, board, generations, registered, regenerated, interviewCrashes>>

(* Mutant: the corrections before this one are forgotten. *)
ReplacePatch(c) ==
    /\ pending[c].kind = "correction"
    /\ interview' = [interview EXCEPT !.confirmed = FALSE, !.corrections = pending[c].from,
                                          !.told = @ \cup pending[c].from]
    /\ Ends(c)
    /\ UNCHANGED <<board, generations, registered, regenerated, interviewCrashes>>

SubmitCorrection(c) ==
    /\ pending[c].kind = "correction"
    /\ interview' = [interview EXCEPT !.confirmed = FALSE, !.corrections = @ \cup pending[c].from,
                                          !.told = @ \cup pending[c].from]
    /\ Ends(c)
    /\ UNCHANGED <<board, generations, registered, regenerated, interviewCrashes>>

SayYes ==
    /\ interview.stage = "live" /\ interview.section = 9
    /\ ~interview.confirmed
    /\ interview' = [interview EXCEPT !.confirmed = TRUE]
    /\ UNCHANGED <<pending, board, generations, registered, regenerated, interviewCrashes>>

-----------------------------------------------------------------------------
(* inferChairContexts: five seats and one of legal and security, whatever  *)
(* the model says; six of its own when it says less than five.             *)
Fallback == <<"finance", "ops", "hr", "growth", "it", "legal">>

inferChairContexts(reply) ==
    LET present == ToSet(reply)
        seat(d) == IF d \in present THEN <<>> ELSE <<d>>
    IN  IF Len(reply) < 5 THEN Fallback
        ELSE reply \o seat("finance") \o seat("ops") \o seat("hr") \o seat("growth") \o seat("it")
                   \o (IF "security" \in present THEN <<>> ELSE seat("legal"))

(* buildBlueprintChairs numbers the chairs by their place.  A roster is    *)
(* what populateChairWorkers made of the catalog: the workers a model      *)
(* selected, the top of the ranking when it selected none, or one          *)
(* "Advisor" when there is no candidate.                                   *)
buildBlueprintChairs(seats, roster) ==
    [i \in DOMAIN seats |-> [id |-> i, domain |-> seats[i], roster |-> roster]]

Artifact(type, from, due, chairs) ==
    [type |-> type, payload |-> [from |-> from, due |-> due,
                                 chairs |-> IF type = "agent_blueprint" THEN chairs ELSE <<>>]]

(* generateArtifacts.  The blueprint reflects what was applied when the    *)
(* generation began, the others what is applied when it ends.              *)
generateArtifacts(call, applied, mode, chairs) ==
    LET types == IF mode = "collective" THEN Append(CoreTypes, "collective_config") ELSE CoreTypes
    IN  [i \in DOMAIN types |-> Artifact(types[i],
            IF types[i] = "agent_blueprint" THEN call.from ELSE applied, call.due, chairs)]

(* POST /:id/confirm up to its wait: the machine is not finalized and S9   *)
(* is confirmed; the corrections join the answers.                         *)
AskBoard(c) ==
    LET corrected == interview.applied \cup interview.corrections
    IN  /\ Free(c)
        /\ interview.stage = "live" /\ interview.section = 9
        /\ interview.confirmed /\ ~interview.finalized
        /\ generations < MaxGenerations
        /\ interview' = [interview EXCEPT !.applied = corrected]
        /\ Waits(c, [NoCall EXCEPT !.kind = "confirm", !.from = corrected, !.due = interview.told])
        /\ generations' = generations + 1
        /\ UNCHANGED <<board, registered, regenerated, interviewCrashes>>

(* POST /seed-board: the board of a preset. *)
AskSeed(c) ==
    /\ Free(c)
    /\ generations < MaxGenerations
    /\ Waits(c, [NoCall EXCEPT !.kind = "seed"])
    /\ generations' = generations + 1
    /\ UNCHANGED <<interview, board, registered, regenerated, interviewCrashes>>

(* The artifacts are written one after the other: all of them, those       *)
(* before one that is refused, or - the process dies - some writes.        *)
(* The board is there: the confirmation marks the machine finalized, and   *)
(* all artifacts written, deletes the session; a refused one leaves it, to *)
(* be confirmed no more.                                                   *)
Generated(c, reply, roster, refused, done) ==
    LET call == pending[c]
        confirms == call.kind = "confirm"
        chairs == buildBlueprintChairs(inferChairContexts(reply), roster)
        batch == IF confirms THEN generateArtifacts(call, interview.applied, interview.mode, chairs)
                 ELSE generateArtifacts(call, {}, "business", chairs)
        all == 2 * Reach(batch, refused)
        whole == Reach(batch, refused) = Len(batch)
        after == IF confirms THEN [interview EXCEPT !.finalized = TRUE, !.stage = IF whole THEN "deleted" ELSE @]
                 ELSE interview
    IN  /\ call.kind \in {"confirm", "seed"}
        /\ done <= all
        /\ board' = writeArtifacts(board, batch, done)
        /\ IF done < all
           THEN /\ interviewCrashes < MaxInterviewCrashes
                /\ interviewCrashes' = interviewCrashes + 1
                /\ interview' = NoInterview
                /\ pending' = [d \in InterviewCalls |-> NoCall]
           ELSE /\ UNCHANGED interviewCrashes
                /\ interview' = after
                /\ Ends(c)
        /\ registered' = IF confirms THEN registered + 1 ELSE registered
        /\ UNCHANGED <<generations, regenerated>>

(* POST /chairs/:domain/regenerate: the blueprint is read, the chair's     *)
(* workers are selected anew, and the blueprint read is written with the   *)
(* chair replaced wherever its domain stands.                              *)
AskRegenerate(c, domain) ==
    LET chairs == board["agent_blueprint"].payload.chairs
    IN  /\ Free(c)
        /\ regenerated < MaxRegenerations
        /\ OnFile(board, "agent_blueprint")
        /\ \E i \in DOMAIN chairs : chairs[i].domain = domain
        /\ Waits(c, [NoCall EXCEPT !.kind = "regenerate", !.domain = domain,
                       !.from = board["agent_blueprint"].payload.from,
                       !.due = board["agent_blueprint"].payload.due, !.chairs = chairs])
        /\ regenerated' = regenerated + 1
        /\ UNCHANGED <<interview, board, generations, registered, interviewCrashes>>

Regenerated(c, roster) ==
    LET call == pending[c]
        first == CHOOSE i \in DOMAIN call.chairs :
                   /\ call.chairs[i].domain = call.domain
                   /\ \A j \in 1..i - 1 : call.chairs[j].domain # call.domain
        chair == [call.chairs[first] EXCEPT !.roster = roster]
        chairs == [i \in DOMAIN call.chairs |->
                     IF call.chairs[i].domain = call.domain THEN chair ELSE call.chairs[i]]
    IN  /\ call.kind = "regenerate"
        /\ board' = writeArtifacts(board, <<Artifact("agent_blueprint", call.from, call.due, chairs)>>, 2)
        /\ Ends(c)
        /\ UNCHANGED <<interview, generations, registered, regenerated, interviewCrashes>>

(* A generation that throws: 400 for a confirmation, which may be tried    *)
(* again, 500 for the others.                                              *)
GenerationFails(c) ==
    /\ pending[c].kind \in {"confirm", "seed", "regenerate"}
    /\ Ends(c)
    /\ UNCHANGED <<interview, board, generations, registered, regenerated, interviewCrashes>>

InterviewRestart ==
    /\ interviewCrashes < MaxInterviewCrashes
    /\ interview.stage # "none" \/ \E c \in InterviewCalls : ~Free(c)
    /\ interview' = NoInterview
    /\ pending' = [c \in InterviewCalls |-> NoCall]
    /\ interviewCrashes' = interviewCrashes + 1
    /\ UNCHANGED <<board, generations, registered, regenerated>>

InterviewNext ==
    \/ StartInterview
    \/ \E mode \in {"business", "collective"} : Respond(mode)
    \/ SayYes
    \/ \E c \in InterviewCalls :
         \/ AskParse(c) \/ SubmitParsed(c)
         \/ \E patch \in Patches : AskCorrection(c, patch)
         \/ SubmitCorrection(c)
         \/ AskBoard(c) \/ AskSeed(c)
         \/ \E reply \in SeatReplies, roster \in Rosters, refused \in Refusals, done \in 0..12 :
              Generated(c, reply, roster, refused, done)
         \/ \E domain \in ToSet(Fallback) : AskRegenerate(c, domain)
         \/ \E roster \in Rosters : Regenerated(c, roster)
         \/ GenerationFails(c)
    \/ InterviewRestart

InterviewSpec == InterviewInit /\ [][InterviewNext]_interviewVars

-----------------------------------------------------------------------------
InterviewTypeOK ==
    /\ interview.section \in 0..9
    /\ interview.corrections \cup interview.applied \cup interview.told \subseteq Corrections
    /\ \A c \in InterviewCalls : pending[c].section \in 0..9
    /\ WritesAreLogged(board, interviewCrashes)

(* Whatever is confirmed, corrected, seeded, refused or regenerated        *)
(* meanwhile, the artifacts of a confirmation reflect every correction the *)
(* user had been told of when it was confirmed.                            *)
CorrectionsAreReflected ==
    \A type \in BoardTypes : board[type].payload.due \subseteq board[type].payload.from

(* Every board there is has the five seats and one for the law or for      *)
(* security, whatever the model answered and was regenerated since.        *)
SeatsAreFilled ==
    LET chairs == board["agent_blueprint"].payload.chairs
        domains == {chairs[i].domain : i \in DOMAIN chairs}
    IN  OnFile(board, "agent_blueprint") =>
          {"finance", "ops", "hr", "growth", "it"} \subseteq domains
          /\ domains \cap {"legal", "security"} # {}

(* The board is the one the user was shown, and no seat of it is empty. *)
BoardIsWhole == CorrectionsAreReflected /\ SeatsAreFilled
=============================================================================
