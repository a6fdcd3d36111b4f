------------------------------- MODULE BoardChat -------------------------------
(***************************************************************************)
(* Board chat: routes/motherboard-chat.ts with lib/board-chat-job-store.ts *)
(* and the thread's context.  A message becomes a job; its execution runs  *)
(* on after the POST has been answered: it interprets the message, asks    *)
(* the chairs, some in parallel, has their answers merged, logs it and     *)
(* writes the result into the job, which clients poll.  Nothing takes up   *)
(* the execution of a job after a restart.  The store writes in place: a   *)
(* crash in the middle of a write leaves a file that does not parse, which *)
(* reads as no job at all ("torn").                                        *)
(*                                                                         *)
(* A chair is known by its domain: here no two have the same.              *)
(***************************************************************************)
EXTENDS Integers, Sequences, FiniteSets, SequencesExt, FiniteSetsExt, Functions, BoardSession

CONSTANTS BlueprintChairs,  \* the blueprint's chairs, in its order
          Threads, ChatTexts, \* threads and the messages of users, of BoardMessage
          Forced,           \* what a request may force: chair and domain
          AskedModes,       \* session_mode of the request, or "none"
          maxParallel,      \* getProviderConcurrency
          MaxChatJobs, MaxChatCrashes, MaxClears  \* bounds

ASSUME ChatAssumption ==
    /\ BlueprintChairs \in Seq(BoardDomains)
    /\ \A i, j \in DOMAIN BlueprintChairs : BlueprintChairs[i] = BlueprintChairs[j] => i = j
    /\ ChatTexts \subseteq BoardMessage
    /\ Forced \subseteq [chair : MaybeDomain, domain : MaybeDomain]
    /\ AskedModes \subseteq {"none", "chair", "board"}
    /\ maxParallel \in Nat \ {0} /\ {MaxChatJobs, MaxChatCrashes, MaxClears} \subseteq Nat

VARIABLES chatJobs,      \* board-chat-jobs/<workspace>
          chatSessions,  \* sessions/<workspace>/<thread>
          executions,    \* by job: the executions alive in this process
          chatLog,       \* the jobs whose board_chat_completed was logged
          clears,        \* DELETEs so far
          chatCrashes

chatVars == <<chatJobs, chatSessions, executions, chatLog, clears, chatCrashes>>

ChatStatuses == {"pending", "running", "done", "error", "torn"}
Gone == [mode |-> "none", todo |-> <<>>, asked |-> {}, results |-> {}]

ChatInit ==
    /\ chatJobs = <<>>
    /\ chatSessions = [t \in Threads |-> emptySession]
    /\ executions = <<>>
    /\ chatLog = <<>>
    /\ clears = 0
    /\ chatCrashes = 0

-----------------------------------------------------------------------------
Mode(asked, spec) == IF asked # "none" THEN asked ELSE IF spec.mode = "chair" THEN "chair" ELSE "board"

(* The chairs that deliberate: the one addressed, or the whole board; a    *)
(* domain without a chair gets a stand-in of its name.                     *)
activeChairs(mode, force, spec, session) ==
    LET chairs == Range(BlueprintChairs)
        domain == Else(spec.domain, Else(session.domain, "ops"))
        target == Else(Else(spec.chair, session.chair), domain)
        primary == IF target \in chairs THEN <<target>> ELSE <<>>
        deliberating == IF mode = "chair" \/ force.chair # "none" \/ chairs = {}
                        THEN primary ELSE BlueprintChairs
    IN  IF deliberating = <<>> THEN <<domain>> ELSE deliberating

(* runReasoningLoop with the floor in force. *)
Blocked(mode, chairs, spec) == ~(mode = "board" /\ Len(chairs) > 1) /\ ~spec.confident

(* POST /: the job is created and its execution runs up to its first wait, *)
(* unless the process dies before.                                         *)
PostChat(t, text, force, asked, survives) ==
    LET id == Len(chatJobs) + 1
        spec == interpretChatMessage(text, chatSessions[t], force)
        session == applyInterpretation(chatSessions[t], spec)
        mode == Mode(asked, spec)
        chairs == activeChairs(mode, force, spec, session)
        blocked == Blocked(mode, chairs, spec)
        first == IF maxParallel < Len(chairs) THEN maxParallel ELSE Len(chairs)
        job(status) == [thread |-> t, status |-> status, chairs |-> Range(chairs), partial |-> <<>>]
    IN  /\ id <= MaxChatJobs
        /\ IF survives
           THEN /\ chatJobs' = Append(chatJobs, job(IF blocked THEN "error" ELSE "running"))
                /\ chatSessions' = [chatSessions EXCEPT ![t] = session]
                /\ executions' = Append(executions,
                     IF blocked THEN Gone
                     ELSE [mode |-> mode, todo |-> SubSeq(chairs, first + 1, Len(chairs)),
                           asked |-> ToSet(SubSeq(chairs, 1, first)), results |-> {}])
                /\ UNCHANGED chatCrashes
           ELSE /\ chatCrashes < MaxChatCrashes
                /\ \E left \in {"pending", "torn"} : chatJobs' = Append(chatJobs, job(left))
                /\ executions' = [i \in 1..id |-> Gone]
                /\ chatCrashes' = chatCrashes + 1
                /\ UNCHANGED chatSessions
        /\ UNCHANGED <<chatLog, clears>>

(* updateBoardChatJob, appendChairResult: both read the job again. *)
SetStatus(jobs, i, status) == [jobs EXCEPT ![i].status = status]
appendChairResult(jobs, i, chair) == [jobs EXCEPT ![i].partial = Append(@, chair)]

(* The end of an execution: the event and then the job.  The process may   *)
(* die between the two, or in the second; all executions die with it.      *)
Complete(jobs, i, done) ==
    /\ chatLog' = Append(chatLog, i)
    /\ IF done = 2
       THEN /\ chatJobs' = SetStatus(jobs, i, "done")
            /\ executions' = [executions EXCEPT ![i] = Gone]
            /\ UNCHANGED chatCrashes
       ELSE /\ chatCrashes < MaxChatCrashes
            /\ chatJobs' \in {jobs, SetStatus(jobs, i, "torn")}
            /\ executions' = [j \in DOMAIN executions |-> Gone]
            /\ chatCrashes' = chatCrashes + 1

(* A chair answered, or could not: either way it is a result.  Its place   *)
(* is taken by the next chair; when it was the last one of a chair's       *)
(* session, its answer is the board's.                                     *)
ChairAnswers(i, chair, done) ==
    LET run == executions[i]
        jobs == appendChairResult(chatJobs, i, chair)
        next == IF run.todo = <<>> THEN {} ELSE {Head(run.todo)}
        after == [run EXCEPT !.asked = (@ \ {chair}) \cup next,
                             !.todo = IF @ = <<>> THEN @ ELSE Tail(@),
                             !.results = @ \cup {chair}]
    IN  /\ chair \in run.asked
        /\ IF after.asked = {} /\ run.mode = "chair" /\ Cardinality(after.results) = 1
           THEN Complete(jobs, i, done)
           ELSE /\ done = 2
                /\ chatJobs' = jobs
                /\ executions' = [executions EXCEPT ![i] = after]
                /\ UNCHANGED <<chatLog, chatCrashes>>
        /\ UNCHANGED <<chatSessions, clears>>

(* Mutant: the answers there are when the first has come. *)
MergesEarly(i) == executions[i] # Gone /\ executions[i].results # {}

Merges(i) == executions[i] # Gone /\ executions[i].asked = {}

(* synthesizeBoardResponse: an answer, a template when the model fails, or *)
(* an error when the answer holds no JSON.                                 *)
Synthesize(i, ok, done) ==
    /\ Merges(i)
    /\ IF ok
       THEN Complete(chatJobs, i, done)
       ELSE /\ done = 2
            /\ chatJobs' = SetStatus(chatJobs, i, "error")
            /\ executions' = [executions EXCEPT ![i] = Gone]
            /\ UNCHANGED <<chatLog, chatCrashes>>
    /\ UNCHANGED <<chatSessions, clears>>

(* DELETE /:threadId *)
ClearThread(t) ==
    /\ clears < MaxClears
    /\ chatSessions[t] # emptySession
    /\ chatSessions' = [chatSessions EXCEPT ![t] = emptySession]
    /\ clears' = clears + 1
    /\ UNCHANGED <<chatJobs, executions, chatLog, chatCrashes>>

(* The process dies, perhaps while one of its executions writes its job. *)
ChatRestart ==
    /\ chatCrashes < MaxChatCrashes
    /\ \E i \in DOMAIN executions :
         executions[i] # Gone /\ chatJobs' \in {chatJobs, SetStatus(chatJobs, i, "torn")}
    /\ executions' = [i \in DOMAIN executions |-> Gone]
    /\ chatCrashes' = chatCrashes + 1
    /\ UNCHANGED <<chatSessions, chatLog, clears>>

(* listBoardChatThreads and listJobsForThread: the jobs of a thread. *)
listJobsForThread(t) == {i \in DOMAIN chatJobs : chatJobs[i].thread = t /\ chatJobs[i].status # "torn"}

ChatNext ==
    \/ \E t \in Threads, text \in ChatTexts, force \in Forced, asked \in AskedModes, survives \in BOOLEAN :
         PostChat(t, text, force, asked, survives)
    \/ \E i \in DOMAIN executions, done \in 1..2 :
         \/ \E chair \in executions[i].asked : ChairAnswers(i, chair, done)
         \/ \E ok \in BOOLEAN : Synthesize(i, ok, done)
    \/ \E t \in Threads : ClearThread(t)
    \/ ChatRestart

ChatSpec == ChatInit /\ [][ChatNext]_chatVars

-----------------------------------------------------------------------------
ChatTypeOK ==
    /\ \A i \in DOMAIN chatJobs : chatJobs[i].status \in ChatStatuses
    /\ DOMAIN executions = DOMAIN chatJobs
    /\ chatSessions \in [Threads -> SessionState]
    /\ Range(chatLog) \subseteq DOMAIN chatJobs

(* What a client reads in a job it polls: a job that is done has one       *)
(* answer of every chair that was asked and was logged, once; a logged job *)
(* that is not done, and one whose execution is gone and that is neither   *)
(* done nor failed - polled for ever, or not found - are a crash's doing.  *)
DoneMeansDeliberated ==
    LET logged == ToSet(chatLog)
        status(i) == chatJobs[i].status
        stuck == {i \in DOMAIN chatJobs : executions[i] = Gone /\ status(i) \in {"pending", "running", "torn"}}
    IN  /\ Len(chatLog) = Cardinality(logged)
        /\ \A i \in DOMAIN chatJobs :
             /\ status(i) = "done" => i \in logged
             /\ i \in logged /\ status(i) # "torn" =>
                  /\ ToSet(chatJobs[i].partial) = chatJobs[i].chairs
                  /\ Len(chatJobs[i].partial) = Cardinality(chatJobs[i].chairs)
             /\ i \in logged => status(i) = "done" \/ chatCrashes > 0
        /\ stuck # {} => chatCrashes > 0
=============================================================================
