-------------------------------- MODULE Meetings --------------------------------
(***************************************************************************)
(* Meetings and executive sessions: routes/meetings.ts.  A message is      *)
(* appended at once; an answer of a chair is asked of a model and the      *)
(* messages read before that call are written back after it.  Executive    *)
(* sessions are the kind of meeting nothing closes and whose answers are   *)
(* not logged.                                                             *)
(***************************************************************************)
EXTENDS Integers, Sequences, FiniteSets, SequencesExt, FiniteSetsExt, Functions, BoardSession, Durable

CONSTANTS MeetingIds,        \* identifiers of meetings and executive sessions
          MeetingKinds,      \* the kind each is opened as
          MeetingTexts,      \* what users say, of BoardMessage
          Answers,           \* requests for an answer that overlap
          MaxMessages, MaxAnswers, MaxMeetingCrashes  \* bounds

ASSUME MeetingAssumption ==
    /\ MeetingKinds \in [MeetingIds -> {"meeting", "session"}]
    /\ MeetingTexts \subseteq BoardMessage
    /\ {MaxMessages, MaxAnswers, MaxMeetingCrashes} \subseteq Nat

VARIABLES meetings,        \* meetings/<workspace> and exec-sessions/<workspace>
          minutes,         \* the messages on file, by meeting
          meetingSessions, \* sessions/<workspace>/<thread>, by meeting
          answering,       \* requests waiting for the model
          meetingLog,      \* the decision log's events of each kind, by meeting
          said,            \* every message a handler wrote, in order, by meeting
          meetingCrashes

meetingVars == <<meetings, minutes, meetingSessions, answering, meetingLog, said, meetingCrashes>>

Idle == [meeting |-> "none", read |-> <<>>, at |-> 0]
MeetingEvents == {"created", "respond_completed", "closed"}

MeetingInit ==
    /\ meetings = [m \in MeetingIds |-> "none"]
    /\ minutes = [m \in MeetingIds |-> <<>>]
    /\ meetingSessions = [m \in MeetingIds |-> emptySession]
    /\ answering = [a \in Answers |-> Idle]
    /\ meetingLog = [m \in MeetingIds |-> [e \in MeetingEvents |-> 0]]
    /\ said = [m \in MeetingIds |-> <<>>]
    /\ meetingCrashes = 0

(* The handler made `done` of its two writes: with one the process died,   *)
(* and every request that waited for the model died with it; `going` are   *)
(* those that wait otherwise.                                              *)
MeetingCut(done, going) ==
    /\ done < 2 => meetingCrashes < MaxMeetingCrashes
    /\ meetingCrashes' = IF done < 2 THEN meetingCrashes + 1 ELSE meetingCrashes
    /\ answering' = IF done < 2 THEN [a \in Answers |-> Idle] ELSE going

MeetingLogged(done, m, event) ==
    meetingLog' = writeJsonAtomic(done, 2, [meetingLog EXCEPT ![m][event] = @ + 1], meetingLog)

(* How much was said in all, which MaxMessages bounds. *)
Spoken == MapThenSumSet(LAMBDA m : Len(said[m]), MeetingIds)

(* A message is told from others by its place in `said`; `at` is how much  *)
(* had been said when the messages it is written with were read.           *)
Say(m, author, text, at) == [n |-> Len(said[m]) + 1, author |-> author, text |-> text, at |-> at]

WriteMinutes(m, messages, message) ==
    /\ minutes' = [minutes EXCEPT ![m] = Append(messages, message)]
    /\ said' = [said EXCEPT ![m] = Append(@, message)]

-----------------------------------------------------------------------------
CreateMeeting(m, done) ==
    /\ meetings[m] = "none"
    /\ meetings' = [meetings EXCEPT ![m] = "open"]
    /\ MeetingLogged(done, m, "created")
    /\ MeetingCut(done, answering)
    /\ UNCHANGED <<minutes, meetingSessions, said>>

AddMessage(m, author, text) ==
    /\ meetings[m] = "open"
    /\ Spoken < MaxMessages
    /\ WriteMinutes(m, minutes[m], Say(m, author, text, Len(said[m])))
    /\ UNCHANGED <<meetings, meetingSessions, answering, meetingLog, meetingCrashes>>

(* Where the messages of users stand in the minutes. *)
UserMessages(m) == {i \in DOMAIN minutes[m] : minutes[m][i].author = "USER"}

(* The handler up to the model call: buildAIResponse has interpreted the   *)
(* last thing a user said and has put it in the thread's context.          *)
AskForAnswer(a, m) ==
    LET session == meetingSessions[m]
        question == minutes[m][Max(UserMessages(m))].text
    IN  /\ answering[a] = Idle
        /\ meetings[m] = "open"
        /\ UserMessages(m) # {}
        /\ Spoken < MaxMessages
        /\ meetingLog[m]["respond_completed"] < MaxAnswers
        /\ answering' = [answering EXCEPT ![a] = [meeting |-> m, read |-> minutes[m], at |-> Len(said[m])]]
        /\ meetingSessions' = [meetingSessions EXCEPT ![m] =
              applyInterpretation(session, interpretChatMessage(question, session, NotForced))]
        /\ UNCHANGED <<meetings, minutes, meetingLog, said, meetingCrashes>>

AnsweredWith(a, messages, done) ==
    LET m == answering[a].meeting
        going == [answering EXCEPT ![a] = Idle]
    IN  /\ m # "none"
        /\ WriteMinutes(m, messages, Say(m, "AGENT", Last(answering[a].read).text, answering[a].at))
        /\ IF MeetingKinds[m] = "meeting"
           THEN MeetingLogged(done, m, "respond_completed") /\ MeetingCut(done, going)
           ELSE done = 2 /\ answering' = going /\ UNCHANGED <<meetingLog, meetingCrashes>>
        /\ UNCHANGED <<meetings, meetingSessions>>

(* Mutant: the first messages make room for the answer. *)
WriteAnswerTrimmed(a, done) == AnsweredWith(a, Tail(answering[a].read), done)

(* The model answered: the messages read then are written with the answer. *)
WriteAnswer(a, done) == AnsweredWith(a, answering[a].read, done)

(* The reasoning failed: 502, and nothing is written. *)
AnswerFails(a) ==
    /\ answering[a] # Idle
    /\ answering' = [answering EXCEPT ![a] = Idle]
    /\ UNCHANGED <<meetings, minutes, meetingSessions, meetingLog, said, meetingCrashes>>

(* The process restarts while requests wait. *)
MeetingRestart ==
    /\ meetingCrashes < MaxMeetingCrashes
    /\ answering # [a \in Answers |-> Idle]
    /\ answering' = [a \in Answers |-> Idle]
    /\ meetingCrashes' = meetingCrashes + 1
    /\ UNCHANGED <<meetings, minutes, meetingSessions, meetingLog, said>>

(* /:id/close.  Nobody asks whether an answer is on its way. *)
CloseMeeting(m, done) ==
    /\ MeetingKinds[m] = "meeting"
    /\ meetings[m] = "open"
    /\ meetings' = [meetings EXCEPT ![m] = "closed"]
    /\ MeetingLogged(done, m, "closed")
    /\ MeetingCut(done, answering)
    /\ UNCHANGED <<minutes, meetingSessions, said>>

MeetingNext ==
    \/ \E m \in MeetingIds, done \in 1..2 : CreateMeeting(m, done) \/ CloseMeeting(m, done)
    \/ \E m \in MeetingIds, author \in {"USER", "AGENT"}, text \in MeetingTexts :
         AddMessage(m, author, text)
    \/ \E a \in Answers, m \in MeetingIds : AskForAnswer(a, m)
    \/ \E a \in Answers, done \in 1..2 : WriteAnswer(a, done)
    \/ \E a \in Answers : AnswerFails(a)
    \/ MeetingRestart

MeetingSpec == MeetingInit /\ [][MeetingNext]_meetingVars

-----------------------------------------------------------------------------
MeetingTypeOK ==
    /\ meetings \in [MeetingIds -> {"none", "open", "closed"}]
    /\ \A m \in MeetingIds : Range(minutes[m]) \subseteq Range(said[m])
    /\ meetingSessions \in [MeetingIds -> SessionState]
    /\ meetingLog \in [MeetingIds -> [MeetingEvents -> Nat]]
    /\ meetingCrashes \in 0..MaxMeetingCrashes

(* A message leaves the minutes in one way only: an answer asked for       *)
(* before it was said and written after it has overwritten it.  What was   *)
(* said last is on file, and what is left is in the order it was said.     *)
LostToAnAnswerOnly ==
    \A m \in MeetingIds :
        LET kept == {minutes[m][i].n : i \in DOMAIN minutes[m]}
        IN  /\ \A n \in DOMAIN said[m] \ kept : \E later \in n + 1..Len(said[m]) :
                 said[m][later].author = "AGENT" /\ said[m][later].at < n
            /\ \A i, j \in DOMAIN minutes[m] : i < j => minutes[m][i].n < minutes[m][j].n
=============================================================================
