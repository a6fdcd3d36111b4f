---------------------------- MODULE BoardRequests ----------------------------
(***************************************************************************)
(* Board requests and their dispatch to a chair's commons-crew run:        *)
(* routes/motherboard.ts and the client in lib/commons-crew-client.ts.     *)
(*                                                                         *)
(* All requests of a workspace are one file, `list`.  A handler reads the  *)
(* whole file, may wait for several calls to commons-crew, and then writes *)
(* back the whole file it had read, changed in one place: `call[h].snap`   *)
(* is that copy.  Handlers that wait for nothing are one action each; the  *)
(* others are interleaved at every await.  A crash loses the handlers in   *)
(* flight, and one may fall between a handler's write and its log entry.   *)
(*                                                                         *)
(* commons-crew is not part of the repository.  Its approvals, proposals   *)
(* and child runs are modelled as the client uses and describes them, for  *)
(* the run of one chair: an approval is decided once and bound to one act, *)
(* which is the text of the request it was proposed for: two requests of   *)
(* the same text are the same act.  Any call may fail before or after it   *)
(* took effect.                                                            *)
(***************************************************************************)
EXTENDS Naturals, Sequences, FiniteSets, FiniteSetsExt, SequencesExt

CONSTANTS Requests,      \* the ids requests may be given
          Texts,         \* what a request asks for: a proposal's targetRef
          Handlers,      \* bound: handlers that wait at the same time
          Targets,       \* the statuses PATCH may ask for
          MaxApprovals,  \* bound: approvals of the chair's run
          MaxCalls,      \* bound: calls of the routes after the submission
          MaxRoadmaps,   \* bound: roadmaps of a request
          MaxCrashes     \* bound: crashes of the process

Statuses == {"submitted", "triaged", "planned", "approved", "executing",
             "blocked", "completed", "rejected"}

(* A status that is false without being null: PATCH looks none of these up *)
(* in the table, and stores it.                                            *)
Empty == "empty"

ASSUME BoardAssumption ==
    /\ Targets \subseteq Statuses \cup {Empty}
    /\ MaxApprovals \in Nat \ {0}
    /\ {MaxCalls, MaxRoadmaps, MaxCrashes} \subseteq Nat

VARIABLES
    list,       \* board-requests/<org>
    roadmaps,   \* board-roadmaps/<org>/<request>: how many there are
    log,        \* the decision log, as far as dispatches are concerned
    call,       \* the handlers in flight
    approval,   \* commons-crew: the approvals of the chair's run
    children,   \* commons-crew: the run's delegation.child_created events,
                \* each with the approval whose proposal was executed
    decisions,  \* history: what operators decided through the route
    cutOff,     \* history: requests whose handler died before its log entry
    calls, crashes

board == <<list, roadmaps, log>>
crew == <<approval, children>>
vars == <<board, call, crew, decisions, cutOff, calls, crashes>>

Approvals == 1..MaxApprovals

Absent == [status |-> "absent"]

NoDispatch == [st |-> "none", a |-> 0, child |-> 0]

NoCall == [pc |-> "idle"]

Lists == [Requests -> {Absent} \cup
            [status : Statuses \cup {Empty}, text : Texts, auto : BOOLEAN,
             roadmap : 0..MaxRoadmaps,
             dispatch : [st : {"none", "unavailable", "awaiting", "approved", "denied"},
                         a : 0..MaxApprovals, child : 0..MaxApprovals]]]

CrewCalls == {"load", "request", "bind", "decide", "execute", "events"}

(* Pending at first: the approval the chair's run is seeded with. *)
Init ==
    /\ list = [r \in Requests |-> Absent]
    /\ roadmaps = [r \in Requests |-> 0]
    /\ log = {}
    /\ call = [h \in Handlers |-> NoCall]
    /\ approval = [a \in Approvals |-> [status |-> IF a = 1 THEN "pending" ELSE "unborn",
                                        act |-> {}]]
    /\ children = <<>>
    /\ decisions = {}
    /\ cutOff = {}
    /\ calls = 0
    /\ crashes = 0

-----------------------------------------------------------------------------
(* Events of the decision log. *)
Submitted(r) == [type |-> "submitted", request |-> r]
Proposed(r, a, auto) == [type |-> "proposed", request |-> r, approval |-> a, auto |-> auto]
Decided(r, a, d) == [type |-> "decided", request |-> r, approval |-> a, decision |-> d]

Count == calls < MaxCalls /\ calls' = calls + 1

Die ==
    /\ crashes < MaxCrashes
    /\ crashes' = crashes + 1
    /\ call' = [h \in Handlers |-> NoCall]

(* The end of a handler: the list is written, then the log; `rest` are the *)
(* handlers still in flight afterwards.                                    *)
Save(new, r, events, rest) ==
    /\ list' = new
    /\ \/ /\ log' = log \cup events
          /\ call' = rest
          /\ UNCHANGED <<cutOff, crashes>>
       \/ /\ Die
          /\ cutOff' = cutOff \cup {r}
          /\ UNCHANGED log

Await(pc, op, r, snap, a, d) ==
    \E h \in Handlers :
        /\ call[h] = NoCall
        /\ call' = [call EXCEPT ![h] =
                      [pc |-> pc, op |-> op, r |-> r, snap |-> snap, a |-> a,
                       d |-> d, child |-> 0, ok |-> FALSE]]
        /\ UNCHANGED <<list, log, cutOff, crashes>>

-----------------------------------------------------------------------------
statusTransitions ==
    [submitted |-> {"triaged", "approved", "rejected"},
     triaged   |-> {"planned", "approved", "rejected", "blocked"},
     planned   |-> {"approved", "blocked", "rejected"},
     approved  |-> {"executing", "completed", "blocked"},
     executing |-> {"completed", "blocked"},
     blocked   |-> {"triaged", "planned", "approved", "executing", "rejected"},
     completed |-> {},
     rejected  |-> {}]

isValidStatusTransition(from, to) ==
    from \in DOMAIN statusTransitions /\ to \in statusTransitions[from]

(* POST /requests, with a fresh id. *)
Submit(r) ==
    /\ r \notin cutOff /\ Submitted(r) \notin log
    /\ \E text \in Texts, auto \in BOOLEAN :
         Save([list EXCEPT ![r] = [status |-> "submitted", text |-> text, auto |-> auto,
                                   roadmap |-> 0, dispatch |-> NoDispatch]],
              r, {Submitted(r)}, call)
    /\ UNCHANGED <<roadmaps, crew, decisions, calls>>

(* PATCH /requests/:id, which edits neither the title nor the text.  A     *)
(* request that becomes approved, opted in and was never dispatched waits  *)
(* for a proposal.  Otherwise the list is written at once, and a dispatch  *)
(* that awaits its decision is logged (again).                             *)
Patch(r) ==
    /\ list[r] # Absent
    /\ Count
    /\ \E s \in Targets \cup {list[r].status}, auto \in BOOLEAN :
         LET was == list[r]
             updated == [was EXCEPT !.status = s, !.auto = auto]
             entering == s = "approved" /\ was.status # "approved"
             new == [list EXCEPT ![r] = updated]
         IN  /\ s \notin {Empty, was.status} => isValidStatusTransition(was.status, s)
             /\ IF entering /\ auto /\ was.dispatch = NoDispatch
                THEN Await("load", "patch", r, new, 0, "none")
                ELSE Save(new, r,
                          IF entering /\ was.dispatch.st = "awaiting"
                          THEN {Proposed(r, was.dispatch.a, TRUE)} ELSE {},
                          call)
    /\ UNCHANGED <<roadmaps, crew, decisions>>

(* POST /requests/:id/dispatch-to-commons-crew, up to its await. *)
Dispatch(r) ==
    /\ list[r] # Absent
    /\ Count
    /\ Await("load", "dispatch", r, list, 0, "none")
    /\ UNCHANGED <<roadmaps, crew, decisions>>

(* POST .../dispatch-to-commons-crew/decision, up to its await. *)
Decide(r, d) ==
    /\ list[r] # Absent
    /\ list[r].dispatch.st = "awaiting"
    /\ Count
    /\ Await("decide", "decision", r, list, list[r].dispatch.a, d)
    /\ decisions' = decisions \cup {<<r, list[r].text, list[r].dispatch.a, d>>}
    /\ UNCHANGED <<roadmaps, crew>>

(* POST /requests/:id/roadmap: the roadmap's file, then the list. *)
AddRoadmap(r) ==
    /\ list[r] # Absent
    /\ roadmaps[r] < MaxRoadmaps
    /\ Count
    /\ roadmaps' = [roadmaps EXCEPT ![r] = @ + 1]
    /\ \/ Save([list EXCEPT ![r].roadmap = roadmaps[r] + 1], r, {}, call)
       \/ Die /\ UNCHANGED <<list, log, cutOff>>
    /\ UNCHANGED <<crew, decisions>>

-----------------------------------------------------------------------------
(* proposeDispatchToChair and submitDispatchDecision: one action per call  *)
(* to commons-crew.  The client gives up at the first call that fails.     *)
Continue(h, c) == call' = [call EXCEPT ![h] = c]

At(h, pc) == [call[h] EXCEPT !.pc = pc]

Result(h, ok) == [call[h] EXCEPT !.pc = "resume", !.ok = ok]

(* A call that took effect, and whose answer may be lost. *)
Answer(h, c) == Continue(h, c) \/ Continue(h, Result(h, FALSE))

(* Mutant: a failed execution is taken for a success.                      *)
ExecutionFailsUnnoticed(h) ==
    /\ call[h].pc \in CrewCalls
    /\ Continue(h, Result(h, call[h].pc = "execute"))
    /\ UNCHANGED <<board, crew, decisions, cutOff, calls, crashes>>

(* The call fails without effect: the answer is an error, or there is none. *)
(* A chair with no registered run, or a client that is not configured,     *)
(* gives the same result without a call.                                   *)
CallFails(h) ==
    /\ call[h].pc \in CrewCalls
    /\ Continue(h, Result(h, FALSE))
    /\ UNCHANGED <<board, crew, decisions, cutOff, calls, crashes>>

With(st) == {a \in Approvals : approval[a].status = st}

(* Mutant: an approval is taken to be pending.                             *)
LoadRunUnchecked(h) ==
    /\ call[h].pc = "load"
    /\ Continue(h, [At(h, "bind") EXCEPT !.a = IF With("pending") = {} THEN 0
                                               ELSE Min(With("pending"))])
    /\ UNCHANGED <<board, crew, decisions, cutOff, calls, crashes>>

(* GET /api/runs/:run: the first pending approval, if there is one. *)
LoadRun(h) ==
    /\ call[h].pc = "load"
    /\ IF With("pending") = {}
       THEN Continue(h, At(h, "request"))
       ELSE Continue(h, [At(h, "bind") EXCEPT !.a = Min(With("pending"))])
    /\ UNCHANGED <<board, crew, decisions, cutOff, calls, crashes>>

(* POST /api/runs/:run/delegation-approvals: a fresh approval. *)
RequestApproval(h) ==
    /\ call[h].pc = "request"
    /\ With("unborn") # {}
    /\ LET a == Min(With("unborn"))
       IN  /\ approval' = [approval EXCEPT ![a].status = "pending"]
           /\ Answer(h, [At(h, "bind") EXCEPT !.a = a])
    /\ UNCHANGED <<board, children, decisions, cutOff, calls, crashes>>

(* Mutant: the answer to the proposal is not looked at.                    *)
CreateProposalUnchecked(h) ==
    /\ call[h].pc = "bind"
    /\ LET c == call[h]
       IN  /\ approval' = IF approval[c.a].act = {}
                          THEN [approval EXCEPT ![c.a].act = {c.snap[c.r].text}]
                          ELSE approval
           /\ Continue(h, Result(h, TRUE))
    /\ UNCHANGED <<board, children, decisions, cutOff, calls, crashes>>

(* POST /api/actions/proposals.  commons-crew refuses to bind an approval  *)
(* to a second act; the same act again, under the same idempotency key, is *)
(* the same proposal, whichever request it comes from.                     *)
CreateProposal(h) ==
    /\ call[h].pc = "bind"
    /\ LET c == call[h]
           act == {c.snap[c.r].text}
       IN  /\ approval[c.a].act \subseteq act
           /\ approval' = [approval EXCEPT ![c.a].act = act]
           /\ Answer(h, Result(h, TRUE))
    /\ UNCHANGED <<board, children, decisions, cutOff, calls, crashes>>

(* Mutant: the proposal is executed whatever became of the decision.       *)
RecordDecisionUnchecked(h) ==
    /\ call[h].pc = "decide"
    /\ LET c == call[h]
       IN  /\ approval' = IF approval[c.a].status = "pending"
                          THEN [approval EXCEPT ![c.a].status = c.d] ELSE approval
           /\ Continue(h, IF c.d = "denied" THEN Result(h, TRUE) ELSE At(h, "execute"))
    /\ UNCHANGED <<board, children, decisions, cutOff, calls, crashes>>

(* POST /api/approvals/:id/decision: refused unless the approval is        *)
(* pending.  A denial ends there.                                          *)
RecordDecision(h) ==
    /\ call[h].pc = "decide"
    /\ LET c == call[h]
       IN  /\ approval[c.a].status = "pending"
           /\ approval' = [approval EXCEPT ![c.a].status = c.d]
           /\ Answer(h, IF c.d = "denied" THEN Result(h, TRUE) ELSE At(h, "execute"))
    /\ UNCHANGED <<board, children, decisions, cutOff, calls, crashes>>

(* Mutant: a call that brings no answer is repeated.                       *)
ExecuteAgain(h) ==
    /\ call[h].pc = "execute"
    /\ children' = Append(children, call[h].a)
    /\ \/ Continue(h, At(h, "events"))
       \/ UNCHANGED call
    /\ UNCHANGED <<board, approval, decisions, cutOff, calls, crashes>>

(* POST /api/actions/:proposal/execute.  Nothing is assumed of when        *)
(* commons-crew agrees to execute a proposal.                              *)
Execute(h) ==
    /\ call[h].pc = "execute"
    /\ children' = Append(children, call[h].a)
    /\ Answer(h, At(h, "events"))
    /\ UNCHANGED <<board, approval, decisions, cutOff, calls, crashes>>

(* GET /api/runs/:run/events: the latest child, whosever it is. *)
ReadEvents(h) ==
    /\ call[h].pc = "events"
    /\ children # <<>>
    /\ Continue(h, [Result(h, TRUE) EXCEPT !.child = Last(children)])
    /\ UNCHANGED <<board, crew, decisions, cutOff, calls, crashes>>

-----------------------------------------------------------------------------
(* The rest of the handlers, after their awaits. *)
Hang(h) == [call EXCEPT ![h] = NoCall]

(* Mutant: the proposal of an automatic dispatch is not logged.            *)
EndProposalUnlogged(h) ==
    LET c == call[h]
        d == [st |-> IF c.ok THEN "awaiting" ELSE "unavailable",
              a |-> IF c.ok THEN c.a ELSE 0, child |-> 0]
    IN  /\ c.pc = "resume" /\ c.op \in {"patch", "dispatch"}
        /\ Save([c.snap EXCEPT ![c.r].dispatch = d], c.r,
                IF c.ok /\ c.op = "dispatch" THEN {Proposed(c.r, c.a, FALSE)} ELSE {},
                Hang(h))
        /\ UNCHANGED <<roadmaps, crew, decisions, calls>>

(* PATCH and dispatch-to-commons-crew: the dispatch awaits its decision,   *)
(* or is unavailable.                                                      *)
EndProposal(h) ==
    LET c == call[h]
        d == [st |-> IF c.ok THEN "awaiting" ELSE "unavailable",
              a |-> IF c.ok THEN c.a ELSE 0, child |-> 0]
    IN  /\ c.pc = "resume" /\ c.op \in {"patch", "dispatch"}
        /\ Save([c.snap EXCEPT ![c.r].dispatch = d], c.r,
                IF c.ok THEN {Proposed(c.r, c.a, c.op = "patch")} ELSE {}, Hang(h))
        /\ UNCHANGED <<roadmaps, crew, decisions, calls>>

(* The decision: nothing is written when it failed somewhere on the way. *)
EndDecision(h) ==
    LET c == call[h]
        d == [st |-> c.d, a |-> c.a, child |-> c.child]
    IN  /\ c.pc = "resume" /\ c.op = "decision"
        /\ IF c.ok
           THEN Save([c.snap EXCEPT ![c.r].dispatch = d], c.r,
                     {Decided(c.r, c.a, c.d)}, Hang(h))
           ELSE call' = Hang(h) /\ UNCHANGED <<list, log, cutOff, crashes>>
        /\ UNCHANGED <<roadmaps, crew, decisions, calls>>

Crash == Die /\ UNCHANGED <<board, crew, decisions, cutOff, calls>>

Next ==
    \/ \E r \in Requests : \/ Submit(r) \/ Patch(r) \/ Dispatch(r) \/ AddRoadmap(r)
                           \/ \E d \in {"approved", "denied"} : Decide(r, d)
    \/ \E h \in Handlers : \/ CallFails(h) \/ LoadRun(h) \/ RequestApproval(h)
                           \/ CreateProposal(h) \/ RecordDecision(h) \/ Execute(h)
                           \/ ReadEvents(h) \/ EndProposal(h) \/ EndDecision(h)
    \/ Crash

Spec == Init /\ [][Next]_vars

-----------------------------------------------------------------------------
(* Properties. *)

TypeOK ==
    /\ list \in Lists
    /\ roadmaps \in [Requests -> 0..MaxRoadmaps]
    /\ \A h \in Handlers :
         \/ call[h] = NoCall
         \/ /\ call[h].pc \in CrewCalls \cup {"resume"}
            /\ call[h].op \in {"patch", "dispatch", "decision"}
            /\ call[h].snap \in Lists
            /\ call[h].snap[call[h].r] # Absent
            /\ call[h].a = 0 => call[h].pc \in {"load", "request", "resume"}
    /\ approval \in [Approvals -> [status : {"unborn", "pending", "approved", "denied"},
                                   act : SUBSET Texts]]
    /\ \A i \in DOMAIN children : children[i] \in Approvals
    /\ decisions \subseteq Requests \X Texts \X Approvals \X {"approved", "denied"}
    /\ cutOff \subseteq Requests
    /\ calls \in 0..MaxCalls /\ crashes \in 0..MaxCrashes

(* Nothing executes until an operator decides: a proposal commons-crew     *)
(* executed is one that an operator approved, through the decision route   *)
(* and for a request of the very text the proposal was made for, and whose *)
(* approval commons-crew has on record; whatever calls failed, answers     *)
(* were lost, or operators decided at once (submitDispatchDecision).       *)
NothingExecutesUndecided ==
    \A a \in ToSet(children) :
        /\ approval[a].status = "approved"
        /\ \E r \in Requests : \E text \in approval[a].act :
              <<r, text, a, "approved">> \in decisions

(* One approval lets one child run start: two operators who decide at once *)
(* or one who decides again after a failure do not execute it twice.       *)
ExecutedOnce == IsInjective(children)

(* What an operator decides on is the work his request asks for: a         *)
(* dispatch that awaits a decision, in the file or in a handler's copy,    *)
(* names an approval that is bound to the text of that request and to no   *)
(* other.  (Another request of the same text may share the approval.)      *)
AwaitingIsItsOwn ==
    LET copies == {list} \cup {call[h].snap : h \in {h \in Handlers : call[h] # NoCall}}
    IN  \A l \in copies : \A r \in Requests :
          l[r] # Absent /\ l[r].dispatch.st = "awaiting"
            => approval[l[r].dispatch.a].act = {l[r].text}

(* The file never claims more than happened: a dispatch recorded as        *)
(* approved was executed, one recorded as denied was denied at             *)
(* commons-crew, and both were decided that way by an operator.            *)
RecordedDecisionsHappened ==
    \A r \in Requests :
        list[r] # Absent /\ list[r].dispatch.st \in {"approved", "denied"}
          => LET d == list[r].dispatch
             IN  /\ approval[d.a].status = d.st
                 /\ <<r, list[r].text, d.a, d.st>> \in decisions
                 /\ d.st = "approved" <=> d.a \in ToSet(children)

(* The decision log accounts for the dispatches: unless a crash came       *)
(* between a request's file and its log entry, a dispatch in the file was  *)
(* logged when it was proposed, and again when it was decided.             *)
LogExplainsDispatches ==
    \A r \in Requests \ cutOff :
        list[r] # Absent
          => LET d == list[r].dispatch
             IN  /\ d.a # 0 => \E auto \in BOOLEAN : Proposed(r, d.a, auto) \in log
                 /\ d.st \in {"approved", "denied"} => Decided(r, d.a, d.st) \in log

(* The version the request names as its latest roadmap exists, also after  *)
(* a crash in the middle of the handler.                                   *)
LatestRoadmapExists ==
    \A r \in Requests : list[r] # Absent => list[r].roadmap <= roadmaps[r]

(* What the files say of a request can be accounted for: by the log, and   *)
(* by the roadmaps on file.                                                *)
RequestsAreAccountedFor == LogExplainsDispatches /\ LatestRoadmapExists

(* isValidStatusTransition: a request's status changes only along the      *)
(* table, in which completed and rejected are final.  (The code does not   *)
(* guarantee it: see MCStatusTable.cfg.)                                   *)
StatusFollowsTable ==
    [][\A r \in Requests :
         list[r] # Absent /\ list'[r] # Absent /\ list'[r].status # list[r].status
           => isValidStatusTransition(list[r].status, list'[r].status)]_vars

(* "Requests that didn't opt in behave exactly as before": a proposal      *)
(* triggered by auto-dispatch is only logged for a request that opted in.  *)
(* (The code does not guarantee it: see MCAutoDispatch.cfg.)               *)
OnlyOptedInAreAutomatic ==
    [][\A r \in Requests, a \in Approvals :
         Proposed(r, a, TRUE) \in log' \ log => list'[r].auto]_vars
=============================================================================
