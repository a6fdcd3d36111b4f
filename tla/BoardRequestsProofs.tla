------------------------- MODULE BoardRequestsProofs -------------------------
(***************************************************************************)
(* Board requests and their dispatch (BoardRequests) for every set of      *)
(* requests, any number of handlers in flight, and every bound: whatever   *)
(* handlers overlap, whichever calls to commons-crew fail before or after  *)
(* they took effect, and wherever the process dies.                        *)
(***************************************************************************)
EXTENDS BoardRequests, WellFoundedInduction, SequenceTheorems, TLAPS

-----------------------------------------------------------------------------
(* The inductive invariant. *)

Dispatches == [st : {"none", "unavailable", "awaiting", "approved", "denied"},
               a : 0..MaxApprovals, child : 0..MaxApprovals]

Entries == [status : Statuses \cup {Empty}, text : Texts, auto : BOOLEAN, roadmap : 0..MaxRoadmaps,
            dispatch : Dispatches]

Verdicts == {"none", "approved", "denied"}

(* A handler in flight. *)
CallRecords ==
    [pc : CrewCalls \cup {"resume"}, op : {"patch", "dispatch", "decision"},
     r : Requests, snap : Lists, a : 0..MaxApprovals,
     d : Verdicts, child : 0..MaxApprovals, ok : BOOLEAN]

Types ==
    /\ list \in Lists
    /\ roadmaps \in [Requests -> 0..MaxRoadmaps]
    /\ call \in [Handlers -> {NoCall} \cup CallRecords]
    /\ approval \in [Approvals -> [status : {"unborn", "pending", "approved", "denied"},
                                   act : SUBSET Texts]]
    /\ children \in Seq(Approvals)
    /\ decisions \subseteq Requests \X Texts \X Approvals \X {"approved", "denied"}
    /\ cutOff \subseteq Requests
    /\ calls \in 0..MaxCalls /\ crashes \in 0..MaxCrashes

(* What an entry e of request r says of its dispatch is so, and explained  *)
(* by lg, the log, unless a crash cut the request off; its roadmap is one  *)
(* of the n on file.                                                       *)
Explained(e, r, lg, n) ==
    LET d == e.dispatch
    IN  /\ d.st \in {"none", "unavailable"} => d.a = 0
        /\ d.st = "awaiting" => d.a # 0 /\ approval[d.a].act = {e.text}
        /\ d.st \in {"approved", "denied"}
             => /\ d.a # 0
                /\ approval[d.a].status = d.st
                /\ <<r, e.text, d.a, d.st>> \in decisions
                /\ d.st = "approved" => d.a \in ToSet(children)
        /\ r \notin cutOff
             => /\ d.a # 0 => \E auto \in BOOLEAN : Proposed(r, d.a, auto) \in lg
                /\ d.st \in {"approved", "denied"} => Decided(r, d.a, d.st) \in lg
        /\ e.roadmap <= n

EntryHolds(e, r) == Explained(e, r, log, roadmaps[r])

(* It is so of the file and of every handler's copy of it, however old the *)
(* copy is, since nothing it says can be undone.                           *)
CopyHolds(l) == \A r \in Requests : l[r] # Absent => EntryHolds(l[r], r)

CopiesHold ==
    /\ CopyHolds(list)
    /\ \A h \in Handlers : call[h] # NoCall => CopyHolds(call[h].snap)

(* What a handler in flight has established at its place in the code. *)
HandlerHolds(c) ==
    /\ c.snap[c.r] # Absent
    /\ c.op # "decision" =>
         /\ c.pc \in {"load", "request", "bind", "resume"}
         /\ c.pc = "bind" => c.a # 0
         /\ c.pc = "resume" /\ c.ok => c.a # 0 /\ approval[c.a].act = {c.snap[c.r].text}
    /\ c.op = "decision" =>
         /\ c.pc \in {"decide", "execute", "events", "resume"}
         /\ c.a # 0 /\ c.a = c.snap[c.r].dispatch.a
         /\ approval[c.a].act = {c.snap[c.r].text}
         /\ <<c.r, c.snap[c.r].text, c.a, c.d>> \in decisions
         /\ c.pc \in {"execute", "events"} => c.d = "approved"
         /\ c.pc \in {"execute", "events"} \/ (c.pc = "resume" /\ c.ok)
              => approval[c.a].status = c.d
         /\ c.pc = "events" \/ (c.pc = "resume" /\ c.ok /\ c.d = "approved")
              => c.a \in ToSet(children)

HandlersHold == \A h \in Handlers : call[h] # NoCall => HandlerHolds(call[h])

(* A handler about to execute is the only one for its approval, and nobody *)
(* was before it.                                                          *)
Executing(h) == call[h].pc = "execute"

OneExecutes ==
    /\ \A h \in Handlers : Executing(h) => call[h].a \notin ToSet(children)
    /\ \A h, k \in Handlers :
         Executing(h) /\ Executing(k) /\ call[h].a = call[k].a => h = k

IInv ==
    /\ Types
    /\ CopiesHold
    /\ HandlersHold
    /\ OneExecutes
    /\ NothingExecutesUndecided
    /\ ExecutedOnce

-----------------------------------------------------------------------------
(* The operators of the model. *)

(* Min of a set of approvals is one of them. *)
LEMMA MinIsMember ==
    ASSUME NEW S, S \subseteq Nat, S # {}
    PROVE  Min(S) \in S
<1>1. PICK x \in S : \A y \in S : ~(<<y, x>> \in OpToRel(<, Nat))
  BY NatLessThanWellFounded, WFMin
<1>2. \A y \in S : x <= y
  <2> TAKE y \in S
  <2>1. x \in Nat /\ y \in Nat
    OBVIOUS
  <2>2. ~(<<y, x>> \in OpToRel(<, Nat))
    BY <1>1
  <2>3. ~(y < x)
    BY <2>1, <2>2 DEF OpToRel
  <2>4. QED
    BY <2>1, <2>3
<1>3. QED
  BY <1>2 DEF Min

(* What a handler in flight learns replaces fields of its record. *)
LEMMA Updates ==
    ASSUME NEW h \in Handlers, call[h] \in CallRecords
    PROVE  /\ \A p \in CrewCalls : At(h, p) \in CallRecords
           /\ \A n \in 0..MaxApprovals : [At(h, "bind") EXCEPT !.a = n] \in CallRecords
           /\ \A b \in BOOLEAN : Result(h, b) \in CallRecords
           /\ \A n \in 0..MaxApprovals, b \in BOOLEAN :
                [Result(h, b) EXCEPT !.child = n] \in CallRecords
  BY DEF At, Result, CallRecords, CrewCalls

(* A handler in flight is a record, and not the mark of an idle one. *)
LEMMA InFlight ==
    ASSUME Types, NEW h \in Handlers
    PROVE  /\ call[h] # NoCall => call[h] \in CallRecords
           /\ call[h] \in CallRecords => call[h] # NoCall
           /\ call[h].pc \in CrewCalls \cup {"resume"} => call[h] \in CallRecords
  BY DEF Types, CallRecords, NoCall, CrewCalls

LEMMA InitIInv == Init => IInv
<1> SUFFICES ASSUME Init
             PROVE  IInv
  OBVIOUS
<1> USE BoardAssumption DEF Init
<1>1. Types
  BY DEF Types, Lists, Absent, NoCall, Approvals
<1>2. CopiesHold
  BY DEF CopiesHold, CopyHolds
<1>3. HandlersHold /\ OneExecutes
  BY DEF HandlersHold, OneExecutes, Executing, NoCall
<1>4. NothingExecutesUndecided /\ ExecutedOnce
  BY DEF NothingExecutesUndecided, ExecutedOnce, ToSet, IsInjective
<1>5. QED
  BY <1>1, <1>2, <1>3, <1>4 DEF IInv

-----------------------------------------------------------------------------
(* What no step undoes: a binding, a decision, an execution, an entry of   *)
(* the log, a roadmap on file.                                             *)
Onward ==
    /\ \A a \in Approvals :
         /\ \A t \in Texts : approval[a].act = {t} => approval'[a].act = {t}
         /\ approval[a].status \in {"approved", "denied"}
              => approval'[a].status = approval[a].status
    /\ decisions \subseteq decisions'
    /\ ToSet(children) \subseteq ToSet(children')
    /\ log \subseteq log'
    /\ cutOff \subseteq cutOff'
    /\ \A r \in Requests : roadmaps[r] <= roadmaps'[r]

(* So what a copy of the file says stays true, *)
LEMMA CopiesKept ==
    ASSUME Types, Types', Onward
    PROVE  \A l \in Lists : CopyHolds(l) => CopyHolds(l)'
<1> SUFFICES ASSUME NEW l \in Lists, CopyHolds(l), NEW r \in Requests, l[r] # Absent
             PROVE  EntryHolds(l[r], r)'
  BY DEF CopyHolds
<1>1. EntryHolds(l[r], r)
  BY DEF CopyHolds
<1> DEFINE d == l[r].dispatch
<1>2. l[r] \in Entries /\ d \in Dispatches /\ l[r].text \in Texts
  BY DEF Lists, Entries, Dispatches
<1>3. d.a # 0 => d.a \in Approvals
  BY <1>2 DEF Dispatches, Approvals
<1>4. roadmaps[r] \in Nat /\ roadmaps'[r] \in Nat /\ l[r].roadmap \in Nat
  BY <1>2, BoardAssumption DEF Types, Entries
<1> HIDE DEF d
<1>5. /\ d.st \in {"none", "unavailable"} => d.a = 0
      /\ d.st = "awaiting" => d.a # 0 /\ approval'[d.a].act = {l[r].text}
      /\ d.st \in {"approved", "denied"}
             => /\ d.a # 0
                /\ approval'[d.a].status = d.st
                /\ <<r, l[r].text, d.a, d.st>> \in decisions'
                /\ d.st = "approved" => d.a \in ToSet(children')
  BY <1>1, <1>2, <1>3 DEF Onward, EntryHolds, Explained, d
<1>6. r \notin cutOff'
             => /\ d.a # 0 => \E auto \in BOOLEAN : Proposed(r, d.a, auto) \in log'
                /\ d.st \in {"approved", "denied"} => Decided(r, d.a, d.st) \in log'
  BY <1>1 DEF Onward, EntryHolds, Explained, d
<1>7. l[r].roadmap <= roadmaps'[r]
  BY <1>1, <1>4 DEF Onward, EntryHolds, Explained
<1>8. QED
  BY <1>5, <1>6, <1>7 DEF EntryHolds, Explained, d

(* and so does what a handler has established. *)
LEMMA HandlersKept ==
    ASSUME Types, Types', Onward
    PROVE  \A c \in CallRecords : HandlerHolds(c) => HandlerHolds(c)'
<1> SUFFICES ASSUME NEW c \in CallRecords, HandlerHolds(c)
             PROVE  HandlerHolds(c)'
  OBVIOUS
<1>1. c.r \in Requests /\ c.snap[c.r].text \in Texts /\ (c.a # 0 => c.a \in Approvals)
  BY DEF CallRecords, Approvals, Lists, HandlerHolds
<1>2. c.op = "decision" => c.d \in {"approved", "denied"}
  BY DEF HandlerHolds, Types
<1>3. QED
  BY <1>1, <1>2 DEF HandlerHolds, Onward

(* Copies: the file, or a handler's copy, is what it was or one that holds. *)
LEMMA CopiesCarry ==
    ASSUME Types, Types', Onward, CopiesHold,
           list' = list \/ CopyHolds(list)',
           \A h \in Handlers :
              call'[h] # NoCall =>
                \/ call'[h] = call[h]
                \/ call[h] # NoCall /\ call'[h].snap = call[h].snap
                \/ CopyHolds(call[h].snap)'
    PROVE  CopiesHold'
<1>1. CopyHolds(list)'
  <2>1. list \in Lists /\ CopyHolds(list)
    BY DEF Types, CopiesHold
  <2>2. CASE list' = list
    BY <2>1, <2>2, CopiesKept DEF CopyHolds, EntryHolds, Explained
  <2>3. QED
    BY <2>2
<1>2. ASSUME NEW h \in Handlers, call'[h] # NoCall
      PROVE  CopyHolds(call[h].snap)'
  <2>1. CASE call[h] # NoCall /\ call'[h].snap = call[h].snap
    <3>1. PICK l \in Lists : l = call[h].snap /\ CopyHolds(l)
      BY <2>1 DEF Types, CallRecords, CopiesHold
    <3>2. CopyHolds(l)'
      BY <3>1, CopiesKept
    <3>3. l = call'[h].snap
      BY <2>1, <3>1
    <3>4. QED
      BY <3>2, <3>3 DEF CopyHolds, EntryHolds, Explained
  <2>2. CASE call'[h] = call[h]
    BY <1>2, <2>1, <2>2
  <2>3. QED
    BY <1>2, <2>1, <2>2
<1>3. QED
  BY <1>1, <1>2 DEF CopiesHold

(* Handlers: one that did not move has established what it had. *)
LEMMA HandlersCarry ==
    ASSUME Types, Types', Onward, HandlersHold,
           \A h \in Handlers :
              call'[h] # NoCall => call'[h] = call[h] \/ HandlerHolds(call[h])'
    PROVE  HandlersHold'
<1> SUFFICES ASSUME NEW h \in Handlers, call'[h] # NoCall, call'[h] = call[h]
             PROVE  HandlerHolds(call[h])'
  BY DEF HandlersHold
<1>1. call[h] \in CallRecords /\ HandlerHolds(call[h])
  BY InFlight DEF HandlersHold
<1>2. QED
  BY <1>1, HandlersKept DEF HandlerHolds

(* A step in which commons-crew does nothing. *)
LEMMA QuietCrew ==
    ASSUME IInv, Types', UNCHANGED crew, decisions \subseteq decisions',
           \A h \in Handlers : Executing(h)' => call'[h] = call[h]
    PROVE  OneExecutes' /\ NothingExecutesUndecided' /\ ExecutedOnce'
<1>1. OneExecutes'
  BY DEF IInv, crew, OneExecutes, Executing
<1>2. NothingExecutesUndecided'
  BY DEF IInv, crew, NothingExecutesUndecided
<1>3. ExecutedOnce'
  BY DEF IInv, crew, ExecutedOnce
<1>4. QED
  BY <1>1, <1>2, <1>3

-----------------------------------------------------------------------------
(* The steps of a handler that waits for commons-crew: it keeps its copy,  *)
(* and the other handlers keep their places.                               *)
LEMMA Moves ==
    ASSUME Types, NEW h \in Handlers, call[h] \in CallRecords,
           NEW c \in CallRecords, Continue(h, c)
    PROVE  /\ call' \in [Handlers -> {NoCall} \cup CallRecords]
           /\ call'[h] = c
           /\ \A k \in Handlers \ {h} : call'[k] = call[k]
  BY DEF Types, Continue

LEMMA WaitingCarries ==
    ASSUME IInv, Types', Onward, NEW h \in Handlers, call[h] \in CallRecords,
           \A k \in Handlers \ {h} : call'[k] = call[k],
           list' = list, call'[h].snap = call[h].snap, HandlerHolds(call[h])'
    PROVE  CopiesHold' /\ HandlersHold'
<1>1. call[h] # NoCall
  BY InFlight DEF IInv
<1>2. \A k \in Handlers : k = h \/ call'[k] = call[k]
  OBVIOUS
<1>3. CopiesHold'
  BY <1>1, <1>2, CopiesCarry DEF IInv
<1>4. HandlersHold'
  BY <1>2, HandlersCarry DEF IInv
<1>5. QED
  BY <1>3, <1>4

(* A step that leaves commons-crew and the files alone undoes nothing. *)
LEMMA OnwardQuiet ==
    ASSUME Types, UNCHANGED crew, UNCHANGED roadmaps,
           decisions \subseteq decisions', log \subseteq log', cutOff \subseteq cutOff'
    PROVE  Onward
<1>1. \A r \in Requests : roadmaps[r] <= roadmaps'[r]
  BY BoardAssumption DEF Types
<1>2. QED
  BY <1>1 DEF Onward, crew

LEMMA CallFailsKeeps ==
    ASSUME IInv, NEW h \in Handlers, CallFails(h)
    PROVE  IInv'
<1>1. Types /\ call[h] \in CallRecords
  BY InFlight DEF IInv, CallFails
<1>2. PICK c \in CallRecords : c = Result(h, FALSE) /\ Continue(h, c)
  BY <1>1, Updates DEF CallFails
<1>3. /\ call' \in [Handlers -> {NoCall} \cup CallRecords]
      /\ call'[h] = c
      /\ \A k \in Handlers \ {h} : call'[k] = call[k]
  BY <1>1, <1>2, Moves
<1>4. /\ c.pc = "resume" /\ ~c.ok /\ c.a = call[h].a /\ c.d = call[h].d
      /\ c.op = call[h].op /\ c.r = call[h].r /\ c.snap = call[h].snap
  BY <1>1, <1>2 DEF Result, CallRecords
<1>5. Types' /\ Onward
  BY <1>1, <1>3, OnwardQuiet DEF Types, CallFails, board, crew
<1>6. HandlerHolds(call[h])'
  <2>1. HandlerHolds(call[h])
    BY <1>1, InFlight DEF IInv, HandlersHold
  <2>2. HandlerHolds(c)'
    BY <1>4, <2>1 DEF HandlerHolds, CallFails, crew
  <2>3. QED
    BY <1>3, <2>2 DEF HandlerHolds
<1>7. CopiesHold' /\ HandlersHold'
  BY <1>1, <1>3, <1>4, <1>5, <1>6, WaitingCarries DEF CallFails, board
<1>8. OneExecutes' /\ NothingExecutesUndecided' /\ ExecutedOnce'
  BY <1>1, <1>3, <1>4, <1>5, QuietCrew DEF CallFails, Executing
<1>9. QED
  BY <1>5, <1>7, <1>8 DEF IInv

LEMMA LoadRunKeeps ==
    ASSUME IInv, NEW h \in Handlers, LoadRun(h)
    PROVE  IInv'
<1>1. Types /\ call[h] \in CallRecords
  BY InFlight DEF IInv, LoadRun, CrewCalls
<1>2. PICK c \in CallRecords :
         /\ Continue(h, c)
         /\ \/ c = At(h, "request")
            \/ c = [At(h, "bind") EXCEPT !.a = c.a] /\ c.a # 0
  <2>1. CASE With("pending") = {}
    BY <1>1, <2>1, Updates DEF LoadRun, CrewCalls
  <2>2. CASE With("pending") # {}
    <3>1. Min(With("pending")) \in With("pending")
      BY <2>2, MinIsMember DEF With, Approvals
    <3>2. Min(With("pending")) \in 0..MaxApprovals /\ Min(With("pending")) # 0
      BY <3>1, BoardAssumption DEF With, Approvals
    <3> DEFINE n == Min(With("pending"))
               c == [At(h, "bind") EXCEPT !.a = n]
    <3>3. c \in CallRecords
      BY <1>1, <3>2, Updates
    <3>4. Continue(h, c)
      BY <2>2 DEF LoadRun
    <3> HIDE DEF n
    <3>5. c.a = n
      BY <1>1 DEF At, CallRecords
    <3>6. QED
      BY <3>2, <3>3, <3>4, <3>5 DEF n
  <2>3. QED
    BY <2>1, <2>2
<1>3. /\ call' \in [Handlers -> {NoCall} \cup CallRecords]
      /\ call'[h] = c
      /\ \A k \in Handlers \ {h} : call'[k] = call[k]
  BY <1>1, <1>2, Moves
<1>4. /\ c.pc = "request" \/ (c.pc = "bind" /\ c.a # 0)
      /\ c.op = call[h].op /\ c.r = call[h].r /\ c.snap = call[h].snap
  BY <1>1, <1>2 DEF At, CallRecords
<1>5. Types' /\ Onward
  BY <1>1, <1>3, OnwardQuiet DEF Types, LoadRun, board, crew
<1>6. HandlerHolds(call[h])'
  BY <1>1, <1>3, <1>4, InFlight DEF IInv, HandlersHold, HandlerHolds, LoadRun
<1>7. CopiesHold' /\ HandlersHold'
  BY <1>1, <1>3, <1>4, <1>5, <1>6, WaitingCarries DEF LoadRun, board
<1>8. OneExecutes' /\ NothingExecutesUndecided' /\ ExecutedOnce'
  BY <1>1, <1>3, <1>4, <1>5, QuietCrew DEF LoadRun, Executing
<1>9. QED
  BY <1>5, <1>7, <1>8 DEF IInv

LEMMA ReadEventsKeeps ==
    ASSUME IInv, NEW h \in Handlers, ReadEvents(h)
    PROVE  IInv'
<1> DEFINE n == Last(children)
           c == [Result(h, TRUE) EXCEPT !.child = n]
<1>1. Types /\ call[h] \in CallRecords
  BY InFlight DEF IInv, ReadEvents, CrewCalls
<1>2. c \in CallRecords
  <2>1. n \in Approvals
    BY <1>1, LenProperties, EmptySeq DEF Types, ReadEvents, Last
  <2>2. n \in 0..MaxApprovals
    BY <2>1, BoardAssumption DEF Approvals
  <2> HIDE DEF n
  <2>3. QED
    BY <1>1, <2>2, Updates
<1>3. /\ call' \in [Handlers -> {NoCall} \cup CallRecords]
      /\ call'[h] = c
      /\ \A k \in Handlers \ {h} : call'[k] = call[k]
  BY <1>1, <1>2, Moves DEF ReadEvents
<1>4. /\ c.pc = "resume" /\ c.a = call[h].a /\ c.d = call[h].d
      /\ c.op = call[h].op /\ c.r = call[h].r /\ c.snap = call[h].snap
  BY <1>1, <1>2 DEF Result, CallRecords
<1> HIDE DEF c
<1>5. Types' /\ Onward
  BY <1>1, <1>3, OnwardQuiet DEF Types, ReadEvents, board, crew
<1>6. HandlerHolds(call[h])'
  BY <1>1, <1>3, <1>4, InFlight
     DEF IInv, HandlersHold, HandlerHolds, ReadEvents, board, crew
<1>7. CopiesHold' /\ HandlersHold'
  BY <1>1, <1>3, <1>4, <1>5, <1>6, WaitingCarries DEF ReadEvents, board
<1>8. OneExecutes' /\ NothingExecutesUndecided' /\ ExecutedOnce'
  BY <1>1, <1>3, <1>4, <1>5, QuietCrew DEF ReadEvents, Executing
<1>9. QED
  BY <1>5, <1>7, <1>8 DEF IInv

LEMMA RequestApprovalKeeps ==
    ASSUME IInv, NEW h \in Handlers, RequestApproval(h)
    PROVE  IInv'
<1> DEFINE a == Min(With("unborn"))
<1>1. Types /\ call[h] \in CallRecords
  BY InFlight DEF IInv, RequestApproval, CrewCalls
<1>2. a \in Approvals /\ approval[a].status = "unborn" /\ a \in 0..MaxApprovals /\ a # 0
  BY MinIsMember, BoardAssumption DEF With, Approvals, RequestApproval
<1>3. PICK c \in CallRecords :
         /\ Continue(h, c)
         /\ \/ c = [At(h, "bind") EXCEPT !.a = a]
            \/ c = Result(h, FALSE)
  BY <1>1, <1>2, Updates DEF RequestApproval, Answer
<1>4. approval' = [approval EXCEPT ![a].status = "pending"]
  BY DEF RequestApproval
<1> HIDE DEF a
<1>5. /\ call' \in [Handlers -> {NoCall} \cup CallRecords]
      /\ call'[h] = c
      /\ \A k \in Handlers \ {h} : call'[k] = call[k]
  BY <1>1, <1>3, Moves
<1>6. /\ (c.pc = "bind" /\ c.a # 0) \/ (c.pc = "resume" /\ ~c.ok)
      /\ c.op = call[h].op /\ c.r = call[h].r /\ c.snap = call[h].snap
  BY <1>1, <1>2, <1>3 DEF At, Result, CallRecords
<1>7. \A b \in Approvals : /\ approval'[b].act = approval[b].act
                           /\ b # a => approval'[b] = approval[b]
  BY <1>1, <1>2, <1>4 DEF Types
<1>8. Types' /\ Onward
  <2>1. approval' \in [Approvals -> [status : {"unborn", "pending", "approved", "denied"},
                                     act : SUBSET Texts]]
    BY <1>1, <1>4 DEF Types
  <2>2. Types'
    BY <1>1, <1>5, <2>1 DEF Types, RequestApproval, board
  <2>3. \A r \in Requests : roadmaps[r] <= roadmaps'[r]
    BY <1>1, BoardAssumption DEF Types, RequestApproval, board
  <2>4. QED
    BY <1>2, <1>7, <2>2, <2>3 DEF Onward, RequestApproval, board
<1>9. HandlerHolds(call[h])'
  BY <1>1, <1>5, <1>6, InFlight DEF IInv, HandlersHold, HandlerHolds, RequestApproval
<1>10. CopiesHold' /\ HandlersHold'
  BY <1>1, <1>5, <1>6, <1>8, <1>9, WaitingCarries DEF RequestApproval, board
<1>11. OneExecutes'
  BY <1>5, <1>6 DEF IInv, OneExecutes, Executing, RequestApproval
<1>12. NothingExecutesUndecided' /\ ExecutedOnce'
  <2>1. a \notin ToSet(children)
    BY <1>2 DEF IInv, NothingExecutesUndecided
  <2>2. ToSet(children) \subseteq Approvals
    BY <1>1, LenProperties DEF Types, ToSet
  <2>3. QED
    BY <1>7, <2>1, <2>2 DEF IInv, NothingExecutesUndecided, ExecutedOnce, RequestApproval
<1>13. QED
  BY <1>8, <1>10, <1>11, <1>12 DEF IInv

LEMMA CreateProposalKeeps ==
    ASSUME IInv, NEW h \in Handlers, CreateProposal(h)
    PROVE  IInv'
<1> DEFINE a == call[h].a
           t == call[h].snap[call[h].r].text
<1>1. Types /\ call[h] \in CallRecords
  BY InFlight DEF IInv, CreateProposal, CrewCalls
<1>2. call[h].op # "decision" /\ a \in Approvals /\ t \in Texts
  <2>1. HandlerHolds(call[h]) /\ call[h].pc = "bind"
    BY <1>1, InFlight DEF IInv, HandlersHold, CreateProposal
  <2>2. QED
    BY <1>1, <2>1 DEF HandlerHolds, CallRecords, Approvals, Lists
<1>3. PICK c \in CallRecords :
         /\ Continue(h, c)
         /\ c = Result(h, TRUE) \/ c = Result(h, FALSE)
  BY <1>1, Updates DEF CreateProposal, Answer
<1>4. approval[a].act \subseteq {t} /\ approval' = [approval EXCEPT ![a].act = {t}]
  BY DEF CreateProposal
<1>5. /\ call' \in [Handlers -> {NoCall} \cup CallRecords]
      /\ call'[h] = c
      /\ \A k \in Handlers \ {h} : call'[k] = call[k]
  BY <1>1, <1>3, Moves
<1>6. /\ c.pc = "resume" /\ c.a = a
      /\ c.op = call[h].op /\ c.r = call[h].r /\ c.snap = call[h].snap /\ c.snap[c.r].text = t
  BY <1>1, <1>3 DEF Result, CallRecords
<1> HIDE DEF a, t
<1>7. /\ approval'[a].act = {t}
      /\ \A b \in Approvals : /\ approval'[b].status = approval[b].status
                              /\ b # a => approval'[b] = approval[b]
  BY <1>1, <1>2, <1>4 DEF Types
<1>8. Types' /\ Onward
  <2>1. approval' \in [Approvals -> [status : {"unborn", "pending", "approved", "denied"},
                                     act : SUBSET Texts]]
    BY <1>1, <1>2, <1>4 DEF Types
  <2>2. Types'
    BY <1>1, <1>5, <2>1 DEF Types, CreateProposal, board
  <2>3. \A q \in Requests : roadmaps[q] <= roadmaps'[q]
    BY <1>1, BoardAssumption DEF Types, CreateProposal, board
  <2>4. \A b \in Approvals : \A q \in Texts :
           approval[b].act = {q} => approval'[b].act = {q}
    BY <1>2, <1>4, <1>7
  <2>5. QED
    BY <1>7, <2>2, <2>3, <2>4 DEF Onward, CreateProposal, board
<1>9. HandlerHolds(call[h])'
  <2>1. a # 0
    BY <1>2 DEF Approvals
  <2>2. HandlerHolds(call[h])
    BY <1>1, InFlight DEF IInv, HandlersHold
  <2>3. c.snap[c.r] # Absent /\ c.op # "decision"
    BY <1>2, <1>6, <2>2 DEF HandlerHolds
  <2>4. HandlerHolds(c)'
    BY <1>6, <1>7, <2>1, <2>3 DEF HandlerHolds
  <2>5. QED
    BY <1>5, <2>4 DEF HandlerHolds
<1>10. CopiesHold' /\ HandlersHold'
  BY <1>1, <1>5, <1>6, <1>8, <1>9, WaitingCarries DEF CreateProposal, board
<1>11. OneExecutes'
  BY <1>5, <1>6 DEF IInv, OneExecutes, Executing, CreateProposal
<1>12. NothingExecutesUndecided' /\ ExecutedOnce'
  <2>1. ToSet(children) \subseteq Approvals
    BY <1>1, LenProperties DEF Types, ToSet
  <2>2. approval[a].act \subseteq approval'[a].act
    BY <1>4, <1>7
  <2>3. QED
    BY <1>7, <2>1, <2>2 DEF IInv, NothingExecutesUndecided, ExecutedOnce, CreateProposal
<1>13. QED
  BY <1>8, <1>10, <1>11, <1>12 DEF IInv

LEMMA RecordDecisionKeeps ==
    ASSUME IInv, NEW h \in Handlers, RecordDecision(h)
    PROVE  IInv'
<1> DEFINE a == call[h].a
           d == call[h].d
<1>1. Types /\ call[h] \in CallRecords
  BY InFlight DEF IInv, RecordDecision, CrewCalls
<1>2. HandlerHolds(call[h]) /\ call[h].pc = "decide"
  BY <1>1, InFlight DEF IInv, HandlersHold, RecordDecision
<1>3. call[h].op = "decision" /\ a \in Approvals /\ d \in {"approved", "denied"}
  BY <1>1, <1>2 DEF HandlerHolds, CallRecords, Approvals, Types
<1>4. PICK c \in CallRecords :
         /\ Continue(h, c)
         /\ \/ c = Result(h, TRUE) /\ d = "denied"
            \/ c = At(h, "execute") /\ d # "denied"
            \/ c = Result(h, FALSE)
  <2>1. /\ Result(h, TRUE) \in CallRecords /\ Result(h, FALSE) \in CallRecords
        /\ At(h, "execute") \in CallRecords
    BY <1>1, Updates DEF CrewCalls
  <2>2. CASE d = "denied"
    BY <2>1, <2>2 DEF RecordDecision, Answer
  <2>3. CASE d # "denied"
    BY <2>1, <2>3 DEF RecordDecision, Answer
  <2>4. QED
    BY <2>2, <2>3
<1>5. approval[a].status = "pending" /\ approval' = [approval EXCEPT ![a].status = d]
  BY DEF RecordDecision
<1>6. /\ call' \in [Handlers -> {NoCall} \cup CallRecords]
      /\ call'[h] = c
      /\ \A k \in Handlers \ {h} : call'[k] = call[k]
  BY <1>1, <1>4, Moves
<1>7. /\ \/ c.pc = "resume" /\ c.ok /\ d = "denied"
         \/ c.pc = "execute" /\ d = "approved"
         \/ c.pc = "resume" /\ ~c.ok
      /\ c.op = "decision" /\ c.a = a /\ c.d = d
      /\ c.r = call[h].r /\ c.snap = call[h].snap
  BY <1>1, <1>3, <1>4 DEF At, Result, CallRecords
<1> HIDE DEF a, d
<1>8. /\ approval'[a].status = d
      /\ \A b \in Approvals : /\ approval'[b].act = approval[b].act
                              /\ b # a => approval'[b] = approval[b]
  BY <1>1, <1>3, <1>5 DEF Types
<1>9. Types' /\ Onward
  <2>1. approval' \in [Approvals -> [status : {"unborn", "pending", "approved", "denied"},
                                     act : SUBSET Texts]]
    BY <1>1, <1>3, <1>5 DEF Types
  <2>2. Types'
    BY <1>1, <1>6, <2>1 DEF Types, RecordDecision, board
  <2>3. \A q \in Requests : roadmaps[q] <= roadmaps'[q]
    BY <1>1, BoardAssumption DEF Types, RecordDecision, board
  <2>4. QED
    BY <1>5, <1>8, <2>2, <2>3 DEF Onward, RecordDecision, board
<1>10. HandlerHolds(call[h])'
  <2>1. /\ c.snap[c.r] # Absent /\ c.a # 0 /\ c.a = c.snap[c.r].dispatch.a
        /\ approval[a].act = {c.snap[c.r].text} /\ <<c.r, c.snap[c.r].text, a, d>> \in decisions
    BY <1>2, <1>3, <1>7 DEF HandlerHolds, a, d
  <2>2. /\ approval'[c.a].act = {c.snap[c.r].text}
        /\ <<c.r, c.snap[c.r].text, c.a, c.d>> \in decisions'
    BY <1>3, <1>7, <1>8, <2>1 DEF RecordDecision
  <2>3. approval'[c.a].status = c.d
    BY <1>7, <1>8
  <2>4. HandlerHolds(c)'
    BY <1>7, <2>1, <2>2, <2>3 DEF HandlerHolds
  <2>5. QED
    BY <1>6, <2>4 DEF HandlerHolds
<1>11. CopiesHold' /\ HandlersHold'
  BY <1>1, <1>6, <1>7, <1>9, <1>10, WaitingCarries DEF RecordDecision, board
<1>12. a \notin ToSet(children)
  BY <1>5 DEF IInv, NothingExecutesUndecided
<1>13. OneExecutes'
  <2>1. ASSUME NEW k \in Handlers \ {h}, Executing(k)'
        PROVE  call'[k].a # a
    <3>1. call[k] \in CallRecords /\ call[k].pc = "execute" /\ call'[k] = call[k]
      BY <1>1, <1>6, <2>1, InFlight DEF Executing, CrewCalls
    <3>2. approval[call[k].a].status = "approved"
      <4>1. HandlerHolds(call[k])
        BY <1>1, <3>1, InFlight DEF IInv, HandlersHold
      <4>2. call[k].op = "decision" /\ call[k].d = "approved"
        BY <3>1, <4>1 DEF HandlerHolds
      <4>3. QED
        BY <3>1, <4>1, <4>2 DEF HandlerHolds
    <3>3. QED
      BY <1>5, <3>1, <3>2
  <2>2. ASSUME NEW k \in Handlers, Executing(k)'
        PROVE  call'[k].a \notin ToSet(children')
    <3>1. CASE k = h
      BY <1>6, <1>7, <1>12, <3>1 DEF RecordDecision
    <3>2. CASE k # h
      BY <1>6, <2>2, <3>2 DEF IInv, OneExecutes, Executing, RecordDecision
    <3>3. QED
      BY <3>1, <3>2
  <2>3. ASSUME NEW k \in Handlers, NEW m \in Handlers, Executing(k)', Executing(m)',
               call'[k].a = call'[m].a
        PROVE  k = m
    <3>1. CASE k = h \/ m = h
      BY <1>6, <1>7, <2>1, <2>3, <3>1
    <3>2. CASE k # h /\ m # h
      BY <1>6, <2>3, <3>2 DEF IInv, OneExecutes, Executing
    <3>3. QED
      BY <3>1, <3>2
  <2>4. QED
    BY <2>2, <2>3 DEF OneExecutes
<1>14. NothingExecutesUndecided' /\ ExecutedOnce'
  <2>1. ToSet(children) \subseteq Approvals
    BY <1>1, LenProperties DEF Types, ToSet
  <2>2. QED
    BY <1>8, <1>12, <2>1 DEF IInv, NothingExecutesUndecided, ExecutedOnce, RecordDecision
<1>15. QED
  BY <1>9, <1>11, <1>13, <1>14 DEF IInv

LEMMA ExecuteKeeps ==
    ASSUME IInv, NEW h \in Handlers, Execute(h)
    PROVE  IInv'
<1> DEFINE a == call[h].a
           n == Len(children)
<1>1. Types /\ call[h] \in CallRecords
  BY InFlight DEF IInv, Execute, CrewCalls
<1>2. HandlerHolds(call[h]) /\ call[h].pc = "execute"
  BY <1>1, InFlight DEF IInv, HandlersHold, Execute
<1>3. /\ call[h].op = "decision" /\ call[h].d = "approved"
      /\ a \in Approvals /\ call[h].r \in Requests
      /\ approval[a].status = "approved" /\ approval[a].act = {call[h].snap[call[h].r].text}
      /\ <<call[h].r, call[h].snap[call[h].r].text, a, "approved">> \in decisions
  BY <1>1, <1>2 DEF HandlerHolds, CallRecords, Approvals
<1>4. PICK c \in CallRecords :
         /\ Continue(h, c)
         /\ c = At(h, "events") \/ c = Result(h, FALSE)
  BY <1>1, Updates DEF Execute, Answer, CrewCalls
<1>5. /\ call' \in [Handlers -> {NoCall} \cup CallRecords]
      /\ call'[h] = c
      /\ \A k \in Handlers \ {h} : call'[k] = call[k]
  BY <1>1, <1>4, Moves
<1>6. /\ c.pc = "events" \/ (c.pc = "resume" /\ ~c.ok)
      /\ c.op = "decision" /\ c.a = a /\ c.d = "approved"
      /\ c.r = call[h].r /\ c.snap = call[h].snap
  BY <1>1, <1>3, <1>4 DEF At, Result, CallRecords
<1>7. /\ n \in Nat /\ DOMAIN children = 1..n
      /\ children' \in Seq(Approvals) /\ DOMAIN children' = 1..(n + 1)
      /\ children'[n + 1] = a /\ \A i \in 1..n : children'[i] = children[i]
  BY <1>1, <1>3, LenProperties, AppendProperties DEF Types, Execute
<1> HIDE DEF n
<1>8. /\ \A i \in 1..(n + 1) : i = n + 1 \/ i \in 1..n
      /\ n + 1 \in 1..(n + 1) /\ \A i \in 1..n : i \in 1..(n + 1)
  BY <1>7
<1>9. ToSet(children') = ToSet(children) \cup {a}
  BY <1>7, <1>8 DEF ToSet
<1>10. a \notin ToSet(children)
  BY <1>2 DEF IInv, OneExecutes, Executing
<1>11. Types' /\ Onward
  <2>1. Types'
    BY <1>1, <1>5, <1>7 DEF Types, Execute, board
  <2>2. \A q \in Requests : roadmaps[q] <= roadmaps'[q]
    BY <1>1, BoardAssumption DEF Types, Execute, board
  <2>3. QED
    BY <1>9, <2>1, <2>2 DEF Onward, Execute, board
<1>12. HandlerHolds(call[h])'
  <2>1. /\ c.snap[c.r] # Absent /\ c.a # 0 /\ c.a = c.snap[c.r].dispatch.a
    BY <1>2, <1>3, <1>6 DEF HandlerHolds
  <2>2. HandlerHolds(c)'
    BY <1>3, <1>6, <1>9, <2>1 DEF HandlerHolds, Execute
  <2>3. QED
    BY <1>5, <2>2 DEF HandlerHolds
<1>13. CopiesHold' /\ HandlersHold'
  BY <1>1, <1>5, <1>6, <1>11, <1>12, WaitingCarries DEF Execute, board
<1>14. OneExecutes'
  <2>1. ASSUME NEW k \in Handlers, Executing(k)'
        PROVE  k # h /\ call'[k] = call[k] /\ Executing(k)
    BY <1>5, <1>6, <2>1 DEF Executing
  <2>2. ASSUME NEW k \in Handlers, Executing(k)'
        PROVE  call'[k].a \notin ToSet(children')
    BY <1>2, <1>9, <2>1, <2>2 DEF IInv, OneExecutes, Executing
  <2>3. QED
    BY <2>1, <2>2 DEF IInv, OneExecutes
<1>15. NothingExecutesUndecided'
  BY <1>3, <1>9 DEF IInv, NothingExecutesUndecided, Execute
<1>16. ExecutedOnce'
  <2>1. \A i \in 1..n : children[i] # a
    BY <1>7, <1>10 DEF ToSet
  <2>2. \A i, j \in 1..n : children[i] = children[j] => i = j
    BY <1>7 DEF IInv, ExecutedOnce, IsInjective
  <2>3. \A i, j \in 1..(n + 1) : children'[i] = children'[j] => i = j
    BY <1>7, <1>8, <2>1, <2>2
  <2>4. QED
    BY <1>7, <2>3 DEF ExecutedOnce, IsInjective
<1>17. QED
  BY <1>11, <1>13, <1>14, <1>15, <1>16 DEF IInv

-----------------------------------------------------------------------------
(* The steps of the routes.  A handler that ends writes back the copy l it *)
(* holds, changed in the entry of its own request: the entry is explained  *)
(* by the log with the handler's events, or the process dies in between    *)
(* and cuts the request off.                                               *)
LEMMA SaveKeeps ==
    ASSUME IInv, NEW l \in Lists, CopyHolds(l), NEW r \in Requests, NEW e \in Entries,
           NEW events,
           NEW rest \in [Handlers -> {NoCall} \cup CallRecords],
           \A h \in Handlers : rest[h] \in {call[h], NoCall},
           Save([l EXCEPT ![r] = e], r, events, rest),
           UNCHANGED <<crew, decisions>>, calls' \in 0..MaxCalls,
           roadmaps' \in [Requests -> 0..MaxRoadmaps],
           \A q \in Requests : roadmaps[q] <= roadmaps'[q],
           Explained(e, r, log \cup events, roadmaps'[r])
    PROVE  IInv'
<1>1. Types
  BY DEF IInv
<1>2. /\ list' = [l EXCEPT ![r] = e]
      /\ \/ log' = log \cup events /\ call' = rest /\ UNCHANGED <<cutOff, crashes>>
         \/ /\ log' = log /\ cutOff' = cutOff \cup {r}
            /\ call' = [h \in Handlers |-> NoCall] /\ crashes' \in 0..MaxCrashes
  BY <1>1, BoardAssumption DEF Save, Die, Types
<1>3. /\ call' \in [Handlers -> {NoCall} \cup CallRecords]
      /\ \A h \in Handlers : call'[h] \in {call[h], NoCall}
  BY <1>2
<1>4. list' \in Lists
  BY <1>2 DEF Lists, Entries, Dispatches
<1>5. Types'
  <2>1. cutOff' \subseteq Requests /\ crashes' \in 0..MaxCrashes
    BY <1>1, <1>2 DEF Types
  <2>2. QED
    BY <1>1, <1>3, <1>4, <2>1 DEF Types, crew
<1>6. Onward
  BY <1>1, <1>2 DEF Onward, crew
<1>7. CopyHolds(list)'
  <2>1. CopyHolds(l)'
    BY <1>1, <1>5, <1>6, CopiesKept
  <2>2. EntryHolds(e, r)'
    <3>1. CASE log' = log \cup events /\ cutOff' = cutOff
      BY <3>1 DEF EntryHolds, Explained, crew
    <3>2. CASE cutOff' = cutOff \cup {r}
      BY <3>2 DEF EntryHolds, Explained, crew
    <3>3. QED
      BY <1>2, <3>1, <3>2
  <2>3. SUFFICES ASSUME NEW q \in Requests, list'[q] # Absent
                 PROVE  EntryHolds(list[q], q)'
    BY DEF CopyHolds
  <2>4. CASE q = r
    <3>1. list'[q] = e
      BY <1>2, <2>4 DEF Lists
    <3>2. QED
      BY <2>2, <2>4, <3>1 DEF EntryHolds, Explained
  <2>5. CASE q # r
    <3>1. list'[q] = l[q]
      BY <1>2, <2>5 DEF Lists
    <3>2. EntryHolds(l[q], q)'
      BY <2>1, <2>3, <3>1 DEF CopyHolds
    <3>3. QED
      BY <3>1, <3>2 DEF EntryHolds, Explained
  <2>6. QED
    BY <2>4, <2>5
<1>8. CopiesHold' /\ HandlersHold'
  <2>1. \A h \in Handlers : call'[h] # NoCall => call'[h] = call[h]
    BY <1>3
  <2>2. QED
    BY <1>1, <1>5, <1>6, <1>7, <2>1, CopiesCarry, HandlersCarry DEF IInv
<1>9. OneExecutes' /\ NothingExecutesUndecided' /\ ExecutedOnce'
  <2>1. \A h \in Handlers : Executing(h)' => call'[h] = call[h]
    BY <1>3 DEF Executing, NoCall
  <2>2. QED
    BY <1>5, <2>1, QuietCrew
<1>10. QED
  BY <1>5, <1>8, <1>9 DEF IInv

(* A handler that goes to wait keeps a copy that holds. *)
LEMMA AwaitKeeps ==
    ASSUME IInv, NEW pc \in {"load", "decide"}, NEW op \in {"patch", "dispatch", "decision"},
           NEW r \in Requests, NEW snap \in Lists, NEW a \in 0..MaxApprovals,
           NEW d \in Verdicts,
           Await(pc, op, r, snap, a, d),
           UNCHANGED <<crew, roadmaps>>, calls' \in 0..MaxCalls,
           decisions \subseteq decisions',
           decisions' \subseteq Requests \X Texts \X Approvals \X {"approved", "denied"},
           CopyHolds(snap), snap[r] # Absent,
           \/ pc = "load" /\ op # "decision"
           \/ /\ pc = "decide" /\ op = "decision"
              /\ a # 0 /\ a = snap[r].dispatch.a /\ approval[a].act = {snap[r].text}
              /\ <<r, snap[r].text, a, d>> \in decisions'
    PROVE  IInv'
<1> DEFINE c == [pc |-> pc, op |-> op, r |-> r, snap |-> snap, a |-> a,
                 d |-> d, child |-> 0, ok |-> FALSE]
<1>1. Types
  BY DEF IInv
<1>2. PICK h \in Handlers : call[h] = NoCall /\ call' = [call EXCEPT ![h] = c]
  BY DEF Await
<1>3. UNCHANGED <<list, log, cutOff, crashes>>
  BY DEF Await
<1>4. c \in CallRecords
  BY BoardAssumption DEF CallRecords, CrewCalls
<1>5. /\ call' \in [Handlers -> {NoCall} \cup CallRecords]
      /\ call'[h] = c
      /\ \A k \in Handlers \ {h} : call'[k] = call[k]
  BY <1>1, <1>2, <1>4 DEF Types
<1>6. Types'
  BY <1>1, <1>3, <1>5 DEF Types, crew
<1>7. Onward
  BY <1>1, <1>3, OnwardQuiet
<1>8. CopyHolds(snap)' /\ HandlerHolds(c)'
  <2>1. CopyHolds(snap)'
    BY <1>1, <1>6, <1>7, CopiesKept
  <2>2. HandlerHolds(c)'
    BY DEF HandlerHolds, crew
  <2>3. QED
    BY <2>1, <2>2
<1>9. CopyHolds(call[h].snap)' /\ HandlerHolds(call[h])'
  <2>1. CopyHolds(call[h].snap)'
    BY <1>5, <1>8 DEF CopyHolds, EntryHolds, Explained
  <2>2. HandlerHolds(call[h])'
    BY <1>5, <1>8 DEF HandlerHolds
  <2>3. QED
    BY <2>1, <2>2
<1>10. CopiesHold' /\ HandlersHold'
  <2>1. \A k \in Handlers : k = h \/ call'[k] = call[k]
    BY <1>5
  <2>2. CopiesHold'
    BY <1>1, <1>3, <1>6, <1>7, <1>9, <2>1, CopiesCarry DEF IInv
  <2>3. HandlersHold'
    BY <1>1, <1>6, <1>7, <1>9, <2>1, HandlersCarry DEF IInv
  <2>4. QED
    BY <2>2, <2>3
<1>11. OneExecutes' /\ NothingExecutesUndecided' /\ ExecutedOnce'
  <2>1. \A k \in Handlers : Executing(k)' => call'[k] = call[k]
    BY <1>5 DEF Executing
  <2>2. QED
    BY <1>6, <2>1, QuietCrew
<1>12. QED
  BY <1>6, <1>10, <1>11 DEF IInv

(* A crash forgets the handlers, and the files stay as they were. *)
LEMMA DieKeeps ==
    ASSUME IInv, Die, UNCHANGED <<list, log, cutOff, crew, decisions>>,
           calls' \in 0..MaxCalls, roadmaps' \in [Requests -> 0..MaxRoadmaps],
           \A q \in Requests : roadmaps[q] <= roadmaps'[q]
    PROVE  IInv'
<1>1. Types
  BY DEF IInv
<1>2. call' = [h \in Handlers |-> NoCall] /\ crashes' \in 0..MaxCrashes
  BY <1>1, BoardAssumption DEF Die, Types
<1>3. Types' /\ Onward
  BY <1>1, <1>2 DEF Types, Onward, crew
<1>4. CopiesHold' /\ HandlersHold'
  BY <1>1, <1>2, <1>3, CopiesCarry, HandlersCarry DEF IInv
<1>5. OneExecutes' /\ NothingExecutesUndecided' /\ ExecutedOnce'
  <2>1. \A h \in Handlers : ~Executing(h)'
    BY <1>2 DEF Executing, NoCall
  <2>2. QED
    BY <1>3, <2>1, QuietCrew
<1>6. QED
  BY <1>3, <1>4, <1>5 DEF IInv

LEMMA SubmitKeeps ==
    ASSUME IInv, NEW r \in Requests, Submit(r)
    PROVE  IInv'
<1>1. Types /\ CopyHolds(list)
  BY DEF IInv, CopiesHold
<1>2. PICK text \in Texts, auto \in BOOLEAN :
         Save([list EXCEPT ![r] = [status |-> "submitted", text |-> text, auto |-> auto,
                                   roadmap |-> 0, dispatch |-> NoDispatch]],
              r, {Submitted(r)}, call)
  BY DEF Submit
<1> DEFINE e == [status |-> "submitted", text |-> text, auto |-> auto, roadmap |-> 0,
                 dispatch |-> NoDispatch]
<1>3. e \in Entries
  BY BoardAssumption DEF Entries, Dispatches, NoDispatch, Statuses
<1>4. Explained(e, r, log \cup {Submitted(r)}, roadmaps'[r])
  BY <1>1, BoardAssumption DEF Explained, NoDispatch, Submit, Types
<1>5. /\ UNCHANGED <<crew, decisions>> /\ calls' \in 0..MaxCalls
      /\ roadmaps' \in [Requests -> 0..MaxRoadmaps]
      /\ \A q \in Requests : roadmaps[q] <= roadmaps'[q]
      /\ call \in [Handlers -> {NoCall} \cup CallRecords] /\ list \in Lists
  BY <1>1, BoardAssumption DEF Submit, Types
<1> HIDE DEF e
<1>6. Save([list EXCEPT ![r] = e], r, {Submitted(r)}, call)
  BY <1>2 DEF e
<1>7. QED
  BY <1>1, <1>3, <1>4, <1>5, <1>6, SaveKeeps

LEMMA PatchKeeps ==
    ASSUME IInv, NEW r \in Requests, Patch(r)
    PROVE  IInv'
<1>1. Types /\ CopyHolds(list) /\ EntryHolds(list[r], r)
  BY DEF IInv, CopiesHold, CopyHolds, Patch
<1>2. PICK s \in Targets \cup {list[r].status}, auto \in BOOLEAN :
         LET was == list[r]
             updated == [was EXCEPT !.status = s, !.auto = auto]
             entering == s = "approved" /\ was.status # "approved"
             new == [list EXCEPT ![r] = updated]
         IN  IF entering /\ auto /\ was.dispatch = NoDispatch
             THEN Await("load", "patch", r, new, 0, "none")
             ELSE Save(new, r,
                       IF entering /\ was.dispatch.st = "awaiting"
                       THEN {Proposed(r, was.dispatch.a, TRUE)} ELSE {},
                       call)
  BY DEF Patch
<1> DEFINE e == [list[r] EXCEPT !.status = s, !.auto = auto]
<1>3. list[r] \in Entries
  BY <1>1 DEF Types, Lists, Entries, Dispatches, Patch
<1>4. /\ e \in Entries /\ e.dispatch = list[r].dispatch /\ e.roadmap = list[r].roadmap
      /\ e.text = list[r].text
  BY <1>3, BoardAssumption DEF Entries
<1>5. /\ UNCHANGED <<crew, decisions, roadmaps>> /\ calls' \in 0..MaxCalls
      /\ \A q \in Requests : roadmaps[q] <= roadmaps'[q]
      /\ call \in [Handlers -> {NoCall} \cup CallRecords] /\ list \in Lists
      /\ roadmaps' \in [Requests -> 0..MaxRoadmaps]
  BY <1>1, BoardAssumption DEF Patch, Types, Count
<1>6. PICK f : f = e
  OBVIOUS
<1> HIDE DEF e
<1>7. CASE Await("load", "patch", r, [list EXCEPT ![r] = e], 0, "none")
  <2> DEFINE new == [list EXCEPT ![r] = e]
  <2>1. new \in Lists /\ new[r] = e /\ \A q \in Requests \ {r} : new[q] = list[q]
    BY <1>4, <1>5 DEF Lists, Entries, Dispatches
  <2>2. e # Absent
    BY <1>4 DEF Entries, Absent, Statuses, Empty
  <2> HIDE DEF new
  <2>3. CopyHolds(new)
    <3>1. EntryHolds(e, r)
      BY <1>1, <1>4 DEF EntryHolds, Explained
    <3>2. QED
      BY <1>1, <2>1, <3>1 DEF CopyHolds
  <2>4. Await("load", "patch", r, new, 0, "none")
    BY <1>7 DEF new
  <2>5. 0 \in 0..MaxApprovals /\ decisions' \subseteq Requests \X Texts \X Approvals \X {"approved", "denied"}
    BY <1>1, <1>5, BoardAssumption DEF Types
  <2>6. "none" \in Verdicts
    BY DEF Verdicts
  <2>7. QED
    BY <1>1, <1>5, <2>1, <2>2, <2>3, <2>4, <2>5, <2>6, AwaitKeeps
<1>8. CASE \E events : Save([list EXCEPT ![r] = e], r, events, call)
  <2>1. PICK events : Save([list EXCEPT ![r] = e], r, events, call)
    BY <1>8
  <2>2. Explained(e, r, log \cup events, roadmaps'[r])
    BY <1>1, <1>4, <1>5 DEF EntryHolds, Explained
  <2>3. QED
    BY <1>1, <1>4, <1>5, <2>1, <2>2, SaveKeeps
<1>9. QED
  BY <1>2, <1>7, <1>8 DEF e

LEMMA DispatchKeeps ==
    ASSUME IInv, NEW r \in Requests, Dispatch(r)
    PROVE  IInv'
<1>1. Types /\ CopyHolds(list) /\ list \in Lists /\ list[r] # Absent
  BY DEF IInv, CopiesHold, Dispatch, Types
<1>2. Await("load", "dispatch", r, list, 0, "none")
  BY DEF Dispatch
<1>3. /\ UNCHANGED <<crew, decisions, roadmaps>> /\ calls' \in 0..MaxCalls
      /\ 0 \in 0..MaxApprovals
      /\ decisions' \subseteq Requests \X Texts \X Approvals \X {"approved", "denied"}
  BY <1>1, BoardAssumption DEF Dispatch, Types, Count
<1>4. "none" \in Verdicts
  BY DEF Verdicts
<1>5. QED
  BY <1>1, <1>2, <1>3, <1>4, AwaitKeeps

LEMMA DecideKeeps ==
    ASSUME IInv, NEW r \in Requests, NEW d \in {"approved", "denied"}, Decide(r, d)
    PROVE  IInv'
<1> DEFINE a == list[r].dispatch.a
<1>1. Types /\ CopyHolds(list) /\ list \in Lists /\ list[r] # Absent
  BY DEF IInv, CopiesHold, Decide, Types
<1>2. EntryHolds(list[r], r)
  BY <1>1 DEF CopyHolds
<1>3. /\ a \in 0..MaxApprovals /\ a # 0 /\ approval[a].act = {list[r].text}
      /\ list[r].text \in Texts
  BY <1>1, <1>2 DEF EntryHolds, Explained, Decide, Lists
<1>4. a \in Approvals
  BY <1>3 DEF Approvals
<1>5. Await("decide", "decision", r, list, a, d) /\ decisions' = decisions \cup {<<r, list[r].text, a, d>>}
  BY DEF Decide
<1>6. UNCHANGED <<crew, roadmaps>> /\ calls' \in 0..MaxCalls
  BY <1>1, BoardAssumption DEF Decide, Types, Count
<1>7. decisions' \subseteq Requests \X Texts \X Approvals \X {"approved", "denied"}
  BY <1>1, <1>3, <1>4, <1>5 DEF Types
<1>8. a = list[r].dispatch.a /\ <<r, list[r].text, a, d>> \in decisions' /\ decisions \subseteq decisions'
  BY <1>5
<1>9. PICK n \in 0..MaxApprovals : n = a
  BY <1>3
<1> HIDE DEF a
<1>10. /\ Await("decide", "decision", r, list, n, d)
       /\ n # 0 /\ n = list[r].dispatch.a /\ approval[n].act = {list[r].text}
       /\ <<r, list[r].text, n, d>> \in decisions'
       /\ decisions \subseteq decisions'
  BY <1>3, <1>5, <1>8, <1>9
<1>11. d \in Verdicts
  BY DEF Verdicts
<1>12. QED
  BY <1>1, <1>6, <1>7, <1>10, <1>11, AwaitKeeps

LEMMA AddRoadmapKeeps ==
    ASSUME IInv, NEW r \in Requests, AddRoadmap(r)
    PROVE  IInv'
<1> DEFINE n == roadmaps[r] + 1
           e == [list[r] EXCEPT !.roadmap = n]
<1>1. Types /\ CopyHolds(list) /\ list \in Lists /\ list[r] # Absent
  BY DEF IInv, CopiesHold, AddRoadmap, Types
<1>2. EntryHolds(list[r], r) /\ list[r] \in Entries
  BY <1>1 DEF CopyHolds, Lists, Entries, Dispatches
<1>3. n \in 0..MaxRoadmaps /\ roadmaps' = [roadmaps EXCEPT ![r] = n]
  BY <1>1, BoardAssumption DEF AddRoadmap, Types
<1>4. /\ roadmaps' \in [Requests -> 0..MaxRoadmaps] /\ roadmaps'[r] = n
      /\ \A q \in Requests : roadmaps[q] <= roadmaps'[q]
  BY <1>1, <1>3, BoardAssumption DEF Types
<1>5. UNCHANGED <<crew, decisions>> /\ calls' \in 0..MaxCalls
  BY <1>1, BoardAssumption DEF AddRoadmap, Types, Count
<1>6. CASE Save([list EXCEPT ![r].roadmap = n], r, {}, call)
  <2>1. [list EXCEPT ![r].roadmap = n] = [list EXCEPT ![r] = e]
    BY <1>1 DEF Lists
  <2>2. e \in Entries /\ e.dispatch = list[r].dispatch /\ e.roadmap = n /\ e.text = list[r].text
    BY <1>2, <1>3 DEF Entries
  <2>3. Explained(e, r, log \cup {}, roadmaps'[r])
    BY <1>2, <1>3, <1>4, <2>2, BoardAssumption DEF EntryHolds, Explained
  <2>4. Save([list EXCEPT ![r] = e], r, {}, call)
    BY <1>6, <2>1
  <2>5. call \in [Handlers -> {NoCall} \cup CallRecords]
    BY <1>1 DEF Types
  <2> HIDE DEF e, n
  <2>6. QED
    BY <1>1, <1>4, <1>5, <2>2, <2>3, <2>4, <2>5, SaveKeeps
<1>7. CASE Die /\ UNCHANGED <<list, log, cutOff>>
  BY <1>4, <1>5, <1>7, DieKeeps
<1>8. QED
  BY <1>6, <1>7 DEF AddRoadmap

(* The end of a proposal or of a decision: the handler's own copy, changed *)
(* in the dispatch of its request.                                         *)
LEMMA EndKeeps ==
    ASSUME IInv, NEW h \in Handlers, call[h] \in CallRecords,
           NEW d \in Dispatches, NEW events,
           Save([call[h].snap EXCEPT ![call[h].r].dispatch = d], call[h].r, events, Hang(h)),
           UNCHANGED <<roadmaps, crew, decisions, calls>>,
           Explained([call[h].snap[call[h].r] EXCEPT !.dispatch = d], call[h].r,
                     log \cup events, roadmaps[call[h].r])
    PROVE  IInv'
<1>1. Types /\ call[h] # NoCall
  BY InFlight DEF IInv
<1>2. PICK l \in Lists, r \in Requests : l = call[h].snap /\ r = call[h].r
  BY DEF CallRecords
<1> DEFINE e == [l[r] EXCEPT !.dispatch = d]
<1>3. CopyHolds(l) /\ l[r] # Absent
  BY <1>1, <1>2 DEF IInv, CopiesHold, HandlersHold, HandlerHolds
<1>4. e \in Entries
  BY <1>3 DEF Lists, Entries, Dispatches
<1>5. Save([l EXCEPT ![r] = e], r, events, Hang(h))
  <2>1. [l EXCEPT ![r].dispatch = d] = [l EXCEPT ![r] = e]
    BY DEF Lists
  <2>2. QED
    BY <1>2, <2>1
<1>6. Explained(e, r, log \cup events, roadmaps'[r])
  BY <1>2
<1>7. /\ Hang(h) \in [Handlers -> {NoCall} \cup CallRecords]
      /\ \A k \in Handlers : Hang(h)[k] \in {call[k], NoCall}
  BY <1>1 DEF Types, Hang
<1>8. /\ calls' \in 0..MaxCalls /\ roadmaps' \in [Requests -> 0..MaxRoadmaps]
      /\ \A q \in Requests : roadmaps[q] <= roadmaps'[q]
  BY <1>1, BoardAssumption DEF Types
<1> HIDE DEF e
<1>9. QED
  BY <1>3, <1>4, <1>5, <1>6, <1>7, <1>8, SaveKeeps

LEMMA EndProposalKeeps ==
    ASSUME IInv, NEW h \in Handlers, EndProposal(h)
    PROVE  IInv'
<1> DEFINE c == call[h]
           d == [st |-> IF c.ok THEN "awaiting" ELSE "unavailable",
                 a |-> IF c.ok THEN c.a ELSE 0, child |-> 0]
           events == IF c.ok THEN {Proposed(c.r, c.a, c.op = "patch")} ELSE {}
           e == [c.snap[c.r] EXCEPT !.dispatch = d]
<1>1. Types /\ c \in CallRecords /\ c # NoCall
  BY InFlight DEF IInv, EndProposal
<1>2. HandlerHolds(c) /\ c.op # "decision" /\ c.pc = "resume"
  BY <1>1 DEF IInv, HandlersHold, EndProposal
<1>3. d \in Dispatches
  BY <1>1, BoardAssumption DEF CallRecords, Dispatches
<1>4. CopyHolds(c.snap) /\ c.snap[c.r] # Absent
  BY <1>1, <1>2 DEF IInv, CopiesHold, HandlerHolds
<1>5. EntryHolds(c.snap[c.r], c.r) /\ c.snap[c.r] \in Entries
  BY <1>1, <1>4 DEF CopyHolds, CallRecords, Lists, Entries, Dispatches
<1>6. e.dispatch = d /\ e.roadmap = c.snap[c.r].roadmap /\ e.text = c.snap[c.r].text
  BY <1>5 DEF Entries
<1>7. Explained(e, c.r, log \cup events, roadmaps[c.r])
  <2> HIDE DEF e
  <2>1. CASE c.ok
    <3>1. d.st = "awaiting" /\ d.a = c.a /\ c.a # 0 /\ approval[c.a].act = {c.snap[c.r].text}
      BY <1>2, <2>1 DEF HandlerHolds
    <3>2. \E auto \in BOOLEAN : Proposed(c.r, c.a, auto) \in log \cup events
      BY <2>1
    <3> HIDE DEF d, events
    <3>3. QED
      BY <1>5, <1>6, <3>1, <3>2 DEF Explained, EntryHolds
  <2>2. CASE ~c.ok
    <3>1. d.st = "unavailable" /\ d.a = 0
      BY <2>2
    <3> HIDE DEF d, events
    <3>2. QED
      BY <1>5, <1>6, <3>1 DEF Explained, EntryHolds
  <2>3. QED
    BY <2>1, <2>2
<1>8. /\ Save([c.snap EXCEPT ![c.r].dispatch = d], c.r, events, Hang(h))
      /\ UNCHANGED <<roadmaps, crew, decisions, calls>>
  BY DEF EndProposal
<1> HIDE DEF d, events
<1>9. QED
  BY <1>1, <1>3, <1>7, <1>8, EndKeeps

LEMMA EndDecisionKeeps ==
    ASSUME IInv, NEW h \in Handlers, EndDecision(h)
    PROVE  IInv'
<1> DEFINE c == call[h]
           d == [st |-> c.d, a |-> c.a, child |-> c.child]
           events == {Decided(c.r, c.a, c.d)}
           e == [c.snap[c.r] EXCEPT !.dispatch = d]
<1>1. Types /\ c \in CallRecords /\ c # NoCall
  BY InFlight DEF IInv, EndDecision
<1>2. HandlerHolds(c) /\ c.op = "decision" /\ c.pc = "resume"
  BY <1>1 DEF IInv, HandlersHold, EndDecision
<1>3. CASE c.ok
  <2>1. c.d \in {"approved", "denied"}
    BY <1>1, <1>2 DEF HandlerHolds, Types
  <2>2. d \in Dispatches
    BY <1>1, <2>1 DEF CallRecords, Dispatches
  <2>3. CopyHolds(c.snap) /\ c.snap[c.r] # Absent
    BY <1>1, <1>2 DEF IInv, CopiesHold, HandlerHolds
  <2>4. EntryHolds(c.snap[c.r], c.r) /\ c.snap[c.r] \in Entries
    BY <1>1, <2>3 DEF CopyHolds, CallRecords, Lists, Entries, Dispatches
  <2>5. e.dispatch = d /\ e.roadmap = c.snap[c.r].roadmap /\ e.text = c.snap[c.r].text
    BY <2>4 DEF Entries
  <2>6. Explained(e, c.r, log \cup events, roadmaps[c.r])
    <3>1. /\ d.st = c.d /\ d.a = c.a /\ c.a # 0 /\ c.a = c.snap[c.r].dispatch.a
          /\ approval[c.a].status = c.d /\ <<c.r, c.snap[c.r].text, c.a, c.d>> \in decisions
          /\ c.d = "approved" => c.a \in ToSet(children)
      BY <1>2, <1>3 DEF HandlerHolds
    <3>2. c.r \notin cutOff => \E auto \in BOOLEAN : Proposed(c.r, c.a, auto) \in log
      BY <2>4, <3>1 DEF EntryHolds, Explained
    <3>3. Decided(c.r, c.a, c.d) \in log \cup events
      OBVIOUS
    <3> HIDE DEF d, e, events
    <3>4. QED
      BY <2>1, <2>4, <2>5, <3>1, <3>2, <3>3 DEF Explained, EntryHolds
  <2>7. /\ Save([c.snap EXCEPT ![c.r].dispatch = d], c.r, events, Hang(h))
        /\ UNCHANGED <<roadmaps, crew, decisions, calls>>
    BY <1>3 DEF EndDecision
  <2> HIDE DEF d, events
  <2>8. QED
    BY <1>1, <2>2, <2>6, <2>7, EndKeeps
<1>4. CASE ~c.ok
  <2>1. /\ call' = Hang(h) /\ UNCHANGED <<list, log, cutOff, crashes>>
        /\ UNCHANGED <<roadmaps, crew, decisions, calls>>
    BY <1>4 DEF EndDecision
  <2>2. /\ call' \in [Handlers -> {NoCall} \cup CallRecords]
        /\ \A k \in Handlers : call'[k] \in {call[k], NoCall}
    BY <1>1, <2>1 DEF Types, Hang
  <2>3. Types' /\ Onward
    BY <1>1, <2>1, <2>2, OnwardQuiet DEF Types, crew
  <2>4. CopiesHold' /\ HandlersHold'
    BY <1>1, <2>1, <2>2, <2>3, CopiesCarry, HandlersCarry DEF IInv
  <2>5. OneExecutes' /\ NothingExecutesUndecided' /\ ExecutedOnce'
    <3>1. \A k \in Handlers : Executing(k)' => call'[k] = call[k]
      BY <2>2 DEF Executing, NoCall
    <3>2. QED
      BY <2>1, <2>3, <3>1, QuietCrew
  <2>6. QED
    BY <2>3, <2>4, <2>5 DEF IInv
<1>5. QED
  BY <1>3, <1>4

-----------------------------------------------------------------------------
(* The theorems. *)

LEMMA NextKeeps == IInv /\ [Next]_vars => IInv'
<1> SUFFICES ASSUME IInv, [Next]_vars
             PROVE  IInv'
  OBVIOUS
<1>1. CASE UNCHANGED vars
  <2>1. Types' /\ Onward
    BY <1>1, OnwardQuiet DEF IInv, Types, vars, board, crew
  <2>2. UNCHANGED <<list, call, crew, decisions>>
    BY <1>1 DEF vars, board
  <2>3. CopiesHold' /\ HandlersHold'
    BY <2>1, <2>2, CopiesCarry, HandlersCarry DEF IInv
  <2>4. QED
    BY <2>1, <2>2, <2>3, QuietCrew DEF IInv
<1>2. CASE Crash
  <2>1. Types
    BY DEF IInv
  <2>2. /\ Die /\ UNCHANGED <<list, log, cutOff, crew, decisions>>
        /\ calls' \in 0..MaxCalls /\ roadmaps' \in [Requests -> 0..MaxRoadmaps]
        /\ \A q \in Requests : roadmaps[q] <= roadmaps'[q]
    BY <1>2, <2>1, BoardAssumption DEF Crash, board, Types
  <2>3. QED
    BY <2>2, DieKeeps
<1>3. ASSUME NEW r \in Requests,
             \/ Submit(r) \/ Patch(r) \/ Dispatch(r) \/ AddRoadmap(r)
             \/ \E d \in {"approved", "denied"} : Decide(r, d)
      PROVE  IInv'
  BY <1>3, SubmitKeeps, PatchKeeps, DispatchKeeps, DecideKeeps, AddRoadmapKeeps
<1>4. ASSUME NEW h \in Handlers,
             \/ CallFails(h) \/ LoadRun(h) \/ RequestApproval(h)
             \/ CreateProposal(h) \/ RecordDecision(h) \/ Execute(h)
             \/ ReadEvents(h) \/ EndProposal(h) \/ EndDecision(h)
      PROVE  IInv'
  BY <1>4, CallFailsKeeps, LoadRunKeeps, RequestApprovalKeeps, CreateProposalKeeps,
     RecordDecisionKeeps, ExecuteKeeps, ReadEventsKeeps, EndProposalKeeps, EndDecisionKeeps
<1>5. QED
  BY <1>1, <1>2, <1>3, <1>4 DEF Next

(* The inductive invariant, which the theorems below follow from. *)
THEOREM BoardInvariant == Spec => []IInv
  BY InitIInv, NextKeeps, PTL DEF Spec

(* TypeOK: what the routes and the client keep has its type, for any       *)
(* requests, handlers and bounds.                                          *)
THEOREM TypeCorrect == Spec => []TypeOK
<1>1. IInv => TypeOK
  <2> SUFFICES ASSUME IInv
               PROVE  TypeOK
    OBVIOUS
  <2>1. ASSUME NEW h \in Handlers, call[h] # NoCall
        PROVE  /\ call[h].pc \in CrewCalls \cup {"resume"}
               /\ call[h].op \in {"patch", "dispatch", "decision"}
               /\ call[h].snap \in Lists
               /\ call[h].snap[call[h].r] # Absent
               /\ call[h].a = 0 => call[h].pc \in {"load", "request", "resume"}
    <3>1. call[h] \in CallRecords /\ HandlerHolds(call[h])
      BY <2>1, InFlight DEF IInv, HandlersHold
    <3>2. QED
      BY <3>1 DEF CallRecords, HandlerHolds
  <2>2. \A i \in DOMAIN children : children[i] \in Approvals
    BY LenProperties DEF IInv, Types
  <2>3. QED
    BY <2>1, <2>2 DEF IInv, Types, TypeOK
<1>2. QED
  BY <1>1, BoardInvariant, PTL

(* NothingExecutesUndecided: a proposal commons-crew executed is one an    *)
(* operator approved for a request of its text (submitDispatchDecision).   *)
THEOREM UndecidedIsNotExecuted == Spec => []NothingExecutesUndecided
<1>1. IInv => NothingExecutesUndecided
  BY DEF IInv
<1>2. QED
  BY <1>1, BoardInvariant, PTL

(* ExecutedOnce: no approval starts a second child run, however many       *)
(* operators decide at the same time or again.                             *)
THEOREM OneRunPerApproval == Spec => []ExecutedOnce
<1>1. IInv => ExecutedOnce
  BY DEF IInv
<1>2. QED
  BY <1>1, BoardInvariant, PTL

(* AwaitingIsItsOwn: a dispatch that awaits a decision, in the file or in  *)
(* any handler's stale copy, names an approval bound to its request's own  *)
(* text.                                                                   *)
THEOREM AwaitedApprovalIsOwn == Spec => []AwaitingIsItsOwn
<1>1. IInv => AwaitingIsItsOwn
  BY ZenonT(40) DEF IInv, CopiesHold, CopyHolds, EntryHolds, Explained, AwaitingIsItsOwn
<1>2. QED
  BY <1>1, BoardInvariant, PTL

(* RecordedDecisionsHappened: what the file says was approved was          *)
(* executed, what it says was denied was denied and was not.               *)
THEOREM RecordsAreTrue == Spec => []RecordedDecisionsHappened
<1>1. IInv => RecordedDecisionsHappened
  BY DEF IInv, CopiesHold, CopyHolds, EntryHolds, Explained, RecordedDecisionsHappened,
         NothingExecutesUndecided
<1>2. QED
  BY <1>1, BoardInvariant, PTL

(* RequestsAreAccountedFor: but for a crash between the file and its log   *)
(* entry, the log explains every dispatch in the file; and the roadmap a   *)
(* request names is on file.                                               *)
THEOREM RequestsAccountedFor == Spec => []RequestsAreAccountedFor
<1>1. IInv => RequestsAreAccountedFor
  BY DEF IInv, CopiesHold, CopyHolds, EntryHolds, Explained, RequestsAreAccountedFor,
         LogExplainsDispatches, LatestRoadmapExists
<1>2. QED
  BY <1>1, BoardInvariant, PTL
=============================================================================
