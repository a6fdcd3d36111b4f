------------------------------ MODULE JobRunner ------------------------------
(***************************************************************************)
(* Tasks for worker agents: dispatched by routes/workers.ts, stored by     *)
(* lib/job-store.ts, run by services/agent-job-runner.ts.                  *)
(*                                                                         *)
(* Dispatch, the runner's tick and the end of a job are synchronous, so    *)
(* each is one action; the jobs themselves run side by side.  The files    *)
(* outlive the process, the sets of running jobs and known workspaces do   *)
(* not.  A crash can fall between two writes of a handler (`cut` is the    *)
(* number that were begun), and, the job store writing in place, in the    *)
(* middle of one (`torn`): a torn job file reads as no job, a torn index   *)
(* as an empty one.  A job that is completed or failed is "ended" here.     *)
(***************************************************************************)
EXTENDS Naturals, Sequences, FiniteSets, SequencesExt

CONSTANTS MaxJobs,     \* bound: the jobs that can be dispatched
          Workspaces,
          Default,     \* the workspace polled without being registered
          Agents,      \* agent ids of a workspace's blueprint
          Patches,     \* what PATCH may set a task to: open (TRUE) or not
          Limits,      \* what getProviderConcurrency may answer (maxParallel)
          MaxCrashes   \* bound: crashes of the process

ASSUME JobAssumption ==
    /\ MaxJobs \in Nat
    /\ Agents # {}
    /\ Default \in Workspaces
    /\ Patches \subseteq BOOLEAN
    /\ Limits \subseteq Nat \ {0}
    /\ MaxCrashes \in Nat

VARIABLES
    cap,      \* what each workspace's provider settings allow at present
    job,      \* jobs/<workspace>/<job>.json
    index,    \* jobs/<workspace>/_index.json
    ledger,   \* worker-actions/<workspace>.json: the tasks, open or closed
    running,          \* running: the jobs whose executeJob is under way
    agentRunning,     \* agentRunning: <<workspace, agent>>
    activeWorkspaces, \* activeWorkspaces, a Set in insertion order
    crashes

files == <<job, index, ledger>>
memory == <<running, agentRunning, activeWorkspaces>>
vars == <<cap, files, memory, crashes>>

(* Job ids are fresh; they are numbered in the order of dispatch. *)
Jobs == 1..MaxJobs

NoJob == [status |-> "absent", ws |-> Default, agent |-> CHOOSE g \in Agents : TRUE]

Key(j) == <<job[j].ws, job[j].agent>>

Init ==
    /\ cap \in [Workspaces -> Limits]
    /\ job = [j \in Jobs |-> NoJob]
    /\ index = [w \in Workspaces |-> <<>>]
    /\ ledger = [w \in Workspaces |-> <<>>]
    /\ running = {}
    /\ agentRunning = {}
    /\ activeWorkspaces = <<Default>>
    /\ crashes = 0

(* A new process knows nothing but the files. *)
Restart ==
    /\ crashes < MaxCrashes
    /\ crashes' = crashes + 1
    /\ running' = {}
    /\ agentRunning' = {}
    /\ activeWorkspaces' = <<Default>>

(* A handler of n writes was carried out to the end, or the process died   *)
(* during or after its cut-th write.                                       *)
Whole(cut, torn, n) == cut = n /\ ~torn

Crash == Restart /\ UNCHANGED <<cap, files>>

-----------------------------------------------------------------------------
(* Mutants: the workspace is not registered; it is registered again.       *)
NotRegistered(w) == UNCHANGED activeWorkspaces
RegisteredAgain(w) == activeWorkspaces' = Append(activeWorkspaces, w)

registerWorkspace(w) ==
    activeWorkspaces' = IF Contains(activeWorkspaces, w) THEN activeWorkspaces
                        ELSE Append(activeWorkspaces, w)

(* POST /workers/:agentId/task: the job file, the index, the ledger.  The  *)
(* event in the decision log, the last write, is left out.                 *)
Dispatch(j, w, g) ==
    \E cut \in 1..3, torn \in BOOLEAN :
        /\ job[j].status = "absent"
        /\ \A k \in 1..(j - 1) : job[k].status # "absent"
        /\ torn => cut < 3                    \* the ledger is written atomically
        /\ job' = [job EXCEPT ![j] =
                     [status |-> IF cut = 1 /\ torn THEN "torn" ELSE "pending",
                      ws |-> w, agent |-> g]]
        /\ index' = IF cut = 1 THEN index
                    ELSE [index EXCEPT ![w] =
                            IF cut = 2 /\ torn THEN <<>> ELSE Append(@, j)]
        /\ ledger' = IF cut < 3 THEN ledger
                     ELSE [ledger EXCEPT ![w] = Append(@, [job |-> j, open |-> TRUE])]
        /\ IF Whole(cut, torn, 3)
           THEN registerWorkspace(w) /\ UNCHANGED <<running, agentRunning, crashes>>
           ELSE Restart
        /\ UNCHANGED cap

(* PATCH /workers/:agentId/task/:taskId: the ledger alone, whatever the    *)
(* job is doing.  REQUESTED and APPROVED are open, the others are not.     *)
UpdateTask(w, i) ==
    /\ \E open \in Patches : ledger' = [ledger EXCEPT ![w][i].open = open]
    /\ UNCHANGED <<cap, job, index, memory, crashes>>

(* PUT /settings: another provider, or other lanes of the same one.  The   *)
(* tick reads the limit anew, and jobs under way are left alone.           *)
EditLimit(w) ==
    /\ \E n \in Limits \ {cap[w]} : cap' = [cap EXCEPT ![w] = n]
    /\ UNCHANGED <<files, memory, crashes>>

-----------------------------------------------------------------------------
(* Mutants of the loop over the pending jobs: it forgets the agent's other *)
(* job, the status, or the limit; it is off by one in the limit.           *)
ConsiderBusyAgent(picks, w, j) ==
    LET started == running \cup ToSet(picks)
    IN  IF Cardinality(started) < cap[w] /\ j \notin started /\ job[j].status = "pending"
        THEN Append(picks, j) ELSE picks

ConsiderAnyStatus(picks, w, j) ==
    LET started == running \cup ToSet(picks)
    IN  IF /\ Cardinality(started) < cap[w] /\ j \notin started
           /\ job[j].status # "torn"
           /\ Key(j) \notin agentRunning \cup {Key(k) : k \in ToSet(picks)}
        THEN Append(picks, j) ELSE picks

ConsiderUnlimited(picks, w, j) ==
    LET started == running \cup ToSet(picks)
    IN  IF /\ j \notin started
           /\ job[j].status = "pending"
           /\ Key(j) \notin agentRunning \cup {Key(k) : k \in ToSet(picks)}
        THEN Append(picks, j) ELSE picks

ConsiderOffByOne(picks, w, j) ==
    LET started == running \cup ToSet(picks)
    IN  IF /\ Cardinality(started) + 1 < cap[w] /\ j \notin started
           /\ job[j].status = "pending"
           /\ Key(j) \notin agentRunning \cup {Key(k) : k \in ToSet(picks)}
        THEN Append(picks, j) ELSE picks

(* One turn of that loop: job j of workspace w, after `picks` were started. *)
Consider(picks, w, j) ==
    LET started == running \cup ToSet(picks)
    IN  IF /\ Cardinality(started) < cap[w]
           /\ j \notin started
           /\ job[j].status = "pending"
           /\ Key(j) \notin agentRunning \cup {Key(k) : k \in ToSet(picks)}
        THEN Append(picks, j)
        ELSE picks

(* The loop over the workspaces: at the first whose limit is reached the   *)
(* tick returns, and the workspaces after it wait for another.             *)
Visit(scan, w) ==
    IF scan.returned \/ Cardinality(running \cup ToSet(scan.picks)) >= cap[w]
    THEN [scan EXCEPT !.returned = TRUE]
    ELSE LET consider(picks, j) == Consider(picks, w, j)
         IN  [scan EXCEPT !.picks = FoldLeft(consider, scan.picks, index[w])]

Scan(known) == FoldLeft(Visit, [picks |-> <<>>, returned |-> FALSE], known)

Picks == Scan(activeWorkspaces).picks

(* tick: each job picked is in the sets and on file as running before      *)
(* executeJob first awaits.                                                *)
Tick ==
    \E picks \in {Picks} : \E cut \in 1..Len(picks), torn \in BOOLEAN :
        LET begun == ToSet(SubSeq(picks, 1, cut))
        IN  /\ job' = [j \in Jobs |->
                         IF torn /\ j = picks[cut] THEN [job[j] EXCEPT !.status = "torn"]
                         ELSE IF j \in begun THEN [job[j] EXCEPT !.status = "running"]
                         ELSE job[j]]
            /\ IF Whole(cut, torn, Len(picks))
               THEN /\ running' = running \cup begun
                    /\ agentRunning' = agentRunning \cup {Key(j) : j \in begun}
                    /\ UNCHANGED <<activeWorkspaces, crashes>>
               ELSE Restart
            /\ UNCHANGED <<cap, index, ledger>>

(* ids.filter((id) => id !== jobId) *)
Without(ids, j) ==
    LET keep(kept, k) == IF k = j THEN kept ELSE Append(kept, k)
    IN  FoldLeft(keep, <<>>, ids)

(* The last updateJob of executeJob, and the finally of tick: the job file *)
(* and the index are written, the sets let go.                             *)
Finish(j) ==
    \E cut \in 1..2, torn \in BOOLEAN :
        LET w == job[j].ws
        IN  /\ j \in running
            /\ job' = [job EXCEPT ![j].status = IF cut = 1 /\ torn THEN "torn" ELSE "ended"]
            /\ index' = IF cut = 1 THEN index
                        ELSE [index EXCEPT ![w] =
                                IF torn THEN <<>> ELSE Without(@, j)]
            /\ IF Whole(cut, torn, 2)
               THEN /\ running' = running \ {j}
                    /\ agentRunning' = agentRunning \ {Key(j)}
                    /\ UNCHANGED <<activeWorkspaces, crashes>>
               ELSE Restart
            /\ UNCHANGED <<cap, ledger>>

Next ==
    \/ \E j \in Jobs, w \in Workspaces, g \in Agents : Dispatch(j, w, g)
    \/ \E w \in Workspaces : \E i \in DOMAIN ledger[w] : UpdateTask(w, i)
    \/ \E w \in Workspaces : EditLimit(w)
    \/ Tick
    \/ \E j \in Jobs : Finish(j)
    \/ Crash

(* setInterval keeps ticking, and executeJob ends: every inference call    *)
(* returns or throws (ProviderGate!EveryCallEnds, on its assumptions).     *)
(* The first line is WF_vars(Tick) with ENABLED Tick, which is that there  *)
(* is something to pick, written out: TLC evaluates it much faster.        *)
Fairness ==
    /\ []<>(Picks = <<>>) \/ []<><<Tick>>_vars
    /\ \A j \in Jobs : WF_vars(Finish(j))

Spec == Init /\ [][Next]_vars
FairSpec == Spec /\ Fairness

-----------------------------------------------------------------------------
(***************************************************************************)
(* Properties                                                              *)
(***************************************************************************)

Statuses == {"absent", "torn", "pending", "running", "ended"}

(* Every variable has its type; the Set of known workspaces has no         *)
(* duplicates, so no workspace is polled twice in a tick.                  *)
TypeOK ==
    /\ cap \in [Workspaces -> Limits]
    /\ job \in [Jobs -> [status : Statuses, ws : Workspaces, agent : Agents]]
    /\ index \in [Workspaces -> Seq(Jobs)]
    /\ ledger \in [Workspaces -> Seq([job : Jobs, open : BOOLEAN])]
    /\ running \subseteq Jobs
    /\ agentRunning \subseteq Workspaces \X Agents
    /\ activeWorkspaces \in Seq(Workspaces) /\ IsInjective(activeWorkspaces)
    /\ crashes \in 0..MaxCrashes

(* "Each agent serializes its own jobs": two jobs of one agent are never   *)
(* executed together, and the agents marked busy are those with a job.     *)
AgentsAreSerial ==
    /\ \A j, k \in running : Key(j) = Key(k) => j = k
    /\ agentRunning = {Key(j) : j \in running}

(* A job under way is "running" on file and in the index of its workspace, *)
(* once: what finishes it finds both.                                      *)
InFlightIsRecorded ==
    \A j \in running :
        /\ job[j].status = "running"
        /\ Cardinality({i \in DOMAIN index[job[j].ws] : index[job[j].ws][i] = j}) = 1

(* What is under way is sound: agents are serial, and every job under way  *)
(* is on record - in ticks that overlap, and while jobs end and are        *)
(* dispatched in between.                                                  *)
RunningJobsAreSound == AgentsAreSerial /\ InFlightIsRecorded

(* When jobs of a workspace are started, those under way for it are within *)
(* the limit its settings give at that moment, although the runner counts  *)
(* the jobs of all workspaces together.  A limit lowered later stops none. *)
StartsKeepToLimit ==
    [][\A w \in Workspaces :
         (\E j \in running' \ running : job'[j].ws = w)
             => Cardinality({j \in running' : job'[j].ws = w}) <= cap[w]]_vars

(* A job never goes back: what has run, or has begun to, is not run again, *)
(* after whatever crash.  One that is over stays as it is, or, where       *)
(* numbers are used again (MCJobRunner), gives its number to another.      *)
Rank(status) ==
    CASE status = "absent" -> 0 [] status = "pending" -> 1
      [] status = "running" -> 2 [] OTHER -> 3
JobsOnlyMoveForward ==
    [][\A j \in Jobs :
         IF Rank(job[j].status) < 3 THEN Rank(job[j].status) <= Rank(job'[j].status)
         ELSE job'[j] \in {job[j], NoJob}]_vars

(* As long as no process has died, every job that was accepted is where    *)
(* the runner will find it, or under way, or over, and is in the ledger.   *)
NothingIsLost ==
    crashes = 0 =>
        \A j \in Jobs :
            LET w == job[j].ws
            IN  /\ job[j].status \in {"pending", "running"} <=> Contains(index[w], j)
                /\ job[j].status = "pending" => Contains(activeWorkspaces, w)
                /\ job[j].status = "running" <=> j \in running
                /\ job[j].status # "absent" => \E i \in DOMAIN ledger[w] : ledger[w][i].job = j

(* The tick comes to workspace w, and has room for a job there.            *)
HasTurn(w) ==
    \E i \in DOMAIN activeWorkspaces :
        LET scan == Scan(SubSeq(activeWorkspaces, 1, i - 1))
        IN  /\ activeWorkspaces[i] = w
            /\ ~scan.returned
            /\ Cardinality(running \cup ToSet(scan.picks)) < cap[w]

(* Jobs are started for ever, and from some tick on none comes to w: the   *)
(* workspaces before it have jobs enough to keep the limit reached.        *)
Starved(w) == []<><<Tick>>_vars /\ <>[][Tick => ~HasTurn(w)]_vars

(* Once the limits are left alone, a job in the index of a workspace the   *)
(* runner knows is executed to its end, unless (another) crash intervenes; *)
(* those left by an earlier crash included.  There is one exception: the   *)
(* earlier workspaces starve its own.  That never happens to the default   *)
(* workspace, which is the first.                                          *)
PendingJobsEnd ==
    <>[][UNCHANGED cap]_vars =>
        \A w \in Workspaces :
            \/ w # Default /\ Starved(w)
            \/ \A j \in Jobs : \A n \in 0..MaxCrashes :
                  (/\ job[j].status = "pending" /\ job[j].ws = w /\ crashes = n
                   /\ Contains(index[w], j) /\ Contains(activeWorkspaces, w))
                      ~> (job[j].status = "ended" \/ crashes > n)

(* What workerStatus answers for an agent (its domain's approvals apart):  *)
(* the job behind the first open task in the ledger is looked up, and that *)
(* task alone.                                                             *)
OpenTasks(w, g) == {i \in DOMAIN ledger[w] : ledger[w][i].open /\ job[ledger[w][i].job].agent = g}
workerStatus(w, g) ==
    IF \E i \in OpenTasks(w, g) :
            /\ \A k \in OpenTasks(w, g) : i <= k
            /\ job[ledger[w][i].job].status \in {"pending", "running"}
    THEN "active" ELSE "ready"

(* The comment in workerStatus (lines 128-129) has it consult the live job *)
(* store, so that the status follows the jobs: an agent whose job is under *)
(* way, its task open, is shown as active.                                 *)
BusyAgentsAreActive ==
    \A j \in running :
        (\E i \in DOMAIN ledger[job[j].ws] : ledger[job[j].ws][i] = [job |-> j, open |-> TRUE])
            => workerStatus(job[j].ws, job[j].agent) = "active"
=============================================================================
