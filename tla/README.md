# commons-board in TLA+

commons-board is a TypeScript service (`src/services/api`, an Express server
whose state is JSON files) with which a collective or company governs a board
of AI agents: members vote and amend their constitution, an operator submits
requests to the board, worker agents run tasks through inference providers, and
approved work is handed to an external runtime, commons-crew.

This directory holds TLA+ modules of the parts where order, concurrency and
crashes decide what is correct, TLC configurations that check them on small
instances, and TLAPS proofs of the safety properties for every value of the
constants. `PROJECT.json` links every definition to the source lines it models.

    tlc -workers 2 -config MCProviderGate.cfg MCProviderGate
    tlapm ProviderGateProofs.tla

## 1. How the program runs, and what that means for a model

- **One thread.** Node runs one continuation at a time, so the code between two
  suspension points (`await`, a timer, the answer of a call) is atomic for every
  other handler. In the models *one action is the code between two awaits*; a
  handler that awaits nothing is one action.
- **Files.** A route typically reads a whole JSON list, changes one element and
  writes the whole list. `lib/persistence.ts` writes a temporary file and renames
  it, so a write is there or is not. `lib/job-store.ts`, `lib/board-chat-job-store.ts`
  and `lib/ai-chat-session-store.ts` write in place, so a crash can tear their files: a
  torn job or session reads as none, a torn index as an empty one.
- **Crashes.** Between two writes of a handler the process can die. In
  `CollectiveGovernance` and `JobRunner` the parameter `cut` of an action says
  how many of its writes reached the disk; in `BoardRequests` a crash ends every
  handler in flight, and may fall between a handler's writes.
- **Remote calls.** Inference providers, commons-crew, federation peers and
  webhook receivers are awaited, and other handlers run meanwhile. A call can
  fail without effect, or have its effect and lose its answer.

## 2. Inventory

For each component: *state*, *operations*, *interactions*, *what is hard*, *what makes
it correct*, as far as each has them. The status of each is in `PROJECT.json`, the
hazards at their lines under `hazards` there.

### Modelled

**Inference gate** (`lib/model-client.ts`). *State*: per provider, the calls in
flight, the FIFO of waiting resolvers, the time of the last grant.
*Operations*: `complete()`: acquire a slot, keep the minimum gap, call, retry on
429 after a backoff, release in a `finally`. *Interactions*: every component that
asks a model passes here; the limit comes from settings an operator edits.
*Hard*: three functions share a counter across awaits; a slot is handed over in
the release; limits change under waiting calls. *Correct*: slots neither leaked
nor lent twice, nobody stranded, every call ends, first come first served.

**Collective governance** (`lib/collective-governance.ts`, `routes/votes.ts`,
`routes/amendments.ts`, `lib/artifact-store.ts`). *State*: votes, ballots,
amendments, artifact versions, contributions, one file each. *Operations*: open,
cast, resolve; propose, advance, apply; write an artifact. *Interactions*: an
amendment opens a vote and, applied, writes `collective_config`, whose
`active_member_count` is the quorum base of the next resolution; each step
appends to the decision log. *Hard*: up to four files written one after the
other; quorum read late; boundary tallies. *Correct*: one member one vote, a
passed vote rests on its ballots, an amendment follows its vote and takes effect
once, nothing exists that was not recorded first.

**Decision log** (`lib/decision-log.ts`). *State*: a hash chain of signed events.
*Operations*: append, list, verify. *Hard*: its promise is about order, an event
is logged before its action. *Correct*: that order; accounts for what happened.
Modelled as the set of its events inside the components that append to it.

**Worker jobs** (`routes/workers.ts`, `lib/job-store.ts`,
`services/agent-job-runner.ts`). *State*: job files, an index per workspace, the
worker-action ledger, and in memory the running jobs, busy agents and known
workspaces. *Operations*: dispatch a task, patch it, the runner's tick, the end
of a job, the status of an agent. *Interactions*: a job runs `complete()`.
*Hard*: the tick decides on files and sets that other jobs change, and on limits
that it reads from the settings anew each time; it returns at the first workspace
whose limit is reached; writes in place; restarts. *Correct*: an agent runs one job
at a time, jobs are started within the limit of that moment, a job never runs twice,
what the runner can find is run unless earlier workspaces starve its own.

**Board requests and commons-crew dispatch** (`routes/motherboard.ts`,
`lib/commons-crew-client.ts`, `lib/board-orchestration.ts`). *State*: the request
list, roadmaps; at commons-crew, approvals, proposals, child runs. *Operations*:
submit, patch, add a roadmap, propose a dispatch, decide on it. *Hard*: the list
is read before up to three remote calls and written after them; any of these can
fail half way; several operators act at once; commons-crew knows a request by its
text. *Correct*: nothing is executed without an operator's decision, or twice, or
for another text; what the board records did happen.

**Inference gateway** (`packages/inference-gateway`). *State*: per tenant, its
ceiling, consumption and metering records; the deployed model's version.
*Operations*: derive a plan, route, `call()`, meter. *Hard*: the consumption is
read before the backend answers and written after; the version is checked after
the tokens were spent. *Correct*: a tenant is charged for metered calls only and
exactly; what it declared fits its plan.

**Action control** (`routes/actions.ts`, `approvals.ts`,
`lib/verification-policy.ts`). *State*: actions, ledger, SIM/LIVE mode, approval
requests and responses. *Operations*: submit, approve, deny, rerun, switch,
respond. *Hard*: no guard on the status; three files per handler. *Correct*: the
ledger explains every action; nobody counts twice in an approval.

**Execution engine** (`agent-runtime/execution`, `routes/execution.ts`,
`lib/artifact-normalize.ts`). *State*: the last run, the runs, child runtimes.
*Operations*: execute a run, link and unlink children. *Hard*: six stages decide
on each agent, budgets are shared among agents. *Correct*: budgets hold, what one
stage blocked stays blocked, runs are in the log.

**Treasury and billing** (`routes/treasury.ts`, `billing.ts`). *State*: income,
contributions, distributions, revenue events, customers. *Hard*: rounding to the
cent; execution before its log entry. *Correct*: shares add up, paid out once.

**Organisation and workspace** (`routes/org.ts`, `workspace.ts`). *State*: the
last blueprint versions, delegations, operational settings, kill switch, pauses.
*Hard*: cascading deletions and rollbacks against delegations of their own file.
*Correct*: approved delegations are in force, every other unit has its chair.

**Labor-commons catalog** (`lib/labor-commons-client.ts`,
`services/specialist-resolver.ts`, the first half of `routes/org.ts`). *State*: the
catalog on disk, a cache in memory, gaps, corrections. *Interactions*: the chairs are
the `agent_blueprint` artifact, which the artifacts route and the interview replace.
*Correct*: a gap is closed with a chair, and only such a replacement takes it away.

**Scheduling and cadence** (`routes/cadence.ts`, `workers/`). *State*: runs,
briefs, the last time of each cadence. *Hard*: a run that waits for the model while
the scheduler or a request starts another. *Correct*: each run keeps its own end.

**Governed launch and outreach** (`routes/level4.ts`). *State*: actions, locks,
checkpoints, dead letters, the site; campaigns, prospects, replies. *Hard*:
connectors awaited between five writes; a send that mails prospects one after the
other while replies come in. *Correct*: outcomes are on file as they went, mails
are counted.

**Autonomous company** (`routes/autonomous-company.ts`). *State*: signals,
experiments, packets, handoffs, plans, cycles. *Interactions*: the handoffs are board
requests, in the file that the routes of the board write. *Correct*: a pivot is put to
approval. (That a deployed
experiment was approved does not hold, see section 4.)

**Meetings and sessions** (`routes/meetings.ts`, `ai-chat.ts`), **board chat**
(`routes/motherboard-chat.ts`). *State*: minutes, sessions, chat jobs. *Hard*: an
answer written over messages said meanwhile; tokens that reach the client before the
turn is stored; deliberations that outlive their request and die with the process.
*Correct*: only such an overlap loses a message; an answer the client was told is over
is in its session; a job that is done has every chair's answer, once.

**Webhooks, federation, crew bridge** (`lib/webhook-delivery.ts`,
`routes/federation.ts`, `crew-bridge.ts`). *State*: subscriptions, deliveries, links
(with whatever status the client sends), the connection. *Hard*: a delivery list read
before the calls and written after. *Correct*: only an overlap or newer records displace
a delivery.

**HTTP platform** (`index.ts`, `lib/idempotency.ts`, `http-security.ts`,
`auth.ts`). *State*: counters and keys, in memory. *Hard*: a key is taken before
its request is carried out, and never given back. *Correct*: one request per key,
a bound on the rate over any window.

**Interview, launch, artifacts, add-ins** (`routes/interview.ts`, `launch.ts`,
`artifacts.ts`, `addins.ts` and what they call). *State*: sessions in memory,
artifacts, pack files, registry, the web build's pages. *Hard*: every step awaits a
model or a download while others confirm, correct or reset. *Correct*: a generated
board has every correction it was confirmed with and every seat; an installed pack
is usable or known to need a rebuild.

**Settings, providers, devices** (`routes/settings.ts`, `inference-broker.ts`,
`devices.ts`, the settings and setup pages of `apps/web`). *State*: the settings,
what each tab shows, broker calls, devices. *Operations*: PUT of the settings by the
pages or by any client, which may send several providers or none. *Correct*: the active
provider is one on file and of a registered kind, whoever saved; broker calls are
accounted for.

**Reports and small stores** (`routes/observability.ts`,
`business-intelligence.ts`, `simulation-board.ts`, `demo.ts`, `feedback.ts`,
`brief-templates.ts`). Pure operators over the other stores, and single writes.

**Persistence** (`lib/persistence.ts`). Atomic JSON writes: `Durable` says that the
k-th write of a handler is there if the handler got that far.

### Not modelled

- Provider adapters, connectors and prompts (`lib/provider`, `packages/connectors`,
  `services/model-native-*`): calls to the outside whose answer is a choice here.
- `rederivePlan` (`pricing.ts`), `runtime-receipts.ts`, `runtime-adapter.ts`,
  `child-runtime-client.ts`, `org-compiler.ts` and the model-native
  chair-targeting, exception-triage, org-action, split-domains,
  response-verification and business-insights: nothing imports or calls them.
- `evals.ts` and `hr-agent.ts` keep nothing; `events.ts`, `onboarding.ts` and the
  listing routes only read.
- `deliverWithBackoff` (`workers/cadence.ts:177-207`): retries of one delivery with
  no state but its own; the memory of ventures (`autonomous-company.ts:866-890`).
- Hash chain, signatures and the keyring (`lib/governance-signing.ts`): opaque here.
- CORS, headers, redaction and path checks: no state.
- The web pages other than settings and setup show what the API answers; the
  testing agent is a development tool.

## 3. Modules

| module | models | abstract or composed with |
|---|---|---|
| `ProviderGate` | the gate and `complete()` through it | implements `CallSemaphore` |
| `CallSemaphore` | what the gate promises: a FIFO counting semaphore with an adjustable limit | |
| `CollectiveGovernance` | votes, ballots, amendments, artifact, contributions, the log's events | the log and persistence inside |
| `JobRunner` | dispatch, job store, runner, agent status | assumes that a job ends, which is `ProviderGate!EveryCallEnds` |
| `BoardRequests` | requests, dispatch, the client call by call, commons-crew | commons-crew as an external part |
| `InferenceGateway` | plan, ceiling, routing, pin, metering | `MCGovernedWork`, `MCCeiling` |
| `ActionControl` | actions, ledger, mode | `MCGovernedWork` |
| `Approvals`, `Observability` | approvals by several people; the reports and small stores beside them | `MCGovernedWork` |
| `Treasury` | money | `MCGovernedWork` |
| `ExecutionEngine` | governed runs, child runtimes | `MCGovernedWork` |
| `Org`, `Catalog`, `Workspace` | blueprint and delegations; specialists, gaps, corrections; runtime overrides | `MCGovernedWork` |
| `Cadence` | runs, briefs, the scheduler, over `Workspace` | `MCGovernedWork` |
| `Provisioning`, `Outreach` | the two halves of `level4.ts` | `MCGovernedWork` |
| `AutonomousCompany` | signals, experiments, the cycle | `MCGovernedWork` |
| `Meetings`, `BoardChat`, `AiChat` | conversations, over `BoardSession` | `MCConversations` |
| `Bridges` | webhooks, crew bridge, federation | `MCConversations` |
| `HttpPlatform` | what stands before every handler | `MCConversations` |
| `Interview`, `Launch`, `Addins` | generation of a board, launch, packs, over `ArtifactStore` | `MCConversations` |
| `ProviderSettings` | settings, their pages, the broker, devices | `MCConversations` |
| `Durable`, `ProcessEnvironment` | `writeJsonAtomic` in a handler that may die; network policy | extended by the above |
| `MC...` | small instances for TLC | |
| `...Proofs` | the theorems of section 5, each module about the one it extends; `ControlProofs` and `GovernedWorkProofs` about the components of `MCGovernedWork` (the gateway, actions, approvals and reports, treasury and cadence in the first, the others in the second) and their composition, `ConversationsProofs` about those of `MCConversations` | |
| `FiniteSums` | lemmas about sums over finite sets and induction on them | extended by the proofs |

Definitions named in a comment as *mutants* are plausible bugs in the code next
to them. They are never part of a specification: each is substituted for its
neighbour to see that a property notices the difference.

**ProviderGate.** `active`, `queue` and `age` are the maps `activeCallCounts`,
`waitQueues` and `lastGrantedAt` of one provider (providers share nothing);
`pc[c]` is where call `c` is suspended. `TakeSlot`/`JoinQueue` are
`acquireConcurrencySlot`, `Pace`/`WakeFromPacing` the rest of
`acquireProviderSlot`, `Release` is `releaseProviderSlot`, and
`Finish`/`RateLimited`/`Retry` are the loop of `complete()`. Time is relative and
discrete: timers fire late, never early, and no time passes while a microtask is
due (`admitted`).

**CollectiveGovernance.** One variable per file. Each action is a route's handler
with all of its writes, in the order of the code, cut anywhere by a crash.
`Outcome` is `resolveVote`'s arithmetic in integers. A vote can be resolved at any
time by an operator: the module's header in the source says "resolve at quorum or
deadline", and `resolveVote` looks at neither before it decides; the model does
what the code does.

**JobRunner.** `job`, `index` and `ledger` are the files; `running`, `agentRunning` and
`activeWorkspaces` the sets in memory; `cap` is what the settings of each workspace's
provider allow, which `EditLimit` changes at any time. `Picks` is what one `tick`
starts: the loop over the workspaces (`Visit`) and over their pending jobs (`Consider`),
early return included. `HasTurn(w)` says that the tick gets to workspace `w`. The order
of `activeWorkspaces` is the insertion order of the JavaScript `Set`.

**BoardRequests.** `list` is the request file, and `call[h].snap` the copy a
handler read before its first await and writes back at its end. Every call of the
client is an action: `LoadRun`, `RequestApproval`, `CreateProposal` propose,
`RecordDecision`, `Execute`, `ReadEvents` decide; `Answer` adds the lost answer
and `CallFails` the call without effect. The act of a proposal is the request's text,
as in the code (`motherboard.ts:57`). PATCH looks up a status in the table unless it is
the empty string, which it stores (`motherboard.ts:191`, `:200`).
*commons-crew* is not in this repository. It is assumed to behave as the client
uses and describes it: an approval is decided once; it is bound to one act; the
same act under the same idempotency key is the same proposal (so that two requests of
one text share theirs). Nothing is assumed
of `execute`, which accepts anything. The bridging of operators' identities is
left out, since its failure never stops a decision.

**The modules of one run.** `MCGovernedWork` and `MCConversations` put components
together. Where one reads another's store the modules are composed (`Launch` over
`Addins` over the artifacts, `Cadence` over `Workspace`, `Observability` over
`Approvals`); where they only call each other, what comes back is a choice. The variable
`running` names the component a behaviour is about, so the states of a run are the sum
of its components' and not their product. That is enough because each module has, for
the files it shares with another component, actions for what the others write there;
nothing else of a component can disturb it:
- `agent_blueprint` is written by the catalog, by the artifacts route, by the interview
  (`interview.ts:460`, `:722`, `:778`), and by the launch and the demo. In `Catalog` the
  others are `ReplaceBlueprint` (any blueprint, at any time) and `BeginRegeneration` /
  `EndRegeneration`, which writes a list read before the model was asked. In `Interview`
  the property is about what that writes. `Org` keeps its own blueprints
  (`org-blueprint/...`), and takes the stored chairs as they are when the organisation
  is set up.
- `board-requests` is written by `motherboard.ts`, by `autonomous-company.ts` and by the
  cadence, which appends to it (`cadence.ts:286`). In `AutonomousCompany` the board's
  routes are `HandoffPosted`, `HandoffMoves` and `BeginRewrite` / `EndRewrite`, which
  writes back a list read before commons-crew was asked. In `BoardRequests` requests
  that the others file are further submissions (they are not logged as such, and no
  property reads that entry).
- The settings of the provider are edited while calls and jobs run (`EditSettings` of
  `ProviderGate`, `EditLimit` of `JobRunner`).

Each module has its own `...Spec` and can be checked alone.

**Handlers that await.** `gcall`, `runners`, `awaited`, `sends`, `minutes`'s pending
answers, `dispatching`, `executions`, `turns`, `pending` hold what a suspended handler
has read; the action that ends it writes that, not what is on file by then. A turn of
the freeform chat passes tokens on (`StreamTokens`) and then stores the turn, the model
and tells the client the end, in this order (`EndTurn`); a provider that breaks off ends
it with an error (`FailTurn`). Whether the tenant a lookup hands out is a copy or the
object itself is left open by `gateway.ts`, and `shared` is chosen once.

**Handlers that die.** `done` counts the writes of a synchronous handler that were
made; every module caps its crashes by a constant of its own, and properties that a
crash breaks say by how much. Files that are written in place can be torn by it (`torn`
in `JobRunner`, `BoardChat` and `AiChat`).

**The autonomy policy.** `normalizeAutonomyPolicy` uses a policy's own action
categories if it has any, and then ignores its disabled capabilities
(`artifact-normalize.ts:17`). The schema of the artifact allows no such field
(`additionalProperties: false`), so the policies TLC is given have none; the module has
the branch and the theorems cover it.

**History.** `said`, `writes`, `ended`, `unseated`, `decisions`, `cutOff`, `ends`,
`mailed`, `handled`, `admitted`, `outsideCalls` record what happened, for the
properties; no guard reads them except to bound them or to take a fresh id.

## 4. Runs

### Passing

| run | instance | what it shows |
|---|---|---|
| `provider_gate` (12,412 states) | 3 calls, a limit that moves between 1 and 2, gap of 2 ticks, one retry | `SlotAccounting`, `QueueOfWaiters`, `NoStrandedWaiter`, `BurstBound`; `EveryCallEnds` under fairness; `ImplementsSemaphore` |
| `governance` (1.03M states) | 2 members, 2 votes, 1 amendment, simple majority and consensus, 50 % quorum, 3 members configured, 2 artifact versions, 1 crash | `NobodyCountsTwice`, `BallotsLostOnlyInCrashes`, `PassedByItsBallots`, `AmendmentsFollowTheirVotes`, `AmendedOnce`, `RecordedFirst` |
| `jobs` (31,952 states) | 2 jobs on hand and no end of them altogether, 2 workspaces whose limits are edited between 1 and 2, 2 agents, 1 crash, torn writes | `RunningJobsAreSound` (an agent runs one job at a time, a running job is on file and in its index), `NothingIsLost`, `JobsOnlyMoveForward`, `StartsKeepToLimit` (jobs are started within the limit of that moment; a limit lowered later stops none), and under fairness `PendingJobsEnd`: once the limits are left alone a pending job the runner can find is run to its end, or the workspaces before its own starve it |
| `board_requests` (1,025,589 states) | 2 requests of the same or of different texts, an empty status among those PATCH may ask for, 2 handlers at a time, 2 approvals, 3 calls after the submissions, 1 roadmap, 1 crash | `NothingExecutesUndecided`, `ExecutedOnce`, `AwaitingIsItsOwn`, `RecordedDecisionsHappened`, `RequestsAreAccountedFor` (the log explains the dispatches, and the roadmap a request names exists) |
| `governed_work` (748,120 states) | 11 components, each with its own bounds, 1 crash each where a handler writes more than once | see below |
| `conversations` (755,077 states) | 8 components, likewise | see below |

| `governed_work` | says, of which code |
|---|---|
| `CapacityHolds` | consumption is what was metered, exactly if the tenant is shared and never more if it is copied; calls within what was declared are never refused (`gateway.ts`, `pricing.ts`) |
| `DecisionsHold` | an action's status is its last ledger entry's, all but one per crash (`actions.ts`); an approval is granted by as many different people as it asks for (`approvals.ts`) |
| `DistributionsHold` | reserve and shares make the total to half a cent a share, in proportion to the roles; a distribution is logged once (`treasury.ts`) |
| `RunsObeyTheirLimits` | teams, departments and chairs stay in the budget of a run; no stage revives what another blocked; runs are logged event by event (`engine.ts`, `execution.ts`) |
| `UnitsHaveChairs` | approved delegations are applied, units without a chair come from delegations only, a gap is closed with a chair, which only the other writers of the blueprint take away (`org.ts`, `interview.ts`) |
| `RunsKeepTheirEnd` | overlapping runs do not change each other's record (`cadence.ts`) |
| `OperationsAreOnFile` | no action of a launch is half done while the process lives, mails are counted (`level4.ts`), pivots are put to approval (`autonomous-company.ts`) |

| `conversations` | says, of which code |
|---|---|
| `LostToOverlapOnly` | messages and deliveries leave their lists by an overlapping write or for newer ones, never otherwise (`meetings.ts`, `webhook-delivery.ts`); of the freeform chat, an answer the client was told is over is in its session, one it was told has failed is in none, and what was stored or lost untold is a crash's doing (`ai-chat.ts`) |
| `RequestsAreHeld` | a key passes one request while the process lives; within any window at most twice the limit passes (`idempotency.ts`, `http-security.ts`) |
| `BoardIsWhole` | generated artifacts reflect every correction the user had been told of; every required seat is filled (`interview.ts`) |
| `InstalledMeansUsable` | pages of an installed pack are served, asked for or dismissed, but for a crash before the flag; what a launch needs (`addin-install.ts`, `launch.ts`) |
| `DoneMeansDeliberated` | a job that is done has every chair's answer once and is logged; jobs that are stuck or torn are a crash's doing (`motherboard-chat.ts`) |

**Why the bounds are enough.** Three calls over a limit of one or two are the smallest
number with a holder, a queue of two (so that order matters), and a limit raised or
lowered under both; one retry exercises the whole backoff loop, whose length only
repeats it. Two members give a single, an even and a unanimous tally; three configured
members with a quorum of a half make the rounding up matter, and one artifact version
more or less changes the quorum under an open vote. Two votes let an amendment be put to
a vote while an operator's own vote is open beside it, and be put to a second one after
a crash. (Nothing in the code reads a vote's `decision_id` back; letting operators open
votes on the amendment's own id as well, 2.7M states, changes nothing.) Other method
pairs ({simple_majority, supermajority}) and all three together were also run and hold
(2.3M states); the configuration keeps two so as to stay quick. Two jobs on two agents
of two workspaces contain every pair that may or may not run together, and one that has
to wait, with the early return of the tick in front of a second workspace. A fixed
number of jobs in all would hide that this return can starve the second workspace;
`MCJobRunner` therefore gives the number of a job that is over to another (`Recycle`),
so that only the jobs on hand are bounded: with a limit of one and a job always ready in
the first workspace the second is never visited, and `PendingJobsEnd` without its
exception is violated. With three jobs on hand (1.9M states) the safety properties and
action properties hold too. Requests of one text share an act and so an approval, those
of two do not. Two handlers that wait and a third, synchronous, one between them contain
every lost update of the list. Three calls are a proposal and two racing decisions, or a
proposal, a decision and a status change.

In the two composed runs every component has the smallest instance in which its hazard
happens: two calls, dispatches, runners, installers or turns that overlap, so that one
begins before the other ends and ends after it; two actions (one rerun of the other);
one distribution among four roles, of an amount no division goes into; two teams in one
department under one chair, with caps below what both spend; two versions of a blueprint
kept, so that a rollback brings back a deleted unit; windows of one tick with three
ticks of time, so that two windows touch; two mails with a reply between; two packs, one
with pages and one whose schemas a launch needs, and two installers that overlap and
miss at most one file of a pack (`MaxMissing`; without that bound the launch has 802,000
states instead of 444,000, and holds too). Each property was seen violated by a plausible bug in the code at these bounds. Lists that
the code cuts (500 deliveries, 10 briefs) are cut at one or two, so that the cut
happens.

One crash is enough for every single point of failure; a second crash finds
states of the same kind, as the handlers keep nothing in memory except what
`Restart` clears.

The writers of shared files (section 3) are small too: two blueprints that leave out a
chair each, one handoff list about to be written back.

Symmetry is used where only invariants or action properties without a fixed
order of ids are checked (`governance`, `board_requests`), never with liveness.
`CHECK_DEADLOCK FALSE` is given where a bounded system really stops: all votes
used up, all jobs over, all calls spent. `provider_gate` checks deadlock.

### Fairness

`ProviderGate!Fairness`: the clock advances (`WF(Tick)`), the event loop runs a
call that is due (`WF(Step)`), and the provider answers or the request fails
(`WF(Answer)`): hosted adapters abort after 240 s, and fetch gives up on a silent
local server. Weak fairness is enough because each action stays enabled until it
is taken. A harness command that never exits is outside the assumption, and does
hold its slot for ever.
`JobRunner!Fairness`: `setInterval` keeps ticking, and a job that runs ends, since
it is a bounded loop of calls to `complete()`, which end. Nothing forces anyone to
dispatch, cast, decide or edit.
All other modules have no fairness: they promise safety alone, an operator may
always do nothing, and a model, a connector or a peer may never answer.

### Runs that find a disagreement between the code and what is said about it

| run | says | finds |
|---|---|---|
| `log_before_action` | `decision-log.ts:4-5`: every event is logged BEFORE its action executes | `resolveVote` saves the vote first; a crash leaves a resolved vote the log never mentions |
| `provider_spacing` | `model-client.ts:47-49`: a minimum gap between consecutive grants | calls that sleep through the same gap are granted together. What holds instead is `BurstBound`: as many grants per gap as there are slots |
| `worker_status` | `workers.ts:128-129`: the live job store is consulted | only for the oldest open task, so an agent at work is shown as ready |
| `status_table` | `board-orchestration.ts:200-213`: the table of status transitions | a handler that waited writes back the list it had read: approved becomes submitted again |
| `auto_dispatch` | `motherboard.ts:175-177`: requests that did not opt in behave as before | approving a request whose dispatch was proposed by hand logs an automatic proposal |
| `ceiling` | `inference-gateway/types.ts:136-138`: the gateway refuses the (N+1)th token, no soft limits | two calls under way together pass the check with the same consumption and run both. What holds instead is `CapacityHolds` |

Smaller things noticed on the way, which no run is spent on:
`verifyLog` says that it verifies signatures and checks hashes only
(`decision-log.ts:60-72`); an amendment whose payload the schema refuses is marked
applied and stays so without an artifact (`amendments.ts:129`); a dispatch for a
second request is refused while the chair's approval is bound to a first, where
the comment at `commons-crew-client.ts:112-117` promises a fresh one; after a
restart only the default workspace is polled until a task is dispatched in another
(`agent-job-runner.ts:182`).
Tokens of a call refused for its version are spent and not metered, and so not in what
`CapacityHolds` speaks of
(`gateway.ts:139`); a distribution to nobody with a share books the whole amount and
pays no one (`treasury.ts`); a request that failed cannot be tried again under its
idempotency key; the kill switch of `workspace.ts` has a record of its own
(`:241`) that the engine does not read; the cache of catalog specs is never
refreshed (`labor-commons-client.ts:182`); the settings page shows "saved" when its
call did not get through (`settings/page.tsx:143`, `lib/api.ts` reports status 0);
the weekly cycle pivots at once when there are no experiments
(`autonomous-company.ts`); a chat job whose process died is polled for ever, or, if it
died writing it, is gone.
An action is denied whatever its status, one that was approved included (`actions.ts:382`),
where the list of routes says "deny a REQUESTED action" (`actions.ts:11`); the budgets
that are named daily are those of a run, and a second run of the day spends them again
(`engine.ts:260-281`); likewise the daily cap of mails is one of a send
(`level4.ts:1292`), which no property covers beyond `MailsAreCounted`; a policy with
categories of its own would make the engine ignore its disabled capabilities
(`artifact-normalize.ts:17`). The table of statuses lets a triaged request be blocked and a
blocked one be executing (`board-orchestration.ts:202`, `:206`), and what is executing is
deployed: an experiment may go out that was never approved, though the route answers
"governance approval required before deployment" (`autonomous-company.ts:673-675`).
The tick returns at the first workspace whose limit is
reached, so that a busy one starves those after it (`agent-job-runner.ts:191`). PATCH of a
board request stores an empty status, from which the table leads nowhere
(`motherboard.ts:191`, `:200`). A federation link has whatever status the client sends
(`federation.ts:137`). The freeform chat sends its tokens before the turn is stored
(`ai-chat.ts:234`, `:242`): a client may have read an answer that is in no session. Two
distributions may promise the same balance (`treasury.ts:287`): `DistributionsHold` speaks
of each alone.

## 5. Proofs

TLC checks the runs' properties on small instances; the theorems hold for every
value of the constants that the named `ASSUME` of the module allows. Nothing else
is assumed. The bounds (`MaxCalls`, `MaxCrashes`, ...) are constants like the
others, so a theorem is about any number of crashes, calls or retries.

| module | theorem | states `Spec => []...` |
|---|---|---|
| `ProviderGateProofs` | `GateInvariant` | its inductive invariant |
| | `TypeCorrect` | `TypeOK` |
| | `SlotsAreCounted` | `SlotAccounting`: the counter is the number of calls holding a slot |
| | `WaitersAreNotStranded` | `NoStrandedWaiter` |
| | `QueueIsExact` | `QueueOfWaiters` |
| | `BurstsAreBounded` | `BurstBound`: as many grants per gap as there are slots |
| | `GateIsASemaphore` | `Spec => ImplementsSemaphore`: the refinement of `CallSemaphore` |
| `BoardRequestsProofs` | `BoardInvariant`, `TypeCorrect` | its inductive invariant, `TypeOK` |
| | `UndecidedIsNotExecuted` | `NothingExecutesUndecided` |
| | `OneRunPerApproval` | `ExecutedOnce` |
| | `AwaitedApprovalIsOwn` | `AwaitingIsItsOwn` |
| | `RecordsAreTrue` | `RecordedDecisionsHappened` |
| | `RequestsAccountedFor` | `RequestsAreAccountedFor` |
| `CollectiveGovernanceProofs` | `GovernanceInvariant`, `TypeCorrect` | its inductive invariant, `TypeOK` |
| | `EverythingWasRecorded` | `RecordedFirst` |
| | `OneMemberOneVote` | `NobodyCountsTwice` |
| | `CrashesLoseOneEach` | `BallotsLostOnlyInCrashes` |
| | `BallotsDecide` | `PassedByItsBallots` |
| | `AmendmentsObeyVotes` | `AmendmentsFollowTheirVotes` |
| | `OneChangePerAmendment` | `AmendedOnce` |
| | `ResolutionIsFinal` | `Spec => ResolvedVotesAreFinal`, an action property that no run checks |
| `JobRunnerProofs` | `TypeCorrect` | `TypeOK` |
| | `RunningJobsSound` | `RunningJobsAreSound` |
| | `StartsKeep` | `Spec => StartsKeepToLimit`, an action property |
| | `NothingLost` | `NothingIsLost` |
| | `JobsMoveForward` | `Spec => JobsOnlyMoveForward`, and that a job that is over is not touched: action properties |
| `ControlProofs` | `CapacityIsHeld` | `CapacityHolds` |
| | `RunsKeepEnds` | `RunsKeepTheirEnd` |
| | `MoneyIsDivided` | `DistributionsHold` |
| | `ApprovedByThatMany` | `ApprovedByEnough`, of `ApprovalSpec` |
| | `ActionsAreExplained` | `LedgerExplainsActions`, of `ActionSpec` |
| `GovernedWorkProofs` | `OutcomesFiled` | `OutcomesAreOnFile`, of `ProvisioningSpec` |
| | `MailsCounted` | `MailsAreCounted`, of `OutreachSpec` |
| | `CompanyIsTyped` | `CompanyTypeOK` and `PivotsAreAsked`, of `CompanySpec` |
| | `OrgIsSound` | `OrgTypeOK`, `ApprovedIsApplied` and `OrphansWereDelegated`, of `OrgSpec` |
| | `GapsHaveChairs` | `CatalogTypeOK` and `ClosedGapsHaveChairs`, of `CatalogSpec` |
| | `RunsAreLimited` | `EngineTypeOK` and `RunsObeyTheirLimits`, of `EngineSpec` |
| | `DecisionsAreHeld` | `DecisionsHold`, of `MCGovernedWork` |
| | `ControlsAreKept` | `CapacityHolds`, `DistributionsHold` and `RunsKeepTheirEnd`, of `MCGovernedWork` |
| | `OperationsStayOnFile` | `OperationsAreOnFile`, of `MCGovernedWork` |
| | `UnitsKeepChairs` | `UnitsHaveChairs`, of `MCGovernedWork` |
| | `RunsKeepTheirLimits` | `RunsObeyTheirLimits`, of `MCGovernedWork` |
| | `WorkIsTyped` | `WorkTypeOK`, of `MCGovernedWork` |
| `ConversationsProofs` | `RequestsHeld` | `RequestsAreHeld`, of `HttpSpec` |
| | `DoneIsDeliberated` | `DoneMeansDeliberated`, of `ChatSpec` |
| | `BoardStaysWhole` | `BoardIsWhole`, of `InterviewSpec` |
| | `InstalledIsUsable` | `InstalledMeansUsable`, of `LaunchSpec` |
| | `RepliesStay` | `AiTypeOK` and `RepliesAreKept`, of `AiSpec` |
| | `MinutesLoseToAnswersOnly` | `LostToAnAnswerOnly`, of `MeetingSpec` |
| | `DeliveriesLoseToOverlapOnly` | `DeliveryLostOnlyToOverlap`, of `BridgeSpec` |
| | `LostToOverlap` | `LostToOverlapOnly`, of `MCConversations` |
| | `ConversationsAreSound` | all of the run's invariants but the type, together |
| | `TalkIsTyped` | `TalkTypeOK`, of `MCConversations` |

The lemmas about sums that these cite are proved in `FiniteSums`, see below.

Each proof module opens with its inductive invariant, has one lemma per action
(or per kind of change that several actions make), puts them together in a lemma
about `Next`, and ends with the theorems. TLC found every inductive invariant to
hold on an instance of its run before it was proved. Why the properties need
strengthening is the interesting part:

**ProviderGate.** None of the properties is inductive alone. `SlotAccounting`
survives a release only if the call that is woken did not hold a slot, that is, if
the queue holds waiting calls only, each once (`QueueOfWaiters`).
`NoStrandedWaiter` survives a release because the caller itself is among the
counted (`SlotAccounting`), so the `Math.max(0, ...)` of the code never cuts
anything off and the woken call takes over the slot. `BurstBound` says nothing of
the calls asleep; its invariant (`BurstInv`) counts, with the calls granted in the
last ticks, those whose sleep ends within the same gap: together they fit the
slots, since a call that reads `lastGrantedAt` later sleeps longer.
The refinement maps the gate's queue and holders to the semaphore's; every step of
the gate is a step of it or none, by the same invariant.

**BoardRequests.** A handler reads the request file, awaits calls to
commons-crew, and writes its copy back, however old it is. That is sound only
because what an entry says of its dispatch is never undone: an approval decided
stays decided, a child run recorded stays recorded, the log only grows. The
invariant (`CopiesHold`) therefore says of every copy in flight what it says of the
file, and of each handler what its place in the code has established
(`HandlersHold`). Of a dispatch that awaits a decision it says that its approval is bound
to the text of its request. `ExecutedOnce` needs `OneExecutes`: of two handlers about to
execute, no two are for one approval, since commons-crew decides an approval once.

**CollectiveGovernance.** A ballot is two writes, so a tally may miss one; that the
ballots missing are at most the crashes is a statement about a sum over the votes,
and one ballot more or one crash more changes one term by one (`SumChange`,
`CountByKey`). `PassedByItsBallots` follows from the invariant that a vote that
passed was carried by the tally it still has (`PassedWasCarried`) and from the sum:
without a crash the tally is the ballots.

**JobRunner.** What one tick starts is a fold over workspaces, of a fold over their
pending jobs, of an early return. No induction over data can be cited here, so the proof
shows by hand that a left fold has a value and that the value keeps whatever the loop
body keeps (`FoldExists`), and that the picks of a tick are good whichever order the
workspaces are in (`PicksAreGood`): no agent twice, none that is at work, and of each
workspace no more, with those under way there, than its limit allows at that moment.
That is why `StartsKeepToLimit` speaks of the step that starts jobs: a limit lowered
afterwards leaves more under way than it allows. The invariant joins to the type what
the index, the sets in memory and the status files say of each other (`IndexIsSound`,
`AgentsAreSerial`, `UnderWayIsRecorded`, `KeptWhileAlive`).

**InferenceGateway.** A call adds its tokens to a consumption it read before the
await. That consumption never exceeds what was metered is inductive only with
`WaitingSawLess`: what a waiting call saw does not exceed what is metered by now.
That calls within the declared capacity are never refused is arithmetic: the
tokens metered, sorted by artifact, are below the sum the ceiling was derived
from (`SumByKey`), and the margins of `pricing.ts` are rounded up.

**HttpPlatform.** The limiter keeps a counter and a start per path; the property
speaks of any window. The invariant relates the counter to the times of the
requests that passed: the last `count` came in its window, those before not
later than it began, and those that `maxRequests` others separate from it more
than a window before. So any two with `2 * maxRequests` between them lie more than
a window apart, and no window holds more than that.

**Cadence.** The records of the runs are the last `KeepRuns` of all, and each shows
how its run ended; the run of a waiting runner is its own and "running", so that
ending it changes one record, or none when it was cut off the list by then.

**Treasury.** Every share is rounded for itself. A rounded share is off by half a
cent; by induction on the members the sum of `n` of them is off by `n` halves, and
comparing two members' shares crosswise leaves the weights' own sum. That the log
names a distribution once, and that those executed and not named are at most the
crashes, is inductive as it stands.

**Approvals and ActionControl.** An approval is on file as approved because enough
people approved: the responses of a request that nobody rejected all approve and are
of different people, so their number is a number of people. In the ledger one entry
adds or explains one action, and the entry is the handler's second write: a crash
between the two leaves one action that the ledger does not explain, which is counted.
That `DecisionsHold` in `MCGovernedWork` follows because a step of another component
leaves both stores alone; the composed theorems about the components below follow in
the same way.

**Provisioning.** An approval writes its record, awaits calls outside one by one, and writes
how it ended in four places. `OutcomesAreOnFile` speaks of the time before the first crash,
and until then (`OneOutcome`) an action is executing exactly if a handler is in flight for
it, that handler has made exactly the calls of the steps it went through, a pending action
has made none, and nothing on the log, in the dead letters or among the external writes is
about an action that is not on file.

**Outreach.** A send reads its campaign's count, mails, and writes the count plus what
it mailed. The lock `outreach.campaign.<id>.send` keeps other sends from writing in
between, so the invariant (`Counted`) is that the count a send in flight has read is
still the campaign's; what it mailed since, and what was mailed by sends that broke off,
is the rest. The model keeps of a send in flight how many of its mails are not taken
yet: whom they go to is read by nobody after the list was made.

**AutonomousCompany.** A pivot is recorded before the packet that asks for it is filed, so
the pivots nobody was asked about are at most the crashes: the one cycle that a crash cut
off between the two writes leaves one. That needs nothing of the handoffs, which the
board's routes may rewrite from an old list at any time; of them, and of the lists about to
be written back, the invariant says their types only. The rest is that the records are what
the code writes, which takes the arithmetic of the evaluation and of the plan (scores and
streaks in range, a burn that is never negative).

**Org.** `ApprovedIsApplied` and `OrphansWereDelegated` speak of the latest blueprint, and
a rollback makes any kept version the latest. So the invariant says of *every* version on
file that each department and team has its chair or an id that a delegation made
(`applyDelegation` takes whatever chair and parent it is given, and the removal of a chair
with its units can only remove more of them), and that what is on file as approved is such
an id.

**Catalog.** A gap is written open, then its chair is seated, then the gap is written
closed. The catalog itself only changes or adds chairs and touches no chair's domain;
the others who write the blueprint replace the chairs, or put back a list read before,
and the gaps that lose theirs by such a write are recorded (`unseated`). So the
invariant says of a closed gap that it has a chair or is one of those, through every
list on its way; the types need that no version of a specialist known in memory or to
the last sync is newer than the file.

**ExecutionEngine.** The budgets are enforced agent by agent, in one loop that carries the
spend of the agents let through so far. The proof is about the function `ChargedAfter`,
whose value after every agent keeps each department, chair and team within its cap.
That needs that two agents of one department have the same department cap (and so for
chairs), which `EngineAgents` establishes because units are found by id. What the
financial policy then blocks only takes agents away: what is let through is a subset of
what was charged, so its sums are no larger (`FiniteSums`). That the log holds as many
events of a run as its record states needs the ids of the runs to be fresh; they are, as
each run in the log is one on record or one that a crash cut off.

**The types of the governed work.** `WorkTypeOK` is about the eleven components one by
one; the places where it is more than types are these. The settings of a workspace keep
all their fields through any patch (`WorkspaceKeeps`), and the briefs on file are the
last ones only, however many runs write theirs (`BriefsBounded`). A distribution's
shares are not negative because its reserve, rounded, is at most its total
(`ReserveFits`). An action that was written in part when the process died still has a
status, a stage and an approval the routes know (`PatchedOutcomes`): a field is what the
last of the writes made left in it, and a pending action is one that no handler waits
for, so that retrying it loses no call (`OneTyped`). Whoever is among the interested
contacts has a reply that says so (`RepliesInv`), and a send in flight has a mail left
(`Flight`). Of the reports, the score of `GET /quality` is a percentage because no run
blocks more actions than it has (`RunTotals`), and a workspace is "compliant" only with
a chair and without the kill switch, since all four checks must pass.

**BoardChat.** In a live job every chair is in one place: waiting for its turn, asked,
or answered (`JobHolds`). None waits unless another is asked, so that the last answer
finds nobody left, and the answers on file are those that came, in their order. Jobs
that are under way and not in memory, and job files that are torn, are a crash's doing.

**Interview.** Corrections are read before the model is called and written after it.
What the user was told is among the corrections by then; a confirmation that waits is
owed what had been told when it began, and applies at least that. A regeneration in
flight holds the blueprint it read, which has its seats and the domain it is to
replace, so putting it back keeps the board whole.

**Launch and Addins.** A page is in the build only if its files are on disk, so that a
rebuild never drops an installed one: a registered page that is not served is asked
for or was dismissed, unless the process died between the registry and the flag. Every
artifact type is on file once a launch is logged as written, since the log is the last
write of a batch and nothing is ever removed.

**AiChat, Meetings, Bridges.** All three read, wait and write. A turn reads its session
*again* before it writes, so that the session's messages are turns that ended, in the
order they did. What the client was told of each is fixed when it ends, after the write:
a turn of which it was told the end is in its session unless a crash tore the file
(`ToldOnFile`), one of which it was told an error wrote nothing, and each of which it
was told nothing cost a crash. An answer to a meeting and a webhook dispatch write the
list they read. Their invariant (`KeptOf`, `OnRecord`) says of the list in flight what
the property says of the one on file, with "now" replaced by the time it was read: what
is not in it was overwritten before, or came later and is then lost to this very write.
For the deliveries the entries are in the order of their dispatches, so that what the
cut of the list takes away is older than all it leaves.

**The types of the conversations.** `TalkTypeOK` is more than types in three places. An
artifact is logged and then filed: `WritesAreLogged` counts the writes that only the log
tells of by the crashes, and survives a batch of any length because a batch that is not
cut off ends after a filing (`LoggedStill`); where a batch is refused is a least place,
which exists by the well-foundedness of the numbers (`ReachIsNumber`). Only packs that
have pages are built or asked for because what an install has yet to fetch of a pack is
what its manifest lists (`AddinFiles`), and a pack is registered once because an
uninstall takes out one place of a list that has none twice (`WithoutPlace`). Minutes
have only what was said since every list a handler has read has (`MeetingTalk`).

**Settings.** The invariant (`SettingsInv`) says of the settings on file that the active
provider is among them and of a kind that has an adapter (`SettingsHold`). Any client may
send any providers, so this rests on the check of what the merge would leave and not on
what a page sends; a page names a provider there is (`PagesHold`).
The broker's counts never add up to more than the requests that were made.

**Sums and induction.** The library's induction theorems cannot be applied here
(they take the property as an operator, which the installed provers do not
instantiate). `FiniteSums` proves induction on the subsets of a finite set with the
property given as the *set* of subsets that have it, from the well-foundedness of the
natural numbers, and with it that `SumFunctionOnSet` has a value, that the order
of its terms does not matter, and the facts the other modules cite. A list's filter is
`Kept` (`Durable`): the elements at a set of places, in their order. `GovernedWorkProofs`
shows by the same induction that a finite set of places can be enumerated
(`Enumerated`), and with it what a filter keeps and that it adds nothing.

**The assumptions.** Where a proof showed that a theorem needs one, it was added to the
module and is what the code gives: `JobRunner` has at least one agent and limits of at
least one (a provider's lanes, `model-client.ts`), `CollectiveGovernance` finitely many
members, answers and votes, `Treasury` finitely many members, `InferenceGateway`
finitely many calls and artifacts and a pinned version that there is, `Observability`
runs that block no more actions than they have, `BoardChat` chairs that are different
and messages that are of `BoardMessage`, `Interview` replies that are lists of domains,
`Meetings` texts that are of `BoardMessage`, `Org` finitely many required domains and
stored chairs that are a list, `Catalog` seated chairs that are a list and blueprints of
others whose chairs are a list, and files that have a version, `AutonomousCompany`
outcomes and metrics that are whole numbers, `ExecutionEngine` chairs and teams that are
lists in which an id occurs once (the engine keeps both in maps by id, `engine.ts:107`
and `:326`) with whole numbers for caps, and names for "no department" and "no category"
that no department and no forbidden category has, `ProviderSettings` clients that send
providers there are.

**Model-checked only.** Liveness (`EveryCallEnds`, `PendingJobsEnd`), because the
prover does not treat fairness. Every safety invariant and every action property that
a passing run checks is also a theorem.

## 6. Plan

No module uses recursive operators, so that all of them can be proved about.

To model next: in `BoardRequests`, chair registration and autonomy tiers, and a
statement of whose child run is recorded (`commons-crew-client.ts:370`); the
retries of `deliverWithBackoff`; an abstract metered service for
`InferenceGateway` to implement.
