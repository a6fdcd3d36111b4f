---------------------------- MODULE ExecutionEngine ----------------------------
(***************************************************************************)
(* Governed execution: agent-runtime/execution/engine.ts with the read     *)
(* boundary lib/artifact-normalize.ts, and the routes of                   *)
(* routes/execution.ts that run it and keep child runtimes.                *)
(*                                                                         *)
(* A run is synchronous: the agents of the blueprint each get an action,   *)
(* the policy, the organisation's envelope and the financial policy decide *)
(* on it one agent after the other, every decision is logged, and the run  *)
(* record is written last; `done` of these writes happen before the        *)
(* process dies.                                                           *)
(*                                                                         *)
(* An absent cap or ceiling is one that nothing reaches (Unlimited).       *)
(* Chairs, teams and departments are found by their ids, which are         *)
(* distinct; "board" stands for no department, "none" for no team and for  *)
(* spending of no category.                                                *)
(***************************************************************************)
EXTENDS Integers, Sequences, FiniteSets, SequencesExt, FiniteSetsExt, Durable

CONSTANTS Setups,       \* the artifacts a workspace may have (see EngineAssumption)
          ChildIds, ChildWorkspaces,
          MaxRuns, MaxChildEvents, MaxEngineCrashes  \* bounds

Unlimited == 1000000
ExecutionModes == {"advisor", "orchestrator", "autopilot"}
NoScope == [mode |-> "keep", forbidden |-> {}, overrides |-> <<>>]

KnownById(units) == \A j, k \in DOMAIN units : units[j].id = units[k].id => j = k
Capped(units) == \A k \in DOMAIN units : units[k].cap \in Int

ASSUME EngineAssumption ==
    /\ {MaxRuns, MaxChildEvents, MaxEngineCrashes} \subseteq Nat
    /\ \A s \in Setups :
         /\ s.policy.mode \in ExecutionModes
         /\ DOMAIN s = {"policy", "chairs", "teams", "departments", "scopes", "finance"}
         /\ s.chairs \in Seq(Range(s.chairs)) /\ s.teams \in Seq(Range(s.teams))
         /\ KnownById(s.chairs) /\ KnownById(s.teams)
         /\ Capped(s.chairs) /\ Capped(s.teams) /\ Capped(s.departments)
         /\ "board" \notin DOMAIN s.departments /\ "none" \notin s.finance.forbidden

VARIABLES setup,         \* the artifacts of the workspace
          processKilled,    \* CB_KILL_SWITCH of the process
          runs,          \* execution-runs/<workspace>
          engineLog,     \* the decision log's events of these routes
          lastRun,       \* the agents of the last run and what was decided
          children,      \* child-runtimes/<workspace>
          engineCrashes  \* handlers cut short by a crash

engineVars == <<setup, processKilled, runs, engineLog, lastRun, children, engineCrashes>>

EngineInit ==
    /\ setup \in Setups
    /\ processKilled \in BOOLEAN
    /\ runs = <<>> /\ engineLog = <<>>
    /\ lastRun = [agents |-> <<>>, decisions |-> <<>>]
    /\ children = <<>>
    /\ engineCrashes = 0

-----------------------------------------------------------------------------
(* Actions, their risk and what they spend (the ones that differ in kind). *)
actionTypeForDomain(domain) ==
    CASE domain = "growth" -> "run_growth_experiment"
      [] domain = "finance" -> "create_budget_tasks"
      [] domain = "legal" -> "create_compliance_tasks"
      [] OTHER -> "create_tasks"

baseRisk(action) ==
    CASE action = "run_growth_experiment" -> 80
      [] action = "create_budget_tasks" -> 55
      [] action = "create_compliance_tasks" -> 60
      [] OTHER -> 25

financialSpendProfile(action) ==
    IF action = "run_growth_experiment" THEN [category |-> "advertising spend", amount |-> 100]
    ELSE [category |-> "none", amount |-> 0]

(* The action categories that go with an autonomy mode.                    *)
CategoriesOf(mode) ==
    LET pilot == mode = "autopilot"
        supervised == IF mode = "advisor" THEN {} ELSE {"orchestrator", "autopilot"}
        category(modes, approvals) == [modes |-> modes, approvals |-> approvals, forbidden |-> FALSE]
    IN  [c \in {"create_tasks", "create_budget_tasks", "create_compliance_tasks", "run_growth_experiment"} |->
           CASE c = "create_tasks" -> category(ExecutionModes, 0)
             [] c = "create_budget_tasks" -> category(supervised, IF pilot THEN 0 ELSE 1)
             [] c = "create_compliance_tasks" -> category(supervised, 1)
             [] OTHER -> IF pilot THEN category({"autopilot"}, 0) ELSE category(supervised, 1)]

(* lib/artifact-normalize.ts: the policy artifact as the engine reads it.  *)
(* `disabled` and `categories` hold one value, or none when the artifact   *)
(* has no such field.  Categories of its own are used as they are, and     *)
(* what the artifact disables is then not read.                            *)
normalizeAutonomyPolicy(policy) ==
    IF policy.categories # {}
    THEN [mode |-> policy.mode, forbidden |-> policy.forbidden,
          categories |-> CHOOSE own \in policy.categories : TRUE]
    ELSE [mode |-> policy.mode, categories |-> CategoriesOf(policy.mode),
          forbidden |-> IF policy.disabled = {} THEN policy.forbidden ELSE UNION policy.disabled]

(* A scope overrides the fields of a category it names, may add categories *)
(* and the mode, and can only add to the forbidden actions.                *)
mergePolicy(base, scoped) ==
    LET added == [modes |-> ExecutionModes, approvals |-> 1, forbidden |-> FALSE]
    IN  [mode |-> IF scoped.mode = "keep" THEN base.mode ELSE scoped.mode,
         forbidden |-> base.forbidden \cup scoped.forbidden,
         categories |->
           [c \in DOMAIN base.categories \cup DOMAIN scoped.overrides |->
              LET was == IF c \in DOMAIN base.categories THEN base.categories[c] ELSE added
              IN  IF c \in DOMAIN scoped.overrides THEN scoped.overrides[c] @@ was ELSE was]]

ScopeOf(scopes, key) == IF key \in DOMAIN scopes THEN scopes[key] ELSE NoScope

resolvePolicyForAgent(agent) ==
    mergePolicy(mergePolicy(mergePolicy(
        normalizeAutonomyPolicy(setup.policy), setup.scopes.global),
        ScopeOf(setup.scopes.domains, agent.scope)), ScopeOf(setup.scopes.teams, agent.team))

(* The active chairs - one for strategy is added when no chair, active or  *)
(* not, governs - and then the active teams.                               *)
Governs(chair) == chair.domain \in {"governor", "strategy"}
Active(members) == Kept(members, {k \in DOMAIN members : members[k].status = "active"})

ChairAgent(c) ==
    [id |-> c.id, domain |-> c.domain, scope |-> c.domain, chair |-> c.id, team |-> "none",
     dept |-> "board", cap |-> c.cap, deptCap |-> Unlimited, chairCap |-> c.cap, ceiling |-> c.ceiling]

TeamAgent(t) ==
    LET dept == IF t.dept \in DOMAIN setup.departments THEN setup.departments[t.dept]
                ELSE [domain |-> t.domain, cap |-> Unlimited, ceiling |-> Unlimited]
        OrElse(cap, other) == IF cap = Unlimited THEN other ELSE cap
        chairs == {k \in DOMAIN setup.chairs : setup.chairs[k].id = t.chair}
    IN  [id |-> t.id, domain |-> t.domain, scope |-> dept.domain, chair |-> t.chair, team |-> t.id,
         dept |-> t.dept, cap |-> OrElse(t.cap, dept.cap), deptCap |-> dept.cap,
         chairCap |-> IF chairs = {} THEN Unlimited ELSE setup.chairs[CHOOSE k \in chairs : TRUE].cap,
         ceiling |-> OrElse(t.ceiling, dept.ceiling)]

blueprintAgents ==
    LET synthetic == [id |-> "strategy-1", domain |-> "strategy", status |-> "active",
                      cap |-> Unlimited, ceiling |-> Unlimited]
        chairs == IF \E k \in DOMAIN setup.chairs : Governs(setup.chairs[k])
                  THEN setup.chairs ELSE <<synthetic>> \o setup.chairs
        chairAgents == Active(chairs)
        teamAgents == Active(setup.teams)
    IN  [k \in DOMAIN chairAgents |-> ChairAgent(chairAgents[k])]
        \o [k \in DOMAIN teamAgents |-> TeamAgent(teamAgents[k])]

(* instantiateAgents throws unless somebody governs and two do the work. *)
Runnable(agents) ==
    /\ \E k \in DOMAIN agents : Governs(agents[k])
    /\ Cardinality({k \in DOMAIN agents : agents[k].domain # "governor"}) >= 2

-----------------------------------------------------------------------------
(* The three stages of a decision. *)

governAction(agent) ==
    LET policy == resolvePolicyForAgent(agent)
        action == actionTypeForDomain(agent.domain)
        category == policy.categories[action]
    IN  IF \/ action \in policy.forbidden
           \/ action \notin DOMAIN policy.categories
           \/ category.forbidden
           \/ policy.mode \notin category.modes
        THEN "blocked"
        ELSE IF category.approvals > 0 THEN "requires_approval" ELSE "auto_approved"

SpendOf(agent) == financialSpendProfile(actionTypeForDomain(agent.domain)).amount

(* What the agents charged so far spent under one team, department or chair. *)
Spent(charged, unit, name) ==
    SumFunctionOnSet([a \in charged |-> SpendOf(a)], {a \in charged : a[unit] = name})

(* Mutant: the chair's budget counts the chair's own spending only. *)
applyOrgEnvelopeOwn(agent, decision, charged) ==
    LET spend == SpendOf(agent)
    IN  IF \/ baseRisk(actionTypeForDomain(agent.domain)) > agent.ceiling
           \/ spend > 0 /\ \/ spend > agent.cap
                           \/ Spent(charged, "dept", agent.dept) + spend > agent.deptCap
                           \/ spend > agent.chairCap
        THEN "blocked" ELSE decision

applyOrgEnvelope(agent, decision, charged) ==
    LET spend == SpendOf(agent)
    IN  IF \/ baseRisk(actionTypeForDomain(agent.domain)) > agent.ceiling
           \/ spend > 0 /\ \/ spend > agent.cap
                           \/ Spent(charged, "team", agent.team) + spend > agent.cap /\ agent.team # "none"
                           \/ Spent(charged, "dept", agent.dept) + spend > agent.deptCap
                           \/ Spent(charged, "chair", agent.chair) + spend > agent.chairCap
        THEN "blocked" ELSE decision

applyFinancialPolicy(agent, decision) ==
    LET spend == financialSpendProfile(actionTypeForDomain(agent.domain))
    IN  IF spend.amount = 0 THEN decision
        ELSE IF spend.category \in setup.finance.forbidden \/ spend.amount > setup.finance.cap
        THEN "blocked"
        ELSE IF \/ spend.amount >= setup.finance.approveOver
                \/ spend.category \in setup.finance.approveFor
        THEN IF decision = "blocked" THEN "blocked" ELSE "requires_approval"
        ELSE decision

(* One agent after the other; who passes the envelope is charged, even if  *)
(* the financial policy blocks it after all.                               *)
Enveloped(agent, charged) == applyOrgEnvelope(agent, governAction(agent), charged)

ChargedAfter(agents) ==
    LET charged[k \in 0..Len(agents)] ==
          IF k = 0 THEN {}
          ELSE charged[k - 1] \cup {a \in {agents[k]} : Enveloped(a, charged[k - 1]) # "blocked"}
    IN  charged

runAgentExecution(agents) ==
    LET charged == ChargedAfter(agents)
    IN  [k \in DOMAIN agents |-> applyFinancialPolicy(agents[k], Enveloped(agents[k], charged[k - 1]))]

-----------------------------------------------------------------------------
(* routes/execution.ts. *)

EngineCut(done, all) ==
    /\ done < all => engineCrashes < MaxEngineCrashes
    /\ engineCrashes' = IF done < all THEN engineCrashes + 1 ELSE engineCrashes

Count(decisions, d) == Cardinality({k \in DOMAIN decisions : decisions[k] = d})

(* One event for each decision - "executed" unless it is blocked - and the *)
(* run record after them.                                                  *)
RunExecution(sim, done) ==
    LET agents == Kept(blueprintAgents, {k \in DOMAIN blueprintAgents :
                                           blueprintAgents[k].domain # "governor"})
        decisions == runAgentExecution(agents)
        run == Len(runs) + engineCrashes + 1
        event(k) == [run |-> run, sim |-> sim, agent |-> agents[k].id, decision |-> decisions[k],
                     event |-> IF decisions[k] = "blocked" THEN "action_proposed" ELSE "action_executed"]
    IN  /\ ~processKilled
        /\ run <= MaxRuns
        /\ Runnable(blueprintAgents)
        /\ done \in 1..Len(agents) + 1
        /\ engineLog' = engineLog \o [k \in 1..Min({done, Len(agents)}) |-> event(k)]
        /\ runs' = writeJsonAtomic(done, Len(agents) + 1,
              Append(runs, [run |-> run, sim |-> sim, total |-> Len(agents),
                            blocked |-> Count(decisions, "blocked"),
                            approval |-> Count(decisions, "requires_approval"),
                            auto |-> Count(decisions, "auto_approved")]), runs)
        /\ lastRun' = [agents |-> agents, decisions |-> decisions]
        /\ EngineCut(done, Len(agents) + 1)
        /\ UNCHANGED <<setup, processKilled, children>>

(* A child registered again is replaced, and goes to the end of the list. *)
RegisterChild(id, workspace, done) ==
    LET child == [id |-> id, workspace |-> workspace]
        event == [run |-> 0, sim |-> FALSE, agent |-> id, decision |-> "none",
                  event |-> "federation_linked"]
    IN  /\ Cardinality({k \in DOMAIN engineLog : engineLog[k].run = 0}) < MaxChildEvents
        /\ children' = Append(Kept(children, {k \in DOMAIN children : children[k].id # id}), child)
        /\ engineLog' = writeJsonAtomic(done, 2, Append(engineLog, event), engineLog)
        /\ EngineCut(done, 2)
        /\ UNCHANGED <<setup, processKilled, runs, lastRun>>

EngineNext ==
    \/ \E sim \in BOOLEAN, done \in 1..Len(setup.chairs) + Len(setup.teams) + 2 : RunExecution(sim, done)
    \/ \E id \in ChildIds, workspace \in ChildWorkspaces, done \in 1..2 :
         RegisterChild(id, workspace, done)

EngineSpec == EngineInit /\ [][EngineNext]_engineVars

-----------------------------------------------------------------------------
(* Properties. *)

EngineTypeOK ==
    /\ setup.policy.mode \in ExecutionModes /\ processKilled \in BOOLEAN
    /\ \A k \in DOMAIN engineLog :
         engineLog[k].event \in {"action_proposed", "action_executed", "federation_linked"}
    /\ lastRun.decisions \in Seq({"blocked", "requires_approval", "auto_approved"})
    /\ Len(lastRun.agents) = Len(lastRun.decisions)
    /\ children \in Seq([id : ChildIds, workspace : ChildWorkspaces])
    /\ engineCrashes \in 0..MaxEngineCrashes

Allowed == {k \in DOMAIN lastRun.agents : lastRun.decisions[k] # "blocked"}

(* What a run lets through stays within every budget: the agents that are  *)
(* not blocked spend together no more than the cap of their department,    *)
(* and no more than the cap of their chair, whose own spending counts; a   *)
(* team no more than its own - whatever the order of the agents and the    *)
(* other stages that let them pass or stop them.                           *)
BudgetsHold ==
    \A k \in Allowed :
        LET agent == lastRun.agents[k]
            spending == {lastRun.agents[j] : j \in Allowed}
        IN  SpendOf(agent) > 0 =>
              /\ Spent(spending, "dept", agent.dept) <= agent.deptCap
              /\ Spent(spending, "chair", agent.chair) <= agent.chairCap
              /\ SpendOf(agent) <= agent.cap

(* No later stage revives what an earlier one blocked: an action forbidden *)
(* by the policy - which can be what it disables only as long as it has no *)
(* categories of its own - or by any scope its agent is in, one above its  *)
(* agent's risk ceiling, and a purchase the financial policy forbids are   *)
(* blocked in the end.                                                     *)
BlockedStaysBlocked ==
    \A k \in DOMAIN lastRun.agents :
        LET agent == lastRun.agents[k]
            action == actionTypeForDomain(agent.domain)
            stopped ==
              \/ setup.policy.categories = {} /\ action \in UNION setup.policy.disabled
              \/ action \in setup.scopes.global.forbidden
                   \cup ScopeOf(setup.scopes.domains, agent.scope).forbidden
                   \cup ScopeOf(setup.scopes.teams, agent.team).forbidden
              \/ baseRisk(action) > agent.ceiling
              \/ financialSpendProfile(action).category \in setup.finance.forbidden
        IN  stopped => lastRun.decisions[k] = "blocked"

(* A run on record is in the log, event by event, in the numbers it states; *)
(* events of a run that is not on record are what a crash left.            *)
RunsAreLogged ==
    LET events(r) == {j \in DOMAIN engineLog : engineLog[j].run = r}
        recorded == {runs[k].run : k \in DOMAIN runs}
    IN  /\ \A k \in DOMAIN runs :
             LET logged == events(runs[k].run)
             IN  /\ Cardinality(logged) = runs[k].total
                 /\ runs[k].total = runs[k].blocked + runs[k].approval + runs[k].auto
                 /\ runs[k].blocked = Cardinality({j \in logged : engineLog[j].event = "action_proposed"})
        /\ Cardinality({engineLog[k].run : k \in DOMAIN engineLog} \ (recorded \cup {0})) <= engineCrashes

(* A run obeys every budget and every ban there is, and says so on record. *)
RunsObeyTheirLimits == BudgetsHold /\ BlockedStaysBlocked /\ RunsAreLogged
=============================================================================
