---------------------------- MODULE MCGovernedWork ----------------------------
(***************************************************************************)
(* The components that propose, allow and carry out work, on small         *)
(* instances.  They call each other only through what the constants give,  *)
(* and where two of them write one file each has actions of its own for    *)
(* what the other writes: one of them is at work in a behaviour, and the   *)
(* states of the run are the sum of theirs, not the product.               *)
(***************************************************************************)
EXTENDS InferenceGateway, ActionControl, Observability, Treasury,
        ExecutionEngine, Org, Catalog, Cadence, Provisioning, Outreach,
        AutonomousCompany

VARIABLE running  \* the component at work

(* Values of the constants. *)
DeclaredV == [a \in {"a", "b"} |-> IF a = "a" THEN 10 ELSE 7]
ExpectedV == [a \in {"a", "b"} |-> 1]
PinV == [policy |-> "minor", declared |-> <<5, 2>>]
VersionsV == {<<5, 2>>, <<5, 2, 1>>, <<6>>}

AskedV == {-1, 0, 2}
ObservedV == {[actions |-> 2, blocked |-> 1, approval |-> 1, failed |-> TRUE]}

RoleOfV == [m \in {"s", "c", "m", "o"} |->
    CASE m = "s" -> "steward" [] m = "c" -> "coordinator" [] m = "m" -> "member" [] OTHER -> "observer"]

Chair(id, domain, status, cap, ceiling) ==
    [id |-> id, domain |-> domain, status |-> status, cap |-> cap, ceiling |-> ceiling]
Team(id, cap, ceiling) ==
    [id |-> id, domain |-> "growth", status |-> "active", dept |-> "d", chair |-> "g",
     cap |-> cap, ceiling |-> ceiling]
ScopesV ==
    {NoScope, [NoScope EXCEPT !.forbidden = {"run_growth_experiment"}],
     [NoScope EXCEPT !.mode = "autopilot",
                     !.overrides = [run_growth_experiment |-> [approvals |-> 0, forbidden |-> FALSE]]],
     [NoScope EXCEPT !.overrides = [run_growth_experiment |-> [modes |-> ExecutionModes,
                                                               forbidden |-> TRUE]]]}
Lenient == [NoScope EXCEPT !.overrides = [run_growth_experiment |-> [forbidden |-> FALSE]]]
Policy(mode, disabled) == [mode |-> mode, disabled |-> {disabled}, forbidden |-> {}, categories |-> {}]
SetupsV ==
    {[policy |-> policy,
      chairs |-> <<Chair("g", "growth", "active", ccap, Unlimited),
                   Chair("f", "finance", status, Unlimited, 50)>>,
      teams |-> <<Team("t", tcap, Unlimited), Team("u", Unlimited, 70)>>,
      departments |-> [d |-> [domain |-> "growth", cap |-> 150, ceiling |-> Unlimited]],
      scopes |-> [global |-> NoScope, domains |-> [growth |-> dom], teams |-> [u |-> tm]],
      finance |-> [forbidden |-> ff, cap |-> 500, approveOver |-> 50, approveFor |-> {}]] :
        policy \in {Policy(mode, {}) : mode \in ExecutionModes}
                   \cup {Policy("autopilot", {"create_budget_tasks"})},
        ccap \in {150, Unlimited}, status \in {"active", "paused"},
        tcap \in {50, Unlimited}, dom \in ScopesV, tm \in {NoScope, Lenient},
        ff \in {{}, {"advertising spend"}}}

StoredV == <<[id |-> "x", domain |-> "ops"]>>

ScoreV == [s \in {"a", "b"} |-> IF s = "a" THEN 50 ELSE 60]
OfV == [ops |-> {"a", "b"}, legal |-> {}, security |-> {}]
SeatedV == <<[id |-> "o", domain |-> "ops"], [id |-> "l", domain |-> "legal"]>>
BlueprintsV == {<<Seat("o", "ops", <<[slug |-> "a", pinned |-> TRUE]>>, NoGap)>>,
                <<Seat("l", "legal", <<>>, 1), Seat("o", "ops", <<>>, FreshGap)>>}

VerdictsV == {<<>>, <<"requires_approval", "blocked">>}

UploadsV == {<<"a", "b">>}

OutcomesV ==
    {[lift |-> 0, roi |-> 0, channel |-> "outbound"], [lift |-> -5, roi |-> 10, channel |-> "content"],
     [lift |-> 20, roi |-> 50, channel |-> "outbound"]}
MetricsV == {[date |-> 1, cpa |-> 2000, rest |-> 50000], [date |-> 2, cpa |-> 20000, rest |-> 5000]}

-----------------------------------------------------------------------------
Components == {"gateway", "actions", "approvals", "treasury", "engine", "org",
               "catalog", "cadence", "provisioning", "outreach", "company"}

Init ==
    /\ running \in Components
    /\ GatewayInit
    /\ ActionInit
    /\ ObservabilityInit
    /\ TreasuryInit
    /\ EngineInit
    /\ OrgInit
    /\ CatalogInit
    /\ CadenceInit
    /\ ProvisioningInit
    /\ OutreachInit
    /\ CompanyInit
    /\ running # "gateway" => ~shared
    /\ running # "engine" => ~processKilled /\ setup = CHOOSE s \in SetupsV : TRUE
    /\ running # "provisioning" => enabledAdapters = {"publish", "deploy"}

(* The component c takes the step. *)
Only(c) ==
    /\ running = c /\ UNCHANGED running
    /\ IF c = "gateway" THEN TRUE ELSE UNCHANGED gatewayVars
    /\ IF c = "actions" THEN TRUE ELSE UNCHANGED actionVars
    /\ IF c = "approvals" THEN TRUE ELSE UNCHANGED observabilityVars
    /\ IF c = "treasury" THEN TRUE ELSE UNCHANGED treasuryVars
    /\ IF c = "engine" THEN TRUE ELSE UNCHANGED engineVars
    /\ IF c = "org" THEN TRUE ELSE UNCHANGED orgVars
    /\ IF c = "catalog" THEN TRUE ELSE UNCHANGED catalogVars
    /\ IF c = "cadence" THEN TRUE ELSE UNCHANGED cadenceVars
    /\ IF c = "provisioning" THEN TRUE ELSE UNCHANGED provisioningVars
    /\ IF c = "outreach" THEN TRUE ELSE UNCHANGED outreachVars
    /\ IF c = "company" THEN TRUE ELSE UNCHANGED companyVars

Next ==
    \/ Only("gateway") /\ GatewayNext
    \/ Only("actions") /\ ActionNext
    \/ Only("approvals") /\ ObservabilityNext
    \/ Only("treasury") /\ TreasuryNext
    \/ Only("engine") /\ EngineNext
    \/ Only("org") /\ OrgNext
    \/ Only("catalog") /\ CatalogNext
    \/ Only("cadence") /\ CadenceNext
    \/ Only("provisioning") /\ ProvisioningNext
    \/ Only("outreach") /\ OutreachNext
    \/ Only("company") /\ CompanyNext

vars == <<running, gatewayVars, actionVars, observabilityVars, treasuryVars,
          engineVars, orgVars, catalogVars, cadenceVars, provisioningVars,
          outreachVars, companyVars>>

Spec == Init /\ [][Next]_vars

-----------------------------------------------------------------------------
(* Every component's stores hold what their code writes.                   *)
WorkTypeOK ==
    /\ running = "gateway" => GatewayTypeOK
    /\ running = "actions" => ActionTypeOK
    /\ running = "approvals" => ObservabilityTypeOK
    /\ running = "treasury" => TreasuryTypeOK
    /\ running = "engine" => EngineTypeOK
    /\ running = "org" => OrgTypeOK
    /\ running = "catalog" => CatalogTypeOK
    /\ running = "cadence" => CadenceTypeOK
    /\ running = "provisioning" => ProvisioningTypeOK
    /\ running = "outreach" => OutreachTypeOK
    /\ running = "company" => CompanyTypeOK

(* What was decided about an action or a request is what its records say:  *)
(* the ledger (actions.ts) and the responses of people (approvals.ts).     *)
DecisionsHold == LedgerExplainsActions /\ ApprovedByEnough

(* An organisation's units, gaps and delegations have the chairs they are  *)
(* said to have (routes/org.ts).                                           *)
UnitsHaveChairs == ApprovedIsApplied /\ OrphansWereDelegated /\ ClosedGapsHaveChairs

(* What was done outside - launches, sites, mails - is on file as it went  *)
(* (routes/level4.ts), and a pivot was asked for (autonomous-company.ts).  *)
OperationsAreOnFile == OutcomesAreOnFile /\ MailsAreCounted /\ PivotsAreAsked
===============================================================================
