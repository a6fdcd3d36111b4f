--------------------------- MODULE AutonomousCompany ---------------------------
(***************************************************************************)
(* The autonomy cycle: routes/autonomous-company.ts with the packets of    *)
(* services/rd-orchestrator.ts.  Every handler is synchronous and writes   *)
(* its stores one after the other; `done` writes happen before it dies.    *)
(* The handoffs are board requests, whose own routes write the same file,  *)
(* also from a list they read before commons-crew was asked.               *)
(* Rates and lifts are per cent, money is in cents.                        *)
(***************************************************************************)
EXTENDS Integers, Sequences, FiniteSets, SequencesExt, FiniteSetsExt, Durable

CONSTANTS Outcomes,       \* what experiments are filed with: [lift, roi, channel]
          Metrics,        \* what signals are made of: [date, cpa, rest]
          Today,          \* the date of the daily aggregate
          AskedStatuses,  \* statuses a PATCH asks for
          KeepCycles,     \* 50
          MaxExperiments, MaxSignals, MaxHandoffs, MaxRewrites,
          MaxCompanyRuns, MaxCompanyCrashes  \* bounds

ASSUME CompanyAssumption ==
    /\ MaxExperiments \in 0..3 /\ KeepCycles \in Nat \ {0}
    /\ {MaxSignals, MaxHandoffs, MaxRewrites, MaxCompanyRuns, MaxCompanyCrashes} \subseteq Nat
    /\ AskedStatuses \subseteq {"submitted", "triaged", "planned", "approved", "executing", "blocked",
                               "completed", "rejected", "empty"}
    /\ \A o \in Outcomes : o.lift \in Int /\ o.roi \in Int
    /\ \A m \in Metrics : m.date \in Int /\ m.cpa \in Nat /\ m.rest \in Int
    /\ Today \in Int

VARIABLES signals,      \* market-signals/<ws>
          experiments,  \* experiments/<ws>
          packets,      \* rd-packets/<ws>: how many of each stage
          handoffs,     \* board-requests/<ws>, those with an experiment_id constraint once
          rewriting,    \* lists of them that a route of the board is about to write back
          plan,         \* the last of capital-plans/<ws>
          pivots,       \* pivot-events/<ws>, [reason, asked]: asked when its approval was filed
          shutdowns,    \* how many shutdown-reports/<ws>
          cycles,       \* autonomous-cycles/<ws>
          deployments,     \* experiments the log calls deployed
          companyRuns,  \* reviews and cycles so far
          companyCrashes

companyVars == <<signals, experiments, packets, handoffs, rewriting, plan, pivots, shutdowns,
                 cycles, deployments, companyRuns, companyCrashes>>

Stages == {"validated", "rejected", "active"}
NoPlan == [burn |-> 12000, runway |-> 0, throttled |-> FALSE, amounts |-> <<>>]

CompanyInit ==
    /\ signals = <<>> /\ experiments = <<>> /\ handoffs = <<>> /\ pivots = <<>> /\ cycles = <<>>
    /\ packets = [s \in Stages |-> 0]
    /\ rewriting = {}
    /\ plan = NoPlan
    /\ shutdowns = 0 /\ deployments = {} /\ companyRuns = 0 /\ companyCrashes = 0

CompanyMayDie(cut) ==
    /\ cut => companyCrashes < MaxCompanyCrashes
    /\ companyCrashes' = IF cut THEN companyCrashes + 1 ELSE companyCrashes
    /\ rewriting' = IF cut THEN {} ELSE rewriting

-----------------------------------------------------------------------------
(* Market signals. *)

Clamp(low, high, x) == Max({low, Min({high, x})})

(* computeMarketHealthScore: in thousandths of a point before Math.round;  *)
(* `rest` is what growth, rates and penalties add up to.                   *)
computeMarketHealthScore(m) ==
    Clamp(0, 100, (m.rest + Max({0, 10000 - m.cpa}) + 500) \div 1000)

(* listMarketSignals: newest date first, the later filed of equal dates.   *)
LatestSignal ==
    CHOOSE i \in DOMAIN signals : \A j \in DOMAIN signals :
        \/ signals[j].date < signals[i].date
        \/ signals[j].date = signals[i].date /\ j <= i

addMarketSignal(m) ==
    /\ Len(signals) < MaxSignals
    /\ signals' = Append(signals, [date |-> m.date, cpa |-> m.cpa, score |-> computeMarketHealthScore(m)])

RestUnchanged == UNCHANGED <<experiments, packets, handoffs, rewriting, plan, pivots, shutdowns,
                             cycles, deployments, companyRuns, companyCrashes>>

RecordSignal(m) == addMarketSignal(m) /\ RestUnchanged

(* POST /signals/aggregate-daily: one signal a date, whoever filed it.  The *)
(* cost per acquisition is the burn of the last plan over the interested.  *)
AggregateDaily(rest, interested) ==
    /\ \A i \in DOMAIN signals : signals[i].date # Today
    /\ addMarketSignal([date |-> Today, cpa |-> plan.burn \div Max({1, interested}), rest |-> rest])
    /\ RestUnchanged

-----------------------------------------------------------------------------
(* Experiments and their packets. *)

(* buildRdExperimentPacket *)
StageOf(e) ==
    IF e.lift >= 10 /\ e.roi >= 20 THEN "validated"
    ELSE IF e.lift < 0 \/ e.roi < 0 \/ e.streak >= 2 THEN "rejected" ELSE "active"

PacketsOf(list) == [s \in Stages |-> packets[s] + Cardinality({i \in DOMAIN list : StageOf(list[i]) = s})]

CreateExperiment(o, done) ==
    \E e \in {[lift |-> o.lift, roi |-> o.roi, channel |-> o.channel, status |-> "active", streak |-> 0]} :
        /\ Len(experiments) < MaxExperiments
        /\ CompanyMayDie(done < 3)
        /\ experiments' = writeJsonAtomic(done, 1, Append(experiments, e), experiments)
        /\ packets' = writeJsonAtomic(done, 2, PacketsOf(<<e>>), packets)
        /\ UNCHANGED <<signals, handoffs, plan, pivots, shutdowns, cycles, deployments, companyRuns>>

(* POST /experiments/:id/review: the packet, then a request for the chair  *)
(* of its owner domain, if the blueprint seats one, triaged at once.       *)
ReviewExperiment(i, seated, done) ==
    LET stage == StageOf(experiments[i])
        request == [experiment |-> i, status |-> IF done = 4 THEN "triaged" ELSE "submitted"]
        asks == stage # "active" /\ seated
    IN  /\ asks => Len(handoffs) < MaxHandoffs
        /\ asks \/ done = 4
        /\ companyRuns < MaxCompanyRuns /\ companyRuns' = companyRuns + 1
        /\ CompanyMayDie(asks /\ done < 4)
        /\ packets' = PacketsOf(<<experiments[i]>>)
        /\ handoffs' = IF asks /\ done >= 2 THEN Append(handoffs, request) ELSE handoffs
        /\ UNCHANGED <<signals, experiments, plan, pivots, shutdowns, cycles, deployments>>

(* Where PATCH of a board request lets its status go (board-orchestration.ts). *)
(* It asks the table only for a status that is not the empty string.       *)
handoffTransitions ==
    [submitted |-> {"triaged", "approved", "rejected"},
     triaged |-> {"planned", "approved", "rejected", "blocked"},
     planned |-> {"approved", "blocked", "rejected"},
     approved |-> {"executing", "completed", "blocked"},
     executing |-> {"completed", "blocked"},
     blocked |-> {"triaged", "planned", "approved", "executing", "rejected"},
     completed |-> {}, rejected |-> {}, empty |-> {}]

MayBecome(status) == handoffTransitions[status] \cup {status, "empty"}

(* A request's constraints are its writer's: they name an experiment, or   *)
(* none (0), one that is not on file included.                             *)
About == 0..MaxExperiments

BoardWrites(list) ==
    /\ handoffs' = list
    /\ UNCHANGED <<signals, experiments, packets, plan, pivots, shutdowns, cycles, deployments,
                   companyRuns, companyCrashes>>

(* POST /board/requests *)
HandoffPosted(about) ==
    /\ Len(handoffs) < MaxHandoffs
    /\ BoardWrites(Append(handoffs, [experiment |-> about, status |-> "submitted"]))
    /\ UNCHANGED rewriting

HandoffPatched(k, status, about) == [handoffs EXCEPT ![k] = [experiment |-> about, status |-> status]]

(* PATCH /board/requests/:id without a dispatch *)
HandoffMoves(k, status, about) ==
    /\ status \in MayBecome(handoffs[k].status)
    /\ BoardWrites(HandoffPatched(k, status, about))
    /\ UNCHANGED rewriting

(* A route that waits for commons-crew has read the file: PATCH to         *)
(* approved with a dispatch, or a dispatch or decision of any request.     *)
BeginRewrite(list) ==
    /\ Cardinality(rewriting) < MaxRewrites
    /\ rewriting' = rewriting \cup {list}
    /\ BoardWrites(handoffs)

(* A decision that fails writes nothing. *)
EndRewrite(list, failed) ==
    /\ list \in rewriting
    /\ rewriting' = rewriting \ {list}
    /\ BoardWrites(IF failed THEN handoffs ELSE list)

Handoffs(i) == {k \in DOMAIN handoffs : handoffs[k].experiment = i}

(* Only the oldest handoff of the experiment counts. *)
DeployExperiment(i) ==
    /\ Handoffs(i) # {}
    /\ handoffs[Min(Handoffs(i))].status \in {"approved", "executing", "completed"}
    /\ deployments' = deployments \cup {i}
    /\ UNCHANGED <<signals, experiments, packets, handoffs, rewriting, plan, pivots, shutdowns, cycles,
                   companyRuns, companyCrashes>>

-----------------------------------------------------------------------------
(* POST /cycle/run *)

Underperforms(e) == e.lift < 2 \/ e.roi < 0

(* evaluateExperiments, one of them *)
Evaluated(e) ==
    IF e.status = "killed" THEN e
    ELSE IF Underperforms(e)
         THEN [e EXCEPT !.streak = @ + 1, !.status = IF e.streak >= 1 THEN "killed" ELSE "fail"]
    ELSE [e EXCEPT !.streak = 0, !.status = IF e.lift >= 15 /\ e.roi > 40 THEN "scaled" ELSE "success"]

Evaluation == [i \in DOMAIN experiments |-> Evaluated(experiments[i])]

Killed == {i \in DOMAIN experiments : experiments[i].status # "killed" /\ Evaluation[i].status = "killed"}
Scaled == {i \in DOMAIN experiments : Evaluation[i].status = "scaled"}
Acted == {i \in DOMAIN experiments : Evaluation[i].status \in {"scaled", "killed"}}

(* Vacuously so without experiments, and at the first cycle. *)
NoPositiveWeeks == IF \A i \in DOMAIN experiments : experiments[i].lift <= 0 THEN 4 ELSE 0

MarketScore == IF signals = <<>> THEN 100 ELSE signals[LatestSignal].score

PivotReason == IF MarketScore < 45 THEN "health" ELSE IF NoPositiveWeeks >= 4 THEN "experiments" ELSE "none"

(* createCapitalPlan: a weight is the average ROI of the channel, in sixths *)
(* of a per cent; amounts are rounded to the cent.                         *)
channels == <<"outbound", "content", "partnerships">>

ChannelWeight(channel) ==
    LET matches == {i \in DOMAIN experiments : experiments[i].channel = channel}
    IN  IF matches = {} THEN 120
        ELSE Max({0, MapThenSumSet(LAMBDA i : experiments[i].roi, matches)
                       * (6 \div Cardinality(matches))})

AmountsOf(throttled) ==
    LET total == FoldLeftDomain(LAMBDA acc, c : acc + ChannelWeight(channels[c]), 0, channels)
        share(w) == LET n == 40000 * w
                        d == (IF total = 0 THEN 1 ELSE total) * (IF throttled THEN 2 ELSE 1)
                    IN  (2 * n + d) \div (2 * d)
    IN  [c \in DOMAIN channels |-> share(ChannelWeight(channels[c]))]

PlanFrom(burn, runway) ==
    [burn |-> burn, runway |-> runway, throttled |-> burn > 30000, amounts |-> AmountsOf(burn > 30000)]

NextPlan ==
    IF signals = <<>> THEN PlanFrom(12000, 12)
    ELSE LET cpa == signals[LatestSignal].cpa
             per == Max({100, cpa})
         IN  PlanFrom(5 * cpa, Max({4, (20000 + per) \div (2 * per)}))

ShutdownDue == signals # <<>> /\ MarketScore < 30 /\ NextPlan.runway < 8

(* The writes in their order: experiments, pivot event, its approval, plan, *)
(* shutdown report, packets of the scaled and the killed, the cycle.       *)
RunCycle(done) ==
    /\ companyRuns < MaxCompanyRuns /\ companyRuns' = companyRuns + 1
    /\ CompanyMayDie(done < 7)
    /\ experiments' = Evaluation
    /\ pivots' = IF PivotReason = "none" \/ done < 2 THEN pivots
                 ELSE Append(pivots, [reason |-> PivotReason, asked |-> done >= 3])
    /\ plan' = writeJsonAtomic(done, 4, NextPlan, plan)
    /\ shutdowns' = writeJsonAtomic(done, 5, IF ShutdownDue THEN shutdowns + 1 ELSE shutdowns, shutdowns)
    /\ packets' = writeJsonAtomic(done, 6,
          PacketsOf([i \in Acted |-> Evaluation[i]]), packets)
    /\ cycles' = writeJsonAtomic(done, 7, 
          LET all == Append(cycles, [acted |-> Cardinality(Killed \cup Scaled),
                                     pivot |-> PivotReason # "none", shutdown |-> ShutdownDue])
          IN  IF Len(all) > KeepCycles THEN Tail(all) ELSE all, cycles)
    /\ UNCHANGED <<signals, handoffs, deployments>>

CompanyNext ==
    \/ \E m \in Metrics : RecordSignal(m)
    \/ \E m \in Metrics, interested \in 0..2 : AggregateDaily(m.rest, interested)
    \/ \E o \in Outcomes, done \in 1..3 : CreateExperiment(o, done)
    \/ \E i \in DOMAIN experiments, seated \in BOOLEAN, done \in 1..4 : ReviewExperiment(i, seated, done)
    \/ \E about \in About : HandoffPosted(about)
    \/ \E k \in DOMAIN handoffs, about \in About :
          \E status \in AskedStatuses \cup {handoffs[k].status} : HandoffMoves(k, status, about)
    \/ BeginRewrite(handoffs)
    \/ \E k \in DOMAIN handoffs, about \in About :
          "approved" \in handoffTransitions[handoffs[k].status] /\ BeginRewrite(HandoffPatched(k, "approved", about))
    \/ \E list \in rewriting, failed \in BOOLEAN : EndRewrite(list, failed)
    \/ \E i \in DOMAIN experiments : DeployExperiment(i)
    \/ \E done \in 1..7 : RunCycle(done)

CompanySpec == CompanyInit /\ [][CompanyNext]_companyVars

-----------------------------------------------------------------------------
(* Properties. *)

CompanyTypeOK ==
    /\ \A i \in DOMAIN signals : signals[i].score \in 0..100
    /\ \A i \in DOMAIN experiments :
         /\ experiments[i].status \in {"active", "success", "fail", "killed", "scaled"}
         /\ experiments[i].streak \in 0..2
    /\ \A s \in Stages : packets[s] \in Nat
    /\ \A list \in rewriting \cup {handoffs} : \A k \in DOMAIN list :
         list[k].experiment \in About /\ list[k].status \in DOMAIN handoffTransitions
    /\ \A k \in DOMAIN pivots : pivots[k].reason \in {"health", "experiments"}
    /\ Len(cycles) <= KeepCycles /\ companyRuns \in 0..MaxCompanyRuns
    /\ shutdowns \in 0..MaxCompanyRuns /\ plan.burn \in Nat
    /\ deployments \subseteq DOMAIN experiments
    /\ companyCrashes \in 0..MaxCompanyCrashes

(* A pivot is put to the people's approval, unless the process died between *)
(* the event and the approval.                                             *)
PivotsAreAsked == Cardinality({k \in DOMAIN pivots : ~pivots[k].asked}) <= companyCrashes
=============================================================================
