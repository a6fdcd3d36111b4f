-------------------------------- MODULE Treasury --------------------------------
(***************************************************************************)
(* The organisation's money: routes/treasury.ts (income, contributions,    *)
(* distributions to the members) and routes/billing.ts (revenue events and *)
(* customers).  Amounts are in cents.                                      *)
(*                                                                         *)
(* The handlers are synchronous.  An execution writes the distribution and *)
(* then the decision log, an income event of billing likewise; `done` of   *)
(* the two writes happen before the process dies.                          *)
(***************************************************************************)
EXTENDS Integers, Sequences, FiniteSets, FiniteSetsExt, Durable

CONSTANTS TreasuryMembers,  \* the members a distribution may name
          RoleOf,           \* their roles
          CentAmounts,      \* amounts of requests
          ReserveRates,     \* reserveRateBps; 1000 when the request has none
          RevenueEvents, CustomerStatuses,   \* those of billing.ts in use
          MaxBookings, MaxDistributions, MaxTreasuryCrashes  \* bounds

ASSUME TreasuryAssumption ==
    /\ IsFiniteSet(TreasuryMembers)
    /\ RoleOf \in [TreasuryMembers -> {"steward", "coordinator", "member", "observer"}]
    /\ RevenueEvents \subseteq {"checkout_completed", "payment_received", "invoice_paid",
                                "subscription_started", "subscription_cancelled", "refund_issued"}
    /\ CustomerStatuses \subseteq {"active", "trial", "churned"}
    /\ {MaxBookings, MaxDistributions, MaxTreasuryCrashes} \subseteq Nat

ASSUME AmountsAssumption == CentAmounts \subseteq Nat \ {0} /\ ReserveRates \subseteq 0..10000

VARIABLES books,          \* income, contributions, billing events and customers
          distributions,  \* treasury-distributions/<workspace>
          treasuryLog,    \* the distributions and revenue events that were logged
          treasuryCrashes \* handlers cut short by a crash

treasuryVars == <<books, distributions, treasuryLog, treasuryCrashes>>

TreasuryInit ==
    /\ books = [income |-> <<>>, contributions |-> <<>>, events |-> <<>>, customers |-> <<>>]
    /\ distributions = <<>>
    /\ treasuryLog = <<>>
    /\ treasuryCrashes = 0

Booked == Len(books.income) + Len(books.contributions) + Len(books.events) + Len(books.customers)

(* The handler's second and last write is the log's. *)
TreasuryLogged(done, event) ==
    /\ treasuryLog' = writeJsonAtomic(done, 2, Append(treasuryLog, event), treasuryLog)
    /\ done < 2 => treasuryCrashes < MaxTreasuryCrashes
    /\ treasuryCrashes' = IF done < 2 THEN treasuryCrashes + 1 ELSE treasuryCrashes

-----------------------------------------------------------------------------
(* routes/treasury.ts. *)

(* Mutant: cut off instead of rounded. *)
toFixed2Cut(n, d) == {n \div d}

(* Number((n / d).toFixed(2)), in cents: the nearest ones.  Half a cent    *)
(* goes either way: it depends on the binary fraction.                     *)
toFixed2(n, d) == {q \in {n \div d, n \div d + 1} : 2 * q * d \in (2 * n - d)..(2 * n + d)}

ROLE_WEIGHTS == [steward |-> 3, coordinator |-> 2, member |-> 1, observer |-> 0]
Weight(m) == ROLE_WEIGHTS[RoleOf[m]]
Eligible(members) == {m \in members : Weight(m) > 0}
TotalWeight(members) == SumFunctionOnSet([m \in members |-> Weight(m)], members)

(* What calculateAllocations may answer: a share for every eligible member. *)
calculateAllocations(members, distributable) ==
    LET eligible == Eligible(members)
        shares == [m \in eligible |-> toFixed2(distributable * Weight(m), TotalWeight(eligible))]
    IN  {alloc \in [eligible -> UNION {shares[m] : m \in eligible}] :
           \A m \in eligible : alloc[m] \in shares[m]}

(* computeBalance. *)
ExecutedOnes == {i \in DOMAIN distributions : distributions[i].status = "executed"}
TotalIncome == SumFunctionOnSet(books.income, DOMAIN books.income)
TotalDistributed == SumFunctionOnSet([i \in ExecutedOnes |-> distributions[i].total], ExecutedOnes)
availableForDistribution == Max({0, TotalIncome - TotalDistributed})

RecordIncome(amount) ==
    /\ Booked < MaxBookings
    /\ books' = [books EXCEPT !.income = Append(@, amount)]
    /\ UNCHANGED <<distributions, treasuryLog, treasuryCrashes>>

RecordContribution(m, value) ==
    /\ Booked < MaxBookings
    /\ books' = [books EXCEPT !.contributions = Append(@, [member |-> m, value |-> value])]
    /\ UNCHANGED <<distributions, treasuryLog, treasuryCrashes>>

(* No balance is consulted: a distribution may promise any amount. *)
CreateDistribution(total, rate, members) ==
    /\ Len(distributions) < MaxDistributions
    /\ \E reserve \in toFixed2(total * rate, 10000) :
         \E allocations \in calculateAllocations(members, total - reserve) :
           distributions' = Append(distributions,
              [status |-> "pending", total |-> total, reserve |-> reserve,
               members |-> members, allocations |-> allocations])
    /\ UNCHANGED <<books, treasuryLog, treasuryCrashes>>

ExecuteDistribution(i, done) ==
    /\ distributions[i].status = "pending"
    /\ distributions' = writeJsonAtomic(done, 1,
          [distributions EXCEPT ![i].status = "executed"], distributions)
    /\ TreasuryLogged(done, [kind |-> "distribution_executed", id |-> i])
    /\ UNCHANGED books

-----------------------------------------------------------------------------
(* routes/billing.ts.  Nothing of it reaches the treasury. *)

INCOME_EVENTS == {"checkout_completed", "payment_received", "invoice_paid"}

(* computeMetrics. *)
totalRevenue ==
    MapThenSumSet(LAMBDA i : books.events[i].amount,
                  {i \in DOMAIN books.events : books.events[i].name \in INCOME_EVENTS})
mrr ==
    MapThenSumSet(LAMBDA i : books.customers[i].mrr,
                  {i \in DOMAIN books.customers : books.customers[i].status = "active"})

RecordRevenueEvent(name, amount, done) ==
    /\ Booked < MaxBookings
    /\ books' = [books EXCEPT !.events = Append(@, [name |-> name, amount |-> amount])]
    /\ IF name \in INCOME_EVENTS
       THEN TreasuryLogged(done, [kind |-> "action_executed", id |-> Len(books.events) + 1])
       ELSE done = 2 /\ UNCHANGED <<treasuryLog, treasuryCrashes>>
    /\ UNCHANGED distributions

RegisterCustomer(status, amount) ==
    /\ Booked < MaxBookings
    /\ books' = [books EXCEPT !.customers = Append(@, [status |-> status, mrr |-> amount])]
    /\ UNCHANGED <<distributions, treasuryLog, treasuryCrashes>>

TreasuryNext ==
    \/ \E amount \in CentAmounts : RecordIncome(amount)
    \/ \E m \in TreasuryMembers, value \in CentAmounts : RecordContribution(m, value)
    \/ \E total \in CentAmounts, rate \in ReserveRates, members \in SUBSET TreasuryMembers :
         CreateDistribution(total, rate, members)
    \/ \E i \in DOMAIN distributions, done \in 1..2 : ExecuteDistribution(i, done)
    \/ \E name \in RevenueEvents, amount \in CentAmounts, done \in 1..2 :
         RecordRevenueEvent(name, amount, done)
    \/ \E status \in CustomerStatuses, amount \in CentAmounts : RegisterCustomer(status, amount)

TreasurySpec == TreasuryInit /\ [][TreasuryNext]_treasuryVars

-----------------------------------------------------------------------------
(* Properties. *)

TreasuryTypeOK ==
    /\ books.income \in Seq(CentAmounts)
    /\ books.contributions \in Seq([member : TreasuryMembers, value : CentAmounts])
    /\ books.events \in Seq([name : RevenueEvents, amount : CentAmounts])
    /\ books.customers \in Seq([status : CustomerStatuses, mrr : CentAmounts])
    /\ \A i \in DOMAIN distributions :
         /\ distributions[i].status \in {"pending", "executed"}
         /\ distributions[i].allocations \in [Eligible(distributions[i].members) -> Nat]
    /\ treasuryLog \in Seq([kind : {"distribution_executed", "action_executed"}, id : Nat])
    /\ treasuryCrashes \in 0..MaxTreasuryCrashes

(* A distribution's shares add up: reserve and shares together are its     *)
(* total to within half a cent for every share, and two members' shares    *)
(* stand in the proportion of their roles, to within a cent of the smaller *)
(* - unless nobody named has a share, and then the whole amount is booked  *)
(* as distributed and paid to no one.                                      *)
SharesOf(d) ==
    LET eligible == Eligible(d.members)
        paid == SumFunctionOnSet(d.allocations, eligible)
    IN  eligible # {} =>
        /\ 2 * (d.reserve + paid - d.total) \in -Cardinality(eligible)..Cardinality(eligible)
        /\ \A m, n \in eligible :
             2 * (d.allocations[m] * Weight(n) - d.allocations[n] * Weight(m))
                \in -(Weight(m) + Weight(n))..(Weight(m) + Weight(n))
SharesAddUp == \A i \in DOMAIN distributions : SharesOf(distributions[i])

(* A distribution is executed once: the log names it at most once and only *)
(* if it was executed, and an executed one the log does not name was cut   *)
(* short by a crash - which no retry repairs: it is no longer pending.     *)
DistributedOnce ==
    LET logged == {k \in DOMAIN treasuryLog : treasuryLog[k].kind = "distribution_executed"}
        named == {treasuryLog[k].id : k \in logged}
    IN  /\ \A k, l \in logged : treasuryLog[k].id = treasuryLog[l].id => k = l
        /\ named \subseteq ExecutedOnes
        /\ Cardinality(ExecutedOnes \ named) <= treasuryCrashes

(* Money is divided right, and paid out once. *)
DistributionsHold == SharesAddUp /\ DistributedOnce
=============================================================================
