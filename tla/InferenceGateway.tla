--------------------------- MODULE InferenceGateway ---------------------------
(***************************************************************************)
(* One tenant's calls through the gateway of packages/inference-gateway:   *)
(* the plan of pricing.ts, the routing of router.ts, call() of gateway.ts  *)
(* and what the backends of backends.ts can answer.  Tenants share nothing.*)
(*                                                                         *)
(* call() awaits the backend between its ceiling check and its metering;   *)
(* everything else in it is synchronous.  The tenant it looked up before   *)
(* the await is used after it: whether that record is a copy or the very   *)
(* object updateConsumption writes to is the caller's choice (`shared`).   *)
(* A call that throws before the await changes nothing and can be retried. *)
(***************************************************************************)
EXTENDS Integers, Sequences, FiniteSets, FiniteSetsExt

CONSTANTS GatewayCalls,   \* the calls that may be admitted
          Artifacts,      \* the artifacts of the tenant's capacity
          Declared,       \* expected_tokens_per_call of each
          Expected,       \* expected_calls_per_period of each
          Totals,         \* the token totals a backend may report
          Modes,          \* fulfilment preferences; "none" is no preference
          SelfHosted,     \* a self-hosted backend is configured
          Pin,            \* the artifacts' version pin: [policy, declared]
          Versions        \* versions a backend may serve: sequences of segments

ASSUME GatewayAssumption ==
    /\ IsFiniteSet(GatewayCalls) /\ IsFiniteSet(Artifacts)
    /\ Declared \in [Artifacts -> Nat] /\ Expected \in [Artifacts -> Nat]
    /\ Totals \subseteq Nat
    /\ SelfHosted \in BOOLEAN
    /\ Pin.declared \in Versions

VARIABLES tenant,    \* the provisioned tenant: status, ceiling, consumed
          shared,    \* getTenant returns the object updateConsumption changes
          deployed,  \* the version the hosted provider really runs
          gcall      \* the calls

gatewayVars == <<tenant, shared, deployed, gcall>>

-----------------------------------------------------------------------------
(* pricing.ts and the estimate of call(): margins of 15 and 10 per cent,   *)
(* in exact arithmetic (the code's is binary floating point).              *)
CeilPercent(n, percent) == (n * percent + 99) \div 100

derivePlan(declared, expected) ==
    CeilPercent(SumFunctionOnSet([a \in Artifacts |-> expected[a] * declared[a]], Artifacts), 115)

Estimate(a) == CeilPercent(Declared[a], 110)

(* router.ts: the backend a preference leads to, if there is one. *)
resolve(mode) ==
    IF mode = "self_hosted" THEN IF SelfHosted THEN "self_hosted" ELSE "throws"
    ELSE "hosted"

(* gateway.ts validateVersionPin: the first two segments for "minor". *)
MajorMinor(version) == SubSeq(version, 1, IF Len(version) < 2 THEN Len(version) ELSE 2)
PinHolds(served) ==
    \/ Pin.policy = "any"
    \/ Pin.policy = "exact" /\ served = Pin.declared
    \/ Pin.policy = "minor" /\ MajorMinor(served) = MajorMinor(Pin.declared)

-----------------------------------------------------------------------------
NoGatewayCall == [pc |-> "new", art |-> CHOOSE a \in Artifacts : TRUE, backend |-> "none",
                  seen |-> 0, ceiling |-> 0, tokens |-> 0, ran |-> Pin.declared]

GatewayInit ==
    /\ tenant = [status |-> "active", ceiling |-> derivePlan(Declared, Expected), consumed |-> 0]
    /\ shared \in BOOLEAN
    /\ deployed = Pin.declared
    /\ gcall = [c \in GatewayCalls |-> NoGatewayCall]

(* call() up to its await: an active subscription, and room for the        *)
(* estimate below the ceiling.  The tenant as read is kept.                *)
Admit(c, a) ==
    \E mode \in Modes :
        /\ gcall[c].pc = "new"
        /\ resolve(mode) # "throws"
        /\ tenant.status = "active"
        /\ tenant.consumed + Estimate(a) <= tenant.ceiling
        /\ gcall' = [gcall EXCEPT ![c] = [@ EXCEPT !.pc = "waiting", !.art = a,
                       !.backend = resolve(mode), !.seen = tenant.consumed,
                       !.ceiling = tenant.ceiling]]
        /\ UNCHANGED <<tenant, shared, deployed>>

(* The version a backend says it served: the hosted adapter the one of its *)
(* own configuration, whatever the provider runs; a self-hosted endpoint   *)
(* the one it reports.  (Hosted deployments are configured as declared.)   *)
Reported(backend) == IF backend = "hosted" THEN {Pin.declared} ELSE Versions

(* The version that really answered. *)
Ran(backend, reported) == IF backend = "hosted" THEN deployed ELSE reported

(* The backend has no deployment, cannot be reached, answers with an error *)
(* or with nothing: call() returns, and meters nothing.                    *)
FulfilmentFails(c) ==
    /\ gcall[c].pc = "waiting"
    /\ \E t \in Totals \cup {0} :
         gcall' = [gcall EXCEPT ![c].pc = "failed", ![c].tokens = t]
    /\ UNCHANGED <<tenant, shared, deployed>>

(* The tokens are spent, and validateVersionPin throws before metering. *)
PinViolated(c) ==
    /\ gcall[c].pc = "waiting"
    /\ \E t \in Totals, served \in Reported(gcall[c].backend) :
         /\ ~PinHolds(served)
         /\ gcall' = [gcall EXCEPT ![c].pc = "unpinned", ![c].tokens = t]
    /\ UNCHANGED <<tenant, shared, deployed>>

(* Mutant: the consumption that was read is written back. *)
MeterStale(c) ==
    /\ gcall[c].pc = "waiting"
    /\ \E t \in Totals, served \in Reported(gcall[c].backend) :
         /\ PinHolds(served)
         /\ tenant' = [tenant EXCEPT !.consumed = gcall[c].seen]
         /\ gcall' = [gcall EXCEPT ![c] = [@ EXCEPT !.pc = "metered", !.tokens = t,
                        !.ran = Ran(gcall[c].backend, served)]]
    /\ UNCHANGED <<shared, deployed>>

(* The rest of call(): the consumption as the looked-up tenant has it, plus *)
(* the call's tokens, and the metering record.                             *)
Meter(c) ==
    /\ gcall[c].pc = "waiting"
    /\ \E t \in Totals, served \in Reported(gcall[c].backend) :
         /\ PinHolds(served)
         /\ tenant' = [tenant EXCEPT !.consumed =
                         (IF shared THEN tenant.consumed ELSE gcall[c].seen) + t]
         /\ gcall' = [gcall EXCEPT ![c] = [@ EXCEPT !.pc = "metered", !.tokens = t,
                        !.ran = Ran(gcall[c].backend, served)]]
    /\ UNCHANGED <<shared, deployed>>

(* Outside the package: subscriptions lapse and come back; the provider    *)
(* changes the model behind a deployment.                                  *)
Subscribe(status) ==
    /\ tenant.status # status
    /\ tenant' = [tenant EXCEPT !.status = status]
    /\ UNCHANGED <<shared, deployed, gcall>>

Redeploy(version) ==
    /\ deployed # version
    /\ deployed' = version
    /\ UNCHANGED <<tenant, shared, gcall>>

GatewayNext ==
    \/ \E c \in GatewayCalls, a \in Artifacts : Admit(c, a)
    \/ \E c \in GatewayCalls : FulfilmentFails(c)
    \/ \E c \in GatewayCalls : PinViolated(c)
    \/ \E c \in GatewayCalls : Meter(c)
    \/ \E status \in {"active", "suspended"} : Subscribe(status)
    \/ \E version \in Versions : Redeploy(version)

GatewaySpec == GatewayInit /\ [][GatewayNext]_gatewayVars

-----------------------------------------------------------------------------
(* Properties. *)

Waiting == {c \in GatewayCalls : gcall[c].pc = "waiting"}
Metered == {c \in GatewayCalls : gcall[c].pc = "metered"}
MeteredTokens == SumFunctionOnSet([c \in Metered |-> gcall[c].tokens], Metered)

GatewayTypeOK ==
    /\ tenant \in [status : {"active", "suspended"}, ceiling : Nat, consumed : Nat]
    /\ shared \in BOOLEAN
    /\ deployed \in Versions
    /\ \A c \in GatewayCalls :
         /\ gcall[c].pc \in {"new", "waiting", "failed", "unpinned", "metered"}
         /\ gcall[c].backend \in {"none", "hosted", "self_hosted"}
         /\ {gcall[c].seen, gcall[c].ceiling, gcall[c].tokens} \subseteq Nat
         /\ gcall[c].ran \in Versions

(* What a tenant is charged was metered: its consumption is never more     *)
(* than its metering records add up to, and exactly that when the lookup   *)
(* hands out the object itself; a copy, read before the await and used     *)
(* after it, can only make calls that overlap go uncharged.                *)
ConsumptionIsMetered ==
    /\ tenant.consumed <= MeteredTokens
    /\ shared => tenant.consumed = MeteredTokens

(* The plan is large enough for what it was derived from: as long as every *)
(* call costs what its artifact declared, no call within the expected      *)
(* number is refused for its ceiling, whatever the order and the overlap   *)
(* of the calls (the margins of pricing.ts and gateway.ts together).       *)
DeclaredCapacityFits ==
    LET begun(a) == {c \in GatewayCalls : gcall[c].pc # "new" /\ gcall[c].art = a}
        within == /\ \A a \in Artifacts : Cardinality(begun(a)) <= Expected[a]
                  /\ \A c \in Metered : gcall[c].tokens <= Declared[gcall[c].art]
    IN  within => \A a \in Artifacts :
                    Cardinality(begun(a)) < Expected[a]
                        => tenant.consumed + Estimate(a) <= tenant.ceiling

(* A tenant is charged for what it was given, and given what it declared. *)
CapacityHolds == ConsumptionIsMetered /\ DeclaredCapacityFits

(* "The gateway refuses the (N+1)th token - no advisory caps": calls that  *)
(* stay within their estimate never take the tenant beyond its ceiling.    *)
(* (The code does not guarantee it: see MCCeiling.cfg.)                    *)
CeilingIsHard ==
    (\A c \in Metered : gcall[c].tokens <= Estimate(gcall[c].art))
        => MeteredTokens <= tenant.ceiling
=============================================================================
