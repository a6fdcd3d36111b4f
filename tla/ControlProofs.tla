---------------------------- MODULE ControlProofs -----------------------------
(***************************************************************************)
(* What allows, times and pays for work, for every number of calls, runs,  *)
(* people, amounts and crashes: the gateway of inference, the board's      *)
(* cadence, the treasury, approvals and what is reported beside them, and  *)
(* the actions with their ledger.                                          *)
(***************************************************************************)
EXTENDS InferenceGateway, ActionControl, Observability, Treasury, Cadence,
        FiniteSums, SequenceTheorems

-----------------------------------------------------------------------------
(* The gateway of packages/inference-gateway: what a tenant is charged was *)
(* metered, and a plan fits what it was derived from.                      *)
(*                                                                         *)
(* The inductive invariant.  ConsumptionIsMetered needs WaitingSawLess:    *)
(* metering adds a call's tokens to a consumption read before the await,   *)
(* and that one must not exceed what was metered by then.                  *)
CallRecords ==
    [pc : {"new", "waiting", "failed", "unpinned", "metered"},
     art : Artifacts \cup {NoGatewayCall.art},
     backend : {"none", "hosted", "self_hosted"},
     seen : Nat, ceiling : Nat, tokens : Nat,
     ran : Versions \cup {Pin.declared}]

StoresOK ==
    /\ tenant \in [status : {"active", "suspended"}, ceiling : Nat, consumed : Nat]
    /\ tenant.ceiling = derivePlan(Declared, Expected)
    /\ shared \in BOOLEAN
    /\ deployed \in Versions \cup {Pin.declared}
    /\ gcall \in [GatewayCalls -> CallRecords]
    /\ \A c \in GatewayCalls : gcall[c].pc # "new" => gcall[c].art \in Artifacts

WaitingSawLess == \A c \in Waiting : gcall[c].seen <= MeteredTokens

GatewayInv == StoresOK /\ ConsumptionIsMetered /\ WaitingSawLess

-----------------------------------------------------------------------------
(* Prices are natural numbers, and so are plans. *)
LEMMA PlanType ==
    ASSUME GatewayAssumption
    PROVE  /\ SumFunctionOnSet([a \in Artifacts |-> Expected[a] * Declared[a]], Artifacts) \in Nat
           /\ derivePlan(Declared, Expected) \in Nat
<1> DEFINE f == [a \in Artifacts |-> Expected[a] * Declared[a]]
           s == SumFunctionOnSet(f, Artifacts)
<1>1. \A a \in Artifacts : f[a] \in Nat
  <2>1. ASSUME NEW a \in Artifacts
        PROVE  Expected[a] \in Nat /\ Declared[a] \in Nat
    BY GatewayAssumption
  <2>2. \A m, n \in Nat : m * n \in Nat
    OBVIOUS
  <2>3. QED
    BY <2>1, <2>2
<1>2. s \in Nat
  <2> HIDE DEF f
  <2>1. QED
    BY <1>1, SumType, GatewayAssumption
<1>3. derivePlan(Declared, Expected) = (s * 115 + 99) \div 100
  BY DEF derivePlan, CeilPercent
<1> HIDE DEF s
<1>4. (s * 115 + 99) \div 100 \in Nat
  BY <1>2
<1>5. QED
  BY <1>2, <1>3, <1>4 DEF s

(* The metered calls are finitely many, and their tokens add up to a       *)
(* natural number.                                                         *)
LEMMA MeteredType ==
    ASSUME GatewayAssumption, StoresOK
    PROVE  IsFiniteSet(Metered) /\ MeteredTokens \in Nat
<1>1. Metered \subseteq GatewayCalls
  BY DEF Metered
<1>2. IsFiniteSet(Metered)
  BY <1>1, FS_Subset, GatewayAssumption
<1> DEFINE f == [c \in Metered |-> gcall[c].tokens]
<1>3. \A c \in Metered : f[c] \in Nat
  BY <1>1 DEF StoresOK, CallRecords
<1>4. MeteredTokens = SumFunctionOnSet(f, Metered)
  BY DEF MeteredTokens
<1> HIDE DEF f
<1>5. QED
  BY <1>2, <1>3, <1>4, SumType

(* A step that meters nothing leaves what was metered as it was. *)
LEMMA NothingMetered ==
    ASSUME GatewayAssumption, StoresOK, Metered' = Metered,
           \A c \in Metered : gcall'[c].tokens = gcall[c].tokens
    PROVE  MeteredTokens' = MeteredTokens
<1>1. [c \in Metered' |-> gcall'[c].tokens] = [c \in Metered |-> gcall[c].tokens]
  OBVIOUS
<1>2. QED
  BY <1>1 DEF MeteredTokens

(* A call that meters adds its tokens. *)
LEMMA OneMetered ==
    ASSUME GatewayAssumption, StoresOK, NEW c \in GatewayCalls, c \notin Metered,
           NEW t \in Nat, Metered' = Metered \cup {c}, gcall'[c].tokens = t,
           \A d \in Metered : gcall'[d].tokens = gcall[d].tokens
    PROVE  MeteredTokens' = MeteredTokens + t
<1> DEFINE f == [d \in Metered |-> gcall[d].tokens]
           g == [d \in Metered \cup {c} |-> IF d = c THEN t ELSE gcall[d].tokens]
<1>1. IsFiniteSet(Metered) /\ Metered \subseteq GatewayCalls
  BY MeteredType DEF Metered
<1>2. MeteredTokens' = SumFunctionOnSet(g, Metered \cup {c})
  <2>1. [d \in Metered' |-> gcall'[d].tokens] = g
    OBVIOUS
  <2>2. QED
    BY <2>1 DEF MeteredTokens
<1>3. \A d \in Metered : f[d] \in Int /\ g[d] \in Int /\ f[d] <= g[d] /\ f[d] = g[d]
  BY <1>1 DEF StoresOK, CallRecords
<1>4. g[c] = t /\ \A d \in Metered \cup {c} : g[d] \in Int
  BY <1>3
<1>5. MeteredTokens = SumFunctionOnSet(f, Metered)
  BY DEF MeteredTokens
<1> HIDE DEF f, g
<1>6. SumFunctionOnSet(f, Metered) = SumFunctionOnSet(g, Metered)
  BY <1>1, <1>3, SumMonotone
<1>7. SumFunctionOnSet(g, Metered \cup {c}) = g[c] + SumFunctionOnSet(g, Metered)
  BY <1>1, <1>4, SumWith
<1>8. MeteredTokens \in Nat
  BY MeteredType
<1>9. QED
  BY <1>2, <1>4, <1>5, <1>6, <1>7, <1>8

-----------------------------------------------------------------------------
LEMMA InvInit == GatewayAssumption /\ GatewayInit => GatewayInv
<1> SUFFICES ASSUME GatewayAssumption, GatewayInit
             PROVE  GatewayInv
  OBVIOUS
<1> USE DEF GatewayInit
<1>1. NoGatewayCall \in CallRecords
  BY DEF NoGatewayCall, CallRecords
<1>2. StoresOK
  <2>1. gcall \in [GatewayCalls -> CallRecords]
    BY <1>1
  <2>2. \A c \in GatewayCalls : gcall[c].pc = "new"
    BY DEF NoGatewayCall
  <2>3. QED
    BY <2>1, <2>2, PlanType DEF StoresOK
<1>3. Metered = {} /\ Waiting = {}
  BY DEF Metered, Waiting, NoGatewayCall
<1>4. MeteredTokens = 0
  <2> DEFINE f == [c \in Metered |-> gcall[c].tokens]
  <2>1. MeteredTokens = SumFunctionOnSet(f, {})
    BY <1>3 DEF MeteredTokens
  <2> HIDE DEF f
  <2>2. QED
    BY <2>1, SumOfZeros, FS_EmptySet
<1>5. QED
  BY <1>2, <1>3, <1>4 DEF GatewayInv, ConsumptionIsMetered, WaitingSawLess

(* The steps that change only one call, whose record stays one and which   *)
(* neither was metered nor is: what was metered stays, and a call that is  *)
(* waiting then was waiting or has just read the consumption.              *)
LEMMA CallStep ==
    ASSUME GatewayAssumption, GatewayInv, NEW c \in GatewayCalls, NEW r \in CallRecords,
           gcall' = [gcall EXCEPT ![c] = r], UNCHANGED <<tenant, shared, deployed>>,
           gcall[c].pc # "metered", r.pc # "metered",
           r.pc # "new" => r.art \in Artifacts,
           r.pc = "waiting" => r.seen = tenant.consumed
    PROVE  GatewayInv'
<1> USE DEF GatewayInv
<1>1. gcall \in [GatewayCalls -> CallRecords]
  BY DEF StoresOK
<1>2. gcall' \in [GatewayCalls -> CallRecords] /\ gcall'[c] = r
      /\ \A d \in GatewayCalls \ {c} : gcall'[d] = gcall[d]
  BY <1>1
<1>3. StoresOK'
  BY <1>2 DEF StoresOK, CallRecords, NoGatewayCall
<1>4. Metered' = Metered /\ \A d \in Metered : gcall'[d].tokens = gcall[d].tokens
  BY <1>2 DEF Metered
<1>5. MeteredTokens' = MeteredTokens
  BY <1>4, NothingMetered
<1>6. WaitingSawLess'
  <2>1. ASSUME NEW d \in Waiting'
        PROVE  gcall'[d].seen <= MeteredTokens
    <3>1. CASE d = c
      BY <1>2, <3>1 DEF Waiting, ConsumptionIsMetered
    <3>2. CASE d # c
      BY <1>2, <3>2 DEF Waiting, WaitingSawLess
    <3>3. QED
      BY <3>1, <3>2
  <2>2. QED
    BY <1>5, <2>1 DEF WaitingSawLess
<1>7. ConsumptionIsMetered'
  BY <1>5 DEF ConsumptionIsMetered
<1>8. QED
  BY <1>3, <1>6, <1>7

LEMMA AdmitStep ==
    ASSUME GatewayAssumption, GatewayInv, NEW c \in GatewayCalls, NEW a \in Artifacts, Admit(c, a)
    PROVE  GatewayInv'
<1>1. PICK mode \in Modes :
        /\ gcall[c].pc = "new"
        /\ resolve(mode) # "throws"
        /\ gcall' = [gcall EXCEPT ![c] = [@ EXCEPT !.pc = "waiting", !.art = a,
                       !.backend = resolve(mode), !.seen = tenant.consumed,
                       !.ceiling = tenant.ceiling]]
        /\ UNCHANGED <<tenant, shared, deployed>>
  BY DEF Admit
<1>2. gcall[c] \in CallRecords /\ tenant.consumed \in Nat /\ tenant.ceiling \in Nat
  BY DEF GatewayInv, StoresOK
<1>3. resolve(mode) \in {"hosted", "self_hosted"}
  BY <1>1 DEF resolve
<1> DEFINE r == [gcall[c] EXCEPT !.pc = "waiting", !.art = a, !.backend = resolve(mode),
                                 !.seen = tenant.consumed, !.ceiling = tenant.ceiling]
<1>4. r \in CallRecords /\ r.pc = "waiting" /\ r.art = a /\ r.seen = tenant.consumed
  BY <1>2, <1>3 DEF CallRecords
<1>5. gcall' = [gcall EXCEPT ![c] = r]
  BY <1>1
<1> HIDE DEF r
<1>6. QED
  BY <1>1, <1>4, <1>5, CallStep

(* The two ways a call ends without metering. *)
LEMMA EndStep ==
    ASSUME GatewayAssumption, GatewayInv, NEW c \in GatewayCalls,
           FulfilmentFails(c) \/ PinViolated(c)
    PROVE  GatewayInv'
<1>1. PICK t \in Nat, pc \in {"failed", "unpinned"} :
        /\ gcall[c].pc = "waiting"
        /\ gcall' = [gcall EXCEPT ![c].pc = pc, ![c].tokens = t]
        /\ UNCHANGED <<tenant, shared, deployed>>
  <2>1. CASE FulfilmentFails(c)
    <3>1. PICK t \in Totals \cup {0} :
            gcall' = [gcall EXCEPT ![c].pc = "failed", ![c].tokens = t]
      BY <2>1 DEF FulfilmentFails
    <3>2. t \in Nat
      BY GatewayAssumption
    <3>3. QED
      BY <2>1, <3>1, <3>2 DEF FulfilmentFails
  <2>2. CASE PinViolated(c)
    <3>1. PICK t \in Totals :
            gcall' = [gcall EXCEPT ![c].pc = "unpinned", ![c].tokens = t]
      BY <2>2 DEF PinViolated
    <3>2. t \in Nat
      BY GatewayAssumption
    <3>3. QED
      BY <2>2, <3>1, <3>2 DEF PinViolated
  <2>3. QED
    BY <2>1, <2>2
<1> DEFINE r == [gcall[c] EXCEPT !.pc = pc, !.tokens = t]
<1>2. gcall \in [GatewayCalls -> CallRecords] /\ gcall[c].art \in Artifacts
  BY <1>1 DEF GatewayInv, StoresOK
<1>3. r \in CallRecords /\ r.pc = pc /\ r.art = gcall[c].art
  BY <1>2 DEF CallRecords
<1>4. gcall' = [gcall EXCEPT ![c] = r]
  BY <1>1, <1>2
<1> HIDE DEF r
<1>5. QED
  BY <1>1, <1>2, <1>3, <1>4, CallStep

LEMMA MeterStep ==
    ASSUME GatewayAssumption, GatewayInv, NEW c \in GatewayCalls, Meter(c)
    PROVE  GatewayInv'
<1> USE DEF GatewayInv
<1>1. PICK t \in Totals, served \in Reported(gcall[c].backend) :
        /\ tenant' = [tenant EXCEPT !.consumed =
                        (IF shared THEN tenant.consumed ELSE gcall[c].seen) + t]
        /\ gcall' = [gcall EXCEPT ![c] = [@ EXCEPT !.pc = "metered", !.tokens = t,
                       !.ran = Ran(gcall[c].backend, served)]]
  BY DEF Meter
<1>2. gcall[c].pc = "waiting" /\ UNCHANGED <<shared, deployed>>
  BY DEF Meter
<1>3. t \in Nat /\ gcall[c] \in CallRecords /\ gcall[c].seen \in Nat /\ gcall[c].art \in Artifacts
  BY <1>2, GatewayAssumption DEF StoresOK, CallRecords
<1>4. Ran(gcall[c].backend, served) \in Versions \cup {Pin.declared}
  BY DEF Ran, Reported, StoresOK
<1> DEFINE ran == Ran(gcall[c].backend, served)
           r == [gcall[c] EXCEPT !.pc = "metered", !.tokens = t, !.ran = ran]
           n == IF shared THEN tenant.consumed ELSE gcall[c].seen
<1> HIDE DEF ran
<1>5. r \in CallRecords /\ r.pc = "metered" /\ r.tokens = t /\ r.art = gcall[c].art
  <2>1. ran \in Versions \cup {Pin.declared}
    BY <1>4 DEF ran
  <2>2. QED
    BY <1>3, <2>1 DEF CallRecords
<1>6. gcall' = [gcall EXCEPT ![c] = r]
  BY <1>1 DEF ran
<1> HIDE DEF r
<1>7. /\ gcall' \in [GatewayCalls -> CallRecords]
      /\ gcall'[c] = r
      /\ \A d \in GatewayCalls \ {c} : gcall'[d] = gcall[d]
  BY <1>5, <1>6 DEF StoresOK
<1>8. n \in Nat /\ n <= MeteredTokens /\ (shared => n = MeteredTokens)
  <2>1. c \in Waiting
    BY <1>2 DEF Waiting
  <2>2. QED
    BY <1>3, <2>1 DEF StoresOK, ConsumptionIsMetered, WaitingSawLess
<1>9. tenant' = [tenant EXCEPT !.consumed = n + t]
  BY <1>1
<1> HIDE DEF n
<1>10. StoresOK'
  <2>1. /\ tenant' \in [status : {"active", "suspended"}, ceiling : Nat, consumed : Nat]
        /\ tenant'.ceiling = tenant.ceiling
    BY <1>3, <1>8, <1>9 DEF StoresOK
  <2>2. \A d \in GatewayCalls : gcall'[d].pc # "new" => gcall'[d].art \in Artifacts
    BY <1>3, <1>5, <1>7 DEF StoresOK
  <2>3. QED
    BY <1>2, <1>7, <2>1, <2>2 DEF StoresOK, CallRecords, NoGatewayCall
<1>11. MeteredTokens' = MeteredTokens + t
  <2>1. c \notin Metered /\ Metered' = Metered \cup {c} /\ gcall'[c].tokens = t
    BY <1>2, <1>5, <1>7 DEF Metered
  <2>2. \A d \in Metered : gcall'[d].tokens = gcall[d].tokens
    BY <1>7, <2>1 DEF Metered
  <2>3. QED
    BY <1>3, <2>1, <2>2, OneMetered
<1>12. MeteredTokens \in Nat
  BY MeteredType
<1>13. tenant'.consumed = n + t
  BY <1>9 DEF StoresOK
<1>14. ConsumptionIsMetered'
  BY <1>2, <1>3, <1>8, <1>11, <1>12, <1>13 DEF ConsumptionIsMetered
<1>15. WaitingSawLess'
  <2>1. ASSUME NEW d \in Waiting'
        PROVE  gcall'[d].seen <= MeteredTokens + t
    <3>1. d \in Waiting /\ gcall'[d] = gcall[d]
      BY <1>5, <1>7 DEF Waiting
    <3>2. gcall[d].seen \in Nat
      BY <3>1 DEF Waiting, StoresOK, CallRecords
    <3>3. QED
      BY <1>3, <1>12, <3>1, <3>2 DEF WaitingSawLess
  <2>2. QED
    BY <1>11, <2>1 DEF WaitingSawLess
<1>16. QED
  BY <1>10, <1>14, <1>15

(* Subscriptions and deployments. *)
LEMMA OutsideStep ==
    ASSUME GatewayAssumption, GatewayInv,
           \/ \E status \in {"active", "suspended"} : Subscribe(status)
           \/ \E version \in Versions : Redeploy(version)
           \/ UNCHANGED gatewayVars
    PROVE  GatewayInv'
<1> USE DEF GatewayInv
<1>1. gcall' = gcall /\ shared' = shared
  BY DEF Subscribe, Redeploy, gatewayVars
<1>2. /\ tenant' \in [status : {"active", "suspended"}, ceiling : Nat, consumed : Nat]
      /\ tenant'.ceiling = tenant.ceiling /\ tenant'.consumed = tenant.consumed
  BY DEF Subscribe, Redeploy, gatewayVars, StoresOK
<1>3. deployed' \in Versions \cup {Pin.declared}
  BY DEF Subscribe, Redeploy, gatewayVars, StoresOK
<1>4. StoresOK'
  BY <1>1, <1>2, <1>3 DEF StoresOK, CallRecords, NoGatewayCall
<1>5. Metered' = Metered /\ Waiting' = Waiting
  BY <1>1 DEF Metered, Waiting
<1>6. MeteredTokens' = MeteredTokens
  BY <1>1, <1>5, NothingMetered
<1>7. QED
  BY <1>1, <1>2, <1>4, <1>5, <1>6 DEF ConsumptionIsMetered, WaitingSawLess

LEMMA InvStep == GatewayAssumption /\ GatewayInv /\ [GatewayNext]_gatewayVars => GatewayInv'
<1> SUFFICES ASSUME GatewayAssumption, GatewayInv, [GatewayNext]_gatewayVars
             PROVE  GatewayInv'
  OBVIOUS
<1>1. ASSUME NEW c \in GatewayCalls, NEW a \in Artifacts, Admit(c, a)
      PROVE  GatewayInv'
  BY <1>1, AdmitStep
<1>2. ASSUME NEW c \in GatewayCalls, FulfilmentFails(c) \/ PinViolated(c)
      PROVE  GatewayInv'
  BY <1>2, EndStep
<1>3. ASSUME NEW c \in GatewayCalls, Meter(c)
      PROVE  GatewayInv'
  BY <1>3, MeterStep
<1>4. ASSUME NEW status \in {"active", "suspended"}, Subscribe(status)
      PROVE  GatewayInv'
  BY <1>4, OutsideStep
<1>5. ASSUME NEW version \in Versions, Redeploy(version)
      PROVE  GatewayInv'
  BY <1>5, OutsideStep
<1>6. CASE UNCHANGED gatewayVars
  BY <1>6, OutsideStep
<1>7. QED
  BY <1>1, <1>2, <1>3, <1>4, <1>5, <1>6 DEF GatewayNext

(* In every reachable state. *)
LEMMA GatewayInvariant == GatewaySpec => []GatewayInv
<1>1. GatewayInit => GatewayInv
  BY InvInit, GatewayAssumption
<1>2. GatewayInv /\ [GatewayNext]_gatewayVars => GatewayInv'
  BY InvStep, GatewayAssumption
<1>3. QED
  BY <1>1, <1>2, PTL DEF GatewaySpec

-----------------------------------------------------------------------------
(* The two margins together: s - d, and the estimate of a call that         *)
(* declares d, fit under the ceiling of a plan for s.                      *)
LEMMA MarginsCover ==
    ASSUME NEW s \in Nat, NEW d \in Nat, NEW n \in Nat, n <= s - d
    PROVE  n + CeilPercent(d, 110) <= CeilPercent(s, 115)
<1> DEFINE e == (d * 110 + 99) \div 100
           p == (s * 115 + 99) \div 100
<1>1. e \in Int /\ 100 * e <= d * 110 + 99
  OBVIOUS
<1>2. p \in Int /\ s * 115 + 99 < 100 * p + 100
  OBVIOUS
<1>3. n + e <= p
  <2> HIDE DEF e, p
  <2>1. QED
    BY <1>1, <1>2
<1>4. QED
  BY <1>3 DEF CeilPercent

(* More of a thing costs more. *)
LEMMA ProductMonotone ==
    ASSUME NEW m \in Nat, NEW n \in Nat, NEW d \in Nat, m <= n
    PROVE  m * d \in Nat /\ n * d \in Nat /\ m * d <= n * d
<1>1. n - m \in Nat /\ (n - m) * d \in Nat /\ m * d \in Nat
  OBVIOUS
<1>2. n * d = m * d + (n - m) * d
  OBVIOUS
<1>3. QED
  BY <1>1, <1>2

(* The facts about sums that the plan's arithmetic rests on, as it uses    *)
(* them.                                                                   *)
LEMMA OneTermChanges ==
    ASSUME NEW S, IsFiniteSet(S), NEW f, NEW g, NEW x \in S,
           \A y \in S : f[y] \in Int /\ g[y] \in Int, \A y \in S \ {x} : f[y] = g[y]
    PROVE  SumFunctionOnSet(g, S) = SumFunctionOnSet(f, S) + (g[x] - f[x])
BY SumChange

LEMMA SortedByKey ==
    ASSUME NEW S, IsFiniteSet(S), NEW A, IsFiniteSet(A), NEW key, \A b \in S : key[b] \in A,
           NEW w, \A a \in A : w[a] \in Nat,
           NEW single, single = [b \in S |-> w[key[b]]],
           NEW sorted, sorted = [a \in A |-> Cardinality(WithKey(S, key, a)) * w[a]]
    PROVE  SumFunctionOnSet(single, S) = SumFunctionOnSet(sorted, A)
BY SumByKey

(* The plan fits. *)
LEMMA CapacityFits == GatewayAssumption /\ GatewayInv => DeclaredCapacityFits
<1> DEFINE begun(a) == {c \in GatewayCalls : gcall[c].pc # "new" /\ gcall[c].art = a}
<1> SUFFICES ASSUME GatewayAssumption, GatewayInv,
                    \A a \in Artifacts : Cardinality(begun(a)) <= Expected[a],
                    \A c \in Metered : gcall[c].tokens <= Declared[gcall[c].art],
                    NEW b \in Artifacts, Cardinality(begun(b)) < Expected[b]
             PROVE  tenant.consumed + Estimate(b) <= tenant.ceiling
  BY DEF DeclaredCapacityFits
<1> DEFINE M == Metered
           key == [c \in M |-> gcall[c].art]
           tokens == [c \in M |-> gcall[c].tokens]
           declared == [c \in M |-> Declared[key[c]]]
           share == [a \in Artifacts |-> Cardinality(WithKey(M, key, a)) * Declared[a]]
           left == [a \in Artifacts |-> (IF a = b THEN Expected[a] - 1 ELSE Expected[a]) * Declared[a]]
           plan == [a \in Artifacts |-> Expected[a] * Declared[a]]
           total == SumFunctionOnSet(plan, Artifacts)
<1>1. /\ IsFiniteSet(M) /\ IsFiniteSet(Artifacts) /\ M \subseteq GatewayCalls
      /\ \A a \in Artifacts : Expected[a] \in Nat /\ Declared[a] \in Nat
  BY MeteredType, GatewayAssumption DEF GatewayInv, Metered
<1>2. \A c \in M : key[c] \in Artifacts /\ gcall[c].tokens \in Nat /\ gcall[c].pc # "new"
  BY DEF GatewayInv, StoresOK, CallRecords, Metered
<1>3. SumFunctionOnSet(tokens, M) <= SumFunctionOnSet(declared, M)
  <2>1. \A c \in M : tokens[c] \in Int /\ declared[c] \in Int /\ tokens[c] <= declared[c]
    BY <1>1, <1>2
  <2> HIDE DEF tokens, declared
  <2>2. QED
    BY <1>1, <2>1, SumMonotone
<1>4. SumFunctionOnSet(declared, M) = SumFunctionOnSet(share, Artifacts)
  <2>1. PICK S, A, k : S = M /\ A = Artifacts /\ k = key
    OBVIOUS
  <2>2. /\ declared = [c \in S |-> Declared[k[c]]]
        /\ share = [a \in A |-> Cardinality(WithKey(S, k, a)) * Declared[a]]
    BY <2>1
  <2>3. IsFiniteSet(S) /\ IsFiniteSet(A) /\ (\A c \in S : k[c] \in A) /\ \A a \in A : Declared[a] \in Nat
    <3> HIDE DEF key, M
    <3>1. QED
      BY <1>1, <1>2, <2>1
  <2> HIDE DEF key, M, declared, share
  <2>4. SumFunctionOnSet(declared, S) = SumFunctionOnSet(share, A)
    BY <2>2, <2>3, SortedByKey, SMTT(60)
  <2>5. QED
    BY <2>1, <2>4
<1>5. ASSUME NEW a \in Artifacts
      PROVE  /\ Cardinality(WithKey(M, key, a)) \in Nat
             /\ Cardinality(WithKey(M, key, a)) <= Cardinality(begun(a))
             /\ Cardinality(begun(a)) \in Nat
  <2>1. WithKey(M, key, a) \subseteq begun(a) /\ begun(a) \subseteq GatewayCalls
    BY <1>1, <1>2 DEF WithKey
  <2>2. IsFiniteSet(begun(a))
    BY <2>1, FS_Subset, GatewayAssumption
  <2>3. QED
    BY <2>1, <2>2, FS_Subset, FS_CardinalityType
<1>6. ASSUME NEW a \in Artifacts
      PROVE  /\ share[a] \in Int /\ left[a] \in Int /\ plan[a] \in Nat
             /\ share[a] <= left[a]
             /\ a # b => left[a] = plan[a]
             /\ a = b => left[a] - plan[a] = 0 - Declared[b]
  <2> DEFINE k == Cardinality(WithKey(M, key, a))
             n == IF a = b THEN Expected[a] - 1 ELSE Expected[a]
  <2>1. k \in Nat /\ n \in Nat /\ k <= n /\ Declared[a] \in Nat
    <3>1. k \in Nat /\ k <= Cardinality(begun(a)) /\ Cardinality(begun(a)) \in Nat
      BY <1>5
    <3>2. Expected[a] \in Nat /\ Declared[a] \in Nat
      BY <1>1
    <3>3. Cardinality(begun(a)) <= Expected[a] /\ (a = b => Cardinality(begun(a)) < Expected[a])
      OBVIOUS
    <3> HIDE DEF k, begun
    <3>4. QED
      BY <3>1, <3>2, <3>3
  <2>2. share[a] = k * Declared[a] /\ left[a] = n * Declared[a]
    OBVIOUS
  <2> HIDE DEF k
  <2>3. k * Declared[a] \in Nat /\ n * Declared[a] \in Nat /\ k * Declared[a] <= n * Declared[a]
    <3> HIDE DEF n
    <3>1. QED
      BY <2>1, ProductMonotone
  <2>4. plan[a] \in Nat
    <3>1. Expected[a] \in Nat /\ Expected[a] <= Expected[a]
      BY <1>1
    <3>2. QED
      BY <2>1, <3>1, ProductMonotone
  <2>5. a = b => left[a] - plan[a] = 0 - Declared[b]
    <3>1. \A x, y \in Nat : (x - 1) * y - x * y = 0 - y
      OBVIOUS
    <3>2. QED
      BY <1>1, <3>1
  <2>6. QED
    BY <2>2, <2>3, <2>4, <2>5
<1>7. SumFunctionOnSet(share, Artifacts) <= SumFunctionOnSet(left, Artifacts)
  <2> HIDE DEF share, left
  <2>1. QED
    BY <1>1, <1>6, SumMonotone
<1>8. SumFunctionOnSet(left, Artifacts) = total - Declared[b]
  <2> HIDE DEF share, left, plan
  <2>1. \A a \in Artifacts : plan[a] \in Int /\ left[a] \in Int
    BY <1>6
  <2>2. \A a \in Artifacts \ {b} : plan[a] = left[a]
    BY <1>6
  <2>3. left[b] - plan[b] = 0 - Declared[b] /\ Declared[b] \in Nat
    BY <1>1, <1>6
  <2>4. SumFunctionOnSet(left, Artifacts) = SumFunctionOnSet(plan, Artifacts) + (left[b] - plan[b])
    BY <1>1, <2>1, <2>2, OneTermChanges, SMTT(60)
  <2>5. SumFunctionOnSet(plan, Artifacts) \in Nat
    BY <1>1, <1>6, SumType
  <2>6. QED
    BY <2>3, <2>4, <2>5
<1>9. total \in Nat
  BY PlanType
<1>10. SumFunctionOnSet(tokens, M) \in Int /\ SumFunctionOnSet(share, Artifacts) \in Int /\ SumFunctionOnSet(left, Artifacts) \in Int
  <2>1. \A c \in M : tokens[c] \in Int
    BY <1>2
  <2> HIDE DEF tokens, share, left
  <2>2. QED
    BY <1>1, <1>6, <2>1, SumType
<1>11. tenant.consumed \in Nat /\ tenant.consumed <= SumFunctionOnSet(tokens, M)
  BY DEF GatewayInv, StoresOK, ConsumptionIsMetered, MeteredTokens
<1>12. tenant.consumed <= total - Declared[b]
  <2> HIDE DEF total, tokens, share, left, declared
  <2>1. QED
    BY <1>1, <1>3, <1>4, <1>7, <1>8, <1>9, <1>10, <1>11
<1>13. tenant.consumed + CeilPercent(Declared[b], 110) <= CeilPercent(total, 115)
  <2> HIDE DEF total
  <2>1. QED
    BY <1>1, <1>9, <1>11, <1>12, MarginsCover
<1>14. QED
  BY <1>13 DEF Estimate, GatewayInv, StoresOK, derivePlan

(* CapacityHolds, for every capacity, every price and every order of the   *)
(* calls of gateway.ts call(): a tenant is charged for no more than its    *)
(* metering records add up to, for exactly that when getTenant returns the *)
(* stored object, and no call within the expected number is refused for    *)
(* its ceiling as long as calls cost what their artifacts declared.        *)
THEOREM CapacityIsHeld == GatewaySpec => []CapacityHolds
<1>1. GatewayInv => CapacityHolds
  BY CapacityFits, GatewayAssumption DEF CapacityHolds, GatewayInv
<1>2. QED
  BY <1>1, GatewayInvariant, PTL

LEMMA GatewayTypes == GatewaySpec => []GatewayTypeOK
<1>1. Pin.declared \in Versions
  BY GatewayAssumption DEF GatewayAssumption
<1>2. StoresOK => GatewayTypeOK
  <2> SUFFICES ASSUME StoresOK
               PROVE  GatewayTypeOK
    OBVIOUS
  <2>1. ASSUME NEW c \in GatewayCalls
        PROVE  /\ gcall[c].pc \in {"new", "waiting", "failed", "unpinned", "metered"}
               /\ gcall[c].backend \in {"none", "hosted", "self_hosted"}
               /\ {gcall[c].seen, gcall[c].ceiling, gcall[c].tokens} \subseteq Nat
               /\ gcall[c].ran \in Versions
    <3>1. gcall[c] \in CallRecords
      BY DEF StoresOK
    <3>2. QED
      BY <1>1, <3>1 DEF CallRecords
  <2>2. QED
    BY <1>1, <2>1 DEF StoresOK, GatewayTypeOK
<1>3. GatewayInv => GatewayTypeOK
  BY <1>2 DEF GatewayInv
<1>4. QED
  BY <1>3, GatewayInvariant, PTL

-----------------------------------------------------------------------------
(* Cadence.  The inductive invariant: the records show the last KeepRuns   *)
(* runs; a run waiting for the model is its runner's own and is "running", *)
(* so nothing logged is among them.                                        *)
RunStatuses == {"running", "completed", "failed"}

Shows(shown, list) ==
    /\ shown \in Seq([id : Nat, status : RunStatuses])
    /\ list \in Seq(RunStatuses)
    /\ Len(shown) = Least(Len(list), KeepRuns)
    /\ \A i \in 1..Len(shown) :
          LET run == Len(list) - Len(shown) + i
          IN  shown[i] = [id |-> run, status |-> list[run]]

LogTells(log, list, requests) ==
    /\ requests = [run \in 1..MaxCadenceRuns |-> requests[run]]
    /\ \A entry \in log : /\ entry.run \in 1..Len(list)
                          /\ list[entry.run] = "completed"
                          /\ requests[entry.run] = entry.decisions

RunnersWait(flights, list) ==
    /\ flights = [c \in Runners |-> flights[c]]
    /\ \A c \in Runners : flights[c] # AtRest =>
          flights[c].run \in 1..Len(list) /\ list[flights[c].run] = "running"
    /\ \A c, d \in Runners : flights[c] # AtRest /\ flights[d] # AtRest
                                /\ flights[c].run = flights[d].run => c = d

CadenceInv ==
    /\ Shows(cadenceRuns, ends)
    /\ Len(ends) <= MaxCadenceRuns
    /\ LogTells(cadenceLog, ends, cadenceRequests)
    /\ RunnersWait(runners, ends)

LEMMA KeepType ==
    CadenceAssumption => KeepRuns \in Nat /\ KeepRuns > 0 /\ MaxCadenceRuns \in Nat
BY DEF CadenceAssumption

(* One run more: the oldest record goes when there are too many. *)
LEMMA RunAdded ==
    ASSUME CadenceAssumption, NEW shown, NEW list, Shows(shown, list), NEW n, n = Len(list)
    PROVE  Shows(Lasting(Append(shown, [id |-> n + 1, status |-> "running"]), KeepRuns),
                 Append(list, "running"))
<1> DEFINE k == Len(shown)
           record == [id |-> n + 1, status |-> "running"]
           longer == Append(shown, record)
           more == Append(list, "running")
           kept == Lasting(longer, KeepRuns)
<1>1. /\ shown \in Seq([id : Nat, status : RunStatuses]) /\ list \in Seq(RunStatuses)
      /\ KeepRuns \in Nat /\ KeepRuns > 0 /\ k \in Nat /\ n \in Nat
  BY KeepType, LenProperties DEF Shows
<1>2. k = Least(n, KeepRuns)
  BY DEF Shows
<1>3. record \in [id : Nat, status : RunStatuses] /\ "running" \in RunStatuses
  BY <1>1 DEF RunStatuses
<1>4. /\ longer \in Seq([id : Nat, status : RunStatuses]) /\ Len(longer) = k + 1
      /\ longer[k + 1] = record /\ \A i \in 1..k : longer[i] = shown[i]
  BY <1>1, <1>3, AppendProperties
<1>5. /\ more \in Seq(RunStatuses) /\ Len(more) = n + 1
      /\ more[n + 1] = "running" /\ \A i \in 1..n : more[i] = list[i]
  BY <1>1, <1>3, AppendProperties
<1>6. \A i \in 1..k : shown[i] = [id |-> n - k + i, status |-> list[n - k + i]]
  BY DEF Shows
<1>7. k <= n /\ k <= KeepRuns
  BY <1>1, <1>2 DEF Least
<1>8a. kept = Lasting(longer, KeepRuns)
  OBVIOUS
<1> HIDE DEF k, record, longer, more, kept
<1>8. \A i \in 1..(k + 1) : longer[i] = [id |-> n - k + i, status |-> more[n - k + i]]
  <2> SUFFICES ASSUME NEW i \in 1..(k + 1)
               PROVE  longer[i] = [id |-> n - k + i, status |-> more[n - k + i]]
    OBVIOUS
  <2>1. CASE i = k + 1
    <3>1. n - k + i = n + 1
      BY <1>1, <2>1
    <3>2. QED
      BY <1>4, <1>5, <2>1, <3>1 DEF record
  <2>2. CASE i # k + 1
    <3>1. i \in 1..k /\ n - k + i \in 1..n
      BY <1>1, <1>7, <2>2
    <3>2. QED
      BY <1>4, <1>5, <1>6, <3>1
  <2>3. QED
    BY <2>1, <2>2
<1>9. CASE k + 1 > KeepRuns
  <2>1. kept = Tail(longer) /\ k = KeepRuns
    BY <1>1, <1>4, <1>7, <1>8a, <1>9 DEF Lasting
  <2>2. kept \in Seq([id : Nat, status : RunStatuses]) /\ Len(kept) = k
        /\ \A i \in 1..k : kept[i] = longer[i + 1]
    <3>1. longer # <<>>
      BY <1>1, <1>4
    <3>2. QED
      BY <1>1, <1>4, <2>1, <3>1, HeadTailProperties
  <2>3. k = Least(n + 1, KeepRuns)
    BY <1>1, <1>7, <2>1 DEF Least
  <2>4. \A i \in 1..k : kept[i] = [id |-> n + 1 - k + i, status |-> more[n + 1 - k + i]]
    <3> SUFFICES ASSUME NEW i \in 1..k
                 PROVE  kept[i] = [id |-> n + 1 - k + i, status |-> more[n + 1 - k + i]]
      OBVIOUS
    <3>1. i + 1 \in 1..(k + 1) /\ n - k + (i + 1) = n + 1 - k + i
      BY <1>1
    <3>2. QED
      BY <1>8, <2>2, <3>1
  <2>5. Shows(kept, more)
    <3>1. Len(more) - Len(kept) = n + 1 - k
      BY <1>5, <2>2
    <3>2. QED
      BY <1>5, <2>2, <2>3, <2>4, <3>1 DEF Shows
  <2>6. QED
    BY <2>5 DEF kept, longer, more, record
<1>10. CASE ~(k + 1 > KeepRuns)
  <2>1. kept = longer
    BY <1>4, <1>8a, <1>10 DEF Lasting
  <2>2. k = n /\ k + 1 = Least(n + 1, KeepRuns)
    BY <1>1, <1>2, <1>10 DEF Least
  <2>3. \A i \in 1..(k + 1) : longer[i] = [id |-> (n + 1) - (k + 1) + i, status |-> more[(n + 1) - (k + 1) + i]]
    <3> SUFFICES ASSUME NEW i \in 1..(k + 1)
                 PROVE  longer[i] = [id |-> (n + 1) - (k + 1) + i, status |-> more[(n + 1) - (k + 1) + i]]
      OBVIOUS
    <3>1. (n + 1) - (k + 1) + i = n - k + i
      BY <1>1
    <3>2. QED
      BY <1>8, <3>1
  <2>4. Shows(kept, more)
    <3>1. kept \in Seq([id : Nat, status : RunStatuses]) /\ Len(kept) = k + 1
      BY <1>4, <2>1
    <3>2. Len(more) - Len(kept) = (n + 1) - (k + 1)
      BY <1>5, <3>1
    <3>3. \A i \in 1..(k + 1) : kept[i] = [id |-> (n + 1) - (k + 1) + i,
                                          status |-> more[(n + 1) - (k + 1) + i]]
      BY <2>1, <2>3
    <3>4. Len(kept) = Least(Len(more), KeepRuns)
      BY <1>5, <2>2, <3>1
    <3>5. QED
      BY <1>5, <3>1, <3>2, <3>3, <3>4 DEF Shows
  <2>5. QED
    BY <2>4 DEF kept, longer, more, record
<1>11. QED
  BY <1>9, <1>10

(* A run's record is marked, and the others are left alone. *)
LEMMA RunMarked ==
    ASSUME CadenceAssumption, NEW shown, NEW list, Shows(shown, list), NEW seen,
           NEW run \in 1..Len(list), NEW st \in RunStatuses
    PROVE  /\ Shows(MarkRun(shown, seen, run, st), [list EXCEPT ![run] = st])
           /\ Len([list EXCEPT ![run] = st]) = Len(list)
<1> DEFINE n == Len(list)
           k == Len(shown)
           marked == MarkRun(shown, seen, run, st)
           now_ == [list EXCEPT ![run] = st]
<1>1. /\ shown \in Seq([id : Nat, status : RunStatuses]) /\ list \in Seq(RunStatuses)
      /\ DOMAIN shown = 1..k /\ DOMAIN list = 1..n /\ k \in Nat /\ n \in Nat
  BY LenProperties DEF Shows
<1>2. now_ \in Seq(RunStatuses) /\ Len(now_) = n /\ now_[run] = st
      /\ \A i \in 1..n : i # run => now_[i] = list[i]
  BY <1>1, ExceptSeq
<1>3. \A i \in 1..k : /\ shown[i] \in [id : Nat, status : RunStatuses]
                      /\ shown[i] = [id |-> n - k + i, status |-> list[n - k + i]]
                      /\ n - k + i \in 1..n
  <2>1. k <= n
    BY <1>1, KeepType DEF Shows, Least
  <2>2. ASSUME NEW i \in 1..k
        PROVE  n - k + i \in 1..n
    BY <1>1, <2>1
  <2>3. QED
    BY <1>1, <2>2, ElementOfSeq DEF Shows
<1>4. marked = [i \in 1..k |-> IF shown[i].id = run THEN [shown[i] EXCEPT !.status = st] ELSE shown[i]]
  BY <1>1 DEF MarkRun
<1> HIDE DEF marked, now_, n, k
<1>5. \A i \in 1..k : /\ marked[i] \in [id : Nat, status : RunStatuses]
                      /\ marked[i] = [id |-> n - k + i, status |-> now_[n - k + i]]
  <2> SUFFICES ASSUME NEW i \in 1..k
               PROVE  /\ marked[i] \in [id : Nat, status : RunStatuses]
                      /\ marked[i] = [id |-> n - k + i, status |-> now_[n - k + i]]
    OBVIOUS
  <2>0. shown[i] = [id |-> n - k + i, status |-> list[n - k + i]]
    BY <1>3
  <2>1. shown[i].id = n - k + i
    BY <2>0
  <2>2. CASE shown[i].id = run
    BY <1>2, <1>3, <1>4, <2>1, <2>2
  <2>3. CASE shown[i].id # run
    BY <1>2, <1>3, <1>4, <2>1, <2>3
  <2>4. QED
    BY <2>2, <2>3
<1>6. marked \in Seq([id : Nat, status : RunStatuses]) /\ Len(marked) = k
  <2>1. marked \in [1..k -> [id : Nat, status : RunStatuses]]
    BY <1>4, <1>5
  <2>2. QED
    BY <1>1, <2>1
<1>7. k = Least(n, KeepRuns)
  BY DEF Shows, k, n
<1>8. QED
  BY <1>2, <1>5, <1>6, <1>7 DEF Shows, marked, now_, n

(* The brief of a run is filed: its record, its requests, its log entry,   *)
(* as far as the process lives.                                            *)
LEMMA BriefFiled ==
    ASSUME CadenceAssumption, NEW shown, NEW list, Shows(shown, list), NEW seen, NEW brief,
           NEW run \in 1..Len(list), list[run] = "running", Len(list) <= MaxCadenceRuns,
           LogTells(cadenceLog, list, cadenceRequests),
           NEW done \in 0..6, FileBrief(run, shown, seen, brief, done)
    PROVE  /\ Shows(cadenceRuns', Ended(list, run, done))
           /\ LogTells(cadenceLog', Ended(list, run, done), cadenceRequests')
           /\ Len(Ended(list, run, done)) = Len(list)
<1>1. PICK after : after = Ended(list, run, done)
  OBVIOUS
<1>2. PICK marked : marked = [list EXCEPT ![run] = "completed"]
  OBVIOUS
<1>3. list \in Seq(RunStatuses) /\ Len(list) \in Nat /\ DOMAIN list = 1..Len(list)
  BY LenProperties DEF Shows
<1>4. /\ Shows(MarkRun(shown, seen, run, "completed"), marked) /\ Len(marked) = Len(list)
      /\ marked[run] = "completed" /\ \A i \in 1..Len(list) : i # run => marked[i] = list[i]
  <2>1. "completed" \in RunStatuses
    BY DEF RunStatuses
  <2>2. Shows(MarkRun(shown, seen, run, "completed"), marked) /\ Len(marked) = Len(list)
    BY <1>2, <2>1, RunMarked
  <2>3. QED
    BY <1>2, <1>3, <2>2
<1>5. /\ cadenceRuns' = IF done >= 2 THEN MarkRun(shown, seen, run, "completed") ELSE shown
      /\ after = IF done >= 2 THEN marked ELSE list
  BY <1>1, <1>2 DEF FileBrief, writeJsonAtomic, Ended
<1>6. Shows(cadenceRuns', after) /\ Len(after) = Len(list)
  BY <1>4, <1>5
<1>7. PICK told : told = [run |-> run, decisions |-> brief.weekly.decisions, trend |-> brief.weekly.trend]
  OBVIOUS
<1>8. /\ cadenceRequests' = IF done >= 5 THEN [cadenceRequests EXCEPT ![run] = brief.weekly.decisions]
                            ELSE cadenceRequests
      /\ cadenceLog' = IF done >= 6 THEN cadenceLog \cup {told} ELSE cadenceLog
  BY <1>7 DEF FileBrief, writeJsonAtomic
<1>9. cadenceRequests = [r \in 1..MaxCadenceRuns |-> cadenceRequests[r]] /\ run \in 1..MaxCadenceRuns
  BY <1>3, KeepType DEF LogTells
<1>10. /\ cadenceRequests' = [r \in 1..MaxCadenceRuns |-> cadenceRequests'[r]]
       /\ \A r \in 1..MaxCadenceRuns : r # run => cadenceRequests'[r] = cadenceRequests[r]
       /\ done >= 5 => cadenceRequests'[run] = brief.weekly.decisions
  <2>1. CASE done >= 5
    <3>1. cadenceRequests' = [cadenceRequests EXCEPT ![run] = brief.weekly.decisions]
      BY <1>8, <2>1
    <3>2. QED
      BY <1>9, <3>1
  <2>2. CASE ~(done >= 5)
    <3>1. cadenceRequests' = cadenceRequests
      BY <1>8, <2>2
    <3>2. QED
      BY <1>9, <2>2, <3>1
  <2>3. QED
    BY <2>1, <2>2
<1>11. ASSUME NEW entry \in cadenceLog'
       PROVE  /\ entry.run \in 1..Len(after)
              /\ after[entry.run] = "completed"
              /\ cadenceRequests'[entry.run] = entry.decisions
  <2>1. CASE entry \in cadenceLog
    <3>1. /\ entry.run \in 1..Len(list) /\ list[entry.run] = "completed"
          /\ cadenceRequests[entry.run] = entry.decisions
      BY <2>1 DEF LogTells
    <3>2. entry.run # run /\ entry.run \in 1..MaxCadenceRuns
      BY <1>3, <3>1, KeepType
    <3>3. QED
      BY <1>4, <1>5, <1>6, <1>10, <3>1, <3>2
  <2>2. CASE entry \notin cadenceLog
    <3>1. entry = told /\ done >= 6
      BY <1>8, <2>2
    <3>2. entry.run = run /\ entry.decisions = brief.weekly.decisions
      BY <1>7, <3>1
    <3>3. done >= 5 /\ done >= 2
      BY <3>1
    <3>4. QED
      BY <1>4, <1>5, <1>6, <1>10, <3>2, <3>3
  <2>3. QED
    BY <2>1, <2>2
<1>12. LogTells(cadenceLog', after, cadenceRequests')
  BY <1>10, <1>11 DEF LogTells
<1>13. QED
  BY <1>1, <1>6, <1>12

LEMMA CadenceInvInit == CadenceAssumption /\ CadenceInit => CadenceInv
<1> SUFFICES ASSUME CadenceAssumption, CadenceInit
             PROVE  CadenceInv
  OBVIOUS
<1>1. KeepRuns \in Nat /\ KeepRuns > 0 /\ MaxCadenceRuns \in Nat
  BY KeepType
<1>2. cadenceRuns = <<>> /\ ends = <<>> /\ cadenceLog = {}
      /\ cadenceRequests = [run \in 1..MaxCadenceRuns |-> 0] /\ runners = [c \in Runners |-> AtRest]
  BY DEF CadenceInit
<1>3. <<>> \in Seq([id : Nat, status : RunStatuses]) /\ <<>> \in Seq(RunStatuses) /\ Len(<<>>) = 0
  OBVIOUS
<1>4. Shows(cadenceRuns, ends)
  BY <1>1, <1>2, <1>3 DEF Shows, Least
<1>5. LogTells(cadenceLog, ends, cadenceRequests)
  BY <1>2 DEF LogTells
<1>6. RunnersWait(runners, ends)
  BY <1>2 DEF RunnersWait
<1>7. QED
  BY <1>1, <1>2, <1>3, <1>4, <1>5, <1>6 DEF CadenceInv

(* A new run does not touch those before it. *)
LEMMA RunAppended ==
    ASSUME CadenceAssumption, CadenceInv, Len(ends) < MaxCadenceRuns, NEW n, n = Len(ends)
    PROVE  /\ n \in Nat
           /\ Len(Append(ends, "running")) = n + 1 /\ Append(ends, "running")[n + 1] = "running"
           /\ n + 1 <= MaxCadenceRuns
           /\ Shows(WithRun(n + 1, "running"), Append(ends, "running"))
           /\ LogTells(cadenceLog, Append(ends, "running"), cadenceRequests)
           /\ RunnersWait(runners, Append(ends, "running"))
<1>1. ends \in Seq(RunStatuses) /\ n \in Nat /\ MaxCadenceRuns \in Nat
  BY KeepType, LenProperties DEF CadenceInv, Shows
<1>2. PICK more : more = Append(ends, "running")
  OBVIOUS
<1>3. /\ Len(more) = n + 1 /\ more[n + 1] = "running" /\ \A i \in 1..n : more[i] = ends[i]
  BY <1>1, <1>2, AppendProperties DEF RunStatuses
<1>4. \A i \in 1..n : i \in 1..Len(more)
  BY <1>1, <1>3
<1>5. Shows(WithRun(n + 1, "running"), more)
  BY <1>2, RunAdded DEF CadenceInv, WithRun
<1>6. LogTells(cadenceLog, more, cadenceRequests)
  BY <1>3, <1>4 DEF CadenceInv, LogTells
<1>7. RunnersWait(runners, more)
  BY <1>3, <1>4 DEF CadenceInv, RunnersWait
<1>8. QED
  BY <1>1, <1>2, <1>3, <1>5, <1>6, <1>7

(* The run of a runner ends, and the runner with it. *)
LEMMA RunnerEnds ==
    ASSUME NEW list, RunnersWait(runners, list), NEW c \in Runners, runners[c] # AtRest,
           NEW after, Len(after) = Len(list),
           \A i \in 1..Len(list) : i # runners[c].run => after[i] = list[i]
    PROVE  RunnersWait([runners EXCEPT ![c] = AtRest], after)
<1>1. PICK flights : flights = [runners EXCEPT ![c] = AtRest]
  OBVIOUS
<1>2. /\ flights = [d \in Runners |-> flights[d]] /\ flights[c] = AtRest
      /\ \A d \in Runners : d # c => flights[d] = runners[d]
  BY <1>1 DEF RunnersWait
<1>3. ASSUME NEW d \in Runners, flights[d] # AtRest
      PROVE  flights[d].run \in 1..Len(after) /\ after[flights[d].run] = "running"
  <2>1. d # c /\ flights[d] = runners[d]
    BY <1>2, <1>3
  <2>2. runners[d].run \in 1..Len(list) /\ list[runners[d].run] = "running"
        /\ runners[d].run # runners[c].run
    BY <1>3, <2>1 DEF RunnersWait
  <2>3. QED
    BY <2>1, <2>2
<1>4. ASSUME NEW d \in Runners, NEW e \in Runners, flights[d] # AtRest, flights[e] # AtRest,
             flights[d].run = flights[e].run
      PROVE  d = e
  BY <1>2, <1>4 DEF RunnersWait
<1>5. QED
  BY <1>1, <1>2, <1>3, <1>4 DEF RunnersWait

LEMMA AllAtRest == ASSUME NEW list PROVE RunnersWait([r \in Runners |-> AtRest], list)
BY DEF RunnersWait

LEMMA CadenceInvStep == CadenceAssumption /\ CadenceInv /\ [CadenceNext]_cadenceVars => CadenceInv'
<1> SUFFICES ASSUME CadenceAssumption, CadenceInv, [CadenceNext]_cadenceVars
             PROVE  CadenceInv'
  OBVIOUS
<1>0. ends \in Seq(RunStatuses) /\ Len(ends) \in Nat /\ MaxCadenceRuns \in Nat
      /\ DOMAIN ends = 1..Len(ends)
  BY KeepType, LenProperties DEF CadenceInv, Shows
<1>1. ASSUME NEW c \in Runners, NEW scheduled \in BOOLEAN, BeginCadence(c, scheduled)
      PROVE  CadenceInv'
  <2>1. PICK n, more, flight : /\ n = Len(ends) /\ more = Append(ends, "running")
                               /\ flight = [run |-> n + 1, seen |-> WithRun(n + 1, "running")]
    OBVIOUS
  <2>2. /\ n < MaxCadenceRuns /\ cadenceRuns' = WithRun(n + 1, "running")
        /\ runners' = [runners EXCEPT ![c] = flight] /\ ends' = more
        /\ cadenceLog' = cadenceLog /\ cadenceRequests' = cadenceRequests
    BY <1>1, <2>1 DEF BeginCadence, MayBegin
  <2>3. /\ n \in Nat /\ Len(more) = n + 1 /\ more[n + 1] = "running" /\ n + 1 <= MaxCadenceRuns
        /\ Shows(WithRun(n + 1, "running"), more)
        /\ LogTells(cadenceLog, more, cadenceRequests)
        /\ RunnersWait(runners, more)
    BY <2>1, <2>2, RunAppended
  <2>4. \A d \in Runners : runners[d] # AtRest => runners[d].run \in 1..n
    BY <2>1 DEF CadenceInv, RunnersWait
  <2>5. /\ runners' = [d \in Runners |-> runners'[d]] /\ runners'[c] = flight /\ flight.run = n + 1
        /\ \A d \in Runners : d # c => runners'[d] = runners[d]
    BY <2>1, <2>2, <2>3 DEF RunnersWait
  <2>6. n + 1 \in 1..Len(more) /\ \A i \in 1..n : i # n + 1
    BY <2>3
  <2>7. ASSUME NEW d \in Runners, runners'[d] # AtRest
        PROVE  runners'[d].run \in 1..Len(more) /\ more[runners'[d].run] = "running"
    <3>1. CASE d = c
      BY <2>3, <2>5, <2>6, <3>1
    <3>2. CASE d # c
      BY <2>3, <2>5, <2>7, <3>2 DEF RunnersWait
    <3>3. QED
      BY <3>1, <3>2
  <2>8. ASSUME NEW d \in Runners, NEW e \in Runners, runners'[d] # AtRest, runners'[e] # AtRest,
               runners'[d].run = runners'[e].run
        PROVE  d = e
    <3>1. CASE d # c /\ e # c
      BY <2>3, <2>5, <2>8, <3>1 DEF RunnersWait
    <3>2. CASE d = c \/ e = c
      BY <2>4, <2>5, <2>6, <2>8, <3>2
    <3>3. QED
      BY <3>1, <3>2
  <2>9. RunnersWait(runners', more)
    BY <2>5, <2>7, <2>8 DEF RunnersWait
  <2>10. QED
    BY <2>2, <2>3, <2>9 DEF CadenceInv
<1>2. ASSUME NEW c \in Runners, NEW brief, NEW done \in 0..6, EndCadence(c, brief, done)
      PROVE  CadenceInv'
  <2>1. PICK run, seen, after : run = runners[c].run /\ seen = runners[c].seen
                                /\ after = Ended(ends, run, done)
    OBVIOUS
  <2>2. /\ runners[c] # AtRest /\ FileBrief(run, cadenceRuns, seen, brief, done)
        /\ ends' = after
        /\ runners' = IF done < 6 THEN [r \in Runners |-> AtRest] ELSE [runners EXCEPT ![c] = AtRest]
    BY <1>2, <2>1 DEF EndCadence
  <2>3. run \in 1..Len(ends) /\ ends[run] = "running"
    BY <2>1, <2>2 DEF CadenceInv, RunnersWait
  <2>4. /\ Shows(cadenceRuns', after) /\ LogTells(cadenceLog', after, cadenceRequests')
        /\ Len(after) = Len(ends)
    <3>1. PICK shown, list : shown = cadenceRuns /\ list = ends
      OBVIOUS
    <3>2. /\ Shows(shown, list) /\ run \in 1..Len(list) /\ list[run] = "running"
          /\ Len(list) <= MaxCadenceRuns /\ LogTells(cadenceLog, list, cadenceRequests)
          /\ FileBrief(run, shown, seen, brief, done)
      BY <2>2, <2>3, <3>1 DEF CadenceInv
    <3>3. /\ Shows(cadenceRuns', Ended(list, run, done))
          /\ LogTells(cadenceLog', Ended(list, run, done), cadenceRequests')
          /\ Len(Ended(list, run, done)) = Len(list)
      BY <3>2, BriefFiled
    <3>4. QED
      BY <2>1, <3>1, <3>3
  <2>5. \A i \in 1..Len(ends) : i # run => after[i] = ends[i]
    BY <1>0, <2>1 DEF Ended
  <2>6. RunnersWait(runners', after)
    <3>1. CASE done < 6
      BY <2>2, <3>1, AllAtRest
    <3>2. CASE ~(done < 6)
      BY <2>1, <2>2, <2>4, <2>5, <3>2, RunnerEnds DEF CadenceInv
    <3>3. QED
      BY <3>1, <3>2
  <2>7. QED
    BY <2>2, <2>4, <2>6 DEF CadenceInv
<1>3. ASSUME NEW c \in Runners, FailCadence(c)
      PROVE  CadenceInv'
  <2>1. PICK run, seen, after : run = runners[c].run /\ seen = runners[c].seen
                                /\ after = [ends EXCEPT ![run] = "failed"]
    OBVIOUS
  <2>2. /\ runners[c] # AtRest /\ cadenceRuns' = MarkRun(cadenceRuns, seen, run, "failed")
        /\ ends' = after /\ runners' = [runners EXCEPT ![c] = AtRest]
        /\ cadenceLog' = cadenceLog /\ cadenceRequests' = cadenceRequests
    BY <1>3, <2>1 DEF FailCadence
  <2>3. run \in 1..Len(ends) /\ ends[run] = "running"
    BY <2>1, <2>2 DEF CadenceInv, RunnersWait
  <2>4. Shows(cadenceRuns', after) /\ Len(after) = Len(ends)
    BY <2>1, <2>2, <2>3, RunMarked DEF CadenceInv, RunStatuses
  <2>5. \A i \in 1..Len(ends) : i # run => after[i] = ends[i]
    BY <1>0, <2>1
  <2>6. LogTells(cadenceLog, after, cadenceRequests)
    <3>1. ASSUME NEW entry \in cadenceLog
          PROVE  entry.run \in 1..Len(after) /\ after[entry.run] = "completed"
                 /\ cadenceRequests[entry.run] = entry.decisions
      BY <2>3, <2>4, <2>5 DEF CadenceInv, LogTells
    <3>2. QED
      BY <3>1 DEF CadenceInv, LogTells
  <2>7. RunnersWait(runners', after)
    BY <2>1, <2>2, <2>4, <2>5, RunnerEnds DEF CadenceInv
  <2>8. QED
    BY <2>2, <2>4, <2>6, <2>7 DEF CadenceInv
<1>4. ASSUME NEW scheduled \in BOOLEAN, NEW done \in 0..6, NEW brief, RunAtOnce(scheduled, brief, done)
      PROVE  CadenceInv'
  <2>1. PICK n, more, records, after : /\ n = Len(ends) /\ more = Append(ends, "running")
                                       /\ records = WithRun(n + 1, "running")
                                       /\ after = Ended(more, n + 1, done)
    OBVIOUS
  <2>2. /\ n < MaxCadenceRuns /\ FileBrief(n + 1, records, records, brief, done) /\ ends' = after
        /\ runners' = IF done < 6 THEN [r \in Runners |-> AtRest] ELSE runners
    BY <1>4, <2>1 DEF RunAtOnce, MayBegin
  <2>3. /\ n \in Nat /\ Len(more) = n + 1 /\ more[n + 1] = "running" /\ n + 1 <= MaxCadenceRuns
        /\ Shows(records, more)
        /\ LogTells(cadenceLog, more, cadenceRequests)
        /\ RunnersWait(runners, more)
    BY <2>1, <2>2, RunAppended
  <2>4. n + 1 \in 1..Len(more)
    BY <2>3
  <2>5. /\ Shows(cadenceRuns', after) /\ LogTells(cadenceLog', after, cadenceRequests')
        /\ Len(after) = n + 1
    <3>1. PICK run : run = n + 1
      OBVIOUS
    <3>2. /\ Shows(records, more) /\ run \in 1..Len(more) /\ more[run] = "running"
          /\ Len(more) <= MaxCadenceRuns /\ LogTells(cadenceLog, more, cadenceRequests)
          /\ FileBrief(run, records, records, brief, done)
      BY <2>2, <2>3, <2>4, <3>1
    <3>3. /\ Shows(cadenceRuns', Ended(more, run, done))
          /\ LogTells(cadenceLog', Ended(more, run, done), cadenceRequests')
          /\ Len(Ended(more, run, done)) = Len(more)
      BY <3>2, BriefFiled
    <3>4. QED
      BY <2>1, <2>3, <3>1, <3>3
  <2>6. RunnersWait(runners', after)
    <3>1. CASE done < 6
      BY <2>2, <3>1, AllAtRest
    <3>2. CASE ~(done < 6)
      <4>1. \A i \in 1..n : after[i] = ends[i] /\ i \in 1..Len(after)
        <5>1. \A i \in 1..n : i # n + 1 /\ i \in 1..(n + 1)
          BY <2>3
        <5>2. more \in Seq(RunStatuses) /\ \A i \in 1..n : more[i] = ends[i]
          BY <1>0, <2>1, AppendProperties DEF RunStatuses
        <5>3. DOMAIN more = 1..(n + 1)
          BY <2>3, <5>2, LenProperties
        <5>4. QED
          BY <2>1, <2>5, <5>1, <5>2, <5>3 DEF Ended
      <4>2. QED
        BY <2>1, <2>2, <3>2, <4>1 DEF CadenceInv, RunnersWait
    <3>3. QED
      BY <3>1, <3>2
  <2>7. QED
    BY <2>2, <2>3, <2>5, <2>6 DEF CadenceInv
<1>5. ASSUME NEW hours, PassHours(hours)
      PROVE  CadenceInv'
  <2>1. UNCHANGED <<cadenceRuns, ends, cadenceLog, cadenceRequests, runners>>
    BY <1>5 DEF PassHours
  <2>2. QED
    BY <2>1 DEF CadenceInv
<1>6. CASE (WorkspaceActions /\ UNCHANGED runVars) \/ UNCHANGED cadenceVars
  <2>1. UNCHANGED <<cadenceRuns, ends, cadenceLog, cadenceRequests, runners>>
    BY <1>6 DEF runVars, cadenceVars
  <2>2. QED
    BY <2>1 DEF CadenceInv
<1>7. QED
  BY <1>1, <1>2, <1>3, <1>4, <1>5, <1>6 DEF CadenceNext

(* The records of the board's runs, for any number of runs that overlap,   *)
(* any retention and any crash: each of the last KeepRuns runs is shown as *)
(* it ended, whatever was recorded while it waited for the model, and the  *)
(* log tells of completed runs whose decisions are on file (runCadence).   *)
THEOREM RunsKeepEnds == CadenceSpec => []RunsKeepTheirEnd
<1>1. CadenceInv => RunsKeepTheirEnd
  <2> SUFFICES ASSUME CadenceInv
               PROVE  RunsKeepTheirEnd
    OBVIOUS
  <2>1. DOMAIN cadenceRuns = 1..Len(cadenceRuns)
    BY LenProperties DEF CadenceInv, Shows
  <2>2. QED
    BY <2>1 DEF CadenceInv, Shows, LogTells, RunsKeepTheirEnd
<1>2. QED
  BY <1>1, CadenceInvInit, CadenceInvStep, CadenceAssumption, PTL DEF CadenceSpec

(* The workspace's three stores, and every field of the settings. *)
SettingsFields == {"agentsPaused", "killSwitch", "pausedConnectors"}

LEMMA WorkspaceKeeps ==
    ASSUME WorkspaceTypeOK, DOMAIN ops = SettingsFields, [WorkspaceActions]_workspaceVars
    PROVE  WorkspaceTypeOK' /\ DOMAIN ops' = SettingsFields
<1>0. MaxOpsChanges \in Nat
  BY WorkspaceAssumption DEF WorkspaceAssumption
<1>1. ASSUME NEW patch \in [{"agentsPaused"} -> BOOLEAN] \cup [{"killSwitch"} -> BOOLEAN]
                           \cup [{"pausedConnectors"} -> SUBSET ConnectorNames],
             PatchOps(patch)
      PROVE  WorkspaceTypeOK' /\ DOMAIN ops' = SettingsFields
  <2>1. DOMAIN ops' = SettingsFields
    BY <1>1 DEF PatchOps
  <2>2. \A field \in SettingsFields : ops'[field] = IF field \in DOMAIN patch THEN patch[field] ELSE ops[field]
    BY <1>1 DEF PatchOps
  <2>3. /\ ops'.agentsPaused = IF "agentsPaused" \in DOMAIN patch THEN patch.agentsPaused ELSE ops.agentsPaused
        /\ ops'.killSwitch = IF "killSwitch" \in DOMAIN patch THEN patch.killSwitch ELSE ops.killSwitch
        /\ ops'.pausedConnectors = IF "pausedConnectors" \in DOMAIN patch THEN patch.pausedConnectors ELSE ops.pausedConnectors
    BY <2>2, Zenon DEF SettingsFields
  <2>4. /\ "agentsPaused" \in DOMAIN patch => patch.agentsPaused \in BOOLEAN
        /\ "killSwitch" \in DOMAIN patch => patch.killSwitch \in BOOLEAN
        /\ "pausedConnectors" \in DOMAIN patch => patch.pausedConnectors \subseteq ConnectorNames
    BY <1>1
  <2>5. ops'.agentsPaused \in BOOLEAN /\ ops'.killSwitch \in BOOLEAN /\ ops'.pausedConnectors \subseteq ConnectorNames
    BY <2>3, <2>4 DEF WorkspaceTypeOK
  <2>6. killSwitch' \in BOOLEAN /\ connectorPauses' \subseteq KNOWN_CONNECTORS /\ opsChanges' \in 0..MaxOpsChanges
    BY <1>0, <1>1 DEF PatchOps, OpsChange, WorkspaceTypeOK
  <2>7. QED
    BY <2>1, <2>5, <2>6 DEF WorkspaceTypeOK
<1>2. ASSUME NEW enabled \in BOOLEAN, PatchKillSwitch(enabled)
      PROVE  WorkspaceTypeOK' /\ DOMAIN ops' = SettingsFields
  BY <1>0, <1>2 DEF PatchKillSwitch, OpsChange, WorkspaceTypeOK
<1>3. ASSUME NEW c, NEW paused, PauseConnector(c, paused)
      PROVE  WorkspaceTypeOK' /\ DOMAIN ops' = SettingsFields
  BY <1>0, <1>3 DEF PauseConnector, OpsChange, WorkspaceTypeOK
<1>4. CASE UNCHANGED workspaceVars
  BY <1>4 DEF workspaceVars, WorkspaceTypeOK
<1>5. QED
  BY <1>1, <1>2, <1>3, <1>4 DEF WorkspaceActions

(* A bounded list stays one. *)
BoundedList(list, keep) == Len(list) <= keep /\ \E S : list \in Seq(S)

LEMMA BoundedListGrows ==
    ASSUME NEW keep \in Nat, NEW list, BoundedList(list, keep), NEW x
    PROVE  BoundedList(Lasting(Append(list, x), keep), keep)
<1>1. PICK S : list \in Seq(S)
  BY DEF BoundedList
<1>2. PICK longer : longer = Append(list, x)
  OBVIOUS
<1>3. PICK T : T = S \cup {x}
  OBVIOUS
<1>4. list \in Seq(T) /\ x \in T
  BY <1>1, <1>3
<1>5. longer \in Seq(T) /\ Len(longer) = Len(list) + 1 /\ longer # <<>> /\ Len(list) \in Nat
  BY <1>2, <1>4, AppendProperties, LenProperties
<1>6. Tail(longer) \in Seq(T) /\ Len(Tail(longer)) = Len(longer) - 1
  BY <1>5, HeadTailProperties
<1>7. Len(list) <= keep
  BY DEF BoundedList
<1>8. CASE Len(longer) > keep
  <2>1. Lasting(longer, keep) = Tail(longer)
    BY <1>8 DEF Lasting
  <2>2. Len(Tail(longer)) <= keep
    BY <1>5, <1>6, <1>7
  <2>3. QED
    BY <1>2, <1>6, <2>1, <2>2, Zenon DEF BoundedList
<1>9. CASE ~(Len(longer) > keep)
  <2>1. Lasting(longer, keep) = longer
    BY <1>9 DEF Lasting
  <2>2. Len(longer) <= keep
    BY <1>5, <1>9
  <2>3. QED
    BY <1>2, <1>5, <2>1, <2>2, Zenon DEF BoundedList
<1>10. QED
  BY <1>8, <1>9

CadenceRest ==
    /\ WorkspaceTypeOK /\ DOMAIN ops = SettingsFields
    /\ hour \in 0..MaxHours
    /\ BoundedList(briefs, KeepBriefs)
    /\ cadenceCrashes \in 0..MaxCadenceCrashes

LEMMA BriefsBounded ==
    ASSUME CadenceRest, NEW run, NEW runs, NEW seen, NEW brief, NEW done, FileBrief(run, runs, seen, brief, done)
    PROVE  BoundedList(briefs', KeepBriefs)
<1>1. KeepBriefs \in Nat
  BY CadenceAssumption DEF CadenceAssumption
<1>2. briefs' \in {briefs, Lasting(Append(briefs, brief), KeepBriefs)}
  BY DEF FileBrief, writeJsonAtomic
<1>3. BoundedList(briefs, KeepBriefs)
  BY DEF CadenceRest
<1>4. BoundedList(Lasting(Append(briefs, brief), KeepBriefs), KeepBriefs)
  BY <1>1, <1>3, BoundedListGrows
<1>5. QED
  BY <1>2, <1>3, <1>4

LEMMA CadenceTypes == CadenceSpec => []CadenceTypeOK
<1>0. MaxHours \in Nat /\ MaxCadenceCrashes \in Nat /\ MaxOpsChanges \in Nat /\ KeepBriefs \in Nat /\ Elapses \subseteq Nat
  BY CadenceAssumption, WorkspaceAssumption DEF CadenceAssumption, WorkspaceAssumption
<1>1. CadenceInit => CadenceRest
  <2> SUFFICES ASSUME CadenceInit
               PROVE  CadenceRest
    OBVIOUS
  <2>1. WorkspaceTypeOK /\ DOMAIN ops = SettingsFields
    <3>1. /\ ops = [agentsPaused |-> FALSE, killSwitch |-> FALSE, pausedConnectors |-> {}]
          /\ killSwitch = FALSE /\ connectorPauses = {} /\ opsChanges = 0
      BY DEF CadenceInit, WorkspaceInit, defaultSettings
    <3>2. ops.agentsPaused = FALSE /\ ops.killSwitch = FALSE /\ ops.pausedConnectors = {}
      BY <3>1, Zenon
    <3>3. DOMAIN ops = SettingsFields
      BY <3>1 DEF SettingsFields
    <3>4. opsChanges \in 0..MaxOpsChanges
      BY <1>0, <3>1
    <3>5. QED
      BY <3>1, <3>2, <3>3, <3>4, Zenon DEF WorkspaceTypeOK
  <2>2. <<>> \in Seq({}) /\ Len(<<>>) = 0
    OBVIOUS
  <2>3. BoundedList(briefs, KeepBriefs)
    BY <1>0, <2>2 DEF CadenceInit, BoundedList
  <2>4. QED
    BY <1>0, <2>1, <2>3 DEF CadenceInit, CadenceRest
<1>2. CadenceRest /\ [CadenceNext]_cadenceVars => CadenceRest'
  <2> SUFFICES ASSUME CadenceRest, [CadenceNext]_cadenceVars
               PROVE  CadenceRest'
    OBVIOUS
  <2>1. ASSUME UNCHANGED workspaceVars
        PROVE  WorkspaceTypeOK' /\ DOMAIN ops' = SettingsFields
    BY <2>1, WorkspaceKeeps DEF CadenceRest
  <2>2. ASSUME NEW done \in 0..6, OrDie(done)
        PROVE  cadenceCrashes' \in 0..MaxCadenceCrashes
    BY <1>0, <2>2 DEF OrDie, CadenceRest
  <2>3. ASSUME UNCHANGED <<hour, briefs, cadenceCrashes, workspaceVars>>
        PROVE  CadenceRest'
    BY <2>1, <2>3 DEF CadenceRest
  <2>4. ASSUME NEW c \in Runners, NEW scheduled, BeginCadence(c, scheduled)
        PROVE  CadenceRest'
    BY <2>3, <2>4 DEF BeginCadence
  <2>5. ASSUME NEW c \in Runners, NEW brief, NEW done \in 0..6, EndCadence(c, brief, done)
        PROVE  CadenceRest'
    <3>1. BoundedList(briefs', KeepBriefs)
      BY <2>5, BriefsBounded DEF EndCadence
    <3>2. cadenceCrashes' \in 0..MaxCadenceCrashes /\ hour' = hour /\ UNCHANGED workspaceVars
      BY <2>2, <2>5 DEF EndCadence
    <3>3. QED
      BY <2>1, <3>1, <3>2 DEF CadenceRest
  <2>6. ASSUME NEW c \in Runners, FailCadence(c)
        PROVE  CadenceRest'
    BY <2>3, <2>6 DEF FailCadence
  <2>7. ASSUME NEW scheduled, NEW brief, NEW done \in 0..6, RunAtOnce(scheduled, brief, done)
        PROVE  CadenceRest'
    <3>1. BoundedList(briefs', KeepBriefs)
      BY <2>7, BriefsBounded DEF RunAtOnce
    <3>2. cadenceCrashes' \in 0..MaxCadenceCrashes /\ hour' = hour /\ UNCHANGED workspaceVars
      BY <2>2, <2>7 DEF RunAtOnce
    <3>3. QED
      BY <2>1, <3>1, <3>2 DEF CadenceRest
  <2>8. ASSUME NEW hours \in Elapses, PassHours(hours)
        PROVE  CadenceRest'
    <3>1. hour' \in 0..MaxHours
      BY <1>0, <2>8 DEF PassHours, CadenceRest
    <3>2. UNCHANGED <<briefs, cadenceCrashes, workspaceVars>>
      BY <2>8 DEF PassHours
    <3>3. QED
      BY <2>1, <3>1, <3>2 DEF CadenceRest
  <2>9. CASE WorkspaceActions /\ UNCHANGED runVars
    <3>1. WorkspaceTypeOK' /\ DOMAIN ops' = SettingsFields
      BY <2>9, WorkspaceKeeps DEF CadenceRest
    <3>2. UNCHANGED <<hour, briefs, cadenceCrashes>>
      BY <2>9 DEF runVars
    <3>3. QED
      BY <3>1, <3>2 DEF CadenceRest
  <2>10. CASE UNCHANGED cadenceVars
    BY <2>3, <2>10 DEF cadenceVars, runVars
  <2>11. QED
    BY <2>4, <2>5, <2>6, <2>7, <2>8, <2>9, <2>10, Zenon DEF CadenceNext
<1>3. CadenceInv /\ CadenceRest => CadenceTypeOK
  <2> SUFFICES ASSUME CadenceInv, CadenceRest
               PROVE  CadenceTypeOK
    OBVIOUS
  <2>1. ends \in Seq(RunStatuses) /\ Len(ends) \in Nat /\ DOMAIN ends = 1..Len(ends)
    BY LenProperties DEF CadenceInv, Shows
  <2>2. ASSUME NEW c \in Runners
        PROVE  runners[c].run \in 0..Len(ends)
    <3>1. CASE runners[c] = AtRest
      BY <2>1, <3>1 DEF AtRest
    <3>2. CASE runners[c] # AtRest
      BY <2>1, <3>2 DEF CadenceInv, RunnersWait
    <3>3. QED
      BY <3>1, <3>2
  <2>3. \A entry \in cadenceLog : entry.run \in DOMAIN ends
    BY <2>1 DEF CadenceInv, LogTells
  <2>4. Len(cadenceRuns) <= KeepRuns
    BY <2>1, KeepType, CadenceAssumption DEF CadenceInv, Shows, Least
  <2>5. QED
    BY <2>2, <2>3, <2>4 DEF CadenceInv, CadenceRest, BoundedList, CadenceTypeOK
<1>4. QED
  BY <1>1, <1>2, <1>3, CadenceInvInit, CadenceInvStep, CadenceAssumption, PTL DEF CadenceSpec

-----------------------------------------------------------------------------
(* Treasury.  First the arithmetic of rounded shares: T is the sum of the  *)
(* weights, D the amount that is divided.                                  *)
LEMMA Cancel ==
    ASSUME NEW a \in Int, a > 0, NEW x \in Int, NEW y \in Int, a * x <= a * y
    PROVE  x <= y
<1> SUFFICES ASSUME x >= y + 1
             PROVE  FALSE
  OBVIOUS
<1>1. PICK k \in Nat : x = y + 1 + k
  <2>1. x - (y + 1) \in Nat /\ x = y + 1 + (x - (y + 1))
    OBVIOUS
  <2>2. QED
    BY <2>1
<1>2. a * x = a * y + a + a * k
  BY <1>1
<1>3. a * k >= 0 /\ a * k \in Int /\ a * y \in Int
  OBVIOUS
<1>4. QED
  BY <1>2, <1>3

(* One rounded share more. *)
LEMMA OneShareMore ==
    ASSUME NEW T \in Int, NEW D \in Int, NEW a \in Int, NEW A \in Int, NEW b \in Int, NEW B \in Int, NEW c \in Int,
           -T <= 2 * (T * a) - 2 * (D * b), 2 * (T * a) - 2 * (D * b) <= T,
           -(T * c) <= 2 * (T * A) - 2 * (D * B), 2 * (T * A) - 2 * (D * B) <= T * c
    PROVE  /\ -(T * (c + 1)) <= 2 * (T * (a + A)) - 2 * (D * (b + B))
           /\ 2 * (T * (a + A)) - 2 * (D * (b + B)) <= T * (c + 1)
<1>1. T * (a + A) = T * a + T * A /\ D * (b + B) = D * b + D * B /\ T * (c + 1) = T * c + T
  OBVIOUS
<1>2. T * a \in Int /\ T * A \in Int /\ D * b \in Int /\ D * B \in Int /\ T * c \in Int
  OBVIOUS
<1>3. QED
  BY <1>1, <1>2

LEMMA SharesAddedUp ==
    ASSUME NEW E, IsFiniteSet(E), NEW T \in Int, NEW D \in Int, NEW f, NEW w,
           \A m \in E : /\ f[m] \in Int /\ w[m] \in Int
                        /\ -T <= 2 * (T * f[m]) - 2 * (D * w[m])
                        /\ 2 * (T * f[m]) - 2 * (D * w[m]) <= T
    PROVE  /\ -(T * Cardinality(E)) <= 2 * (T * SumFunctionOnSet(f, E)) - 2 * (D * SumFunctionOnSet(w, E))
           /\ 2 * (T * SumFunctionOnSet(f, E)) - 2 * (D * SumFunctionOnSet(w, E)) <= T * Cardinality(E)
<1> DEFINE P == {t \in SUBSET E :
              /\ -(T * Cardinality(t)) <= 2 * (T * SumFunctionOnSet(f, t)) - 2 * (D * SumFunctionOnSet(w, t))
              /\ 2 * (T * SumFunctionOnSet(f, t)) - 2 * (D * SumFunctionOnSet(w, t)) <= T * Cardinality(t)}
<1>1. {} \in P
  <2>1. SumFunctionOnSet(f, {}) = 0 /\ SumFunctionOnSet(w, {}) = 0 /\ Cardinality({}) = 0
    BY SumRecursion, FS_EmptySet
  <2>2. T * 0 = 0 /\ D * 0 = 0
    OBVIOUS
  <2>3. QED
    BY <2>1, <2>2
<1>2. ASSUME NEW t \in SUBSET E, t # {}, \A x \in t : t \ {x} \in P
      PROVE  t \in P
  <2>1. PICK x \in t : TRUE
    BY <1>2
  <2>2. PICK u : u = t \ {x} /\ u \in P
    BY <1>2
  <2>3. IsFiniteSet(t) /\ IsFiniteSet(u) /\ u \subseteq E
    BY <2>2, FS_Subset
  <2>4. PICK A, B, c, a, b : /\ A = SumFunctionOnSet(f, u) /\ B = SumFunctionOnSet(w, u)
                             /\ c = Cardinality(u) /\ a = f[x] /\ b = w[x]
    OBVIOUS
  <2>5. A \in Int /\ B \in Int /\ c \in Int /\ a \in Int /\ b \in Int
    BY <2>3, <2>4, SumType, FS_CardinalityType
  <2>6. SumFunctionOnSet(f, t) = a + A /\ SumFunctionOnSet(w, t) = b + B
    BY <2>2, <2>3, <2>4, SumWithout
  <2>7. Cardinality(t) = c + 1
    <3>1. Cardinality(u) = Cardinality(t) - 1 /\ Cardinality(t) \in Nat
      BY <2>1, <2>2, <2>3, FS_RemoveElement, FS_CardinalityType
    <3>2. QED
      BY <2>4, <3>1
  <2>8. /\ -T <= 2 * (T * a) - 2 * (D * b) /\ 2 * (T * a) - 2 * (D * b) <= T
        /\ -(T * c) <= 2 * (T * A) - 2 * (D * B) /\ 2 * (T * A) - 2 * (D * B) <= T * c
    BY <2>2, <2>4
  <2>9. /\ -(T * (c + 1)) <= 2 * (T * (a + A)) - 2 * (D * (b + B))
        /\ 2 * (T * (a + A)) - 2 * (D * (b + B)) <= T * (c + 1)
    BY <2>5, <2>8, OneShareMore
  <2>10. QED
    BY <2>6, <2>7, <2>9
<1>3. P = SUBSET E
  <2>1. P \subseteq SUBSET E
    OBVIOUS
  <2> HIDE DEF P
  <2>2. QED
    BY <1>1, <1>2, <2>1, SubsetsByInduction
<1>4. QED
  BY <1>3

(* Two rounded shares stand in the proportion of their weights. *)
LEMMA SharesInProportion ==
    ASSUME NEW T \in Int, T > 0, NEW D \in Int, NEW a \in Int, NEW b \in Int,
           NEW v \in Nat, NEW w \in Nat,
           -T <= 2 * (T * a) - 2 * (D * v), 2 * (T * a) - 2 * (D * v) <= T,
           -T <= 2 * (T * b) - 2 * (D * w), 2 * (T * b) - 2 * (D * w) <= T
    PROVE  /\ -(v + w) <= 2 * (a * w - b * v)
           /\ 2 * (a * w - b * v) <= v + w
<1>1. ASSUME NEW x \in Int, -T <= x, x <= T, NEW k \in Nat
      PROVE  -(T * k) <= x * k /\ x * k <= T * k
  <2>1. (T - x) * k >= 0 /\ (T + x) * k >= 0
    <3>1. T - x \in Nat /\ T + x \in Nat
      BY <1>1
    <3>2. \A i, j \in Nat : i * j >= 0
      OBVIOUS
    <3>3. QED
      BY <3>1, <3>2
  <2>2. (T - x) * k = T * k - x * k /\ (T + x) * k = T * k + x * k
    OBVIOUS
  <2>3. T * k \in Int /\ x * k \in Int
    OBVIOUS
  <2>4. QED
    BY <2>1, <2>2, <2>3
<1>0. T * a \in Int /\ D * v \in Int /\ T * b \in Int /\ D * w \in Int
  OBVIOUS
<1>2. PICK x, y : x = 2 * (T * a) - 2 * (D * v) /\ y = 2 * (T * b) - 2 * (D * w)
  OBVIOUS
<1>3. x \in Int /\ y \in Int
  BY <1>0, <1>2
<1>4. -(T * w) <= x * w /\ x * w <= T * w /\ -(T * v) <= y * v /\ y * v <= T * v
  BY <1>1, <1>2, <1>3
<1>5. x * w - y * v = T * (2 * (a * w - b * v))
  BY <1>2, <1>3
<1>6. T * (v + w) = T * v + T * w /\ T * (-(v + w)) = -(T * v + T * w)
  OBVIOUS
<1>7. T * v \in Int /\ T * w \in Int /\ x * w \in Int /\ y * v \in Int
  BY <1>3
<1>8. T * (2 * (a * w - b * v)) <= T * (v + w) /\ T * (-(v + w)) <= T * (2 * (a * w - b * v))
  BY <1>4, <1>5, <1>6, <1>7
<1>9. QED
  BY <1>8, Cancel

(* The inductive invariant. *)
DistRecords ==
    [status : {"pending", "executed"}, total : Int, reserve : Int,
     members : SUBSET TreasuryMembers,
     allocations : UNION {[E -> Int] : E \in SUBSET TreasuryMembers}]

LogEntries == [kind : {"distribution_executed", "action_executed"}, id : Nat]

Bookings ==
    [income : Seq(CentAmounts),
     contributions : Seq([member : TreasuryMembers, value : CentAmounts]),
     events : Seq([name : RevenueEvents, amount : CentAmounts]),
     customers : Seq([status : CustomerStatuses, mrr : CentAmounts])]

TreasuryInv ==
    /\ books \in Bookings
    /\ distributions \in Seq(DistRecords)
    /\ treasuryLog \in Seq(LogEntries)
    /\ treasuryCrashes \in Nat
    /\ SharesAddUp
    /\ DistributedOnce

LEMMA RoundedType ==
    ASSUME NEW n \in Int, NEW d \in Int, d > 0, NEW q \in toFixed2(n, d)
    PROVE  q \in Int /\ 2 * n - d <= 2 * q * d /\ 2 * q * d <= 2 * n + d
<1>1. n \div d \in Int
  OBVIOUS
<1>2. q \in Int
  BY <1>1 DEF toFixed2
<1>3. QED
  BY <1>2 DEF toFixed2

(* What calculateAllocations answers adds up. *)
LEMMA AllocationsAddUp ==
    ASSUME IsFiniteSet(TreasuryMembers), \A m \in TreasuryMembers : Weight(m) \in Nat,
           NEW members \in SUBSET TreasuryMembers, NEW D \in Int,
           NEW alloc \in calculateAllocations(members, D)
    PROVE  LET eligible == Eligible(members)
           IN  /\ alloc \in [eligible -> Int]
               /\ eligible # {} =>
                    /\ -Cardinality(eligible) <= 2 * (SumFunctionOnSet(alloc, eligible) - D)
                    /\ 2 * (SumFunctionOnSet(alloc, eligible) - D) <= Cardinality(eligible)
                    /\ \A m, n \in eligible :
                         /\ -(Weight(m) + Weight(n)) <= 2 * (alloc[m] * Weight(n) - alloc[n] * Weight(m))
                         /\ 2 * (alloc[m] * Weight(n) - alloc[n] * Weight(m)) <= Weight(m) + Weight(n)
<1>0. PICK E : E = Eligible(members)
  OBVIOUS
<1>1. PICK w : w = [m \in E |-> Weight(m)]
  OBVIOUS
<1>1a. PICK T : T = TotalWeight(E)
  OBVIOUS
<1>2. IsFiniteSet(E) /\ E \subseteq TreasuryMembers
  BY <1>0, FS_Subset DEF Eligible
<1>3. \A m \in E : w[m] = Weight(m) /\ w[m] \in Nat /\ w[m] > 0
  <2>1. \A m \in E : Weight(m) \in Nat
    BY <1>2
  <2>2. \A m \in E : Weight(m) > 0
    BY <1>0 DEF Eligible
  <2>3. QED
    BY <1>1, <2>1, <2>2
<1>4. T = SumFunctionOnSet(w, E) /\ T \in Nat
  BY <1>1, <1>1a, <1>2, <1>3, SumType DEF TotalWeight
<1>5. ASSUME NEW m \in E
      PROVE  T > 0
  <2>1. w[m] <= T
    BY <1>2, <1>3, <1>4, SumOfPart
  <2>2. QED
    BY <1>3, <1>4, <2>1
<1>6. DOMAIN alloc = E /\ \A m \in E : alloc[m] \in toFixed2(D * Weight(m), T)
  BY <1>0, <1>1a DEF calculateAllocations
<1>7. alloc = [m \in E |-> alloc[m]]
  BY <1>0, <1>1a DEF calculateAllocations
<1>8. ASSUME NEW m \in E
      PROVE  /\ alloc[m] \in Int
             /\ -T <= 2 * (T * alloc[m]) - 2 * (D * w[m])
             /\ 2 * (T * alloc[m]) - 2 * (D * w[m]) <= T
  <2>1. PICK b \in Nat : b = w[m]
    BY <1>3
  <2>1a. PICK a : a = alloc[m]
    OBVIOUS
  <2>2. b \in Nat /\ b = Weight(m) /\ T \in Int /\ T > 0
    BY <1>3, <1>4, <1>5, <2>1
  <2>2a. D * b \in Int
    OBVIOUS
  <2>3. a \in toFixed2(D * b, T)
    <3>1. alloc[m] \in toFixed2(D * Weight(m), T)
      BY <1>6
    <3>2. QED
      BY <2>1a, <2>2, <3>1
  <2>4. a \in Int /\ 2 * (D * b) - T <= 2 * a * T /\ 2 * a * T <= 2 * (D * b) + T
    <3>1. PICK n \in Int : n = D * b
      BY <2>2a
    <3>2. a \in toFixed2(n, T)
      BY <2>3, <3>1
    <3>3. a \in Int /\ 2 * n - T <= 2 * a * T /\ 2 * a * T <= 2 * n + T
      BY <2>2, <3>2, RoundedType
    <3>4. QED
      BY <3>1, <3>3
  <2>5. 2 * a * T = 2 * (T * a) /\ T * a \in Int
    BY <2>2, <2>4
  <2>6. -T <= 2 * (T * a) - 2 * (D * b) /\ 2 * (T * a) - 2 * (D * b) <= T
    <3>1. PICK p, q, r : p = 2 * a * T /\ q = T * a /\ r = D * b
      OBVIOUS
    <3>2. p = 2 * q /\ q \in Int /\ r \in Int /\ T \in Int /\ 2 * r - T <= p /\ p <= 2 * r + T
      BY <2>2, <2>2a, <2>4, <2>5, <3>1
    <3>3. -T <= 2 * q - 2 * r /\ 2 * q - 2 * r <= T
      BY <3>2
    <3>4. QED
      BY <3>1, <3>3
  <2>7. QED
    BY <2>1, <2>1a, <2>4, <2>6
<1>9. alloc \in [E -> Int]
  BY <1>7, <1>8
<1>10. ASSUME E # {}
       PROVE  /\ -Cardinality(E) <= 2 * (SumFunctionOnSet(alloc, E) - D)
              /\ 2 * (SumFunctionOnSet(alloc, E) - D) <= Cardinality(E)
  <2>1. T > 0 /\ T \in Int
    BY <1>4, <1>5, <1>10
  <2>2. PICK S, c : S = SumFunctionOnSet(alloc, E) /\ c = Cardinality(E)
    OBVIOUS
  <2>3. S \in Int /\ c \in Nat
    <3>1. \A m \in E : alloc[m] \in Int
      BY <1>8
    <3>2. SumFunctionOnSet(alloc, E) \in Int
      BY <1>2, <3>1, SumType
    <3>3. QED
      BY <1>2, <2>2, <3>2, FS_CardinalityType
  <2>4. -(T * c) <= 2 * (T * S) - 2 * (D * T) /\ 2 * (T * S) - 2 * (D * T) <= T * c
    <3>1. \A m \in E : /\ alloc[m] \in Int /\ w[m] \in Int
                        /\ -T <= 2 * (T * alloc[m]) - 2 * (D * w[m])
                        /\ 2 * (T * alloc[m]) - 2 * (D * w[m]) <= T
      BY <1>3, <1>8
    <3>2. /\ -(T * Cardinality(E)) <= 2 * (T * SumFunctionOnSet(alloc, E)) - 2 * (D * SumFunctionOnSet(w, E))
          /\ 2 * (T * SumFunctionOnSet(alloc, E)) - 2 * (D * SumFunctionOnSet(w, E)) <= T * Cardinality(E)
      BY <1>2, <2>1, <3>1, SharesAddedUp
    <3>3. QED
      BY <1>4, <2>2, <3>2
  <2>5. 2 * (T * S) - 2 * (D * T) = T * (2 * (S - D)) /\ -(T * c) = T * (-c)
    BY <2>1, <2>3
  <2>6. T * (-c) <= T * (2 * (S - D)) /\ T * (2 * (S - D)) <= T * c
    BY <2>4, <2>5
  <2>7. 2 * (S - D) \in Int /\ -c \in Int /\ c \in Int
    BY <2>3
  <2>8. -c <= 2 * (S - D) /\ 2 * (S - D) <= c
    <3>1. PICK p, q : p = 2 * (S - D) /\ q = -c
      OBVIOUS
    <3>2. T * q <= T * p /\ T * p <= T * c /\ p \in Int /\ q \in Int /\ c \in Int
      BY <2>6, <2>7, <3>1
    <3>3. q <= p /\ p <= c
      BY <2>1, <3>2, Cancel
    <3>4. QED
      BY <3>1, <3>3
  <2>9. QED
    BY <2>2, <2>8
<1>11. ASSUME NEW m \in E, NEW n \in E
       PROVE  /\ -(Weight(m) + Weight(n)) <= 2 * (alloc[m] * Weight(n) - alloc[n] * Weight(m))
              /\ 2 * (alloc[m] * Weight(n) - alloc[n] * Weight(m)) <= Weight(m) + Weight(n)
  <2>1. PICK a, b, v, x : a = alloc[m] /\ b = alloc[n] /\ v = w[m] /\ x = w[n]
    OBVIOUS
  <2>2. /\ T \in Int /\ T > 0 /\ a \in Int /\ b \in Int /\ v \in Nat /\ x \in Nat
        /\ v = Weight(m) /\ x = Weight(n)
    <3>1. T \in Int /\ T > 0
      BY <1>4, <1>5
    <3>2. alloc[m] \in Int /\ alloc[n] \in Int
      BY <1>8
    <3>3. w[m] = Weight(m) /\ w[n] = Weight(n) /\ w[m] \in Nat /\ w[n] \in Nat
      BY <1>3
    <3>4. QED
      BY <2>1, <3>1, <3>2, <3>3
  <2>3. /\ -T <= 2 * (T * a) - 2 * (D * v) /\ 2 * (T * a) - 2 * (D * v) <= T
        /\ -T <= 2 * (T * b) - 2 * (D * x) /\ 2 * (T * b) - 2 * (D * x) <= T
    BY <1>8, <2>1
  <2>4. -(v + x) <= 2 * (a * x - b * v) /\ 2 * (a * x - b * v) <= v + x
    BY <2>2, <2>3, SharesInProportion
  <2>5. QED
    BY <2>1, <2>2, <2>4
<1>12. QED
  BY <1>0, <1>9, <1>10, <1>11

(* A distribution as it is created. *)
LEMMA NewDistribution ==
    ASSUME IsFiniteSet(TreasuryMembers), \A m \in TreasuryMembers : Weight(m) \in Nat,
           NEW members \in SUBSET TreasuryMembers, NEW total \in Int, NEW reserve \in Int,
           NEW alloc \in calculateAllocations(members, total - reserve), NEW d,
           d = [status |-> "pending", total |-> total, reserve |-> reserve,
                members |-> members, allocations |-> alloc]
    PROVE  d \in DistRecords /\ SharesOf(d)
<1>1. PICK E : E = Eligible(members)
  OBVIOUS
<1>2. E \in SUBSET TreasuryMembers /\ IsFiniteSet(E)
  BY <1>1, FS_Subset DEF Eligible
<1>3. PICK D \in Int : D = total - reserve
  OBVIOUS
<1>4. /\ alloc \in [E -> Int]
      /\ E # {} =>
           /\ -Cardinality(E) <= 2 * (SumFunctionOnSet(alloc, E) - D)
           /\ 2 * (SumFunctionOnSet(alloc, E) - D) <= Cardinality(E)
           /\ \A m, n \in E :
                /\ -(Weight(m) + Weight(n)) <= 2 * (alloc[m] * Weight(n) - alloc[n] * Weight(m))
                /\ 2 * (alloc[m] * Weight(n) - alloc[n] * Weight(m)) <= Weight(m) + Weight(n)
  BY <1>1, <1>3, AllocationsAddUp
<1>5. d \in DistRecords
  BY <1>2, <1>4 DEF DistRecords
<1>6. /\ d.members = members /\ d.allocations = alloc /\ d.reserve = reserve /\ d.total = total
  OBVIOUS
<1>7. ASSUME E # {}
      PROVE  2 * (reserve + SumFunctionOnSet(alloc, E) - total) \in -Cardinality(E)..Cardinality(E)
  <2>1. PICK S, c : S = SumFunctionOnSet(alloc, E) /\ c = Cardinality(E)
    OBVIOUS
  <2>2. S \in Int /\ c \in Nat
    BY <1>2, <1>4, <2>1, SumType, FS_CardinalityType
  <2>3. -c <= 2 * (S - D) /\ 2 * (S - D) <= c
    BY <1>4, <1>7, <2>1
  <2>4. 2 * (reserve + S - total) = 2 * (S - D)
    BY <1>3, <2>2
  <2>5. 2 * (reserve + S - total) \in -c..c
    BY <2>2, <2>3, <2>4
  <2>6. QED
    BY <2>1, <2>5
<1>8. ASSUME NEW m \in E, NEW n \in E
      PROVE  2 * (alloc[m] * Weight(n) - alloc[n] * Weight(m)) \in -(Weight(m) + Weight(n))..(Weight(m) + Weight(n))
  <2>1. PICK a \in Int, b \in Int, v \in Nat, x \in Nat :
          a = alloc[m] /\ b = alloc[n] /\ v = Weight(m) /\ x = Weight(n)
    BY <1>2, <1>4
  <2>2. a * x \in Int /\ b * v \in Int
    OBVIOUS
  <2>3. PICK y \in Int : y = 2 * (a * x - b * v)
    BY <2>2
  <2>4. -(v + x) <= y /\ y <= v + x
    BY <1>4, <2>1, <2>3
  <2>5. y \in -(v + x)..(v + x)
    BY <2>4
  <2>6. QED
    BY <2>1, <2>3, <2>5
<1>9. SharesOf(d)
  BY <1>1, <1>6, <1>7, <1>8 DEF SharesOf
<1>10. QED
  BY <1>5, <1>9

(* What the log names, and what was executed. *)
LoggedIn(log) == {k \in DOMAIN log : log[k].kind = "distribution_executed"}
NamedIn(log) == {log[k].id : k \in LoggedIn(log)}
ExecutedIn(list) == {i \in DOMAIN list : list[i].status = "executed"}

OnceIn(list, log, crashes) ==
    /\ \A k, l \in LoggedIn(log) : log[k].id = log[l].id => k = l
    /\ NamedIn(log) \subseteq ExecutedIn(list)
    /\ Cardinality(ExecutedIn(list) \ NamedIn(log)) <= crashes

LEMMA OnceInState == DistributedOnce <=> OnceIn(distributions, treasuryLog, treasuryCrashes)
BY DEF DistributedOnce, OnceIn, NamedIn, LoggedIn, ExecutedIn, ExecutedOnes

(* The log `longer` is `log` of `n` entries and the entry `e`. *)
Grown(log, e, longer, n) ==
    /\ longer \in Seq(LogEntries)
    /\ n \in Nat /\ n + 1 \notin DOMAIN log /\ longer[n + 1] = e
    /\ \A k \in DOMAIN log : longer[k] = log[k]
    /\ LoggedIn(longer) = LoggedIn(log) \cup
                          (IF e.kind = "distribution_executed" THEN {n + 1} ELSE {})
    /\ NamedIn(longer) = NamedIn(log) \cup
                         (IF e.kind = "distribution_executed" THEN {e.id} ELSE {})

LEMMA LogGrows ==
    ASSUME NEW log \in Seq(LogEntries), NEW e \in LogEntries
    PROVE  Grown(log, e, Append(log, e), Len(log))
<1> PICK longer, n : longer = Append(log, e) /\ n = Len(log)
  OBVIOUS
<1>1. /\ longer \in Seq(LogEntries) /\ n \in Nat /\ DOMAIN log = 1..n /\ DOMAIN longer = 1..(n + 1)
      /\ longer[n + 1] = e /\ \A k \in 1..n : longer[k] = log[k]
  BY AppendProperties, LenProperties
<1>2. n + 1 \notin 1..n /\ 1..(n + 1) = (1..n) \cup {n + 1}
  BY <1>1
<1>3. LoggedIn(longer) = LoggedIn(log) \cup (IF e.kind = "distribution_executed" THEN {n + 1} ELSE {})
  BY <1>1, <1>2 DEF LoggedIn
<1>4. \A k \in LoggedIn(log) : longer[k] = log[k] /\ k \in 1..n
  BY <1>1 DEF LoggedIn
<1>5. NamedIn(longer) = NamedIn(log) \cup (IF e.kind = "distribution_executed" THEN {e.id} ELSE {})
  <2>1. CASE e.kind = "distribution_executed"
    BY <1>1, <1>3, <1>4, <2>1 DEF NamedIn
  <2>2. CASE e.kind # "distribution_executed"
    BY <1>1, <1>3, <1>4, <2>2 DEF NamedIn
  <2>3. QED
    BY <2>1, <2>2
<1>6. Grown(log, e, longer, n)
  BY <1>1, <1>2, <1>3, <1>5 DEF Grown
<1>7. QED
  BY <1>6

(* A distribution that was pending is executed, and logged or cut short. *)
LEMMA OnceMore ==
    ASSUME NEW list \in Seq(DistRecords), NEW log \in Seq(LogEntries), NEW crashes \in Nat,
           OnceIn(list, log, crashes), NEW i \in DOMAIN list, list[i].status = "pending",
           NEW after, ExecutedIn(after) = ExecutedIn(list) \cup {i}
    PROVE  /\ OnceIn(after, log, crashes + 1)
           /\ OnceIn(after, Append(log, [kind |-> "distribution_executed", id |-> i]), crashes)
<1>1. PICK X, N : X = ExecutedIn(list) /\ N = NamedIn(log)
  OBVIOUS
<1>2. IsFiniteSet(X) /\ i \notin X /\ N \subseteq X /\ i \in Nat
  <2>1. DOMAIN list = 1..Len(list) /\ Len(list) \in Nat
    BY LenProperties
  <2>2. IsFiniteSet(DOMAIN list) /\ X \subseteq DOMAIN list
    BY <1>1, <2>1, FS_Interval DEF ExecutedIn
  <2>3. IsFiniteSet(X)
    BY <2>2, FS_Subset
  <2>4. QED
    BY <1>1, <2>1, <2>3 DEF ExecutedIn, OnceIn
<1>3. IsFiniteSet(X \ N) /\ Cardinality(X \ N) \in Nat /\ Cardinality(X \ N) <= crashes
  BY <1>1, <1>2, FS_Subset, FS_CardinalityType DEF OnceIn
<1>4. OnceIn(after, log, crashes + 1)
  <2>1. (X \cup {i}) \ N = (X \ N) \cup {i} /\ i \notin X \ N
    BY <1>2
  <2>2. Cardinality((X \cup {i}) \ N) = Cardinality(X \ N) + 1
    BY <1>3, <2>1, FS_AddElement
  <2>3. Cardinality((X \cup {i}) \ N) <= crashes + 1
    BY <1>3, <2>2
  <2>4. QED
    BY <1>1, <1>2, <2>3 DEF OnceIn
<1>5. OnceIn(after, Append(log, [kind |-> "distribution_executed", id |-> i]), crashes)
  <2>1. PICK e, longer, n : /\ e = [kind |-> "distribution_executed", id |-> i]
                            /\ longer = Append(log, e) /\ n = Len(log)
    OBVIOUS
  <2>2. e \in LogEntries /\ e.kind = "distribution_executed" /\ e.id = i
    BY <1>2, <2>1 DEF LogEntries
  <2>3. /\ n + 1 \notin DOMAIN log /\ longer[n + 1] = e
        /\ \A k \in DOMAIN log : longer[k] = log[k]
        /\ LoggedIn(longer) = LoggedIn(log) \cup {n + 1}
        /\ NamedIn(longer) = N \cup {i}
    <3>1. Grown(log, e, longer, n)
      BY <2>1, <2>2, LogGrows
    <3>2. QED
      BY <1>1, <2>2, <3>1 DEF Grown
  <2>4. \A k \in LoggedIn(log) : /\ k \in DOMAIN log /\ longer[k].id = log[k].id /\ longer[k].id \in N
    BY <1>1, <2>3 DEF LoggedIn, NamedIn
  <2>5. \A k, l \in LoggedIn(longer) : longer[k].id = longer[l].id => k = l
    BY <1>2, <2>2, <2>3, <2>4 DEF OnceIn
  <2>6. (X \cup {i}) \ (N \cup {i}) = X \ N
    BY <1>2
  <2>7. Cardinality((X \cup {i}) \ (N \cup {i})) <= crashes
    BY <1>3, <2>6
  <2>8. OnceIn(after, longer, crashes)
    BY <1>1, <1>2, <2>3, <2>5, <2>7 DEF OnceIn
  <2>9. QED
    BY <2>1, <2>8
<1>6. QED
  BY <1>4, <1>5

(* What the proofs below need of the assumption. *)
Money ==
    /\ IsFiniteSet(TreasuryMembers)
    /\ \A m \in TreasuryMembers : Weight(m) \in Nat
    /\ CentAmounts \subseteq Nat
    /\ ReserveRates \subseteq Nat

LEMMA MoneyType == Money
<1>1. IsFiniteSet(TreasuryMembers)
  BY TreasuryAssumption DEF TreasuryAssumption
<1>2. RoleOf \in [TreasuryMembers -> {"steward", "coordinator", "member", "observer"}]
  BY TreasuryAssumption DEF TreasuryAssumption
<1>3. CentAmounts \subseteq Nat
  BY AmountsAssumption, SMTT(60) DEF AmountsAssumption
<1>a. ReserveRates \subseteq 0..10000
  BY AmountsAssumption, SMTT(60) DEF AmountsAssumption
<1>4. ReserveRates \subseteq Nat
  BY <1>a, SMTT(60)
<1>5. \A m \in TreasuryMembers : Weight(m) \in Nat
  BY <1>2 DEF Weight, ROLE_WEIGHTS
<1>6. QED
  BY <1>1, <1>3, <1>4, <1>5, Zenon DEF Money

LEMMA TreasuryInvInit == TreasuryInit => TreasuryInv
<1> SUFFICES ASSUME TreasuryInit
             PROVE  TreasuryInv
  OBVIOUS
<1>1. distributions = <<>> /\ treasuryLog = <<>> /\ treasuryCrashes = 0
  BY DEF TreasuryInit
<1>2. <<>> \in Seq(DistRecords) /\ <<>> \in Seq(LogEntries) /\ DOMAIN <<>> = {}
  OBVIOUS
<1>3. ExecutedIn(<<>>) = {} /\ NamedIn(<<>>) = {} /\ LoggedIn(<<>>) = {}
  BY <1>2 DEF ExecutedIn, NamedIn, LoggedIn
<1>4. OnceIn(<<>>, <<>>, 0)
  <2>1. {} \ {} = {} /\ Cardinality({}) = 0
    BY FS_EmptySet
  <2>2. Cardinality({} \ {}) <= 0
    BY <2>1
  <2>3. QED
    BY <1>3, <2>2 DEF OnceIn
<1>5. books \in Bookings
  BY DEF TreasuryInit, Bookings
<1>6. QED
  BY <1>1, <1>2, <1>4, <1>5, OnceInState DEF TreasuryInv, SharesAddUp

(* A step that leaves the distributions and what the log says of them. *)
LEMMA BooksKeep ==
    ASSUME TreasuryInv, books' \in Bookings, distributions' = distributions, treasuryLog' \in Seq(LogEntries),
           LoggedIn(treasuryLog') = LoggedIn(treasuryLog),
           \A k \in LoggedIn(treasuryLog) : treasuryLog'[k] = treasuryLog[k],
           treasuryCrashes' \in {treasuryCrashes, treasuryCrashes + 1}
    PROVE  TreasuryInv'
<1>1. SharesAddUp'
  BY DEF TreasuryInv, SharesAddUp, SharesOf
<1>2. NamedIn(treasuryLog') = NamedIn(treasuryLog)
  BY DEF NamedIn
<1>3. treasuryCrashes' \in Nat /\ treasuryCrashes' >= treasuryCrashes /\ treasuryCrashes \in Nat
  BY DEF TreasuryInv
<1>4. PICK n : n = Cardinality(ExecutedIn(distributions) \ NamedIn(treasuryLog))
  OBVIOUS
<1>5. n \in Nat /\ n <= treasuryCrashes
  <2>1. DOMAIN distributions = 1..Len(distributions) /\ Len(distributions) \in Nat
    BY LenProperties DEF TreasuryInv
  <2>2. IsFiniteSet(DOMAIN distributions)
    BY <2>1, FS_Interval
  <2>3. IsFiniteSet(ExecutedIn(distributions) \ NamedIn(treasuryLog))
    BY <2>2, FS_Subset DEF ExecutedIn
  <2>4. QED
    BY <1>4, <2>3, FS_CardinalityType, OnceInState DEF TreasuryInv, OnceIn
<1>6. n <= treasuryCrashes'
  BY <1>3, <1>5
<1>7. OnceIn(distributions', treasuryLog', treasuryCrashes')
  BY <1>2, <1>4, <1>6, OnceInState DEF TreasuryInv, OnceIn
<1>8. DistributedOnce'
  BY <1>7 DEF DistributedOnce, OnceIn, NamedIn, LoggedIn, ExecutedIn, ExecutedOnes
<1>9. QED
  BY <1>1, <1>3, <1>8 DEF TreasuryInv

(* A distribution is added that is pending and whose shares add up. *)
LEMMA AddedKeeps ==
    ASSUME TreasuryInv, NEW d \in DistRecords, SharesOf(d), d.status = "pending",
           distributions' = Append(distributions, d), UNCHANGED <<books, treasuryLog, treasuryCrashes>>
    PROVE  TreasuryInv'
<1>1. PICK list, after, n : list = distributions /\ after = Append(list, d) /\ n = Len(list)
  OBVIOUS
<1>2. distributions' = after /\ list \in Seq(DistRecords)
  BY <1>1 DEF TreasuryInv
<1>3. /\ after \in Seq(DistRecords) /\ n \in Nat /\ DOMAIN list = 1..n /\ DOMAIN after = 1..(n + 1)
      /\ after[n + 1] = d /\ \A i \in 1..n : after[i] = list[i]
  BY <1>1, <1>2, AppendProperties, LenProperties
<1>4. 1..(n + 1) = (1..n) \cup {n + 1}
  BY <1>3
<1>5. SharesAddUp'
  <2>1. \A i \in 1..n : SharesOf(list[i])
    BY <1>1, <1>3 DEF TreasuryInv, SharesAddUp
  <2>2. \A i \in 1..(n + 1) : SharesOf(after[i])
    BY <1>3, <1>4, <2>1
  <2>3. \A i \in DOMAIN distributions' : SharesOf(distributions'[i])
    BY <1>2, <1>3, <2>2
  <2>4. QED
    BY <2>3 DEF SharesAddUp, SharesOf
<1>6. ExecutedIn(after) = ExecutedIn(list)
  BY <1>3, <1>4 DEF ExecutedIn
<1>7. OnceIn(distributions', treasuryLog', treasuryCrashes')
  BY <1>1, <1>2, <1>6, OnceInState DEF TreasuryInv, OnceIn
<1>8. DistributedOnce'
  BY <1>7 DEF DistributedOnce, OnceIn, NamedIn, LoggedIn, ExecutedIn, ExecutedOnes
<1>9. QED
  BY <1>2, <1>3, <1>5, <1>8 DEF TreasuryInv

LEMMA CreateKeeps ==
    ASSUME IsFiniteSet(TreasuryMembers), \A m \in TreasuryMembers : Weight(m) \in Nat,
           TreasuryInv, NEW total \in Nat, NEW rate \in Nat, NEW members \in SUBSET TreasuryMembers,
           CreateDistribution(total, rate, members)
    PROVE  TreasuryInv'
<1>1. UNCHANGED <<books, treasuryLog, treasuryCrashes>>
  BY DEF CreateDistribution
<1>2. ASSUME NEW reserve \in toFixed2(total * rate, 10000),
             NEW alloc \in calculateAllocations(members, total - reserve),
             NEW d, d = [status |-> "pending", total |-> total, reserve |-> reserve,
                         members |-> members, allocations |-> alloc],
             distributions' = Append(distributions, d)
      PROVE  TreasuryInv'
  <2>1. PICK product \in Int : product = total * rate
    OBVIOUS
  <2>2. reserve \in toFixed2(product, 10000)
    BY <2>1
  <2>3. reserve \in Int
    BY <2>2, RoundedType
  <2>4. d \in DistRecords /\ SharesOf(d)
    BY <1>2, <2>3, NewDistribution
  <2>5. d.status = "pending"
    BY <1>2
  <2>6. QED
    BY <1>1, <1>2, <2>4, <2>5, AddedKeeps
<1>3. QED
  BY <1>2 DEF CreateDistribution

LEMMA ExecuteKeeps ==
    ASSUME TreasuryInv, NEW i \in DOMAIN distributions, NEW done \in 1..2, ExecuteDistribution(i, done)
    PROVE  TreasuryInv'
<1>1. PICK list, log, crashes, after :
        /\ list = distributions /\ log = treasuryLog /\ crashes = treasuryCrashes
        /\ after = [list EXCEPT ![i].status = "executed"]
  OBVIOUS
<1>2. /\ list[i].status = "pending" /\ distributions' = after
      /\ treasuryLog' = IF done = 2 THEN Append(log, [kind |-> "distribution_executed", id |-> i]) ELSE log
      /\ treasuryCrashes' = IF done = 2 THEN crashes ELSE crashes + 1
  BY <1>1 DEF ExecuteDistribution, TreasuryLogged, writeJsonAtomic
<1>3. /\ list \in Seq(DistRecords) /\ log \in Seq(LogEntries) /\ crashes \in Nat /\ i \in DOMAIN list
      /\ OnceIn(list, log, crashes)
  BY <1>1, OnceInState DEF TreasuryInv
<1>4. DOMAIN list = 1..Len(list) /\ Len(list) \in Nat
  BY <1>3, LenProperties
<1>5. PICK d : d = [list[i] EXCEPT !.status = "executed"]
  OBVIOUS
<1>6. /\ list[i] \in DistRecords /\ d \in DistRecords /\ d.status = "executed"
      /\ d.members = list[i].members /\ d.allocations = list[i].allocations
      /\ d.reserve = list[i].reserve /\ d.total = list[i].total
  <2>1. list[i] \in DistRecords
    BY <1>3, <1>4, ElementOfSeq
  <2>2. QED
    BY <1>5, <2>1 DEF DistRecords
<1>7. after = [list EXCEPT ![i] = d]
  BY <1>1, <1>5
<1>8. /\ after \in Seq(DistRecords) /\ DOMAIN after = DOMAIN list /\ after[i] = d
      /\ \A k \in DOMAIN list : k # i => after[k] = list[k]
  <2>1. after \in Seq(DistRecords)
    BY <1>3, <1>4, <1>6, <1>7, ExceptSeq
  <2>2. QED
    BY <1>3, <1>4, <1>7, <2>1
<1>9. SharesAddUp'
  <2>1. \A k \in DOMAIN list : SharesOf(list[k])
    BY <1>1 DEF TreasuryInv, SharesAddUp
  <2>2. SharesOf(d)
    BY <1>3, <1>6, <2>1 DEF SharesOf
  <2>3. \A k \in DOMAIN after : SharesOf(after[k])
    BY <1>8, <2>1, <2>2
  <2>4. \A k \in DOMAIN distributions' : SharesOf(distributions'[k])
    BY <1>2, <2>3
  <2>5. QED
    BY <2>4 DEF SharesAddUp, SharesOf
<1>10. ExecutedIn(after) = ExecutedIn(list) \cup {i}
  BY <1>3, <1>6, <1>8 DEF ExecutedIn
<1>11. /\ OnceIn(after, log, crashes + 1)
       /\ OnceIn(after, Append(log, [kind |-> "distribution_executed", id |-> i]), crashes)
  BY <1>2, <1>3, <1>10, OnceMore
<1>12. OnceIn(distributions', treasuryLog', treasuryCrashes')
  BY <1>2, <1>11
<1>13. DistributedOnce'
  BY <1>12 DEF DistributedOnce, OnceIn, NamedIn, LoggedIn, ExecutedIn, ExecutedOnes
<1>14. treasuryLog' \in Seq(LogEntries) /\ treasuryCrashes' \in Nat
  <2>1. [kind |-> "distribution_executed", id |-> i] \in LogEntries
    BY <1>3, <1>4 DEF LogEntries
  <2>2. Append(log, [kind |-> "distribution_executed", id |-> i]) \in Seq(LogEntries)
    BY <1>3, <2>1, AppendProperties
  <2>3. QED
    BY <1>2, <1>3, <2>2
<1>15. books' = books
  BY DEF ExecuteDistribution
<1>16. QED
  BY <1>2, <1>8, <1>9, <1>13, <1>14, <1>15 DEF TreasuryInv

(* What is booked besides. *)
LEMMA Booking ==
    ASSUME NEW old \in Bookings, NEW amount \in CentAmounts
    PROVE  /\ [old EXCEPT !.income = Append(@, amount)] \in Bookings
           /\ \A m \in TreasuryMembers :
                [old EXCEPT !.contributions = Append(@, [member |-> m, value |-> amount])] \in Bookings
           /\ \A name \in RevenueEvents :
                [old EXCEPT !.events = Append(@, [name |-> name, amount |-> amount])] \in Bookings
           /\ \A status \in CustomerStatuses :
                [old EXCEPT !.customers = Append(@, [status |-> status, mrr |-> amount])] \in Bookings
<1>1. Append(old.income, amount) \in Seq(CentAmounts)
  BY AppendProperties DEF Bookings
<1>2. ASSUME NEW m \in TreasuryMembers
      PROVE  Append(old.contributions, [member |-> m, value |-> amount])
                \in Seq([member : TreasuryMembers, value : CentAmounts])
  BY AppendProperties DEF Bookings
<1>3. ASSUME NEW name \in RevenueEvents
      PROVE  Append(old.events, [name |-> name, amount |-> amount])
                \in Seq([name : RevenueEvents, amount : CentAmounts])
  BY AppendProperties DEF Bookings
<1>4. ASSUME NEW status \in CustomerStatuses
      PROVE  Append(old.customers, [status |-> status, mrr |-> amount])
                \in Seq([status : CustomerStatuses, mrr : CentAmounts])
  BY AppendProperties DEF Bookings
<1>5. [old EXCEPT !.income = Append(@, amount)] \in Bookings
  BY <1>1 DEF Bookings
<1>6. \A m \in TreasuryMembers :
         [old EXCEPT !.contributions = Append(@, [member |-> m, value |-> amount])] \in Bookings
  BY <1>2 DEF Bookings
<1>7. \A name \in RevenueEvents :
         [old EXCEPT !.events = Append(@, [name |-> name, amount |-> amount])] \in Bookings
  BY <1>3 DEF Bookings
<1>8. \A status \in CustomerStatuses :
         [old EXCEPT !.customers = Append(@, [status |-> status, mrr |-> amount])] \in Bookings
  BY <1>4 DEF Bookings
<1>9. QED
  BY <1>5, <1>6, <1>7, <1>8

LEMMA RevenueKeeps ==
    ASSUME TreasuryInv, NEW name \in RevenueEvents, NEW amount \in CentAmounts, NEW done \in 1..2,
           RecordRevenueEvent(name, amount, done)
    PROVE  TreasuryInv'
<1>1. books' \in Bookings /\ distributions' = distributions
  <2>1. PICK old : old = books /\ old \in Bookings
    BY DEF TreasuryInv
  <2>2. books' = [old EXCEPT !.events = Append(@, [name |-> name, amount |-> amount])]
    BY <2>1 DEF RecordRevenueEvent
  <2>3. books' \in Bookings
    BY <2>1, <2>2, Booking
  <2>4. distributions' = distributions
    BY DEF RecordRevenueEvent
  <2>5. QED
    BY <2>3, <2>4
<1>2. PICK log, e : /\ log = treasuryLog
                    /\ e = [kind |-> "action_executed", id |-> Len(books.events) + 1]
  OBVIOUS
<1>3. log \in Seq(LogEntries) /\ e \in LogEntries /\ e.kind # "distribution_executed"
  <2>1. Len(books.events) \in Nat
    BY LenProperties DEF TreasuryInv, Bookings
  <2>2. QED
    BY <1>2, <2>1 DEF TreasuryInv, LogEntries
<1>4. /\ treasuryLog' \in {log, Append(log, e)}
      /\ treasuryCrashes' \in {treasuryCrashes, treasuryCrashes + 1}
  BY <1>2 DEF RecordRevenueEvent, TreasuryLogged, writeJsonAtomic
<1>5. CASE treasuryLog' = log
  BY <1>1, <1>2, <1>3, <1>4, <1>5, BooksKeep
<1>6. CASE treasuryLog' = Append(log, e)
  <2>1. PICK longer : longer = Append(log, e)
    OBVIOUS
  <2>2. /\ longer \in Seq(LogEntries) /\ LoggedIn(longer) = LoggedIn(log)
        /\ \A k \in LoggedIn(log) : longer[k] = log[k]
    <3>1. PICK n : n = Len(log)
      OBVIOUS
    <3>2. Grown(log, e, longer, n)
      BY <1>3, <2>1, <3>1, LogGrows
    <3>3. QED
      BY <1>3, <3>2 DEF Grown, LoggedIn
  <2>3. QED
    BY <1>1, <1>2, <1>4, <1>6, <2>1, <2>2, BooksKeep
<1>7. QED
  BY <1>4, <1>5, <1>6

LEMMA TreasuryInvStep ==
    ASSUME Money, TreasuryInv, [TreasuryNext]_treasuryVars
    PROVE  TreasuryInv'
<1>0. ASSUME books' \in Bookings, UNCHANGED <<distributions, treasuryLog, treasuryCrashes>>
      PROVE  TreasuryInv'
  BY <1>0, BooksKeep DEF TreasuryInv
<1>1. ASSUME NEW amount \in CentAmounts, RecordIncome(amount)
      PROVE  TreasuryInv'
  <2>1. PICK old : old = books /\ old \in Bookings
    BY <1>1 DEF TreasuryInv
  <2>2. books' = [old EXCEPT !.income = Append(@, amount)]
    BY <1>1, <2>1 DEF RecordIncome
  <2>3. books' \in Bookings
    BY <2>1, <2>2, Booking
  <2>4. QED
    BY <1>0, <1>1, <2>3 DEF RecordIncome
<1>2. ASSUME NEW m \in TreasuryMembers, NEW value \in CentAmounts, RecordContribution(m, value)
      PROVE  TreasuryInv'
  <2>1. PICK old : old = books /\ old \in Bookings
    BY <1>2 DEF TreasuryInv
  <2>2. books' = [old EXCEPT !.contributions = Append(@, [member |-> m, value |-> value])]
    BY <1>2, <2>1 DEF RecordContribution
  <2>3. books' \in Bookings
    BY <2>1, <2>2, Booking
  <2>4. QED
    BY <1>0, <1>2, <2>3 DEF RecordContribution
<1>3. ASSUME NEW status \in CustomerStatuses, NEW amount \in CentAmounts,
             RegisterCustomer(status, amount)
      PROVE  TreasuryInv'
  <2>1. PICK old : old = books /\ old \in Bookings
    BY <1>3 DEF TreasuryInv
  <2>2. books' = [old EXCEPT !.customers = Append(@, [status |-> status, mrr |-> amount])]
    BY <1>3, <2>1 DEF RegisterCustomer
  <2>3. books' \in Bookings
    BY <2>1, <2>2, Booking
  <2>4. QED
    BY <1>0, <1>3, <2>3 DEF RegisterCustomer
<1>4. ASSUME NEW total \in CentAmounts, NEW rate \in ReserveRates,
             NEW members \in SUBSET TreasuryMembers, CreateDistribution(total, rate, members)
      PROVE  TreasuryInv'
  <2>1. /\ IsFiniteSet(TreasuryMembers) /\ \A m \in TreasuryMembers : Weight(m) \in Nat
        /\ total \in Nat /\ rate \in Nat
    BY <1>4 DEF Money
  <2>2. QED
    BY <1>4, <2>1, CreateKeeps
<1>5. ASSUME UNCHANGED treasuryVars
      PROVE  TreasuryInv'
  BY <1>0, <1>5 DEF treasuryVars, TreasuryInv
<1>6. ASSUME NEW i \in DOMAIN distributions, NEW done \in 1..2, ExecuteDistribution(i, done)
      PROVE  TreasuryInv'
  BY <1>6, ExecuteKeeps
<1>7. ASSUME NEW name \in RevenueEvents, NEW amount \in CentAmounts, NEW done \in 1..2,
             RecordRevenueEvent(name, amount, done)
      PROVE  TreasuryInv'
  BY <1>7, RevenueKeeps
<1>8. CASE TreasuryNext
  BY <1>1, <1>2, <1>3, <1>4, <1>6, <1>7, <1>8, Zenon DEF TreasuryNext
<1>9. QED
  BY <1>5, <1>8

(* For any members, roles, amounts and reserve rates: the shares of a      *)
(* distribution and its reserve add up to its total, to half a cent each,  *)
(* in the proportion of the roles (calculateAllocations); and it is        *)
(* executed once, which the log says once, but for a crash between the two *)
(* writes (routes/treasury.ts).                                            *)
THEOREM MoneyIsDivided == TreasurySpec => []DistributionsHold
<1>1. TreasuryInv => DistributionsHold
  BY DEF TreasuryInv, DistributionsHold
<1>2. QED
  BY <1>1, TreasuryInvInit, TreasuryInvStep, MoneyType, PTL DEF TreasurySpec

(* Shares are not negative: the reserve is at most the total. *)
DistributionTyped(d) ==
    /\ d.status \in {"pending", "executed"}
    /\ d.allocations \in [Eligible(d.members) -> Nat]

LEMMA NotNegative ==
    ASSUME NEW n \in Nat, NEW d \in Nat, d > 0, NEW q \in toFixed2(n, d)
    PROVE  q \in Nat
<1>1. n \div d \in Nat
  OBVIOUS
<1>2. QED
  BY <1>1 DEF toFixed2

LEMMA PartOfTotal ==
    ASSUME NEW total \in Nat, NEW rate \in 0..10000
    PROVE  total * rate \in Nat /\ total * rate <= total * 10000
<1>1. \A a, b \in Nat : a * b \in Nat
  OBVIOUS
<1>2. rate \in Nat /\ 10000 - rate \in Nat
  OBVIOUS
<1>3. total * (10000 - rate) \in Nat
  BY <1>1, <1>2
<1>4. total * (10000 - rate) = total * 10000 - total * rate
  BY <1>2
<1>5. total * rate \in Nat
  BY <1>1, <1>2
<1>6. QED
  BY <1>3, <1>4, <1>5

LEMMA ReserveFits ==
    ASSUME NEW total \in Nat, NEW product \in Nat, product <= total * 10000,
           NEW reserve \in toFixed2(product, 10000)
    PROVE  total - reserve \in Nat
<1>1. reserve \in Int /\ 2 * reserve * 10000 <= 2 * product + 10000
  BY RoundedType
<1>2. QED
  BY <1>1

LEMMA SharesTyped ==
    ASSUME NEW members \in SUBSET TreasuryMembers, NEW D \in Nat, NEW alloc \in calculateAllocations(members, D)
    PROVE  alloc \in [Eligible(members) -> Nat]
<1>0. IsFiniteSet(TreasuryMembers) /\ \A m \in TreasuryMembers : Weight(m) \in Nat
  BY MoneyType DEF Money
<1>1. PICK E : E = Eligible(members)
  OBVIOUS
<1>2. PICK w : w = [m \in E |-> Weight(m)]
  OBVIOUS
<1>3. IsFiniteSet(E) /\ \A m \in E : w[m] = Weight(m) /\ w[m] \in Nat /\ w[m] > 0
  <2>1. E \subseteq TreasuryMembers /\ \A m \in E : Weight(m) > 0
    BY <1>1 DEF Eligible
  <2>2. IsFiniteSet(E)
    BY <1>0, <2>1, FS_Subset
  <2>3. QED
    BY <1>0, <1>2, <2>1, <2>2
<1>4. PICK T : T = TotalWeight(E)
  OBVIOUS
<1>5. T = SumFunctionOnSet(w, E)
  BY <1>2, <1>4 DEF TotalWeight
<1>6. ASSUME NEW m \in E
      PROVE  T \in Nat /\ T > 0
  <2>1. T \in Nat
    BY <1>3, <1>5, SumType
  <2>2. w[m] <= T
    BY <1>3, <1>5, SumOfPart
  <2>3. QED
    BY <1>3, <2>1, <2>2
<1>7. PICK shares : shares = [m \in E |-> toFixed2(D * Weight(m), T)]
  OBVIOUS
<1>8. alloc \in [E -> UNION {shares[m] : m \in E}] /\ \A m \in E : alloc[m] \in shares[m]
  BY <1>1, <1>4, <1>7 DEF calculateAllocations
<1>9. ASSUME NEW m \in E
      PROVE  alloc[m] \in Nat
  <2>1. PICK n : n = D * Weight(m)
    OBVIOUS
  <2>2. n \in Nat
    <3>1. \A a, b \in Nat : a * b \in Nat
      OBVIOUS
    <3>2. QED
      BY <1>3, <2>1, <3>1
  <2>3. alloc[m] \in toFixed2(n, T)
    BY <1>7, <1>8, <2>1
  <2>4. QED
    BY <1>6, <2>2, <2>3, NotNegative
<1>10. QED
  BY <1>1, <1>8, <1>9

LEMMA CreatedRecord ==
    ASSUME NEW members \in SUBSET TreasuryMembers, NEW total \in Nat, NEW product \in Nat,
           product <= total * 10000, NEW reserve \in toFixed2(product, 10000),
           NEW alloc \in calculateAllocations(members, total - reserve),
           NEW d, d = [status |-> "pending", total |-> total, reserve |-> reserve,
                       members |-> members, allocations |-> alloc]
    PROVE  DistributionTyped(d)
<1>1. PICK D : D = total - reserve
  OBVIOUS
<1>2. D \in Nat
  BY <1>1, ReserveFits
<1>3. alloc \in calculateAllocations(members, D)
  BY <1>1
<1>4. alloc \in [Eligible(members) -> Nat]
  BY <1>2, <1>3, SharesTyped
<1>5. d.status = "pending" /\ d.members = members /\ d.allocations = alloc
  OBVIOUS
<1>6. QED
  BY <1>4, <1>5 DEF DistributionTyped

LEMMA CreatedTyped ==
    ASSUME NEW total \in CentAmounts, NEW rate \in ReserveRates, NEW members \in SUBSET TreasuryMembers,
           CreateDistribution(total, rate, members)
    PROVE  \E d : DistributionTyped(d) /\ distributions' = Append(distributions, d)
<1>1. total \in Nat
  BY MoneyType DEF Money
<1>2. rate \in 0..10000
  <2>1. ReserveRates \subseteq 0..10000
    BY AmountsAssumption, SMTT(60) DEF AmountsAssumption
  <2>2. QED
    BY <2>1
<1>3. PICK product : product = total * rate
  OBVIOUS
<1>4. product \in Nat /\ product <= total * 10000
  BY <1>1, <1>2, <1>3, PartOfTotal
<1>5. ASSUME NEW reserve \in toFixed2(total * rate, 10000),
             NEW alloc \in calculateAllocations(members, total - reserve),
             NEW d, d = [status |-> "pending", total |-> total, reserve |-> reserve,
                         members |-> members, allocations |-> alloc],
             distributions' = Append(distributions, d)
      PROVE  \E e : DistributionTyped(e) /\ distributions' = Append(distributions, e)
  <2>1. reserve \in toFixed2(product, 10000)
    BY <1>3
  <2>2. DistributionTyped(d)
    BY <1>1, <1>4, <1>5, <2>1, CreatedRecord
  <2>3. QED
    BY <1>5, <2>2
<1>6. QED
  BY <1>5 DEF CreateDistribution

LEMMA TreasuryTypes == TreasurySpec => []TreasuryTypeOK
<1> DEFINE Rest == /\ \A i \in DOMAIN distributions : DistributionTyped(distributions[i])
                   /\ treasuryCrashes \in 0..MaxTreasuryCrashes
<1>1. MaxTreasuryCrashes \in Nat
  BY TreasuryAssumption DEF TreasuryAssumption
<1>2. TreasuryInit => Rest
  BY <1>1 DEF TreasuryInit
<1>3. TreasuryInv /\ Rest /\ [TreasuryNext]_treasuryVars => Rest'
  <2> SUFFICES ASSUME TreasuryInv, Rest, [TreasuryNext]_treasuryVars
               PROVE  Rest'
    OBVIOUS
  <2>1. ASSUME NEW done \in 1..2, NEW event, TreasuryLogged(done, event)
        PROVE  treasuryCrashes' \in 0..MaxTreasuryCrashes
    BY <1>1, <2>1 DEF TreasuryLogged
  <2>2. ASSUME UNCHANGED <<distributions, treasuryCrashes>>
        PROVE  Rest'
    BY <2>2 DEF DistributionTyped
  <2>3. distributions \in Seq(DistRecords)
    BY DEF TreasuryInv
  <2>4. ASSUME NEW total \in CentAmounts, NEW rate \in ReserveRates, NEW members \in SUBSET TreasuryMembers,
               CreateDistribution(total, rate, members)
        PROVE  Rest'
    <3>1. PICK d : DistributionTyped(d) /\ distributions' = Append(distributions, d)
      BY <2>4, CreatedTyped
    <3>7. \A i \in DOMAIN Append(distributions, d) :
             Append(distributions, d)[i] = d \/ (i \in DOMAIN distributions /\ Append(distributions, d)[i] = distributions[i])
      BY <2>3
    <3>8. \A i \in DOMAIN distributions' : DistributionTyped(distributions'[i])
      BY <3>1, <3>7
    <3>9. treasuryCrashes' = treasuryCrashes
      BY <2>4 DEF CreateDistribution
    <3>10. QED
      BY <3>8, <3>9
  <2>5. ASSUME NEW i \in DOMAIN distributions, NEW done \in 1..2, ExecuteDistribution(i, done)
        PROVE  Rest'
    <3>1. PICK d : d = [distributions[i] EXCEPT !.status = "executed"]
      OBVIOUS
    <3>2. distributions' = [distributions EXCEPT ![i] = d]
      BY <2>5, <3>1 DEF ExecuteDistribution, writeJsonAtomic
    <3>3. distributions[i] \in DistRecords
      BY <2>3
    <3>4. d.members = distributions[i].members /\ d.allocations = distributions[i].allocations /\ d.status = "executed"
      BY <3>1, <3>3 DEF DistRecords
    <3>5. DistributionTyped(d)
      BY <3>4 DEF DistributionTyped
    <3>6. \A k \in DOMAIN distributions' : DistributionTyped(distributions'[k])
      BY <2>3, <3>2, <3>5
    <3>7. treasuryCrashes' \in 0..MaxTreasuryCrashes
      BY <2>1, <2>5 DEF ExecuteDistribution
    <3>8. QED
      BY <3>6, <3>7
  <2>6. ASSUME NEW name, NEW amount, NEW done \in 1..2, RecordRevenueEvent(name, amount, done)
        PROVE  Rest'
    <3>1. distributions' = distributions
      BY <2>6 DEF RecordRevenueEvent
    <3>2. treasuryCrashes' \in 0..MaxTreasuryCrashes
      BY <2>1, <2>6 DEF RecordRevenueEvent
    <3>3. QED
      BY <3>1, <3>2 DEF DistributionTyped
  <2>7. ASSUME NEW amount, RecordIncome(amount)
        PROVE  Rest'
    BY <2>2, <2>7 DEF RecordIncome
  <2>8. ASSUME NEW m, NEW value, RecordContribution(m, value)
        PROVE  Rest'
    BY <2>2, <2>8 DEF RecordContribution
  <2>9. ASSUME NEW status, NEW amount, RegisterCustomer(status, amount)
        PROVE  Rest'
    BY <2>2, <2>9 DEF RegisterCustomer
  <2>10. CASE UNCHANGED treasuryVars
    BY <2>2, <2>10 DEF treasuryVars
  <2> HIDE DEF Rest
  <2>11. CASE TreasuryNext
    BY <2>4, <2>5, <2>6, <2>7, <2>8, <2>9, <2>11, Zenon DEF TreasuryNext
  <2>12. QED
    BY <2>10, <2>11
<1>4. TreasuryInv /\ Rest => TreasuryTypeOK
  BY DEF TreasuryInv, Bookings, LogEntries, DistributionTyped, TreasuryTypeOK
<1>5. TreasurySpec => []TreasuryInv
  BY MoneyType, TreasuryInvInit, TreasuryInvStep, PTL DEF TreasurySpec
<1>6. QED
  BY <1>2, <1>3, <1>4, <1>5, PTL DEF TreasurySpec

-----------------------------------------------------------------------------
(* Approvals.  The inductive invariant says of a request that is not       *)
(* rejected that all its responses approve, of different people: so that   *)
(* they are as many as the approvers that are counted.                     *)
Responses == [by : Approvers, decision : {"approve", "reject"}]

ApprovalRecords ==
    [required : Nat, policy : 0..2, responses : Seq(Responses),
     status : {"pending", "approved", "rejected"}]

Enough(required) == IF required > 1 THEN required ELSE 1

AllApprove(responses) ==
    /\ \A k \in 1..Len(responses) : responses[k].decision = "approve"
    /\ \A k, l \in 1..Len(responses) : responses[k].by = responses[l].by => k = l

Settled(a) ==
    LET n == Len(a.responses)
    IN  /\ a.status = "pending" => n < Enough(a.required) /\ AllApprove(a.responses)
        /\ a.status = "approved" => n = Enough(a.required) /\ AllApprove(a.responses)
        /\ a.status = "rejected" => /\ n \in 1..Enough(a.required)
                                    /\ a.responses[n].decision = "reject"

ApprovalInv ==
    /\ approvals \in Seq(ApprovalRecords)
    /\ \A i \in DOMAIN approvals : Settled(approvals[i])

LEMMA EnoughIsMax == ASSUME NEW r \in Nat PROVE Max({r, 1}) = Enough(r)
<1>1. Enough(r) \in {r, 1} /\ \A y \in {r, 1} : Enough(r) >= y
  BY DEF Enough
<1>2. \A x \in {r, 1} : (\A y \in {r, 1} : x >= y) => x = Enough(r)
  BY DEF Enough
<1>3. QED
  BY <1>1, <1>2 DEF Max

(* What the invariant says of one request is what the property does.       *)
LEMMA EnoughApproved ==
    ASSUME NEW a \in ApprovalRecords, Settled(a)
    PROVE  LET responses == a.responses
               enough == Max({a.required, 1})
               by(decision) == {responses[k].by : k \in {j \in DOMAIN responses :
                                                            responses[j].decision = decision}}
           IN  CASE a.status = "approved" ->
                        Cardinality(by("approve")) = enough /\ by("reject") = {}
                 [] a.status = "pending" ->
                        Len(responses) < enough /\ by("reject") = {}
                 [] a.status = "rejected" ->
                        Len(responses) <= enough /\ Last(responses).decision = "reject"
<1> DEFINE responses == a.responses
           n == Len(responses)
           by(decision) == {responses[k].by : k \in {j \in DOMAIN responses :
                                                        responses[j].decision = decision}}
<1>1. /\ responses \in Seq(Responses) /\ n \in Nat /\ DOMAIN responses = 1..n
      /\ a.required \in Nat /\ a.status \in {"pending", "approved", "rejected"}
  BY LenProperties DEF ApprovalRecords
<1>2. Max({a.required, 1}) = Enough(a.required) /\ Enough(a.required) \in Nat
  BY <1>1, EnoughIsMax DEF Enough
<1>3. AllApprove(responses) => by("reject") = {}
  BY <1>1 DEF AllApprove
<1>4. ASSUME AllApprove(responses)
      PROVE  Cardinality(by("approve")) = n
  <2> DEFINE f == [k \in 1..n |-> responses[k].by]
  <2>1. by("approve") = {responses[k].by : k \in 1..n}
    BY <1>1, <1>4 DEF AllApprove
  <2>2. f \in Bijection(1..n, by("approve"))
    <3>1. f \in [1..n -> by("approve")]
      BY <2>1
    <3>2. \A k, l \in 1..n : f[k] = f[l] => k = l
      BY <1>4 DEF AllApprove
    <3>3. \A t \in by("approve") : \E k \in 1..n : f[k] = t
      BY <2>1
    <3> HIDE DEF f, by, n
    <3>4. f \in Injection(1..n, by("approve"))
      BY <3>1, <3>2 DEF Injection, IsInjective
    <3>5. f \in Surjection(1..n, by("approve"))
      BY <3>1, <3>3 DEF Surjection
    <3>6. QED
      BY <3>4, <3>5 DEF Bijection
  <2>3. ExistsBijection(1..n, by("approve"))
    <3> HIDE DEF f, by, n
    <3>1. QED
      BY <2>2 DEF ExistsBijection
  <2> HIDE DEF by, n
  <2>4. QED
    BY <1>1, <2>3, FS_CountingElements
<1>5. a.status = "rejected" => Last(responses).decision = "reject"
  BY DEF Settled, Last
<1> HIDE DEF by
<1>6. QED
  <2>1. CASE a.status = "approved"
    BY <1>2, <1>3, <1>4, <2>1 DEF Settled, by
  <2>2. CASE a.status = "pending"
    BY <1>2, <1>3, <2>2 DEF Settled, by
  <2>3. CASE a.status = "rejected"
    BY <1>1, <1>2, <1>5, <2>3 DEF Settled
  <2>4. QED
    BY <1>1, <2>1, <2>2, <2>3

(* A response more.  *)
LEMMA Responded ==
    ASSUME NEW a \in ApprovalRecords, Settled(a), a.status = "pending",
           NEW r \in Responses, NEW b, NEW status,
           b = [a EXCEPT !.responses = Append(a.responses, r), !.status = status],
           \/ r.decision = "reject" /\ status = "rejected"
           \/ /\ r.decision = "approve" /\ r.by \notin Voters(a.responses)
              /\ status = IF Approving(Append(a.responses, r)) >= a.required
                          THEN "approved" ELSE "pending"
    PROVE  b \in ApprovalRecords /\ Settled(b)
<1> DEFINE old == a.responses
           new == Append(old, r)
           n == Len(old)
<1>1. /\ old \in Seq(Responses) /\ n \in Nat /\ DOMAIN old = 1..n /\ a.required \in Nat
      /\ n < Enough(a.required) /\ AllApprove(old)
  BY LenProperties DEF ApprovalRecords, Settled
<1>2. /\ new \in Seq(Responses) /\ Len(new) = n + 1 /\ DOMAIN new = 1..(n + 1)
      /\ new[n + 1] = r /\ \A k \in 1..n : new[k] = old[k]
  BY <1>1, AppendProperties, LenProperties
<1>3. 1..(n + 1) = (1..n) \cup {n + 1} /\ n + 1 \notin 1..n
  BY <1>1
<1>4. b.responses = new /\ b.required = a.required /\ b.status = status
  BY DEF ApprovalRecords
<1>5. b \in ApprovalRecords
  <2>1. status \in {"pending", "approved", "rejected"}
    OBVIOUS
  <2> HIDE DEF new
  <2>2. QED
    BY <1>2, <2>1 DEF ApprovalRecords, new
<1> HIDE DEF new, n
<1>6. CASE r.decision = "reject"
  <2>1. status = "rejected" /\ n + 1 \in 1..Enough(a.required)
    BY <1>1, <1>6 DEF Enough
  <2>2. QED
    BY <1>2, <1>4, <1>5, <1>6, <2>1 DEF Settled
<1>7. CASE r.decision = "approve"
  <2>1. \A k \in 1..n : old[k].by # r.by
    BY <1>1, <1>7 DEF Voters
  <2>2. AllApprove(new)
    <3>1. \A k \in 1..n : old[k].decision = "approve"
      BY <1>1 DEF AllApprove, n
    <3>2. \A k, l \in 1..n : old[k].by = old[l].by => k = l
      BY <1>1 DEF AllApprove, n
    <3>3. \A k \in 1..(n + 1) : new[k].decision = "approve"
      BY <1>2, <1>3, <1>7, <3>1
    <3>4. \A k, l \in 1..(n + 1) : new[k].by = new[l].by => k = l
      BY <1>2, <1>3, <2>1, <3>2
    <3>5. QED
      BY <1>2, <3>3, <3>4 DEF AllApprove
  <2>3. Approving(new) = n + 1
    <3>1. {k \in DOMAIN new : new[k].decision = "approve"} = 1..(n + 1)
      BY <1>2, <2>2 DEF AllApprove
    <3>2. Cardinality(1..(n + 1)) = n + 1
      <4>1. PICK m \in Nat : m = n + 1 /\ m > 0
        BY <1>1
      <4>2. Cardinality(1..m) = IF 1 > m THEN 0 ELSE m - 1 + 1
        BY FS_Interval
      <4>3. Cardinality(1..m) = m
        BY <4>1, <4>2
      <4>4. QED
        BY <4>1, <4>3
    <3>3. QED
      BY <3>1, <3>2 DEF Approving
  <2>4. status = IF n + 1 >= a.required THEN "approved" ELSE "pending"
    BY <1>7, <2>3 DEF new
  <2>5. status = "approved" => n + 1 = Enough(a.required)
    BY <1>1, <2>4 DEF Enough
  <2>6. status = "pending" => n + 1 < Enough(a.required)
    BY <1>1, <2>4 DEF Enough
  <2>7. status # "rejected"
    BY <2>4
  <2>8. Settled(b)
    BY <1>2, <1>4, <2>2, <2>5, <2>6, <2>7 DEF Settled
  <2>9. QED
    BY <1>5, <2>8
<1>8. QED
  BY <1>6, <1>7

LEMMA ApprovalInvInit == ApprovalInit => ApprovalInv
BY DEF ApprovalInit, ApprovalInv

LEMMA ApprovalAdded ==
    ASSUME ApprovalInv, NEW a \in ApprovalRecords, Settled(a), approvals' = Append(approvals, a)
    PROVE  ApprovalInv'
<1>1. PICK list, longer, n : list = approvals /\ longer = Append(list, a) /\ n = Len(list)
  OBVIOUS
<1>2. /\ list \in Seq(ApprovalRecords) /\ n \in Nat /\ DOMAIN list = 1..n
      /\ longer \in Seq(ApprovalRecords) /\ DOMAIN longer = 1..(n + 1)
      /\ longer[n + 1] = a /\ \A i \in 1..n : longer[i] = list[i]
  BY <1>1, AppendProperties, LenProperties DEF ApprovalInv
<1>3. 1..(n + 1) = (1..n) \cup {n + 1}
  BY <1>2
<1>4. \A i \in 1..n : Settled(list[i])
  BY <1>1, <1>2 DEF ApprovalInv
<1>5. \A i \in DOMAIN longer : Settled(longer[i])
  BY <1>2, <1>3, <1>4
<1>6. approvals' = longer
  BY <1>1
<1>7. QED
  BY <1>2, <1>5, <1>6 DEF ApprovalInv, Settled, AllApprove

LEMMA ApprovalChanged ==
    ASSUME ApprovalInv, NEW i \in DOMAIN approvals, NEW a \in ApprovalRecords, Settled(a),
           approvals' = [approvals EXCEPT ![i] = a]
    PROVE  ApprovalInv'
<1>1. PICK list, after : list = approvals /\ after = [list EXCEPT ![i] = a]
  OBVIOUS
<1>2. list \in Seq(ApprovalRecords) /\ DOMAIN list = 1..Len(list) /\ i \in 1..Len(list)
  BY <1>1, LenProperties DEF ApprovalInv
<1>3. after \in Seq(ApprovalRecords)
  BY <1>1, <1>2, ExceptSeq
<1>4. \A k \in DOMAIN list : Settled(list[k])
  BY <1>1 DEF ApprovalInv
<1>5. DOMAIN after = DOMAIN list /\ \A k \in DOMAIN list : after[k] = IF k = i THEN a ELSE list[k]
  BY <1>1, <1>2
<1>6. \A k \in DOMAIN after : Settled(after[k])
  BY <1>4, <1>5
<1>7. approvals' = after
  BY <1>1
<1>8. QED
  BY <1>3, <1>6, <1>7 DEF ApprovalInv, Settled, AllApprove

LEMMA ResponseKeeps ==
    ASSUME ApprovalInv, NEW i \in DOMAIN approvals, NEW actor \in Approvers, NEW done \in 1..2,
           Approve(i, actor, done) \/ Reject(i, actor, done)
    PROVE  ApprovalInv'
<1>1. PICK list, a : list = approvals /\ a = list[i]
  OBVIOUS
<1>2. /\ list \in Seq(ApprovalRecords) /\ DOMAIN list = 1..Len(list) /\ Len(list) \in Nat
      /\ a \in ApprovalRecords /\ Settled(a)
  <2>1. list \in Seq(ApprovalRecords) /\ Settled(a)
    BY <1>1 DEF ApprovalInv
  <2>2. DOMAIN list = 1..Len(list) /\ Len(list) \in Nat
    BY <2>1, LenProperties
  <2>3. a \in ApprovalRecords
    BY <1>1, <2>1, <2>2, ElementOfSeq
  <2>4. QED
    BY <2>1, <2>2, <2>3
<1>3. ASSUME NEW r \in Responses, NEW status,
             approvals' = [list EXCEPT ![i].responses = Append(a.responses, r), ![i].status = status],
             a.status = "pending",
             \/ r.decision = "reject" /\ status = "rejected"
             \/ /\ r.decision = "approve" /\ r.by \notin Voters(a.responses)
                /\ status = IF Approving(Append(a.responses, r)) >= a.required
                            THEN "approved" ELSE "pending"
      PROVE  ApprovalInv'
  <2>1. PICK b : b = [a EXCEPT !.responses = Append(a.responses, r), !.status = status]
    OBVIOUS
  <2>2. b \in ApprovalRecords /\ Settled(b)
    BY <1>2, <1>3, <2>1, Responded
  <2>3. [list EXCEPT ![i].responses = Append(a.responses, r), ![i].status = status]
           = [list EXCEPT ![i] = b]
    BY <1>1, <1>2, <2>1
  <2>4. QED
    BY <1>1, <1>3, <2>2, <2>3, ApprovalChanged
<1>4. CASE Approve(i, actor, done)
  <2>1. PICK r : r = [by |-> actor, decision |-> "approve"]
    OBVIOUS
  <2>2. r \in Responses /\ r.decision = "approve" /\ r.by = actor
    BY <2>1 DEF Responses
  <2>3. PICK status : status = IF Approving(Append(a.responses, r)) >= a.required
                               THEN "approved" ELSE "pending"
    OBVIOUS
  <2>4. /\ a.status = "pending" /\ actor \notin Voters(a.responses)
        /\ approvals' = [list EXCEPT ![i].responses = Append(a.responses, r), ![i].status = status]
    BY <1>1, <1>4, <2>1, <2>3 DEF Approve, WriteApprovals, writeJsonAtomic
  <2>5. QED
    BY <1>3, <2>2, <2>3, <2>4
<1>5. CASE Reject(i, actor, done)
  <2>1. PICK r : r = [by |-> actor, decision |-> "reject"]
    OBVIOUS
  <2>2. r \in Responses /\ r.decision = "reject"
    BY <2>1 DEF Responses
  <2>3. /\ a.status = "pending"
        /\ approvals' = [list EXCEPT ![i].responses = Append(a.responses, r), ![i].status = "rejected"]
    BY <1>1, <1>5, <2>1 DEF Reject, WriteApprovals, writeJsonAtomic
  <2>4. QED
    BY <1>3, <2>2, <2>3
<1>6. QED
  BY <1>4, <1>5

LEMMA RequestKeeps ==
    ASSUME ApprovalAssumption, ApprovalInv, NEW asked \in AskedApprovers, NEW risk \in Risks,
           NEW blast \in Blasts, NEW done \in 1..2, RequestApproval(asked, risk, blast, done)
    PROVE  ApprovalInv'
<1>1. PICK riskThreshold, blastThreshold, policy, record :
        /\ policy = classifyAction(risk, blast, riskThreshold, blastThreshold)
        /\ record = [required |-> IF asked = -1 THEN policy ELSE asked,
                     policy |-> policy, responses |-> <<>>, status |-> "pending"]
        /\ approvals' = IF done >= 2 THEN Append(approvals, record) ELSE approvals
  BY DEF RequestApproval, writeJsonAtomic
<1>2. policy \in 0..2
  BY <1>1 DEF classifyAction
<1>3. record.required \in Nat
  BY <1>1, <1>2 DEF ApprovalAssumption
<1>4. record \in ApprovalRecords
  BY <1>1, <1>2, <1>3 DEF ApprovalRecords
<1>5. Settled(record)
  <2>1. record.status = "pending" /\ record.responses = <<>> /\ Len(<<>>) = 0
    BY <1>1
  <2>2. 0 < Enough(record.required)
    BY <1>3 DEF Enough
  <2>3. AllApprove(<<>>)
    BY DEF AllApprove
  <2>4. QED
    BY <2>1, <2>2, <2>3 DEF Settled
<1>6. CASE approvals' = approvals
  BY <1>6 DEF ApprovalInv
<1>7. CASE approvals' = Append(approvals, record)
  BY <1>4, <1>5, <1>7, ApprovalAdded
<1>8. QED
  BY <1>1, <1>6, <1>7

LEMMA ApprovalInvStep == ApprovalAssumption /\ ApprovalInv /\ [ApprovalNext]_approvalVars => ApprovalInv'
<1> SUFFICES ASSUME ApprovalAssumption, ApprovalInv, [ApprovalNext]_approvalVars
             PROVE  ApprovalInv'
  OBVIOUS
<1>1. CASE UNCHANGED approvalVars
  <2>1. approvals' = approvals
    BY <1>1 DEF approvalVars
  <2>2. QED
    BY <2>1 DEF ApprovalInv, Settled, AllApprove
<1>2. CASE ApprovalNext
  BY <1>2, ResponseKeeps, RequestKeeps DEF ApprovalNext
<1>3. QED
  BY <1>1, <1>2

(* For any approvers, any number asked for and any risk: who approves is   *)
(* counted once, and a request is approved by exactly as many people as it *)
(* asked for, none of whom rejected it (routes/approvals.ts).              *)
THEOREM ApprovedByThatMany == ApprovalSpec => []ApprovedByEnough
<1>1. ApprovalInv => ApprovedByEnough
  <2> SUFFICES ASSUME ApprovalInv, NEW i \in DOMAIN approvals
               PROVE  approvals[i] \in ApprovalRecords /\ Settled(approvals[i])
    BY EnoughApproved DEF ApprovedByEnough
  <2>1. approvals \in Seq(ApprovalRecords) /\ DOMAIN approvals = 1..Len(approvals)
    BY LenProperties DEF ApprovalInv
  <2>2. QED
    BY <2>1, ElementOfSeq DEF ApprovalInv
<1>2. QED
  BY <1>1, ApprovalInvInit, ApprovalInvStep, ApprovalAssumption, PTL DEF ApprovalSpec

(* What is on file of a request for approval, of its log and of the        *)
(* handlers that were cut short.                                           *)
ApprovalLogTyped == approvalLog \in Nat /\ approvalCrashes \in 0..MaxApprovalCrashes

LEMMA ApprovalLogStep == ASSUME ApprovalLogTyped, [ApprovalNext]_approvalVars PROVE ApprovalLogTyped'
<1>0. MaxApprovalCrashes \in Nat
  BY ApprovalAssumption DEF ApprovalAssumption
<1>1. ASSUME NEW k \in 1..2, NEW done \in 1..2, ApprovalLogged(k, done)
      PROVE  ApprovalLogTyped'
  BY <1>0, <1>1 DEF ApprovalLogged, ApprovalLogTyped, writeJsonAtomic
<1>2. CASE UNCHANGED approvalVars
  BY <1>2 DEF approvalVars, ApprovalLogTyped
<1>3. CASE ApprovalNext
  <2>1. ASSUME NEW asked, NEW risk, NEW blast, NEW done \in 1..2, RequestApproval(asked, risk, blast, done)
        PROVE  ApprovalLogged(1, done)
    BY <2>1 DEF RequestApproval
  <2>2. ASSUME NEW i, NEW actor, NEW done \in 1..2, Approve(i, actor, done) \/ Reject(i, actor, done)
        PROVE  ApprovalLogged(2, done)
    BY <2>2 DEF Approve, Reject, WriteApprovals
  <2>3. 1 \in 1..2 /\ 2 \in 1..2
    OBVIOUS
  <2>4. QED
    BY <1>1, <1>3, <2>1, <2>2, <2>3, Zenon DEF ApprovalNext
<1>4. QED
  BY <1>2, <1>3

ObservedTyped ==
    /\ simFile \in {"absent", "sim", "live"} /\ demoBriefs \in 0..KeepDemoBriefs
    /\ letters \in Seq({"none", "acknowledged", "escalated", "dismissed"})
    /\ runsOnFile \in Seq(ObservedRuns) /\ requestsOnFile \in Seq(RequestStatuses)
    /\ observed \in 0..MaxObserved

LEMMA ObservedStep == ASSUME ObservedTyped, [ObservabilityNext]_observabilityVars PROVE ObservedTyped'
<1>0. KeepDemoBriefs \in Nat /\ KeepDemoBriefs > 0 /\ MaxObserved \in Nat
  BY ObservabilityAssumption DEF ObservabilityAssumption
<1>1. Observe => observed' \in 0..MaxObserved
  BY <1>0 DEF Observe, ObservedTyped
<1>2. ASSUME UNCHANGED observedVars
      PROVE  ObservedTyped'
  BY <1>2 DEF observedVars, ObservedTyped
<1>3. ASSUME NEW mode \in {"sim", "live"}, SwitchSimulation(mode)
      PROVE  ObservedTyped'
  BY <1>1, <1>3 DEF SwitchSimulation, ObservedTyped
<1>4. ASSUME LetterArrives
      PROVE  ObservedTyped'
  BY <1>1, <1>4, AppendProperties DEF LetterArrives, ObservedTyped
<1>5. ASSUME NEW i \in DOMAIN letters, NEW action, TriageLetter(i, action)
      PROVE  ObservedTyped'
  <2>1. PICK new : new = IF action \in DOMAIN Triages THEN Triages[action] ELSE "acknowledged"
    OBVIOUS
  <2>2. new \in {"none", "acknowledged", "escalated", "dismissed"}
    BY <2>1 DEF Triages
  <2>3. letters' = [letters EXCEPT ![i] = new]
    BY <1>5, <2>1 DEF TriageLetter
  <2>4. letters' \in Seq({"none", "acknowledged", "escalated", "dismissed"})
    BY <2>2, <2>3 DEF ObservedTyped
  <2>5. QED
    BY <1>1, <1>5, <2>4 DEF TriageLetter, ObservedTyped
<1>6. ASSUME NEW refused, TryDemo(refused)
      PROVE  ObservedTyped'
  BY <1>0, <1>1, <1>6 DEF TryDemo, ObservedTyped
<1>7. ASSUME NEW helpful, GiveFeedback(helpful)
      PROVE  ObservedTyped'
  BY <1>1, <1>7 DEF GiveFeedback, ObservedTyped
<1>8. ASSUME NEW new, ChangeTemplates(new)
      PROVE  ObservedTyped'
  BY <1>1, <1>8 DEF ChangeTemplates, ObservedTyped
<1>9. ASSUME StoreChanges
      PROVE  ObservedTyped'
  <2>1. \/ (\E r \in ObservedRuns : runsOnFile' = Append(runsOnFile, r)) /\ UNCHANGED requestsOnFile
        \/ (\E s \in RequestStatuses : requestsOnFile' = Append(requestsOnFile, s)) /\ UNCHANGED runsOnFile
    BY <1>9 DEF StoreChanges
  <2>2. ASSUME NEW S, NEW list \in Seq(S), NEW e \in S
        PROVE  Append(list, e) \in Seq(S)
    BY AppendProperties
  <2>3. runsOnFile' \in Seq(ObservedRuns) /\ requestsOnFile' \in Seq(RequestStatuses)
    <3>1. runsOnFile \in Seq(ObservedRuns) /\ requestsOnFile \in Seq(RequestStatuses)
      BY DEF ObservedTyped
    <3>2. QED
      BY <2>1, <2>2, <3>1, Zenon
  <2>4. observed' \in 0..MaxObserved /\ UNCHANGED <<simFile, demoBriefs, letters>>
    BY <1>1, <1>9 DEF StoreChanges
  <2>5. QED
    BY <2>3, <2>4 DEF ObservedTyped
<1>10. QED
  BY <1>2, <1>3, <1>4, <1>5, <1>6, <1>7, <1>8, <1>9 DEF ObservabilityNext, observabilityVars

-----------------------------------------------------------------------------
(* The reports. *)

LEMMA Quotient == ASSUME NEW n \in Int, NEW d \in Nat, d > 0 PROVE n \div d \in Int
OBVIOUS

LEMMA Percent == ASSUME NEW b \in Nat, NEW d \in Nat, d > 0, b <= d PROVE (100 * b) \div d \in 0..100
<1>1. PICK q \in Int : q = (100 * b) \div d
  BY Quotient
<1>2. PICK product : product = d * q
  OBVIOUS
<1>3. product \in Int /\ product <= 100 * b /\ 100 * b < product + d
  BY <1>1, <1>2
<1>4. q >= 0
  <2>1. SUFFICES ASSUME q <= -1 PROVE FALSE
    BY <1>1
  <2>2. d * (-1 - q) \in Nat
    <3>1. \A x, y \in Nat : x * y \in Nat
      OBVIOUS
    <3>2. -1 - q \in Nat
      BY <1>1, <2>1
    <3>3. QED
      BY <3>1, <3>2
  <2>3. d * (-1 - q) = 0 - d - product
    BY <1>1, <1>2
  <2>4. QED
    BY <1>3, <2>2, <2>3
<1>5. q <= 100
  <2>1. SUFFICES ASSUME q >= 101 PROVE FALSE
    BY <1>1
  <2>2. d * (q - 101) \in Nat
    <3>1. \A x, y \in Nat : x * y \in Nat
      OBVIOUS
    <3>2. q - 101 \in Nat
      BY <1>1, <2>1
    <3>3. QED
      BY <3>1, <3>2
  <2>3. d * (q - 101) = product - 101 * d
    BY <1>1, <1>2
  <2>4. QED
    BY <1>3, <2>2, <2>3
<1>6. QED
  BY <1>1, <1>4, <1>5

(* How many of a list there are, and what they add up to.                  *)
LEMMA Counts ==
    ASSUME NEW S, NEW list \in Seq(S), NEW T, T \subseteq DOMAIN list
    PROVE  Cardinality(T) \in Nat
<1>1. PICK n : n \in Nat /\ DOMAIN list = 1..n
  BY LenProperties
<1>2. IsFiniteSet(1..n) /\ T \subseteq 1..n
  BY <1>1, FS_Interval
<1>3. QED
  BY <1>2, FS_Subset, FS_CardinalityType

RunActions == Total(runsOnFile, LAMBDA r : r.actions)
RunBlocks == Total(runsOnFile, LAMBDA r : r.blocked)

LEMMA RunTotals == ASSUME ObservedTyped PROVE RunActions \in Nat /\ RunBlocks \in 0..RunActions
<1>1. PICK list, n : list = runsOnFile /\ list \in Seq(ObservedRuns) /\ n \in Nat /\ DOMAIN list = 1..n
  BY LenProperties DEF ObservedTyped
<1>2. PICK a, b : a = [i \in DOMAIN list |-> list[i].actions] /\ b = [i \in DOMAIN list |-> list[i].blocked]
  OBVIOUS
<1>3. DOMAIN a = 1..n /\ DOMAIN b = 1..n
  BY <1>1, <1>2
<1>4. \A i \in 1..n : a[i] \in Nat /\ b[i] \in Nat /\ b[i] <= a[i]
  <2> SUFFICES ASSUME NEW i \in 1..n
               PROVE  a[i] \in Nat /\ b[i] \in Nat /\ b[i] <= a[i]
    OBVIOUS
  <2>1. list[i] \in ObservedRuns
    BY <1>1, ElementOfSeq
  <2>2. list[i].actions \in Nat /\ list[i].blocked \in 0..list[i].actions
    BY <2>1, ObservabilityAssumption DEF ObservabilityAssumption
  <2>3. QED
    BY <1>1, <1>2, <2>2
<1>5. IsFiniteSet(1..n)
  BY <1>1, FS_Interval
<1>6. /\ SumFunctionOnSet(a, 1..n) \in Nat /\ SumFunctionOnSet(b, 1..n) \in Nat
      /\ SumFunctionOnSet(b, 1..n) <= SumFunctionOnSet(a, 1..n)
  <2>1. SumFunctionOnSet(a, 1..n) \in Nat
    BY <1>4, <1>5, SumType
  <2>2. SumFunctionOnSet(b, 1..n) \in Nat
    BY <1>4, <1>5, SumType
  <2>3. SumFunctionOnSet(b, 1..n) <= SumFunctionOnSet(a, 1..n)
    <3>1. PICK S : S = 1..n
      OBVIOUS
    <3>2. IsFiniteSet(S) /\ \A x \in S : b[x] \in Int /\ a[x] \in Int /\ b[x] <= a[x]
      BY <1>4, <1>5, <3>1
    <3>3. SumFunctionOnSet(b, S) <= SumFunctionOnSet(a, S)
      BY <3>2, SumMonotone
    <3>4. QED
      BY <3>1, <3>3
  <2>4. QED
    BY <2>1, <2>2, <2>3
<1>7. RunActions = SumFunctionOnSet(a, 1..n) /\ RunBlocks = SumFunctionOnSet(b, 1..n)
  BY <1>1, <1>2, <1>3, Zenon DEF RunActions, RunBlocks, Total, SumFunction
<1>8. QED
  BY <1>6, <1>7

LEMMA Clamped == \A x \in Int : Clamp01(x) \in 0..100
BY DEF Clamp01

LEMMA SignalsTyped ==
    ASSUME ObservedTyped, NEW signals, signals = workspaceSignals
    PROVE  \A s \in DOMAIN signals : signals[s] \in Nat
<1>1. PICK pending, completed, failed, open :
        /\ pending = Cardinality({i \in DOMAIN approvalRecords : approvalRecords[i].status = "pending"})
        /\ completed = Cardinality({i \in DOMAIN requestsOnFile : requestsOnFile[i] = "completed"})
        /\ failed = Cardinality({i \in DOMAIN runsOnFile : runsOnFile[i].failed})
        /\ open = Cardinality({i \in DOMAIN requestsOnFile : requestsOnFile[i] \notin {"completed", "rejected"}})
  OBVIOUS
<1>2. PICK a, r, w, acted, blocked :
        /\ a = AtLeast1(Len(approvalRecords)) /\ r = AtLeast1(Len(requestsOnFile)) /\ w = AtLeast1(Len(runsOnFile))
        /\ acted = AtLeast1(RunActions) /\ blocked = RunBlocks
  OBVIOUS
<1>3. PICK calm, done, ratio, up :
        /\ calm = Clamp01(100 - (100 * pending) \div a) /\ done = Clamp01((100 * completed) \div r)
        /\ ratio = Clamp01((100 * blocked) \div acted) /\ up = Clamp01(100 - (100 * failed) \div w)
  OBVIOUS
<1>4. signals = [approvals_pending |-> pending, approvals_signal |-> calm, request_open |-> open,
                  request_completed |-> completed, request_completion_signal |-> done,
                  block_ratio |-> ratio, worker_uptime_signal |-> up]
  BY <1>1, <1>2, <1>3, Zenon DEF workspaceSignals, TrueCount, RunActions, RunBlocks
<1>5. pending \in Nat
  <2>1. <<>> \in Seq({}) /\ {i \in DOMAIN approvalRecords : approvalRecords[i].status = "pending"} \subseteq DOMAIN <<>>
    BY DEF approvalRecords
  <2>2. QED
    BY <1>1, <2>1, Counts
<1>6. completed \in Nat
  <2>1. {i \in DOMAIN requestsOnFile : requestsOnFile[i] = "completed"} \subseteq DOMAIN requestsOnFile
    OBVIOUS
  <2>2. QED
    BY <1>1, <2>1, Counts DEF ObservedTyped
<1>7. open \in Nat
  <2>1. {i \in DOMAIN requestsOnFile : requestsOnFile[i] \notin {"completed", "rejected"}} \subseteq DOMAIN requestsOnFile
    OBVIOUS
  <2>2. QED
    BY <1>1, <2>1, Counts DEF ObservedTyped
<1>8. failed \in Nat
  <2>1. {i \in DOMAIN runsOnFile : runsOnFile[i].failed} \subseteq DOMAIN runsOnFile
    OBVIOUS
  <2>2. QED
    BY <1>1, <2>1, Counts DEF ObservedTyped
<1>9. \A n \in Nat : AtLeast1(n) \in Nat /\ AtLeast1(n) > 0
  BY DEF AtLeast1
<1>10. acted \in Nat /\ acted > 0 /\ blocked \in Nat
  BY <1>2, <1>9, RunTotals
<1>11. a \in Nat /\ a > 0 /\ r \in Nat /\ r > 0 /\ w \in Nat /\ w > 0
  BY <1>2, <1>9, LenProperties DEF approvalRecords, ObservedTyped
<1>12. /\ (100 * pending) \div a \in Int /\ (100 * completed) \div r \in Int
       /\ (100 * failed) \div w \in Int /\ (100 * blocked) \div acted \in Int
  BY <1>5, <1>6, <1>8, <1>10, <1>11, Quotient
<1>13. calm \in Nat /\ done \in Nat /\ ratio \in Nat /\ up \in Nat
  <2>1. PICK p, q \in Int : p = 100 - (100 * pending) \div a /\ q = 100 - (100 * failed) \div w
    BY <1>12
  <2>2. calm = Clamp01(p) /\ up = Clamp01(q)
    BY <1>3, <2>1
  <2>3. calm \in 0..100 /\ up \in 0..100
    BY <2>1, <2>2, Clamped
  <2>4. done \in 0..100 /\ ratio \in 0..100
    BY <1>12, <1>3, Clamped
  <2>5. QED
    BY <2>3, <2>4
<1>14. QED
  BY <1>4, <1>5, <1>6, <1>7, <1>13

LEMMA ReportsTyped ==
    ASSUME ObservedTyped
    PROVE  /\ \E signals \in {workspaceSignals} :
                LET values == {signals[s] : s \in DOMAIN signals}
                IN  /\ values \subseteq Nat
                    /\ \A a, b \in values, seed \in {0, 99} : deriveValue(seed, a, b) \in 0..100
           /\ quality.overall_score \in 0..100 /\ errorCounts.rejected_approvals \in Nat
           /\ \A mode \in {"sim", "real"}, chairs \in 0..1, on \in BOOLEAN :
                (compliancePosture(mode, chairs, on) = "compliant") => ~on /\ chairs = 1
<1>1. \A a, b \in Nat, seed \in {0, 99} : deriveValue(seed, a, b) \in 0..100
  <2> SUFFICES ASSUME NEW a \in Nat, NEW b \in Nat, NEW seed \in {0, 99}
               PROVE  deriveValue(seed, a, b) \in 0..100
    OBVIOUS
  <2>1. PICK x, y : x = Clamp01(a) /\ y = Clamp01(b) /\ x \in 0..100 /\ y \in 0..100
    BY Clamped
  <2>2. (35 * seed + 40 * x + 25 * y) \div 100 \in Int
    BY <2>1
  <2>3. QED
    BY <2>1, <2>2, Clamped DEF deriveValue
<1>2. \E signals \in {workspaceSignals} :
         LET values == {signals[s] : s \in DOMAIN signals}
         IN  /\ values \subseteq Nat
             /\ \A a, b \in values, seed \in {0, 99} : deriveValue(seed, a, b) \in 0..100
  <2>1. PICK signals : signals = workspaceSignals
    OBVIOUS
  <2>2. \A s \in DOMAIN signals : signals[s] \in Nat
    BY <2>1, SignalsTyped
  <2>3. QED
    BY <1>1, <2>1, <2>2
<1>3. quality.overall_score \in 0..100
  <2>1. PICK acted, blocked, d : acted = RunActions /\ blocked = RunBlocks /\ d = AtLeast1(acted)
    OBVIOUS
  <2>2. acted \in Nat /\ blocked \in 0..acted
    BY <2>1, RunTotals
  <2>3. d \in Nat /\ d > 0 /\ blocked \in Nat /\ blocked <= d
    BY <2>1, <2>2 DEF AtLeast1
  <2>4. PICK part \in 0..100 : part = (100 * blocked) \div d
    BY <2>3, Percent
  <2>5. quality.overall_score = 100 - part
    BY <2>1, <2>4, Zenon DEF quality, RunActions, RunBlocks
  <2>6. QED
    BY <2>5
<1>4. errorCounts.rejected_approvals \in Nat
  <2>1. <<>> \in Seq({}) /\ {i \in DOMAIN approvalRecords : approvalRecords[i].status = "rejected"} \subseteq DOMAIN <<>>
    BY DEF approvalRecords
  <2>2. Cardinality({i \in DOMAIN approvalRecords : approvalRecords[i].status = "rejected"}) \in Nat
    BY <2>1, Counts
  <2>3. QED
    BY <2>2 DEF errorCounts, TrueCount
<1>5. ASSUME NEW mode \in {"sim", "real"}, NEW chairs \in 0..1, NEW on \in BOOLEAN,
             compliancePosture(mode, chairs, on) = "compliant"
      PROVE  ~on /\ chairs = 1
  <2>1. PICK passed : passed = {check \in 1..4 :
                     \/ check = 1 /\ RequiredTypes \subseteq artifacts
                     \/ check = 2 /\ (mode = "sim" \/ simFile = "sim")
                     \/ check = 3 /\ "agent_blueprint" \in artifacts /\ chairs > 0
                     \/ check = 4 /\ ~on}
    OBVIOUS
  <2>2. Cardinality(passed) = 4
    BY <1>5, <2>1 DEF compliancePosture
  <2>3. IsFiniteSet(1..4) /\ Cardinality(1..4) = 4 /\ passed \subseteq 1..4
    <3>1. PICK m, n \in Int : m = 1 /\ n = 4
      OBVIOUS
    <3>2. IsFiniteSet(m..n) /\ Cardinality(m..n) = IF m > n THEN 0 ELSE n - m + 1
      BY FS_Interval
    <3>3. passed \subseteq 1..4
      BY <2>1, Zenon
    <3>4. QED
      BY <3>1, <3>2, <3>3
  <2>4. passed = 1..4
    BY <2>2, <2>3, FS_Subset
  <2>5. 3 \in passed /\ 4 \in passed
    BY <2>4
  <2>6. QED
    BY <2>1, <2>5
<1>6. QED
  BY <1>2, <1>3, <1>4, <1>5

(* What is observed leaves the approvals alone. *)
LEMMA ApprovalsAlone ==
    [ObservabilityNext]_observabilityVars => [ApprovalNext]_approvalVars
BY DEF ObservabilityNext, observabilityVars, SwitchSimulation, LetterArrives, TriageLetter, TryDemo,
       GiveFeedback, ChangeTemplates, StoreChanges, Observe

LEMMA ObservabilityTypes == ObservabilitySpec => []ObservabilityTypeOK
<1>1. ObservabilityInit => ApprovalInv /\ ApprovalLogTyped /\ ObservedTyped
  <2> SUFFICES ASSUME ObservabilityInit
               PROVE  ApprovalInv /\ ApprovalLogTyped /\ ObservedTyped
    OBVIOUS
  <2>1. ApprovalInv
    BY ApprovalInvInit DEF ObservabilityInit
  <2>2. ApprovalLogTyped
    BY ApprovalAssumption DEF ObservabilityInit, ApprovalInit, ApprovalLogTyped, ApprovalAssumption
  <2>3. ObservedTyped
    BY ObservabilityAssumption, EmptySeq DEF ObservabilityInit, ObservedTyped, ObservabilityAssumption
  <2>4. QED
    BY <2>1, <2>2, <2>3
<1>2. [ObservabilityNext]_observabilityVars => [ApprovalNext]_approvalVars
  BY ApprovalsAlone
<1>3. ApprovalInv /\ ApprovalLogTyped /\ ObservedTyped => ObservabilityTypeOK
  <2> SUFFICES ASSUME ApprovalInv, ApprovalLogTyped, ObservedTyped
               PROVE  ObservabilityTypeOK
    OBVIOUS
  <2>1. ApprovalTypeOK
    BY DEF ApprovalTypeOK, ApprovalInv, ApprovalRecords, Responses, ApprovalLogTyped
  <2>2. \A i \in DOMAIN letters : letters[i] \in {"none", "acknowledged", "escalated", "dismissed"}
    BY LenProperties, ElementOfSeq DEF ObservedTyped
  <2>3. bottlenecks \subseteq LoopStages
    BY DEF bottlenecks
  <2>4. QED
    BY <2>1, <2>2, <2>3, ReportsTyped, Zenon DEF ObservabilityTypeOK, ObservedTyped
<1>4. QED
  BY <1>1, <1>2, <1>3, ApprovalAssumption, ApprovalInvStep, ApprovalLogStep, ObservedStep, PTL DEF ObservabilitySpec

-----------------------------------------------------------------------------
(* Actions.  What the ledger says is inductive as it stands; here it is a  *)
(* statement about a list of actions and a ledger, so that the two states  *)
(* of a step can be compared.                                              *)
ActionRecords ==
    [mode : ActionModes, requires : {"auto", "required"}, origin : Nat,
     status : {"REQUESTED", "SIMULATED", "APPROVED", "DENIED", "EXECUTED"}]

LedgerEntries ==
    [action : Nat, event : {"REQUESTED", "SIMULATED", "APPROVED", "DENIED", "EXECUTED", "RERUN"}]

Says(event, a) ==
    \/ event = a.status
    \/ event = "RERUN" /\ a.status = InitialStatus(a.mode, a.requires)

LastIn(led, k, i) ==
    /\ led[k].action = i
    /\ \A l \in (k + 1)..Len(led) : led[l].action # i

ExplainedIn(list, led, i) ==
    \E k \in DOMAIN led : LastIn(led, k, i) /\ Says(led[k].event, list[i])

Unexplained(list, led) == {i \in DOMAIN list : ~ExplainedIn(list, led, i)}

ActionInv ==
    /\ simMode \in ActionModes
    /\ actions \in Seq(ActionRecords)
    /\ ledger \in Seq(LedgerEntries)
    /\ actionCrashes \in Nat
    /\ \A k \in DOMAIN ledger : ledger[k].action \in DOMAIN actions
    /\ Cardinality(Unexplained(actions, ledger)) <= actionCrashes

LEMMA UnexplainedAre ==
    Unexplained(actions, ledger) = {i \in DOMAIN actions : ~Explained(i)}
BY DEF Unexplained, ExplainedIn, LastIn, Says, Explained, IsLastOf

(* An entry about action i is added: it is the last about i, and the last  *)
(* about any other action stays the last.                                  *)
LEMMA EntryAdded ==
    ASSUME NEW list, NEW led \in Seq(LedgerEntries), NEW e \in LedgerEntries
    PROVE  LET longer == Append(led, e)
           IN  /\ longer \in Seq(LedgerEntries)
               /\ \A k \in DOMAIN longer : longer[k] = e \/ \E l \in DOMAIN led : longer[k] = led[l]
               /\ Says(e.event, list[e.action]) => ExplainedIn(list, longer, e.action)
               /\ \A j : j # e.action /\ ExplainedIn(list, led, j) => ExplainedIn(list, longer, j)
<1> DEFINE longer == Append(led, e)
           n == Len(led)
<1>1. /\ n \in Nat /\ DOMAIN led = 1..n
      /\ longer \in Seq(LedgerEntries) /\ Len(longer) = n + 1 /\ DOMAIN longer = 1..(n + 1)
      /\ longer[n + 1] = e /\ \A k \in 1..n : longer[k] = led[k]
  BY AppendProperties, LenProperties
<1> HIDE DEF longer, n
<1>2. 1..(n + 1) = (1..n) \cup {n + 1}
  BY <1>1
<1>3. \A k \in DOMAIN longer : longer[k] = e \/ \E l \in DOMAIN led : longer[k] = led[l]
  BY <1>1, <1>2
<1>4. Says(e.event, list[e.action]) => ExplainedIn(list, longer, e.action)
  <2>1. LastIn(longer, n + 1, e.action)
    <3>1. ((n + 1) + 1)..(n + 1) = {}
      BY <1>1
    <3>2. QED
      BY <1>1, <3>1 DEF LastIn
  <2>2. n + 1 \in DOMAIN longer
    BY <1>1, <1>2
  <2>3. QED
    BY <1>1, <2>1, <2>2 DEF ExplainedIn
<1>5. ASSUME NEW j, j # e.action, ExplainedIn(list, led, j)
      PROVE  ExplainedIn(list, longer, j)
  <2>1. PICK k \in 1..n : LastIn(led, k, j) /\ Says(led[k].event, list[j])
    BY <1>1, <1>5 DEF ExplainedIn
  <2>2. led[k].action = j /\ \A l \in (k + 1)..n : led[l].action # j
    BY <2>1 DEF LastIn, n
  <2>3. ASSUME NEW l \in (k + 1)..(n + 1)
        PROVE  longer[l].action # j
    <3>1. CASE l = n + 1
      BY <1>1, <1>5, <3>1
    <3>2. CASE l # n + 1
      <4>1. l \in (k + 1)..n /\ l \in 1..n
        BY <1>1, <3>2
      <4>2. QED
        BY <1>1, <2>2, <4>1
    <3>3. QED
      BY <3>1, <3>2
  <2>4. LastIn(longer, k, j)
    BY <1>1, <2>2, <2>3 DEF LastIn
  <2>5. k \in DOMAIN longer /\ longer[k] = led[k]
    BY <1>1, <1>2
  <2>6. QED
    BY <2>1, <2>4, <2>5 DEF ExplainedIn
<1>6. QED
  BY <1>1, <1>3, <1>4, <1>5 DEF longer

(* The three writes of a handler, about action i: as many as were made.    *)
LEMMA WritesKeep ==
    ASSUME ActionInv, NEW new \in Seq(ActionRecords), NEW e \in LedgerEntries,
           NEW i, i = e.action, i \in DOMAIN new,
           DOMAIN actions \subseteq DOMAIN new, DOMAIN new \subseteq DOMAIN actions \cup {i},
           \A j \in DOMAIN actions : j # i => new[j] = actions[j],
           Says(e.event, new[i]),
           NEW done \in 1..3, WriteActions(done, new, e), simMode' \in ActionModes
    PROVE  ActionInv'
<1>1. PICK list, led, crashes : list = actions /\ led = ledger /\ crashes = actionCrashes
  OBVIOUS
<1>2. /\ list \in Seq(ActionRecords) /\ led \in Seq(LedgerEntries) /\ crashes \in Nat
      /\ \A k \in DOMAIN led : led[k].action \in DOMAIN list
      /\ Cardinality(Unexplained(list, led)) <= crashes
  BY <1>1 DEF ActionInv
<1>3. PICK longer : longer = Append(led, e)
  OBVIOUS
<1>4. /\ actions' = new
      /\ ledger' = IF done >= 2 THEN longer ELSE led
      /\ actionCrashes' = IF done < 3 THEN crashes + 1 ELSE crashes
  BY <1>1, <1>3 DEF WriteActions, writeJsonAtomic, ActionCut
<1>5. /\ IsFiniteSet(Unexplained(list, led)) /\ Cardinality(Unexplained(list, led)) \in Nat
  <2>1. PICK n : n \in Nat /\ DOMAIN list = 1..n
    BY <1>2, LenProperties
  <2>2. IsFiniteSet(DOMAIN list)
    <3>1. 1 \in Int /\ n \in Int
      BY <2>1
    <3>2. IsFiniteSet(1..n)
      BY <3>1, FS_Interval
    <3>3. QED
      BY <2>1, <3>2
  <2>3. IsFiniteSet(Unexplained(list, led))
    BY <2>2, FS_Subset DEF Unexplained
  <2>4. QED
    BY <2>3, FS_CardinalityType
<1>6. ASSUME NEW j \in DOMAIN list, j # i, NEW l
      PROVE  ExplainedIn(new, l, j) <=> ExplainedIn(list, l, j)
  BY <1>1, <1>6 DEF ExplainedIn
<1>7. CASE done = 1
  <2>1. actions' = new /\ ledger' = led /\ actionCrashes' = crashes + 1
    BY <1>4, <1>7
  <2>2. Unexplained(new, led) \subseteq Unexplained(list, led) \cup {i}
    BY <1>1, <1>6 DEF Unexplained
  <2>3. Cardinality(Unexplained(new, led)) <= crashes + 1
    <3>1. PICK U, V : U = Unexplained(list, led) /\ V = Unexplained(new, led)
      OBVIOUS
    <3>2. IsFiniteSet(U) /\ Cardinality(U) \in Nat /\ Cardinality(U) <= crashes /\ V \subseteq U \cup {i}
      BY <1>2, <1>5, <2>2, <3>1
    <3>3. IsFiniteSet(U \cup {i}) /\ Cardinality(U \cup {i}) \in {Cardinality(U), Cardinality(U) + 1}
      BY <3>2, FS_AddElement
    <3>4. Cardinality(V) <= Cardinality(U \cup {i}) /\ Cardinality(V) \in Nat
      BY <3>2, <3>3, FS_Subset, FS_CardinalityType
    <3>5. QED
      BY <1>2, <3>1, <3>2, <3>3, <3>4
  <2>4. \A k \in DOMAIN led : led[k].action \in DOMAIN new
    BY <1>1, <1>2
  <2>5. QED
    BY <1>2, <2>1, <2>3, <2>4 DEF ActionInv
<1>8. CASE done # 1
  <2>1. actions' = new /\ ledger' = longer /\ actionCrashes' \in {crashes, crashes + 1}
    BY <1>4, <1>8
  <2>2. /\ longer \in Seq(LedgerEntries)
        /\ \A k \in DOMAIN longer : longer[k] = e \/ \E l \in DOMAIN led : longer[k] = led[l]
        /\ ExplainedIn(new, longer, i)
        /\ \A j : j # i /\ ExplainedIn(new, led, j) => ExplainedIn(new, longer, j)
    BY <1>2, <1>3, EntryAdded
  <2>3. Unexplained(new, longer) \subseteq Unexplained(list, led)
    BY <1>1, <1>6, <2>2 DEF Unexplained
  <2>4. Cardinality(Unexplained(new, longer)) <= crashes
    <3>1. PICK U, V : U = Unexplained(list, led) /\ V = Unexplained(new, longer)
      OBVIOUS
    <3>2. Cardinality(V) <= Cardinality(U) /\ Cardinality(V) \in Nat
      BY <1>5, <2>3, <3>1, FS_Subset, FS_CardinalityType
    <3>3. QED
      BY <1>2, <1>5, <3>1, <3>2
  <2>5. \A k \in DOMAIN longer : longer[k].action \in DOMAIN new
    BY <1>1, <1>2, <2>2
  <2>6. actionCrashes' \in Nat /\ Cardinality(Unexplained(new, longer)) <= actionCrashes'
    <3>1. PICK u : u = Cardinality(Unexplained(new, longer)) /\ u \in Nat
      BY <1>5, <2>3, FS_Subset, FS_CardinalityType
    <3>2. QED
      BY <1>2, <2>1, <2>4, <3>1
  <2>7. QED
    BY <2>1, <2>2, <2>5, <2>6 DEF ActionInv
<1>9. QED
  BY <1>7, <1>8

(* A new action is added with its first entry.                             *)
LEMMA AddKeeps ==
    ASSUME ActionInv, NEW a \in ActionRecords, NEW event, NEW done \in 1..3,
           LedgerEntry(Len(actions) + 1, event) \in LedgerEntries, Says(event, a),
           WriteActions(done, Append(actions, a), LedgerEntry(Len(actions) + 1, event)),
           simMode' \in ActionModes
    PROVE  ActionInv'
<1>1. PICK list, longer, n, e :
        /\ list = actions /\ longer = Append(list, a) /\ n = Len(list)
        /\ e = LedgerEntry(n + 1, event)
  OBVIOUS
<1>2. /\ list \in Seq(ActionRecords) /\ n \in Nat /\ DOMAIN list = 1..n
      /\ longer \in Seq(ActionRecords) /\ DOMAIN longer = 1..(n + 1)
      /\ longer[n + 1] = a /\ \A j \in 1..n : longer[j] = list[j]
  BY <1>1, AppendProperties, LenProperties DEF ActionInv
<1>3. 1..(n + 1) = (1..n) \cup {n + 1}
  BY <1>2
<1>4. e \in LedgerEntries /\ e.action = n + 1 /\ e.event = event
  BY <1>1 DEF LedgerEntry
<1>5. WriteActions(done, longer, e)
  BY <1>1
<1>6. /\ n + 1 \in DOMAIN longer /\ DOMAIN actions \subseteq DOMAIN longer
      /\ DOMAIN longer \subseteq DOMAIN actions \cup {n + 1}
      /\ \A j \in DOMAIN actions : j # n + 1 => longer[j] = actions[j]
      /\ Says(e.event, longer[n + 1])
  BY <1>1, <1>2, <1>3, <1>4
<1>7. QED
  BY <1>2, <1>4, <1>5, <1>6, WritesKeep

(* An action gets a status, and the ledger an entry that says so.          *)
LEMMA StatusKeeps ==
    ASSUME ActionInv, NEW i \in DOMAIN actions, NEW status \in {"APPROVED", "DENIED"}, NEW done \in 1..3,
           WriteActions(done, [actions EXCEPT ![i].status = status], LedgerEntry(i, status)),
           simMode' \in ActionModes
    PROVE  ActionInv'
<1>1. PICK list, a, after, e :
        /\ list = actions /\ a = [list[i] EXCEPT !.status = status]
        /\ after = [list EXCEPT ![i] = a] /\ e = LedgerEntry(i, status)
  OBVIOUS
<1>2. list \in Seq(ActionRecords) /\ DOMAIN list = 1..Len(list) /\ Len(list) \in Nat /\ i \in 1..Len(list)
  BY <1>1, LenProperties DEF ActionInv
<1>3. a \in ActionRecords /\ a.status = status
  <2>1. list[i] \in ActionRecords
    BY <1>2, ElementOfSeq
  <2>2. QED
    BY <1>1, <2>1 DEF ActionRecords
<1>4. after \in Seq(ActionRecords)
  BY <1>1, <1>2, <1>3, ExceptSeq
<1>5. DOMAIN after = DOMAIN list /\ after[i] = a /\ \A j \in DOMAIN list : j # i => after[j] = list[j]
  BY <1>1, <1>2
<1>6. e \in LedgerEntries /\ e.action = i /\ e.event = status
  BY <1>1, <1>2 DEF LedgerEntries, LedgerEntry
<1>7. [actions EXCEPT ![i].status = status] = after
  BY <1>1
<1>8. WriteActions(done, after, e)
  BY <1>1, <1>7
<1>9. Says(e.event, after[i])
  BY <1>3, <1>5, <1>6 DEF Says
<1>10. /\ i \in DOMAIN after /\ DOMAIN actions \subseteq DOMAIN after
       /\ DOMAIN after \subseteq DOMAIN actions \cup {i}
       /\ \A j \in DOMAIN actions : j # i => after[j] = actions[j]
  BY <1>1, <1>5
<1>11. QED
  BY <1>4, <1>6, <1>8, <1>9, <1>10, WritesKeep

LEMMA ActionInvInit == ActionInit => ActionInv
<1> SUFFICES ASSUME ActionInit
             PROVE  ActionInv
  OBVIOUS
<1>1. actions = <<>> /\ ledger = <<>> /\ actionCrashes = 0 /\ simMode \in ActionModes
  BY DEF ActionInit, ActionModes
<1>2. Unexplained(<<>>, <<>>) = {}
  BY DEF Unexplained
<1>3. Cardinality({}) = 0
  BY FS_EmptySet
<1>4. QED
  BY <1>1, <1>2, <1>3 DEF ActionInv

LEMMA ActionInvStep == ActionInv /\ [ActionNext]_actionVars => ActionInv'
<1> SUFFICES ASSUME ActionInv, [ActionNext]_actionVars
             PROVE  ActionInv'
  OBVIOUS
<1>1. ASSUME NEW asked \in ActionModes \cup {"none"}, NEW requires \in {"auto", "required"},
             NEW done \in 1..3, Submit(asked, requires, done)
      PROVE  ActionInv'
  <2>1. PICK mode, a :
          /\ mode = (IF asked = "none" THEN simMode ELSE asked)
          /\ a = [mode |-> mode, requires |-> requires,
                  status |-> InitialStatus(mode, requires), origin |-> 0]
    OBVIOUS
  <2>2. mode \in ActionModes /\ a \in ActionRecords /\ Len(actions) \in Nat
    BY <2>1 DEF ActionInv, ActionRecords, ActionModes, InitialStatus
  <2>3. WriteActions(done, Append(actions, a), LedgerEntry(Len(actions) + 1, a.status))
    BY <1>1, <2>1 DEF Submit
  <2>4. LedgerEntry(Len(actions) + 1, a.status) \in LedgerEntries /\ Says(a.status, a)
    BY <2>2 DEF LedgerEntry, LedgerEntries, ActionRecords, Says
  <2>5. simMode' \in ActionModes
    BY <1>1 DEF Submit, ActionInv
  <2>6. QED
    BY <2>2, <2>3, <2>4, <2>5, AddKeeps
<1>2. ASSUME NEW i \in DOMAIN actions, NEW asked \in ActionModes \cup {"none"}, NEW done \in 1..3,
             Rerun(i, asked, done)
      PROVE  ActionInv'
  <2>1. PICK list, old, mode, a :
          /\ list = actions /\ old = list[i]
          /\ mode = (IF asked = "none" THEN old.mode ELSE asked)
          /\ a = [old EXCEPT !.mode = mode, !.origin = i,
                             !.status = InitialStatus(mode, old.requires)]
    OBVIOUS
  <2>2. old \in ActionRecords /\ i \in Nat /\ Len(actions) \in Nat
    BY <2>1, ElementOfSeq, LenProperties DEF ActionInv
  <2>3. mode \in ActionModes
    BY <2>1, <2>2 DEF ActionRecords
  <2>4. a \in ActionRecords /\ a.status = InitialStatus(a.mode, a.requires)
    BY <2>1, <2>2, <2>3, ZenonT(40) DEF ActionRecords, ActionModes, InitialStatus
  <2>5. WriteActions(done, Append(actions, a), LedgerEntry(Len(actions) + 1, "RERUN"))
    BY <1>2, <2>1 DEF Rerun
  <2>6. LedgerEntry(Len(actions) + 1, "RERUN") \in LedgerEntries /\ Says("RERUN", a)
    BY <2>2, <2>4 DEF LedgerEntry, LedgerEntries, Says
  <2>7. simMode' \in ActionModes
    BY <1>2 DEF Rerun, ActionInv
  <2>8. QED
    BY <2>4, <2>5, <2>6, <2>7, AddKeeps
<1>3. ASSUME NEW i \in DOMAIN actions, NEW done \in 1..3,
             ApproveAction(i, done) \/ Deny(i, done)
      PROVE  ActionInv'
  BY <1>3, StatusKeeps DEF ApproveAction, Deny, ActionInv
<1>4. ASSUME NEW mode \in ActionModes, NEW done \in 1..2, SetMode(mode, done)
      PROVE  ActionInv'
  <2>1. PICK list, led, crashes, u :
          /\ list = actions /\ led = ledger /\ crashes = actionCrashes
          /\ u = Cardinality(Unexplained(list, led))
    OBVIOUS
  <2>2. actions' = list /\ ledger' = led /\ simMode' = mode /\ actionCrashes' \in {crashes, crashes + 1}
    BY <1>4, <2>1 DEF SetMode, ActionCut
  <2>3. IsFiniteSet(Unexplained(list, led))
    <3>1. PICK n : n \in Nat /\ DOMAIN list = 1..n
      BY <2>1, LenProperties DEF ActionInv
    <3>2. 1 \in Int /\ n \in Int
      BY <3>1
    <3>3. IsFiniteSet(1..n)
      BY <3>2, FS_Interval
    <3>4. Unexplained(list, led) \subseteq 1..n
      BY <3>1 DEF Unexplained
    <3>5. QED
      BY <3>3, <3>4, FS_Subset
  <2>4. u \in Nat /\ u <= crashes /\ crashes \in Nat
    BY <2>1, <2>3, FS_CardinalityType DEF ActionInv
  <2>5. u <= actionCrashes' /\ actionCrashes' \in Nat
    BY <2>2, <2>4
  <2>6. Cardinality(Unexplained(actions', ledger')) <= actionCrashes'
    BY <2>1, <2>2, <2>5
  <2>7. /\ list \in Seq(ActionRecords) /\ led \in Seq(LedgerEntries)
        /\ \A k \in DOMAIN led : led[k].action \in DOMAIN list
    BY <2>1 DEF ActionInv
  <2>8. QED
    BY <2>2, <2>5, <2>6, <2>7 DEF ActionInv
<1>5. CASE UNCHANGED actionVars
  <2>1. UNCHANGED <<simMode, actions, ledger, actionCrashes>>
    BY <1>5 DEF actionVars
  <2>2. QED
    BY <2>1 DEF ActionInv, Unexplained, ExplainedIn, LastIn, Says, InitialStatus
<1>6. CASE ActionNext
  BY <1>1, <1>2, <1>3, <1>4, <1>6 DEF ActionNext
<1>7. QED
  BY <1>5, <1>6

(* For any number of actions, decisions, reruns and crashes: every ledger  *)
(* entry is of an action there is, and the last one of an action gives the *)
(* status the file does - but for as many actions as handlers were cut     *)
(* short between their writes (routes/actions.ts).                         *)
THEOREM ActionsAreExplained == ActionSpec => []LedgerExplainsActions
<1>1. ActionInv => LedgerExplainsActions
  BY UnexplainedAre DEF ActionInv, LedgerExplainsActions
<1>2. QED
  BY <1>1, ActionInvInit, ActionInvStep, PTL DEF ActionSpec

LEMMA ActionTypes == ActionSpec => []ActionTypeOK
<1> DEFINE Rest == /\ actionLog \in [{"mode", "action"} -> Nat]
                   /\ actionCrashes \in 0..MaxActionCrashes
<1>1. MaxActionCrashes \in Nat
  BY ActionAssumption DEF ActionAssumption
<1>2. ActionInit => Rest
  BY <1>1 DEF ActionInit
<1>3. Rest /\ [ActionNext]_actionVars => Rest'
  <2> SUFFICES ASSUME Rest, [ActionNext]_actionVars
               PROVE  Rest'
    OBVIOUS
  <2>1. ASSUME NEW kind \in {"mode", "action"}, NEW k \in Nat, NEW done \in Nat, ActionLogged(done, k, kind)
        PROVE  actionLog' \in [{"mode", "action"} -> Nat]
    BY <2>1 DEF ActionLogged, writeJsonAtomic
  <2>2. ASSUME NEW done \in Nat, NEW all \in Nat, ActionCut(done, all)
        PROVE  actionCrashes' \in 0..MaxActionCrashes
    BY <1>1, <2>2 DEF ActionCut
  <2>3. ASSUME NEW new, NEW e, NEW done \in 1..3, WriteActions(done, new, e)
        PROVE  Rest'
    BY <2>1, <2>2, <2>3 DEF WriteActions
  <2>4. ASSUME NEW mode, NEW done \in 1..2, SetMode(mode, done)
        PROVE  Rest'
    BY <2>1, <2>2, <2>4 DEF SetMode
  <2>5. CASE UNCHANGED actionVars
    BY <2>5 DEF actionVars
  <2>6. ASSUME NEW asked, NEW requires, NEW done \in 1..3, Submit(asked, requires, done)
        PROVE  Rest'
    BY <2>3, <2>6 DEF Submit
  <2>7. ASSUME NEW i, NEW done \in 1..3, ApproveAction(i, done) \/ Deny(i, done)
        PROVE  Rest'
    BY <2>3, <2>7 DEF ApproveAction, Deny
  <2>8. ASSUME NEW i, NEW asked, NEW done \in 1..3, Rerun(i, asked, done)
        PROVE  Rest'
    BY <2>3, <2>8 DEF Rerun
  <2> HIDE DEF Rest
  <2>9. CASE ActionNext
    BY <2>4, <2>6, <2>7, <2>8, <2>9 DEF ActionNext
  <2>10. QED
    BY <2>5, <2>9
<1>4. ActionInv /\ Rest => ActionTypeOK
  BY DEF ActionInv, ActionTypeOK, ActionRecords, LedgerEntries
<1>5. QED
  BY <1>2, <1>3, <1>4, ActionInvInit, ActionInvStep, PTL DEF ActionSpec
===============================================================================
