-------------------------- MODULE ConversationsProofs -------------------------
(***************************************************************************)
(* The components of MCConversations, for every value of their constants.  *)
(*                                                                         *)
(* HTTP platform: no handler runs twice for one idempotency key, and a     *)
(* path is never let more than twice its limit in one window's time.       *)
(* Board chat: a job that is done has one answer of every chair it asked,  *)
(* and is logged once.  Interview: the board on file is of one generation  *)
(* and has all its seats.  Launch and add-ins: what is on file as          *)
(* installed can be used.  Freeform chat, meetings, webhooks: what was     *)
(* said, delivered or answered is lost to an overlap only.  Then what the  *)
(* stores of each hold (its type invariant), and last all of them in the   *)
(* composition.                                                            *)
(***************************************************************************)
EXTENDS MCConversations, FiniteSums, SequenceTheorems, NaturalsInduction, WellFoundedInduction

(* What the limiter knows of a path (`counter`) against the times of the   *)
(* requests it let pass until `t`: the last `count` of them came in its    *)
(* window, those before came no later than it began, and those that at     *)
(* least maxRequests others separate from it came windowMs before it; so   *)
(* any two with 2 * maxRequests between them lie more than windowMs apart. *)
InWindow(counter, times, t) ==
    LET n == Len(times)
        k == counter.count
        start == counter.windowStart
    IN  /\ k \in 1..maxRequests /\ k <= n /\ start \in 0..t
        /\ \A i \in 1..n : i <= n - k => times[i] <= start
        /\ \A i \in 1..n : i <= n - k - maxRequests => times[i] + windowMs < start

Apart(times) ==
    \A i, j \in 1..Len(times) : j >= i + 2 * maxRequests => times[i] + windowMs < times[j]

PathOK(counter, times, t) ==
    /\ counter \in [count : Nat, windowStart : Int]
    /\ times \in Seq(Nat)
    /\ \A i, j \in 1..Len(times) : i <= j => times[i] <= times[j]
    /\ \A i \in 1..Len(times) : times[i] <= t
    /\ IF counter = NoWindow THEN times = <<>> ELSE InWindow(counter, times, t)
    /\ Apart(times)

WindowsOK ==
    /\ now \in Nat
    /\ requestCounter \in [Paths -> [count : Nat, windowStart : Int]]
    /\ admitted \in [Paths -> Seq(Nat)]
    /\ \A p \in Paths : PathOK(requestCounter[p], admitted[p], now)

(* A request under way has its key on record. *)
KeysOK ==
    /\ store \in [Keys -> Int]
    /\ handled \in [Keys -> Seq(Int)]
    /\ underway \in [Callers -> [busy : BOOLEAN, key : Keys \cup {"none"}]]
    /\ \A c \in Callers : underway[c].key \in Keys => store[underway[c].key] # 0

HttpInv == WindowsOK /\ KeysOK /\ KeysAreUsedOnce

-----------------------------------------------------------------------------
LEMMA LimitsType ==
    HttpAssumption => maxRequests \in Nat /\ maxRequests > 0 /\ windowMs \in Nat /\ windowMs > 0
BY DEF HttpAssumption

(* The limiter counts a request that comes at t. *)
LEMMA CountOne ==
    ASSUME HttpAssumption, NEW t \in Nat, NEW counter, NEW times, PathOK(counter, times, t),
           NEW fresh \in BOOLEAN, fresh <=> counter = NoWindow \/ t - counter.windowStart > windowMs,
           fresh \/ ~(counter.count >= maxRequests)
    PROVE  PathOK(IF fresh THEN [count |-> 1, windowStart |-> t]
                  ELSE [count |-> counter.count + 1, windowStart |-> counter.windowStart],
                  Append(times, t), t)
<1> DEFINE n == Len(times)
           b == Append(times, t)
           next == IF fresh THEN [count |-> 1, windowStart |-> t]
                   ELSE [count |-> counter.count + 1, windowStart |-> counter.windowStart]
<1>0. maxRequests \in Nat /\ maxRequests > 0 /\ windowMs \in Nat /\ windowMs > 0
  BY LimitsType
<1>1. /\ n = Len(times) /\ n \in Nat /\ b \in Seq(Nat) /\ Len(b) = n + 1
      /\ b[n + 1] = t /\ \A i \in 1..n : b[i] = times[i] /\ times[i] \in Nat
  <2>1. times \in Seq(Nat)
    BY DEF PathOK
  <2>2. QED
    BY <2>1, AppendProperties, LenProperties, ElementOfSeq
<1>2. /\ next \in [count : Nat, windowStart : Int] /\ next.count > 0
      /\ next.windowStart = IF fresh THEN t ELSE counter.windowStart
      /\ next.count = IF fresh THEN 1 ELSE counter.count + 1
  <2>1. counter \in [count : Nat, windowStart : Int]
    BY DEF PathOK
  <2>2. CASE fresh
    BY <2>2
  <2>3. CASE ~fresh
    BY <2>1, <2>3
  <2>4. QED
    BY <2>2, <2>3
<1>3. next # NoWindow
  BY <1>2 DEF NoWindow
<1>3a. ASSUME NEW i \in 1..(n + 1), i # n + 1
       PROVE  i \in 1..n
  <2> HIDE DEF n
  <2>1. QED
    BY <1>1, <1>3a
<1> HIDE DEF n, b, next
<1>4. ASSUME NEW i \in 1..(n + 1)
      PROVE  b[i] \in Nat /\ b[i] <= t
  <2>1. CASE i = n + 1
    BY <1>1, <2>1
  <2>2. CASE i # n + 1
    <3>1. i \in 1..n
      BY <1>3a, <2>2
    <3>2. QED
      BY <1>1, <3>1 DEF PathOK
  <2>3. QED
    BY <2>1, <2>2
<1>5. \A i, j \in 1..(n + 1) : i <= j => b[i] <= b[j]
  <2>1. ASSUME NEW i \in 1..(n + 1), NEW j \in 1..(n + 1), i <= j
        PROVE  b[i] <= b[j]
    <3>1. CASE j = n + 1
      BY <1>1, <1>4, <3>1
    <3>2. CASE j # n + 1
      <4>1. i \in 1..n /\ j \in 1..n
        <5>1. i # n + 1
          BY <1>1, <2>1, <3>2
        <5>2. QED
          BY <1>3a, <3>2, <5>1
      <4>2. QED
        BY <1>1, <2>1, <4>1 DEF PathOK
    <3>3. QED
      BY <3>1, <3>2
  <2>2. QED
    BY <2>1
<1>5a. ASSUME counter # NoWindow
       PROVE  /\ counter.count \in Nat /\ counter.windowStart \in Nat
              /\ 1 <= counter.count /\ counter.count <= maxRequests /\ counter.count <= n
              /\ \A i \in 1..n : i <= n - counter.count => times[i] <= counter.windowStart
              /\ \A i \in 1..n : i <= n - counter.count - maxRequests
                                    => times[i] + windowMs < counter.windowStart
  <2>1. InWindow(counter, times, t)
    BY <1>5a DEF PathOK
  <2>2. counter.count \in 1..maxRequests /\ counter.windowStart \in 0..t
    BY <2>1 DEF InWindow
  <2>3. QED
    BY <1>0, <1>1, <2>1, <2>2 DEF InWindow
<1>5b. counter # NoWindow => counter.count \in Nat /\ counter.windowStart \in Nat
                             /\ 1 <= counter.count /\ counter.count <= maxRequests /\ counter.count <= n
  BY <1>5a
<1>5c. n \in Nat
  BY <1>1
(* What came before the window, and long before it. *)
<1>6. ASSUME NEW i \in 1..(n + 1)
      PROVE  /\ i <= (n + 1) - next.count => b[i] <= next.windowStart
             /\ i <= (n + 1) - next.count - maxRequests => b[i] + windowMs < next.windowStart
  <2>1. CASE counter = NoWindow
    <3>1. n = 0 /\ fresh
      <4>1. times = <<>>
        BY <2>1 DEF PathOK
      <4>2. QED
        BY <1>1, <2>1, <4>1, EmptySeq
    <3>2. QED
      BY <1>1, <1>2, <1>4, <3>1
  <2>2. CASE counter # NoWindow /\ fresh
    <3>1. t - counter.windowStart > windowMs
      BY <2>2
    <3>2. i <= (n + 1) - 1 - maxRequests => b[i] + windowMs < t
      <4>1. ASSUME i <= n - maxRequests
            PROVE  b[i] + windowMs < t
        <5>1. i \in 1..n /\ i <= n - counter.count
          BY <1>0, <1>5b, <1>5c, <2>2, <4>1
        <5>2. b[i] = times[i] /\ b[i] \in Nat /\ times[i] <= counter.windowStart
          BY <1>1, <1>5a, <2>2, <5>1
        <5>3. QED
          BY <1>0, <1>5a, <2>2, <3>1, <5>2
      <4>2. QED
        BY <1>1, <4>1
    <3>3. QED
      BY <1>2, <1>4, <2>2, <3>2
  <2>3. CASE counter # NoWindow /\ ~fresh
    <3>2. next.count = counter.count + 1 /\ next.windowStart = counter.windowStart
      BY <1>2, <2>3
    <3>4. ASSUME i <= (n + 1) - next.count
          PROVE  i \in 1..n /\ b[i] = times[i] /\ i <= n - counter.count
      <4>1. i \in 1..n /\ i <= n - counter.count
        BY <1>5b, <1>5c, <2>3, <3>2, <3>4
      <4>2. QED
        BY <1>1, <4>1
    <3>5. i <= (n + 1) - next.count => b[i] <= next.windowStart
      BY <1>5a, <2>3, <3>2, <3>4
    <3>6. ASSUME i <= (n + 1) - next.count - maxRequests
          PROVE  b[i] + windowMs < next.windowStart
      <4>1. i <= (n + 1) - next.count /\ i <= n - counter.count - maxRequests
        BY <1>0, <1>5b, <1>5c, <2>3, <3>2, <3>6
      <4>2. QED
        BY <1>5a, <2>3, <3>2, <3>4, <4>1
    <3>7. QED
      BY <3>5, <3>6
  <2>4. QED
    BY <2>1, <2>2, <2>3
<1>7. InWindow(next, b, t)
  <2>1. next.count \in 1..maxRequests /\ next.count <= n + 1 /\ next.windowStart \in 0..t
    <3>1. CASE fresh
      BY <1>0, <1>1, <1>2, <3>1
    <3>2. CASE ~fresh
      <4>1. counter # NoWindow /\ ~(counter.count >= maxRequests)
        BY <3>2
      <4>2. InWindow(counter, times, t)
        BY <4>1 DEF PathOK
      <4>3. counter.windowStart \in 0..t
        BY <4>2 DEF InWindow
      <4>4. next.count = counter.count + 1 /\ next.windowStart = counter.windowStart
        BY <1>2, <3>2
      <4>5. QED
        BY <1>0, <1>5b, <1>5c, <4>1, <4>3, <4>4
    <3>3. QED
      BY <3>1, <3>2
  <2> HIDE DEF next, b
  <2>2. QED
    BY <1>1, <1>6, <2>1 DEF InWindow
<1>8. Apart(b)
  <2>1. ASSUME NEW i \in 1..(n + 1), NEW j \in 1..(n + 1), j >= i + 2 * maxRequests
        PROVE  b[i] + windowMs < b[j]
    <3>1. CASE j # n + 1
      <4>1. i \in 1..n /\ j \in 1..n
        <5>1. i # n + 1
          BY <1>0, <1>1, <2>1, <3>1
        <5>2. QED
          BY <1>3a, <3>1, <5>1
      <4>2. QED
        BY <1>1, <2>1, <4>1 DEF PathOK, Apart
    <3>2. CASE j = n + 1
      <4>1. next.count \in 1..maxRequests /\ next.windowStart \in 0..t
        BY <1>7 DEF InWindow
      <4>2. i <= (n + 1) - next.count - maxRequests
        <5> HIDE DEF next
        <5>1. QED
          BY <1>0, <1>5c, <2>1, <3>2, <4>1
      <4>3. b[i] + windowMs < next.windowStart
        BY <1>6, <4>2
      <4>4. b[j] = t /\ b[i] \in Nat
        BY <1>1, <1>4, <3>2
      <4> HIDE DEF next, b
      <4>5. QED
        BY <4>1, <4>3, <4>4
    <3>3. QED
      BY <3>1, <3>2
  <2> HIDE DEF b
  <2>2. QED
    BY <1>1, <2>1 DEF Apart
<1> HIDE DEF next, b
<1>9. PathOK(next, b, t)
  BY <1>1, <1>2, <1>3, <1>4, <1>5, <1>7, <1>8 DEF PathOK
<1>10. QED
  BY <1>9 DEF next, b

(* Time that passes changes nothing in what the limiter knows. *)
LEMMA LaterOK ==
    ASSUME NEW t \in Nat, NEW counter, NEW times, PathOK(counter, times, t)
    PROVE  PathOK(counter, times, t + 1)
<1>1. times \in Seq(Nat)
  BY DEF PathOK
<1>2. \A i \in 1..Len(times) : times[i] \in Nat
  BY <1>1, ElementOfSeq
<1>3. \A i \in 1..Len(times) : times[i] <= t + 1
  BY <1>2 DEF PathOK
<1>4. counter # NoWindow => InWindow(counter, times, t + 1)
  <2>1. counter.windowStart \in 0..t => counter.windowStart \in 0..(t + 1)
    OBVIOUS
  <2>2. QED
    BY <2>1 DEF PathOK, InWindow
<1>5. QED
  BY <1>3, <1>4 DEF PathOK

(* A path nobody has asked for. *)
LEMMA FreshOK == ASSUME NEW t \in Nat PROVE PathOK(NoWindow, <<>>, t)
<1>1. <<>> \in Seq(Nat) /\ Len(<<>>) = 0
  BY EmptySeq
<1>2. 1..0 = {}
  OBVIOUS
<1>3. QED
  BY <1>1, <1>2 DEF PathOK, NoWindow, Apart

(* Among times with 2 * maxRequests between those that lie windowMs apart, *)
(* windowMs holds 2 * maxRequests at most.                                 *)
LEMMA FewInAnyWindow ==
    ASSUME HttpAssumption, NEW t \in Nat, NEW counter, NEW times, PathOK(counter, times, t), NEW i \in DOMAIN times
    PROVE  Cardinality({j \in DOMAIN times : times[j] \in times[i]..times[i] + windowMs}) <= 2 * maxRequests
<1> DEFINE n == Len(times)
           T == {j \in DOMAIN times : times[j] \in times[i]..times[i] + windowMs}
<1>0. maxRequests \in Nat /\ maxRequests > 0 /\ windowMs \in Nat
  BY LimitsType
<1>1. n \in Nat /\ DOMAIN times = 1..n /\ \A j \in 1..n : times[j] \in Nat
  BY LenProperties, ElementOfSeq DEF PathOK
<1>2. T \subseteq Nat /\ i \in T
  BY <1>0, <1>1
<1>3. PICK m \in T : \A j \in T : ~(<<j, m>> \in OpToRel(<, Nat))
  <2> HIDE DEF T
  <2>1. QED
    BY <1>2, NatLessThanWellFounded, WFMin
<1>4. m \in Nat /\ \A j \in T : m <= j
  <2> HIDE DEF T
  <2>1. ASSUME NEW j \in T
        PROVE  m <= j
    <3>1. m \in Nat /\ j \in Nat
      BY <1>2
    <3>2. j < m => <<j, m>> \in OpToRel(<, Nat)
      BY <3>1 DEF OpToRel
    <3>3. ~(j < m)
      BY <1>3, <3>2
    <3>4. QED
      BY <3>1, <3>3
  <2>2. QED
    BY <1>2, <2>1
<1>5. ASSUME NEW j \in T
      PROVE  j \in m..(m + 2 * maxRequests - 1)
  <2>1. j \in 1..n /\ m \in 1..n /\ m <= j
    BY <1>1, <1>4
  <2>2. times[j] <= times[i] + windowMs /\ times[i] <= times[m] /\ times[m] \in Nat /\ times[i] \in Nat /\ times[j] \in Nat
    BY <1>0, <1>1, <2>1
  <2>3. j >= m + 2 * maxRequests => times[m] + windowMs < times[j]
    BY <2>1 DEF PathOK, Apart
  <2>4. ~(j >= m + 2 * maxRequests)
    <3> HIDE DEF T
    <3>1. QED
      BY <1>0, <2>2, <2>3
  <2> HIDE DEF T, n
  <2>5. j \in Nat
    BY <1>2
  <2>6. QED
    BY <1>0, <1>4, <2>1, <2>4, <2>5
<1>6. /\ IsFiniteSet(m..(m + 2 * maxRequests - 1))
      /\ Cardinality(m..(m + 2 * maxRequests - 1)) = 2 * maxRequests
  <2>1. m + 2 * maxRequests - 1 \in Int /\ m \in Int /\ ~(m > m + 2 * maxRequests - 1)
    BY <1>0, <1>4
  <2>2. Cardinality(m..(m + 2 * maxRequests - 1)) = (m + 2 * maxRequests - 1) - m + 1
    BY <2>1, FS_Interval
  <2>3. IsFiniteSet(m..(m + 2 * maxRequests - 1))
    BY <2>1, FS_Interval
  <2>4. QED
    BY <1>0, <1>4, <2>2, <2>3
<1>7. T \subseteq m..(m + 2 * maxRequests - 1)
  BY <1>5
<1> HIDE DEF T
<1>8. Cardinality(T) <= 2 * maxRequests
  BY <1>6, <1>7, FS_Subset
<1>9. QED
  BY <1>8 DEF T

-----------------------------------------------------------------------------
LEMMA HttpInvInit == HttpAssumption /\ HttpInit => HttpInv
<1> SUFFICES ASSUME HttpAssumption, HttpInit
             PROVE  HttpInv
  OBVIOUS
<1> USE DEF HttpInit
<1>1. WindowsOK
  <2>1. NoWindow \in [count : Nat, windowStart : Int] /\ <<>> \in Seq(Nat) /\ 0 \in Nat
    BY EmptySeq DEF NoWindow
  <2>2. \A p \in Paths : PathOK(requestCounter[p], admitted[p], now)
    BY FreshOK, <2>1 DEF NoWindows, NothingAdmitted
  <2>3. QED
    BY <2>1, <2>2 DEF WindowsOK, NoWindows, NothingAdmitted
<1>2. KeysOK
  BY EmptySeq DEF KeysOK, NoKeys, NothingHandled, Nobody, HttpAssumption
<1>3. KeysAreUsedOnce
  BY DEF KeysAreUsedOnce, NoKeys, NothingHandled
<1>4. QED
  BY <1>1, <1>2, <1>3 DEF HttpInv

(* A request that the limiter lets pass. *)
LEMMA CountRequestStep ==
    ASSUME HttpAssumption, WindowsOK, NEW p \in Paths, ~RateLimited(p), CountRequest(p), UNCHANGED now
    PROVE  WindowsOK'
<1> DEFINE next == IF NewWindow(p) THEN [count |-> 1, windowStart |-> now]
                   ELSE [count |-> requestCounter[p].count + 1,
                         windowStart |-> requestCounter[p].windowStart]
<1>1. PathOK(requestCounter[p], admitted[p], now) /\ now \in Nat
  BY DEF WindowsOK
<1>2. PathOK(next, Append(admitted[p], now), now)
  <2>1. NewWindow(p) \in BOOLEAN
    BY DEF NewWindow
  <2>2. NewWindow(p) <=> requestCounter[p] = NoWindow \/ now - requestCounter[p].windowStart > windowMs
    BY DEF NewWindow
  <2>3. NewWindow(p) \/ ~(requestCounter[p].count >= maxRequests)
    BY DEF RateLimited
  <2>4. QED
    BY <1>1, <2>1, <2>2, <2>3, CountOne
<1>3. /\ requestCounter' = [requestCounter EXCEPT ![p] = next]
      /\ admitted' = [admitted EXCEPT ![p] = Append(admitted[p], now)]
  <2>1. admitted' = [admitted EXCEPT ![p] = Append(admitted[p], now)]
    BY DEF CountRequest
  <2>2. requestCounter' = [requestCounter EXCEPT ![p] = next]
    BY DEF CountRequest
  <2>3. QED
    BY <2>1, <2>2
<1> HIDE DEF next
<1>4. next \in [count : Nat, windowStart : Int] /\ Append(admitted[p], now) \in Seq(Nat)
  BY <1>2 DEF PathOK
<1>5. ASSUME NEW q \in Paths
      PROVE  PathOK(requestCounter'[q], admitted'[q], now)
  <2>1. CASE q = p
    <3>1. requestCounter'[q] = next /\ admitted'[q] = Append(admitted[p], now)
      BY <1>3, <2>1 DEF WindowsOK
    <3>2. QED
      BY <1>2, <3>1
  <2>2. CASE q # p
    <3>1. requestCounter'[q] = requestCounter[q] /\ admitted'[q] = admitted[q]
      BY <1>3, <2>2 DEF WindowsOK
    <3>2. QED
      BY <3>1 DEF WindowsOK
  <2>3. QED
    BY <2>1, <2>2
<1>6. QED
  BY <1>3, <1>4, <1>5 DEF WindowsOK

LEMMA EntersStep ==
    ASSUME HttpAssumption, HttpInv, NEW c \in Callers, NEW p \in Paths,
           NEW key \in Keys \cup {"none"}, Enters(c, p, key)
    PROVE  HttpInv'
<1>1. WindowsOK'
  BY CountRequestStep DEF Enters, HttpInv
<1>2. /\ store \in [Keys -> Int] /\ handled \in [Keys -> Seq(Int)]
      /\ underway \in [Callers -> [busy : BOOLEAN, key : Keys \cup {"none"}]]
      /\ \A d \in Callers : underway[d].key \in Keys => store[underway[d].key] # 0
  BY DEF HttpInv, KeysOK
<1>3. /\ store' = [k \in Keys |-> IF k = key THEN 202 ELSE store[k]]
      /\ handled' = [k \in Keys |-> IF k = key THEN Append(handled[k], 202) ELSE handled[k]]
      /\ underway' = [underway EXCEPT ![c] = [busy |-> TRUE, key |-> key]]
      /\ key \in Keys => store[key] = 0
  BY DEF Enters, Duplicate, HttpAssumption
<1>4. \A k \in Keys : store'[k] = IF k = key THEN 202 ELSE store[k]
  BY <1>3
<1>5. KeysOK'
  <2>1. store' \in [Keys -> Int]
    BY <1>2, <1>3
  <2>2. handled' \in [Keys -> Seq(Int)]
    <3>1. \A k \in Keys : Append(handled[k], 202) \in Seq(Int)
      BY <1>2, AppendProperties
    <3>2. QED
      BY <1>2, <1>3, <3>1
  <2>3. underway' \in [Callers -> [busy : BOOLEAN, key : Keys \cup {"none"}]]
    BY <1>2, <1>3
  <2>4. ASSUME NEW d \in Callers, underway'[d].key \in Keys
        PROVE  store'[underway'[d].key] # 0
    <3>1. CASE d = c
      BY <1>2, <1>3, <1>4, <2>4, <3>1
    <3>2. CASE d # c
      BY <1>2, <1>3, <1>4, <2>4, <3>2
    <3>3. QED
      BY <3>1, <3>2
  <2>5. QED
    BY <2>1, <2>2, <2>3, <2>4 DEF KeysOK
<1>6. KeysAreUsedOnce'
  <2>1. ASSUME NEW k \in Keys
        PROVE  IF store'[k] = 0 THEN handled'[k] = <<>> ELSE handled'[k] = <<store'[k]>>
    <3>1. CASE k = key
      <4>1. handled[k] = <<>>
        BY <1>3, <3>1 DEF HttpInv, KeysAreUsedOnce
      <4>2. handled'[k] = Append(handled[k], 202) /\ store'[k] = 202
        BY <1>3, <3>1
      <4>3. Append(<<>>, 202) = <<202>>
        OBVIOUS
      <4>4. QED
        BY <4>1, <4>2, <4>3
    <3>2. CASE k # key
      BY <1>3, <3>2 DEF HttpInv, KeysAreUsedOnce
    <3>3. QED
      BY <3>1, <3>2
  <2>2. QED
    BY <2>1 DEF KeysAreUsedOnce
<1>7. QED
  BY <1>1, <1>5, <1>6 DEF HttpInv

LEMMA AnsweredStep ==
    ASSUME HttpAssumption, HttpInv, NEW c \in Callers,
           NEW status \in ContextAnswers \cup HandlerAnswers, NEW heard \in BOOLEAN,
           Answered(c, status, heard)
    PROVE  HttpInv'
<1>1. WindowsOK'
  BY DEF Answered, HttpInv, WindowsOK
<1>2. /\ store \in [Keys -> Int] /\ handled \in [Keys -> Seq(Int)]
      /\ underway \in [Callers -> [busy : BOOLEAN, key : Keys \cup {"none"}]]
      /\ \A d \in Callers : underway[d].key \in Keys => store[underway[d].key] # 0
  BY DEF HttpInv, KeysOK
<1>3. PICK key \in Keys \cup {"none"} : key = underway[c].key
  BY <1>2
<1>4. /\ store' = [k \in Keys |-> IF k = key THEN (IF heard THEN status ELSE store[k]) ELSE store[k]]
      /\ handled' = [k \in Keys |-> IF k = key /\ heard
                        THEN [handled[k] EXCEPT ![Len(handled[k])] = status] ELSE handled[k]]
      /\ underway' = [underway EXCEPT ![c] = [busy |-> FALSE, key |-> "none"]]
  BY <1>3 DEF Answered
<1>5. status \in Int /\ status # 0
  BY DEF ContextAnswers, HandlerAnswers
<1>6. ASSUME NEW k \in Keys, k = key, heard
      PROVE  store'[k] = status /\ handled'[k] = <<status>>
  <2>1. store[k] # 0
    BY <1>2, <1>3, <1>6
  <2>2. handled[k] = <<store[k]>>
    BY <2>1 DEF HttpInv, KeysAreUsedOnce
  <2>3. [handled[k] EXCEPT ![Len(handled[k])] = status] = <<status>>
    BY <2>2
  <2>4. QED
    BY <1>4, <1>6, <2>3
<1>7. ASSUME NEW k \in Keys, ~(k = key /\ heard)
      PROVE  store'[k] = store[k] /\ handled'[k] = handled[k]
  BY <1>4, <1>7
<1>8. KeysOK'
  <2>1. \A k \in Keys : store'[k] \in Int
    BY <1>2, <1>5, <1>6, <1>7
  <2>2. \A k \in Keys : handled'[k] \in Seq(Int)
    <3>1. <<status>> \in Seq(Int)
      BY <1>5
    <3>2. QED
      BY <1>2, <1>6, <1>7, <3>1
  <2>3. store' \in [Keys -> Int] /\ handled' \in [Keys -> Seq(Int)]
    BY <1>4, <2>1, <2>2
  <2>4. underway' \in [Callers -> [busy : BOOLEAN, key : Keys \cup {"none"}]]
    BY <1>2, <1>4
  <2>5. ASSUME NEW d \in Callers, underway'[d].key \in Keys
        PROVE  store'[underway'[d].key] # 0
    <3>1. d # c
      BY <1>2, <1>4, <2>5 DEF HttpAssumption
    <3>2. PICK k \in Keys : k = underway[d].key /\ k = underway'[d].key
      BY <1>2, <1>4, <2>5, <3>1
    <3>3. store[k] # 0
      BY <1>2, <3>2
    <3>4. store'[k] # 0
      BY <1>5, <1>6, <1>7, <3>3
    <3>5. QED
      BY <3>2, <3>4
  <2>6. QED
    BY <2>3, <2>4, <2>5 DEF KeysOK
<1>9. KeysAreUsedOnce'
  <2>1. ASSUME NEW k \in Keys
        PROVE  IF store'[k] = 0 THEN handled'[k] = <<>> ELSE handled'[k] = <<store'[k]>>
    <3>1. CASE k = key /\ heard
      BY <1>5, <1>6, <3>1
    <3>2. CASE ~(k = key /\ heard)
      BY <1>7, <3>2 DEF HttpInv, KeysAreUsedOnce
    <3>3. QED
      BY <3>1, <3>2
  <2>2. QED
    BY <2>1 DEF KeysAreUsedOnce
<1>10. QED
  BY <1>1, <1>8, <1>9 DEF HttpInv

LEMMA HttpInvStep == HttpAssumption /\ HttpInv /\ [HttpNext]_httpVars => HttpInv'
<1> SUFFICES ASSUME HttpAssumption, HttpInv, [HttpNext]_httpVars
             PROVE  HttpInv'
  OBVIOUS
<1>1. ASSUME NEW p \in Paths, NEW key \in Keys \cup {"none"}, TurnedAway(p, key)
      PROVE  HttpInv'
  <2>1. WindowsOK'
    <3>1. CASE RateLimited(p)
      BY <1>1, <3>1 DEF TurnedAway, HttpInv, WindowsOK
    <3>2. CASE ~RateLimited(p)
      BY <1>1, <3>2, CountRequestStep DEF TurnedAway, HttpInv
    <3>3. QED
      BY <3>1, <3>2
  <2>2. QED
    BY <1>1, <2>1 DEF TurnedAway, HttpInv, KeysOK, KeysAreUsedOnce
<1>2. ASSUME NEW c \in Callers, NEW p \in Paths, NEW key \in Keys \cup {"none"}, Enters(c, p, key)
      PROVE  HttpInv'
  BY <1>2, EntersStep
<1>3. ASSUME NEW c \in Callers, NEW status \in ContextAnswers \cup HandlerAnswers, NEW heard \in BOOLEAN,
             Answered(c, status, heard)
      PROVE  HttpInv'
  BY <1>3, AnsweredStep
<1>4. CASE Tick
  <2>1. now \in Nat /\ now' = now + 1 /\ requestCounter' = requestCounter /\ admitted' = admitted
    BY <1>4 DEF Tick, HttpInv, WindowsOK
  <2>2. \A p \in Paths : PathOK(requestCounter'[p], admitted'[p], now')
    BY <2>1, LaterOK DEF HttpInv, WindowsOK
  <2>3. WindowsOK'
    BY <2>1, <2>2 DEF HttpInv, WindowsOK
  <2>4. QED
    BY <1>4, <2>3 DEF Tick, HttpInv, KeysOK, KeysAreUsedOnce
<1>5. CASE ProcessRestart
  <2>1. now' = now /\ now \in Nat
    BY <1>5 DEF ProcessRestart, HttpInv, WindowsOK
  <2>2. NoWindow \in [count : Nat, windowStart : Int] /\ <<>> \in Seq(Nat)
    BY EmptySeq DEF NoWindow
  <2>3. \A p \in Paths : PathOK(requestCounter'[p], admitted'[p], now')
    BY <1>5, <2>1, FreshOK DEF ProcessRestart, NoWindows, NothingAdmitted
  <2>4. WindowsOK'
    BY <1>5, <2>1, <2>2, <2>3 DEF ProcessRestart, NoWindows, NothingAdmitted, WindowsOK
  <2>5. KeysOK' /\ KeysAreUsedOnce'
    BY <1>5, EmptySeq DEF ProcessRestart, KeysOK, KeysAreUsedOnce, NoKeys, NothingHandled, Nobody,
       HttpAssumption
  <2>6. QED
    BY <2>4, <2>5 DEF HttpInv
<1>6. CASE UNCHANGED httpVars
  BY <1>6 DEF httpVars, HttpInv, WindowsOK, KeysOK, KeysAreUsedOnce
<1>7. QED
  BY <1>1, <1>2, <1>3, <1>4, <1>5, <1>6 DEF HttpNext

(* RequestsAreHeld, for every limit, window and set of keys: while the     *)
(* process lives lib/idempotency.ts lets one request past per key and      *)
(* answers the others with that one's status, and lib/http-security.ts     *)
(* lets no more than twice its limit pass in any windowMs.                 *)
THEOREM RequestsHeld == HttpSpec => []RequestsAreHeld
<1>1. HttpInit => HttpInv
  BY HttpInvInit, HttpAssumption
<1>2. HttpInv /\ [HttpNext]_httpVars => HttpInv'
  BY HttpInvStep, HttpAssumption
<1>3. HttpInv => RequestsAreHeld
  <2>1. ASSUME HttpInv, NEW p \in Paths, NEW i \in DOMAIN admitted[p]
        PROVE  Cardinality({j \in DOMAIN admitted[p] :
                              admitted[p][j] \in admitted[p][i]..admitted[p][i] + windowMs})
                   <= 2 * maxRequests
    <3>1. now \in Nat /\ PathOK(requestCounter[p], admitted[p], now)
      BY <2>1 DEF HttpInv, WindowsOK
    <3>2. QED
      BY <3>1, FewInAnyWindow, HttpAssumption
  <2>2. QED
    BY <2>1 DEF HttpInv, RequestsAreHeld, RateHeld
<1>4. QED
  BY <1>1, <1>2, <1>3, PTL DEF HttpSpec

-----------------------------------------------------------------------------
(* Board chat.  The inductive invariant says of a job whose execution is   *)
(* alive that its chairs are those that wait, those asked and those that   *)
(* answered, each in one of the three places; that none waits unless       *)
(* another one is asked; and that the answers on file are those that came. *)
ChatJobRecords ==
    [thread : Threads, status : ChatStatuses, chairs : SUBSET BoardDomains, partial : Seq(BoardDomains)]

ExecutionRecords ==
    [mode : {"none", "chair", "board"}, todo : Seq(BoardDomains),
     asked : SUBSET BoardDomains, results : SUBSET BoardDomains]

Distinct(s) == \A k, l \in DOMAIN s : s[k] = s[l] => k = l

Deliberating(job, run) ==
    /\ job.status = "running"
    /\ IsFiniteSet(job.chairs)
    /\ job.chairs = run.asked \cup run.results \cup ToSet(run.todo)
    /\ run.asked \cap run.results = {}
    /\ ToSet(run.todo) \cap (run.asked \cup run.results) = {}
    /\ Distinct(run.todo)
    /\ run.todo # <<>> => run.asked # {}
    /\ ToSet(job.partial) = run.results /\ Len(job.partial) = Cardinality(run.results)

Deliberated(job) ==
    ToSet(job.partial) = job.chairs /\ Len(job.partial) = Cardinality(job.chairs)

JobHolds(job, run, logged, crashes) ==
    /\ run # Gone => ~logged /\ Deliberating(job, run)
    /\ run = Gone /\ job.status \in {"pending", "running", "torn"} => crashes > 0
    /\ job.status = "done" => logged
    /\ logged => Deliberated(job) /\ (job.status = "done" \/ crashes > 0)

ChatInv ==
    /\ chatJobs \in Seq(ChatJobRecords)
    /\ executions \in Seq(ExecutionRecords) /\ Len(executions) = Len(chatJobs)
    /\ chatSessions \in [Threads -> SessionState]
    /\ chatLog \in Seq(Nat) /\ ToSet(chatLog) \subseteq DOMAIN chatJobs
    /\ Len(chatLog) = Cardinality(ToSet(chatLog))
    /\ chatCrashes \in Nat
    /\ \A i \in DOMAIN chatJobs :
         JobHolds(chatJobs[i], executions[i], i \in ToSet(chatLog), chatCrashes)

LEMMA SeqFacts ==
    ASSUME NEW S, NEW s \in Seq(S)
    PROVE  /\ Len(s) \in Nat /\ DOMAIN s = 1..Len(s)
           /\ \A k \in DOMAIN s : s[k] \in S
           /\ ToSet(s) \subseteq S /\ IsFiniteSet(ToSet(s))
<1>1. PICK n : n \in Nat /\ n = Len(s) /\ DOMAIN s = 1..n
  BY LenProperties
<1>2. \A k \in DOMAIN s : s[k] \in S
  BY <1>1, ElementOfSeq
<1>3. IsFiniteSet(DOMAIN s)
  <2>1. 1 \in Int /\ n \in Int
    BY <1>1
  <2>2. QED
    BY <1>1, <2>1, FS_Interval
<1>4. s \in Surjection(DOMAIN s, ToSet(s))
  BY <1>1, <1>2 DEF Surjection, ToSet
<1>5. IsFiniteSet(ToSet(s))
  BY <1>3, <1>4, FS_Surjection
<1>6. QED
  BY <1>1, <1>2, <1>5 DEF ToSet

(* Something not yet in a sequence is added to it. *)
LEMMA AddedOnce ==
    ASSUME NEW S, NEW s \in Seq(S), NEW x \in S
    PROVE  LET longer == Append(s, x)
           IN  /\ longer \in Seq(S) /\ Len(longer) = Len(s) + 1
               /\ ToSet(longer) = ToSet(s) \cup {x}
               /\ x \notin ToSet(s) /\ Len(s) = Cardinality(ToSet(s))
                    => Len(longer) = Cardinality(ToSet(longer))
<1> DEFINE longer == Append(s, x)
<1>1. PICK n : n \in Nat /\ n = Len(s) /\ DOMAIN s = 1..n
  BY SeqFacts
<1>2. /\ longer \in Seq(S) /\ Len(longer) = n + 1 /\ longer[n + 1] = x
      /\ \A k \in 1..n : longer[k] = s[k]
  BY <1>1, AppendProperties
<1>3. DOMAIN longer = 1..(n + 1)
  BY <1>2, SeqFacts
<1> HIDE DEF longer
<1>4. 1..(n + 1) = (1..n) \cup {n + 1}
  BY <1>1
<1>5. ToSet(longer) = ToSet(s) \cup {x}
  BY <1>1, <1>2, <1>3, <1>4 DEF ToSet
<1>6. ASSUME x \notin ToSet(s), Len(s) = Cardinality(ToSet(s))
      PROVE  Len(longer) = Cardinality(ToSet(longer))
  <2>1. Cardinality(ToSet(s) \cup {x}) = Cardinality(ToSet(s)) + 1
    BY <1>6, SeqFacts, FS_AddElement
  <2>2. QED
    BY <1>1, <1>2, <1>5, <1>6, <2>1
<1>7. QED
  BY <1>1, <1>2, <1>5, <1>6 DEF longer

(* A part of a sequence without repetitions. *)
LEMMA DistinctPart ==
    ASSUME NEW S, NEW s \in Seq(S), Distinct(s), NEW m \in 1..(Len(s) + 1), NEW n \in 0..Len(s), m <= n + 1,
           NEW part \in Seq(S), Len(part) = n - m + 1, \A i \in 1..(n - m + 1) : part[i] = s[m + i - 1]
    PROVE  /\ Distinct(part)
           /\ \A k \in m..n : s[k] \in ToSet(part)
           /\ \A x \in ToSet(part) : \E k \in m..n : x = s[k]
<1>1. PICK l : l \in Nat /\ l = Len(s) /\ DOMAIN s = 1..l /\ \A k \in 1..l : s[k] \in S
  BY SeqFacts
<1>2. m \in Int /\ n \in Int /\ \A k \in m..n : k \in 1..l /\ s[k] \in S
  BY <1>1
<1>3. \A i \in 1..(n - m + 1) : part[i] = s[m + i - 1]
  OBVIOUS
<1>4. PICK p : p \in Nat /\ p = n - m + 1 /\ p = Len(part)
  BY SeqFacts
<1>5. DOMAIN part = 1..p
  BY <1>4, SeqFacts
<1>6. \A i \in 1..p : part[i] = s[m + i - 1] /\ m + i - 1 \in m..n
  BY <1>1, <1>3, <1>4
<1>7. Distinct(part)
  <2> SUFFICES ASSUME NEW i \in 1..p, NEW j \in 1..p, part[i] = part[j]
               PROVE  i = j
    BY <1>5 DEF Distinct
  <2>1. s[m + i - 1] = s[m + j - 1] /\ m + i - 1 \in DOMAIN s /\ m + j - 1 \in DOMAIN s
    BY <1>1, <1>2, <1>6
  <2>2. m + i - 1 = m + j - 1
    BY <2>1 DEF Distinct
  <2>3. QED
    BY <1>2, <2>2
<1>8. ASSUME NEW k \in m..n PROVE s[k] \in ToSet(part)
  <2>1. k - m + 1 \in 1..p /\ m + (k - m + 1) - 1 = k
    BY <1>2, <1>4
  <2>2. part[k - m + 1] = s[k]
    BY <1>6, <2>1
  <2>3. QED
    BY <1>5, <2>1, <2>2 DEF ToSet
<1>9. ASSUME NEW x \in ToSet(part) PROVE \E k \in m..n : x = s[k]
  <2>1. PICK i \in 1..p : x = part[i]
    BY <1>5 DEF ToSet
  <2>2. QED
    BY <1>6, <2>1
<1>10. QED
  BY <1>7, <1>8, <1>9

(* The chairs of a message: at least one, none twice. *)
LEMMA ActiveChairs ==
    ASSUME ChatAssumption, DomainAssumption, NEW mode, NEW force,
           NEW spec, spec.domain \in MaybeDomain, NEW session, session.domain \in MaybeDomain
    PROVE  LET chairs == activeChairs(mode, force, spec, session)
           IN  chairs \in Seq(BoardDomains) /\ Len(chairs) \in Nat \ {0} /\ Distinct(chairs)
<1> DEFINE one(d) == <<d>>
<1>1. ASSUME NEW d \in BoardDomains
      PROVE  one(d) \in Seq(BoardDomains) /\ Len(one(d)) = 1 /\ Distinct(one(d)) /\ one(d) # <<>>
  BY DEF Distinct
<1>2. Else(spec.domain, Else(session.domain, "ops")) \in BoardDomains
  BY DEF Else, MaybeDomain, DomainAssumption
<1>3. BlueprintChairs \in Seq(BoardDomains) /\ Distinct(BlueprintChairs)
  BY DEF ChatAssumption, Distinct
<1>4. \A d \in Range(BlueprintChairs) : d \in BoardDomains
  BY <1>3, SeqFacts DEF Range
<1>5. ASSUME BlueprintChairs # <<>> PROVE Len(BlueprintChairs) \in Nat \ {0}
  BY <1>3, <1>5, SeqFacts
<1>6. QED
  BY <1>1, <1>2, <1>3, <1>4, <1>5 DEF activeChairs

(* What a message begins: the first chairs are asked and the others wait. *)
JobOf(t, chairs) == [thread |-> t, status |-> "running", chairs |-> Range(chairs), partial |-> <<>>]

ExecutionOf(mode, chairs, first) ==
    [mode |-> mode, todo |-> SubSeq(chairs, first + 1, Len(chairs)),
     asked |-> ToSet(SubSeq(chairs, 1, first)), results |-> {}]

LEMMA DeliberationBegins ==
    ASSUME NEW chairs \in Seq(BoardDomains), Len(chairs) \in Nat \ {0}, Distinct(chairs),
           NEW first \in 1..Len(chairs), NEW mode \in {"chair", "board"}, NEW t \in Threads
    PROVE  LET job == JobOf(t, chairs)
               run == ExecutionOf(mode, chairs, first)
           IN  job \in ChatJobRecords /\ run \in ExecutionRecords /\ run # Gone /\ Deliberating(job, run)
<1>1. PICK n : n \in Nat \ {0} /\ n = Len(chairs) /\ DOMAIN chairs = 1..n /\ first \in 1..n
  BY SeqFacts
<1>2. PICK todo, some : todo = SubSeq(chairs, first + 1, n) /\ some = SubSeq(chairs, 1, first)
  OBVIOUS
<1>3. /\ todo \in Seq(BoardDomains) /\ Len(todo) = n - first /\ Distinct(todo)
      /\ \A k \in (first + 1)..n : chairs[k] \in ToSet(todo)
      /\ \A x \in ToSet(todo) : \E k \in (first + 1)..n : x = chairs[k]
  <2>1. PICK m : m = first + 1
    OBVIOUS
  <2>2. m \in 1..(Len(chairs) + 1) /\ n \in 0..Len(chairs) /\ m <= n + 1 /\ n - m + 1 = n - first
    BY <1>1, <2>1
  <2>3. todo = SubSeq(chairs, m, n)
    BY <1>2, <2>1
  <2>4. /\ todo \in Seq(BoardDomains) /\ Len(todo) = n - m + 1 /\ Distinct(todo)
        /\ \A k \in m..n : chairs[k] \in ToSet(todo)
        /\ \A x \in ToSet(todo) : \E k \in m..n : x = chairs[k]
    <3>1. m \in Int /\ n \in Int /\ \A k \in m..n : chairs[k] \in BoardDomains
      BY <1>1, <2>1, SeqFacts
    <3>2. /\ todo \in Seq(BoardDomains) /\ Len(todo) = n - m + 1
          /\ \A k \in 1..(n - m + 1) : todo[k] = chairs[m + k - 1]
      BY <2>2, <2>3, <3>1, SubSeqProperties
    <3>3. QED
      BY <2>2, <3>2, DistinctPart
  <2>5. QED
    BY <2>1, <2>2, <2>4
<1>4. /\ some \in Seq(BoardDomains)
      /\ \A k \in 1..first : chairs[k] \in ToSet(some)
      /\ \A x \in ToSet(some) : \E k \in 1..first : x = chairs[k]
  <2>1. 1 \in 1..(Len(chairs) + 1) /\ first \in 0..Len(chairs) /\ 1 <= first + 1
    BY <1>1
  <2>2. some = SubSeq(chairs, 1, first)
    BY <1>2
  <2>3. QED
    <3>1. 1 \in Int /\ first \in Int /\ \A k \in 1..first : chairs[k] \in BoardDomains
      BY <1>1, SeqFacts
    <3>2. /\ some \in Seq(BoardDomains) /\ Len(some) = first - 1 + 1
          /\ \A k \in 1..(first - 1 + 1) : some[k] = chairs[1 + k - 1]
      BY <2>1, <2>2, <3>1, SubSeqProperties
    <3>3. QED
      BY <2>1, <3>2, DistinctPart
<1>5. Range(chairs) = {chairs[k] : k \in 1..n} /\ Range(chairs) \subseteq BoardDomains /\ IsFiniteSet(Range(chairs))
  <2>1. Range(chairs) = ToSet(chairs)
    BY DEF Range, ToSet
  <2>2. QED
    BY <1>1, <2>1, SeqFacts DEF ToSet
<1>6. 1..n = (1..first) \cup ((first + 1)..n) /\ (1..first) \cap ((first + 1)..n) = {} /\ 1 \in 1..first
  BY <1>1
<1>7. Range(chairs) = ToSet(some) \cup ToSet(todo) /\ ToSet(some) # {}
  <2>1. \A k \in 1..n : chairs[k] \in ToSet(some) \cup ToSet(todo)
    BY <1>3, <1>4, <1>6
  <2>2. \A x \in ToSet(some) \cup ToSet(todo) : \E k \in 1..n : x = chairs[k]
    BY <1>3, <1>4, <1>6
  <2>3. ToSet(some) # {}
    BY <1>4, <1>6
  <2>4. QED
    BY <1>5, <2>1, <2>2, <2>3
<1>8. ToSet(todo) \cap ToSet(some) = {}
  <2>1. \A k \in 1..first, l \in (first + 1)..n : k # l /\ k \in 1..n /\ l \in 1..n
    BY <1>1
  <2>2. \A k \in 1..first, l \in (first + 1)..n : chairs[k] # chairs[l]
    BY <1>1, <2>1 DEF Distinct
  <2>3. QED
    BY <1>3, <1>4, <2>2
<1>9. ToSet(<<>>) = {} /\ Len(<<>>) = 0 /\ Cardinality({}) = 0 /\ <<>> \in Seq(BoardDomains)
  BY FS_EmptySet DEF ToSet
<1>10. ToSet(some) \subseteq BoardDomains
  BY <1>4, SeqFacts
<1> SUFFICES ASSUME NEW job, NEW run,
                    job = [thread |-> t, status |-> "running", chairs |-> Range(chairs), partial |-> <<>>],
                    run = [mode |-> mode, todo |-> todo, asked |-> ToSet(some), results |-> {}]
             PROVE  job \in ChatJobRecords /\ run \in ExecutionRecords /\ run # Gone /\ Deliberating(job, run)
  BY <1>1, <1>2 DEF JobOf, ExecutionOf
<1>11. job \in ChatJobRecords
  BY <1>5, <1>9 DEF ChatJobRecords, ChatStatuses
<1>12. run \in ExecutionRecords
  BY <1>3, <1>10 DEF ExecutionRecords
<1>13. run # Gone
  BY DEF Gone
<1>14. /\ job.status = "running" /\ job.chairs = Range(chairs) /\ job.partial = <<>>
       /\ run.asked = ToSet(some) /\ run.results = {} /\ run.todo = todo
  OBVIOUS
<1>15. Deliberating(job, run)
  BY <1>3, <1>5, <1>7, <1>8, <1>9, <1>14 DEF Deliberating
<1>16. QED
  BY <1>11, <1>12, <1>13, <1>15

(* An answer of a chair, and the chair that is asked next. *)
WithAnswer(job, chair) == [job EXCEPT !.partial = Append(job.partial, chair)]

After(run, chair) ==
    LET next == IF run.todo = <<>> THEN {} ELSE {Head(run.todo)}
    IN  [run EXCEPT !.asked = (run.asked \ {chair}) \cup next,
                    !.todo = IF run.todo = <<>> THEN run.todo ELSE Tail(run.todo),
                    !.results = run.results \cup {chair}]

LEMMA AnswerComes ==
    ASSUME NEW job \in ChatJobRecords, NEW run \in ExecutionRecords, Deliberating(job, run),
           NEW chair \in run.asked
    PROVE  LET after == After(run, chair)
               answered == WithAnswer(job, chair)
           IN  /\ answered \in ChatJobRecords /\ after \in ExecutionRecords /\ after # Gone
               /\ Deliberating(answered, after)
<1>1. PICK todo, asked, results, partial, chairs :
        todo = run.todo /\ asked = run.asked /\ results = run.results
        /\ partial = job.partial /\ chairs = job.chairs
  OBVIOUS
<1>2. /\ todo \in Seq(BoardDomains) /\ asked \subseteq BoardDomains /\ results \subseteq BoardDomains
      /\ partial \in Seq(BoardDomains) /\ chairs \subseteq BoardDomains /\ chair \in asked
  BY <1>1 DEF ChatJobRecords, ExecutionRecords
<1>3. /\ IsFiniteSet(chairs) /\ chairs = asked \cup results \cup ToSet(todo)
      /\ asked \cap results = {} /\ ToSet(todo) \cap (asked \cup results) = {}
      /\ Distinct(todo) /\ (todo # <<>> => asked # {})
      /\ ToSet(partial) = results /\ Len(partial) = Cardinality(results)
  BY <1>1 DEF Deliberating
<1>4. PICK longer : longer = Append(partial, chair)
  OBVIOUS
<1>5. /\ longer \in Seq(BoardDomains) /\ ToSet(longer) = results \cup {chair}
      /\ Len(longer) = Cardinality(results \cup {chair})
  <2>1. partial \in Seq(BoardDomains) /\ chair \in BoardDomains
    BY <1>2
  <2>2. chair \notin ToSet(partial) /\ Len(partial) = Cardinality(ToSet(partial))
    BY <1>2, <1>3
  <2>3. /\ longer \in Seq(BoardDomains) /\ ToSet(longer) = ToSet(partial) \cup {chair}
        /\ chair \notin ToSet(partial) /\ Len(partial) = Cardinality(ToSet(partial))
             => Len(longer) = Cardinality(ToSet(longer))
    BY <1>4, <2>1, AddedOnce
  <2>4. ToSet(longer) = results \cup {chair}
    BY <1>3, <2>3
  <2>5. Len(longer) = Cardinality(results \cup {chair})
    BY <2>2, <2>3, <2>4
  <2>6. QED
    BY <2>3, <2>4, <2>5
<1>6. PICK next, rest : /\ next = (IF todo = <<>> THEN {} ELSE {Head(todo)})
                        /\ rest = (IF todo = <<>> THEN todo ELSE Tail(todo))
  OBVIOUS
<1>7. /\ rest \in Seq(BoardDomains) /\ Distinct(rest)
      /\ ToSet(todo) = next \cup ToSet(rest) /\ next \cap ToSet(rest) = {}
      /\ rest # <<>> => next # {}
  <2>1. CASE todo = <<>>
    BY <1>2, <1>3, <1>6, <2>1 DEF ToSet
  <2>2. CASE todo # <<>>
    <3>1. PICK n : n \in Nat \ {0} /\ n = Len(todo) /\ DOMAIN todo = 1..n
      BY <1>2, <2>2, SeqFacts
    <3>2. rest = SubSeq(todo, 2, n) /\ next = {todo[1]}
      BY <1>2, <1>6, <2>2, <3>1, TailIsSubSeq
    <3>3. 2 \in 1..(Len(todo) + 1) /\ n \in 0..Len(todo) /\ 2 <= n + 1
      BY <3>1, <3>2
    <3>4. /\ rest \in Seq(BoardDomains) /\ Distinct(rest)
          /\ \A k \in 2..n : todo[k] \in ToSet(rest)
          /\ \A x \in ToSet(rest) : \E k \in 2..n : x = todo[k]
      <4>1. PICK m : m = 2
        OBVIOUS
      <4>2. /\ m \in 1..(Len(todo) + 1) /\ n \in 0..Len(todo) /\ m <= n + 1 /\ m \in Int /\ n \in Int
            /\ \A k \in m..n : todo[k] \in BoardDomains
        BY <1>2, <3>1, <3>3, <4>1, SeqFacts
      <4>3. /\ rest \in Seq(BoardDomains) /\ Len(rest) = n - m + 1
            /\ \A k \in 1..(n - m + 1) : rest[k] = todo[m + k - 1]
        BY <3>1, <3>2, <4>1, <4>2, SubSeqProperties
      <4>4. /\ Distinct(rest)
            /\ \A k \in m..n : todo[k] \in ToSet(rest)
            /\ \A x \in ToSet(rest) : \E k \in m..n : x = todo[k]
        <5>1. /\ todo \in Seq(BoardDomains) /\ Distinct(todo)
              /\ m \in 1..(Len(todo) + 1) /\ n \in 0..Len(todo) /\ m <= n + 1
          BY <1>2, <1>3, <4>2
        <5>2. Distinct(rest)
          BY <5>1, <4>3, DistinctPart
        <5>3. \A k \in m..n : todo[k] \in ToSet(rest)
          BY <5>1, <4>3, DistinctPart
        <5>4. \A x \in ToSet(rest) : \E k \in m..n : x = todo[k]
          BY <5>1, <4>3, DistinctPart
        <5>5. QED
          BY <5>2, <5>3, <5>4
      <4>5. QED
        BY <4>1, <4>3, <4>4
    <3>5. 1..n = {1} \cup (2..n) /\ 1 \notin 2..n
      BY <3>1
    <3>6. ToSet(todo) = next \cup ToSet(rest)
      <4>1. ToSet(todo) = {todo[k] : k \in 1..n}
        BY <3>1 DEF ToSet
      <4>2. \A x \in next \cup ToSet(rest) : \E k \in 1..n : x = todo[k]
        BY <3>2, <3>4, <3>5
      <4>3. \A k \in 1..n : todo[k] \in next \cup ToSet(rest)
        BY <3>2, <3>4, <3>5
      <4>4. QED
        BY <4>1, <4>2, <4>3
    <3>7. \A k \in 2..n : todo[k] # todo[1]
      <4>1. \A k \in 2..n : k # 1 /\ k \in 1..n /\ 1 \in 1..n
        BY <3>1
      <4>2. \A k, l \in 1..n : todo[k] = todo[l] => k = l
        BY <1>3, <3>1 DEF Distinct
      <4>3. QED
        BY <4>1, <4>2
    <3>8. QED
      BY <3>2, <3>4, <3>6, <3>7
  <2>3. QED
    BY <2>1, <2>2
<1>8. ToSet(todo) \subseteq BoardDomains
  BY <1>2, SeqFacts
<1> SUFFICES ASSUME NEW after, NEW answered,
                    after = [run EXCEPT !.asked = (asked \ {chair}) \cup next, !.todo = rest,
                                        !.results = results \cup {chair}],
                    answered = [job EXCEPT !.partial = longer]
             PROVE  /\ answered \in ChatJobRecords /\ after \in ExecutionRecords /\ after # Gone
                    /\ Deliberating(answered, after)
  BY <1>1, <1>4, <1>6 DEF WithAnswer, After
<1>9. /\ answered \in ChatJobRecords /\ after \in ExecutionRecords
      /\ answered.status = job.status /\ answered.chairs = chairs /\ answered.partial = longer
      /\ after.asked = (asked \ {chair}) \cup next /\ after.todo = rest /\ after.results = results \cup {chair}
  BY <1>1, <1>2, <1>5, <1>7, <1>8 DEF ChatJobRecords, ExecutionRecords
<1>10. after # Gone
  BY <1>9 DEF Gone
<1>11. Deliberating(answered, after)
  <2>1. chairs = ((asked \ {chair}) \cup next) \cup (results \cup {chair}) \cup ToSet(rest)
    BY <1>2, <1>3, <1>7
  <2>2. ((asked \ {chair}) \cup next) \cap (results \cup {chair}) = {}
    BY <1>2, <1>3, <1>7
  <2>3. ToSet(rest) \cap (((asked \ {chair}) \cup next) \cup (results \cup {chair})) = {}
    BY <1>2, <1>3, <1>7
  <2>4. rest # <<>> => (asked \ {chair}) \cup next # {}
    BY <1>7
  <2>5. job.status = "running"
    BY DEF Deliberating
  <2>6. QED
    BY <1>3, <1>5, <1>7, <1>9, <2>1, <2>2, <2>3, <2>4, <2>5 DEF Deliberating
<1>12. QED
  BY <1>9, <1>10, <1>11

-----------------------------------------------------------------------------
LEMMA ChatInvInit == ChatInit => ChatInv
<1> SUFFICES ASSUME ChatInit
             PROVE  ChatInv
  OBVIOUS
<1>1. /\ chatJobs = <<>> /\ executions = <<>> /\ chatLog = <<>> /\ chatCrashes = 0
      /\ chatSessions \in [Threads -> SessionState]
  BY DEF ChatInit, emptySession, NoSpec, SessionState, MaybeDomain
<1>2. ToSet(<<>>) = {} /\ Cardinality({}) = 0 /\ DOMAIN <<>> = {} /\ Len(<<>>) = 0
  BY FS_EmptySet DEF ToSet
<1>3. /\ <<>> \in Seq(ChatJobRecords) /\ <<>> \in Seq(ExecutionRecords) /\ <<>> \in Seq(Nat)
  OBVIOUS
<1>4. QED
  BY <1>1, <1>2, <1>3 DEF ChatInv

(* After a crash no execution is left. *)
LEMMA NoneIsLeft ==
    ASSUME NEW n \in Nat, NEW gone, gone = [k \in 1..n |-> Gone]
    PROVE  gone \in Seq(ExecutionRecords) /\ Len(gone) = n /\ \A k \in 1..n : gone[k] = Gone
<1>1. Gone \in ExecutionRecords
  BY DEF Gone, ExecutionRecords
<1>2. QED
  BY <1>1

LEMMA OneMore ==
    ASSUME NEW S, NEW s \in Seq(S), NEW x \in S, NEW n, n = Len(s), NEW longer, longer = Append(s, x)
    PROVE  /\ longer \in Seq(S) /\ Len(longer) = n + 1 /\ longer[n + 1] = x
           /\ \A k \in 1..n : longer[k] = s[k]
BY AppendProperties

(* The end of an execution all of whose chairs have answered. *)
LEMMA CompleteKeeps ==
    ASSUME ChatInv, NEW i \in DOMAIN chatJobs, executions[i] # Gone,
           NEW job \in ChatJobRecords, job.status = "running", Deliberated(job),
           NEW jobs, jobs = [chatJobs EXCEPT ![i] = job],
           NEW done \in 1..2, Complete(jobs, i, done), UNCHANGED chatSessions
    PROVE  ChatInv'
<1>1. PICK old, runs, log, crashes, n :
        old = chatJobs /\ runs = executions /\ log = chatLog /\ crashes = chatCrashes /\ n = Len(chatJobs)
  OBVIOUS
<1>2. /\ old \in Seq(ChatJobRecords) /\ runs \in Seq(ExecutionRecords) /\ n \in Nat
      /\ Len(old) = n /\ Len(runs) = n /\ DOMAIN old = 1..n /\ DOMAIN runs = 1..n /\ i \in 1..n
      /\ log \in Seq(Nat) /\ ToSet(log) \subseteq 1..n /\ Len(log) = Cardinality(ToSet(log))
      /\ crashes \in Nat /\ \A k \in 1..n : JobHolds(old[k], runs[k], k \in ToSet(log), crashes)
  BY <1>1, SeqFacts DEF ChatInv
<1>3. i \notin ToSet(log) /\ runs[i] # Gone
  BY <1>1, <1>2 DEF JobHolds
<1>4. PICK longer : longer = Append(log, i)
  OBVIOUS
<1>5. /\ longer \in Seq(Nat) /\ ToSet(longer) = ToSet(log) \cup {i}
      /\ Len(longer) = Cardinality(ToSet(longer)) /\ ToSet(longer) \subseteq 1..n
  BY <1>2, <1>3, <1>4, AddedOnce
<1>6. chatLog' = longer /\ chatSessions' \in [Threads -> SessionState]
  BY <1>1, <1>4 DEF Complete, ChatInv
<1>7. /\ jobs \in Seq(ChatJobRecords) /\ Len(jobs) = n /\ DOMAIN jobs = 1..n /\ jobs[i] = job
      /\ \A k \in 1..n : k # i => jobs[k] = old[k]
  BY <1>1, <1>2, ExceptSeq
<1>8. CASE done = 2
  <2>1. PICK over : over = [job EXCEPT !.status = "done"]
    OBVIOUS
  <2>2. over \in ChatJobRecords /\ over.status = "done" /\ Deliberated(over)
    BY <2>1 DEF ChatJobRecords, ChatStatuses, Deliberated
  <2>3. PICK jobs2, runs2 : jobs2 = [jobs EXCEPT ![i] = over] /\ runs2 = [runs EXCEPT ![i] = Gone]
    OBVIOUS
  <2>4. chatJobs' = jobs2 /\ executions' = runs2 /\ chatCrashes' = crashes
    BY <1>1, <1>2, <1>7, <1>8, <2>1, <2>3 DEF Complete, SetStatus
  <2>5. Gone \in ExecutionRecords
    BY DEF Gone, ExecutionRecords
  <2>6. /\ jobs2 \in Seq(ChatJobRecords) /\ Len(jobs2) = n /\ DOMAIN jobs2 = 1..n /\ jobs2[i] = over
        /\ \A k \in 1..n : k # i => jobs2[k] = old[k]
    BY <1>2, <1>7, <2>2, <2>3, ExceptSeq
  <2>7. /\ runs2 \in Seq(ExecutionRecords) /\ Len(runs2) = n /\ runs2[i] = Gone
        /\ \A k \in 1..n : k # i => runs2[k] = runs[k]
    BY <1>2, <2>3, <2>5, ExceptSeq
  <2>8. ASSUME NEW k \in 1..n PROVE JobHolds(jobs2[k], runs2[k], k \in ToSet(longer), crashes)
    <3>1. CASE k = i
      BY <1>5, <2>2, <2>6, <2>7, <3>1 DEF JobHolds
    <3>2. CASE k # i
      <4>1. jobs2[k] = old[k] /\ runs2[k] = runs[k] /\ (k \in ToSet(longer) <=> k \in ToSet(log))
        BY <1>5, <2>6, <2>7, <3>2
      <4>2. JobHolds(old[k], runs[k], k \in ToSet(log), crashes)
        BY <1>2
      <4>3. QED
        BY <4>1, <4>2 DEF JobHolds
    <3>3. QED
      BY <3>1, <3>2
  <2>9. QED
    BY <1>2, <1>5, <1>6, <2>4, <2>6, <2>7, <2>8 DEF ChatInv
<1>9. CASE done # 2
  <2>1. PICK gone : gone = [k \in 1..n |-> Gone]
    OBVIOUS
  <2>2. executions' = gone /\ chatCrashes' = crashes + 1
    BY <1>1, <1>2, <1>9, <2>1 DEF Complete
  <2>3. gone \in Seq(ExecutionRecords) /\ Len(gone) = n /\ \A k \in 1..n : gone[k] = Gone
    BY <1>2, <2>1, NoneIsLeft
  <2>4. PICK left, jobs2 :
          /\ left \in ChatJobRecords /\ Deliberated(left) /\ left.status # "done"
          /\ jobs2 = chatJobs' /\ jobs2 \in Seq(ChatJobRecords) /\ Len(jobs2) = n /\ DOMAIN jobs2 = 1..n
          /\ jobs2[i] = left /\ \A k \in 1..n : k # i => jobs2[k] = old[k]
    <3>1. CASE chatJobs' = jobs
      BY <1>7, <3>1
    <3>2. CASE chatJobs' = SetStatus(jobs, i, "torn")
      <4>1. PICK torn : torn = [job EXCEPT !.status = "torn"]
        OBVIOUS
      <4>2. torn \in ChatJobRecords /\ torn.status = "torn" /\ Deliberated(torn)
        BY <4>1 DEF ChatJobRecords, ChatStatuses, Deliberated
      <4>3. PICK jobs2 : jobs2 = [jobs EXCEPT ![i] = torn] /\ jobs2 = chatJobs'
        BY <1>2, <1>7, <3>2, <4>1 DEF SetStatus
      <4>4. /\ jobs2 \in Seq(ChatJobRecords) /\ Len(jobs2) = n /\ DOMAIN jobs2 = 1..n /\ jobs2[i] = torn
            /\ \A k \in 1..n : k # i => jobs2[k] = old[k]
        BY <1>2, <1>7, <4>2, <4>3, ExceptSeq
      <4>5. QED
        BY <4>2, <4>3, <4>4
    <3>3. QED
      BY <1>9, <3>1, <3>2 DEF Complete
  <2>5. ASSUME NEW k \in 1..n PROVE JobHolds(jobs2[k], gone[k], k \in ToSet(longer), crashes + 1)
    <3>1. CASE k = i
      BY <1>2, <1>5, <2>3, <2>4, <3>1 DEF JobHolds
    <3>2. CASE k # i
      <4>1. jobs2[k] = old[k] /\ gone[k] = Gone /\ (k \in ToSet(longer) <=> k \in ToSet(log))
        BY <1>5, <2>3, <2>4, <3>2
      <4>2. JobHolds(old[k], runs[k], k \in ToSet(log), crashes)
        BY <1>2
      <4>3. QED
        BY <1>2, <4>1, <4>2 DEF JobHolds
    <3>3. QED
      BY <3>1, <3>2
  <2>6. crashes + 1 \in Nat
    BY <1>2
  <2>7. QED
    BY <1>5, <1>6, <2>2, <2>3, <2>5, <2>6, <2>4 DEF ChatInv
<1>10. QED
  BY <1>8, <1>9

(* One job and its execution go on. *)
LEMMA OneKeeps ==
    ASSUME ChatInv, NEW i \in DOMAIN chatJobs, NEW job \in ChatJobRecords, NEW run \in ExecutionRecords,
           JobHolds(job, run, i \in ToSet(chatLog), chatCrashes),
           chatJobs' = [chatJobs EXCEPT ![i] = job], executions' = [executions EXCEPT ![i] = run],
           UNCHANGED <<chatSessions, chatLog, chatCrashes>>
    PROVE  ChatInv'
<1>1. PICK old, runs, log, crashes, n :
        old = chatJobs /\ runs = executions /\ log = chatLog /\ crashes = chatCrashes /\ n = Len(chatJobs)
  OBVIOUS
<1>2. /\ old \in Seq(ChatJobRecords) /\ runs \in Seq(ExecutionRecords) /\ n \in Nat
      /\ Len(old) = n /\ Len(runs) = n /\ DOMAIN old = 1..n /\ DOMAIN runs = 1..n /\ i \in 1..n
      /\ \A k \in 1..n : JobHolds(old[k], runs[k], k \in ToSet(log), crashes)
  BY <1>1, SeqFacts DEF ChatInv
<1>3. PICK jobs2, runs2 : jobs2 = [old EXCEPT ![i] = job] /\ runs2 = [runs EXCEPT ![i] = run]
  OBVIOUS
<1>4. /\ jobs2 \in Seq(ChatJobRecords) /\ Len(jobs2) = n /\ DOMAIN jobs2 = 1..n /\ jobs2[i] = job
      /\ \A k \in 1..n : k # i => jobs2[k] = old[k]
  BY <1>2, <1>3, ExceptSeq
<1>5. /\ runs2 \in Seq(ExecutionRecords) /\ Len(runs2) = n /\ runs2[i] = run
      /\ \A k \in 1..n : k # i => runs2[k] = runs[k]
  BY <1>2, <1>3, ExceptSeq
<1>6. ASSUME NEW k \in 1..n PROVE JobHolds(jobs2[k], runs2[k], k \in ToSet(log), crashes)
  <2>1. CASE k = i
    BY <1>1, <1>4, <1>5, <2>1
  <2>2. CASE k # i
    <3>1. jobs2[k] = old[k] /\ runs2[k] = runs[k] /\ JobHolds(old[k], runs[k], k \in ToSet(log), crashes)
      BY <1>2, <1>4, <1>5, <2>2
    <3>2. QED
      BY <3>1
  <2>3. QED
    BY <2>1, <2>2
<1>7. chatJobs' = jobs2 /\ executions' = runs2 /\ chatLog' = log /\ chatCrashes' = crashes
  BY <1>1, <1>3
<1>8. /\ chatSessions' \in [Threads -> SessionState]
      /\ log \in Seq(Nat) /\ ToSet(log) \subseteq 1..n /\ Len(log) = Cardinality(ToSet(log)) /\ crashes \in Nat
  BY <1>1, <1>2 DEF ChatInv
<1>9. QED
  BY <1>4, <1>5, <1>6, <1>7, <1>8 DEF ChatInv

(* A job is added; with a crash, every execution is gone. *)
LEMMA PostKeeps ==
    ASSUME ChatInv, NEW job \in ChatJobRecords, NEW run \in ExecutionRecords,
           NEW died \in BOOLEAN, died => run = Gone,
           JobHolds(job, run, FALSE, IF died THEN chatCrashes + 1 ELSE chatCrashes),
           chatJobs' = Append(chatJobs, job),
           executions' = IF died THEN [k \in 1..(Len(chatJobs) + 1) |-> Gone] ELSE Append(executions, run),
           chatCrashes' = IF died THEN chatCrashes + 1 ELSE chatCrashes,
           chatSessions' \in [Threads -> SessionState], UNCHANGED chatLog
    PROVE  ChatInv'
<1>1. PICK old, runs, log, crashes, n :
        old = chatJobs /\ runs = executions /\ log = chatLog /\ crashes = chatCrashes /\ n = Len(chatJobs)
  OBVIOUS
<1>2. /\ old \in Seq(ChatJobRecords) /\ runs \in Seq(ExecutionRecords) /\ n \in Nat
      /\ Len(old) = n /\ Len(runs) = n /\ DOMAIN old = 1..n /\ DOMAIN runs = 1..n
      /\ log \in Seq(Nat) /\ ToSet(log) \subseteq 1..n /\ Len(log) = Cardinality(ToSet(log))
      /\ crashes \in Nat /\ \A k \in 1..n : JobHolds(old[k], runs[k], k \in ToSet(log), crashes)
  BY <1>1, SeqFacts DEF ChatInv
<1>3. Gone \in ExecutionRecords
  BY DEF Gone, ExecutionRecords
<1>4. PICK jobs2, runs2, crashes2 :
        /\ jobs2 = Append(old, job)
        /\ runs2 = (IF died THEN [k \in 1..(n + 1) |-> Gone] ELSE Append(runs, run))
        /\ crashes2 = (IF died THEN crashes + 1 ELSE crashes)
  OBVIOUS
<1>5. /\ jobs2 \in Seq(ChatJobRecords) /\ Len(jobs2) = n + 1 /\ jobs2[n + 1] = job
      /\ \A k \in 1..n : jobs2[k] = old[k]
  <2>1. old \in Seq(ChatJobRecords) /\ n = Len(old) /\ jobs2 = Append(old, job)
    BY <1>2, <1>4
  <2>2. QED
    BY <2>1, OneMore
<1>6. /\ runs2 \in Seq(ExecutionRecords) /\ Len(runs2) = n + 1 /\ runs2[n + 1] = run
      /\ \A k \in 1..n : runs2[k] = IF died THEN Gone ELSE runs[k]
  <2>1. CASE died
    <3>1. PICK gone : gone = [k \in 1..(n + 1) |-> Gone]
      OBVIOUS
    <3>2. gone \in Seq(ExecutionRecords) /\ Len(gone) = n + 1 /\ \A k \in 1..(n + 1) : gone[k] = Gone
      <4>1. n + 1 \in Nat
        BY <1>2
      <4>2. QED
        BY <3>1, <4>1, NoneIsLeft
    <3>3. n + 1 \in 1..(n + 1) /\ \A k \in 1..n : k \in 1..(n + 1)
      BY <1>2
    <3>4. QED
      BY <1>4, <2>1, <3>1, <3>2, <3>3
  <2>2. CASE ~died
    <3>1. runs2 = Append(runs, run)
      BY <1>4, <2>2
    <3>2. /\ runs2 \in Seq(ExecutionRecords) /\ Len(runs2) = n + 1 /\ runs2[n + 1] = run
          /\ \A k \in 1..n : runs2[k] = runs[k]
      <4>1. runs \in Seq(ExecutionRecords) /\ n = Len(runs)
        BY <1>2
      <4>2. QED
        BY <3>1, <4>1, OneMore
    <3>3. QED
      BY <2>2, <3>2
  <2>3. QED
    BY <2>1, <2>2
<1>7. crashes2 \in Nat /\ chatCrashes' = crashes2 /\ chatJobs' = jobs2 /\ executions' = runs2 /\ chatLog' = log
  BY <1>1, <1>2, <1>4
<1>8. DOMAIN jobs2 = 1..(n + 1) /\ 1..(n + 1) = (1..n) \cup {n + 1} /\ n + 1 \notin 1..n
  BY <1>2, <1>5, SeqFacts
<1>9. ASSUME NEW k \in 1..(n + 1) PROVE JobHolds(jobs2[k], runs2[k], k \in ToSet(log), crashes2)
  <2>1. CASE k = n + 1
    <3>1. (k \in ToSet(log)) = FALSE
      BY <1>2, <1>8, <2>1
    <3>2. JobHolds(job, run, FALSE, crashes2)
      BY <1>1, <1>4
    <3>3. jobs2[k] = job /\ runs2[k] = run
      BY <1>5, <1>6, <2>1
    <3>4. QED
      BY <3>1, <3>2, <3>3 DEF JobHolds
  <2>2. CASE k # n + 1
    <3>1. k \in 1..n
      BY <1>8, <2>2
    <3>2. JobHolds(old[k], runs[k], k \in ToSet(log), crashes)
      BY <1>2, <3>1
    <3>3. jobs2[k] = old[k] /\ runs2[k] = IF died THEN Gone ELSE runs[k]
      BY <1>5, <1>6, <3>1
    <3>4. QED
      BY <1>2, <1>4, <3>2, <3>3 DEF JobHolds
  <2>3. QED
    BY <2>1, <2>2
<1>10. ToSet(log) \subseteq 1..(n + 1)
  BY <1>2, <1>8
<1>11. QED
  BY <1>2, <1>5, <1>6, <1>7, <1>8, <1>9, <1>10 DEF ChatInv

SpecRecords ==
    [mode : {"none", "committee", "chair", "board"}, chair : MaybeDomain,
     domain : MaybeDomain, confident : BOOLEAN]

(* What a message is taken for, and the context it leaves. *)
LEMMA Interpreted ==
    ASSUME DomainAssumption, NEW text \in BoardMessage,
           NEW force, force.chair \in MaybeDomain, force.domain \in MaybeDomain,
           NEW before \in SessionState, NEW spec, spec = interpretChatMessage(text, before, force),
           NEW session, session = applyInterpretation(before, spec)
    PROVE  spec \in SpecRecords /\ session \in SessionState
<1>1. text \in BoardMessage /\ force.chair \in MaybeDomain /\ force.domain \in MaybeDomain
  OBVIOUS
<1>2. before.chair \in MaybeDomain /\ before.domain \in MaybeDomain /\ before.last \in SpecRecords
  BY DEF SessionState, SpecRecords
<1>3. \A x, y \in MaybeDomain : Else(x, y) \in MaybeDomain
  BY DEF Else
<1>4. "none" \in MaybeDomain /\ "ops" \in MaybeDomain
  BY DEF MaybeDomain, DomainAssumption
<1>5. text.names \in MaybeDomain /\ text.scores \in MaybeDomain /\ confident(text) \in BOOLEAN
  BY <1>1 DEF BoardMessage, confident
<1>6. primary_domain(text) \in MaybeDomain
  BY <1>3, <1>4, <1>5 DEF primary_domain
<1>7. conversation_mode(text) \in {"committee", "chair", "board"}
  BY DEF conversation_mode
<1>8. buildInterpretationSpec(text, before, force) \in SpecRecords
  <2>1. PICK mode, chair, domain, sure :
          /\ mode = conversation_mode(text) /\ sure = confident(text)
          /\ chair = (IF text.committee THEN "none" ELSE Else(force.chair, before.chair))
          /\ domain = (IF text.committee THEN "none"
                       ELSE Else(force.domain, Else(before.domain, primary_domain(text))))
    OBVIOUS
  <2>2. chair \in MaybeDomain
    BY <1>1, <1>2, <1>3, <1>4, <2>1
  <2>3. Else(before.domain, primary_domain(text)) \in MaybeDomain
    BY <1>2, <1>3, <1>6
  <2>4. domain \in MaybeDomain
    BY <1>1, <1>3, <1>4, <2>1, <2>3
  <2>5. [mode |-> mode, chair |-> chair, domain |-> domain, confident |-> sure] \in SpecRecords
    BY <1>5, <1>7, <2>1, <2>2, <2>4 DEF SpecRecords
  <2>6. QED
    BY <2>1, <2>5 DEF buildInterpretationSpec
<1>9. spec \in SpecRecords
  BY <1>2, <1>8 DEF interpretChatMessage
<1>10. spec.chair \in MaybeDomain /\ spec.domain \in MaybeDomain
  BY <1>9 DEF SpecRecords
<1>11. session \in SessionState
  <2>1. PICK c, d : c = Else(spec.chair, before.chair) /\ d = Else(spec.domain, before.domain)
    OBVIOUS
  <2>2. c \in MaybeDomain /\ d \in MaybeDomain
    BY <1>2, <1>3, <1>10, <2>1
  <2>3. [chair |-> c, domain |-> d, last |-> spec] \in SessionState
    BY <1>9, <2>2 DEF SessionState, SpecRecords
  <2>4. QED
    BY <2>1, <2>3 DEF applyInterpretation
<1>12. QED
  BY <1>9, <1>11

LEMMA PostChatKeeps ==
    ASSUME ChatInv, ChatAssumption, DomainAssumption,
           NEW t \in Threads, NEW text \in ChatTexts, NEW force \in Forced, NEW asked \in AskedModes,
           NEW survives \in BOOLEAN, PostChat(t, text, force, asked, survives)
    PROVE  ChatInv'
<1>1. PICK spec, session, mode, chairs, blocked, n :
        /\ spec = interpretChatMessage(text, chatSessions[t], force)
        /\ session = applyInterpretation(chatSessions[t], spec)
        /\ mode = Mode(asked, spec) /\ chairs = activeChairs(mode, force, spec, session)
        /\ blocked = Blocked(mode, chairs, spec) /\ n = Len(chairs)
  OBVIOUS
<1>17. PICK first : first = (IF maxParallel < n THEN maxParallel ELSE n)
  OBVIOUS
<1>18. PICK job, run :
        job = JobOf(t, chairs) /\ run = ExecutionOf(mode, chairs, first)
  OBVIOUS
<1>2. chatSessions[t] \in SessionState
  BY DEF ChatInv
<1>3. spec \in SpecRecords /\ session \in SessionState
  <2>1. text \in BoardMessage /\ force.chair \in MaybeDomain /\ force.domain \in MaybeDomain
    BY DEF ChatAssumption
  <2>2. QED
    BY <1>1, <1>2, <2>1, Interpreted
<1>4. spec.domain \in MaybeDomain /\ session.domain \in MaybeDomain
  BY <1>3 DEF SpecRecords, SessionState
<1>5. chairs \in Seq(BoardDomains) /\ n \in Nat \ {0} /\ Distinct(chairs)
  BY <1>1, <1>4, ActiveChairs
<1>6. mode \in {"chair", "board"}
  BY <1>1 DEF Mode, ChatAssumption
<1>7. first \in 1..n
  BY <1>5, <1>17 DEF ChatAssumption
<1>8. job \in ChatJobRecords /\ run \in ExecutionRecords /\ run # Gone /\ Deliberating(job, run)
  <2>1. Len(chairs) \in Nat \ {0} /\ first \in 1..Len(chairs)
    BY <1>1, <1>5, <1>7
  <2>2. QED
    BY <1>5, <1>6, <1>18, <2>1, DeliberationBegins
<1>9. Gone \in ExecutionRecords
  BY DEF Gone, ExecutionRecords
<1>10. \A status \in {"pending", "torn", "error"} :
         /\ [job EXCEPT !.status = status] \in ChatJobRecords
         /\ [job EXCEPT !.status = status].status = status
  BY <1>8 DEF ChatJobRecords, ChatStatuses
<1>11. \A status : [job EXCEPT !.status = status] =
                     [thread |-> t, status |-> status, chairs |-> Range(chairs), partial |-> <<>>]
  BY <1>18 DEF JobOf
<1>12. chatCrashes \in Nat /\ UNCHANGED chatLog
  BY DEF ChatInv, PostChat
<1>13. CASE ~survives
  <2>1. PICK status \in {"pending", "torn"} :
          chatJobs' = Append(chatJobs, [thread |-> t, status |-> status, chairs |-> Range(chairs), partial |-> <<>>])
    BY <1>1, <1>13 DEF PostChat
  <2>2. PICK left : left = [job EXCEPT !.status = status]
    OBVIOUS
  <2>3. left \in ChatJobRecords /\ left.status \in {"pending", "torn"}
    BY <1>10, <2>2, <2>1
  <2>4. JobHolds(left, Gone, FALSE, chatCrashes + 1)
    BY <1>12, <2>3 DEF JobHolds
  <2>5. /\ chatJobs' = Append(chatJobs, left) /\ chatCrashes' = chatCrashes + 1
        /\ executions' = [k \in 1..(Len(chatJobs) + 1) |-> Gone]
        /\ chatSessions' = chatSessions
    BY <1>1, <1>11, <1>13, <2>2, <2>1 DEF PostChat
  <2>6. chatSessions' \in [Threads -> SessionState]
    BY <2>5 DEF ChatInv
  <2>7. PICK died \in BOOLEAN : died = TRUE
    OBVIOUS
  <2>8. /\ JobHolds(left, Gone, FALSE, IF died THEN chatCrashes + 1 ELSE chatCrashes)
        /\ chatCrashes' = IF died THEN chatCrashes + 1 ELSE chatCrashes
        /\ executions' = IF died THEN [k \in 1..(Len(chatJobs) + 1) |-> Gone] ELSE Append(executions, Gone)
    BY <2>4, <2>5, <2>7
  <2>9. QED
    BY <1>9, <1>12, <2>3, <2>5, <2>6, <2>8, PostKeeps
<1>14. CASE survives
  <2>1. PICK new, begun :
          /\ new = (IF blocked THEN [job EXCEPT !.status = "error"] ELSE job)
          /\ begun = (IF blocked THEN Gone ELSE run)
    OBVIOUS
  <2>2. new \in ChatJobRecords /\ begun \in ExecutionRecords
    BY <1>8, <1>9, <1>10, <2>1
  <2>3. JobHolds(new, begun, FALSE, chatCrashes)
    <3>1. CASE blocked
      <4>1. new.status = "error" /\ begun = Gone
        BY <1>10, <2>1, <3>1
      <4>2. QED
        BY <4>1 DEF JobHolds
    <3>2. CASE ~blocked
      <4>1. new = job /\ begun = run /\ job.status = "running"
        BY <1>18, <2>1, <3>2 DEF JobOf
      <4>2. QED
        BY <1>8, <4>1 DEF JobHolds
    <3>3. QED
      BY <3>1, <3>2
  <2>4. /\ chatJobs' = Append(chatJobs, new) /\ executions' = Append(executions, begun)
        /\ chatCrashes' = chatCrashes
        /\ chatSessions' = [chatSessions EXCEPT ![t] = session]
    BY <1>1, <1>11, <1>14, <1>17, <1>18, <2>1 DEF PostChat, JobOf, ExecutionOf
  <2>5. chatSessions' \in [Threads -> SessionState]
    BY <1>3, <2>4 DEF ChatInv
  <2>6. PICK died \in BOOLEAN : died = FALSE
    OBVIOUS
  <2>7. /\ JobHolds(new, begun, FALSE, IF died THEN chatCrashes + 1 ELSE chatCrashes)
        /\ chatCrashes' = IF died THEN chatCrashes + 1 ELSE chatCrashes
        /\ executions' = IF died THEN [k \in 1..(Len(chatJobs) + 1) |-> Gone] ELSE Append(executions, begun)
        /\ died => begun = Gone
    BY <2>3, <2>4, <2>6
  <2>8. QED
    BY <1>12, <2>2, <2>4, <2>5, <2>7, PostKeeps
<1>15. QED
  BY <1>13, <1>14

LEMMA AnswerKeeps ==
    ASSUME ChatInv, NEW i \in DOMAIN executions, NEW done \in 1..2, NEW chair \in executions[i].asked,
           ChairAnswers(i, chair, done)
    PROVE  ChatInv'
<1>1. PICK job, run, after, answered :
        job = chatJobs[i] /\ run = executions[i] /\ after = After(run, chair) /\ answered = WithAnswer(job, chair)
  OBVIOUS
<1>2. /\ i \in DOMAIN chatJobs /\ job \in ChatJobRecords /\ run \in ExecutionRecords
      /\ JobHolds(job, run, i \in ToSet(chatLog), chatCrashes)
  BY <1>1, SeqFacts DEF ChatInv
<1>3. run # Gone
  BY <1>1 DEF Gone
<1>4. Deliberating(job, run) /\ i \notin ToSet(chatLog) /\ job.status = "running"
  BY <1>2, <1>3 DEF JobHolds, Deliberating
<1>5. chair \in run.asked
  BY <1>1
<1>6. /\ answered \in ChatJobRecords /\ after \in ExecutionRecords /\ after # Gone
      /\ Deliberating(answered, after)
  BY <1>1, <1>2, <1>4, <1>5, AnswerComes
<1>7. answered.status = "running"
  BY <1>6 DEF Deliberating
<1>8. appendChairResult(chatJobs, i, chair) = [chatJobs EXCEPT ![i] = answered]
  BY <1>1 DEF appendChairResult, WithAnswer
<1>9. UNCHANGED chatSessions
  BY DEF ChairAnswers
<1>10. CASE after.asked = {} /\ run.mode = "chair" /\ Cardinality(after.results) = 1
  <2>1. Deliberated(answered)
    <3>1. after.todo = <<>>
      BY <1>6, <1>10 DEF Deliberating
    <3>2. answered.chairs = after.results /\ ToSet(answered.partial) = after.results
          /\ Len(answered.partial) = Cardinality(after.results)
      <4>1. ToSet(<<>>) = {}
        BY DEF ToSet
      <4>2. QED
        BY <1>6, <1>10, <3>1, <4>1 DEF Deliberating
    <3>3. QED
      BY <3>2 DEF Deliberated
  <2>2. Complete(appendChairResult(chatJobs, i, chair), i, done)
    BY <1>1, <1>10 DEF ChairAnswers, After
  <2>3. PICK jobs : jobs = appendChairResult(chatJobs, i, chair)
    OBVIOUS
  <2>4. Complete(jobs, i, done)
    BY <2>2, <2>3
  <2>5. QED
    BY <1>1, <1>2, <1>3, <1>6, <1>7, <1>8, <1>9, <2>1, <2>3, <2>4, CompleteKeeps
<1>11. CASE ~(after.asked = {} /\ run.mode = "chair" /\ Cardinality(after.results) = 1)
  <2>1. /\ chatJobs' = [chatJobs EXCEPT ![i] = answered] /\ executions' = [executions EXCEPT ![i] = after]
        /\ UNCHANGED <<chatLog, chatCrashes>>
    BY <1>1, <1>8, <1>11 DEF ChairAnswers, After
  <2>2. JobHolds(answered, after, i \in ToSet(chatLog), chatCrashes)
    BY <1>4, <1>6, <1>7 DEF JobHolds
  <2>3. QED
    BY <1>2, <1>6, <1>9, <2>1, <2>2, OneKeeps
<1>12. QED
  BY <1>10, <1>11

LEMMA SynthesizeKeeps ==
    ASSUME ChatInv, NEW i \in DOMAIN executions, NEW ok \in BOOLEAN, NEW done \in 1..2, Synthesize(i, ok, done)
    PROVE  ChatInv'
<1>1. PICK job, run : job = chatJobs[i] /\ run = executions[i]
  OBVIOUS
<1>2. /\ i \in DOMAIN chatJobs /\ job \in ChatJobRecords
      /\ JobHolds(job, run, i \in ToSet(chatLog), chatCrashes)
  BY <1>1, SeqFacts DEF ChatInv
<1>3. run # Gone /\ run.asked = {} /\ UNCHANGED chatSessions
  BY <1>1 DEF Synthesize, Merges
<1>4. Deliberating(job, run) /\ i \notin ToSet(chatLog) /\ job.status = "running"
  BY <1>2, <1>3 DEF JobHolds, Deliberating
<1>5. Deliberated(job)
  <2>1. run.todo = <<>> /\ ToSet(<<>>) = {}
    BY <1>3, <1>4 DEF Deliberating, ToSet
  <2>2. QED
    BY <1>3, <1>4, <2>1 DEF Deliberating, Deliberated
<1>6. CASE ok
  <2>1. PICK jobs : jobs = chatJobs
    OBVIOUS
  <2>2. Complete(jobs, i, done)
    BY <1>6, <2>1 DEF Synthesize
  <2>3. jobs = [chatJobs EXCEPT ![i] = job]
    BY <1>1, <1>2, <2>1 DEF ChatInv
  <2>4. QED
    BY <1>1, <1>2, <1>3, <1>4, <1>5, <2>2, <2>3, CompleteKeeps
<1>7. CASE ~ok
  <2>1. PICK failed : failed = [job EXCEPT !.status = "error"]
    OBVIOUS
  <2>2. failed \in ChatJobRecords /\ failed.status = "error"
    BY <1>2, <2>1 DEF ChatJobRecords, ChatStatuses
  <2>3. /\ chatJobs' = [chatJobs EXCEPT ![i] = failed] /\ executions' = [executions EXCEPT ![i] = Gone]
        /\ UNCHANGED <<chatLog, chatCrashes>>
    BY <1>1, <1>7, <2>1 DEF Synthesize, SetStatus
  <2>4. JobHolds(failed, Gone, i \in ToSet(chatLog), chatCrashes)
    BY <1>4, <2>2 DEF JobHolds
  <2>5. Gone \in ExecutionRecords
    BY DEF Gone, ExecutionRecords
  <2>6. QED
    BY <1>2, <1>3, <2>2, <2>3, <2>4, <2>5, OneKeeps
<1>8. QED
  BY <1>6, <1>7

LEMMA RestartKeeps == ASSUME ChatInv, ChatRestart PROVE ChatInv'
<1>1. PICK jobs, runs, log, crashes, n :
        jobs = chatJobs /\ runs = executions /\ log = chatLog /\ crashes = chatCrashes /\ n = Len(chatJobs)
  OBVIOUS
<1>2. /\ n \in Nat /\ DOMAIN jobs = 1..n /\ DOMAIN runs = 1..n /\ crashes \in Nat /\ Len(jobs) = n
      /\ \A k \in 1..n : JobHolds(jobs[k], runs[k], k \in ToSet(log), crashes)
  BY <1>1, SeqFacts DEF ChatInv
<1>3. PICK gone : gone = [k \in 1..n |-> Gone]
  OBVIOUS
<1>4. gone \in Seq(ExecutionRecords) /\ Len(gone) = n /\ \A k \in 1..n : gone[k] = Gone
  BY <1>2, <1>3, NoneIsLeft
<1>5. /\ executions' = gone /\ chatCrashes' = crashes + 1 /\ crashes + 1 \in Nat
      /\ chatLog' = log /\ chatSessions' = chatSessions
  BY <1>1, <1>2, <1>3 DEF ChatRestart
<1>6. PICK i, jobs2 : i \in 1..n /\ runs[i] # Gone /\ jobs2 = chatJobs' /\ jobs2 \in {jobs, SetStatus(jobs, i, "torn")}
  BY <1>1, <1>2 DEF ChatRestart
<1>7. PICK left :
        /\ left \in ChatJobRecords /\ left.status # "done"
        /\ jobs2 \in Seq(ChatJobRecords) /\ Len(jobs2) = n /\ DOMAIN jobs2 = 1..n
        /\ jobs2[i] = left /\ \A k \in 1..n : k # i => jobs2[k] = jobs[k]
  <2>1. PICK job : job = jobs[i] /\ job \in ChatJobRecords /\ job.status = "running"
    <3>1. jobs[i] \in ChatJobRecords
      BY <1>1, <1>2, <1>6 DEF ChatInv
    <3>2. QED
      BY <1>2, <1>6, <3>1 DEF JobHolds, Deliberating
  <2>2. jobs \in Seq(ChatJobRecords)
    BY <1>1 DEF ChatInv
  <2>3. CASE jobs2 = jobs
    BY <1>2, <2>1, <2>2, <2>3
  <2>4. CASE jobs2 = SetStatus(jobs, i, "torn")
    <3>1. PICK torn : torn = [job EXCEPT !.status = "torn"]
      OBVIOUS
    <3>2. torn \in ChatJobRecords /\ torn.status = "torn"
      BY <2>1, <3>1 DEF ChatJobRecords, ChatStatuses
    <3>3. jobs2 = [jobs EXCEPT ![i] = torn]
      BY <1>2, <1>6, <2>1, <2>4, <3>1 DEF SetStatus
    <3>4. /\ jobs2 \in Seq(ChatJobRecords) /\ Len(jobs2) = n /\ DOMAIN jobs2 = 1..n /\ jobs2[i] = torn
          /\ \A k \in 1..n : k # i => jobs2[k] = jobs[k]
      BY <1>2, <1>6, <2>2, <3>2, <3>3, ExceptSeq
    <3>5. QED
      BY <3>2, <3>4
  <2>5. QED
    BY <1>6, <2>3, <2>4
<1>8. ASSUME NEW k \in 1..n PROVE JobHolds(jobs2[k], gone[k], k \in ToSet(log), crashes + 1)
  <2>1. JobHolds(jobs[k], runs[k], k \in ToSet(log), crashes)
    BY <1>2
  <2>2. gone[k] = Gone
    BY <1>4
  <2>3. CASE k = i
    BY <1>2, <1>6, <1>7, <2>1, <2>2, <2>3 DEF JobHolds
  <2>4. CASE k # i
    BY <1>2, <1>7, <2>1, <2>2, <2>4 DEF JobHolds
  <2>5. QED
    BY <2>3, <2>4
<1>9. /\ chatSessions \in [Threads -> SessionState]
      /\ log \in Seq(Nat) /\ ToSet(log) \subseteq 1..n /\ Len(log) = Cardinality(ToSet(log))
  BY <1>1, <1>2 DEF ChatInv
<1>10. QED
  BY <1>4, <1>5, <1>6, <1>7, <1>8, <1>9 DEF ChatInv

LEMMA ChatInvStep ==
    ChatInv /\ ChatAssumption /\ DomainAssumption /\ [ChatNext]_chatVars => ChatInv'
<1> SUFFICES ASSUME ChatInv, ChatAssumption, DomainAssumption, [ChatNext]_chatVars
             PROVE  ChatInv'
  OBVIOUS
<1>1. ASSUME NEW t \in Threads, ClearThread(t)
      PROVE  ChatInv'
  <2>1. emptySession \in SessionState
    BY DEF emptySession, NoSpec, SessionState, MaybeDomain
  <2>2. chatSessions' \in [Threads -> SessionState] /\ UNCHANGED <<chatJobs, executions, chatLog, chatCrashes>>
    BY <1>1, <2>1 DEF ClearThread, ChatInv
  <2>3. QED
    BY <2>2 DEF ChatInv
<1>2. CASE UNCHANGED chatVars
  BY <1>2 DEF chatVars, ChatInv
<1>3. CASE ChatNext
  BY <1>1, <1>3, PostChatKeeps, AnswerKeeps, SynthesizeKeeps, RestartKeeps DEF ChatNext
<1>4. QED
  BY <1>2, <1>3

LEMMA ChatInvIsEnough == ChatInv => DoneMeansDeliberated
<1> SUFFICES ASSUME ChatInv
             PROVE  DoneMeansDeliberated
  OBVIOUS
<1>1. PICK logged : logged = ToSet(chatLog)
  OBVIOUS
<1>2. Len(chatLog) = Cardinality(logged)
  BY <1>1 DEF ChatInv
<1>3. \A i \in DOMAIN chatJobs : JobHolds(chatJobs[i], executions[i], i \in logged, chatCrashes)
  BY <1>1 DEF ChatInv
<1>4. \A i \in DOMAIN chatJobs :
        /\ chatJobs[i].status = "done" => i \in logged
        /\ i \in logged => /\ ToSet(chatJobs[i].partial) = chatJobs[i].chairs
                           /\ Len(chatJobs[i].partial) = Cardinality(chatJobs[i].chairs)
        /\ i \in logged => chatJobs[i].status = "done" \/ chatCrashes > 0
        /\ executions[i] = Gone /\ chatJobs[i].status \in {"pending", "running", "torn"} => chatCrashes > 0
  BY <1>3 DEF JobHolds, Deliberated
<1>5. QED
  BY <1>1, <1>2, <1>4 DEF DoneMeansDeliberated

(* For any chairs, messages, executions under way and crashes: a job a     *)
(* client sees done has one answer of every chair asked and was logged     *)
(* once; what is never finished was a crash's doing (motherboard-chat.ts). *)
THEOREM DoneIsDeliberated == ChatSpec => []DoneMeansDeliberated
BY ChatInvInit, ChatInvStep, ChatInvIsEnough, ChatAssumption, DomainAssumption, PTL DEF ChatSpec

-----------------------------------------------------------------------------
(* The interview.  The inductive invariant says of the session that what   *)
(* the user was told of is among the corrections; of a confirmation that   *)
(* waits, that what it owes the user is applied, now and when it began; of *)
(* a regeneration, that the blueprint it read has all its seats and one of *)
(* the domain it regenerates.                                              *)
SeatDomains == STRING \cup {"finance", "ops", "hr", "growth", "it", "legal", "security", "none"}

Chairs == [id : Nat, domain : SeatDomains, roster : Rosters]

Domains(chairs) == {chairs[i].domain : i \in DOMAIN chairs}

Filled(chairs) ==
    /\ {"finance", "ops", "hr", "growth", "it"} \subseteq Domains(chairs)
    /\ Domains(chairs) \cap {"legal", "security"} # {}

Payloads == [from : SUBSET Corrections, due : SUBSET Corrections, chairs : Seq(Chairs)]

Sound(type, payload) ==
    /\ type \in BoardTypes /\ payload \in Payloads
    /\ payload.due \subseteq payload.from
    /\ type = "agent_blueprint" => Filled(payload.chairs)

BoardHolds(kept) ==
    /\ kept \in [BoardTypes -> [versions : Nat, logged : Nat, payload : Payloads]]
    /\ \A type \in BoardTypes :
         /\ kept[type].payload.due \subseteq kept[type].payload.from
         /\ OnFile(kept, type) => Sound(type, kept[type].payload)

InterviewRecords ==
    [stage : {"none", "live", "deleted"}, section : 0..9, mode : {"business", "collective"},
     confirmed : BOOLEAN, corrections : SUBSET Corrections, told : SUBSET Corrections,
     applied : SUBSET Corrections, finalized : BOOLEAN]

InterviewCallRecords ==
    [kind : {"none", "answer", "correction", "confirm", "seed", "regenerate"}, section : 0..9,
     from : SUBSET Corrections, due : SUBSET Corrections, chairs : Seq(Chairs), domain : SeatDomains]

CallHolds(call, session) ==
    /\ call.due \subseteq call.from
    /\ call.kind = "confirm" => session.stage # "none" /\ call.due \subseteq session.applied
    /\ call.kind = "seed" => call.due = {}
    /\ call.kind = "regenerate" => Filled(call.chairs) /\ call.domain \in Domains(call.chairs)

InterviewInv ==
    /\ interview \in InterviewRecords
    /\ interview.told \subseteq interview.applied \cup interview.corrections
    /\ pending \in [InterviewCalls -> InterviewCallRecords]
    /\ \A c \in InterviewCalls : CallHolds(pending[c], interview)
    /\ BoardHolds(board)

LEMMA IsOfBoard ==
    /\ \A i \in 1..5 : CoreTypes[i] \in BoardTypes
    /\ "collective_config" \in BoardTypes /\ "agent_blueprint" \in BoardTypes
<1>1. CoreTypes[5] = "agent_blueprint"
  BY DEF CoreTypes
<1>2. QED
  BY <1>1 DEF BoardTypes

(* Artifacts that are sound keep the board so, however many of them get    *)
(* written.                                                                *)
LEMMA BoardWritten ==
    ASSUME NEW kept, BoardHolds(kept), NEW batch, NEW done,
           \A i \in DOMAIN batch : Sound(batch[i].type, batch[i].payload)
    PROVE  BoardHolds(writeArtifacts(kept, batch, done))
<1>1. PICK new : new = writeArtifacts(kept, batch, done)
  OBVIOUS
<1>2. DOMAIN kept = BoardTypes
  BY DEF BoardHolds
<1>3. ASSUME NEW type \in BoardTypes
      PROVE  /\ new[type] \in [versions : Nat, logged : Nat, payload : Payloads]
             /\ new[type].payload.due \subseteq new[type].payload.from
             /\ OnFile(new, type) => Sound(type, new[type].payload)
  <2>1. PICK old : /\ old = kept[type] /\ old \in [versions : Nat, logged : Nat, payload : Payloads]
                   /\ old.payload.due \subseteq old.payload.from
                   /\ old.versions > 0 => Sound(type, old.payload)
    BY <1>3 DEF BoardHolds, OnFile
  <2>2. PICK mine, filed :
          /\ mine = {i \in DOMAIN batch : batch[i].type = type /\ 2 * i - 1 <= done}
          /\ filed = {i \in mine : 2 * i <= done}
    OBVIOUS
  <2>3. new[type] = IF mine = {} THEN old
                    ELSE [versions |-> IF filed = {} THEN old.versions ELSE old.versions + 1,
                          logged |-> old.logged + 1,
                          payload |-> IF filed = {} THEN old.payload
                                      ELSE batch[CHOOSE i \in filed : TRUE].payload]
    BY <1>1, <1>2, <1>3, <2>1, <2>2 DEF writeArtifacts
  <2>4. CASE filed = {}
    BY <2>1, <2>3, <2>4 DEF OnFile
  <2>5. CASE filed # {}
    <3>1. PICK i : i \in filed /\ i = CHOOSE j \in filed : TRUE
      BY <2>5
    <3>2. i \in DOMAIN batch /\ batch[i].type = type
      BY <2>2, <3>1
    <3>3. Sound(type, batch[i].payload)
      BY <3>2
    <3>4. mine # {}
      BY <2>2, <2>5
    <3>5. new[type] = [versions |-> old.versions + 1, logged |-> old.logged + 1, payload |-> batch[i].payload]
      BY <2>3, <2>5, <3>1, <3>4
    <3>6. QED
      BY <2>1, <3>3, <3>5 DEF Sound
  <2>6. QED
    BY <2>4, <2>5
<1>4. new = [type \in BoardTypes |-> new[type]]
  BY <1>1, <1>2 DEF writeArtifacts
<1>5. new \in [BoardTypes -> [versions : Nat, logged : Nat, payload : Payloads]]
  BY <1>3, <1>4
<1>6. QED
  BY <1>1, <1>3, <1>5 DEF BoardHolds

(* The seats of a generated board. *)
Seated(s, d, present) == s \o (IF d \in present THEN <<>> ELSE <<d>>)

LEMMA SeatAdded ==
    ASSUME NEW S, NEW s \in Seq(S), NEW present, NEW d \in S,
           NEW longer, longer = Seated(s, d, present)
    PROVE  /\ longer \in Seq(S) /\ ToSet(s) \subseteq ToSet(longer)
           /\ d \in present \cup ToSet(longer)
<1>1. PICK t : t = (IF d \in present THEN <<>> ELSE <<d>>)
  OBVIOUS
<1>2. PICK m : t \in Seq(S) /\ m \in 0..1 /\ m = Len(t) /\ (d \notin present => m = 1 /\ t[1] = d)
  <2>1. CASE d \in present
    <3>1. t = <<>>
      BY <1>1, <2>1
    <3>2. t \in Seq(S) /\ Len(t) = 0
      BY <3>1, EmptySeq
    <3>3. QED
      BY <2>1, <3>2
  <2>2. CASE d \notin present
    <3>1. t = <<d>>
      BY <1>1, <2>2
    <3>2. t \in Seq(S) /\ Len(t) = 1 /\ t[1] = d
      BY <3>1
    <3>3. QED
      BY <3>2
  <2>3. QED
    BY <2>1, <2>2
<1>3. longer = s \o t
  BY <1>1 DEF Seated
<1>4. PICK n : n \in Nat /\ n = Len(s) /\ DOMAIN s = 1..n
  BY LenProperties
<1>5. /\ longer \in Seq(S) /\ Len(longer) = n + m
      /\ \A i \in 1..(n + m) : longer[i] = IF i <= n THEN s[i] ELSE t[i - n]
  BY <1>2, <1>3, <1>4, ConcatProperties
<1>6. DOMAIN longer = 1..(n + m)
  BY <1>5, LenProperties
<1>7. \A i \in 1..n : i \in DOMAIN longer /\ longer[i] = s[i]
  BY <1>2, <1>4, <1>5, <1>6
<1>8. ASSUME d \notin present PROVE n + 1 \in DOMAIN longer /\ longer[n + 1] = d
  <2>1. PICK k : k = n + 1
    OBVIOUS
  <2>2. k \in 1..(n + m) /\ ~(k <= n) /\ k - n = 1
    BY <1>2, <1>4, <1>8, <2>1
  <2>3. longer[k] = t[k - n]
    BY <1>5, <2>2
  <2>4. QED
    BY <1>2, <1>6, <1>8, <2>1, <2>2, <2>3
<1>9. QED
  BY <1>4, <1>5, <1>7, <1>8 DEF ToSet

LEMMA SeatsAreThere ==
    ASSUME NEW reply \in SeatReplies, NEW seats, seats = inferChairContexts(reply)
    PROVE  /\ seats \in Seq(SeatDomains)
           /\ {"finance", "ops", "hr", "growth", "it"} \subseteq ToSet(seats)
           /\ ToSet(seats) \cap {"legal", "security"} # {}
<1>1. PICK S : S = SeatDomains
  OBVIOUS
<1>2. /\ reply \in Seq(S)
      /\ {"finance", "ops", "hr", "growth", "it", "legal", "security"} \subseteq S
  <2>1. S = STRING \cup {"finance", "ops", "hr", "growth", "it", "legal", "security", "none"}
    BY <1>1 DEF SeatDomains
  <2>2. reply \in Seq(STRING)
    BY InterviewAssumption DEF InterviewAssumption
  <2>3. reply \in Seq(S)
    <3>1. DOMAIN reply = 1..Len(reply) /\ Len(reply) \in Nat /\ \A k \in 1..Len(reply) : reply[k] \in S
      BY <2>1, <2>2, SeqFacts
    <3>2. QED
      BY <2>2, <3>1, SeqDef
  <2>4. QED
    BY <2>1, <2>3
<1>3. CASE Len(reply) < 5
  <2>1. seats = <<"finance", "ops", "hr", "growth", "it", "legal">>
    BY <1>3 DEF inferChairContexts, Fallback
  <2>2. DOMAIN seats = 1..6 /\ seats \in Seq(S)
    BY <1>2, <2>1
  <2>3. /\ seats[1] = "finance" /\ seats[2] = "ops" /\ seats[3] = "hr"
        /\ seats[4] = "growth" /\ seats[5] = "it" /\ seats[6] = "legal"
    BY <2>1
  <2>4. \A k \in 1..6 : seats[k] \in ToSet(seats)
    BY <2>2 DEF ToSet
  <2>5. QED
    BY <1>1, <2>2, <2>3, <2>4
<1>4. CASE ~(Len(reply) < 5)
  <2>1. PICK present, legal : /\ present = ToSet(reply)
                              /\ legal = (IF "security" \in present THEN present \cup {"legal"} ELSE present)
    OBVIOUS
  <2>2. PICK one, two, three, four, five, six :
          /\ one = "finance" /\ two = "ops" /\ three = "hr" /\ four = "growth" /\ five = "it" /\ six = "legal"
    OBVIOUS
  <2>3. PICK f, o, h, g, i, l :
          /\ f = Seated(reply, one, present)
          /\ o = Seated(f, two, present)
          /\ h = Seated(o, three, present)
          /\ g = Seated(h, four, present)
          /\ i = Seated(g, five, present)
          /\ l = Seated(i, six, legal)
    OBVIOUS
  <2>4. seats = l
    BY <1>4, <2>1, <2>2, <2>3 DEF inferChairContexts, Seated
  <2>5. one \in S /\ two \in S /\ three \in S /\ four \in S /\ five \in S /\ six \in S
    BY <1>2, <2>2
  <2>6. f \in Seq(S) /\ ToSet(reply) \subseteq ToSet(f) /\ one \in present \cup ToSet(f)
    BY <2>3, <2>5, <1>2, SeatAdded
  <2>7. o \in Seq(S) /\ ToSet(f) \subseteq ToSet(o) /\ two \in present \cup ToSet(o)
    BY <2>3, <2>5, <2>6, SeatAdded
  <2>8. h \in Seq(S) /\ ToSet(o) \subseteq ToSet(h) /\ three \in present \cup ToSet(h)
    BY <2>3, <2>5, <2>7, SeatAdded
  <2>9. g \in Seq(S) /\ ToSet(h) \subseteq ToSet(g) /\ four \in present \cup ToSet(g)
    BY <2>3, <2>5, <2>8, SeatAdded
  <2>10. i \in Seq(S) /\ ToSet(g) \subseteq ToSet(i) /\ five \in present \cup ToSet(i)
    BY <2>3, <2>5, <2>9, SeatAdded
  <2>11. l \in Seq(S) /\ ToSet(i) \subseteq ToSet(l) /\ six \in legal \cup ToSet(l)
    BY <2>3, <2>5, <2>10, SeatAdded
  <2>12. /\ {"finance", "ops", "hr", "growth", "it"} \subseteq ToSet(l)
         /\ "legal" \in ToSet(l) \/ "security" \in ToSet(l)
    BY <2>1, <2>2, <2>6, <2>7, <2>8, <2>9, <2>10, <2>11
  <2>13. QED
    BY <1>1, <2>4, <2>11, <2>12
<1>5. QED
  BY <1>3, <1>4

LEMMA ChairsBuilt ==
    ASSUME NEW reply \in SeatReplies, NEW roster \in Rosters,
           NEW chairs, chairs = buildBlueprintChairs(inferChairContexts(reply), roster)
    PROVE  chairs \in Seq(Chairs) /\ Filled(chairs)
<1>1. PICK seats : seats = inferChairContexts(reply)
  OBVIOUS
<1>2. /\ seats \in Seq(SeatDomains)
      /\ {"finance", "ops", "hr", "growth", "it"} \subseteq ToSet(seats)
      /\ ToSet(seats) \cap {"legal", "security"} # {}
  BY <1>1, SeatsAreThere
<1>3. PICK n : n \in Nat /\ DOMAIN seats = 1..n /\ \A k \in 1..n : seats[k] \in SeatDomains
  BY <1>2, SeqFacts
<1>4. chairs = [i \in 1..n |-> [id |-> i, domain |-> seats[i], roster |-> roster]]
  BY <1>1, <1>3 DEF buildBlueprintChairs
<1>5. chairs \in Seq(Chairs)
  <2>1. \A i \in 1..n : [id |-> i, domain |-> seats[i], roster |-> roster] \in Chairs
    BY <1>3 DEF Chairs
  <2>2. QED
    BY <1>3, <1>4, <2>1
<1>6. DOMAIN chairs = 1..n /\ \A i \in 1..n : chairs[i].domain = seats[i]
  BY <1>4
<1>7. Domains(chairs) = ToSet(seats)
  BY <1>3, <1>6 DEF Domains, ToSet
<1>8. QED
  BY <1>2, <1>5, <1>7 DEF Filled

(* What a generation makes for a call that holds. *)
LEMMA GenerationIsSound ==
    ASSUME NEW call \in InterviewCallRecords, NEW applied \in SUBSET Corrections, NEW mode,
           call.due \subseteq call.from, call.due \subseteq applied,
           NEW chairs \in Seq(Chairs), Filled(chairs),
           NEW batch, batch = generateArtifacts(call, applied, mode, chairs)
    PROVE  \A i \in DOMAIN batch : Sound(batch[i].type, batch[i].payload)
<1>1. PICK types : /\ types = (IF mode = "collective" THEN Append(CoreTypes, "collective_config") ELSE CoreTypes)
                   /\ batch = [i \in DOMAIN types |-> Artifact(types[i],
                        IF types[i] = "agent_blueprint" THEN call.from ELSE applied, call.due, chairs)]
  BY DEF generateArtifacts
<1>2. \A i \in DOMAIN types : types[i] \in BoardTypes
  <2>1. CoreTypes \in Seq(BoardTypes) /\ DOMAIN CoreTypes = 1..5
    <3>1. DOMAIN CoreTypes = 1..5
      BY DEF CoreTypes
    <3>2. CoreTypes = [i \in 1..5 |-> CoreTypes[i]]
      BY <3>1 DEF CoreTypes
    <3>3. QED
      BY <3>1, <3>2, IsOfBoard
  <2>2. Append(CoreTypes, "collective_config") \in Seq(BoardTypes)
    BY <2>1, IsOfBoard, AppendProperties
  <2>3. types \in Seq(BoardTypes)
    BY <1>1, <2>1, <2>2
  <2>4. QED
    BY <2>3, SeqFacts
<1>3. ASSUME NEW i \in DOMAIN types PROVE Sound(batch[i].type, batch[i].payload)
  <2>1. PICK type, from, seats :
          /\ type = types[i] /\ type \in BoardTypes
          /\ from = (IF type = "agent_blueprint" THEN call.from ELSE applied)
          /\ seats = (IF type = "agent_blueprint" THEN chairs ELSE <<>>)
    BY <1>2, <1>3
  <2>2. batch[i] = [type |-> type, payload |-> [from |-> from, due |-> call.due, chairs |-> seats]]
    BY <1>1, <1>3, <2>1 DEF Artifact
  <2>3. call.due \in SUBSET Corrections /\ call.from \in SUBSET Corrections
    BY DEF InterviewCallRecords
  <2>4. from \in SUBSET Corrections /\ call.due \subseteq from
    BY <2>1, <2>3
  <2>5. seats \in Seq(Chairs) /\ (type = "agent_blueprint" => Filled(seats))
    BY <2>1
  <2>6. QED
    BY <2>1, <2>2, <2>3, <2>4, <2>5 DEF Sound, Payloads
<1>4. DOMAIN batch = DOMAIN types
  BY <1>1
<1>5. QED
  BY <1>3, <1>4

LEMMA FreeCall ==
    /\ NoCall \in InterviewCallRecords
    /\ \A session : CallHolds(NoCall, session)
    /\ NoCall.chairs = <<>> /\ NoCall.kind = "none" /\ NoCall.from = {} /\ NoCall.due = {}
<1>1. PICK d : d = "none" /\ d \in SeatDomains
  BY DEF SeatDomains
<1>2. <<>> \in Seq(Chairs)
  BY EmptySeq
<1>3. NoCall = [kind |-> "none", section |-> 0, from |-> {}, due |-> {}, chairs |-> <<>>, domain |-> d]
  BY <1>1 DEF NoCall
<1>4. NoCall \in InterviewCallRecords
  BY <1>1, <1>2, <1>3 DEF InterviewCallRecords
<1>5. QED
  BY <1>3, <1>4 DEF CallHolds

LEMMA FirstInterview == NoInterview \in InterviewRecords
BY DEF NoInterview, InterviewRecords

LEMMA InterviewInvInit == InterviewInit => InterviewInv
<1> SUFFICES ASSUME InterviewInit PROVE InterviewInv
  OBVIOUS
<1>1. <<>> \in Seq(Chairs)
  BY EmptySeq
<1>2. board = [type \in BoardTypes |-> [versions |-> 0, logged |-> 0,
                                        payload |-> [from |-> {}, due |-> {}, chairs |-> <<>>]]]
  <2>1. PICK empty : empty = NoPayload /\ empty = [from |-> {}, due |-> {}, chairs |-> <<>>]
    BY DEF NoPayload
  <2>2. [NoArtifact EXCEPT !.payload = empty] = [versions |-> 0, logged |-> 0, payload |-> empty]
    BY DEF NoArtifact
  <2>3. QED
    BY <2>1, <2>2 DEF InterviewInit
<1>3. BoardHolds(board)
  BY <1>1, <1>2 DEF BoardHolds, Payloads, OnFile
<1>4. interview \in InterviewRecords /\ interview.told = {}
  BY FirstInterview DEF InterviewInit, NoInterview
<1>5. pending \in [InterviewCalls -> InterviewCallRecords] /\ \A c \in InterviewCalls : CallHolds(pending[c], interview)
  BY FreeCall DEF InterviewInit
<1>6. QED
  BY <1>3, <1>4, <1>5 DEF InterviewInv

(* A call begins to wait, or ends. *)
LEMMA CallChanges ==
    ASSUME InterviewInv, NEW c \in InterviewCalls, NEW call \in InterviewCallRecords,
           Waits(c, call), CallHolds(call, interview'),
           interview' \in InterviewRecords,
           interview'.told \subseteq interview'.applied \cup interview'.corrections,
           interview.stage # "none" => interview'.stage # "none" /\ interview.applied \subseteq interview'.applied,
           BoardHolds(board')
    PROVE  InterviewInv'
<1>1. PICK old : old = pending /\ old \in [InterviewCalls -> InterviewCallRecords]
                 /\ \A d \in InterviewCalls : CallHolds(old[d], interview)
  BY DEF InterviewInv
<1>2. PICK new : new = pending' /\ new = [old EXCEPT ![c] = call]
  BY <1>1 DEF Waits
<1>3. new \in [InterviewCalls -> InterviewCallRecords]
  BY <1>1, <1>2
<1>4. ASSUME NEW d \in InterviewCalls PROVE CallHolds(new[d], interview')
  <2>1. CASE d = c
    BY <1>1, <1>2, <2>1
  <2>2. CASE d # c
    <3>1. new[d] = old[d] /\ CallHolds(old[d], interview)
      BY <1>1, <1>2, <2>2
    <3>2. QED
      BY <3>1 DEF CallHolds
  <2>3. QED
    BY <2>1, <2>2
<1>5. QED
  BY <1>2, <1>3, <1>4 DEF InterviewInv

(* The session changes and the calls stay. *)
LEMMA SessionChanges ==
    ASSUME InterviewInv, UNCHANGED <<pending, board>>,
           interview' \in InterviewRecords,
           interview'.told \subseteq interview'.applied \cup interview'.corrections,
           interview.stage # "none" => interview'.stage # "none" /\ interview.applied \subseteq interview'.applied
    PROVE  InterviewInv'
BY DEF InterviewInv, CallHolds

(* The process dies: session and calls are gone. *)
LEMMA MemoryIsGone ==
    ASSUME interview' = NoInterview, pending' = [c \in InterviewCalls |-> NoCall], BoardHolds(board')
    PROVE  InterviewInv'
<1>1. NoInterview \in InterviewRecords /\ NoInterview.told = {}
  BY FirstInterview DEF NoInterview
<1>2. pending' \in [InterviewCalls -> InterviewCallRecords] /\ \A c \in InterviewCalls : CallHolds(pending'[c], interview')
  BY FreeCall
<1>3. QED
  BY <1>1, <1>2 DEF InterviewInv

LEMMA AnswersKeep ==
    ASSUME InterviewInv
    PROVE  /\ StartInterview => InterviewInv'
           /\ \A mode \in {"business", "collective"} : Respond(mode) => InterviewInv'
           /\ SayYes => InterviewInv'
<1>1. PICK old : old = interview /\ old \in InterviewRecords /\ old.told \subseteq old.applied \cup old.corrections
  BY DEF InterviewInv
<1>2. ASSUME NEW n \in 0..9, NEW mode PROVE advance(n, mode) \in 0..9
  BY <1>2 DEF advance
<1>3. ASSUME StartInterview PROVE InterviewInv'
  <2>1. interview' = [NoInterview EXCEPT !.stage = "live"] /\ interview.stage = "none" /\ UNCHANGED <<pending, board>>
    BY <1>3 DEF StartInterview
  <2>2. PICK none : none = NoInterview /\ none \in InterviewRecords /\ none.told = {}
    BY FirstInterview DEF NoInterview
  <2>3. interview' \in InterviewRecords /\ interview'.told = {}
    BY <2>1, <2>2 DEF InterviewRecords
  <2>4. QED
    BY <2>1, <2>3, SessionChanges
<1>4. ASSUME NEW mode \in {"business", "collective"}, Respond(mode) PROVE InterviewInv'
  <2>1. PICK m, n : /\ m = (IF old.section = 0 THEN mode ELSE old.mode)
                    /\ n = advance(old.section, IF old.section = 0 THEN mode ELSE old.mode)
    OBVIOUS
  <2>2. interview' = [old EXCEPT !.mode = m, !.section = n] /\ UNCHANGED <<pending, board>>
    BY <1>1, <1>4, <2>1 DEF Respond
  <2>3. m \in {"business", "collective"} /\ n \in 0..9
    BY <1>1, <1>2, <2>1 DEF InterviewRecords
  <2>4. /\ interview' \in InterviewRecords /\ interview'.told = old.told /\ interview'.applied = old.applied
        /\ interview'.corrections = old.corrections /\ interview'.stage = old.stage
    BY <1>1, <2>2, <2>3 DEF InterviewRecords
  <2>5. QED
    BY <1>1, <2>2, <2>4, SessionChanges
<1>5. ASSUME SayYes PROVE InterviewInv'
  <2>1. interview' = [old EXCEPT !.confirmed = TRUE] /\ UNCHANGED <<pending, board>>
    BY <1>1, <1>5 DEF SayYes
  <2>2. /\ interview' \in InterviewRecords /\ interview'.told = old.told /\ interview'.applied = old.applied
        /\ interview'.corrections = old.corrections /\ interview'.stage = old.stage
    BY <1>1, <2>1 DEF InterviewRecords
  <2>3. QED
    BY <1>1, <2>1, <2>2, SessionChanges
<1>6. QED
  BY <1>3, <1>4, <1>5

LEMMA CorrectionsKeep ==
    ASSUME InterviewInv, NEW c \in InterviewCalls
    PROVE  /\ AskParse(c) => InterviewInv'
           /\ SubmitParsed(c) => InterviewInv'
           /\ \A patch \in Patches : AskCorrection(c, patch) => InterviewInv'
           /\ SubmitCorrection(c) => InterviewInv'
<1>1. PICK old, call :
        /\ old = interview /\ old \in InterviewRecords /\ old.told \subseteq old.applied \cup old.corrections
        /\ call = pending[c] /\ call \in InterviewCallRecords /\ CallHolds(call, old)
  BY DEF InterviewInv
<1>2. BoardHolds(board)
  BY DEF InterviewInv
<1>3. ASSUME AskParse(c) PROVE InterviewInv'
  <2>1. PICK new : new = [NoCall EXCEPT !.kind = "answer", !.section = old.section]
    OBVIOUS
  <2>2. Waits(c, new) /\ UNCHANGED <<interview, board>>
    BY <1>1, <1>3, <2>1 DEF AskParse
  <2>3. new \in InterviewCallRecords /\ new.kind = "answer" /\ new.due = {}
    BY <1>1, <2>1, FreeCall DEF InterviewCallRecords, InterviewRecords
  <2>4. CallHolds(new, old)
    BY <2>3 DEF CallHolds
  <2>5. QED
    BY <1>1, <1>2, <2>2, <2>3, <2>4, CallChanges
<1>4. ASSUME SubmitParsed(c) PROVE InterviewInv'
  <2>1. PICK n : n = advance(old.section, old.mode) /\ n \in 0..9
    BY <1>1 DEF InterviewRecords, advance
  <2>2. interview' = (IF call.section = old.section THEN [old EXCEPT !.section = n] ELSE old)
    BY <1>1, <1>4, <2>1 DEF SubmitParsed
  <2>3. /\ interview' \in InterviewRecords /\ interview'.told = old.told /\ interview'.applied = old.applied
        /\ interview'.corrections = old.corrections /\ interview'.stage = old.stage
    BY <1>1, <2>1, <2>2 DEF InterviewRecords
  <2>4. Waits(c, NoCall) /\ UNCHANGED board
    BY <1>4 DEF SubmitParsed, Ends
  <2>5. QED
    BY <1>1, <1>2, <2>3, <2>4, FreeCall, CallChanges
<1>5. ASSUME NEW patch \in Patches, AskCorrection(c, patch) PROVE InterviewInv'
  <2>1. PICK new : new = [NoCall EXCEPT !.kind = "correction", !.from = patch]
    OBVIOUS
  <2>2. Waits(c, new) /\ UNCHANGED <<interview, board>>
    BY <1>5, <2>1 DEF AskCorrection
  <2>3. patch \in SUBSET Corrections
    BY InterviewAssumption DEF InterviewAssumption
  <2>4. new \in InterviewCallRecords /\ new.kind = "correction" /\ new.due = {}
    BY <2>1, <2>3, FreeCall DEF InterviewCallRecords
  <2>5. CallHolds(new, old)
    BY <2>4 DEF CallHolds
  <2>6. QED
    BY <1>1, <1>2, <2>2, <2>4, <2>5, CallChanges
<1>6. ASSUME SubmitCorrection(c) PROVE InterviewInv'
  <2>1. interview' = [old EXCEPT !.confirmed = FALSE, !.corrections = @ \cup call.from, !.told = @ \cup call.from]
    BY <1>1, <1>6 DEF SubmitCorrection
  <2>2. call.from \in SUBSET Corrections
    BY <1>1 DEF InterviewCallRecords
  <2>3. /\ interview' \in InterviewRecords /\ interview'.applied = old.applied /\ interview'.stage = old.stage
        /\ interview'.told = old.told \cup call.from /\ interview'.corrections = old.corrections \cup call.from
    BY <1>1, <2>1, <2>2 DEF InterviewRecords
  <2>4. Waits(c, NoCall) /\ UNCHANGED board
    BY <1>6 DEF SubmitCorrection, Ends
  <2>5. QED
    BY <1>1, <1>2, <2>3, <2>4, FreeCall, CallChanges
<1>7. QED
  BY <1>3, <1>4, <1>5, <1>6

LEMMA AskingKeeps ==
    ASSUME InterviewInv, NEW c \in InterviewCalls
    PROVE  /\ AskBoard(c) => InterviewInv'
           /\ AskSeed(c) => InterviewInv'
           /\ \A domain \in ToSet(Fallback) : AskRegenerate(c, domain) => InterviewInv'
<1>1. PICK old : old = interview /\ old \in InterviewRecords /\ old.told \subseteq old.applied \cup old.corrections
  BY DEF InterviewInv
<1>2. BoardHolds(board)
  BY DEF InterviewInv
<1>3. ASSUME AskBoard(c) PROVE InterviewInv'
  <2>1. PICK corrected : corrected = old.applied \cup old.corrections
    OBVIOUS
  <2>2. PICK new : new = [NoCall EXCEPT !.kind = "confirm", !.from = corrected, !.due = old.told]
    OBVIOUS
  <2>3. Waits(c, new) /\ interview' = [old EXCEPT !.applied = corrected] /\ UNCHANGED board /\ old.stage = "live"
    BY <1>1, <1>3, <2>1, <2>2 DEF AskBoard
  <2>4. corrected \in SUBSET Corrections /\ old.told \in SUBSET Corrections /\ old.told \subseteq corrected
    BY <1>1, <2>1 DEF InterviewRecords
  <2>5. new \in InterviewCallRecords /\ new.kind = "confirm" /\ new.due = old.told /\ new.from = corrected
    BY <2>2, <2>4, FreeCall DEF InterviewCallRecords
  <2>6. /\ interview' \in InterviewRecords /\ interview'.told = old.told /\ interview'.applied = corrected
        /\ interview'.corrections = old.corrections /\ interview'.stage = "live"
    BY <1>1, <2>3, <2>4 DEF InterviewRecords
  <2>7. CallHolds(new, interview')
    BY <2>4, <2>5, <2>6 DEF CallHolds
  <2>8. interview'.told \subseteq interview'.applied \cup interview'.corrections /\ interview.applied \subseteq interview'.applied
    BY <1>1, <2>1, <2>6
  <2>9. QED
    BY <1>2, <2>3, <2>5, <2>6, <2>7, <2>8, CallChanges
<1>4. ASSUME AskSeed(c) PROVE InterviewInv'
  <2>1. PICK new : new = [NoCall EXCEPT !.kind = "seed"]
    OBVIOUS
  <2>2. Waits(c, new) /\ UNCHANGED <<interview, board>>
    BY <1>4, <2>1 DEF AskSeed
  <2>3. new \in InterviewCallRecords /\ new.kind = "seed" /\ new.due = {}
    BY <2>1, FreeCall DEF InterviewCallRecords
  <2>4. CallHolds(new, old)
    BY <2>3 DEF CallHolds
  <2>5. QED
    BY <1>1, <1>2, <2>2, <2>3, <2>4, CallChanges
<1>5. ASSUME NEW domain \in ToSet(Fallback), AskRegenerate(c, domain) PROVE InterviewInv'
  <2>1. PICK payload : payload = board["agent_blueprint"].payload
    OBVIOUS
  <2>2. PICK new : new = [NoCall EXCEPT !.kind = "regenerate", !.domain = domain, !.from = payload.from,
                                        !.due = payload.due, !.chairs = payload.chairs]
    OBVIOUS
  <2>3. Waits(c, new) /\ UNCHANGED <<interview, board>> /\ domain \in Domains(payload.chairs)
    BY <1>5, <2>1, <2>2 DEF AskRegenerate, Domains
  <2>4. Sound("agent_blueprint", payload)
    BY <1>2, <1>5, <2>1, IsOfBoard DEF AskRegenerate, BoardHolds
  <2>5. domain \in SeatDomains
    BY DEF Fallback, ToSet, SeatDomains
  <2>6. /\ new \in InterviewCallRecords /\ new.kind = "regenerate" /\ new.due = payload.due
        /\ new.from = payload.from /\ new.chairs = payload.chairs /\ new.domain = domain
    BY <2>2, <2>4, <2>5, FreeCall DEF InterviewCallRecords, Sound, Payloads
  <2>7. CallHolds(new, old)
    BY <2>3, <2>4, <2>6 DEF CallHolds, Sound
  <2>8. QED
    BY <1>1, <1>2, <2>3, <2>6, <2>7, CallChanges
<1>6. QED
  BY <1>3, <1>4, <1>5

LEMMA GeneratedKeeps ==
    ASSUME InterviewInv, NEW c \in InterviewCalls, NEW reply \in SeatReplies, NEW roster \in Rosters,
           NEW refused, NEW done, Generated(c, reply, roster, refused, done)
    PROVE  InterviewInv'
<1>1. PICK old, call :
        /\ old = interview /\ old \in InterviewRecords /\ old.told \subseteq old.applied \cup old.corrections
        /\ call = pending[c] /\ call \in InterviewCallRecords /\ CallHolds(call, old)
  BY DEF InterviewInv
<1>2. PICK chairs : chairs = buildBlueprintChairs(inferChairContexts(reply), roster)
  OBVIOUS
<1>3. chairs \in Seq(Chairs) /\ Filled(chairs)
  BY <1>2, ChairsBuilt
<1>4. PICK batch : batch = IF call.kind = "confirm" THEN generateArtifacts(call, old.applied, old.mode, chairs)
                           ELSE generateArtifacts(call, {}, "business", chairs)
  OBVIOUS
<1>5. call.kind \in {"confirm", "seed"} /\ board' = writeArtifacts(board, batch, done)
  BY <1>1, <1>2, <1>4 DEF Generated
<1>6. \A i \in DOMAIN batch : Sound(batch[i].type, batch[i].payload)
  <2>1. call.due \subseteq call.from /\ old.applied \in SUBSET Corrections
    BY <1>1 DEF CallHolds, InterviewRecords
  <2>2. CASE call.kind = "confirm"
    <3>1. call.due \subseteq old.applied
      BY <1>1, <2>2 DEF CallHolds
    <3>2. QED
      BY <1>1, <1>3, <1>4, <2>1, <2>2, <3>1, GenerationIsSound
  <2>3. CASE call.kind = "seed"
    <3>1. call.due = {}
      BY <1>1, <2>3 DEF CallHolds
    <3>2. batch = generateArtifacts(call, {}, "business", chairs)
      BY <1>4, <2>3
    <3>3. call.due \subseteq {} /\ {} \in SUBSET Corrections
      BY <3>1
    <3>4. QED
      BY <1>1, <1>3, <2>1, <3>2, <3>3, GenerationIsSound
  <2>4. QED
    BY <1>5, <2>2, <2>3
<1>7. BoardHolds(board')
  <2>1. BoardHolds(board)
    BY DEF InterviewInv
  <2>2. QED
    BY <1>5, <1>6, <2>1, BoardWritten
<1>8. \/ interview' = NoInterview /\ pending' = [d \in InterviewCalls |-> NoCall]
      \/ /\ \/ interview' = old
            \/ interview' = [old EXCEPT !.finalized = TRUE, !.stage = "deleted"]
            \/ interview' = [old EXCEPT !.finalized = TRUE, !.stage = old.stage]
         /\ Waits(c, NoCall)
  BY <1>1 DEF Generated, Ends
<1>9. CASE interview' = NoInterview /\ pending' = [d \in InterviewCalls |-> NoCall]
  BY <1>7, <1>9, MemoryIsGone
<1>10. ASSUME Waits(c, NoCall),
              \/ interview' = old
              \/ interview' = [old EXCEPT !.finalized = TRUE, !.stage = "deleted"]
              \/ interview' = [old EXCEPT !.finalized = TRUE, !.stage = old.stage]
       PROVE  InterviewInv'
  <2>1. /\ interview' \in InterviewRecords /\ interview'.told = old.told /\ interview'.applied = old.applied
        /\ interview'.corrections = old.corrections /\ interview'.stage \in {old.stage, "deleted"}
    BY <1>1, <1>10 DEF InterviewRecords
  <2>2. QED
    BY <1>1, <1>7, <1>10, <2>1, FreeCall, CallChanges
<1>11. QED
  BY <1>8, <1>9, <1>10

(* The first place of a domain. *)
FirstPlace(chairs, domain) ==
    CHOOSE i \in DOMAIN chairs : /\ chairs[i].domain = domain
                                 /\ \A j \in 1..i - 1 : chairs[j].domain # domain

LEMMA FirstPlaceIsOne ==
    ASSUME NEW chairs \in Seq(Chairs), NEW domain \in Domains(chairs)
    PROVE  /\ FirstPlace(chairs, domain) \in DOMAIN chairs
           /\ chairs[FirstPlace(chairs, domain)].domain = domain
<1>1. PICK n : n \in Nat /\ DOMAIN chairs = 1..n
  BY LenProperties
<1>2. PICK places : places = {i \in 1..n : chairs[i].domain = domain}
  OBVIOUS
<1>3. places \subseteq Nat /\ places # {}
  BY <1>1, <1>2 DEF Domains
<1>4. PICK m \in places : \A j \in places : ~(<<j, m>> \in OpToRel(<, Nat))
  BY <1>3, NatLessThanWellFounded, WFMin
<1>5. ASSUME NEW j \in 1..m - 1 PROVE chairs[j].domain # domain
  <2>0. m \in 1..n
    BY <1>2, <1>4
  <2>1. m \in 1..n /\ j \in 1..n /\ j \in Nat /\ m \in Nat /\ j < m
    BY <1>1, <2>0
  <2>2. <<j, m>> \in OpToRel(<, Nat)
    BY <2>1 DEF OpToRel
  <2>3. j \notin places
    BY <1>4, <2>2
  <2>4. QED
    BY <1>2, <2>1, <2>3
<1>6. m \in DOMAIN chairs /\ chairs[m].domain = domain
  BY <1>1, <1>2, <1>4
<1>7. QED
  BY <1>5, <1>6 DEF FirstPlace

Reseated(chairs, domain, roster) ==
    [i \in DOMAIN chairs |->
        IF chairs[i].domain = domain THEN [chairs[FirstPlace(chairs, domain)] EXCEPT !.roster = roster] ELSE chairs[i]]

LEMMA RegeneratedKeeps ==
    ASSUME InterviewInv, NEW c \in InterviewCalls, NEW roster \in Rosters, Regenerated(c, roster)
    PROVE  InterviewInv'
<1>1. PICK old, call :
        /\ old = interview /\ old \in InterviewRecords /\ old.told \subseteq old.applied \cup old.corrections
        /\ call = pending[c] /\ call \in InterviewCallRecords /\ CallHolds(call, old)
  BY DEF InterviewInv
<1>2. call.kind = "regenerate"
  BY <1>1 DEF Regenerated
<1>3. PICK read, domain :
        /\ read = call.chairs /\ read \in Seq(Chairs) /\ Filled(read)
        /\ domain = call.domain /\ domain \in Domains(read) /\ call.due \subseteq call.from
        /\ call.due \in SUBSET Corrections /\ call.from \in SUBSET Corrections
  BY <1>1, <1>2 DEF CallHolds, InterviewCallRecords
<1>4. PICK first : first = FirstPlace(read, domain)
  OBVIOUS
<1>5. PICK n : n \in Nat /\ DOMAIN read = 1..n /\ \A i \in 1..n : read[i] \in Chairs
  BY <1>3, SeqFacts
<1>6. first \in DOMAIN read /\ read[first].domain = domain
  BY <1>3, <1>4, FirstPlaceIsOne
<1>7. PICK chair : chair = [read[first] EXCEPT !.roster = roster]
  OBVIOUS
<1>8. PICK chairs : chairs = [i \in DOMAIN read |-> IF read[i].domain = domain THEN chair ELSE read[i]]
  OBVIOUS
<1>9. board' = writeArtifacts(board, <<Artifact("agent_blueprint", call.from, call.due, chairs)>>, 2)
  <2>1. board' = writeArtifacts(board, <<Artifact("agent_blueprint", pending[c].from, pending[c].due,
                                          Reseated(pending[c].chairs, pending[c].domain, roster))>>, 2)
    BY DEF Regenerated, Reseated, FirstPlace
  <2>2. chairs = Reseated(read, domain, roster)
    BY <1>4, <1>7, <1>8 DEF Reseated
  <2>3. QED
    BY <1>1, <1>3, <2>1, <2>2
<1>10. chairs \in Seq(Chairs) /\ Domains(chairs) = Domains(read)
  <2>1. read[first] \in Chairs
    BY <1>5, <1>6
  <2>2. chair \in Chairs /\ chair.domain = domain
    BY <1>6, <1>7, <2>1 DEF Chairs
  <2>3. \A i \in 1..n : (IF read[i].domain = domain THEN chair ELSE read[i]) \in Chairs
    BY <1>5, <2>2
  <2>4. chairs \in Seq(Chairs)
    BY <1>5, <1>8, <2>3
  <2>5. DOMAIN chairs = 1..n /\ \A i \in 1..n : chairs[i].domain = read[i].domain
    BY <1>5, <1>8, <2>2
  <2>6. QED
    BY <1>5, <2>4, <2>5 DEF Domains
<1>11. Filled(chairs)
  BY <1>3, <1>10 DEF Filled
<1>12. PICK payload : payload = [from |-> call.from, due |-> call.due, chairs |-> chairs]
  OBVIOUS
<1>13. Sound("agent_blueprint", payload)
  BY <1>3, <1>10, <1>11, <1>12, IsOfBoard DEF Sound, Payloads
<1>14. PICK batch : /\ batch = <<[type |-> "agent_blueprint", payload |-> payload]>>
                    /\ board' = writeArtifacts(board, batch, 2)
  BY <1>9, <1>12 DEF Artifact
<1>15. \A i \in DOMAIN batch : Sound(batch[i].type, batch[i].payload)
  <2>1. DOMAIN batch = {1} /\ batch[1] = [type |-> "agent_blueprint", payload |-> payload]
    BY <1>14
  <2>2. QED
    BY <1>13, <2>1
<1>16. BoardHolds(board')
  <2>1. BoardHolds(board)
    BY DEF InterviewInv
  <2>2. QED
    BY <1>14, <1>15, <2>1, BoardWritten
<1>17. Waits(c, NoCall) /\ interview' = old
  BY <1>1 DEF Regenerated, Ends
<1>18. QED
  BY <1>1, <1>16, <1>17, FreeCall, CallChanges

LEMMA InterviewInvStep == InterviewInv /\ [InterviewNext]_interviewVars => InterviewInv'
<1> SUFFICES ASSUME InterviewInv, [InterviewNext]_interviewVars PROVE InterviewInv'
  OBVIOUS
<1>1. interview \in InterviewRecords /\ interview.told \subseteq interview.applied \cup interview.corrections /\ BoardHolds(board)
  BY DEF InterviewInv
<1>2. CASE StartInterview \/ SayYes \/ \E mode \in {"business", "collective"} : Respond(mode)
  BY <1>2, AnswersKeep
<1>3. ASSUME NEW c \in InterviewCalls,
             \/ AskParse(c) \/ SubmitParsed(c)
             \/ \E patch \in Patches : AskCorrection(c, patch)
             \/ SubmitCorrection(c)
      PROVE  InterviewInv'
  BY <1>3, CorrectionsKeep
<1>4. ASSUME NEW c \in InterviewCalls,
             AskBoard(c) \/ AskSeed(c) \/ \E domain \in ToSet(Fallback) : AskRegenerate(c, domain)
      PROVE  InterviewInv'
  BY <1>4, AskingKeeps
<1>5. ASSUME NEW c \in InterviewCalls, NEW reply \in SeatReplies, NEW roster \in Rosters, NEW refused \in Refusals,
             NEW done \in 0..12, Generated(c, reply, roster, refused, done)
      PROVE  InterviewInv'
  BY <1>5, GeneratedKeeps
<1>6. ASSUME NEW c \in InterviewCalls, NEW roster \in Rosters, Regenerated(c, roster) PROVE InterviewInv'
  BY <1>6, RegeneratedKeeps
<1>7. ASSUME NEW c \in InterviewCalls, GenerationFails(c) PROVE InterviewInv'
  <2>1. Waits(c, NoCall) /\ UNCHANGED <<interview, board>>
    BY <1>7 DEF GenerationFails, Ends
  <2>2. QED
    BY <1>1, <2>1, FreeCall, CallChanges
<1>8. CASE InterviewRestart
  BY <1>1, <1>8, MemoryIsGone DEF InterviewRestart
<1>9. CASE UNCHANGED interviewVars
  BY <1>9 DEF interviewVars, InterviewInv
<1>10. QED
  BY <1>2, <1>3, <1>4, <1>5, <1>6, <1>7, <1>8, <1>9 DEF InterviewNext

(* The board is the one the user was shown, and no seat of it is empty:    *)
(* a confirmation applies what the user was told of by then and nothing is *)
(* taken back while the models are asked, what they answer is filled up to *)
(* the six seats, and a regeneration keeps the domain of every chair.      *)
THEOREM BoardStaysWhole == InterviewSpec => []BoardIsWhole
<1>1. InterviewInv => BoardIsWhole
  <2>1. ASSUME InterviewInv PROVE CorrectionsAreReflected
    BY <2>1 DEF InterviewInv, BoardHolds, CorrectionsAreReflected
  <2>2. ASSUME InterviewInv PROVE SeatsAreFilled
    BY <2>2, IsOfBoard DEF InterviewInv, BoardHolds, SeatsAreFilled, Sound, Filled, Domains
  <2>3. QED
    BY <2>1, <2>2 DEF BoardIsWhole
<1>2. QED
  BY <1>1, InterviewInvInit, InterviewInvStep, PTL DEF InterviewSpec

-----------------------------------------------------------------------------
(* Add-ins and the launch.  The inductive invariant says of the add-ins    *)
(* that a page is in the web's build only if its files are on disk, so a   *)
(* rebuild does not take it out while its pack is installed; and of the    *)
(* launch that everything is on file once it is logged as written.         *)
FileNames == SchemaTypes \cup {"manifest", "page"}

InstallRecords == [pack : Packs \cup {"none"}, todo : Seq(FileNames)]

Unserved(p) == p \notin webPages \cup rebuildPending \cup dismissed

AddinInv ==
    /\ registry \in Seq(Packs)
    /\ packFiles \in [Packs -> SUBSET FileNames]
    /\ \A p \in webPages : p \in Packs /\ {"manifest", "page"} \subseteq packFiles[p]
    /\ installing \in [Installers -> InstallRecords]
    /\ addinCrashes \in Nat
    /\ \A p \in ToSet(registry) \cap PackPages : Unserved(p) => addinCrashes > 0

(* What leaves the packs alone, whether the process dies or not. *)
LEMMA PacksAreLeft ==
    ASSUME AddinInv, UNCHANGED <<registry, packFiles, rebuildPending, webPages, dismissed>>,
           addinCrashes' \in {addinCrashes, addinCrashes + 1},
           installing' = installing \/ installing' = [i \in Installers |-> NotInstalling]
    PROVE  AddinInv'
<1>1. [i \in Installers |-> NotInstalling] \in [Installers -> InstallRecords]
  <2>1. <<>> \in Seq(FileNames)
    BY EmptySeq
  <2>2. QED
    BY <2>1 DEF NotInstalling, InstallRecords
<1>2. addinCrashes' \in Nat /\ (addinCrashes > 0 => addinCrashes' > 0)
  BY DEF AddinInv
<1>3. QED
  BY <1>1, <1>2 DEF AddinInv, Unserved

(* Files come and none goes; the rest stays. *)
LEMMA FilesCome ==
    ASSUME AddinInv, UNCHANGED <<registry, rebuildPending, webPages, dismissed, addinCrashes>>,
           packFiles' \in [Packs -> SUBSET FileNames], \A p \in Packs : packFiles[p] \subseteq packFiles'[p],
           installing' \in [Installers -> InstallRecords]
    PROVE  AddinInv'
<1>1. \A p \in webPages : p \in Packs /\ {"manifest", "page"} \subseteq packFiles'[p]
  BY DEF AddinInv
<1>2. QED
  BY <1>1 DEF AddinInv, Unserved

LEMMA FilesOfPack == ASSUME NEW p \in Packs PROVE Files(p) \in Seq(FileNames)
<1>1. PICK types : types = PackTypes[p] /\ types \in Seq(SchemaTypes)
  BY AddinAssumption DEF AddinAssumption
<1>2. types \in Seq(FileNames)
  <2>1. DOMAIN types = 1..Len(types) /\ Len(types) \in Nat /\ \A k \in 1..Len(types) : types[k] \in FileNames
    BY <1>1, SeqFacts DEF FileNames
  <2>2. QED
    BY <1>1, <2>1
<1>3. PICK page : page = IF p \in PackPages THEN <<"page">> ELSE <<>>
  OBVIOUS
<1>4. page \in Seq(FileNames)
  <2>1. PICK name : name = "page" /\ name \in FileNames
    BY DEF FileNames
  <2>2. <<name>> \in Seq(FileNames) /\ <<>> \in Seq(FileNames)
    BY <2>1, EmptySeq
  <2>3. QED
    BY <1>3, <2>1, <2>2
<1>5. types \o page \in Seq(FileNames)
  BY <1>2, <1>4, ConcatProperties
<1>6. QED
  BY <1>1, <1>3, <1>5 DEF Files

LEMMA InstallKeeps ==
    ASSUME AddinInv, NEW i \in Installers
    PROVE  /\ \A p \in Packs : installPack(i, p) => AddinInv'
           /\ \A ok \in BOOLEAN : FetchFile(i, ok) => AddinInv'
<1>1. PICK old, files :
        /\ old = installing /\ old \in [Installers -> InstallRecords]
        /\ files = packFiles /\ files \in [Packs -> SUBSET FileNames]
  BY DEF AddinInv
<1>2. ASSUME NEW p \in Packs, installPack(i, p) PROVE AddinInv'
  <2>1. PICK new : new = [pack |-> p, todo |-> Files(p)] /\ new \in InstallRecords
    <3>1. PICK todo : todo = Files(p) /\ todo \in Seq(FileNames)
      BY FilesOfPack
    <3>2. [pack |-> p, todo |-> todo] \in InstallRecords
      BY <3>1 DEF InstallRecords
    <3>3. QED
      BY <3>1, <3>2
  <2>2. installing' = [old EXCEPT ![i] = new] /\ packFiles' = [files EXCEPT ![p] = @ \cup {"manifest"}]
    BY <1>1, <1>2, <2>1 DEF installPack
  <2>3. installing' \in [Installers -> InstallRecords]
    BY <1>1, <2>1, <2>2
  <2>4. packFiles' \in [Packs -> SUBSET FileNames] /\ \A q \in Packs : files[q] \subseteq packFiles'[q]
    BY <1>1, <2>2 DEF FileNames
  <2>5. QED
    BY <1>1, <1>2, <2>3, <2>4, FilesCome DEF installPack
<1>3. ASSUME NEW ok \in BOOLEAN, FetchFile(i, ok) PROVE AddinInv'
  <2>1. PICK todo, p : todo = old[i].todo /\ p = old[i].pack /\ todo \in Seq(FileNames) /\ todo # <<>>
    BY <1>1, <1>3 DEF FetchFile, InstallRecords
  <2>2. Head(todo) \in FileNames /\ Tail(todo) \in Seq(FileNames)
    BY <2>1, HeadTailProperties
  <2>3. PICK new : new = [old[i] EXCEPT !.todo = Tail(todo)] /\ new \in InstallRecords
    <3>1. PICK rest : rest = Tail(todo) /\ rest \in Seq(FileNames)
      BY <2>2
    <3>2. [old[i] EXCEPT !.todo = rest] \in InstallRecords
      BY <1>1, <3>1 DEF InstallRecords
    <3>3. QED
      BY <3>1, <3>2
  <2>4. installing' = [old EXCEPT ![i] = new]
    BY <1>1, <1>3, <2>1, <2>3 DEF FetchFile
  <2>5. installing' \in [Installers -> InstallRecords]
    BY <1>1, <2>3, <2>4
  <2>6. packFiles' = IF ok THEN [files EXCEPT ![p] = @ \cup {Head(todo)}] ELSE files
    BY <1>1, <1>3, <2>1 DEF FetchFile
  <2>7. packFiles' \in [Packs -> SUBSET FileNames] /\ \A q \in Packs : files[q] \subseteq packFiles'[q]
    BY <1>1, <2>2, <2>6
  <2>8. QED
    BY <1>1, <1>3, <2>5, <2>7, FilesCome DEF FetchFile
<1>4. QED
  BY <1>2, <1>3

LEMMA RegisterKeeps == ASSUME AddinInv, NEW i \in Installers, NEW done \in 1..2, Register(i, done) PROVE AddinInv'
<1>1. PICK old : old = installing /\ old \in [Installers -> InstallRecords]
  BY DEF AddinInv
<1>2. PICK p : p = old[i].pack /\ p \in Packs
  BY <1>1 DEF Register, InstallRecords
<1>3. registry \in Seq(Packs)
  BY DEF AddinInv
<1>4. registry' \in Seq(Packs) /\ ToSet(registry') \subseteq ToSet(registry) \cup {p}
  <2>1. registry' = IF p \in ToSet(registry) THEN registry ELSE Append(registry, p)
    BY <1>1, <1>2 DEF Register, Registered
  <2>2. PICK longer, n : longer = Append(registry, p) /\ n = Len(registry) /\ n \in Nat /\ DOMAIN registry = 1..n
    BY <1>3, LenProperties
  <2>3. longer \in Seq(Packs) /\ DOMAIN longer = 1..n + 1 /\ longer[n + 1] = p /\ \A k \in 1..n : longer[k] = registry[k]
    BY <1>2, <1>3, <2>2, AppendProperties
  <2>4. ToSet(longer) \subseteq ToSet(registry) \cup {p}
    <3>1. ASSUME NEW k \in DOMAIN longer PROVE longer[k] \in ToSet(registry) \cup {p}
      <4>1. k = n + 1 \/ k \in DOMAIN registry
        BY <2>2, <2>3, <3>1
      <4>2. QED
        BY <2>2, <2>3, <4>1 DEF ToSet
    <3>2. QED
      BY <3>1 DEF ToSet
  <2>5. QED
    BY <1>3, <2>1, <2>2, <2>3, <2>4
<1>5. CASE done = 2
  <2>1. /\ rebuildPending' = (IF p \in PackPages THEN rebuildPending \cup {p} ELSE rebuildPending)
        /\ dismissed' = dismissed \ {p}
        /\ installing' = [old EXCEPT ![i] = NotInstalling]
        /\ UNCHANGED <<addinCrashes, packFiles, webPages>>
    BY <1>1, <1>2, <1>5 DEF Register
  <2>2. NotInstalling \in InstallRecords
    <3>1. <<>> \in Seq(FileNames)
      BY EmptySeq
    <3>2. QED
      BY <3>1 DEF NotInstalling, InstallRecords
  <2>3. installing' \in [Installers -> InstallRecords]
    BY <1>1, <2>1, <2>2
  <2>4. \A q \in ToSet(registry') \cap PackPages : Unserved(q)' => addinCrashes' > 0
    BY <1>4, <2>1 DEF AddinInv, Unserved
  <2>5. QED
    BY <1>4, <2>1, <2>3, <2>4 DEF AddinInv
<1>6. CASE done # 2
  <2>1. /\ addinCrashes' = addinCrashes + 1 /\ installing' = [j \in Installers |-> NotInstalling]
        /\ UNCHANGED <<packFiles, webPages, rebuildPending, dismissed>>
    BY <1>6 DEF Register, AddinDies
  <2>2. addinCrashes' \in Nat /\ addinCrashes' > 0
    BY <2>1 DEF AddinInv
  <2>3. installing' \in [Installers -> InstallRecords]
    <3>1. <<>> \in Seq(FileNames)
      BY EmptySeq
    <3>2. QED
      BY <2>1, <3>1 DEF NotInstalling, InstallRecords
  <2>4. QED
    BY <1>4, <2>1, <2>2, <2>3 DEF AddinInv
<1>7. QED
  BY <1>5, <1>6

LEMMA UninstallKeeps == ASSUME AddinInv, NEW p \in Packs, uninstallPack(p) PROVE AddinInv'
<1>1. PICK old, n : /\ old = registry /\ old \in Seq(Packs) /\ n = Len(old) /\ n \in Nat /\ DOMAIN old = 1..n
                    /\ \A k \in 1..n : old[k] \in Packs
  BY SeqFacts DEF AddinInv
<1>2. PICK place : place = CHOOSE i \in DOMAIN old : old[i] = p
  OBVIOUS
<1>3. place \in 1..n
  BY <1>1, <1>2 DEF uninstallPack, ToSet
<1>4. PICK before, behind : before = SubSeq(old, 1, place - 1) /\ behind = SubSeq(old, place + 1, n)
  OBVIOUS
<1>5. registry' = before \o behind
  BY <1>1, <1>2, <1>4 DEF uninstallPack, RemoveAt
<1>6. PICK S : S = ToSet(old)
  OBVIOUS
<1>7. \A k \in 1..n : old[k] \in S
  BY <1>1, <1>6 DEF ToSet
<1>8. before \in Seq(S) /\ behind \in Seq(S)
  <2>1. /\ 1 \in Int /\ place - 1 \in Int /\ place + 1 \in Int /\ n \in Int
        /\ \A k \in 1..place - 1 : old[k] \in S
        /\ \A k \in place + 1..n : old[k] \in S
    BY <1>1, <1>3, <1>7
  <2>2. QED
    BY <1>4, <2>1, SubSeqProperties
<1>9. registry' \in Seq(S)
  BY <1>5, <1>8, ConcatProperties
<1>10. ToSet(registry') \subseteq S /\ S \subseteq Packs
  BY <1>1, <1>6, <1>9, SeqFacts
<1>11. registry' \in Seq(Packs)
  <2>1. PICK new, m : new = registry' /\ new \in Seq(S) /\ m = Len(new) /\ m \in Nat /\ DOMAIN new = 1..m
                      /\ \A k \in 1..m : new[k] \in Packs
    BY <1>9, <1>10, SeqFacts
  <2>2. QED
    BY <2>1
<1>12. UNCHANGED <<packFiles, rebuildPending, webPages, installing, dismissed, addinCrashes>>
  BY DEF uninstallPack
<1>13. QED
  BY <1>1, <1>6, <1>10, <1>11, <1>12 DEF AddinInv, Unserved

LEMMA WebKeeps ==
    ASSUME AddinInv
    PROVE  /\ Rebuild => AddinInv'
           /\ clearRebuildPending => AddinInv'
           /\ \A builds \in BOOLEAN : WebStarts(builds) => AddinInv'
<1>1. ASSUME Rebuild PROVE AddinInv'
  BY <1>1, PacksAreLeft DEF Rebuild
<1>2. ASSUME clearRebuildPending PROVE AddinInv'
  BY <1>2 DEF clearRebuildPending, AddinInv, Unserved
<1>3. ASSUME NEW builds \in BOOLEAN, WebStarts(builds) PROVE AddinInv'
  <2>1. registry \in Seq(Packs) /\ ToSet(registry) \subseteq Packs
    BY SeqFacts DEF AddinInv
  <2>2. \A p \in webPages' : p \in Packs /\ {"manifest", "page"} \subseteq packFiles[p]
    BY <1>3, <2>1 DEF WebStarts, generateRegistry, AddinInv
  <2>3. \A p \in ToSet(registry) : p \in webPages => p \in webPages'
    BY <1>3 DEF WebStarts, generateRegistry, AddinInv
  <2>4. UNCHANGED <<registry, packFiles, rebuildPending, installing, dismissed, addinCrashes>>
    BY <1>3 DEF WebStarts
  <2>5. QED
    BY <2>2, <2>3, <2>4 DEF AddinInv, Unserved
<1>4. QED
  BY <1>1, <1>2, <1>3

LEMMA AddinInvStep == ASSUME AddinInv, AddinActions PROVE AddinInv'
<1>1. ASSUME AddinRestart PROVE AddinInv'
  BY <1>1, PacksAreLeft DEF AddinRestart, AddinDies
<1>2. QED
  BY <1>1, InstallKeeps, RegisterKeeps, UninstallKeeps, WebKeeps DEF AddinActions

StoreHolds(kept) == DOMAIN kept = VentureTypes /\ \A type \in VentureTypes : kept[type].versions \in Nat

LaunchInv ==
    /\ AddinInv
    /\ StoreHolds(ventureStore)
    /\ launchLog \in [started : Nat, written : Nat]
    /\ LaunchedMeansRunnable

(* A batch is on file as far as it was written, and nothing is taken away. *)
LEMMA StoreGrows ==
    ASSUME NEW kept, StoreHolds(kept), NEW batch, NEW done, NEW new, new = writeArtifacts(kept, batch, done)
    PROVE  /\ StoreHolds(new)
           /\ \A type \in VentureTypes : OnFile(kept, type) => OnFile(new, type)
           /\ \A i \in DOMAIN batch : /\ batch[i].type \in VentureTypes
                                      /\ 2 * i - 1 <= done /\ 2 * i <= done
                                      => OnFile(new, batch[i].type)
<1>1. DOMAIN new = VentureTypes
  BY DEF StoreHolds, writeArtifacts
<1>2. ASSUME NEW type \in VentureTypes
      PROVE  /\ new[type].versions \in Nat /\ (OnFile(kept, type) => OnFile(new, type))
             /\ \A i \in DOMAIN batch :
                  batch[i].type = type /\ 2 * i - 1 <= done /\ 2 * i <= done => OnFile(new, type)
  <2>1. PICK n : n = kept[type].versions /\ n \in Nat
    BY <1>2 DEF StoreHolds
  <2>2. PICK mine, filed :
          /\ mine = {i \in DOMAIN batch : batch[i].type = type /\ 2 * i - 1 <= done}
          /\ filed = {i \in mine : 2 * i <= done}
    OBVIOUS
  <2>3. new[type] = IF mine = {} THEN kept[type]
                    ELSE [versions |-> IF filed = {} THEN n ELSE n + 1,
                          logged |-> kept[type].logged + 1,
                          payload |-> IF filed = {} THEN kept[type].payload
                                      ELSE batch[CHOOSE i \in filed : TRUE].payload]
    BY <1>2, <2>1, <2>2 DEF writeArtifacts, StoreHolds
  <2>4. filed # {} => mine # {}
    BY <2>2
  <2>5. new[type].versions = IF filed = {} THEN n ELSE n + 1
    BY <2>1, <2>3, <2>4
  <2>6. QED
    BY <2>1, <2>2, <2>5 DEF OnFile
<1>3. QED
  BY <1>1, <1>2 DEF StoreHolds

(* What a finalization writes and what is there before are all there is. *)
LEMMA BatchIsWhole ==
    ASSUME NEW batch, batch = FinalizedArtifacts
    PROVE  /\ Len(batch) \in Nat /\ DOMAIN batch = 1..Len(batch)
           /\ \A i \in DOMAIN batch : batch[i].payload = "launch"
           /\ \A type \in VentureTypes : OnFile(ventureStore, type) \/ \E i \in DOMAIN batch : batch[i].type = type
<1>1. PICK S : S = VentureTypes
  OBVIOUS
<1>2. PICK there : there = {type \in S : OnFile(ventureStore, type)}
  OBVIOUS
<1>3. PICK launch, agents, e1, e2, e3, e4 :
        /\ launch = LaunchTypes /\ agents = "agent_blueprint"
        /\ e1 = ExecutionTypes[1] /\ e2 = ExecutionTypes[2] /\ e3 = ExecutionTypes[3] /\ e4 = ExecutionTypes[4]
  OBVIOUS
<1>4. ToSet(ExecutionTypes) = {e1, e2, e3, e4}
  <2>1. DOMAIN ExecutionTypes = 1..4
    BY DEF ExecutionTypes
  <2>2. 1..4 = {1, 2, 3, 4}
    OBVIOUS
  <2>3. ToSet(ExecutionTypes) = {ExecutionTypes[k] : k \in {1, 2, 3, 4}}
    BY <2>1, <2>2 DEF ToSet
  <2>4. QED
    BY <1>3, <2>3
<1>5. S = ToSet(launch) \cup {agents} \cup {e1, e2, e3, e4}
  BY <1>1, <1>3, <1>4 DEF VentureTypes
<1>6. launch \in Seq(S)
  <2>1. DOMAIN launch = 1..4
    BY <1>3 DEF LaunchTypes
  <2>2. launch = [k \in 1..4 |-> launch[k]]
    BY <1>3, <2>1 DEF LaunchTypes
  <2>3. \A k \in 1..4 : launch[k] \in S
    BY <1>5, <2>1 DEF ToSet
  <2>4. QED
    BY <2>2, <2>3
<1>7. PICK s0, s1, s2, s3, s4 :
        /\ s0 = Seated(launch, agents, there) /\ s1 = Seated(s0, e1, there) /\ s2 = Seated(s1, e2, there)
        /\ s3 = Seated(s2, e3, there) /\ s4 = Seated(s3, e4, there)
  OBVIOUS
<1>8. s0 \in Seq(S) /\ ToSet(launch) \subseteq ToSet(s0) /\ agents \in there \cup ToSet(s0)
  BY <1>5, <1>6, <1>7, SeatAdded
<1>9. s1 \in Seq(S) /\ ToSet(s0) \subseteq ToSet(s1) /\ e1 \in there \cup ToSet(s1)
  BY <1>5, <1>7, <1>8, SeatAdded
<1>10. s2 \in Seq(S) /\ ToSet(s1) \subseteq ToSet(s2) /\ e2 \in there \cup ToSet(s2)
  BY <1>5, <1>7, <1>9, SeatAdded
<1>11. s3 \in Seq(S) /\ ToSet(s2) \subseteq ToSet(s3) /\ e3 \in there \cup ToSet(s3)
  BY <1>5, <1>7, <1>10, SeatAdded
<1>12. s4 \in Seq(S) /\ ToSet(s3) \subseteq ToSet(s4) /\ e4 \in there \cup ToSet(s4)
  BY <1>5, <1>7, <1>11, SeatAdded
<1>13. \A type \in S : type \in there \cup ToSet(s4)
  BY <1>5, <1>8, <1>9, <1>10, <1>11, <1>12
<1>14. batch = LaunchArtifacts(s4, "launch")
  <2>1. \A s : \A type \in S : Seated(s, type, there) = s \o (IF OnFile(ventureStore, type) THEN <<>> ELSE <<type>>)
    BY <1>2 DEF Seated
  <2>2. PICK m0, m1, m2, m3, m4 :
          /\ m0 = (IF OnFile(ventureStore, agents) THEN <<>> ELSE <<agents>>)
          /\ m1 = (IF OnFile(ventureStore, e1) THEN <<>> ELSE <<e1>>)
          /\ m2 = (IF OnFile(ventureStore, e2) THEN <<>> ELSE <<e2>>)
          /\ m3 = (IF OnFile(ventureStore, e3) THEN <<>> ELSE <<e3>>)
          /\ m4 = (IF OnFile(ventureStore, e4) THEN <<>> ELSE <<e4>>)
    OBVIOUS
  <2>3. s4 = launch \o m0 \o m1 \o m2 \o m3 \o m4
    <3>1. agents \in S /\ e1 \in S /\ e2 \in S /\ e3 \in S /\ e4 \in S
      BY <1>5
    <3>2. s0 = launch \o m0 /\ s1 = s0 \o m1
      BY <1>7, <2>1, <2>2, <3>1
    <3>3. s2 = s1 \o m2 /\ s3 = s2 \o m3 /\ s4 = s3 \o m4
      BY <1>7, <2>1, <2>2, <3>1
    <3>4. QED
      BY <3>2, <3>3
  <2>4. QED
    BY <1>3, <2>2, <2>3 DEF FinalizedArtifacts
<1>15. PICK n : n \in Nat /\ n = Len(s4) /\ DOMAIN s4 = 1..n
  BY <1>12, LenProperties
<1>16. batch = [i \in 1..n |-> [type |-> s4[i], payload |-> "launch"]]
  BY <1>14, <1>15 DEF LaunchArtifacts
<1>17. /\ Len(batch) = n /\ DOMAIN batch = 1..n
       /\ \A i \in 1..n : batch[i].type = s4[i] /\ batch[i].payload = "launch"
  BY <1>15, <1>16
<1>18. ASSUME NEW type \in VentureTypes PROVE OnFile(ventureStore, type) \/ \E i \in DOMAIN batch : batch[i].type = type
  <2>1. type \in there \/ type \in ToSet(s4)
    BY <1>1, <1>13, <1>18
  <2>2. QED
    BY <1>2, <1>15, <1>17, <2>1 DEF ToSet
<1>19. QED
  BY <1>15, <1>17, <1>18

LEMMA LaunchInvInit == LaunchInit => LaunchInv
<1> SUFFICES ASSUME LaunchInit PROVE LaunchInv
  OBVIOUS
<1>1. AddinInv
  <2>1. <<>> \in Seq(Packs) /\ <<>> \in Seq(FileNames) /\ ToSet(<<>>) = {}
    BY EmptySeq DEF ToSet
  <2>2. NotInstalling \in InstallRecords
    BY <2>1 DEF NotInstalling, InstallRecords
  <2>3. QED
    BY <2>1, <2>2 DEF LaunchInit, AddinInit, AddinInv
<1>2. StoreHolds(ventureStore)
  <2>1. PICK found : ventureStore = [type \in VentureTypes |->
            IF type \in found THEN [versions |-> 1, logged |-> 1, payload |-> "interview"] ELSE NoArtifact]
    BY DEF LaunchInit
  <2>2. NoArtifact.versions = 0
    BY DEF NoArtifact
  <2>3. QED
    BY <2>1, <2>2 DEF StoreHolds
<1>3. launchLog = [started |-> 0, written |-> 0]
  BY DEF LaunchInit
<1>4. QED
  BY <1>1, <1>2, <1>3 DEF LaunchInv, LaunchedMeansRunnable

(* A batch is written: an event tells of it only when everything is there. *)
LEMMA WriteKeeps ==
    ASSUME LaunchInv, NEW batch, NEW done, NEW after, NEW events \in {0, 1}, WriteVenture(batch, done, after, events),
           events = 1 => /\ Len(batch) \in Nat /\ DOMAIN batch = 1..Len(batch)
                         /\ Reach(batch, Unloadable) = Len(batch)
                         /\ \A type \in VentureTypes :
                              OnFile(ventureStore, type) \/ \E i \in DOMAIN batch : batch[i].type = type
    PROVE  LaunchInv'
<1>1. PICK reach : reach = Reach(batch, Unloadable)
  OBVIOUS
<1>2. AddinInv'
  <2>1. UNCHANGED <<registry, packFiles, rebuildPending, webPages, dismissed>>
    BY DEF WriteVenture
  <2>2. \/ addinCrashes' = addinCrashes + 1 /\ installing' = [i \in Installers |-> NotInstalling]
        \/ addinCrashes' = addinCrashes /\ installing' = installing
    BY DEF WriteVenture, AddinDies
  <2>3. QED
    BY <2>1, <2>2, PacksAreLeft DEF LaunchInv
<1>3. ventureStore' = writeArtifacts(ventureStore, batch, done) /\ StoreHolds(ventureStore)
  BY DEF WriteVenture, LaunchInv
<1>4. /\ StoreHolds(ventureStore')
      /\ \A type \in VentureTypes : OnFile(ventureStore, type) => OnFile(ventureStore', type)
      /\ \A i \in DOMAIN batch : batch[i].type \in VentureTypes /\ 2 * i - 1 <= done /\ 2 * i <= done
                                 => OnFile(ventureStore', batch[i].type)
  BY <1>3, StoreGrows
<1>5. PICK log : log = launchLog /\ log \in [started : Nat, written : Nat]
  BY DEF LaunchInv
<1>6. launchLog' = log \/ launchLog' = [log EXCEPT !.written = log.written + events]
  BY <1>5 DEF WriteVenture
<1>7. launchLog' \in [started : Nat, written : Nat]
  BY <1>5, <1>6
<1>8. ASSUME launchLog'.written > 0, NEW type \in VentureTypes PROVE OnFile(ventureStore', type)
  <2>1. CASE log.written > 0
    BY <1>4, <1>5, <1>8, <2>1 DEF LaunchInv, LaunchedMeansRunnable
  <2>2. CASE ~(log.written > 0)
    <3>1. events = 1 /\ launchLog' # log
      BY <1>5, <1>6, <1>8, <2>2
    <3>2. ~(done < 2 * reach) /\ done \in 0..2 * reach
      BY <1>1, <1>5, <3>1 DEF WriteVenture
    <3>3. PICK n : /\ n = Len(batch) /\ n \in Nat /\ DOMAIN batch = 1..n /\ reach = n
                   /\ OnFile(ventureStore, type) \/ \E i \in DOMAIN batch : batch[i].type = type
      BY <1>1, <1>8, <3>1
    <3>4. \A i \in 1..n : 2 * i - 1 <= done /\ 2 * i <= done
      BY <3>2, <3>3
    <3>5. QED
      BY <1>4, <1>8, <3>3, <3>4
  <2>3. QED
    BY <2>1, <2>2
<1>9. LaunchedMeansRunnable'
  BY <1>8 DEF LaunchedMeansRunnable, OnFile
<1>10. QED
  BY <1>2, <1>4, <1>7, <1>9 DEF LaunchInv, StoreHolds

LEMMA LaunchInvStep == LaunchInv /\ [LaunchNext]_launchVars => LaunchInv'
<1> SUFFICES ASSUME LaunchInv, [LaunchNext]_launchVars PROVE LaunchInv'
  OBVIOUS
<1>1. PICK log : log = launchLog /\ log \in [started : Nat, written : Nat]
  BY DEF LaunchInv
<1>2. ASSUME AddinInv', UNCHANGED ventureStore, launchLog' \in [started : Nat, written : Nat],
             launchLog'.written = log.written
      PROVE  LaunchInv'
  BY <1>1, <1>2 DEF LaunchInv, StoreHolds, LaunchedMeansRunnable, OnFile
<1>3. ASSUME AddinActions, UNCHANGED <<ventureStore, launchLog>> PROVE LaunchInv'
  BY <1>1, <1>2, <1>3, AddinInvStep DEF LaunchInv
<1>4. ASSUME UNCHANGED addinVars PROVE AddinInv'
  BY <1>4 DEF addinVars, LaunchInv, AddinInv, Unserved
<1>5. CASE StartLaunch
  <2>1. UNCHANGED <<addinVars, ventureStore>> /\ launchLog' = [log EXCEPT !.started = @ + 1]
    BY <1>1, <1>5 DEF StartLaunch
  <2>2. launchLog' \in [started : Nat, written : Nat] /\ launchLog'.written = log.written
    BY <1>1, <2>1
  <2>3. QED
    BY <1>2, <1>4, <2>1, <2>2
<1>6. ASSUME NEW sound \in BOOLEAN, NEW confirmed \in BOOLEAN, SubmitSection(sound, confirmed) PROVE LaunchInv'
  BY <1>1, <1>2, <1>4, <1>6 DEF SubmitSection
<1>7. ASSUME NEW done \in 0..18, FinalizeLaunch(done) PROVE LaunchInv'
  <2>1. PICK batch : batch = FinalizedArtifacts
    OBVIOUS
  <2>2. PICK after, events :
          /\ WriteVenture(batch, done, after, events)
          /\ events = IF Reach(batch, Unloadable) = Len(batch) THEN 1 ELSE 0
    BY <1>7, <2>1 DEF FinalizeLaunch
  <2>3. QED
    BY <2>1, <2>2, BatchIsWhole, WriteKeeps
<1>8. ASSUME NEW type \in PostedTypes, NEW done \in 0..2, PostArtifact(type, done) PROVE LaunchInv'
  <2>1. PICK batch : WriteVenture(batch, done, venture, 0)
    BY <1>8 DEF PostArtifact
  <2>2. QED
    BY <2>1, WriteKeeps
<1>9. CASE LaunchRestart
  <2>1. AddinInv'
    BY <1>9, PacksAreLeft DEF LaunchRestart, AddinDies, LaunchInv
  <2>2. QED
    BY <1>1, <1>2, <1>9, <2>1 DEF LaunchRestart
<1>10. CASE UNCHANGED launchVars
  BY <1>1, <1>2, <1>4, <1>10 DEF launchVars
<1>11. QED
  BY <1>3, <1>5, <1>6, <1>7, <1>8, <1>9, <1>10 DEF LaunchNext

(* What was installed can be seen, and what was launched can be run,       *)
(* whatever packs come and go, builds fail and processes die: a page out   *)
(* of the web's build was asked for, or dismissed, or lost to a crash, and *)
(* a launch is logged as written when all its artifacts are on file.       *)
THEOREM InstalledIsUsable == LaunchSpec => []InstalledMeansUsable
<1>1. LaunchInv => InstalledMeansUsable
  BY DEF LaunchInv, AddinInv, Unserved, InstalledMeansUsable, UnservedPagesAreAskedFor
<1>2. QED
  BY <1>1, LaunchInvInit, LaunchInvStep, PTL DEF LaunchSpec

-----------------------------------------------------------------------------
(* The freeform chat.  The inductive invariant adds to RepliesAreKept that *)
(* turns, under way or ended, are of sessions there are.                   *)
AiSessionRecords == [messages : Seq(Nat), model : ChatModels \cup {"none"}, torn : BOOLEAN]

TurnRecords == [session : Nat, history : Seq(Nat), model : ChatModels \cup {"none"},
                streaming : BOOLEAN, tokens : BOOLEAN]

EndedRecords == [session : Nat, told : {"end", "error", "nothing"}]

(* RepliesAreKept of one session, after the turns of `list` have ended.    *)
SessionHolds(session, k, list) == ~session.torn =>
    /\ \A i \in DOMAIN list : list[i].session = k /\ list[i].told = "end" => i \in ToSet(session.messages)
    /\ \A i \in ToSet(session.messages) :
          i \in DOMAIN list /\ list[i].session = k /\ list[i].told \in {"end", "nothing"}
    /\ \A i, j \in DOMAIN session.messages : i < j => session.messages[i] < session.messages[j]

Untold(list) == {i \in DOMAIN list : list[i].told = "nothing"}

SessionsHold(sessions, list) ==
    /\ sessions \in Seq(AiSessionRecords)
    /\ list \in Seq(EndedRecords) /\ \A i \in DOMAIN list : list[i].session \in DOMAIN sessions
    /\ \A k \in DOMAIN sessions : SessionHolds(sessions[k], k, list)

TurnsHold(all, sessions) ==
    /\ all \in [Turns -> TurnRecords]
    /\ \A u \in Turns : /\ all[u] # NoTurn => all[u].session \in DOMAIN sessions
                        /\ all[u].tokens => all[u].streaming

AiInv ==
    /\ SessionsHold(aiSessions, ended)
    /\ TurnsHold(turns, aiSessions)
    /\ aiCrashes \in 0..MaxAiCrashes
    /\ Cardinality(Untold(ended)) <= aiCrashes

LEMMA IdleTurn == NoTurn \in TurnRecords /\ NoTurn.session = 0 /\ ~NoTurn.tokens
<1>1. <<>> \in Seq(Nat)
  BY EmptySeq
<1>2. QED
  BY <1>1 DEF NoTurn, TurnRecords

LEMMA NobodyTurns == ASSUME NEW sessions PROVE TurnsHold([u \in Turns |-> NoTurn], sessions)
BY IdleTurn DEF TurnsHold

LEMMA AiInvInit == AiInit => AiInv
<1> SUFFICES ASSUME AiInit PROVE AiInv
  OBVIOUS
<1>1. aiSessions = <<>> /\ ended = <<>> /\ aiCrashes = 0 /\ turns = [u \in Turns |-> NoTurn]
  BY DEF AiInit
<1>2. <<>> \in Seq(AiSessionRecords) /\ <<>> \in Seq(EndedRecords) /\ DOMAIN <<>> = {}
  BY EmptySeq
<1>3. 0 \in 0..MaxAiCrashes
  BY AiChatAssumption DEF AiChatAssumption
<1>4. SessionsHold(aiSessions, ended)
  BY <1>1, <1>2 DEF SessionsHold
<1>5. Cardinality(Untold(ended)) = 0
  <2>1. Untold(ended) = {}
    BY <1>1, <1>2 DEF Untold
  <2>2. QED
    BY <2>1, FS_EmptySet
<1>6. QED
  BY <1>1, <1>3, <1>4, <1>5, NobodyTurns DEF AiInv

(* The sessions on file.                                                   *)
LEMMA SessionsOnFile ==
    ASSUME AiInv
    PROVE  \E old, n : /\ old = aiSessions /\ old \in Seq(AiSessionRecords)
                       /\ n = Len(old) /\ n \in Nat /\ DOMAIN old = 1..n
                       /\ \A s \in 1..n : old[s] \in AiSessionRecords
<1>1. PICK old : old = aiSessions /\ old \in Seq(AiSessionRecords)
  BY DEF AiInv, SessionsHold
<1>2. /\ Len(old) \in Nat /\ DOMAIN old = 1..Len(old)
      /\ \A s \in DOMAIN old : old[s] \in AiSessionRecords
  BY <1>1, SeqFacts
<1>3. QED
  BY <1>1, <1>2

LEMMA UntoldIsFinite ==
    ASSUME AiInv
    PROVE  /\ IsFiniteSet(Untold(ended)) /\ Cardinality(Untold(ended)) \in Nat
           /\ aiCrashes \in Nat /\ MaxAiCrashes \in Nat
<1>1. PICK n \in Nat : DOMAIN ended = 1..n
  BY LenProperties DEF AiInv, SessionsHold
<1>2. Untold(ended) \subseteq 1..n /\ IsFiniteSet(1..n)
  BY <1>1, FS_Interval DEF Untold
<1>3. QED
  BY <1>2, FS_Subset, FS_CardinalityType, AiChatAssumption DEF AiInv, AiChatAssumption

ToldOnFile(list, turn, s, what) ==
    /\ list \in Seq(EndedRecords) /\ DOMAIN list = 1..turn /\ turn \in Nat /\ turn \in 1..turn
    /\ 1..turn = DOMAIN ended \cup {turn} /\ turn \notin DOMAIN ended
    /\ \A i \in DOMAIN ended : i < turn
    /\ list[turn].session = s /\ list[turn].told = what
    /\ \A i \in DOMAIN ended : list[i] = ended[i]
    /\ \A i \in DOMAIN list : list[i].session \in DOMAIN aiSessions
    /\ \A k \in DOMAIN aiSessions :
         k # s \/ what # "end" => SessionHolds(aiSessions[k], k, list)
    /\ Cardinality(Untold(list)) <= aiCrashes + 1
    /\ what # "nothing" => Cardinality(Untold(list)) <= aiCrashes

(* One more turn ended.  Sessions that did not change hold, unless it was  *)
(* their turn whose end was told.                                          *)
LEMMA TurnTold ==
    ASSUME AiInv, NEW s \in DOMAIN aiSessions, NEW what \in {"end", "error", "nothing"},
           NEW turn, turn = Len(ended) + 1, NEW t, t = [session |-> s, told |-> what],
           NEW list, list = Append(ended, t)
    PROVE  ToldOnFile(list, turn, s, what)
<1>1. PICK past, n : /\ past = ended /\ past \in Seq(EndedRecords) /\ n = Len(past) /\ n \in Nat /\ DOMAIN past = 1..n
                     /\ \A i \in 1..n : past[i] \in EndedRecords /\ past[i].session \in DOMAIN aiSessions
  <2>1. PICK past : past = ended /\ past \in Seq(EndedRecords)
    BY DEF AiInv, SessionsHold
  <2>2. QED
    BY <2>1, SeqFacts DEF AiInv, SessionsHold
<1>2. PICK r : r = [session |-> s, told |-> what] /\ r \in EndedRecords
  <2>1. s \in Nat
    BY SessionsOnFile
  <2>2. QED
    BY <2>1 DEF EndedRecords
<1>3. /\ list \in Seq(EndedRecords) /\ Len(list) = n + 1 /\ list[n + 1] = r
      /\ \A i \in 1..n : list[i] = past[i]
  <2>1. list = Append(past, r)
    BY <1>1, <1>2
  <2>2. QED
    BY <1>1, <1>2, <2>1, OneMore
<1>4. turn = n + 1 /\ DOMAIN list = 1..turn /\ 1..turn = 1..n \cup {turn} /\ turn \in 1..turn /\ turn \notin 1..n
      /\ \A i \in 1..n : i < turn
  BY <1>1, <1>3, LenProperties
<1>5. /\ list[turn].session = s /\ list[turn].told = what
      /\ \A i \in DOMAIN ended : list[i] = ended[i]
      /\ \A i \in DOMAIN list : list[i].session \in DOMAIN aiSessions
  BY <1>1, <1>2, <1>3, <1>4
<1>6. ASSUME NEW k \in DOMAIN aiSessions, k # s \/ what # "end" PROVE SessionHolds(aiSessions[k], k, list)
  <2>1. SessionHolds(aiSessions[k], k, ended)
    BY DEF AiInv, SessionsHold
  <2>2. QED
    BY <1>1, <1>4, <1>5, <1>6, <2>1 DEF SessionHolds
<1>7. /\ Cardinality(Untold(list)) <= aiCrashes + 1
      /\ what # "nothing" => Cardinality(Untold(list)) <= aiCrashes
  <2>1. /\ IsFiniteSet(Untold(ended)) /\ Cardinality(Untold(ended)) \in Nat /\ aiCrashes \in Nat
        /\ Cardinality(Untold(ended)) <= aiCrashes
    BY UntoldIsFinite DEF AiInv
  <2>2. CASE what = "nothing"
    <3>1. Untold(list) = Untold(ended) \cup {turn} /\ turn \notin Untold(ended)
      BY <1>1, <1>4, <1>5, <2>2 DEF Untold
    <3>2. Cardinality(Untold(list)) = Cardinality(Untold(ended)) + 1
      BY <2>1, <3>1, FS_AddElement
    <3>3. QED
      BY <2>1, <2>2, <3>2
  <2>3. CASE what # "nothing"
    <3>1. Untold(list) = Untold(ended)
      BY <1>1, <1>4, <1>5, <2>3 DEF Untold
    <3>2. QED
      BY <2>1, <2>3, <3>1
  <2>4. QED
    BY <2>2, <2>3
<1>8. QED
  BY <1>1, <1>3, <1>4, <1>5, <1>6, <1>7 DEF ToldOnFile

LEMMA BeginKeeps ==
    ASSUME AiInv, NEW u \in Turns, NEW asked, NEW model \in ChatModels, NEW streaming \in BOOLEAN,
           BeginTurn(u, asked, model, streaming)
    PROVE  AiInv'
<1>1. PICK old, n : /\ old = aiSessions /\ old \in Seq(AiSessionRecords) /\ n = Len(old) /\ n \in Nat /\ DOMAIN old = 1..n
                    /\ \A s \in 1..n : old[s] \in AiSessionRecords
  BY SessionsOnFile
<1>2. PICK s, fresh : /\ s = (IF Readable(asked) THEN asked ELSE n + 1)
                      /\ fresh = [messages |-> <<>>, model |-> IF streaming THEN model ELSE "none", torn |-> FALSE]
  OBVIOUS
<1>3. PICK new : /\ new = aiSessions' /\ new = (IF s \in 1..n THEN old ELSE Append(old, fresh))
                 /\ turns' = [turns EXCEPT ![u] = [session |-> s, history |-> new[s].messages, model |-> model,
                                                   streaming |-> streaming, tokens |-> FALSE]]
                 /\ UNCHANGED <<ended, aiCrashes>>
  BY <1>1, <1>2 DEF BeginTurn
<1>4. s \in 1..n \/ s = n + 1
  BY <1>1, <1>2 DEF Readable
<1>5. fresh \in AiSessionRecords /\ fresh.messages = <<>>
  <2>1. <<>> \in Seq(Nat)
    BY EmptySeq
  <2>2. QED
    BY <1>2, <2>1 DEF AiSessionRecords
<1>6. /\ new \in Seq(AiSessionRecords) /\ s \in DOMAIN new
      /\ \A k \in 1..n : k \in DOMAIN new /\ new[k] = old[k]
      /\ \A k \in DOMAIN new : k \in 1..n \/ (k = n + 1 /\ new[k] = fresh)
  <2>1. CASE s \in 1..n
    BY <1>1, <1>3, <2>1
  <2>2. CASE s \notin 1..n
    <3>1. new = Append(old, fresh)
      BY <1>3, <2>2
    <3>2. /\ new \in Seq(AiSessionRecords) /\ Len(new) = n + 1 /\ new[n + 1] = fresh
          /\ \A k \in 1..n : new[k] = old[k]
      BY <1>1, <1>5, <3>1, OneMore
    <3>3. DOMAIN new = 1..n + 1
      BY <3>2, LenProperties
    <3>4. 1..n + 1 = 1..n \cup {n + 1}
      BY <1>1
    <3>5. QED
      BY <1>4, <2>2, <3>2, <3>3, <3>4
  <2>3. QED
    BY <2>1, <2>2
<1>7. TurnsHold(turns', new)
  <2>1. PICK turn : turn = [session |-> s, history |-> new[s].messages, model |-> model,
                            streaming |-> streaming, tokens |-> FALSE]
    OBVIOUS
  <2>2. turn \in TurnRecords /\ turn.session = s /\ ~turn.tokens
    <3>1. new[s] \in AiSessionRecords
      BY <1>6, SeqFacts
    <3>2. new[s].messages \in Seq(Nat)
      BY <3>1 DEF AiSessionRecords
    <3>3. s \in Nat
      BY <1>1, <1>4
    <3>4. QED
      BY <2>1, <3>2, <3>3 DEF TurnRecords
  <2>3. turns' = [turns EXCEPT ![u] = turn]
    BY <1>3, <2>1
  <2>4. /\ turns \in [Turns -> TurnRecords]
        /\ \A v \in Turns : /\ turns[v] # NoTurn => turns[v].session \in DOMAIN new
                            /\ turns[v].tokens => turns[v].streaming
    BY <1>1, <1>6 DEF AiInv, TurnsHold
  <2>5. QED
    BY <1>6, <2>2, <2>3, <2>4 DEF TurnsHold
<1>8. ended \in Seq(EndedRecords) /\ \A i \in DOMAIN ended : ended[i].session \in 1..n
  BY <1>1 DEF AiInv, SessionsHold
<1>9. ASSUME NEW k \in DOMAIN new PROVE SessionHolds(new[k], k, ended)
  <2>1. CASE k \in 1..n
    BY <1>1, <1>6, <2>1 DEF AiInv, SessionsHold
  <2>2. CASE k \notin 1..n
    <3>1. k = n + 1 /\ new[k].messages = <<>>
      BY <1>5, <1>6, <2>2
    <3>2. \A i \in DOMAIN ended : ended[i].session # k
      BY <1>8, <2>2
    <3>3. QED
      BY <3>1, <3>2 DEF ToSet, SessionHolds
  <2>3. QED
    BY <2>1, <2>2
<1>10. SessionsHold(new, ended)
  BY <1>6, <1>8, <1>9 DEF SessionsHold
<1>11. QED
  BY <1>3, <1>7, <1>10 DEF AiInv

LEMMA TokensKeep == ASSUME AiInv, NEW u \in Turns, StreamTokens(u) PROVE AiInv'
<1>1. PICK turn : turn = turns[u] /\ turn \in TurnRecords /\ turn.streaming
  BY DEF AiInv, TurnsHold, StreamTokens
<1>2. PICK yes : yes = TRUE
  OBVIOUS
<1>3. PICK new : new = [turn EXCEPT !.tokens = yes]
  OBVIOUS
<1>4. new \in TurnRecords /\ new.streaming /\ new.session = turn.session
  <2>1. new.streaming = turn.streaming /\ new.session = turn.session
    BY <1>1, <1>3 DEF TurnRecords
  <2>2. new \in TurnRecords
    <3>1. yes \in BOOLEAN
      BY <1>2
    <3>2. QED
      BY <1>1, <1>3, <3>1 DEF TurnRecords
  <2>3. QED
    BY <1>1, <2>1, <2>2
<1>5. turn # NoTurn
  BY <1>1 DEF NoTurn
<1>6. turns' = [turns EXCEPT ![u] = new] /\ UNCHANGED <<aiSessions, ended, aiCrashes>>
  BY <1>1, <1>2, <1>3 DEF StreamTokens
<1>7. TurnsHold(turns', aiSessions)
  <2>1. /\ turns \in [Turns -> TurnRecords] /\ turn.session \in DOMAIN aiSessions
        /\ \A v \in Turns : /\ turns[v] # NoTurn => turns[v].session \in DOMAIN aiSessions
                            /\ turns[v].tokens => turns[v].streaming
    BY <1>1, <1>5 DEF AiInv, TurnsHold
  <2>2. QED
    BY <1>4, <1>6, <2>1 DEF TurnsHold
<1>8. QED
  BY <1>6, <1>7 DEF AiInv

LEMMA FailKeeps == ASSUME AiInv, NEW u \in Turns, FailTurn(u) PROVE AiInv'
<1>1. PICK s : s = turns[u].session /\ s \in DOMAIN aiSessions
  BY DEF AiInv, TurnsHold, FailTurn
<1>2. PICK list : /\ list = ended' /\ list = Append(ended, [session |-> s, told |-> "error"])
  BY <1>1 DEF FailTurn, Told
<1>3. UNCHANGED <<aiSessions, aiCrashes>> /\ turns' = [turns EXCEPT ![u] = NoTurn]
  BY DEF FailTurn
<1>4. /\ list \in Seq(EndedRecords) /\ \A i \in DOMAIN list : list[i].session \in DOMAIN aiSessions
      /\ \A k \in DOMAIN aiSessions : SessionHolds(aiSessions[k], k, list)
      /\ Cardinality(Untold(list)) <= aiCrashes
  <2>1. PICK turn, t : turn = Len(ended) + 1 /\ t = [session |-> s, told |-> "error"]
    OBVIOUS
  <2>2. PICK what : what = "error" /\ what \in {"end", "error", "nothing"}
    OBVIOUS
  <2>3. list = Append(ended, t) /\ t = [session |-> s, told |-> what]
    BY <1>2, <2>1, <2>2
  <2>4. ToldOnFile(list, turn, s, what)
    BY <1>1, <2>1, <2>2, <2>3, TurnTold
  <2>5. QED
    BY <2>2, <2>4 DEF ToldOnFile
<1>5. SessionsHold(aiSessions, list)
  BY <1>4 DEF AiInv, SessionsHold
<1>6. TurnsHold(turns', aiSessions)
  BY <1>3, IdleTurn DEF AiInv, TurnsHold
<1>7. QED
  BY <1>2, <1>3, <1>4, <1>5, <1>6 DEF AiInv

LEMMA EndKeeps == ASSUME AiInv, NEW u \in Turns, NEW done \in 1..3, EndTurn(u, done) PROVE AiInv'
<1>1. PICK old, n : /\ old = aiSessions /\ old \in Seq(AiSessionRecords) /\ n = Len(old) /\ n \in Nat /\ DOMAIN old = 1..n
                    /\ \A s \in 1..n : old[s] \in AiSessionRecords
  BY SessionsOnFile
<1>2. PICK s, m, turn : /\ s = turns[u].session /\ m = turns[u].model /\ s \in 1..n /\ m \in ChatModels \cup {"none"}
                        /\ turn = Len(ended) + 1
  BY <1>1 DEF EndTurn, AiInv, TurnsHold, TurnRecords
<1>3. PICK what \in {"end", "nothing"} : /\ what = (IF done = 3 THEN "end" ELSE "nothing")
                                         /\ done = 3 <=> what = "end"
  OBVIOUS
<1>4. PICK list : list = ended' /\ list = Append(ended, [session |-> s, told |-> what])
  BY <1>2, <1>3 DEF EndTurn, Told
<1>5. /\ list \in Seq(EndedRecords) /\ DOMAIN list = 1..turn /\ turn \in Nat /\ turn \in 1..turn
      /\ 1..turn = DOMAIN ended \cup {turn} /\ turn \notin DOMAIN ended
      /\ \A i \in DOMAIN ended : i < turn
      /\ list[turn].session = s /\ list[turn].told = what
      /\ \A i \in DOMAIN ended : list[i] = ended[i]
      /\ \A i \in DOMAIN list : list[i].session \in 1..n
      /\ \A k \in 1..n : k # s => SessionHolds(old[k], k, list)
      /\ Cardinality(Untold(list)) <= aiCrashes + 1
      /\ what # "nothing" => Cardinality(Untold(list)) <= aiCrashes
  <2>1. what \in {"end", "error", "nothing"} /\ s \in DOMAIN aiSessions
    BY <1>1, <1>2
  <2>2. PICK t : t = [session |-> s, told |-> what] /\ list = Append(ended, t)
    BY <1>4
  <2>3. ToldOnFile(list, turn, s, what)
    BY <1>2, <2>1, <2>2, TurnTold
  <2>4. QED
    BY <1>1, <2>3 DEF ToldOnFile
<1>6. PICK stored : /\ stored = appendAiChatMessages(old[s], turn)
                    /\ stored \in AiSessionRecords /\ stored.messages = Append(old[s].messages, turn)
                    /\ stored.torn = old[s].torn
  <2>1. PICK longer : longer = Append(old[s].messages, turn) /\ longer \in Seq(Nat)
    <3>1. old[s].messages \in Seq(Nat)
      BY <1>1, <1>2 DEF AiSessionRecords
    <3>2. QED
      BY <1>5, <3>1, AppendProperties
  <2>2. PICK added : added = [old[s] EXCEPT !.messages = longer]
    OBVIOUS
  <2>3. added \in AiSessionRecords /\ added.messages = longer /\ added.torn = old[s].torn
    <3>1. PICK r : r = old[s] /\ r \in AiSessionRecords
      BY <1>1, <1>2
    <3>2. added = [r EXCEPT !.messages = longer]
      BY <2>2, <3>1
    <3>3. QED
      BY <2>1, <3>1, <3>2 DEF AiSessionRecords
  <2>4. appendAiChatMessages(old[s], turn) = added
    BY <2>1, <2>2 DEF appendAiChatMessages
  <2>5. QED
    BY <2>1, <2>3, <2>4
<1>7. PICK session : /\ session = (IF done = 1 THEN stored ELSE SetModelOnce(stored, m))
                     /\ session \in AiSessionRecords /\ session.messages = Append(old[s].messages, turn)
                     /\ session.torn = old[s].torn
  <2>1. PICK set : set = [stored EXCEPT !.model = m]
    OBVIOUS
  <2>2. set \in AiSessionRecords /\ set.messages = stored.messages /\ set.torn = stored.torn
    BY <1>2, <1>6, <2>1 DEF AiSessionRecords
  <2>3. SetModelOnce(stored, m) = stored \/ SetModelOnce(stored, m) = set
    BY <2>1 DEF SetModelOnce
  <2>4. QED
    BY <1>6, <2>2, <2>3
<1>8. PICK new : new = aiSessions' /\ new = (IF ~old[s].torn THEN [old EXCEPT ![s] = session] ELSE old)
  BY <1>1, <1>2, <1>6, <1>7 DEF EndTurn, Readable
<1>9. /\ new \in Seq(AiSessionRecords) /\ DOMAIN new = 1..n
      /\ \A k \in 1..n : k # s => new[k] = old[k]
      /\ new[s] = IF ~old[s].torn THEN session ELSE old[s]
  <2>1. CASE old[s].torn
    BY <1>1, <1>8, <2>1
  <2>2. CASE ~old[s].torn
    <3>1. new = [old EXCEPT ![s] = session]
      BY <1>8, <2>2
    <3>2. new \in Seq(AiSessionRecords)
      <4>1. old \in Seq(AiSessionRecords) /\ s \in 1..Len(old) /\ session \in AiSessionRecords
        BY <1>1, <1>2, <1>7
      <4>2. QED
        BY <3>1, <4>1, ExceptSeq
    <3>3. QED
      BY <1>1, <1>2, <2>2, <3>1, <3>2
  <2>3. QED
    BY <2>1, <2>2
<1>10. SessionHolds(new[s], s, list)
  <2>1. CASE old[s].torn
    BY <1>9, <2>1 DEF SessionHolds
  <2>2. CASE ~old[s].torn
    <3>1. PICK before, l : /\ before = old[s].messages /\ before \in Seq(Nat)
                           /\ l = Len(before) /\ l \in Nat /\ DOMAIN before = 1..l
      <4>1. PICK before : before = old[s].messages /\ before \in Seq(Nat)
        BY <1>1, <1>2 DEF AiSessionRecords
      <4>2. QED
        BY <4>1, LenProperties
    <3>2. /\ \A i \in DOMAIN ended : ended[i].session = s /\ ended[i].told = "end" => i \in ToSet(before)
          /\ \A i \in ToSet(before) :
                i \in DOMAIN ended /\ ended[i].session = s /\ ended[i].told \in {"end", "nothing"}
          /\ \A i, j \in DOMAIN before : i < j => before[i] < before[j]
      <4>1. SessionHolds(old[s], s, ended)
        BY <1>1, <1>2 DEF AiInv, SessionsHold
      <4>2. QED
        BY <2>2, <3>1, <4>1 DEF SessionHolds
    <3>3. PICK after : after = Append(before, turn) /\ new[s].messages = after
      BY <1>7, <1>9, <2>2, <3>1
    <3>4. /\ after \in Seq(Nat) /\ Len(after) = l + 1 /\ after[l + 1] = turn
          /\ \A i \in 1..l : after[i] = before[i]
      BY <1>5, <3>1, <3>3, OneMore
    <3>5. DOMAIN after = 1..(l + 1) /\ 1..(l + 1) = 1..l \cup {l + 1}
      <4>1. DOMAIN after = 1..Len(after)
        BY <3>4, LenProperties
      <4>2. DOMAIN after = 1..(l + 1)
        BY <3>4, <4>1
      <4>3. l \in Nat
        BY <3>1
      <4>4. 1..(l + 1) = 1..l \cup {l + 1}
        BY <4>3
      <4>5. QED
        BY <4>2, <4>4
    <3>6. ToSet(after) = ToSet(before) \cup {turn}
      <4>1. ToSet(after) = {after[i] : i \in 1..(l + 1)} /\ ToSet(before) = {before[i] : i \in 1..l}
        BY <3>1, <3>5 DEF ToSet
      <4>2. QED
        BY <3>4, <3>5, <4>1
    <3>7. \A i \in 1..l : before[i] \in Nat /\ before[i] < turn
      <4>1. \A i \in 1..l : before[i] \in ToSet(before)
        BY <3>1 DEF ToSet
      <4>2. \A i \in 1..l : before[i] \in DOMAIN ended
        BY <3>2, <4>1
      <4>3. \A i \in 1..l : before[i] \in Nat
        BY <3>1, SeqFacts
      <4>4. QED
        BY <1>5, <4>2, <4>3
    <3>8. ASSUME NEW i \in 1..(l + 1), NEW j \in 1..(l + 1), i < j PROVE after[i] < after[j]
      <4>1. i \in 1..l
        BY <3>1, <3>8
      <4>2. CASE j \in 1..l
        BY <3>1, <3>2, <3>4, <3>8, <4>1, <4>2
      <4>3. CASE j = l + 1
        BY <3>4, <3>7, <4>1, <4>3
      <4>4. QED
        BY <3>5, <4>2, <4>3
    <3>9. \A i \in DOMAIN list : list[i].session = s /\ list[i].told = "end" => i \in ToSet(after)
      BY <1>5, <3>2, <3>6
    <3>10. \A i \in ToSet(after) : i \in DOMAIN list /\ list[i].session = s /\ list[i].told \in {"end", "nothing"}
      BY <1>3, <1>5, <3>2, <3>6
    <3>11. QED
      BY <3>3, <3>5, <3>8, <3>9, <3>10 DEF SessionHolds
  <2>3. QED
    BY <2>1, <2>2
<1>11. SessionsHold(new, list)
  BY <1>5, <1>9, <1>10 DEF SessionsHold
<1>12. TurnsHold(turns', new)
  <2>1. CASE done = 3
    <3>1. turns' = [turns EXCEPT ![u] = NoTurn]
      BY <2>1 DEF EndTurn
    <3>2. DOMAIN new = DOMAIN aiSessions
      BY <1>1, <1>9
    <3>3. QED
      BY <3>1, <3>2, IdleTurn DEF AiInv, TurnsHold
  <2>2. CASE done # 3
    <3>1. turns' = [v \in Turns |-> NoTurn]
      BY <2>2 DEF EndTurn
    <3>2. QED
      BY <3>1, NobodyTurns
  <2>3. QED
    BY <2>1, <2>2
<1>13. aiCrashes' \in 0..MaxAiCrashes /\ Cardinality(Untold(list)) <= aiCrashes'
  <2>1. AiStops(done < 3)
    BY DEF EndTurn
  <2>2. (done < 3) <=> what = "nothing"
    BY <1>3
  <2>3. aiCrashes \in Nat /\ MaxAiCrashes \in Nat /\ aiCrashes <= MaxAiCrashes
    BY UntoldIsFinite DEF AiInv
  <2>4. CASE what = "nothing"
    BY <1>5, <2>1, <2>2, <2>3, <2>4 DEF AiStops
  <2>5. CASE what # "nothing"
    BY <1>5, <2>1, <2>2, <2>3, <2>5 DEF AiStops
  <2>6. QED
    BY <2>4, <2>5
<1>14. QED
  BY <1>4, <1>8, <1>11, <1>12, <1>13 DEF AiInv

LEMMA CrashKeeps == ASSUME AiInv, NEW torn, AiCrash(torn) PROVE AiInv'
<1>1. PICK old, n : /\ old = aiSessions /\ old \in Seq(AiSessionRecords) /\ n = Len(old) /\ n \in Nat /\ DOMAIN old = 1..n
                    /\ \A s \in 1..n : old[s] \in AiSessionRecords
  BY SessionsOnFile
<1>2. PICK ruin : /\ ruin = [messages |-> <<>>, model |-> "none", torn |-> TRUE]
                  /\ ruin \in AiSessionRecords /\ ruin.torn
  <2>1. PICK none : none = <<>> /\ none \in Seq(Nat)
    BY EmptySeq
  <2>2. PICK ruin : ruin = [messages |-> none, model |-> "none", torn |-> TRUE]
    OBVIOUS
  <2>3. ruin \in AiSessionRecords /\ ruin.torn
    BY <2>1, <2>2 DEF AiSessionRecords
  <2>4. QED
    BY <2>1, <2>2, <2>3
<1>3. PICK new : /\ new = aiSessions' /\ new = [s \in 1..n |-> IF s \in torn THEN ruin ELSE old[s]]
                 /\ turns' = [u \in Turns |-> NoTurn] /\ UNCHANGED ended
  BY <1>1, <1>2 DEF AiCrash
<1>4. /\ new \in Seq(AiSessionRecords) /\ DOMAIN new = 1..n
      /\ \A s \in 1..n : new[s].torn \/ new[s] = old[s]
  <2>1. \A s \in 1..n : (IF s \in torn THEN ruin ELSE old[s]) \in AiSessionRecords
    BY <1>1, <1>2
  <2>2. new \in Seq(AiSessionRecords)
    BY <1>1, <1>3, <2>1
  <2>3. QED
    BY <1>2, <1>3, <2>2
<1>5. SessionsHold(new, ended)
  <2>1. ASSUME NEW k \in 1..n PROVE SessionHolds(new[k], k, ended)
    <3>1. SessionHolds(old[k], k, ended)
      BY <1>1 DEF AiInv, SessionsHold
    <3>2. QED
      BY <1>4, <3>1 DEF SessionHolds
  <2>2. QED
    BY <1>1, <1>4, <2>1 DEF AiInv, SessionsHold
<1>6. aiCrashes' \in 0..MaxAiCrashes /\ aiCrashes' = aiCrashes + 1
  BY UntoldIsFinite DEF AiCrash, AiStops, AiInv
<1>7. Cardinality(Untold(ended)) <= aiCrashes'
  BY <1>6, UntoldIsFinite DEF AiInv
<1>8. TurnsHold(turns', new)
  BY <1>3, NobodyTurns
<1>9. QED
  BY <1>3, <1>5, <1>6, <1>7, <1>8 DEF AiInv

LEMMA AiInvStep == AiInv /\ [AiNext]_aiVars => AiInv'
<1> SUFFICES ASSUME AiInv, [AiNext]_aiVars PROVE AiInv'
  OBVIOUS
<1>1. CASE UNCHANGED aiVars
  BY <1>1 DEF aiVars, AiInv
<1>2. QED
  BY <1>1, BeginKeeps, TokensKeep, FailKeeps, EndKeeps, CrashKeeps DEF AiNext

(* An answer whose end the client was told is in its session, once and in  *)
(* the order they ended, unless a crash tore the session's file: the       *)
(* session is read again before the turn is appended.  A failed one is in  *)
(* none, and a stored one nobody was told of is one that a crash cut.      *)
THEOREM RepliesStay == AiSpec => [](AiTypeOK /\ RepliesAreKept)
<1>1. ASSUME AiInv PROVE AiTypeOK
  <2>1. ASSUME NEW s \in DOMAIN aiSessions PROVE aiSessions[s] \in AiSessionRecords
    BY <1>1, <2>1, SeqFacts DEF AiInv, SessionsHold
  <2>2. ASSUME NEW u \in Turns PROVE turns[u].session \in 0..Len(aiSessions) /\ (turns[u].tokens => turns[u].streaming)
    <3>1. PICK n : n = Len(aiSessions) /\ n \in Nat /\ DOMAIN aiSessions = 1..n
      BY <1>1, LenProperties DEF AiInv, SessionsHold
    <3>2. QED
      BY <1>1, <3>1, IdleTurn DEF AiInv, TurnsHold
  <2>3. QED
    BY <1>1, <2>1, <2>2 DEF AiInv, AiTypeOK, AiSessionRecords
<1>2. ASSUME AiInv PROVE RepliesAreKept
  BY <1>2 DEF AiInv, SessionsHold, SessionHolds, Untold, RepliesAreKept
<1>3. QED
  BY <1>1, <1>2, AiInvInit, AiInvStep, PTL DEF AiSpec

-----------------------------------------------------------------------------
(* A sequence, whatever its elements are.                                  *)
IsList(s) == s \in Seq(Range(s))

LEMMA IsSequence ==
    ASSUME NEW S, NEW n \in Nat, NEW s \in [1..n -> S]
    PROVE  s \in Seq(S) /\ Len(s) = n /\ DOMAIN s = 1..n
OBVIOUS

(* One more element of a sequence, whatever its elements are.              *)
LEMMA Appended ==
    ASSUME NEW s, IsList(s), NEW x, NEW longer, longer = Append(s, x)
    PROVE  /\ IsList(longer)
           /\ Len(s) \in Nat /\ DOMAIN s = 1..Len(s)
           /\ Len(longer) = Len(s) + 1 /\ DOMAIN longer = 1..Len(s) + 1 /\ longer[Len(s) + 1] = x
           /\ \A k \in 1..Len(s) : longer[k] = s[k]
<1>1. PICK S : S = Range(s) \cup {x}
  OBVIOUS
<1>2. s \in Seq(S) /\ x \in S
  BY <1>1, SeqMonotonic DEF IsList
<1>3. PICK n : n = Len(s) /\ n \in Nat /\ DOMAIN s = 1..n
  BY <1>2, LenProperties
<1>4. /\ longer \in Seq(S) /\ Len(longer) = n + 1 /\ longer[n + 1] = x
      /\ \A k \in 1..n : longer[k] = s[k]
  BY <1>2, <1>3, AppendProperties
<1>5. DOMAIN longer = 1..n + 1 /\ longer \in [1..n + 1 -> S]
  BY <1>4, LenProperties
<1>6. longer \in [1..n + 1 -> Range(longer)]
  BY <1>5 DEF Range
<1>7. IsList(longer)
  <2>1. PICK m : m = n + 1 /\ m \in Nat /\ longer \in [1..m -> Range(longer)]
    BY <1>3, <1>6
  <2>2. QED
    BY <2>1, IsSequence DEF IsList
<1>8. QED
  BY <1>3, <1>4, <1>5, <1>7

-----------------------------------------------------------------------------
(* Meetings.  What an answer will write over the minutes is, like the      *)
(* minutes themselves, all that had been said when it was read except what *)
(* an answer has overwritten since.                                        *)
Overwritten(n, log) ==
    \E later \in n + 1..Len(log) : log[later].author = "AGENT" /\ log[later].at < n

KeptOf(list, log, t) ==
    /\ IsList(list) /\ t \in 0..Len(log)
    /\ \A i \in DOMAIN list : list[i].n \in 1..t
    /\ \A i, j \in DOMAIN list : i < j => list[i].n < list[j].n
    /\ \A n \in 1..t : (\E i \in DOMAIN list : list[i].n = n) \/ Overwritten(n, log)

AnswerHolds(call, log) == KeptOf(call.read, log, call.at)

MeetingInv ==
    /\ minutes = [m \in MeetingIds |-> minutes[m]]
    /\ said = [m \in MeetingIds |-> said[m]]
    /\ answering = [a \in Answers |-> answering[a]]
    /\ \A m \in MeetingIds : IsList(said[m]) /\ KeptOf(minutes[m], said[m], Len(said[m]))
    /\ \A a \in Answers : answering[a].meeting # "none" =>
         answering[a].meeting \in MeetingIds /\ AnswerHolds(answering[a], said[answering[a].meeting])

LEMMA LogGrows ==
    ASSUME NEW log, IsList(log), NEW x, NEW longer, longer = Append(log, x)
    PROVE  /\ \A n \in Nat : Overwritten(n, log) => Overwritten(n, longer)
           /\ \A list, t : KeptOf(list, log, t) => KeptOf(list, longer, t)
<1>1. PICK l : /\ l = Len(log) /\ l \in Nat /\ Len(longer) = l + 1
               /\ \A k \in 1..l : longer[k] = log[k]
  BY Appended
<1>2. ASSUME NEW n \in Nat, Overwritten(n, log) PROVE Overwritten(n, longer)
  <2>1. PICK later \in n + 1..l : log[later].author = "AGENT" /\ log[later].at < n
    BY <1>1, <1>2 DEF Overwritten
  <2>2. longer[later] = log[later] /\ later \in n + 1..(l + 1)
    BY <1>1
  <2>3. QED
    BY <1>1, <2>1, <2>2 DEF Overwritten
<1>3. ASSUME NEW list, NEW t, KeptOf(list, log, t) PROVE KeptOf(list, longer, t)
  BY <1>1, <1>2, <1>3 DEF KeptOf
<1>4. QED
  BY <1>2, <1>3

LEMMA WrittenBehind ==
    ASSUME NEW log, IsList(log), NEW list, NEW t, KeptOf(list, log, t),
           NEW message, message.n = Len(log) + 1,
           t = Len(log) \/ (message.author = "AGENT" /\ message.at = t),
           NEW longer, longer = Append(log, message), NEW written, written = Append(list, message)
    PROVE  KeptOf(written, longer, Len(longer))
<1>1. PICK l : /\ l = Len(log) /\ l \in Nat /\ Len(longer) = l + 1 /\ longer[l + 1] = message
               /\ t \in 0..l
  BY Appended DEF KeptOf
<1>2. PICK k : /\ k = Len(list) /\ k \in Nat /\ DOMAIN list = 1..k
               /\ IsList(written) /\ DOMAIN written = 1..k + 1 /\ written[k + 1] = message
               /\ \A i \in 1..k : written[i] = list[i]
  <2>1. IsList(list)
    BY DEF KeptOf
  <2>2. IsList(written) /\ Len(list) \in Nat
    BY <2>1, Appended
  <2>3. DOMAIN list = 1..Len(list) /\ Len(written) = Len(list) + 1
    BY <2>1, Appended
  <2>4. DOMAIN written = 1..Len(list) + 1
    BY <2>1, Appended
  <2>5. written[Len(list) + 1] = message
    BY <2>1, Appended
  <2>6. \A i \in 1..Len(list) : written[i] = list[i]
    BY <2>1, Appended
  <2>7. QED
    BY <2>2, <2>3, <2>4, <2>5, <2>6
<1>3. 1..k + 1 = 1..k \cup {k + 1}
  BY <1>2
<1>4. \A i \in DOMAIN written : written[i].n \in 1..l + 1
  BY <1>1, <1>2, <1>3 DEF KeptOf
<1>5. ASSUME NEW i \in DOMAIN written, NEW j \in DOMAIN written, i < j PROVE written[i].n < written[j].n
  <2>1. i \in 1..k
    BY <1>2, <1>5
  <2>2. CASE j \in 1..k
    BY <1>2, <1>5, <2>1, <2>2 DEF KeptOf
  <2>3. CASE j = k + 1
    BY <1>1, <1>2, <2>1, <2>3 DEF KeptOf
  <2>4. QED
    BY <1>2, <1>3, <2>2, <2>3
<1>6. ASSUME NEW n \in 1..l + 1
      PROVE  (\E i \in DOMAIN written : written[i].n = n) \/ Overwritten(n, longer)
  <2>1. CASE n = l + 1
    BY <1>1, <1>2, <1>3, <2>1
  <2>2. CASE n \in 1..t
    <3>1. (\E i \in DOMAIN list : list[i].n = n) \/ Overwritten(n, longer)
      BY <2>2, LogGrows DEF KeptOf
    <3>2. QED
      BY <1>2, <1>3, <3>1
  <2>3. CASE n \in t + 1..l
    <3>1. message.author = "AGENT" /\ message.at = t
      BY <1>1, <2>3
    <3>2. l + 1 \in n + 1..Len(longer) /\ t < n
      BY <1>1, <2>3
    <3>3. QED
      BY <1>1, <3>1, <3>2 DEF Overwritten
  <2>4. QED
    BY <1>1, <2>1, <2>2, <2>3
<1>7. Len(longer) \in 0..Len(longer)
  BY <1>1
<1>8. QED
  BY <1>1, <1>2, <1>4, <1>5, <1>6, <1>7 DEF KeptOf

LEMMA MeetingInvInit == MeetingInit => MeetingInv
<1> SUFFICES ASSUME MeetingInit PROVE MeetingInv
  OBVIOUS
<1>1. PICK none : none = <<>> /\ IsList(none) /\ Len(none) = 0 /\ DOMAIN none = {}
  <2>1. PICK none : none = <<>>
    OBVIOUS
  <2>2. IsList(none) /\ Len(none) = 0
    BY <2>1, EmptySeq DEF IsList
  <2>3. DOMAIN none = {}
    BY <2>1
  <2>4. QED
    BY <2>1, <2>2, <2>3
<1>2. KeptOf(none, none, 0)
  BY <1>1 DEF KeptOf
<1>3. /\ minutes = [m \in MeetingIds |-> none] /\ said = [m \in MeetingIds |-> none]
      /\ answering = [a \in Answers |-> Idle]
  BY <1>1 DEF MeetingInit
<1>4. Idle.meeting = "none"
  BY DEF Idle
<1>5. QED
  BY <1>1, <1>2, <1>3, <1>4 DEF MeetingInv

(* A message comes, and its writer wrote all that it had read.             *)
LEMMA WriteKeepsMinutes ==
    ASSUME MeetingInv, NEW m \in MeetingIds, NEW list, NEW t, KeptOf(list, said[m], t),
           NEW message, message.n = Len(said[m]) + 1,
           t = Len(said[m]) \/ (message.author = "AGENT" /\ message.at = t),
           WriteMinutes(m, list, message),
           answering' = [a \in Answers |-> answering'[a]],
           \A a \in Answers : answering'[a] = answering[a] \/ answering'[a] = Idle
    PROVE  MeetingInv'
<1>1. PICK log : log = said[m] /\ IsList(log)
  BY DEF MeetingInv
<1>2. PICK longer, written : longer = Append(log, message) /\ written = Append(list, message)
  OBVIOUS
<1>3. minutes' = [minutes EXCEPT ![m] = written] /\ said' = [said EXCEPT ![m] = longer]
  BY <1>1, <1>2 DEF WriteMinutes
<1>4. KeptOf(written, longer, Len(longer))
  BY <1>1, <1>2, WrittenBehind
<1>5. IsList(longer)
  BY <1>1, <1>2, Appended
<1>6. /\ minutes' = [o \in MeetingIds |-> minutes'[o]] /\ minutes'[m] = written
      /\ said' = [o \in MeetingIds |-> said'[o]] /\ said'[m] = longer
      /\ \A o \in MeetingIds : o # m => minutes'[o] = minutes[o] /\ said'[o] = said[o]
  BY <1>3 DEF MeetingInv
<1>7. ASSUME NEW o \in MeetingIds
      PROVE  IsList(said'[o]) /\ KeptOf(minutes'[o], said'[o], Len(said'[o]))
  BY <1>4, <1>5, <1>6 DEF MeetingInv
<1>8. ASSUME NEW a \in Answers, answering'[a].meeting # "none"
      PROVE  answering'[a].meeting \in MeetingIds /\ AnswerHolds(answering'[a], said'[answering'[a].meeting])
  <2>1. answering'[a] = answering[a]
    BY <1>8 DEF Idle
  <2>2. PICK call, o : /\ call = answering[a] /\ o = call.meeting /\ o \in MeetingIds
                       /\ KeptOf(call.read, said[o], call.at)
    BY <1>8, <2>1 DEF MeetingInv, AnswerHolds
  <2>3. CASE o = m
    <3>1. KeptOf(call.read, log, call.at)
      BY <1>1, <2>2, <2>3
    <3>2. \A l, u : KeptOf(l, log, u) => KeptOf(l, longer, u)
      BY <1>1, <1>2, LogGrows
    <3>3. QED
      BY <1>6, <2>1, <2>2, <2>3, <3>1, <3>2 DEF AnswerHolds
  <2>4. CASE o # m
    BY <1>6, <2>1, <2>2, <2>4 DEF AnswerHolds
  <2>5. QED
    BY <2>3, <2>4
<1>9. MeetingInv'
  BY <1>6, <1>7, <1>8 DEF MeetingInv
<1>10. QED
  BY <1>9

(* Only who waits for the model changes.                                   *)
LEMMA OnlyAnswersChange ==
    ASSUME MeetingInv, UNCHANGED <<minutes, said>>, answering' = [a \in Answers |-> answering'[a]],
           \A a \in Answers : answering'[a] = answering[a] \/ answering'[a] = Idle
    PROVE  MeetingInv'
BY DEF MeetingInv, AnswerHolds, Idle

LEMMA MeetingInvStep == MeetingInv /\ [MeetingNext]_meetingVars => MeetingInv'
<1> SUFFICES ASSUME MeetingInv, [MeetingNext]_meetingVars PROVE MeetingInv'
  OBVIOUS
<1>1. \A going, done : MeetingCut(done, going) => answering' = [a \in Answers |-> Idle] \/ answering' = going
  BY DEF MeetingCut
<1>2. ASSUME NEW m \in MeetingIds, NEW done \in 1..2, CreateMeeting(m, done) \/ CloseMeeting(m, done)
      PROVE  MeetingInv'
  <2>1. /\ UNCHANGED <<minutes, said>>
        /\ answering' = [a \in Answers |-> Idle] \/ answering' = answering
    BY <1>1, <1>2 DEF CreateMeeting, CloseMeeting
  <2>2. answering' = [a \in Answers |-> answering'[a]]
    BY <2>1 DEF MeetingInv
  <2>3. QED
    BY <2>1, <2>2, OnlyAnswersChange
<1>3. ASSUME NEW m \in MeetingIds, NEW author, NEW text, AddMessage(m, author, text) PROVE MeetingInv'
  <2>1. PICK message : /\ message = Say(m, author, text, Len(said[m])) /\ message.n = Len(said[m]) + 1
                       /\ WriteMinutes(m, minutes[m], message) /\ UNCHANGED answering
    BY <1>3 DEF AddMessage, Say
  <2>2. KeptOf(minutes[m], said[m], Len(said[m])) /\ answering' = [a \in Answers |-> answering'[a]]
    BY <2>1 DEF MeetingInv
  <2>3. QED
    BY <2>1, <2>2, WriteKeepsMinutes
<1>4. ASSUME NEW a \in Answers, NEW m \in MeetingIds, AskForAnswer(a, m) PROVE MeetingInv'
  <2>1. PICK call : call = [meeting |-> m, read |-> minutes[m], at |-> Len(said[m])]
    OBVIOUS
  <2>2. answering' = [answering EXCEPT ![a] = call] /\ UNCHANGED <<minutes, said>>
    BY <1>4, <2>1 DEF AskForAnswer
  <2>3. call.meeting = m /\ AnswerHolds(call, said[m])
    BY <2>1 DEF MeetingInv, AnswerHolds
  <2>4. answering' = [b \in Answers |-> answering'[b]] /\ \A b \in Answers : answering'[b] = IF b = a THEN call ELSE answering[b]
    BY <2>2 DEF MeetingInv
  <2>5. QED
    BY <2>2, <2>3, <2>4 DEF MeetingInv, AnswerHolds
<1>5. ASSUME NEW a \in Answers, NEW done \in 1..2, WriteAnswer(a, done) PROVE MeetingInv'
  <2>1. PICK call, m : call = answering[a] /\ m = call.meeting /\ m # "none" /\ m \in MeetingIds
                       /\ KeptOf(call.read, said[m], call.at)
    BY <1>5 DEF WriteAnswer, AnsweredWith, MeetingInv, AnswerHolds
  <2>2. PICK message : /\ message = Say(m, "AGENT", Last(call.read).text, call.at)
                       /\ message.n = Len(said[m]) + 1 /\ message.author = "AGENT" /\ message.at = call.at
    <3>1. PICK message : message = Say(m, "AGENT", Last(call.read).text, call.at)
      OBVIOUS
    <3>2. message.n = Len(said[m]) + 1 /\ message.author = "AGENT" /\ message.at = call.at
      BY <3>1 DEF Say
    <3>3. QED
      BY <3>1, <3>2
  <2>3. WriteMinutes(m, call.read, message)
    BY <1>5, <2>1, <2>2 DEF WriteAnswer, AnsweredWith
  <2>4. answering' = [b \in Answers |-> Idle] \/ answering' = [answering EXCEPT ![a] = Idle]
    BY <1>1, <1>5 DEF WriteAnswer, AnsweredWith
  <2>5. /\ answering' = [b \in Answers |-> answering'[b]]
        /\ \A b \in Answers : answering'[b] = answering[b] \/ answering'[b] = Idle
    BY <2>4 DEF MeetingInv
  <2>6. QED
    BY <2>1, <2>2, <2>3, <2>5, WriteKeepsMinutes
<1>6. ASSUME NEW a \in Answers, AnswerFails(a) PROVE MeetingInv'
  <2>1. UNCHANGED <<minutes, said>> /\ answering' = [answering EXCEPT ![a] = Idle]
    BY <1>6 DEF AnswerFails
  <2>2. /\ answering' = [b \in Answers |-> answering'[b]]
        /\ \A b \in Answers : answering'[b] = answering[b] \/ answering'[b] = Idle
    BY <2>1 DEF MeetingInv
  <2>3. QED
    BY <2>1, <2>2, OnlyAnswersChange
<1>7. CASE MeetingRestart
  <2>1. UNCHANGED <<minutes, said>> /\ answering' = [b \in Answers |-> Idle]
    BY <1>7 DEF MeetingRestart
  <2>2. QED
    BY <2>1, OnlyAnswersChange
<1>8. CASE UNCHANGED meetingVars
  BY <1>8 DEF meetingVars, MeetingInv
<1>9. QED
  BY <1>2, <1>3, <1>4, <1>5, <1>6, <1>7, <1>8 DEF MeetingNext

(* A message is in the minutes, which are in the order of what was said,   *)
(* unless an answer asked for before it was said was written after it.     *)
THEOREM MinutesLoseToAnswersOnly == MeetingSpec => []LostToAnAnswerOnly
<1>1. MeetingInv => LostToAnAnswerOnly
  <2> SUFFICES ASSUME MeetingInv, NEW m \in MeetingIds
               PROVE  LET kept == {minutes[m][i].n : i \in DOMAIN minutes[m]}
                      IN  /\ \A n \in DOMAIN said[m] \ kept : Overwritten(n, said[m])
                          /\ \A i, j \in DOMAIN minutes[m] : i < j => minutes[m][i].n < minutes[m][j].n
    BY DEF LostToAnAnswerOnly, Overwritten
  <2>1. KeptOf(minutes[m], said[m], Len(said[m])) /\ DOMAIN said[m] = 1..Len(said[m])
    BY LenProperties DEF MeetingInv, IsList
  <2>2. QED
    BY <2>1 DEF KeptOf
<1>2. QED
  BY <1>1, MeetingInvInit, MeetingInvStep, PTL DEF MeetingSpec

-----------------------------------------------------------------------------
(* Webhook deliveries.  The list a dispatch will write is, like the one on *)
(* file, sound for the dispatches that had ended when it was read: each is *)
(* in it, or lost to an overlap with one of them, or too old for it.       *)
(* Entries are in the order of the dispatches, the dispatch's own last.    *)
DeliveryRecord(e) == e \in [sub : {e.sub}, outcome : {e.outcome}, write : Nat]

FlightRecord(f) == f \in [event : {f.event}, todo : {f.todo}, list : {f.list}, at : {f.at}]

InOrder(list) ==
    \A i, j \in DOMAIN list : i < j =>
        list[j].write = 0 \/ (list[i].write # 0 /\ list[i].write <= list[j].write)

LostInOverlap(w, log, t) == \E later \in w + 1..t : log[later] < w

OnRecord(list, log, t) ==
    /\ IsList(list) /\ t \in 0..Len(log)
    /\ \A i \in DOMAIN list : DeliveryRecord(list[i]) /\ list[i].write \in 0..t
    /\ InOrder(list)
    /\ \A w \in 1..t :
         \/ \E i \in DOMAIN list : list[i].write = w
         \/ LostInOverlap(w, log, t)
         \/ Len(list) >= KeepDeliveries /\ \A i \in DOMAIN list : list[i].write = 0 \/ list[i].write > w

ListOnFile(list, log) ==
    /\ OnRecord(list, log, Len(log))
    /\ Len(list) <= KeepDeliveries /\ \A i \in DOMAIN list : list[i].write # 0

BridgeInv ==
    /\ writes \in Seq(Nat)
    /\ ListOnFile(deliveries, writes)
    /\ dispatching = [d \in Dispatches |-> dispatching[d]]
    /\ \A d \in Dispatches : dispatching[d] # NotDispatching =>
         FlightRecord(dispatching[d]) /\ OnRecord(dispatching[d].list, writes, dispatching[d].at)

LEMMA CallIsNoted ==
    ASSUME NEW log, NEW list, NEW t, OnRecord(list, log, t),
           NEW own, DeliveryRecord(own), own.write = 0, NEW longer, longer = Append(list, own)
    PROVE  OnRecord(longer, log, t)
<1>1. PICK k : /\ k = Len(list) /\ k \in Nat /\ DOMAIN list = 1..k
               /\ IsList(longer) /\ DOMAIN longer = 1..k + 1 /\ longer[k + 1] = own
               /\ Len(longer) = k + 1 /\ \A i \in 1..k : longer[i] = list[i]
  <2>1. IsList(list)
    BY DEF OnRecord
  <2>2. IsList(longer) /\ Len(list) \in Nat
    BY <2>1, Appended
  <2>3. DOMAIN list = 1..Len(list) /\ Len(longer) = Len(list) + 1
    BY <2>1, Appended
  <2>4. DOMAIN longer = 1..Len(list) + 1
    BY <2>1, Appended
  <2>5. longer[Len(list) + 1] = own
    BY <2>1, Appended
  <2>6. \A i \in 1..Len(list) : longer[i] = list[i]
    BY <2>1, Appended
  <2>7. QED
    BY <2>2, <2>3, <2>4, <2>5, <2>6
<1>2. 1..k + 1 = 1..k \cup {k + 1}
  BY <1>1
<1>3. t \in Nat /\ KeepDeliveries \in Nat
  BY BridgeAssumption DEF OnRecord, BridgeAssumption
<1>4. \A i \in DOMAIN longer : DeliveryRecord(longer[i]) /\ longer[i].write \in 0..t
  BY <1>1, <1>2, <1>3 DEF OnRecord
<1>5. ASSUME NEW i \in DOMAIN longer, NEW j \in DOMAIN longer, i < j
      PROVE  longer[j].write = 0 \/ (longer[i].write # 0 /\ longer[i].write <= longer[j].write)
  <2>1. i \in 1..k
    BY <1>1, <1>5
  <2>2. CASE j \in 1..k
    BY <1>1, <1>5, <2>1, <2>2 DEF OnRecord, InOrder
  <2>3. CASE j = k + 1
    BY <1>1, <2>3
  <2>4. QED
    BY <1>1, <1>2, <2>2, <2>3
<1>6. ASSUME NEW w \in 1..t
      PROVE  \/ \E i \in DOMAIN longer : longer[i].write = w
             \/ LostInOverlap(w, log, t)
             \/ Len(longer) >= KeepDeliveries /\ \A i \in DOMAIN longer : longer[i].write = 0 \/ longer[i].write > w
  <2>1. CASE \E i \in DOMAIN list : list[i].write = w
    BY <1>1, <1>2, <2>1
  <2>2. CASE Len(list) >= KeepDeliveries /\ \A i \in DOMAIN list : list[i].write = 0 \/ list[i].write > w
    BY <1>1, <1>2, <1>3, <2>2
  <2>3. QED
    BY <2>1, <2>2 DEF OnRecord
<1>7. QED
  BY <1>1, <1>4, <1>5, <1>6 DEF OnRecord, InOrder

LEMMA DispatchEnds ==
    ASSUME NEW log \in Seq(Nat), NEW x, NEW longer, x \in Nat, longer = Append(log, x)
    PROVE  /\ longer \in Seq(Nat) /\ Len(log) \in Nat /\ Len(longer) = Len(log) + 1 /\ longer[Len(log) + 1] = x
           /\ \A k \in 1..Len(log) : longer[k] = log[k]
           /\ \A list, t : OnRecord(list, log, t) => OnRecord(list, longer, t)
<1>1. PICK l : /\ l = Len(log) /\ l \in Nat /\ longer \in Seq(Nat) /\ Len(longer) = l + 1 /\ longer[l + 1] = x
               /\ \A k \in 1..l : longer[k] = log[k]
  BY AppendProperties, LenProperties
<1>2. ASSUME NEW list, NEW t, OnRecord(list, log, t) PROVE OnRecord(list, longer, t)
  <2>1. t \in 0..l /\ t \in 0..Len(longer)
    BY <1>1, <1>2 DEF OnRecord
  <2>2. ASSUME NEW w \in 1..t, LostInOverlap(w, log, t) PROVE LostInOverlap(w, longer, t)
    <3>1. PICK later \in w + 1..t : log[later] < w
      BY <2>2 DEF LostInOverlap
    <3>2. longer[later] = log[later]
      BY <1>1, <2>1, <3>1
    <3>3. QED
      BY <3>1, <3>2 DEF LostInOverlap
  <2>3. QED
    BY <1>2, <2>1, <2>2 DEF OnRecord
<1>3. QED
  BY <1>1, <1>2

Numbered(list, n) ==
    [i \in DOMAIN list |-> IF list[i].write = 0 THEN [list[i] EXCEPT !.write = n] ELSE list[i]]

(* What a dispatch writes when its last subscriber was called.             *)
LEMMA ListIsWritten ==
    ASSUME NEW log \in Seq(Nat), NEW list, NEW t, OnRecord(list, log, t),
           Len(list) > 0, list[Len(list)].write = 0,
           NEW longer, longer = Append(log, t),
           NEW written, written = KeepLast(Numbered(list, Len(log) + 1))
    PROVE  ListOnFile(written, longer)
<1>1. PICK l : /\ l = Len(log) /\ l \in Nat /\ longer \in Seq(Nat) /\ Len(longer) = l + 1 /\ longer[l + 1] = t
               /\ t \in 0..l /\ \A k \in 1..l : longer[k] = log[k]
  <2>1. t \in 0..Len(log) /\ t \in Nat
    BY LenProperties DEF OnRecord
  <2>2. /\ longer \in Seq(Nat) /\ Len(log) \in Nat /\ Len(longer) = Len(log) + 1 /\ longer[Len(log) + 1] = t
        /\ \A k \in 1..Len(log) : longer[k] = log[k]
    BY <2>1, DispatchEnds
  <2>3. QED
    BY <2>1, <2>2
<1>2. PICK k : k = Len(list) /\ k \in Nat /\ k > 0 /\ DOMAIN list = 1..k
  BY LenProperties DEF OnRecord, IsList
<1>3. PICK full : full = Numbered(list, l + 1)
  OBVIOUS
<1>4. full \in [1..k -> Range(full)] /\ DOMAIN full = 1..k
  BY <1>2, <1>3 DEF Numbered, Range
<1>5. IsList(full) /\ Len(full) = k
  BY <1>2, <1>4, IsSequence DEF IsList
<1>6. ASSUME NEW i \in 1..k
      PROVE  /\ DeliveryRecord(full[i]) /\ full[i].write \in 1..l + 1
             /\ full[i].write = IF list[i].write = 0 THEN l + 1 ELSE list[i].write
  <2>1. PICK e : e = list[i] /\ e \in [sub : {e.sub}, outcome : {e.outcome}, write : Nat] /\ e.write \in 0..t
    BY <1>2 DEF OnRecord, DeliveryRecord
  <2>2. full[i] = IF e.write = 0 THEN [e EXCEPT !.write = l + 1] ELSE e
    BY <1>2, <1>3, <2>1 DEF Numbered
  <2>3. PICK f : f = [e EXCEPT !.write = l + 1] /\ DeliveryRecord(f) /\ f.write = l + 1
    <3>1. PICK f : f = [e EXCEPT !.write = l + 1]
      OBVIOUS
    <3>2. f.sub = e.sub /\ f.outcome = e.outcome /\ f.write = l + 1
      BY <2>1, <3>1
    <3>3. DeliveryRecord(f)
      BY <1>1, <2>1, <3>1, <3>2 DEF DeliveryRecord
    <3>4. QED
      BY <3>1, <3>2, <3>3
  <2>4. QED
    BY <1>1, <2>1, <2>2, <2>3 DEF DeliveryRecord
<1>7. ASSUME NEW i \in 1..k, NEW j \in 1..k, i < j PROVE full[i].write <= full[j].write
  <2>1. list[j].write = 0 \/ (list[i].write # 0 /\ list[i].write <= list[j].write)
    BY <1>2, <1>7 DEF OnRecord, InOrder
  <2>2. PICK a, b : a = list[i].write /\ b = list[j].write
    OBVIOUS
  <2>3. a \in 0..t /\ b \in 0..t
    BY <1>2, <1>7, <2>2 DEF OnRecord
  <2>4. full[i].write = IF a = 0 THEN l + 1 ELSE a
    BY <1>6, <1>7, <2>2
  <2>5. full[j].write = IF b = 0 THEN l + 1 ELSE b
    BY <1>6, <1>7, <2>2
  <2>6. b = 0 \/ (a # 0 /\ a <= b)
    BY <2>1, <2>2
  <2>7. a <= l + 1 /\ b <= l + 1 /\ l + 1 <= l + 1
    BY <1>1, <2>3
  <2>8. QED
    BY <2>4, <2>5, <2>6, <2>7
<1>8. PICK K, cut : /\ K = KeepDeliveries /\ K \in Nat /\ K > 0
                    /\ cut = (IF k < K THEN 0 ELSE k - K) /\ cut \in 0..(k - 1)
                    /\ cut \in Nat /\ cut < k /\ k - cut <= K /\ (cut > 0 => k - cut = K) /\ (k >= K => k - cut = K)
  BY <1>2, BridgeAssumption DEF BridgeAssumption
<1>9. /\ IsList(written) /\ Len(written) = k - cut /\ DOMAIN written = 1..k - cut
      /\ \A i \in 1..k - cut : written[i] = full[cut + i]
  <2>1. written = SubSeq(full, cut + 1, k)
    <3>1. written = SubSeq(full, IF k < K THEN 1 ELSE k - K + 1, k)
      BY <1>1, <1>3, <1>5, <1>8 DEF KeepLast
    <3>2. (IF k < K THEN 1 ELSE k - K + 1) = cut + 1
      BY <1>2, <1>8
    <3>3. QED
      BY <3>1, <3>2
  <2>2. \A i \in cut + 1..k : full[i] \in Range(full)
    BY <1>4, <1>8
  <2>3. PICK from : from = cut + 1 /\ from \in Int /\ k \in Int /\ from <= k /\ k - from + 1 = k - cut
    BY <1>2, <1>8
  <2>4. /\ written \in Seq(Range(full)) /\ Len(written) = k - from + 1
        /\ \A i \in 1..k - from + 1 : written[i] = full[from + i - 1]
    <3>1. written = SubSeq(full, from, k) /\ \A i \in from..k : full[i] \in Range(full)
      BY <2>1, <2>2, <2>3
    <3>2. from \in Int /\ k \in Int /\ from <= k /\ \A i \in from..k : full[i] \in Range(full)
      BY <2>3, <3>1
    <3>3. written \in Seq(Range(full))
      <4>1. PICK R : R = Range(full) /\ \A i \in from..k : full[i] \in R
        BY <3>2
      <4>2. SubSeq(full, from, k) \in Seq(R)
        BY <3>2, <4>1, SubSeqProperties
      <4>3. QED
        BY <3>1, <4>1, <4>2
    <3>4. Len(written) = k - from + 1
      BY <3>1, <3>2, SubSeqProperties
    <3>5. \A i \in 1..k - from + 1 : written[i] = full[from + i - 1]
      BY <3>1, <3>2, SubSeqProperties
    <3>6. QED
      BY <3>3, <3>4, <3>5
  <2>5. DOMAIN written = 1..k - cut /\ written \in [1..k - cut -> Range(written)]
    BY <2>3, <2>4, LenProperties DEF Range
  <2>6. ASSUME NEW i \in 1..k - cut PROVE written[i] = full[cut + i]
    <3>1. from = cut + 1 /\ cut \in Nat /\ i \in Nat /\ k - from + 1 = k - cut
      BY <1>2, <1>8, <2>3
    <3>2. i \in 1..k - from + 1
      BY <3>1
    <3>3. from + i - 1 = cut + i
      BY <3>1
    <3>4. QED
      BY <2>4, <3>2, <3>3
  <2>7. PICK size : size = k - cut /\ size \in Nat /\ written \in [1..size -> Range(written)]
    BY <1>8, <1>2, <2>5
  <2>8. IsList(written) /\ Len(written) = k - cut
    <3>1. written \in Seq(Range(written))
      BY <2>7, IsSequence
    <3>2. Len(written) = size
      BY <2>7, IsSequence
    <3>3. QED
      BY <2>7, <3>1, <3>2 DEF IsList
  <2>9. QED
    BY <2>5, <2>6, <2>8
<1>10. \A i \in 1..k - cut : cut + i \in 1..k
  BY <1>2, <1>8
<1>11. \A i \in DOMAIN written : DeliveryRecord(written[i]) /\ written[i].write \in 1..l + 1
  BY <1>6, <1>9, <1>10
<1>12. InOrder(written)
  <2> SUFFICES ASSUME NEW i \in 1..k - cut, NEW j \in 1..k - cut, i < j
               PROVE  written[i].write # 0 /\ written[i].write <= written[j].write
    BY <1>9 DEF InOrder
  <2>1. cut + i < cut + j /\ cut + i \in 1..k /\ cut + j \in 1..k
    BY <1>8, <1>10
  <2>2. full[cut + i].write <= full[cut + j].write
    BY <1>7, <2>1
  <2>3. QED
    BY <1>9, <1>11, <2>2
<1>13. ASSUME NEW w \in 1..l + 1
       PROVE  \/ \E i \in DOMAIN written : written[i].write = w
              \/ LostInOverlap(w, longer, l + 1)
              \/ Len(written) >= K /\ \A i \in DOMAIN written : written[i].write = 0 \/ written[i].write > w
  <2>1. CASE w = l + 1
    <3>1. k - cut \in 1..k - cut /\ cut + (k - cut) = k
      BY <1>2, <1>8
    <3>2. full[k].write = l + 1
      BY <1>2, <1>6
    <3>3. QED
      BY <1>9, <2>1, <3>1, <3>2
  <2>2. CASE w \in t + 1..l
    <3>1. l + 1 \in w + 1..l + 1 /\ longer[l + 1] < w
      BY <1>1, <2>2
    <3>2. QED
      BY <3>1 DEF LostInOverlap
  <2>3. CASE w \in 1..t
    <3>1. CASE LostInOverlap(w, log, t)
      <4>1. PICK later \in w + 1..t : log[later] < w
        BY <3>1 DEF LostInOverlap
      <4>2. longer[later] = log[later] /\ later \in w + 1..l + 1
        BY <1>1, <2>3
      <4>3. QED
        BY <4>1, <4>2 DEF LostInOverlap
    <3>2. CASE Len(list) >= K /\ \A i \in DOMAIN list : list[i].write = 0 \/ list[i].write > w
      <4>1. k - cut = K
        BY <1>2, <1>8, <3>2
      <4>2. ASSUME NEW i \in 1..k PROVE full[i].write > w
        <5>1. list[i].write = 0 \/ list[i].write > w
          BY <1>2, <3>2
        <5>2. l + 1 > w
          BY <1>1, <2>3
        <5>3. QED
          BY <1>6, <5>1, <5>2
      <4>3. \A i \in 1..k - cut : written[i].write > w
        BY <1>9, <1>10, <4>2
      <4>4. QED
        BY <1>8, <1>9, <4>1, <4>3
    <3>3. ASSUME NEW o \in 1..k, list[o].write = w
          PROVE  \/ \E i \in DOMAIN written : written[i].write = w
                 \/ Len(written) >= K /\ \A i \in DOMAIN written : written[i].write = 0 \/ written[i].write > w
      <4>1. full[o].write = w
        <5>1. full[o].write = IF list[o].write = 0 THEN l + 1 ELSE list[o].write
          BY <1>6, <3>3
        <5>2. w # 0
          BY <1>1, <2>3
        <5>3. QED
          BY <3>3, <5>1, <5>2
      <4>2. CASE o > cut
        <5>1. o - cut \in 1..k - cut /\ cut + (o - cut) = o
          <6>1. o \in Nat /\ o <= k /\ cut \in Nat /\ k \in Nat
            BY <1>2, <1>8
          <6>2. QED
            BY <4>2, <6>1
        <5>2. QED
          BY <1>9, <4>1, <5>1
      <4>3. CASE o <= cut
        <5>1. k - cut = K
          BY <1>8, <4>3
        <5>2. ASSUME NEW i \in 1..k - cut PROVE written[i].write >= w
          <6>1. o < cut + i /\ cut + i \in 1..k
            BY <1>8, <1>10, <4>3
          <6>2. QED
            BY <1>7, <1>9, <4>1, <6>1
        <5>3. \A i \in 1..k - cut : written[i].write \in Nat
          BY <1>9, <1>11
        <5>4. CASE \E i \in 1..k - cut : written[i].write = w
          BY <1>9, <5>4
        <5>5. CASE \A i \in 1..k - cut : written[i].write # w
          <6>1. \A i \in 1..k - cut : written[i].write > w
            BY <2>3, <5>2, <5>3, <5>5
          <6>2. QED
            BY <1>8, <1>9, <5>1, <6>1
        <5>6. QED
          BY <5>4, <5>5
      <4>4. QED
        BY <1>8, <4>2, <4>3
    <3>4. QED
      BY <1>2, <1>8, <2>3, <3>1, <3>2, <3>3 DEF OnRecord
  <2>4. QED
    BY <1>1, <2>1, <2>2, <2>3
<1>14. OnRecord(written, longer, l + 1)
  BY <1>1, <1>8, <1>9, <1>11, <1>12, <1>13 DEF OnRecord
<1>15. Len(written) <= KeepDeliveries /\ \A i \in DOMAIN written : written[i].write # 0
  BY <1>8, <1>9, <1>11
<1>16. QED
  BY <1>1, <1>14, <1>15 DEF ListOnFile

LEMMA BridgeInvInit == BridgeInit => BridgeInv
<1> SUFFICES ASSUME BridgeInit PROVE BridgeInv
  OBVIOUS
<1>1. PICK none : none = <<>> /\ IsList(none) /\ none \in Seq(Nat) /\ Len(none) = 0 /\ DOMAIN none = {}
  <2>1. PICK none : none = <<>>
    OBVIOUS
  <2>2. IsList(none) /\ none \in Seq(Nat) /\ Len(none) = 0
    BY <2>1, EmptySeq DEF IsList
  <2>3. DOMAIN none = {}
    BY <2>1
  <2>4. QED
    BY <2>1, <2>2, <2>3
<1>2. KeepDeliveries \in Nat
  BY BridgeAssumption DEF BridgeAssumption
<1>3. ListOnFile(none, none)
  BY <1>1, <1>2 DEF ListOnFile, OnRecord, InOrder
<1>4. deliveries = none /\ writes = none /\ dispatching = [d \in Dispatches |-> NotDispatching]
  BY <1>1 DEF BridgeInit
<1>5. QED
  BY <1>1, <1>3, <1>4 DEF BridgeInv

LEMMA DispatchKeeps == ASSUME BridgeInv, NEW d \in Dispatches, NEW event, Dispatch(d, event) PROVE BridgeInv'
<1>1. PICK flight : /\ flight = [event |-> event, todo |-> SetToSeq(Matching(event)), list |-> deliveries, at |-> Len(writes)]
                    /\ FlightRecord(flight) /\ flight.list = deliveries /\ flight.at = Len(writes)
  <2>1. PICK flight : flight = [event |-> event, todo |-> SetToSeq(Matching(event)), list |-> deliveries, at |-> Len(writes)]
    OBVIOUS
  <2>2. FlightRecord(flight) /\ flight.list = deliveries /\ flight.at = Len(writes)
    BY <2>1 DEF FlightRecord
  <2>3. QED
    BY <2>1, <2>2
<1>2. dispatching' = [dispatching EXCEPT ![d] = flight] /\ UNCHANGED <<deliveries, writes>>
  BY <1>1 DEF Dispatch
<1>3. OnRecord(flight.list, writes, flight.at)
  BY <1>1 DEF BridgeInv, ListOnFile
<1>4. /\ dispatching' = [e \in Dispatches |-> dispatching'[e]]
      /\ \A e \in Dispatches : dispatching'[e] = IF e = d THEN flight ELSE dispatching[e]
  BY <1>2 DEF BridgeInv
<1>5. QED
  BY <1>1, <1>2, <1>3, <1>4 DEF BridgeInv

LEMMA DeliverKeeps == ASSUME BridgeInv, NEW d \in Dispatches, NEW outcome, Deliver(d, outcome) PROVE BridgeInv'
<1>1. PICK flight : /\ flight = dispatching[d] /\ flight # NotDispatching /\ FlightRecord(flight)
                    /\ OnRecord(flight.list, writes, flight.at)
  BY DEF Deliver, BridgeInv
<1>2. PICK own : /\ own = [sub |-> Head(flight.todo), outcome |-> outcome, write |-> 0]
                 /\ DeliveryRecord(own) /\ own.write = 0
  <2>1. PICK own : own = [sub |-> Head(flight.todo), outcome |-> outcome, write |-> 0]
    OBVIOUS
  <2>2. DeliveryRecord(own) /\ own.write = 0
    BY <2>1 DEF DeliveryRecord
  <2>3. QED
    BY <2>1, <2>2
<1>3. PICK longer : longer = Append(flight.list, own)
  OBVIOUS
<1>4. OnRecord(longer, writes, flight.at)
  BY <1>1, <1>2, <1>3, CallIsNoted
<1>5. CASE Len(flight.todo) > 1
  <2>1. PICK on : on = [flight EXCEPT !.todo = Tail(flight.todo), !.list = longer]
    OBVIOUS
  <2>2. dispatching' = [dispatching EXCEPT ![d] = on] /\ UNCHANGED <<deliveries, writes>>
    BY <1>1, <1>2, <1>3, <1>5, <2>1 DEF Deliver, BridgeInv
  <2>3. FlightRecord(on) /\ on.list = longer /\ on.at = flight.at
    BY <1>1, <2>1 DEF FlightRecord
  <2>4. /\ dispatching' = [e \in Dispatches |-> dispatching'[e]]
        /\ \A e \in Dispatches : dispatching'[e] = IF e = d THEN on ELSE dispatching[e]
    BY <2>2 DEF BridgeInv
  <2>5. QED
    BY <1>4, <2>2, <2>3, <2>4 DEF BridgeInv
<1>6. CASE ~(Len(flight.todo) > 1)
  <2>1. PICK log, t : log = writes /\ log \in Seq(Nat) /\ t = flight.at /\ t \in Nat
    BY <1>1, LenProperties DEF BridgeInv, OnRecord
  <2>2. /\ deliveries' = KeepLast(Numbered(longer, Len(log) + 1)) /\ writes' = Append(log, t)
        /\ dispatching' = [dispatching EXCEPT ![d] = NotDispatching]
    BY <1>1, <1>2, <1>3, <1>6, <2>1 DEF Deliver, Numbered
  <2>3. Len(longer) > 0 /\ longer[Len(longer)].write = 0
    <3>1. PICK n : n = Len(flight.list) /\ n \in Nat /\ Len(longer) = n + 1 /\ longer[n + 1] = own
      BY <1>1, <1>3, Appended DEF OnRecord
    <3>2. QED
      BY <1>2, <3>1
  <2>4. PICK over, written : over = Append(log, t) /\ written = KeepLast(Numbered(longer, Len(log) + 1))
    OBVIOUS
  <2>5. ListOnFile(written, over)
    BY <1>4, <2>1, <2>3, <2>4, ListIsWritten
  <2>6. over \in Seq(Nat) /\ \A list, u : OnRecord(list, log, u) => OnRecord(list, over, u)
    BY <2>1, <2>4, DispatchEnds
  <2>7. /\ dispatching' = [e \in Dispatches |-> dispatching'[e]]
        /\ \A e \in Dispatches : dispatching'[e] = IF e = d THEN NotDispatching ELSE dispatching[e]
    BY <2>2 DEF BridgeInv
  <2>8. \A e \in Dispatches : dispatching'[e] # NotDispatching =>
          FlightRecord(dispatching'[e]) /\ OnRecord(dispatching'[e].list, over, dispatching'[e].at)
    BY <2>1, <2>6, <2>7 DEF BridgeInv
  <2>9. QED
    BY <2>2, <2>4, <2>5, <2>6, <2>7, <2>8 DEF BridgeInv
<1>7. QED
  BY <1>5, <1>6

LEMMA BridgeInvStep == BridgeInv /\ [BridgeNext]_bridgeVars => BridgeInv'
<1> SUFFICES ASSUME BridgeInv, [BridgeNext]_bridgeVars PROVE BridgeInv'
  OBVIOUS
<1>1. ASSUME UNCHANGED <<deliveries, writes>>,
             dispatching' = [d \in Dispatches |-> NotDispatching] \/ UNCHANGED dispatching
      PROVE  BridgeInv'
  BY <1>1 DEF BridgeInv
<1>2. ASSUME NEW done, NEW event, LoggedChange(done, event) PROVE BridgeInv'
  BY <1>1, <1>2 DEF LoggedChange
<1>3. ASSUME NEW s, NEW filter, SubscribeWebhook(s, filter) \/ ChangeSubscription(s, filter) PROVE BridgeInv'
  BY <1>1, <1>3 DEF SubscribeWebhook, ChangeSubscription
<1>4. ASSUME NEW done, NEW crew, NEW endpoint, NEW key,
             ConnectCrew(crew, endpoint, key, done) \/ DisconnectCrew(done)
      PROVE  BridgeInv'
  BY <1>2, <1>4 DEF ConnectCrew, DisconnectCrew
<1>5. ASSUME NEW done, NEW l, NEW status, CreateLink(l, status, done) \/ DeleteLink(l, done) PROVE BridgeInv'
  BY <1>2, <1>5 DEF CreateLink, DeleteLink
<1>6. ASSUME NEW key, NEW l, PushActivity(key) \/ PullLink(l) PROVE BridgeInv'
  BY <1>1, <1>6 DEF PushActivity, PullLink, webhookVars
<1>7. CASE UNCHANGED bridgeVars
  BY <1>1, <1>7 DEF bridgeVars
<1>8. QED
  BY <1>3, <1>4, <1>5, <1>6, <1>7, DispatchKeeps, DeliverKeeps DEF BridgeNext

(* The outcome of a webhook delivery is on file, unless a dispatch that    *)
(* overlapped its own wrote an older list over it or newer ones took all   *)
(* the room.                                                               *)
THEOREM DeliveriesLoseToOverlapOnly == BridgeSpec => []DeliveryLostOnlyToOverlap
<1>1. BridgeInv => DeliveryLostOnlyToOverlap
  <2> SUFFICES ASSUME BridgeInv, NEW w \in DOMAIN writes
               PROVE  \/ \E i \in DOMAIN deliveries : deliveries[i].write = w
                      \/ \E later \in w + 1..Len(writes) : writes[later] < w
                      \/ Len(deliveries) = KeepDeliveries /\ \A i \in DOMAIN deliveries : deliveries[i].write > w
    BY DEF DeliveryLostOnlyToOverlap
  <2>1. PICK l, k : /\ l = Len(writes) /\ l \in Nat /\ w \in 1..l /\ OnRecord(deliveries, writes, l)
                    /\ k = Len(deliveries) /\ k \in Nat /\ k <= KeepDeliveries /\ KeepDeliveries \in Nat
                    /\ \A i \in DOMAIN deliveries : deliveries[i].write # 0
    BY LenProperties, BridgeAssumption DEF BridgeInv, ListOnFile, OnRecord, IsList, BridgeAssumption
  <2>2. QED
    BY <2>1 DEF OnRecord, LostInOverlap
<1>2. QED
  BY <1>1, BridgeInvInit, BridgeInvStep, PTL DEF BridgeSpec

-----------------------------------------------------------------------------
(* A batch of writes: one more write of a type is logged than is on file   *)
(* only if the process died between the two.                               *)
LEMMA LoggedStill ==
    ASSUME NEW kept, NEW n \in Nat, WritesAreLogged(kept, n),
           \A type \in DOMAIN kept : kept[type].versions \in Nat /\ kept[type].logged \in Nat,
           NEW batch, DOMAIN batch \subseteq Nat, NEW done \in Int, NEW m \in {n, n + 1},
           m = n => \E r \in Int : done = 2 * r,
           NEW new, new = writeArtifacts(kept, batch, done)
    PROVE  /\ WritesAreLogged(new, m)
           /\ \A type \in DOMAIN new : new[type].versions \in Nat /\ new[type].logged \in Nat
<1>1. DOMAIN new = DOMAIN kept
  BY DEF writeArtifacts
<1>2. ASSUME NEW type \in DOMAIN kept
      PROVE  /\ new[type].versions \in Nat /\ new[type].logged \in Nat
             /\ new[type].versions <= new[type].logged
             /\ new[type].logged - new[type].versions <= m
  <2>1. PICK v, l : /\ v = kept[type].versions /\ v \in Nat /\ l = kept[type].logged /\ l \in Nat
                    /\ v <= l /\ l - v <= n
    BY <1>2 DEF WritesAreLogged
  <2>2. PICK mine, filed :
          /\ mine = {i \in DOMAIN batch : batch[i].type = type /\ 2 * i - 1 <= done}
          /\ filed = {i \in mine : 2 * i <= done}
    OBVIOUS
  <2>3. new[type] = IF mine = {} THEN kept[type]
                    ELSE [versions |-> IF filed = {} THEN v ELSE v + 1,
                          logged |-> l + 1,
                          payload |-> IF filed = {} THEN kept[type].payload
                                      ELSE batch[CHOOSE i \in filed : TRUE].payload]
    BY <1>2, <2>1, <2>2 DEF writeArtifacts
  <2>4. CASE mine = {}
    BY <2>1, <2>3, <2>4
  <2>5. CASE mine # {} /\ filed # {}
    BY <2>1, <2>3, <2>5
  <2>6. CASE mine # {} /\ filed = {}
    <3>1. PICK i \in mine : i \in Nat /\ 2 * i - 1 <= done /\ ~(2 * i <= done)
      BY <2>2, <2>6
    <3>2. m = n + 1
      <4>1. ASSUME NEW r \in Int, done = 2 * r PROVE FALSE
        BY <3>1, <4>1
      <4>2. QED
        BY <4>1
    <3>3. new[type].versions = v /\ new[type].logged = l + 1
      BY <2>3, <2>6
    <3>4. QED
      BY <2>1, <3>2, <3>3
  <2>7. QED
    BY <2>4, <2>5, <2>6
<1>3. QED
  BY <1>1, <1>2 DEF WritesAreLogged

(* Where a batch stops is a number. *)
LEMMA ReachIsNumber ==
    ASSUME NEW batch, NEW k \in Nat, DOMAIN batch = 1..k, Len(batch) = k, NEW refused
    PROVE  Reach(batch, refused) \in Int
<1>1. PICK bad : bad = {i \in 1..k : batch[i].type \in refused}
  OBVIOUS
<1>2. Reach(batch, refused) = IF bad = {} THEN k ELSE (CHOOSE i \in bad : \A j \in bad : i <= j) - 1
  BY <1>1 DEF Reach
<1>3. CASE bad # {}
  <2>1. bad \subseteq Nat /\ bad # {}
    BY <1>1, <1>3
  <2>2. PICK i \in bad : \A j \in bad : ~(<<j, i>> \in OpToRel(<, Nat))
    BY <2>1, NatLessThanWellFounded, WFMin
  <2>3. ASSUME NEW j \in bad PROVE i <= j
    <3>1. i \in Nat /\ j \in Nat
      BY <2>1, <2>2
    <3>2. j < i => <<j, i>> \in OpToRel(<, Nat)
      BY <3>1 DEF OpToRel
    <3>3. ~(j < i)
      BY <2>2, <3>2
    <3>4. QED
      BY <3>1, <3>3
  <2>4. PICK m : m = (CHOOSE x \in bad : \A j \in bad : x <= j)
    OBVIOUS
  <2>5. m \in bad
    BY <2>2, <2>3, <2>4
  <2>6. m \in Nat /\ Reach(batch, refused) = m - 1
    BY <1>2, <1>3, <2>1, <2>4, <2>5
  <2>7. QED
    BY <2>6
<1>4. QED
  BY <1>2, <1>3

-----------------------------------------------------------------------------
BoardLogged ==
    interviewCrashes \in Nat /\ WritesAreLogged(board, interviewCrashes)

InterviewFits == InterviewInv /\ BoardLogged

LEMMA BoardBatch ==
    ASSUME InterviewFits, NEW batch, NEW k \in Nat, DOMAIN batch = 1..k, NEW done \in Int,
           board' = writeArtifacts(board, batch, done),
           interviewCrashes' \in {interviewCrashes, interviewCrashes + 1},
           interviewCrashes' = interviewCrashes => \E r \in Int : done = 2 * r
    PROVE  BoardLogged'
<1>1. PICK n : n = interviewCrashes /\ n \in Nat
  BY DEF InterviewFits, BoardLogged
<1>2. PICK m : m = interviewCrashes' /\ m \in {n, n + 1} /\ (m = n => \E r \in Int : done = 2 * r)
  BY <1>1
<1>3. PICK kept : kept = board
  OBVIOUS
<1>4. WritesAreLogged(kept, n)
  BY <1>1, <1>3 DEF InterviewFits, BoardLogged
<1>5. \A type \in DOMAIN kept : kept[type].versions \in Nat /\ kept[type].logged \in Nat
  BY <1>3 DEF InterviewFits, InterviewInv, BoardHolds
<1>6. DOMAIN batch \subseteq Nat
  OBVIOUS
<1>7. PICK new : new = board' /\ new = writeArtifacts(kept, batch, done)
  BY <1>3
<1>8. WritesAreLogged(new, m)
  BY <1>1, <1>2, <1>4, <1>5, <1>6, <1>7, LoggedStill
<1>9. QED
  BY <1>1, <1>2, <1>7, <1>8 DEF BoardLogged

(* The types a confirmation writes are a list. *)
LEMMA TypesAreListed ==
    ASSUME NEW mode, NEW types,
           types = IF mode = "collective" THEN Append(CoreTypes, "collective_config") ELSE CoreTypes
    PROVE  Len(types) \in Nat /\ DOMAIN types = 1..Len(types)
<1>1. CoreTypes \in Seq(BoardTypes)
  <2>1. DOMAIN CoreTypes = 1..5
    BY DEF CoreTypes
  <2>2. CoreTypes = [i \in 1..5 |-> CoreTypes[i]]
    BY <2>1 DEF CoreTypes
  <2>3. \A i \in 1..5 : CoreTypes[i] \in BoardTypes
    BY DEF BoardTypes
  <2>4. QED
    BY <2>2, <2>3, IsSequence
<1>2. Append(CoreTypes, "collective_config") \in Seq(BoardTypes)
  <2>1. "collective_config" \in BoardTypes
    BY DEF BoardTypes
  <2>2. QED
    BY <1>1, <2>1, AppendProperties
<1>3. types \in Seq(BoardTypes)
  BY <1>1, <1>2
<1>4. QED
  BY <1>3, LenProperties

LEMMA BatchOfBoard ==
    ASSUME NEW call, NEW applied, NEW mode, NEW chairs, NEW batch,
           batch = generateArtifacts(call, applied, mode, chairs)
    PROVE  \E k \in Nat : DOMAIN batch = 1..k /\ Len(batch) = k
<1>1. PICK types : types = IF mode = "collective" THEN Append(CoreTypes, "collective_config") ELSE CoreTypes
  OBVIOUS
<1>4. PICK k \in Nat : k = Len(types) /\ DOMAIN types = 1..k
  BY <1>1, TypesAreListed
<1>5. DOMAIN batch = DOMAIN types
  BY <1>1 DEF generateArtifacts
<1>6. batch = [i \in 1..k |-> batch[i]]
  BY <1>1, <1>4 DEF generateArtifacts
<1>7. Len(batch) = k
  <2>1. batch \in [1..k -> {batch[i] : i \in 1..k}]
    BY <1>6
  <2>2. QED
    BY <2>1, IsSequence
<1>8. QED
  BY <1>4, <1>5, <1>7

LEMMA InterviewFitsStep == InterviewFits /\ [InterviewNext]_interviewVars => InterviewFits'
<1> SUFFICES ASSUME InterviewFits, [InterviewNext]_interviewVars PROVE InterviewFits'
  OBVIOUS
<1>1. InterviewInv'
  BY InterviewInvStep DEF InterviewFits
<1>2. ASSUME UNCHANGED <<board, interviewCrashes>> PROVE BoardLogged'
  BY <1>2 DEF InterviewFits, BoardLogged
<1>3. ASSUME NEW c \in InterviewCalls, NEW reply, NEW roster, NEW refused, NEW done \in 0..12,
             Generated(c, reply, roster, refused, done)
      PROVE  BoardLogged'
  <2>1. PICK chairs, call : chairs = buildBlueprintChairs(inferChairContexts(reply), roster) /\ call = pending[c]
    OBVIOUS
  <2>2. PICK batch : batch = IF call.kind = "confirm" THEN generateArtifacts(call, interview.applied, interview.mode, chairs)
                             ELSE generateArtifacts(call, {}, "business", chairs)
    OBVIOUS
  <2>3. PICK k \in Nat : DOMAIN batch = 1..k /\ Len(batch) = k
    BY <2>2, BatchOfBoard
  <2>4. PICK reach : reach = Reach(batch, refused) /\ reach \in Int
    BY <2>3, ReachIsNumber
  <2>5. /\ done <= 2 * reach /\ board' = writeArtifacts(board, batch, done)
        /\ IF done < 2 * reach THEN interviewCrashes' = interviewCrashes + 1 ELSE UNCHANGED interviewCrashes
    BY <1>3, <2>1, <2>2, <2>4 DEF Generated
  <2>6. interviewCrashes \in Nat
    BY DEF InterviewFits, BoardLogged
  <2>7. interviewCrashes' \in {interviewCrashes, interviewCrashes + 1} /\
        (interviewCrashes' = interviewCrashes => done = 2 * reach)
    BY <2>4, <2>5, <2>6
  <2>8. QED
    BY <2>3, <2>4, <2>5, <2>7, BoardBatch
<1>4. ASSUME NEW c \in InterviewCalls, NEW roster, Regenerated(c, roster) PROVE BoardLogged'
  <2>1. PICK batch : DOMAIN batch = 1..1 /\ board' = writeArtifacts(board, batch, 2)
                     /\ UNCHANGED interviewCrashes
    <3>1. PICK item : board' = writeArtifacts(board, <<item>>, 2) /\ UNCHANGED interviewCrashes
      BY <1>4 DEF Regenerated
    <3>2. DOMAIN <<item>> = 1..1
      OBVIOUS
    <3>3. QED
      BY <3>1, <3>2
  <2>2. 2 = 2 * 1 /\ 1 \in Int /\ 2 \in Int /\ 1 \in Nat
    OBVIOUS
  <2>3. QED
    BY <2>1, <2>2, BoardBatch
<1>5. ASSUME InterviewRestart PROVE BoardLogged'
  <2>1. board' = board /\ interviewCrashes' = interviewCrashes + 1
    BY <1>5 DEF InterviewRestart
  <2>2. PICK n, kept : n = interviewCrashes /\ n \in Nat /\ kept = board /\ WritesAreLogged(kept, n)
    BY DEF InterviewFits, BoardLogged
  <2>3. \A type \in DOMAIN kept : kept[type].versions \in Nat /\ kept[type].logged \in Nat
    BY <2>2 DEF InterviewFits, InterviewInv, BoardHolds
  <2>4. WritesAreLogged(kept, n + 1)
    BY <2>2, <2>3 DEF WritesAreLogged
  <2>5. QED
    BY <2>1, <2>2, <2>4 DEF BoardLogged
<1>6. BoardLogged'
  <2>1. CASE UNCHANGED interviewVars
    BY <1>2, <2>1 DEF interviewVars
  <2>2. CASE StartInterview \/ SayYes \/ \E mode \in {"business", "collective"} : Respond(mode)
    BY <1>2, <2>2 DEF StartInterview, SayYes, Respond
  <2>3. ASSUME NEW c \in InterviewCalls,
               \/ AskParse(c) \/ SubmitParsed(c) \/ \E patch \in Patches : AskCorrection(c, patch)
               \/ SubmitCorrection(c) \/ AskBoard(c) \/ AskSeed(c)
               \/ \E domain \in ToSet(Fallback) : AskRegenerate(c, domain)
               \/ GenerationFails(c)
        PROVE  BoardLogged'
    BY <1>2, <2>3 DEF AskParse, SubmitParsed, AskCorrection, SubmitCorrection, AskBoard, AskSeed,
                      AskRegenerate, GenerationFails
  <2>4. QED
    BY <1>3, <1>4, <1>5, <2>1, <2>2, <2>3 DEF InterviewNext
<1>7. QED
  BY <1>1, <1>6 DEF InterviewFits

LEMMA InterviewTypes == InterviewSpec => []InterviewTypeOK
<1>1. InterviewInit => InterviewFits
  <2>1. ASSUME InterviewInit PROVE BoardLogged
    BY <2>1 DEF InterviewInit, BoardLogged, WritesAreLogged, NoArtifact
  <2>2. QED
    BY <2>1, InterviewInvInit DEF InterviewFits
<1>2. InterviewFits => InterviewTypeOK
  BY DEF InterviewFits, InterviewInv, BoardLogged, InterviewTypeOK, InterviewRecords, InterviewCallRecords
<1>3. QED
  BY <1>1, <1>2, InterviewFitsStep, PTL DEF InterviewSpec

-----------------------------------------------------------------------------
(* The packs' types: what is on disk of a pack, and what an install has    *)
(* yet to fetch, is of the files its manifest lists; so only packs that    *)
(* have pages get into the web's build.                                    *)
OwnFiles(p) == {"manifest"} \cup ToSet(Files(p))

AddinFiles ==
    /\ IsInjective(registry)
    /\ rebuildPending \cup webPages \cup dismissed \subseteq PackPages
    /\ \A p \in Packs : packFiles[p] \subseteq OwnFiles(p)
    /\ \A i \in Installers : installing[i].todo # <<>> =>
         installing[i].pack \in Packs /\ ToSet(installing[i].todo) \subseteq OwnFiles(installing[i].pack)
    /\ validators \subseteq SchemaTypes /\ rebuildSignal \in BOOLEAN
    /\ installs \in 0..MaxInstalls /\ addinCrashes \in 0..MaxAddinCrashes

LEMMA AddinNumbers == MaxInstalls \in Nat /\ MaxAddinCrashes \in Nat
BY AddinAssumption DEF AddinAssumption

(* A pack has a page among its files only if it has pages. *)
LEMMA PageOfPack == ASSUME NEW p \in Packs, "page" \in OwnFiles(p) PROVE p \in PackPages
<1>1. PICK types : types = PackTypes[p] /\ types \in Seq(SchemaTypes)
  BY AddinAssumption DEF AddinAssumption
<1>2. CASE p \notin PackPages
  <2>1. PICK none : none = <<>> /\ none \in Seq(SchemaTypes)
    BY EmptySeq
  <2>2. Files(p) = types \o none
    BY <1>1, <1>2, <2>1 DEF Files
  <2>3. Files(p) \in Seq(SchemaTypes)
    BY <1>1, <2>1, <2>2, ConcatProperties
  <2>4. ToSet(Files(p)) \subseteq SchemaTypes
    BY <2>3, SeqFacts
  <2>5. QED
    BY <2>4, AddinAssumption DEF OwnFiles, AddinAssumption
<1>3. QED
  BY <1>2

LEMMA NothingToFetch == NotInstalling.todo = <<>>
BY DEF NotInstalling

LEMMA InstallTyped ==
    ASSUME AddinInv, AddinFiles, NEW i \in Installers
    PROVE  /\ \A p \in Packs : installPack(i, p) => AddinFiles'
           /\ \A ok \in BOOLEAN : FetchFile(i, ok) => AddinFiles'
<1>1. PICK old, files :
        /\ old = installing /\ old \in [Installers -> InstallRecords]
        /\ files = packFiles /\ files \in [Packs -> SUBSET FileNames]
  BY DEF AddinInv
<1>2. ASSUME NEW p \in Packs, installPack(i, p) PROVE AddinFiles'
  <2>0. PICK list : list = Files(p)
    OBVIOUS
  <2>1. PICK new : new = [pack |-> p, todo |-> list]
    OBVIOUS
  <2>11. new.pack = p /\ new.todo = list
    BY <2>1
  <2>12. ToSet(new.todo) \subseteq OwnFiles(p)
    BY <2>0, <2>11 DEF OwnFiles
  <2>2. /\ installing' = [old EXCEPT ![i] = new] /\ packFiles' = [files EXCEPT ![p] = files[p] \cup {"manifest"}]
        /\ installs < MaxInstalls /\ installs' = installs + 1
        /\ UNCHANGED <<registry, rebuildPending, rebuildSignal, webPages, validators, dismissed, addinCrashes>>
    BY <1>1, <1>2, <2>0, <2>1 DEF installPack
  <2>3. \A q \in Packs : packFiles'[q] \subseteq OwnFiles(q)
    BY <1>1, <2>2 DEF AddinFiles, OwnFiles
  <2>4. \A j \in Installers : installing'[j].todo # <<>> =>
          installing'[j].pack \in Packs /\ ToSet(installing'[j].todo) \subseteq OwnFiles(installing'[j].pack)
    BY <1>1, <2>11, <2>12, <2>2 DEF AddinFiles
  <2>5. installs' \in 0..MaxInstalls
    BY <2>2, AddinNumbers DEF AddinFiles
  <2>6. QED
    BY <2>2, <2>3, <2>4, <2>5 DEF AddinFiles
<1>3. ASSUME NEW ok \in BOOLEAN, FetchFile(i, ok) PROVE AddinFiles'
  <2>1. PICK todo, p : /\ todo = old[i].todo /\ p = old[i].pack /\ todo \in Seq(FileNames) /\ todo # <<>>
                       /\ p \in Packs /\ ToSet(todo) \subseteq OwnFiles(p)
    BY <1>1, <1>3 DEF FetchFile, InstallRecords, AddinFiles
  <2>2. PICK n : n \in Nat /\ n = Len(todo) /\ n > 0 /\ DOMAIN todo = 1..n
    BY <2>1, SeqFacts, EmptySeq
  <2>3. Head(todo) \in OwnFiles(p)
    <3>1. Head(todo) = todo[1] /\ 1 \in DOMAIN todo
      BY <2>1, <2>2, HeadTailProperties
    <3>2. QED
      BY <2>1, <3>1 DEF ToSet
  <2>4. ToSet(Tail(todo)) \subseteq OwnFiles(p)
    <3>0. n - 1 \in Nat
      BY <2>2
    <3>1. PICK rest, m : rest = Tail(todo) /\ m = n - 1 /\ m \in Nat
      BY <3>0
    <3>2. rest \in Seq(FileNames) /\ Len(rest) = m /\ \A k \in 1..m : rest[k] = todo[k + 1]
      BY <2>1, <2>2, <3>1, HeadTailProperties
    <3>3. DOMAIN rest = 1..m
      BY <3>1, <3>2, SeqFacts
    <3>4. ASSUME NEW k \in 1..m PROVE rest[k] \in ToSet(todo)
      <4>1. k + 1 \in DOMAIN todo
        BY <2>2, <3>1
      <4>2. QED
        BY <3>2, <4>1 DEF ToSet
    <3>5. QED
      BY <2>1, <3>1, <3>3, <3>4 DEF ToSet
  <2>5. PICK new : new = [old[i] EXCEPT !.todo = Tail(todo)]
    OBVIOUS
  <2>51. new.pack = p /\ new.todo = Tail(todo)
    <3>1. PICK was, rest : was = old[i] /\ was \in InstallRecords /\ was.pack = p /\ rest = Tail(todo)
      BY <1>1, <2>1
    <3>2. new = [was EXCEPT !.todo = rest]
      BY <2>5, <3>1
    <3>3. QED
      BY <3>1, <3>2 DEF InstallRecords
  <2>6. /\ installing' = [old EXCEPT ![i] = new]
        /\ packFiles' = IF ok THEN [files EXCEPT ![p] = files[p] \cup {Head(todo)}] ELSE files
        /\ UNCHANGED <<registry, rebuildPending, rebuildSignal, webPages, validators, installs, dismissed, addinCrashes>>
    BY <1>1, <1>3, <2>1, <2>5 DEF FetchFile
  <2>7. \A q \in Packs : packFiles'[q] \subseteq OwnFiles(q)
    BY <1>1, <2>3, <2>6 DEF AddinFiles
  <2>8. \A j \in Installers : installing'[j].todo # <<>> =>
          installing'[j].pack \in Packs /\ ToSet(installing'[j].todo) \subseteq OwnFiles(installing'[j].pack)
    BY <1>1, <2>1, <2>4, <2>51, <2>6 DEF AddinFiles
  <2>9. QED
    BY <2>6, <2>7, <2>8 DEF AddinFiles
<1>4. QED
  BY <1>2, <1>3

(* The process dies, or goes on. *)
LEMMA InstallsGo ==
    ASSUME AddinFiles, AddinDies
    PROVE  /\ \A i \in Installers : installing'[i].todo # <<>> =>
                installing'[i].pack \in Packs /\ ToSet(installing'[i].todo) \subseteq OwnFiles(installing'[i].pack)
           /\ validators' \subseteq SchemaTypes /\ addinCrashes' \in 0..MaxAddinCrashes
<1>1. addinCrashes' \in 0..MaxAddinCrashes
  BY AddinNumbers DEF AddinFiles, AddinDies
<1>2. QED
  BY <1>1, NothingToFetch DEF AddinDies

LEMMA RegistryGrows ==
    ASSUME NEW list \in Seq(Packs), IsInjective(list), NEW p \in Packs, p \notin ToSet(list),
           NEW longer, longer = Append(list, p)
    PROVE  IsInjective(longer)
<1>1. PICK n : n = Len(list) /\ n \in Nat /\ DOMAIN list = 1..n
  BY LenProperties
<1>2. /\ DOMAIN longer = 1..n + 1 /\ longer[n + 1] = p /\ \A k \in 1..n : longer[k] = list[k]
  <2>1. longer \in Seq(Packs) /\ Len(longer) = n + 1
    BY <1>1, AppendProperties
  <2>2. QED
    BY <1>1, <2>1, AppendProperties, SeqFacts
<1>3. \A k \in 1..n : list[k] # p
  BY <1>1 DEF ToSet
<1>4. ASSUME NEW a \in 1..n + 1, NEW b \in 1..n + 1, longer[a] = longer[b] PROVE a = b
  <2>1. (a \in 1..n \/ a = n + 1) /\ (b \in 1..n \/ b = n + 1)
    BY <1>1
  <2>2. CASE a \in 1..n /\ b \in 1..n
    BY <1>1, <1>2, <1>4, <2>2 DEF IsInjective
  <2>3. QED
    BY <1>2, <1>3, <1>4, <2>1, <2>2
<1>5. QED
  BY <1>2, <1>4 DEF IsInjective

LEMMA RegisterTyped ==
    ASSUME AddinInv, AddinFiles, NEW i \in Installers, NEW done \in 1..2, Register(i, done)
    PROVE  AddinFiles'
<1>1. PICK old : old = installing /\ old \in [Installers -> InstallRecords]
  BY DEF AddinInv
<1>2. PICK p : p = old[i].pack /\ p \in Packs
  BY <1>1 DEF Register, InstallRecords
<1>3. IsInjective(registry')
  <2>1. PICK list : list = registry /\ list \in Seq(Packs) /\ IsInjective(list)
    BY DEF AddinInv, AddinFiles
  <2>2. registry' = IF p \in ToSet(list) THEN list ELSE Append(list, p)
    BY <1>1, <1>2, <2>1 DEF Register, Registered
  <2>3. QED
    BY <1>2, <2>1, <2>2, RegistryGrows
<1>4. CASE done = 2
  <2>1. /\ rebuildPending' = (IF p \in PackPages THEN rebuildPending \cup {p} ELSE rebuildPending)
        /\ dismissed' = dismissed \ {p}
        /\ installing' = [old EXCEPT ![i] = NotInstalling]
        /\ UNCHANGED <<validators, addinCrashes, packFiles, rebuildSignal, webPages, installs>>
    BY <1>1, <1>2, <1>4 DEF Register
  <2>2. \A j \in Installers : installing'[j] = old[j] \/ installing'[j] = NotInstalling
    BY <1>1, <2>1
  <2>3. QED
    BY <1>1, <1>3, <2>1, <2>2, NothingToFetch DEF AddinFiles
<1>5. CASE done # 2
  <2>1. AddinDies /\ UNCHANGED <<rebuildPending, dismissed, packFiles, rebuildSignal, webPages, installs>>
    BY <1>5 DEF Register
  <2>2. QED
    BY <1>3, <2>1, InstallsGo DEF AddinFiles
<1>6. QED
  BY <1>4, <1>5

(* A pack is taken out of a list that has none twice. *)
LEMMA WithoutPlace ==
    ASSUME NEW list \in Seq(Packs), IsInjective(list), NEW place \in DOMAIN list,
           NEW shorter, shorter = RemoveAt(list, place)
    PROVE  IsInjective(shorter)
<1>1. PICK n : n = Len(list) /\ n \in Nat /\ DOMAIN list = 1..n /\ place \in 1..n
  BY LenProperties
<1>2. PICK before, behind : before = SubSeq(list, 1, place - 1) /\ behind = SubSeq(list, place + 1, n)
  OBVIOUS
<1>3. shorter = before \o behind
  BY <1>1, <1>2 DEF RemoveAt
<1>4. \A k \in 1..n : list[k] \in Packs
  BY <1>1, SeqFacts
<1>5. /\ before \in Seq(Packs) /\ Len(before) = place - 1 /\ \A k \in 1..place - 1 : before[k] = list[k]
  <2>1. /\ 1 \in Int /\ place - 1 \in Int /\ \A k \in 1..place - 1 : list[k] \in Packs
    BY <1>1, <1>4
  <2>2. QED
    BY <1>1, <1>2, <2>1, SubSeqProperties
<1>6. /\ behind \in Seq(Packs) /\ Len(behind) = n - place /\ \A k \in 1..n - place : behind[k] = list[place + k]
  <2>1. /\ place + 1 \in Int /\ n \in Int /\ \A k \in place + 1..n : list[k] \in Packs
    BY <1>1, <1>4
  <2>2. /\ behind \in Seq(Packs)
        /\ Len(behind) = IF place + 1 <= n THEN n - (place + 1) + 1 ELSE 0
        /\ \A k \in 1..n - (place + 1) + 1 : behind[k] = list[place + 1 + k - 1]
    BY <1>2, <2>1, SubSeqProperties
  <2>3. Len(behind) = n - place /\ n - (place + 1) + 1 = n - place
    BY <1>1, <2>2
  <2>4. \A k \in 1..n - place : place + 1 + k - 1 = place + k
    BY <1>1
  <2>5. QED
    BY <2>2, <2>3, <2>4
<1>71. PICK lb, lh : lb = place - 1 /\ lh = n - place /\ lb \in Nat /\ lh \in Nat
  BY <1>1
<1>72. Len(before) = lb /\ Len(behind) = lh /\ DOMAIN before = 1..lb /\ DOMAIN behind = 1..lh
  BY <1>5, <1>6, <1>71, SeqFacts
<1>73. /\ before \o behind \in Seq(Packs)
       /\ Len(before \o behind) = Len(before) + Len(behind)
       /\ \A k \in 1..Len(before) + Len(behind) :
            (before \o behind)[k] = IF k <= Len(before) THEN before[k] ELSE behind[k - Len(before)]
  <2>1. before \in Seq(Packs) /\ behind \in Seq(Packs)
    BY <1>5, <1>6
  <2>2. QED
    BY <2>1, ConcatProperties, Zenon
<1>74. /\ shorter \in Seq(Packs) /\ Len(shorter) = lb + lh
       /\ \A k \in 1..lb + lh : shorter[k] = IF k <= lb THEN before[k] ELSE behind[k - lb]
  BY <1>3, <1>72, <1>73, Zenon
<1>75. lb + lh = n - 1
  BY <1>1, <1>71
<1>7. /\ DOMAIN shorter = 1..n - 1
      /\ \A k \in 1..n - 1 : shorter[k] = list[IF k < place THEN k ELSE k + 1]
  <2>1. DOMAIN shorter = 1..n - 1
    BY <1>74, <1>75, SeqFacts
  <2>2. ASSUME NEW k \in 1..n - 1 PROVE shorter[k] = list[IF k < place THEN k ELSE k + 1]
    <3>1. CASE k < place
      <4>1. k \in 1..place - 1 /\ k <= lb
        BY <1>1, <1>71, <3>1
      <4>2. shorter[k] = before[k]
        BY <1>74, <1>75, <4>1
      <4>3. QED
        BY <1>5, <3>1, <4>1, <4>2
    <3>2. CASE ~(k < place)
      <4>1. PICK m : m = k - lb /\ m \in 1..n - place /\ place + m = k + 1 /\ ~(k <= lb)
        BY <1>1, <1>71, <3>2
      <4>2. shorter[k] = behind[m]
        BY <1>74, <1>75, <4>1
      <4>3. behind[m] = list[k + 1]
        BY <1>6, <4>1
      <4>4. QED
        BY <3>2, <4>2, <4>3
    <3>3. QED
      BY <3>1, <3>2
  <2>3. QED
    BY <2>1, <2>2
<1>8. ASSUME NEW a \in 1..n - 1, NEW b \in 1..n - 1, shorter[a] = shorter[b] PROVE a = b
  <2>1. PICK x, y : /\ x = (IF a < place THEN a ELSE a + 1) /\ y = (IF b < place THEN b ELSE b + 1)
                    /\ x \in 1..n /\ y \in 1..n
    BY <1>1
  <2>2. x = y
    <3>1. list[x] = list[y]
      BY <1>7, <1>8, <2>1
    <3>2. QED
      BY <1>1, <2>1, <3>1 DEF IsInjective
  <2>3. QED
    BY <1>1, <2>1, <2>2
<1>9. QED
  BY <1>7, <1>8 DEF IsInjective

LEMMA UninstallTyped == ASSUME AddinInv, AddinFiles, NEW p \in Packs, uninstallPack(p) PROVE AddinFiles'
<1>1. PICK list, place : /\ list = registry /\ list \in Seq(Packs) /\ IsInjective(list)
                         /\ place = CHOOSE i \in DOMAIN list : list[i] = p
  BY DEF AddinInv, AddinFiles
<1>2. place \in DOMAIN list
  BY <1>1 DEF uninstallPack, ToSet
<1>3. PICK shorter : shorter = RemoveAt(list, place) /\ registry' = shorter
  BY <1>1 DEF uninstallPack
<1>4. IsInjective(shorter)
  BY <1>1, <1>2, <1>3, WithoutPlace
<1>5. QED
  BY <1>3, <1>4 DEF uninstallPack, AddinFiles

LEMMA WebTyped ==
    ASSUME AddinInv, AddinFiles
    PROVE  /\ Rebuild => AddinFiles'
           /\ clearRebuildPending => AddinFiles'
           /\ \A builds \in BOOLEAN : WebStarts(builds) => AddinFiles'
<1>1. ASSUME Rebuild PROVE AddinFiles'
  BY <1>1 DEF Rebuild, AddinFiles
<1>2. ASSUME clearRebuildPending PROVE AddinFiles'
  BY <1>2 DEF clearRebuildPending, AddinFiles
<1>3. ASSUME NEW builds \in BOOLEAN, WebStarts(builds) PROVE AddinFiles'
  <2>1. registry \in Seq(Packs) /\ ToSet(registry) \subseteq Packs
    BY SeqFacts DEF AddinInv
  <2>2. generateRegistry \subseteq PackPages
    <3>1. ASSUME NEW p \in generateRegistry PROVE p \in PackPages
      <4>1. p \in Packs /\ "page" \in packFiles[p]
        BY <2>1, <3>1 DEF generateRegistry
      <4>2. "page" \in OwnFiles(p)
        BY <4>1 DEF AddinFiles
      <4>3. QED
        BY <4>1, <4>2, PageOfPack
    <3>2. QED
      BY <3>1
  <2>3. QED
    BY <1>3, <2>2 DEF WebStarts, AddinFiles
<1>4. QED
  BY <1>1, <1>2, <1>3

LEMMA AddinFilesStep == ASSUME AddinInv, AddinFiles, AddinActions PROVE AddinFiles'
<1>1. ASSUME AddinRestart PROVE AddinFiles'
  BY <1>1, InstallsGo DEF AddinRestart, AddinFiles
<1>2. QED
  BY <1>1, InstallTyped, RegisterTyped, UninstallTyped, WebTyped DEF AddinActions

-----------------------------------------------------------------------------
(* The launch's types.                                                     *)
VenturePayloads == {"none", "interview", "launch", "posted"}

VentureFiles ==
    /\ AddinFiles
    /\ "section" \in DOMAIN venture /\ venture.section \in 0..7
    /\ \A type \in VentureTypes : ventureStore[type].logged \in Nat /\ ventureStore[type].payload \in VenturePayloads
    /\ WritesAreLogged(ventureStore, addinCrashes)

(* What a batch writes is of the payloads. *)
LEMMA PayloadsStay ==
    ASSUME NEW kept, \A type \in DOMAIN kept : kept[type].payload \in VenturePayloads,
           NEW batch, \A i \in DOMAIN batch : batch[i].payload \in VenturePayloads,
           NEW done, NEW new, new = writeArtifacts(kept, batch, done)
    PROVE  \A type \in DOMAIN new : new[type].payload \in VenturePayloads
<1>1. DOMAIN new = DOMAIN kept
  BY DEF writeArtifacts
<1>2. ASSUME NEW type \in DOMAIN kept PROVE new[type].payload \in VenturePayloads
  <2>1. PICK mine, filed :
          /\ mine = {i \in DOMAIN batch : batch[i].type = type /\ 2 * i - 1 <= done}
          /\ filed = {i \in mine : 2 * i <= done}
    OBVIOUS
  <2>2. PICK v, l, one : /\ v = (IF filed = {} THEN kept[type].versions ELSE kept[type].versions + 1)
                         /\ l = kept[type].logged + 1 /\ one = CHOOSE i \in filed : TRUE
    OBVIOUS
  <2>3. PICK pay : pay = IF filed = {} THEN kept[type].payload ELSE batch[one].payload
    OBVIOUS
  <2>4. new[type] = IF mine = {} THEN kept[type] ELSE [versions |-> v, logged |-> l, payload |-> pay]
    BY <1>2, <2>1, <2>2, <2>3 DEF writeArtifacts
  <2>5. pay \in VenturePayloads
    <3>1. filed # {} => one \in DOMAIN batch
      BY <2>1, <2>2
    <3>2. QED
      BY <1>2, <2>3, <3>1
  <2>6. QED
    BY <1>2, <2>4, <2>5
<1>3. QED
  BY <1>1, <1>2

LEMMA VentureBatch ==
    ASSUME LaunchInv, VentureFiles, NEW batch, NEW k \in Nat, DOMAIN batch = 1..k, Len(batch) = k,
           \A i \in DOMAIN batch : batch[i].payload \in VenturePayloads,
           NEW done \in Int, NEW after, "section" \in DOMAIN after, after.section \in 0..7, NEW events,
           WriteVenture(batch, done, after, events)
    PROVE  VentureFiles'
<1>1. PICK reach : reach = Reach(batch, Unloadable) /\ reach \in Int
  BY ReachIsNumber
<1>2. PICK n : n = addinCrashes /\ n \in Nat
  BY DEF LaunchInv, AddinInv
<1>3. PICK kept : kept = ventureStore /\ DOMAIN kept = VentureTypes
  BY DEF LaunchInv, StoreHolds
<1>4. PICK new : new = ventureStore' /\ new = writeArtifacts(kept, batch, done)
  BY <1>3 DEF WriteVenture
<1>5. PICK m : m = addinCrashes' /\ m \in {n, n + 1} /\ (m = n => \E r \in Int : done = 2 * r)
  <2>1. done \in 0..2 * reach
    BY <1>1 DEF WriteVenture
  <2>2. CASE done < 2 * reach
    <3>1. addinCrashes' = n + 1
      BY <1>1, <1>2, <2>2 DEF WriteVenture, AddinDies
    <3>2. n + 1 # n
      BY <1>2
    <3>3. QED
      BY <3>1, <3>2
  <2>3. CASE ~(done < 2 * reach)
    <3>1. addinCrashes' = n
      BY <1>1, <1>2, <2>3 DEF WriteVenture
    <3>2. done = 2 * reach
      BY <1>1, <2>1, <2>3
    <3>3. QED
      BY <1>1, <3>1, <3>2
  <2>4. QED
    BY <2>2, <2>3
<1>6. DOMAIN new = VentureTypes
  BY <1>3, <1>4 DEF writeArtifacts
<1>7. WritesAreLogged(new, m) /\ \A type \in DOMAIN new : new[type].versions \in Nat /\ new[type].logged \in Nat
  <2>1. WritesAreLogged(kept, n)
    BY <1>2, <1>3 DEF VentureFiles
  <2>2. \A type \in DOMAIN kept : kept[type].versions \in Nat /\ kept[type].logged \in Nat
    BY <1>3 DEF VentureFiles, LaunchInv, StoreHolds
  <2>3. DOMAIN batch \subseteq Nat
    OBVIOUS
  <2>4. QED
    BY <1>2, <1>4, <1>5, <2>1, <2>2, <2>3, LoggedStill
<1>8. \A type \in DOMAIN new : new[type].payload \in VenturePayloads
  <2>1. \A type \in DOMAIN kept : kept[type].payload \in VenturePayloads
    BY <1>3 DEF VentureFiles
  <2>2. QED
    BY <1>4, <2>1, PayloadsStay
<1>9. "section" \in DOMAIN venture' /\ venture'.section \in 0..7
  <2>1. venture' = NoVenture \/ venture' = after
    BY DEF WriteVenture
  <2>2. QED
    BY <2>1 DEF NoVenture
<1>10. AddinFiles'
  <2>1. PICK made : made = {batch[i].type : i \in 1..reach}
    OBVIOUS
  <2>2. CASE done < 2 * reach
    <3>1. AddinDies /\ UNCHANGED <<registry, packFiles, rebuildPending, rebuildSignal, webPages, installs, dismissed>>
      BY <1>1, <2>2 DEF WriteVenture
    <3>2. QED
      BY <3>1, InstallsGo DEF VentureFiles, AddinFiles
  <2>3. CASE ~(done < 2 * reach)
    <3>1. /\ validators' = validators \cup (made \cap SchemaTypes)
          /\ UNCHANGED <<registry, packFiles, rebuildPending, rebuildSignal, webPages, installs, dismissed,
                         addinCrashes, installing>>
      BY <1>1, <2>1, <2>3 DEF WriteVenture
    <3>2. QED
      BY <3>1 DEF VentureFiles, AddinFiles
  <2>4. QED
    BY <2>2, <2>3
<1>11. QED
  BY <1>4, <1>5, <1>6, <1>7, <1>8, <1>9, <1>10 DEF VentureFiles

LEMMA VentureFilesInit == LaunchInit => VentureFiles
<1> SUFFICES ASSUME LaunchInit PROVE VentureFiles
  OBVIOUS
<1>1. AddinFiles
  <2>1. registry = <<>> /\ DOMAIN registry = {}
    BY DEF LaunchInit, AddinInit
  <2>2. IsInjective(registry)
    BY <2>1 DEF IsInjective
  <2>3. \A i \in Installers : installing[i].todo = <<>>
    BY NothingToFetch DEF LaunchInit, AddinInit
  <2>4. rebuildPending \cup webPages \cup dismissed \subseteq PackPages /\ validators \subseteq SchemaTypes
    BY DEF LaunchInit, AddinInit
  <2>5. \A p \in Packs : packFiles[p] \subseteq OwnFiles(p)
    BY DEF LaunchInit, AddinInit
  <2>6. rebuildSignal \in BOOLEAN /\ installs \in 0..MaxInstalls /\ addinCrashes \in 0..MaxAddinCrashes
    <3>1. rebuildSignal = FALSE /\ installs = 0 /\ addinCrashes = 0
      BY DEF LaunchInit, AddinInit
    <3>2. 0 \in 0..MaxInstalls /\ 0 \in 0..MaxAddinCrashes
      BY AddinNumbers
    <3>3. QED
      BY <3>1, <3>2, Zenon
  <2>7. QED
    BY <2>2, <2>3, <2>4, <2>5, <2>6 DEF AddinFiles
<1>2. PICK found \in FoundTypes :
        ventureStore = [type \in VentureTypes |->
          IF type \in found THEN [versions |-> 1, logged |-> 1, payload |-> "interview"] ELSE NoArtifact]
  BY DEF LaunchInit
<1>3. ASSUME NEW type \in VentureTypes
      PROVE  /\ ventureStore[type].logged \in Nat /\ ventureStore[type].payload \in VenturePayloads
             /\ ventureStore[type].versions = ventureStore[type].logged
  BY <1>2, <1>3 DEF NoArtifact, VenturePayloads
<1>4. WritesAreLogged(ventureStore, addinCrashes)
  <2>1. addinCrashes = 0 /\ DOMAIN ventureStore = VentureTypes
    BY <1>2 DEF LaunchInit, AddinInit
  <2>2. ASSUME NEW type \in VentureTypes
        PROVE  /\ ventureStore[type].versions <= ventureStore[type].logged
               /\ ventureStore[type].logged - ventureStore[type].versions <= 0
    <3>1. PICK l : l = ventureStore[type].logged /\ l \in Nat /\ ventureStore[type].versions = l
      BY <1>3
    <3>2. QED
      BY <3>1
  <2>3. QED
    BY <2>1, <2>2 DEF WritesAreLogged
<1>5. "section" \in DOMAIN venture /\ venture.section \in 0..7
  BY DEF LaunchInit, NoVenture
<1>6. QED
  BY <1>1, <1>3, <1>4, <1>5 DEF VentureFiles

(* More crashes excuse no less. *)
LEMMA LoggedAnyway ==
    ASSUME LaunchInv, VentureFiles, addinCrashes' \in {addinCrashes, addinCrashes + 1}, ventureStore' = ventureStore
    PROVE  /\ \A type \in VentureTypes : ventureStore'[type].logged \in Nat /\ ventureStore'[type].payload \in VenturePayloads
           /\ WritesAreLogged(ventureStore', addinCrashes')
<1>1. PICK n, m : n = addinCrashes /\ n \in Nat /\ m = addinCrashes' /\ m \in {n, n + 1}
  BY DEF LaunchInv, AddinInv
<1>2. PICK kept : /\ kept = ventureStore /\ DOMAIN kept = VentureTypes /\ WritesAreLogged(kept, n)
                  /\ \A type \in VentureTypes : kept[type].versions \in Nat /\ kept[type].logged \in Nat
  BY <1>1 DEF LaunchInv, StoreHolds, VentureFiles
<1>3. WritesAreLogged(kept, m)
  <2>1. ASSUME NEW type \in VentureTypes
        PROVE  kept[type].versions <= kept[type].logged /\ kept[type].logged - kept[type].versions <= m
    <3>1. PICK v, l : /\ v = kept[type].versions /\ v \in Nat /\ l = kept[type].logged /\ l \in Nat
                      /\ v <= l /\ l - v <= n
      BY <1>2 DEF WritesAreLogged
    <3>2. QED
      BY <1>1, <3>1
  <2>2. QED
    BY <1>2, <2>1 DEF WritesAreLogged
<1>4. QED
  BY <1>1, <1>2, <1>3 DEF VentureFiles

LEMMA CrashesOnlyGrow ==
    ASSUME LaunchInv, AddinActions PROVE addinCrashes' \in {addinCrashes, addinCrashes + 1}
BY DEF AddinActions, installPack, FetchFile, Register, uninstallPack, Rebuild, clearRebuildPending, WebStarts,
       AddinRestart, AddinDies

LEMMA VentureFilesStep == LaunchInv /\ VentureFiles /\ [LaunchNext]_launchVars => VentureFiles'
<1> SUFFICES ASSUME LaunchInv, VentureFiles, [LaunchNext]_launchVars PROVE VentureFiles'
  OBVIOUS
<1>1. ASSUME UNCHANGED addinVars PROVE AddinFiles' /\ addinCrashes' = addinCrashes
  BY <1>1 DEF VentureFiles, AddinFiles, addinVars
<1>2. CASE AddinActions /\ venture' \in {NoVenture, venture} /\ UNCHANGED ventureStore
  <2>1. AddinFiles'
    BY <1>2, AddinFilesStep DEF VentureFiles, LaunchInv
  <2>2. addinCrashes' \in {addinCrashes, addinCrashes + 1}
    BY <1>2, CrashesOnlyGrow
  <2>3. "section" \in DOMAIN venture' /\ venture'.section \in 0..7
    BY <1>2 DEF VentureFiles, NoVenture
  <2>4. QED
    BY <1>2, <2>1, <2>2, <2>3, LoggedAnyway DEF VentureFiles
<1>3. CASE StartLaunch
  <2>1. "section" \in DOMAIN venture' /\ venture'.section \in 0..7
    BY <1>3 DEF StartLaunch, NoVenture
  <2>2. UNCHANGED <<addinVars, ventureStore>>
    BY <1>3 DEF StartLaunch
  <2>3. QED
    BY <1>1, <2>1, <2>2, LoggedAnyway DEF VentureFiles
<1>4. ASSUME NEW sound \in BOOLEAN, NEW confirmed \in BOOLEAN, SubmitSection(sound, confirmed) PROVE VentureFiles'
  <2>1. PICK was, s : was = venture /\ s = was.section /\ s \in 0..7 /\ "section" \in DOMAIN was
    BY DEF VentureFiles
  <2>2. PICK t : t = (IF s < 7 THEN s + 1 ELSE s) /\ t \in 0..7
    BY <2>1
  <2>3. PICK a, b : venture' = [was EXCEPT !.section = t, !.sound = a, !.confirmed = b]
    BY <1>4, <2>1, <2>2 DEF SubmitSection
  <2>4. "section" \in DOMAIN venture' /\ venture'.section = t
    BY <2>1, <2>3
  <2>5. UNCHANGED <<addinVars, ventureStore>>
    BY <1>4 DEF SubmitSection
  <2>6. QED
    BY <1>1, <2>2, <2>4, <2>5, LoggedAnyway DEF VentureFiles
<1>5. ASSUME NEW done \in 0..18, FinalizeLaunch(done) PROVE VentureFiles'
  <2>1. PICK batch : batch = FinalizedArtifacts
    OBVIOUS
  <2>2. PICK k : k = Len(batch) /\ k \in Nat /\ DOMAIN batch = 1..k /\ \A i \in DOMAIN batch : batch[i].payload = "launch"
    BY <2>1, BatchIsWhole
  <2>3. PICK stuck, gone : stuck = [venture EXCEPT !.finalized = TRUE] /\ gone = [stuck EXCEPT !.stage = "gone"]
    OBVIOUS
  <2>4. PICK after, events : after \in {stuck, gone} /\ WriteVenture(batch, done, after, events)
    BY <1>5, <2>1, <2>3 DEF FinalizeLaunch
  <2>5. "section" \in DOMAIN after /\ after.section \in 0..7
    BY <2>3, <2>4 DEF VentureFiles
  <2>6. \A i \in DOMAIN batch : batch[i].payload \in VenturePayloads
    BY <2>2 DEF VenturePayloads
  <2>7. done \in Int
    BY <1>5
  <2>8. QED
    BY <2>2, <2>4, <2>5, <2>6, <2>7, VentureBatch
<1>6. ASSUME NEW type \in PostedTypes, NEW done \in 0..2, PostArtifact(type, done) PROVE VentureFiles'
  <2>1. PICK batch : batch = LaunchArtifacts(<<type>>, "posted") /\ WriteVenture(batch, done, venture, 0)
    BY <1>6 DEF PostArtifact
  <2>2. DOMAIN <<type>> = 1..1
    OBVIOUS
  <2>3. batch = [i \in 1..1 |-> [type |-> <<type>>[i], payload |-> "posted"]]
    BY <2>1, <2>2 DEF LaunchArtifacts
  <2>4. DOMAIN batch = 1..1 /\ Len(batch) = 1 /\ 1 \in Nat
    BY <2>3, Appended
  <2>5. \A i \in DOMAIN batch : batch[i].payload \in VenturePayloads
    BY <2>3, <2>4 DEF VenturePayloads
  <2>6. done \in Int /\ "section" \in DOMAIN venture /\ venture.section \in 0..7
    BY DEF VentureFiles
  <2>7. QED
    BY <2>1, <2>4, <2>5, <2>6, VentureBatch
<1>7. CASE LaunchRestart
  <2>1. /\ AddinDies /\ venture' = NoVenture /\ ventureStore' = ventureStore
        /\ UNCHANGED <<registry, packFiles, rebuildPending, rebuildSignal, webPages, installs, dismissed>>
    BY <1>7 DEF LaunchRestart
  <2>2. AddinFiles'
    BY <2>1, InstallsGo DEF VentureFiles, AddinFiles
  <2>3. addinCrashes' \in {addinCrashes, addinCrashes + 1}
    BY <2>1 DEF AddinDies
  <2>4. "section" \in DOMAIN venture' /\ venture'.section \in 0..7
    BY <2>1 DEF NoVenture
  <2>5. QED
    BY <2>1, <2>2, <2>3, <2>4, LoggedAnyway DEF VentureFiles
<1>8. CASE UNCHANGED launchVars
  <2>1. UNCHANGED <<addinVars, ventureStore, venture>>
    BY <1>8 DEF launchVars
  <2>2. QED
    BY <1>1, <2>1, LoggedAnyway DEF VentureFiles
<1>9. QED
  BY <1>2, <1>3, <1>4, <1>5, <1>6, <1>7, <1>8 DEF LaunchNext

(* The launch's types: a written artifact was logged before it was filed.  *)
LEMMA LaunchesAreTyped == LaunchSpec => []LaunchTypeOK
<1>1. LaunchInv /\ VentureFiles => LaunchTypeOK
  <2>1. LaunchInv /\ VentureFiles => AddinTypeOK
    BY SeqFacts DEF LaunchInv, AddinInv, VentureFiles, AddinFiles, AddinTypeOK, OwnFiles
  <2>2. QED
    BY <2>1 DEF VentureFiles, LaunchTypeOK, VenturePayloads
<1>2. QED
  BY <1>1, LaunchInvInit, LaunchInvStep, VentureFilesInit, VentureFilesStep, PTL DEF LaunchSpec

-----------------------------------------------------------------------------
(* What HttpInv leaves open of the types: the bounds of time and restarts, *)
(* and which answers the idempotency store has on record.                  *)
Statuses == {0, 202} \cup ContextAnswers \cup HandlerAnswers

HttpRanges ==
    /\ now \in 0..MaxTime /\ restarts \in 0..MaxRestarts
    /\ \A k \in Keys : store[k] \in Statuses

HttpFits == HttpInv /\ HttpRanges

LEMMA HttpRangesStep == HttpFits /\ [HttpNext]_httpVars => HttpRanges'
<1> SUFFICES ASSUME HttpFits, [HttpNext]_httpVars PROVE HttpRanges'
  OBVIOUS
<1>1. MaxTime \in Nat /\ MaxRestarts \in Nat
  BY HttpAssumption DEF HttpAssumption
<1>2. HttpRanges
  BY DEF HttpFits
<1>3. ASSUME NEW p, NEW key, TurnedAway(p, key) PROVE HttpRanges'
  BY <1>2, <1>3 DEF TurnedAway, HttpRanges
<1>4. ASSUME NEW c, NEW p, NEW key, Enters(c, p, key) PROVE HttpRanges'
  BY <1>2, <1>4 DEF Enters, HttpRanges, Statuses
<1>5. ASSUME NEW c, NEW status \in ContextAnswers \cup HandlerAnswers, NEW heard, Answered(c, status, heard)
      PROVE  HttpRanges'
  <2>1. \A k \in Keys : store'[k] \in {store[k], status}
    BY <1>5 DEF Answered
  <2>2. UNCHANGED <<now, restarts>> /\ status \in Statuses
    BY <1>5 DEF Answered, Statuses
  <2>3. QED
    BY <1>2, <2>1, <2>2 DEF HttpRanges
<1>6. CASE Tick
  BY <1>1, <1>2, <1>6 DEF Tick, HttpRanges
<1>7. CASE ProcessRestart
  BY <1>1, <1>2, <1>7 DEF ProcessRestart, HttpRanges, NoKeys, Statuses
<1>8. CASE UNCHANGED httpVars
  BY <1>2, <1>8 DEF httpVars, HttpRanges
<1>9. QED
  BY <1>3, <1>4, <1>5, <1>6, <1>7, <1>8 DEF HttpNext

LEMMA HttpTypes == HttpSpec => []HttpTypeOK
<1>1. HttpInit => HttpFits
  <2>1. MaxTime \in Nat /\ MaxRestarts \in Nat
    BY HttpAssumption DEF HttpAssumption
  <2>2. HttpInit => HttpRanges
    BY <2>1 DEF HttpInit, HttpRanges, NoKeys, Statuses
  <2>3. QED
    BY <2>2, HttpInvInit, HttpAssumption DEF HttpFits
<1>2. HttpFits /\ [HttpNext]_httpVars => HttpFits'
  BY HttpRangesStep, HttpInvStep, HttpAssumption DEF HttpFits
<1>3. ASSUME HttpFits PROVE HttpTypeOK
  <2>1. ASSUME NEW p \in Paths PROVE requestCounter[p].count \in 0..maxRequests
    <3>1. PICK counter, times, t : counter = requestCounter[p] /\ PathOK(counter, times, t)
      BY <1>3 DEF HttpFits, HttpInv, WindowsOK
    <3>2. counter.count \in 0..maxRequests
      <4>1. CASE counter = NoWindow
        <5>1. counter.count = 0
          BY <4>1 DEF NoWindow
        <5>2. QED
          BY <5>1, LimitsType, HttpAssumption
      <4>2. CASE counter # NoWindow
        <5>1. counter.count \in 1..maxRequests
          BY <3>1, <4>2 DEF PathOK, InWindow
        <5>2. QED
          BY <5>1
      <4>3. QED
        BY <4>1, <4>2
    <3>3. QED
      BY <3>1, <3>2
  <2>2. QED
    BY <1>3, <2>1 DEF HttpFits, HttpRanges, HttpInv, KeysOK, HttpTypeOK, Statuses
<1>4. QED
  BY <1>1, <1>2, <1>3, PTL DEF HttpSpec

LEMMA ChatTypes == ChatSpec => []ChatTypeOK
<1>1. ASSUME ChatInv PROVE ChatTypeOK
  <2>1. chatJobs \in Seq(ChatJobRecords) /\ executions \in Seq(ExecutionRecords) /\ chatLog \in Seq(Nat)
    BY <1>1 DEF ChatInv
  <2>2. ASSUME NEW i \in DOMAIN chatJobs PROVE chatJobs[i].status \in ChatStatuses
    <3>1. chatJobs[i] \in ChatJobRecords
      BY <2>1, SeqFacts
    <3>2. QED
      BY <3>1 DEF ChatJobRecords
  <2>3. DOMAIN executions = DOMAIN chatJobs
    BY <1>1, <2>1, SeqFacts DEF ChatInv
  <2>4. Range(chatLog) = ToSet(chatLog)
    BY DEF Range, ToSet
  <2>5. QED
    BY <1>1, <2>2, <2>3, <2>4 DEF ChatInv, ChatTypeOK
<1>2. QED
  BY <1>1, ChatInvInit, ChatInvStep, ChatAssumption, DomainAssumption, PTL DEF ChatSpec

-----------------------------------------------------------------------------
(* The greatest of some places of a list is one of them. *)
LEMMA LastPlace ==
    ASSUME NEW n \in Nat, NEW S, S \subseteq 1..n, S # {}
    PROVE  Max(S) \in S
<1>1. PICK T : T = {n - x : x \in S}
  OBVIOUS
<1>2. T \subseteq Nat /\ T # {}
  <2>1. ASSUME NEW x \in S PROVE n - x \in Nat
    <3>1. x \in 1..n
      OBVIOUS
    <3>2. QED
      BY <3>1
  <2>2. QED
    BY <1>1, <2>1
<1>3. PICK t \in T : \A u \in T : ~(<<u, t>> \in OpToRel(<, Nat))
  BY <1>2, NatLessThanWellFounded, WFMin
<1>4. PICK x \in S : t = n - x
  BY <1>1
<1>5. ASSUME NEW y \in S PROVE x >= y
  <2>1. PICK u : u = n - y /\ u \in T /\ u \in Nat /\ t \in Nat
    BY <1>1, <1>2
  <2>2. u < t => <<u, t>> \in OpToRel(<, Nat)
    BY <2>1 DEF OpToRel
  <2>3. ~(u < t)
    BY <1>3, <2>1, <2>2
  <2>4. x \in Nat /\ y \in Nat
    OBVIOUS
  <2>5. QED
    BY <1>4, <2>1, <2>3, <2>4
<1>6. PICK m : m = CHOOSE z \in S : \A y \in S : z >= y
  OBVIOUS
<1>7. m \in S
  BY <1>5, <1>6
<1>8. QED
  BY <1>6, <1>7 DEF Max

-----------------------------------------------------------------------------
(* The types of a meeting: what is in the minutes, and in what an answer   *)
(* will write over them, was said; and what was said is of the texts.      *)
Recalled(list, log) == \A i \in DOMAIN list : \E j \in DOMAIN log : list[i] = log[j]

OfTexts(log) == \A j \in DOMAIN log : log[j].text \in MeetingTexts

MeetingFiles ==
    /\ meetings \in [MeetingIds -> {"none", "open", "closed"}]
    /\ meetingLog \in [MeetingIds -> [MeetingEvents -> Nat]]
    /\ meetingCrashes \in 0..MaxMeetingCrashes

MeetingTalk ==
    /\ \A m \in MeetingIds : OfTexts(said[m]) /\ Recalled(minutes[m], said[m])
    /\ \A a \in Answers : answering[a].meeting # "none" =>
         answering[a].read # <<>> /\ Recalled(answering[a].read, said[answering[a].meeting])

MeetingFits ==
    MeetingInv /\ MeetingFiles /\ MeetingTalk /\ meetingSessions \in [MeetingIds -> SessionState]

LEMMA SaidOnce ==
    ASSUME NEW log, IsList(log), OfTexts(log), NEW message, message.text \in MeetingTexts,
           NEW longer, longer = Append(log, message)
    PROVE  /\ OfTexts(longer)
           /\ \A list : Recalled(list, log) => Recalled(list, longer)
           /\ \A list : IsList(list) /\ Recalled(list, log) => Recalled(Append(list, message), longer)
<1>1. PICK l : /\ l = Len(log) /\ l \in Nat /\ DOMAIN log = 1..l /\ DOMAIN longer = 1..l + 1
               /\ longer[l + 1] = message /\ \A k \in 1..l : longer[k] = log[k]
  BY Appended
<1>2. OfTexts(longer)
  BY <1>1 DEF OfTexts
<1>3. ASSUME NEW list, Recalled(list, log) PROVE Recalled(list, longer)
  BY <1>1, <1>3 DEF Recalled
<1>4. ASSUME NEW list, IsList(list), Recalled(list, log) PROVE Recalled(Append(list, message), longer)
  <2>1. PICK written : written = Append(list, message)
    OBVIOUS
  <2>2. PICK k : /\ k \in Nat /\ DOMAIN list = 1..k /\ DOMAIN written = 1..k + 1
                 /\ written[k + 1] = message /\ \A i \in 1..k : written[i] = list[i]
    <3>1. Len(list) \in Nat /\ DOMAIN list = 1..Len(list)
      BY <1>4, <2>1, Appended
    <3>2. DOMAIN written = 1..Len(list) + 1 /\ written[Len(list) + 1] = message
      BY <1>4, <2>1, Appended
    <3>3. \A i \in 1..Len(list) : written[i] = list[i]
      BY <1>4, <2>1, Appended
    <3>4. QED
      BY <3>1, <3>2, <3>3
  <2>3. l + 1 \in DOMAIN longer
    BY <1>1
  <2>4. ASSUME NEW i \in DOMAIN written PROVE \E j \in DOMAIN longer : written[i] = longer[j]
    <3>1. CASE i \in 1..k
      BY <1>3, <1>4, <2>2, <3>1 DEF Recalled
    <3>2. CASE i = k + 1
      BY <1>1, <2>2, <2>3, <3>2
    <3>3. QED
      BY <2>2, <3>1, <3>2
  <2>5. QED
    BY <2>1, <2>4 DEF Recalled
<1>5. QED
  BY <1>2, <1>3, <1>4

(* A message joins what was said, behind what its writer had read. *)
LEMMA MessageWritten ==
    ASSUME MeetingFits, NEW m \in MeetingIds, NEW list, IsList(list), Recalled(list, said[m]),
           NEW message, message.text \in MeetingTexts, WriteMinutes(m, list, message),
           \A a \in Answers : answering'[a] = answering[a] \/ answering'[a] = Idle
    PROVE  MeetingTalk'
<1>1. PICK log : log = said[m] /\ IsList(log) /\ OfTexts(log)
  BY DEF MeetingFits, MeetingInv, MeetingTalk
<1>2. PICK longer, written : longer = Append(log, message) /\ written = Append(list, message)
  OBVIOUS
<1>3. OfTexts(longer) /\ \A l : Recalled(l, log) => Recalled(l, longer)
  BY <1>1, <1>2, SaidOnce
<1>4. Recalled(written, longer)
  BY <1>1, <1>2, SaidOnce
<1>5. minutes' = [minutes EXCEPT ![m] = written] /\ said' = [said EXCEPT ![m] = longer]
  BY <1>1, <1>2 DEF WriteMinutes
<1>6. /\ minutes'[m] = written /\ said'[m] = longer
      /\ \A o \in MeetingIds : o # m => minutes'[o] = minutes[o] /\ said'[o] = said[o]
  BY <1>5 DEF MeetingFits, MeetingInv
<1>7. \A o \in MeetingIds : OfTexts(said'[o]) /\ Recalled(minutes'[o], said'[o])
  BY <1>3, <1>4, <1>6 DEF MeetingFits, MeetingTalk
<1>8. ASSUME NEW a \in Answers, answering'[a].meeting # "none"
      PROVE  answering'[a].read # <<>> /\ Recalled(answering'[a].read, said'[answering'[a].meeting])
  <2>1. answering'[a] = answering[a]
    BY <1>8 DEF Idle
  <2>2. PICK call, o : /\ call = answering[a] /\ o = call.meeting /\ o \in MeetingIds
                       /\ call.read # <<>> /\ Recalled(call.read, said[o])
    BY <1>8, <2>1 DEF MeetingFits, MeetingInv, MeetingTalk
  <2>3. Recalled(call.read, said'[o])
    BY <1>1, <1>3, <1>6, <2>2
  <2>4. QED
    BY <2>1, <2>2, <2>3
<1>9. QED
  BY <1>7, <1>8 DEF MeetingTalk

(* Requests for an answer go, and nothing is said. *)
LEMMA NothingIsSaid ==
    ASSUME MeetingTalk, UNCHANGED <<minutes, said>>,
           \A a \in Answers : answering'[a] = answering[a] \/ answering'[a] = Idle
    PROVE  MeetingTalk'
BY DEF MeetingTalk, Idle

LEMMA AnswersGo ==
    ASSUME MeetingInv, NEW going, NEW done, MeetingCut(done, going),
           going = answering \/ \E a \in Answers : going = [answering EXCEPT ![a] = Idle]
    PROVE  \A a \in Answers : answering'[a] = answering[a] \/ answering'[a] = Idle
BY DEF MeetingCut, MeetingInv

LEMMA EventIsLogged ==
    ASSUME MeetingFiles, NEW m \in MeetingIds, NEW event \in MeetingEvents, NEW done \in 1..2, NEW going,
           MeetingLogged(done, m, event), MeetingCut(done, going)
    PROVE  /\ meetingLog' \in [MeetingIds -> [MeetingEvents -> Nat]]
           /\ meetingCrashes' \in 0..MaxMeetingCrashes
<1>1. MaxMeetingCrashes \in Nat
  BY MeetingAssumption DEF MeetingAssumption
<1>2. PICK log, n : /\ log = meetingLog /\ log \in [MeetingIds -> [MeetingEvents -> Nat]]
                    /\ n = log[m][event] + 1 /\ n \in Nat
  BY DEF MeetingFiles
<1>3. PICK own, next : /\ own = [log[m] EXCEPT ![event] = n] /\ own \in [MeetingEvents -> Nat]
                       /\ next = [log EXCEPT ![m] = own] /\ next \in [MeetingIds -> [MeetingEvents -> Nat]]
  <2>1. log[m] \in [MeetingEvents -> Nat]
    BY <1>2
  <2>2. PICK mine : mine = log[m] /\ mine \in [MeetingEvents -> Nat]
    BY <2>1
  <2>3. [mine EXCEPT ![event] = n] \in [MeetingEvents -> Nat]
    BY <1>2, <2>2
  <2>4. PICK own : own = [mine EXCEPT ![event] = n] /\ own \in [MeetingEvents -> Nat]
    BY <2>3
  <2>5. [log EXCEPT ![m] = own] \in [MeetingIds -> [MeetingEvents -> Nat]]
    BY <1>2, <2>4
  <2>6. QED
    BY <2>2, <2>4, <2>5
<1>4. meetingLog' = log \/ meetingLog' = next
  BY <1>2, <1>3 DEF MeetingLogged, writeJsonAtomic
<1>5. meetingCrashes' \in 0..MaxMeetingCrashes
  BY <1>1 DEF MeetingCut, MeetingFiles
<1>6. QED
  BY <1>2, <1>3, <1>4, <1>5

LEMMA MeetingFitsInit == MeetingInit => MeetingFits
<1> SUFFICES ASSUME MeetingInit PROVE MeetingFits
  OBVIOUS
<1>1. MaxMeetingCrashes \in Nat
  BY MeetingAssumption DEF MeetingAssumption
<1>2. MeetingFiles
  BY <1>1 DEF MeetingInit, MeetingFiles
<1>3. MeetingTalk
  BY DEF MeetingInit, MeetingTalk, OfTexts, Recalled, Idle
<1>4. emptySession \in SessionState
  BY DEF emptySession, NoSpec, SessionState, MaybeDomain
<1>5. meetingSessions \in [MeetingIds -> SessionState]
  BY <1>4 DEF MeetingInit
<1>6. QED
  BY <1>2, <1>3, <1>5, MeetingInvInit DEF MeetingFits

LEMMA MeetingFitsStep == MeetingFits /\ [MeetingNext]_meetingVars => MeetingFits'
<1> SUFFICES ASSUME MeetingFits, [MeetingNext]_meetingVars PROVE MeetingFits'
  OBVIOUS
<1>1. MeetingInv /\ MeetingFiles /\ MeetingTalk /\ meetingSessions \in [MeetingIds -> SessionState]
  BY DEF MeetingFits
<1>2. MeetingInv'
  BY <1>1, MeetingInvStep
<1>3. ASSUME NEW m \in MeetingIds, NEW done \in 1..2, CreateMeeting(m, done) \/ CloseMeeting(m, done)
      PROVE  MeetingFits'
  <2>1. PICK event \in MeetingEvents, status \in {"open", "closed"} :
          /\ MeetingLogged(done, m, event) /\ MeetingCut(done, answering)
          /\ meetings' = [meetings EXCEPT ![m] = status]
          /\ UNCHANGED <<minutes, meetingSessions, said>>
    BY <1>3 DEF CreateMeeting, CloseMeeting, MeetingEvents
  <2>2. MeetingFiles'
    BY <1>1, <2>1, EventIsLogged DEF MeetingFiles
  <2>3. MeetingTalk'
    BY <1>1, <2>1, AnswersGo, NothingIsSaid
  <2>4. QED
    BY <1>1, <1>2, <2>1, <2>2, <2>3 DEF MeetingFits
<1>4. ASSUME NEW m \in MeetingIds, NEW author, NEW text \in MeetingTexts, AddMessage(m, author, text)
      PROVE  MeetingFits'
  <2>1. PICK message : /\ message = Say(m, author, text, Len(said[m])) /\ message.text = text
                       /\ WriteMinutes(m, minutes[m], message)
                       /\ UNCHANGED <<meetings, meetingSessions, answering, meetingLog, meetingCrashes>>
    BY <1>4 DEF AddMessage, Say
  <2>2. PICK list : list = minutes[m] /\ IsList(list) /\ Recalled(list, said[m])
    BY <1>1 DEF MeetingInv, KeptOf, MeetingTalk
  <2>3. MeetingTalk'
    BY <2>1, <2>2, MessageWritten
  <2>4. QED
    BY <1>1, <1>2, <2>1, <2>3 DEF MeetingFits, MeetingFiles
<1>5. ASSUME NEW a \in Answers, NEW m \in MeetingIds, AskForAnswer(a, m) PROVE MeetingFits'
  <2>1. PICK list : list = minutes[m] /\ IsList(list) /\ Recalled(list, said[m])
    BY <1>1 DEF MeetingInv, KeptOf, MeetingTalk
  <2>2. PICK n : n \in Nat /\ DOMAIN list = 1..n
    BY <2>1, LenProperties DEF IsList
  <2>3. UserMessages(m) \subseteq 1..n /\ UserMessages(m) # {}
    BY <1>5, <2>1, <2>2 DEF AskForAnswer, UserMessages
  <2>4. PICK last : last = Max(UserMessages(m)) /\ last \in 1..n
    BY <2>2, <2>3, LastPlace
  <2>5. PICK text : text = list[last].text /\ text \in BoardMessage
    <3>1. list[last].text \in MeetingTexts
      BY <1>1, <2>1, <2>2, <2>4 DEF Recalled, MeetingTalk, OfTexts
    <3>2. QED
      BY <3>1, MeetingAssumption DEF MeetingAssumption
  <2>6. PICK before, spec, session :
          /\ before = meetingSessions[m] /\ before \in SessionState
          /\ spec = interpretChatMessage(text, before, NotForced)
          /\ session = applyInterpretation(before, spec)
    BY <1>1
  <2>7. session \in SessionState
    <3>1. NotForced.chair \in MaybeDomain /\ NotForced.domain \in MaybeDomain
      BY DEF NotForced, MaybeDomain
    <3>2. QED
      BY <2>5, <2>6, <3>1, DomainAssumption, Interpreted
  <2>8. meetingSessions' = [meetingSessions EXCEPT ![m] = session]
    BY <1>5, <2>1, <2>4, <2>5, <2>6 DEF AskForAnswer
  <2>9. PICK call : call = [meeting |-> m, read |-> list, at |-> Len(said[m])]
                    /\ answering' = [answering EXCEPT ![a] = call]
                    /\ UNCHANGED <<meetings, minutes, meetingLog, said, meetingCrashes>>
    BY <1>5, <2>1 DEF AskForAnswer
  <2>10. list # <<>>
    BY <2>2, <2>4
  <2>11. call.read # <<>> /\ Recalled(call.read, said[call.meeting])
    BY <2>1, <2>9, <2>10
  <2>12. MeetingTalk'
    BY <1>1, <2>9, <2>11 DEF MeetingTalk, MeetingInv
  <2>13. meetingSessions' \in [MeetingIds -> SessionState]
    BY <1>1, <2>7, <2>8
  <2>14. QED
    BY <1>1, <1>2, <2>9, <2>12, <2>13 DEF MeetingFits, MeetingFiles
<1>6. ASSUME NEW a \in Answers, NEW done \in 1..2, WriteAnswer(a, done) PROVE MeetingFits'
  <2>1. PICK call, m : /\ call = answering[a] /\ m = call.meeting /\ m # "none" /\ m \in MeetingIds
                       /\ IsList(call.read) /\ Recalled(call.read, said[m]) /\ call.read # <<>>
    BY <1>1, <1>6 DEF WriteAnswer, AnsweredWith, MeetingInv, AnswerHolds, KeptOf, MeetingTalk
  <2>2. Last(call.read).text \in MeetingTexts
    <3>1. PICK k : k \in Nat /\ k = Len(call.read) /\ DOMAIN call.read = 1..k
      BY <2>1, LenProperties DEF IsList
    <3>2. k \in DOMAIN call.read
      BY <2>1, <3>1, EmptySeq DEF IsList
    <3>3. PICK j \in DOMAIN said[m] : call.read[k] = said[m][j]
      BY <2>1, <3>2 DEF Recalled
    <3>4. said[m][j].text \in MeetingTexts
      BY <1>1, <2>1 DEF MeetingTalk, OfTexts
    <3>5. QED
      BY <3>1, <3>3, <3>4 DEF Last
  <2>3. PICK message : /\ message = Say(m, "AGENT", Last(call.read).text, call.at)
                       /\ message.text \in MeetingTexts
    <3>1. PICK text : text = Last(call.read).text /\ text \in MeetingTexts
      BY <2>2
    <3>2. PICK message : message = Say(m, "AGENT", text, call.at)
      OBVIOUS
    <3>3. message.text = text
      BY <3>2 DEF Say
    <3>4. QED
      BY <3>1, <3>2, <3>3
  <2>4. WriteMinutes(m, call.read, message) /\ UNCHANGED <<meetings, meetingSessions>>
    BY <1>6, <2>1, <2>3 DEF WriteAnswer, AnsweredWith
  <2>5. PICK going : going = [answering EXCEPT ![a] = Idle]
    OBVIOUS
  <2>6. \/ MeetingLogged(done, m, "respond_completed") /\ MeetingCut(done, going)
        \/ answering' = going /\ UNCHANGED <<meetingLog, meetingCrashes>>
    BY <1>6, <2>1, <2>5 DEF WriteAnswer, AnsweredWith
  <2>7. \A b \in Answers : answering'[b] = answering[b] \/ answering'[b] = Idle
    <3>1. CASE MeetingCut(done, going)
      BY <1>1, <2>5, <3>1, AnswersGo
    <3>2. CASE answering' = going
      BY <1>1, <2>5, <3>2 DEF MeetingInv
    <3>3. QED
      BY <2>6, <3>1, <3>2
  <2>8. MeetingTalk'
    BY <2>1, <2>3, <2>4, <2>7, MessageWritten
  <2>9. MeetingFiles'
    <3>1. CASE MeetingLogged(done, m, "respond_completed") /\ MeetingCut(done, going)
      <4>1. "respond_completed" \in MeetingEvents
        BY DEF MeetingEvents
      <4>2. QED
        BY <1>1, <2>1, <2>4, <3>1, <4>1, EventIsLogged DEF MeetingFiles
    <3>2. CASE UNCHANGED <<meetingLog, meetingCrashes>>
      BY <1>1, <2>4, <3>2 DEF MeetingFiles
    <3>3. QED
      BY <2>6, <3>1, <3>2
  <2>10. QED
    BY <1>1, <1>2, <2>4, <2>8, <2>9 DEF MeetingFits
<1>7. ASSUME MeetingRestart \/ \E a \in Answers : AnswerFails(a) PROVE MeetingFits'
  <2>1. /\ UNCHANGED <<meetings, minutes, meetingSessions, meetingLog, said>>
        /\ \A b \in Answers : answering'[b] = answering[b] \/ answering'[b] = Idle
        /\ \/ UNCHANGED meetingCrashes
           \/ meetingCrashes < MaxMeetingCrashes /\ meetingCrashes' = meetingCrashes + 1
    BY <1>1, <1>7 DEF MeetingRestart, AnswerFails, MeetingInv
  <2>2. MaxMeetingCrashes \in Nat
    BY MeetingAssumption DEF MeetingAssumption
  <2>3. MeetingFiles'
    BY <1>1, <2>1, <2>2 DEF MeetingFiles
  <2>4. MeetingTalk'
    BY <1>1, <2>1, NothingIsSaid
  <2>5. QED
    BY <1>1, <1>2, <2>1, <2>3, <2>4 DEF MeetingFits
<1>8. CASE UNCHANGED meetingVars
  BY <1>1, <1>2, <1>8 DEF meetingVars, MeetingFits, MeetingFiles, MeetingTalk
<1>9. QED
  BY <1>3, <1>4, <1>5, <1>6, <1>7, <1>8 DEF MeetingNext

LEMMA MeetingTypes == MeetingSpec => []MeetingTypeOK
<1>1. ASSUME MeetingFits PROVE MeetingTypeOK
  <2>1. \A m \in MeetingIds : Range(minutes[m]) \subseteq Range(said[m])
    BY <1>1 DEF MeetingFits, MeetingTalk, Recalled, Range
  <2>2. QED
    BY <1>1, <2>1 DEF MeetingFits, MeetingFiles, MeetingTypeOK
<1>2. QED
  BY <1>1, MeetingFitsInit, MeetingFitsStep, PTL DEF MeetingSpec

-----------------------------------------------------------------------------
(* The files of the bridges that no dispatch writes.  A connection is of a *)
(* crew, so what a crew pushes is told of a crew.                          *)
ConnectionRecords == [crew : Crews \cup {"none"}, endpoint : BOOLEAN, key : CrewKeys \cup {"none"}]

LinkRecords == [status : LinkStatuses \cup {"none"}, pulled : BOOLEAN]

BridgeFiles ==
    /\ subs \in [Subscriptions -> Filters \cup {"paused", "none"}]
    /\ connection \in ConnectionRecords /\ (connection # NotConnected => connection.crew \in Crews)
    /\ activities \in Seq(Crews)
    /\ links \in [Links -> LinkRecords]
    /\ bridgeLog \in Seq(EventTypes) /\ bridgeCrashes \in 0..MaxBridgeCrashes

BridgeFits == BridgeInv /\ BridgeFiles

LEMMA BridgeFilesInit == BridgeInit => BridgeFiles
<1> SUFFICES ASSUME BridgeInit PROVE BridgeFiles
  OBVIOUS
<1>1. MaxBridgeCrashes \in Nat
  BY BridgeAssumption DEF BridgeAssumption
<1>2. NotConnected \in ConnectionRecords /\ NoLink \in LinkRecords
  BY DEF NotConnected, ConnectionRecords, NoLink, LinkRecords
<1>3. <<>> \in Seq(Crews) /\ <<>> \in Seq(EventTypes)
  BY EmptySeq
<1>4. QED
  BY <1>1, <1>2, <1>3 DEF BridgeInit, BridgeFiles

LEMMA ChangeIsLogged ==
    ASSUME BridgeFiles, NEW done, NEW event \in EventTypes, LoggedChange(done, event)
    PROVE  /\ bridgeLog' \in Seq(EventTypes) /\ bridgeCrashes' \in 0..MaxBridgeCrashes
           /\ subs' \in [Subscriptions -> Filters \cup {"paused", "none"}]
<1>1. MaxBridgeCrashes \in Nat
  BY BridgeAssumption DEF BridgeAssumption
<1>2. PICK log, next : /\ log = bridgeLog /\ log \in Seq(EventTypes)
                       /\ next = Append(log, event) /\ next \in Seq(EventTypes)
  BY AppendProperties DEF BridgeFiles
<1>3. bridgeLog' \in {log, next}
  BY <1>2 DEF LoggedChange, writeJsonAtomic
<1>4. bridgeCrashes' \in 0..MaxBridgeCrashes
  BY <1>1 DEF LoggedChange, BridgeFiles
<1>5. QED
  BY <1>2, <1>3, <1>4 DEF LoggedChange, BridgeFiles

LEMMA BridgeFilesStep == BridgeFiles /\ [BridgeNext]_bridgeVars => BridgeFiles'
<1> SUFFICES ASSUME BridgeFiles, [BridgeNext]_bridgeVars PROVE BridgeFiles'
  OBVIOUS
<1>1. NotConnected \in ConnectionRecords /\ NoLink \in LinkRecords
  BY DEF NotConnected, ConnectionRecords, NoLink, LinkRecords
<1>2. EventTypes = {"webhook_ping", "federation_linked", "board_request_updated"}
  BY DEF EventTypes
<1>3. ASSUME NEW s \in Subscriptions, NEW filter \in Filters \cup {"paused", "none"},
             SubscribeWebhook(s, filter) \/ ChangeSubscription(s, filter)
      PROVE  BridgeFiles'
  BY <1>3 DEF SubscribeWebhook, ChangeSubscription, BridgeFiles
<1>4. ASSUME NEW d, NEW event, NEW outcome, Dispatch(d, event) \/ Deliver(d, outcome) PROVE BridgeFiles'
  BY <1>4 DEF Dispatch, Deliver, BridgeFiles
<1>5. ASSUME NEW done, NEW crew \in Crews, NEW endpoint \in BOOLEAN, NEW key \in CrewKeys,
             ConnectCrew(crew, endpoint, key, done)
      PROVE  BridgeFiles'
  <2>1. PICK c : c = [crew |-> crew, endpoint |-> endpoint, key |-> key]
    OBVIOUS
  <2>2. c \in ConnectionRecords /\ c.crew \in Crews
    BY <2>1 DEF ConnectionRecords
  <2>3. connection' = c /\ LoggedChange(done, "federation_linked") /\ UNCHANGED <<activities, links>>
    BY <1>5, <2>1 DEF ConnectCrew
  <2>4. QED
    BY <1>2, <2>2, <2>3, ChangeIsLogged DEF BridgeFiles
<1>6. ASSUME NEW done, DisconnectCrew(done) PROVE BridgeFiles'
  <2>1. connection' = NotConnected /\ LoggedChange(done, "board_request_updated") /\ UNCHANGED <<activities, links>>
    BY <1>6 DEF DisconnectCrew
  <2>2. QED
    BY <1>1, <1>2, <2>1, ChangeIsLogged DEF BridgeFiles
<1>7. ASSUME NEW done, NEW l \in Links,
             DeleteLink(l, done) \/ \E status \in LinkStatuses : CreateLink(l, status, done)
      PROVE  BridgeFiles'
  <2>1. PICK link \in LinkRecords, event \in EventTypes :
          /\ links' = [links EXCEPT ![l] = link] /\ LoggedChange(done, event)
          /\ UNCHANGED <<connection, activities>>
    <3>1. CASE DeleteLink(l, done)
      BY <1>1, <1>2, <3>1 DEF DeleteLink
    <3>2. ASSUME NEW status \in LinkStatuses, CreateLink(l, status, done)
          PROVE  \E link \in LinkRecords, event \in EventTypes :
                   /\ links' = [links EXCEPT ![l] = link] /\ LoggedChange(done, event)
                   /\ UNCHANGED <<connection, activities>>
      <4>1. PICK link : link = [status |-> status, pulled |-> FALSE]
        OBVIOUS
      <4>2. link \in LinkRecords
        BY <4>1 DEF LinkRecords
      <4>3. QED
        BY <1>2, <3>2, <4>1, <4>2 DEF CreateLink
    <3>3. QED
      BY <1>7, <3>1, <3>2
  <2>2. links' \in [Links -> LinkRecords]
    BY <2>1 DEF BridgeFiles
  <2>3. QED
    BY <2>1, <2>2, ChangeIsLogged DEF BridgeFiles
<1>8. ASSUME NEW key, PushActivity(key) PROVE BridgeFiles'
  <2>1. PICK crew \in Crews : activities' = Append(activities, crew)
    BY <1>8 DEF PushActivity, CrewAuthorised, BridgeFiles
  <2>2. activities' \in Seq(Crews)
    BY <2>1, AppendProperties DEF BridgeFiles
  <2>3. QED
    BY <1>8, <2>2 DEF PushActivity, BridgeFiles, webhookVars
<1>9. ASSUME NEW l \in Links, PullLink(l) PROVE BridgeFiles'
  <2>1. PICK link : link = links[l] /\ link \in LinkRecords
    BY DEF BridgeFiles
  <2>2. PICK pulled : pulled = [link EXCEPT !.pulled = TRUE] /\ pulled \in LinkRecords
    <3>1. PICK status, was : link = [status |-> status, pulled |-> was] /\ status \in LinkStatuses \cup {"none"}
      <4>1. link = [status |-> link.status, pulled |-> link.pulled]
        BY <2>1, Zenon DEF LinkRecords
      <4>2. link.status \in LinkStatuses \cup {"none"}
        BY <2>1, Zenon DEF LinkRecords
      <4>3. QED
        BY <4>1, <4>2, Zenon
    <3>2. PICK yes : yes = TRUE
      OBVIOUS
    <3>3. [link EXCEPT !.pulled = yes] = [status |-> status, pulled |-> yes]
      BY <3>1
    <3>4. [status |-> status, pulled |-> yes] \in LinkRecords
      BY <3>1, <3>2 DEF LinkRecords
    <3>5. QED
      BY <3>2, <3>3, <3>4
  <2>3. links' = [links EXCEPT ![l] = pulled]
    BY <1>9, <2>1, <2>2 DEF PullLink
  <2>4. links' \in [Links -> LinkRecords]
    BY <2>2, <2>3 DEF BridgeFiles
  <2>5. QED
    BY <1>9, <2>4 DEF PullLink, BridgeFiles, webhookVars
<1>10. CASE UNCHANGED bridgeVars
  BY <1>10 DEF bridgeVars, BridgeFiles
<1>11. QED
  BY <1>3, <1>4, <1>5, <1>6, <1>7, <1>8, <1>9, <1>10 DEF BridgeNext

LEMMA BridgeTypes == BridgeSpec => []BridgeTypeOK
<1>1. BridgeInit => BridgeFits
  BY BridgeInvInit, BridgeFilesInit DEF BridgeFits
<1>2. BridgeFits /\ [BridgeNext]_bridgeVars => BridgeFits'
  BY BridgeInvStep, BridgeFilesStep DEF BridgeFits
<1>3. ASSUME BridgeFits PROVE BridgeTypeOK
  <2>1. ASSUME NEW d \in Dispatches PROVE dispatching[d].at \in 0..Len(writes)
    <3>1. Len(writes) \in Nat
      BY <1>3, LenProperties DEF BridgeFits, BridgeInv
    <3>2. CASE dispatching[d] = NotDispatching
      BY <3>1, <3>2 DEF NotDispatching
    <3>3. CASE dispatching[d] # NotDispatching
      BY <1>3, <3>3 DEF BridgeFits, BridgeInv, OnRecord
    <3>4. QED
      BY <3>2, <3>3
  <2>2. Len(deliveries) <= KeepDeliveries
    BY <1>3 DEF BridgeFits, BridgeInv, ListOnFile
  <2>3. QED
    BY <1>3, <2>1, <2>2 DEF BridgeFits, BridgeFiles, BridgeTypeOK, ConnectionRecords, LinkRecords
<1>4. QED
  BY <1>1, <1>2, <1>3, PTL DEF BridgeSpec

-----------------------------------------------------------------------------
(* What the settings of a workspace are: the active provider, if there is  *)
(* one, is among those on file and has an adapter.                         *)
SettingsHold(s) ==
    /\ s.active \in ProviderIds \cup {"none"}
    /\ Acceptable(s)
    /\ DOMAIN s.providers \subseteq ProviderIds

PagesHold(tabs) ==
    /\ tabs = [t \in Tabs |-> tabs[t]]
    /\ \A t \in Tabs : /\ tabs[t] = [open |-> tabs[t].open, org |-> tabs[t].org, provider |-> tabs[t].provider,
                                     key |-> tabs[t].key, configured |-> tabs[t].configured,
                                     subscription |-> tabs[t].subscription, shown |-> tabs[t].shown]
                       /\ tabs[t].provider \in ProviderIds \cup {"none"}

BrokerHolds ==
    /\ brokered \in Nat /\ brokerRequests \in Nat
    /\ brokerLog = [ok |-> brokerLog.ok, failed |-> brokerLog.failed]
    /\ brokerLog.ok \in Nat /\ brokerLog.failed \in Nat
    /\ brokered + brokerLog.ok + brokerLog.failed <= brokerRequests

DevicesHold ==
    devices \subseteq Devices /\ saves \in 0..MaxSaves /\ registrations \in 0..MaxRegistrations

SettingsInv == SettingsHold(settings) /\ PagesHold(pages) /\ BrokerHolds /\ DevicesHold

LEMMA SettingsNumbers == MaxSaves \in Nat /\ MaxRegistrations \in Nat
BY ProviderSettingsAssumption DEF ProviderSettingsAssumption

LEMMA SettingsInvInit == SettingsInit => SettingsInv
<1> SUFFICES ASSUME SettingsInit PROVE SettingsInv
  OBVIOUS
<1>1. SettingsHold(settings)
  <2>1. settings = [org |-> "none", active |-> "none", providers |-> [p \in {} |-> "none"]]
    BY DEF SettingsInit, defaults
  <2>2. DOMAIN settings.providers = {} /\ settings.active = "none"
    BY <2>1
  <2>3. QED
    BY <2>2 DEF SettingsHold, Acceptable
<1>2. PagesHold(pages)
  BY DEF SettingsInit, PagesHold, Closed
<1>3. BrokerHolds
  BY DEF SettingsInit, BrokerHolds
<1>4. DevicesHold
  BY SettingsNumbers DEF SettingsInit, DevicesHold
<1>5. QED
  BY <1>1, <1>2, <1>3, <1>4 DEF SettingsInv

(* What a client sends and is accepted holds.                              *)
LEMMA MergedHolds ==
    ASSUME NEW sent, DOMAIN sent \subseteq ProviderIds, NEW p \in ProviderIds \cup {"none"}, NEW org,
           NEW s, s = Merged(org, sent, p), Acceptable(s)
    PROVE  SettingsHold(s)
<1>1. s.active = p /\ s.providers = mergeProviders(sent, settings.providers)
  BY DEF Merged
<1>2. DOMAIN s.providers = DOMAIN sent
  BY <1>1 DEF mergeProviders
<1>3. QED
  BY <1>1, <1>2 DEF SettingsHold

LEMMA OneIsOffered ==
    ASSUME NEW p \in ProviderIds, NEW key
    PROVE  DOMAIN OneProvider(p, key) \subseteq ProviderIds
BY DEF OneProvider

LEMMA PageChanges ==
    ASSUME PagesHold(pages), NEW t \in Tabs, NEW page,
           page = [open |-> page.open, org |-> page.org, provider |-> page.provider, key |-> page.key,
                   configured |-> page.configured, subscription |-> page.subscription, shown |-> page.shown],
           page.provider \in ProviderIds \cup {"none"},
           pages' = [pages EXCEPT ![t] = page]
    PROVE  PagesHold(pages')
<1>1. PICK old : old = pages /\ PagesHold(old)
  OBVIOUS
<1>2. PICK new : new = pages' /\ new = [u \in Tabs |-> IF u = t THEN page ELSE old[u]]
  BY <1>1 DEF PagesHold
<1>3. new = [u \in Tabs |-> new[u]]
  BY <1>2
<1>4. ASSUME NEW u \in Tabs
      PROVE  /\ new[u] = [open |-> new[u].open, org |-> new[u].org, provider |-> new[u].provider,
                          key |-> new[u].key, configured |-> new[u].configured,
                          subscription |-> new[u].subscription, shown |-> new[u].shown]
             /\ new[u].provider \in ProviderIds \cup {"none"}
  <2>1. CASE u = t
    BY <1>2, <2>1
  <2>2. CASE u # t
    BY <1>1, <1>2, <2>2 DEF PagesHold
  <2>3. QED
    BY <2>1, <2>2
<1>5. QED
  BY <1>2, <1>3, <1>4 DEF PagesHold

IsPage(page) ==
    page = [open |-> page.open, org |-> page.org, provider |-> page.provider, key |-> page.key,
            configured |-> page.configured, subscription |-> page.subscription, shown |-> page.shown]

(* A page that is loaded of a workspace without a provider. *)
LEMMA LoadedFields ==
    ASSUME NEW old, NEW o, NEW r, NEW p, NEW k, NEW c, NEW b, NEW w,
           old = [open |-> o, org |-> r, provider |-> p, key |-> k, configured |-> c, subscription |-> b, shown |-> w],
           NEW org, NEW next, next = [old EXCEPT !.open = TRUE, !.org = org, !.subscription = "none"]
    PROVE  next = [open |-> TRUE, org |-> org, provider |-> p, key |-> k, configured |-> c,
                   subscription |-> "none", shown |-> w]
BY ZenonT(60)

LEMMA LoadedIsPage ==
    ASSUME NEW page, IsPage(page), page.provider \in ProviderIds \cup {"none"}, NEW s, SettingsHold(s), NEW subscription,
           NEW next, next = Loaded(page, s, subscription)
    PROVE  IsPage(next) /\ next.provider \in ProviderIds \cup {"none"}
<1>1. PICK old, o, r, p, k, c, b, w :
        /\ old = page /\ p = page.provider
        /\ old = [open |-> o, org |-> r, provider |-> p, key |-> k, configured |-> c, subscription |-> b, shown |-> w]
  BY DEF IsPage
<1>2. CASE s.active \in DOMAIN s.providers
  <2>1. PICK known, org, active : known = (KeyOf(s, s.active) # "none") /\ org = s.org /\ active = s.active
    OBVIOUS
  <2>3. next = [open |-> TRUE, org |-> org, provider |-> active, key |-> "none", configured |-> known,
                subscription |-> subscription, shown |-> w]
    BY <1>1, <1>2, <2>1 DEF Loaded
  <2>4. QED
    BY <2>1, <2>3 DEF IsPage, SettingsHold
<1>3. CASE s.active \notin DOMAIN s.providers
  <2>1. PICK org : org = s.org
    OBVIOUS
  <2>2. next = [old EXCEPT !.open = TRUE, !.org = org, !.subscription = "none"]
    BY <1>1, <1>3, <2>1 DEF Loaded
  <2>3. next = [open |-> TRUE, org |-> org, provider |-> p, key |-> k, configured |-> c,
                subscription |-> "none", shown |-> w]
    <3>1. old = [open |-> o, org |-> r, provider |-> p, key |-> k, configured |-> c, subscription |-> b, shown |-> w]
      BY <1>1
    <3>2. QED
      BY <2>2, <3>1, LoadedFields
  <2>4. QED
    BY <1>1, <2>3 DEF IsPage
<1>4. QED
  BY <1>2, <1>3

LEMMA PageSteps ==
    ASSUME SettingsInv, NEW t \in Tabs
    PROVE  /\ \A subscription : OpenPage(t, subscription) => SettingsInv'
           /\ \A org, key : EditPage(t, org, key) => SettingsInv'
           /\ \A provider \in ProviderIds : handleProviderChange(t, provider) => SettingsInv'
<1>1. PICK page : /\ page = pages[t] /\ IsPage(page) /\ page.provider \in ProviderIds \cup {"none"}
  BY DEF SettingsInv, PagesHold, IsPage
<1>2. PagesHold(pages) /\ SettingsHold(settings)
  BY DEF SettingsInv
<1>3. ASSUME PagesHold(pages'),
             UNCHANGED <<settings, brokered, brokerLog, devices, saves, brokerRequests, registrations, brokerCrashes>>
      PROVE  SettingsInv'
  BY <1>3 DEF SettingsInv, BrokerHolds, DevicesHold
<1>4. ASSUME NEW new, IsPage(new), new.provider \in ProviderIds \cup {"none"}, pages' = [pages EXCEPT ![t] = new]
      PROVE  PagesHold(pages')
  BY <1>2, <1>4, PageChanges DEF IsPage
<1>5. ASSUME NEW subscription, OpenPage(t, subscription) PROVE SettingsInv'
  <2>1. PICK new : new = Loaded(Closed, settings, subscription)
    OBVIOUS
  <2>2. IsPage(Closed) /\ Closed.provider = "none"
    BY DEF IsPage, Closed
  <2>3. IsPage(new) /\ new.provider \in ProviderIds \cup {"none"}
    BY <1>2, <2>1, <2>2, LoadedIsPage
  <2>4. QED
    BY <1>3, <1>4, <1>5, <2>1, <2>3 DEF OpenPage
<1>6. ASSUME NEW org, NEW key, EditPage(t, org, key) PROVE SettingsInv'
  <2>1. PICK new : new = [page EXCEPT !.org = org, !.key = key]
    OBVIOUS
  <2>2. pages' = [pages EXCEPT ![t] = new]
    <3>1. pages' = [pages EXCEPT ![t] = [pages[t] EXCEPT !.org = org, !.key = key]]
      BY <1>6 DEF EditPage
    <3>2. QED
      BY <1>1, <2>1, <3>1
  <2>3. IsPage(new) /\ new.provider = page.provider
    BY <1>1, <2>1 DEF IsPage
  <2>4. QED
    BY <1>1, <1>3, <1>4, <1>6, <2>2, <2>3 DEF EditPage
<1>7. ASSUME NEW provider \in ProviderIds, handleProviderChange(t, provider) PROVE SettingsInv'
  <2>1. PICK new : new = [page EXCEPT !.provider = provider, !.key = "none", !.configured = FALSE, !.subscription = "none"]
    OBVIOUS
  <2>2. pages' = [pages EXCEPT ![t] = new]
    <3>1. pages' = [pages EXCEPT ![t] = [pages[t] EXCEPT !.provider = provider, !.key = "none",
                                                         !.configured = FALSE, !.subscription = "none"]]
      BY <1>7 DEF handleProviderChange
    <3>2. QED
      BY <1>1, <2>1, <3>1
  <2>3. IsPage(new) /\ new.provider = provider
    BY <1>1, <2>1 DEF IsPage
  <2>4. QED
    BY <1>3, <1>4, <1>7, <2>2, <2>3 DEF handleProviderChange
<1>8. QED
  BY <1>5, <1>6, <1>7

LEMMA SavePageKeeps ==
    ASSUME SettingsInv, NEW t \in Tabs, NEW reached \in BOOLEAN, NEW subscription, SavePage(t, reached, subscription)
    PROVE  SettingsInv'
<1>1. PICK page : /\ page = pages[t] /\ IsPage(page) /\ page.provider \in ProviderIds \cup {"none"}
  BY DEF SettingsInv, PagesHold, IsPage
<1>2. PagesHold(pages) /\ SettingsHold(settings)
  BY DEF SettingsInv
<1>3. PICK next, now_ :
        /\ next = Merged(page.org, OneProvider(page.provider, page.key), page.provider)
        /\ now_ = IF reached THEN next ELSE settings
  OBVIOUS
<1>4. page.provider \in ProviderIds
  BY <1>1 DEF SavePage
<1>5. BrokerHolds' /\ DevicesHold'
  <2>1. UNCHANGED <<brokered, brokerLog, devices, brokerRequests, registrations>> /\ saves < MaxSaves /\ saves' = saves + 1
    BY DEF SavePage
  <2>2. QED
    BY <2>1, SettingsNumbers DEF SettingsInv, BrokerHolds, DevicesHold
<1>6. ASSUME NEW new, IsPage(new), new.provider \in ProviderIds \cup {"none"}, pages' = [pages EXCEPT ![t] = new]
      PROVE  PagesHold(pages')
  BY <1>2, <1>6, PageChanges DEF IsPage
<1>7. CASE reached /\ ~Acceptable(next)
  <2>1. PICK new : new = [page EXCEPT !.shown = "error"]
    OBVIOUS
  <2>2. pages' = [pages EXCEPT ![t] = new] /\ UNCHANGED settings
    <3>1. pages' = [pages EXCEPT ![t] = [pages[t] EXCEPT !.shown = "error"]] /\ UNCHANGED settings
      BY <1>1, <1>3, <1>7 DEF SavePage
    <3>2. QED
      BY <1>1, <2>1, <3>1
  <2>3. IsPage(new) /\ new.provider = page.provider
    BY <1>1, <2>1 DEF IsPage
  <2>4. PagesHold(pages')
    BY <1>1, <1>6, <2>2, <2>3
  <2>5. QED
    BY <1>2, <1>5, <2>2, <2>4 DEF SettingsInv
<1>8. CASE ~(reached /\ ~Acceptable(next))
  <2>1. settings' = now_
    BY <1>1, <1>3, <1>8 DEF SavePage
  <2>2. SettingsHold(now_)
    <3>1. CASE reached
      BY <1>3, <1>4, <1>8, <3>1, MergedHolds, OneIsOffered
    <3>2. CASE ~reached
      BY <1>2, <1>3, <3>2
    <3>3. QED
      BY <3>1, <3>2
  <2>3. PICK loaded : loaded = IF reached THEN Loaded(page, now_, subscription) ELSE page
    OBVIOUS
  <2>4. IsPage(loaded) /\ loaded.provider \in ProviderIds \cup {"none"}
    <3>1. CASE reached
      BY <1>1, <2>2, <2>3, <3>1, LoadedIsPage
    <3>2. CASE ~reached
      BY <1>1, <2>3, <3>2
    <3>3. QED
      BY <3>1, <3>2
  <2>5. PICK new : new = [loaded EXCEPT !.shown = "saved"]
    OBVIOUS
  <2>6. IsPage(new) /\ new.provider = loaded.provider
    BY <2>4, <2>5 DEF IsPage
  <2>7. pages' = [pages EXCEPT ![t] = new]
    BY <1>1, <1>3, <1>8, <2>3, <2>5 DEF SavePage
  <2>8. PagesHold(pages')
    BY <1>6, <2>4, <2>6, <2>7
  <2>9. QED
    BY <1>5, <2>1, <2>2, <2>8 DEF SettingsInv
<1>9. QED
  BY <1>7, <1>8

LEMMA SettingsInvStep == SettingsInv /\ [SettingsNext]_settingsVars => SettingsInv'
<1> SUFFICES ASSUME SettingsInv, [SettingsNext]_settingsVars PROVE SettingsInv'
  OBVIOUS
<1>1. SettingsHold(settings) /\ PagesHold(pages)
  BY DEF SettingsInv
<1>2. ASSUME NEW org, NEW sent, DOMAIN sent \subseteq ProviderIds, NEW active \in ProviderIds \cup {"none"},
             PutSettings(org, sent, active)
      PROVE  SettingsInv'
  <2>1. PICK next : next = Merged(org, sent, active)
    OBVIOUS
  <2>2. settings' = IF Acceptable(next) THEN next ELSE settings
    BY <1>2, <2>1 DEF PutSettings
  <2>3. SettingsHold(settings')
    <3>1. CASE Acceptable(next)
      BY <1>2, <2>1, <2>2, <3>1, MergedHolds
    <3>2. CASE ~Acceptable(next)
      BY <1>1, <2>2, <3>2
    <3>3. QED
      BY <3>1, <3>2
  <2>4. UNCHANGED <<pages, brokered, brokerLog, devices, brokerRequests, registrations>> /\ saves < MaxSaves /\ saves' = saves + 1
    BY <1>2 DEF PutSettings
  <2>5. BrokerHolds' /\ DevicesHold'
    BY <2>4, SettingsNumbers DEF SettingsInv, BrokerHolds, DevicesHold
  <2>6. QED
    BY <1>1, <2>3, <2>4, <2>5 DEF SettingsInv
<1>3. CASE Broker \/ BrokerDies \/ \E ok \in BOOLEAN : BrokerAnswered(ok)
  <2>1. UNCHANGED <<settings, pages, devices, saves, registrations>>
    BY <1>3 DEF Broker, BrokerDies, BrokerAnswered
  <2>2. PICK x, y, z, r : /\ x = brokered /\ y = brokerLog.ok /\ z = brokerLog.failed /\ r = brokerRequests
                          /\ x \in Nat /\ y \in Nat /\ z \in Nat /\ r \in Nat /\ x + y + z <= r
                          /\ brokerLog = [ok |-> y, failed |-> z]
    BY DEF SettingsInv, BrokerHolds
  <2>3. \/ brokered' \in {x, x + 1} /\ brokerRequests' = r + 1 /\ UNCHANGED brokerLog
        \/ x > 0 /\ brokered' = 0 /\ UNCHANGED <<brokerLog, brokerRequests>>
        \/ /\ x > 0 /\ brokered' = x - 1 /\ UNCHANGED brokerRequests
           /\ brokerLog' \in {[ok |-> y + 1, failed |-> z], [ok |-> y, failed |-> z + 1]}
    BY <1>3, <2>2 DEF Broker, BrokerDies, BrokerAnswered
  <2>4. BrokerHolds'
    BY <2>2, <2>3 DEF BrokerHolds
  <2>5. QED
    BY <1>1, <2>1, <2>4 DEF SettingsInv, DevicesHold
<1>4. ASSUME NEW device \in Devices, RegisterDevice(device) \/ RevokeDevice(device) PROVE SettingsInv'
  <2>1. UNCHANGED <<settings, pages, brokered, brokerLog, saves, brokerRequests>>
    BY <1>4 DEF RegisterDevice, RevokeDevice
  <2>2. DevicesHold'
    BY <1>4, SettingsNumbers DEF RegisterDevice, RevokeDevice, DevicesHold, SettingsInv
  <2>3. QED
    BY <1>1, <2>1, <2>2 DEF SettingsInv, BrokerHolds
<1>5. CASE UNCHANGED settingsVars
  BY <1>5 DEF settingsVars, SettingsInv, BrokerHolds, DevicesHold
<1>6. ASSUME NEW org, NEW provider \in ProviderIds, SetUp(org, provider) PROVE SettingsInv'
  BY <1>2, <1>6, OneIsOffered DEF SetUp
<1>7. ASSUME NEW org, NEW sent \in SentProviders \cup {settings.providers}, NEW active \in ProviderIds \cup {"none"},
             PutSettings(org, sent, active)
      PROVE  SettingsInv'
  <2>1. DOMAIN sent \subseteq ProviderIds
    BY <1>1, ProviderSettingsAssumption DEF ProviderSettingsAssumption, SettingsHold
  <2>2. QED
    BY <1>2, <1>7, <2>1
<1>8. QED
  BY <1>3, <1>4, <1>5, <1>6, <1>7, PageSteps, SavePageKeeps DEF SettingsNext

LEMMA SettingsTypes == SettingsSpec => []SettingsTypeOK
<1>1. SettingsInv => SettingsTypeOK
  BY DEF SettingsInv, SettingsHold, PagesHold, BrokerHolds, DevicesHold, SettingsTypeOK
<1>2. QED
  BY <1>1, SettingsInvInit, SettingsInvStep, PTL DEF SettingsSpec

-----------------------------------------------------------------------------
(* A step of the composition is a step of each of its components or leaves *)
(* it alone.                                                               *)
LEMMA ComponentsInComposition ==
    /\ Init => /\ HttpInit /\ ChatInit /\ InterviewInit /\ LaunchInit
               /\ AiInit /\ MeetingInit /\ BridgeInit /\ SettingsInit
    /\ [Next]_vars => /\ [HttpNext]_httpVars /\ [ChatNext]_chatVars
                      /\ [InterviewNext]_interviewVars /\ [LaunchNext]_launchVars
                      /\ [AiNext]_aiVars /\ [MeetingNext]_meetingVars /\ [BridgeNext]_bridgeVars
                      /\ [SettingsNext]_settingsVars
<1>1. Init => /\ HttpInit /\ ChatInit /\ InterviewInit /\ LaunchInit
              /\ AiInit /\ MeetingInit /\ BridgeInit /\ SettingsInit
  BY DEF Init
<1>2. ASSUME NEW c \in Components, Only(c)
      PROVE  /\ c # "http" => UNCHANGED httpVars
             /\ c # "chat" => UNCHANGED chatVars
             /\ c # "interview" => UNCHANGED interviewVars
             /\ c # "launch" => UNCHANGED launchVars
             /\ c # "ai" => UNCHANGED aiVars
             /\ c # "meetings" => UNCHANGED meetingVars
             /\ c # "bridges" => UNCHANGED bridgeVars
             /\ c # "settings" => UNCHANGED settingsVars
  BY <1>2 DEF Only
<1>3. ASSUME Next PROVE [HttpNext]_httpVars /\ [ChatNext]_chatVars
  BY <1>2, <1>3 DEF Next, Components
<1>4. ASSUME Next PROVE [InterviewNext]_interviewVars /\ [LaunchNext]_launchVars
  BY <1>2, <1>4 DEF Next, Components
<1>5. ASSUME Next PROVE [AiNext]_aiVars /\ [MeetingNext]_meetingVars /\ [BridgeNext]_bridgeVars
                         /\ [SettingsNext]_settingsVars
  BY <1>2, <1>5 DEF Next, Components
<1>6. ASSUME UNCHANGED vars
      PROVE  /\ UNCHANGED httpVars /\ UNCHANGED chatVars /\ UNCHANGED interviewVars /\ UNCHANGED launchVars
             /\ UNCHANGED aiVars /\ UNCHANGED meetingVars /\ UNCHANGED bridgeVars /\ UNCHANGED settingsVars
  BY <1>6 DEF vars
<1>7. QED
  BY <1>1, <1>3, <1>4, <1>5, <1>6

(* In the composition what was said, delivered or answered is on file, or  *)
(* lost to a request that had begun before it.                             *)
THEOREM LostToOverlap == Spec => []LostToOverlapOnly
<1>1. Spec => AiSpec /\ MeetingSpec /\ BridgeSpec
  BY ComponentsInComposition, PTL DEF Spec, AiSpec, MeetingSpec, BridgeSpec
<1>2. LostToAnAnswerOnly /\ DeliveryLostOnlyToOverlap /\ AiTypeOK /\ RepliesAreKept => LostToOverlapOnly
  BY DEF LostToOverlapOnly
<1>3. QED
  BY <1>1, <1>2, MinutesLoseToAnswersOnly, DeliveriesLoseToOverlapOnly, RepliesStay, PTL

(* The invariants of the components hold together, whatever the others do. *)
THEOREM ConversationsAreSound ==
    Spec => [](/\ RequestsAreHeld /\ DoneMeansDeliberated /\ BoardIsWhole /\ InstalledMeansUsable
               /\ LostToOverlapOnly)
<1>1. Spec => HttpSpec /\ ChatSpec /\ InterviewSpec /\ LaunchSpec
  BY ComponentsInComposition, PTL DEF Spec, HttpSpec, ChatSpec, InterviewSpec, LaunchSpec
<1>2. QED
  BY <1>1, RequestsHeld, DoneIsDeliberated, BoardStaysWhole, InstalledIsUsable, LostToOverlap, PTL

(* Every component's stores hold what their code writes, whatever the      *)
(* others do: an artifact was logged before it was filed, and what was     *)
(* logged and is not on file was lost to a crash; minutes have no message  *)
(* that was not said; every job has its execution, and the log tells of    *)
(* jobs there are; of an installed pack only the files its manifest lists  *)
(* are on disk, it is registered once, and only packs with pages are built *)
(* or asked for; the delivery log keeps to its bound; the active provider  *)
(* of a workspace, if any, is on file and has an adapter.                  *)
THEOREM TalkIsTyped == Spec => []TalkTypeOK
<1>1. Spec => HttpSpec /\ ChatSpec /\ InterviewSpec /\ LaunchSpec
  BY ComponentsInComposition, PTL DEF Spec, HttpSpec, ChatSpec, InterviewSpec, LaunchSpec
<1>2. Spec => AiSpec /\ MeetingSpec /\ BridgeSpec /\ SettingsSpec
  BY ComponentsInComposition, PTL DEF Spec, AiSpec, MeetingSpec, BridgeSpec, SettingsSpec
<1>3. /\ HttpTypeOK /\ ChatTypeOK /\ InterviewTypeOK /\ LaunchTypeOK
      /\ AiTypeOK /\ MeetingTypeOK /\ BridgeTypeOK /\ SettingsTypeOK
      => TalkTypeOK
  BY DEF TalkTypeOK
<1>4. QED
  BY <1>1, <1>2, <1>3, HttpTypes, ChatTypes, InterviewTypes, LaunchesAreTyped, RepliesStay, MeetingTypes,
     BridgeTypes, SettingsTypes, PTL
===============================================================================
