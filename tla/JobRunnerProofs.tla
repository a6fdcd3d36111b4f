--------------------------- MODULE JobRunnerProofs ---------------------------
(***************************************************************************)
(* The worker-agent runner of services/agent-job-runner.ts, for every      *)
(* number of jobs, workspaces, agents and crashes, and every change of the *)
(* limits.                                                                 *)
(*                                                                         *)
(* The first part is about sequences and the left folds the runner's loops *)
(* are written with: that such a fold has a value, and that the value      *)
(* keeps whatever the loop body keeps.  The second is the inductive        *)
(* invariant, one lemma for each action, and what follows from it.         *)
(***************************************************************************)
EXTENDS JobRunner, FiniteSums, SequenceTheorems

(* A sequence that gains a new element at its end.                         *)
LEMMA AppendElement ==
    ASSUME NEW S, NEW s \in Seq(S), NEW e \in S
    PROVE  /\ Append(s, e) \in Seq(S)
           /\ ToSet(Append(s, e)) = ToSet(s) \cup {e}
           /\ IsInjective(s) /\ e \notin ToSet(s) => IsInjective(Append(s, e))
<1> DEFINE n == Len(s)
           t == Append(s, e)
<1>1. n \in Nat /\ DOMAIN s = 1..n /\ DOMAIN t = 1..(n + 1) /\ t \in Seq(S)
  BY LenProperties, AppendProperties
<1>2. t[n + 1] = e /\ \A i \in 1..n : t[i] = s[i]
  BY AppendProperties
<1>3. (1..n) \cup {n + 1} = 1..(n + 1)
  BY <1>1
<1> HIDE DEF n, t
<1>4. ToSet(t) = ToSet(s) \cup {e}
  BY <1>1, <1>2, <1>3 DEF ToSet
<1>5. ASSUME IsInjective(s), e \notin ToSet(s)
      PROVE  IsInjective(t)
  <2>1. \A i \in 1..n : s[i] # e
    BY <1>1, <1>5 DEF ToSet
  <2>2. \A i, j \in 1..n : s[i] = s[j] => i = j
    BY <1>1, <1>5 DEF IsInjective
  <2>3. \A i, j \in 1..(n + 1) : t[i] = t[j] => i = j
    BY <1>1, <1>2, <1>3, <2>1, <2>2
  <2>4. QED
    BY <1>1, <2>3 DEF IsInjective
<1>6. QED
  BY <1>1, <1>4, <1>5 DEF t

LEMMA NothingIn ==
    ASSUME NEW S
    PROVE  <<>> \in Seq(S) /\ ToSet(<<>>) = {} /\ IsInjective(<<>>) /\ DOMAIN <<>> = {}
BY EmptySeq DEF ToSet, IsInjective

(* The indices of a sequence. *)
LEMMA IndicesOf ==
    ASSUME NEW S, NEW s \in Seq(S)
    PROVE  /\ DOMAIN s = 1..Len(s) /\ Len(s) \in Nat
           /\ IsFiniteSet(DOMAIN s) /\ DOMAIN s \subseteq Nat
           /\ \A i \in DOMAIN s : s[i] \in S
<1>1. DOMAIN s = 1..Len(s) /\ Len(s) \in Nat
  BY LenProperties
<1>2. IsFiniteSet(DOMAIN s)
  BY <1>1, FS_Interval
<1>3. \A i \in DOMAIN s : s[i] \in S
  BY <1>1, ElementOfSeq
<1>4. QED
  BY <1>1, <1>2, <1>3

(* A finite set of numbers that is not empty has a largest. *)
LEMMA MaxIsLargest ==
    ASSUME NEW S, IsFiniteSet(S), S \subseteq Nat, S # {}
    PROVE  Max(S) \in S /\ \A y \in S : Max(S) >= y
<1> DEFINE P == {t \in SUBSET S : t # {} => \E x \in t : \A y \in t : x >= y}
<1>1. ASSUME NEW t \in SUBSET S, t # {}, \A x \in t : t \ {x} \in P
      PROVE  t \in P
  <2>1. PICK x \in t : TRUE
    BY <1>1
  <2>2. CASE t \ {x} = {}
    <3>1. \A y \in t : x >= y
      BY <2>1, <2>2
    <3>2. QED
      BY <3>1
  <2>3. CASE t \ {x} # {}
    <3>1. PICK z \in t \ {x} : \A y \in t \ {x} : z >= y
      BY <1>1, <2>1, <2>3
    <3>2. x \in Nat /\ z \in Nat /\ \A y \in t : y \in Nat
      OBVIOUS
    <3>3. CASE x >= z
      <4>1. \A y \in t : x >= y
        BY <3>1, <3>2, <3>3
      <4>2. QED
        BY <4>1
    <3>4. CASE ~(x >= z)
      <4>1. \A y \in t : z >= y
        BY <3>1, <3>2, <3>4
      <4>2. QED
        BY <4>1
    <3>5. QED
      BY <3>3, <3>4
  <2>4. QED
    BY <2>2, <2>3
<1>2. P = SUBSET S
  <2>1. {} \in P /\ P \subseteq SUBSET S
    OBVIOUS
  <2> HIDE DEF P
  <2>2. QED
    BY <1>1, <2>1, SubsetsByInduction
<1>3. \E x \in S : \A y \in S : x >= y
  BY <1>2
<1>4. QED
  BY <1>3 DEF Max

(* A fold from left to right, over the indices of S. *)
FoldsBy(g, F, base, D) ==
    g = [s \in D |-> IF s = {} THEN base ELSE F[g[s \ {Max(s)}], Max(s)]]

KeepsTo(g, Good, D) == \A s \in D : g[s] \in Good

(* It has a value, and the value never leaves what the operation keeps to. *)
LEMMA FoldExists ==
    ASSUME NEW S, IsFiniteSet(S), S \subseteq Nat, NEW Good, NEW base \in Good,
           NEW F \in [Good \X S -> Good]
    PROVE  \E g : FoldsBy(g, F, base, SUBSET S) /\ KeepsTo(g, Good, SUBSET S)
<1> DEFINE Has(g, D) == FoldsBy(g, F, base, D) /\ \A s \in D : g[s] \in Good
           Q == {n \in Nat : \E g : Has(g, Small(S, n))}
<1>1. \A t \in SUBSET S : IsFiniteSet(t) /\ Cardinality(t) \in Nat
  BY FS_Subset, FS_CardinalityType
<1>2. 0 \in Q
  <2> DEFINE g == [s \in {{}} |-> base]
  <2>1. Small(S, 0) = {{}}
    <3>1. {} \in Small(S, 0)
      BY FS_EmptySet DEF Small
    <3>2. ASSUME NEW t \in Small(S, 0)
          PROVE  t = {}
      BY <1>1, FS_EmptySet DEF Small
    <3>3. QED
      BY <3>1, <3>2
  <2>2. Has(g, {{}})
    BY DEF FoldsBy
  <2>3. QED
    BY <2>1, <2>2
<1>3. ASSUME NEW n \in Q
      PROVE  n + 1 \in Q
  <2>1. PICK h : Has(h, Small(S, n))
    OBVIOUS
  <2> DEFINE D == Small(S, n + 1)
             g == [s \in D |-> IF s = {} THEN base ELSE F[h[s \ {Max(s)}], Max(s)]]
  <2>2. ASSUME NEW s \in D, s # {}
        PROVE  Max(s) \in s /\ Max(s) \in S /\ s \ {Max(s)} \in Small(S, n)
    <3>1. IsFiniteSet(s) /\ s \subseteq S /\ s \subseteq Nat
      BY <1>1 DEF Small
    <3>2. Max(s) \in s
      BY <2>2, <3>1, MaxIsLargest
    <3>3. Cardinality(s \ {Max(s)}) = Cardinality(s) - 1
      BY <3>1, <3>2, FS_RemoveElement
    <3>4. Cardinality(s) \in Nat /\ Cardinality(s) <= n + 1 /\ n \in Nat
      BY <1>1 DEF Small
    <3>5. Cardinality(s \ {Max(s)}) <= n
      <4> HIDE DEF D
      <4>1. QED
        BY <3>3, <3>4
    <3>5a. s \ {Max(s)} \in SUBSET S
      BY <3>1
    <3>6. s \ {Max(s)} \in Small(S, n)
      BY <3>5, <3>5a DEF Small
    <3>7. QED
      BY <3>1, <3>2, <3>6
  <2>3. Small(S, n) \subseteq D
    BY <1>1 DEF Small
  <2>4. ASSUME NEW t \in Small(S, n)
        PROVE  g[t] = h[t]
    <3> HIDE DEF D
    <3>1. h[t] = IF t = {} THEN base ELSE F[h[t \ {Max(t)}], Max(t)]
      BY <2>1 DEF FoldsBy
    <3>2. t \in D
      BY <2>3
    <3>3. QED
      BY <3>1, <3>2
  <2>5. FoldsBy(g, F, base, D)
    <3>1. ASSUME NEW s \in D, s # {}
          PROVE  h[s \ {Max(s)}] = g[s \ {Max(s)}]
      BY <2>2, <2>4, <3>1
    <3> HIDE DEF D
    <3> DEFINE k == [s \in D |-> IF s = {} THEN base ELSE F[g[s \ {Max(s)}], Max(s)]]
    <3>2. \A s \in D : g[s] = k[s]
      BY <3>1
    <3>3. g = k
      BY <3>2
    <3> HIDE DEF g
    <3>4. QED
      BY <3>3 DEF FoldsBy
  <2>6. ASSUME NEW s \in D
        PROVE  g[s] \in Good
    <3>1. CASE s = {}
      BY <3>1
    <3>2. CASE s # {}
      <4>1. h[s \ {Max(s)}] \in Good /\ Max(s) \in S
        BY <2>1, <2>2, <3>2
      <4>2. F[h[s \ {Max(s)}], Max(s)] \in Good
        BY <4>1
      <4> HIDE DEF D
      <4>3. QED
        BY <3>2, <4>2
    <3>3. QED
      BY <3>1, <3>2
  <2>7. QED
    <3> HIDE DEF g, D
    <3>1. Has(g, D)
      BY <2>5, <2>6
    <3>2. QED
      BY <3>1 DEF D
<1>4. Q = Nat
  <2> HIDE DEF Q
  <2>1. Q \subseteq Nat
    BY DEF Q
  <2>2. QED
    BY <1>2, <1>3, <2>1, NumbersByInduction
<1>5. Cardinality(S) \in Q
  BY <1>4, FS_CardinalityType
<1>6. Small(S, Cardinality(S)) = SUBSET S
  BY FS_Subset DEF Small
<1>7. QED
  BY <1>5, <1>6 DEF KeepsTo

-----------------------------------------------------------------------------
(* The filter of the index. *)
WithoutSolves(g, s, j) ==
    g = [t \in SUBSET DOMAIN s |->
            IF t = {} THEN <<>>
            ELSE IF s[Max(t)] = j THEN g[t \ {Max(t)}]
            ELSE Append(g[t \ {Max(t)}], s[Max(t)])]

(* What is left has the elements but j, in a sequence without repetition   *)
(* if there was none before.                                               *)
LEMMA WithoutLeaves ==
    ASSUME NEW S, NEW s \in Seq(S), NEW j
    PROVE  /\ Without(s, j) \in Seq(S)
           /\ ToSet(Without(s, j)) = ToSet(s) \ {j}
           /\ IsInjective(s) => IsInjective(Without(s, j))
<1> DEFINE D == DOMAIN s
<1>1. Without(s, j) = (CHOOSE g : WithoutSolves(g, s, j))[D]
  BY DEF Without, FoldLeft, MapThenFoldSet, WithoutSolves
<1>2. IsFiniteSet(D) /\ D \subseteq Nat /\ \A i \in D : s[i] \in S
  BY IndicesOf
<1>3. \E g : WithoutSolves(g, s, j)
  <2> DEFINE F == [v \in Seq(S) \X D |-> IF s[v[2]] = j THEN v[1] ELSE Append(v[1], s[v[2]])]
  <2>1. F \in [Seq(S) \X D -> Seq(S)]
    BY <1>2, AppendProperties
  <2>2. <<>> \in Seq(S)
    OBVIOUS
  <2>3. PICK g : FoldsBy(g, F, <<>>, SUBSET D) /\ KeepsTo(g, Seq(S), SUBSET D)
    <3> HIDE DEF F, D
    <3>1. QED
      BY <1>2, <2>1, <2>2, FoldExists
  <2>4. ASSUME NEW t \in SUBSET D, t # {}
        PROVE  F[g[t \ {Max(t)}], Max(t)] = IF s[Max(t)] = j THEN g[t \ {Max(t)}]
                                            ELSE Append(g[t \ {Max(t)}], s[Max(t)])
    <3>1. Max(t) \in D
      BY <1>2, <2>4, FS_Subset, MaxIsLargest
    <3>2. g[t \ {Max(t)}] \in Seq(S)
      BY <2>3, <2>4 DEF KeepsTo
    <3>3. QED
      BY <3>1, <3>2
  <2> HIDE DEF F
  <2>5. WithoutSolves(g, s, j)
    BY <2>3, <2>4 DEF FoldsBy, WithoutSolves
  <2>6. QED
    BY <2>5
<1>4. PICK g : g = (CHOOSE h : WithoutSolves(h, s, j)) /\ WithoutSolves(g, s, j)
  BY <1>3
<1> DEFINE P == {t \in SUBSET D :
                   /\ g[t] \in Seq(S)
                   /\ ToSet(g[t]) = {s[i] : i \in t} \ {j}
                   /\ IsInjective(s) => IsInjective(g[t])}
<1>5. {} \in P
  <2>1. g[{}] = <<>>
    BY <1>4 DEF WithoutSolves
  <2>2. QED
    BY <2>1, NothingIn
<1>6. ASSUME NEW t \in SUBSET D, t # {}, \A x \in t : t \ {x} \in P
      PROVE  t \in P
  <2>1. PICK m : m = Max(t) /\ m \in t
    BY <1>2, <1>6, FS_Subset, MaxIsLargest
  <2>2. PICK u, old : u = t \ {m} /\ old = g[u] /\ u \in P
    BY <1>6, <2>1
  <2>3. old \in Seq(S) /\ ToSet(old) = {s[i] : i \in u} \ {j} /\ (IsInjective(s) => IsInjective(old))
    BY <2>2
  <2>4. g[t] = IF s[m] = j THEN old ELSE Append(old, s[m])
    <3>1. g[t] = IF s[Max(t)] = j THEN g[t \ {Max(t)}] ELSE Append(g[t \ {Max(t)}], s[Max(t)])
      BY <1>4, <1>6 DEF WithoutSolves
    <3>2. QED
      BY <2>1, <2>2, <3>1
  <2>5. {s[i] : i \in t} = {s[i] : i \in u} \cup {s[m]}
    BY <2>1, <2>2
  <2>6. CASE s[m] = j
    BY <2>3, <2>4, <2>5, <2>6
  <2>7. CASE s[m] # j
    <3>1. s[m] \in S
      BY <1>2, <2>1
    <3>2. g[t] \in Seq(S) /\ ToSet(g[t]) = ToSet(old) \cup {s[m]}
      BY <2>3, <2>4, <2>7, <3>1, AppendElement
    <3>3. ASSUME IsInjective(s)
          PROVE  IsInjective(g[t])
      <4>1. s[m] \notin ToSet(old)
        BY <1>2, <2>1, <2>2, <2>3, <3>3 DEF IsInjective
      <4>2. QED
        BY <2>3, <2>4, <2>7, <3>1, <3>3, <4>1, AppendElement
    <3>4. QED
      BY <2>3, <2>5, <2>7, <3>2, <3>3
  <2>8. QED
    BY <2>6, <2>7
<1>7. P = SUBSET D
  <2>1. P \subseteq SUBSET D
    OBVIOUS
  <2> HIDE DEF P, D
  <2>2. QED
    BY <1>2, <1>5, <1>6, <2>1, SubsetsByInduction
<1>8. g[D] \in Seq(S) /\ ToSet(g[D]) = {s[i] : i \in D} \ {j} /\ (IsInjective(s) => IsInjective(g[D]))
  BY <1>7
<1>9. QED
  BY <1>1, <1>4, <1>8 DEF ToSet

-----------------------------------------------------------------------------
(* The inductive invariant. *)
JobRecords == [status : Statuses, ws : Workspaces, agent : Agents]

IndexIsSound ==
    \A w \in Workspaces :
        /\ IsInjective(index[w])
        /\ \A j \in ToSet(index[w]) : job[j].ws = w /\ job[j].status # "absent"

UnderWayIsRecorded ==
    \A j \in running : job[j].status = "running" /\ j \in ToSet(index[job[j].ws])

KeptWhileAlive ==
    crashes = 0 =>
        \A j \in Jobs :
            /\ job[j].status \in {"pending", "running"} <=> j \in ToSet(index[job[j].ws])
            /\ job[j].status = "pending" => job[j].ws \in ToSet(activeWorkspaces)
            /\ job[j].status = "running" <=> j \in running
            /\ job[j].status # "absent"
                  => \E i \in DOMAIN ledger[job[j].ws] : ledger[job[j].ws][i].job = j

IInv ==
    /\ TypeOK
    /\ IndexIsSound
    /\ AgentsAreSerial
    /\ UnderWayIsRecorded
    /\ KeptWhileAlive

LEMMA CapType ==
    ASSUME JobAssumption, TypeOK, NEW w \in Workspaces
    PROVE  cap[w] \in Nat
<1>1. cap[w] \in Limits
  BY DEF TypeOK
<1>2. QED
  BY <1>1 DEF JobAssumption

LEMMA JobsAreFinite ==
    ASSUME JobAssumption, NEW S, S \subseteq Jobs
    PROVE  IsFiniteSet(S) /\ Cardinality(S) \in Nat
<1>1. IsFiniteSet(Jobs)
  BY FS_Interval DEF JobAssumption, Jobs
<1>2. QED
  BY <1>1, FS_Subset, FS_CardinalityType

LEMMA ContainsIsIn ==
    ASSUME NEW S, NEW s \in Seq(S), NEW e
    PROVE  Contains(s, e) <=> e \in ToSet(s)
BY IndicesOf DEF Contains, ToSet

-----------------------------------------------------------------------------
(* The jobs a tick picks: pending, of idle agents, one of each, on file in *)
(* the index, and within the limits together with those under way.         *)
PicksOK(p) ==
    /\ IsInjective(p)
    /\ \A j \in ToSet(p) : /\ j \notin running
                           /\ job[j].status = "pending"
                           /\ j \in ToSet(index[job[j].ws])
                           /\ Key(j) \notin agentRunning
    /\ \A j, k \in ToSet(p) : Key(j) = Key(k) => j = k
    /\ \A w \in Workspaces :
          (\E j \in ToSet(p) : job[j].ws = w)
              => Cardinality({j \in running \cup ToSet(p) : job[j].ws = w}) <= cap[w]

GoodPicks == {p \in Seq(Jobs) : PicksOK(p)}

LEMMA ToSetType == ASSUME NEW S, NEW s \in Seq(S) PROVE ToSet(s) \subseteq S
BY IndicesOf DEF ToSet

LEMMA NoPicks ==
    ASSUME JobAssumption, IInv
    PROVE  <<>> \in GoodPicks
BY NothingIn DEF GoodPicks, PicksOK

LEMMA ConsiderKeeps ==
    ASSUME JobAssumption, IInv, NEW p \in GoodPicks, NEW w \in Workspaces, NEW j \in ToSet(index[w])
    PROVE  Consider(p, w, j) \in GoodPicks
<1> DEFINE started == running \cup ToSet(p)
<1>1. p \in Seq(Jobs) /\ PicksOK(p) /\ ToSet(p) \subseteq Jobs /\ running \subseteq Jobs
  BY ToSetType DEF GoodPicks, IInv, TypeOK
<1>2. j \in Jobs /\ job[j].ws = w
  <2>1. index[w] \in Seq(Jobs)
    BY DEF IInv, TypeOK
  <2>2. QED
    BY <2>1, ToSetType DEF IInv, IndexIsSound
<1>3. SUFFICES ASSUME Cardinality(started) < cap[w], j \notin started, job[j].status = "pending",
                      Key(j) \notin agentRunning \cup {Key(k) : k \in ToSet(p)}
               PROVE  Append(p, j) \in GoodPicks
  BY DEF Consider
<1>4. PICK q : q = Append(p, j)
  OBVIOUS
<1>5. q \in Seq(Jobs) /\ ToSet(q) = ToSet(p) \cup {j} /\ IsInjective(q)
  BY <1>1, <1>2, <1>3, <1>4, AppendElement DEF PicksOK
<1>6. \A k \in ToSet(q) : /\ k \notin running
                          /\ job[k].status = "pending"
                          /\ k \in ToSet(index[job[k].ws])
                          /\ Key(k) \notin agentRunning
  BY <1>1, <1>2, <1>3, <1>5 DEF PicksOK
<1>7. \A k, l \in ToSet(q) : Key(k) = Key(l) => k = l
  <2>1. \A k \in ToSet(p) : Key(k) # Key(j)
    BY <1>3
  <2>2. QED
    BY <1>1, <1>5, <2>1 DEF PicksOK
<1>8. ASSUME NEW v \in Workspaces, \E k \in ToSet(q) : job[k].ws = v
      PROVE  Cardinality({k \in running \cup ToSet(q) : job[k].ws = v}) <= cap[v]
  <2> DEFINE Of == {k \in running \cup ToSet(q) : job[k].ws = v}
  <2>1. CASE v = w
    <3>1. Of \subseteq started \cup {j}
      BY <1>5
    <3>2. IsFiniteSet(started) /\ Cardinality(started) \in Nat
      BY <1>1, JobsAreFinite
    <3>3. IsFiniteSet(started \cup {j}) /\ Cardinality(started \cup {j}) = Cardinality(started) + 1
      BY <1>3, <3>2, FS_AddElement
    <3> HIDE DEF Of, started
    <3>4. Cardinality(Of) <= Cardinality(started) + 1 /\ Cardinality(Of) \in Nat
      BY <3>1, <3>3, FS_Subset, FS_CardinalityType
    <3>5. cap[w] \in Nat
      BY CapType DEF IInv
    <3>6. Cardinality(Of) <= cap[v]
      BY <1>3, <2>1, <3>2, <3>4, <3>5
    <3>7. QED
      BY <3>6 DEF Of
  <2>2. CASE v # w
    <3>1. Of = {k \in started : job[k].ws = v}
      BY <1>2, <1>5, <2>2
    <3>2. \E k \in ToSet(p) : job[k].ws = v
      BY <1>2, <1>5, <1>8, <2>2
    <3>3. QED
      BY <1>1, <3>1, <3>2 DEF PicksOK
  <2>3. QED
    BY <2>1, <2>2
<1>9. PicksOK(q)
  BY <1>5, <1>6, <1>7, <1>8 DEF PicksOK
<1>10. QED
  BY <1>4, <1>5, <1>9 DEF GoodPicks

(* The loop over the pending jobs of a workspace. *)
ConsiderSolves(g, p, w) ==
    g = [t \in SUBSET DOMAIN index[w] |->
            IF t = {} THEN p ELSE Consider(g[t \ {Max(t)}], w, index[w][Max(t)])]

ConsiderAll(p, w) ==
    LET consider(picks, j) == Consider(picks, w, j) IN FoldLeft(consider, p, index[w])

LEMMA ConsiderAllKeeps ==
    ASSUME JobAssumption, IInv, NEW p \in GoodPicks, NEW w \in Workspaces
    PROVE  ConsiderAll(p, w) \in GoodPicks
<1> DEFINE D == DOMAIN index[w]
<1>1. ConsiderAll(p, w) = (CHOOSE g : ConsiderSolves(g, p, w))[D]
  BY DEF ConsiderAll, FoldLeft, MapThenFoldSet, ConsiderSolves
<1>2. IsFiniteSet(D) /\ D \subseteq Nat /\ \A i \in D : index[w][i] \in ToSet(index[w])
  <2>1. index[w] \in Seq(Jobs)
    BY DEF IInv, TypeOK
  <2>2. QED
    BY <2>1, IndicesOf DEF ToSet
<1>3. \E g : ConsiderSolves(g, p, w)
  <2> DEFINE F == [v \in GoodPicks \X D |-> Consider(v[1], w, index[w][v[2]])]
  <2>1. F \in [GoodPicks \X D -> GoodPicks]
    BY <1>2, ConsiderKeeps
  <2>2. PICK g : FoldsBy(g, F, p, SUBSET D) /\ KeepsTo(g, GoodPicks, SUBSET D)
    <3> HIDE DEF F, D
    <3>1. QED
      BY <1>2, <2>1, FoldExists
  <2>3. ASSUME NEW t \in SUBSET D, t # {}
        PROVE  F[g[t \ {Max(t)}], Max(t)] = Consider(g[t \ {Max(t)}], w, index[w][Max(t)])
    <3>1. Max(t) \in D
      BY <1>2, <2>3, FS_Subset, MaxIsLargest
    <3>2. g[t \ {Max(t)}] \in GoodPicks
      BY <2>2, <2>3 DEF KeepsTo
    <3>3. QED
      BY <3>1, <3>2
  <2> HIDE DEF F
  <2>4. ConsiderSolves(g, p, w)
    BY <2>2, <2>3 DEF FoldsBy, ConsiderSolves
  <2>5. QED
    BY <2>4
<1>4. PICK g : g = (CHOOSE h : ConsiderSolves(h, p, w)) /\ ConsiderSolves(g, p, w)
  BY <1>3
<1> DEFINE P == {t \in SUBSET D : g[t] \in GoodPicks}
<1>5. {} \in P
  <2>1. g[{}] = p
    BY <1>4 DEF ConsiderSolves
  <2>2. QED
    BY <2>1
<1>6. ASSUME NEW t \in SUBSET D, t # {}, \A x \in t : t \ {x} \in P
      PROVE  t \in P
  <2>1. PICK m : m = Max(t) /\ m \in t
    BY <1>2, <1>6, FS_Subset, MaxIsLargest
  <2>2. g[t \ {m}] \in GoodPicks /\ index[w][m] \in ToSet(index[w])
    BY <1>2, <1>6, <2>1
  <2>3. g[t] = Consider(g[t \ {m}], w, index[w][m])
    <3>1. g[t] = Consider(g[t \ {Max(t)}], w, index[w][Max(t)])
      BY <1>4, <1>6 DEF ConsiderSolves
    <3>2. QED
      BY <2>1, <3>1
  <2>4. g[t] \in GoodPicks
    BY <2>2, <2>3, ConsiderKeeps
  <2>5. QED
    BY <2>4
<1>7. P = SUBSET D
  <2>1. P \subseteq SUBSET D
    OBVIOUS
  <2> HIDE DEF P, D
  <2>2. QED
    BY <1>2, <1>5, <1>6, <2>1, SubsetsByInduction
<1>8. g[D] \in GoodPicks
  BY <1>7
<1>9. QED
  BY <1>1, <1>4, <1>8

(* The loop over the workspaces. *)
Scans == [picks : GoodPicks, returned : BOOLEAN]

LEMMA VisitKeeps ==
    ASSUME JobAssumption, IInv, NEW scan \in Scans, NEW w \in Workspaces
    PROVE  Visit(scan, w) \in Scans
<1>1. scan.picks \in GoodPicks
  BY DEF Scans
<1>2. CASE scan.returned \/ Cardinality(running \cup ToSet(scan.picks)) >= cap[w]
  BY <1>2 DEF Visit, Scans
<1>3. CASE ~(scan.returned \/ Cardinality(running \cup ToSet(scan.picks)) >= cap[w])
  <2>1. Visit(scan, w) = [scan EXCEPT !.picks = ConsiderAll(scan.picks, w)]
    BY <1>3 DEF Visit, ConsiderAll
  <2>2. ConsiderAll(scan.picks, w) \in GoodPicks
    BY <1>1, ConsiderAllKeeps
  <2>3. QED
    BY <2>1, <2>2 DEF Scans
<1>4. QED
  BY <1>2, <1>3

VisitSolves(g, base) ==
    g = [t \in SUBSET DOMAIN activeWorkspaces |->
            IF t = {} THEN base ELSE Visit(g[t \ {Max(t)}], activeWorkspaces[Max(t)])]

LEMMA PicksAreGood == JobAssumption /\ IInv => Picks \in GoodPicks
<1> SUFFICES ASSUME JobAssumption, IInv
             PROVE  Picks \in GoodPicks
  OBVIOUS
<1> DEFINE D == DOMAIN activeWorkspaces
           base == [picks |-> <<>>, returned |-> FALSE]
<1>1. Picks = (CHOOSE g : VisitSolves(g, base))[D].picks
  BY DEF Picks, Scan, FoldLeft, MapThenFoldSet, VisitSolves
<1>2. IsFiniteSet(D) /\ D \subseteq Nat /\ \A i \in D : activeWorkspaces[i] \in Workspaces
  <2>1. activeWorkspaces \in Seq(Workspaces)
    BY DEF IInv, TypeOK
  <2>2. QED
    BY <2>1, IndicesOf
<1>2a. base \in Scans
  BY NoPicks DEF Scans
<1> HIDE DEF base
<1>3. \E g : VisitSolves(g, base)
  <2> DEFINE F == [v \in Scans \X D |-> Visit(v[1], activeWorkspaces[v[2]])]
  <2>1. F \in [Scans \X D -> Scans]
    BY <1>2, VisitKeeps
  <2>2. PICK g : FoldsBy(g, F, base, SUBSET D) /\ KeepsTo(g, Scans, SUBSET D)
    <3> HIDE DEF F, D
    <3>1. QED
      BY <1>2, <1>2a, <2>1, FoldExists
  <2>3. ASSUME NEW t \in SUBSET D, t # {}
        PROVE  F[g[t \ {Max(t)}], Max(t)] = Visit(g[t \ {Max(t)}], activeWorkspaces[Max(t)])
    <3>1. Max(t) \in D
      BY <1>2, <2>3, FS_Subset, MaxIsLargest
    <3>2. g[t \ {Max(t)}] \in Scans
      BY <2>2, <2>3 DEF KeepsTo
    <3>3. QED
      BY <3>1, <3>2
  <2> HIDE DEF F
  <2>4. VisitSolves(g, base)
    BY <2>2, <2>3 DEF FoldsBy, VisitSolves
  <2>5. QED
    BY <2>4
<1>4. PICK g : g = (CHOOSE h : VisitSolves(h, base)) /\ VisitSolves(g, base)
  BY <1>3
<1> DEFINE P == {t \in SUBSET D : g[t] \in Scans}
<1>5. {} \in P
  <2>1. g[{}] = base
    BY <1>4 DEF VisitSolves
  <2>2. QED
    BY <1>2a, <2>1
<1>6. ASSUME NEW t \in SUBSET D, t # {}, \A x \in t : t \ {x} \in P
      PROVE  t \in P
  <2>1. PICK m : m = Max(t) /\ m \in t
    BY <1>2, <1>6, FS_Subset, MaxIsLargest
  <2>2. g[t \ {m}] \in Scans /\ activeWorkspaces[m] \in Workspaces
    BY <1>2, <1>6, <2>1
  <2>3. g[t] = Visit(g[t \ {m}], activeWorkspaces[m])
    <3>1. g[t] = Visit(g[t \ {Max(t)}], activeWorkspaces[Max(t)])
      BY <1>4, <1>6 DEF VisitSolves
    <3>2. QED
      BY <2>1, <3>1
  <2>4. g[t] \in Scans
    BY <2>2, <2>3, VisitKeeps
  <2>5. QED
    BY <2>4
<1>7. P = SUBSET D
  <2>1. P \subseteq SUBSET D
    OBVIOUS
  <2> HIDE DEF P, D
  <2>2. QED
    BY <1>2, <1>5, <1>6, <2>1, SubsetsByInduction
<1>8. g[D] \in Scans
  BY <1>7
<1>9. QED
  BY <1>1, <1>4, <1>8 DEF Scans

-----------------------------------------------------------------------------
LEMMA InitIInv == JobAssumption /\ Init => IInv
<1> SUFFICES ASSUME JobAssumption, Init
             PROVE  IInv
  OBVIOUS
<1> USE DEF Init
<1>1. NoJob \in JobRecords /\ NoJob.status = "absent"
  BY DEF NoJob, JobRecords, Statuses, JobAssumption
<1>2. /\ <<>> \in Seq(Jobs) /\ <<>> \in Seq([job : Jobs, open : BOOLEAN])
      /\ ToSet(<<>>) = {} /\ IsInjective(<<>>)
  BY NothingIn
<1>3. <<Default>> \in Seq(Workspaces) /\ IsInjective(<<Default>>)
  BY DEF JobAssumption, IsInjective
<1>4. TypeOK
  BY <1>1, <1>2, <1>3 DEF TypeOK, JobRecords, JobAssumption
<1>5. IndexIsSound
  BY <1>2 DEF IndexIsSound
<1>6. AgentsAreSerial /\ UnderWayIsRecorded
  BY DEF AgentsAreSerial, UnderWayIsRecorded
<1>8. KeptWhileAlive
  <2>1. ASSUME NEW j \in Jobs
        PROVE  job[j].status = "absent" /\ j \notin ToSet(index[job[j].ws]) /\ j \notin running
    <3>1. job[j] = NoJob /\ job[j].ws \in Workspaces
      BY <1>1 DEF JobRecords
    <3>2. index[job[j].ws] = <<>>
      BY <3>1
    <3>3. QED
      BY <1>1, <1>2, <3>1, <3>2
  <2>2. QED
    BY <2>1 DEF KeptWhileAlive
<1>9. QED
  BY <1>4, <1>5, <1>6, <1>8 DEF IInv

(* After a crash nothing is under way, and what the files hold counts. *)
LEMMA CrashKeeps ==
    ASSUME JobAssumption, IInv, Restart, cap' = cap,
           job' \in [Jobs -> JobRecords], index' \in [Workspaces -> Seq(Jobs)],
           ledger' \in [Workspaces -> Seq([job : Jobs, open : BOOLEAN])], IndexIsSound'
    PROVE  IInv'
<1> USE DEF Restart
<1>1. crashes \in Nat /\ crashes' \in 0..MaxCrashes /\ crashes' # 0
  BY DEF IInv, TypeOK, JobAssumption
<1>2. <<Default>> \in Seq(Workspaces) /\ IsInjective(<<Default>>)
  BY DEF JobAssumption, IsInjective
<1>3. TypeOK'
  BY <1>1, <1>2 DEF IInv, TypeOK, JobRecords
<1>4. AgentsAreSerial' /\ UnderWayIsRecorded'
  BY DEF AgentsAreSerial, UnderWayIsRecorded
<1>6. KeptWhileAlive'
  BY <1>1 DEF KeptWhileAlive
<1>7. QED
  BY <1>3, <1>4, <1>6 DEF IInv

(* The same jobs under way, of which the files say the same. *)
LEMMA QuietKeeps ==
    ASSUME JobAssumption, IInv, running' = running, agentRunning' = agentRunning,
           job' \in [Jobs -> JobRecords], \A j \in running : job'[j] = job[j],
           \A j \in running : j \in ToSet(index'[job[j].ws])
    PROVE  AgentsAreSerial' /\ UnderWayIsRecorded'
<1>1. \A j \in running : Key(j)' = Key(j)
  BY DEF Key
<1>2. AgentsAreSerial'
  <2>1. \A j, k \in running : Key(j)' = Key(k)' => j = k
    BY <1>1 DEF IInv, AgentsAreSerial
  <2>2. {Key(j)' : j \in running} = {Key(j) : j \in running}
    BY <1>1
  <2>3. QED
    BY <2>1, <2>2 DEF IInv, AgentsAreSerial
<1>4. UnderWayIsRecorded'
  BY DEF IInv, UnderWayIsRecorded
<1>5. QED
  BY <1>2, <1>4

LEMMA RegisterKeeps ==
    ASSUME IInv, NEW w \in Workspaces, registerWorkspace(w)
    PROVE  /\ activeWorkspaces' \in Seq(Workspaces) /\ IsInjective(activeWorkspaces')
           /\ ToSet(activeWorkspaces') = ToSet(activeWorkspaces) \cup {w}
<1>1. activeWorkspaces \in Seq(Workspaces) /\ IsInjective(activeWorkspaces)
  BY DEF IInv, TypeOK
<1>2. CASE Contains(activeWorkspaces, w)
  <2>1. w \in ToSet(activeWorkspaces)
    BY <1>1, <1>2, ContainsIsIn
  <2>2. QED
    BY <1>1, <1>2, <2>1 DEF registerWorkspace
<1>3. CASE ~Contains(activeWorkspaces, w)
  <2>1. w \notin ToSet(activeWorkspaces)
    BY <1>1, <1>3, ContainsIsIn
  <2>2. activeWorkspaces' = Append(activeWorkspaces, w)
    BY <1>3 DEF registerWorkspace
  <2>3. QED
    BY <1>1, <2>1, <2>2, AppendElement
<1>4. QED
  BY <1>2, <1>3

LEMMA DispatchKeeps ==
    ASSUME JobAssumption, IInv, NEW j \in Jobs, NEW w \in Workspaces, NEW g \in Agents, Dispatch(j, w, g)
    PROVE  IInv'
<1>0. PICK cut \in 1..3, torn \in BOOLEAN :
        /\ job[j].status = "absent"
        /\ \A k \in 1..(j - 1) : job[k].status # "absent"
        /\ torn => cut < 3
        /\ job' = [job EXCEPT ![j] =
                     [status |-> IF cut = 1 /\ torn THEN "torn" ELSE "pending",
                      ws |-> w, agent |-> g]]
        /\ index' = IF cut = 1 THEN index
                    ELSE [index EXCEPT ![w] =
                            IF cut = 2 /\ torn THEN <<>> ELSE Append(@, j)]
        /\ ledger' = IF cut < 3 THEN ledger
                     ELSE [ledger EXCEPT ![w] = Append(@, [job |-> j, open |-> TRUE])]
        /\ IF Whole(cut, torn, 3)
           THEN registerWorkspace(w) /\ UNCHANGED <<running, agentRunning, crashes>>
           ELSE Restart
        /\ UNCHANGED cap
  BY DEF Dispatch
<1>1. job[j].status = "absent"
  BY <1>0
<1>2. /\ job \in [Jobs -> JobRecords] /\ index \in [Workspaces -> Seq(Jobs)]
      /\ ledger \in [Workspaces -> Seq([job : Jobs, open : BOOLEAN])] /\ running \subseteq Jobs
  BY DEF IInv, TypeOK, JobRecords
<1>3. PICK r \in JobRecords : /\ job' = [job EXCEPT ![j] = r] /\ r.ws = w
                              /\ r.status \in {"torn", "pending"}
                              /\ Whole(cut, torn, 3) => r.status = "pending"
  <2> DEFINE r == [status |-> IF cut = 1 /\ torn THEN "torn" ELSE "pending", ws |-> w, agent |-> g]
  <2>1. r \in JobRecords /\ r.ws = w /\ r.status \in {"torn", "pending"}
        /\ (Whole(cut, torn, 3) => r.status = "pending")
    BY DEF JobRecords, Statuses, Whole
  <2>2. QED
    BY <1>0, <1>1, <2>1
<1>4. job' \in [Jobs -> JobRecords] /\ job'[j] = r /\ \A k \in Jobs \ {j} : job'[k] = job[k]
  BY <1>2, <1>3
<1>5. \A v \in Workspaces : j \notin ToSet(index[v])
  BY <1>0, <1>1 DEF IInv, IndexIsSound
<1>6. PICK appended : appended = Append(index[w], j)
  OBVIOUS
<1>7. appended \in Seq(Jobs) /\ ToSet(appended) = ToSet(index[w]) \cup {j} /\ IsInjective(appended)
  BY <1>2, <1>5, <1>6, AppendElement DEF IInv, IndexIsSound
<1>8. /\ index' \in [Workspaces -> Seq(Jobs)]
      /\ \A v \in Workspaces \ {w} : index'[v] = index[v]
      /\ index'[w] \in {index[w], <<>>, appended}
      /\ Whole(cut, torn, 3) => index'[w] = appended
  <2>1. CASE cut = 1
    BY <1>0, <1>1, <1>2, <2>1 DEF Whole
  <2>2. CASE cut = 2 /\ torn
    BY <1>0, <1>1, <1>2, <2>2, NothingIn DEF Whole
  <2>3. CASE ~(cut = 1) /\ ~(cut = 2 /\ torn)
    <3>1. index' = [index EXCEPT ![w] = appended]
      BY <1>0, <1>1, <1>6, <2>3
    <3>2. QED
      BY <1>2, <1>7, <3>1
  <2>4. QED
    BY <2>1, <2>2, <2>3
<1>9. IndexIsSound'
  <2>1. ASSUME NEW v \in Workspaces, NEW k \in ToSet(index'[v])
        PROVE  (k = j /\ v = w) \/ (k \in Jobs \ {j} /\ k \in ToSet(index[v]))
    <3>1. index'[v] \in Seq(Jobs) /\ k \in Jobs
      BY <1>8, <2>1, ToSetType
    <3>2. k \in ToSet(index[v]) \/ (v = w /\ k = j)
      BY <1>7, <1>8, <2>1, NothingIn
    <3>3. QED
      BY <1>5, <3>1, <3>2
  <2>2. ASSUME NEW v \in Workspaces, NEW k \in ToSet(index'[v])
        PROVE  job'[k].ws = v /\ job'[k].status # "absent"
    <3>1. CASE k = j /\ v = w
      BY <1>3, <1>4, <3>1
    <3>2. CASE k \in Jobs \ {j} /\ k \in ToSet(index[v])
      BY <1>4, <3>2 DEF IInv, IndexIsSound
    <3>3. QED
      BY <2>1, <2>2, <3>1, <3>2
  <2>3. \A v \in Workspaces : IsInjective(index'[v])
    BY <1>7, <1>8, NothingIn, ZenonT(40) DEF IInv, IndexIsSound
  <2>4. QED
    BY <2>2, <2>3 DEF IndexIsSound
<1>10. ledger' \in [Workspaces -> Seq([job : Jobs, open : BOOLEAN])]
  <2>1. CASE cut < 3
    BY <1>0, <1>1, <1>2, <2>1
  <2>2. CASE ~(cut < 3)
    <3>1. [job |-> j, open |-> TRUE] \in [job : Jobs, open : BOOLEAN]
      OBVIOUS
    <3>2. Append(ledger[w], [job |-> j, open |-> TRUE]) \in Seq([job : Jobs, open : BOOLEAN])
      BY <1>2, <3>1, AppendProperties
    <3>3. QED
      BY <1>0, <1>1, <1>2, <2>2, <3>2
  <2>3. QED
    BY <2>1, <2>2
<1>11. CASE ~Whole(cut, torn, 3)
  BY <1>0, <1>1, <1>4, <1>8, <1>9, <1>10, <1>11, CrashKeeps
<1>12. CASE Whole(cut, torn, 3)
  <2>1. registerWorkspace(w) /\ UNCHANGED <<running, agentRunning, crashes, cap>> /\ cut = 3
    BY <1>0, <1>1, <1>12 DEF Whole
  <2>2. /\ activeWorkspaces' \in Seq(Workspaces) /\ IsInjective(activeWorkspaces')
        /\ ToSet(activeWorkspaces') = ToSet(activeWorkspaces) \cup {w}
    BY <2>1, RegisterKeeps
  <2>3. TypeOK'
    BY <1>4, <1>8, <1>10, <2>1, <2>2 DEF IInv, TypeOK, JobRecords
  <2>4. j \notin running /\ \A k \in running : k \in Jobs \ {j}
    BY <1>0, <1>1, <1>2 DEF IInv, UnderWayIsRecorded
  <2>5. \A k \in Jobs : k \in ToSet(index'[w]) <=> k \in ToSet(index[w]) \/ k = j
    BY <1>7, <1>8, <1>12
  <2>6. AgentsAreSerial' /\ UnderWayIsRecorded'
    <3>1. ASSUME NEW k \in running
          PROVE  job'[k] = job[k] /\ k \in ToSet(index'[job[k].ws])
      <4>1. k \in Jobs \ {j} /\ k \in ToSet(index[job[k].ws]) /\ job[k].ws \in Workspaces
        BY <1>2, <2>4 DEF IInv, UnderWayIsRecorded, JobRecords
      <4>2. QED
        BY <1>4, <1>8, <2>5, <4>1
    <3>2. QED
      BY <1>4, <2>1, <3>1, QuietKeeps
  <2>7. KeptWhileAlive'
    <3>1. SUFFICES ASSUME crashes = 0, NEW k \in Jobs
                   PROVE  /\ job'[k].status \in {"pending", "running"} <=> k \in ToSet(index'[job'[k].ws])
                          /\ job'[k].status = "pending" => job'[k].ws \in ToSet(activeWorkspaces')
                          /\ job'[k].status = "running" <=> k \in running'
                          /\ job'[k].status # "absent"
                                => \E i \in DOMAIN ledger'[job'[k].ws] : ledger'[job'[k].ws][i].job = k
      BY <2>1 DEF KeptWhileAlive
    <3>2. PICK entry, n : entry = [job |-> j, open |-> TRUE] /\ n = Len(ledger[w])
      OBVIOUS
    <3>3. /\ ledger'[w] = Append(ledger[w], entry) /\ n \in Nat
          /\ \A v \in Workspaces \ {w} : ledger'[v] = ledger[v]
      BY <1>0, <1>1, <1>2, <2>1, <3>2, LenProperties
    <3>4. /\ DOMAIN ledger[w] = 1..n /\ DOMAIN ledger'[w] = 1..(n + 1)
          /\ ledger'[w][n + 1] = entry /\ \A i \in 1..n : ledger'[w][i] = ledger[w][i]
      <4>1. ledger[w] \in Seq([job : Jobs, open : BOOLEAN]) /\ entry \in [job : Jobs, open : BOOLEAN]
        BY <1>2, <3>2
      <4>2. QED
        BY <3>2, <3>3, <4>1, AppendProperties, LenProperties
    <3>5. CASE k = j
      <4>1. n + 1 \in DOMAIN ledger'[w] /\ ledger'[w][n + 1].job = k
        BY <3>2, <3>3, <3>4, <3>5
      <4>2. QED
        BY <1>3, <1>4, <1>12, <2>1, <2>2, <2>4, <2>5, <3>5, <4>1
    <3>6. CASE k # j
      <4>1. job'[k] = job[k] /\ job[k].ws \in Workspaces
        BY <1>2, <1>4, <3>6 DEF JobRecords
      <4>2. k \in ToSet(index'[job[k].ws]) <=> k \in ToSet(index[job[k].ws])
        BY <1>8, <2>5, <3>6, <4>1
      <4>3. ASSUME NEW i \in DOMAIN ledger[job[k].ws], ledger[job[k].ws][i].job = k
            PROVE  i \in DOMAIN ledger'[job[k].ws] /\ ledger'[job[k].ws][i].job = k
        BY <3>3, <3>4, <4>1, <4>3, SMTT(20)
      <4>4. QED
        BY <2>1, <2>2, <3>1, <4>1, <4>2, <4>3 DEF IInv, KeptWhileAlive
    <3>7. QED
      BY <3>5, <3>6
  <2>8. QED
    BY <1>9, <2>3, <2>6, <2>7 DEF IInv
<1>13. QED
  BY <1>11, <1>12

LEMMA UpdateTaskKeeps ==
    ASSUME JobAssumption, IInv, NEW w \in Workspaces, NEW i \in DOMAIN ledger[w], UpdateTask(w, i)
    PROVE  IInv'
<1> DEFINE Tasks == [job : Jobs, open : BOOLEAN]
<1>1. PICK open \in Patches : ledger' = [ledger EXCEPT ![w][i].open = open]
  BY DEF UpdateTask
<1>2. UNCHANGED <<cap, job, index, running, agentRunning, activeWorkspaces, crashes>>
  BY DEF UpdateTask, memory
<1>3. open \in BOOLEAN /\ ledger \in [Workspaces -> Seq(Tasks)]
  BY DEF JobAssumption, IInv, TypeOK
<1>4. PICK old, new : old = ledger[w] /\ new = [old EXCEPT ![i].open = open]
  OBVIOUS
<1>5. old \in Seq(Tasks) /\ i \in DOMAIN old /\ DOMAIN old = 1..Len(old) /\ Len(old) \in Nat
  BY <1>3, <1>4, LenProperties
<1>6. DOMAIN new = DOMAIN old /\ \A k \in DOMAIN old : new[k] \in Tasks /\ new[k].job = old[k].job
  <2>1. \A k \in DOMAIN old : old[k] \in Tasks
    BY <1>5, ElementOfSeq
  <2>2. QED
    BY <1>3, <1>4, <1>5, <2>1
<1>7. new \in Seq(Tasks)
  <2>1. new = [k \in 1..Len(old) |-> new[k]]
    BY <1>4, <1>5
  <2>2. QED
    BY <1>5, <1>6, <2>1 DEF Seq
<1>8. /\ ledger' \in [Workspaces -> Seq(Tasks)]
      /\ ledger'[w] = new /\ \A v \in Workspaces \ {w} : ledger'[v] = ledger[v]
  BY <1>1, <1>3, <1>4, <1>7
<1>9. \A v \in Workspaces : /\ DOMAIN ledger'[v] = DOMAIN ledger[v]
                            /\ \A k \in DOMAIN ledger[v] : ledger'[v][k].job = ledger[v][k].job
  <2>1. ASSUME NEW v \in Workspaces
        PROVE  /\ DOMAIN ledger'[v] = DOMAIN ledger[v]
               /\ \A k \in DOMAIN ledger[v] : ledger'[v][k].job = ledger[v][k].job
    <3>1. CASE v = w
      BY <1>4, <1>6, <1>8, <3>1, ZenonT(40)
    <3>2. CASE v # w
      BY <1>8, <3>2
    <3>3. QED
      BY <3>1, <3>2
  <2>2. QED
    BY <2>1
<1>10. TypeOK'
  BY <1>2, <1>8 DEF IInv, TypeOK
<1>11. IndexIsSound' /\ AgentsAreSerial' /\ UnderWayIsRecorded'
  BY <1>2 DEF IInv, IndexIsSound, AgentsAreSerial, UnderWayIsRecorded, Key
<1>12. KeptWhileAlive'
  <2>1. ASSUME crashes = 0, NEW j \in Jobs
        PROVE  /\ job[j].status \in {"pending", "running"} <=> j \in ToSet(index[job[j].ws])
               /\ job[j].status = "pending" => job[j].ws \in ToSet(activeWorkspaces)
               /\ job[j].status = "running" <=> j \in running
    BY <2>1 DEF IInv, KeptWhileAlive
  <2>2. ASSUME crashes = 0, NEW j \in Jobs, job[j].status # "absent"
        PROVE  \E k \in DOMAIN ledger'[job[j].ws] : ledger'[job[j].ws][k].job = j
    <3>1. job[j].ws \in Workspaces
      BY DEF IInv, TypeOK
    <3>2. PICK k \in DOMAIN ledger[job[j].ws] : ledger[job[j].ws][k].job = j
      BY <2>2 DEF IInv, KeptWhileAlive
    <3>3. QED
      BY <1>9, <3>1, <3>2
  <2>3. QED
    BY <1>2, <2>1, <2>2 DEF KeptWhileAlive
<1>13. QED
  BY <1>10, <1>11, <1>12 DEF IInv

LEMMA EditLimitKeeps ==
    ASSUME JobAssumption, IInv, NEW w \in Workspaces, EditLimit(w)
    PROVE  IInv'
<1>1. PICK n \in Limits : cap' = [cap EXCEPT ![w] = n]
  BY DEF EditLimit
<1>2. UNCHANGED <<job, index, ledger, running, agentRunning, activeWorkspaces, crashes>>
  BY DEF EditLimit, files, memory
<1>3. TypeOK'
  BY <1>1, <1>2 DEF IInv, TypeOK
<1>4. IndexIsSound' /\ AgentsAreSerial' /\ UnderWayIsRecorded' /\ KeptWhileAlive'
  BY <1>2 DEF IInv, IndexIsSound, AgentsAreSerial, UnderWayIsRecorded, KeptWhileAlive, Key
<1>5. QED
  BY <1>3, <1>4 DEF IInv

(* What a tick does when it picks p and the jobs `begun` are written as    *)
(* running, those in `failed` torn, whether or not it is carried out.      *)
TickEffect(p, begun, failed) ==
    /\ job' \in [Jobs -> JobRecords]
    /\ \A j \in Jobs : job'[j].ws = job[j].ws /\ job'[j].agent = job[j].agent
    /\ \A j \in Jobs \ (begun \cup failed) : job'[j] = job[j]
    /\ \A j \in begun : job'[j].status \in {"running", "torn"}
    /\ \A j \in failed : job'[j].status = "torn"
    /\ UNCHANGED <<cap, index, ledger>>
    /\ \/ Restart
       \/ /\ begun = ToSet(p) /\ \A j \in begun : job'[j].status = "running"
          /\ running' = running \cup begun
          /\ agentRunning' = agentRunning \cup {Key(j) : j \in begun}
          /\ UNCHANGED <<activeWorkspaces, crashes>>

LEMMA TickJobs ==
    ASSUME JobAssumption, IInv, Tick
    PROVE  \E p \in GoodPicks : \E begun, failed \in SUBSET ToSet(p) : TickEffect(p, begun, failed)
<1>1. PICK p, cut, torn, begun :
        /\ p = Picks /\ cut \in 1..Len(p) /\ torn \in BOOLEAN /\ begun = ToSet(SubSeq(p, 1, cut))
        /\ job' = [j \in Jobs |->
                     IF torn /\ j = p[cut] THEN [job[j] EXCEPT !.status = "torn"]
                     ELSE IF j \in begun THEN [job[j] EXCEPT !.status = "running"]
                     ELSE job[j]]
        /\ IF Whole(cut, torn, Len(p))
           THEN /\ running' = running \cup begun
                /\ agentRunning' = agentRunning \cup {Key(j) : j \in begun}
                /\ UNCHANGED <<activeWorkspaces, crashes>>
           ELSE Restart
        /\ UNCHANGED <<cap, index, ledger>>
  BY DEF Tick
<1>2. p \in GoodPicks /\ p \in Seq(Jobs) /\ ToSet(p) \subseteq Jobs
  BY <1>1, PicksAreGood, ToSetType DEF GoodPicks
<1>3. PICK failed : failed = IF torn THEN {p[cut]} ELSE {}
  OBVIOUS
<1>4. Len(p) \in Nat /\ DOMAIN p = 1..Len(p) /\ cut \in DOMAIN p /\ cut \in Nat
  BY <1>1, <1>2, LenProperties
<1>5. failed \subseteq ToSet(p)
  BY <1>3, <1>4 DEF ToSet
<1>6. begun \subseteq ToSet(p) /\ (cut = Len(p) => begun = ToSet(p))
  <2>1. SubSeq(p, 1, cut) = [i \in 1..cut |-> p[i]]
    BY <1>1, <1>2, <1>4
  <2>2. begun = {p[i] : i \in 1..cut}
    BY <1>1, <1>4, <2>1 DEF ToSet
  <2>3. \A i \in 1..cut : i \in DOMAIN p
    BY <1>1, <1>4
  <2>4. QED
    BY <1>4, <2>2, <2>3 DEF ToSet
<1>7. job \in [Jobs -> JobRecords]
  BY DEF IInv, TypeOK, JobRecords
<1>8. \A j \in Jobs : \A st \in Statuses :
         /\ [job[j] EXCEPT !.status = st] \in JobRecords
         /\ [job[j] EXCEPT !.status = st].status = st
         /\ [job[j] EXCEPT !.status = st].ws = job[j].ws
         /\ [job[j] EXCEPT !.status = st].agent = job[j].agent
  BY <1>7 DEF JobRecords
<1>9. "torn" \in Statuses /\ "running" \in Statuses
  BY DEF Statuses
<1>10. ASSUME NEW j \in Jobs
       PROVE  /\ job'[j] \in JobRecords
              /\ job'[j].ws = job[j].ws /\ job'[j].agent = job[j].agent
              /\ j \notin begun \cup failed => job'[j] = job[j]
              /\ j \in begun => job'[j].status \in {"running", "torn"}
              /\ j \in begun /\ ~torn => job'[j].status = "running"
              /\ j \in failed => job'[j].status = "torn"
  <2>1. job'[j] = IF torn /\ j = p[cut] THEN [job[j] EXCEPT !.status = "torn"]
                  ELSE IF j \in begun THEN [job[j] EXCEPT !.status = "running"]
                  ELSE job[j]
    BY <1>1
  <2>2. CASE torn /\ j = p[cut]
    BY <1>3, <1>8, <1>9, <2>1, <2>2
  <2>3. CASE ~(torn /\ j = p[cut]) /\ j \in begun
    BY <1>3, <1>8, <1>9, <2>1, <2>3
  <2>4. CASE ~(torn /\ j = p[cut]) /\ j \notin begun
    BY <1>3, <1>7, <2>1, <2>4
  <2>5. QED
    BY <2>2, <2>3, <2>4
<1>11. job' \in [Jobs -> JobRecords]
  BY <1>1, <1>10
<1>12. \/ Restart
       \/ /\ begun = ToSet(p) /\ \A j \in begun : job'[j].status = "running"
          /\ running' = running \cup begun
          /\ agentRunning' = agentRunning \cup {Key(j) : j \in begun}
          /\ UNCHANGED <<activeWorkspaces, crashes>>
  <2>1. CASE Whole(cut, torn, Len(p))
    <3>1. cut = Len(p) /\ ~torn
      BY <2>1 DEF Whole
    <3>2. QED
      BY <1>1, <1>2, <1>6, <1>10, <2>1, <3>1
  <2>2. QED
    BY <1>1, <2>1
<1>13. /\ \A j \in Jobs : job'[j].ws = job[j].ws /\ job'[j].agent = job[j].agent
       /\ \A j \in Jobs \ (begun \cup failed) : job'[j] = job[j]
       /\ \A j \in begun : job'[j].status \in {"running", "torn"}
       /\ \A j \in failed : job'[j].status = "torn"
  BY <1>2, <1>5, <1>6, <1>10
<1>14. TickEffect(p, begun, failed)
  BY <1>1, <1>11, <1>12, <1>13 DEF TickEffect
<1>15. QED
  BY <1>2, <1>5, <1>6, <1>14

LEMMA TickKeeps == JobAssumption /\ IInv /\ Tick => IInv'
<1> SUFFICES ASSUME JobAssumption, IInv, Tick
             PROVE  IInv'
  OBVIOUS
<1>1. PICK p \in GoodPicks : \E begun, failed \in SUBSET ToSet(p) : TickEffect(p, begun, failed)
  BY TickJobs
<1>2. PICK begun, failed \in SUBSET ToSet(p) :
              /\ job' \in [Jobs -> JobRecords]
              /\ \A j \in Jobs : job'[j].ws = job[j].ws /\ job'[j].agent = job[j].agent
              /\ \A j \in Jobs \ (begun \cup failed) : job'[j] = job[j]
              /\ \A j \in begun : job'[j].status \in {"running", "torn"}
              /\ \A j \in failed : job'[j].status = "torn"
              /\ UNCHANGED <<cap, index, ledger>>
              /\ \/ Restart
                 \/ /\ begun = ToSet(p) /\ \A j \in begun : job'[j].status = "running"
                    /\ running' = running \cup begun
                    /\ agentRunning' = agentRunning \cup {Key(j) : j \in begun}
                    /\ UNCHANGED <<activeWorkspaces, crashes>>
  BY <1>1 DEF TickEffect
<1>3. p \in Seq(Jobs) /\ PicksOK(p) /\ ToSet(p) \subseteq Jobs
  BY ToSetType DEF GoodPicks
<1>4. /\ job \in [Jobs -> JobRecords] /\ index \in [Workspaces -> Seq(Jobs)]
      /\ ledger \in [Workspaces -> Seq([job : Jobs, open : BOOLEAN])] /\ running \subseteq Jobs
  BY DEF IInv, TypeOK, JobRecords
<1>5. \A j \in Jobs : Key(j)' = Key(j)
  BY <1>2 DEF Key
<1>6. \A j \in Jobs : job[j].status # "absent" => job'[j].status # "absent"
  BY <1>2
<1>7. IndexIsSound'
  <2>1. ASSUME NEW w \in Workspaces, NEW j \in ToSet(index[w])
        PROVE  job'[j].ws = w /\ job'[j].status # "absent"
    <3>1. j \in Jobs
      BY <1>4, ToSetType
    <3>2. job[j].ws = w /\ job[j].status # "absent"
      BY DEF IInv, IndexIsSound
    <3>3. QED
      BY <1>2, <1>6, <3>1, <3>2
  <2>2. QED
    BY <1>2, <2>1 DEF IInv, IndexIsSound
<1>8. CASE Restart
  BY <1>2, <1>4, <1>7, <1>8, CrashKeeps
<1>9. CASE /\ begun = ToSet(p) /\ \A j \in begun : job'[j].status = "running"
           /\ running' = running \cup begun
           /\ agentRunning' = agentRunning \cup {Key(j) : j \in begun}
           /\ UNCHANGED <<activeWorkspaces, crashes>>
  <2>1. \A j \in begun : /\ j \notin running /\ job[j].status = "pending"
                         /\ j \in ToSet(index[job[j].ws]) /\ Key(j) \notin agentRunning
    BY <1>3, <1>9 DEF PicksOK
  <2>2. \A j, k \in begun : Key(j) = Key(k) => j = k
    BY <1>3, <1>9 DEF PicksOK
  <2>3. \A j \in Jobs \ begun : job'[j] = job[j]
    BY <1>2, <1>9
  <2>4. AgentsAreSerial'
    <3>1. \A j, k \in running \cup begun : Key(j) = Key(k) => j = k
      BY <2>1, <2>2 DEF IInv, AgentsAreSerial
    <3>2. running \cup begun \subseteq Jobs
      BY <1>3, <1>4
    <3>3. \A j, k \in running' : Key(j)' = Key(k)' => j = k
      BY <1>5, <1>9, <3>1, <3>2
    <3>4. {Key(j)' : j \in running'} = {Key(j) : j \in running} \cup {Key(j) : j \in begun}
      BY <1>5, <1>9, <3>2
    <3>5. agentRunning' = {Key(j)' : j \in running'}
      BY <1>9, <3>4 DEF IInv, AgentsAreSerial
    <3>6. QED
      BY <3>3, <3>5 DEF AgentsAreSerial
  <2>6. UnderWayIsRecorded'
    <3>1. ASSUME NEW j \in running'
          PROVE  job'[j].status = "running" /\ j \in ToSet(index'[job'[j].ws])
      <4>1. CASE j \in begun
        BY <1>2, <1>3, <1>9, <2>1, <4>1
      <4>2. CASE j \notin begun
        <5>1. j \in running
          BY <1>9, <4>2
        <5>2. job[j].status = "running" /\ j \in ToSet(index[job[j].ws]) /\ job'[j] = job[j]
          BY <1>4, <2>3, <4>2, <5>1 DEF IInv, UnderWayIsRecorded
        <5>3. QED
          BY <1>2, <5>2
      <4>3. QED
        BY <4>1, <4>2
    <3>2. QED
      BY <3>1 DEF UnderWayIsRecorded
  <2>7. TypeOK'
    <3>1. running' \subseteq Jobs
      BY <1>3, <1>4, <1>9
    <3>2. \A j \in Jobs : Key(j) \in Workspaces \X Agents
      BY <1>4 DEF Key, JobRecords
    <3>3. agentRunning' \subseteq Workspaces \X Agents
      BY <1>3, <1>9, <3>2 DEF IInv, TypeOK
    <3>4. QED
      BY <1>2, <1>9, <3>1, <3>3 DEF IInv, TypeOK, JobRecords
  <2>8. KeptWhileAlive'
    <3>1. SUFFICES ASSUME crashes = 0, NEW j \in Jobs
                   PROVE  /\ job'[j].status \in {"pending", "running"} <=> j \in ToSet(index[job[j].ws])
                          /\ job'[j].status = "pending" => job[j].ws \in ToSet(activeWorkspaces)
                          /\ job'[j].status = "running" <=> j \in running'
                          /\ job'[j].status # "absent"
                                => \E i \in DOMAIN ledger[job[j].ws] : ledger[job[j].ws][i].job = j
      BY <1>2, <1>9 DEF KeptWhileAlive
    <3>2. /\ job[j].status \in {"pending", "running"} <=> j \in ToSet(index[job[j].ws])
          /\ job[j].status = "pending" => job[j].ws \in ToSet(activeWorkspaces)
          /\ job[j].status = "running" <=> j \in running
          /\ job[j].status # "absent"
                => \E i \in DOMAIN ledger[job[j].ws] : ledger[job[j].ws][i].job = j
      BY <3>1 DEF IInv, KeptWhileAlive
    <3>3. CASE j \in begun
      BY <1>9, <2>1, <3>2, <3>3
    <3>4. CASE j \notin begun
      BY <1>9, <2>3, <3>2, <3>4
    <3>5. QED
      BY <3>3, <3>4
  <2>9. QED
    BY <1>7, <2>4, <2>6, <2>7, <2>8 DEF IInv
<1>10. QED
  BY <1>2, <1>8, <1>9

LEMMA FinishKeeps ==
    ASSUME JobAssumption, IInv, NEW j \in Jobs, Finish(j)
    PROVE  IInv'
<1>1. PICK cut \in 1..2, torn \in BOOLEAN :
        /\ j \in running
        /\ job' = [job EXCEPT ![j].status = IF cut = 1 /\ torn THEN "torn" ELSE "ended"]
        /\ index' = IF cut = 1 THEN index
                    ELSE [index EXCEPT ![job[j].ws] = IF torn THEN <<>> ELSE Without(@, j)]
        /\ IF Whole(cut, torn, 2)
           THEN /\ running' = running \ {j}
                /\ agentRunning' = agentRunning \ {Key(j)}
                /\ UNCHANGED <<activeWorkspaces, crashes>>
           ELSE Restart
        /\ UNCHANGED <<cap, ledger>>
  BY DEF Finish
<1>2. /\ job \in [Jobs -> JobRecords] /\ index \in [Workspaces -> Seq(Jobs)]
      /\ ledger \in [Workspaces -> Seq([job : Jobs, open : BOOLEAN])] /\ running \subseteq Jobs
  BY DEF IInv, TypeOK, JobRecords
<1>3. PICK w, st : w = job[j].ws /\ st = IF cut = 1 /\ torn THEN "torn" ELSE "ended"
  OBVIOUS
<1>4. w \in Workspaces /\ st \in Statuses /\ st \in {"torn", "ended"}
  BY <1>2, <1>3 DEF JobRecords, Statuses
<1>5. /\ job' \in [Jobs -> JobRecords]
      /\ job'[j].ws = w /\ job'[j].agent = job[j].agent /\ job'[j].status = st
      /\ \A k \in Jobs \ {j} : job'[k] = job[k]
  <2>1. job' = [job EXCEPT ![j].status = st]
    BY <1>1, <1>3
  <2>2. [job[j] EXCEPT !.status = st] \in JobRecords
    BY <1>2, <1>4 DEF JobRecords
  <2>3. job' = [job EXCEPT ![j] = [job[j] EXCEPT !.status = st]]
    BY <1>2, <2>1
  <2>4. QED
    BY <1>2, <1>3, <1>4, <2>2, <2>3 DEF JobRecords
<1>6. PICK shorter : shorter = Without(index[w], j)
  OBVIOUS
<1>7. shorter \in Seq(Jobs) /\ ToSet(shorter) = ToSet(index[w]) \ {j} /\ IsInjective(shorter)
  BY <1>2, <1>4, <1>6, WithoutLeaves DEF IInv, IndexIsSound
<1>8. /\ index' \in [Workspaces -> Seq(Jobs)]
      /\ \A v \in Workspaces \ {w} : index'[v] = index[v]
      /\ index'[w] \in {index[w], <<>>, shorter}
      /\ Whole(cut, torn, 2) => index'[w] = shorter
  <2>1. CASE cut = 1
    BY <1>1, <1>2, <2>1 DEF Whole
  <2>2. CASE cut # 1 /\ torn
    BY <1>1, <1>2, <1>3, <1>4, <2>2, NothingIn DEF Whole
  <2>3. CASE cut # 1 /\ ~torn
    <3>1. index' = [index EXCEPT ![w] = shorter]
      BY <1>1, <1>3, <1>6, <2>3
    <3>2. QED
      BY <1>2, <1>4, <1>7, <3>1
  <2>4. QED
    BY <2>1, <2>2, <2>3
<1>9. IndexIsSound'
  <2>1. ASSUME NEW v \in Workspaces
        PROVE  ToSet(index'[v]) \subseteq ToSet(index[v]) /\ IsInjective(index'[v])
    BY <1>7, <1>8, NothingIn DEF IInv, IndexIsSound
  <2>2. ASSUME NEW v \in Workspaces, NEW k \in ToSet(index'[v])
        PROVE  job'[k].ws = v /\ job'[k].status # "absent"
    <3>1. k \in ToSet(index[v])
      BY <2>1, <2>2
    <3>2. k \in Jobs /\ job[k].ws = v /\ job[k].status # "absent"
      BY <1>2, <3>1, ToSetType DEF IInv, IndexIsSound
    <3>3. QED
      BY <1>3, <1>4, <1>5, <3>2
  <2>3. QED
    BY <2>1, <2>2 DEF IndexIsSound
<1>10. CASE ~Whole(cut, torn, 2)
  BY <1>1, <1>2, <1>5, <1>8, <1>9, <1>10, CrashKeeps
<1>11. CASE Whole(cut, torn, 2)
  <2>1. /\ running' = running \ {j} /\ agentRunning' = agentRunning \ {Key(j)}
        /\ UNCHANGED <<activeWorkspaces, crashes, cap, ledger>>
        /\ st = "ended" /\ ToSet(index'[w]) = ToSet(index[w]) \ {j}
    BY <1>1, <1>3, <1>7, <1>8, <1>11 DEF Whole
  <2>2. \A k \in Jobs : Key(k)' = Key(k)
    BY <1>3, <1>5 DEF Key
  <2>3. AgentsAreSerial'
    <3>1. \A k, l \in running' : Key(k)' = Key(l)' => k = l
      BY <1>2, <2>1, <2>2 DEF IInv, AgentsAreSerial
    <3>2. {Key(k)' : k \in running'} = {Key(k) : k \in running \ {j}}
      BY <1>2, <2>1, <2>2
    <3>3. {Key(k) : k \in running \ {j}} = {Key(k) : k \in running} \ {Key(j)}
      BY <1>1 DEF IInv, AgentsAreSerial
    <3>4. QED
      BY <2>1, <3>1, <3>2, <3>3 DEF IInv, AgentsAreSerial
  <2>5. UnderWayIsRecorded'
    <3>1. ASSUME NEW k \in running'
          PROVE  job'[k].status = "running" /\ k \in ToSet(index'[job'[k].ws])
      <4>1. k \in Jobs \ {j} /\ job'[k] = job[k] /\ job[k].ws \in Workspaces
        BY <1>2, <1>5, <2>1 DEF JobRecords
      <4>2. job[k].status = "running" /\ k \in ToSet(index[job[k].ws])
        BY <2>1 DEF IInv, UnderWayIsRecorded
      <4>3. QED
        BY <1>8, <2>1, <4>1, <4>2
    <3>2. QED
      BY <3>1 DEF UnderWayIsRecorded
  <2>6. TypeOK'
    BY <1>5, <1>8, <2>1 DEF IInv, TypeOK, JobRecords
  <2>7. KeptWhileAlive'
    <3>1. SUFFICES ASSUME crashes = 0, NEW k \in Jobs
                   PROVE  /\ job'[k].status \in {"pending", "running"} <=> k \in ToSet(index'[job'[k].ws])
                          /\ job'[k].status = "pending" => job'[k].ws \in ToSet(activeWorkspaces)
                          /\ job'[k].status = "running" <=> k \in running'
                          /\ job'[k].status # "absent"
                                => \E i \in DOMAIN ledger[job'[k].ws] : ledger[job'[k].ws][i].job = k
      BY <2>1 DEF KeptWhileAlive
    <3>2. /\ job[k].status \in {"pending", "running"} <=> k \in ToSet(index[job[k].ws])
          /\ job[k].status = "pending" => job[k].ws \in ToSet(activeWorkspaces)
          /\ job[k].status = "running" <=> k \in running
          /\ job[k].status # "absent"
                => \E i \in DOMAIN ledger[job[k].ws] : ledger[job[k].ws][i].job = k
      BY <3>1 DEF IInv, KeptWhileAlive
    <3>3. CASE k = j
      <4>1. job[k].status = "running"
        BY <1>1, <3>3 DEF IInv, UnderWayIsRecorded
      <4>2. QED
        BY <1>3, <1>5, <2>1, <3>2, <3>3, <4>1
    <3>4. CASE k # j
      <4>1. job'[k] = job[k] /\ job[k].ws \in Workspaces
        BY <1>2, <1>5, <3>4 DEF JobRecords
      <4>2. k \in ToSet(index'[job[k].ws]) <=> k \in ToSet(index[job[k].ws])
        BY <1>8, <2>1, <3>4, <4>1
      <4>3. k \in running' <=> k \in running
        BY <2>1, <3>4
      <4>4. QED
        BY <3>2, <4>1, <4>2, <4>3
    <3>5. QED
      BY <3>3, <3>4
  <2>8. QED
    BY <1>9, <2>3, <2>5, <2>6, <2>7 DEF IInv
<1>12. QED
  BY <1>10, <1>11

LEMMA NextIInv == JobAssumption /\ IInv /\ [Next]_vars => IInv'
<1> SUFFICES ASSUME JobAssumption, IInv, [Next]_vars
             PROVE  IInv'
  OBVIOUS
<1>1. CASE \E j \in Jobs, w \in Workspaces, g \in Agents : Dispatch(j, w, g)
  BY <1>1, DispatchKeeps
<1>2. CASE \E w \in Workspaces : \E i \in DOMAIN ledger[w] : UpdateTask(w, i)
  BY <1>2, UpdateTaskKeeps
<1>3. CASE Tick
  BY <1>3, TickKeeps
<1>4. CASE \E j \in Jobs : Finish(j)
  BY <1>4, FinishKeeps
<1>5. CASE Crash
  <2>1. Restart /\ UNCHANGED <<cap, job, index, ledger>>
    BY <1>5 DEF Crash, files
  <2>2. IndexIsSound'
    BY <2>1 DEF IInv, IndexIsSound
  <2>3. /\ job \in [Jobs -> JobRecords] /\ index \in [Workspaces -> Seq(Jobs)]
        /\ ledger \in [Workspaces -> Seq([job : Jobs, open : BOOLEAN])]
    BY DEF IInv, TypeOK, JobRecords
  <2>4. QED
    BY <2>1, <2>2, <2>3, CrashKeeps
<1>6. CASE UNCHANGED vars
  <2>1. UNCHANGED <<cap, job, index, ledger, running, agentRunning, activeWorkspaces, crashes>>
    BY <1>6 DEF vars, files, memory
  <2>2. AgentsAreSerial' /\ UnderWayIsRecorded'
    BY <2>1, QuietKeeps DEF IInv, TypeOK, JobRecords, UnderWayIsRecorded
  <2>3. TypeOK'
    BY <2>1 DEF IInv, TypeOK
  <2>4. IndexIsSound'
    BY <2>1 DEF IInv, IndexIsSound
  <2>5. KeptWhileAlive'
    BY <2>1 DEF IInv, KeptWhileAlive
  <2>6. QED
    BY <2>2, <2>3, <2>4, <2>5 DEF IInv
<1>7. CASE \E w \in Workspaces : EditLimit(w)
  BY <1>7, EditLimitKeeps
<1>8. QED
  BY <1>1, <1>2, <1>3, <1>4, <1>5, <1>6, <1>7 DEF Next

(* The runner and the files stay consistent in whatever order the tasks    *)
(* are dispatched, picked, and ended, and wherever the process dies.       *)
LEMMA RunnerInvariant == Spec => []IInv
BY InitIInv, NextIInv, JobAssumption, PTL DEF Spec

-----------------------------------------------------------------------------
(* Every variable of the runner has its type, and no workspace is polled   *)
(* twice in a tick.                                                        *)
THEOREM TypeCorrect == Spec => []TypeOK
BY RunnerInvariant, PTL DEF IInv

(* However ticks overlap with dispatches, the ends of jobs and crashes, an *)
(* agent executes one job at a time, and each job under way is on file     *)
(* once.                                                                   *)
THEOREM RunningJobsSound == Spec => []RunningJobsAreSound
<1>1. ASSUME IInv, NEW j \in running
      PROVE  Cardinality({i \in DOMAIN index[job[j].ws] : index[job[j].ws][i] = j}) = 1
  <2>1. PICK ids : ids = index[job[j].ws]
    OBVIOUS
  <2>2. IsInjective(ids) /\ j \in ToSet(ids)
    <3>1. job[j].ws \in Workspaces
      BY <1>1 DEF IInv, TypeOK
    <3>2. QED
      BY <1>1, <2>1, <3>1 DEF IInv, IndexIsSound, UnderWayIsRecorded
  <2>3. PICK i \in DOMAIN ids : ids[i] = j
    BY <2>2 DEF ToSet
  <2>4. {k \in DOMAIN ids : ids[k] = j} = {i}
    BY <2>2, <2>3 DEF IsInjective
  <2>5. QED
    BY <2>1, <2>4, FS_Singleton
<1>2. IInv => RunningJobsAreSound
  BY <1>1 DEF IInv, RunningJobsAreSound, InFlightIsRecorded, UnderWayIsRecorded
<1>3. QED
  BY <1>2, RunnerInvariant, PTL

(* Until the process first dies, an accepted job is where the runner finds *)
(* it, under way, or over, and it is in the ledger.                        *)
THEOREM NothingLost == Spec => []NothingIsLost
<1>1. ASSUME IInv, crashes = 0, NEW j \in Jobs
      PROVE  /\ job[j].status \in {"pending", "running"} <=> Contains(index[job[j].ws], j)
             /\ job[j].status = "pending" => Contains(activeWorkspaces, job[j].ws)
             /\ job[j].status = "running" <=> j \in running
             /\ job[j].status # "absent"
                   => \E i \in DOMAIN ledger[job[j].ws] : ledger[job[j].ws][i].job = j
  <2>1. index[job[j].ws] \in Seq(Jobs) /\ activeWorkspaces \in Seq(Workspaces)
    BY <1>1 DEF IInv, TypeOK
  <2>2. /\ Contains(index[job[j].ws], j) <=> j \in ToSet(index[job[j].ws])
        /\ Contains(activeWorkspaces, job[j].ws) <=> job[j].ws \in ToSet(activeWorkspaces)
    BY <2>1, ContainsIsIn
  <2>3. QED
    BY <1>1, <2>2 DEF IInv, KeptWhileAlive
<1>2. IInv => NothingIsLost
  BY <1>1 DEF NothingIsLost
<1>3. QED
  BY <1>2, RunnerInvariant, PTL

(* What a step may do to one job. *)
MovesForward(j) ==
    /\ Rank(job[j].status) <= Rank(job'[j].status)
    /\ Rank(job[j].status) = 3 => job'[j] = job[j]

LEMMA RankOf ==
    /\ Rank("absent") = 0 /\ Rank("pending") = 1 /\ Rank("running") = 2
    /\ Rank("torn") = 3 /\ Rank("ended") = 3
    /\ \A status \in Statuses : Rank(status) \in 0..3
BY DEF Rank, Statuses

(* No step takes a job back: the runner's picks were pending, what ends    *)
(* was under way, and a crash takes no write back.                         *)
THEOREM JobsMoveForward ==
  Spec => /\ JobsOnlyMoveForward
          /\ [][\A j \in Jobs : Rank(job[j].status) = 3 => job'[j] = job[j]]_vars
<1>1. ASSUME IInv, NEW j \in Jobs, job'[j] = job[j]
      PROVE  MovesForward(j)
  <2>1. Rank(job[j].status) \in 0..3
    BY <1>1, RankOf DEF IInv, TypeOK
  <2>2. QED
    BY <1>1, <2>1 DEF MovesForward
<1>2. ASSUME JobAssumption, IInv, [Next]_vars, NEW k \in Jobs
      PROVE  MovesForward(k)
  <2>0. job \in [Jobs -> JobRecords] /\ running \subseteq Jobs
    BY <1>2 DEF IInv, TypeOK, JobRecords
  <2>1. CASE \E j \in Jobs, w \in Workspaces, g \in Agents : Dispatch(j, w, g)
    <3>1. PICK j \in Jobs, w \in Workspaces, g \in Agents : Dispatch(j, w, g)
      BY <2>1
    <3>2. PICK cut \in 1..3, torn \in BOOLEAN :
            /\ job[j].status = "absent"
            /\ job' = [job EXCEPT ![j] =
                         [status |-> IF cut = 1 /\ torn THEN "torn" ELSE "pending",
                          ws |-> w, agent |-> g]]
      BY <3>1 DEF Dispatch
    <3>3. job[j].status = "absent"
      BY <3>2
    <3>4. k = j => job'[k].status \in {"torn", "pending"}
      BY <2>0, <3>2
    <3>5. k # j => job'[k] = job[k]
      BY <2>0, <3>2
    <3>6. QED
      BY <1>1, <1>2, <3>3, <3>4, <3>5, RankOf DEF MovesForward
  <2>2. CASE \E w \in Workspaces : \E i \in DOMAIN ledger[w] : UpdateTask(w, i)
    BY <1>1, <1>2, <2>2 DEF UpdateTask
  <2>3. CASE Tick
    <3>1. PICK p \in GoodPicks : \E begun, failed \in SUBSET ToSet(p) : TickEffect(p, begun, failed)
      BY <1>2, <2>3, TickJobs
    <3>2. k \in ToSet(p) => job[k].status = "pending"
      BY DEF GoodPicks, PicksOK
    <3>3. job'[k] = job[k] \/ (k \in ToSet(p) /\ job'[k].status \in {"running", "torn"})
      BY <3>1 DEF TickEffect
    <3>4. QED
      BY <1>1, <1>2, <3>2, <3>3, RankOf DEF MovesForward
  <2>4. CASE \E j \in Jobs : Finish(j)
    <3>1. PICK j \in Jobs : Finish(j)
      BY <2>4
    <3>2. PICK st \in {"torn", "ended"} : j \in running /\ job' = [job EXCEPT ![j].status = st]
      BY <3>1 DEF Finish
    <3>3. job[j].status = "running"
      BY <1>2, <3>2 DEF IInv, UnderWayIsRecorded
    <3>4. k = j => job'[k].status \in {"torn", "ended"}
      BY <2>0, <3>2 DEF JobRecords
    <3>5. k # j => job'[k] = job[k]
      BY <2>0, <3>2
    <3>6. QED
      BY <1>1, <1>2, <3>3, <3>4, <3>5, RankOf DEF MovesForward
  <2>5. CASE Crash
    BY <1>1, <1>2, <2>5 DEF Crash, files
  <2>6. CASE UNCHANGED vars
    BY <1>1, <1>2, <2>6 DEF vars, files
  <2>7. CASE \E w \in Workspaces : EditLimit(w)
    BY <1>1, <1>2, <2>7 DEF EditLimit, files
  <2>8. QED
    BY <1>2, <2>1, <2>2, <2>3, <2>4, <2>5, <2>6, <2>7 DEF Next
<1>3. JobAssumption /\ IInv /\ [Next]_vars
      => /\ [\A j \in Jobs :
               IF Rank(job[j].status) < 3 THEN Rank(job[j].status) <= Rank(job'[j].status)
               ELSE job'[j] \in {job[j], NoJob}]_vars
         /\ [\A j \in Jobs : Rank(job[j].status) = 3 => job'[j] = job[j]]_vars
  <2>1. SUFFICES ASSUME JobAssumption, IInv, [Next]_vars, NEW j \in Jobs
                 PROVE  /\ IF Rank(job[j].status) < 3 THEN Rank(job[j].status) <= Rank(job'[j].status)
                           ELSE job'[j] \in {job[j], NoJob}
                        /\ Rank(job[j].status) = 3 => job'[j] = job[j]
    OBVIOUS
  <2>2. Rank(job[j].status) \in 0..3
    BY <2>1, RankOf DEF IInv, TypeOK
  <2>3. QED
    BY <1>2, <2>1, <2>2 DEF MovesForward
<1>4. QED
  BY <1>3, RunnerInvariant, JobAssumption, PTL DEF Spec, JobsOnlyMoveForward

(* However the limits are edited, jobs of a workspace are started only     *)
(* within the limit it has at that moment: a tick alone starts jobs, and   *)
(* what it picks for a workspace fits with what is under way there.        *)
THEOREM StartsKeep == Spec => StartsKeepToLimit
<1> DEFINE Of(w) == {j \in running' : job'[j].ws = w}
           Fits(w) == (\E j \in running' \ running : job'[j].ws = w)
                          => Cardinality(Of(w)) <= cap[w]
<1>1. ASSUME JobAssumption, IInv, [Next]_vars, NEW w \in Workspaces,
             NEW i \in running' \ running, job'[i].ws = w
      PROVE  Cardinality(Of(w)) <= cap[w]
  <2>1. CASE Tick
    <3>1. PICK p \in GoodPicks : \E begun, failed \in SUBSET ToSet(p) : TickEffect(p, begun, failed)
      BY <1>1, <2>1, TickJobs
    <3>2. /\ \A j \in Jobs : job'[j].ws = job[j].ws
          /\ running' = {} \/ running' = running \cup ToSet(p)
      BY <3>1 DEF TickEffect, Restart
    <3>3. p \in Seq(Jobs) /\ PicksOK(p) /\ ToSet(p) \subseteq Jobs /\ running \subseteq Jobs
      BY <1>1, ToSetType DEF GoodPicks, IInv, TypeOK
    <3>4. running' = running \cup ToSet(p) /\ i \in ToSet(p) /\ job[i].ws = w
      BY <1>1, <3>2, <3>3
    <3>5. Of(w) = {j \in running \cup ToSet(p) : job[j].ws = w}
      BY <3>2, <3>3, <3>4
    <3>6. QED
      BY <3>3, <3>4, <3>5 DEF PicksOK
  <2>2. CASE ~Tick
    <3>1. running' \subseteq running
      BY <1>1, <2>2 DEF Next, Dispatch, UpdateTask, EditLimit, Finish, Crash, Restart, vars, memory, files
    <3>2. QED
      BY <1>1, <3>1
  <2>3. QED
    BY <2>1, <2>2
<1>2. JobAssumption /\ IInv /\ [Next]_vars => [\A w \in Workspaces : Fits(w)]_vars
  BY <1>1
<1>3. JobAssumption /\ IInv /\ [Next]_vars
      => [\A w \in Workspaces :
            (\E j \in running' \ running : job'[j].ws = w)
                => Cardinality({j \in running' : job'[j].ws = w}) <= cap[w]]_vars
  BY <1>2
<1>4. QED
  BY <1>3, RunnerInvariant, JobAssumption, PTL DEF Spec, StartsKeepToLimit
===============================================================================
