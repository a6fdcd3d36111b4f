----------------------------- MODULE FiniteSums -----------------------------
(***************************************************************************)
(* Sums over finite sets.  The modules of the project write a sum with     *)
(* SumFunctionOnSet, which takes its terms one by one in the order CHOOSE  *)
(* happens to give; here are the facts that make it a sum: the order does  *)
(* not matter, a term can be taken out or put in, and terms that grow make *)
(* the sum grow.  The terms are integers.                                  *)
(***************************************************************************)
EXTENDS FiniteSetsExt, FiniteSetTheorems, TLAPS

Chosen(s) == CHOOSE x \in s : TRUE

(* The recursion of the sum, on the subsets of S of at most n. *)
Small(S, n) == {t \in SUBSET S : Cardinality(t) <= n}

Solves(g, f, D) ==
    g = [s \in D |-> IF s = {} THEN 0 ELSE f[Chosen(s)] + g[s \ {Chosen(s)}]]

SolvesAll(g, f, S) == Solves(g, f, SUBSET S)

(* Induction on the numbers, and on the subsets of a finite set: the       *)
(* property is the set of those that have it.                              *)
LEMMA NumbersByInduction ==
    ASSUME NEW P, P \subseteq Nat, 0 \in P, \A n \in P : n + 1 \in P
    PROVE  P = Nat
<1> SUFFICES ASSUME Nat \ P # {}
             PROVE  FALSE
  OBVIOUS
<1>1. PICK x \in Nat \ P : \A y \in Nat \ P : ~(<<y, x>> \in OpToRel(<, Nat))
  BY NatLessThanWellFounded, WFMin
<1>2. x - 1 \in Nat /\ x - 1 < x /\ (x - 1) + 1 = x
  <2>1. x # 0 /\ x \in Nat
    OBVIOUS
  <2>2. QED
    BY <2>1
<1>3. <<x - 1, x>> \in OpToRel(<, Nat)
  BY <1>2 DEF OpToRel
<1>4. x - 1 \in P
  BY <1>1, <1>2, <1>3
<1>5. QED
  BY <1>2, <1>4

LEMMA SubsetsByInduction ==
    ASSUME NEW S, IsFiniteSet(S), NEW P, P \subseteq SUBSET S,
           {} \in P,
           \A t \in SUBSET S : t # {} /\ (\A x \in t : t \ {x} \in P) => t \in P
    PROVE  P = SUBSET S
<1> DEFINE Q == {n \in Nat : \A t \in SUBSET S : Cardinality(t) <= n => t \in P}
<1>1. \A t \in SUBSET S : IsFiniteSet(t) /\ Cardinality(t) \in Nat
  BY FS_Subset, FS_CardinalityType
<1>2. 0 \in Q
  <2>1. ASSUME NEW t \in SUBSET S, Cardinality(t) <= 0
        PROVE  t = {}
    BY <1>1, <2>1, FS_EmptySet
  <2>2. QED
    BY <2>1
<1>3. ASSUME NEW n \in Q
      PROVE  n + 1 \in Q
  <2>1. ASSUME NEW t \in SUBSET S, Cardinality(t) <= n + 1
        PROVE  t \in P
    <3>1. CASE t = {}
      BY <3>1
    <3>2. ASSUME NEW x \in t
          PROVE  t \ {x} \in P
      <4>1. Cardinality(t \ {x}) = Cardinality(t) - 1
        BY <1>1, FS_RemoveElement
      <4>2. Cardinality(t \ {x}) <= n
        BY <1>1, <2>1, <4>1
      <4>3. QED
        BY <4>2
    <3>3. QED
      BY <3>1, <3>2
  <2>2. QED
    BY <2>1
<1>4. Q = Nat
  <2> HIDE DEF Q
  <2>1. Q \subseteq Nat
    BY DEF Q
  <2>2. QED
    BY <1>2, <1>3, <2>1, NumbersByInduction
<1>5. ASSUME NEW t \in SUBSET S
      PROVE  t \in P
  <2>1. Cardinality(t) \in Q
    BY <1>1, <1>4
  <2>2. QED
    BY <1>1, <2>1
<1>6. QED
  BY <1>5

-----------------------------------------------------------------------------
(* The recursion has a solution, on the subsets of at most n elements for  *)
(* every n, and so on all of them.                                         *)
LEMMA Recursion ==
    ASSUME NEW S, IsFiniteSet(S), NEW f
    PROVE  \E g : SolvesAll(g, f, S)
<1> DEFINE Q == {n \in Nat : \E g : Solves(g, f, Small(S, n))}
<1>1. \A t \in SUBSET S : IsFiniteSet(t) /\ Cardinality(t) \in Nat
  BY FS_Subset, FS_CardinalityType
<1>2. 0 \in Q
  <2> DEFINE g == [s \in {{}} |-> 0]
  <2>1. Small(S, 0) = {{}}
    <3>1. {} \in Small(S, 0)
      BY FS_EmptySet DEF Small
    <3>2. ASSUME NEW t \in Small(S, 0)
          PROVE  t = {}
      BY <1>1, FS_EmptySet DEF Small
    <3>3. QED
      BY <3>1, <3>2
  <2>2. Solves(g, f, {{}})
    BY DEF Solves
  <2>3. QED
    BY <2>1, <2>2
<1>3. ASSUME NEW n \in Q
      PROVE  n + 1 \in Q
  <2>1. PICK h : Solves(h, f, Small(S, n))
    OBVIOUS
  <2> DEFINE D == Small(S, n + 1)
             g == [s \in D |-> IF s = {} THEN 0 ELSE f[Chosen(s)] + h[s \ {Chosen(s)}]]
  <2>2. ASSUME NEW s \in D, s # {}
        PROVE  s \ {Chosen(s)} \in Small(S, n)
    <3>1. Chosen(s) \in s
      BY <2>2 DEF Chosen
    <3>2. Cardinality(s \ {Chosen(s)}) = Cardinality(s) - 1
      BY <1>1, <3>1, FS_RemoveElement DEF Small
    <3>3. Cardinality(s) \in Nat /\ Cardinality(s) <= n + 1 /\ n \in Nat /\ s \subseteq S
      BY <1>1 DEF Small
    <3>4. QED
      BY <3>2, <3>3 DEF Small
  <2>3. Small(S, n) \subseteq D
    BY <1>1 DEF Small
  <2>4. ASSUME NEW t \in Small(S, n)
        PROVE  g[t] = h[t]
    <3> HIDE DEF D
    <3>1. h[t] = IF t = {} THEN 0 ELSE f[Chosen(t)] + h[t \ {Chosen(t)}]
      BY <2>1 DEF Solves
    <3>2. t \in D
      BY <2>3
    <3>3. QED
      BY <3>1, <3>2
  <2>5. g = [s \in D |-> IF s = {} THEN 0 ELSE f[Chosen(s)] + g[s \ {Chosen(s)}]]
    <3>1. ASSUME NEW s \in D, s # {}
          PROVE  h[s \ {Chosen(s)}] = g[s \ {Chosen(s)}]
      BY <2>2, <2>4, <3>1
    <3> HIDE DEF D
    <3> DEFINE k == [s \in D |-> IF s = {} THEN 0 ELSE f[Chosen(s)] + g[s \ {Chosen(s)}]]
    <3>2. \A s \in D : g[s] = k[s]
      BY <3>1
    <3>3. QED
      BY <3>2
  <2>6. Solves(g, f, D)
    BY <2>5 DEF Solves
  <2> HIDE DEF g
  <2>7. QED
    BY <2>6
<1>4. Q = Nat
  <2> HIDE DEF Q
  <2>1. Q \subseteq Nat
    BY DEF Q
  <2>2. QED
    BY <1>2, <1>3, <2>1, NumbersByInduction
<1>5. Cardinality(S) \in Q
  BY <1>4, FS_CardinalityType
<1>6. Small(S, Cardinality(S)) = SUBSET S
  BY FS_Subset DEF Small
<1>7. QED
  BY <1>5, <1>6 DEF SolvesAll

(* Two solutions agree where both speak. *)
LEMMA RecursionUnique ==
    ASSUME NEW S, IsFiniteSet(S), NEW T, T \subseteq S, NEW f, NEW g, NEW h,
           SolvesAll(g, f, S), SolvesAll(h, f, T)
    PROVE  \A t \in SUBSET T : g[t] = h[t]
<1> DEFINE P == {t \in SUBSET T : g[t] = h[t]}
<1>1. IsFiniteSet(T)
  BY FS_Subset
<1>2. {} \in P
  BY DEF SolvesAll, Solves
<1>3. ASSUME NEW t \in SUBSET T, t # {}, \A x \in t : t \ {x} \in P
      PROVE  t \in P
  <2>1. Chosen(t) \in t
    BY <1>3 DEF Chosen
  <2>2. g[t \ {Chosen(t)}] = h[t \ {Chosen(t)}]
    BY <1>3, <2>1
  <2>3. g[t] = f[Chosen(t)] + g[t \ {Chosen(t)}] /\ h[t] = f[Chosen(t)] + h[t \ {Chosen(t)}]
    BY <1>3 DEF SolvesAll, Solves
  <2>4. QED
    BY <2>2, <2>3
<1>4. P = SUBSET T
  <2> HIDE DEF P
  <2>1. P \subseteq SUBSET T
    BY DEF P
  <2>2. QED
    BY <1>1, <1>2, <1>3, <2>1, SubsetsByInduction
<1>5. QED
  BY <1>4

(* The sum, by the term CHOOSE gives. *)
LEMMA SumRecursion ==
    ASSUME NEW S, IsFiniteSet(S), NEW f
    PROVE  /\ SumFunctionOnSet(f, {}) = 0
           /\ S # {} =>
                SumFunctionOnSet(f, S) = f[Chosen(S)] + SumFunctionOnSet(f, S \ {Chosen(S)})
<1> DEFINE G(T) == CHOOSE g : SolvesAll(g, f, T)
<1>1. \A T : SumFunctionOnSet(f, T) = G(T)[T]
  BY DEF SumFunctionOnSet, FoldFunctionOnSet, MapThenFoldSet, SolvesAll, Solves, Chosen
<1>2. \A T \in SUBSET S : SolvesAll(G(T), f, T)
  BY Recursion, FS_Subset
<1> HIDE DEF G
<1>3. SumFunctionOnSet(f, {}) = 0
  BY <1>1, <1>2 DEF SolvesAll, Solves
<1>4. ASSUME S # {}
      PROVE  SumFunctionOnSet(f, S) = f[Chosen(S)] + SumFunctionOnSet(f, S \ {Chosen(S)})
  <2> DEFINE T == S \ {Chosen(S)}
  <2>1. G(S)[S] = f[Chosen(S)] + G(S)[T]
    BY <1>2, <1>4 DEF SolvesAll, Solves
  <2>2. G(S)[T] = G(T)[T]
    <3>1. PICK U, g, h : U \subseteq S /\ U = T /\ g = G(S) /\ h = G(U)
      OBVIOUS
    <3>2. U \subseteq S /\ SolvesAll(g, f, S) /\ SolvesAll(h, f, U)
      BY <1>2, <3>1
    <3>3. \A t \in SUBSET U : g[t] = h[t]
      BY <3>2, RecursionUnique
    <3> HIDE DEF T
    <3>4. G(U) = G(T)
      BY <3>1
    <3>5. QED
      BY <3>1, <3>3, <3>4
  <2>3. QED
    BY <1>1, <2>1, <2>2
<1>5. QED
  BY <1>3, <1>4

-----------------------------------------------------------------------------
(* A sum of integers is one; of naturals, too.                             *)
THEOREM SumType ==
    ASSUME NEW S, IsFiniteSet(S), NEW f
    PROVE  /\ (\A x \in S : f[x] \in Int) => SumFunctionOnSet(f, S) \in Int
           /\ (\A x \in S : f[x] \in Nat) => SumFunctionOnSet(f, S) \in Nat
<1>1. ASSUME NEW R \in {Int, Nat}, \A x \in S : f[x] \in R
      PROVE  SumFunctionOnSet(f, S) \in R
  <2> DEFINE P == {t \in SUBSET S : SumFunctionOnSet(f, t) \in R}
  <2>1. {} \in P
    BY FS_EmptySet, SumRecursion
  <2>2. ASSUME NEW t \in SUBSET S, t # {}, \A x \in t : t \ {x} \in P
        PROVE  t \in P
    <3>1. IsFiniteSet(t)
      BY FS_Subset
    <3>2. SumFunctionOnSet(f, t) = f[Chosen(t)] + SumFunctionOnSet(f, t \ {Chosen(t)})
      BY <2>2, <3>1, SumRecursion
    <3>3. Chosen(t) \in t
      BY <2>2 DEF Chosen
    <3>4. f[Chosen(t)] \in R /\ SumFunctionOnSet(f, t \ {Chosen(t)}) \in R
      BY <1>1, <2>2, <3>3
    <3>5. QED
      BY <3>2, <3>4
  <2>3. P = SUBSET S
    <3> HIDE DEF P
    <3>1. P \subseteq SUBSET S
      BY DEF P
    <3>2. QED
      BY <2>1, <2>2, <3>1, SubsetsByInduction
  <2>4. QED
    BY <2>3
<1>2. QED
  BY <1>1

(* A sum is its terms in any order: any of them can be taken out first.    *)
THEOREM SumWithout ==
    ASSUME NEW S, IsFiniteSet(S), NEW f, \A x \in S : f[x] \in Int, NEW x \in S
    PROVE  SumFunctionOnSet(f, S) = f[x] + SumFunctionOnSet(f, S \ {x})
<1> DEFINE P == {t \in SUBSET S :
                   \A y \in t : SumFunctionOnSet(f, t) = f[y] + SumFunctionOnSet(f, t \ {y})}
<1>1. {} \in P
  OBVIOUS
<1>2. ASSUME NEW t \in SUBSET S, t # {}, \A y \in t : t \ {y} \in P
      PROVE  t \in P
  <2> SUFFICES ASSUME NEW y \in t
               PROVE  SumFunctionOnSet(f, t) = f[y] + SumFunctionOnSet(f, t \ {y})
    OBVIOUS
  <2> DEFINE c == Chosen(t)
  <2>1. c \in t
    BY DEF Chosen
  <2>2. IsFiniteSet(t) /\ IsFiniteSet(t \ {c}) /\ IsFiniteSet(t \ {y}) /\ IsFiniteSet((t \ {c}) \ {y})
    BY FS_Subset
  <2>3. SumFunctionOnSet(f, t) = f[c] + SumFunctionOnSet(f, t \ {c})
    BY <2>2, SumRecursion
  <2> HIDE DEF c
  <2>4. CASE c = y
    BY <2>3, <2>4
  <2>5. CASE c # y
    <3>1. y \in t \ {c} /\ c \in t \ {y}
      BY <2>1, <2>5
    <3>2. SumFunctionOnSet(f, t \ {c}) = f[y] + SumFunctionOnSet(f, (t \ {c}) \ {y})
      BY <1>2, <2>1, <3>1
    <3>3. SumFunctionOnSet(f, t \ {y}) = f[c] + SumFunctionOnSet(f, (t \ {y}) \ {c})
      BY <1>2, <3>1
    <3>4. SumFunctionOnSet(f, t \ {y}) = f[c] + SumFunctionOnSet(f, (t \ {c}) \ {y})
      <4>1. (t \ {y}) \ {c} = (t \ {c}) \ {y}
        OBVIOUS
      <4>2. QED
        BY <3>3, <4>1, Zenon
    <3>5. /\ f[y] \in Int /\ f[c] \in Int /\ SumFunctionOnSet(f, (t \ {c}) \ {y}) \in Int
      <4>1. \A z \in (t \ {c}) \ {y} : f[z] \in Int
        OBVIOUS
      <4>2. QED
        BY <2>1, <2>2, <4>1, SumType
    <3>6. QED
      BY <2>3, <3>2, <3>4, <3>5
  <2>6. QED
    BY <2>4, <2>5
<1>3. P = SUBSET S
  <2> HIDE DEF P
  <2>1. P \subseteq SUBSET S
    BY DEF P
  <2>2. QED
    BY <1>1, <1>2, <2>1, SubsetsByInduction
<1>4. QED
  BY <1>3

(* A new term adds to the sum.                                             *)
THEOREM SumWith ==
    ASSUME NEW S, IsFiniteSet(S), NEW x, x \notin S,
           NEW f, \A y \in S \cup {x} : f[y] \in Int
    PROVE  SumFunctionOnSet(f, S \cup {x}) = f[x] + SumFunctionOnSet(f, S)
<1>1. IsFiniteSet(S \cup {x})
  BY FS_AddElement
<1>2. (S \cup {x}) \ {x} = S
  OBVIOUS
<1>3. QED
  BY <1>1, <1>2, SumWithout

(* Terms that are no smaller give a sum that is no smaller, and the same   *)
(* sum only if they are the same.                                          *)
THEOREM SumMonotone ==
    ASSUME NEW S, IsFiniteSet(S), NEW f, NEW g,
           \A x \in S : f[x] \in Int /\ g[x] \in Int /\ f[x] <= g[x]
    PROVE  /\ SumFunctionOnSet(f, S) <= SumFunctionOnSet(g, S)
           /\ SumFunctionOnSet(f, S) = SumFunctionOnSet(g, S) => \A x \in S : f[x] = g[x]
           /\ (\A x \in S : f[x] = g[x]) => SumFunctionOnSet(f, S) = SumFunctionOnSet(g, S)
<1> DEFINE P == {t \in SUBSET S :
                   /\ SumFunctionOnSet(f, t) <= SumFunctionOnSet(g, t)
                   /\ SumFunctionOnSet(f, t) = SumFunctionOnSet(g, t) => \A x \in t : f[x] = g[x]
                   /\ (\A x \in t : f[x] = g[x]) => SumFunctionOnSet(f, t) = SumFunctionOnSet(g, t)}
<1>1. {} \in P
  <2>1. SumFunctionOnSet(f, {}) = 0 /\ SumFunctionOnSet(g, {}) = 0
    BY SumRecursion
  <2>2. QED
    BY <2>1
<1>2. ASSUME NEW t \in SUBSET S, t # {}, \A y \in t : t \ {y} \in P
      PROVE  t \in P
  <2>1. PICK c \in t : TRUE
    BY <1>2
  <2> DEFINE u == t \ {c}
  <2>2. IsFiniteSet(t) /\ IsFiniteSet(u)
    BY FS_Subset
  <2>3. /\ SumFunctionOnSet(f, t) = f[c] + SumFunctionOnSet(f, u)
        /\ SumFunctionOnSet(g, t) = g[c] + SumFunctionOnSet(g, u)
    BY <2>2, SumWithout
  <2>4. SumFunctionOnSet(f, u) \in Int /\ SumFunctionOnSet(g, u) \in Int
    BY <2>2, SumType
  <2>5. u \in P /\ t = u \cup {c} /\ f[c] \in Int /\ g[c] \in Int /\ f[c] <= g[c]
    BY <1>2
  <2> HIDE DEF u
  <2>6. SumFunctionOnSet(f, t) <= SumFunctionOnSet(g, t)
    BY <2>3, <2>4, <2>5
  <2>7. SumFunctionOnSet(f, t) = SumFunctionOnSet(g, t) => \A x \in t : f[x] = g[x]
    <3>1. SUFFICES ASSUME SumFunctionOnSet(f, t) = SumFunctionOnSet(g, t)
                   PROVE  f[c] = g[c] /\ SumFunctionOnSet(f, u) = SumFunctionOnSet(g, u)
      BY <2>5
    <3>2. SumFunctionOnSet(f, u) <= SumFunctionOnSet(g, u)
      BY <2>5
    <3>3. QED
      BY <2>3, <2>4, <2>5, <3>1, <3>2
  <2>8. (\A x \in t : f[x] = g[x]) => SumFunctionOnSet(f, t) = SumFunctionOnSet(g, t)
    BY <2>3, <2>4, <2>5
  <2>9. QED
    BY <2>6, <2>7, <2>8
<1>3. P = SUBSET S
  <2> HIDE DEF P
  <2>1. P \subseteq SUBSET S
    BY DEF P
  <2>2. QED
    BY <1>1, <1>2, <2>1, SubsetsByInduction
<1>4. QED
  BY <1>3

(* When one term changes, the sum changes by as much.                      *)
THEOREM SumChange ==
    ASSUME NEW S, IsFiniteSet(S), NEW f, NEW g, NEW x \in S,
           \A y \in S : f[y] \in Int /\ g[y] \in Int,
           \A y \in S \ {x} : f[y] = g[y]
    PROVE  SumFunctionOnSet(g, S) = SumFunctionOnSet(f, S) + (g[x] - f[x])
<1> DEFINE T == S \ {x}
<1>1. IsFiniteSet(T)
  BY FS_Subset
<1>2. /\ SumFunctionOnSet(f, S) = f[x] + SumFunctionOnSet(f, T)
      /\ SumFunctionOnSet(g, S) = g[x] + SumFunctionOnSet(g, T)
  BY SumWithout
<1>3. SumFunctionOnSet(f, T) = SumFunctionOnSet(g, T)
  BY <1>1, SumMonotone
<1>4. SumFunctionOnSet(f, T) \in Int
  BY <1>1, SumType
<1>5. QED
  BY <1>2, <1>3, <1>4

(* A part of the terms sums to no more than all of them, when none is      *)
(* negative.                                                               *)
THEOREM SumOfPart ==
    ASSUME NEW S, IsFiniteSet(S), NEW f, \A x \in S : f[x] \in Nat, NEW x \in S
    PROVE  f[x] <= SumFunctionOnSet(f, S)
<1>1. SumFunctionOnSet(f, S) = f[x] + SumFunctionOnSet(f, S \ {x})
  BY SumWithout
<1>2. SumFunctionOnSet(f, S \ {x}) \in Nat
  BY FS_Subset, SumType
<1>3. QED
  BY <1>1, <1>2

(* Terms that are all zero sum to zero.                                    *)
THEOREM SumOfZeros ==
    ASSUME NEW S, IsFiniteSet(S), NEW f, \A x \in S : f[x] = 0
    PROVE  SumFunctionOnSet(f, S) = 0
<1> DEFINE P == {t \in SUBSET S : SumFunctionOnSet(f, t) = 0}
<1>1. {} \in P
  <2>1. SumFunctionOnSet(f, {}) = 0
    BY SumRecursion
  <2>2. QED
    BY <2>1
<1>2. ASSUME NEW t \in SUBSET S, t # {}, \A y \in t : t \ {y} \in P
      PROVE  t \in P
  <2>1. PICK c \in t : TRUE
    BY <1>2
  <2>2. SumFunctionOnSet(f, t) = f[c] + SumFunctionOnSet(f, t \ {c})
    BY FS_Subset, SumWithout
  <2>3. SumFunctionOnSet(f, t \ {c}) = 0
    BY <1>2
  <2>4. QED
    BY <2>2, <2>3
<1>3. P = SUBSET S
  <2> HIDE DEF P
  <2>1. P \subseteq SUBSET S
    BY DEF P
  <2>2. QED
    BY <1>1, <1>2, <2>1, SubsetsByInduction
<1>4. QED
  BY <1>3

(* A finite set is counted by counting the members with each key.          *)
WithKey(t, key, a) == {b \in t : key[b] = a}

THEOREM CountByKey ==
    ASSUME NEW S, IsFiniteSet(S), NEW A, IsFiniteSet(A), NEW key, \A b \in S : key[b] \in A
    PROVE  SumFunctionOnSet([a \in A |-> Cardinality(WithKey(S, key, a))], A) = Cardinality(S)
<1> DEFINE counts(t) == [a \in A |-> Cardinality(WithKey(t, key, a))]
           P == {t \in SUBSET S : SumFunctionOnSet(counts(t), A) = Cardinality(t)}
<1>1. \A t \in SUBSET S : \A a \in A :
         /\ IsFiniteSet(WithKey(t, key, a)) /\ Cardinality(WithKey(t, key, a)) \in Nat
         /\ counts(t)[a] = Cardinality(WithKey(t, key, a))
  <2>1. ASSUME NEW t \in SUBSET S, NEW a \in A
        PROVE  IsFiniteSet(WithKey(t, key, a))
    BY FS_Subset DEF WithKey
  <2>2. QED
    BY <2>1, FS_CardinalityType
<1>2. {} \in P
  <2>1. \A a \in A : counts({})[a] = 0
    <3>1. \A a \in A : WithKey({}, key, a) = {}
      BY DEF WithKey
    <3>2. QED
      BY <3>1, FS_EmptySet
  <2>2. PICK f : f = counts({})
    OBVIOUS
  <2>3. SumFunctionOnSet(f, A) = 0
    BY <2>1, <2>2, SumOfZeros
  <2> HIDE DEF counts
  <2>4. QED
    BY <2>2, <2>3, FS_EmptySet
<1>3. ASSUME NEW t \in SUBSET S, t # {}, \A y \in t : t \ {y} \in P
      PROVE  t \in P
  <2>1. PICK b \in t : TRUE
    BY <1>3
  <2>2. PICK u : u = t \ {b}
    OBVIOUS
  <2>3. u \in SUBSET S /\ key[b] \in A /\ IsFiniteSet(t) /\ IsFiniteSet(u)
    BY <2>2, FS_Subset
  <2>4. Cardinality(t) = Cardinality(u) + 1 /\ Cardinality(u) \in Nat
    <3>1. Cardinality(u) = Cardinality(t) - 1
      BY <2>2, <2>3, FS_RemoveElement
    <3>2. QED
      BY <2>3, <3>1, FS_CardinalityType
  <2>5. PICK f, g : f = counts(u) /\ g = counts(t)
    OBVIOUS
  <2>6. \A a \in A : f[a] \in Int /\ g[a] \in Int
    BY <1>1, <2>3, <2>5
  <2>7. g[key[b]] = f[key[b]] + 1
    <3>1. WithKey(u, key, key[b]) = WithKey(t, key, key[b]) \ {b} /\ b \in WithKey(t, key, key[b])
      BY <2>2 DEF WithKey
    <3>2. Cardinality(WithKey(u, key, key[b])) = Cardinality(WithKey(t, key, key[b])) - 1
      <4>1. Cardinality(WithKey(t, key, key[b]) \ {b}) = Cardinality(WithKey(t, key, key[b])) - 1
        BY <1>1, <2>3, <3>1, FS_RemoveElement
      <4>2. QED
        BY <3>1, <4>1, Zenon
    <3>3. QED
      BY <1>1, <2>3, <2>5, <3>2
  <2>8. \A a \in A \ {key[b]} : f[a] = g[a]
    <3>1. \A a \in A \ {key[b]} : WithKey(u, key, a) = WithKey(t, key, a)
      BY <2>2 DEF WithKey
    <3>2. QED
      BY <1>1, <2>3, <2>5, <3>1
  <2>9. SumFunctionOnSet(g, A) = SumFunctionOnSet(f, A) + (g[key[b]] - f[key[b]])
    <3>1. PICK x \in A : x = key[b]
      BY <2>3
    <3>2. \A a \in A \ {x} : f[a] = g[a]
      BY <2>8, <3>1
    <3>3. SumFunctionOnSet(g, A) = SumFunctionOnSet(f, A) + (g[x] - f[x])
      BY <2>6, <3>2, SumChange
    <3>4. QED
      BY <3>1, <3>3
  <2>10. SumFunctionOnSet(f, A) = Cardinality(u)
    <3> HIDE DEF counts
    <3>1. QED
      BY <1>3, <2>2, <2>5
  <2> HIDE DEF counts
  <2>11. SumFunctionOnSet(counts(t), A) = Cardinality(t)
    BY <2>3, <2>4, <2>5, <2>6, <2>7, <2>9, <2>10
  <2>12. QED
    BY <2>11
<1>4. P = SUBSET S
  <2> HIDE DEF P
  <2>1. P \subseteq SUBSET S
    BY DEF P
  <2>2. QED
    BY <1>2, <1>3, <2>1, SubsetsByInduction
<1>5. QED
  BY <1>4

(* Adding up the weights of the keys is adding up, key by key, as often    *)
(* the weight as there are members with the key.                           *)
THEOREM SumByKey ==
    ASSUME NEW S, IsFiniteSet(S), NEW A, IsFiniteSet(A), NEW key, \A b \in S : key[b] \in A,
           NEW w, \A a \in A : w[a] \in Nat
    PROVE  SumFunctionOnSet([b \in S |-> w[key[b]]], S) =
                SumFunctionOnSet([a \in A |-> Cardinality(WithKey(S, key, a)) * w[a]], A)
<1> DEFINE W == [b \in S |-> w[key[b]]]
           amounts(t) == [a \in A |-> Cardinality(WithKey(t, key, a)) * w[a]]
           P == {t \in SUBSET S : SumFunctionOnSet(W, t) = SumFunctionOnSet(amounts(t), A)}
<1>0. \A b \in S : W[b] = w[key[b]] /\ W[b] \in Int
  OBVIOUS
<1>1. \A t \in SUBSET S : \A a \in A :
         /\ IsFiniteSet(WithKey(t, key, a)) /\ Cardinality(WithKey(t, key, a)) \in Nat
         /\ amounts(t)[a] = Cardinality(WithKey(t, key, a)) * w[a]
  <2>1. ASSUME NEW t \in SUBSET S, NEW a \in A
        PROVE  IsFiniteSet(WithKey(t, key, a))
    BY FS_Subset DEF WithKey
  <2>2. QED
    BY <2>1, FS_CardinalityType
<1> HIDE DEF W
<1>2. {} \in P
  <2>1. \A a \in A : amounts({})[a] = 0
    <3>1. \A a \in A : Cardinality(WithKey({}, key, a)) = 0
      <4>1. \A a \in A : WithKey({}, key, a) = {}
        BY DEF WithKey
      <4>2. QED
        BY <4>1, FS_EmptySet
    <3>2. QED
      BY <3>1
  <2>2. PICK f : f = amounts({})
    OBVIOUS
  <2>3. SumFunctionOnSet(f, A) = 0
    BY <2>1, <2>2, SumOfZeros
  <2>4. SumFunctionOnSet(W, {}) = 0
    BY FS_EmptySet, SumOfZeros
  <2> HIDE DEF amounts
  <2>5. QED
    BY <2>2, <2>3, <2>4
<1>3. ASSUME NEW t \in SUBSET S, t # {}, \A y \in t : t \ {y} \in P
      PROVE  t \in P
  <2>1. PICK b \in t : TRUE
    BY <1>3
  <2>2. PICK u : u = t \ {b}
    OBVIOUS
  <2>3. u \in SUBSET S /\ key[b] \in A /\ IsFiniteSet(t) /\ IsFiniteSet(u)
    BY <2>2, FS_Subset
  <2>5. PICK f, g : f = amounts(u) /\ g = amounts(t)
    OBVIOUS
  <2>6. \A a \in A : f[a] \in Int /\ g[a] \in Int
    BY <1>1, <2>3, <2>5
  <2>7. g[key[b]] = f[key[b]] + w[key[b]]
    <3>1. WithKey(u, key, key[b]) = WithKey(t, key, key[b]) \ {b} /\ b \in WithKey(t, key, key[b])
      BY <2>2 DEF WithKey
    <3>2. Cardinality(WithKey(u, key, key[b])) = Cardinality(WithKey(t, key, key[b])) - 1
      <4>1. Cardinality(WithKey(t, key, key[b]) \ {b}) = Cardinality(WithKey(t, key, key[b])) - 1
        BY <1>1, <2>3, <3>1, FS_RemoveElement
      <4>2. QED
        BY <3>1, <4>1, Zenon
    <3>3. PICK m, n, v \in Int : /\ m = Cardinality(WithKey(u, key, key[b]))
                                 /\ n = Cardinality(WithKey(t, key, key[b]))
                                 /\ v = w[key[b]]
      BY <1>1, <2>3
    <3>4. n = m + 1 /\ f[key[b]] = m * v /\ g[key[b]] = n * v
      BY <1>1, <2>3, <2>5, <3>2, <3>3
    <3>5. (m + 1) * v = m * v + v
      OBVIOUS
    <3>6. QED
      BY <3>3, <3>4, <3>5
  <2>8. \A a \in A \ {key[b]} : f[a] = g[a]
    <3>1. \A a \in A \ {key[b]} : WithKey(u, key, a) = WithKey(t, key, a)
      BY <2>2 DEF WithKey
    <3>2. QED
      BY <1>1, <2>3, <2>5, <3>1
  <2>9. SumFunctionOnSet(g, A) = SumFunctionOnSet(f, A) + (g[key[b]] - f[key[b]])
    <3>1. PICK x \in A : x = key[b]
      BY <2>3
    <3>2. \A a \in A \ {x} : f[a] = g[a]
      BY <2>8, <3>1
    <3>3. SumFunctionOnSet(g, A) = SumFunctionOnSet(f, A) + (g[x] - f[x])
      BY <2>6, <3>2, SumChange
    <3>4. QED
      BY <3>1, <3>3
  <2>10. SumFunctionOnSet(W, u) = SumFunctionOnSet(f, A)
    <3> HIDE DEF amounts
    <3>1. QED
      BY <1>3, <2>2, <2>5
  <2>11. SumFunctionOnSet(W, t) = W[b] + SumFunctionOnSet(W, u)
    <3>1. \A x \in t : W[x] \in Int
      BY <1>0
    <3>2. QED
      BY <2>2, <2>3, <3>1, SumWithout
  <2>12. SumFunctionOnSet(f, A) \in Int
    BY <2>6, SumType
  <2> HIDE DEF amounts
  <2>13. SumFunctionOnSet(W, t) = SumFunctionOnSet(amounts(t), A)
    BY <1>0, <2>3, <2>5, <2>6, <2>7, <2>9, <2>10, <2>11, <2>12
  <2>14. QED
    BY <2>13
<1>4. P = SUBSET S
  <2> HIDE DEF P
  <2>1. P \subseteq SUBSET S
    BY DEF P
  <2>2. QED
    BY <1>2, <1>3, <2>1, SubsetsByInduction
<1>5. S \in P
  BY <1>4
<1>6. QED
  BY <1>5 DEF W
=============================================================================
