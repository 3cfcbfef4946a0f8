-------------------------- MODULE ArithmeticProofs ---------------------------
(***************************************************************************)
(* Proofs about Tax and about Projection.                                  *)
(*                                                                         *)
(* Tax: a won cost basis which passes the check is what the shares were    *)
(* paid for, and a sale of what portfolio has announced the tax of adds    *)
(* none, whatever the number of people and holdings, the prices, the rates *)
(* and the plausible range.                                                *)
(*                                                                         *)
(* Projection: the table of a plan line is its chart, year by year; every  *)
(* payment has been raised once for each raise month that has passed; and  *)
(* the line ends at the target, whatever the plan, the months, the range   *)
(* of growths and the number of halvings that exhausts it.                 *)
(***************************************************************************)
EXTENDS Tax, Projection, SequenceTheorems, FiniteSetTheorems, WellFoundedInduction, TLAPS

----------------------------------------------------------------------------
(* Sums over finite sets. *)

\* Induction over the subsets of a finite set, by the smallest that fails.
LEMMA SmallestSubset ==
  ASSUME NEW S, IsFiniteSet(S), NEW C, C \subseteq SUBSET S, C # {}
  PROVE  \E s \in C : \A t \in C : t \subseteq s => t = s
<1>1. FiniteSubsetsOf(S) = SUBSET S
  BY FS_FiniteSubsetsOfFinite
<1>2. PICK s \in C : \A t \in C : <<t, s>> \notin StrictSubsetOrdering(S)
  BY <1>1, FS_StrictSubsetOrderingWellFounded, WFMin
<1>3. ASSUME NEW t \in C, t \subseteq s PROVE t = s
  BY <1>2, <1>3 DEF StrictSubsetOrdering
<1> QED
  BY <1>3

Pick(s) == CHOOSE x \in s : TRUE

Rest(s) == s \ {Pick(s)}

\* The equation by which g sums f over each subset of S.
Sums(g, f, S) ==
  g = [s \in SUBSET S |-> IF s = {} THEN 0 ELSE f[Pick(s)] + g[Rest(s)]]

LEMMA PickRest ==
  ASSUME NEW s, s # {}
  PROVE  Pick(s) \in s /\ Rest(s) \subseteq s /\ Rest(s) # s /\ s = Rest(s) \cup {Pick(s)}
         /\ Pick(s) \notin Rest(s)
BY DEF Pick, Rest

LEMMA SumsAt ==
  ASSUME NEW g, NEW f, NEW S, Sums(g, f, S)
  PROVE  /\ g[{}] = 0
         /\ \A s \in SUBSET S : s # {} => g[s] = f[Pick(s)] + g[Rest(s)]
<1>1. g = [s \in SUBSET S |-> IF s = {} THEN 0 ELSE f[Pick(s)] + g[Rest(s)]]
  BY DEF Sums
<1> QED
  BY <1>1

\* What a solution says of a finite set depends on f there only.
LEMMA SumsAgree ==
  ASSUME NEW f, NEW g, NEW S, Sums(g, f, S),
         NEW e, NEW h, NEW T, Sums(h, e, T),
         NEW R, IsFiniteSet(R), R \subseteq S \cap T, \A x \in R : f[x] = e[x]
  PROVE  g[R] = h[R]
<1> DEFINE C == {s \in SUBSET R : g[s] # h[s]}
<1>1. CASE C = {}
  BY <1>1
<1>2. CASE C # {}
  <2>1. PICK s \in C : \A t \in C : t \subseteq s => t = s
    <3>1. C \subseteq SUBSET R
      OBVIOUS
    <3> HIDE DEF C
    <3> QED
      BY <1>2, <3>1, SmallestSubset
  <2>2. s # {}
    BY SumsAt
  <2>3. Rest(s) \notin C /\ Rest(s) \in SUBSET R /\ Pick(s) \in R
    BY <2>1, <2>2, PickRest
  <2>4. g[s] = f[Pick(s)] + g[Rest(s)] /\ h[s] = e[Pick(s)] + h[Rest(s)]
    BY <2>2, SumsAt
  <2> QED
    BY <2>3, <2>4
<1> QED
  BY <1>1, <1>2

LEMMA SumsExists ==
  ASSUME NEW f, NEW S, IsFiniteSet(S)
  PROVE  \E g : Sums(g, f, S)
<1> DEFINE C == {s \in SUBSET S : ~ \E g : Sums(g, f, s)}
<1>1. CASE C = {}
  BY <1>1
<1>2. CASE C # {}
  <2>1. PICK T \in C : \A t \in C : t \subseteq T => t = T
    <3>1. C \subseteq SUBSET S
      OBVIOUS
    <3> HIDE DEF C
    <3> QED
      BY <1>2, <3>1, SmallestSubset
  <2> DEFINE Sol(u) == CHOOSE g : Sums(g, f, u)
             h == [s \in SUBSET T |->
                     IF s = {} THEN 0 ELSE f[Pick(s)] + Sol(Rest(s))[Rest(s)]]
  <2>2. ASSUME NEW u \in SUBSET T, u # T PROVE Sums(Sol(u), f, u)
    <3>1. \E g : Sums(g, f, u)
      BY <2>1, <2>2
    <3> QED
      BY <3>1
  <2>3. ASSUME NEW s \in SUBSET T, s # {} PROVE h[Rest(s)] = Sol(Rest(s))[Rest(s)]
    <3> DEFINE u == Rest(s)
    <3>1. u \in SUBSET T /\ u # T
      BY <2>3, PickRest
    <3>2. Sums(Sol(u), f, u)
      BY <3>1, <2>2
    <3> HIDE DEF Sol
    <3>3. CASE u = {}
      BY <3>1, <3>2, <3>3, SumsAt
    <3>4. CASE u # {}
      <4>1. Rest(u) \in SUBSET T /\ Rest(u) # T /\ Rest(u) \in SUBSET u
        BY <3>1, <3>4, PickRest
      <4>2. Sums(Sol(Rest(u)), f, Rest(u))
        BY <4>1, <2>2
      <4>3. IsFiniteSet(Rest(u))
        BY <4>1, FS_Subset
      <4>4. Sol(u)[Rest(u)] = Sol(Rest(u))[Rest(u)]
        BY <3>2, <4>1, <4>2, <4>3, SumsAgree
      <4>5. Sol(u)[u] = f[Pick(u)] + Sol(u)[Rest(u)]
        BY <3>2, <3>4, SumsAt
      <4>6. h[u] = f[Pick(u)] + Sol(Rest(u))[Rest(u)]
        BY <3>1, <3>4
      <4> QED
        BY <4>4, <4>5, <4>6
    <3> QED
      BY <3>3, <3>4
  <2>4. ASSUME NEW s \in SUBSET T
        PROVE  (IF s = {} THEN 0 ELSE f[Pick(s)] + Sol(Rest(s))[Rest(s)])
                 = (IF s = {} THEN 0 ELSE f[Pick(s)] + h[Rest(s)])
    <3> HIDE DEF h, Sol
    <3> QED
      BY <2>3, <2>4
  <2>5. h = [s \in SUBSET T |-> IF s = {} THEN 0 ELSE f[Pick(s)] + h[Rest(s)]]
    <3> HIDE DEF Sol
    <3>1. h = [s \in SUBSET T |->
                 IF s = {} THEN 0 ELSE f[Pick(s)] + Sol(Rest(s))[Rest(s)]]
      OBVIOUS
    <3> HIDE DEF h
    <3> QED
      BY <2>4, <3>1
  <2>6. Sums(h, f, T)
    BY <2>5 DEF Sums
  <2> QED
    BY <2>6
<1> QED
  BY <1>1, <1>2

LEMMA SumSolves ==
  ASSUME NEW f, NEW S, IsFiniteSet(S)
  PROVE  \E g : Sums(g, f, S) /\ SumOf(f, S) = g[S]
<1>1. SumOf(f, S) = (CHOOSE g : Sums(g, f, S))[S]
  BY DEF SumOf, MapThenSumSet, MapThenFoldSet, Sums, Pick, Rest
<1>2. Sums(CHOOSE g : Sums(g, f, S), f, S)
  BY SumsExists
<1> QED
  BY <1>1, <1>2

\* A sum depends on what is summed only.
LEMMA SumSame ==
  ASSUME NEW f, NEW e, NEW S, IsFiniteSet(S), \A x \in S : f[x] = e[x]
  PROVE  SumOf(f, S) = SumOf(e, S)
BY SumSolves, SumsAgree

LEMMA SumEmpty ==
  ASSUME NEW f
  PROVE  SumOf(f, {}) = 0
BY SumSolves, SumsAt, FS_EmptySet

\* A solution gives whole numbers, and any element may be taken first.
LEMMA SumsInt ==
  ASSUME NEW g, NEW f, NEW S, IsFiniteSet(S), Sums(g, f, S), \A x \in S : f[x] \in Int
  PROVE  g[S] \in Int
<1> DEFINE C == {s \in SUBSET S : g[s] \notin Int}
<1>1. CASE C = {}
  BY <1>1
<1>2. CASE C # {}
  <2>1. PICK s \in C : \A t \in C : t \subseteq s => t = s
    <3>1. C \subseteq SUBSET S
      OBVIOUS
    <3> HIDE DEF C
    <3> QED
      BY <1>2, <3>1, SmallestSubset
  <2>2. s # {}
    <3>1. g[{}] = 0
      BY SumsAt
    <3>2. g[s] \notin Int
      BY <2>1
    <3>3. s = {} => g[s] = g[{}]
      OBVIOUS
    <3>4. 0 \in Int
      OBVIOUS
    <3> QED
      BY <3>1, <3>2, <3>3, <3>4
  <2>3. Rest(s) \notin C /\ Rest(s) \in SUBSET S /\ Pick(s) \in S
    BY <2>1, <2>2, PickRest
  <2>4. g[s] = f[Pick(s)] + g[Rest(s)]
    BY <2>2, SumsAt
  <2> QED
    BY <2>3, <2>4
<1> QED
  BY <1>1, <1>2

LEMMA SumInt ==
  ASSUME NEW f, NEW S, IsFiniteSet(S), \A x \in S : f[x] \in Int
  PROVE  SumOf(f, S) \in Int
BY SumSolves, SumsInt

LEMMA SumChosen ==
  ASSUME NEW f, NEW S, IsFiniteSet(S), S # {}
  PROVE  SumOf(f, S) = f[Pick(S)] + SumOf(f, Rest(S))
<1>1. PICK g : Sums(g, f, S) /\ SumOf(f, S) = g[S]
  BY SumSolves
<1>2. IsFiniteSet(Rest(S)) /\ Rest(S) \subseteq S
  BY FS_Subset DEF Rest
<1>3. PICK h : Sums(h, f, Rest(S)) /\ SumOf(f, Rest(S)) = h[Rest(S)]
  BY <1>2, SumSolves
<1>4. g[Rest(S)] = h[Rest(S)]
  BY <1>1, <1>2, <1>3, SumsAgree
<1> QED
  BY <1>1, <1>3, <1>4, SumsAt

LEMMA SumTake ==
  ASSUME NEW f, NEW S, IsFiniteSet(S), NEW x \in S, \A y \in S : f[y] \in Int
  PROVE  SumOf(f, S) = f[x] + SumOf(f, S \ {x})
<1> DEFINE C == {s \in SUBSET S : \E y \in s : SumOf(f, s) # f[y] + SumOf(f, s \ {y})}
<1>1. CASE C = {}
  BY <1>1
<1>2. CASE C # {}
  <2>1. PICK s \in C : \A t \in C : t \subseteq s => t = s
    <3>1. C \subseteq SUBSET S
      OBVIOUS
    <3> HIDE DEF C
    <3> QED
      BY <1>2, <3>1, SmallestSubset
  <2>2. PICK y \in s : SumOf(f, s) # f[y] + SumOf(f, s \ {y})
    BY <2>1
  <2> DEFINE p == Pick(s)
             u == s \ {p, y}
  <2>3. p \in s /\ Rest(s) = s \ {p} /\ IsFiniteSet(s) /\ s \subseteq S
    BY <2>1, <2>2, PickRest, FS_Subset DEF Rest
  <2>4. SumOf(f, s) = f[p] + SumOf(f, s \ {p})
    BY <2>3, SumChosen
  <2> HIDE DEF p
  <2>5. p # y
    BY <2>2, <2>4
  <2>6. s \ {p} \notin C /\ s \ {y} \notin C
    BY <2>1, <2>2, <2>3
  <2>7. SumOf(f, s \ {p}) = f[y] + SumOf(f, u)
    <3>1. y \in s \ {p} /\ (s \ {p}) \ {y} = u
      BY <2>2, <2>5
    <3> QED
      BY <2>3, <2>6, <3>1
  <2>8. SumOf(f, s \ {y}) = f[p] + SumOf(f, u)
    <3>1. p \in s \ {y} /\ (s \ {y}) \ {p} = u
      BY <2>3, <2>5
    <3> QED
      BY <2>3, <2>6, <3>1
  <2>9. SumOf(f, u) \in Int /\ f[p] \in Int /\ f[y] \in Int
    BY <2>2, <2>3, FS_Subset, SumInt
  <2> QED
    BY <2>2, <2>4, <2>7, <2>8, <2>9
<1> QED
  BY <1>1, <1>2

LEMMA SumWithout ==
  ASSUME NEW f, NEW S, IsFiniteSet(S), NEW x, \A y \in S : f[y] \in Int
  PROVE  /\ IsFiniteSet(S \ {x}) /\ SumOf(f, S) \in Int
         /\ SumOf(f, S \ {x}) = SumOf(f, S) - (IF x \in S THEN f[x] ELSE 0)
<1>1. IsFiniteSet(S \ {x})
  BY FS_Subset
<1>2. SumOf(f, S \ {x}) \in Int /\ SumOf(f, S) \in Int
  BY <1>1, SumInt
<1>3. CASE x \in S
  <2>1. SumOf(f, S) = f[x] + SumOf(f, S \ {x}) /\ f[x] \in Int
    BY <1>3, SumTake
  <2> QED
    BY <1>1, <1>2, <1>3, <2>1
<1>4. CASE x \notin S
  <2>1. S \ {x} = S
    BY <1>4
  <2>2. SumOf(f, S \ {x}) = SumOf(f, S)
    BY <2>1
  <2> QED
    BY <1>1, <1>2, <1>4, <2>2
<1> QED
  BY <1>3, <1>4

\* A sum when at most one element has come, gone or changed.
Moved(f, S, e, T, x) ==
  /\ SumOf(f, S) \in Int /\ SumOf(e, T) \in Int
  /\ SumOf(e, T) = SumOf(f, S) - (IF x \in S THEN f[x] ELSE 0)
                               + (IF x \in T THEN e[x] ELSE 0)

LEMMA SumMove ==
  ASSUME NEW f, NEW e, NEW S, NEW T, NEW x, IsFiniteSet(S), S \ {x} = T \ {x},
         \A y \in S : f[y] \in Int, \A y \in T : e[y] \in Int,
         \A y \in S \ {x} : e[y] = f[y]
  PROVE  /\ IsFiniteSet(T)
         /\ Moved(f, S, e, T, x)
<1>1. /\ IsFiniteSet(S \ {x}) /\ SumOf(f, S) \in Int
      /\ SumOf(f, S \ {x}) = SumOf(f, S) - (IF x \in S THEN f[x] ELSE 0)
  BY SumWithout
<1>2. IsFiniteSet(T)
  <2>1. IsFiniteSet((T \ {x}) \cup {x})
    BY <1>1, FS_AddElement
  <2>2. T \subseteq (T \ {x}) \cup {x}
    OBVIOUS
  <2> QED
    BY <2>1, <2>2, FS_Subset
<1>3. /\ SumOf(e, T) \in Int
      /\ SumOf(e, T \ {x}) = SumOf(e, T) - (IF x \in T THEN e[x] ELSE 0)
  BY <1>2, SumWithout
<1>4. SumOf(f, S \ {x}) = SumOf(e, T \ {x})
  <2>1. SumOf(f, S \ {x}) = SumOf(e, S \ {x})
    BY <1>1, SumSame
  <2> QED
    BY <2>1
<1>5. (x \in S => f[x] \in Int) /\ (x \in T => e[x] \in Int)
  OBVIOUS
<1> QED
  BY <1>1, <1>2, <1>3, <1>4, <1>5 DEF Moved

LEMMA SumAdd ==
  ASSUME NEW f, NEW S, IsFiniteSet(S), NEW x, x \notin S, f[x] \in Int, \A y \in S : f[y] \in Int
  PROVE  /\ IsFiniteSet(S \cup {x})
         /\ SumOf(f, S) \in Int
         /\ SumOf(f, S \cup {x}) = SumOf(f, S) + f[x]
<1>1. IsFiniteSet(S \cup {x}) /\ x \in S \cup {x} /\ (S \cup {x}) \ {x} = S
      /\ \A y \in S \cup {x} : f[y] \in Int
  BY FS_AddElement
<1>2. SumOf(f, S \cup {x}) = f[x] + SumOf(f, (S \cup {x}) \ {x})
  BY <1>1, SumTake
<1>3. SumOf(f, S) \in Int
  BY SumInt
<1> QED
  <2>1. (S \cup {x}) \ {x} = S
    BY <1>1
  <2>2. SumOf(f, S \cup {x}) = f[x] + SumOf(f, S)
    BY <1>2, <2>1
  <2> QED
    BY <1>1, <1>3, <2>2

\* What is nothing need not be summed.
LEMMA SumNonzero ==
  ASSUME NEW f, NEW S, IsFiniteSet(S), \A x \in S : f[x] \in Int,
         NEW T, T \subseteq S, \A x \in S \ T : f[x] = 0
  PROVE  SumOf(f, S) = SumOf(f, T)
<1> DEFINE C == {u \in SUBSET S : SumOf(f, u) # SumOf(f, u \cap T)}
<1>1. CASE C = {}
  <2>1. S \cap T = T
    OBVIOUS
  <2> QED
    BY <1>1, <2>1
<1>2. CASE C # {}
  <2>1. PICK u \in C : \A t \in C : t \subseteq u => t = u
    <3>1. C \subseteq SUBSET S
      OBVIOUS
    <3> HIDE DEF C
    <3> QED
      BY <1>2, <3>1, SmallestSubset
  <2>2. u \subseteq S /\ SumOf(f, u) # SumOf(f, u \cap T)
    BY <2>1
  <2>3. u # {}
    <3>1. {} \cap T = {}
      OBVIOUS
    <3> QED
      BY <2>2, <3>1
  <2>4. PICK x \in u : TRUE
    BY <2>3
  <2>5. u \ {x} \in SUBSET S /\ u \ {x} \notin C
    BY <2>1, <2>2, <2>4
  <2>6. SumOf(f, u \ {x}) = SumOf(f, (u \ {x}) \cap T)
    BY <2>5
  <2>7. IsFiniteSet(u) /\ IsFiniteSet(u \cap T)
    BY <2>2, FS_Subset
  <2>8. SumOf(f, u) = f[x] + SumOf(f, u \ {x}) /\ SumOf(f, u \ {x}) \in Int /\ f[x] \in Int
    <3>1. \A y \in u : f[y] \in Int
      BY <2>2
    <3>2. SumOf(f, u) = f[x] + SumOf(f, u \ {x})
      BY <2>7, <3>1, SumTake
    <3>3. IsFiniteSet(u \ {x}) /\ \A y \in u \ {x} : f[y] \in Int
      BY <2>7, <3>1, FS_Subset
    <3>4. SumOf(f, u \ {x}) \in Int
      BY <3>3, SumInt
    <3> QED
      BY <2>4, <3>1, <3>2, <3>4
  <2>9. CASE x \in T
    <3>1. x \in u \cap T /\ (u \cap T) \ {x} = (u \ {x}) \cap T /\ \A y \in u \cap T : f[y] \in Int
      BY <2>2, <2>4, <2>9
    <3>2. SumOf(f, u \cap T) = f[x] + SumOf(f, (u \cap T) \ {x})
      BY <2>7, <3>1, SumTake
    <3> QED
      BY <2>2, <2>6, <2>8, <3>1, <3>2
  <2>10. CASE x \notin T
    <3>1. u \cap T = (u \ {x}) \cap T /\ f[x] = 0
      BY <2>2, <2>4, <2>10
    <3>2. SumOf(f, u \cap T) = SumOf(f, (u \ {x}) \cap T)
      BY <3>1
    <3>3. SumOf(f, u) = SumOf(f, u \ {x})
      BY <2>8, <3>1
    <3> QED
      BY <2>2, <2>6, <3>2, <3>3
  <2> QED
    BY <2>9, <2>10
<1> QED
  BY <1>1, <1>2

----------------------------------------------------------------------------
(* Numbers: the least one of a set, and powers.                            *)

\* Induction over the numbers up to n, by the least that fails.
LEMMA LeastNumber ==
  ASSUME NEW n \in Nat, NEW C, C \subseteq 0..n, C # {}
  PROVE  \E k \in C : \A j \in C : k <= j
<1> DEFINE D == {0..k : k \in C}
<1>1. PICK S : S = 0..n /\ IsFiniteSet(S)
  BY FS_Interval
<1>2. D \subseteq SUBSET S /\ D # {}
  <2>1. \A k \in C : 0..k \subseteq S
    BY <1>1
  <2> QED
    BY <2>1
<1> HIDE DEF D
<1>3. PICK s \in D : \A t \in D : t \subseteq s => t = s
  <2>1. IsFiniteSet(S) /\ D \subseteq SUBSET S /\ D # {}
    BY <1>1, <1>2
  <2> QED
    BY <2>1, SmallestSubset
<1>4. PICK k \in C : s = 0..k
  BY DEF D
<1>5. ASSUME NEW j \in C, ~(k <= j) PROVE FALSE
  <2>1. 0..j \subseteq 0..k /\ k \in 0..k /\ k \notin 0..j
    BY <1>5
  <2>2. 0..j \in D
    BY DEF D
  <2> QED
    BY <1>3, <1>4, <2>1, <2>2
<1> QED
  BY <1>5

\* The equation of the powers of x up to the n-th.
PowerEq(p, x, n) == p = [i \in 0..n |-> IF i = 0 THEN 1 ELSE x * p[i - 1]]

LEMMA PowerEqAt ==
  ASSUME NEW x, NEW n \in Nat, NEW p, PowerEq(p, x, n), NEW i \in 0..n
  PROVE  /\ p[0] = 1
         /\ i > 0 => p[i] = x * p[i - 1]
<1>1. p = [j \in 0..n |-> IF j = 0 THEN 1 ELSE x * p[j - 1]]
  BY DEF PowerEq
<1>2. 0 \in 0..n
  OBVIOUS
<1> QED
  BY <1>1, <1>2

LEMMA PowersExist ==
  ASSUME NEW x, NEW n \in Nat
  PROVE  \E p : PowerEq(p, x, n)
<1> DEFINE C == {k \in 0..n : ~ \E p : PowerEq(p, x, k)}
<1>1. CASE C = {}
  <2>1. n \in 0..n
    OBVIOUS
  <2> QED
    BY <1>1, <2>1
<1>2. CASE C # {}
  <2>1. PICK k \in C : \A j \in C : k <= j
    <3>1. C \subseteq 0..n
      OBVIOUS
    <3> HIDE DEF C
    <3> QED
      BY <1>2, <3>1, LeastNumber
  <2>2. k \in 0..n /\ ~ \E p : PowerEq(p, x, k)
    BY <2>1
  <2>3. CASE k = 0
    <3>1. PICK p : p = [i \in 0..k |-> 1]
      OBVIOUS
    <3>2. [i \in 0..k |-> IF i = 0 THEN 1 ELSE x * p[i - 1]] = [i \in 0..k |-> 1]
      BY <2>3
    <3>3. PowerEq(p, x, k)
      BY <3>1, <3>2 DEF PowerEq
    <3> QED
      BY <2>2, <3>3
  <2>4. CASE k > 0
    <3>1. k - 1 \in 0..n /\ k - 1 \notin C
      BY <2>1, <2>2, <2>4
    <3>2. PICK p : PowerEq(p, x, k - 1)
      BY <3>1
    <3>3. PICK q : q = [i \in 0..k |-> IF i = k THEN x * p[k - 1] ELSE p[i]]
      OBVIOUS
    <3>4. ASSUME NEW i \in 0..k
          PROVE  q[i] = IF i = 0 THEN 1 ELSE x * q[i - 1]
      <4>1. CASE i = k
        <5>1. q[i] = x * p[k - 1] /\ q[i - 1] = p[k - 1]
          BY <2>2, <2>4, <3>3, <4>1
        <5> QED
          BY <2>4, <4>1, <5>1
      <4>2. CASE i # k
        <5>1. i \in 0..(k - 1) /\ k - 1 \in Nat
          BY <2>2, <2>4, <4>2
        <5>2. q[i] = p[i] /\ (i > 0 => q[i - 1] = p[i - 1])
          BY <2>2, <3>3, <4>2, <5>1
        <5>3. p[0] = 1 /\ (i > 0 => p[i] = x * p[i - 1])
          BY <3>2, <5>1, PowerEqAt
        <5> QED
          BY <5>1, <5>2, <5>3
      <4> QED
        BY <4>1, <4>2
    <3>5. PowerEq(q, x, k)
      <4>1. q = [i \in 0..k |-> q[i]]
        BY <3>3
      <4>2. [i \in 0..k |-> q[i]] = [i \in 0..k |-> IF i = 0 THEN 1 ELSE x * q[i - 1]]
        BY <3>4
      <4> QED
        BY <4>1, <4>2 DEF PowerEq
    <3> QED
      BY <2>2, <3>5
  <2> QED
    BY <2>2, <2>3, <2>4
<1> QED
  BY <1>1, <1>2

LEMMA PowerSolves ==
  ASSUME NEW x, NEW n \in Nat
  PROVE  \E p : PowerEq(p, x, n) /\ Power(x, n) = p[n]
<1>1. Power(x, n) = (CHOOSE p : PowerEq(p, x, n))[n]
  BY DEF Power, PowerEq
<1>2. PowerEq(CHOOSE p : PowerEq(p, x, n), x, n)
  BY PowersExist
<1> QED
  BY <1>1, <1>2

LEMMA PowersAgree ==
  ASSUME NEW x, NEW n \in Nat, NEW m \in Nat, n <= m,
         NEW p, PowerEq(p, x, n), NEW q, PowerEq(q, x, m)
  PROVE  p[n] = q[n]
<1> DEFINE C == {k \in 0..n : p[k] # q[k]}
<1>1. CASE C = {}
  <2>1. n \in 0..n
    OBVIOUS
  <2> QED
    BY <1>1, <2>1
<1>2. CASE C # {}
  <2>1. PICK k \in C : \A j \in C : k <= j
    <3>1. C \subseteq 0..n
      OBVIOUS
    <3> HIDE DEF C
    <3> QED
      BY <1>2, <3>1, LeastNumber
  <2>2. k \in 0..n /\ k \in 0..m /\ p[k] # q[k]
    BY <2>1
  <2>3. /\ p[0] = 1 /\ (k > 0 => p[k] = x * p[k - 1])
        /\ q[0] = 1 /\ (k > 0 => q[k] = x * q[k - 1])
    <3>1. p[0] = 1 /\ (k > 0 => p[k] = x * p[k - 1])
      BY <2>2, PowerEqAt
    <3>2. q[0] = 1 /\ (k > 0 => q[k] = x * q[k - 1])
      BY <2>2, PowerEqAt
    <3> QED
      BY <3>1, <3>2
  <2>4. k > 0
    BY <2>2, <2>3
  <2>5. k - 1 \in 0..n /\ k - 1 \notin C
    BY <2>1, <2>2, <2>4
  <2> QED
    BY <2>2, <2>3, <2>4, <2>5
<1> QED
  BY <1>1, <1>2

LEMMA PowerStep ==
  ASSUME NEW x, NEW n \in Nat
  PROVE  Power(x, 0) = 1 /\ Power(x, n + 1) = x * Power(x, n)
<1>1. PICK o : PowerEq(o, x, 0) /\ Power(x, 0) = o[0]
  BY PowerSolves
<1>2. o[0] = 1
  <2>1. 0 \in 0..0
    OBVIOUS
  <2> QED
    BY <1>1, <2>1, PowerEqAt
<1>3. PICK p : PowerEq(p, x, n) /\ Power(x, n) = p[n]
  BY PowerSolves
<1>4. PICK m \in Nat : m = n + 1 /\ n <= m /\ m \in 0..m /\ m > 0 /\ m - 1 = n
  OBVIOUS
<1>5. PICK q : PowerEq(q, x, m) /\ Power(x, m) = q[m]
  BY <1>4, PowerSolves
<1>6. p[n] = q[n]
  BY <1>3, <1>4, <1>5, PowersAgree
<1>7. q[m] = x * q[m - 1]
  <2>1. m \in 0..m /\ m > 0 /\ PowerEq(q, x, m)
    BY <1>4, <1>5
  <2> QED
    BY <2>1, PowerEqAt
<1> QED
  BY <1>1, <1>2, <1>3, <1>4, <1>5, <1>6, <1>7

LEMMA PowerType ==
  ASSUME NEW x \in Nat, NEW n \in Nat
  PROVE  Power(x, n) \in Nat
<1> DEFINE C == {k \in 0..n : Power(x, k) \notin Nat}
<1>1. CASE C = {}
  <2>1. n \in 0..n
    OBVIOUS
  <2> QED
    BY <1>1, <2>1
<1>2. CASE C # {}
  <2>1. PICK k \in C : \A j \in C : k <= j
    <3>1. C \subseteq 0..n
      OBVIOUS
    <3> HIDE DEF C
    <3> QED
      BY <1>2, <3>1, LeastNumber
  <2>2. k \in 0..n /\ Power(x, k) \notin Nat
    BY <2>1
  <2>3. k # 0
    <3>1. Power(x, 0) = 1
      BY PowerStep
    <3> QED
      BY <2>2, <3>1
  <2>4. k - 1 \in 0..n /\ k - 1 \in Nat /\ k - 1 \notin C /\ (k - 1) + 1 = k
    BY <2>1, <2>2, <2>3
  <2>5. Power(x, k - 1) \in Nat
    BY <2>4
  <2>6. Power(x, (k - 1) + 1) = x * Power(x, k - 1)
    BY <2>4, PowerStep
  <2>7. x * Power(x, k - 1) \in Nat
    BY <2>5
  <2> QED
    BY <2>2, <2>4, <2>6, <2>7
<1> QED
  BY <1>1, <1>2

----------------------------------------------------------------------------
(* The won cost basis.                                                     *)

\* A purchase that is modelled has averages that are whole.
LEMMA ExactDivision ==
  ASSUME NEW a \in Nat, NEW b \in Nat, b > 0, a % b = 0
  PROVE  a \div b \in Nat /\ b * (a \div b) = a
OBVIOUS

\* n shares at b, bought to the shares of h at a, cost in all what all the
\* shares cost at their blended average.
LEMMA BlendedIsExact ==
  ASSUME NEW h, h.shares \in Nat, NEW n \in Nat, n > 0, NEW a \in Nat, NEW b \in Nat,
         Whole(h, n, a, b)
  PROVE  /\ Blended(h, n, a, b) \in Nat
         /\ (h.shares + n) * Blended(h, n, a, b) = h.shares * a + n * b
<1> DEFINE total == h.shares * a + n * b
           all == h.shares + n
<1>1. total \in Nat /\ all \in Nat /\ all > 0
  OBVIOUS
<1>2. total % all = 0 /\ Blended(h, n, a, b) = total \div all
  BY DEF Whole, Blended
<1> HIDE DEF total, all
<1>3. total \div all \in Nat /\ all * (total \div all) = total
  BY <1>1, <1>2, ExactDivision
<1> QED
  BY <1>2, <1>3 DEF total, all

----------------------------------------------------------------------------
\* The inductive invariant: the rows are well formed, and what can be sold has
\* the basis that was paid.
PaidInv ==
  /\ holding \in [Stocks -> Holding]
  /\ paid \in [Foreign -> Int]
  /\ SellableAsPaid

\* A basis that takes dollars for won implies the rate 1, which the check
\* refuses; one that is not known is 0, which it refuses too.
LEMMA InitPaid == TaxInit => PaidInv
<1> SUFFICES ASSUME TaxInit PROVE PaidInv
  OBVIOUS
<1>1. PICK opening \in [Stocks -> AtFirst], rate \in [Foreign -> MarketRates],
           basis \in [Foreign -> {"bought", "none", "dollars"}] :
        /\ holding = [h \in Stocks |->
             IF h \in Domestic \/ basis[h] = "none" THEN opening[h]
             ELSE [opening[h] EXCEPT
                     !.krw = opening[h].avg * (IF basis[h] = "bought" THEN rate[h] ELSE 1)]]
        /\ paid = [h \in Foreign |-> opening[h].shares * opening[h].avg * rate[h]]
  BY DEF TaxInit
<1>2. ASSUME NEW h \in Foreign
      PROVE  h \in Stocks \ Domestic /\ rate[h] \in Nat
  BY TaxAssumption DEF Stocks, MarketRates
<1>3. ASSUME NEW h \in Stocks
      PROVE  /\ opening[h] \in Holding
             /\ opening[h].krw = 0 /\ opening[h].avg \in Nat
             /\ opening[h].shares \in Nat
  BY TaxAssumption DEF AtFirst, Holding
<1>4. holding \in [Stocks -> Holding]
  <2>1. ASSUME NEW h \in Stocks PROVE holding[h] \in Holding
    <3>1. CASE h \in Domestic \/ basis[h] = "none"
      BY <1>1, <1>3, <3>1
    <3>2. CASE h \in Foreign \ Domestic /\ basis[h] # "none"
      <4> DEFINE k == opening[h].avg * (IF basis[h] = "bought" THEN rate[h] ELSE 1)
      <4>1. k \in Nat
        BY <1>2, <1>3, <3>2
      <4>2. holding[h] = [opening[h] EXCEPT !.krw = k]
        BY <1>1, <3>2
      <4> HIDE DEF k
      <4> QED
        BY <1>3, <4>1, <4>2 DEF Holding
    <3> QED
      BY <3>1, <3>2 DEF Stocks
  <2> QED
    BY <1>1, <2>1
<1>5. paid \in [Foreign -> Int]
  <2>1. ASSUME NEW h \in Foreign
        PROVE  opening[h].shares * opening[h].avg * rate[h] \in Int
    BY <1>2, <1>3
  <2> QED
    BY <1>1, <2>1
<1>6. ASSUME NEW h \in Foreign, ValidateKRWCostBasis(holding[h])
      PROVE  holding[h].shares * holding[h].krw = paid[h]
  <2> DEFINE s == opening[h].shares
             a == opening[h].avg
  <2>1. s \in Nat /\ a \in Nat /\ rate[h] \in Nat /\ opening[h].krw = 0 /\ h \notin Domestic
    BY <1>2, <1>3
  <2>2. holding[h].krw > 0 /\ holding[h].avg > 0 /\ MinRate * holding[h].avg <= holding[h].krw
    BY <1>6 DEF ValidateKRWCostBasis
  <2>3. CASE basis[h] = "bought"
    <3>1. holding[h].shares = s /\ holding[h].krw = a * rate[h]
      BY <1>1, <1>2, <1>3, <2>3 DEF AtFirst
    <3> QED
      BY <1>1, <2>1, <3>1
  <2>4. CASE basis[h] = "none"
    BY <1>1, <1>2, <2>1, <2>2, <2>4
  <2>5. CASE basis[h] = "dollars"
    <3>1. holding[h].avg = a /\ holding[h].krw = a
      BY <1>1, <1>2, <1>3, <2>1, <2>5 DEF AtFirst
    <3> QED
      BY <2>1, <2>2, <3>1, TaxAssumption
  <2> QED
    BY <2>3, <2>4, <2>5
<1> QED
  BY <1>4, <1>5, <1>6 DEF PaidInv, SellableAsPaid

----------------------------------------------------------------------------
\* A sale takes from what was paid what the shares sold cost.
LEMMA SellPaid ==
  ASSUME PaidInv, NEW h \in Stocks, NEW n \in 1..MaxShares, NEW p \in Prices,
         NEW rate \in Rates, SellStock(h, n, p, rate)
  PROVE  PaidInv'
<1> DEFINE x == holding[h]
<1>1. x \in Holding /\ n \in Nat /\ n <= x.shares /\ MaxShares \in Nat
  BY TaxAssumption DEF PaidInv, SellStock
<1>2. holding' = [holding EXCEPT ![h] = [x EXCEPT !.shares = x.shares - n]]
  BY DEF SellStock, PaidInv
<1>3. [x EXCEPT !.shares = x.shares - n] \in Holding
  BY <1>1 DEF Holding
<1>4. holding' \in [Stocks -> Holding]
  BY <1>2, <1>3 DEF PaidInv
<1>5. /\ h \in Foreign => paid' = [paid EXCEPT ![h] = @ - n * x.krw]
      /\ h \notin Foreign => paid' = paid
  BY DEF SellStock
<1>6. paid' \in [Foreign -> Int]
  <2>1. n * x.krw \in Int
    BY <1>1 DEF Holding
  <2> QED
    BY <1>5, <2>1 DEF PaidInv
<1>7. ASSUME NEW f \in Foreign, ValidateKRWCostBasis(holding'[f])
      PROVE  holding'[f].shares * holding'[f].krw = paid'[f]
  <2>1. CASE f = h
    <3>1. holding'[h].shares = x.shares - n /\ holding'[h].krw = x.krw /\ holding'[h].avg = x.avg
      BY <1>1, <1>2, <1>3 DEF Holding, PaidInv
    <3>2. x.shares * x.krw = paid[h]
      BY <1>7, <2>1, <3>1 DEF PaidInv, SellableAsPaid, ValidateKRWCostBasis
    <3>3. paid'[h] = paid[h] - n * x.krw
      BY <1>5, <2>1 DEF PaidInv
    <3>4. (x.shares - n) * x.krw = x.shares * x.krw - n * x.krw
      BY <1>1 DEF Holding
    <3> QED
      BY <2>1, <3>1, <3>2, <3>3, <3>4
  <2>2. CASE f # h
    BY <1>2, <1>5, <1>7, <2>2 DEF PaidInv, SellableAsPaid, Stocks
  <2> QED
    BY <2>1, <2>2
<1> QED
  BY <1>4, <1>6, <1>7 DEF PaidInv, SellableAsPaid, ValidateKRWCostBasis

\* A purchase adds its price to a basis that is good, and leaves one that is
\* not unknown: the basis of some of the shares only never comes to pass.
LEMMA BuyForeignPaid ==
  ASSUME PaidInv, NEW h \in Foreign, NEW n \in 1..MaxShares, NEW p \in Prices,
         NEW rate \in Rates, BuyForeign(h, n, p, rate)
  PROVE  PaidInv'
<1> DEFINE x == holding[h]
           avg == Blended(x, n, x.avg, p)
           krw == BlendKRWCostBasis(x, n, p, rate)
           new == Bought(x, n, avg, krw)
<1>1. /\ x \in Holding /\ h \in Stocks
      /\ n \in Nat /\ n > 0 /\ p \in Nat /\ rate \in Nat /\ MaxShares \in Nat
      /\ p * rate \in Nat /\ n * p * rate \in Int
  BY TaxAssumption DEF PaidInv, Stocks
<1>2. x.shares > 0 /\ x.shares + n <= MaxShares /\ x.shares \in Nat
      /\ x.avg \in Nat /\ x.krw \in Nat
  BY <1>1 DEF BuyForeign, Holding
<1>3. avg \in Nat
  BY <1>1, <1>2, BlendedIsExact DEF BuyForeign
<1>4. /\ Blended(x, n, x.krw, p * rate) \in Nat
      /\ (x.shares + n) * Blended(x, n, x.krw, p * rate) = x.shares * x.krw + n * (p * rate)
  BY <1>1, <1>2, BlendedIsExact DEF BuyForeign
<1>5. krw \in Nat
  BY <1>4 DEF BlendKRWCostBasis
<1>6. holding' = [holding EXCEPT ![h] = new]
  BY DEF BuyForeign, PaidInv
<1>7. paid' = [paid EXCEPT ![h] = paid[h] + n * p * rate]
  BY DEF BuyForeign
<1>8. new \in Holding /\ new.shares = x.shares + n /\ new.krw = krw
  <2> HIDE DEF avg, krw
  <2> QED
    BY <1>1, <1>2, <1>3, <1>5 DEF Bought, Holding
<1> HIDE DEF avg, new
<1>9. holding' \in [Stocks -> Holding] /\ paid' \in [Foreign -> Int]
  BY <1>1, <1>6, <1>7, <1>8 DEF PaidInv
<1>10. ASSUME NEW f \in Foreign, ValidateKRWCostBasis(holding'[f])
       PROVE  holding'[f].shares * holding'[f].krw = paid'[f]
  <2>1. CASE f = h
    <3>1. holding'[h] = new /\ new.krw > 0
      BY <1>1, <1>6, <1>10, <2>1 DEF PaidInv, ValidateKRWCostBasis
    <3>2. ValidateKRWCostBasis(x) /\ krw = Blended(x, n, x.krw, p * rate)
      BY <1>2, <1>8, <3>1 DEF BlendKRWCostBasis
    <3>3. x.shares * x.krw = paid[h]
      BY <3>2 DEF PaidInv, SellableAsPaid
    <3>4. paid'[h] = paid[h] + n * p * rate
      BY <1>7 DEF PaidInv
    <3>5. n * (p * rate) = n * p * rate
      BY <1>1
    <3> QED
      BY <1>4, <1>8, <2>1, <3>1, <3>2, <3>3, <3>4, <3>5
  <2>2. CASE f # h
    BY <1>6, <1>7, <1>10, <2>2 DEF PaidInv, SellableAsPaid, Stocks
  <2> QED
    BY <2>1, <2>2
<1> QED
  BY <1>9, <1>10 DEF PaidInv, SellableAsPaid, ValidateKRWCostBasis

LEMMA BuyDomesticPaid ==
  ASSUME PaidInv, NEW h \in Domestic, NEW n \in 1..MaxShares, NEW p \in Prices,
         BuyDomestic(h, n, p)
  PROVE  PaidInv'
<1> DEFINE x == holding[h]
           avg == Blended(x, n, x.avg, p)
           new == Bought(x, n, avg, avg)
<1>1. /\ x \in Holding /\ h \in Stocks \ Foreign
      /\ n \in Nat /\ n > 0 /\ p \in Nat /\ MaxShares \in Nat
  BY TaxAssumption DEF PaidInv, Stocks
<1>2. x.shares + n <= MaxShares /\ x.shares \in Nat /\ x.avg \in Nat
  BY <1>1 DEF BuyDomestic, Holding
<1>3. avg \in Nat
  BY <1>1, <1>2, BlendedIsExact DEF BuyDomestic
<1>4. holding' = [holding EXCEPT ![h] = new] /\ paid' = paid
  BY DEF BuyDomestic, PaidInv
<1>5. new \in Holding
  <2> HIDE DEF avg
  <2> QED
    BY <1>1, <1>2, <1>3 DEF Bought, Holding
<1> HIDE DEF avg, new
<1> QED
  BY <1>1, <1>4, <1>5 DEF PaidInv, SellableAsPaid, Stocks, ValidateKRWCostBasis

LEMMA NextPaid == PaidInv /\ [TaxNext]_taxVars => PaidInv'
<1> SUFFICES ASSUME PaidInv, [TaxNext]_taxVars PROVE PaidInv'
  OBVIOUS
<1>1. ASSUME NEW n \in 1..MaxShares, NEW p \in Prices, NEW h \in Stocks,
             NEW rate \in Rates, SellStock(h, n, p, rate)
      PROVE  PaidInv'
  BY <1>1, SellPaid
<1>2. ASSUME NEW n \in 1..MaxShares, NEW p \in Prices, NEW h \in Foreign,
             NEW rate \in Rates, BuyForeign(h, n, p, rate)
      PROVE  PaidInv'
  BY <1>2, BuyForeignPaid
<1>3. ASSUME NEW n \in 1..MaxShares, NEW p \in Prices, NEW h \in Domestic,
             BuyDomestic(h, n, p)
      PROVE  PaidInv'
  BY <1>3, BuyDomesticPaid
<1>4. CASE UNCHANGED <<holding, paid>>
  BY <1>4 DEF PaidInv, SellableAsPaid, ValidateKRWCostBasis
<1>5. NewYear \/ NewYearInUTC \/ UNCHANGED taxVars => UNCHANGED <<holding, paid>>
  BY DEF NewYear, NewYearInUTC, taxVars
<1> QED
  BY <1>1, <1>2, <1>3, <1>4, <1>5 DEF TaxNext

\* What a foreign holding is sold against is what its shares cost in won, after
\* any number of purchases and sales: no sale is taxed on an unknown, damaged
\* or diluted basis.
THEOREM BasisIsPaid == TaxSpec => []SellableAsPaid
<1>1. PaidInv => SellableAsPaid
  BY DEF PaidInv
<1> QED
  BY <1>1, InitPaid, NextPaid, PTL DEF TaxSpec

----------------------------------------------------------------------------
(* A sale at the prices that portfolio used.                               *)

\* A couple has finitely many holdings.
Finite == IsFiniteSet(People) /\ IsFiniteSet(Foreign) /\ IsFiniteSet(Domestic)

GainsInv ==
  /\ PaidInv
  /\ gains \in [Years -> [People -> [Stocks -> Int]]]
  /\ year \in Years

LEMMA InitGains == TaxInit => GainsInv
<1> SUFFICES ASSUME TaxInit PROVE GainsInv
  OBVIOUS
<1>1. PaidInv
  BY InitPaid
<1>2. /\ gains = [y \in Years |-> [u \in People |-> [h \in Stocks |-> 0]]]
      /\ year = 0
  BY DEF TaxInit
<1> QED
  BY <1>1, <1>2, TaxAssumption DEF GainsInv, Years

\* The gain of a sale, and the book that it enters.
Gain(h, n, p, rate) ==
  IF h \in Foreign THEN (p * rate - holding[h].krw) * n ELSE (p - holding[h].avg) * n

Dated == IF early THEN year - 1 ELSE year

LEMMA SaleGain ==
  ASSUME GainsInv, NEW h \in Stocks, NEW n \in 1..MaxShares, NEW p \in Prices,
         NEW rate \in Rates, SellStock(h, n, p, rate)
  PROVE  /\ Gain(h, n, p, rate) \in Int
         /\ gains' = [gains EXCEPT ![Dated][holding[h].user][h] = @ + Gain(h, n, p, rate)]
<1>1. holding[h] \in Holding /\ p \in Nat /\ rate \in Nat /\ n \in Nat
  BY TaxAssumption DEF GainsInv, PaidInv
<1>2. holding[h].krw \in Nat /\ holding[h].avg \in Nat
  BY <1>1 DEF Holding
<1>3. (p * rate - holding[h].krw) * n \in Int /\ (p - holding[h].avg) * n \in Int
  BY <1>1, <1>2
<1> QED
  BY <1>3 DEF Gain, Dated, SellStock

LEMMA NextGains == GainsInv /\ [TaxNext]_taxVars => GainsInv'
<1> SUFFICES ASSUME GainsInv, [TaxNext]_taxVars PROVE GainsInv'
  OBVIOUS
<1>1. PaidInv'
  BY NextPaid DEF GainsInv
<1>2. ASSUME NEW n \in 1..MaxShares, NEW p \in Prices, NEW h \in Stocks,
             NEW rate \in Rates, SellStock(h, n, p, rate)
      PROVE  GainsInv'
  <2>1. PICK g \in Int :
          gains' = [gains EXCEPT ![Dated][holding[h].user][h] = @ + g]
    BY <1>2, SaleGain
  <2>2. gains' \in [Years -> [People -> [Stocks -> Int]]]
    <3>1. holding[h].user \in People
      BY DEF GainsInv, PaidInv, Holding
    <3>2. PICK d, u : d = Dated /\ u = holding[h].user
      OBVIOUS
    <3>3. CASE d \in Years
      <4>1. gains[d][u][h] + g \in Int
        BY <3>1, <3>2, <3>3 DEF GainsInv
      <4>2. gains' = [gains EXCEPT ![d] = [gains[d] EXCEPT ![u] =
                        [gains[d][u] EXCEPT ![h] = gains[d][u][h] + g]]]
        BY <2>1, <3>1, <3>2, <3>3 DEF GainsInv
      <4> QED
        BY <3>1, <3>2, <3>3, <4>1, <4>2 DEF GainsInv
    <3>4. CASE d \notin Years
      BY <2>1, <3>2, <3>4 DEF GainsInv
    <3> QED
      BY <3>3, <3>4
  <2> QED
    BY <1>1, <1>2, <2>2 DEF GainsInv, SellStock
<1>3. ASSUME NEW n \in 1..MaxShares, NEW p \in Prices,
             \/ \E h \in Foreign, rate \in Rates : BuyForeign(h, n, p, rate)
             \/ \E h \in Domestic : BuyDomestic(h, n, p)
      PROVE  GainsInv'
  BY <1>1, <1>3 DEF GainsInv, BuyForeign, BuyDomestic
<1>4. CASE NewYear
  BY <1>1, <1>4, TaxAssumption DEF GainsInv, NewYear, Years
<1>5. CASE NewYearInUTC \/ UNCHANGED taxVars
  BY <1>1, <1>5 DEF GainsInv, NewYearInUTC, taxVars
<1> QED
  BY <1>2, <1>3, <1>4, <1>5 DEF TaxNext

LEMMA MinType ==
  ASSUME NEW a \in Int, NEW b \in Int
  PROVE  Min({a, b}) \in Int /\ Max({a, b}) \in Int
<1>1. \E x \in {a, b} : \A y \in {a, b} : x <= y
  OBVIOUS
<1>2. \E x \in {a, b} : \A y \in {a, b} : x >= y
  OBVIOUS
<1> QED
  BY <1>1, <1>2 DEF Min, Max

LEMMA TaxType ==
  ASSUME NEW gain \in Int
  PROVE  CapitalGainsTax(gain) \in Int
<1> DEFINE deduction == IF gain > 0 THEN Min({gain, Deduction}) ELSE 0
<1>1. Deduction \in Int /\ Rate \in Int
  BY TaxAssumption
<1>2. deduction \in Int
  BY <1>1, MinType
<1>3. CapitalGainsTax(gain) = Max({0, gain - deduction}) * Rate
  BY DEF CapitalGainsTax
<1> HIDE DEF deduction
<1>4. 0 \in Int /\ gain - deduction \in Int
  BY <1>2
<1>5. Max({0, gain - deduction}) \in Int
  BY <1>4, MinType
<1> QED
  BY <1>1, <1>3, <1>5

\* Selling n shares of h, of person u, for g more than they cost.
Sale(h, n, m, u, g) ==
  /\ u = holding[h].user
  /\ g = (m.price[h] * m.fx - holding[h].krw) * n
  /\ ~early
  /\ n <= holding[h].shares
  /\ ValidateKRWCostBasis(holding[h])
  /\ gains' = [gains EXCEPT ![year][u][h] = @ + g]
  /\ holding' = [holding EXCEPT ![h].shares = @ - n]
  /\ year' = year

LEMMA SaleTypes ==
  ASSUME GainsInv, NEW m \in Market, NEW h \in Foreign, NEW n \in 1..MaxShares
  PROVE  /\ h \in Stocks /\ n \in Nat /\ n > 0
         /\ m.price[h] \in Nat /\ m.fx \in Nat
         /\ holding[h] \in Holding /\ holding[h].user \in People
         /\ holding[h].shares \in Nat /\ holding[h].krw \in Nat /\ holding[h].avg \in Nat
         /\ year \in Years
<1>1. m.price \in [Foreign -> Prices] /\ m.fx \in Rates
  BY DEF Market, MarketRates
<1>2. h \in Stocks
  BY DEF Stocks
<1>3. holding[h] \in Holding
  BY <1>2 DEF GainsInv, PaidInv
<1>4. MaxShares \in Nat
  BY TaxAssumption
<1>5. m.price[h] \in Nat /\ m.fx \in Nat
  BY <1>1, TaxAssumption
<1>6. year \in Years
  BY DEF GainsInv
<1>7. n \in Nat /\ n > 0 /\ 0..MaxShares \subseteq Nat
  BY <1>4
<1> QED
  BY <1>2, <1>3, <1>5, <1>6, <1>7 DEF Holding

LEMMA SaleIs ==
  ASSUME GainsInv, NEW m \in Market, NEW h \in Foreign, NEW n \in 1..MaxShares,
         SellStock(h, n, m.price[h], m.fx), ~early
  PROVE  \E u \in People, g \in Int : Sale(h, n, m, u, g)
<1>1. /\ h \in Stocks /\ n \in Nat /\ n > 0
      /\ m.price[h] \in Nat /\ m.fx \in Nat
      /\ holding[h] \in Holding /\ holding[h].user \in People
      /\ holding[h].shares \in Nat /\ holding[h].krw \in Nat /\ holding[h].avg \in Nat
      /\ year \in Years
  BY SaleTypes
<1>2. PICK g : g = (m.price[h] * m.fx - holding[h].krw) * n
  OBVIOUS
<1>3. g \in Int
  BY <1>1, <1>2
<1>4. Sale(h, n, m, holding[h].user, g)
  BY <1>1, <1>2 DEF Sale, SellStock
<1> QED
  BY <1>1, <1>3, <1>4

\* The gains of the year: the seller's grow by the gain of the sale.
LEMMA SaleGains ==
  ASSUME Finite, GainsInv, NEW m \in Market, NEW h \in Foreign, NEW n \in 1..MaxShares,
         NEW u \in People, NEW g \in Int, Sale(h, n, m, u, g)
  PROVE  /\ \A y \in Years, w \in People : y # year \/ w # u =>
              AnnualGains(y, w)' = AnnualGains(y, w)
         /\ AnnualGains(year, u) \in Int
         /\ SumOf(gains'[year][u], Stocks) = AnnualGains(year, u) + g
<1>1. h \in Stocks /\ year \in Years
  BY SaleTypes
<1>2. gains \in [Years -> [People -> [Stocks -> Int]]]
  BY DEF GainsInv
<1>3. PICK d : d = year
  OBVIOUS
<1>4. gains' = [gains EXCEPT ![d] = [gains[d] EXCEPT ![u] =
                  [gains[d][u] EXCEPT ![h] = gains[d][u][h] + g]]]
  BY <1>1, <1>2, <1>3 DEF Sale
<1>5. PICK f, e : f = gains[d][u] /\ e = gains'[d][u]
  OBVIOUS
<1>6. /\ f \in [Stocks -> Int] /\ e = [f EXCEPT ![h] = f[h] + g] /\ f[h] + g \in Int
  BY <1>1, <1>2, <1>3, <1>4, <1>5
<1>7. IsFiniteSet(Stocks)
  BY FS_Union DEF Finite, Stocks
<1>8. Moved(f, Stocks, e, Stocks, h)
  BY <1>1, <1>6, <1>7, SumMove
<1>9. SumOf(f, Stocks) \in Int /\ SumOf(e, Stocks) = SumOf(f, Stocks) + g
  BY <1>1, <1>6, <1>8 DEF Moved
<1>10. ASSUME NEW y \in Years, NEW w \in People, y # d \/ w # u
       PROVE  AnnualGains(y, w)' = AnnualGains(y, w)
  <2>1. gains'[y][w] = gains[y][w]
    BY <1>1, <1>2, <1>3, <1>4, <1>10
  <2> QED
    BY <2>1 DEF AnnualGains
<1> QED
  BY <1>3, <1>5, <1>9, <1>10 DEF AnnualGains

LEMMA Distributes ==
  \A a, b, k \in Int : a * (b - k) = a * b - a * k
OBVIOUS

\* What the holdings of the seller would still gain: less by the same amount.
LEMMA SaleUnrealized ==
  ASSUME Finite, GainsInv, NEW m \in Market, NEW h \in Foreign, NEW n \in 1..MaxShares,
         NEW u \in People, NEW g \in Int, Sale(h, n, m, u, g)
  PROVE  /\ \A w \in People \ {u} :
              Unrealized(m, w)' = Unrealized(m, w) /\ ForeignOf(w)' = ForeignOf(w)
         /\ ForeignOf(u) # {}
         /\ Unrealized(m, u) \in Int /\ Unrealized(m, u)' = Unrealized(m, u) - g
<1> DEFINE x == holding[h]
           worth == m.price[h] * m.fx
<1>1. /\ h \in Stocks /\ n \in Nat /\ n > 0
      /\ m.price[h] \in Nat /\ m.fx \in Nat
      /\ holding[h] \in Holding /\ holding[h].user \in People
      /\ x.shares \in Nat /\ x.krw \in Nat /\ x.avg \in Nat
  BY SaleTypes
<1>2. /\ holding \in [Stocks -> Holding]
      /\ holding' = [holding EXCEPT ![h] = [x EXCEPT !.shares = x.shares - n]]
  BY <1>1 DEF Sale, GainsInv, PaidInv
<1>3. /\ \A k \in Stocks \ {h} : holding'[k] = holding[k]
      /\ holding'[h] = [x EXCEPT !.shares = x.shares - n]
  BY <1>1, <1>2
<1>4. /\ holding'[h].user = u /\ holding'[h].shares = x.shares - n
      /\ holding'[h].krw = x.krw /\ holding'[h].avg = x.avg
  BY <1>1, <1>3 DEF Sale, Holding
<1>5. ValidateKRWCostBasis(x) /\ ValidateKRWCostBasis(holding'[h]) /\ n <= x.shares
      /\ x.user = u
  BY <1>4 DEF Sale, ValidateKRWCostBasis
<1>6. /\ ProfitLossKRW(h, m) = x.shares * m.price[h] * m.fx - x.shares * x.krw
      /\ ProfitLossKRW(h, m)' = (x.shares - n) * m.price[h] * m.fx - (x.shares - n) * x.krw
  BY <1>4, <1>5 DEF ProfitLossKRW, KRWCostBasis
<1>7. worth \in Nat /\ g = (worth - x.krw) * n
  BY <1>1 DEF Sale
<1>8. PICK a : a = x.shares /\ a \in Nat /\ n <= a
  BY <1>1, <1>5
<1>9. /\ ProfitLossKRW(h, m) = a * (worth - x.krw)
      /\ ProfitLossKRW(h, m)' = (a - n) * (worth - x.krw)
      /\ a * (worth - x.krw) \in Int /\ (a - n) * (worth - x.krw) \in Int
      /\ (a - n) * (worth - x.krw) = a * (worth - x.krw) - g
      /\ a = n => (a - n) * (worth - x.krw) = 0
  <2>1. /\ a * m.price[h] * m.fx = a * worth
        /\ (a - n) * m.price[h] * m.fx = (a - n) * worth
    BY <1>1, <1>8
  <2> HIDE DEF worth
  <2>2. PICK c \in Int : c = worth - x.krw
    BY <1>1, <1>7
  <2>3. a * worth - a * x.krw = a * c /\ (a - n) * worth - (a - n) * x.krw = (a - n) * c
    BY <1>1, <1>7, <1>8, <2>2, Distributes
  <2>4. a * c \in Int /\ (a - n) * c \in Int /\ (a - n) * c = a * c - c * n
        /\ (a = n => (a - n) * c = 0)
    BY <1>1, <1>8, <2>2
  <2> QED
    BY <1>6, <1>7, <1>8, <2>1, <2>2, <2>3, <2>4
<1>10. ASSUME NEW k \in Foreign, k # h
       PROVE  /\ ProfitLossKRW(k, m)' = ProfitLossKRW(k, m)
              /\ ProfitLossKRW(k, m) \in Int
              /\ \A w \in People : k \in ForeignOf(w)' <=> k \in ForeignOf(w)
  <2>1. holding'[k] = holding[k] /\ holding[k] \in Holding
    BY <1>2, <1>3, <1>10 DEF Stocks
  <2>2. m.price[k] \in Nat /\ m.fx \in Nat
    BY SaleTypes
  <2>3. ProfitLossKRW(k, m) \in Int
    BY <2>1, <2>2 DEF ProfitLossKRW, KRWCostBasis, Holding
  <2> QED
    BY <2>1, <2>3 DEF ProfitLossKRW, ForeignOf
<1>11. ASSUME NEW w \in People \ {u} PROVE h \notin ForeignOf(w) /\ h \notin ForeignOf(w)'
  BY <1>4, <1>5 DEF ForeignOf
<1>12. /\ h \in ForeignOf(u)
       /\ h \in ForeignOf(u)' <=> a # n
  BY <1>1, <1>4, <1>5, <1>8 DEF ForeignOf
<1>13. PICK f, e : f = [k \in Foreign |-> ProfitLossKRW(k, m)]
                   /\ e = [k \in Foreign |-> ProfitLossKRW(k, m)']
  OBVIOUS
<1>14. /\ \A k \in Foreign \ {h} : f[k] = e[k] /\ f[k] \in Int
       /\ f[h] = a * (worth - x.krw) /\ e[h] = (a - n) * (worth - x.krw)
  BY <1>9, <1>10, <1>13
<1>15. \A w \in People : /\ ForeignOf(w) \subseteq Foreign /\ IsFiniteSet(ForeignOf(w))
                         /\ ForeignOf(w)' \subseteq Foreign
  BY FS_Subset DEF ForeignOf, Finite
<1>16. /\ \A w : Unrealized(m, w) = SumOf(f, ForeignOf(w))
       /\ \A w : Unrealized(m, w)' = SumOf(e, ForeignOf(w)')
  BY <1>13 DEF Unrealized
<1>17. ASSUME NEW w \in People \ {u}
       PROVE  Unrealized(m, w)' = Unrealized(m, w) /\ ForeignOf(w)' = ForeignOf(w)
  <2>1. ForeignOf(w)' = ForeignOf(w)
    <3>1. \A k \in Foreign : k \in ForeignOf(w)' <=> k \in ForeignOf(w)
      BY <1>10, <1>11, <1>17
    <3>2. ForeignOf(w) \subseteq Foreign /\ ForeignOf(w)' \subseteq Foreign
      BY <1>15, <1>17
    <3> QED
      BY <3>1, <3>2
  <2>2. PICK S : S = ForeignOf(w)
    OBVIOUS
  <2>3. IsFiniteSet(S) /\ \A k \in S : f[k] = e[k]
    BY <1>11, <1>14, <1>15, <2>2
  <2>4. SumOf(f, S) = SumOf(e, S)
    BY <2>3, SumSame
  <2> QED
    BY <1>16, <2>1, <2>2, <2>4
<1>18. /\ Unrealized(m, u) \in Int /\ Unrealized(m, u)' = Unrealized(m, u) - g
  <2>1. PICK S, T : S = ForeignOf(u) /\ T = ForeignOf(u)'
    OBVIOUS
  <2>2. /\ S \ {h} = T \ {h} /\ IsFiniteSet(S) /\ h \in S /\ (h \in T <=> a # n)
        /\ S \subseteq Foreign /\ T \subseteq Foreign
    BY <1>10, <1>12, <1>15, <2>1
  <2>3. f[h] \in Int /\ e[h] \in Int /\ e[h] = f[h] - g /\ (a = n => e[h] = 0)
    BY <1>9, <1>14
  <2>4. Moved(f, S, e, T, h)
    <3>1. \A k \in S : f[k] \in Int
      BY <1>14, <2>2, <2>3
    <3>2. \A k \in T : e[k] \in Int
      BY <1>14, <2>2, <2>3
    <3>3. \A k \in S \ {h} : e[k] = f[k]
      BY <1>14, <2>2
    <3> QED
      BY <2>2, <3>1, <3>2, <3>3, SumMove
  <2> HIDE DEF worth
  <2>5. SumOf(f, S) \in Int /\ SumOf(e, T) = SumOf(f, S) - g
    BY <1>8, <2>2, <2>3, <2>4 DEF Moved
  <2> QED
    BY <1>16, <2>1, <2>5
<1> QED
  BY <1>12, <1>17, <1>18

LEMMA SumsTyped ==
  ASSUME Finite, GainsInv, NEW m \in Market
  PROVE  /\ \A y \in Years, w \in People : AnnualGains(y, w) \in Int
         /\ \A w \in People : Unrealized(m, w) \in Int
<1>1. ASSUME NEW y \in Years, NEW w \in People PROVE AnnualGains(y, w) \in Int
  <2>1. IsFiniteSet(Stocks)
    BY FS_Union DEF Finite, Stocks
  <2>2. PICK f : f = gains[y][w]
    OBVIOUS
  <2>3. \A k \in Stocks : f[k] \in Int
    BY <2>2 DEF GainsInv
  <2> QED
    BY <2>1, <2>2, <2>3, SumInt DEF AnnualGains
<1>2. ASSUME NEW w \in People PROVE Unrealized(m, w) \in Int
  <2>1. ASSUME NEW k \in Foreign PROVE ProfitLossKRW(k, m) \in Int
    <3>1. k \in Stocks /\ m.price[k] \in Nat /\ m.fx \in Nat
      BY TaxAssumption DEF Stocks, Market, MarketRates
    <3>2. holding[k] \in Holding
      BY <3>1 DEF GainsInv, PaidInv
    <3>3. holding[k].shares \in Nat /\ holding[k].krw \in Nat /\ holding[k].avg \in Nat
      BY <3>2, TaxAssumption DEF Holding
    <3> QED
      BY <3>1, <3>3 DEF ProfitLossKRW, KRWCostBasis
  <2>2. PICK f : f = [k \in Foreign |-> ProfitLossKRW(k, m)]
    OBVIOUS
  <2>3. PICK S : S = ForeignOf(w)
    OBVIOUS
  <2>4. IsFiniteSet(S) /\ S \subseteq Foreign
    BY <2>3, FS_Subset DEF Finite, ForeignOf
  <2>5. \A k \in S : f[k] \in Int
    BY <2>1, <2>2, <2>4
  <2>6. SumOf(f, S) \in Int
    BY <2>4, <2>5, SumInt
  <2> QED
    BY <2>2, <2>3, <2>6 DEF Unrealized
<1> QED
  BY <1>1, <1>2

\* What a sale changes in the tax of the year: the seller's.
LEMMA SaleBilled ==
  ASSUME Finite, GainsInv, NEW m \in Market, NEW h \in Foreign, NEW n \in 1..MaxShares,
         NEW u \in People, NEW g \in Int, Sale(h, n, m, u, g),
         NEW r, r = AnnualGains(year, u)
  PROVE  /\ SumOf([y \in Years |-> AnnualTax(y)], Years) \in Int
         /\ SumOf([y \in Years |-> AnnualTax(y)], Years)' =
              SumOf([y \in Years |-> AnnualTax(y)], Years)
                - CapitalGainsTax(r) + CapitalGainsTax(r + g)
<1>1. /\ year \in Years /\ year' = year
      /\ IsFiniteSet(People) /\ r \in Int /\ r + g \in Int
      /\ CapitalGainsTax(r) \in Int /\ CapitalGainsTax(r + g) \in Int
  <2>1. year \in Years /\ year' = year /\ IsFiniteSet(People)
    BY SaleTypes DEF Finite, Sale
  <2>2. r \in Int /\ r + g \in Int
    BY SaleGains
  <2> QED
    BY <2>1, <2>2, TaxType
<1>2. PICK d : d = year
  OBVIOUS
<1>3. ASSUME NEW y \in Years
      PROVE  /\ AnnualTax(y) \in Int
             /\ y # d => AnnualTax(y)' = AnnualTax(y)
             /\ y = d => AnnualTax(y)' = AnnualTax(y) - CapitalGainsTax(r)
                                           + CapitalGainsTax(r + g)
  <2>1. PICK f, e : /\ f = [w \in People |-> CapitalGainsTax(AnnualGains(y, w))]
                    /\ e = [w \in People |-> CapitalGainsTax(AnnualGains(y, w)')]
    OBVIOUS
  <2>2. AnnualTax(y) = SumOf(f, People) /\ AnnualTax(y)' = SumOf(e, People)
    BY <2>1 DEF AnnualTax, CapitalGainsTax
  <2>3. \A w \in People : f[w] \in Int
    BY <2>1, SumsTyped, TaxType
  <2>4. \A w \in People : y # d \/ w # u => e[w] = f[w]
    BY <1>2, <2>1, SaleGains
  <2>5. y = d => f[u] = CapitalGainsTax(r) /\ e[u] = CapitalGainsTax(r + g)
    BY <1>2, <2>1, SaleGains DEF AnnualGains
  <2>6. e[u] \in Int
    BY <1>1, <2>3, <2>4, <2>5
  <2>7. Moved(f, People, e, People, u)
    BY <1>1, <2>3, <2>4, <2>6, SumMove
  <2>8. SumOf(f, People) \in Int /\ SumOf(e, People) = SumOf(f, People) - f[u] + e[u]
    BY <2>7 DEF Moved
  <2>9. CASE y = d
    BY <2>2, <2>5, <2>8, <2>9
  <2>10. CASE y # d
    <3>1. e[u] = f[u]
      BY <2>4, <2>10
    <3> QED
      BY <2>2, <2>3, <2>8, <2>10, <3>1
  <2> QED
    BY <2>9, <2>10
<1>4. PICK f, e : /\ f = [y \in Years |-> AnnualTax(y)]
                  /\ e = [y \in Years |-> AnnualTax(y)']
  OBVIOUS
<1>5. /\ SumOf([y \in Years |-> AnnualTax(y)], Years) = SumOf(f, Years)
      /\ SumOf([y \in Years |-> AnnualTax(y)], Years)' = SumOf(e, Years)
  BY <1>4
<1>6. /\ \A y \in Years : f[y] \in Int /\ e[y] \in Int
      /\ \A y \in Years \ {d} : e[y] = f[y]
      /\ e[d] = f[d] - CapitalGainsTax(r) + CapitalGainsTax(r + g)
  BY <1>1, <1>2, <1>3, <1>4
<1>7. IsFiniteSet(Years)
  BY FS_Interval, TaxAssumption DEF Years
<1>8. Moved(f, Years, e, Years, d)
  BY <1>6, <1>7, SumMove
<1>9. SumOf(f, Years) \in Int /\ SumOf(e, Years) = SumOf(f, Years) - f[d] + e[d]
  BY <1>1, <1>2, <1>8 DEF Moved
<1> QED
  BY <1>1, <1>2, <1>5, <1>6, <1>9

\* What it changes in the tax that portfolio announces.
LEMMA SaleAnnounced ==
  ASSUME Finite, GainsInv, NEW m \in Market, NEW h \in Foreign, NEW n \in 1..MaxShares,
         NEW u \in People, NEW g \in Int, Sale(h, n, m, u, g),
         NEW r, r = AnnualGains(year, u)
  PROVE  /\ EstimatedTax(m) \in Int
         /\ EstimatedTax(m)' = EstimatedTax(m) + CapitalGainsTax(r) - CapitalGainsTax(r + g)
<1> DEFINE x == Unrealized(m, u)
<1>1. /\ year \in Years /\ year' = year
      /\ IsFiniteSet(People) /\ r \in Int /\ r + g \in Int /\ x \in Int
      /\ x' = x - g /\ r + x \in Int
  <2>1. year \in Years /\ year' = year /\ IsFiniteSet(People)
    BY SaleTypes DEF Finite, Sale
  <2>2. r \in Int /\ r + g \in Int
    BY SaleGains
  <2>3. x \in Int /\ x' = x - g
    BY SaleUnrealized
  <2> QED
    BY <2>1, <2>2, <2>3
<1>2. /\ CapitalGainsTax(r) \in Int /\ CapitalGainsTax(r + g) \in Int
      /\ CapitalGainsTax(r + x) \in Int
  BY <1>1, TaxType
<1>3. PICK S, T : /\ S = {w \in People : ForeignOf(w) # {}}
                  /\ T = {w \in People : ForeignOf(w)' # {}}
  OBVIOUS
<1>4. PICK f, e :
        /\ f = [w \in People |-> LiquidationTax(AnnualGains(year, w), Unrealized(m, w))]
        /\ e = [w \in People |-> LiquidationTax(AnnualGains(year, w)', Unrealized(m, w)')]
  OBVIOUS
<1>5. EstimatedTax(m) = SumOf(f, S) /\ EstimatedTax(m)' = SumOf(e, T)
  BY <1>3, <1>4 DEF EstimatedTax, LiquidationTax, CapitalGainsTax
<1>6. ASSUME NEW w \in People \ {u} PROVE f[w] \in Int /\ e[w] = f[w]
  <2>1. AnnualGains(year, w)' = AnnualGains(year, w)
    <3>1. PICK d : d = year
      OBVIOUS
    <3>2. AnnualGains(d, w)' = AnnualGains(d, w)
      BY <1>1, <1>6, <3>1, SaleGains
    <3> QED
      BY <1>1, <3>1, <3>2 DEF AnnualGains
  <2>2. Unrealized(m, w)' = Unrealized(m, w)
    BY <1>6, SaleUnrealized
  <2>3. PICK a, b : a = AnnualGains(year, w) /\ b = Unrealized(m, w)
    OBVIOUS
  <2>4. a \in Int /\ b \in Int /\ a + b \in Int
    BY <1>1, <2>3, SumsTyped
  <2>5. CapitalGainsTax(a + b) \in Int /\ CapitalGainsTax(a) \in Int
    BY <2>4, TaxType
  <2>6. f[w] = LiquidationTax(a, b) /\ e[w] = LiquidationTax(a, b)
    BY <1>4, <1>6, <2>1, <2>2, <2>3
  <2> QED
    BY <2>5, <2>6 DEF LiquidationTax
<1>7. f[u] = CapitalGainsTax(r + x) - CapitalGainsTax(r)
  BY <1>4 DEF LiquidationTax
<1>8. e[u] = CapitalGainsTax(r + x) - CapitalGainsTax(r + g)
  <2>1. AnnualGains(year, u)' = r + g
    BY <1>1, SaleGains DEF AnnualGains
  <2>2. Unrealized(m, u)' = x - g
    BY <1>1
  <2>3. PICK y : y = x
    OBVIOUS
  <2>4. e[u] = LiquidationTax(r + g, y - g)
    BY <1>4, <2>1, <2>2, <2>3
  <2>5. r + g + (y - g) = r + y
    BY <1>1, <2>3
  <2> QED
    BY <2>3, <2>4, <2>5 DEF LiquidationTax
<1>9. /\ S \ {u} = T \ {u} /\ u \in S /\ IsFiniteSet(S)
      /\ T \subseteq People /\ S \subseteq People
  <2>1. \A w \in People \ {u} : ForeignOf(w)' = ForeignOf(w)
    BY SaleUnrealized
  <2>2. u \in S
    BY <1>3, SaleUnrealized
  <2> QED
    BY <1>1, <1>3, <2>1, <2>2, FS_Subset
\* A seller who has sold out has gained all there was to gain.
<1>10. u \notin T => x = g
  <2>1. ASSUME u \notin T PROVE x' = 0
    <3>1. ForeignOf(u)' = {}
      BY <1>3, <2>1
    <3>2. PICK F : F = [k \in Foreign |-> ProfitLossKRW(k, m)']
      OBVIOUS
    <3>3. x' = SumOf(F, {})
      BY <3>1, <3>2 DEF Unrealized
    <3> QED
      BY <3>3, SumEmpty
  <2> QED
    BY <1>1, <2>1
<1> HIDE DEF x
<1>11. f[u] \in Int /\ e[u] \in Int
  BY <1>2, <1>7, <1>8
<1>12. Moved(f, S, e, T, u)
  <2>1. \A w \in S : f[w] \in Int
    BY <1>6, <1>9, <1>11
  <2>2. \A w \in T : e[w] \in Int
    BY <1>6, <1>9, <1>11
  <2>3. \A w \in S \ {u} : e[w] = f[w]
    BY <1>6, <1>9
  <2> QED
    BY <1>9, <2>1, <2>2, <2>3, SumMove
<1>13. CASE u \in T
  BY <1>2, <1>5, <1>7, <1>8, <1>9, <1>12, <1>13 DEF Moved
<1>14. CASE u \notin T
  BY <1>2, <1>5, <1>7, <1>9, <1>10, <1>12, <1>14 DEF Moved
<1> QED
  BY <1>13, <1>14

\* The tax that portfolio announces is the tax that annualTax bills, for any
\* number of people, holdings, prices, rates and years: selling any part of a
\* foreign holding at today's price and rate moves tax from one to the other,
\* whatever was sold and lost before and whatever deduction is left.
THEOREM SaleMovesTax == Finite => (TaxSpec => SaleKeepsTotal)
<1> SUFFICES ASSUME Finite PROVE TaxSpec => SaleKeepsTotal
  OBVIOUS
<1>1. ASSUME GainsInv, NEW m \in Market, NEW h \in Foreign, NEW n \in 1..MaxShares,
             SellStock(h, n, m.price[h], m.fx), ~early
      PROVE  Total(m)' = Total(m)
  <2>1. PICK u \in People, g \in Int : Sale(h, n, m, u, g)
    BY <1>1, SaleIs
  <2>2. PICK r : r = AnnualGains(year, u)
    OBVIOUS
  <2>3. r \in Int /\ r + g \in Int
    BY <1>1, <2>1, <2>2, SaleGains
  <2>4. CapitalGainsTax(r) \in Int /\ CapitalGainsTax(r + g) \in Int
    BY <2>3, TaxType
  <2>5. /\ SumOf([y \in Years |-> AnnualTax(y)], Years) \in Int
        /\ SumOf([y \in Years |-> AnnualTax(y)], Years)' =
             SumOf([y \in Years |-> AnnualTax(y)], Years)
               - CapitalGainsTax(r) + CapitalGainsTax(r + g)
    BY <1>1, <2>1, <2>2, SaleBilled
  <2>6. /\ EstimatedTax(m) \in Int
        /\ EstimatedTax(m)' = EstimatedTax(m) + CapitalGainsTax(r) - CapitalGainsTax(r + g)
    BY <1>1, <2>1, <2>2, SaleAnnounced
  <2> QED
    BY <2>4, <2>5, <2>6 DEF Total
<1>2. GainsInv /\ [TaxNext]_taxVars =>
        [\A m \in Market, h \in Foreign, n \in 1..MaxShares :
           SellStock(h, n, m.price[h], m.fx) /\ ~early => Total(m)' = Total(m)]_taxVars
  BY <1>1
<1> QED
  BY <1>2, InitGains, NextGains, PTL DEF TaxSpec, SaleKeepsTotal

----------------------------------------------------------------------------
(* What a month gets, and how often a dividend has been raised.            *)

LEMMA MaxWithZero ==
  ASSUME NEW x \in Int
  PROVE  Max({0, x}) = IF x >= 0 THEN x ELSE 0
<1>1. \E y \in {0, x} : \A z \in {0, x} : y >= z
  OBVIOUS
<1>2. Max({0, x}) \in {0, x} /\ \A z \in {0, x} : Max({0, x}) >= z
  BY <1>1 DEF Max
<1> QED
  BY <1>2

LEMMA ContributionType ==
  ASSUME NEW a, IsInput(a), NEW m \in Nat
  PROVE  MonthlyContribution(a, m) \in Int
<1> DEFINE named == {i \in DOMAIN a.schedule : a.schedule[i].year = Year(m)}
<1>1. MonthlyContribution(a, m) = IF named = {} THEN 0 ELSE a.schedule[Min(named)].monthly
  BY DEF MonthlyContribution
<1>2. /\ Len(a.schedule) \in Nat /\ DOMAIN a.schedule = 1..Len(a.schedule)
      /\ \A i \in 1..Len(a.schedule) : a.schedule[i] \in Contribution
  BY DEF IsInput
<1>3. ASSUME named # {} PROVE Min(named) \in named
  <2>1. named \subseteq 0..Len(a.schedule) /\ Len(a.schedule) \in Nat
    BY <1>2
  <2> HIDE DEF named
  <2>2. \E k \in named : \A j \in named : k <= j
    BY <1>3, <2>1, LeastNumber
  <2> QED
    BY <2>2 DEF Min
<1>4. ASSUME named # {} PROVE a.schedule[Min(named)].monthly \in Int
  <2>1. a.schedule[Min(named)] \in Contribution
    BY <1>2, <1>3, <1>4
  <2> QED
    BY <2>1 DEF Contribution
<1> QED
  BY <1>1, <1>4

\* How many raises lie between the base month and m, or how far m is behind.
Passed(d, m) ==
  Year(m) - Year(d.base) + (IF MonthOf(m) >= d.raise THEN 1 ELSE 0)
    - (IF MonthOf(d.base) >= d.raise THEN 1 ELSE 0)

LEMMA PassedType ==
  ASSUME NEW d \in Dividend, NEW m \in Int
  PROVE  Passed(d, m) \in Int /\ (m <= d.base => Passed(d, m) <= 0)
<1>1. d.base \in Int /\ d.raise \in 1..12
  BY DEF Dividend
<1>2. /\ Year(m) \in Int /\ Year(d.base) \in Int /\ MonthOf(m) \in 1..12 /\ MonthOf(d.base) \in 1..12
      /\ m = 12 * Year(m) + MonthOf(m) - 1
      /\ d.base = 12 * Year(d.base) + MonthOf(d.base) - 1
  BY <1>1 DEF Year, MonthOf
<1> QED
  BY <1>1, <1>2 DEF Passed

LEMMA PassedBase ==
  ASSUME NEW d \in Dividend
  PROVE  Passed(d, d.base) = 0
BY DEF Dividend, Passed, Year, MonthOf

LEMMA PassedStep ==
  ASSUME NEW d \in Dividend, NEW m \in Int
  PROVE  Passed(d, m + 1) = Passed(d, m) + (IF MonthOf(m + 1) = d.raise THEN 1 ELSE 0)
<1>1. d.base \in Int /\ d.raise \in 1..12
  BY DEF Dividend
<1>2. PICK y \in Int, k \in 0..11 : m = 12 * y + k /\ Year(m) = y /\ MonthOf(m) = k + 1
  BY DEF Year, MonthOf
<1>3. Year(d.base) \in Int /\ MonthOf(d.base) \in 1..12
  BY <1>1 DEF Year, MonthOf
<1>4. CASE k < 11
  <2>1. Year(m + 1) = y /\ MonthOf(m + 1) = k + 2
    BY <1>2, <1>4 DEF Year, MonthOf
  <2> QED
    BY <1>1, <1>2, <1>3, <1>4, <2>1 DEF Passed
<1>5. CASE k = 11
  <2>1. Year(m + 1) = y + 1 /\ MonthOf(m + 1) = 1
    BY <1>2, <1>5 DEF Year, MonthOf
  <2> QED
    BY <1>1, <1>2, <1>3, <1>5, <2>1 DEF Passed
<1> QED
  BY <1>4, <1>5

RaiseMonths(d, m) == {n \in d.base + 1..m : MonthOf(n) = d.raise}

LEMMA RaiseMonthsCounted ==
  ASSUME NEW d \in Dividend, NEW n \in Nat
  PROVE  /\ IsFiniteSet(RaiseMonths(d, d.base + n))
         /\ Cardinality(RaiseMonths(d, d.base + n)) = Passed(d, d.base + n)
<1> DEFINE Counted(k) == /\ IsFiniteSet(RaiseMonths(d, d.base + k))
                         /\ Cardinality(RaiseMonths(d, d.base + k)) = Passed(d, d.base + k)
           C == {k \in 0..n : ~Counted(k)}
<1>1. d.base \in Int
  BY DEF Dividend
<1>2. CASE C = {}
  <2>1. n \in 0..n
    OBVIOUS
  <2> QED
    BY <1>2, <2>1
<1>3. CASE C # {}
  <2>1. PICK k \in C : \A j \in C : k <= j
    <3>1. C \subseteq 0..n
      OBVIOUS
    <3> HIDE DEF C
    <3> QED
      BY <1>3, <3>1, LeastNumber
  <2>2. k \in 0..n /\ ~Counted(k)
    BY <2>1
  <2>3. CASE k = 0
    <3>1. d.base + k = d.base
      BY <1>1, <2>3
    <3>2. RaiseMonths(d, d.base) = {}
      BY <1>1 DEF RaiseMonths
    <3> QED
      BY <2>2, <3>1, <3>2, PassedBase, FS_EmptySet
  <2>4. CASE k # 0
    <3>1. k - 1 \in 0..n /\ k - 1 \notin C
      BY <2>1, <2>2, <2>4
    <3>2. Counted(k - 1)
      BY <3>1
    <3>3. PICK m \in Int : m = d.base + (k - 1) /\ m + 1 = d.base + k /\ m >= d.base
      BY <1>1, <2>2, <2>4
    <3>4. IsFiniteSet(RaiseMonths(d, m)) /\ Cardinality(RaiseMonths(d, m)) = Passed(d, m)
      BY <3>2, <3>3
    <3>5. m + 1 \notin RaiseMonths(d, m)
      BY <1>1 DEF RaiseMonths
    <3>6. RaiseMonths(d, m + 1) =
            IF MonthOf(m + 1) = d.raise THEN RaiseMonths(d, m) \cup {m + 1} ELSE RaiseMonths(d, m)
      BY <1>1, <3>3 DEF RaiseMonths
    <3>7. Passed(d, m + 1) = Passed(d, m) + (IF MonthOf(m + 1) = d.raise THEN 1 ELSE 0)
          /\ Passed(d, m) \in Int
      BY PassedStep, PassedType
    <3>8. /\ IsFiniteSet(RaiseMonths(d, m + 1))
          /\ Cardinality(RaiseMonths(d, m + 1)) = Passed(d, m + 1)
      <4>1. CASE MonthOf(m + 1) = d.raise
        <5>1. RaiseMonths(d, m + 1) = RaiseMonths(d, m) \cup {m + 1}
          BY <3>6, <4>1
        <5>2. /\ IsFiniteSet(RaiseMonths(d, m) \cup {m + 1})
              /\ Cardinality(RaiseMonths(d, m) \cup {m + 1}) = Cardinality(RaiseMonths(d, m)) + 1
          BY <3>4, <3>5, FS_AddElement
        <5> QED
          BY <3>4, <3>7, <4>1, <5>1, <5>2
      <4>2. CASE MonthOf(m + 1) # d.raise
        BY <3>4, <3>6, <3>7, <4>2
      <4> QED
        BY <4>1, <4>2
    <3> QED
      BY <2>2, <3>3, <3>8
  <2> QED
    BY <2>3, <2>4
<1> QED
  BY <1>2, <1>3

\* raisesSinceBase counts the raise months that have come after the base month,
\* by comparing years and months.
LEMMA RaisesAreCounted ==
  ASSUME NEW d \in Dividend, NEW m \in Int
  PROVE  /\ RaisesSinceBase(d, m) \in Nat
         /\ RaisesSinceBase(d, m) = Cardinality(RaiseMonths(d, m))
<1>1. d.base \in Int /\ Passed(d, m) \in Int
  BY PassedType DEF Dividend
<1>2. RaisesSinceBase(d, m) = IF Passed(d, m) >= 0 THEN Passed(d, m) ELSE 0
  <2>1. RaisesSinceBase(d, m) = Max({0, Passed(d, m)})
    BY DEF RaisesSinceBase, Passed
  <2> QED
    BY <1>1, <2>1, MaxWithZero
<1>3. CASE m <= d.base
  <2>1. RaiseMonths(d, m) = {}
    BY <1>1, <1>3 DEF RaiseMonths
  <2>2. Passed(d, m) <= 0
    BY <1>3, PassedType
  <2> QED
    BY <1>1, <1>2, <2>1, <2>2, FS_EmptySet
<1>4. CASE m > d.base
  <2>1. PICK n \in Nat : m = d.base + n
    <3>1. m - d.base \in Nat /\ m = d.base + (m - d.base)
      BY <1>1, <1>4
    <3> QED
      BY <3>1
  <2>2. /\ IsFiniteSet(RaiseMonths(d, m)) /\ Cardinality(RaiseMonths(d, m)) = Passed(d, m)
    BY <2>1, RaiseMonthsCounted
  <2>3. Cardinality(RaiseMonths(d, m)) \in Nat
    BY <2>2, FS_CardinalityType
  <2> QED
    BY <1>2, <2>2, <2>3
<1> QED
  BY <1>1, <1>3, <1>4

LEMMA DividendType ==
  ASSUME NEW a, IsInput(a), NEW m \in Nat
  PROVE  /\ IsFiniteSet(DOMAIN a.dividends)
         /\ \A k \in DOMAIN a.dividends : DividendAt(a.dividends[k], m) \in Int
         /\ DividendAfterTax(a, m) \in Int
<1>1. /\ DOMAIN a.dividends = 1..Len(a.dividends) /\ Len(a.dividends) \in Nat
      /\ \A k \in DOMAIN a.dividends : a.dividends[k] \in Dividend
  BY DEF IsInput
<1>2. PICK S : S = DOMAIN a.dividends
  OBVIOUS
<1>3. IsFiniteSet(S)
  BY <1>1, <1>2, FS_Interval
<1>4. ASSUME NEW k \in S PROVE DividendAt(a.dividends[k], m) \in Int
  <2>1. PICK d \in Dividend : d = a.dividends[k]
    BY <1>1, <1>2, <1>4
  <2>2. RaisesSinceBase(d, m) \in Nat
    BY RaisesAreCounted
  <2>3. d.growth \in Nat /\ d.amount \in Int
    BY DEF Dividend
  <2>4. Power(d.growth, RaisesSinceBase(d, m)) \in Nat
    BY <2>2, <2>3, PowerType
  <2>5. d.amount * Power(d.growth, RaisesSinceBase(d, m)) \in Int
    BY <2>3, <2>4
  <2> QED
    BY <2>1, <2>5 DEF DividendAt
<1>5. PICK f : f = [k \in DOMAIN a.dividends |-> DividendAt(a.dividends[k], m)]
  OBVIOUS
<1>6. \A k \in S : f[k] \in Int
  BY <1>2, <1>4, <1>5
<1>7. SumOf(f, S) \in Int
  BY <1>3, <1>6, SumInt
<1> QED
  BY <1>2, <1>3, <1>4, <1>5, <1>7 DEF DividendAfterTax

----------------------------------------------------------------------------
(* The months that Project rolls, one after the other.                     *)

Start(a) == [existing |-> a.stocks, pool |-> 0, rows |-> <<>>, months |-> <<>>]

\* The equation of the first n months of the trajectory.
RollEq(r, a, g, n) ==
  r = [k \in 0..n |-> IF k = 0 THEN Start(a) ELSE RollMonth(a, g, r[k - 1], MonthsToRoll(a)[k])]

LEMMA RollEqAt ==
  ASSUME NEW a, NEW g, NEW n \in Nat, NEW r, RollEq(r, a, g, n), NEW k \in 0..n
  PROVE  /\ r[0] = Start(a)
         /\ k > 0 => r[k] = RollMonth(a, g, r[k - 1], MonthsToRoll(a)[k])
<1>1. r = [i \in 0..n |-> IF i = 0 THEN Start(a)
                          ELSE RollMonth(a, g, r[i - 1], MonthsToRoll(a)[i])]
  BY DEF RollEq
<1>2. 0 \in 0..n
  OBVIOUS
<1> QED
  BY <1>1, <1>2

LEMMA RollsExist ==
  ASSUME NEW a, NEW g, NEW n \in Nat
  PROVE  \E r : RollEq(r, a, g, n)
<1> DEFINE C == {k \in 0..n : ~ \E r : RollEq(r, a, g, k)}
<1>1. CASE C = {}
  <2>1. n \in 0..n
    OBVIOUS
  <2> QED
    BY <1>1, <2>1
<1>2. CASE C # {}
  <2>1. PICK k \in C : \A j \in C : k <= j
    <3>1. C \subseteq 0..n
      OBVIOUS
    <3> HIDE DEF C
    <3> QED
      BY <1>2, <3>1, LeastNumber
  <2>2. k \in 0..n /\ ~ \E r : RollEq(r, a, g, k)
    BY <2>1
  <2>3. CASE k = 0
    <3>1. PICK r : r = [i \in 0..k |-> Start(a)]
      OBVIOUS
    <3>2. ASSUME NEW i \in 0..k
          PROVE  Start(a) = IF i = 0 THEN Start(a)
                            ELSE RollMonth(a, g, r[i - 1], MonthsToRoll(a)[i])
      BY <2>3
    <3>3. RollEq(r, a, g, k)
      BY <3>1, <3>2 DEF RollEq
    <3> QED
      BY <2>2, <3>3
  <2>4. CASE k > 0
    <3>1. k - 1 \in 0..n /\ k - 1 \notin C
      BY <2>1, <2>2, <2>4
    <3>2. PICK p : RollEq(p, a, g, k - 1)
      BY <3>1
    <3>3. PICK q : q = [i \in 0..k |-> IF i = k THEN RollMonth(a, g, p[k - 1], MonthsToRoll(a)[k])
                                       ELSE p[i]]
      OBVIOUS
    <3>4. ASSUME NEW i \in 0..k
          PROVE  q[i] = IF i = 0 THEN Start(a)
                        ELSE RollMonth(a, g, q[i - 1], MonthsToRoll(a)[i])
      <4>1. CASE i = k
        <5>1. q[i] = RollMonth(a, g, p[k - 1], MonthsToRoll(a)[k]) /\ q[i - 1] = p[k - 1]
          BY <2>2, <2>4, <3>3, <4>1
        <5> QED
          BY <2>4, <4>1, <5>1
      <4>2. CASE i # k
        <5>1. i \in 0..(k - 1) /\ k - 1 \in Nat
          BY <2>2, <2>4, <4>2
        <5>2. q[i] = p[i] /\ (i > 0 => q[i - 1] = p[i - 1])
          BY <2>2, <3>3, <4>2, <5>1
        <5>3. p[0] = Start(a)
              /\ (i > 0 => p[i] = RollMonth(a, g, p[i - 1], MonthsToRoll(a)[i]))
          BY <3>2, <5>1, RollEqAt
        <5> QED
          BY <5>1, <5>2, <5>3
      <4> QED
        BY <4>1, <4>2
    <3>5. RollEq(q, a, g, k)
      <4>1. q = [i \in 0..k |-> q[i]]
        BY <3>3
      <4>2. [i \in 0..k |-> q[i]]
              = [i \in 0..k |-> IF i = 0 THEN Start(a)
                                ELSE RollMonth(a, g, q[i - 1], MonthsToRoll(a)[i])]
        BY <3>4
      <4> QED
        BY <4>1, <4>2 DEF RollEq
    <3> QED
      BY <2>2, <3>5
  <2> QED
    BY <2>2, <2>3, <2>4
<1> QED
  BY <1>1, <1>2

LEMMA ProjectSolves ==
  ASSUME NEW a, NEW g, Len(MonthsToRoll(a)) \in Nat
  PROVE  \E r : RollEq(r, a, g, Len(MonthsToRoll(a))) /\ Project(a, g) = r[Len(MonthsToRoll(a))]
<1>1. Project(a, g) = (CHOOSE r : RollEq(r, a, g, Len(MonthsToRoll(a))))[Len(MonthsToRoll(a))]
  BY DEF Project, RollEq, Start
<1>2. RollEq(CHOOSE r : RollEq(r, a, g, Len(MonthsToRoll(a))), a, g, Len(MonthsToRoll(a)))
  BY RollsExist
<1> QED
  BY <1>1, <1>2

\* How many months lie between the anchor and the end.
Span(a) == IF a.end >= a.anchor THEN a.end - a.anchor ELSE 0

LEMMA MonthsRolled ==
  ASSUME NEW a, IsInput(a)
  PROVE  /\ a.anchor \in Nat /\ Span(a) \in Nat /\ Len(MonthsToRoll(a)) = Span(a)
         /\ \A k \in 1..Span(a) : MonthsToRoll(a)[k] = a.anchor + k
<1>1. a.anchor \in Nat /\ a.end \in Nat
  BY DEF IsInput
<1>2. Max({0, a.end - a.anchor}) = Span(a) /\ Span(a) \in Nat
  BY <1>1, MaxWithZero DEF Span
<1>3. MonthsToRoll(a) = [i \in 1..Span(a) |-> a.anchor + i]
  BY <1>2 DEF MonthsToRoll
<1> QED
  BY <1>1, <1>2, <1>3

----------------------------------------------------------------------------
(* What has been rolled after k months.                                    *)

MonthPoint == [month : Int, contribution : Int, dividend : Int, worth : Int]

YearRow == [year : Int, contributed : Int, dividend : Int, worth : Int]

\* What the months bring, counted as the chart does: its first point is the anchor.
Contributions(a) == [p \in Nat |-> MonthlyContribution(a, a.anchor + p - 1)]

Dividends(a) == [p \in Nat |-> DividendAfterTax(a, a.anchor + p - 1)]

\* The points of a year in the chart of the first k months.
PointsOf(a, k, y) == {p \in 2..k + 1 : Year(a.anchor + p - 1) = y}

MonthsRight(s, a, k) ==
  /\ s.months \in Seq(MonthPoint) /\ Len(s.months) = k
  /\ \A i \in 1..k : /\ s.months[i].month = a.anchor + i
                     /\ s.months[i].contribution = MonthlyContribution(a, a.anchor + i)
                     /\ s.months[i].dividend = DividendAfterTax(a, a.anchor + i)

RowsOrdered(s, a, k) ==
  /\ s.rows \in Seq(YearRow)
  /\ Len(s.rows) = IF k = 0 THEN 0 ELSE Year(a.anchor + k) - Year(a.anchor + 1) + 1
  /\ \A j \in 1..Len(s.rows) : s.rows[j].year = Year(a.anchor + 1) + j - 1

RowGathers(row, s, a, k) ==
  LET points == PointsOf(a, k, row.year)
  IN /\ row.contributed = SumOf(Contributions(a), points)
     /\ row.dividend = SumOf(Dividends(a), points)
     /\ \E p \in points : /\ \A q \in points : q <= p
                          /\ row.worth = s.months[p - 1].worth

Rolled(s, a, k) ==
  /\ s.existing \in Int /\ s.pool \in Int
  /\ MonthsRight(s, a, k)
  /\ RowsOrdered(s, a, k)
  /\ \A j \in 1..Len(s.rows) : RowGathers(s.rows[j], s, a, k)

LEMMA YearsPass ==
  ASSUME NEW m \in Int, NEW n \in Int
  PROVE  /\ Year(m) \in Int
         /\ m <= n => Year(m) <= Year(n)
         /\ Year(m + 1) = Year(m) \/ Year(m + 1) = Year(m) + 1
BY DEF Year

\* The point that a month adds.
PointAt(a, m, w) ==
  [month |-> m, contribution |-> MonthlyContribution(a, m),
   dividend |-> DividendAfterTax(a, m), worth |-> w]

WorthAfter(a, g, s, m) ==
  s.existing * g + (s.pool + MonthlyContribution(a, m) + DividendAfterTax(a, m)) * g + a.other

RowWith(row, a, m, w) == Gathered(row, MonthlyContribution(a, m), DividendAfterTax(a, m), w)

NewRow(m) == [year |-> Year(m), contributed |-> 0, dividend |-> 0, worth |-> 0]

LEMMA RollMonthIs ==
  ASSUME NEW a, NEW g, NEW s, NEW m
  PROVE  /\ RollMonth(a, g, s, m).existing = s.existing * g
         /\ RollMonth(a, g, s, m).pool
              = (s.pool + MonthlyContribution(a, m) + DividendAfterTax(a, m)) * g
         /\ RollMonth(a, g, s, m).months
              = Append(s.months, PointAt(a, m, WorthAfter(a, g, s, m)))
BY DEF RollMonth, WorthAfter, PointAt

LEMMA RollRowsAre ==
  ASSUME NEW a, NEW g, NEW s, NEW m
  PROVE  RollMonth(a, g, s, m).rows =
           IF s.rows # <<>> /\ Last(s.rows).year = Year(m)
           THEN [s.rows EXCEPT ![Len(s.rows)] =
                   RowWith(s.rows[Len(s.rows)], a, m, WorthAfter(a, g, s, m))]
           ELSE Append(s.rows, RowWith(NewRow(m), a, m, WorthAfter(a, g, s, m)))
BY DEF RollMonth, WorthAfter, RowWith, NewRow

LEMMA PointsGrow ==
  ASSUME NEW a, a.anchor \in Nat, NEW k \in Nat, NEW y
  PROVE  /\ IsFiniteSet(PointsOf(a, k, y)) /\ k + 2 \notin PointsOf(a, k, y)
         /\ \A p \in PointsOf(a, k, y) : p \in 2..k + 1
         /\ PointsOf(a, k + 1, y) = IF Year(a.anchor + (k + 1)) = y
                                    THEN PointsOf(a, k, y) \cup {k + 2} ELSE PointsOf(a, k, y)
         /\ (\A i \in 1..k : Year(a.anchor + i) # y) => PointsOf(a, k, y) = {}
<1>1. IsFiniteSet(PointsOf(a, k, y))
  <2>1. PICK S : S = 2..k + 1 /\ IsFiniteSet(S)
    BY FS_Interval
  <2>2. PointsOf(a, k, y) \subseteq S
    BY <2>1 DEF PointsOf
  <2> QED
    BY <2>1, <2>2, FS_Subset
<1>2. k + 2 \notin PointsOf(a, k, y) /\ \A p \in PointsOf(a, k, y) : p \in 2..k + 1
  BY DEF PointsOf
<1>3. ASSUME NEW p
      PROVE  p \in PointsOf(a, k + 1, y) <=>
               p \in PointsOf(a, k, y) \/ (p = k + 2 /\ Year(a.anchor + (k + 1)) = y)
  <2>1. p \in 2..(k + 1) + 1 <=> p \in 2..k + 1 \/ p = k + 2
    OBVIOUS
  <2>2. a.anchor + (k + 2) - 1 = a.anchor + (k + 1)
    OBVIOUS
  <2> QED
    BY <2>1, <2>2 DEF PointsOf
<1>4. ASSUME \A i \in 1..k : Year(a.anchor + i) # y PROVE PointsOf(a, k, y) = {}
  <2>1. ASSUME NEW p \in 2..k + 1 PROVE Year(a.anchor + p - 1) # y
    <3>1. p - 1 \in 1..k /\ a.anchor + p - 1 = a.anchor + (p - 1)
      OBVIOUS
    <3> QED
      BY <1>4, <3>1
  <2> QED
    BY <2>1 DEF PointsOf
<1>5. PointsOf(a, k + 1, y) = IF Year(a.anchor + (k + 1)) = y
                              THEN PointsOf(a, k, y) \cup {k + 2} ELSE PointsOf(a, k, y)
  BY <1>3, Zenon
<1> QED
  BY <1>1, <1>2, <1>4, <1>5

\* The months so far keep their place, and the new one ends with w.
Extends(t, s, k, w) ==
  /\ \A i \in 1..k : t.months[i] = s.months[i]
  /\ t.months[k + 1].worth = w

LEMMA MonthsStep ==
  ASSUME NEW a, IsInput(a), NEW k \in Nat, NEW s, MonthsRight(s, a, k), NEW w \in Int,
         NEW t, t.months = Append(s.months, PointAt(a, a.anchor + (k + 1), w))
  PROVE  MonthsRight(t, a, k + 1) /\ Extends(t, s, k, w)
<1>1. a.anchor \in Nat /\ a.anchor + (k + 1) \in Nat
  BY DEF IsInput
<1>2. PICK e : e = PointAt(a, a.anchor + (k + 1), w)
  OBVIOUS
<1>3. /\ e \in MonthPoint /\ e.month = a.anchor + (k + 1) /\ e.worth = w
      /\ e.contribution = MonthlyContribution(a, a.anchor + (k + 1))
      /\ e.dividend = DividendAfterTax(a, a.anchor + (k + 1))
  <2>1. MonthlyContribution(a, a.anchor + (k + 1)) \in Int
    BY <1>1, ContributionType
  <2>2. DividendAfterTax(a, a.anchor + (k + 1)) \in Int
    BY <1>1, DividendType
  <2> QED
    BY <1>1, <1>2, <2>1, <2>2 DEF PointAt, MonthPoint
<1>4. s.months \in Seq(MonthPoint) /\ Len(s.months) = k
  BY DEF MonthsRight
<1>5. /\ t.months \in Seq(MonthPoint) /\ Len(t.months) = k + 1
      /\ \A i \in 1..k : t.months[i] = s.months[i]
      /\ t.months[k + 1] = e
  <2>1. t.months = Append(s.months, e)
    BY <1>2
  <2> QED
    BY <1>3, <1>4, <2>1, AppendProperties
<1>6. ASSUME NEW i \in 1..k + 1
      PROVE  /\ t.months[i].month = a.anchor + i
             /\ t.months[i].contribution = MonthlyContribution(a, a.anchor + i)
             /\ t.months[i].dividend = DividendAfterTax(a, a.anchor + i)
  <2>1. CASE i \in 1..k
    BY <1>5, <2>1 DEF MonthsRight
  <2>2. CASE i = k + 1
    BY <1>3, <1>5, <2>2
  <2>3. i \in 1..k \/ i = k + 1
    BY <1>6
  <2> QED
    BY <2>1, <2>2, <2>3
<1> QED
  BY <1>3, <1>5, <1>6 DEF MonthsRight, Extends

\* A row of another year gathers what it has gathered.
LEMMA RowStays ==
  ASSUME NEW a, a.anchor \in Nat, NEW k \in Nat, NEW s, NEW t, NEW w, Extends(t, s, k, w),
         NEW row, RowGathers(row, s, a, k), row.year # Year(a.anchor + (k + 1))
  PROVE  RowGathers(row, t, a, k + 1)
<1>1. PICK S : S = PointsOf(a, k, row.year)
  OBVIOUS
<1>2. PointsOf(a, k + 1, row.year) = S /\ \A p \in S : p \in 2..k + 1
  BY <1>1, PointsGrow
<1>3. /\ row.contributed = SumOf(Contributions(a), S)
      /\ row.dividend = SumOf(Dividends(a), S)
      /\ \E p \in S : (\A q \in S : q <= p) /\ row.worth = s.months[p - 1].worth
  BY <1>1 DEF RowGathers
<1>4. \A p \in S : s.months[p - 1] = t.months[p - 1]
  <2>1. \A p \in S : p - 1 \in 1..k
    BY <1>2
  <2> QED
    BY <2>1 DEF Extends
<1>5. \E p \in S : (\A q \in S : q <= p) /\ row.worth = t.months[p - 1].worth
  BY <1>3, <1>4
<1> QED
  BY <1>2, <1>3, <1>5 DEF RowGathers

LEMMA BringsType ==
  ASSUME NEW a, IsInput(a), NEW p \in Nat, p >= 1
  PROVE  /\ Contributions(a)[p] \in Int /\ Dividends(a)[p] \in Int
         /\ Contributions(a)[p] = MonthlyContribution(a, a.anchor + p - 1)
         /\ Dividends(a)[p] = DividendAfterTax(a, a.anchor + p - 1)
<1>1. a.anchor + p - 1 \in Nat
  BY DEF IsInput
<1>2. MonthlyContribution(a, a.anchor + p - 1) \in Int
  BY <1>1, ContributionType
<1>3. DividendAfterTax(a, a.anchor + p - 1) \in Int
  BY <1>1, DividendType
<1> QED
  BY <1>2, <1>3 DEF Contributions, Dividends

\* What a row has gathered before the month, and its sums with the month.
RowSums(row, a, k) ==
  /\ row.contributed = SumOf(Contributions(a), PointsOf(a, k, row.year))
  /\ row.dividend = SumOf(Dividends(a), PointsOf(a, k, row.year))

LEMMA RowGrows ==
  ASSUME NEW a, IsInput(a), NEW k \in Nat, NEW s, NEW t, NEW w \in Int, Extends(t, s, k, w),
         NEW row \in YearRow, row.year = Year(a.anchor + (k + 1)), RowSums(row, a, k)
  PROVE  /\ RowWith(row, a, a.anchor + (k + 1), w) \in YearRow
         /\ RowWith(row, a, a.anchor + (k + 1), w).year = row.year
         /\ RowGathers(RowWith(row, a, a.anchor + (k + 1), w), t, a, k + 1)
<1>1. a.anchor \in Nat /\ a.anchor + (k + 1) \in Nat
  BY DEF IsInput
<1>2. PICK c, d : /\ c = MonthlyContribution(a, a.anchor + (k + 1))
                  /\ d = DividendAfterTax(a, a.anchor + (k + 1))
  OBVIOUS
<1>3. c \in Int /\ d \in Int /\ Contributions(a)[k + 2] = c /\ Dividends(a)[k + 2] = d
  <2>1. k + 2 \in Nat /\ k + 2 >= 1 /\ a.anchor + (k + 2) - 1 = a.anchor + (k + 1)
    BY <1>1
  <2> QED
    BY <1>2, <2>1, BringsType
<1>4. PICK e : e = RowWith(row, a, a.anchor + (k + 1), w)
  OBVIOUS
<1>5. /\ e \in YearRow /\ e.year = row.year /\ e.worth = w
      /\ e.contributed = row.contributed + c /\ e.dividend = row.dividend + d
  <2>1. e = [row EXCEPT !.contributed = @ + c, !.dividend = @ + d, !.worth = w]
    BY <1>2, <1>4 DEF RowWith, Gathered
  <2>2. e = [year |-> row.year, contributed |-> row.contributed + c,
             dividend |-> row.dividend + d, worth |-> w]
    BY <2>1 DEF YearRow
  <2>3. row.year \in Int /\ row.contributed \in Int /\ row.dividend \in Int
    BY DEF YearRow
  <2> QED
    BY <1>3, <2>2, <2>3 DEF YearRow
<1>6. PICK S : S = PointsOf(a, k, row.year)
  OBVIOUS
<1>7. /\ IsFiniteSet(S) /\ k + 2 \notin S /\ \A p \in S : p \in 2..k + 1
      /\ PointsOf(a, k + 1, row.year) = S \cup {k + 2}
  <2>1. /\ IsFiniteSet(S) /\ k + 2 \notin S /\ \A p \in S : p \in 2..k + 1
    BY <1>1, <1>6, PointsGrow
  <2>2. PointsOf(a, k + 1, row.year) = IF Year(a.anchor + (k + 1)) = row.year
                                       THEN PointsOf(a, k, row.year) \cup {k + 2}
                                       ELSE PointsOf(a, k, row.year)
    <3>1. PICK y : y = row.year
      OBVIOUS
    <3>2. PointsOf(a, k + 1, y) = IF Year(a.anchor + (k + 1)) = y
                                  THEN PointsOf(a, k, y) \cup {k + 2} ELSE PointsOf(a, k, y)
      BY <1>1, PointsGrow
    <3> QED
      BY <3>1, <3>2
  <2> QED
    BY <1>6, <2>1, <2>2
<1>8. \A p \in S : Contributions(a)[p] \in Int /\ Dividends(a)[p] \in Int
  <2>1. \A p \in S : p \in Nat /\ p >= 1
    BY <1>7
  <2> QED
    BY <2>1, BringsType
<1>9. SumOf(Contributions(a), S \cup {k + 2}) = SumOf(Contributions(a), S) + c
  BY <1>3, <1>7, <1>8, SumAdd
<1>10. SumOf(Dividends(a), S \cup {k + 2}) = SumOf(Dividends(a), S) + d
  BY <1>3, <1>7, <1>8, SumAdd
<1>11. \A q \in S \cup {k + 2} : q <= k + 2
  BY <1>7
<1>12. (k + 2) - 1 = k + 1 /\ k + 2 \in S \cup {k + 2}
  OBVIOUS
<1>13. \E p \in S \cup {k + 2} : /\ \A q \in S \cup {k + 2} : q <= p
                                 /\ e.worth = t.months[p - 1].worth
  BY <1>5, <1>11, <1>12 DEF Extends
<1>14. /\ e.contributed = SumOf(Contributions(a), S \cup {k + 2})
       /\ e.dividend = SumOf(Dividends(a), S \cup {k + 2})
  BY <1>5, <1>6, <1>9, <1>10 DEF RowSums
<1>15. RowGathers(e, t, a, k + 1)
  BY <1>5, <1>7, <1>13, <1>14 DEF RowGathers
<1> QED
  BY <1>4, <1>5, <1>15

LEMMA NewRowSums ==
  ASSUME NEW a, IsInput(a), NEW k \in Nat,
         \A i \in 1..k : Year(a.anchor + i) # Year(a.anchor + (k + 1))
  PROVE  /\ NewRow(a.anchor + (k + 1)) \in YearRow
         /\ NewRow(a.anchor + (k + 1)).year = Year(a.anchor + (k + 1))
         /\ RowSums(NewRow(a.anchor + (k + 1)), a, k)
<1>1. a.anchor \in Nat /\ Year(a.anchor + (k + 1)) \in Int
  <2>1. a.anchor \in Nat /\ a.anchor + (k + 1) \in Int
    BY DEF IsInput
  <2> QED
    BY <2>1, YearsPass
<1>2. PointsOf(a, k, Year(a.anchor + (k + 1))) = {}
  BY <1>1, PointsGrow
<1> QED
  BY <1>1, <1>2, SumEmpty DEF NewRow, YearRow, RowSums

\* The row of the year that a month begins or goes on with.
LEMMA RowsStep ==
  ASSUME NEW a, IsInput(a), NEW g \in Int, NEW k \in Nat, NEW s, Rolled(s, a, k),
         NEW w \in Int, w = WorthAfter(a, g, s, a.anchor + (k + 1)),
         NEW t, t = RollMonth(a, g, s, a.anchor + (k + 1)), Extends(t, s, k, w)
  PROVE  /\ RowsOrdered(t, a, k + 1)
         /\ \A j \in 1..Len(t.rows) : RowGathers(t.rows[j], t, a, k + 1)
<1>1. PICK m \in Nat : m = a.anchor + (k + 1)
  BY DEF IsInput
<1>2. PICK x \in Nat, first \in Int, y \in Int :
        x = a.anchor /\ first = Year(a.anchor + 1) /\ y = Year(m) /\ first <= y
  <2>1. PICK x \in Nat : x = a.anchor
    BY DEF IsInput
  <2>2. x + 1 \in Int /\ x + 1 <= m
    BY <1>1, <2>1
  <2>3. Year(x + 1) \in Int /\ Year(x + 1) <= Year(m)
    BY <2>2, YearsPass
  <2>4. Year(m) \in Int
    BY YearsPass
  <2> QED
    BY <2>1, <2>3, <2>4
<1>3. PICK rows \in Seq(YearRow), n \in Nat : rows = s.rows /\ n = Len(rows)
  <2>1. s.rows \in Seq(YearRow)
    BY DEF Rolled, RowsOrdered
  <2>2. Len(s.rows) \in Nat
    BY <2>1
  <2> QED
    BY <2>1, <2>2
<1>4. /\ n = IF k = 0 THEN 0 ELSE Year(a.anchor + k) - first + 1
      /\ \A j \in 1..n : rows[j].year = first + j - 1
      /\ \A j \in 1..n : RowGathers(rows[j], s, a, k)
  BY <1>2, <1>3 DEF Rolled, RowsOrdered
<1>5. k = 0 => m = a.anchor + 1
  BY <1>1
<1>6. k > 0 => /\ Year(a.anchor + k) \in Int
               /\ first <= Year(a.anchor + k)
               /\ y = Year(a.anchor + k) \/ y = Year(a.anchor + k) + 1
  <2>1. PICK i \in Int, j \in Int : i = x + 1 /\ j = x + k /\ (k > 0 => i <= j) /\ m = j + 1
    <3>1. m = x + (k + 1)
      BY <1>1, <1>2
    <3>2. /\ x + 1 \in Int /\ x + k \in Int /\ (k > 0 => x + 1 <= x + k)
          /\ m = (x + k) + 1
      BY <3>1
    <3> QED
      BY <3>2
  <2>2. Year(j) \in Int /\ (i <= j => Year(i) <= Year(j))
    BY YearsPass
  <2>3. Year(j + 1) = Year(j) \/ Year(j + 1) = Year(j) + 1
    BY YearsPass
  <2>4. Year(j) = Year(a.anchor + k) /\ Year(i) = first /\ Year(j + 1) = y
    BY <1>2, <2>1
  <2> QED
    BY <2>1, <2>2, <2>3, <2>4
<1>7. t.rows = IF rows # <<>> /\ Last(rows).year = y
               THEN [rows EXCEPT ![n] = RowWith(rows[n], a, m, w)]
               ELSE Append(rows, RowWith(NewRow(m), a, m, w))
  <2>1. w = WorthAfter(a, g, s, m) /\ t = RollMonth(a, g, s, m)
    BY <1>1
  <2>2. RollMonth(a, g, s, m).rows =
          IF s.rows # <<>> /\ Last(s.rows).year = Year(m)
          THEN [s.rows EXCEPT ![Len(s.rows)] =
                  RowWith(s.rows[Len(s.rows)], a, m, WorthAfter(a, g, s, m))]
          ELSE Append(s.rows, RowWith(NewRow(m), a, m, WorthAfter(a, g, s, m)))
    BY RollRowsAre
  <2> QED
    BY <1>2, <1>3, <2>1, <2>2
<1>8. CASE k > 0 /\ y = Year(a.anchor + k)
  <2>1. n = y - first + 1 /\ n >= 1 /\ n \in 1..n /\ rows # <<>>
    <3>1. n = y - first + 1
      BY <1>4, <1>8
    <3>2. n >= 1 /\ n \in 1..n
      BY <1>6, <1>8, <3>1
    <3>3. rows # <<>>
      BY <1>3, <3>2
    <3> QED
      BY <3>1, <3>2, <3>3
  <2>2. rows[n].year = y /\ rows[n] \in YearRow
    <3>1. rows[n].year = first + n - 1
      BY <1>4, <2>1
    <3>2. rows[n] \in YearRow
      <4>1. n \in 1..Len(rows)
        BY <1>3, <2>1
      <4> QED
        BY <4>1, ElementOfSeq
    <3> QED
      BY <2>1, <3>1, <3>2
  <2>3. PICK e : e = RowWith(rows[n], a, m, w)
    OBVIOUS
  <2>4. RowSums(rows[n], a, k)
    BY <1>4, <2>1 DEF RowGathers, RowSums
  <2>5. e \in YearRow /\ e.year = y /\ RowGathers(e, t, a, k + 1)
    <3>1. rows[n] \in YearRow /\ rows[n].year = Year(a.anchor + (k + 1))
      BY <1>1, <1>2, <2>2
    <3>2. e = RowWith(rows[n], a, a.anchor + (k + 1), w)
      BY <1>1, <2>3
    <3>3. e \in YearRow /\ e.year = rows[n].year /\ RowGathers(e, t, a, k + 1)
      BY <2>4, <3>1, <3>2, RowGrows
    <3> QED
      BY <2>2, <3>3
  <2>6. t.rows = [rows EXCEPT ![n] = e]
    BY <1>3, <1>7, <2>1, <2>2, <2>3 DEF Last
  <2>7. /\ t.rows \in Seq(YearRow) /\ Len(t.rows) = n
        /\ \A j \in 1..n : t.rows[j] = IF j = n THEN e ELSE rows[j]
    <3>1. n \in 1..Len(rows) /\ e \in YearRow
      BY <1>3, <2>1, <2>5
    <3>2. /\ [rows EXCEPT ![n] = e] \in Seq(YearRow) /\ Len([rows EXCEPT ![n] = e]) = Len(rows)
          /\ \A j \in 1..Len(rows) : [rows EXCEPT ![n] = e][j] = IF j = n THEN e ELSE rows[j]
      BY <3>1, ExceptSeq
    <3> QED
      BY <1>3, <2>6, <3>2
  <2>8. ASSUME NEW j \in 1..n
        PROVE  t.rows[j].year = first + j - 1 /\ RowGathers(t.rows[j], t, a, k + 1)
    <3>1. CASE j = n
      <4>1. t.rows[j] = e /\ e.year = y /\ RowGathers(e, t, a, k + 1)
        BY <2>5, <2>7, <3>1
      <4>2. y = first + j - 1
        BY <2>1, <3>1
      <4> QED
        BY <4>1, <4>2
    <3>2. CASE j # n
      <4>1. t.rows[j] = rows[j] /\ rows[j].year = first + j - 1
            /\ RowGathers(rows[j], s, a, k)
        BY <1>4, <2>7, <3>2
      <4>2. rows[j].year # Year(a.anchor + (k + 1))
        <5>1. first + j - 1 # y
          BY <2>1, <3>2
        <5> QED
          BY <1>1, <1>2, <4>1, <5>1
      <4>3. RowGathers(rows[j], t, a, k + 1)
        BY <1>2, <4>1, <4>2, RowStays
      <4> QED
        BY <4>1, <4>3
    <3> QED
      BY <3>1, <3>2
  <2> QED
    <3>1. Len(t.rows) = Year(a.anchor + (k + 1)) - first + 1 /\ k + 1 # 0
      BY <1>1, <1>2, <2>1, <2>7
    <3> QED
      BY <1>2, <2>7, <2>8, <3>1 DEF RowsOrdered
<1>9. CASE k = 0 \/ y # Year(a.anchor + k)
  <2>1. n = y - first
    <3>1. CASE k = 0
      BY <1>2, <1>4, <1>5, <3>1
    <3>2. CASE k # 0
      BY <1>4, <1>6, <1>9, <3>2
    <3> QED
      BY <3>1, <3>2
  <2>2. ~(rows # <<>> /\ Last(rows).year = y)
    <3>1. rows # <<>> => n \in 1..n
      BY <1>3
    <3>2. n \in 1..n => rows[n].year = first + n - 1
      BY <1>4
    <3>3. Last(rows) = rows[n]
      BY <1>3 DEF Last
    <3>4. rows[n].year = first + n - 1 => rows[n].year # y
      BY <2>1
    <3> QED
      BY <3>1, <3>2, <3>3, <3>4
  <2>3. PICK e : e = RowWith(NewRow(m), a, m, w)
    OBVIOUS
  <2>4. \A i \in 1..k : Year(a.anchor + i) # y
    <3>1. ASSUME NEW i \in 1..k PROVE Year(a.anchor + i) # y
      <4>1. k > 0 /\ x + i \in Int /\ x + k \in Int /\ x + i <= x + k
        OBVIOUS
      <4>2. Year(x + i) <= Year(x + k) /\ Year(x + i) \in Int
        BY <4>1, YearsPass
      <4>3. Year(x + k) \in Int /\ Year(x + k) # y /\ Year(x + k) <= y
        BY <1>2, <1>6, <1>9, <4>1
      <4> QED
        BY <1>2, <4>2, <4>3
    <3> QED
      BY <3>1
  <2>5. NewRow(m) \in YearRow /\ NewRow(m).year = y /\ RowSums(NewRow(m), a, k)
    BY <1>1, <1>2, <2>4, NewRowSums
  <2>6. e \in YearRow /\ e.year = y /\ RowGathers(e, t, a, k + 1)
    <3>1. NewRow(m) \in YearRow /\ NewRow(m).year = Year(a.anchor + (k + 1))
      BY <1>1, <1>2, <2>5
    <3>2. e = RowWith(NewRow(m), a, a.anchor + (k + 1), w)
      BY <1>1, <2>3
    <3>3. e \in YearRow /\ e.year = NewRow(m).year /\ RowGathers(e, t, a, k + 1)
      BY <2>5, <3>1, <3>2, RowGrows
    <3> QED
      BY <2>5, <3>3
  <2>7. t.rows = Append(rows, e)
    BY <1>7, <2>2, <2>3
  <2>8. /\ t.rows \in Seq(YearRow) /\ Len(t.rows) = n + 1
        /\ \A j \in 1..n : t.rows[j] = rows[j]
        /\ t.rows[n + 1] = e
    <3>1. e \in YearRow
      BY <2>6
    <3>2. /\ Append(rows, e) \in Seq(YearRow) /\ Len(Append(rows, e)) = Len(rows) + 1
          /\ \A j \in 1..Len(rows) : Append(rows, e)[j] = rows[j]
          /\ Append(rows, e)[Len(rows) + 1] = e
      BY <3>1, AppendProperties
    <3> QED
      BY <1>3, <2>7, <3>2
  <2>9. ASSUME NEW j \in 1..n + 1
        PROVE  t.rows[j].year = first + j - 1 /\ RowGathers(t.rows[j], t, a, k + 1)
    <3>1. CASE j = n + 1
      <4>1. t.rows[j] = e /\ e.year = y /\ RowGathers(e, t, a, k + 1)
        BY <2>6, <2>8, <3>1
      <4>2. y = first + j - 1
        BY <2>1, <3>1
      <4> QED
        BY <4>1, <4>2
    <3>2. CASE j \in 1..n
      <4>1. t.rows[j] = rows[j] /\ rows[j].year = first + j - 1
            /\ RowGathers(rows[j], s, a, k)
        BY <1>4, <2>8, <3>2
      <4>2. rows[j].year # Year(a.anchor + (k + 1))
        <5>1. first + j - 1 # y
          BY <2>1, <3>2
        <5> QED
          BY <1>1, <1>2, <4>1, <5>1
      <4>3. RowGathers(rows[j], t, a, k + 1)
        BY <1>2, <4>1, <4>2, RowStays
      <4> QED
        BY <4>1, <4>3
    <3>3. j = n + 1 \/ j \in 1..n
      BY <2>9
    <3> QED
      BY <3>1, <3>2, <3>3
  <2>10. Len(t.rows) = Year(a.anchor + (k + 1)) - first + 1 /\ k + 1 # 0
    BY <1>1, <1>2, <2>1, <2>8
  <2> QED
    BY <1>2, <2>8, <2>9, <2>10 DEF RowsOrdered
<1> QED
  BY <1>8, <1>9

LEMMA RolledStep ==
  ASSUME NEW a, IsInput(a), NEW g \in Int, NEW k \in Nat, NEW s, Rolled(s, a, k),
         NEW t, t = RollMonth(a, g, s, a.anchor + (k + 1))
  PROVE  Rolled(t, a, k + 1)
<1>1. PICK m \in Nat : m = a.anchor + (k + 1)
  BY DEF IsInput
<1>2. MonthlyContribution(a, m) \in Int /\ DividendAfterTax(a, m) \in Int
  BY ContributionType, DividendType
<1>3. s.existing \in Int /\ s.pool \in Int /\ a.other \in Int
  BY DEF Rolled, IsInput
<1>4. PICK p \in Int : p = s.pool + MonthlyContribution(a, m) + DividendAfterTax(a, m)
  BY <1>2, <1>3
<1>5. PICK w \in Int : w = WorthAfter(a, g, s, m)
  <2>1. s.existing * g + p * g + a.other \in Int
    BY <1>3
  <2> QED
    BY <1>4, <2>1 DEF WorthAfter
<1>6. /\ t.existing = s.existing * g /\ t.pool = p * g
      /\ t.months = Append(s.months, PointAt(a, m, w))
  <2>1. t = RollMonth(a, g, s, m)
    BY <1>1
  <2>2. /\ RollMonth(a, g, s, m).existing = s.existing * g
        /\ RollMonth(a, g, s, m).pool
             = (s.pool + MonthlyContribution(a, m) + DividendAfterTax(a, m)) * g
        /\ RollMonth(a, g, s, m).months
             = Append(s.months, PointAt(a, m, WorthAfter(a, g, s, m)))
    BY RollMonthIs
  <2> QED
    BY <1>4, <1>5, <2>1, <2>2
<1>7. t.existing \in Int /\ t.pool \in Int
  BY <1>3, <1>6
<1>8. MonthsRight(s, a, k)
  BY DEF Rolled
<1>9. MonthsRight(t, a, k + 1) /\ Extends(t, s, k, w)
  BY <1>1, <1>6, <1>8, MonthsStep
<1>10. /\ RowsOrdered(t, a, k + 1)
       /\ \A j \in 1..Len(t.rows) : RowGathers(t.rows[j], t, a, k + 1)
  BY <1>1, <1>5, <1>9, RowsStep
<1> QED
  BY <1>7, <1>9, <1>10 DEF Rolled

LEMMA StartRolled ==
  ASSUME NEW a, IsInput(a)
  PROVE  Rolled(Start(a), a, 0)
<1>1. /\ Start(a).existing \in Int /\ Start(a).pool \in Int
      /\ Start(a).rows = <<>> /\ Start(a).months = <<>>
  BY DEF IsInput, Start
<1>2. MonthsRight(Start(a), a, 0)
  BY <1>1 DEF MonthsRight
<1>3. RowsOrdered(Start(a), a, 0)
  BY <1>1 DEF RowsOrdered
<1>4. \A j \in 1..Len(Start(a).rows) : RowGathers(Start(a).rows[j], Start(a), a, 0)
  BY <1>1
<1> QED
  BY <1>1, <1>2, <1>3, <1>4 DEF Rolled

\* What Project returns, whatever the growth.
LEMMA ProjectRolls ==
  ASSUME NEW a, IsInput(a), NEW g \in Int
  PROVE  Rolled(Project(a, g), a, Span(a))
<1>1. PICK n \in Nat : n = Span(a) /\ n = Len(MonthsToRoll(a))
  BY MonthsRolled
<1>2. PICK r : RollEq(r, a, g, n) /\ Project(a, g) = r[n]
  BY <1>1, ProjectSolves
<1> DEFINE C == {k \in 0..n : ~Rolled(r[k], a, k)}
<1>3. CASE C = {}
  <2>1. n \in 0..n
    OBVIOUS
  <2> QED
    BY <1>1, <1>2, <1>3, <2>1
<1>4. CASE C # {}
  <2>1. PICK k \in C : \A j \in C : k <= j
    <3>1. C \subseteq 0..n
      OBVIOUS
    <3> HIDE DEF C
    <3> QED
      BY <1>4, <3>1, LeastNumber
  <2>2. k \in 0..n /\ ~Rolled(r[k], a, k)
    BY <2>1
  <2>3. r[0] = Start(a) /\ (k > 0 => r[k] = RollMonth(a, g, r[k - 1], MonthsToRoll(a)[k]))
    BY <1>2, <2>2, RollEqAt
  <2>4. CASE k = 0
    BY <2>2, <2>3, <2>4, StartRolled
  <2>5. CASE k > 0
    <3>1. k - 1 \in 0..n /\ k - 1 \in Nat /\ k - 1 \notin C /\ k \in 1..n
      BY <2>1, <2>2, <2>5
    <3>2. PICK i \in Nat : i = k - 1 /\ i + 1 = k
      BY <3>1
    <3>3. PICK s : s = r[k - 1] /\ Rolled(s, a, i)
      BY <3>1, <3>2
    <3>4. MonthsToRoll(a)[k] = a.anchor + (i + 1)
      BY <1>1, <3>1, <3>2, MonthsRolled
    <3>5. r[k] = RollMonth(a, g, s, a.anchor + (i + 1))
      BY <2>3, <2>5, <3>3, <3>4
    <3>6. Rolled(r[k], a, i + 1)
      BY <3>3, <3>5, RolledStep
    <3> QED
      BY <2>2, <3>2, <3>6
  <2> QED
    BY <2>2, <2>4, <2>5
<1> QED
  BY <1>3, <1>4

----------------------------------------------------------------------------
(* Where a growth ends.                                                    *)

LEMMA FinalIs ==
  ASSUME NEW a, IsInput(a), NEW g \in Int
  PROVE  /\ Final(a, g) \in Int
         /\ Project(a, g).months \in Seq(MonthPoint)
         /\ Len(Project(a, g).months) = Span(a)
         /\ Span(a) > 0 => Final(a, g) = Project(a, g).months[Span(a)].worth
<1> DEFINE s == Project(a, g)
<1>1. PICK k \in Nat : k = Span(a)
  <2>1. Span(a) \in Nat
    BY MonthsRolled
  <2> QED
    BY <2>1
<1>2. Rolled(s, a, k)
  BY <1>1, ProjectRolls
<1> HIDE DEF s
<1>3. s.months \in Seq(MonthPoint) /\ Len(s.months) = k
  BY <1>2 DEF Rolled, MonthsRight
<1>4. PICK rows \in Seq(YearRow), n \in Nat : rows = s.rows /\ n = Len(rows)
  <2>1. s.rows \in Seq(YearRow)
    BY <1>2 DEF Rolled, RowsOrdered
  <2>2. Len(s.rows) \in Nat
    BY <2>1
  <2> QED
    BY <2>1, <2>2
<1>5. Final(a, g) = IF rows = <<>> THEN 0 ELSE rows[n].worth
  <2>1. Last(rows) = rows[n]
    BY <1>4 DEF Last
  <2> QED
    BY <1>1, <1>4, <2>1 DEF Final, s
<1>6. /\ n = IF k = 0 THEN 0 ELSE Year(a.anchor + k) - Year(a.anchor + 1) + 1
      /\ \A j \in 1..n : rows[j].year = Year(a.anchor + 1) + j - 1
      /\ \A j \in 1..n : RowGathers(rows[j], s, a, k)
  BY <1>2, <1>4 DEF Rolled, RowsOrdered
<1>7. CASE k = 0
  <2>1. rows = <<>>
    <3>1. n = 0
      BY <1>6, <1>7
    <3>2. Len(rows) = 0
      BY <1>4, <3>1
    <3> QED
      BY <3>2, EmptySeq
  <2> QED
    BY <1>1, <1>3, <1>5, <1>7, <2>1 DEF s
<1>8. CASE k > 0
  <2>1. PICK x \in Int, y \in Int : x = a.anchor + 1 /\ y = a.anchor + k /\ x <= y
    <3>1. PICK z \in Nat : z = a.anchor
      BY DEF IsInput
    <3>2. z + 1 \in Int /\ z + k \in Int /\ z + 1 <= z + k
      BY <1>8
    <3> QED
      BY <3>1, <3>2
  <2>2. Year(x) \in Int /\ Year(y) \in Int /\ Year(x) <= Year(y)
    BY <2>1, YearsPass
  <2>3. n = Year(y) - Year(x) + 1
    BY <1>6, <1>8, <2>1
  <2>4. n \in 1..n /\ n >= 1
    BY <2>2, <2>3
  <2>5. rows[n].year = Year(y) /\ RowGathers(rows[n], s, a, k)
    <3>1. rows[n].year = Year(x) + n - 1
      BY <1>6, <2>1, <2>4
    <3>2. rows[n].year = Year(y)
      BY <2>2, <2>3, <3>1
    <3> QED
      BY <1>6, <2>4, <3>2
  <2>6. rows # <<>> /\ rows[n] \in YearRow
    <3>1. n \in 1..Len(rows)
      BY <1>4, <2>4
    <3>2. rows[n] \in YearRow
      BY <3>1, ElementOfSeq
    <3> QED
      BY <1>4, <2>4, <3>2
  <2>7. k + 1 \in PointsOf(a, k, rows[n].year) /\ \A p \in PointsOf(a, k, rows[n].year) : p <= k + 1
    <3>1. k + 1 \in 2..k + 1 /\ a.anchor + (k + 1) - 1 = y
      <4>1. PICK z \in Nat : z = a.anchor
        BY DEF IsInput
      <4> QED
        BY <1>8, <2>1, <4>1
    <3>2. \A p \in 2..k + 1 : p <= k + 1
      OBVIOUS
    <3> QED
      BY <2>5, <3>1, <3>2 DEF PointsOf
  <2>8. PICK p \in PointsOf(a, k, rows[n].year) :
          /\ \A q \in PointsOf(a, k, rows[n].year) : q <= p
          /\ rows[n].worth = s.months[p - 1].worth
    BY <2>5 DEF RowGathers
  <2>9. p - 1 = k
    <3>1. p \in Int /\ k + 1 <= p /\ p <= k + 1
      BY <2>7, <2>8 DEF PointsOf
    <3> QED
      BY <3>1
  <2>10. rows[n].worth \in Int
    BY <2>6 DEF YearRow
  <2> QED
    BY <1>1, <1>3, <1>5, <2>6, <2>8, <2>9, <2>10 DEF s
<1> QED
  BY <1>7, <1>8

----------------------------------------------------------------------------
(* The search.                                                             *)

\* Where the plan line of g ends: at the target, as close as growths can tell,
\* or at the bound that the target is beyond.
Reaches(a, g) ==
  \/ g = HiGrowth /\ Final(a, g) < a.target
  \/ g = LoGrowth /\ Final(a, g) > a.target
  \/ Final(a, g) <= a.target /\ (Final(a, g) = a.target \/ Final(a, g + 1) >= a.target)

PlanDrawn ==
  /\ plan.growth \in Nat
  /\ plan.worth = input.stocks + input.other
  /\ plan.years = Project(input, plan.growth).rows
  /\ plan.months = Project(input, plan.growth).months

\* What the ends of the range are to the target, and how much halving is left.
Bracket ==
  /\ Final(input, lo) <= input.target /\ input.target <= Final(input, hi)
  /\ hi - lo <= Power(2, Halvings - halved)

SearchInv ==
  /\ input \in Inputs
  /\ step \in {"high", "low", "halve", "project", "done"}
  /\ lo \in Nat /\ hi \in Nat /\ lo <= hi /\ halved \in 0..Halvings
  /\ step \in {"high", "low"} => lo = LoGrowth /\ hi = HiGrowth /\ halved = 0
  /\ step = "low" => Final(input, hi) >= input.target
  /\ step = "halve" => Bracket
  /\ step = "project" => lo = hi /\ Reaches(input, lo)
  /\ step = "done" => PlanDrawn /\ Reaches(input, plan.growth)

LEMMA InitSearch == ProjectionInit => SearchInv
BY ProjectionAssumption DEF ProjectionInit, SearchInv

LEMMA FinalType ==
  ASSUME SearchInv, NEW g \in Int
  PROVE  Final(input, g) \in Int /\ input.target \in Int /\ IsInput(input)
<1>1. IsInput(input)
  BY ProjectionAssumption DEF SearchInv
<1> QED
  BY <1>1, FinalIs DEF IsInput

LEMMA MidIs ==
  ASSUME lo \in Nat, hi \in Nat, lo <= hi
  PROVE  /\ Mid \in Nat /\ lo <= Mid /\ Mid <= hi
         /\ lo = hi => Mid = lo
         /\ hi - lo <= 1 => Mid = lo
         /\ \A x \in Int : hi - lo <= 2 * x => Mid - lo <= x /\ hi - Mid <= x
BY DEF Mid

LEMMA TryHighSearch ==
  ASSUME SearchInv, TryHigh
  PROVE  SearchInv'
<1>1. /\ input \in Inputs /\ lo \in Nat /\ hi \in Nat /\ lo <= hi /\ halved \in 0..Halvings
      /\ lo = LoGrowth /\ hi = HiGrowth /\ halved = 0
      /\ input' = input /\ hi' = hi /\ halved' = halved /\ plan' = plan
  BY DEF SearchInv, TryHigh
<1>2. Final(input, hi) \in Int /\ input.target \in Int
  BY <1>1, FinalType
<1>3. CASE Final(input, hi) < input.target
  <2>1. step' = "project" /\ lo' = hi
    BY <1>3 DEF TryHigh
  <2>2. Reaches(input, hi)
    BY <1>1, <1>3 DEF Reaches
  <2> QED
    BY <1>1, <2>1, <2>2 DEF SearchInv, Reaches
<1>4. CASE ~(Final(input, hi) < input.target)
  <2>1. step' = "low" /\ lo' = lo
    BY <1>4 DEF TryHigh
  <2>2. Final(input, hi) >= input.target
    BY <1>2, <1>4
  <2> QED
    BY <1>1, <2>1, <2>2 DEF SearchInv
<1> QED
  BY <1>3, <1>4

LEMMA TryLowSearch ==
  ASSUME SearchInv, TryLow
  PROVE  SearchInv'
<1>1. /\ input \in Inputs /\ lo \in Nat /\ hi \in Nat /\ lo <= hi /\ halved \in 0..Halvings
      /\ lo = LoGrowth /\ hi = HiGrowth /\ halved = 0 /\ Final(input, hi) >= input.target
      /\ input' = input /\ lo' = lo /\ halved' = halved /\ plan' = plan
  BY DEF SearchInv, TryLow
<1>2. Final(input, lo) \in Int /\ Final(input, hi) \in Int /\ input.target \in Int
  BY <1>1, FinalType
<1>3. CASE Final(input, lo) > input.target
  <2>1. step' = "project" /\ hi' = lo
    BY <1>3 DEF TryLow
  <2>2. Reaches(input, lo)
    BY <1>1, <1>3 DEF Reaches
  <2> QED
    BY <1>1, <2>1, <2>2 DEF SearchInv, Reaches
<1>4. CASE ~(Final(input, lo) > input.target)
  <2>1. step' = "halve" /\ hi' = hi
    BY <1>4 DEF TryLow
  <2>2. Final(input, lo) <= input.target /\ input.target <= Final(input, hi)
    BY <1>1, <1>2, <1>4
  <2>3. hi - lo <= Power(2, Halvings - halved)
    <3>1. /\ HiGrowth \in Nat /\ LoGrowth \in Nat /\ Halvings \in Nat
          /\ Power(2, Halvings) >= HiGrowth - LoGrowth
      BY ProjectionAssumption
    <3>2. Halvings - halved = Halvings
      BY <1>1, <3>1
    <3>3. Power(2, Halvings) \in Nat
      BY <3>1, PowerType
    <3> QED
      BY <1>1, <3>1, <3>2, <3>3
  <2>4. Bracket'
    BY <1>1, <2>1, <2>2, <2>3 DEF Bracket
  <2> QED
    BY <1>1, <2>1, <2>4 DEF SearchInv
<1> QED
  BY <1>3, <1>4

LEMMA HalveSearch ==
  ASSUME SearchInv, Halve
  PROVE  SearchInv'
<1>1. /\ input \in Inputs /\ lo \in Nat /\ hi \in Nat /\ lo <= hi /\ halved \in 0..Halvings
      /\ step = "halve" /\ step' = step /\ halved < Halvings /\ halved' = halved + 1
      /\ input' = input /\ plan' = plan
      /\ Halvings \in Nat
  BY ProjectionAssumption DEF SearchInv, Halve
<1>2. Bracket
  BY <1>1 DEF SearchInv
<1>3. PICK mid \in Nat, x \in Nat :
        /\ mid = Mid /\ lo <= mid /\ mid <= hi
        /\ x = Power(2, Halvings - halved') /\ mid - lo <= x /\ hi - mid <= x
  <2>1. PICK n \in Nat : n = Halvings - halved' /\ n + 1 = Halvings - halved
    <3>1. Halvings - halved' \in Nat /\ (Halvings - halved') + 1 = Halvings - halved
      BY <1>1
    <3> QED
      BY <3>1
  <2>2. Power(2, n) \in Nat
    BY PowerType
  <2>3. Power(2, n + 1) = 2 * Power(2, n)
    BY PowerStep
  <2>4. hi - lo <= 2 * Power(2, n)
    BY <1>2, <2>1, <2>3 DEF Bracket
  <2>5. Mid \in Nat /\ lo <= Mid /\ Mid <= hi
        /\ Mid - lo <= Power(2, n) /\ hi - Mid <= Power(2, n)
    BY <1>1, <2>2, <2>4, MidIs
  <2> QED
    BY <2>1, <2>2, <2>5
<1>4. Final(input, mid) \in Int /\ input.target \in Int
  BY FinalType
<1>5. halved' \in 0..Halvings
  BY <1>1
<1>6. CASE Final(input, mid) < input.target
  <2>1. lo' = mid /\ hi' = hi
    BY <1>3, <1>6 DEF Halve
  <2>2. Final(input, mid) <= input.target /\ input.target <= Final(input, hi)
    BY <1>2, <1>4, <1>6 DEF Bracket
  <2>3. Bracket'
    BY <1>1, <1>3, <2>1, <2>2 DEF Bracket
  <2> QED
    BY <1>1, <1>3, <1>5, <2>1, <2>3 DEF SearchInv
<1>7. CASE ~(Final(input, mid) < input.target)
  <2>1. hi' = mid /\ lo' = lo
    BY <1>3, <1>7 DEF Halve
  <2>2. Final(input, lo) <= input.target /\ input.target <= Final(input, mid)
    BY <1>2, <1>4, <1>7 DEF Bracket
  <2>3. Bracket'
    BY <1>1, <1>3, <2>1, <2>2 DEF Bracket
  <2> QED
    BY <1>1, <1>3, <1>5, <2>1, <2>3 DEF SearchInv
<1> QED
  BY <1>6, <1>7

LEMMA NewBaselineSearch ==
  ASSUME SearchInv, NewBaseline
  PROVE  SearchInv'
<1>1. /\ input \in Inputs /\ lo \in Nat /\ hi \in Nat /\ lo <= hi /\ halved \in 0..Halvings
      /\ step' = "done" /\ input' = input /\ lo' = lo /\ hi' = hi /\ halved' = halved
  BY DEF SearchInv, NewBaseline
<1>2. Mid \in Nat
  BY <1>1, MidIs
<1>3. Reaches(input, Mid)
  <2>1. CASE step = "project"
    <3>1. lo = hi /\ Reaches(input, lo)
      BY <2>1 DEF SearchInv
    <3>2. Mid = lo
      BY <1>1, <3>1, MidIs
    <3> QED
      BY <3>1, <3>2
  <2>2. CASE step = "halve" /\ halved = Halvings
    <3>1. Bracket
      BY <2>2 DEF SearchInv
    <3>2. hi - lo <= 1
      <4>1. Halvings - halved = 0
        BY <1>1, <2>2
      <4>2. Power(2, 0) = 1
        BY PowerStep
      <4> QED
        BY <3>1, <4>1, <4>2 DEF Bracket
    <3>3. Mid = lo /\ (hi = lo \/ hi = lo + 1)
      <4>1. Mid = lo
        BY <1>1, <3>2, MidIs
      <4> QED
        BY <1>1, <3>2, <4>1
    <3>4. Final(input, lo) \in Int /\ Final(input, hi) \in Int /\ input.target \in Int
      BY <1>1, FinalType
    <3>5. Final(input, lo) <= input.target /\ input.target <= Final(input, hi)
      BY <3>1 DEF Bracket
    <3>6. CASE hi = lo
      <4>1. Final(input, lo) = input.target
        BY <3>4, <3>5, <3>6
      <4> QED
        BY <3>3, <3>5, <4>1 DEF Reaches
    <3>7. CASE hi = lo + 1
      <4>1. Final(input, lo + 1) >= input.target
        BY <3>4, <3>5, <3>7
      <4> QED
        BY <3>3, <3>5, <4>1 DEF Reaches
    <3> QED
      BY <3>3, <3>6, <3>7
  <2> QED
    BY <2>1, <2>2 DEF NewBaseline
<1>4. plan' = [growth |-> Mid, worth |-> input.stocks + input.other,
               years |-> Project(input, Mid).rows, months |-> Project(input, Mid).months]
  BY DEF NewBaseline
<1>5. PlanDrawn' /\ plan'.growth = Mid
  BY <1>1, <1>2, <1>4 DEF PlanDrawn
<1>6. Reaches(input, plan.growth)'
  BY <1>1, <1>3, <1>5 DEF Reaches
<1> QED
  BY <1>1, <1>5, <1>6 DEF SearchInv

LEMMA NextSearch == SearchInv /\ [ProjectionNext]_planVars => SearchInv'
<1> SUFFICES ASSUME SearchInv, [ProjectionNext]_planVars PROVE SearchInv'
  OBVIOUS
<1>1. CASE TryHigh
  BY <1>1, TryHighSearch
<1>2. CASE TryLow
  BY <1>2, TryLowSearch
<1>3. CASE Halve
  BY <1>3, HalveSearch
<1>4. CASE NewBaseline
  BY <1>4, NewBaselineSearch
<1>5. CASE UNCHANGED planVars
  BY <1>5 DEF planVars, SearchInv, Bracket, PlanDrawn, Reaches
<1> QED
  BY <1>1, <1>2, <1>3, <1>4, <1>5 DEF ProjectionNext

LEMMA SearchHolds == ProjectionSpec => []SearchInv
BY InitSearch, NextSearch, PTL DEF ProjectionSpec

----------------------------------------------------------------------------
(* The plan line that NewBaseline returns.                                 *)

LEMMA MaxIs ==
  ASSUME NEW S, NEW x \in S, x \in Int, \A y \in S : y \in Int /\ y <= x
  PROVE  Max(S) = x
<1>1. \E y \in S : \A z \in S : y >= z
  OBVIOUS
<1>2. Max(S) \in S /\ \A z \in S : Max(S) >= z
  BY <1>1 DEF Max
<1>3. Max(S) \in Int /\ Max(S) <= x /\ Max(S) >= x
  BY <1>2
<1> QED
  BY <1>3

LEMMA PlanRolled ==
  ASSUME SearchInv, step = "done"
  PROVE  /\ IsInput(input) /\ plan.growth \in Nat
         /\ plan.worth = input.stocks + input.other
         /\ plan.years = Project(input, plan.growth).rows
         /\ plan.months = Project(input, plan.growth).months
         /\ plan.months \in Seq(MonthPoint) /\ Len(plan.months) = Span(input)
         /\ Rolled(Project(input, plan.growth), input, Span(input))
         /\ Reaches(input, plan.growth)
<1>1. IsInput(input)
  BY ProjectionAssumption DEF SearchInv
<1>2. PlanDrawn /\ Reaches(input, plan.growth)
  BY DEF SearchInv
<1>3. plan.growth \in Nat /\ plan.growth \in Int
  BY <1>2 DEF PlanDrawn
<1>4. Rolled(Project(input, plan.growth), input, Span(input))
  BY <1>1, <1>3, ProjectRolls
<1>5. /\ Project(input, plan.growth).months \in Seq(MonthPoint)
      /\ Len(Project(input, plan.growth).months) = Span(input)
  BY <1>1, <1>3, FinalIs
<1> QED
  BY <1>1, <1>2, <1>3, <1>4, <1>5 DEF PlanDrawn

LEMMA ChartIs ==
  ASSUME SearchInv, step = "done"
  PROVE  /\ Span(input) \in Nat
         /\ Chart \in Seq(MonthPoint) /\ Len(Chart) = Span(input) + 1
         /\ Chart[1].month = input.anchor
         /\ \A p \in 2..Span(input) + 1 : Chart[p] = plan.months[p - 1]
<1>1. /\ plan.months \in Seq(MonthPoint) /\ Len(plan.months) = Span(input)
      /\ IsInput(input) /\ plan.worth = input.stocks + input.other
  BY PlanRolled
<1>2. Span(input) \in Nat
  BY <1>1, MonthsRolled
<1>3. PICK e : e = [month |-> input.anchor, contribution |-> 0, dividend |-> 0, worth |-> plan.worth]
  OBVIOUS
<1>4. e \in MonthPoint /\ e.month = input.anchor
  <2>1. input.anchor \in Int /\ plan.worth \in Int
    BY <1>1 DEF IsInput
  <2> QED
    BY <1>3, <2>1 DEF MonthPoint
<1>5. <<e>> \in Seq(MonthPoint) /\ Len(<<e>>) = 1 /\ <<e>>[1] = e
  BY <1>4
<1>6. Chart = <<e>> \o plan.months
  BY <1>3 DEF Chart
<1>7. /\ Chart \in Seq(MonthPoint) /\ Len(Chart) = Len(<<e>>) + Len(plan.months)
      /\ \A i \in 1..Len(<<e>>) + Len(plan.months) :
           Chart[i] = IF i <= Len(<<e>>) THEN <<e>>[i] ELSE plan.months[i - Len(<<e>>)]
  BY <1>1, <1>5, <1>6, ConcatProperties
<1>8. Len(Chart) = Span(input) + 1
  BY <1>1, <1>2, <1>5, <1>7
<1>9. \A i \in 1..Span(input) + 1 : Chart[i] = IF i <= 1 THEN e ELSE plan.months[i - 1]
  BY <1>1, <1>2, <1>5, <1>7
<1>10. Chart[1] = e
  <2>1. 1 \in 1..Span(input) + 1
    BY <1>2
  <2> QED
    BY <1>9, <2>1
<1>11. \A p \in 2..Span(input) + 1 : Chart[p] = plan.months[p - 1]
  <2>1. ASSUME NEW p \in 2..Span(input) + 1 PROVE Chart[p] = plan.months[p - 1]
    <3>1. p \in 1..Span(input) + 1 /\ ~(p <= 1)
      BY <1>2
    <3> QED
      BY <1>9, <3>1
  <2> QED
    BY <2>1
<1> QED
  BY <1>2, <1>4, <1>7, <1>8, <1>10, <1>11

\* What SolveRequiredGrowth answers brings the plan line to the target, as close
\* as it can tell growths apart, or is the bound that the target is beyond.
THEOREM PlanReaches == ProjectionSpec => []PlanReachesTarget
<1>1. SearchInv => PlanReachesTarget
  <2> SUFFICES ASSUME SearchInv, step = "done", plan.months # <<>> PROVE PlanReachesTarget
    BY DEF PlanReachesTarget
  <2>1. /\ IsInput(input) /\ plan.growth \in Int /\ Reaches(input, plan.growth)
        /\ plan.months \in Seq(MonthPoint) /\ Len(plan.months) = Span(input)
        /\ plan.months = Project(input, plan.growth).months
    BY PlanRolled
  <2>2. /\ Span(input) \in Nat /\ Span(input) > 0
    <3>1. Len(plan.months) \in Nat \ {0}
      BY <2>1, EmptySeq
    <3> QED
      BY <2>1, <3>1
  <2>3. Final(input, plan.growth) = plan.months[Span(input)].worth
    BY <2>1, <2>2, FinalIs
  <2>4. Last(Chart) = plan.months[Span(input)]
    <3>1. /\ Len(Chart) = Span(input) + 1
          /\ \A p \in 2..Span(input) + 1 : Chart[p] = plan.months[p - 1]
      BY ChartIs
    <3>2. Span(input) + 1 \in 2..Span(input) + 1 /\ (Span(input) + 1) - 1 = Span(input)
      BY <2>2
    <3>3. Last(Chart) = Chart[Span(input) + 1]
      BY <3>1 DEF Last
    <3> QED
      BY <3>1, <3>2, <3>3
  <2>5. Last(Chart).worth = Final(input, plan.growth)
    BY <2>3, <2>4
  <2> QED
    BY <2>1, <2>5 DEF PlanReachesTarget, Reaches
<1> QED
  BY <1>1, SearchHolds, PTL

\* The dividend of a month is what the raised payments of its payers come to.
LEMMA DividendIsRaised ==
  ASSUME NEW a, IsInput(a), NEW m \in Nat,
         NEW paying, paying = {k \in DOMAIN a.dividends : MonthOf(m) \in a.dividends[k].months},
         NEW f, \A k \in paying :
                  f[k] = a.dividends[k].amount
                           * Power(a.dividends[k].growth,
                                   Cardinality(RaiseMonths(a.dividends[k], m)))
  PROVE  DividendAfterTax(a, m) = SumOf(f, paying)
<1>1. PICK S, e : S = DOMAIN a.dividends /\ e = [k \in S |-> DividendAt(a.dividends[k], m)]
  OBVIOUS
<1>2. /\ DividendAfterTax(a, m) = SumOf(e, S) /\ IsFiniteSet(S) /\ paying \subseteq S
      /\ \A k \in S : e[k] = DividendAt(a.dividends[k], m)
      /\ \A k \in S : a.dividends[k] \in Dividend
  <2>1. IsFiniteSet(S)
    BY <1>1, DividendType
  <2>2. \A k \in DOMAIN a.dividends : a.dividends[k] \in Dividend
    BY DEF IsInput
  <2> QED
    BY <1>1, <2>1, <2>2 DEF DividendAfterTax
<1>3. \A k \in S : e[k] \in Int
  <2>1. \A k \in DOMAIN a.dividends : DividendAt(a.dividends[k], m) \in Int
    BY DividendType
  <2> QED
    BY <1>1, <1>2, <2>1
<1>4. \A k \in S \ paying : e[k] = 0
  BY <1>1, <1>2 DEF DividendAt, IsPaymentMonth
<1>5. ASSUME NEW k \in paying PROVE e[k] = f[k]
  <2>1. PICK d \in Dividend : d = a.dividends[k] /\ k \in S
    BY <1>2, <1>5
  <2>2. RaisesSinceBase(d, m) = Cardinality(RaiseMonths(d, m))
    BY RaisesAreCounted
  <2>3. IsPaymentMonth(d, m)
    BY <1>5, <2>1 DEF IsPaymentMonth
  <2>4. e[k] = d.amount * Power(d.growth, RaisesSinceBase(d, m))
    BY <1>2, <2>1, <2>3 DEF DividendAt
  <2> QED
    BY <1>5, <2>1, <2>2, <2>4
<1>6. SumOf(e, S) = SumOf(e, paying)
  BY <1>2, <1>3, <1>4, SumNonzero
<1>7. IsFiniteSet(paying)
  BY <1>2, FS_Subset
<1>8. SumOf(e, paying) = SumOf(f, paying)
  BY <1>5, <1>7, SumSame
<1> QED
  BY <1>2, <1>6, <1>8

\* raisesSinceBase agrees with counting the raise months one by one, in every
\* payment of the plan line.
THEOREM PaymentsRaised == ProjectionSpec => []RaisesCounted
<1>1. SearchInv => RaisesCounted
  <2> SUFFICES ASSUME SearchInv, step = "done", NEW i \in DOMAIN plan.months,
                      NEW m, m = plan.months[i].month,
                      NEW paying, paying = {k \in DOMAIN input.dividends :
                                              MonthOf(m) \in input.dividends[k].months},
                      NEW f, f = [k \in paying |->
                                    input.dividends[k].amount
                                      * Power(input.dividends[k].growth,
                                              Cardinality(RaiseMonths(input.dividends[k], m)))]
               PROVE  plan.months[i].dividend = SumOf(f, paying)
    BY DEF RaisesCounted, RaiseMonths
  <2>1. /\ IsInput(input) /\ plan.months \in Seq(MonthPoint) /\ Len(plan.months) = Span(input)
        /\ plan.months = Project(input, plan.growth).months
        /\ Rolled(Project(input, plan.growth), input, Span(input))
    BY PlanRolled
  <2>2. i \in 1..Span(input) /\ Span(input) \in Nat /\ input.anchor \in Nat
    BY <2>1, MonthsRolled
  <2>3. m = input.anchor + i /\ plan.months[i].dividend = DividendAfterTax(input, input.anchor + i)
    BY <2>1, <2>2 DEF Rolled, MonthsRight
  <2>4. m \in Nat
    BY <2>2, <2>3
  <2>5. \A k \in paying : f[k] = input.dividends[k].amount
                                   * Power(input.dividends[k].growth,
                                           Cardinality(RaiseMonths(input.dividends[k], m)))
    OBVIOUS
  <2>6. DividendAfterTax(input, m) = SumOf(f, paying)
    BY <2>1, <2>4, <2>5, DividendIsRaised
  <2> QED
    BY <2>3, <2>6
<1> QED
  BY <1>1, SearchHolds, PTL

----------------------------------------------------------------------------
(* The table of years beside the chart of months.                          *)

\* The months of the chart, and the point of each.
LEMMA ChartMonths ==
  ASSUME SearchInv, step = "done"
  PROVE  /\ \A p \in 1..Span(input) + 1 : Chart[p].month = input.anchor + p - 1
         /\ \A p \in 2..Span(input) + 1 :
              /\ Chart[p].contribution = Contributions(input)[p]
              /\ Chart[p].dividend = Dividends(input)[p]
<1>1. /\ IsInput(input) /\ plan.months = Project(input, plan.growth).months
      /\ Rolled(Project(input, plan.growth), input, Span(input))
  BY PlanRolled
<1>2. Span(input) \in Nat /\ input.anchor \in Nat
  BY <1>1, MonthsRolled
<1>3. Chart[1].month = input.anchor
      /\ \A p \in 2..Span(input) + 1 : Chart[p] = plan.months[p - 1]
  BY ChartIs
<1>4. ASSUME NEW p \in 2..Span(input) + 1
      PROVE  /\ Chart[p].month = input.anchor + p - 1
             /\ Chart[p].contribution = Contributions(input)[p]
             /\ Chart[p].dividend = Dividends(input)[p]
  <2>1. p - 1 \in 1..Span(input) /\ input.anchor + (p - 1) = input.anchor + p - 1
        /\ p \in Nat /\ p >= 1
    BY <1>2
  <2>2. /\ plan.months[p - 1].month = input.anchor + (p - 1)
        /\ plan.months[p - 1].contribution = MonthlyContribution(input, input.anchor + (p - 1))
        /\ plan.months[p - 1].dividend = DividendAfterTax(input, input.anchor + (p - 1))
    BY <1>1, <2>1 DEF Rolled, MonthsRight
  <2>3. /\ Contributions(input)[p] = MonthlyContribution(input, input.anchor + p - 1)
        /\ Dividends(input)[p] = DividendAfterTax(input, input.anchor + p - 1)
    BY <1>1, <2>1, BringsType
  <2> QED
    BY <1>3, <2>1, <2>2, <2>3
<1>5. ASSUME NEW p \in 1..Span(input) + 1 PROVE Chart[p].month = input.anchor + p - 1
  <2>1. p \in 2..Span(input) + 1 \/ p = 1
    BY <1>5
  <2>2. input.anchor + 1 - 1 = input.anchor
    BY <1>2
  <2> QED
    BY <1>3, <1>4, <2>1, <2>2
<1> QED
  BY <1>4, <1>5

\* The years of the table are those of the months after the anchor, in order.
LEMMA YearsOrdered ==
  ASSUME SearchInv, step = "done"
  PROVE  \E n \in Nat :
           /\ DOMAIN plan.years = 1..n
           /\ \A j \in 1..n : plan.years[j].year = Year(input.anchor + 1) + j - 1
           /\ \A j \in 1..n : RowGathers(plan.years[j], plan, input, Span(input))
           /\ n = IF Span(input) = 0 THEN 0
                  ELSE Year(input.anchor + Span(input)) - Year(input.anchor + 1) + 1
<1>1. PICK s : /\ s = Project(input, plan.growth) /\ s.rows = plan.years /\ s.months = plan.months
               /\ Rolled(s, input, Span(input))
  BY PlanRolled
<1>2. RowsOrdered(s, input, Span(input))
      /\ \A j \in 1..Len(s.rows) : RowGathers(s.rows[j], s, input, Span(input))
  BY <1>1 DEF Rolled
<1>3. s.rows \in Seq(YearRow) /\ Len(s.rows) \in Nat /\ DOMAIN s.rows = 1..Len(s.rows)
  BY <1>2, LenProperties DEF RowsOrdered
<1>4. \A j \in 1..Len(s.rows) : RowGathers(s.rows[j], plan, input, Span(input))
  BY <1>1, <1>2 DEF RowGathers
<1> QED
  BY <1>1, <1>2, <1>3, <1>4 DEF RowsOrdered

LEMMA YearsCovered ==
  ASSUME SearchInv, step = "done"
  PROVE  {plan.years[i].year : i \in DOMAIN plan.years} =
           {Year(m) : m \in input.anchor + 1..input.anchor + Span(input)}
<1>1. PICK n \in Nat :
        /\ DOMAIN plan.years = 1..n
        /\ \A j \in 1..n : plan.years[j].year = Year(input.anchor + 1) + j - 1
        /\ \A j \in 1..n : RowGathers(plan.years[j], plan, input, Span(input))
        /\ n = IF Span(input) = 0 THEN 0
               ELSE Year(input.anchor + Span(input)) - Year(input.anchor + 1) + 1
  BY YearsOrdered
<1>2. PICK x \in Nat, k \in Nat : x = input.anchor /\ k = Span(input)
  <2>1. IsInput(input)
    BY PlanRolled
  <2>2. input.anchor \in Nat /\ Span(input) \in Nat
    BY <2>1, MonthsRolled
  <2> QED
    BY <2>2
<1>3. ASSUME NEW j \in 1..n PROVE \E m \in x + 1..x + k : plan.years[j].year = Year(m)
  <2>1. PICK p \in PointsOf(input, k, plan.years[j].year) : TRUE
    <3>1. RowGathers(plan.years[j], plan, input, k)
      BY <1>1, <1>2
    <3> QED
      BY <3>1 DEF RowGathers
  <2>2. p \in 2..k + 1 /\ Year(x + p - 1) = plan.years[j].year
    BY <1>2, <2>1 DEF PointsOf
  <2>3. x + p - 1 \in x + 1..x + k
    BY <2>2
  <2> QED
    BY <2>2, <2>3
<1>4. ASSUME NEW m \in x + 1..x + k PROVE \E j \in 1..n : plan.years[j].year = Year(m)
  <2>1. m \in Int /\ x + 1 \in Int /\ x + k \in Int /\ x + 1 <= m /\ m <= x + k /\ k # 0
    BY <1>4
  <2>2. Year(x + 1) \in Int /\ Year(x + 1) <= Year(m)
    BY <2>1, YearsPass
  <2>3. Year(m) \in Int /\ Year(m) <= Year(x + k)
    BY <2>1, YearsPass
  <2>4. Year(x + k) \in Int
    BY <2>1, YearsPass
  <2>5. n = Year(x + k) - Year(x + 1) + 1
    BY <1>1, <1>2, <2>1
  <2>6. PICK j \in 1..n : j = Year(m) - Year(x + 1) + 1
    <3>1. Year(m) - Year(x + 1) + 1 \in 1..n
      BY <2>2, <2>3, <2>4, <2>5
    <3> QED
      BY <3>1
  <2>7. plan.years[j].year = Year(x + 1) + j - 1
    BY <1>1, <1>2
  <2>8. plan.years[j].year = Year(m)
    BY <2>2, <2>3, <2>6, <2>7
  <2> QED
    BY <2>8
<1>5. DOMAIN plan.years = 1..n
  BY <1>1
<1>6. {plan.years[i].year : i \in DOMAIN plan.years} = {Year(m) : m \in x + 1..x + k}
  <2>1. \A i \in DOMAIN plan.years : \E m \in x + 1..x + k : plan.years[i].year = Year(m)
    BY <1>3, <1>5
  <2>2. \A m \in x + 1..x + k : \E i \in DOMAIN plan.years : plan.years[i].year = Year(m)
    BY <1>4, <1>5
  <2> QED
    BY <2>1, <2>2, Zenon
<1> QED
  BY <1>2, <1>6

LEMMA RowMatches ==
  ASSUME SearchInv, step = "done", NEW i \in DOMAIN plan.years,
         NEW points, points = {p \in 2..Len(Chart) : Year(Chart[p].month) = plan.years[i].year}
  PROVE  /\ plan.years[i].contributed
              = SumOf([p \in points |-> Chart[p].contribution], points)
         /\ plan.years[i].dividend = SumOf([p \in points |-> Chart[p].dividend], points)
         /\ plan.years[i].worth = Chart[Max(points)].worth
<1>1. RowGathers(plan.years[i], plan, input, Span(input))
  BY YearsOrdered
<1>2. PICK row : row = plan.years[i]
  OBVIOUS
<1>3. PICK k \in Nat : k = Span(input)
  BY ChartIs
<1>4. Len(Chart) = k + 1 /\ \A p \in 2..k + 1 : Chart[p] = plan.months[p - 1]
  BY <1>3, ChartIs
<1>5. \A p \in 2..k + 1 : /\ Chart[p].month = input.anchor + p - 1
                          /\ Chart[p].contribution = Contributions(input)[p]
                          /\ Chart[p].dividend = Dividends(input)[p]
  <2>1. \A p \in 2..k + 1 : p \in 1..k + 1
    OBVIOUS
  <2> QED
    BY <1>3, <2>1, ChartMonths
<1>6. points = PointsOf(input, k, row.year)
  BY <1>2, <1>3, <1>4, <1>5 DEF PointsOf
<1>7. IsFiniteSet(points) /\ \A p \in points : p \in 2..k + 1
  <2>1. input.anchor \in Nat
    <3>1. IsInput(input)
      BY PlanRolled
    <3> QED
      BY <3>1 DEF IsInput
  <2> QED
    BY <1>6, <2>1, PointsGrow
<1>8. /\ row.contributed = SumOf(Contributions(input), points)
      /\ row.dividend = SumOf(Dividends(input), points)
      /\ \E p \in points : (\A q \in points : q <= p) /\ row.worth = plan.months[p - 1].worth
  BY <1>1, <1>2, <1>3, <1>6 DEF RowGathers
<1>9. PICK f : f = [p \in points |-> Chart[p].contribution]
  OBVIOUS
<1>10. SumOf(Contributions(input), points) = SumOf(f, points)
  <2>1. \A p \in points : Contributions(input)[p] = f[p]
    BY <1>5, <1>7, <1>9
  <2> QED
    BY <1>7, <2>1, SumSame
<1>11. PICK e : e = [p \in points |-> Chart[p].dividend]
  OBVIOUS
<1>12. SumOf(Dividends(input), points) = SumOf(e, points)
  <2>1. \A p \in points : Dividends(input)[p] = e[p]
    BY <1>5, <1>7, <1>11
  <2> QED
    BY <1>7, <2>1, SumSame
<1>13. row.worth = Chart[Max(points)].worth
  <2>1. PICK p \in points : (\A q \in points : q <= p) /\ row.worth = plan.months[p - 1].worth
    BY <1>8
  <2>2. p \in Int /\ \A q \in points : q \in Int /\ q <= p
    BY <1>7, <2>1
  <2>3. Max(points) = p
    BY <2>2, MaxIs
  <2>4. Chart[p] = plan.months[p - 1]
    BY <1>4, <1>7
  <2> QED
    BY <2>1, <2>3, <2>4
<1> QED
  BY <1>2, <1>8, <1>9, <1>10, <1>11, <1>12, <1>13

\* The yearly table says what the monthly chart says: every year of the plan line
\* once, in order, with what its months bring and where the last one ends.
THEOREM TableIsChart == ProjectionSpec => []TableMatchesChart
<1>1. SearchInv => TableMatchesChart
  <2> SUFFICES ASSUME SearchInv, step = "done" PROVE TableMatchesChart
    BY DEF TableMatchesChart
  <2>1. PICK k \in Nat, x \in Nat : k = Span(input) /\ x = input.anchor /\ input.end \in Nat
    <3>1. IsInput(input)
      BY PlanRolled
    <3>2. input.anchor \in Nat /\ Span(input) \in Nat /\ input.end \in Nat
      BY <3>1, MonthsRolled DEF IsInput
    <3> QED
      BY <3>2
  <2>2. Max({input.anchor, input.end}) = x + k
    <3>1. x + k \in {input.anchor, input.end} /\ \A y \in {input.anchor, input.end} : y <= x + k
      BY <2>1 DEF Span
    <3>2. \A y \in {input.anchor, input.end} : y \in Int
      BY <2>1
    <3> QED
      BY <2>1, <3>1, <3>2, MaxIs
  <2>3. Chart \in Seq(MonthPoint) /\ Len(Chart) = k + 1 /\ DOMAIN Chart = 1..k + 1
    <3>1. Chart \in Seq(MonthPoint) /\ Len(Chart) = k + 1
      BY <2>1, ChartIs
    <3> QED
      BY <3>1, LenProperties
  <2>4. [i \in DOMAIN Chart |-> Chart[i].month] = [i \in 1..(x + k - x + 1) |-> x + i - 1]
    <3>1. x + k - x + 1 = k + 1
      BY <2>1
    <3>2. \A i \in 1..k + 1 : Chart[i].month = x + i - 1
      BY <2>1, ChartMonths
    <3> QED
      BY <2>3, <3>1, <3>2
  <2>5. {plan.years[i].year : i \in DOMAIN plan.years} = {Year(m) : m \in x + 1..x + k}
    BY <2>1, YearsCovered
  <2>6. ASSUME NEW i \in DOMAIN plan.years, NEW j \in DOMAIN plan.years, i < j
        PROVE  plan.years[i].year < plan.years[j].year
    <3>1. PICK n \in Nat :
            /\ DOMAIN plan.years = 1..n
            /\ \A l \in 1..n : plan.years[l].year = Year(input.anchor + 1) + l - 1
      BY YearsOrdered
    <3>2. Year(input.anchor + 1) \in Int
      <4>1. input.anchor + 1 \in Int
        BY <2>1
      <4> QED
        BY <4>1, YearsPass
    <3>3. i \in 1..n /\ j \in 1..n
      BY <3>1
    <3>4. /\ plan.years[i].year = Year(input.anchor + 1) + i - 1
          /\ plan.years[j].year = Year(input.anchor + 1) + j - 1
      BY <3>1, <3>3
    <3> QED
      BY <2>6, <3>2, <3>3, <3>4
  <2>7. ASSUME NEW i \in DOMAIN plan.years
        PROVE  LET row == plan.years[i]
                   points == {p \in 2..Len(Chart) : Year(Chart[p].month) = row.year}
               IN /\ row.contributed = SumOf([p \in points |-> Chart[p].contribution], points)
                  /\ row.dividend = SumOf([p \in points |-> Chart[p].dividend], points)
                  /\ row.worth = Chart[Max(points)].worth
    BY <2>7, RowMatches
  <2>8. [i \in DOMAIN Chart |-> Chart[i].month] =
          [i \in 1..(Max({input.anchor, input.end}) - input.anchor + 1) |-> input.anchor + i - 1]
    BY <2>1, <2>2, <2>4
  <2>9. {plan.years[i].year : i \in DOMAIN plan.years} =
          {Year(m) : m \in input.anchor + 1..Max({input.anchor, input.end})}
    BY <2>1, <2>2, <2>5
  <2> HIDE DEF Chart
  <2> QED
    BY <2>6, <2>7, <2>8, <2>9, Zenon DEF TableMatchesChart
<1> QED
  BY <1>1, SearchHolds, PTL
=============================================================================
