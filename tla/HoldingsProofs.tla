--------------------------- MODULE HoldingsProofs ---------------------------
(***************************************************************************)
(* Proofs about Holdings and Saving: their invariants hold for any number  *)
(* of holdings, assets, requests in flight and failures; served in turn,   *)
(* the trades of Holdings implement Position.  The statements and the moves *)
(* of a goroutine each have a lemma; the proof about a handler cites those  *)
(* of the statements it issues.                                            *)
(***************************************************************************)
EXTENDS Saving, FiniteSetTheorems, WellFoundedInduction, TLAPS

----------------------------------------------------------------------------
(* Sums over finite sets. *)

\* Induction over the subsets of a finite set, by the smallest that fails.
LEMMA SmallestSubset ==
  ASSUME NEW S, IsFiniteSet(S), NEW C, C \subseteq SUBSET S, C # {}
  PROVE  \E s \in C : \A t \in C : t \subseteq s => t = s
<1>1. FiniteSubsetsOf(S) = SUBSET S
  BY FS_FiniteSubsetsOfFinite
<1>2. PICK s \in C : \A t \in C : <<t, s>> \notin StrictSubsetOrdering(S)
  BY <1>1, FS_StrictSubsetOrderingWellFounded, WFMin
<1>3. ASSUME NEW t \in C, t \subseteq s PROVE t = s
  BY <1>2, <1>3 DEF StrictSubsetOrdering
<1> QED
  BY <1>3

Pick(s) == CHOOSE x \in s : TRUE

Rest(s) == s \ {Pick(s)}

\* The equation by which g sums f over each subset of S.
Sums(g, f, S) ==
  g = [s \in SUBSET S |-> IF s = {} THEN 0 ELSE f[Pick(s)] + g[Rest(s)]]

LEMMA PickRest ==
  ASSUME NEW s, s # {}
  PROVE  Pick(s) \in s /\ Rest(s) \subseteq s /\ Rest(s) # s /\ s = Rest(s) \cup {Pick(s)}
         /\ Pick(s) \notin Rest(s)
BY DEF Pick, Rest

LEMMA SumsAt ==
  ASSUME NEW g, NEW f, NEW S, Sums(g, f, S)
  PROVE  /\ g[{}] = 0
         /\ \A s \in SUBSET S : s # {} => g[s] = f[Pick(s)] + g[Rest(s)]
<1>1. g = [s \in SUBSET S |-> IF s = {} THEN 0 ELSE f[Pick(s)] + g[Rest(s)]]
  BY DEF Sums
<1> QED
  BY <1>1

\* What a solution says of a finite set depends on f there only.
LEMMA SumsAgree ==
  ASSUME NEW f, NEW g, NEW S, Sums(g, f, S),
         NEW e, NEW h, NEW T, Sums(h, e, T),
         NEW R, IsFiniteSet(R), R \subseteq S \cap T, \A x \in R : f[x] = e[x]
  PROVE  g[R] = h[R]
<1> DEFINE C == {s \in SUBSET R : g[s] # h[s]}
<1>1. CASE C = {}
  BY <1>1
<1>2. CASE C # {}
  <2>1. PICK s \in C : \A t \in C : t \subseteq s => t = s
    <3>1. C \subseteq SUBSET R
      OBVIOUS
    <3> HIDE DEF C
    <3> QED
      BY <1>2, <3>1, SmallestSubset
  <2>2. s # {}
    BY SumsAt
  <2>3. Rest(s) \notin C /\ Rest(s) \in SUBSET R /\ Pick(s) \in R
    BY <2>1, <2>2, PickRest
  <2>4. g[s] = f[Pick(s)] + g[Rest(s)] /\ h[s] = e[Pick(s)] + h[Rest(s)]
    BY <2>2, SumsAt
  <2> QED
    BY <2>3, <2>4
<1> QED
  BY <1>1, <1>2

LEMMA SumsExists ==
  ASSUME NEW f, NEW S, IsFiniteSet(S)
  PROVE  \E g : Sums(g, f, S)
<1> DEFINE C == {s \in SUBSET S : ~ \E g : Sums(g, f, s)}
<1>1. CASE C = {}
  BY <1>1
<1>2. CASE C # {}
  <2>1. PICK T \in C : \A t \in C : t \subseteq T => t = T
    <3>1. C \subseteq SUBSET S
      OBVIOUS
    <3> HIDE DEF C
    <3> QED
      BY <1>2, <3>1, SmallestSubset
  <2> DEFINE Sol(u) == CHOOSE g : Sums(g, f, u)
             h == [s \in SUBSET T |->
                     IF s = {} THEN 0 ELSE f[Pick(s)] + Sol(Rest(s))[Rest(s)]]
  <2>2. ASSUME NEW u \in SUBSET T, u # T PROVE Sums(Sol(u), f, u)
    <3>1. \E g : Sums(g, f, u)
      BY <2>1, <2>2
    <3> QED
      BY <3>1
  <2>3. ASSUME NEW s \in SUBSET T, s # {} PROVE h[Rest(s)] = Sol(Rest(s))[Rest(s)]
    <3> DEFINE u == Rest(s)
    <3>1. u \in SUBSET T /\ u # T
      BY <2>3, PickRest
    <3>2. Sums(Sol(u), f, u)
      BY <3>1, <2>2
    <3> HIDE DEF Sol
    <3>3. CASE u = {}
      BY <3>1, <3>2, <3>3, SumsAt
    <3>4. CASE u # {}
      <4>1. Rest(u) \in SUBSET T /\ Rest(u) # T /\ Rest(u) \in SUBSET u
        BY <3>1, <3>4, PickRest
      <4>2. Sums(Sol(Rest(u)), f, Rest(u))
        BY <4>1, <2>2
      <4>3. IsFiniteSet(Rest(u))
        BY <4>1, FS_Subset
      <4>4. Sol(u)[Rest(u)] = Sol(Rest(u))[Rest(u)]
        BY <3>2, <4>1, <4>2, <4>3, SumsAgree
      <4>5. Sol(u)[u] = f[Pick(u)] + Sol(u)[Rest(u)]
        BY <3>2, <3>4, SumsAt
      <4>6. h[u] = f[Pick(u)] + Sol(Rest(u))[Rest(u)]
        BY <3>1, <3>4
      <4> QED
        BY <4>4, <4>5, <4>6
    <3> QED
      BY <3>3, <3>4
  <2>4. ASSUME NEW s \in SUBSET T
        PROVE  (IF s = {} THEN 0 ELSE f[Pick(s)] + Sol(Rest(s))[Rest(s)])
                 = (IF s = {} THEN 0 ELSE f[Pick(s)] + h[Rest(s)])
    <3> HIDE DEF h, Sol
    <3> QED
      BY <2>3, <2>4
  <2>5. h = [s \in SUBSET T |-> IF s = {} THEN 0 ELSE f[Pick(s)] + h[Rest(s)]]
    <3> HIDE DEF Sol
    <3>1. h = [s \in SUBSET T |->
                 IF s = {} THEN 0 ELSE f[Pick(s)] + Sol(Rest(s))[Rest(s)]]
      OBVIOUS
    <3> HIDE DEF h
    <3> QED
      BY <2>4, <3>1
  <2>6. Sums(h, f, T)
    BY <2>5 DEF Sums
  <2> QED
    BY <2>6
<1> QED
  BY <1>1, <1>2

LEMMA SumSolves ==
  ASSUME NEW f, NEW S, IsFiniteSet(S)
  PROVE  \E g : Sums(g, f, S) /\ SumOf(f, S) = g[S]
<1>1. SumOf(f, S) = (CHOOSE g : Sums(g, f, S))[S]
  BY DEF SumOf, MapThenSumSet, MapThenFoldSet, Sums, Pick, Rest
<1>2. Sums(CHOOSE g : Sums(g, f, S), f, S)
  BY SumsExists
<1> QED
  BY <1>1, <1>2

\* A sum depends on what is summed only.
LEMMA SumSame ==
  ASSUME NEW f, NEW e, NEW S, IsFiniteSet(S), \A x \in S : f[x] = e[x]
  PROVE  SumOf(f, S) = SumOf(e, S)
BY SumSolves, SumsAgree

LEMMA SumEmpty ==
  ASSUME NEW f
  PROVE  SumOf(f, {}) = 0
BY SumSolves, SumsAt, FS_EmptySet

\* A solution gives whole numbers, and any element may be taken first.
LEMMA SumsInt ==
  ASSUME NEW g, NEW f, NEW S, IsFiniteSet(S), Sums(g, f, S), \A x \in S : f[x] \in Int
  PROVE  g[S] \in Int
<1> DEFINE C == {s \in SUBSET S : g[s] \notin Int}
<1>1. CASE C = {}
  BY <1>1
<1>2. CASE C # {}
  <2>1. PICK s \in C : \A t \in C : t \subseteq s => t = s
    <3>1. C \subseteq SUBSET S
      OBVIOUS
    <3> HIDE DEF C
    <3> QED
      BY <1>2, <3>1, SmallestSubset
  <2>2. s # {}
    <3>1. g[{}] = 0
      BY SumsAt
    <3>2. g[s] \notin Int
      BY <2>1
    <3>3. s = {} => g[s] = g[{}]
      OBVIOUS
    <3>4. 0 \in Int
      OBVIOUS
    <3> QED
      BY <3>1, <3>2, <3>3, <3>4
  <2>3. Rest(s) \notin C /\ Rest(s) \in SUBSET S /\ Pick(s) \in S
    BY <2>1, <2>2, PickRest
  <2>4. g[s] = f[Pick(s)] + g[Rest(s)]
    BY <2>2, SumsAt
  <2> QED
    BY <2>3, <2>4
<1> QED
  BY <1>1, <1>2

LEMMA SumInt ==
  ASSUME NEW f, NEW S, IsFiniteSet(S), \A x \in S : f[x] \in Int
  PROVE  SumOf(f, S) \in Int
BY SumSolves, SumsInt

LEMMA SumChosen ==
  ASSUME NEW f, NEW S, IsFiniteSet(S), S # {}
  PROVE  SumOf(f, S) = f[Pick(S)] + SumOf(f, Rest(S))
<1>1. PICK g : Sums(g, f, S) /\ SumOf(f, S) = g[S]
  BY SumSolves
<1>2. IsFiniteSet(Rest(S)) /\ Rest(S) \subseteq S
  BY FS_Subset DEF Rest
<1>3. PICK h : Sums(h, f, Rest(S)) /\ SumOf(f, Rest(S)) = h[Rest(S)]
  BY <1>2, SumSolves
<1>4. g[Rest(S)] = h[Rest(S)]
  BY <1>1, <1>2, <1>3, SumsAgree
<1> QED
  BY <1>1, <1>3, <1>4, SumsAt

LEMMA SumTake ==
  ASSUME NEW f, NEW S, IsFiniteSet(S), NEW x \in S, \A y \in S : f[y] \in Int
  PROVE  SumOf(f, S) = f[x] + SumOf(f, S \ {x})
<1> DEFINE C == {s \in SUBSET S : \E y \in s : SumOf(f, s) # f[y] + SumOf(f, s \ {y})}
<1>1. CASE C = {}
  BY <1>1
<1>2. CASE C # {}
  <2>1. PICK s \in C : \A t \in C : t \subseteq s => t = s
    <3>1. C \subseteq SUBSET S
      OBVIOUS
    <3> HIDE DEF C
    <3> QED
      BY <1>2, <3>1, SmallestSubset
  <2>2. PICK y \in s : SumOf(f, s) # f[y] + SumOf(f, s \ {y})
    BY <2>1
  <2> DEFINE p == Pick(s)
             u == s \ {p, y}
  <2>3. p \in s /\ Rest(s) = s \ {p} /\ IsFiniteSet(s) /\ s \subseteq S
    BY <2>1, <2>2, PickRest, FS_Subset DEF Rest
  <2>4. SumOf(f, s) = f[p] + SumOf(f, s \ {p})
    BY <2>3, SumChosen
  <2> HIDE DEF p
  <2>5. p # y
    BY <2>2, <2>4
  <2>6. s \ {p} \notin C /\ s \ {y} \notin C
    BY <2>1, <2>2, <2>3
  <2>7. SumOf(f, s \ {p}) = f[y] + SumOf(f, u)
    <3>1. y \in s \ {p} /\ (s \ {p}) \ {y} = u
      BY <2>2, <2>5
    <3> QED
      BY <2>3, <2>6, <3>1
  <2>8. SumOf(f, s \ {y}) = f[p] + SumOf(f, u)
    <3>1. p \in s \ {y} /\ (s \ {y}) \ {p} = u
      BY <2>3, <2>5
    <3> QED
      BY <2>3, <2>6, <3>1
  <2>9. SumOf(f, u) \in Int /\ f[p] \in Int /\ f[y] \in Int
    BY <2>2, <2>3, FS_Subset, SumInt
  <2> QED
    BY <2>2, <2>4, <2>7, <2>8, <2>9
<1> QED
  BY <1>1, <1>2

LEMMA SumAdd ==
  ASSUME NEW f, NEW S, IsFiniteSet(S), NEW x, x \notin S, \A y \in S \cup {x} : f[y] \in Int
  PROVE  SumOf(f, S \cup {x}) = SumOf(f, S) + f[x]
<1>1. (S \cup {x}) \ {x} = S /\ IsFiniteSet(S \cup {x})
  BY FS_AddElement
<1>2. SumOf(f, S \cup {x}) = f[x] + SumOf(f, S)
  BY <1>1, SumTake
<1> QED
  BY <1>2, SumInt

\* Of whole numbers that are not negative, a part sums to no more.
LEMMA SumPart ==
  ASSUME NEW f, NEW S, IsFiniteSet(S), NEW T, T \subseteq S, \A x \in S : f[x] \in Nat
  PROVE  SumOf(f, T) <= SumOf(f, S)
<1> DEFINE C == {s \in SUBSET S : T \subseteq s /\ ~(SumOf(f, T) <= SumOf(f, s))}
<1>1. CASE C = {}
  BY <1>1
<1>2. CASE C # {}
  <2>1. PICK s \in C : \A t \in C : t \subseteq s => t = s
    <3>1. C \subseteq SUBSET S
      OBVIOUS
    <3> HIDE DEF C
    <3> QED
      BY <1>2, <3>1, SmallestSubset
  <2>2. IsFiniteSet(s) /\ IsFiniteSet(T) /\ s \subseteq S
    BY <2>1, FS_Subset
  <2>3. SumOf(f, T) \in Int
    BY <2>2, SumInt
  <2>4. s # T
    BY <2>1, <2>3
  <2>5. PICK x \in s : x \notin T
    BY <2>1, <2>4
  <2>6. IsFiniteSet(s \ {x}) /\ s \ {x} \subseteq S /\ T \subseteq s \ {x}
    BY <2>1, <2>2, <2>5, FS_Subset
  <2>7. SumOf(f, T) <= SumOf(f, s \ {x})
    BY <2>1, <2>5, <2>6
  <2>8. SumOf(f, s) = f[x] + SumOf(f, s \ {x}) /\ SumOf(f, s \ {x}) \in Int /\ f[x] \in Nat
    BY <2>2, <2>6, SumTake, SumInt
  <2> QED
    BY <2>1, <2>3, <2>7, <2>8
<1> QED
  BY <1>1, <1>2

LEMMA SumNat ==
  ASSUME NEW f, NEW S, IsFiniteSet(S), \A x \in S : f[x] \in Nat
  PROVE  SumOf(f, S) \in Nat
<1>1. SumOf(f, {}) <= SumOf(f, S)
  BY SumPart
<1> QED
  BY <1>1, SumEmpty, SumInt

LEMMA SumWithout ==
  ASSUME NEW f, NEW S, IsFiniteSet(S), NEW x, \A y \in S : f[y] \in Int
  PROVE  /\ IsFiniteSet(S \ {x}) /\ SumOf(f, S) \in Int
         /\ SumOf(f, S \ {x}) = SumOf(f, S) - (IF x \in S THEN f[x] ELSE 0)
<1>1. IsFiniteSet(S \ {x})
  BY FS_Subset
<1>2. SumOf(f, S \ {x}) \in Int /\ SumOf(f, S) \in Int
  BY <1>1, SumInt
<1>3. CASE x \in S
  <2>1. SumOf(f, S) = f[x] + SumOf(f, S \ {x}) /\ f[x] \in Int
    BY <1>3, SumTake
  <2> QED
    BY <1>1, <1>2, <1>3, <2>1
<1>4. CASE x \notin S
  <2>1. S \ {x} = S
    BY <1>4
  <2>2. SumOf(f, S \ {x}) = SumOf(f, S)
    BY <2>1
  <2> QED
    BY <1>1, <1>2, <1>4, <2>2
<1> QED
  BY <1>3, <1>4

\* A sum when at most one element has come, gone or changed.
Moved(f, S, e, T, x) ==
  /\ SumOf(f, S) \in Int /\ SumOf(e, T) \in Int
  /\ SumOf(e, T) = SumOf(f, S) - (IF x \in S THEN f[x] ELSE 0)
                               + (IF x \in T THEN e[x] ELSE 0)

LEMMA SumMove ==
  ASSUME NEW f, NEW e, NEW S, NEW T, NEW x, IsFiniteSet(S), S \ {x} = T \ {x},
         \A y \in S : f[y] \in Int, \A y \in T : e[y] \in Int,
         \A y \in S \ {x} : e[y] = f[y]
  PROVE  /\ IsFiniteSet(T)
         /\ Moved(f, S, e, T, x)
<1>1. /\ IsFiniteSet(S \ {x}) /\ SumOf(f, S) \in Int
      /\ SumOf(f, S \ {x}) = SumOf(f, S) - (IF x \in S THEN f[x] ELSE 0)
  BY SumWithout
<1>2. IsFiniteSet(T)
  <2>1. IsFiniteSet((T \ {x}) \cup {x})
    BY <1>1, FS_AddElement
  <2>2. T \subseteq (T \ {x}) \cup {x}
    OBVIOUS
  <2> QED
    BY <2>1, <2>2, FS_Subset
<1>3. /\ SumOf(e, T) \in Int
      /\ SumOf(e, T \ {x}) = SumOf(e, T) - (IF x \in T THEN e[x] ELSE 0)
  BY <1>2, SumWithout
<1>4. SumOf(f, S \ {x}) = SumOf(e, T \ {x})
  <2>1. SumOf(f, S \ {x}) = SumOf(e, S \ {x})
    BY <1>1, SumSame
  <2> QED
    BY <2>1
<1>5. (x \in S => f[x] \in Int) /\ (x \in T => e[x] \in Int)
  OBVIOUS
<1> QED
  BY <1>1, <1>2, <1>3, <1>4, <1>5 DEF Moved

----------------------------------------------------------------------------
(* The parts of the type invariant. *)

TablesOK ==
  /\ issued \subseteq Stocks
  /\ DOMAIN stocks \subseteq issued
  /\ stocks \in [DOMAIN stocks -> Row]
  /\ \A s \in DOMAIN stocks : stocks[s].quantity > 0

\* What the copy of a request has to satisfy before it is written or logged.
LocalOK(local) ==
  local.pc \in {"check", "log", "write"} =>
    /\ local.row.quantity > 0
    /\ local.op = "sell" => local.quantity \in 1..local.row.quantity

LocalsOK ==
  /\ req \in [Requests -> Request]
  /\ \A r \in Requests : LocalOK(req[r])

LEMMA TypeOKParts ==
  TypeOK <=> /\ TablesOK
             /\ log \subseteq LogEntry
             /\ LocalsOK
             /\ faults \in 0..MaxFaults
BY DEF TypeOK, TablesOK, LocalsOK, LocalOK, InFlight

\* The blank row a goroutine starts and ends with is a row.
LEMMA BlankIsRow == Blank \in Row
BY HoldingsAssumption DEF Blank, Row

----------------------------------------------------------------------------
(* Statements keep the tables well formed. *)

LEMMA InsertOK ==
  ASSUME TablesOK, NEW s \in Stocks, NEW row \in Row, row.quantity > 0,
         Insert(s, row)
  PROVE  TablesOK'
BY DEF TablesOK, Insert

LEMMA UpdateOK ==
  ASSUME TablesOK, NEW s, NEW row \in Row, row.quantity > 0,
         Update(s, row), UNCHANGED issued
  PROVE  TablesOK'
<1> DEFINE new == [row EXCEPT !.user = stocks[s].user]
<1>1. new \in Row /\ new.quantity > 0
  BY DEF TablesOK, Update, Row
<1>2. stocks' = [stocks EXCEPT ![s] = new] /\ s \in DOMAIN stocks
  BY DEF Update
<1> HIDE DEF new
<1> QED
  BY <1>1, <1>2 DEF TablesOK

LEMMA DeleteOK ==
  ASSUME TablesOK, NEW s, Delete(s), UNCHANGED issued
  PROVE  TablesOK'
BY DEF TablesOK, Delete

LEMMA FaultsOK ==
  ASSUME faults \in 0..MaxFaults, Ok \/ Fault
  PROVE  faults' \in 0..MaxFaults
BY HoldingsAssumption DEF Ok, Fault

LEMMA EntryOK ==
  ASSUME LocalsOK, NEW r \in Requests, NEW type \in {"buy", "sell"}
  PROVE  Entry(r, type) \in LogEntry
<1>1. req[r] \in Request /\ r \in Lots
  BY HoldingsAssumption DEF LocalsOK
<1> QED
  BY <1>1 DEF Entry, LogEntry, Request, Row

LEMMA LogOrWarnOK ==
  ASSUME LocalsOK, log \subseteq LogEntry,
         NEW r \in Requests, NEW type \in {"buy", "sell"}, LogOrWarn(r, type)
  PROVE  log' \subseteq LogEntry /\ (Ok \/ Fault)
BY EntryOK DEF LogOrWarn, Append

----------------------------------------------------------------------------
(* Moves of a goroutine keep what it holds well formed. *)

LEMMA OpenOK ==
  ASSUME LocalsOK, NEW r \in Requests, NEW local \in Request, LocalOK(local),
         Open(r, local)
  PROVE  LocalsOK'
<1>1. req' = [req EXCEPT ![r] = local]
  BY DEF Open
<1> QED
  BY <1>1 DEF LocalsOK

LEMMA GotoOK ==
  ASSUME LocalsOK, NEW r \in Requests, NEW pc \in {"log", "write"},
         req[r].pc \in {"check", "log", "write"}, Goto(r, pc)
  PROVE  LocalsOK'
<1> DEFINE local == [req[r] EXCEPT !.pc = pc]
<1>1. req' = [req EXCEPT ![r] = local]
  BY DEF Goto, LocalsOK
<1>2. local \in Request
  BY DEF LocalsOK, Request
<1>3. LocalOK(local)
  BY DEF LocalsOK, LocalOK, Request
<1> HIDE DEF local
<1> QED
  BY <1>1, <1>2, <1>3 DEF LocalsOK

LEMMA EndOK ==
  ASSUME LocalsOK, NEW r \in Requests, NEW pc \in {"ok", "error", "lost"}
  PROVE  /\ [req[r] EXCEPT !.pc = pc, !.row = Blank] \in Request
         /\ LocalOK([req[r] EXCEPT !.pc = pc, !.row = Blank])
BY BlankIsRow DEF LocalsOK, LocalOK, Request

LEMMA ReplyOK ==
  ASSUME LocalsOK, NEW r \in Requests, NEW pc \in {"ok", "error"}, Reply(r, pc)
  PROVE  LocalsOK'
<1> DEFINE local == [req[r] EXCEPT !.pc = pc, !.row = Blank]
<1>1. req' = [req EXCEPT ![r] = local]
  BY DEF Reply, LocalsOK, Request
<1>2. local \in Request /\ LocalOK(local)
  BY EndOK
<1> HIDE DEF local
<1> QED
  BY <1>1, <1>2 DEF LocalsOK

LEMMA TypeOKNext ==
  ASSUME TablesOK', log' \subseteq LogEntry, LocalsOK', faults' \in 0..MaxFaults
  PROVE  TypeOK'
BY DEF TypeOK, TablesOK, LocalsOK, LocalOK, InFlight

LEMMA WriteFailsOK ==
  ASSUME TypeOK, NEW r \in Requests, WriteFails(r), UNCHANGED issued
  PROVE  TablesOK' /\ LocalsOK' /\ (Ok \/ Fault)
<1>1. LocalsOK'
  BY ReplyOK, TypeOKParts DEF WriteFails
<1>2. TablesOK'
  BY TypeOKParts DEF WriteFails, TablesOK
<1> QED
  BY <1>1, <1>2 DEF WriteFails

----------------------------------------------------------------------------
(* Every handler keeps the type invariant. *)

LEMMA InitTypeOK == Init => TypeOK
<1> SUFFICES ASSUME Init PROVE TypeOK
  OBVIOUS
<1>1. \A s \in DOMAIN stocks : stocks[s] \in Row /\ stocks[s].quantity > 0
  BY HoldingsAssumption DEF Init, Row
<1>2. req \in [Requests -> Request]
  BY HoldingsAssumption, BlankIsRow DEF Init, Request
<1>3. InFlight = {}
  BY DEF Init, InFlight
<1> QED
  BY <1>1, <1>2, <1>3, HoldingsAssumption DEF Init, TypeOK

LEMMA CreateTypeOK ==
  ASSUME TypeOK, NEW r \in Requests, CreateStock(r)
  PROVE  TypeOK'
<1>1. PICK s \in Stocks, q \in Quantities, u \in Users :
        /\ Insert(s, [user |-> u, quantity |-> q, avg |-> {r}, krw |-> {}])
        /\ Open(r, [pc |-> "ok", op |-> "create", stock |-> s, quantity |-> q,
                    opts |-> {}, row |-> Blank])
        /\ UNCHANGED log
        /\ Ok
  BY DEF CreateStock
<1>2. TablesOK'
  <2> DEFINE row == [user |-> u, quantity |-> q, avg |-> {r}, krw |-> {}]
  <2>1. row \in Row /\ row.quantity > 0
    BY HoldingsAssumption DEF Row
  <2>2. Insert(s, row)
    BY <1>1
  <2> HIDE DEF row
  <2> QED
    BY <2>1, <2>2, InsertOK, TypeOKParts
<1>3. LocalsOK'
  <2> DEFINE local == [pc |-> "ok", op |-> "create", stock |-> s, quantity |-> q,
                       opts |-> {}, row |-> Blank]
  <2>1. local \in Request /\ LocalOK(local)
    BY HoldingsAssumption, BlankIsRow DEF Request, LocalOK
  <2>2. Open(r, local)
    BY <1>1
  <2> HIDE DEF local
  <2> QED
    BY <2>1, <2>2, OpenOK, TypeOKParts
<1> QED
  BY <1>1, <1>2, <1>3, TypeOKParts, TypeOKNext, FaultsOK

LEMMA UpdateReadTypeOK ==
  ASSUME TypeOK, NEW r \in Requests, UpdateStockRead(r)
  PROVE  TypeOK'
<1>1. PICK s \in DOMAIN stocks, q \in Quantities \cup {0}, u \in Users,
           opts \in SUBSET {"average"} :
        /\ Open(r, [pc |-> "write", op |-> "update", stock |-> s, quantity |-> q,
                    opts |-> opts,
                    row |-> [user |-> u,
                             quantity |-> IF q = 0 THEN stocks[s].quantity ELSE q,
                             avg |-> IF "average" \in opts THEN {r} ELSE stocks[s].avg,
                             krw |-> stocks[s].krw]])
        /\ UNCHANGED <<stocks, issued, log>>
        /\ Ok
  BY DEF UpdateStockRead
<1> DEFINE row == [user |-> u,
                   quantity |-> IF q = 0 THEN stocks[s].quantity ELSE q,
                   avg |-> IF "average" \in opts THEN {r} ELSE stocks[s].avg,
                   krw |-> stocks[s].krw]
           local == [pc |-> "write", op |-> "update", stock |-> s, quantity |-> q,
                     opts |-> opts, row |-> row]
<1>2. row \in Row /\ row.quantity > 0
  BY HoldingsAssumption DEF TypeOK, Row
<1>3. Open(r, local)
  BY <1>1
<1>4. local \in Request /\ LocalOK(local)
  <2> HIDE DEF row
  <2> QED
    BY <1>2, HoldingsAssumption DEF Request, LocalOK, Options, TypeOK
<1> HIDE DEF row, local
<1>5. LocalsOK'
  BY <1>3, <1>4, OpenOK, TypeOKParts
<1>6. TablesOK'
  BY <1>1, TypeOKParts DEF TablesOK
<1> QED
  BY <1>1, <1>5, <1>6, TypeOKParts, TypeOKNext, FaultsOK

\* A handler about to write a row that has shares either does or fails.
LEMMA WriteTypeOK ==
  ASSUME TypeOK, NEW r \in Requests, NEW row \in Row, row.quantity > 0,
         UNCHANGED <<issued, log>>,
         req[r].pc = "write",
         \/ /\ Update(req[r].stock, row) /\ Ok
            /\ Reply(r, "ok") \/ Goto(r, "log")
         \/ WriteFails(r)
  PROVE  TypeOK'
<1>1. TablesOK' /\ LocalsOK' /\ (Ok \/ Fault)
  <2>1. CASE WriteFails(r)
    BY <2>1, WriteFailsOK
  <2>2. CASE Update(req[r].stock, row) /\ Ok /\ (Reply(r, "ok") \/ Goto(r, "log"))
    BY <2>2, UpdateOK, ReplyOK, GotoOK, TypeOKParts
  <2> QED
    BY <2>1, <2>2
<1> QED
  BY <1>1, TypeOKParts, TypeOKNext, FaultsOK

LEMMA UpdateWriteTypeOK ==
  ASSUME TypeOK, NEW r \in Requests, UpdateStockWrite(r)
  PROVE  TypeOK'
<1>1. req[r].row \in Row /\ req[r].row.quantity > 0 /\ req[r].pc = "write"
  BY DEF TypeOK, UpdateStockWrite, Serving, InFlight, Request
<1> QED
  BY <1>1, WriteTypeOK DEF UpdateStockWrite

LEMMA BuyWriteTypeOK ==
  ASSUME TypeOK, NEW r \in Requests, BuyStockWrite(r)
  PROVE  TypeOK'
<1>1. req[r].row \in Row /\ req[r].row.quantity > 0 /\ req[r].pc = "write"
  BY DEF TypeOK, BuyStockWrite, Serving, InFlight, Request
<1> QED
  BY <1>1, WriteTypeOK DEF BuyStockWrite

LEMMA DeleteForcedTypeOK ==
  ASSUME TypeOK, NEW r \in Requests, DeleteStockForced(r)
  PROVE  TypeOK'
<1>1. PICK s \in DOMAIN stocks :
        /\ Delete(s)
        /\ Open(r, [pc |-> "ok", op |-> "delete", stock |-> s, quantity |-> 0,
                    opts |-> {"force"}, row |-> Blank])
        /\ UNCHANGED <<issued, log>>
        /\ Ok
  BY DEF DeleteStockForced
<1> DEFINE local == [pc |-> "ok", op |-> "delete", stock |-> s, quantity |-> 0,
                     opts |-> {"force"}, row |-> Blank]
<1>2. local \in Request /\ LocalOK(local)
  BY BlankIsRow DEF Request, LocalOK, Options, TypeOK
<1>3. Open(r, local)
  BY <1>1
<1> HIDE DEF local
<1>4. LocalsOK'
  BY <1>2, <1>3, OpenOK, TypeOKParts
<1> QED
  BY <1>1, <1>4, DeleteOK, TypeOKParts, TypeOKNext, FaultsOK

LEMMA DeleteReadTypeOK ==
  ASSUME TypeOK, NEW r \in Requests, DeleteStockRead(r)
  PROVE  TypeOK'
<1>1. PICK s \in DOMAIN stocks :
        /\ Open(r, [pc |-> "check", op |-> "delete", stock |-> s, quantity |-> 0,
                    opts |-> {}, row |-> stocks[s]])
        /\ UNCHANGED <<stocks, issued, log>>
        /\ Ok
  BY DEF DeleteStockRead
<1> DEFINE local == [pc |-> "check", op |-> "delete", stock |-> s, quantity |-> 0,
                     opts |-> {}, row |-> stocks[s]]
<1>2. local \in Request /\ LocalOK(local)
  BY DEF Request, LocalOK, Options, TypeOK
<1>3. Open(r, local)
  BY <1>1
<1> HIDE DEF local
<1>4. LocalsOK'
  BY <1>2, <1>3, OpenOK, TypeOKParts
<1>5. TablesOK'
  BY <1>1, TypeOKParts DEF TablesOK
<1> QED
  BY <1>1, <1>4, <1>5, TypeOKParts, TypeOKNext, FaultsOK

LEMMA DeleteCheckTypeOK ==
  ASSUME TypeOK, NEW r \in Requests, DeleteStockCheck(r)
  PROVE  TypeOK'
<1>1. LocalsOK' /\ (Ok \/ Fault)
  BY GotoOK, ReplyOK, TypeOKParts DEF DeleteStockCheck, Serving
<1>2. TablesOK'
  BY TypeOKParts DEF DeleteStockCheck, TablesOK
<1> QED
  BY <1>1, <1>2, TypeOKParts, TypeOKNext, FaultsOK DEF DeleteStockCheck

LEMMA DeleteWriteTypeOK ==
  ASSUME TypeOK, NEW r \in Requests, DeleteStockWrite(r)
  PROVE  TypeOK'
<1>1. TablesOK' /\ LocalsOK' /\ (Ok \/ Fault)
  BY DeleteOK, ReplyOK, WriteFailsOK, TypeOKParts DEF DeleteStockWrite
<1> QED
  BY <1>1, TypeOKParts, TypeOKNext, FaultsOK DEF DeleteStockWrite

LEMMA BuyReadTypeOK ==
  ASSUME TypeOK, NEW r \in Requests, BuyStockRead(r)
  PROVE  TypeOK'
<1>1. PICK s \in DOMAIN stocks, q \in Quantities, opts \in SUBSET {"rate"} :
        /\ \E krw \in IF Currency[s] = "USD" THEN BlendKRWCostBasis(stocks[s], r)
                                             ELSE {stocks[s].avg \cup {r}} :
             Open(r, [pc |-> "write", op |-> "buy", stock |-> s, quantity |-> q,
                      opts |-> opts,
                      row |-> [user |-> stocks[s].user,
                               quantity |-> stocks[s].quantity + q,
                               avg |-> stocks[s].avg \cup {r}, krw |-> krw]])
        /\ UNCHANGED <<stocks, issued, log>>
        /\ Ok
  BY DEF BuyStockRead
<1>2. PICK krw \in IF Currency[s] = "USD" THEN BlendKRWCostBasis(stocks[s], r)
                                          ELSE {stocks[s].avg \cup {r}} :
             Open(r, [pc |-> "write", op |-> "buy", stock |-> s, quantity |-> q,
                      opts |-> opts,
                      row |-> [user |-> stocks[s].user,
                               quantity |-> stocks[s].quantity + q,
                               avg |-> stocks[s].avg \cup {r}, krw |-> krw]])
  BY <1>1
<1> DEFINE row == [user |-> stocks[s].user,
                   quantity |-> stocks[s].quantity + q,
                   avg |-> stocks[s].avg \cup {r}, krw |-> krw]
           local == [pc |-> "write", op |-> "buy", stock |-> s, quantity |-> q,
                     opts |-> opts, row |-> row]
<1>3. stocks[s] \in Row /\ stocks[s].quantity > 0 /\ s \in Stocks
  BY DEF TypeOK
<1>4. krw \subseteq Lots
  BY <1>3, HoldingsAssumption DEF Row, BlendKRWCostBasis
<1>5. row \in Row /\ row.quantity > 0
  BY <1>3, <1>4, HoldingsAssumption DEF Row
<1>6. Open(r, local)
  BY <1>2
<1>7. local \in Request /\ LocalOK(local)
  <2> HIDE DEF row
  <2> QED
    BY <1>3, <1>5, HoldingsAssumption DEF Request, LocalOK, Options
<1> HIDE DEF row, local
<1>8. LocalsOK'
  BY <1>6, <1>7, OpenOK, TypeOKParts
<1>9. TablesOK'
  BY <1>1, TypeOKParts DEF TablesOK
<1> QED
  BY <1>1, <1>8, <1>9, TypeOKParts, TypeOKNext, FaultsOK

LEMMA BuyLogTypeOK ==
  ASSUME TypeOK, NEW r \in Requests, BuyStockLog(r)
  PROVE  TypeOK'
<1>1. LocalsOK' /\ log' \subseteq LogEntry /\ (Ok \/ Fault)
  BY LogOrWarnOK, ReplyOK, TypeOKParts DEF BuyStockLog
<1>2. TablesOK'
  BY TypeOKParts DEF BuyStockLog, TablesOK
<1> QED
  BY <1>1, <1>2, TypeOKParts, TypeOKNext, FaultsOK

LEMMA SellReadTypeOK ==
  ASSUME TypeOK, NEW r \in Requests, SellStockRead(r)
  PROVE  TypeOK'
<1>1. PICK s \in DOMAIN stocks, q \in Quantities, opts \in SUBSET {"rate"} :
        /\ q <= stocks[s].quantity
        /\ Open(r, [pc |-> "log", op |-> "sell", stock |-> s, quantity |-> q,
                    opts |-> opts, row |-> stocks[s]])
        /\ UNCHANGED <<stocks, issued, log>>
        /\ Ok
  BY DEF SellStockRead
<1> DEFINE local == [pc |-> "log", op |-> "sell", stock |-> s, quantity |-> q,
                     opts |-> opts, row |-> stocks[s]]
<1>2. stocks[s] \in Row /\ stocks[s].quantity > 0 /\ s \in Stocks
  BY DEF TypeOK
<1>3. local \in Request /\ LocalOK(local)
  <2>1. q \in 1..stocks[s].quantity
    BY <1>1, <1>2, HoldingsAssumption DEF Row
  <2> QED
    BY <2>1, <1>2, HoldingsAssumption DEF Request, LocalOK, Options
<1>4. Open(r, local)
  BY <1>1
<1> HIDE DEF local
<1>5. LocalsOK'
  BY <1>3, <1>4, OpenOK, TypeOKParts
<1>6. TablesOK'
  BY <1>1, TypeOKParts DEF TablesOK
<1> QED
  BY <1>1, <1>5, <1>6, TypeOKParts, TypeOKNext, FaultsOK

LEMMA SellLogTypeOK ==
  ASSUME TypeOK, NEW r \in Requests, SellStockLog(r)
  PROVE  TypeOK'
<1>1. LocalsOK' /\ log' \subseteq LogEntry /\ (Ok \/ Fault)
  BY LogOrWarnOK, GotoOK, TypeOKParts DEF SellStockLog, Serving
<1>2. TablesOK'
  BY TypeOKParts DEF SellStockLog, TablesOK
<1> QED
  BY <1>1, <1>2, TypeOKParts, TypeOKNext, FaultsOK

LEMMA SellWriteTypeOK ==
  ASSUME TypeOK, NEW r \in Requests, SellStockWrite(r)
  PROVE  TypeOK'
<1> DEFINE held == req[r].stock
           left == req[r].row.quantity - req[r].quantity
           row == [req[r].row EXCEPT !.quantity = left]
<1>1. /\ req[r].row \in Row /\ req[r].pc = "write"
      /\ req[r].quantity \in 1..req[r].row.quantity
  BY DEF TypeOK, SellStockWrite, Serving, InFlight, Request
<1>2. CASE left = 0 /\ Delete(held) /\ Ok /\ Reply(r, "ok")
  <2>1. TablesOK' /\ LocalsOK'
    BY <1>2, DeleteOK, ReplyOK, TypeOKParts DEF SellStockWrite
  <2> QED
    BY <1>2, <2>1, TypeOKParts, TypeOKNext, FaultsOK DEF SellStockWrite
<1>3. CASE left # 0 /\ Update(held, row) /\ Ok /\ Reply(r, "ok")
  <2>1. row \in Row /\ row.quantity > 0
    BY <1>1, <1>3 DEF Row
  <2>2. Update(req[r].stock, row)
    BY <1>3
  <2> HIDE DEF row
  <2> QED
    BY <1>1, <1>3, <2>1, <2>2, WriteTypeOK DEF SellStockWrite
<1>4. CASE WriteFails(r)
  BY <1>1, <1>4, WriteFailsOK, TypeOKParts, TypeOKNext, FaultsOK DEF SellStockWrite
<1> QED
  BY <1>2, <1>3, <1>4 DEF SellStockWrite

LEMMA CrashTypeOK ==
  ASSUME TypeOK, Crash
  PROVE  TypeOK'
<1>1. ASSUME NEW r \in Requests
      PROVE  req'[r] \in Request /\ LocalOK(req'[r])
  <2>1. LocalsOK
    BY TypeOKParts
  <2>2. req'[r] = req[r] \/ req'[r] = [req[r] EXCEPT !.pc = "lost", !.row = Blank]
    BY DEF Crash, Lost
  <2> QED
    BY <2>1, <2>2, EndOK DEF LocalsOK
<1>2. LocalsOK'
  BY <1>1 DEF Crash, Lost, LocalsOK
<1>3. TablesOK'
  BY TypeOKParts DEF Crash, TablesOK
<1> QED
  BY <1>2, <1>3, TypeOKParts, TypeOKNext, FaultsOK DEF Crash

LEMMA StutterTypeOK ==
  ASSUME TypeOK, UNCHANGED vars
  PROVE  TypeOK'
BY DEF vars, TypeOK, InFlight

LEMMA NextTypeOK == TypeOK /\ [Next]_vars => TypeOK'
<1> SUFFICES ASSUME TypeOK, [Next]_vars PROVE TypeOK'
  OBVIOUS
<1>1. ASSUME NEW r \in Requests, Serve(r) PROVE TypeOK'
  BY <1>1, CreateTypeOK, UpdateReadTypeOK, UpdateWriteTypeOK, DeleteForcedTypeOK,
     DeleteReadTypeOK, DeleteCheckTypeOK, DeleteWriteTypeOK, BuyReadTypeOK,
     BuyWriteTypeOK, BuyLogTypeOK, SellReadTypeOK, SellLogTypeOK, SellWriteTypeOK
  DEF Serve
<1> QED
  BY <1>1, CrashTypeOK, StutterTypeOK DEF Next, Finished

\* Whatever requests arrive and however they interleave and fail, the tables
\* stay well formed: in particular no handler ever stores a holding without
\* shares, and no sale is in progress for more shares than its goroutine read.
THEOREM TypeCorrect == Spec => []TypeOK
BY InitTypeOK, NextTypeOK, PTL DEF Spec

----------------------------------------------------------------------------
(* What one step may do to a row, to a goroutine and to the log, as far as *)
(* the two averages are concerned.                                         *)

\* A row is kept, inserted without a won cost basis, or overwritten with the
\* averages some goroutine holds.
RowStep(s) ==
  \/ s \in DOMAIN stocks /\ stocks'[s] = stocks[s]
  \/ /\ s \notin issued /\ stocks'[s].krw = {}
     /\ \E r \in Requests :
          /\ req[r].pc = "idle" /\ req'[r].pc = "ok"
          /\ req'[r].op = "create" /\ req'[r].stock = s
          /\ req'[r].quantity = stocks'[s].quantity
  \/ \E r \in Requests :
       /\ s \in DOMAIN stocks
       /\ req[r].pc = "write"
       /\ req[r].stock = s
       /\ req[r].op \in {"update", "buy", "sell"}
       /\ req[r].op = "buy" => req'[r].pc = "log"
       /\ stocks'[s].quantity = req[r].row.quantity
                                  - (IF req[r].op = "sell" THEN req[r].quantity ELSE 0)
       /\ stocks'[s].krw = req[r].row.krw
       /\ stocks'[s].avg = req[r].row.avg

\* The averages a goroutine computes from the row it reads.
ReadStep(r) ==
  LET s == req'[r].stock
      old == stocks[s]
      row == req'[r].row
  IN /\ s \in DOMAIN stocks
     /\ \/ /\ req'[r].op = "update"
           /\ row.krw = old.krw
           /\ "average" \in req'[r].opts \/ row.avg = old.avg
           /\ req'[r].quantity = 0 => row.quantity = old.quantity
        \/ req'[r].op = "delete" /\ row = old
        \/ /\ req'[r].op = "sell" /\ row = old
           /\ Currency[s] = "USD" => old.krw # {}
        \/ /\ req'[r].op = "buy" /\ row.avg = old.avg \cup {r}
           /\ row.quantity = old.quantity + req'[r].quantity
           /\ \/ Currency[s] = "USD" /\ row.krw = {}
              \/ Currency[s] = "USD" /\ old.krw # {} /\ row.krw = old.krw \cup {r}
              \/ Currency[s] # "USD" /\ row.krw = row.avg

LocalStep(r) ==
  \/ req'[r] = req[r]
  \/ /\ req[r].pc # "idle"
     /\ req'[r].pc \in {"log", "write"} /\ req[r].pc \in {"check", "log", "write"}
     /\ req'[r].op = req[r].op /\ req'[r].stock = req[r].stock
     /\ req'[r].opts = req[r].opts /\ req'[r].row = req[r].row
     /\ req'[r].quantity = req[r].quantity
     /\ req[r].op = "buy" => req'[r].pc = "log"
  \/ /\ req[r].pc \in {"check", "log", "write"}
     /\ req'[r].pc \in {"ok", "error", "lost"}
     /\ req'[r].op = req[r].op /\ req'[r].stock = req[r].stock
     /\ req'[r].opts = req[r].opts /\ req'[r].quantity = req[r].quantity
     /\ req[r].op = "buy" /\ req[r].pc = "log" => req'[r].pc # "error"
  \/ /\ req[r].pc = "idle" /\ req'[r].pc = "ok"
     /\ req'[r].op \in {"create", "delete"}
  \/ req[r].pc = "idle" /\ req'[r].pc \in {"check", "log", "write"} /\ ReadStep(r)

LogStep(l) ==
  \/ l \in log
  \/ \E r \in Requests :
       /\ req[r].pc = "log"
       /\ req[r].stock = l.stock
       /\ req[r].op = l.type
       /\ l.exact = (req[r].row.krw = req[r].row.avg)

LEMMA RowSteps ==
  ASSUME TypeOK, [Next]_vars, NEW s \in DOMAIN stocks'
  PROVE  RowStep(s)
<1> USE DEF RowStep
<1>1. CASE UNCHANGED stocks
  BY <1>1
<1>2. ASSUME NEW r \in Requests, CreateStock(r) PROVE RowStep(s)
  <2>1. PICK t \in Stocks, q \in Quantities, u \in Users :
          /\ Insert(t, [user |-> u, quantity |-> q, avg |-> {r}, krw |-> {}])
          /\ req[r].pc = "idle"
          /\ req' = [req EXCEPT ![r] =
               [pc |-> "ok", op |-> "create", stock |-> t, quantity |-> q,
                opts |-> {}, row |-> Blank]]
    BY <1>2 DEF CreateStock, Open
  <2>2. req'[r].pc = "ok" /\ req'[r].op = "create" /\ req'[r].stock = t /\ req'[r].quantity = q
    BY <2>1 DEF TypeOK
  <2> QED
    BY <2>1, <2>2 DEF Insert
<1>3. ASSUME NEW t, Delete(t) PROVE RowStep(s)
  BY <1>3 DEF Delete
<1>4. ASSUME NEW r \in Requests, req[r].pc = "write", NEW row \in Row,
             req[r].op \in {"update", "buy", "sell"},
             req[r].op = "buy" => req'[r].pc = "log",
             row.krw = req[r].row.krw, row.avg = req[r].row.avg,
             row.quantity = req[r].row.quantity
                              - (IF req[r].op = "sell" THEN req[r].quantity ELSE 0),
             Update(req[r].stock, row)
      PROVE  RowStep(s)
  <2>1. PICK new : /\ new = [row EXCEPT !.user = stocks[req[r].stock].user]
                   /\ stocks' = [stocks EXCEPT ![req[r].stock] = new]
    BY <1>4 DEF Update
  <2>2. /\ new.krw = req[r].row.krw /\ new.avg = req[r].row.avg
        /\ new.quantity = row.quantity
    BY <1>4, <2>1 DEF Row
  <2> QED
    BY <1>4, <2>1, <2>2 DEF Update
<1>5. ASSUME NEW r \in Requests, UpdateStockWrite(r) \/ BuyStockWrite(r)
      PROVE  RowStep(s)
  <2>1. req[r].row \in Row /\ req[r].row.quantity - 0 = req[r].row.quantity
    BY DEF TypeOK, Request, Row
  <2>2. Goto(r, "log") => req'[r].pc = "log"
    BY DEF Goto, TypeOK, Request
  <2> QED
    BY <1>1, <1>4, <1>5, <2>1, <2>2
    DEF UpdateStockWrite, BuyStockWrite, WriteFails, Serving
<1>6. ASSUME NEW r \in Requests, SellStockWrite(r) PROVE RowStep(s)
  <2> DEFINE left == req[r].row.quantity - req[r].quantity
             row == [req[r].row EXCEPT !.quantity = left]
  <2>1. /\ req[r].row \in Row /\ req[r].pc = "write" /\ req[r].op = "sell"
        /\ req[r].quantity \in 1..req[r].row.quantity
    BY <1>6 DEF TypeOK, Request, InFlight, SellStockWrite, Serving
  <2>2. /\ row \in Row /\ row.krw = req[r].row.krw /\ row.avg = req[r].row.avg
        /\ row.quantity = req[r].row.quantity - req[r].quantity
    BY <2>1 DEF Row
  <2>3. \/ Delete(req[r].stock)
        \/ Update(req[r].stock, row)
        \/ UNCHANGED stocks
    BY <1>6 DEF SellStockWrite, WriteFails
  <2> HIDE DEF row
  <2> QED
    BY <1>1, <1>3, <1>4, <2>1, <2>2, <2>3
<1>7. ASSUME NEW r \in Requests, Serve(r) PROVE RowStep(s)
  BY <1>1, <1>2, <1>3, <1>5, <1>6, <1>7
  DEF Serve, UpdateStockRead, DeleteStockForced, DeleteStockRead,
      DeleteStockCheck, DeleteStockWrite, WriteFails, BuyStockRead, BuyStockLog,
      SellStockRead, SellStockLog
<1> QED
  BY <1>1, <1>7 DEF Next, Crash, Finished, vars

LEMMA LogSteps ==
  ASSUME TypeOK, [Next]_vars, NEW l \in log'
  PROVE  LogStep(l)
<1> USE DEF LogStep
<1>1. CASE UNCHANGED log
  BY <1>1
<1>2. ASSUME NEW r \in Requests, BuyStockLog(r) \/ SellStockLog(r)
      PROVE  LogStep(l)
  BY <1>2 DEF BuyStockLog, SellStockLog, Serving, LogOrWarn, Append, Entry
<1>3. ASSUME NEW r \in Requests, Serve(r) PROVE LogStep(l)
  BY <1>1, <1>2, <1>3
  DEF Serve, CreateStock, UpdateStockRead, UpdateStockWrite, DeleteStockForced,
      DeleteStockRead, DeleteStockCheck, DeleteStockWrite, BuyStockRead,
      BuyStockWrite, SellStockRead, SellStockWrite
<1> QED
  BY <1>1, <1>3 DEF Next, Crash, Finished, vars

\* Another request's goroutine is not touched by a step, except by a crash.
LEMMA LocalSteps ==
  ASSUME TypeOK, [Next]_vars, NEW r \in Requests
  PROVE  LocalStep(r)
<1> USE DEF LocalStep
<1>1. CASE UNCHANGED req
  BY <1>1
<1>2. ASSUME NEW q \in Requests, NEW local \in Request, Open(q, local),
             \/ local.pc = "ok" /\ local.op \in {"create", "delete"}
             \/ local.pc \in {"check", "log", "write"} /\ ReadStep(q)
      PROVE  LocalStep(r)
  <2>1. req' = [req EXCEPT ![q] = local] /\ req[q].pc = "idle"
    BY <1>2 DEF Open
  <2> QED
    BY <1>2, <2>1 DEF TypeOK
<1>3. ASSUME NEW q \in Requests, NEW pc \in {"log", "write"}, Goto(q, pc),
             req[q].pc \in {"check", "log", "write"},
             req[q].op = "buy" => pc = "log"
      PROVE  LocalStep(r)
  BY <1>3 DEF Goto, TypeOK, Request
<1>4. ASSUME NEW q \in Requests, NEW pc \in {"ok", "error"}, Reply(q, pc),
             req[q].pc \in {"check", "log", "write"},
             req[q].op = "buy" /\ req[q].pc = "log" => pc # "error"
      PROVE  LocalStep(r)
  BY <1>4 DEF Reply, TypeOK, Request
<1>5. CASE Crash
  BY <1>5 DEF Crash, Lost, InFlight, TypeOK, Request
<1>6. ASSUME NEW q \in Requests, CreateStock(q) PROVE LocalStep(r)
  <2>1. PICK s \in Stocks, n \in Quantities :
          Open(q, [pc |-> "ok", op |-> "create", stock |-> s, quantity |-> n,
                   opts |-> {}, row |-> Blank])
    BY <1>6 DEF CreateStock
  <2> DEFINE local == [pc |-> "ok", op |-> "create", stock |-> s, quantity |-> n,
                       opts |-> {}, row |-> Blank]
  <2>2. local \in Request /\ local.pc = "ok" /\ local.op = "create"
    BY BlankIsRow, HoldingsAssumption DEF Request
  <2>3. Open(q, local)
    BY <2>1
  <2> HIDE DEF local
  <2> QED
    BY <1>2, <2>2, <2>3
<1>7. ASSUME NEW q \in Requests, DeleteStockForced(q) PROVE LocalStep(r)
  <2>1. PICK s \in DOMAIN stocks :
          Open(q, [pc |-> "ok", op |-> "delete", stock |-> s, quantity |-> 0,
                   opts |-> {"force"}, row |-> Blank])
    BY <1>7 DEF DeleteStockForced
  <2> DEFINE local == [pc |-> "ok", op |-> "delete", stock |-> s, quantity |-> 0,
                       opts |-> {"force"}, row |-> Blank]
  <2>2. local \in Request /\ local.pc = "ok" /\ local.op = "delete"
    BY BlankIsRow DEF Request, TypeOK, Options
  <2>3. Open(q, local)
    BY <2>1
  <2> HIDE DEF local
  <2> QED
    BY <1>2, <2>2, <2>3
<1>8. ASSUME NEW q \in Requests,
             UpdateStockRead(q) \/ DeleteStockRead(q) \/ SellStockRead(q) \/ BuyStockRead(q)
      PROVE  LocalStep(r)
  <2>1. ReadStep(q) /\ req[q].pc = "idle" /\ req'[q].pc \in {"check", "log", "write"}
    <3>1. CASE UpdateStockRead(q)
      BY <3>1 DEF UpdateStockRead, Open, ReadStep, TypeOK
    <3>2. CASE DeleteStockRead(q)
      BY <3>2 DEF DeleteStockRead, Open, ReadStep, TypeOK
    <3>3. CASE SellStockRead(q)
      <4>1. PICK s \in DOMAIN stocks, n \in Quantities, opts \in SUBSET {"rate"} :
              /\ Currency[s] = "USD" => stocks[s].krw # {}
              /\ req[q].pc = "idle"
              /\ req' = [req EXCEPT ![q] =
                           [pc |-> "log", op |-> "sell", stock |-> s, quantity |-> n,
                            opts |-> opts, row |-> stocks[s]]]
        BY <3>3 DEF SellStockRead, Open, ValidateKRWCostBasis
      <4> QED
        BY <4>1 DEF ReadStep, TypeOK
    <3>4. CASE BuyStockRead(q)
      <4>1. PICK s \in DOMAIN stocks, n \in Quantities, opts \in SUBSET {"rate"} :
              \E krw \in IF Currency[s] = "USD" THEN BlendKRWCostBasis(stocks[s], q)
                                                ELSE {stocks[s].avg \cup {q}} :
                Open(q, [pc |-> "write", op |-> "buy", stock |-> s, quantity |-> n,
                         opts |-> opts,
                         row |-> [user |-> stocks[s].user,
                                  quantity |-> stocks[s].quantity + n,
                                  avg |-> stocks[s].avg \cup {q}, krw |-> krw]])
        BY <3>4 DEF BuyStockRead
      <4>2. PICK krw \in IF Currency[s] = "USD" THEN BlendKRWCostBasis(stocks[s], q)
                                                ELSE {stocks[s].avg \cup {q}} :
              /\ req[q].pc = "idle"
              /\ req' = [req EXCEPT ![q] =
                  [pc |-> "write", op |-> "buy", stock |-> s, quantity |-> n,
                   opts |-> opts,
                   row |-> [user |-> stocks[s].user,
                            quantity |-> stocks[s].quantity + n,
                            avg |-> stocks[s].avg \cup {q}, krw |-> krw]]]
        BY <4>1 DEF Open
      <4>3. \/ Currency[s] = "USD" /\ krw = {}
            \/ Currency[s] = "USD" /\ stocks[s].krw # {} /\ krw = stocks[s].krw \cup {q}
            \/ Currency[s] # "USD" /\ krw = stocks[s].avg \cup {q}
        BY <4>2 DEF BlendKRWCostBasis, ValidateKRWCostBasis
      <4> QED
        BY <4>2, <4>3 DEF ReadStep, TypeOK
    <3> QED
      BY <1>8, <3>1, <3>2, <3>3, <3>4
  <2>2. req' = [req EXCEPT ![q] = req'[q]]
    BY <1>8 DEF UpdateStockRead, DeleteStockRead, SellStockRead, BuyStockRead, Open, TypeOK
  <2> QED
    BY <2>1, <2>2 DEF TypeOK
<1>9. ASSUME NEW q \in Requests, Serve(q) PROVE LocalStep(r)
  BY <1>3, <1>4, <1>6, <1>7, <1>8, <1>9
  DEF Serve, Serving, UpdateStockWrite, DeleteStockCheck, DeleteStockWrite,
      BuyStockWrite, BuyStockLog, SellStockLog, SellStockWrite, WriteFails
<1> QED
  BY <1>1, <1>5, <1>9 DEF Next, Finished, vars

----------------------------------------------------------------------------
(* A dollar holding whose won cost basis is unknown is never sold.         *)

\* The invariant alone is not inductive: a goroutine may hold a row it read
\* long ago.  What makes it so is that every copy of such a row is unknown
\* too, and that no goroutine is selling one.
UnknownInv ==
  /\ \A s \in DOMAIN stocks : Unknown(s) => stocks[s].krw = {}
  /\ \A r \in Requests :
       req[r].pc \in {"check", "log", "write"} /\ Unknown(req[r].stock)
         => req[r].row.krw = {} /\ req[r].op # "sell"
  /\ UnknownBasisNeverSold

LEMMA InitUnknown == Init => UnknownInv
BY DEF Init, UnknownInv, Unknown, UnknownBasisNeverSold

LEMMA NextUnknown == TypeOK /\ UnknownInv /\ [Next]_vars => UnknownInv'
<1> SUFFICES ASSUME TypeOK, UnknownInv, [Next]_vars PROVE UnknownInv'
  OBVIOUS
<1>1. ASSUME NEW s \in DOMAIN stocks', Unknown(s) PROVE stocks'[s].krw = {}
  BY <1>1, RowSteps DEF RowStep, UnknownInv
<1>2. ASSUME NEW r \in Requests, req'[r].pc \in {"check", "log", "write"},
             Unknown(req'[r].stock)
      PROVE  req'[r].row.krw = {} /\ req'[r].op # "sell"
  <2>1. LocalStep(r)
    BY LocalSteps
  <2>2. CASE ReadStep(r)
    BY <1>2, <2>2 DEF ReadStep, UnknownInv, Unknown
  <2> QED
    BY <1>2, <2>1, <2>2 DEF LocalStep, UnknownInv
<1>3. ASSUME NEW l \in log', Unknown(l.stock) PROVE l.type # "sell"
  BY <1>3, LogSteps DEF LogStep, UnknownInv, UnknownBasisNeverSold
<1> QED
  BY <1>1, <1>2, <1>3 DEF UnknownInv, UnknownBasisNeverSold, Unknown

\* Whatever purchases, patches, failures and interleavings come between, a
\* dollar holding that entered the table without a won cost basis is never
\* sold through sellStock.
THEOREM UnknownNeverSold == Spec => []UnknownBasisNeverSold
<1>1. Init => TypeOK /\ UnknownInv
  BY InitTypeOK, InitUnknown
<1>2. TypeOK /\ UnknownInv /\ [Next]_vars => (TypeOK /\ UnknownInv)'
  BY NextTypeOK, NextUnknown
<1>3. UnknownInv => UnknownBasisNeverSold
  BY DEF UnknownInv
<1> QED
  BY <1>1, <1>2, <1>3, PTL DEF Spec

----------------------------------------------------------------------------
(* The two averages of a holding cover the same purchases.                 *)

\* Inductive with the copies of rows in it: a copy is as consistent as the
\* row it was read from, and a copy about to be sold has a basis.
BasisInv ==
  /\ BasisCoversAverage
  /\ \A r \in Requests : req[r].pc = "idle" => req[r].op = "none"
  /\ \A r \in Requests, s \in Stocks :
       req[r].pc \in {"check", "log", "write"} /\ req[r].stock = s /\ ~AverageTyped(s) =>
         /\ req[r].row.krw \in {{}, req[r].row.avg}
         /\ req[r].op = "sell" /\ Currency[s] = "USD" => req[r].row.krw # {}

LEMMA InitBasis == Init => BasisInv
BY DEF Init, BasisInv, BasisCoversAverage

\* A request that has left the idle state keeps what it carried.
LEMMA AverageTypedStays ==
  ASSUME TypeOK, BasisInv, [Next]_vars, NEW s, AverageTyped(s)
  PROVE  AverageTyped(s)'
<1>1. PICK r \in Requests : /\ req[r].op = "update" /\ req[r].stock = s
                            /\ "average" \in req[r].opts
  BY DEF AverageTyped
<1>2. req[r].pc # "idle"
  BY <1>1 DEF BasisInv
<1>3. req'[r].op = req[r].op /\ req'[r].stock = req[r].stock /\ req'[r].opts = req[r].opts
  BY <1>2, LocalSteps DEF LocalStep
<1> QED
  BY <1>1, <1>3 DEF AverageTyped

LEMMA NextBasis == TypeOK /\ BasisInv /\ [Next]_vars => BasisInv'
<1> SUFFICES ASSUME TypeOK, BasisInv, [Next]_vars PROVE BasisInv'
  OBVIOUS
<1>0. \A r \in Requests : req[r].stock \in Stocks
  BY DEF TypeOK, Request
<1>1. ASSUME NEW s \in DOMAIN stocks', ~AverageTyped(s)'
      PROVE  stocks'[s].krw \in {{}, stocks'[s].avg}
  <2>1. ~AverageTyped(s)
    BY <1>1, AverageTypedStays
  <2> QED
    BY <1>0, <1>1, <2>1, RowSteps DEF RowStep, BasisInv, BasisCoversAverage
<1>2. ASSUME NEW l \in log', l.type = "sell", Currency[l.stock] = "USD",
             ~AverageTyped(l.stock)'
      PROVE  l.exact
  <2>1. ~AverageTyped(l.stock)
    BY <1>2, AverageTypedStays
  <2>2. LogStep(l)
    BY LogSteps
  <2> QED
    BY <1>0, <1>2, <2>1, <2>2 DEF LogStep, BasisInv, BasisCoversAverage
<1>3. ASSUME NEW r \in Requests, req'[r].pc = "idle" PROVE req'[r].op = "none"
  BY <1>3, LocalSteps DEF LocalStep, BasisInv
<1>4. ASSUME NEW r \in Requests, NEW s \in Stocks,
             req'[r].pc \in {"check", "log", "write"}, req'[r].stock = s,
             ~AverageTyped(s)'
      PROVE  /\ req'[r].row.krw \in {{}, req'[r].row.avg}
             /\ req'[r].op = "sell" /\ Currency[s] = "USD" => req'[r].row.krw # {}
  <2>1. ~AverageTyped(s)
    BY <1>4, AverageTypedStays
  <2>2. LocalStep(r)
    BY LocalSteps
  <2>3. CASE ReadStep(r)
    <3>1. stocks[s].krw \in {{}, stocks[s].avg}
      BY <1>4, <2>1, <2>3 DEF ReadStep, BasisInv, BasisCoversAverage
    <3>2. ~(req'[r].op = "update" /\ "average" \in req'[r].opts)
      BY <1>4 DEF AverageTyped
    <3> QED
      BY <1>4, <2>3, <3>1, <3>2 DEF ReadStep
  <2> QED
    BY <1>4, <2>1, <2>2, <2>3 DEF LocalStep, BasisInv
<1> QED
  BY <1>1, <1>2, <1>3, <1>4 DEF BasisInv, BasisCoversAverage

\* As long as no patch carries an average price, lost updates and failures
\* never separate the won cost basis of a holding from its average.
THEOREM BasisConsistent == Spec => []BasisCoversAverage
<1>1. Init => TypeOK /\ BasisInv
  BY InitTypeOK, InitBasis
<1>2. TypeOK /\ BasisInv /\ [Next]_vars => (TypeOK /\ BasisInv)'
  BY NextTypeOK, NextBasis
<1>3. BasisInv => BasisCoversAverage
  BY DEF BasisInv
<1> QED
  BY <1>1, <1>2, <1>3, PTL DEF Spec

\* No goroutine brings a deleted or sold-out holding back.
THEOREM GoneForGood == Spec => GoneStaysGone
<1>1. TypeOK /\ [Next]_vars
        => [\A s \in issued \ DOMAIN stocks : s \notin DOMAIN stocks']_vars
  BY RowSteps DEF RowStep
<1> QED
  BY <1>1, TypeCorrect, PTL DEF Spec, GoneStaysGone

----------------------------------------------------------------------------
(* Shares come from purchases.                                             *)

Begun == {r \in Requests : req[r].pc # "idle"}

\* The most shares of s that a row may have.
Bound(s) == Initial(s) + Applied("buy", s)

\* What a goroutine is about to write is covered by the purchases that have
\* reached the table, its own aside.
CopyCovered(r) ==
  \A s \in Stocks :
    /\ req[r].pc \in {"check", "log", "write"}
    /\ req[r].stock = s
    /\ QuantityNotTyped(s)
    => /\ req[r].op \in {"update", "sell"} => req[r].row.quantity <= Bound(s)
       /\ req[r].op = "buy" /\ req[r].pc = "write" =>
            req[r].row.quantity <= Bound(s) + req[r].quantity

\* Finiteness makes the sums mean something; a creation is one statement.
RequestsInv ==
  /\ IsFiniteSet(Begun)
  /\ \A r \in Requests : req[r].pc = "idle" => req[r].op = "none"
  /\ \A r \in Requests : req[r].op = "create" => req[r].pc = "ok"

SharesInv ==
  /\ RequestsInv
  /\ NoSharesFromNowhere
  /\ \A r \in Requests : CopyCovered(r)

LEMMA InitRequests == Init => RequestsInv
<1> SUFFICES ASSUME Init PROVE RequestsInv
  OBVIOUS
<1>1. Begun = {}
  BY DEF Init, Begun
<1> QED
  BY <1>1, FS_EmptySet DEF Init, RequestsInv

\* One request moves at a time, unless the process stops.
LEMMA OneMoves ==
  ASSUME NEW r \in Requests, Serve(r)
  PROVE  \E local : req' = [req EXCEPT ![r] = local]
<1>1. ASSUME NEW local, Open(r, local) PROVE \E l : req' = [req EXCEPT ![r] = l]
  BY <1>1 DEF Open
<1>2. ASSUME NEW pc, Goto(r, pc) PROVE \E l : req' = [req EXCEPT ![r] = l]
  BY <1>2 DEF Goto
<1>3. ASSUME NEW pc, Reply(r, pc) PROVE \E l : req' = [req EXCEPT ![r] = l]
  BY <1>3 DEF Reply
<1>4. CASE BuyStockRead(r)
  BY <1>1, <1>4 DEF BuyStockRead
<1> QED
  BY <1>1, <1>2, <1>3, <1>4
  DEF Serve, CreateStock, UpdateStockRead, UpdateStockWrite, DeleteStockForced,
      DeleteStockRead, DeleteStockCheck, DeleteStockWrite, BuyStockWrite,
      BuyStockLog, SellStockRead, SellStockLog, SellStockWrite, WriteFails

LEMMA NextRequests == TypeOK /\ RequestsInv /\ [Next]_vars => RequestsInv'
<1> SUFFICES ASSUME TypeOK, RequestsInv, [Next]_vars PROVE RequestsInv'
  OBVIOUS
<1>1. IsFiniteSet(Begun')
  <2>1. ASSUME NEW r \in Requests, Serve(r) PROVE IsFiniteSet(Begun')
    <3>1. IsFiniteSet(Begun \cup {r})
      BY FS_AddElement DEF RequestsInv
    <3>2. Begun' \subseteq Begun \cup {r}
      BY <2>1, OneMoves DEF Begun, TypeOK
    <3> QED
      BY <3>1, <3>2, FS_Subset
  <2>2. CASE UNCHANGED req
    BY <2>2 DEF RequestsInv, Begun
  <2>3. CASE Crash
    <3>1. Begun' \subseteq Begun
      BY <2>3 DEF Crash, Lost, InFlight, Begun, TypeOK
    <3> QED
      BY <3>1, FS_Subset DEF RequestsInv
  <2> QED
    BY <2>1, <2>2, <2>3 DEF Next, Finished, vars
<1>2. ASSUME NEW r \in Requests, req'[r].pc = "idle" PROVE req'[r].op = "none"
  BY <1>2, LocalSteps DEF LocalStep, RequestsInv
<1>3. ASSUME NEW r \in Requests, req'[r].op = "create" PROVE req'[r].pc = "ok"
  BY <1>3, LocalSteps DEF LocalStep, ReadStep, RequestsInv
<1> QED
  BY <1>1, <1>2, <1>3 DEF RequestsInv

LEMMA CarriedShares ==
  ASSUME TypeOK, RequestsInv, NEW op \in {"create", "buy"}, NEW s
  PROVE  /\ IsFiniteSet(Reached(op, s))
         /\ \A r \in Requests : Carried[r] = req[r].quantity /\ Carried[r] \in Nat
         /\ Applied(op, s) \in Nat
<1>1. IsFiniteSet(Reached(op, s))
  <2>1. Reached(op, s) \subseteq Begun
    BY DEF Reached, Begun
  <2> QED
    BY <2>1, FS_Subset DEF RequestsInv
<1>2. \A r \in Requests : Carried[r] = req[r].quantity /\ Carried[r] \in Nat
  BY DEF Carried, TypeOK, Request
<1>3. \A r \in Reached(op, s) : Carried[r] \in Nat
  BY <1>2 DEF Reached
<1> QED
  BY <1>1, <1>2, <1>3, SumNat DEF Applied

\* What has reached the table is never counted less, and what reaches it in
\* this step counts in full.
LEMMA AppliedGrows ==
  ASSUME TypeOK, RequestsInv, [Next]_vars, NEW op \in {"create", "buy"}, NEW s
  PROVE  /\ Applied(op, s) \in Nat /\ Applied(op, s)' \in Nat
         /\ Applied(op, s) <= Applied(op, s)'
         /\ \A r \in Requests :
              r \in Reached(op, s)' \ Reached(op, s) =>
                Applied(op, s) + req'[r].quantity <= Applied(op, s)'
<1> DEFINE A == Reached(op, s)
           B == Reached(op, s)'
           f == Carried
           e == Carried'
<1>1. TypeOK' /\ RequestsInv'
  BY NextTypeOK, NextRequests
<1>2. /\ IsFiniteSet(A) /\ \A r \in Requests : f[r] = req[r].quantity /\ f[r] \in Nat
      /\ Applied(op, s) \in Nat /\ Applied(op, s) = SumOf(f, A)
  BY CarriedShares DEF Applied
<1>3. /\ IsFiniteSet(B) /\ \A r \in Requests : e[r] = req'[r].quantity /\ e[r] \in Nat
      /\ Applied(op, s)' \in Nat /\ Applied(op, s)' = SumOf(e, B)
  <2>1. IsFiniteSet(B)
    <3>1. B \subseteq Begun' /\ IsFiniteSet(Begun')
      BY <1>1 DEF Reached, Begun, RequestsInv
    <3> QED
      BY <3>1, FS_Subset
  <2>2. \A r \in Requests : e[r] = req'[r].quantity /\ e[r] \in Nat
    BY <1>1 DEF Carried, TypeOK, Request
  <2>3. \A r \in B : e[r] \in Nat
    BY <2>2 DEF Reached
  <2>4. Applied(op, s)' = SumOf(e, B)
    BY DEF Applied
  <2> HIDE DEF e, B
  <2> QED
    BY <2>1, <2>2, <2>3, <2>4, SumNat
<1>4. A \subseteq B /\ A \subseteq Requests /\ B \subseteq Requests
      /\ \A r \in A : req'[r].quantity = req[r].quantity
  <2>1. ASSUME NEW r \in A PROVE r \in B /\ req'[r].quantity = req[r].quantity
    BY LocalSteps DEF LocalStep, Reached, RequestsInv
  <2> QED
    BY <2>1 DEF Reached
<1> HIDE DEF A, B, f, e
<1>5. SumOf(f, A) = SumOf(e, A)
  BY <1>2, <1>3, <1>4, SumSame
<1>6. SumOf(e, A) <= SumOf(e, B)
  BY <1>3, <1>4, SumPart
<1>7. ASSUME NEW r \in B \ A PROVE SumOf(e, A) + e[r] <= SumOf(e, B)
  <2>1. A \cup {r} \subseteq B /\ \A y \in A \cup {r} : e[y] \in Int
    BY <1>3, <1>4
  <2>2. SumOf(e, A \cup {r}) = SumOf(e, A) + e[r]
    BY <1>2, <2>1, SumAdd
  <2>3. SumOf(e, A \cup {r}) <= SumOf(e, B)
    BY <1>3, <1>4, <2>1, SumPart
  <2> QED
    BY <2>2, <2>3
<1> QED
  BY <1>2, <1>3, <1>4, <1>5, <1>6, <1>7 DEF A, B

LEMMA BoundGrows ==
  ASSUME TypeOK, RequestsInv, [Next]_vars, NEW s \in Stocks
  PROVE  /\ Bound(s) \in Nat /\ Bound(s)' \in Nat /\ Bound(s) <= Bound(s)'
         /\ \A r \in Requests :
              r \in Reached("buy", s)' \ Reached("buy", s) =>
                Bound(s) + req'[r].quantity <= Bound(s)'
         /\ \A r \in Requests :
              r \in Reached("create", s)' \ Reached("create", s) =>
                req'[r].quantity <= Bound(s)'
<1>1. OpeningQuantity[s] \in Nat
  BY HoldingsAssumption
<1>2. \A r \in Requests : req'[r].quantity \in Nat
  BY NextTypeOK DEF TypeOK, Request
<1>3. Bound(s) = OpeningQuantity[s] + Applied("create", s) + Applied("buy", s)
      /\ Bound(s)' = OpeningQuantity[s] + Applied("create", s)' + Applied("buy", s)'
  BY DEF Bound, Initial
<1>4. /\ Applied("create", s) \in Nat /\ Applied("create", s)' \in Nat
      /\ Applied("create", s) <= Applied("create", s)'
      /\ \A r \in Requests :
           r \in Reached("create", s)' \ Reached("create", s) =>
             Applied("create", s) + req'[r].quantity <= Applied("create", s)'
  BY AppliedGrows
<1>5. /\ Applied("buy", s) \in Nat /\ Applied("buy", s)' \in Nat
      /\ Applied("buy", s) <= Applied("buy", s)'
      /\ \A r \in Requests :
           r \in Reached("buy", s)' \ Reached("buy", s) =>
             Applied("buy", s) + req'[r].quantity <= Applied("buy", s)'
  BY AppliedGrows
<1> QED
  BY <1>1, <1>2, <1>3, <1>4, <1>5

LEMMA QuantityNotTypedBefore ==
  ASSUME TypeOK, RequestsInv, [Next]_vars, NEW s, QuantityNotTyped(s)'
  PROVE  QuantityNotTyped(s)
<1> SUFFICES ASSUME NEW r \in Requests, req[r].op = "update", req[r].stock = s
             PROVE  req[r].quantity = 0
  BY DEF QuantityNotTyped
<1>1. req'[r].op = "update" /\ req'[r].stock = s /\ req'[r].quantity = req[r].quantity
  BY LocalSteps DEF LocalStep, RequestsInv
<1> QED
  BY <1>1 DEF QuantityNotTyped

LEMMA InitShares == Init => SharesInv
<1> SUFFICES ASSUME Init PROVE SharesInv
  OBVIOUS
<1>1. TypeOK /\ RequestsInv
  BY InitTypeOK, InitRequests
<1>2. ASSUME NEW s \in DOMAIN stocks PROVE stocks[s].quantity <= Bound(s)
  <2>1. s \in Stocks /\ stocks[s].quantity = OpeningQuantity[s] /\ OpeningQuantity[s] \in Nat
    BY HoldingsAssumption DEF Init
  <2>2. Applied("create", s) \in Nat /\ Applied("buy", s) \in Nat
    BY <1>1, CarriedShares
  <2> QED
    BY <2>1, <2>2 DEF Bound, Initial
<1>3. \A r \in Requests : CopyCovered(r)
  BY DEF Init, CopyCovered
<1> QED
  BY <1>1, <1>2, <1>3 DEF SharesInv, NoSharesFromNowhere, Bound

LEMMA NextShares == TypeOK /\ SharesInv /\ [Next]_vars => SharesInv'
<1> SUFFICES ASSUME TypeOK, SharesInv, [Next]_vars PROVE SharesInv'
  OBVIOUS
<1>1. RequestsInv /\ RequestsInv' /\ TypeOK'
  BY NextRequests, NextTypeOK DEF SharesInv
<1>2. \A r \in Requests : /\ req[r].stock \in Stocks /\ req'[r].stock \in Stocks
                          /\ req[r].quantity \in Nat /\ req'[r].quantity \in Nat
                          /\ req[r].row.quantity \in Nat /\ req'[r].row.quantity \in Nat
  BY <1>1 DEF TypeOK, Request, Row
<1>3. ASSUME NEW s \in DOMAIN stocks', QuantityNotTyped(s)'
      PROVE  stocks'[s].quantity <= Bound(s)'
  <2>1. s \in Stocks /\ stocks'[s].quantity \in Nat
    BY <1>1 DEF TypeOK, Row
  <2>2. QuantityNotTyped(s)
    BY <1>1, <1>3, QuantityNotTypedBefore
  <2>3. Bound(s) \in Nat /\ Bound(s)' \in Nat /\ Bound(s) <= Bound(s)'
    BY <1>1, <2>1, BoundGrows
  <2>4. CASE s \in DOMAIN stocks /\ stocks'[s] = stocks[s]
    <3>1. stocks[s].quantity <= Bound(s)
      BY <2>2, <2>4 DEF SharesInv, NoSharesFromNowhere, Bound
    <3> QED
      BY <2>1, <2>3, <2>4, <3>1
  <2>5. ASSUME NEW r \in Requests, req[r].pc = "idle", req'[r].pc = "ok",
               req'[r].op = "create", req'[r].stock = s,
               req'[r].quantity = stocks'[s].quantity
        PROVE  stocks'[s].quantity <= Bound(s)'
    <3>1. r \in Reached("create", s)' \ Reached("create", s)
      BY <2>5 DEF Reached
    <3> QED
      BY <1>1, <2>1, <2>5, <3>1, BoundGrows
  <2>6. ASSUME NEW r \in Requests, req[r].pc = "write", req[r].stock = s,
               req[r].op \in {"update", "buy", "sell"},
               req[r].op = "buy" => req'[r].pc = "log",
               stocks'[s].quantity = req[r].row.quantity
                                  - (IF req[r].op = "sell" THEN req[r].quantity ELSE 0)
        PROVE  stocks'[s].quantity <= Bound(s)'
    <3>1. CopyCovered(r)
      BY DEF SharesInv
    <3>2. CASE req[r].op \in {"update", "sell"}
      <4>1. req[r].row.quantity <= Bound(s)
        BY <2>1, <2>2, <2>6, <3>1, <3>2 DEF CopyCovered
      <4> QED
        BY <1>2, <2>1, <2>3, <2>6, <4>1
    <3>3. CASE req[r].op = "buy"
      <4>1. req[r].row.quantity <= Bound(s) + req[r].quantity
        BY <2>1, <2>2, <2>6, <3>1, <3>3 DEF CopyCovered
      <4>2. req'[r].op = "buy" /\ req'[r].stock = s /\ req'[r].quantity = req[r].quantity
        BY <2>6, <3>3, LocalSteps DEF LocalStep
      <4>3. r \in Reached("buy", s)' \ Reached("buy", s)
        BY <2>6, <3>3, <4>2 DEF Reached
      <4>4. Bound(s) + req[r].quantity <= Bound(s)'
        BY <1>1, <2>1, <4>2, <4>3, BoundGrows
      <4> QED
        BY <1>2, <2>1, <2>3, <2>6, <3>3, <4>1, <4>4
    <3> QED
      BY <2>6, <3>2, <3>3
  <2> QED
    BY <2>4, <2>5, <2>6, RowSteps DEF RowStep
<1>4. ASSUME NEW r \in Requests PROVE CopyCovered(r)'
  <2> SUFFICES ASSUME NEW s \in Stocks, req'[r].pc \in {"check", "log", "write"},
                      req'[r].stock = s, QuantityNotTyped(s)'
               PROVE  /\ req'[r].op \in {"update", "sell"} => req'[r].row.quantity <= Bound(s)'
                      /\ req'[r].op = "buy" /\ req'[r].pc = "write" =>
                           req'[r].row.quantity <= Bound(s)' + req'[r].quantity
    BY DEF CopyCovered
  <2>1. QuantityNotTyped(s)
    BY <1>1, QuantityNotTypedBefore
  <2>2. Bound(s) \in Nat /\ Bound(s)' \in Nat /\ Bound(s) <= Bound(s)'
    BY <1>1, BoundGrows
  <2>3. LocalStep(r)
    BY LocalSteps
  <2>4. CopyCovered(r)
    BY DEF SharesInv
  <2>5. CASE req'[r] = req[r]
    <3>1. /\ req[r].op \in {"update", "sell"} => req[r].row.quantity <= Bound(s)
          /\ req[r].op = "buy" /\ req[r].pc = "write" =>
               req[r].row.quantity <= Bound(s) + req[r].quantity
      BY <2>1, <2>4, <2>5 DEF CopyCovered
    <3> QED
      BY <1>2, <2>2, <2>5, <3>1
  <2>6. CASE /\ req'[r].op = req[r].op /\ req'[r].stock = req[r].stock
             /\ req'[r].row = req[r].row
             /\ req[r].op = "buy" => req'[r].pc = "log"
             /\ req[r].pc \in {"check", "log", "write"}
    <3>1. req[r].op \in {"update", "sell"} => req[r].row.quantity <= Bound(s)
      BY <2>1, <2>4, <2>6 DEF CopyCovered
    <3> QED
      BY <1>2, <2>2, <2>6, <3>1
  <2>7. CASE ReadStep(r)
    <3>1. s \in DOMAIN stocks /\ stocks[s].quantity <= Bound(s) /\ stocks[s].quantity \in Nat
      BY <2>1, <2>7 DEF ReadStep, SharesInv, NoSharesFromNowhere, Bound, TypeOK, Row
    <3>2. req'[r].op = "update" => req'[r].quantity = 0
      BY DEF QuantityNotTyped
    <3>3. /\ req'[r].op \in {"update", "sell"} => req'[r].row.quantity = stocks[s].quantity
          /\ req'[r].op = "buy" => req'[r].row.quantity = stocks[s].quantity + req'[r].quantity
      BY <2>7, <3>2 DEF ReadStep
    <3> QED
      BY <1>2, <2>2, <3>1, <3>3
  <2> QED
    BY <2>3, <2>5, <2>6, <2>7 DEF LocalStep
<1> QED
  BY <1>1, <1>3, <1>4 DEF SharesInv, NoSharesFromNowhere, Bound

\* Whatever is lost to interleaving, failures and crashes, no purchase is
\* ever counted twice: the shares of a holding whose quantity nobody typed
\* are covered by what it entered the table with and its purchases.
THEOREM SharesAreBought == Spec => []NoSharesFromNowhere
<1>1. Init => TypeOK /\ SharesInv
  BY InitTypeOK, InitShares
<1>2. TypeOK /\ SharesInv /\ [Next]_vars => (TypeOK /\ SharesInv)'
  BY NextTypeOK, NextShares
<1>3. SharesInv => NoSharesFromNowhere
  BY DEF SharesInv
<1> QED
  BY <1>1, <1>2, <1>3, PTL DEF Spec

----------------------------------------------------------------------------
(* Requests served one at a time, without failures.                        *)

\* One request is in flight at a time, and no statement fails.
Serial == MaxInFlight = 1 /\ MaxFaults = 0

\* The shares in the table, 0 when the row is gone.
Held(s) == IF s \in DOMAIN stocks THEN stocks[s].quantity ELSE 0

\* The copy of the one request in flight is what the table has.
Current(r, s) ==
  /\ Held(s) > 0
  /\ req[r].op = "sell" => req[r].row.quantity = Held(s)
  /\ req[r].op = "update" =>
       req[r].row.quantity = IF req[r].quantity = 0 THEN Held(s) ELSE req[r].quantity
  /\ req[r].op = "buy" /\ req[r].pc = "write" =>
       req[r].row.quantity = Held(s) + req[r].quantity

\* An operation, and where it can stand.
Shape(r) ==
  /\ req[r].pc = "check" => req[r].op = "delete"
  /\ req[r].pc = "log" => req[r].op \in {"buy", "sell"}
  /\ req[r].pc = "write" => req[r].op \in {"update", "delete", "buy", "sell"}
  /\ req[r].op \in {"create", "buy", "sell"} => req[r].quantity > 0

\* A log entry stands for one trade, and was written at its turn.
LogKept ==
  /\ IsFiniteSet(log)
  /\ \A l \in log :
       /\ l.stock \in issued
       /\ l.req \in Requests
       /\ req[l.req].pc \in {"write", "ok"}
       /\ req[l.req].op = "buy" => req[l.req].pc = "ok"

\* Holding and log, halves of a trade under way counted in.
Balanced(s) ==
  /\ Logged("buy", s) + Owed("buy", "log", s) = Applied("buy", s)
  /\ QuantityNotTyped(s) /\ Held(s) > 0 =>
       Held(s) + Logged("sell", s) = Bound(s) + Owed("sell", "write", s)
  /\ QuantityNotTyped(s) => Logged("sell", s) <= Bound(s)

SerialInv ==
  /\ RequestsInv
  /\ \A s \in Stocks \ issued : OpeningQuantity[s] = 0
  /\ \A r \in Requests : req[r].pc # "idle" => req[r].stock \in issued
  /\ \A r, q \in InFlight : r = q
  /\ \A r \in Requests : Shape(r)
  /\ \A r \in Requests, s \in Stocks :
       req[r].pc \in {"check", "log", "write"} /\ req[r].stock = s => Current(r, s)
  /\ LogKept
  /\ \A s \in Stocks : Balanced(s)

\* What one step of a handler does to holding s when no other is in flight:
\* r carries n shares.
SerialStep(r, s, n) ==
  /\ req'[r].stock = s /\ req'[r].quantity = n
  /\ \/ req[r].pc = "idle"
     \/ req[r].stock = s /\ req[r].quantity = n /\ req[r].op = req'[r].op
  /\ \A t \in Stocks \ {s} : Held(t)' = Held(t)
  /\ \/ /\ req[r].pc = "idle" /\ req'[r].pc = "ok" /\ req'[r].op = "create"
        /\ s \notin issued /\ issued' = issued \cup {s} /\ log' = log
        /\ Held(s)' = n /\ n > 0
     \/ /\ req[r].pc = "idle" /\ req'[r].pc \in {"check", "log", "write"}
        /\ s \in issued /\ UNCHANGED <<issued, log>>
        /\ Held(s)' = Held(s) /\ Current(r, s)' /\ Shape(r)'
        /\ req'[r].op = "buy" => req'[r].pc = "write"
        /\ req'[r].op = "sell" => req'[r].pc = "log" /\ n <= Held(s)
        /\ req'[r].op \in {"update", "delete", "buy", "sell"}
     \/ /\ req'[r].op = "delete" /\ req'[r].pc = "ok"
        /\ req[r].pc = "idle" \/ req[r].pc = "write"
        /\ s \in issued /\ UNCHANGED <<issued, log>> /\ Held(s)' = 0
     \/ /\ req[r].op = "delete"
        /\ req[r].pc = "check" /\ req'[r].pc \in {"write", "error"}
        /\ UNCHANGED <<issued, log>> /\ Held(s)' = Held(s)
     \/ /\ req[r].op = "update" /\ req[r].pc = "write" /\ req'[r].pc = "ok"
        /\ UNCHANGED <<issued, log>> /\ Held(s)' = req[r].row.quantity
     \/ /\ req[r].op = "buy" /\ req[r].pc = "write" /\ req'[r].pc = "log"
        /\ UNCHANGED <<issued, log>> /\ Held(s)' = Held(s) + n
     \/ /\ req[r].op = "sell" /\ req[r].pc = "write" /\ req'[r].pc = "ok"
        /\ UNCHANGED <<issued, log>> /\ Held(s)' = Held(s) - n
     \/ /\ req[r].op = "buy" /\ req[r].pc = "log" /\ req'[r].pc = "ok"
        /\ UNCHANGED issued /\ log' = log \cup {Entry(r, "buy")} /\ Held(s)' = Held(s)
     \/ /\ req[r].op = "sell" /\ req[r].pc = "log" /\ req'[r].pc = "write"
        /\ UNCHANGED issued /\ log' = log \cup {Entry(r, "sell")} /\ Held(s)' = Held(s)
        /\ req'[r].row = req[r].row

LEMMA NoFault ==
  ASSUME Serial, TypeOK
  PROVE  ~Fault
BY HoldingsAssumption DEF Serial, TypeOK, Fault

\* A handler's step finds no other handler in flight, and leaves none.
LEMMA SerialAlone ==
  ASSUME Serial, TypeOK, SerialInv, NEW r \in Requests, Serve(r)
  PROVE  /\ \A q \in Requests : q # r => q \notin InFlight /\ req'[q] = req[q]
         /\ req[r].pc = "idle" \/ r \in InFlight
<1>1. PICK local : req' = [req EXCEPT ![r] = local]
  BY OneMoves
<1>2. \A q \in Requests : q # r => req'[q] = req[q]
  BY <1>1 DEF TypeOK
<1>3. CASE r \in InFlight
  BY <1>2, <1>3 DEF SerialInv, InFlight
<1>4. CASE r \notin InFlight
  <2>1. ASSUME NEW local2, Open(r, local2)
        PROVE  Cardinality(InFlight) < 1 /\ req[r].pc = "idle"
    BY <2>1 DEF Open, Serial
  <2>2. ASSUME BuyStockRead(r)
        PROVE  Cardinality(InFlight) < 1 /\ req[r].pc = "idle"
    BY <2>1, <2>2 DEF BuyStockRead
  <2>3. Cardinality(InFlight) < 1 /\ req[r].pc = "idle"
    BY <1>4, <2>1, <2>2
    DEF Serve, Serving, InFlight, CreateStock, UpdateStockRead, UpdateStockWrite,
        DeleteStockForced, DeleteStockRead, DeleteStockCheck, DeleteStockWrite,
        BuyStockWrite, BuyStockLog, SellStockRead, SellStockLog, SellStockWrite
  <2>4. InFlight \subseteq Begun /\ IsFiniteSet(Begun)
    BY DEF InFlight, Begun, SerialInv, RequestsInv
  <2>5. IsFiniteSet(InFlight)
    BY <2>4, FS_Subset
  <2>6. Cardinality(InFlight) \in Nat
    BY <2>5, FS_CardinalityType
  <2>7. Cardinality(InFlight) = 0
    BY <2>3, <2>6
  <2>8. InFlight = {}
    BY <2>5, <2>7, FS_EmptySet
  <2> QED
    BY <1>2, <2>3, <2>8
<1> QED
  BY <1>3, <1>4

\* What an insert, an update and a delete do to the shares held.
LEMMA HeldInserted ==
  ASSUME TypeOK, NEW s \in Stocks, NEW row, Insert(s, row)
  PROVE  Held(s)' = row.quantity /\ \A t \in Stocks \ {s} : Held(t)' = Held(t)
BY DEF Insert, Held, TypeOK

LEMMA HeldUpdated ==
  ASSUME TypeOK, NEW s \in Stocks, NEW row \in Row, Update(s, row)
  PROVE  Held(s)' = row.quantity /\ \A t \in Stocks \ {s} : Held(t)' = Held(t)
<1>1. [row EXCEPT !.user = stocks[s].user].quantity = row.quantity
  BY DEF Row
<1> QED
  BY <1>1 DEF Update, Held, TypeOK

LEMMA HeldDeleted ==
  ASSUME TypeOK, NEW s \in Stocks, Delete(s)
  PROVE  Held(s)' = 0 /\ \A t \in Stocks \ {s} : Held(t)' = Held(t)
BY DEF Delete, Held, TypeOK

LEMMA HeldType ==
  ASSUME TypeOK, NEW s \in Stocks
  PROVE  Held(s) \in Nat /\ (s \in DOMAIN stocks <=> Held(s) > 0)
         /\ (s \in DOMAIN stocks => Held(s) = stocks[s].quantity)
BY DEF TypeOK, Held, Row

\* A goroutine's move, field by field.
LEMMA Opened ==
  ASSUME TypeOK, NEW r \in Requests, NEW local, Open(r, local)
  PROVE  req[r].pc = "idle" /\ req'[r] = local
BY DEF Open, TypeOK

LEMMA Gone ==
  ASSUME TypeOK, NEW r \in Requests, NEW pc, Goto(r, pc)
  PROVE  /\ req'[r].pc = pc /\ req'[r].op = req[r].op /\ req'[r].stock = req[r].stock
         /\ req'[r].quantity = req[r].quantity /\ req'[r].row = req[r].row
BY DEF Goto, TypeOK, Request

LEMMA Replied ==
  ASSUME TypeOK, NEW r \in Requests, NEW pc, Reply(r, pc)
  PROVE  /\ req'[r].pc = pc /\ req'[r].op = req[r].op /\ req'[r].stock = req[r].stock
         /\ req'[r].quantity = req[r].quantity
BY DEF Reply, TypeOK, Request

LEMMA HeldSame ==
  ASSUME UNCHANGED stocks
  PROVE  \A s : Held(s)' = Held(s)
BY DEF Held

\* What a request in flight knows of the row it works on.
LEMMA InFlightFacts ==
  ASSUME TypeOK, SerialInv, NEW r \in Requests, req[r].pc \in {"check", "log", "write"},
         NEW s, req[r].stock = s
  PROVE  /\ s \in Stocks /\ s \in issued /\ Current(r, s) /\ Shape(r)
         /\ s \in DOMAIN stocks
         /\ req[r].quantity \in Nat /\ req[r].row \in Row
         /\ req[r].op = "sell" => req[r].quantity \in 1..req[r].row.quantity
<1>1. /\ s \in Stocks /\ req[r].quantity \in Nat /\ req[r].row \in Row
      /\ req[r].op = "sell" => req[r].quantity \in 1..req[r].row.quantity
  BY DEF TypeOK, Request, InFlight
<1>2. s \in issued /\ Current(r, s) /\ Shape(r)
  BY <1>1 DEF SerialInv
<1> QED
  BY <1>1, <1>2, HeldType DEF Current

LEMMA UpdateSteps ==
  ASSUME Serial, TypeOK, SerialInv, NEW r \in Requests, UpdateStockWrite(r),
         NEW s, req[r].stock = s, NEW n, req[r].quantity = n
  PROVE  SerialStep(r, s, n)
<1>1. Serving(r, "update", "write") /\ UNCHANGED <<issued, log>>
  BY DEF UpdateStockWrite
<1>2. s \in Stocks /\ s \in DOMAIN stocks /\ req[r].row \in Row
  BY <1>1, InFlightFacts DEF Serving
<1>3. Update(s, req[r].row) /\ Reply(r, "ok")
  BY <1>2, NoFault DEF UpdateStockWrite, WriteFails
<1> QED
  BY <1>1, <1>2, <1>3, HeldUpdated, Replied DEF SerialStep, Serving

LEMMA BuyWriteSteps ==
  ASSUME Serial, TypeOK, SerialInv, NEW r \in Requests, BuyStockWrite(r),
         NEW s, req[r].stock = s, NEW n, req[r].quantity = n
  PROVE  SerialStep(r, s, n)
<1>1. Serving(r, "buy", "write") /\ UNCHANGED <<issued, log>>
  BY DEF BuyStockWrite
<1>2. s \in Stocks /\ s \in DOMAIN stocks /\ req[r].row \in Row /\ Current(r, s)
  BY <1>1, InFlightFacts DEF Serving
<1>3. Update(s, req[r].row) /\ Goto(r, "log")
  BY <1>2, NoFault DEF BuyStockWrite, WriteFails
<1>4. Held(s)' = Held(s) + n
  BY <1>1, <1>2, <1>3, HeldUpdated DEF Current, Serving
<1> QED
  BY <1>1, <1>2, <1>3, <1>4, HeldUpdated, Gone DEF SerialStep, Serving

LEMMA DeleteWriteSteps ==
  ASSUME Serial, TypeOK, SerialInv, NEW r \in Requests, DeleteStockWrite(r),
         NEW s, req[r].stock = s, NEW n, req[r].quantity = n
  PROVE  SerialStep(r, s, n)
<1>1. Serving(r, "delete", "write") /\ UNCHANGED <<issued, log>>
  BY DEF DeleteStockWrite
<1>2. s \in Stocks /\ s \in DOMAIN stocks /\ s \in issued
  BY <1>1, InFlightFacts DEF Serving
<1>3. Delete(s) /\ Reply(r, "ok")
  BY <1>2, NoFault DEF DeleteStockWrite, WriteFails
<1> QED
  BY <1>1, <1>2, <1>3, HeldDeleted, Replied DEF SerialStep, Serving

LEMMA SellWriteSteps ==
  ASSUME Serial, TypeOK, SerialInv, NEW r \in Requests, SellStockWrite(r),
         NEW s, req[r].stock = s, NEW n, req[r].quantity = n
  PROVE  SerialStep(r, s, n)
<1>1. Serving(r, "sell", "write") /\ UNCHANGED <<issued, log>>
  BY DEF SellStockWrite
<1>2. /\ s \in Stocks /\ s \in DOMAIN stocks /\ req[r].row \in Row /\ Current(r, s)
      /\ n \in 1..req[r].row.quantity
  BY <1>1, InFlightFacts DEF Serving
<1> DEFINE left == req[r].row.quantity - n
           row == [req[r].row EXCEPT !.quantity = left]
<1>3. left = Held(s) - n
  BY <1>1, <1>2 DEF Current, Serving
<1>4. /\ Reply(r, "ok")
      /\ \/ left = 0 /\ Delete(s)
         \/ left # 0 /\ Update(s, row)
  BY <1>2, NoFault DEF SellStockWrite, WriteFails
<1>5. row \in Row /\ row.quantity = left
  BY <1>2 DEF Row
<1> HIDE DEF row
<1>6. Held(s)' = left /\ \A t \in Stocks \ {s} : Held(t)' = Held(t)
  <2>1. CASE left = 0 /\ Delete(s)
    BY <1>2, <2>1, HeldDeleted
  <2>2. CASE Update(s, row)
    BY <1>2, <1>5, <2>2, HeldUpdated
  <2> QED
    BY <1>4, <2>1, <2>2
<1> HIDE DEF left
<1> QED
  BY <1>1, <1>3, <1>4, <1>6, Replied DEF SerialStep, Serving

LEMMA CheckSteps ==
  ASSUME Serial, TypeOK, SerialInv, NEW r \in Requests, DeleteStockCheck(r),
         NEW s, req[r].stock = s, NEW n, req[r].quantity = n
  PROVE  SerialStep(r, s, n)
<1>1. Serving(r, "delete", "check") /\ UNCHANGED <<stocks, issued, log>>
      /\ (Reply(r, "error") \/ Goto(r, "write"))
  BY DEF DeleteStockCheck
<1> QED
  BY <1>1, HeldSame, Replied, Gone DEF SerialStep, Serving

LEMMA LogSerialSteps ==
  ASSUME Serial, TypeOK, SerialInv, NEW r \in Requests, BuyStockLog(r) \/ SellStockLog(r),
         NEW s, req[r].stock = s, NEW n, req[r].quantity = n
  PROVE  SerialStep(r, s, n)
<1>1. CASE BuyStockLog(r)
  <2>1. /\ Serving(r, "buy", "log") /\ UNCHANGED <<stocks, issued>> /\ Reply(r, "ok")
        /\ log' = log \cup {Entry(r, "buy")}
    BY <1>1, NoFault DEF BuyStockLog, LogOrWarn, Append
  <2> QED
    BY <2>1, HeldSame, Replied DEF SerialStep, Serving
<1>2. CASE SellStockLog(r)
  <2>1. /\ Serving(r, "sell", "log") /\ UNCHANGED <<stocks, issued>> /\ Goto(r, "write")
        /\ log' = log \cup {Entry(r, "sell")}
    BY <1>2, NoFault DEF SellStockLog, LogOrWarn, Append
  <2> QED
    BY <2>1, HeldSame, Gone DEF SerialStep, Serving
<1> QED
  BY <1>1, <1>2

LEMMA CreateSteps ==
  ASSUME TypeOK, NEW r \in Requests, CreateStock(r)
  PROVE  \E s \in Stocks, n \in Nat : SerialStep(r, s, n)
<1>1. PICK s \in Stocks, n \in Quantities, u \in Users :
        /\ Insert(s, [user |-> u, quantity |-> n, avg |-> {r}, krw |-> {}])
        /\ Open(r, [pc |-> "ok", op |-> "create", stock |-> s, quantity |-> n,
                    opts |-> {}, row |-> Blank])
        /\ UNCHANGED log
  BY DEF CreateStock
<1>2. Held(s)' = n /\ \A t \in Stocks \ {s} : Held(t)' = Held(t)
  BY <1>1, HeldInserted
<1>3. n \in Nat /\ n > 0
  BY HoldingsAssumption
<1>4. /\ req[r].pc = "idle" /\ req'[r].pc = "ok" /\ req'[r].op = "create"
      /\ req'[r].stock = s /\ req'[r].quantity = n
  BY <1>1, Opened
<1>5. SerialStep(r, s, n)
  BY <1>1, <1>2, <1>3, <1>4 DEF SerialStep, Insert
<1> QED
  BY <1>3, <1>5

LEMMA ForcedSteps ==
  ASSUME TypeOK, NEW r \in Requests, DeleteStockForced(r)
  PROVE  \E s \in Stocks, n \in Nat : SerialStep(r, s, n)
<1>1. PICK s \in DOMAIN stocks :
        /\ Delete(s)
        /\ Open(r, [pc |-> "ok", op |-> "delete", stock |-> s, quantity |-> 0,
                    opts |-> {"force"}, row |-> Blank])
        /\ UNCHANGED <<issued, log>>
  BY DEF DeleteStockForced
<1>2. s \in Stocks /\ s \in issued
  BY DEF TypeOK
<1>3. SerialStep(r, s, 0)
  BY <1>1, <1>2, HeldDeleted, Opened DEF SerialStep
<1> QED
  BY <1>2, <1>3

\* The reads, by what they leave in the goroutine.
LEMMA ReadSteps ==
  ASSUME TypeOK, NEW r \in Requests, NEW s \in DOMAIN stocks, NEW n \in Nat,
         UNCHANGED <<stocks, issued, log>>, NEW local, Open(r, local),
         local.stock = s, local.quantity = n,
         \/ /\ local.op = "update" /\ local.pc = "write"
            /\ local.row.quantity = IF n = 0 THEN stocks[s].quantity ELSE n
         \/ local.op = "delete" /\ local.pc = "check"
         \/ /\ local.op = "buy" /\ local.pc = "write" /\ n > 0
            /\ local.row.quantity = stocks[s].quantity + n
         \/ /\ local.op = "sell" /\ local.pc = "log" /\ n > 0
            /\ n <= stocks[s].quantity /\ local.row.quantity = stocks[s].quantity
  PROVE  SerialStep(r, s, n)
<1>1. req[r].pc = "idle" /\ req'[r] = local
  BY Opened
<1>2. s \in Stocks /\ s \in issued /\ Held(s) = stocks[s].quantity /\ Held(s) > 0
  BY HeldType DEF TypeOK
<1>3. \A t : Held(t)' = Held(t)
  BY HeldSame
<1>4. Current(r, s)' /\ Shape(r)'
  BY <1>1, <1>2, <1>3 DEF Current, Shape
<1> QED
  BY <1>1, <1>2, <1>3, <1>4 DEF SerialStep

LEMMA ReadsSteps ==
  ASSUME TypeOK, NEW r \in Requests,
         UpdateStockRead(r) \/ DeleteStockRead(r) \/ BuyStockRead(r) \/ SellStockRead(r)
  PROVE  \E s \in Stocks, n \in Nat : SerialStep(r, s, n)
<1>0. DOMAIN stocks \subseteq Stocks /\ 0 \in Nat /\ \A q \in Quantities : q \in Nat /\ q > 0
  BY HoldingsAssumption DEF TypeOK
<1>1. CASE UpdateStockRead(r)
  <2>1. PICK s \in DOMAIN stocks, n \in Quantities \cup {0}, u \in Users,
             opts \in SUBSET {"average"} :
          /\ Open(r, [pc |-> "write", op |-> "update", stock |-> s, quantity |-> n,
                      opts |-> opts,
                      row |-> [user |-> u,
                               quantity |-> IF n = 0 THEN stocks[s].quantity ELSE n,
                               avg |-> IF "average" \in opts THEN {r} ELSE stocks[s].avg,
                               krw |-> stocks[s].krw]])
          /\ UNCHANGED <<stocks, issued, log>>
    BY <1>1 DEF UpdateStockRead
  <2>2. n \in Nat
    BY <1>0
  <2>3. SerialStep(r, s, n)
    BY <2>1, <2>2, ReadSteps
  <2> QED
    BY <1>0, <2>2, <2>3
<1>2. CASE DeleteStockRead(r)
  <2>1. PICK s \in DOMAIN stocks :
          /\ Open(r, [pc |-> "check", op |-> "delete", stock |-> s, quantity |-> 0,
                      opts |-> {}, row |-> stocks[s]])
          /\ UNCHANGED <<stocks, issued, log>>
    BY <1>2 DEF DeleteStockRead
  <2>2. SerialStep(r, s, 0)
    BY <1>0, <2>1, ReadSteps
  <2> QED
    BY <1>0, <2>2
<1>3. CASE BuyStockRead(r)
  <2>1. PICK s \in DOMAIN stocks, n \in Quantities, opts \in SUBSET {"rate"} :
          /\ \E krw \in IF Currency[s] = "USD" THEN BlendKRWCostBasis(stocks[s], r)
                                               ELSE {stocks[s].avg \cup {r}} :
               Open(r, [pc |-> "write", op |-> "buy", stock |-> s, quantity |-> n,
                        opts |-> opts,
                        row |-> [user |-> stocks[s].user,
                                 quantity |-> stocks[s].quantity + n,
                                 avg |-> stocks[s].avg \cup {r}, krw |-> krw]])
          /\ UNCHANGED <<stocks, issued, log>>
    BY <1>3 DEF BuyStockRead
  <2>2. PICK krw :
          Open(r, [pc |-> "write", op |-> "buy", stock |-> s, quantity |-> n,
                   opts |-> opts,
                   row |-> [user |-> stocks[s].user,
                            quantity |-> stocks[s].quantity + n,
                            avg |-> stocks[s].avg \cup {r}, krw |-> krw]])
    BY <2>1
  <2>3. n \in Nat /\ n > 0
    BY <1>0
  <2>4. SerialStep(r, s, n)
    BY <2>1, <2>2, <2>3, ReadSteps
  <2> QED
    BY <1>0, <2>3, <2>4
<1>4. CASE SellStockRead(r)
  <2>1. PICK s \in DOMAIN stocks, n \in Quantities, opts \in SUBSET {"rate"} :
          /\ n <= stocks[s].quantity
          /\ Open(r, [pc |-> "log", op |-> "sell", stock |-> s, quantity |-> n,
                      opts |-> opts, row |-> stocks[s]])
          /\ UNCHANGED <<stocks, issued, log>>
    BY <1>4 DEF SellStockRead
  <2>2. n \in Nat /\ n > 0
    BY <1>0
  <2>3. SerialStep(r, s, n)
    BY <2>1, <2>2, ReadSteps
  <2> QED
    BY <1>0, <2>2, <2>3
<1> QED
  BY <1>1, <1>2, <1>3, <1>4

LEMMA SerialSteps ==
  ASSUME Serial, TypeOK, SerialInv, NEW r \in Requests, Serve(r)
  PROVE  \E s \in Stocks, n \in Nat : SerialStep(r, s, n)
<1>1. req[r].stock \in Stocks /\ req[r].quantity \in Nat
  BY DEF TypeOK, Request
<1>2. CASE \/ UpdateStockWrite(r) \/ BuyStockWrite(r) \/ DeleteStockWrite(r)
           \/ SellStockWrite(r) \/ DeleteStockCheck(r) \/ BuyStockLog(r) \/ SellStockLog(r)
  BY <1>1, <1>2, UpdateSteps, BuyWriteSteps, DeleteWriteSteps, SellWriteSteps,
     CheckSteps, LogSerialSteps
<1> QED
  BY <1>2, CreateSteps, ForcedSteps, ReadsSteps DEF Serve

\* Of the sums over requests, a step of r moves what r adds to them.
CarriedMoved(A, B, r) ==
  /\ SumOf(Carried, A) \in Nat /\ SumOf(Carried', B) \in Nat
  /\ SumOf(Carried', B) = SumOf(Carried, A)
       - (IF r \in A THEN req[r].quantity ELSE 0)
       + (IF r \in B THEN req'[r].quantity ELSE 0)

LEMMA MovedSum ==
  ASSUME TypeOK, RequestsInv, TypeOK', NEW r \in Requests,
         \A q \in Requests : q # r => req'[q] = req[q],
         NEW A, NEW B, A \subseteq Begun, B \subseteq Requests, A \ {r} = B \ {r}
  PROVE  CarriedMoved(A, B, r)
<1> DEFINE f == Carried
           e == Carried'
<1>1. A \subseteq Requests /\ IsFiniteSet(A)
  BY FS_Subset DEF RequestsInv, Begun
<1>2. \A q \in Requests : f[q] = req[q].quantity /\ f[q] \in Nat
  BY DEF Carried, TypeOK, Request
<1>3. \A q \in Requests : e[q] = req'[q].quantity /\ e[q] \in Nat
  BY DEF Carried, TypeOK, Request
<1> HIDE DEF f, e
<1>4. /\ \A y \in A : f[y] \in Int
      /\ \A y \in B : e[y] \in Int
      /\ \A y \in A \ {r} : e[y] = f[y]
  BY <1>1, <1>2, <1>3
<1>5. IsFiniteSet(B) /\ Moved(f, A, e, B, r)
  BY <1>1, <1>4, SumMove
<1>6. SumOf(f, A) \in Nat /\ SumOf(e, B) \in Nat
  BY <1>1, <1>2, <1>3, <1>5, SumNat
<1> QED
  BY <1>2, <1>3, <1>5, <1>6 DEF f, e, Moved, CarriedMoved

LEMMA MovedApplied ==
  ASSUME TypeOK, RequestsInv, TypeOK', NEW r \in Requests,
         \A q \in Requests : q # r => req'[q] = req[q], NEW op, NEW s
  PROVE  /\ Applied(op, s) \in Nat /\ Applied(op, s)' \in Nat
         /\ Applied(op, s)' = Applied(op, s)
              - (IF r \in Reached(op, s) THEN req[r].quantity ELSE 0)
              + (IF r \in Reached(op, s)' THEN req'[r].quantity ELSE 0)
<1> DEFINE A == Reached(op, s)
           B == Reached(op, s)'
<1>1. A \subseteq Begun /\ B \subseteq Requests /\ A \ {r} = B \ {r}
  BY DEF Reached, Begun
<1>2. Applied(op, s) = SumOf(Carried, A) /\ Applied(op, s)' = SumOf(Carried', B)
  BY DEF Applied
<1> HIDE DEF A, B
<1>3. CarriedMoved(A, B, r)
  BY <1>1, MovedSum
<1> QED
  BY <1>2, <1>3 DEF A, B, CarriedMoved

LEMMA MovedOwed ==
  ASSUME TypeOK, RequestsInv, TypeOK', NEW r \in Requests,
         \A q \in Requests : q # r => req'[q] = req[q],
         NEW op, NEW pc \in {"log", "write"}, NEW s
  PROVE  /\ Owed(op, pc, s) \in Nat /\ Owed(op, pc, s)' \in Nat
         /\ Owed(op, pc, s)' = Owed(op, pc, s)
              - (IF r \in Owing(op, pc, s) THEN req[r].quantity ELSE 0)
              + (IF r \in Owing(op, pc, s)' THEN req'[r].quantity ELSE 0)
<1>1. PICK A : A = Owing(op, pc, s)
  OBVIOUS
<1>2. PICK B : B = Owing(op, pc, s)'
  OBVIOUS
<1>3. A \subseteq Begun
  BY <1>1 DEF Owing, Serving, Begun
<1>4. B \subseteq Requests
  BY <1>2 DEF Owing
<1>5. A \ {r} = B \ {r}
  BY <1>1, <1>2 DEF Owing, Serving
<1>6. Owed(op, pc, s) = SumOf(Carried, A) /\ Owed(op, pc, s)' = SumOf(Carried', B)
  BY <1>1, <1>2 DEF Owed
<1>7. CarriedMoved(A, B, r)
  BY <1>3, <1>4, <1>5, MovedSum
<1> QED
  BY <1>1, <1>2, <1>6, <1>7 DEF CarriedMoved

\* The sums over the log, as it is and when an entry is appended.
LEMMA LoggedType ==
  ASSUME TypeOK, IsFiniteSet(log), NEW type, NEW s
  PROVE  Logged(type, s) \in Nat
<1> DEFINE f == [l \in log |-> l.quantity]
<1>1. IsFiniteSet(Trades(type, s))
  BY FS_Subset DEF Trades
<1>2. \A l \in Trades(type, s) : f[l] \in Nat
  BY DEF Trades, TypeOK, LogEntry
<1> HIDE DEF f
<1>3. SumOf(f, Trades(type, s)) \in Nat
  BY <1>1, <1>2, SumNat
<1> QED
  BY <1>3 DEF Logged, f

LEMMA LoggedMore ==
  ASSUME TypeOK, IsFiniteSet(log), NEW x \in LogEntry, x \notin log,
         log' = log \cup {x}, NEW type, NEW s
  PROVE  /\ IsFiniteSet(log')
         /\ Logged(type, s)' = Logged(type, s)
              + (IF x.type = type /\ x.stock = s THEN x.quantity ELSE 0)
<1>1. PICK f : f = [l \in log |-> l.quantity]
  OBVIOUS
<1>2. PICK e : e = [l \in log' |-> l.quantity]
  OBVIOUS
<1>3. PICK A : A = Trades(type, s)
  OBVIOUS
<1>4. PICK B : B = Trades(type, s)'
  OBVIOUS
<1>5. IsFiniteSet(A) /\ IsFiniteSet(log')
  BY <1>3, FS_Subset, FS_AddElement DEF Trades
<1>6. /\ A \ {x} = B \ {x} /\ x \notin A
      /\ x \in B <=> x.type = type /\ x.stock = s
  BY <1>3, <1>4 DEF Trades
<1>7. A \ {x} = B \ {x}
  BY <1>6
<1>8. \A y \in A : f[y] \in Int
  BY <1>1, <1>3 DEF Trades, TypeOK, LogEntry
<1>9. \A y \in B : e[y] \in Int
  BY <1>2, <1>4 DEF Trades, TypeOK, LogEntry
<1>10. \A y \in A \ {x} : e[y] = f[y]
  BY <1>1, <1>2, <1>3 DEF Trades
<1>11. x \in B => e[x] = x.quantity
  BY <1>2
<1>12. Logged(type, s) = SumOf(f, A) /\ Logged(type, s)' = SumOf(e, B)
  BY <1>1, <1>2, <1>3, <1>4 DEF Logged
<1>13. Moved(f, A, e, B, x)
  BY <1>5, <1>7, <1>8, <1>9, <1>10, SumMove
<1> QED
  BY <1>5, <1>6, <1>11, <1>12, <1>13 DEF Moved

LEMMA LoggedSame ==
  ASSUME log' = log, NEW type, NEW s
  PROVE  Logged(type, s)' = Logged(type, s)
BY DEF Logged, Trades

LEMMA InitSerial == Serial /\ Init => SerialInv
<1> SUFFICES ASSUME Init PROVE SerialInv
  OBVIOUS
<1>1. TypeOK /\ RequestsInv
  BY InitTypeOK, InitRequests
<1>2. InFlight = {} /\ log = {} /\ \A r \in Requests : req[r].pc = "idle" /\ req[r].op = "none"
  BY DEF Init, InFlight
<1>3. ASSUME NEW s \in Stocks PROVE Balanced(s)
  <2>1. /\ Reached("buy", s) = {} /\ Reached("create", s) = {}
        /\ Owing("buy", "log", s) = {} /\ Owing("sell", "write", s) = {}
        /\ Trades("buy", s) = {} /\ Trades("sell", s) = {}
    BY <1>2 DEF Reached, Owing, Serving, Trades
  <2>2. /\ Applied("buy", s) = 0 /\ Applied("create", s) = 0
        /\ Owed("buy", "log", s) = 0 /\ Owed("sell", "write", s) = 0
        /\ Logged("buy", s) = 0 /\ Logged("sell", s) = 0
    BY <2>1, SumEmpty DEF Applied, Owed, Logged
  <2>3. OpeningQuantity[s] \in Nat /\ (Held(s) > 0 => Held(s) = OpeningQuantity[s])
    BY HoldingsAssumption DEF Init, Held
  <2> QED
    BY <2>2, <2>3 DEF Balanced, Bound, Initial
<1>4. \A s \in Stocks \ issued : OpeningQuantity[s] = 0
  BY HoldingsAssumption DEF Init
<1>5. LogKept
  BY <1>2, FS_EmptySet DEF LogKept
<1> QED
  BY <1>1, <1>2, <1>3, <1>4, <1>5 DEF SerialInv, Shape

LEMMA SerialKeepsRequests ==
  ASSUME TypeOK, TypeOK', SerialInv, NEW r \in Requests, NEW s \in Stocks, NEW n \in Nat,
         SerialStep(r, s, n), \A q \in Requests : q # r => q \notin InFlight /\ req'[q] = req[q]
  PROVE  /\ \A t \in Stocks \ issued' : OpeningQuantity[t] = 0
         /\ \A q \in Requests : req'[q].pc # "idle" => req'[q].stock \in issued'
         /\ \A p, q \in InFlight' : p = q
         /\ \A q \in Requests : Shape(q)'
         /\ \A q \in Requests, t \in Stocks :
              req'[q].pc \in {"check", "log", "write"} /\ req'[q].stock = t => Current(q, t)'
<1>1. \A q \in Requests : q # r => /\ req'[q].pc \notin {"check", "log", "write"}
                                   /\ Shape(q)'
                                   /\ req'[q].pc # "idle" => req'[q].stock \in issued
  BY DEF InFlight, SerialInv, Shape
<1>2. issued \subseteq issued'
  BY DEF SerialStep
<1>3. Shape(r)'
  <2>1. Shape(r)
    BY DEF SerialInv
  <2> QED
    BY <2>1 DEF SerialStep, Shape
<1>4. req'[r].pc \in {"check", "log", "write"} => Current(r, s)'
  <2>1. req[r].pc \in {"check", "log", "write"} /\ req[r].stock = s => Current(r, s)
    BY DEF SerialInv
  <2>2. req[r].pc \in {"check", "log", "write"} => req[r].pc # "idle"
    OBVIOUS
  <2>3. CASE req[r].pc = "idle"
    BY <2>3 DEF SerialStep, Current
  <2>4. CASE req[r].op = "delete" /\ req[r].op = req'[r].op /\ req[r].stock = s
             /\ req[r].pc = "check" /\ Held(s)' = Held(s)
    BY <2>1, <2>4 DEF Current
  <2>5. CASE req[r].op = "buy" /\ req[r].op = req'[r].op /\ req[r].stock = s
             /\ req[r].pc = "write" /\ req'[r].pc = "log" /\ Held(s)' = Held(s) + n
    <3>1. Held(s) > 0 /\ Held(s) \in Nat
      BY <2>1, <2>5, HeldType DEF Current
    <3> QED
      BY <2>5, <3>1 DEF Current
  <2>6. CASE req[r].op = "sell" /\ req[r].op = req'[r].op /\ req[r].stock = s
             /\ req[r].pc = "log" /\ Held(s)' = Held(s) /\ req'[r].row = req[r].row
    BY <2>1, <2>6 DEF Current
  <2> QED
    BY <2>3, <2>4, <2>5, <2>6 DEF SerialStep
<1>5. req'[r].pc # "idle" => req'[r].stock \in issued'
  BY <1>2 DEF SerialStep, SerialInv
<1>6. \A t \in Stocks \ issued' : OpeningQuantity[t] = 0
  BY <1>2 DEF SerialInv
<1> QED
  BY <1>1, <1>2, <1>3, <1>4, <1>5, <1>6 DEF InFlight, SerialStep

\* A step on a holding leaves the sums over its trades as they are, but for
\* the shares its own request moves.
LEMMA SerialSums ==
  ASSUME TypeOK, TypeOK', SerialInv, NEW r \in Requests, NEW s \in Stocks, NEW n \in Nat,
         SerialStep(r, s, n), \A q \in Requests : q # r => req'[q] = req[q],
         NEW t \in Stocks
  PROVE  /\ \A op \in {"create", "buy"} :
              /\ Applied(op, t) \in Nat /\ Applied(op, t)' \in Nat
              /\ Applied(op, t)' = Applied(op, t)
                   + (IF r \in Reached(op, t)' \ Reached(op, t) THEN n ELSE 0)
         /\ Owed("buy", "log", t) \in Nat /\ Owed("buy", "log", t)' \in Nat
         /\ Owed("buy", "log", t)' = Owed("buy", "log", t)
              + (IF r \in Owing("buy", "log", t)' THEN n ELSE 0)
              - (IF r \in Owing("buy", "log", t) THEN n ELSE 0)
         /\ Owed("sell", "write", t) \in Nat /\ Owed("sell", "write", t)' \in Nat
         /\ Owed("sell", "write", t)' = Owed("sell", "write", t)
              + (IF r \in Owing("sell", "write", t)' THEN n ELSE 0)
              - (IF r \in Owing("sell", "write", t) THEN n ELSE 0)
<1>1. RequestsInv
  BY DEF SerialInv
<1>2. req'[r].quantity = n /\ (req[r].pc # "idle" => req[r].quantity = n)
  BY DEF SerialStep
<1>3. req[r].pc = "idle" => req[r].op = "none"
  BY <1>1 DEF RequestsInv
<1>4. ASSUME NEW op \in {"create", "buy"}
      PROVE  /\ Applied(op, t) \in Nat /\ Applied(op, t)' \in Nat
             /\ Applied(op, t)' = Applied(op, t)
                  + (IF r \in Reached(op, t)' \ Reached(op, t) THEN n ELSE 0)
  <2>1. r \in Reached(op, t) => r \in Reached(op, t)' /\ req[r].quantity = n
    BY <1>1, <1>2, <1>3 DEF Reached, SerialStep, RequestsInv
  <2>2. /\ Applied(op, t) \in Nat /\ Applied(op, t)' \in Nat
        /\ Applied(op, t)' = Applied(op, t)
             - (IF r \in Reached(op, t) THEN req[r].quantity ELSE 0)
             + (IF r \in Reached(op, t)' THEN req'[r].quantity ELSE 0)
    BY <1>1, MovedApplied
  <2> QED
    BY <1>2, <2>1, <2>2
<1>5. ASSUME NEW op \in {"buy", "sell"}, NEW pc \in {"log", "write"}
      PROVE  /\ Owed(op, pc, t) \in Nat /\ Owed(op, pc, t)' \in Nat
             /\ Owed(op, pc, t)' = Owed(op, pc, t)
                  + (IF r \in Owing(op, pc, t)' THEN n ELSE 0)
                  - (IF r \in Owing(op, pc, t) THEN n ELSE 0)
  <2>1. r \in Owing(op, pc, t) => req[r].quantity = n
    BY <1>2 DEF Owing, Serving
  <2>2. /\ Owed(op, pc, t) \in Nat /\ Owed(op, pc, t)' \in Nat
        /\ Owed(op, pc, t)' = Owed(op, pc, t)
             - (IF r \in Owing(op, pc, t) THEN req[r].quantity ELSE 0)
             + (IF r \in Owing(op, pc, t)' THEN req'[r].quantity ELSE 0)
    BY <1>1, MovedOwed
  <2> QED
    BY <1>2, <2>1, <2>2
<1> QED
  BY <1>4, <1>5

\* The log, in a step that appends at most one entry.
LEMMA SerialLogs ==
  ASSUME TypeOK, TypeOK', SerialInv, NEW r \in Requests, NEW s \in Stocks, NEW n \in Nat,
         SerialStep(r, s, n), NEW type \in {"buy", "sell"}, NEW t \in Stocks
  PROVE  /\ Logged(type, t) \in Nat /\ Logged(type, t)' \in Nat
         /\ Logged(type, t)' = Logged(type, t)
              + (IF t = s /\ req[r].pc = "log" /\ req[r].op = type THEN n ELSE 0)
         /\ IsFiniteSet(log')
         /\ \A l \in log' \ log : l.stock = s /\ l.req = r /\ req[r].pc = "log"
<1>1. IsFiniteSet(log) /\ Logged(type, t) \in Nat
  BY LoggedType DEF SerialInv, LogKept
<1>2. CASE log' = log /\ req[r].pc # "log"
  BY <1>1, <1>2, LoggedSame
<1>3. CASE req[r].pc = "log"
  <2>1. /\ log' = log \cup {Entry(r, req[r].op)}
        /\ req[r].op \in {"buy", "sell"} /\ req[r].stock = s /\ req[r].quantity = n
    BY <1>3 DEF SerialStep
  <2>2. PICK x : x = Entry(r, req[r].op)
    OBVIOUS
  <2>3. x.req = r /\ x.stock = s /\ x.type = req[r].op /\ x.quantity = n
    BY <2>1, <2>2 DEF Entry
  <2>4. x \notin log
    BY <1>3, <2>3 DEF SerialInv, LogKept
  <2>5. x \in LogEntry /\ log' = log \cup {x}
    BY <2>1, <2>2 DEF TypeOK
  <2>6. /\ IsFiniteSet(log')
        /\ Logged(type, t)' = Logged(type, t)
             + (IF x.type = type /\ x.stock = t THEN x.quantity ELSE 0)
    BY <1>1, <2>4, <2>5, LoggedMore
  <2> QED
    BY <1>1, <1>3, <2>3, <2>5, <2>6
<1> QED
  BY <1>2, <1>3 DEF SerialStep

LEMMA SerialKeepsLog ==
  ASSUME TypeOK, TypeOK', SerialInv, NEW r \in Requests, NEW s \in Stocks, NEW n \in Nat,
         SerialStep(r, s, n), \A q \in Requests : q # r => req'[q] = req[q]
  PROVE  LogKept'
<1>1. IsFiniteSet(log') /\ \A l \in log' \ log : l.stock = s /\ l.req = r /\ req[r].pc = "log"
  BY SerialLogs
<1>2. issued \subseteq issued' /\ LogKept
  BY DEF SerialStep, SerialInv
<1>3. ASSUME NEW l \in log, l.req = r
      PROVE  /\ req'[r].pc \in {"write", "ok"}
             /\ req'[r].op = "buy" => req'[r].pc = "ok"
  <2>1. req[r].pc \in {"write", "ok"} /\ (req[r].op = "buy" => req[r].pc = "ok")
    BY <1>2, <1>3 DEF LogKept
  <2> QED
    BY <2>1 DEF SerialStep
<1>4. ASSUME NEW l \in log' \ log
      PROVE  /\ l.stock \in issued' /\ req'[r].pc \in {"write", "ok"}
             /\ req'[r].op = "buy" => req'[r].pc = "ok"
  <2>1. req[r].pc = "log" /\ l.stock = s
    BY <1>1
  <2>2. req[r].stock = s /\ s \in issued
    BY <2>1 DEF SerialStep, SerialInv
  <2> QED
    BY <1>2, <2>1, <2>2 DEF SerialStep
<1>5. \A l \in log : l.stock \in issued' /\ l.req \in Requests
  BY <1>2 DEF LogKept
<1>6. \A l \in log : l.req # r => /\ req'[l.req].pc \in {"write", "ok"}
                                  /\ req'[l.req].op = "buy" => req'[l.req].pc = "ok"
  BY <1>2 DEF LogKept
<1> QED
  BY <1>1, <1>3, <1>4, <1>5, <1>6 DEF LogKept

LEMMA SerialKeepsBalance ==
  ASSUME TypeOK, TypeOK', SerialInv, [Next]_vars,
         NEW r \in Requests, NEW s \in Stocks, NEW n \in Nat,
         SerialStep(r, s, n), \A q \in Requests : q # r => q \notin InFlight /\ req'[q] = req[q],
         NEW t \in Stocks
  PROVE  Balanced(t)'
<1>1. /\ \A op \in {"create", "buy"} :
              /\ Applied(op, t) \in Nat /\ Applied(op, t)' \in Nat
              /\ Applied(op, t)' = Applied(op, t)
                   + (IF r \in Reached(op, t)' \ Reached(op, t) THEN n ELSE 0)
      /\ Owed("buy", "log", t) \in Nat /\ Owed("buy", "log", t)' \in Nat
      /\ Owed("buy", "log", t)' = Owed("buy", "log", t)
           + (IF r \in Owing("buy", "log", t)' THEN n ELSE 0)
           - (IF r \in Owing("buy", "log", t) THEN n ELSE 0)
      /\ Owed("sell", "write", t) \in Nat /\ Owed("sell", "write", t)' \in Nat
      /\ Owed("sell", "write", t)' = Owed("sell", "write", t)
           + (IF r \in Owing("sell", "write", t)' THEN n ELSE 0)
           - (IF r \in Owing("sell", "write", t) THEN n ELSE 0)
  BY SerialSums
<1>2. /\ Logged("buy", t) \in Nat /\ Logged("buy", t)' \in Nat
      /\ Logged("buy", t)' = Logged("buy", t)
           + (IF t = s /\ req[r].pc = "log" /\ req[r].op = "buy" THEN n ELSE 0)
  BY SerialLogs
<1>3. /\ Logged("sell", t) \in Nat /\ Logged("sell", t)' \in Nat
      /\ Logged("sell", t)' = Logged("sell", t)
           + (IF t = s /\ req[r].pc = "log" /\ req[r].op = "sell" THEN n ELSE 0)
  BY SerialLogs
<1>4. Held(t) \in Nat /\ Held(t)' \in Nat /\ OpeningQuantity[t] \in Nat
  BY HoldingsAssumption DEF Held, TypeOK, Row
<1>5. QuantityNotTyped(t)' => QuantityNotTyped(t)
  BY QuantityNotTypedBefore DEF SerialInv
<1>6. /\ Bound(t) = OpeningQuantity[t] + Applied("create", t) + Applied("buy", t)
      /\ Bound(t)' = OpeningQuantity[t] + Applied("create", t)' + Applied("buy", t)'
      /\ Bound(t) \in Nat /\ Bound(t)' \in Nat
  BY <1>1, <1>4 DEF Bound, Initial
<1>7. /\ Logged("buy", t) + Owed("buy", "log", t) = Applied("buy", t)
      /\ QuantityNotTyped(t) /\ Held(t) > 0 =>
           Held(t) + Logged("sell", t) = Bound(t) + Owed("sell", "write", t)
      /\ QuantityNotTyped(t) => Logged("sell", t) <= Bound(t)
  BY DEF SerialInv, Balanced
<1>8. req[r].pc = "idle" => req[r].op = "none"
  BY DEF SerialInv, RequestsInv
<1>9. req[r].pc \in {"check", "log", "write"} /\ req[r].stock = s => Current(r, s)
  BY DEF SerialInv
<1>10. r \in Requests /\ req' \in [Requests -> Request] /\ req \in [Requests -> Request]
  BY DEF TypeOK
<1>11. req'[r].stock = s /\ req'[r].quantity = n
  BY DEF SerialStep
<1>12. CASE t # s
  <2>1. /\ \A op \in {"create", "buy"} : r \notin Reached(op, t)'
        /\ r \notin Owing("buy", "log", t)' /\ r \notin Owing("sell", "write", t)'
    BY <1>11, <1>12 DEF Reached, Owing
  <2>2. r \notin Owing("buy", "log", t) /\ r \notin Owing("sell", "write", t)
    BY <1>8, <1>12 DEF SerialStep, Owing, Serving
  <2>3. Held(t)' = Held(t)
    BY <1>12 DEF SerialStep
  <2> QED
    BY <1>1, <1>2, <1>3, <1>4, <1>5, <1>6, <1>7, <1>12, <2>1, <2>2, <2>3 DEF Balanced
<1>13. CASE t = s
  <2>1. CASE /\ req[r].pc = "idle" /\ req'[r].pc = "ok" /\ req'[r].op = "create"
             /\ s \notin issued /\ Held(s)' = n
    <3>1. \A q \in Requests : req[q].pc # "idle" => req[q].stock # t
      BY <1>13, <2>1 DEF SerialInv
    <3>2. /\ Reached("create", t) = {} /\ Reached("buy", t) = {}
          /\ Owing("buy", "log", t) = {} /\ Owing("sell", "write", t) = {}
      BY <3>1 DEF Reached, Owing, Serving
    <3>3. Trades("buy", t) = {} /\ Trades("sell", t) = {}
      BY <1>13, <2>1 DEF Trades, SerialInv, LogKept
    <3>4. /\ Applied("create", t) = 0 /\ Applied("buy", t) = 0
          /\ Owed("buy", "log", t) = 0 /\ Owed("sell", "write", t) = 0
          /\ Logged("buy", t) = 0 /\ Logged("sell", t) = 0
      BY <3>2, <3>3, SumEmpty DEF Applied, Owed, Logged
    <3>5. OpeningQuantity[t] = 0
      BY <1>13, <2>1 DEF SerialInv
    <3>6. r \in Reached("create", t)' /\ r \notin Reached("buy", t)'
          /\ r \notin Owing("buy", "log", t)' /\ r \notin Owing("sell", "write", t)'
      BY <1>11, <1>13, <2>1 DEF Reached, Owing, Serving
    <3> QED
      BY <1>1, <1>2, <1>3, <1>6, <1>13, <2>1, <3>2, <3>4, <3>5, <3>6 DEF Balanced
  <2>2. ASSUME \A op \in {"create", "buy"} : r \in Reached(op, t)' => r \in Reached(op, t),
               r \notin Owing("buy", "log", t)', r \notin Owing("sell", "write", t)',
               r \notin Owing("buy", "log", t), r \notin Owing("sell", "write", t),
               req[r].pc # "log",
               QuantityNotTyped(t)' /\ Held(t)' > 0 => Held(t)' = Held(t)
        PROVE  Balanced(t)'
    BY <1>1, <1>2, <1>3, <1>4, <1>5, <1>6, <1>7, <2>2 DEF Balanced
  <2>3. CASE /\ req[r].pc = "idle" /\ req'[r].pc \in {"check", "log", "write"}
             /\ Held(s)' = Held(s)
             /\ req'[r].op = "buy" => req'[r].pc = "write"
             /\ req'[r].op = "sell" => req'[r].pc = "log"
             /\ req'[r].op \in {"update", "delete", "buy", "sell"}
    <3>1. /\ \A op \in {"create", "buy"} : r \notin Reached(op, t)'
          /\ r \notin Owing("buy", "log", t)' /\ r \notin Owing("sell", "write", t)'
          /\ r \notin Owing("buy", "log", t) /\ r \notin Owing("sell", "write", t)
      BY <2>3 DEF Reached, Owing, Serving
    <3> QED
      BY <1>13, <2>2, <2>3, <3>1
  <2>4. CASE /\ req'[r].op = "delete" /\ req[r].op \in {"none", "delete"}
             /\ Held(s)' = 0 \/ Held(s)' = Held(s)
             /\ req[r].pc # "log"
    <3>1. /\ \A op \in {"create", "buy"} : r \notin Reached(op, t)'
          /\ r \notin Owing("buy", "log", t)' /\ r \notin Owing("sell", "write", t)'
          /\ r \notin Owing("buy", "log", t) /\ r \notin Owing("sell", "write", t)
      BY <2>4 DEF Reached, Owing, Serving
    <3> QED
      BY <1>13, <2>2, <2>4, <3>1
  <2>5. CASE /\ req[r].op = "update" /\ req[r].pc = "write" /\ req'[r].op = "update"
             /\ Held(s)' = req[r].row.quantity /\ req[r].stock = s /\ req[r].quantity = n
    <3>1. /\ \A op \in {"create", "buy"} : r \notin Reached(op, t)'
          /\ r \notin Owing("buy", "log", t)' /\ r \notin Owing("sell", "write", t)'
          /\ r \notin Owing("buy", "log", t) /\ r \notin Owing("sell", "write", t)
      BY <2>5 DEF Reached, Owing, Serving
    <3>2. QuantityNotTyped(t)' => n = 0
      BY <1>11, <1>13, <2>5 DEF QuantityNotTyped
    <3>3. n = 0 => Held(s)' = Held(s)
      BY <1>9, <2>5 DEF Current
    <3> QED
      BY <1>13, <2>2, <2>5, <3>1, <3>2, <3>3
  <2>6. CASE /\ req[r].op = "buy" /\ req[r].pc = "write" /\ req'[r].pc = "log"
             /\ req'[r].op = "buy" /\ req[r].stock = s /\ Held(s)' = Held(s) + n
    <3>1. /\ r \in Reached("buy", t)' \ Reached("buy", t) /\ r \notin Reached("create", t)'
          /\ r \in Owing("buy", "log", t)' /\ r \notin Owing("sell", "write", t)'
          /\ r \notin Owing("buy", "log", t) /\ r \notin Owing("sell", "write", t)
      BY <1>11, <1>13, <2>6 DEF Reached, Owing, Serving
    <3>2. Held(t) > 0
      BY <1>9, <1>13, <2>6 DEF Current
    <3> QED
      BY <1>1, <1>2, <1>3, <1>4, <1>5, <1>6, <1>7, <1>13, <2>6, <3>1, <3>2 DEF Balanced
  <2>7. CASE /\ req[r].op = "sell" /\ req[r].pc = "write" /\ req'[r].pc = "ok"
             /\ req'[r].op = "sell" /\ req[r].stock = s /\ Held(s)' = Held(s) - n
    <3>1. /\ r \notin Reached("buy", t)' /\ r \notin Reached("create", t)'
          /\ r \notin Owing("buy", "log", t)' /\ r \notin Owing("sell", "write", t)'
          /\ r \notin Owing("buy", "log", t) /\ r \in Owing("sell", "write", t)
      BY <1>13, <2>7 DEF Reached, Owing, Serving
    <3>2. Held(t) > 0
      BY <1>9, <1>13, <2>7 DEF Current
    <3> QED
      BY <1>1, <1>2, <1>3, <1>4, <1>5, <1>6, <1>7, <1>13, <2>7, <3>1, <3>2 DEF Balanced
  <2>8. CASE /\ req[r].op = "buy" /\ req[r].pc = "log" /\ req'[r].pc = "ok"
             /\ req'[r].op = "buy" /\ req[r].stock = s /\ Held(s)' = Held(s)
    <3>1. /\ r \in Reached("buy", t) /\ r \notin Reached("create", t)'
          /\ r \notin Owing("buy", "log", t)' /\ r \notin Owing("sell", "write", t)'
          /\ r \in Owing("buy", "log", t) /\ r \notin Owing("sell", "write", t)
      BY <1>13, <2>8 DEF Reached, Owing, Serving
    <3> QED
      BY <1>1, <1>2, <1>3, <1>4, <1>5, <1>6, <1>7, <1>13, <2>8, <3>1 DEF Balanced
  <2>9. CASE /\ req[r].op = "sell" /\ req[r].pc = "log" /\ req'[r].pc = "write"
             /\ req'[r].op = "sell" /\ req[r].stock = s /\ req[r].quantity = n
             /\ Held(s)' = Held(s)
    <3>1. /\ r \notin Reached("buy", t)' /\ r \notin Reached("create", t)'
          /\ r \notin Owing("buy", "log", t)' /\ r \in Owing("sell", "write", t)'
          /\ r \notin Owing("buy", "log", t) /\ r \notin Owing("sell", "write", t)
      BY <1>11, <1>13, <2>9 DEF Reached, Owing, Serving
    <3>2. Held(t) > 0 /\ req[r].row.quantity = Held(t)
      BY <1>9, <1>13, <2>9 DEF Current
    <3>3. n <= Held(t)
      BY <2>9, <3>2 DEF TypeOK, InFlight
    <3>4. Owing("sell", "write", t) = {}
      BY <3>1 DEF Owing, Serving, InFlight
    <3>5. Owed("sell", "write", t) = 0
      BY <3>4, SumEmpty DEF Owed
    <3> QED
      BY <1>1, <1>2, <1>3, <1>4, <1>5, <1>6, <1>7, <1>13, <2>9, <3>1, <3>2, <3>3, <3>5
      DEF Balanced
  <2> QED
    BY <1>8, <2>1, <2>3, <2>4, <2>5, <2>6, <2>7, <2>8, <2>9 DEF SerialStep
<1> QED
  BY <1>12, <1>13

LEMMA NextSerial == Serial /\ TypeOK /\ SerialInv /\ [Next]_vars => SerialInv'
<1> SUFFICES ASSUME Serial, TypeOK, SerialInv, [Next]_vars PROVE SerialInv'
  OBVIOUS
<1>1. TypeOK' /\ RequestsInv'
  BY NextTypeOK, NextRequests DEF SerialInv
<1>2. CASE \E r \in Requests : Serve(r)
  <2>1. PICK r \in Requests : Serve(r)
    BY <1>2
  <2>2. \A q \in Requests : q # r => q \notin InFlight /\ req'[q] = req[q]
    BY <2>1, SerialAlone
  <2>3. PICK s \in Stocks, n \in Nat : SerialStep(r, s, n)
    BY <2>1, SerialSteps
  <2>4. LogKept'
    BY <1>1, <2>2, <2>3, SerialKeepsLog
  <2>5. \A t \in Stocks : Balanced(t)'
    BY <1>1, <2>2, <2>3, SerialKeepsBalance
  <2>6. /\ \A t \in Stocks \ issued' : OpeningQuantity[t] = 0
        /\ \A q \in Requests : req'[q].pc # "idle" => req'[q].stock \in issued'
        /\ \A p, q \in InFlight' : p = q
        /\ \A q \in Requests : Shape(q)'
        /\ \A q \in Requests, t \in Stocks :
             req'[q].pc \in {"check", "log", "write"} /\ req'[q].stock = t => Current(q, t)'
    BY <1>1, <2>2, <2>3, SerialKeepsRequests
  <2> QED
    BY <1>1, <2>4, <2>5, <2>6 DEF SerialInv
<1>3. CASE Crash
  BY <1>3, NoFault DEF Crash
<1>4. CASE UNCHANGED vars
  <2>1. UNCHANGED <<stocks, issued, log, req>>
    BY <1>4 DEF vars
  <2>2. UNCHANGED InFlight /\ \A t \in Stocks : Held(t)' = Held(t)
    BY <2>1 DEF InFlight, Held
  <2>3. ASSUME NEW t \in Stocks
        PROVE  /\ Logged("buy", t)' = Logged("buy", t)
               /\ Logged("sell", t)' = Logged("sell", t)
    BY <2>1 DEF Logged, Trades
  <2>4. \A op \in {"create", "buy"}, t \in Stocks : Applied(op, t)' = Applied(op, t)
    BY <2>1 DEF Applied, Reached, Carried
  <2>5. \A op, pc, t : Owed(op, pc, t)' = Owed(op, pc, t)
    BY <2>1 DEF Owed, Owing, Serving, InFlight, Carried
  <2>6. ASSUME NEW t \in Stocks
        PROVE  Bound(t)' = Bound(t) /\ (QuantityNotTyped(t)' <=> QuantityNotTyped(t))
    BY <2>1, <2>4 DEF Bound, Initial, QuantityNotTyped
  <2>7. \A t \in Stocks : Balanced(t)'
    BY <2>2, <2>3, <2>4, <2>5, <2>6 DEF SerialInv, Balanced
  <2>8. LogKept'
    BY <2>1 DEF SerialInv, LogKept
  <2>9. \A q \in Requests : Shape(q)'
    BY <2>1 DEF SerialInv, Shape
  <2>10. \A q \in Requests, t \in Stocks :
           req'[q].pc \in {"check", "log", "write"} /\ req'[q].stock = t => Current(q, t)'
    BY <2>1, <2>2 DEF SerialInv, Current
  <2> QED
    BY <1>1, <2>1, <2>2, <2>7, <2>8, <2>9, <2>10 DEF SerialInv
<1> QED
  BY <1>2, <1>3, <1>4 DEF Next, Finished

\* Requests served one at a time without failures keep the audit trail the
\* code promises: once nothing is in flight, a holding is what it opened
\* with plus the purchases and minus the sales of the log, and the log never
\* sells more than that.
THEOREM SerialLogMatches == Serial => (Spec => []HoldingMatchesLog)
<1> SUFFICES ASSUME Serial PROVE Spec => []HoldingMatchesLog
  OBVIOUS
<1>1. Init => TypeOK /\ SerialInv
  BY InitTypeOK, InitSerial
<1>2. TypeOK /\ SerialInv /\ [Next]_vars => (TypeOK /\ SerialInv)'
  BY NextTypeOK, NextSerial
<1>3. TypeOK /\ SerialInv => HoldingMatchesLog
  <2> SUFFICES ASSUME TypeOK, SerialInv PROVE HoldingMatchesLog
    OBVIOUS
  <2>1. ASSUME NEW s \in Stocks
        PROVE  /\ Applied("create", s) \in Nat /\ Applied("buy", s) \in Nat
               /\ Logged("buy", s) \in Nat /\ Logged("sell", s) \in Nat
               /\ OpeningQuantity[s] \in Nat
    BY CarriedShares, LoggedType, HoldingsAssumption DEF SerialInv, LogKept
  <2>2. ASSUME InFlight = {}, NEW s \in DOMAIN stocks, QuantityNotTyped(s)
        PROVE  stocks[s].quantity = Initial(s) + Logged("buy", s) - Logged("sell", s)
    <3>1. s \in Stocks
      BY DEF TypeOK
    <3>2. Owing("buy", "log", s) = {} /\ Owing("sell", "write", s) = {}
      BY <2>2 DEF InFlight, Owing, Serving
    <3>3. Owed("buy", "log", s) = 0 /\ Owed("sell", "write", s) = 0
      BY <3>2, SumEmpty DEF Owed
    <3>4. Held(s) > 0 /\ Held(s) \in Nat /\ Held(s) = stocks[s].quantity
      BY <3>1, HeldType
    <3>5. Balanced(s)
      BY <3>1 DEF SerialInv
    <3> QED
      BY <2>1, <2>2, <3>1, <3>3, <3>4, <3>5 DEF Balanced, Bound, Initial
  <2>3. NeverOversold
    BY DEF NeverOversold, SerialInv, Balanced, Bound, TypeOK
  <2> QED
    BY <2>2, <2>3 DEF HoldingMatchesLog, QuantityMatchesLog
<1> QED
  BY <1>1, <1>2, <1>3, PTL DEF Spec

----------------------------------------------------------------------------
(* No holding outgrows what it opened with and the requests carry.         *)

\* The constants give a bound to what Position calls Shares.
Finite ==
  /\ IsFiniteSet(Stocks) /\ IsFiniteSet(Requests)
  /\ IsFiniteSet(Quantities) /\ Quantities # {}

LEMMA MaxExists ==
  ASSUME NEW S, IsFiniteSet(S), S # {}, \A x \in S : x \in Nat
  PROVE  Max(S) \in S /\ \A y \in S : y <= Max(S)
<1> DEFINE C == {s \in SUBSET S : s # {} /\ ~ \E x \in s : \A y \in s : y <= x}
<1>1. CASE C = {}
  <2>1. \E x \in S : \A y \in S : y <= x
    BY <1>1
  <2>2. \E x \in S : \A y \in S : x >= y
    BY <2>1
  <2>3. Max(S) \in S /\ \A y \in S : Max(S) >= y
    BY <2>2 DEF Max
  <2>4. PICK m : m = Max(S)
    OBVIOUS
  <2> QED
    BY <2>3, <2>4
<1>2. CASE C # {}
  <2>1. PICK s \in C : \A t \in C : t \subseteq s => t = s
    <3>1. C \subseteq SUBSET S
      OBVIOUS
    <3> HIDE DEF C
    <3> QED
      BY <1>2, <3>1, SmallestSubset
  <2>2. PICK x \in s : TRUE
    BY <2>1
  <2>3. \A y \in s : y \in Nat
    BY <2>1
  <2>4. ASSUME NEW m \in s, \A y \in s : y <= m PROVE FALSE
    BY <2>1, <2>4
  <2>5. CASE s \ {x} = {}
    BY <2>2, <2>3, <2>4, <2>5
  <2>6. CASE s \ {x} # {}
    <3>1. s \ {x} \subseteq S /\ s \ {x} # s /\ s \ {x} \subseteq s
      BY <2>1, <2>2
    <3>2. PICK m \in s \ {x} : \A y \in s \ {x} : y <= m
      BY <2>1, <2>6, <3>1
    <3>3. (\A y \in s : y <= x) \/ (\A y \in s : y <= m)
      BY <2>2, <2>3, <3>2
    <3> QED
      BY <2>4, <3>3
  <2> QED
    BY <2>5, <2>6
<1> QED
  BY <1>1, <1>2

LEMMA SumElement ==
  ASSUME NEW f, NEW S, IsFiniteSet(S), NEW x \in S, \A y \in S : f[y] \in Nat
  PROVE  f[x] <= SumOf(f, S)
<1>1. SumOf(f, S) = f[x] + SumOf(f, S \ {x})
  BY SumTake
<1>2. IsFiniteSet(S \ {x}) /\ \A y \in S \ {x} : f[y] \in Nat
  BY FS_Subset
<1>3. SumOf(f, S \ {x}) \in Nat /\ f[x] \in Nat
  BY <1>2, SumNat
<1> QED
  BY <1>1, <1>3

LEMMA TimesNext ==
  ASSUME NEW k \in Nat, NEW m \in Nat
  PROVE  (k + 1) * m = k * m + m /\ k * m \in Nat
OBVIOUS

LEMMA SumAtMost ==
  ASSUME NEW f, NEW S, IsFiniteSet(S), NEW m \in Nat,
         \A x \in S : f[x] \in Nat /\ f[x] <= m
  PROVE  SumOf(f, S) <= Cardinality(S) * m
<1> DEFINE C == {s \in SUBSET S : ~(SumOf(f, s) <= Cardinality(s) * m)}
<1>1. CASE C = {}
  BY <1>1
<1>2. CASE C # {}
  <2>1. PICK s \in C : \A t \in C : t \subseteq s => t = s
    <3>1. C \subseteq SUBSET S
      OBVIOUS
    <3> HIDE DEF C
    <3> QED
      BY <1>2, <3>1, SmallestSubset
  <2>2. IsFiniteSet(s) /\ s \subseteq S
    BY <2>1, FS_Subset
  <2>3. s # {}
    <3>1. SumOf(f, {}) = 0 /\ Cardinality({}) = 0
      BY SumEmpty, FS_EmptySet
    <3>2. 0 * m = 0
      OBVIOUS
    <3>3. ~(SumOf(f, s) <= Cardinality(s) * m)
      BY <2>1
    <3> QED
      BY <3>1, <3>2, <3>3
  <2>4. PICK x \in s : TRUE
    BY <2>3
  <2>5. IsFiniteSet(s \ {x}) /\ s \ {x} \subseteq S /\ s \ {x} # s
    BY <2>2, <2>4, FS_Subset
  <2>6. SumOf(f, s \ {x}) <= Cardinality(s \ {x}) * m
    BY <2>1, <2>5
  <2>7. SumOf(f, s) = f[x] + SumOf(f, s \ {x}) /\ SumOf(f, s \ {x}) \in Nat
    BY <2>2, <2>5, SumTake, SumNat
  <2>8. PICK k \in Nat : Cardinality(s \ {x}) = k
    BY <2>5, FS_CardinalityType
  <2>9. Cardinality(s) = k + 1
    <3>1. Cardinality(s) \in Nat /\ Cardinality(s \ {x}) = Cardinality(s) - 1
      BY <2>2, <2>4, FS_RemoveElement, FS_CardinalityType
    <3> QED
      BY <2>8, <3>1
  <2>10. Cardinality(s) * m = k * m + m /\ k * m \in Nat
    BY <2>9, TimesNext
  <2>11. f[x] \in Nat /\ f[x] <= m
    BY <2>2, <2>4
  <2>12. SumOf(f, s) <= k * m + m
    BY <2>6, <2>7, <2>8, <2>10, <2>11
  <2> QED
    BY <2>1, <2>10, <2>12
<1> QED
  BY <1>1, <1>2

\* What requests carry is within MostShares, whatever each of them carries.
LEMMA MostCovers ==
  ASSUME Finite, NEW f, NEW S, S \subseteq Requests,
         \A r \in Requests : f[r] \in Quantities \cup {0}
  PROVE  /\ SumOf(OpeningQuantity, Stocks) \in Nat /\ SumOf(f, S) \in Nat
         /\ \A s \in Stocks : OpeningQuantity[s] <= SumOf(OpeningQuantity, Stocks)
         /\ \A r \in S : f[r] <= SumOf(f, S)
         /\ SumOf(OpeningQuantity, Stocks) + SumOf(f, S) <= MostShares
         /\ MostShares \in Nat
<1>1. /\ \A q \in Quantities : q \in Nat
      /\ \A s \in Stocks : OpeningQuantity[s] \in Nat
  BY HoldingsAssumption
<1>2. Max(Quantities) \in Nat /\ \A q \in Quantities \cup {0} : q \in Nat /\ q <= Max(Quantities)
  <2>1. IsFiniteSet(Quantities) /\ Quantities # {}
    BY DEF Finite
  <2>2. Max(Quantities) \in Quantities /\ \A y \in Quantities : y <= Max(Quantities)
    BY <1>1, <2>1, MaxExists
  <2> QED
    BY <1>1, <2>2
<1>3. \A r \in Requests : f[r] \in Nat /\ f[r] <= Max(Quantities)
  BY <1>2
<1>4. SumOf(OpeningQuantity, Stocks) \in Nat
      /\ \A s \in Stocks : OpeningQuantity[s] <= SumOf(OpeningQuantity, Stocks)
  BY <1>1, SumNat, SumElement DEF Finite
<1>5. IsFiniteSet(S) /\ \A r \in S : f[r] \in Nat
  BY <1>3, FS_Subset DEF Finite
<1>6. SumOf(f, S) \in Nat /\ \A r \in S : f[r] <= SumOf(f, S)
  BY <1>5, SumNat, SumElement
<1>7. SumOf(f, S) <= SumOf(f, Requests) /\ SumOf(f, Requests) \in Nat
  BY <1>3, SumPart, SumNat DEF Finite
<1>8. PICK m \in Nat : m = Max(Quantities)
  BY <1>2
<1>9. SumOf(f, Requests) <= Cardinality(Requests) * m
  BY <1>3, <1>8, SumAtMost DEF Finite
<1>10. Cardinality(Requests) \in Nat
  BY FS_CardinalityType DEF Finite
<1>11. Cardinality(Requests) * m \in Nat
  BY <1>10, TimesNext
<1>12. MostShares = SumOf(OpeningQuantity, Stocks) + Cardinality(Requests) * m
  BY <1>8 DEF MostShares
<1> HIDE DEF MostShares
<1> QED
  BY <1>4, <1>6, <1>7, <1>9, <1>11, <1>12

\* A purchase counts once its row is written.
Landed == {r \in Requests : req[r].pc # "idle" /\ ~Serving(r, "buy", "write")}

Capped ==
  /\ \A r \in Requests : req[r].quantity \in Quantities \cup {0}
  /\ \A s \in Stocks : Held(s) <= SumOf(OpeningQuantity, Stocks) + SumOf(Carried, Landed)

LEMMA QuantitySteps ==
  ASSUME TypeOK, NEW r \in Requests, Serve(r), \A q \in Requests : req[q].quantity \in Quantities \cup {0}
  PROVE  req'[r].quantity \in Quantities \cup {0}
<1>1. ASSUME NEW local, Open(r, local), local.quantity \in Quantities \cup {0}
      PROVE  req'[r].quantity \in Quantities \cup {0}
  BY <1>1, Opened
<1>2. ASSUME NEW pc, Goto(r, pc) \/ Reply(r, pc)
      PROVE  req'[r].quantity \in Quantities \cup {0}
  BY <1>2, Gone, Replied
<1>3. CASE CreateStock(r)
  BY <1>1, <1>3 DEF CreateStock
<1>4. CASE UpdateStockRead(r)
  BY <1>1, <1>4 DEF UpdateStockRead
<1>5. CASE DeleteStockForced(r) \/ DeleteStockRead(r)
  BY <1>1, <1>5 DEF DeleteStockForced, DeleteStockRead
<1>6. CASE BuyStockRead(r)
  BY <1>1, <1>6 DEF BuyStockRead
<1>7. CASE SellStockRead(r)
  BY <1>1, <1>7 DEF SellStockRead
<1> QED
  BY <1>2, <1>3, <1>4, <1>5, <1>6, <1>7
  DEF Serve, UpdateStockWrite, DeleteStockCheck, DeleteStockWrite, BuyStockWrite,
      BuyStockLog, SellStockLog, SellStockWrite, WriteFails

LEMMA InitCapped == Finite /\ Init => Capped
<1> SUFFICES ASSUME Finite, Init PROVE Capped
  OBVIOUS
<1>1. \A r \in Requests : req[r].pc = "idle" /\ req[r].quantity = 0
  BY DEF Init
<1>2. \A r \in Requests : Carried[r] \in Quantities \cup {0}
  BY <1>1 DEF Carried
<1>3. Landed = {} /\ SumOf(Carried, {}) = 0
  BY <1>1, SumEmpty DEF Landed
<1>4. /\ SumOf(OpeningQuantity, Stocks) \in Nat
      /\ \A s \in Stocks : OpeningQuantity[s] <= SumOf(OpeningQuantity, Stocks)
  BY <1>2, MostCovers
<1>5. \A s \in Stocks : Held(s) \in {0, OpeningQuantity[s]}
  BY DEF Init, Held
<1> QED
  BY <1>1, <1>3, <1>4, <1>5 DEF Capped

LEMMA SerialCapped ==
  ASSUME Finite, TypeOK, TypeOK', SerialInv, Capped,
         \A q \in Requests : req'[q].quantity \in Quantities \cup {0},
         NEW r \in Requests, NEW s \in Stocks, NEW n \in Nat,
         SerialStep(r, s, n), \A q \in Requests : q # r => req'[q] = req[q]
  PROVE  Capped'
<1>1. PICK A : A = Landed
  OBVIOUS
<1>2. PICK B : B = Landed'
  OBVIOUS
<1>3. A \subseteq Begun
  BY <1>1 DEF Landed, Begun
<1>4. B \subseteq Requests
  BY <1>2 DEF Landed
<1>5. A \ {r} = B \ {r}
  BY <1>1, <1>2 DEF Landed, Serving
<1>6. r \in A => r \in B /\ req[r].quantity = n
  BY <1>1, <1>2 DEF Landed, Serving, SerialStep
<1>7. CarriedMoved(A, B, r)
  BY <1>3, <1>4, <1>5, MovedSum DEF SerialInv
<1>8. /\ SumOf(Carried, A) \in Nat /\ SumOf(Carried', B) \in Nat
      /\ SumOf(Carried', B) = SumOf(Carried, A) + (IF r \in B \ A THEN n ELSE 0)
  BY <1>6, <1>7 DEF CarriedMoved, SerialStep
<1>9. \A q \in Requests : Carried[q] = req[q].quantity /\ Carried[q] \in Quantities \cup {0}
  BY DEF Carried, Capped
<1>10. A \subseteq Requests
  BY <1>3 DEF Begun
<1>11. SumOf(OpeningQuantity, Stocks) \in Nat /\ \A q \in A : req[q].quantity <= SumOf(Carried, A)
  BY <1>9, <1>10, MostCovers
<1>12. \A t \in Stocks : /\ Held(t) \in Nat /\ Held(t)' \in Nat
                         /\ Held(t) <= SumOf(OpeningQuantity, Stocks) + SumOf(Carried, A)
  BY <1>1 DEF Capped, Held, TypeOK, Row
<1>13. \A t \in Stocks \ {s} : Held(t)' = Held(t)
  BY DEF SerialStep
<1>14. Held(s)' <= SumOf(OpeningQuantity, Stocks) + SumOf(Carried', B)
  <2>1. CASE Held(s)' <= Held(s)
    BY <1>8, <1>11, <1>12, <2>1
  <2>2. CASE req[r].pc = "idle" /\ req'[r].pc = "ok" /\ Held(s)' = n
    <3>1. r \in B \ A
      BY <1>1, <1>2, <2>2 DEF Landed, Serving
    <3> QED
      BY <1>8, <1>11, <2>2, <3>1
  <2>3. CASE req[r].op = "buy" /\ req[r].pc = "write" /\ req'[r].pc = "log"
             /\ Held(s)' = Held(s) + n
    <3>1. r \in B \ A
      BY <1>1, <1>2, <2>3 DEF Landed, Serving
    <3> QED
      BY <1>8, <1>11, <1>12, <2>3, <3>1
  <2>4. CASE req[r].op = "update" /\ req[r].pc = "write" /\ req[r].stock = s
             /\ Held(s)' = req[r].row.quantity /\ req[r].quantity = n
    <3>1. r \in A
      BY <1>1, <2>4 DEF Landed, Serving
    <3>2. Current(r, s)
      BY <2>4 DEF SerialInv
    <3>3. Held(s)' = Held(s) \/ Held(s)' = n
      BY <2>4, <3>2 DEF Current
    <3>4. n <= SumOf(Carried, A)
      BY <1>6, <1>11, <3>1
    <3> QED
      BY <1>6, <1>8, <1>11, <1>12, <3>1, <3>3, <3>4
  <2>5. CASE Held(s)' = Held(s) - n
    BY <1>12, <2>1, <2>5
  <2> QED
    BY <1>12, <2>1, <2>2, <2>3, <2>4, <2>5 DEF SerialStep
<1>15. \A t \in Stocks : Held(t)' <= SumOf(OpeningQuantity, Stocks) + SumOf(Carried', B)
  BY <1>8, <1>11, <1>12, <1>13, <1>14
<1>16. SumOf(Carried', B) = SumOf(Carried, Landed)'
  BY <1>2
<1> QED
  BY <1>15, <1>16 DEF Capped

LEMMA NextCapped == Serial /\ Finite /\ TypeOK /\ SerialInv /\ Capped /\ [Next]_vars => Capped'
<1> SUFFICES ASSUME Serial, Finite, TypeOK, SerialInv, Capped, [Next]_vars PROVE Capped'
  OBVIOUS
<1>1. TypeOK'
  BY NextTypeOK
<1>2. CASE \E r \in Requests : Serve(r)
  <2>1. PICK r \in Requests : Serve(r)
    BY <1>2
  <2>2. \A q \in Requests : q # r => req'[q] = req[q]
    BY <2>1, SerialAlone
  <2>3. PICK s \in Stocks, n \in Nat : SerialStep(r, s, n)
    BY <2>1, SerialSteps
  <2>4. req'[r].quantity \in Quantities \cup {0}
    BY <2>1, QuantitySteps DEF Capped
  <2>5. \A q \in Requests : req'[q].quantity \in Quantities \cup {0}
    BY <2>2, <2>4 DEF Capped
  <2> QED
    BY <1>1, <2>2, <2>3, <2>5, SerialCapped
<1>3. CASE Crash
  BY <1>3, NoFault DEF Crash
<1>4. CASE UNCHANGED vars
  BY <1>4 DEF vars, Capped, Held, Landed, Serving, Carried
<1> QED
  BY <1>2, <1>3, <1>4 DEF Next, Finished

----------------------------------------------------------------------------
(* Each step of a serial handler is a step of Position, or none of one.    *)

LEMMA InitAbstract == Serial /\ Finite /\ Init => Abstract!Init
<1> SUFFICES ASSUME Serial, Finite, Init PROVE Abstract!Init
  OBVIOUS
<1>1. /\ \A r \in Requests : req[r].pc = "idle" /\ req[r].op = "none"
      /\ log = {} /\ Capped
  BY InitCapped DEF Init
<1>2. ASSUME NEW s \in Stocks
      PROVE  HeldNow[s] \in 0..MostShares /\ BookNow[s] = 0 /\ EditsNow[s] = 0
  <2>1. /\ Owing("buy", "log", s) = {} /\ Owing("sell", "write", s) = {}
        /\ Trades("buy", s) = {} /\ Trades("sell", s) = {}
        /\ {r \in Requests : Edited(r, s)} = {}
    BY <1>1 DEF Owing, Serving, Trades, Edited
  <2>2. /\ Owed("buy", "log", s) = 0 /\ Owed("sell", "write", s) = 0
        /\ Logged("buy", s) = 0 /\ Logged("sell", s) = 0
        /\ Cardinality({r \in Requests : Edited(r, s)}) = 0
    BY <2>1, SumEmpty, FS_EmptySet DEF Owed, Logged
  <2>3. \A r \in Requests : Carried[r] \in Quantities \cup {0}
    BY <1>1 DEF Capped, Carried
  <2>4. /\ SumOf(OpeningQuantity, Stocks) \in Nat /\ SumOf(Carried, Landed) \in Nat
        /\ SumOf(OpeningQuantity, Stocks) + SumOf(Carried, Landed) <= MostShares
        /\ MostShares \in Nat
    BY <2>3, MostCovers DEF Landed
  <2>5. Held(s) \in Nat /\ Held(s) <= SumOf(OpeningQuantity, Stocks) + SumOf(Carried, Landed)
    BY <1>1, HoldingsAssumption DEF Capped, Held, Init
  <2>6. HeldNow[s] = Held(s) - Owed("sell", "write", s)
    BY DEF HeldNow, Held
  <2>7. BookNow[s] = Logged("buy", s) - Logged("sell", s) + Owed("buy", "log", s)
    BY DEF BookNow
  <2>8. EditsNow[s] = Cardinality({r \in Requests : Edited(r, s)})
    BY DEF EditsNow
  <2> QED
    BY <2>2, <2>4, <2>5, <2>6, <2>7, <2>8
<1>3. HeldNow = [s \in Stocks |-> HeldNow[s]]
  BY DEF HeldNow
<1>4. BookNow = [s \in Stocks |-> BookNow[s]]
  BY DEF BookNow
<1>5. EditsNow = [s \in Stocks |-> EditsNow[s]]
  BY DEF EditsNow
<1>6. \A x \in 0..MostShares : x \in (1..MostShares) \cup {0}
  <2>1. MostShares \in Nat
    <3>1. \A r \in Requests : Carried[r] \in Quantities \cup {0}
      BY <1>1 DEF Capped, Carried
    <3> QED
      BY <3>1, MostCovers
  <2> QED
    BY <2>1
<1> QED
  BY <1>2, <1>3, <1>4, <1>5, <1>6 DEF Abstract!Init

\* An edit counts once, when it is answered.
LEMMA SerialEdits ==
  ASSUME TypeOK, TypeOK', RequestsInv, NEW r \in Requests,
         NEW s \in Stocks, NEW n \in Nat, SerialStep(r, s, n),
         \A q \in Requests : q # r => req'[q] = req[q], NEW t \in Stocks
  PROVE  EditsNow'[t] = IF /\ t = s /\ req'[r].pc = "ok" /\ req[r].pc # "ok"
                           /\ req'[r].op \in {"create", "update", "delete"}
                        THEN EditsNow[t] + 1 ELSE EditsNow[t]
<1>1. PICK A : A = {q \in Requests : Edited(q, t)}
  OBVIOUS
<1>2. PICK B : B = {q \in Requests : Edited(q, t)}'
  OBVIOUS
<1>3. EditsNow[t] = Cardinality(A) /\ EditsNow'[t] = Cardinality(B)
  BY <1>1, <1>2 DEF EditsNow
<1>4. IsFiniteSet(A)
  <2>1. A \subseteq Begun /\ IsFiniteSet(Begun)
    BY <1>1 DEF Edited, Begun, RequestsInv
  <2> QED
    BY <2>1, FS_Subset
<1>5. req'[r].stock = s /\ (r \in A => r \in B)
  BY <1>1, <1>2 DEF Edited, SerialStep
<1>6. r \in A <=> req[r].op \in {"create", "update", "delete"} /\ req[r].stock = t /\ req[r].pc = "ok"
  BY <1>1 DEF Edited
<1>7. r \in B <=> req'[r].op \in {"create", "update", "delete"} /\ s = t /\ req'[r].pc = "ok"
  BY <1>2, <1>5 DEF Edited
<1>8. \A q \in Requests : q # r => (q \in A <=> q \in B)
  BY <1>1, <1>2 DEF Edited
<1>9. req[r].pc # "ok"
  BY DEF SerialStep, RequestsInv
<1>10. B = IF r \in B THEN A \cup {r} ELSE A
  BY <1>1, <1>2, <1>5, <1>8
<1>11. r \notin A
  BY <1>6, <1>9
<1> QED
  BY <1>3, <1>4, <1>7, <1>9, <1>10, <1>11, FS_AddElement

LEMMA SerialRefines ==
  ASSUME Finite, TypeOK, TypeOK', SerialInv, Capped, Capped',
         NEW r \in Requests, NEW s \in Stocks, NEW n \in Nat,
         SerialStep(r, s, n), \A q \in Requests : q # r => q \notin InFlight /\ req'[q] = req[q],
         SerialInv'
  PROVE  Abstract!Next \/ UNCHANGED <<HeldNow, BookNow, EditsNow>>
<1>1. \A t \in Stocks :
        /\ HeldNow[t] = Held(t) - Owed("sell", "write", t)
        /\ HeldNow'[t] = Held(t)' - Owed("sell", "write", t)'
        /\ BookNow[t] = Logged("buy", t) - Logged("sell", t) + Owed("buy", "log", t)
        /\ BookNow'[t] = Logged("buy", t)' - Logged("sell", t)' + Owed("buy", "log", t)'
  BY DEF HeldNow, BookNow, Held
<1>2. /\ HeldNow = [t \in Stocks |-> HeldNow[t]] /\ HeldNow' = [t \in Stocks |-> HeldNow'[t]]
      /\ BookNow = [t \in Stocks |-> BookNow[t]] /\ BookNow' = [t \in Stocks |-> BookNow'[t]]
      /\ EditsNow = [t \in Stocks |-> EditsNow[t]] /\ EditsNow' = [t \in Stocks |-> EditsNow'[t]]
  BY DEF HeldNow, BookNow, EditsNow
<1>3. \A t \in Stocks : EditsNow'[t] = IF /\ t = s /\ req'[r].pc = "ok" /\ req[r].pc # "ok"
                                          /\ req'[r].op \in {"create", "update", "delete"}
                                       THEN EditsNow[t] + 1 ELSE EditsNow[t]
  BY SerialEdits DEF SerialInv
<1>4. ASSUME NEW t \in Stocks
      PROVE  /\ Owed("buy", "log", t) \in Nat /\ Owed("buy", "log", t)' \in Nat
             /\ Owed("buy", "log", t)' = Owed("buy", "log", t)
                  + (IF r \in Owing("buy", "log", t)' THEN n ELSE 0)
                  - (IF r \in Owing("buy", "log", t) THEN n ELSE 0)
             /\ Owed("sell", "write", t) \in Nat /\ Owed("sell", "write", t)' \in Nat
             /\ Owed("sell", "write", t)' = Owed("sell", "write", t)
                  + (IF r \in Owing("sell", "write", t)' THEN n ELSE 0)
                  - (IF r \in Owing("sell", "write", t) THEN n ELSE 0)
  BY SerialSums
<1>5. ASSUME NEW t \in Stocks
      PROVE  /\ Logged("buy", t) \in Nat /\ Logged("buy", t)' \in Nat
             /\ Logged("buy", t)' = Logged("buy", t)
                  + (IF t = s /\ req[r].pc = "log" /\ req[r].op = "buy" THEN n ELSE 0)
             /\ Logged("sell", t) \in Nat /\ Logged("sell", t)' \in Nat
             /\ Logged("sell", t)' = Logged("sell", t)
                  + (IF t = s /\ req[r].pc = "log" /\ req[r].op = "sell" THEN n ELSE 0)
  BY SerialLogs
<1>6. ASSUME NEW t \in Stocks
      PROVE  /\ Held(t) \in 0..MostShares /\ Held(t)' \in 0..MostShares /\ MostShares \in Nat
  <2>1. PICK f : f = Carried
    OBVIOUS
  <2>2. PICK e : e = Carried'
    OBVIOUS
  <2>3. PICK A : A = Landed
    OBVIOUS
  <2>4. PICK B : B = Landed'
    OBVIOUS
  <2>5. /\ A \subseteq Requests /\ B \subseteq Requests
        /\ \A q \in Requests : f[q] \in Quantities \cup {0}
        /\ \A q \in Requests : e[q] \in Quantities \cup {0}
    BY <2>1, <2>2, <2>3, <2>4 DEF Landed, Capped, Carried
  <2>6. /\ SumOf(OpeningQuantity, Stocks) \in Nat /\ SumOf(f, A) \in Nat
        /\ SumOf(OpeningQuantity, Stocks) + SumOf(f, A) <= MostShares
        /\ MostShares \in Nat
    BY <2>5, MostCovers
  <2>7. /\ SumOf(e, B) \in Nat
        /\ SumOf(OpeningQuantity, Stocks) + SumOf(e, B) <= MostShares
    BY <2>5, MostCovers
  <2>8. Held(t) \in Nat /\ Held(t) <= SumOf(OpeningQuantity, Stocks) + SumOf(f, A)
    BY <2>1, <2>3, HeldType DEF Capped
  <2>9. Held(t)' \in Nat /\ Held(t)' <= SumOf(OpeningQuantity, Stocks) + SumOf(e, B)
    BY <2>2, <2>4 DEF Capped, Held, TypeOK, Row
  <2> QED
    BY <2>6, <2>7, <2>8, <2>9
<1>7. ASSUME NEW t \in Stocks, t # s
      PROVE  HeldNow'[t] = HeldNow[t] /\ BookNow'[t] = BookNow[t] /\ EditsNow'[t] = EditsNow[t]
  <2>1. Held(t)' = Held(t)
    BY <1>7 DEF SerialStep
  <2>2. /\ r \notin Owing("buy", "log", t)' /\ r \notin Owing("sell", "write", t)'
        /\ r \notin Owing("buy", "log", t) /\ r \notin Owing("sell", "write", t)
    BY <1>7 DEF SerialStep, Owing, Serving, SerialInv, RequestsInv
  <2> QED
    BY <1>1, <1>3, <1>4, <1>5, <1>7, <2>1, <2>2
<1>8. req'[r].stock = s /\ req'[r].quantity = n
      /\ (req[r].pc = "idle" => req[r].op = "none")
      /\ (req[r].pc # "idle" => req[r].op = req'[r].op /\ req[r].stock = s)
  BY DEF SerialStep, SerialInv, RequestsInv
<1>9. /\ r \in Owing("buy", "log", s)' <=> req'[r].op = "buy" /\ req'[r].pc = "log"
      /\ r \in Owing("sell", "write", s)' <=> req'[r].op = "sell" /\ req'[r].pc = "write"
      /\ r \in Owing("buy", "log", s) <=> req[r].op = "buy" /\ req[r].pc = "log"
      /\ r \in Owing("sell", "write", s) <=> req[r].op = "sell" /\ req[r].pc = "write"
  BY <1>8 DEF Owing, Serving
<1>10. ~(req[r].op = "sell" /\ req[r].pc = "write") => Owed("sell", "write", s) = 0
  <2>1. ~(req[r].op = "sell" /\ req[r].pc = "write") => Owing("sell", "write", s) = {}
    BY DEF Owing, Serving, InFlight
  <2> QED
    BY <2>1, SumEmpty DEF Owed
<1>11. req[r].pc \in {"check", "log", "write"} => Current(r, s) /\ Shape(r)
  BY <1>8 DEF SerialInv
<1>12. /\ HeldNow[s] = Held(s) - Owed("sell", "write", s) /\ HeldNow[s] \in Int
       /\ HeldNow'[s] = HeldNow[s] + Held(s)' - Held(s)
            - (IF req'[r].op = "sell" /\ req'[r].pc = "write" THEN n ELSE 0)
            + (IF req[r].op = "sell" /\ req[r].pc = "write" THEN n ELSE 0)
       /\ Held(s) \in 0..MostShares /\ Held(s)' \in 0..MostShares /\ MostShares \in Nat
  BY <1>1, <1>4, <1>6, <1>9
<1>13. /\ BookNow[s] \in Int
       /\ BookNow'[s] = BookNow[s]
            + (IF req[r].pc = "log" /\ req[r].op = "buy" THEN n ELSE 0)
            - (IF req[r].pc = "log" /\ req[r].op = "sell" THEN n ELSE 0)
            + (IF req'[r].op = "buy" /\ req'[r].pc = "log" THEN n ELSE 0)
            - (IF req[r].op = "buy" /\ req[r].pc = "log" THEN n ELSE 0)
  BY <1>1, <1>4, <1>5, <1>9
<1>14. EditsNow'[s] = IF /\ req'[r].pc = "ok" /\ req[r].pc # "ok"
                         /\ req'[r].op \in {"create", "update", "delete"}
                      THEN EditsNow[s] + 1 ELSE EditsNow[s]
  BY <1>3
<1> DEFINE Stays == HeldNow'[s] = HeldNow[s] /\ BookNow'[s] = BookNow[s] /\ EditsNow'[s] = EditsNow[s]
           Moves(q) == /\ HeldNow'[s] = HeldNow[s] + q /\ BookNow'[s] = BookNow[s] + q
                       /\ EditsNow'[s] = EditsNow[s]
           Sets == /\ HeldNow'[s] \in 0..MostShares /\ BookNow'[s] = BookNow[s]
                   /\ EditsNow'[s] = EditsNow[s] + 1
<1>15. Stays => UNCHANGED <<HeldNow, BookNow, EditsNow>>
  BY <1>2, <1>7
<1>16. Sets => Abstract!Next
  <2> SUFFICES ASSUME Sets PROVE Abstract!Next
    OBVIOUS
  <2>1. PICK q : q = HeldNow'[s]
    OBVIOUS
  <2>2. /\ HeldNow' = [HeldNow EXCEPT ![s] = q]
        /\ EditsNow' = [EditsNow EXCEPT ![s] = @ + 1]
        /\ BookNow' = BookNow
    BY <1>2, <1>7, <2>1
  <2>3. q \in (1..MostShares) \cup {0}
    BY <1>6, <2>1
  <2>4. Abstract!Edit(s, q)
    BY <2>2 DEF Abstract!Edit
  <2> QED
    BY <2>3, <2>4 DEF Abstract!Next
<1>17. ASSUME NEW q \in Int, Moves(q) PROVE Abstract!Trade(s, q)
  <2>1. /\ HeldNow' = [HeldNow EXCEPT ![s] = @ + q]
        /\ BookNow' = [BookNow EXCEPT ![s] = @ + q]
        /\ EditsNow' = EditsNow
    BY <1>2, <1>7, <1>17
  <2> QED
    BY <2>1 DEF Abstract!Trade
<1>18. CASE /\ req[r].pc = "idle" /\ req'[r].pc = "ok" /\ req'[r].op = "create"
            /\ Held(s)' = n
  <2>1. Sets
    BY <1>8, <1>10, <1>12, <1>13, <1>14, <1>18
  <2> QED
    BY <1>16, <2>1
<1>19. CASE /\ req[r].pc = "idle" /\ req'[r].pc \in {"check", "log", "write"}
            /\ Held(s)' = Held(s)
            /\ req'[r].op = "buy" => req'[r].pc = "write"
            /\ req'[r].op = "sell" => req'[r].pc = "log"
  <2>1. Stays
    BY <1>8, <1>12, <1>13, <1>14, <1>19
  <2> QED
    BY <1>15, <2>1
<1>20. CASE /\ req'[r].op = "delete" /\ req'[r].pc = "ok"
            /\ req[r].pc = "idle" \/ req[r].pc = "write"
            /\ Held(s)' = 0
  <2>1. req[r].op \in {"none", "delete"} /\ req[r].pc # "ok" /\ req[r].pc # "log"
    BY <1>8, <1>20
  <2>2. Sets
    <3>1. HeldNow'[s] = 0
      BY <1>10, <1>12, <1>20, <2>1
    <3>2. BookNow'[s] = BookNow[s]
      BY <1>13, <1>20, <2>1
    <3>3. EditsNow'[s] = EditsNow[s] + 1
      BY <1>14, <1>20, <2>1
    <3> QED
      BY <1>12, <3>1, <3>2, <3>3
  <2> QED
    BY <1>16, <2>2
<1>21. CASE /\ req[r].op = "delete" /\ req[r].pc = "check" /\ Held(s)' = Held(s)
            /\ req'[r].pc \in {"write", "error"}
  <2>1. Stays
    BY <1>8, <1>12, <1>13, <1>14, <1>21
  <2> QED
    BY <1>15, <2>1
<1>22. CASE req[r].op = "update" /\ req[r].pc = "write" /\ req'[r].pc = "ok"
  <2>1. Sets
    BY <1>8, <1>10, <1>12, <1>13, <1>14, <1>22
  <2> QED
    BY <1>16, <2>1
<1>23. CASE req[r].op = "buy" /\ req[r].pc = "write" /\ req'[r].pc = "log"
            /\ Held(s)' = Held(s) + n
  <2>1. HeldNow[s] > 0 /\ n > 0
    <3>1. Held(s) > 0
      BY <1>11, <1>23 DEF Current
    <3>2. req'[r].op = "buy"
      BY <1>8, <1>23
    <3>3. Shape(r)'
      BY DEF SerialInv
    <3>4. n > 0
      BY <1>8, <3>2, <3>3 DEF Shape
    <3> QED
      BY <1>10, <1>12, <1>23, <3>1, <3>4
  <2>2. Moves(n)
    BY <1>8, <1>12, <1>13, <1>14, <1>23
  <2>3. n \in 1..MostShares
    BY <1>12, <1>23, <2>1
  <2>4. Abstract!Buy(s, n)
    BY <1>17, <2>1, <2>2 DEF Abstract!Buy
  <2> QED
    BY <2>3, <2>4 DEF Abstract!Next
<1>24. CASE req[r].op = "sell" /\ req[r].pc = "write" /\ req'[r].pc = "ok"
            /\ Held(s)' = Held(s) - n
  <2>1. Stays
    BY <1>8, <1>12, <1>13, <1>14, <1>24
  <2> QED
    BY <1>15, <2>1
<1>25. CASE req[r].op = "buy" /\ req[r].pc = "log" /\ req'[r].pc = "ok"
            /\ Held(s)' = Held(s)
  <2>1. Stays
    BY <1>8, <1>12, <1>13, <1>14, <1>25
  <2> QED
    BY <1>15, <2>1
<1>26. CASE req[r].op = "sell" /\ req[r].pc = "log" /\ req'[r].pc = "write"
            /\ Held(s)' = Held(s)
  <2>1. req[r].quantity = n /\ n > 0 /\ n <= Held(s)
    BY <1>8, <1>11, <1>26 DEF Current, Shape, SerialStep, TypeOK, InFlight
  <2>2. HeldNow[s] = Held(s)
    BY <1>10, <1>26, <1>12
  <2>3. Moves(-n)
    BY <1>8, <1>12, <1>13, <1>14, <1>26
  <2>4. n \in 1..MostShares
    BY <1>12, <2>1
  <2>5. Abstract!Sell(s, n)
    BY <1>17, <2>1, <2>2, <2>3 DEF Abstract!Sell
  <2> QED
    BY <2>4, <2>5 DEF Abstract!Next
<1> QED
  BY <1>18, <1>19, <1>20, <1>21, <1>22, <1>23, <1>24, <1>25, <1>26, <1>8 DEF SerialStep

LEMMA NextAbstract ==
  Serial /\ Finite /\ TypeOK /\ SerialInv /\ Capped /\ [Next]_vars
    => [Abstract!Next]_(Abstract!vars)
<1> SUFFICES ASSUME Serial, Finite, TypeOK, SerialInv, Capped, [Next]_vars
             PROVE  Abstract!Next \/ UNCHANGED <<HeldNow, BookNow, EditsNow>>
  BY DEF Abstract!vars
<1>1. TypeOK' /\ SerialInv' /\ Capped'
  BY NextTypeOK, NextSerial, NextCapped
<1>2. CASE \E r \in Requests : Serve(r)
  <2>1. PICK r \in Requests : Serve(r)
    BY <1>2
  <2>2. \A q \in Requests : q # r => q \notin InFlight /\ req'[q] = req[q]
    BY <2>1, SerialAlone
  <2>3. PICK s \in Stocks, n \in Nat : SerialStep(r, s, n)
    BY <2>1, SerialSteps
  <2> QED
    BY <1>1, <2>2, <2>3, SerialRefines
<1>3. CASE Crash
  BY <1>3, NoFault DEF Crash
<1>4. CASE UNCHANGED vars
  BY <1>4 DEF vars, HeldNow, BookNow, EditsNow, Owed, Owing, Serving, Carried, Logged, Trades, Edited
<1> QED
  BY <1>2, <1>3, <1>4 DEF Next, Finished

\* Position is implemented: served one at a time without failures, every
\* purchase and sale moves a holding and its log by the same shares, and
\* nothing else moves them, an edit apart.
THEOREM SerialTradesAsOne == Serial /\ Finite => (Spec => TradesAsOne)
<1> SUFFICES ASSUME Serial, Finite PROVE Spec => TradesAsOne
  OBVIOUS
<1>1. Init => TypeOK /\ SerialInv /\ Capped /\ Abstract!Init
  BY InitTypeOK, InitSerial, InitCapped, InitAbstract
<1>2. TypeOK /\ SerialInv /\ Capped /\ [Next]_vars => (TypeOK /\ SerialInv /\ Capped)'
  BY NextTypeOK, NextSerial, NextCapped
<1>3. TypeOK /\ SerialInv /\ Capped /\ [Next]_vars => [Abstract!Next]_(Abstract!vars)
  BY NextAbstract
<1> QED
  BY <1>1, <1>2, <1>3, PTL DEF Spec, TradesAsOne, Abstract!Spec

----------------------------------------------------------------------------
(* ApplySaving, beside the handlers of holdings, other assets and entries. *)

\* The steps a saving takes with the mutex in hand.
Locked == {"entry", "asset", "write", "log", "rollback"}

\* Where a saving stands, what its link is, and whether its entry is there.
SaverOK(x) ==
  LET v == saver[x]
  IN /\ v.pc \in Locked => v.amount \in Quantities
     /\ v.pc \in {"entry", "asset"} =>
          \/ v.kind = "stock" /\ v.link \in issued \cup {New}
          \/ v.kind = "other" /\ v.link \in coined \cup {New}
          \/ v.kind = "unknown"
     /\ v.pc = "write" =>
          \/ v.kind = "stock" /\ v.link \in issued /\ v.row.quantity > 0
          \/ v.kind = "other" /\ v.link \in coined
     /\ v.pc = "log" => v.kind = "stock" /\ v.link \in issued
     /\ v.credited => v.pc \in {"log", "ok", "lost"} /\ v.link \in issued \cup coined
     /\ v.pc \in {"log", "ok"} => v.credited
     /\ v.pc \in {"idle", "lock", "entry", "error"} => x \notin ledger
     /\ v.pc \in {"idle", "lock", "entry"} => x \notin Removed
     /\ v.pc \in {"asset", "write", "log", "rollback", "ok", "orphan"} =>
          x \in ledger \cup Removed
     /\ x \in ledger => x \notin Removed

\* No handler outside the mutex has worked on this asset, on this holding.
Untouched(a) == \A r \in Requests : editor[r].asset # a
Unasked(s) == \A r \in Requests : req[r].op = "none" \/ req[r].stock # s

\* What a saving is about to write is the row as it is, and its own amount.
CopyFresh(x) ==
  LET v == saver[x]
  IN /\ At(x, "other", "write") /\ v.link \in DOMAIN assets /\ Untouched(v.link) =>
          v.value = assets[v.link] + v.amount
     /\ At(x, "stock", "write") /\ v.link \in DOMAIN stocks /\ Unasked(v.link) =>
          v.row.quantity = stocks[v.link].quantity + v.amount

Sent == {x \in Savers : saver[x].pc # "idle"}

\* A request that was not sent was for no asset and no entry.
EditorsOK == \A r \in Requests : editor[r].pc = "idle" => editor[r] = NotSent

SavingInv ==
  /\ SavingTypeOK
  /\ EditorsOK
  /\ RequestsInv
  /\ IsFiniteSet(Sent)
  /\ \A a \in Assets \ coined : OpeningValue[a] = 0
  /\ \A s \in Stocks \ issued : OpeningQuantity[s] = 0
  /\ \A x \in Savers : SaverOK(x) /\ CopyFresh(x)
  /\ SavingsAddUp

\* What a step of saving x does, by what it touches.
OthersSame(x) ==
  /\ saver' \in [Savers -> Saver]
  /\ \A y \in Savers : y # x => saver'[y] = saver[y]

MutexStep(x) ==
  \/ mutex' = mutex /\ (saver[x].pc \in Locked <=> saver'[x].pc \in Locked)
  \/ mutex = Nobody /\ mutex' = x /\ saver'[x].pc \in Locked
  \/ mutex = x /\ mutex' = Nobody /\ saver'[x].pc \notin Locked

LedgerStep(x) ==
  /\ ledger' \subseteq Savers
  /\ \A y \in Savers : y # x => (y \in ledger' <=> y \in ledger)

TablesStep ==
  /\ UNCHANGED <<req, editor>>
  /\ TypeOK'
  /\ issued \subseteq issued'
  /\ coined \subseteq coined' /\ coined' \subseteq Assets
  /\ DOMAIN assets' \subseteq coined'
  /\ \A a \in DOMAIN assets' : assets'[a] \in Nat

\* Nothing is credited, or a holding or an asset is: one there, or a new one.
CreditsNothing(x) ==
  /\ UNCHANGED <<stocks, assets>>
  /\ saver'[x].credited = saver[x].credited
  /\ saver[x].credited =>
       saver'[x].link = saver[x].link /\ saver'[x].amount = saver[x].amount

CreditsStock(x) ==
  LET s == saver'[x].link
      n == saver'[x].amount
  IN /\ saver[x].pc \in Locked /\ ~saver[x].credited /\ saver'[x].credited
     /\ assets' = assets
     /\ s \in Stocks
     /\ \A t \in DOMAIN stocks' :
          t # s => t \in DOMAIN stocks /\ stocks'[t].quantity = stocks[t].quantity
     /\ \/ /\ s \in DOMAIN stocks
           /\ Unasked(s) => stocks'[s].quantity = stocks[s].quantity + n
        \/ s \notin issued /\ stocks'[s].quantity = n

CreditsAsset(x) ==
  LET a == saver'[x].link
      n == saver'[x].amount
  IN /\ saver[x].pc \in Locked /\ ~saver[x].credited /\ saver'[x].credited
     /\ stocks' = stocks
     /\ a \in Assets
     /\ \A b \in DOMAIN assets' : b # a => b \in DOMAIN assets /\ assets'[b] = assets[b]
     /\ \/ /\ a \in DOMAIN assets
           /\ Untouched(a) => assets'[a] = assets[a] + n
        \/ a \notin coined /\ assets'[a] = n

SaverStep(x) ==
  /\ OthersSame(x) /\ saver'[x].pc # "idle"
  /\ MutexStep(x) /\ LedgerStep(x) /\ TablesStep
  /\ SaverOK(x)' /\ CopyFresh(x)'
  /\ CreditsNothing(x) \/ CreditsStock(x) \/ CreditsAsset(x)

LEMMA FreshIsSaver ==
  /\ Fresh \in Saver
  /\ Fresh.link = New /\ Fresh.amount = 0 /\ Fresh.credited = FALSE
BY BlankIsRow DEF Fresh, Saver, Links, Row

\* The moves of a saving, field by field.
LEMMA Stepped ==
  ASSUME SavingTypeOK, NEW x \in Savers, NEW pc \in Busy, Step(x, pc)
  PROVE  /\ OthersSame(x)
         /\ saver'[x].pc = pc /\ saver'[x].kind = saver[x].kind
         /\ saver'[x].link = saver[x].link /\ saver'[x].amount = saver[x].amount
         /\ saver'[x].row = saver[x].row /\ saver'[x].value = saver[x].value
         /\ saver'[x].credited = saver[x].credited
<1>1. saver \in [Savers -> Saver] /\ saver[x] \in Saver
  BY DEF SavingTypeOK
<1>2. PICK v : v = [saver[x] EXCEPT !.pc = pc]
  OBVIOUS
<1>3. /\ v \in Saver
      /\ v.pc = pc /\ v.kind = saver[x].kind
      /\ v.link = saver[x].link /\ v.amount = saver[x].amount
      /\ v.row = saver[x].row /\ v.value = saver[x].value
      /\ v.credited = saver[x].credited
  BY <1>1, <1>2 DEF Saver
<1>4. saver' = [saver EXCEPT ![x] = v]
  BY <1>1, <1>2 DEF Step
<1>5. saver'[x] = v /\ OthersSame(x)
  BY <1>1, <1>3, <1>4 DEF OthersSame
<1> QED
  BY <1>3, <1>5

LEMMA Returned ==
  ASSUME SavingTypeOK, NEW x \in Savers, NEW pc \in {"error", "orphan"}, Return(x, pc)
  PROVE  /\ OthersSame(x) /\ mutex' = Nobody
         /\ saver'[x].pc = pc /\ saver'[x].credited = FALSE
<1>1. saver \in [Savers -> Saver]
  BY DEF SavingTypeOK
<1>2. PICK v : v = [Fresh EXCEPT !.pc = pc]
  OBVIOUS
<1>3. v \in Saver /\ v.pc = pc /\ v.credited = FALSE
  BY <1>2, FreshIsSaver DEF Saver, Answered
<1>4. saver' = [saver EXCEPT ![x] = v] /\ mutex' = Nobody
  BY <1>2 DEF Return
<1>5. saver'[x] = v /\ OthersSame(x)
  BY <1>1, <1>3, <1>4 DEF OthersSame
<1> QED
  BY <1>3, <1>4, <1>5

LEMMA SucceededSaver ==
  ASSUME SavingTypeOK, NEW x \in Savers, NEW link \in Links, Succeed(x, link)
  PROVE  /\ OthersSame(x) /\ mutex' = Nobody
         /\ saver'[x].pc = "ok" /\ saver'[x].credited = TRUE
         /\ saver'[x].link = link /\ saver'[x].amount = saver[x].amount
<1>1. saver \in [Savers -> Saver] /\ saver[x].amount \in Nat
  BY DEF SavingTypeOK, Saver
<1>2. PICK v : v = [Fresh EXCEPT !.pc = "ok", !.link = link, !.amount = saver[x].amount,
                                 !.credited = TRUE]
  OBVIOUS
<1>3. /\ v \in Saver /\ v.pc = "ok" /\ v.credited = TRUE
      /\ v.link = link /\ v.amount = saver[x].amount
  BY <1>1, <1>2, FreshIsSaver DEF Saver, Answered
<1>4. saver' = [saver EXCEPT ![x] = v] /\ mutex' = Nobody
  BY <1>2 DEF Succeed
<1>5. saver'[x] = v /\ OthersSame(x)
  BY <1>1, <1>3, <1>4 DEF OthersSame
<1> QED
  BY <1>3, <1>4, <1>5

\* The other fields a saving sets.
LEMMA SetSaver ==
  ASSUME SavingTypeOK, NEW x \in Savers, NEW v \in Saver, saver' = [saver EXCEPT ![x] = v]
  PROVE  saver'[x] = v /\ OthersSame(x)
BY DEF SavingTypeOK, OthersSame

\* A statement on neither table keeps both.
LEMMA QuietTables ==
  ASSUME SavingTypeOK, UNCHANGED <<stocks, issued, assets, coined, req, editor>>,
         log' \subseteq LogEntry, Ok \/ Fault
  PROVE  TablesStep
<1>1. TablesOK' /\ LocalsOK'
  BY TypeOKParts DEF SavingTypeOK, TablesOK, LocalsOK, LocalOK
<1>2. TypeOK'
  BY <1>1, TypeOKParts, TypeOKNext, FaultsOK DEF SavingTypeOK
<1> QED
  BY <1>2 DEF TablesStep, SavingTypeOK

\* The saving that holds the mutex, and what the mutex says of x.
LEMMA Holder ==
  ASSUME SavingTypeOK, NEW x \in Savers
  PROVE  (saver[x].pc \in Locked <=> mutex = x) /\ Busy \ {"lock"} = Locked /\ x # Nobody
         /\ saver[x] \in Saver
BY SavingAssumption DEF SavingTypeOK, Busy, Locked

----------------------------------------------------------------------------
(* Every step of a saving.                                                 *)

LEMMA SavingParts ==
  ASSUME SavingInv, NEW x \in Savers
  PROVE  /\ SavingTypeOK /\ TypeOK /\ SaverOK(x) /\ CopyFresh(x)
         /\ saver[x] \in Saver /\ x # Nobody
         /\ saver[x].pc \in Locked <=> mutex = x
         /\ ledger \subseteq Savers
BY Holder DEF SavingInv, SavingTypeOK

LEMMA SendStep ==
  ASSUME SavingInv, NEW x \in Savers, Send(x)
  PROVE  SaverStep(x)
<1>1. /\ SavingTypeOK /\ TypeOK /\ SaverOK(x) /\ CopyFresh(x)
      /\ ledger \subseteq Savers
  BY SavingParts
<1>2. /\ saver[x].pc = "idle" /\ Step(x, "lock")
      /\ UNCHANGED <<vars, mutex, ledger, assets, coined, editor>>
  BY DEF Send
<1>3. /\ OthersSame(x) /\ saver'[x].pc = "lock" /\ saver'[x].link = saver[x].link
      /\ saver'[x].amount = saver[x].amount /\ saver'[x].credited = saver[x].credited
  BY <1>1, <1>2, Stepped DEF Busy
<1>4. TablesStep
  <2>1. log' \subseteq LogEntry /\ (Ok \/ Fault) /\ UNCHANGED <<stocks, issued, req>>
    BY <1>1, <1>2 DEF vars, TypeOK, Ok
  <2> QED
    BY <1>1, <1>2, <2>1, QuietTables
<1>5. MutexStep(x) /\ LedgerStep(x)
  BY <1>1, <1>2, <1>3 DEF MutexStep, LedgerStep, Locked
<1>6. SaverOK(x)' /\ CopyFresh(x)'
  BY <1>1, <1>2, <1>3 DEF SaverOK, CopyFresh, At, Locked, Removed
<1>7. CreditsNothing(x)
  BY <1>2, <1>3 DEF CreditsNothing, vars
<1> QED
  BY <1>3, <1>4, <1>5, <1>6, <1>7 DEF SaverStep

LEMMA LockStep ==
  ASSUME SavingInv, NEW x \in Savers, Lock(x)
  PROVE  SaverStep(x)
<1>1. /\ SavingTypeOK /\ TypeOK /\ SaverOK(x) /\ CopyFresh(x) /\ saver[x] \in Saver
      /\ ledger \subseteq Savers
  BY SavingParts
<1>2. /\ saver[x].pc = "lock" /\ mutex = Nobody /\ mutex' = x
      /\ UNCHANGED <<vars, ledger, assets, coined, editor>>
  BY DEF Lock
<1>3. PICK kind \in {"stock", "other", "unknown"}, n \in Quantities, u \in Users :
        \E link \in Targets(kind) :
          saver' = [saver EXCEPT ![x] = [@ EXCEPT !.pc = "entry", !.kind = kind,
                       !.link = link, !.amount = n, !.user = u]]
  BY DEF Lock, Begin
<1>4. PICK link \in Targets(kind) :
          saver' = [saver EXCEPT ![x] = [@ EXCEPT !.pc = "entry", !.kind = kind,
                       !.link = link, !.amount = n, !.user = u]]
  BY <1>3
<1>5. PICK v : v = [saver[x] EXCEPT !.pc = "entry", !.kind = kind,
                       !.link = link, !.amount = n, !.user = u]
  OBVIOUS
<1>6. /\ \/ kind = "stock" /\ link \in issued \cup {New}
         \/ kind = "other" /\ link \in coined \cup {New}
         \/ kind = "unknown"
      /\ link \in Links
  <2>1. link \in Targets(kind)
    BY <1>4
  <2>2. issued \subseteq Stocks /\ coined \subseteq Assets
    BY <1>1 DEF SavingTypeOK, TypeOK
  <2>3. CASE kind = "stock"
    <3>1. Targets(kind) = {New} \cup issued
      BY <2>3 DEF Targets
    <3> QED
      BY <2>2, <2>3, <2>1, <3>1 DEF Links
  <2>4. CASE kind = "other"
    <3>1. Targets(kind) = {New} \cup coined
      BY <2>4 DEF Targets
    <3> QED
      BY <2>2, <2>4, <2>1, <3>1 DEF Links
  <2>5. CASE kind = "unknown"
    <3>1. Targets(kind) = {New} \cup {}
      BY <2>5 DEF Targets
    <3> QED
      BY <2>5, <2>1, <3>1 DEF Links
  <2> QED
    BY <2>3, <2>4, <2>5
<1>7. /\ v.pc = "entry" /\ v.kind = kind /\ v.link = link /\ v.amount = n
      /\ v.credited = saver[x].credited /\ v \in Saver
  BY <1>1, <1>5, <1>6, HoldingsAssumption DEF Saver, Busy
<1>8. saver' = [saver EXCEPT ![x] = v]
  BY <1>1, <1>4, <1>5 DEF SavingTypeOK
<1>9. saver'[x] = v /\ OthersSame(x)
  BY <1>1, <1>7, <1>8, SetSaver
<1>10. TablesStep
  <2>1. log' \subseteq LogEntry /\ (Ok \/ Fault) /\ UNCHANGED <<stocks, issued, req>>
    BY <1>1, <1>2 DEF vars, TypeOK, Ok
  <2> QED
    BY <1>1, <1>2, <2>1, QuietTables
<1>11. MutexStep(x) /\ LedgerStep(x)
  BY <1>1, <1>2, <1>7, <1>9 DEF MutexStep, LedgerStep, Locked
<1>12. SaverOK(x)' /\ CopyFresh(x)'
  BY <1>1, <1>2, <1>6, <1>7, <1>9 DEF SaverOK, CopyFresh, At, Locked, Removed, vars
<1>13. CreditsNothing(x)
  BY <1>1, <1>2, <1>7, <1>9 DEF CreditsNothing, SaverOK, vars
<1> QED
  BY <1>7, <1>9, <1>10, <1>11, <1>12, <1>13 DEF SaverStep

\* An entry that cannot be stored, and a rollback, end the saving.
LEMMA ReturnStep ==
  ASSUME SavingInv, NEW x \in Savers, NEW pc \in {"error", "orphan"}, Return(x, pc),
         saver[x].pc \in {"entry", "rollback"},
         UNCHANGED <<stocks, issued, log, req, assets, coined, editor>>, Ok \/ Fault,
         \/ /\ saver[x].pc = "entry" \/ pc = "orphan"
            /\ ledger' = ledger
         \/ ledger' = ledger \ {x} /\ pc = "error",
         saver[x].pc = "entry" => pc = "error"
  PROVE  SaverStep(x)
<1>1. /\ SavingTypeOK /\ TypeOK /\ SaverOK(x) /\ CopyFresh(x) /\ saver[x] \in Saver
      /\ ledger \subseteq Savers
      /\ mutex = x
  BY SavingParts DEF Locked
<1>2. /\ OthersSame(x) /\ mutex' = Nobody /\ saver'[x].pc = pc /\ saver'[x].credited = FALSE
  BY <1>1, Returned
<1>3. saver[x].credited = FALSE
  BY <1>1 DEF SaverOK, Saver
<1>4. TablesStep
  <2>1. log' \subseteq LogEntry
    BY <1>1 DEF TypeOK
  <2> QED
    BY <1>1, <2>1, QuietTables
<1>5. MutexStep(x) /\ LedgerStep(x)
  BY <1>1, <1>2 DEF MutexStep, LedgerStep, Locked
<1>6. SaverOK(x)' /\ CopyFresh(x)'
  BY <1>1, <1>2 DEF SaverOK, CopyFresh, At, Locked, Removed
<1>7. CreditsNothing(x)
  BY <1>2, <1>3 DEF CreditsNothing
<1> QED
  BY <1>2, <1>4, <1>5, <1>6, <1>7 DEF SaverStep

LEMMA EntryStep ==
  ASSUME SavingInv, NEW x \in Savers, CreateEntry(x)
  PROVE  SaverStep(x)
<1>1. /\ SavingTypeOK /\ TypeOK /\ SaverOK(x) /\ CopyFresh(x) /\ saver[x] \in Saver
      /\ ledger \subseteq Savers
  BY SavingParts
<1>2. saver[x].pc = "entry" /\ UNCHANGED <<stocks, issued, log, req, assets, coined, editor>>
  BY DEF CreateEntry
<1>3. CASE /\ Succeeds(x) /\ Step(x, "asset") /\ UNCHANGED mutex
           /\ ledger' = ledger \cup {x}
  <2>1. /\ OthersSame(x) /\ saver'[x].pc = "asset" /\ saver'[x].link = saver[x].link
        /\ saver'[x].kind = saver[x].kind
        /\ saver'[x].amount = saver[x].amount /\ saver'[x].credited = saver[x].credited
    BY <1>1, <1>3, Stepped DEF Busy
  <2>2. TablesStep
    <3>1. log' \subseteq LogEntry
      BY <1>1, <1>2 DEF TypeOK
    <3> QED
      BY <1>1, <1>2, <1>3, <3>1, QuietTables DEF Succeeds
  <2>3. MutexStep(x)
    BY <1>2, <1>3, <2>1 DEF MutexStep, Locked
  <2>4. LedgerStep(x) /\ x \in ledger'
    BY <1>1, <1>3 DEF LedgerStep, Saver
  <2>5. SaverOK(x)' /\ CopyFresh(x)'
    BY <1>1, <1>2, <2>1, <2>4 DEF SaverOK, CopyFresh, At, Locked, Removed
  <2>6. CreditsNothing(x)
    BY <1>2, <2>1 DEF CreditsNothing
  <2> QED
    BY <2>1, <2>2, <2>3, <2>4, <2>5, <2>6 DEF SaverStep
<1>4. CASE Fails(x) /\ Return(x, "error") /\ UNCHANGED ledger
  BY <1>2, <1>4, ReturnStep DEF Fails
<1> QED
  BY <1>3, <1>4 DEF CreateEntry

LEMMA RollbackStep ==
  ASSUME SavingInv, NEW x \in Savers, Rollback(x)
  PROVE  SaverStep(x)
<1>1. saver[x].pc = "rollback" /\ UNCHANGED <<stocks, issued, log, req, assets, coined, editor>>
  BY DEF Rollback
<1>2. CASE /\ Succeeds(x) /\ Return(x, "error")
           /\ ledger' = ledger \ {x}
  BY <1>1, <1>2, ReturnStep DEF Succeeds
<1>3. CASE Fails(x) /\ Return(x, "orphan") /\ UNCHANGED ledger
  BY <1>1, <1>3, ReturnStep DEF Fails
<1> QED
  BY <1>2, <1>3 DEF Rollback

\* A saving that cannot credit its asset goes on to roll back.
LEMMA FailStep ==
  ASSUME SavingInv, NEW x \in Savers, AssetFails(x), saver[x].pc \in {"asset", "write"},
         Ok \/ Fault, UNCHANGED <<req, editor>>
  PROVE  SaverStep(x)
<1>1. /\ SavingTypeOK /\ TypeOK /\ SaverOK(x) /\ CopyFresh(x) /\ saver[x] \in Saver
      /\ ledger \subseteq Savers
  BY SavingParts
<1>2. Step(x, "rollback") /\ UNCHANGED <<stocks, issued, log, mutex, ledger, assets, coined>>
  BY DEF AssetFails
<1>3. /\ OthersSame(x) /\ saver'[x].pc = "rollback" /\ saver'[x].link = saver[x].link
      /\ saver'[x].amount = saver[x].amount /\ saver'[x].credited = saver[x].credited
  BY <1>1, <1>2, Stepped DEF Busy
<1>4. TablesStep
  <2>1. log' \subseteq LogEntry
    BY <1>1, <1>2 DEF TypeOK
  <2> QED
    BY <1>1, <1>2, <2>1, QuietTables
<1>5. MutexStep(x) /\ LedgerStep(x)
  BY <1>1, <1>2, <1>3 DEF MutexStep, LedgerStep, Locked
<1>6. SaverOK(x)' /\ CopyFresh(x)'
  BY <1>1, <1>2, <1>3 DEF SaverOK, CopyFresh, At, Locked, Removed
<1>7. CreditsNothing(x)
  BY <1>2, <1>3 DEF CreditsNothing
<1> QED
  BY <1>3, <1>4, <1>5, <1>6, <1>7 DEF SaverStep

LEMMA DisconnectStep ==
  ASSUME SavingInv, NEW x \in Savers, Disconnect(x)
  PROVE  SaverStep(x)
<1>1. /\ SavingTypeOK /\ TypeOK /\ SaverOK(x) /\ CopyFresh(x) /\ saver[x] \in Saver
      /\ ledger \subseteq Savers
  BY SavingParts
<1>2. /\ saver[x].pc \in Busy /\ Fault /\ saver' = [saver EXCEPT ![x].gone = TRUE]
      /\ UNCHANGED <<stocks, issued, log, req, mutex, ledger, assets, coined, editor>>
  BY DEF Disconnect
<1>3. PICK v : v = [saver[x] EXCEPT !.gone = TRUE]
  OBVIOUS
<1>4. /\ v \in Saver /\ v.pc = saver[x].pc /\ v.kind = saver[x].kind /\ v.link = saver[x].link
      /\ v.amount = saver[x].amount /\ v.row = saver[x].row /\ v.value = saver[x].value
      /\ v.credited = saver[x].credited
  BY <1>1, <1>3 DEF Saver
<1>5. saver' = [saver EXCEPT ![x] = v]
  BY <1>1, <1>2, <1>3 DEF SavingTypeOK
<1>6. saver'[x] = v /\ OthersSame(x)
  BY <1>1, <1>4, <1>5, SetSaver
<1>7. TablesStep
  <2>1. log' \subseteq LogEntry
    BY <1>1, <1>2 DEF TypeOK
  <2> QED
    BY <1>1, <1>2, <2>1, QuietTables
<1>8. MutexStep(x) /\ LedgerStep(x)
  BY <1>1, <1>2, <1>4, <1>6 DEF MutexStep, LedgerStep
<1>9. SaverOK(x)'
  BY <1>1, <1>2, <1>4, <1>6 DEF SaverOK, Removed
<1>10. CopyFresh(x)'
  BY <1>1, <1>2, <1>4, <1>6 DEF CopyFresh, At, Untouched, Unasked
<1>11. CreditsNothing(x)
  BY <1>2, <1>4, <1>6 DEF CreditsNothing
<1>12. saver'[x].pc # "idle"
  BY <1>2, <1>4, <1>6 DEF Busy
<1> QED
  BY <1>6, <1>7, <1>8, <1>9, <1>10, <1>11, <1>12 DEF SaverStep

LEMMA QuantityPositive ==
  ASSUME NEW q \in Quantities
  PROVE  q \in Nat /\ q > 0
BY HoldingsAssumption

LEMMA StockReadStep ==
  ASSUME SavingInv, NEW x \in Savers, AddToStockRead(x)
  PROVE  SaverStep(x)
<1>1. /\ SavingTypeOK /\ TypeOK /\ SaverOK(x) /\ CopyFresh(x) /\ saver[x] \in Saver
      /\ ledger \subseteq Savers
  BY SavingParts
<1>2. PICK s : s = saver[x].link
  OBVIOUS
<1>3. /\ saver[x].kind = "stock" /\ saver[x].pc = "asset" /\ s # New
      /\ UNCHANGED <<req, editor>>
  BY <1>2 DEF AddToStockRead, At
<1>4. CASE (Ok \/ Fault) /\ AssetFails(x)
  BY <1>3, <1>4, FailStep
<1>5. CASE /\ Succeeds(x) /\ s \in DOMAIN stocks
           /\ saver' = [saver EXCEPT ![x].pc = "write",
                          ![x].row = AddLot(stocks[s], saver[x].amount, x)]
           /\ UNCHANGED <<stocks, issued, log, mutex, ledger, assets, coined>>
  <2>1. PICK row : row = AddLot(stocks[s], saver[x].amount, x)
    OBVIOUS
  <2>2. stocks[s] \in Row /\ s \in issued /\ saver[x].amount \in Quantities /\ x \in Lots
    BY <1>1, <1>3, <1>5, SavingAssumption DEF TypeOK, SaverOK, Locked
  <2>3. saver[x].amount \in Nat /\ saver[x].amount > 0
    BY <2>2, QuantityPositive
  <2>4. /\ row \in Row /\ row.quantity = stocks[s].quantity + saver[x].amount
        /\ row.quantity > 0
    <3>1. PICK old, n : old = stocks[s] /\ n = saver[x].amount
      OBVIOUS
    <3>2. old \in Row /\ n \in Nat /\ n > 0 /\ row = AddLot(old, n, x)
      BY <2>1, <2>2, <2>3, <3>1
    <3>3. row \in Row /\ row.quantity = old.quantity + n /\ old.quantity \in Nat
      <4>1. old.quantity \in Nat /\ old.avg \in SUBSET Lots
        BY <3>2 DEF Row
      <4>2. PICK m, avg : m = old.quantity + n /\ avg = old.avg \cup {x}
        OBVIOUS
      <4>3. m \in Nat /\ avg \in SUBSET Lots
        BY <2>2, <3>2, <4>1, <4>2
      <4>4. row = [old EXCEPT !.quantity = m, !.avg = avg]
        BY <3>2, <4>2 DEF AddLot
      <4>5. row \in Row /\ row.quantity = m
        BY <3>2, <4>3, <4>4 DEF Row
      <4> QED
        BY <4>1, <4>2, <4>5
    <3>4. row.quantity > 0
      BY <3>2, <3>3
    <3> QED
      BY <3>1, <3>3, <3>4
  <2>5. PICK v : v = [saver[x] EXCEPT !.pc = "write", !.row = row]
    OBVIOUS
  <2>6. /\ v \in Saver /\ v.pc = "write" /\ v.kind = "stock" /\ v.link = s
        /\ v.amount = saver[x].amount /\ v.row = row /\ v.credited = saver[x].credited
    BY <1>1, <1>2, <1>3, <2>4, <2>5 DEF Saver, Busy
  <2>7. saver' = [saver EXCEPT ![x] = v]
    BY <1>1, <1>5, <2>1, <2>5 DEF SavingTypeOK
  <2>8. saver'[x] = v /\ OthersSame(x)
    BY <1>1, <2>6, <2>7, SetSaver
  <2>9. TablesStep
    <3>1. log' \subseteq LogEntry
      BY <1>1, <1>5 DEF TypeOK
    <3> QED
      BY <1>1, <1>3, <1>5, <3>1, QuietTables DEF Succeeds
  <2>10. MutexStep(x) /\ LedgerStep(x)
    BY <1>1, <1>3, <1>5, <2>6, <2>8 DEF MutexStep, LedgerStep, Locked
  <2>11. SaverOK(x)'
    <3>1. /\ saver'[x].pc = "write" /\ saver'[x].kind = "stock" /\ saver'[x].link = s
          /\ saver'[x].amount \in Quantities /\ saver'[x].row.quantity > 0
          /\ saver'[x].credited = saver[x].credited
      BY <2>2, <2>4, <2>6, <2>8
    <3>2. /\ issued' = issued /\ ledger' = ledger /\ Removed' = Removed
          /\ x \in ledger \cup Removed /\ (x \in ledger => x \notin Removed)
          /\ ~saver[x].credited
      BY <1>1, <1>3, <1>5 DEF SaverOK, Removed
    <3> QED
      BY <2>2, <3>1, <3>2 DEF SaverOK, Locked
  <2>12. CopyFresh(x)'
    BY <1>5, <2>4, <2>6, <2>8 DEF CopyFresh, At
  <2>13. CreditsNothing(x)
    BY <1>2, <1>5, <2>6, <2>8 DEF CreditsNothing
  <2> QED
    BY <2>6, <2>8, <2>9, <2>10, <2>11, <2>12, <2>13 DEF SaverStep
<1> QED
  BY <1>2, <1>4, <1>5 DEF AddToStockRead

LEMMA AssetReadStep ==
  ASSUME SavingInv, NEW x \in Savers, AddToAssetRead(x)
  PROVE  SaverStep(x)
<1>1. /\ SavingTypeOK /\ TypeOK /\ SaverOK(x) /\ CopyFresh(x) /\ saver[x] \in Saver
      /\ ledger \subseteq Savers
  BY SavingParts
<1>2. PICK a : a = saver[x].link
  OBVIOUS
<1>3. /\ saver[x].kind = "other" /\ saver[x].pc = "asset" /\ a # New
      /\ UNCHANGED <<req, editor>>
  BY <1>2 DEF AddToAssetRead, At
<1>4. CASE (Ok \/ Fails(x)) /\ AssetFails(x)
  BY <1>3, <1>4, FailStep DEF Fails
<1>5. CASE /\ Succeeds(x) /\ a \in DOMAIN assets
           /\ saver' = [saver EXCEPT ![x].pc = "write",
                                     ![x].value = assets[a] + saver[x].amount]
           /\ UNCHANGED <<stocks, issued, log, mutex, ledger, assets, coined>>
  <2>1. assets[a] \in Nat /\ a \in coined /\ saver[x].amount \in Nat
    BY <1>1, <1>5 DEF SavingTypeOK, Saver
  <2>2. PICK v : v = [saver[x] EXCEPT !.pc = "write", !.value = assets[a] + saver[x].amount]
    OBVIOUS
  <2>3. /\ v \in Saver /\ v.pc = "write" /\ v.kind = "other" /\ v.link = a
        /\ v.amount = saver[x].amount /\ v.credited = saver[x].credited
        /\ v.value = assets[a] + saver[x].amount
    <3>1. PICK w : w = assets[a] + saver[x].amount
      OBVIOUS
    <3>2. w \in Nat
      BY <2>1, <3>1
    <3>3. v = [saver[x] EXCEPT !.pc = "write", !.value = w]
      BY <2>2, <3>1
    <3>4. /\ v \in Saver /\ v.pc = "write" /\ v.kind = "other" /\ v.link = a
          /\ v.amount = saver[x].amount /\ v.credited = saver[x].credited /\ v.value = w
      BY <1>1, <1>2, <1>3, <3>2, <3>3 DEF Saver, Busy
    <3> QED
      BY <3>1, <3>4
  <2>4. saver' = [saver EXCEPT ![x] = v]
    BY <1>1, <1>5, <2>2 DEF SavingTypeOK
  <2>5. saver'[x] = v /\ OthersSame(x)
    BY <1>1, <2>3, <2>4, SetSaver
  <2>6. TablesStep
    <3>1. log' \subseteq LogEntry
      BY <1>1, <1>5 DEF TypeOK
    <3> QED
      BY <1>1, <1>3, <1>5, <3>1, QuietTables DEF Succeeds
  <2>7. MutexStep(x) /\ LedgerStep(x)
    BY <1>1, <1>3, <1>5, <2>3, <2>5 DEF MutexStep, LedgerStep, Locked
  <2>8. SaverOK(x)'
    <3>1. /\ saver'[x].pc = "write" /\ saver'[x].kind = "other" /\ saver'[x].link = a
          /\ saver'[x].amount \in Quantities
          /\ saver'[x].credited = saver[x].credited
      BY <1>1, <1>3, <2>3, <2>5 DEF SaverOK, Locked
    <3>2. /\ coined' = coined /\ ledger' = ledger /\ Removed' = Removed
          /\ x \in ledger \cup Removed /\ (x \in ledger => x \notin Removed)
          /\ ~saver[x].credited
      BY <1>1, <1>3, <1>5 DEF SaverOK, Removed
    <3> QED
      BY <2>1, <3>1, <3>2 DEF SaverOK, Locked
  <2>9. CopyFresh(x)'
    BY <1>5, <2>3, <2>5 DEF CopyFresh, At
  <2>10. CreditsNothing(x)
    BY <1>2, <1>5, <2>3, <2>5 DEF CreditsNothing
  <2> QED
    BY <2>3, <2>5, <2>6, <2>7, <2>8, <2>9, <2>10 DEF SaverStep
<1> QED
  BY <1>2, <1>4, <1>5 DEF AddToAssetRead

\* A saving that has written its holding.
LEMMA StockWriteStep ==
  ASSUME SavingInv, NEW x \in Savers, AddToStockWrite(x)
  PROVE  SaverStep(x)
<1>1. /\ SavingTypeOK /\ TypeOK /\ SaverOK(x) /\ CopyFresh(x) /\ saver[x] \in Saver
      /\ ledger \subseteq Savers
  BY SavingParts
<1>2. PICK s : s = saver[x].link
  OBVIOUS
<1>3. /\ At(x, "stock", "write") /\ UNCHANGED <<req, editor>>
      /\ saver[x].kind = "stock" /\ saver[x].pc = "write"
  BY DEF AddToStockWrite, At
<1>4. CASE (Ok \/ Fails(x)) /\ AssetFails(x)
  BY <1>3, <1>4, FailStep DEF Fails
<1>5. CASE /\ Succeeds(x) /\ Update(s, saver[x].row)
           /\ saver' = [saver EXCEPT ![x].pc = "log", ![x].credited = TRUE]
           /\ UNCHANGED <<issued, log, mutex, ledger, assets, coined>>
  <2>1. saver[x].row \in Row /\ saver[x].row.quantity > 0 /\ s \in issued
    BY <1>1, <1>2, <1>3 DEF SaverOK, Saver
  <2>2. ~saver[x].credited
    BY <1>1, <1>3 DEF SaverOK
  <2>3. PICK v : v = [saver[x] EXCEPT !.pc = "log", !.credited = TRUE]
    OBVIOUS
  <2>4. /\ v \in Saver /\ v.pc = "log" /\ v.kind = "stock" /\ v.link = s
        /\ v.amount = saver[x].amount /\ v.credited
    BY <1>1, <1>2, <1>3, <2>3 DEF Saver, Busy
  <2>5. saver' = [saver EXCEPT ![x] = v]
    BY <1>1, <1>5, <2>3 DEF SavingTypeOK
  <2>6. saver'[x] = v /\ OthersSame(x)
    BY <1>1, <2>4, <2>5, SetSaver
  <2>7. TablesStep
    <3>1. TablesOK' /\ LocalsOK' /\ log' \subseteq LogEntry
      BY <1>1, <1>3, <1>5, <2>1, TypeOKParts, UpdateOK DEF LocalsOK, LocalOK
    <3>2. TypeOK'
      BY <1>1, <1>5, <3>1, TypeOKParts, TypeOKNext, FaultsOK DEF Succeeds
    <3> QED
      BY <1>1, <1>3, <1>5, <3>2 DEF TablesStep, SavingTypeOK
  <2>8. MutexStep(x) /\ LedgerStep(x)
    BY <1>1, <1>3, <1>5, <2>4, <2>6 DEF MutexStep, LedgerStep, Locked
  <2>9. SaverOK(x)' /\ CopyFresh(x)'
    BY <1>1, <1>3, <1>5, <2>1, <2>4, <2>6 DEF SaverOK, CopyFresh, At, Locked, Removed
  <2>10. /\ s \in DOMAIN stocks /\ DOMAIN stocks' = DOMAIN stocks
         /\ stocks'[s].quantity = saver[x].row.quantity
         /\ \A t \in DOMAIN stocks : t # s => stocks'[t] = stocks[t]
    <3>1. PICK new : new = [saver[x].row EXCEPT !.user = stocks[s].user]
      OBVIOUS
    <3>2. new.quantity = saver[x].row.quantity
      BY <2>1, <3>1 DEF Row
    <3>3. s \in DOMAIN stocks /\ stocks' = [stocks EXCEPT ![s] = new]
      BY <1>5, <3>1 DEF Update
    <3> QED
      BY <1>1, <3>2, <3>3 DEF TypeOK
  <2>11. Unasked(s) => saver[x].row.quantity = stocks[s].quantity + saver[x].amount
    BY <1>1, <1>2, <1>3, <2>10 DEF CopyFresh
  <2>12. s \in Stocks
    BY <1>1, <2>1 DEF TypeOK
  <2>13. CreditsStock(x)
    BY <1>3, <1>5, <2>2, <2>4, <2>6, <2>10, <2>11, <2>12 DEF CreditsStock, Locked
  <2> QED
    BY <2>4, <2>6, <2>7, <2>8, <2>9, <2>13 DEF SaverStep
<1> QED
  BY <1>2, <1>4, <1>5 DEF AddToStockWrite

LEMMA NewStockStep ==
  ASSUME SavingInv, NEW x \in Savers, CreateSavedStock(x)
  PROVE  SaverStep(x)
<1>1. /\ SavingTypeOK /\ TypeOK /\ SaverOK(x) /\ CopyFresh(x) /\ saver[x] \in Saver
      /\ ledger \subseteq Savers
  BY SavingParts
<1>2. /\ UNCHANGED <<req, editor>> /\ saver[x].kind = "stock" /\ saver[x].pc = "asset"
  BY DEF CreateSavedStock, At
<1>3. CASE (Ok \/ Fault) /\ AssetFails(x)
  BY <1>2, <1>3, FailStep
<1>4. ASSUME NEW s \in Stocks, NEW row, Succeeds(x),
             row = [user |-> saver[x].user, quantity |-> saver[x].amount,
                    avg |-> {x}, krw |-> {}],
             Insert(s, row),
             saver' = [saver EXCEPT ![x].pc = "log", ![x].link = s,
                                    ![x].row = row, ![x].credited = TRUE],
             UNCHANGED <<log, mutex, ledger, assets, coined>>
      PROVE  SaverStep(x)
  <2>1. saver[x].amount \in Quantities /\ saver[x].user \in Users /\ x \in Lots
    BY <1>1, <1>2, SavingAssumption DEF SaverOK, Saver, Locked
  <2>2. saver[x].amount \in Nat /\ saver[x].amount > 0
    BY <2>1, QuantityPositive
  <2>3. row \in Row /\ row.quantity = saver[x].amount /\ row.quantity > 0
    BY <1>4, <2>1, <2>2 DEF Row
  <2>4. ~saver[x].credited
    BY <1>1, <1>2 DEF SaverOK
  <2>5. PICK v : v = [saver[x] EXCEPT !.pc = "log", !.link = s, !.row = row, !.credited = TRUE]
    OBVIOUS
  <2>6. /\ v \in Saver /\ v.pc = "log" /\ v.kind = "stock" /\ v.link = s
        /\ v.amount = saver[x].amount /\ v.credited
    BY <1>1, <1>2, <2>3, <2>5 DEF Saver, Busy, Links
  <2>7. saver' = [saver EXCEPT ![x] = v]
    BY <1>1, <1>4, <2>5 DEF SavingTypeOK
  <2>8. saver'[x] = v /\ OthersSame(x)
    BY <1>1, <2>6, <2>7, SetSaver
  <2>9. TablesStep
    <3>1. TablesOK' /\ LocalsOK' /\ log' \subseteq LogEntry
      BY <1>1, <1>2, <1>4, <2>3, TypeOKParts, InsertOK DEF LocalsOK, LocalOK
    <3>2. TypeOK'
      BY <1>1, <1>4, <3>1, TypeOKParts, TypeOKNext, FaultsOK DEF Succeeds
    <3> QED
      BY <1>1, <1>2, <1>4, <3>2 DEF TablesStep, SavingTypeOK, Insert
  <2>10. MutexStep(x) /\ LedgerStep(x)
    BY <1>1, <1>2, <1>4, <2>6, <2>8 DEF MutexStep, LedgerStep, Locked
  <2>11. SaverOK(x)' /\ CopyFresh(x)'
    BY <1>1, <1>2, <1>4, <2>1, <2>6, <2>8 DEF SaverOK, CopyFresh, At, Locked, Removed, Insert
  <2>12. /\ s \notin issued /\ stocks'[s].quantity = saver[x].amount
         /\ \A t \in DOMAIN stocks' :
              t # s => t \in DOMAIN stocks /\ stocks'[t].quantity = stocks[t].quantity
    BY <1>4, <2>3 DEF Insert
  <2>13. CreditsStock(x)
    BY <1>2, <1>4, <2>4, <2>6, <2>8, <2>12 DEF CreditsStock, Locked
  <2> QED
    BY <2>6, <2>8, <2>9, <2>10, <2>11, <2>13 DEF SaverStep
<1> QED
  BY <1>3, <1>4 DEF CreateSavedStock

LEMMA LogStepOfSaving ==
  ASSUME SavingInv, NEW x \in Savers, LogSaving(x)
  PROVE  SaverStep(x)
<1>1. /\ SavingTypeOK /\ TypeOK /\ SaverOK(x) /\ CopyFresh(x) /\ saver[x] \in Saver
      /\ ledger \subseteq Savers
      /\ (saver[x].pc \in Locked <=> mutex = x)
  BY SavingParts
<1>2. /\ saver[x].pc = "log" /\ Succeed(x, saver[x].link)
      /\ UNCHANGED <<stocks, issued, ledger, req, assets, coined, editor>>
  BY DEF LogSaving, At
<1>3. saver[x].link \in Links /\ saver[x].link \in issued /\ saver[x].credited /\ mutex = x
      /\ x \in ledger \cup Removed /\ (x \in ledger => x \notin Removed)
  BY <1>1, <1>2 DEF SaverOK, Saver, Locked
<1>4. /\ OthersSame(x) /\ mutex' = Nobody
      /\ saver'[x].pc = "ok" /\ saver'[x].credited = TRUE
      /\ saver'[x].link = saver[x].link /\ saver'[x].amount = saver[x].amount
  BY <1>1, <1>2, <1>3, SucceededSaver
<1>5. TablesStep
  <2>1. log' \subseteq LogEntry /\ (Ok \/ Fault)
    <3>1. [req |-> x, stock |-> saver[x].link, type |-> "buy",
           quantity |-> saver[x].amount, user |-> saver[x].user,
           exact |-> saver[x].row.krw = saver[x].row.avg] \in LogEntry
      BY <1>1, <1>3, SavingAssumption DEF LogEntry, Saver, TypeOK
    <3>2. log \subseteq LogEntry
      BY <1>1 DEF TypeOK
    <3> QED
      BY <3>1, <3>2 DEF LogSaving, Append, Succeeds, Fails
  <2> QED
    BY <1>1, <1>2, <2>1, QuietTables
<1>6. MutexStep(x) /\ LedgerStep(x)
  BY <1>1, <1>2, <1>3, <1>4 DEF MutexStep, LedgerStep, Locked
<1>7. SaverOK(x)' /\ CopyFresh(x)'
  BY <1>1, <1>2, <1>3, <1>4 DEF SaverOK, CopyFresh, At, Locked, Removed
<1>8. CreditsNothing(x)
  BY <1>2, <1>3, <1>4 DEF CreditsNothing, Saver
<1> QED
  BY <1>4, <1>5, <1>6, <1>7, <1>8 DEF SaverStep

\* A saving that has credited another asset, one there or a new one.
LEMMA AssetCredited ==
  ASSUME SavingInv, NEW x \in Savers, NEW a \in Assets, Succeed(x, a), Succeeds(x),
         saver[x].kind = "other", saver[x].pc \in {"asset", "write"},
         UNCHANGED <<stocks, issued, log, ledger, req, editor>>,
         coined \subseteq coined', coined' \subseteq Assets, a \in coined',
         DOMAIN assets' = DOMAIN assets \cup {a},
         \A b \in DOMAIN assets : b # a => assets'[b] = assets[b],
         assets'[a] \in Nat,
         \/ a \in DOMAIN assets /\ (Untouched(a) => assets'[a] = assets[a] + saver[x].amount)
         \/ a \notin coined /\ assets'[a] = saver[x].amount
  PROVE  SaverStep(x)
<1>1. /\ SavingTypeOK /\ TypeOK /\ SaverOK(x) /\ CopyFresh(x) /\ saver[x] \in Saver
      /\ ledger \subseteq Savers
      /\ (saver[x].pc \in Locked <=> mutex = x)
  BY SavingParts
<1>2. /\ a \in Links /\ mutex = x /\ ~saver[x].credited
      /\ x \in ledger \cup Removed /\ (x \in ledger => x \notin Removed)
  BY <1>1 DEF Links, Locked, SaverOK
<1>3. /\ OthersSame(x) /\ mutex' = Nobody
      /\ saver'[x].pc = "ok" /\ saver'[x].credited = TRUE
      /\ saver'[x].link = a /\ saver'[x].amount = saver[x].amount
  BY <1>1, <1>2, SucceededSaver
<1>4. TablesStep
  <2>1. TablesOK' /\ LocalsOK' /\ log' \subseteq LogEntry
    BY <1>1, TypeOKParts DEF TablesOK, LocalsOK, LocalOK
  <2>2. TypeOK'
    BY <1>1, <2>1, TypeOKParts, TypeOKNext, FaultsOK DEF Succeeds
  <2>3. DOMAIN assets' \subseteq coined' /\ \A b \in DOMAIN assets' : assets'[b] \in Nat
    BY <1>1 DEF SavingTypeOK
  <2> QED
    BY <2>2, <2>3 DEF TablesStep
<1>5. MutexStep(x) /\ LedgerStep(x)
  BY <1>1, <1>2, <1>3 DEF MutexStep, LedgerStep, Locked
<1>6. SaverOK(x)' /\ CopyFresh(x)'
  BY <1>2, <1>3 DEF SaverOK, CopyFresh, At, Locked, Removed
<1>7. CreditsAsset(x)
  BY <1>2, <1>3 DEF CreditsAsset, Locked
<1> QED
  BY <1>3, <1>4, <1>5, <1>6, <1>7 DEF SaverStep

LEMMA AssetWriteStep ==
  ASSUME SavingInv, NEW x \in Savers, AddToAssetWrite(x)
  PROVE  SaverStep(x)
<1>1. /\ SavingTypeOK /\ SaverOK(x) /\ CopyFresh(x) /\ saver[x] \in Saver
  BY SavingParts
<1>2. PICK a : a = saver[x].link
  OBVIOUS
<1>3. /\ At(x, "other", "write") /\ UNCHANGED <<req, editor>>
      /\ saver[x].kind = "other" /\ saver[x].pc = "write"
  BY DEF AddToAssetWrite, At
<1>4. CASE (Ok \/ Fails(x)) /\ AssetFails(x)
  BY <1>3, <1>4, FailStep DEF Fails
<1>5. CASE /\ Succeeds(x) /\ a \in DOMAIN assets
           /\ assets' = [assets EXCEPT ![a] = saver[x].value]
           /\ Succeed(x, a)
           /\ UNCHANGED <<stocks, issued, log, ledger, coined>>
  <2>1. a \in Assets /\ a \in coined /\ coined \subseteq Assets
    BY <1>1, <1>5 DEF SavingTypeOK
  <2>2. /\ DOMAIN assets' = DOMAIN assets \cup {a}
        /\ \A b \in DOMAIN assets : b # a => assets'[b] = assets[b]
        /\ assets'[a] = saver[x].value /\ saver[x].value \in Nat
    BY <1>1, <1>5 DEF Saver
  <2>3. Untouched(a) => saver[x].value = assets[a] + saver[x].amount
    BY <1>1, <1>2, <1>3, <1>5 DEF CopyFresh
  <2> QED
    BY <1>3, <1>5, <2>1, <2>2, <2>3, AssetCredited
<1> QED
  BY <1>2, <1>4, <1>5 DEF AddToAssetWrite

LEMMA NewAssetStep ==
  ASSUME SavingInv, NEW x \in Savers, CreateSavedAsset(x)
  PROVE  SaverStep(x)
<1>1. /\ SavingTypeOK /\ saver[x] \in Saver
  BY SavingParts
<1>2. /\ UNCHANGED <<req, editor>> /\ saver[x].kind = "other" /\ saver[x].pc = "asset"
  BY DEF CreateSavedAsset, At
<1>3. CASE Fails(x) /\ AssetFails(x)
  BY <1>2, <1>3, FailStep DEF Fails
<1>4. CASE /\ Succeeds(x) /\ Assets \ coined # {}
           /\ coined' = coined \cup {NextAsset}
           /\ assets' = [a \in DOMAIN assets \cup {NextAsset} |->
                           IF a = NextAsset THEN saver[x].amount ELSE assets[a]]
           /\ Succeed(x, NextAsset)
           /\ UNCHANGED <<stocks, issued, log, ledger>>
  <2>1. PICK a : a = NextAsset
    OBVIOUS
  <2>2. a \in Assets /\ a \notin coined
    BY <1>4, <2>1 DEF NextAsset
  <2>3. coined \subseteq coined' /\ coined' \subseteq Assets /\ a \in coined'
    BY <1>1, <1>4, <2>1, <2>2 DEF SavingTypeOK
  <2>4. /\ DOMAIN assets' = DOMAIN assets \cup {a}
        /\ \A b \in DOMAIN assets : b # a => assets'[b] = assets[b]
        /\ assets'[a] = saver[x].amount /\ saver[x].amount \in Nat
    BY <1>1, <1>4, <2>1 DEF Saver
  <2>5. Succeed(x, a)
    BY <1>4, <2>1
  <2> QED
    BY <1>2, <1>4, <2>2, <2>3, <2>4, <2>5, AssetCredited
<1> QED
  BY <1>3, <1>4 DEF CreateSavedAsset

LEMMA RejectStep ==
  ASSUME SavingInv, NEW x \in Savers, RejectKind(x)
  PROVE  SaverStep(x)
BY FailStep DEF RejectKind, At

LEMMA SaverSteps ==
  ASSUME SavingInv, NEW x \in Savers, Send(x) \/ Lock(x) \/ Apply(x) \/ Disconnect(x)
  PROVE  SaverStep(x)
BY SendStep, LockStep, EntryStep, StockReadStep, StockWriteStep, NewStockStep,
   LogStepOfSaving, AssetReadStep, AssetWriteStep, NewAssetStep, RejectStep,
   RollbackStep, DisconnectStep
DEF Apply

----------------------------------------------------------------------------
(* What savings have credited in all.                                      *)

Amounts == [x \in Savers |-> saver[x].amount]

LEMMA CreditorsFinite ==
  ASSUME SavingInv, NEW t
  PROVE  /\ IsFiniteSet(Creditors(t)) /\ Creditors(t) \subseteq Savers
         /\ \A x \in Savers : Amounts[x] = saver[x].amount /\ Amounts[x] \in Int
         /\ Credited(t) = SumOf(Amounts, Creditors(t)) /\ Credited(t) \in Int
<1>1. Creditors(t) \subseteq Sent /\ Creditors(t) \subseteq Savers
  BY DEF SavingInv, SaverOK, Creditors, Sent
<1>2. IsFiniteSet(Creditors(t))
  BY <1>1, FS_Subset DEF SavingInv
<1>3. \A x \in Savers : Amounts[x] = saver[x].amount /\ Amounts[x] \in Int
  BY DEF Amounts, SavingInv, SavingTypeOK, Saver
<1>4. Credited(t) = SumOf(Amounts, Creditors(t))
  BY DEF Credited, Amounts
<1>5. SumOf(Amounts, Creditors(t)) \in Int
  <2>1. \A x \in Creditors(t) : Amounts[x] \in Int
    BY <1>1, <1>3
  <2> QED
    BY <1>2, <2>1, SumInt
<1> QED
  BY <1>1, <1>2, <1>3, <1>4, <1>5

\* Nobody credits what has no identifier yet.
LEMMA NoCredit ==
  ASSUME SavingInv, NEW t, t \notin issued \cup coined
  PROVE  Credited(t) = 0
<1>1. Creditors(t) = {}
  BY DEF SavingInv, SaverOK, Creditors
<1> QED
  BY <1>1, SumEmpty DEF Credited

\* By how much a step of saving x raises what is credited to t.
Raise(x, t) ==
  IF ~saver[x].credited /\ saver'[x].credited /\ saver'[x].link = t
  THEN saver'[x].amount ELSE 0

CreditRaised(x, t) ==
  /\ Credited(t) \in Int
  /\ Credited(t)' = Credited(t) + Raise(x, t)

LEMMA CreditStep ==
  ASSUME SavingInv, NEW x \in Savers, SaverStep(x), NEW t
  PROVE  CreditRaised(x, t)
<1>1. PICK f, e, A, B : f = Amounts /\ e = Amounts' /\ A = Creditors(t) /\ B = Creditors(t)'
  OBVIOUS
<1>2. /\ IsFiniteSet(A) /\ A \subseteq Savers /\ Credited(t) = SumOf(f, A) /\ Credited(t) \in Int
      /\ \A y \in Savers : f[y] = saver[y].amount /\ f[y] \in Int
  BY <1>1, CreditorsFinite
<1>3. /\ B \subseteq Savers /\ Credited(t)' = SumOf(e, B)
      /\ \A y \in Savers : e[y] = saver'[y].amount /\ e[y] \in Int
  BY <1>1 DEF Creditors, Credited, Amounts, SaverStep, OthersSame, Saver
<1>4. \A y \in Savers : y # x => saver'[y] = saver[y]
  BY DEF SaverStep, OthersSame
<1>5. A \ {x} = B \ {x}
  BY <1>1, <1>4 DEF Creditors
<1>6. \A y \in A \ {x} : e[y] = f[y]
  BY <1>2, <1>3, <1>4
<1>7. \A y \in A : f[y] \in Int
  BY <1>2
<1>8. \A y \in B : e[y] \in Int
  BY <1>3
<1>9. Moved(f, A, e, B, x)
  BY <1>2, <1>5, <1>6, <1>7, <1>8, SumMove
<1>10. PICK p, q : /\ p = (IF x \in A THEN f[x] ELSE 0)
                   /\ q = (IF x \in B THEN e[x] ELSE 0)
  OBVIOUS
<1>11. SumOf(e, B) = SumOf(f, A) - p + q /\ SumOf(f, A) \in Int /\ p \in Int /\ q \in Int
  BY <1>2, <1>3, <1>9, <1>10 DEF Moved
<1>12. q - p = Raise(x, t)
  <2>1. CASE CreditsNothing(x)
    <3>1. /\ x \in A <=> x \in B
          /\ x \in A => e[x] = f[x]
      BY <1>1, <1>2, <1>3, <2>1 DEF CreditsNothing, Creditors
    <3>2. p = q
      BY <1>10, <3>1
    <3>3. Raise(x, t) = 0
      BY <2>1 DEF CreditsNothing, Raise
    <3> QED
      BY <1>11, <3>2, <3>3
  <2>2. CASE ~saver[x].credited /\ saver'[x].credited
    <3>1. p = 0
      BY <1>1, <1>10, <2>2 DEF Creditors
    <3>2. q = Raise(x, t)
      BY <1>1, <1>3, <1>10, <2>2 DEF Creditors, Raise
    <3> QED
      BY <1>11, <3>1, <3>2
  <2> QED
    BY <2>1, <2>2 DEF SaverStep, CreditsStock, CreditsAsset
<1> QED
  BY <1>2, <1>3, <1>11, <1>12 DEF CreditRaised

\* The clauses of SavingsAddUp.
AssetAddsUp(a) == assets[a] = OpeningValue[a] + Credited(a)
StockAddsUp(s) == stocks[s].quantity = OpeningQuantity[s] + Credited(s)

LEMMA AddUpParts ==
  SavingsAddUp <=> /\ \A a \in DOMAIN assets : Untouched(a) => AssetAddsUp(a)
                   /\ \A s \in DOMAIN stocks : Unasked(s) => StockAddsUp(s)
BY DEF SavingsAddUp, Untouched, Unasked, AssetAddsUp, StockAddsUp

LEMMA SaverAssets ==
  ASSUME SavingInv, NEW x \in Savers, SaverStep(x), NEW a \in DOMAIN assets', Untouched(a)'
  PROVE  AssetAddsUp(a)'
<1>1. a \in Assets /\ a \notin Stocks /\ OpeningValue[a] \in Nat /\ Untouched(a)
  BY SavingAssumption DEF SaverStep, TablesStep, Untouched
<1>2. Credited(a)' = Credited(a) + Raise(x, a) /\ Credited(a) \in Int
  BY CreditStep DEF CreditRaised
<1>3. CASE /\ a \in DOMAIN assets /\ assets'[a] = assets[a]
           /\ ~(~saver[x].credited /\ saver'[x].credited /\ saver'[x].link = a)
  <2>1. assets[a] = OpeningValue[a] + Credited(a)
    BY <1>1, <1>3, AddUpParts DEF SavingInv, AssetAddsUp
  <2>2. Raise(x, a) = 0
    BY <1>3 DEF Raise
  <2> QED
    BY <1>1, <1>2, <1>3, <2>1, <2>2 DEF AssetAddsUp
<1>4. CASE CreditsAsset(x) /\ saver'[x].link = a
  <2>1. PICK n : n = saver'[x].amount
    OBVIOUS
  <2>2. Raise(x, a) = n /\ n \in Nat
    BY <1>4, <2>1 DEF Raise, CreditsAsset, SaverStep, OthersSame, Saver
  <2>3. CASE a \in DOMAIN assets /\ assets'[a] = assets[a] + n
    <3>1. assets[a] = OpeningValue[a] + Credited(a)
      BY <1>1, <2>3, AddUpParts DEF SavingInv, AssetAddsUp
    <3> QED
      BY <1>1, <1>2, <2>2, <2>3, <3>1 DEF AssetAddsUp
  <2>4. CASE a \notin coined /\ assets'[a] = n
    <3>1. OpeningValue[a] = 0
      BY <1>1, <2>4 DEF SavingInv
    <3>2. Credited(a) = 0
      <4>1. a \notin issued
        BY <1>1 DEF SavingInv, SavingTypeOK, TypeOK
      <4> QED
        BY <2>4, <4>1, NoCredit
    <3> QED
      BY <1>2, <2>2, <2>4, <3>1, <3>2 DEF AssetAddsUp
  <2> QED
    BY <1>1, <1>4, <2>1, <2>3, <2>4 DEF CreditsAsset
<1>5. CASE CreditsNothing(x)
  BY <1>3, <1>5 DEF CreditsNothing
<1>6. CASE CreditsStock(x)
  BY <1>1, <1>3, <1>6 DEF CreditsStock
<1>7. CASE CreditsAsset(x) /\ saver'[x].link # a
  BY <1>3, <1>7 DEF CreditsAsset
<1> QED
  BY <1>4, <1>5, <1>6, <1>7 DEF SaverStep

LEMMA SaverStocks ==
  ASSUME SavingInv, NEW x \in Savers, SaverStep(x), NEW s \in DOMAIN stocks', Unasked(s)'
  PROVE  StockAddsUp(s)'
<1>1. s \in Stocks /\ s \notin Assets /\ OpeningQuantity[s] \in Nat /\ Unasked(s)
  BY SavingAssumption, HoldingsAssumption DEF SaverStep, TablesStep, Unasked, TypeOK
<1>2. Credited(s)' = Credited(s) + Raise(x, s) /\ Credited(s) \in Int
  BY CreditStep DEF CreditRaised
<1>3. CASE /\ s \in DOMAIN stocks /\ stocks'[s].quantity = stocks[s].quantity
           /\ ~(~saver[x].credited /\ saver'[x].credited /\ saver'[x].link = s)
  <2>1. stocks[s].quantity = OpeningQuantity[s] + Credited(s)
    BY <1>1, <1>3, AddUpParts DEF SavingInv, StockAddsUp
  <2>2. Raise(x, s) = 0
    BY <1>3 DEF Raise
  <2> QED
    BY <1>1, <1>2, <1>3, <2>1, <2>2 DEF StockAddsUp
<1>4. CASE CreditsStock(x) /\ saver'[x].link = s
  <2>1. PICK n : n = saver'[x].amount
    OBVIOUS
  <2>2. Raise(x, s) = n /\ n \in Nat
    BY <1>4, <2>1 DEF Raise, CreditsStock, SaverStep, OthersSame, Saver
  <2>3. CASE s \in DOMAIN stocks /\ stocks'[s].quantity = stocks[s].quantity + n
    <3>1. stocks[s].quantity = OpeningQuantity[s] + Credited(s)
      BY <1>1, <2>3, AddUpParts DEF SavingInv, StockAddsUp
    <3> QED
      BY <1>1, <1>2, <2>2, <2>3, <3>1 DEF StockAddsUp
  <2>4. CASE s \notin issued /\ stocks'[s].quantity = n
    <3>1. OpeningQuantity[s] = 0
      BY <1>1, <2>4 DEF SavingInv
    <3>2. Credited(s) = 0
      <4>1. s \notin coined
        BY <1>1 DEF SavingInv, SavingTypeOK
      <4> QED
        BY <2>4, <4>1, NoCredit
    <3> QED
      BY <1>2, <2>2, <2>4, <3>1, <3>2 DEF StockAddsUp
  <2> QED
    BY <1>1, <1>4, <2>1, <2>3, <2>4 DEF CreditsStock
<1>5. CASE CreditsNothing(x)
  BY <1>3, <1>5 DEF CreditsNothing
<1>6. CASE CreditsAsset(x)
  BY <1>1, <1>3, <1>6 DEF CreditsAsset
<1>7. CASE CreditsStock(x) /\ saver'[x].link # s
  BY <1>3, <1>7 DEF CreditsStock
<1> QED
  BY <1>4, <1>5, <1>6, <1>7 DEF SaverStep

----------------------------------------------------------------------------
(* Every step keeps SavingInv.                                             *)

LEMMA SaverKeeps ==
  ASSUME SavingInv, NEW x \in Savers, SaverStep(x)
  PROVE  SavingInv'
<1>1. /\ OthersSame(x) /\ MutexStep(x) /\ LedgerStep(x) /\ TablesStep
      /\ SavingTypeOK /\ RequestsInv /\ x # Nobody
  BY SavingParts DEF SaverStep, SavingInv
<1>2. SavingTypeOK'
  <2>1. ASSUME NEW y \in Savers PROVE saver'[y].pc \in Busy \ {"lock"} <=> mutex' = y
    <3>1. /\ saver[x].pc \in Locked <=> mutex = x
          /\ saver[y].pc \in Locked <=> mutex = y
          /\ Busy \ {"lock"} = Locked /\ y # Nobody
      BY <1>1, Holder
    <3> QED
      BY <1>1, <3>1 DEF MutexStep, OthersSame
  <2>2. mutex' \in Savers \cup {Nobody}
    BY <1>1 DEF MutexStep, SavingTypeOK
  <2> QED
    BY <1>1, <2>1, <2>2 DEF SavingTypeOK, LedgerStep, TablesStep, OthersSame
<1>3. RequestsInv' /\ EditorsOK'
  BY <1>1 DEF RequestsInv, Begun, TablesStep, SavingInv, EditorsOK
<1>4. IsFiniteSet(Sent')
  <2>1. IsFiniteSet(Sent \cup {x})
    BY FS_AddElement DEF SavingInv
  <2>2. Sent' \subseteq Sent \cup {x}
    BY <1>1 DEF Sent, OthersSame
  <2> QED
    BY <2>1, <2>2, FS_Subset
<1>5. /\ \A a \in Assets \ coined' : OpeningValue[a] = 0
      /\ \A s \in Stocks \ issued' : OpeningQuantity[s] = 0
  BY <1>1 DEF SavingInv, TablesStep
<1>6. ASSUME NEW y \in Savers PROVE SaverOK(y)' /\ CopyFresh(y)'
  <2>1. CASE y = x
    BY <2>1 DEF SaverStep
  <2>2. CASE y # x
    <3>1. SaverOK(y) /\ CopyFresh(y) /\ saver'[y] = saver[y]
      BY <1>1, <2>2 DEF SavingInv, OthersSame
    <3>2. SaverOK(y)'
      BY <1>1, <2>2, <3>1 DEF SaverOK, TablesStep, LedgerStep, Removed
    <3>3. saver[y].pc = "write" => UNCHANGED <<stocks, assets>>
      <4>1. /\ saver[x].pc \in Locked <=> mutex = x
            /\ saver[y].pc \in Locked <=> mutex = y
        BY <1>1, Holder
      <4>2. saver[y].pc = "write" => saver[x].pc \notin Locked
        BY <2>2, <4>1 DEF Locked
      <4> QED
        BY <4>2 DEF SaverStep, CreditsNothing, CreditsStock, CreditsAsset
    <3>4. CopyFresh(y)'
      <4>1. CASE saver[y].pc = "write"
        BY <1>1, <3>1, <3>3, <4>1 DEF CopyFresh, At, Untouched, Unasked, TablesStep
      <4>2. CASE saver[y].pc # "write"
        BY <3>1, <4>2 DEF CopyFresh, At
      <4> QED
        BY <4>1, <4>2
    <3> QED
      BY <3>2, <3>4
  <2> QED
    BY <2>1, <2>2
<1>7. SavingsAddUp'
  <2>1. /\ \A a \in DOMAIN assets' : Untouched(a)' => AssetAddsUp(a)'
        /\ \A s \in DOMAIN stocks' : Unasked(s)' => StockAddsUp(s)'
    BY SaverAssets, SaverStocks
  <2> QED
    BY <2>1 DEF SavingsAddUp, Untouched, Unasked, AssetAddsUp, StockAddsUp
<1> QED
  BY <1>2, <1>3, <1>4, <1>5, <1>6, <1>7 DEF SavingInv

\* A step of somebody else keeps the rows nobody outside the mutex has worked
\* on, now or before, and remembers the entries it deletes.
OutsideStep ==
  /\ UNCHANGED <<mutex, coined>>
  /\ ledger' \subseteq ledger /\ Removed' = Removed \cup (ledger \ ledger')
  /\ issued \subseteq issued'
  /\ DOMAIN assets' \subseteq DOMAIN assets
  /\ \A a \in DOMAIN assets' : assets'[a] \in Nat
  /\ editor' \in [Requests -> Editor] /\ EditorsOK'
  /\ \A s \in DOMAIN stocks' :
       Unasked(s)' => Unasked(s) /\ s \in DOMAIN stocks /\ stocks'[s] = stocks[s]
  /\ \A a \in DOMAIN assets' :
       Untouched(a)' => Untouched(a) /\ assets'[a] = assets[a]

LEMMA OutsideAddsUp ==
  ASSUME SavingInv, OutsideStep, \A t : Credited(t)' = Credited(t)
  PROVE  SavingsAddUp'
<1>1. ASSUME NEW a \in DOMAIN assets', Untouched(a)' PROVE AssetAddsUp(a)'
  <2>1. a \in DOMAIN assets /\ Untouched(a) /\ assets'[a] = assets[a]
    BY <1>1 DEF OutsideStep
  <2>2. assets[a] = OpeningValue[a] + Credited(a)
    BY <2>1, AddUpParts DEF SavingInv, AssetAddsUp
  <2>3. Credited(a)' = Credited(a)
    OBVIOUS
  <2> QED
    BY <2>1, <2>2, <2>3 DEF AssetAddsUp
<1>2. ASSUME NEW s \in DOMAIN stocks', Unasked(s)' PROVE StockAddsUp(s)'
  <2>1. s \in DOMAIN stocks /\ Unasked(s) /\ stocks'[s] = stocks[s]
    BY <1>2 DEF OutsideStep
  <2>2. stocks[s].quantity = OpeningQuantity[s] + Credited(s)
    BY <2>1, AddUpParts DEF SavingInv, StockAddsUp
  <2>3. Credited(s)' = Credited(s)
    OBVIOUS
  <2> QED
    BY <2>1, <2>2, <2>3 DEF StockAddsUp
<1>3. /\ \A a \in DOMAIN assets' : Untouched(a)' => AssetAddsUp(a)'
      /\ \A s \in DOMAIN stocks' : Unasked(s)' => StockAddsUp(s)'
  BY <1>1, <1>2
<1> QED
  BY <1>3 DEF SavingsAddUp, Untouched, Unasked, AssetAddsUp, StockAddsUp

LEMMA OutsideKeeps ==
  ASSUME SavingInv, OutsideStep, saver' = saver, TypeOK', RequestsInv'
  PROVE  SavingInv'
<1>1. SavingTypeOK /\ SavingTypeOK' /\ EditorsOK'
  BY DEF SavingInv, SavingTypeOK, OutsideStep
<1>2. IsFiniteSet(Sent')
  BY DEF SavingInv, Sent
<1>3. /\ \A a \in Assets \ coined' : OpeningValue[a] = 0
      /\ \A s \in Stocks \ issued' : OpeningQuantity[s] = 0
  BY DEF SavingInv, OutsideStep
<1>4. ASSUME NEW y \in Savers PROVE SaverOK(y)' /\ CopyFresh(y)'
  <2>1. SaverOK(y) /\ CopyFresh(y)
    BY DEF SavingInv
  <2>2. SaverOK(y)'
    BY <2>1 DEF SaverOK, OutsideStep
  <2>3. CopyFresh(y)'
    BY <2>1 DEF CopyFresh, At, OutsideStep
  <2> QED
    BY <2>2, <2>3
<1>5. ASSUME NEW t PROVE Credited(t)' = Credited(t)
  BY DEF Credited, Creditors
<1>6. SavingsAddUp'
  BY <1>5, OutsideAddsUp
<1> QED
  BY <1>1, <1>2, <1>3, <1>4, <1>6 DEF SavingInv

\* A handler of holdings leaves the rows it was not sent for.
LEMMA QuietRow ==
  ASSUME TypeOK, RequestsInv, [Next]_vars, NEW s \in DOMAIN stocks', Unasked(s)'
  PROVE  Unasked(s) /\ s \in DOMAIN stocks /\ stocks'[s] = stocks[s]
<1>1. ASSUME NEW r \in Requests, req[r].op # "none", req[r].stock = s PROVE FALSE
  <2>1. LocalStep(r) /\ req[r].pc # "idle"
    BY <1>1, LocalSteps DEF RequestsInv
  <2>2. req'[r].op = req[r].op /\ req'[r].stock = req[r].stock
    BY <2>1 DEF LocalStep
  <2> QED
    BY <1>1, <2>2 DEF Unasked
<1>2. Unasked(s)
  BY <1>1 DEF Unasked
<1>3. RowStep(s)
  BY RowSteps
<1>4. s \in DOMAIN stocks /\ stocks'[s] = stocks[s]
  BY <1>1, <1>3 DEF RowStep, Unasked
<1> QED
  BY <1>2, <1>4

LEMMA IssuedStays ==
  ASSUME NEW r \in Requests, Serve(r)
  PROVE  issued \subseteq issued'
BY DEF Serve, CreateStock, UpdateStockRead, UpdateStockWrite, DeleteStockForced,
       DeleteStockRead, DeleteStockCheck, DeleteStockWrite, BuyStockRead, BuyStockWrite,
       BuyStockLog, SellStockRead, SellStockLog, SellStockWrite, Insert

LEMMA ServeKeeps ==
  ASSUME SavingInv, NEW r \in Requests, Serve(r), UNCHANGED savingVars
  PROVE  SavingInv'
<1>1. TypeOK /\ RequestsInv /\ [Next]_vars
  BY DEF SavingInv, SavingTypeOK, Next
<1>2. TypeOK' /\ RequestsInv'
  BY <1>1, NextTypeOK, NextRequests
<1>3. OutsideStep
  <2>1. \A s \in DOMAIN stocks' :
          Unasked(s)' => Unasked(s) /\ s \in DOMAIN stocks /\ stocks'[s] = stocks[s]
    BY <1>1, QuietRow
  <2>2. issued \subseteq issued'
    BY IssuedStays
  <2> QED
    BY <2>1, <2>2 DEF OutsideStep, savingVars, SavingInv, SavingTypeOK, Untouched, EditorsOK,
                       Removed
<1> QED
  BY <1>2, <1>3, OutsideKeeps DEF savingVars

\* The handlers of other assets and of entries, and a stutter.
LEMMA EditorKeeps ==
  ASSUME SavingInv, UNCHANGED <<vars, mutex, coined, saver>>,
         editor' \in [Requests -> Editor], EditorsOK',
         ledger' \subseteq ledger, Removed' = Removed \cup (ledger \ ledger'),
         DOMAIN assets' \subseteq DOMAIN assets,
         \A a \in DOMAIN assets' : assets'[a] \in Nat,
         \A a \in DOMAIN assets' : Untouched(a)' => Untouched(a) /\ assets'[a] = assets[a]
  PROVE  SavingInv'
<1>1. TypeOK /\ RequestsInv
  BY DEF SavingInv, SavingTypeOK
<1>2. TypeOK' /\ RequestsInv'
  BY <1>1, NextTypeOK, NextRequests DEF vars
<1>3. OutsideStep
  BY DEF OutsideStep, vars, Unasked
<1> QED
  BY <1>2, <1>3, OutsideKeeps

\* A handler moves on: what it was for, or had deleted, stays on record.
LEMMA EditorMoves ==
  ASSUME SavingInv, NEW r \in Requests, NEW e \in Editor, e.pc # "idle",
         editor' = [editor EXCEPT ![r] = e],
         \/ editor[r].pc = "idle"
         \/ e.asset = editor[r].asset /\ e.entry = editor[r].entry
  PROVE  /\ editor' \in [Requests -> Editor] /\ EditorsOK'
         /\ \A a \in Assets : Untouched(a)' => Untouched(a) /\ e.asset # a
         /\ Removed' = Removed \cup ({e.entry} \cap Savers)
<1>1. editor \in [Requests -> Editor] /\ EditorsOK
  BY DEF SavingInv, SavingTypeOK
<1>2. /\ editor'[r] = e /\ editor' \in [Requests -> Editor]
      /\ \A q \in Requests : q # r => editor'[q] = editor[q]
  BY <1>1
<1>3. EditorsOK'
  BY <1>1, <1>2 DEF EditorsOK
<1>4. /\ editor[r].asset \in {Nobody, e.asset} /\ editor[r].entry \in {Nobody, e.entry}
      /\ Nobody \notin Savers /\ Nobody \notin Assets
  BY <1>1, SavingAssumption DEF EditorsOK, NotSent
<1>5. ASSUME NEW a \in Assets, Untouched(a)' PROVE Untouched(a) /\ e.asset # a
  <2>1. e.asset # a
    BY <1>2, <1>5 DEF Untouched
  <2>2. ASSUME NEW q \in Requests PROVE editor[q].asset # a
    BY <1>2, <1>4, <1>5, <2>1 DEF Untouched
  <2> QED
    BY <2>1, <2>2 DEF Untouched
<1>6. ASSUME NEW x
      PROVE  x \in Removed' <=> x \in Removed \cup ({e.entry} \cap Savers)
  <2>1. CASE x \in Removed'
    <3>1. PICK q \in Requests : x \in Savers /\ editor'[q].entry = x
      BY <2>1 DEF Removed
    <3> QED
      BY <3>1, <1>2 DEF Removed
  <2>2. CASE x \in Removed
    <3>1. PICK q \in Requests : x \in Savers /\ editor[q].entry = x
      BY <2>2 DEF Removed
    <3>2. editor'[q].entry = x
      BY <3>1, <1>2, <1>4
    <3> QED
      BY <3>1, <3>2 DEF Removed
  <2>3. CASE x = e.entry /\ x \in Savers
    BY <2>3, <1>2 DEF Removed
  <2> QED
    BY <2>1, <2>2, <2>3
<1> QED
  BY <1>2, <1>3, <1>5, <1>6

LEMMA UpdateAssetReadKeeps ==
  ASSUME SavingInv, NEW r \in Requests, UpdateAssetRead(r)
  PROVE  SavingInv'
<1>1. PICK a \in DOMAIN assets : \E v \in {assets[a], 0} :
        /\ Unsent(r)
        /\ editor' = [editor EXCEPT ![r] = [NotSent EXCEPT !.pc = "write", !.asset = a,
                                                           !.value = v]]
        /\ UNCHANGED <<vars, mutex, ledger, assets, coined, saver>>
  BY DEF UpdateAssetRead
<1>2. PICK v \in {assets[a], 0} :
        /\ Unsent(r)
        /\ editor' = [editor EXCEPT ![r] = [NotSent EXCEPT !.pc = "write", !.asset = a,
                                                           !.value = v]]
        /\ UNCHANGED <<vars, mutex, ledger, assets, coined, saver>>
  BY <1>1
<1>3. PICK e : e = [NotSent EXCEPT !.pc = "write", !.asset = a, !.value = v]
  OBVIOUS
<1>4. /\ DOMAIN assets \subseteq Assets /\ a \in Assets /\ v \in Nat
      /\ \A b \in DOMAIN assets : assets[b] \in Nat
  BY <1>2 DEF SavingInv, SavingTypeOK
<1>5. e \in Editor /\ e.pc = "write" /\ e.asset = a /\ e.entry = Nobody
  BY <1>3, <1>4 DEF Editor, NotSent
<1>6. editor' = [editor EXCEPT ![r] = e] /\ editor[r].pc = "idle"
  BY <1>2, <1>3 DEF Unsent
<1>7. /\ editor' \in [Requests -> Editor] /\ EditorsOK'
      /\ \A b \in Assets : Untouched(b)' => Untouched(b)
      /\ Removed' = Removed
  <2>1. /\ editor' \in [Requests -> Editor] /\ EditorsOK'
        /\ \A b \in Assets : Untouched(b)' => Untouched(b)
        /\ Removed' = Removed \cup ({e.entry} \cap Savers)
    BY <1>5, <1>6, EditorMoves
  <2>2. e.entry \notin Savers
    BY <1>5, SavingAssumption
  <2>3. {e.entry} \cap Savers = {}
    BY <2>2
  <2> QED
    BY <2>1, <2>3
<1> QED
  BY <1>2, <1>4, <1>7, EditorKeeps

LEMMA UpdateAssetWriteKeeps ==
  ASSUME SavingInv, NEW r \in Requests, UpdateAssetWrite(r)
  PROVE  SavingInv'
<1>1. PICK a : a = editor[r].asset
  OBVIOUS
<1>2. /\ editor \in [Requests -> Editor] /\ editor[r].value \in Nat
      /\ DOMAIN assets \subseteq Assets /\ \A b \in DOMAIN assets : assets[b] \in Nat
  BY DEF SavingInv, SavingTypeOK, Editor
<1>3. /\ editor[r].pc = "write"
      /\ editor' = [editor EXCEPT ![r].pc = "done"]
      /\ UNCHANGED <<vars, mutex, ledger, coined, saver>>
      /\ assets' = IF a \in DOMAIN assets
                   THEN [assets EXCEPT ![a] = editor[r].value] ELSE assets
  BY <1>1 DEF UpdateAssetWrite
<1>4. PICK e : e = [editor[r] EXCEPT !.pc = "done"]
  OBVIOUS
<1>5. e \in Editor /\ e.pc = "done" /\ e.asset = a /\ e.entry = editor[r].entry
  BY <1>1, <1>2, <1>4 DEF Editor
<1>6. editor' = [editor EXCEPT ![r] = e]
  BY <1>2, <1>3, <1>4
<1>7. /\ editor' \in [Requests -> Editor] /\ EditorsOK'
      /\ \A b \in Assets : Untouched(b)' => Untouched(b) /\ b # a
      /\ Removed' = Removed \cup ({e.entry} \cap Savers)
  BY <1>1, <1>5, <1>6, EditorMoves
<1>8. Removed' = Removed
  BY <1>5, <1>7 DEF Removed
<1>9. /\ DOMAIN assets' = DOMAIN assets
      /\ \A b \in DOMAIN assets' : assets'[b] \in Nat
      /\ \A b \in DOMAIN assets' : b # a => assets'[b] = assets[b]
  BY <1>2, <1>3
<1> QED
  BY <1>2, <1>3, <1>7, <1>8, <1>9, EditorKeeps

LEMMA DeleteAssetKeeps ==
  ASSUME SavingInv, NEW r \in Requests, DeleteAsset(r)
  PROVE  SavingInv'
<1>1. PICK a \in DOMAIN assets :
        /\ Unsent(r)
        /\ assets' = [b \in DOMAIN assets \ {a} |-> assets[b]]
        /\ editor' = [editor EXCEPT ![r] = [NotSent EXCEPT !.pc = "done", !.asset = a]]
        /\ UNCHANGED <<vars, mutex, ledger, coined, saver>>
  BY DEF DeleteAsset
<1>2. PICK e : e = [NotSent EXCEPT !.pc = "done", !.asset = a]
  OBVIOUS
<1>3. /\ DOMAIN assets \subseteq Assets /\ a \in Assets
      /\ \A b \in DOMAIN assets : assets[b] \in Nat
  BY DEF SavingInv, SavingTypeOK
<1>4. e \in Editor /\ e.pc = "done" /\ e.entry = Nobody
  BY <1>2, <1>3 DEF Editor, NotSent
<1>5. editor' = [editor EXCEPT ![r] = e] /\ editor[r].pc = "idle"
  BY <1>1, <1>2 DEF Unsent
<1>6. /\ editor' \in [Requests -> Editor] /\ EditorsOK'
      /\ \A b \in Assets : Untouched(b)' => Untouched(b)
      /\ Removed' = Removed
  <2>1. /\ editor' \in [Requests -> Editor] /\ EditorsOK'
        /\ \A b \in Assets : Untouched(b)' => Untouched(b)
        /\ Removed' = Removed \cup ({e.entry} \cap Savers)
    BY <1>4, <1>5, EditorMoves
  <2>2. e.entry \notin Savers
    BY <1>4, SavingAssumption
  <2>3. {e.entry} \cap Savers = {}
    BY <2>2
  <2> QED
    BY <2>1, <2>3
<1> QED
  BY <1>1, <1>3, <1>6, EditorKeeps

LEMMA UpdateTransactionKeeps ==
  ASSUME SavingInv, NEW r \in Requests, UpdateTransaction(r)
  PROVE  SavingInv'
<1>1. PICK e : e = [NotSent EXCEPT !.pc = "done"]
  OBVIOUS
<1>2. e \in Editor /\ e.pc = "done" /\ e.entry = Nobody
  BY <1>1 DEF Editor, NotSent
<1>3. /\ editor' = [editor EXCEPT ![r] = e] /\ editor[r].pc = "idle"
      /\ UNCHANGED <<vars, mutex, ledger, assets, coined, saver>>
  BY <1>1 DEF UpdateTransaction, Unsent
<1>4. DOMAIN assets \subseteq Assets /\ \A b \in DOMAIN assets : assets[b] \in Nat
  BY DEF SavingInv, SavingTypeOK
<1>5. /\ editor' \in [Requests -> Editor] /\ EditorsOK'
      /\ \A b \in Assets : Untouched(b)' => Untouched(b)
      /\ Removed' = Removed
  <2>1. /\ editor' \in [Requests -> Editor] /\ EditorsOK'
        /\ \A b \in Assets : Untouched(b)' => Untouched(b)
        /\ Removed' = Removed \cup ({e.entry} \cap Savers)
    BY <1>2, <1>3, EditorMoves
  <2>2. e.entry \notin Savers
    BY <1>2, SavingAssumption
  <2>3. {e.entry} \cap Savers = {}
    BY <2>2
  <2> QED
    BY <2>1, <2>3
<1> QED
  BY <1>3, <1>4, <1>5, EditorKeeps

\* The entry goes and is on record as deleted; the assets stay.
LEMMA DeleteTransactionKeeps ==
  ASSUME SavingInv, NEW r \in Requests, DeleteTransaction(r)
  PROVE  SavingInv'
<1>1. PICK x \in ledger :
        /\ Unsent(r)
        /\ ledger' = ledger \ {x}
        /\ editor' = [editor EXCEPT ![r] = [NotSent EXCEPT !.pc = "done", !.entry = x]]
        /\ UNCHANGED <<vars, mutex, assets, coined, saver>>
  BY DEF DeleteTransaction
<1>2. PICK e : e = [NotSent EXCEPT !.pc = "done", !.entry = x]
  OBVIOUS
<1>3. /\ DOMAIN assets \subseteq Assets /\ x \in Savers
      /\ \A b \in DOMAIN assets : assets[b] \in Nat
  BY DEF SavingInv, SavingTypeOK
<1>4. e \in Editor /\ e.pc = "done" /\ e.entry = x
  BY <1>2, <1>3 DEF Editor, NotSent
<1>5. editor' = [editor EXCEPT ![r] = e] /\ editor[r].pc = "idle"
  BY <1>1, <1>2 DEF Unsent
<1>6. /\ editor' \in [Requests -> Editor] /\ EditorsOK'
      /\ \A b \in Assets : Untouched(b)' => Untouched(b)
      /\ Removed' = Removed \cup ({e.entry} \cap Savers)
  BY <1>4, <1>5, EditorMoves
<1>7. Removed' = Removed \cup (ledger \ ledger')
  BY <1>1, <1>3, <1>4, <1>6
<1> QED
  BY <1>1, <1>3, <1>6, <1>7, EditorKeeps

\* The process stops: every saving under way is lost, its entry and what it
\* has credited stay.
LEMMA RestartSaver ==
  ASSUME SavingInv, Restart, NEW x \in Savers
  PROVE  /\ saver'[x] \in Saver /\ saver'[x].pc \notin Busy
         /\ saver'[x].pc \in {saver[x].pc, "lost"}
         /\ saver'[x].pc = "lost" \/ saver'[x] = saver[x]
         /\ saver'[x].link = saver[x].link /\ saver'[x].amount = saver[x].amount
         /\ saver'[x].credited = saver[x].credited
<1>1. saver[x] \in Saver
  BY DEF SavingInv, SavingTypeOK
<1>2. PICK v : v = [saver[x] EXCEPT !.pc = "lost", !.row = Blank, !.value = 0, !.gone = FALSE]
  OBVIOUS
<1>3. /\ v \in Saver /\ v.pc = "lost" /\ v.link = saver[x].link
      /\ v.amount = saver[x].amount /\ v.credited = saver[x].credited
  BY <1>1, <1>2, BlankIsRow DEF Saver, Answered
<1>4. saver'[x] = IF saver[x].pc \in Busy THEN v ELSE saver[x]
  BY <1>2 DEF Restart
<1> QED
  BY <1>1, <1>3, <1>4 DEF Busy

LEMMA RestartLocals ==
  ASSUME SavingInv, Restart
  PROVE  /\ TypeOK' /\ RequestsInv'
         /\ \A r \in Requests : req'[r].op = req[r].op /\ req'[r].stock = req[r].stock
<1>1. TypeOK /\ RequestsInv
  BY DEF SavingInv, SavingTypeOK
<1>2. ASSUME NEW r \in Requests
      PROVE  /\ req'[r] \in Request /\ LocalOK(req'[r])
             /\ req'[r].op = req[r].op /\ req'[r].stock = req[r].stock
             /\ req'[r] # req[r] => req'[r].pc = "lost" /\ r \in InFlight
  <2>1. LocalsOK /\ req[r] \in Request
    BY <1>1, TypeOKParts DEF LocalsOK
  <2>2. PICK v : v = [req[r] EXCEPT !.pc = "lost", !.row = Blank]
    OBVIOUS
  <2>3. v \in Request /\ LocalOK(v)
    BY <2>1, <2>2, EndOK
  <2>4. v.pc = "lost" /\ v.op = req[r].op /\ v.stock = req[r].stock
    BY <2>1, <2>2 DEF Request
  <2>5. req'[r] = IF r \in InFlight THEN v ELSE req[r]
    BY <2>2 DEF Restart, Lost
  <2> QED
    BY <2>1, <2>3, <2>4, <2>5 DEF LocalsOK
<1>3. LocalsOK'
  BY <1>2 DEF Restart, Lost, LocalsOK
<1>4. TablesOK'
  BY <1>1, TypeOKParts DEF Restart, TablesOK
<1>5. TypeOK'
  BY <1>1, <1>3, <1>4, TypeOKParts, TypeOKNext, FaultsOK DEF Restart
<1>6. RequestsInv'
  <2>1. Begun' \subseteq Begun
    BY <1>2 DEF Begun, InFlight
  <2>2. IsFiniteSet(Begun')
    BY <1>1, <2>1, FS_Subset DEF RequestsInv
  <2>3. \A r \in Requests : req'[r].pc = "idle" => req'[r].op = "none"
    BY <1>1, <1>2 DEF RequestsInv
  <2>4. \A r \in Requests : req'[r].op = "create" => req'[r].pc = "ok"
    BY <1>1, <1>2 DEF RequestsInv, InFlight
  <2> QED
    BY <2>2, <2>3, <2>4 DEF RequestsInv
<1> QED
  BY <1>2, <1>5, <1>6

LEMMA RestartKeeps ==
  ASSUME SavingInv, Restart
  PROVE  SavingInv'
<1>1. /\ mutex' = Nobody
      /\ UNCHANGED <<stocks, issued, log, ledger, assets, coined>>
  BY DEF Restart
<1>2. SavingTypeOK' /\ EditorsOK' /\ Removed' = Removed
      /\ \A r \in Requests : editor'[r].asset = editor[r].asset
  <2>1. saver' \in [Savers -> Saver]
    BY RestartSaver DEF Restart
  <2>2. /\ editor' \in [Requests -> Editor] /\ EditorsOK'
        /\ \A r \in Requests : /\ editor'[r].asset = editor[r].asset
                               /\ editor'[r].entry = editor[r].entry
    <3>1. ASSUME NEW r \in Requests
          PROVE  /\ editor'[r] \in Editor
                 /\ editor'[r].pc = "idle" => editor'[r] = NotSent
                 /\ editor'[r].asset = editor[r].asset
                 /\ editor'[r].entry = editor[r].entry
      <4>1. editor[r] \in Editor /\ (editor[r].pc = "idle" => editor[r] = NotSent)
        BY DEF SavingInv, SavingTypeOK, EditorsOK
      <4>2. PICK e : e = [editor[r] EXCEPT !.pc = "done"]
        OBVIOUS
      <4>3. /\ e \in Editor /\ e.pc = "done" /\ e.asset = editor[r].asset
            /\ e.entry = editor[r].entry
        BY <4>1, <4>2 DEF Editor
      <4>4. editor'[r] = IF editor[r].pc = "write" THEN e ELSE editor[r]
        BY <4>2 DEF Restart
      <4> QED
        BY <4>1, <4>3, <4>4
    <3> QED
      BY <3>1 DEF Restart, EditorsOK
  <2>3. Removed' = Removed
    BY <2>2 DEF Removed
  <2>4. \A x \in Savers : saver'[x].pc \in Busy \ {"lock"} <=> mutex' = x
    BY <1>1, RestartSaver, SavingAssumption
  <2> QED
    BY <1>1, <2>1, <2>2, <2>3, <2>4, RestartLocals DEF SavingInv, SavingTypeOK
<1>3. IsFiniteSet(Sent')
  <2>1. Sent' \subseteq Sent
    <3>1. ASSUME NEW x \in Savers, saver'[x].pc # "idle" PROVE saver[x].pc # "idle"
      BY <3>1 DEF Restart, Busy
    <3> QED
      BY <3>1 DEF Sent
  <2> QED
    BY <2>1, FS_Subset DEF SavingInv
<1>4. /\ \A a \in Assets \ coined' : OpeningValue[a] = 0
      /\ \A s \in Stocks \ issued' : OpeningQuantity[s] = 0
  BY <1>1 DEF SavingInv
<1>5. ASSUME NEW y \in Savers PROVE SaverOK(y)' /\ CopyFresh(y)'
  <2>1. SaverOK(y)
    BY DEF SavingInv
  <2>2. CASE saver'[y].pc = "lost"
    BY <1>1, <1>2, <2>1, <2>2, RestartSaver DEF SaverOK, CopyFresh, At, Locked
  <2>3. CASE saver'[y].pc # "lost"
    BY <1>1, <1>2, <2>1, <2>3, RestartSaver DEF SaverOK, CopyFresh, At, Busy
  <2> QED
    BY <2>2, <2>3
<1>6. SavingsAddUp'
  <2>1. ASSUME NEW t PROVE Credited(t)' = Credited(t)
    <3>1. Creditors(t)' = Creditors(t)
      BY RestartSaver DEF Creditors
    <3>2. [x \in Savers |-> saver'[x].amount] = [x \in Savers |-> saver[x].amount]
      BY RestartSaver
    <3> QED
      BY <3>1, <3>2 DEF Credited
  <2>2. ASSUME NEW a \in DOMAIN assets', Untouched(a)' PROVE AssetAddsUp(a)'
    <3>2. Untouched(a) /\ a \in DOMAIN assets
      BY <1>1, <1>2, <2>2 DEF Untouched
    <3>3. AssetAddsUp(a) /\ Credited(a)' = Credited(a)
      BY <2>1, <3>2, AddUpParts DEF SavingInv
    <3> QED
      BY <1>1, <3>3 DEF AssetAddsUp
  <2>3. ASSUME NEW s \in DOMAIN stocks', Unasked(s)' PROVE StockAddsUp(s)'
    <3>1. Unasked(s) /\ s \in DOMAIN stocks
      BY <1>1, <2>3, RestartLocals DEF Unasked
    <3>2. StockAddsUp(s) /\ Credited(s)' = Credited(s)
      BY <2>1, <3>1, AddUpParts DEF SavingInv
    <3> QED
      BY <1>1, <3>2 DEF StockAddsUp
  <2>4. /\ \A a \in DOMAIN assets' : Untouched(a)' => AssetAddsUp(a)'
        /\ \A s \in DOMAIN stocks' : Unasked(s)' => StockAddsUp(s)'
    BY <2>2, <2>3
  <2> QED
    BY <2>4 DEF SavingsAddUp, Untouched, Unasked, AssetAddsUp, StockAddsUp
<1> QED
  BY <1>2, <1>3, <1>4, <1>5, <1>6, RestartLocals DEF SavingInv

LEMMA InitSaving == SavingInit => SavingInv
<1> SUFFICES ASSUME SavingInit PROVE SavingInv
  OBVIOUS
<1>1. TypeOK /\ RequestsInv
  BY InitTypeOK, InitRequests DEF SavingInit
<1>2. \A x \in Savers : saver[x] = Fresh /\ Fresh.pc = "idle" /\ Fresh.credited = FALSE
  BY DEF SavingInit, Fresh
<1>3. SavingTypeOK
  <2>1. saver \in [Savers -> Saver]
    BY FreshIsSaver DEF SavingInit
  <2>2. coined \subseteq Assets /\ DOMAIN assets = coined
        /\ \A a \in DOMAIN assets : assets[a] = OpeningValue[a] /\ assets[a] \in Nat
    BY SavingAssumption DEF SavingInit
  <2>3. editor \in [Requests -> Editor]
    <3>1. NotSent \in Editor
      BY DEF NotSent, Editor
    <3> QED
      BY <3>1 DEF SavingInit
  <2>4. \A x \in Savers : saver[x].pc \in Busy \ {"lock"} <=> mutex = x
    BY <1>2, SavingAssumption DEF SavingInit, Busy
  <2> QED
    BY <1>1, <2>1, <2>2, <2>3, <2>4 DEF SavingTypeOK, SavingInit
<1>8. EditorsOK /\ Removed = {}
  <2>1. \A r \in Requests : editor[r] = NotSent /\ editor[r].entry = Nobody
    BY DEF SavingInit, NotSent
  <2> QED
    BY <2>1, SavingAssumption DEF EditorsOK, Removed
<1>4. IsFiniteSet(Sent)
  <2>1. Sent = {}
    BY <1>2 DEF Sent
  <2> QED
    BY <2>1, FS_EmptySet
<1>5. /\ \A a \in Assets \ coined : OpeningValue[a] = 0
      /\ \A s \in Stocks \ issued : OpeningQuantity[s] = 0
  BY SavingAssumption, HoldingsAssumption DEF SavingInit, Init
<1>6. \A x \in Savers : SaverOK(x) /\ CopyFresh(x)
  BY <1>2, <1>8 DEF SaverOK, CopyFresh, At, Locked, SavingInit
<1>7. SavingsAddUp
  <2>1. ASSUME NEW t PROVE Credited(t) = 0
    <3>1. Creditors(t) = {}
      BY <1>2 DEF Creditors
    <3> QED
      BY <3>1, SumEmpty DEF Credited
  <2>2. ASSUME NEW a \in DOMAIN assets PROVE AssetAddsUp(a)
    <3>1. assets[a] = OpeningValue[a] /\ OpeningValue[a] \in Nat
      BY <2>2, SavingAssumption DEF SavingInit
    <3>2. Credited(a) = 0
      BY <2>1
    <3> QED
      BY <3>1, <3>2 DEF AssetAddsUp
  <2>3. ASSUME NEW s \in DOMAIN stocks PROVE StockAddsUp(s)
    <3>1. stocks[s].quantity = OpeningQuantity[s] /\ OpeningQuantity[s] \in Nat
      BY <2>3, HoldingsAssumption DEF SavingInit, Init
    <3>2. Credited(s) = 0
      BY <2>1
    <3> QED
      BY <3>1, <3>2 DEF StockAddsUp
  <2> QED
    BY <2>2, <2>3, AddUpParts
<1> QED
  BY <1>1, <1>3, <1>4, <1>5, <1>6, <1>7, <1>8 DEF SavingInv

LEMMA NextSaving == SavingInv /\ [SavingNext]_allVars => SavingInv'
<1> SUFFICES ASSUME SavingInv, [SavingNext]_allVars PROVE SavingInv'
  OBVIOUS
<1>1. ASSUME NEW x \in Savers, Send(x) \/ Lock(x) \/ Apply(x) \/ Disconnect(x)
      PROVE  SavingInv'
  BY <1>1, SaverSteps, SaverKeeps
<1>2. ASSUME NEW r \in Requests,
             \/ UpdateAssetRead(r) \/ UpdateAssetWrite(r) \/ DeleteAsset(r)
             \/ UpdateTransaction(r) \/ DeleteTransaction(r)
             \/ Serve(r) /\ UNCHANGED savingVars
      PROVE  SavingInv'
  BY <1>2, UpdateAssetReadKeeps, UpdateAssetWriteKeeps, DeleteAssetKeeps,
     UpdateTransactionKeeps, DeleteTransactionKeeps, ServeKeeps
<1>3. CASE Restart
  BY <1>3, RestartKeeps
<1>4. CASE UNCHANGED allVars
  <2>1. UNCHANGED <<vars, mutex, ledger, coined, saver>> /\ editor' = editor /\ assets' = assets
    BY <1>4 DEF allVars, savingVars
  <2>2. (\A a : Untouched(a)' => Untouched(a)) /\ Removed' = Removed /\ EditorsOK'
    BY <2>1 DEF Untouched, Removed, EditorsOK, SavingInv
  <2> QED
    BY <2>1, <2>2, EditorKeeps DEF SavingInv, SavingTypeOK
<1> QED
  BY <1>1, <1>2, <1>3, <1>4 DEF SavingNext, AllAnswered

\* However savings, trades, edits, failures, disconnections and restarts come
\* together, the rows stay well formed and exactly the saving between taking
\* and releasing the mutex of ApplySaving holds it: no return keeps it, no two
\* savings have it, and a restart frees it.
THEOREM SavingTypeCorrect == SavingSpec => []SavingTypeOK
<1>1. SavingInv => SavingTypeOK
  BY DEF SavingInv
<1> QED
  BY <1>1, InitSaving, NextSaving, PTL DEF SavingSpec

\* ApplySaving answers no saving with an entry but without the credit, except
\* where the rollback failed, or with the credit but without the entry, except
\* where DELETE /api/transactions/{id} removed it.
THEOREM EntryMatchesCredit == SavingSpec => []EntryIffCredited
<1>1. SavingInv => EntryIffCredited
  BY DEF SavingInv, SaverOK, EntryIffCredited
<1> QED
  BY <1>1, InitSaving, NextSaving, PTL DEF SavingSpec

\* The mutex of ApplySaving makes the read and the write of a saving one: what
\* a row holds that no other handler was sent for is what it opened with and
\* everything that savings have credited to it, restarts in between included.
THEOREM SavingsKept == SavingSpec => []SavingsAddUp
<1>1. SavingInv => SavingsAddUp
  BY DEF SavingInv
<1> QED
  BY <1>1, InitSaving, NextSaving, PTL DEF SavingSpec
=============================================================================
