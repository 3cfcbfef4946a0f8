--------------------------- MODULE SortOrderProofs ---------------------------
(***************************************************************************)
(* Proofs about SortOrder, for any number of rows, requests, failed        *)
(* statements and crashes: its types, that disorder needs overlap, and     *)
(* that a reorder, although it is one UPDATE per row with other requests   *)
(* in between, is one step of ManualOrder.                                 *)
(***************************************************************************)
EXTENDS SortOrder, FiniteSetTheorems, SequenceTheorems, WellFoundedInduction, TLAPS

NewRow == [group : Ids, pos : Nat]

\* What a goroutine holds fits its operation and step.
LocalOK(r) ==
  /\ req[r].pc = "idle" => req[r] = Fresh
  /\ req[r].op = "none" => req[r].pc = "idle"
  /\ req[r].pc = "listed" => req[r].at = 1
  /\ req[r].at <= Len(req[r].list) + 1
  /\ req[r].op = "reorder" => req[r].pc \in {"listed", "update"} \cup Answered
  /\ req[r].op = "create" => req[r].pc \in {"insert"} \cup Answered /\ req[r].row \in NewRow
  /\ req[r].op = "delete" => req[r].pc \in {"delete"} \cup Answered

\* A row is named after a request that has inserted it, so none comes back.
RowsNamed ==
  \A i \in DOMAIN rows : i \in Requests => req[i].op = "create" /\ req[i].pc = "ok"

\* A list has rows that were there, each once.
ListsFit(r) ==
  req[r].op = "reorder" =>
    /\ \A j, k \in DOMAIN req[r].list : req[r].list[j] = req[r].list[k] => j = k
    /\ \A k \in DOMAIN req[r].list :
         req[r].list[k] \in Requests => req[req[r].list[k]].pc = "ok"

\* There are finitely many rows, and a greatest position.
RowsFinite == IsFiniteSet(DOMAIN rows)
Bounded == \E b \in Nat : \A i \in DOMAIN rows : rows[i].pos <= b

\* A transaction has locked every row it has come to, but those that are gone.
LocksKept(r) ==
  At(r, "reorder", "update") =>
    \A k \in DOMAIN req[r].list :
      k < req[r].at /\ req[r].list[k] \in DOMAIN rows =>
        req[r].list[k] \in DOMAIN lock /\ lock[req[r].list[k]] = r

\* Without overlap at most one request places rows.
OneAtATime == inTurn => \A q, r \in Placing : q = r

\* Its list has every row there is, group by group.
ListComplete(r) ==
  inTurn /\ req[r].op = "reorder" /\ req[r].pc \in {"listed", "update"} =>
    /\ DOMAIN rows \subseteq Listed(r)
    /\ \A i, j, k \in DOMAIN req[r].list :
         /\ {req[r].list[i], req[r].list[j], req[r].list[k]} \subseteq DOMAIN rows
         /\ i < j /\ j < k
         /\ rows[req[r].list[i]].group = rows[req[r].list[k]].group
         => rows[req[r].list[j]].group = rows[req[r].list[i]].group

\* Its new row fits among those there are: it ties with its own group only,
\* and splits no group, its own neither, that was not left split.
RowFits(r) ==
  inTurn /\ At(r, "create", "insert") =>
    LET new == req[r].row
    IN /\ \A i \in DOMAIN rows : rows[i].pos = new.pos => rows[i].group = new.group
       /\ \A i, k \in DOMAIN rows :
            /\ rows[i].group = rows[k].group
            /\ rows[i].pos < new.pos /\ new.pos < rows[k].pos
            => new.group = rows[i].group \/ LeftApart(rows[i].group, new.group)
       /\ \A i, j \in DOMAIN rows :
            /\ rows[i].group = new.group
            /\ \/ rows[i].pos < rows[j].pos /\ rows[j].pos < new.pos
               \/ new.pos < rows[j].pos /\ rows[j].pos < rows[i].pos
            => rows[j].group = new.group \/ LeftApart(new.group, rows[j].group)

\* The inductive invariant.
SortInv ==
  /\ TypeOK /\ RowsNamed /\ RowsFinite /\ Bounded
  /\ \A r \in Requests : LocalOK(r) /\ ListsFit(r) /\ LocksKept(r)
  /\ OneAtATime /\ DisorderNeedsOverlap
  /\ \A r \in Requests : ListComplete(r) /\ RowFits(r)

----------------------------------------------------------------------------

\* A set of numbers has a least one, and a greatest one if it has a bound.
LEMMA LeastOfNat ==
  ASSUME NEW S \in SUBSET Nat, S # {}
  PROVE  Least(S) \in S /\ \A q \in S : Least(S) <= q
<1> DEFINE R == OpToRel(<, Nat)
<1>1. IsWellFoundedOn(R, Nat)
  BY NatLessThanWellFounded
<1>2. \A x, y \in Nat : <<x, y>> \in R <=> x < y
  BY DEF OpToRel
<1> HIDE DEF R
<1>3. PICK p \in S : \A q \in S : <<q, p>> \notin R
  BY <1>1, WFMin
<1>4. ASSUME NEW q \in S PROVE p <= q
  <2>1. p \in Nat /\ q \in Nat
    OBVIOUS
  <2>2. ~(q < p)
    BY <1>2, <1>3, <2>1
  <2> QED
    BY <2>1, <2>2
<1> QED
  BY <1>4 DEF Least

LEMMA GreatestOfBounded ==
  ASSUME NEW S \in SUBSET Nat, S # {}, NEW b \in Nat, \A q \in S : q <= b
  PROVE  Greatest(S) \in S /\ \A q \in S : q <= Greatest(S)
<1> DEFINE T == {b - q : q \in S}
<1>1. T \in SUBSET Nat /\ T # {}
  <2>1. \A q \in S : b - q \in Nat
    OBVIOUS
  <2> QED
    BY <2>1
<1>2. Least(T) \in T /\ \A t \in T : Least(T) <= t
  BY <1>1, LeastOfNat
<1>3. PICK p \in S : Least(T) = b - p
  BY <1>2
<1>4. ASSUME NEW q \in S PROVE q <= p
  <2>1. q \in Nat /\ p \in Nat /\ b - p <= b - q
    BY <1>2, <1>3
  <2> QED
    BY <2>1
<1> QED
  BY <1>4 DEF Greatest

----------------------------------------------------------------------------
\* A request that has not begun holds nothing.
LEMMA FreshFits ==
  /\ Fresh \in Request /\ Fresh.pc = "idle" /\ Fresh.op = "none" /\ Fresh.at = 1
  /\ Fresh.list = <<>>
BY DEF Fresh, Holding, Request

\* What is listed, and at which place.
LEMMA ListFacts ==
  ASSUME TypeOK, NEW r \in Requests
  PROVE  /\ req[r] \in Request /\ req[r].list \in Seq(Ids) /\ Len(req[r].list) \in Nat
         /\ DOMAIN req[r].list = 1..Len(req[r].list)
         /\ \A k \in DOMAIN req[r].list : req[r].list[k] \in Ids
         /\ req[r].at \in Nat \ {0}
         /\ \A i \in Listed(r) : /\ Place(r, i) + 1 \in DOMAIN req[r].list
                                 /\ req[r].list[Place(r, i) + 1] = i
                                 /\ Place(r, i) \in Nat
<1>1. req[r] \in Request
  BY DEF TypeOK
<1>2. req[r].list \in Seq(Ids) /\ req[r].at \in Nat \ {0}
  BY <1>1 DEF Request
<1>3. /\ Len(req[r].list) \in Nat /\ DOMAIN req[r].list = 1..Len(req[r].list)
      /\ \A k \in DOMAIN req[r].list : req[r].list[k] \in Ids
  BY <1>2
<1>4. ASSUME NEW i \in Listed(r)
      PROVE  /\ Place(r, i) + 1 \in DOMAIN req[r].list
             /\ req[r].list[Place(r, i) + 1] = i
             /\ Place(r, i) \in Nat
  <2> DEFINE c == CHOOSE k \in DOMAIN req[r].list : req[r].list[k] = i
  <2>1. c \in DOMAIN req[r].list /\ req[r].list[c] = i
    BY <1>4 DEF Listed
  <2>2. Place(r, i) = c - 1
    BY DEF Place
  <2> HIDE DEF c
  <2> QED
    BY <2>1, <2>2, <1>3
<1> QED
  BY <1>1, <1>2, <1>3, <1>4

\* A request goes on.
LEMMA MovedFields ==
  ASSUME TypeOK, NEW r \in Requests, NEW at \in Nat \ {0}, GoOn(r, at)
  PROVE  /\ req' \in [Requests -> Request]
         /\ \A x \in Requests : x # r => req'[x] = req[x]
         /\ req'[r].pc = "update" /\ req'[r].at = at /\ req'[r].op = req[r].op
         /\ req'[r].list = req[r].list /\ req'[r].row = req[r].row
<1>1. req \in [Requests -> Request] /\ req[r] \in Request
  BY DEF TypeOK
<1> DEFINE held == Moved(r, at)
<1>2. /\ held \in Request /\ held.pc = "update" /\ held.at = at /\ held.op = req[r].op
      /\ held.list = req[r].list /\ held.row = req[r].row
  BY <1>1 DEF Moved, Holding, Request, Working
<1>3. req' = [req EXCEPT ![r] = held]
  BY DEF GoOn
<1> HIDE DEF held
<1> QED
  BY <1>1, <1>2, <1>3

\* What a request holds once it is answered.
LEMMA DoneHeld ==
  ASSUME TypeOK, NEW r \in Requests, NEW pc \in Answered
  PROVE  /\ Done(r, pc) \in Request /\ Done(r, pc).pc = pc /\ Done(r, pc).at = 1
         /\ Done(r, pc).op = req[r].op /\ Done(r, pc).list = <<>>
         /\ Done(r, pc).row = req[r].row
<1>1. req[r] \in Request
  BY DEF TypeOK
<1> QED
  BY <1>1 DEF Done, Holding, Request

\* A request is answered.
LEMMA AnswerFields ==
  ASSUME TypeOK, NEW r \in Requests, NEW pc \in Answered, Answer(r, pc)
  PROVE  /\ req' \in [Requests -> Request]
         /\ \A x \in Requests : x # r => req'[x] = req[x]
         /\ req'[r].pc = pc /\ req'[r].at = 1 /\ req'[r].op = req[r].op
         /\ req'[r].list = <<>> /\ req'[r].row = req[r].row
<1>1. req \in [Requests -> Request]
  BY DEF TypeOK
<1> DEFINE held == Done(r, pc)
<1>2. /\ held \in Request /\ held.pc = pc /\ held.at = 1 /\ held.op = req[r].op
      /\ held.list = <<>> /\ held.row = req[r].row
  BY DoneHeld
<1>3. req' = [req EXCEPT ![r] = held]
  BY DEF Answer
<1> HIDE DEF held
<1> QED
  BY <1>1, <1>2, <1>3

\* A request begins.
LEMMA OpenFields ==
  ASSUME TypeOK, NEW r \in Requests, NEW pc \in {"listed", "insert", "delete"},
         NEW op \in {"reorder", "create", "delete"}, NEW list \in Seq(Ids),
         NEW row \in NewRow \cup {None}, Open(r, pc, op, list, row)
  PROVE  /\ req' \in [Requests -> Request]
         /\ \A x \in Requests : x # r => req'[x] = req[x]
         /\ req[r].pc = "idle" /\ req'[r].pc = pc /\ req'[r].at = 1 /\ req'[r].op = op
         /\ req'[r].list = list /\ req'[r].row = row
<1>1. req \in [Requests -> Request]
  BY DEF TypeOK
<1> DEFINE held == Holding(pc, op, list, 1, row)
<1>2. /\ held \in Request /\ held.pc = pc /\ held.at = 1 /\ held.op = op
      /\ held.list = list /\ held.row = row
  BY DEF Holding, Request, Working, NewRow
<1>3. req' = [req EXCEPT ![r] = held] /\ req[r].pc = "idle"
  BY DEF Open
<1> HIDE DEF held
<1> QED
  BY <1>1, <1>2, <1>3
----------------------------------------------------------------------------
\* Requests that have begun go on, are answered, or stay where they are.
Goes ==
  /\ req' \in [Requests -> Request]
  /\ \A x \in Requests :
       \/ req'[x] = req[x]
       \/ /\ req'[x].op = req[x].op /\ req'[x].row = req[x].row
          /\ req[x].pc \in Working \cup {"listed"}
          /\ \/ req'[x].pc \in Answered /\ req'[x].list = <<>> /\ req'[x].at = 1
             \/ /\ req[x].op = "reorder" /\ req'[x].pc = "update"
                /\ req'[x].list = req[x].list /\ req'[x].at <= Len(req[x].list) + 1

\* No row appears or moves.
Fewer ==
  /\ DOMAIN rows' \subseteq DOMAIN rows
  /\ \A i \in DOMAIN rows' : rows'[i] = rows[i]

\* What holds of the requests is about what they asked for.
LEMMA GoesKeeps ==
  ASSUME SortInv, Goes, inTurn' = inTurn
  PROVE  /\ \A x \in Requests : LocalOK(x)' /\ ListsFit(x)'
         /\ OneAtATime' /\ Placing' \subseteq Placing
         /\ \A x \in Requests : req[x].pc \in Answered => req'[x] = req[x]
<1>1. ASSUME NEW x \in Requests
      PROVE  /\ req'[x].op = req[x].op /\ req'[x].row = req[x].row
             /\ \/ req'[x] = req[x]
                \/ /\ req[x].pc \in Working \cup {"listed"}
                   /\ req'[x].at <= Len(req'[x].list) + 1
                   /\ req'[x].pc \in Answered \/ (req[x].op = "reorder" /\ req'[x].pc = "update")
                   /\ req'[x].list = <<>> \/ req'[x].list = req[x].list
  <2>1. Len(<<>>) = 0
    OBVIOUS
  <2>2. CASE req'[x].pc \in Answered /\ req'[x].list = <<>> /\ req'[x].at = 1
    <3>1. req'[x].at <= Len(req'[x].list) + 1
      BY <2>1, <2>2
    <3> QED
      BY <2>2, <3>1 DEF Goes
  <2> QED
    BY <2>2 DEF Goes
<1>2. \A x \in Requests : req[x].pc \in Answered => req'[x] = req[x]
  BY <1>1 DEF Working, Answered
<1>3. ASSUME NEW x \in Requests PROVE LocalOK(x)'
  <2>1. LocalOK(x)
    BY DEF SortInv
  <2>2. CASE req'[x] = req[x]
    BY <2>1, <2>2 DEF LocalOK
  <2>3. CASE req'[x] # req[x]
    BY <2>1, <2>3, <1>1 DEF LocalOK, Answered, Working
  <2> QED
    BY <2>2, <2>3
<1>4. ASSUME NEW x \in Requests PROVE ListsFit(x)'
  <2>1. ListsFit(x) /\ req'[x].op = req[x].op
    BY <1>1 DEF SortInv
  <2>2. ASSUME NEW i \in Requests, req[i].pc = "ok" PROVE req'[i].pc = "ok"
    BY <1>2, <2>2 DEF Answered
  <2>3. CASE req'[x].list = req[x].list
    BY <2>1, <2>2, <2>3 DEF ListsFit
  <2>4. CASE req'[x].list = <<>>
    BY <2>4 DEF ListsFit
  <2> QED
    BY <2>3, <2>4, <1>1
<1>5. Placing' \subseteq Placing
  <2> SUFFICES ASSUME NEW x \in Requests, req'[x].op \in {"create", "reorder"},
                      req'[x].pc \in Working \cup {"listed"}
               PROVE  req[x].op \in {"create", "reorder"}
                      /\ req[x].pc \in Working \cup {"listed"}
    BY DEF Placing
  <2> QED
    BY <1>1
<1>6. OneAtATime'
  BY <1>5 DEF SortInv, OneAtATime
<1> QED
  BY <1>2, <1>3, <1>4, <1>5, <1>6

\* Neither order nor disorder comes of rows that go.
LEMMA FewerKeeps ==
  ASSUME SortInv, Goes, Fewer, inTurn' = inTurn, Reordered' => Reordered
  PROVE  /\ RowsNamed' /\ RowsFinite' /\ Bounded' /\ DisorderNeedsOverlap'
         /\ \A x \in Requests : ListComplete(x)' /\ RowFits(x)'
<1>1. /\ DOMAIN rows' \subseteq DOMAIN rows
      /\ \A i \in DOMAIN rows' : rows'[i] = rows[i]
      /\ \A x \in Requests : req'[x].op = req[x].op /\ req'[x].row = req[x].row
  BY DEF Fewer, Goes
<1>2. \A x \in Requests : req[x].pc \in Answered => req'[x] = req[x]
  BY GoesKeeps
<1>3. RowsNamed'
  BY <1>1, <1>2 DEF SortInv, RowsNamed, Answered
<1>4. RowsFinite'
  BY <1>1, FS_Subset DEF SortInv, RowsFinite
<1>5. Bounded'
  BY <1>1 DEF SortInv, Bounded
<1>6. DisorderNeedsOverlap'
  <2>1. TiesNeedOverlap'
    BY <1>1 DEF SortInv, DisorderNeedsOverlap, TiesNeedOverlap
  <2>2. SplitsNeedOverlap'
    BY <1>1 DEF SortInv, DisorderNeedsOverlap, SplitsNeedOverlap, LeftApart
  <2> QED
    BY <2>1, <2>2 DEF DisorderNeedsOverlap
<1>7. ASSUME NEW x \in Requests PROVE ListComplete(x)'
  <2>1. ListComplete(x)
    BY DEF SortInv
  <2> SUFFICES ASSUME inTurn, req'[x].op = "reorder", req'[x].pc \in {"listed", "update"}
               PROVE  /\ DOMAIN rows' \subseteq Listed(x)'
                      /\ \A i, j, k \in DOMAIN req'[x].list :
                           /\ {req'[x].list[i], req'[x].list[j], req'[x].list[k]}
                                \subseteq DOMAIN rows'
                           /\ i < j /\ j < k
                           /\ rows'[req'[x].list[i]].group = rows'[req'[x].list[k]].group
                           => rows'[req'[x].list[j]].group = rows'[req'[x].list[i]].group
    BY DEF ListComplete
  <2>2. /\ req[x].op = "reorder" /\ req[x].pc \in {"listed", "update"}
        /\ req'[x].list = req[x].list
    BY DEF Goes, SortInv, LocalOK, Working, Answered
  <2>3. Listed(x)' = Listed(x)
    BY <2>2 DEF Listed
  <2> QED
    BY <1>1, <2>1, <2>2, <2>3 DEF ListComplete
<1>8. ASSUME NEW x \in Requests PROVE RowFits(x)'
  <2>1. At(x, "create", "insert")' => At(x, "create", "insert")
    BY <1>1 DEF At, Goes, Answered
  <2>2. RowFits(x)
    BY DEF SortInv
  <2> QED
    BY <1>1, <2>1, <2>2 DEF RowFits, LeftApart
<1> QED
  BY <1>3, <1>4, <1>5, <1>6, <1>7, <1>8

\* A statement that succeeds or fails.
LEMMA FaultsFit ==
  ASSUME TypeOK, Ok \/ Fault
  PROVE  faults' \in 0..MaxFaults
BY SortOrderAssumption DEF TypeOK, Ok, Fault

\* What has to be checked of a step at which no row appears or moves.
LEMMA FewerStep ==
  ASSUME SortInv, Goes, Fewer, inTurn' = inTurn, Reordered' => Reordered, Ok \/ Fault,
         DOMAIN lock' \subseteq DOMAIN rows',
         \A i \in DOMAIN lock' :
           /\ lock'[i] \in Requests
           /\ req'[lock'[i]].op = "reorder" /\ req'[lock'[i]].pc = "update"
           /\ \E k \in 1..req'[lock'[i]].at - 1 : req'[lock'[i]].list[k] = i,
         \A x \in Requests : LocksKept(x)'
  PROVE  SortInv'
<1>1. TypeOK /\ req' \in [Requests -> Request]
  BY DEF SortInv, Goes
<1>2. TypeOK'
  <2>1. DOMAIN rows' \subseteq Ids /\ \A i \in DOMAIN rows' : rows'[i] \in [group : Ids, pos : Nat]
    BY <1>1 DEF TypeOK, Fewer
  <2>2. inTurn' \in BOOLEAN /\ faults' \in 0..MaxFaults
    BY <1>1, FaultsFit DEF TypeOK
  <2> QED
    BY <1>1, <2>1, <2>2 DEF TypeOK, At
<1> QED
  BY <1>2, GoesKeeps, FewerKeeps DEF SortInv

\* A request that was answered has no locks, nor had one that does not reorder.
LEMMA LocksOf ==
  ASSUME SortInv
  PROVE  /\ TypeOK
         /\ \A i \in DOMAIN lock : /\ i \in DOMAIN rows /\ lock[i] \in Requests
                                   /\ At(lock[i], "reorder", "update")
                                   /\ \E k \in 1..req[lock[i]].at - 1 :
                                        req[lock[i]].list[k] = i
BY DEF SortInv, TypeOK

\* The steps, one by one.  The request arrives.
LEMMA BeginKeeps ==
  ASSUME SortInv, NEW r \in Requests, Begin(r)
  PROVE  SortInv'
<1>1. /\ TypeOK /\ LocalOK(r) /\ req[r].pc = "listed" /\ rows' = rows /\ lock' = lock
      /\ inTurn' = inTurn /\ Ok /\ req[r].at \in Nat \ {0} /\ GoOn(r, req[r].at)
  BY ListFacts DEF SortInv, Begin
<1>2. /\ req' \in [Requests -> Request]
      /\ \A x \in Requests : x # r => req'[x] = req[x]
      /\ req'[r].pc = "update" /\ req'[r].at = req[r].at /\ req'[r].op = req[r].op
      /\ req'[r].list = req[r].list /\ req'[r].row = req[r].row
  BY <1>1, MovedFields
<1>3. req[r].op = "reorder" /\ req[r].at = 1
  BY <1>1 DEF LocalOK, Fresh, Holding, Answered, Request, TypeOK
<1>4. Goes /\ Fewer /\ (Reordered' => Reordered)
  <2>1. 1 <= Len(req[r].list) + 1
    BY <1>1, ListFacts
  <2>2. Reordered' => Reordered
    BY <1>2 DEF Reordered, At
  <2> QED
    BY <1>1, <1>2, <1>3, <2>1, <2>2 DEF Goes, Fewer
<1>5. \A i \in DOMAIN lock : lock[i] # r
  BY <1>1, LocksOf DEF At
<1>6. ASSUME NEW x \in Requests PROVE LocksKept(x)'
  <2>1. CASE x = r
    <3>1. \A k \in DOMAIN req'[r].list : ~(k < req'[r].at)
      BY <1>2, <1>3, ListFacts, <1>1
    <3> QED
      BY <2>1, <3>1 DEF LocksKept
  <2>2. CASE x # r
    BY <2>2, <1>1, <1>2 DEF SortInv, LocksKept, At
  <2> QED
    BY <2>1, <2>2
<1>7. \A i \in DOMAIN lock : req'[lock[i]] = req[lock[i]]
  BY <1>2, <1>5, LocksOf
<1> QED
  BY <1>1, <1>4, <1>6, <1>7, LocksOf, FewerStep DEF At

\* A row is locked, or passed over.
LEMMA UpdateRowKeeps ==
  ASSUME SortInv, NEW r \in Requests, UpdateRow(r)
  PROVE  SortInv'
<1> DEFINE i == NextRow(r)
           at == req[r].at
<1>1. /\ TypeOK /\ rows' = rows /\ inTurn' = inTurn /\ Ok /\ i # None
      /\ at \in Nat \ {0} /\ at + 1 \in Nat \ {0} /\ GoOn(r, at + 1)
  BY ListFacts DEF SortInv, UpdateRow
<1>2. At(r, "reorder", "update") /\ at \in DOMAIN req[r].list /\ i = req[r].list[at]
  BY <1>1 DEF NextRow
<1> HIDE DEF i, at
<1>3. /\ req' \in [Requests -> Request]
      /\ \A x \in Requests : x # r => req'[x] = req[x]
      /\ req'[r].pc = "update" /\ req'[r].at = at + 1 /\ req'[r].op = req[r].op
      /\ req'[r].list = req[r].list /\ req'[r].row = req[r].row
  BY <1>1, MovedFields
<1>4. Goes /\ Fewer /\ (Reordered' => Reordered)
  <2>1. at + 1 <= Len(req[r].list) + 1
    BY <1>1, <1>2, ListFacts
  <2>2. Reordered' => Reordered
    BY <1>3 DEF Reordered, At
  <2> QED
    BY <1>1, <1>2, <1>3, <2>1, <2>2 DEF Goes, Fewer, At, Working
<1>5. at = req[r].at
  BY DEF at
<1>6. ASSUME NEW j \in DOMAIN lock
      PROVE  /\ lock[j] \in Requests
             /\ req'[lock[j]].op = "reorder" /\ req'[lock[j]].pc = "update"
             /\ \E k \in 1..req'[lock[j]].at - 1 : req'[lock[j]].list[k] = j
  <2>1. PICK k \in 1..req[lock[j]].at - 1 : req[lock[j]].list[k] = j
    BY LocksOf
  <2>2. lock[j] \in Requests /\ At(lock[j], "reorder", "update")
    BY LocksOf
  <2>3. CASE lock[j] = r
    <3>1. k \in 1..req'[r].at - 1
      BY <2>1, <2>3, <1>1, <1>3, <1>5
    <3> QED
      BY <2>1, <2>3, <3>1, <1>2, <1>3 DEF At
  <2>4. CASE lock[j] # r
    BY <2>1, <2>2, <2>4, <1>3 DEF At
  <2> QED
    BY <2>3, <2>4
<1>7. CASE /\ i \in DOMAIN rows /\ i \notin DOMAIN lock
           /\ lock' = [j \in DOMAIN lock \cup {i} |-> IF j = i THEN r ELSE lock[j]]
  <2>1. /\ DOMAIN lock' = DOMAIN lock \cup {i} /\ lock'[i] = r
        /\ \A j \in DOMAIN lock : lock'[j] = lock[j]
    BY <1>7
  <2>2. at \in 1..req'[r].at - 1 /\ req'[r].list[at] = i
    BY <1>1, <1>2, <1>3
  <2>3. ASSUME NEW x \in Requests PROVE LocksKept(x)'
    <3>1. LocksKept(x)
      BY DEF SortInv
    <3>2. CASE x = r
      <4> SUFFICES ASSUME NEW k \in DOMAIN req[r].list, k < at + 1,
                          req[r].list[k] \in DOMAIN rows
                   PROVE  req[r].list[k] \in DOMAIN lock' /\ lock'[req[r].list[k]] = r
        BY <3>2, <1>1, <1>3 DEF LocksKept
      <4>1. k = at \/ k < at
        BY <1>1, ListFacts
      <4>2. CASE k = at
        BY <4>2, <2>1, <1>2
      <4>3. CASE k < at
        BY <4>3, <3>1, <3>2, <2>1, <1>2, <1>5 DEF LocksKept
      <4> QED
        BY <4>1, <4>2, <4>3
    <3>3. CASE x # r
      BY <3>1, <3>3, <2>1, <1>1, <1>3 DEF LocksKept, At
    <3> QED
      BY <3>2, <3>3
  <2>4. \A j \in DOMAIN lock' :
          /\ lock'[j] \in Requests
          /\ req'[lock'[j]].op = "reorder" /\ req'[lock'[j]].pc = "update"
          /\ \E k \in 1..req'[lock'[j]].at - 1 : req'[lock'[j]].list[k] = j
    <3>1. req'[r].op = "reorder" /\ req'[r].pc = "update"
      BY <1>2, <1>3 DEF At
    <3> QED
      BY <2>1, <2>2, <3>1, <1>6
  <2>5. DOMAIN lock' \subseteq DOMAIN rows'
    BY <2>1, <1>1, <1>7, LocksOf
  <2> QED
    BY <2>3, <2>4, <2>5, <1>1, <1>4, FewerStep
<1>8. CASE i \notin DOMAIN rows /\ lock' = lock
  <2>1. ASSUME NEW x \in Requests PROVE LocksKept(x)'
    <3>1. LocksKept(x)
      BY DEF SortInv
    <3>2. CASE x = r
      <4> SUFFICES ASSUME NEW k \in DOMAIN req[r].list, k < at + 1,
                          req[r].list[k] \in DOMAIN rows
                   PROVE  req[r].list[k] \in DOMAIN lock /\ lock[req[r].list[k]] = r
        BY <3>2, <1>1, <1>3, <1>8 DEF LocksKept
      <4>1. k < at
        BY <1>1, <1>2, <1>8, ListFacts
      <4> QED
        BY <4>1, <3>1, <3>2, <1>2, <1>5 DEF LocksKept
    <3>3. CASE x # r
      BY <3>1, <3>3, <1>1, <1>3, <1>8 DEF LocksKept, At
    <3> QED
      BY <3>2, <3>3
  <2>2. \A j \in DOMAIN lock' :
          /\ lock'[j] \in Requests
          /\ req'[lock'[j]].op = "reorder" /\ req'[lock'[j]].pc = "update"
          /\ \E k \in 1..req'[lock'[j]].at - 1 : req'[lock'[j]].list[k] = j
    BY <1>6, <1>8 DEF At
  <2>3. DOMAIN lock' \subseteq DOMAIN rows'
    BY <1>1, <1>8, LocksOf
  <2> QED
    BY <2>1, <2>2, <2>3, <1>1, <1>4, FewerStep
<1> QED
  BY <1>7, <1>8 DEF UpdateRow, i
\* A transaction ends, and lets go of what it has locked.
LEMMA UnlockKeeps ==
  ASSUME SortInv, NEW r \in Requests, At(r, "reorder", "update"),
         NEW pc \in Answered, Answer(r, pc), Unlock(r), DOMAIN rows' = DOMAIN rows
  PROVE  /\ Goes /\ req'[r].pc = pc /\ \A x \in Requests : x # r => req'[x] = req[x]
         /\ req'[r].op = "reorder"
         /\ DOMAIN lock' \subseteq DOMAIN rows'
         /\ \A j \in DOMAIN lock' :
              /\ lock'[j] \in Requests
              /\ req'[lock'[j]].op = "reorder" /\ req'[lock'[j]].pc = "update"
              /\ \E k \in 1..req'[lock'[j]].at - 1 : req'[lock'[j]].list[k] = j
         /\ \A x \in Requests : LocksKept(x)'
<1>1. /\ TypeOK /\ req[r].op = "reorder" /\ req[r].pc = "update"
  BY DEF SortInv, At
<1>2. /\ req' \in [Requests -> Request]
      /\ \A x \in Requests : x # r => req'[x] = req[x]
      /\ req'[r].pc = pc /\ req'[r].at = 1 /\ req'[r].op = req[r].op
      /\ req'[r].list = <<>> /\ req'[r].row = req[r].row
  BY <1>1, AnswerFields
<1>3. Goes
  BY <1>1, <1>2 DEF Goes, Working
<1>4. /\ DOMAIN lock' = {i \in DOMAIN lock : lock[i] # r}
      /\ \A i \in DOMAIN lock' : lock'[i] = lock[i]
  BY DEF Unlock, Held
<1>5. \A j \in DOMAIN lock' :
        /\ lock'[j] \in Requests
        /\ req'[lock'[j]].op = "reorder" /\ req'[lock'[j]].pc = "update"
        /\ \E k \in 1..req'[lock'[j]].at - 1 : req'[lock'[j]].list[k] = j
  <2> SUFFICES ASSUME NEW j \in DOMAIN lock, lock[j] # r
               PROVE  /\ lock[j] \in Requests
                      /\ req'[lock[j]].op = "reorder" /\ req'[lock[j]].pc = "update"
                      /\ \E k \in 1..req'[lock[j]].at - 1 : req'[lock[j]].list[k] = j
    BY <1>4
  <2>1. req'[lock[j]] = req[lock[j]]
    BY <1>2, LocksOf
  <2> QED
    BY <2>1, LocksOf DEF At
<1>6. ASSUME NEW x \in Requests PROVE LocksKept(x)'
  <2>1. LocksKept(x)
    BY DEF SortInv
  <2>2. CASE x = r
    BY <2>2, <1>2 DEF LocksKept, At, Answered
  <2>3. CASE x # r
    <3>1. req'[x] = req[x]
      BY <1>2, <2>3
    <3> SUFFICES ASSUME At(x, "reorder", "update"), NEW k \in DOMAIN req[x].list,
                        k < req[x].at, req[x].list[k] \in DOMAIN rows
                 PROVE  req[x].list[k] \in DOMAIN lock' /\ lock'[req[x].list[k]] = x
      BY <3>1 DEF LocksKept, At
    <3>2. req[x].list[k] \in DOMAIN lock /\ lock[req[x].list[k]] = x
      BY <2>1 DEF LocksKept
    <3> QED
      BY <3>2, <2>3, <1>4
  <2> QED
    BY <2>2, <2>3
<1>7. DOMAIN lock' \subseteq DOMAIN rows'
  BY <1>4, LocksOf
<1> QED
  BY <1>1, <1>2, <1>3, <1>5, <1>6, <1>7

\* ... before it has written anything.
LEMMA AbortKeeps ==
  ASSUME SortInv, NEW r \in Requests, At(r, "reorder", "update"), Abort(r), Ok \/ Fault
  PROVE  SortInv'
<1>1. Answer(r, "error") /\ Unlock(r) /\ rows' = rows /\ inTurn' = inTurn /\ "error" \in Answered
  BY DEF Abort, Answered
<1>2. Fewer /\ DOMAIN rows' = DOMAIN rows
  BY <1>1 DEF Fewer
<1>3. Reordered' => Reordered
  <2>1. TypeOK
    BY DEF SortInv
  <2> QED
    BY <1>1, <2>1, AnswerFields DEF Reordered, At
<1> QED
  BY <1>1, <1>2, <1>3, UnlockKeeps, FewerStep

\* Who is waited for has a lock, so it reorders.
LEMMA DeadlockKeeps ==
  ASSUME SortInv, NEW r \in Requests, Deadlock(r)
  PROVE  SortInv'
<1>1. PICK ring \in SUBSET Requests : r \in ring /\ {Blocker(q) : q \in ring} = ring
  BY DEF Deadlock
<1>2. PICK q \in ring : r = Blocker(q)
  BY <1>1
<1>3. NextRow(q) \in DOMAIN lock /\ r = lock[NextRow(q)]
  BY <1>2, SortOrderAssumption DEF Blocker
<1>4. At(r, "reorder", "update")
  BY <1>3, LocksOf
<1> QED
  BY <1>4, AbortKeeps DEF Deadlock

LEMMA UpdateFailsKeeps ==
  ASSUME SortInv, NEW r \in Requests, UpdateFails(r)
  PROVE  SortInv'
BY AbortKeeps DEF UpdateFails
----------------------------------------------------------------------------
\* At the end a transaction has locked the rows of its list that are there.
LEMMA HeldRows ==
  ASSUME SortInv, NEW r \in Requests, At(r, "reorder", "update"),
         req[r].at \notin DOMAIN req[r].list
  PROVE  Held(r) = Listed(r) \cap DOMAIN rows
<1>1. TypeOK /\ req[r].at <= Len(req[r].list) + 1 /\ LocksKept(r)
  BY DEF SortInv, LocalOK
<1>2. /\ req[r].at \in Nat \ {0} /\ Len(req[r].list) \in Nat
      /\ DOMAIN req[r].list = 1..Len(req[r].list)
  BY <1>1, ListFacts
<1>3. req[r].at = Len(req[r].list) + 1
  BY <1>1, <1>2
<1>4. ASSUME NEW i \in Held(r) PROVE i \in Listed(r) /\ i \in DOMAIN rows
  <2>1. i \in DOMAIN lock /\ lock[i] = r
    BY DEF Held
  <2>2. PICK k \in 1..req[r].at - 1 : req[r].list[k] = i
    BY <2>1, LocksOf
  <2>3. k \in DOMAIN req[r].list
    BY <1>2, <1>3
  <2> QED
    BY <2>1, <2>2, <2>3, LocksOf DEF Listed
<1>5. ASSUME NEW i \in Listed(r), i \in DOMAIN rows PROVE i \in Held(r)
  <2>1. PICK k \in DOMAIN req[r].list : req[r].list[k] = i
    BY DEF Listed
  <2>2. k < req[r].at
    BY <1>2, <1>3
  <2> QED
    BY <1>1, <1>5, <2>1, <2>2 DEF LocksKept, Held
<1> QED
  BY <1>4, <1>5

\* What it writes is the place of each of them in the list.
LEMMA WrittenRows ==
  ASSUME SortInv, NEW r \in Requests, At(r, "reorder", "update"),
         req[r].at \notin DOMAIN req[r].list
  PROVE  /\ DOMAIN Written(r) = DOMAIN rows
         /\ \A i \in DOMAIN rows :
              Written(r)[i] = IF i \in Listed(r) THEN Placed(r, i) ELSE rows[i]
         /\ \A i \in DOMAIN rows : /\ Written(r)[i].group = rows[i].group
                                   /\ Written(r)[i] \in NewRow
         /\ \A i \in DOMAIN rows : i \in Listed(r) => Written(r)[i].pos = Place(r, i)
<1>1. Held(r) = Listed(r) \cap DOMAIN rows
  BY HeldRows
<1>2. TypeOK
  BY DEF SortInv
<1>3. /\ DOMAIN Written(r) = DOMAIN rows
      /\ \A i \in DOMAIN rows :
           Written(r)[i] = IF i \in Listed(r) THEN Placed(r, i) ELSE rows[i]
  BY <1>1 DEF Written
<1>4. ASSUME NEW i \in DOMAIN rows, i \in Listed(r)
      PROVE  Placed(r, i) \in NewRow /\ Placed(r, i).group = rows[i].group
             /\ Placed(r, i).pos = Place(r, i)
  <2>1. Place(r, i) \in Nat
    BY <1>2, <1>4, ListFacts
  <2>2. rows[i].group \in Ids
    BY <1>2 DEF TypeOK
  <2> QED
    BY <2>1, <2>2 DEF Placed, NewRow
<1>5. \A i \in DOMAIN rows : rows[i] \in NewRow
  BY <1>2 DEF TypeOK, NewRow
<1> QED
  BY <1>3, <1>4, <1>5
\* Whoever places rows in turn is the only one to, so nothing is promised of
\* a list or a new row when it is done.
LEMMA NobodyPlaces ==
  ASSUME SortInv, NEW r \in Requests, r \in Placing, Placing' \subseteq Placing,
         r \notin Placing', inTurn' = inTurn,
         req' \in [Requests -> Request]
  PROVE  \A x \in Requests : ListComplete(x)' /\ RowFits(x)'
<1>1. inTurn => Placing' = {}
  BY DEF SortInv, OneAtATime
<1>2. ASSUME NEW x \in Requests, inTurn
      PROVE  /\ ~(req'[x].op = "reorder" /\ req'[x].pc \in {"listed", "update"})
             /\ ~(req'[x].op = "create" /\ req'[x].pc = "insert")
  BY <1>1, <1>2 DEF Placing, Working
<1> QED
  BY <1>2 DEF ListComplete, RowFits, At

\* The order that was asked for is the order there is.
LEMMA WrittenInOrder ==
  ASSUME SortInv, NEW r \in Requests, At(r, "reorder", "update"),
         req[r].at \notin DOMAIN req[r].list, inTurn, rows' = Written(r)
  PROVE  /\ \A i, j \in DOMAIN rows' :
              rows'[i].pos = rows'[j].pos => rows'[i].group = rows'[j].group
         /\ \A i, j, k \in DOMAIN rows' :
              /\ rows'[i].group = rows'[k].group
              /\ rows'[i].pos < rows'[j].pos /\ rows'[j].pos < rows'[k].pos
              => rows'[j].group = rows'[i].group
<1>1. TypeOK /\ ListComplete(r)
  BY DEF SortInv
<1>2. /\ DOMAIN rows \subseteq Listed(r)
      /\ \A i, j, k \in DOMAIN req[r].list :
           /\ {req[r].list[i], req[r].list[j], req[r].list[k]} \subseteq DOMAIN rows
           /\ i < j /\ j < k
           /\ rows[req[r].list[i]].group = rows[req[r].list[k]].group
           => rows[req[r].list[j]].group = rows[req[r].list[i]].group
  BY <1>1 DEF ListComplete, At
<1>3. /\ DOMAIN rows' = DOMAIN rows
      /\ \A i \in DOMAIN rows : /\ rows'[i].group = rows[i].group
                                /\ rows'[i].pos = Place(r, i)
  BY <1>2, WrittenRows
<1>4. \A i \in DOMAIN rows : /\ Place(r, i) + 1 \in DOMAIN req[r].list
                             /\ req[r].list[Place(r, i) + 1] = i
                             /\ Place(r, i) \in Nat
  BY <1>1, <1>2, ListFacts
<1>5. ASSUME NEW i \in DOMAIN rows, NEW j \in DOMAIN rows, Place(r, i) = Place(r, j)
      PROVE  i = j
  BY <1>4, <1>5
<1>6. ASSUME NEW i \in DOMAIN rows, NEW j \in DOMAIN rows, NEW k \in DOMAIN rows,
             rows[i].group = rows[k].group,
             Place(r, i) < Place(r, j), Place(r, j) < Place(r, k)
      PROVE  rows[j].group = rows[i].group
  <2>1. /\ Place(r, i) + 1 < Place(r, j) + 1 /\ Place(r, j) + 1 < Place(r, k) + 1
    BY <1>4, <1>6
  <2>2. \A x, y, z \in DOMAIN req[r].list :
          req[r].list[x] = i /\ req[r].list[y] = j /\ req[r].list[z] = k
          /\ x < y /\ y < z => rows[j].group = rows[i].group
    BY <1>2, <1>6
  <2> QED
    BY <1>4, <2>1, <2>2
<1> QED
  BY <1>3, <1>5, <1>6

\* The transaction commits.
LEMMA CommitWrites ==
  ASSUME SortInv, NEW r \in Requests, At(r, "reorder", "update"),
         req[r].at \notin DOMAIN req[r].list, NEW pc \in Answered, Answer(r, pc),
         rows' = Written(r), Unlock(r), inTurn' = inTurn, Ok \/ Fault
  PROVE  SortInv'
<1>1. /\ DOMAIN rows' = DOMAIN rows
      /\ \A i \in DOMAIN rows :
           rows'[i] = IF i \in Listed(r) THEN Placed(r, i) ELSE rows[i]
      /\ \A i \in DOMAIN rows : rows'[i] \in NewRow
      /\ \A i \in DOMAIN rows : i \in Listed(r) => rows'[i].pos = Place(r, i)
  BY WrittenRows
<1>2. /\ Goes /\ req'[r].pc = pc
      /\ DOMAIN lock' \subseteq DOMAIN rows'
      /\ \A j \in DOMAIN lock' :
           /\ lock'[j] \in Requests
           /\ req'[lock'[j]].op = "reorder" /\ req'[lock'[j]].pc = "update"
           /\ \E k \in 1..req'[lock'[j]].at - 1 : req'[lock'[j]].list[k] = j
      /\ \A x \in Requests : LocksKept(x)'
  BY <1>1, UnlockKeeps
<1>3. /\ TypeOK /\ req' \in [Requests -> Request]
  BY <1>2 DEF SortInv, Goes
<1>4. /\ \A x \in Requests : LocalOK(x)' /\ ListsFit(x)'
      /\ OneAtATime' /\ Placing' \subseteq Placing
      /\ \A x \in Requests : req[x].pc \in Answered => req'[x] = req[x]
  BY <1>2, GoesKeeps
<1>5. TypeOK'
  <2>1. /\ DOMAIN rows' \subseteq Ids /\ inTurn' \in BOOLEAN /\ faults' \in 0..MaxFaults
    BY <1>1, <1>3, FaultsFit DEF TypeOK
  <2>2. \A i \in DOMAIN rows' : rows'[i] \in [group : Ids, pos : Nat]
    BY <1>1 DEF NewRow
  <2> QED
    BY <1>2, <1>3, <2>1, <2>2 DEF TypeOK, At
<1>6. RowsNamed' /\ RowsFinite'
  <2>1. RowsNamed'
    BY <1>1, <1>4 DEF SortInv, RowsNamed, Answered
  <2> QED
    BY <2>1, <1>1 DEF SortInv, RowsFinite
<1>7. Bounded'
  <2>1. PICK b \in Nat : \A i \in DOMAIN rows : rows[i].pos <= b
    BY DEF SortInv, Bounded
  <2>2. /\ Len(req[r].list) \in Nat /\ DOMAIN req[r].list = 1..Len(req[r].list)
        /\ \A i \in Listed(r) : /\ Place(r, i) + 1 \in DOMAIN req[r].list
                                /\ Place(r, i) \in Nat
    BY <1>3, ListFacts
  <2>3. ASSUME NEW i \in DOMAIN rows PROVE rows'[i].pos <= b + Len(req[r].list)
    <3>1. CASE i \in Listed(r)
      BY <3>1, <2>2, <1>1
    <3>2. CASE i \notin Listed(r)
      <4>1. rows'[i] = rows[i] /\ rows[i].pos \in Nat /\ rows[i].pos <= b
        BY <3>2, <1>1, <1>3, <2>1 DEF TypeOK
      <4> QED
        BY <4>1, <2>2
    <3> QED
      BY <3>1, <3>2
  <2>4. b + Len(req[r].list) \in Nat
    BY <2>2
  <2> QED
    BY <2>3, <2>4, <1>1 DEF Bounded
<1>8. DisorderNeedsOverlap'
  <2>1. TiesNeedOverlap'
    BY WrittenInOrder DEF TiesNeedOverlap
  <2>2. SplitsNeedOverlap'
    BY WrittenInOrder DEF SplitsNeedOverlap
  <2> QED
    BY <2>1, <2>2 DEF DisorderNeedsOverlap
<1>9. \A x \in Requests : ListComplete(x)' /\ RowFits(x)'
  <2>1. r \in Placing
    BY DEF At, Placing, Working
  <2>2. r \notin Placing'
    BY <1>2 DEF Placing, Answered, Working
  <2> QED
    BY <2>1, <2>2, <1>3, <1>4, NobodyPlaces
<1> QED
  BY <1>2, <1>4, <1>5, <1>6, <1>7, <1>8, <1>9 DEF SortInv

LEMMA CommitKeeps ==
  ASSUME SortInv, NEW r \in Requests, Commit(r)
  PROVE  SortInv'
<1>1. /\ At(r, "reorder", "update") /\ req[r].at \notin DOMAIN req[r].list
      /\ Unlock(r) /\ inTurn' = inTurn /\ "ok" \in Answered /\ "error" \in Answered
  BY DEF Commit, Answered
<1>2. CASE rows' = rows /\ Answer(r, "error") /\ Fault
  BY <1>1, <1>2, AbortKeeps DEF Abort
<1>3. CASE rows' = Written(r) /\ Answer(r, "error") /\ Fault
  BY <1>1, <1>3, CommitWrites
<1>4. CASE rows' = Written(r) /\ Answer(r, "ok") /\ Ok
  BY <1>1, <1>4, CommitWrites
<1> QED
  BY <1>2, <1>3, <1>4 DEF Commit
----------------------------------------------------------------------------
\* An INSERT or a DELETE is answered, and locks are as they were.
LEMMA AnswerKeepsLocks ==
  ASSUME SortInv, NEW r \in Requests, req[r].op # "reorder", req[r].pc \in Working,
         NEW pc \in Answered, Answer(r, pc), lock' = lock, DOMAIN lock \subseteq DOMAIN rows',
         \A i \in DOMAIN rows' : i \in DOMAIN rows \/ i = r
  PROVE  /\ Goes /\ req'[r].pc = pc /\ \A x \in Requests : x # r => req'[x] = req[x]
         /\ req'[r].op = req[r].op /\ (Reordered' => Reordered)
         /\ DOMAIN lock' \subseteq DOMAIN rows'
         /\ \A j \in DOMAIN lock' :
              /\ lock'[j] \in Requests
              /\ req'[lock'[j]].op = "reorder" /\ req'[lock'[j]].pc = "update"
              /\ \E k \in 1..req'[lock'[j]].at - 1 : req'[lock'[j]].list[k] = j
         /\ \A x \in Requests : LocksKept(x)'
<1>1. TypeOK
  BY DEF SortInv
<1>2. /\ req' \in [Requests -> Request]
      /\ \A x \in Requests : x # r => req'[x] = req[x]
      /\ req'[r].pc = pc /\ req'[r].at = 1 /\ req'[r].op = req[r].op
      /\ req'[r].list = <<>> /\ req'[r].row = req[r].row
  BY <1>1, AnswerFields
<1>3. Goes /\ (Reordered' => Reordered)
  <2>1. Reordered' => Reordered
    BY <1>2 DEF Reordered, At
  <2> QED
    BY <1>2, <2>1 DEF Goes
<1>4. ASSUME NEW j \in DOMAIN lock
      PROVE  /\ lock[j] \in Requests
             /\ req'[lock[j]].op = "reorder" /\ req'[lock[j]].pc = "update"
             /\ \E k \in 1..req'[lock[j]].at - 1 : req'[lock[j]].list[k] = j
  <2>1. lock[j] # r
    BY LocksOf DEF At
  <2>2. req'[lock[j]] = req[lock[j]]
    BY <1>2, <2>1, LocksOf
  <2> QED
    BY <2>2, LocksOf DEF At
<1>5. ASSUME NEW x \in Requests PROVE LocksKept(x)'
  <2>1. LocksKept(x) /\ ListsFit(x)
    BY DEF SortInv
  <2>2. CASE x = r
    BY <2>2, <1>2 DEF LocksKept, At
  <2>3. CASE x # r
    <3>1. req'[x] = req[x]
      BY <1>2, <2>3
    <3> SUFFICES ASSUME At(x, "reorder", "update"), NEW k \in DOMAIN req[x].list,
                        k < req[x].at, req[x].list[k] \in DOMAIN rows'
                 PROVE  req[x].list[k] \in DOMAIN lock /\ lock[req[x].list[k]] = x
      BY <3>1 DEF LocksKept, At
    <3>2. req[x].list[k] # r
      BY <2>1 DEF ListsFit, At, Working
    <3> QED
      BY <2>1, <3>2 DEF LocksKept
  <2> QED
    BY <2>2, <2>3
<1> QED
  BY <1>2, <1>3, <1>4, <1>5

\* The new row fits in.
LEMMA InsertedInOrder ==
  ASSUME SortInv, NEW r \in Requests, At(r, "create", "insert"), inTurn, r \notin DOMAIN rows,
         DOMAIN rows' = DOMAIN rows \cup {r}, rows'[r] = req[r].row,
         \A i \in DOMAIN rows : rows'[i] = rows[i], req[r].row.pos \in Nat
  PROVE  /\ \A i, j \in DOMAIN rows' :
              rows'[i].pos = rows'[j].pos => rows'[i].group = rows'[j].group
         /\ \A i, j, k \in DOMAIN rows' :
              /\ rows'[i].group = rows'[k].group
              /\ rows'[i].pos < rows'[j].pos /\ rows'[j].pos < rows'[k].pos
              => \/ rows'[j].group = rows'[i].group
                 \/ LeftApart(rows'[i].group, rows'[j].group)
<1> DEFINE new == req[r].row
<1>1. /\ \A i \in DOMAIN rows : rows[i].pos = new.pos => rows[i].group = new.group
      /\ \A i, k \in DOMAIN rows :
           /\ rows[i].group = rows[k].group
           /\ rows[i].pos < new.pos /\ new.pos < rows[k].pos
           => new.group = rows[i].group \/ LeftApart(rows[i].group, new.group)
      /\ \A i, j \in DOMAIN rows :
           /\ rows[i].group = new.group
           /\ \/ rows[i].pos < rows[j].pos /\ rows[j].pos < new.pos
              \/ new.pos < rows[j].pos /\ rows[j].pos < rows[i].pos
           => rows[j].group = new.group \/ LeftApart(new.group, rows[j].group)
  BY DEF SortInv, RowFits
<1>2. /\ \A i, j \in DOMAIN rows : rows[i].pos = rows[j].pos => rows[i].group = rows[j].group
      /\ \A i, j, k \in DOMAIN rows :
           /\ rows[i].group = rows[k].group
           /\ rows[i].pos < rows[j].pos /\ rows[j].pos < rows[k].pos
           => \/ rows[j].group = rows[i].group
              \/ LeftApart(rows[i].group, rows[j].group)
  BY DEF SortInv, DisorderNeedsOverlap, TiesNeedOverlap, SplitsNeedOverlap
<1>3. \A i \in DOMAIN rows : rows[i].pos \in Nat
  BY DEF SortInv, TypeOK
<1>4. rows'[r] = new /\ new.pos \in Nat
  OBVIOUS
<1> HIDE DEF new
<1>5. ASSUME NEW i \in DOMAIN rows', NEW j \in DOMAIN rows', rows'[i].pos = rows'[j].pos
      PROVE  rows'[i].group = rows'[j].group
  BY <1>1, <1>2, <1>4, <1>5
<1>6. ASSUME NEW i \in DOMAIN rows', NEW j \in DOMAIN rows', NEW k \in DOMAIN rows',
             rows'[i].group = rows'[k].group,
             rows'[i].pos < rows'[j].pos, rows'[j].pos < rows'[k].pos
      PROVE  \/ rows'[j].group = rows'[i].group
             \/ LeftApart(rows'[i].group, rows'[j].group)
  <2>1. CASE i \in DOMAIN rows /\ j \in DOMAIN rows /\ k \in DOMAIN rows
    BY <1>2, <1>6, <2>1
  <2>2. CASE j = r
    <3>1. i \in DOMAIN rows /\ k \in DOMAIN rows
      BY <1>4, <1>6, <2>2
    <3> QED
      BY <1>1, <1>4, <1>6, <2>2, <3>1
  <2>3. CASE j # r /\ i = r
    <3>1. k \in DOMAIN rows /\ j \in DOMAIN rows
      BY <1>3, <1>4, <1>6, <2>3
    <3> QED
      BY <1>1, <1>4, <1>6, <2>3, <3>1
  <2>4. CASE j # r /\ i # r /\ k = r
    <3>1. i \in DOMAIN rows /\ j \in DOMAIN rows
      BY <2>4
    <3> QED
      BY <1>1, <1>4, <1>6, <2>4, <3>1
  <2> QED
    BY <2>1, <2>2, <2>3, <2>4
<1> QED
  BY <1>5, <1>6

LEMMA InsertCommitKeeps ==
  ASSUME SortInv, NEW r \in Requests, InsertCommit(r)
  PROVE  SortInv'
<1>1. /\ TypeOK /\ At(r, "create", "insert") /\ lock' = lock /\ inTurn' = inTurn
      /\ "ok" \in Answered /\ "error" \in Answered /\ req[r].pc \in Working
      /\ req[r].op # "reorder" /\ req[r].row \in NewRow
      /\ DOMAIN lock \subseteq DOMAIN rows
  BY LocksOf DEF SortInv, InsertCommit, At, Answered, Working, LocalOK
<1>2. CASE Answer(r, "error") /\ Fault /\ rows' = rows
  <2>1. Fewer
    BY <1>2 DEF Fewer
  <2> QED
    BY <1>1, <1>2, <2>1, AnswerKeepsLocks, FewerStep
<1>3. CASE /\ rows' = [i \in DOMAIN rows \cup {r} |->
                         IF i = r THEN req[r].row ELSE rows[i]]
           /\ Answer(r, "ok") /\ Ok
  <2>1. r \notin DOMAIN rows
    BY <1>1 DEF SortInv, RowsNamed, At
  <2>2. /\ DOMAIN rows' = DOMAIN rows \cup {r} /\ rows'[r] = req[r].row
        /\ \A i \in DOMAIN rows : rows'[i] = rows[i]
    BY <1>3, <2>1
  <2>3. /\ Goes /\ req'[r].pc = "ok" /\ req'[r].op = req[r].op
        /\ (Reordered' => Reordered)
        /\ DOMAIN lock' \subseteq DOMAIN rows'
        /\ \A j \in DOMAIN lock' :
             /\ lock'[j] \in Requests
             /\ req'[lock'[j]].op = "reorder" /\ req'[lock'[j]].pc = "update"
             /\ \E k \in 1..req'[lock'[j]].at - 1 : req'[lock'[j]].list[k] = j
        /\ \A x \in Requests : LocksKept(x)'
    BY <1>1, <1>3, <2>2, AnswerKeepsLocks
  <2>4. req' \in [Requests -> Request]
    BY <2>3 DEF Goes
  <2>5. /\ \A x \in Requests : LocalOK(x)' /\ ListsFit(x)'
        /\ OneAtATime' /\ Placing' \subseteq Placing
        /\ \A x \in Requests : req[x].pc \in Answered => req'[x] = req[x]
    BY <1>1, <2>3, GoesKeeps
  <2>6. TypeOK'
    <3>1. /\ DOMAIN rows' \subseteq Ids /\ inTurn' \in BOOLEAN /\ faults' \in 0..MaxFaults
      BY <1>1, <1>3, <2>2, FaultsFit DEF TypeOK, Ids
    <3>2. \A i \in DOMAIN rows' : rows'[i] \in [group : Ids, pos : Nat]
      BY <1>1, <2>2 DEF NewRow, TypeOK
    <3> QED
      BY <2>3, <2>4, <3>1, <3>2 DEF TypeOK, At
  <2>7. RowsNamed'
    BY <1>1, <2>2, <2>3, <2>5 DEF SortInv, RowsNamed, Answered, At
  <2>8. RowsFinite'
    BY <2>2, FS_AddElement DEF SortInv, RowsFinite
  <2>9. Bounded'
    <3>1. PICK b \in Nat : \A i \in DOMAIN rows : rows[i].pos <= b
      BY DEF SortInv, Bounded
    <3>2. req[r].row.pos \in Nat /\ \A i \in DOMAIN rows : rows[i].pos \in Nat
      BY <1>1 DEF NewRow, TypeOK
    <3>3. /\ b + req[r].row.pos \in Nat
          /\ \A i \in DOMAIN rows' : rows'[i].pos <= b + req[r].row.pos
      BY <2>2, <3>1, <3>2
    <3> QED
      BY <3>3 DEF Bounded
  <2>10. DisorderNeedsOverlap'
    <3>1. req[r].row.pos \in Nat
      BY <1>1 DEF NewRow
    <3>2. TiesNeedOverlap'
      BY <1>1, <2>1, <2>2, <3>1, InsertedInOrder DEF TiesNeedOverlap
    <3>3. SplitsNeedOverlap'
      BY <1>1, <2>1, <2>2, <2>3, <3>1, InsertedInOrder DEF SplitsNeedOverlap, LeftApart
    <3> QED
      BY <3>2, <3>3 DEF DisorderNeedsOverlap
  <2>11. \A x \in Requests : ListComplete(x)' /\ RowFits(x)'
    <3>1. r \in Placing
      BY <1>1 DEF At, Placing, Working
    <3>2. r \notin Placing'
      BY <2>3 DEF Placing, Answered, Working
    <3> QED
      BY <1>1, <2>4, <2>5, <3>1, <3>2, NobodyPlaces
  <2> QED
    BY <2>3, <2>5, <2>6, <2>7, <2>8, <2>9, <2>10, <2>11 DEF SortInv
<1> QED
  BY <1>2, <1>3 DEF InsertCommit

\* A row goes that nobody has locked.
LEMMA DeleteRowKeeps ==
  ASSUME SortInv, NEW r \in Requests, DeleteRow(r)
  PROVE  SortInv'
<1> DEFINE i == req[r].list[1]
<1>1. /\ At(r, "delete", "delete") /\ lock' = lock /\ inTurn' = inTurn
      /\ "ok" \in Answered /\ "error" \in Answered /\ req[r].pc \in Working
      /\ req[r].op # "reorder" /\ DOMAIN lock \subseteq DOMAIN rows
  BY LocksOf DEF SortInv, DeleteRow, At, Answered, Working
<1>2. PICK pc \in {"ok", "error"} :
        /\ Answer(r, pc) /\ (Ok \/ Fault)
        /\ \/ rows' = rows
           \/ i \notin DOMAIN lock /\ rows' = [j \in DOMAIN rows \ {i} |-> rows[j]]
  BY DEF DeleteRow
<1> HIDE DEF i
<1>3. Fewer /\ DOMAIN lock \subseteq DOMAIN rows'
  BY <1>1, <1>2 DEF Fewer
<1>4. pc \in Answered /\ \A j \in DOMAIN rows' : j \in DOMAIN rows \/ j = r
  BY <1>1, <1>2, <1>3 DEF Fewer
<1> QED
  BY <1>1, <1>2, <1>3, <1>4, AnswerKeepsLocks, FewerStep

\* The process stops, and nobody has a lock any more.
LEMMA CrashKeeps ==
  ASSUME SortInv, Crash
  PROVE  SortInv'
<1>1. /\ TypeOK /\ rows' = rows /\ inTurn' = inTurn /\ Fault
      /\ lock' = [i \in {} |-> None]
      /\ req' = [r \in Requests |->
                   IF req[r].pc \in Working THEN Done(r, "lost") ELSE req[r]]
  BY DEF SortInv, Crash
<1>2. Goes /\ (Reordered' => Reordered)
  <2>1. ASSUME NEW x \in Requests
        PROVE  /\ req'[x] \in Request
               /\ \/ req'[x] = req[x]
                  \/ /\ req'[x].op = req[x].op /\ req'[x].row = req[x].row
                     /\ req[x].pc \in Working \cup {"listed"} /\ req'[x].pc = "lost"
                     /\ req'[x].list = <<>> /\ req'[x].at = 1
    <3>1. req[x] \in Request
      BY <1>1 DEF TypeOK
    <3>2. CASE req[x].pc \in Working
      BY <1>1, <3>2, DoneHeld DEF Answered
    <3>3. CASE req[x].pc \notin Working
      BY <1>1, <3>1, <3>3
    <3> QED
      BY <3>2, <3>3
  <2>2. req' \in [Requests -> Request]
    BY <1>1, <2>1
  <2>3. Reordered' => Reordered
    BY <2>1 DEF Reordered, At
  <2> QED
    BY <2>1, <2>2, <2>3 DEF Goes, Answered
<1>3. Fewer
  BY <1>1 DEF Fewer
<1>4. DOMAIN lock' = {}
  BY <1>1
<1>5. ASSUME NEW x \in Requests PROVE LocksKept(x)'
  <2>1. req'[x].pc # "update"
    <3>1. CASE req[x].pc \in Working
      BY <1>1, <3>1 DEF Done, Holding
    <3>2. CASE req[x].pc \notin Working
      BY <1>1, <3>2 DEF Working
    <3> QED
      BY <3>1, <3>2
  <2> QED
    BY <2>1 DEF LocksKept, At
<1> QED
  BY <1>1, <1>2, <1>3, <1>4, <1>5, FewerStep
----------------------------------------------------------------------------
\* A request begins: what holds of the rows and of the others still does, and
\* if it places rows in turn, nobody else does.
LEMMA OpensKeeps ==
  ASSUME SortInv, NEW r \in Requests, NEW pc \in {"listed", "insert", "delete"},
         NEW op \in {"reorder", "create", "delete"}, NEW list \in Seq(Ids),
         NEW row \in NewRow \cup {None}, Open(r, pc, op, list, row),
         /\ op = "reorder" <=> pc = "listed"
         /\ op = "create" <=> pc = "insert"
         /\ op = "create" => row \in NewRow
         /\ op = "reorder" =>
              /\ \A j, k \in DOMAIN list : list[j] = list[k] => j = k
              /\ \A k \in DOMAIN list : list[k] \in DOMAIN rows,
         rows' = rows, lock' = lock, Ok,
         \/ Alone
         \/ op = "delete" /\ inTurn' = inTurn
  PROVE  /\ TypeOK' /\ RowsNamed' /\ RowsFinite' /\ Bounded'
         /\ OneAtATime' /\ DisorderNeedsOverlap' /\ (inTurn' => inTurn)
         /\ (Reordered' => Reordered)
         /\ \A x \in Requests : LocalOK(x)' /\ ListsFit(x)' /\ LocksKept(x)'
         /\ \A x \in Requests : x # r => ListComplete(x)' /\ RowFits(x)'
<1>1. TypeOK /\ faults' = faults
  BY DEF SortInv, Ok
<1>2. /\ req' \in [Requests -> Request]
      /\ \A x \in Requests : x # r => req'[x] = req[x]
      /\ req[r].pc = "idle" /\ req'[r].pc = pc /\ req'[r].at = 1 /\ req'[r].op = op
      /\ req'[r].list = list /\ req'[r].row = row
  BY <1>1, OpenFields
<1>12. Reordered' => Reordered
  BY <1>2 DEF Reordered, At
<1>3. /\ inTurn \in BOOLEAN /\ inTurn' \in BOOLEAN /\ (inTurn' => inTurn)
      /\ inTurn' /\ op # "delete" => Placing = {}
  <2>1. inTurn \in BOOLEAN
    BY <1>1 DEF TypeOK
  <2>2. CASE Alone
    BY <2>1, <2>2, Zenon DEF Alone
  <2>3. CASE op = "delete" /\ inTurn' = inTurn
    BY <2>1, <2>3
  <2> QED
    BY <2>2, <2>3
<1>4. \A j \in DOMAIN lock : /\ lock[j] \in Requests /\ req'[lock[j]] = req[lock[j]]
  BY <1>2, LocksOf DEF At
<1>5. TypeOK'
  <2>1. \A j \in DOMAIN lock' :
          /\ lock'[j] \in Requests
          /\ req'[lock'[j]].op = "reorder" /\ req'[lock'[j]].pc = "update"
          /\ \E k \in 1..req'[lock'[j]].at - 1 : req'[lock'[j]].list[k] = j
    BY <1>4, LocksOf DEF At
  <2> QED
    BY <1>1, <1>2, <1>3, <2>1 DEF TypeOK, At
<1>6. RowsNamed' /\ RowsFinite' /\ Bounded'
  <2>1. RowsNamed'
    <3>1. \A i \in DOMAIN rows : i \in Requests => req'[i] = req[i]
      BY <1>2 DEF SortInv, RowsNamed
    <3> QED
      BY <3>1 DEF SortInv, RowsNamed
  <2> QED
    BY <2>1 DEF SortInv, RowsFinite, Bounded
<1>7. Placing' \subseteq Placing \cup {r} /\ (op = "delete" => Placing' \subseteq Placing)
  BY <1>2 DEF Placing
<1>8. OneAtATime'
  BY <1>3, <1>7 DEF SortInv, OneAtATime
<1>9. DisorderNeedsOverlap'
  <2>1. TiesNeedOverlap'
    BY <1>3 DEF SortInv, DisorderNeedsOverlap, TiesNeedOverlap
  <2>2. SplitsNeedOverlap'
    BY <1>3, <1>12 DEF SortInv, DisorderNeedsOverlap, SplitsNeedOverlap, LeftApart
  <2> QED
    BY <2>1, <2>2 DEF DisorderNeedsOverlap
<1>10. ASSUME NEW x \in Requests PROVE LocalOK(x)' /\ ListsFit(x)' /\ LocksKept(x)'
  <2>1. LocalOK(x) /\ ListsFit(x) /\ LocksKept(x)
    BY DEF SortInv
  <2>2. CASE x = r
    <3>1. LocalOK(r)'
      <4>1. Len(list) \in Nat
        OBVIOUS
      <4> QED
        BY <1>2, <4>1 DEF LocalOK
    <3>2. ListsFit(r)'
      <4> SUFFICES ASSUME op = "reorder", NEW k \in DOMAIN list, list[k] \in Requests
                   PROVE  req'[list[k]].pc = "ok"
        BY <1>2 DEF ListsFit
      <4>1. req[list[k]].pc = "ok"
        BY DEF SortInv, RowsNamed
      <4> QED
        BY <4>1, <1>2
    <3>3. LocksKept(r)'
      BY <1>2 DEF LocksKept, At
    <3> QED
      BY <2>2, <3>1, <3>2, <3>3
  <2>3. CASE x # r
    <3>1. req'[x] = req[x]
      BY <1>2, <2>3
    <3>2. ListsFit(x)'
      <4>1. \A i \in Requests : req[i].pc = "ok" => req'[i].pc = "ok"
        BY <1>2
      <4> QED
        BY <2>1, <3>1, <4>1 DEF ListsFit
    <3> QED
      BY <2>1, <3>1, <3>2 DEF LocalOK, LocksKept, At
  <2> QED
    BY <2>2, <2>3
<1>11. ASSUME NEW x \in Requests, x # r PROVE ListComplete(x)' /\ RowFits(x)'
  <2>1. ListComplete(x) /\ RowFits(x) /\ req'[x] = req[x]
    BY <1>2, <1>11 DEF SortInv
  <2>2. ListComplete(x)'
    BY <1>3, <2>1 DEF ListComplete, Listed
  <2>3. RowFits(x)'
    BY <1>3, <1>12, <2>1 DEF RowFits, At, LeftApart
  <2> QED
    BY <2>2, <2>3
<1> QED
  BY <1>3, <1>5, <1>6, <1>8, <1>9, <1>10, <1>11, <1>12

\* A row is asked to go.
LEMMA DeleteKeeps ==
  ASSUME SortInv, NEW r \in Requests, Delete(r)
  PROVE  SortInv'
<1>1. PICK i \in DOMAIN rows : Open(r, "delete", "delete", <<i>>, None)
  BY DEF Delete
<1>2. i \in Ids
  BY DEF SortInv, TypeOK
<1> DEFINE list == <<i>>
<1>3. list \in Seq(Ids) /\ Open(r, "delete", "delete", list, None)
  BY <1>1, <1>2
<1> HIDE DEF list
<1>4. /\ rows' = rows /\ lock' = lock /\ inTurn' = inTurn /\ Ok
      /\ None \in NewRow \cup {None} /\ TypeOK
  BY DEF Delete, SortInv
<1>5. /\ TypeOK' /\ RowsNamed' /\ RowsFinite' /\ Bounded'
      /\ OneAtATime' /\ DisorderNeedsOverlap'
      /\ \A x \in Requests : LocalOK(x)' /\ ListsFit(x)' /\ LocksKept(x)'
      /\ \A x \in Requests : x # r => ListComplete(x)' /\ RowFits(x)'
  BY <1>3, <1>4, OpensKeeps
<1>6. req'[r].op = "delete"
  BY <1>3, <1>4, OpenFields
<1>7. ListComplete(r)' /\ RowFits(r)'
  BY <1>6 DEF ListComplete, RowFits, At
<1> QED
  BY <1>5, <1>7 DEF SortInv
\* An order has every row there is, each once, group by group.
LEMMA OrdersFit ==
  ASSUME SortInv, NEW list \in Orders
  PROVE  /\ list \in Seq(Ids)
         /\ \A j, k \in DOMAIN list : list[j] = list[k] => j = k
         /\ \A k \in DOMAIN list : list[k] \in DOMAIN rows
         /\ DOMAIN rows \subseteq {list[k] : k \in DOMAIN list}
         /\ Grouped(list)
<1> DEFINE n == Cardinality(DOMAIN rows)
<1>1. IsFiniteSet(DOMAIN rows) /\ DOMAIN rows \subseteq Ids
  BY DEF SortInv, TypeOK, RowsFinite
<1>2. n \in Nat
  BY <1>1, FS_CardinalityType
<1>3. /\ list \in [1..n -> DOMAIN rows] /\ Grouped(list)
      /\ \A j, k \in DOMAIN list : list[j] = list[k] => j = k
  BY DEF Orders
<1>4. n = Cardinality(DOMAIN rows)
  OBVIOUS
<1> HIDE DEF n
<1>5. Cardinality(1..n) = n
  <2>1. Cardinality(1..n) = IF 1 > n THEN 0 ELSE n - 1 + 1
    BY <1>2, FS_Interval
  <2> QED
    BY <2>1, <1>2
<1>6. list \in Injection(1..n, DOMAIN rows)
  BY <1>3 DEF Injection, IsInjective
<1>7. list \in Surjection(1..n, DOMAIN rows)
  BY <1>1, <1>4, <1>5, <1>6, FS_Injection
<1>8. DOMAIN rows \subseteq {list[k] : k \in DOMAIN list}
  BY <1>3, <1>7 DEF Surjection
<1>9. list \in Seq(Ids)
  <2>1. list \in [1..n -> Ids]
    BY <1>1, <1>3
  <2> QED
    BY <2>1, <1>2, SeqDef
<1> QED
  BY <1>3, <1>8, <1>9

LEMMA ListKeeps ==
  ASSUME SortInv, NEW r \in Requests, List(r)
  PROVE  SortInv'
<1>1. PICK list \in Orders : Open(r, "listed", "reorder", list, None)
  BY DEF List
<1>2. /\ list \in Seq(Ids)
      /\ \A j, k \in DOMAIN list : list[j] = list[k] => j = k
      /\ \A k \in DOMAIN list : list[k] \in DOMAIN rows
      /\ DOMAIN rows \subseteq {list[k] : k \in DOMAIN list}
      /\ Grouped(list)
  BY OrdersFit
<1>3. /\ rows' = rows /\ lock' = lock /\ Alone /\ Ok
      /\ None \in NewRow \cup {None} /\ TypeOK
  BY DEF List, SortInv
<1>4. /\ TypeOK' /\ RowsNamed' /\ RowsFinite' /\ Bounded'
      /\ OneAtATime' /\ DisorderNeedsOverlap'
      /\ \A x \in Requests : LocalOK(x)' /\ ListsFit(x)' /\ LocksKept(x)'
      /\ \A x \in Requests : x # r => ListComplete(x)' /\ RowFits(x)'
  BY <1>1, <1>2, <1>3, OpensKeeps
<1>5. req'[r].op = "reorder" /\ req'[r].list = list
  BY <1>1, <1>2, <1>3, OpenFields
<1>6. ListComplete(r)'
  <2>1. \A i, j, k \in DOMAIN list :
          i < j /\ j < k /\ rows[list[i]].group = rows[list[k]].group
            => rows[list[j]].group = rows[list[i]].group
    BY <1>2 DEF Grouped
  <2>2. Listed(r)' = {list[k] : k \in DOMAIN list}
    BY <1>5 DEF Listed
  <2> QED
    BY <1>2, <1>3, <1>5, <2>1, <2>2 DEF ListComplete
<1>7. RowFits(r)'
  BY <1>5 DEF RowFits, At
<1> QED
  BY <1>4, <1>6, <1>7 DEF SortInv

\* A new row comes first in its group, or after every other row.
LEMMA NewPositionFits ==
  ASSUME SortInv, NEW group
  PROVE  /\ NewPosition(group) \in Nat
         /\ group \in Groups =>
              /\ \E i \in DOMAIN rows : /\ rows[i].group = group
                                        /\ rows[i].pos = NewPosition(group)
              /\ \A i \in DOMAIN rows :
                   rows[i].group = group => NewPosition(group) <= rows[i].pos
         /\ group \notin Groups => \A i \in DOMAIN rows : rows[i].pos < NewPosition(group)
<1>1. \A i \in DOMAIN rows : rows[i].pos \in Nat
  BY DEF SortInv, TypeOK
<1>2. CASE group \in Groups
  <2> DEFINE S == Positions({group})
  <2>1. /\ S \in SUBSET Nat
        /\ \A i \in DOMAIN rows : rows[i].group = group => rows[i].pos \in S
        /\ \A p \in S : \E i \in DOMAIN rows : rows[i].group = group /\ rows[i].pos = p
    BY <1>1 DEF Positions
  <2>2. NewPosition(group) = Least(S)
    BY <1>2 DEF NewPosition
  <2> HIDE DEF S
  <2>3. S # {}
    BY <1>2, <2>1 DEF Groups
  <2>4. Least(S) \in S /\ \A q \in S : Least(S) <= q
    BY <2>1, <2>3, LeastOfNat
  <2>5. Least(S) \in Nat
    BY <2>1, <2>4
  <2> QED
    BY <1>2, <2>1, <2>2, <2>4, <2>5
<1>3. CASE Groups = {}
  BY <1>3 DEF NewPosition, Groups
<1>4. CASE group \notin Groups /\ Groups # {}
  <2> DEFINE S == Positions(Groups)
  <2>1. /\ S \in SUBSET Nat
        /\ \A i \in DOMAIN rows : rows[i].pos \in S
        /\ \A p \in S : \E i \in DOMAIN rows : rows[i].pos = p
    BY <1>1 DEF Positions, Groups
  <2>2. NewPosition(group) = Greatest(S) + 1
    BY <1>4 DEF NewPosition
  <2> HIDE DEF S
  <2>3. S # {}
    BY <1>4, <2>1 DEF Groups
  <2>4. PICK b \in Nat : \A i \in DOMAIN rows : rows[i].pos <= b
    BY DEF SortInv, Bounded
  <2>5. Greatest(S) \in S /\ \A q \in S : q <= Greatest(S)
    <3>1. \A q \in S : q <= b
      BY <2>1, <2>4
    <3> QED
      BY <2>1, <2>3, <3>1, GreatestOfBounded
  <2>6. Greatest(S) \in Nat
    BY <2>1, <2>5
  <2>7. \A i \in DOMAIN rows : rows[i].pos < Greatest(S) + 1
    BY <1>1, <2>1, <2>5, <2>6
  <2> QED
    BY <1>4, <2>2, <2>6, <2>7
<1> QED
  BY <1>2, <1>3, <1>4

LEMMA InsertKeeps ==
  ASSUME SortInv, NEW r \in Requests, Insert(r)
  PROVE  SortInv'
<1>1. PICK group \in Stocks(r) :
        Open(r, "insert", "create", <<>>, [group |-> group, pos |-> NewPosition(group)])
  BY DEF Insert
<1> DEFINE p == NewPosition(group)
           new == [group |-> group, pos |-> p]
<1>2. /\ p \in Nat
      /\ group \in Groups =>
           /\ \E i \in DOMAIN rows : rows[i].group = group /\ rows[i].pos = p
           /\ \A i \in DOMAIN rows : rows[i].group = group => p <= rows[i].pos
      /\ group \notin Groups => \A i \in DOMAIN rows : rows[i].pos < p
  BY NewPositionFits
<1>3. Open(r, "insert", "create", <<>>, new)
  BY <1>1
<1> HIDE DEF p
<1>4. group \in Ids
  <2>1. Groups \subseteq Ids
    BY DEF SortInv, TypeOK, Groups
  <2>2. \A q \in Requests : req[q].op = "create" => req[q].row.group \in Ids
    BY DEF SortInv, LocalOK, NewRow
  <2> QED
    BY <2>1, <2>2 DEF Stocks, Ids
<1>5. new \in NewRow /\ new.group = group /\ new.pos = p
  BY <1>2, <1>4 DEF NewRow
<1>6. /\ rows' = rows /\ lock' = lock /\ Alone /\ Ok /\ TypeOK /\ <<>> \in Seq(Ids)
  BY DEF Insert, SortInv
<1> HIDE DEF new
<1>7. new \in NewRow \cup {None}
  BY <1>5
<1>8. /\ TypeOK' /\ RowsNamed' /\ RowsFinite' /\ Bounded'
      /\ OneAtATime' /\ DisorderNeedsOverlap' /\ (inTurn' => inTurn)
      /\ (Reordered' => Reordered)
      /\ \A x \in Requests : LocalOK(x)' /\ ListsFit(x)' /\ LocksKept(x)'
      /\ \A x \in Requests : x # r => ListComplete(x)' /\ RowFits(x)'
  BY <1>3, <1>5, <1>6, <1>7, OpensKeeps
<1>9. req'[r].op = "create" /\ req'[r].row = new
  BY <1>3, <1>6, <1>7, OpenFields
<1>10. ListComplete(r)'
  BY <1>9 DEF ListComplete
<1>11. ASSUME inTurn
       PROVE  /\ \A i \in DOMAIN rows : rows[i].pos = p => rows[i].group = group
              /\ \A i, k \in DOMAIN rows :
                   /\ rows[i].group = rows[k].group
                   /\ rows[i].pos < p /\ p < rows[k].pos
                   => group = rows[i].group \/ LeftApart(rows[i].group, group)
              /\ \A i, j \in DOMAIN rows :
                   /\ rows[i].group = group
                   /\ \/ rows[i].pos < rows[j].pos /\ rows[j].pos < p
                      \/ p < rows[j].pos /\ rows[j].pos < rows[i].pos
                   => rows[j].group = group \/ LeftApart(group, rows[j].group)
  <2>1. /\ \A i, j \in DOMAIN rows : rows[i].pos = rows[j].pos => rows[i].group = rows[j].group
        /\ \A i, j, k \in DOMAIN rows :
             /\ rows[i].group = rows[k].group
             /\ rows[i].pos < rows[j].pos /\ rows[j].pos < rows[k].pos
             => rows[j].group = rows[i].group \/ LeftApart(rows[i].group, rows[j].group)
    BY <1>11 DEF SortInv, DisorderNeedsOverlap, TiesNeedOverlap, SplitsNeedOverlap
  <2>2. \A i \in DOMAIN rows : rows[i].pos \in Nat
    BY <1>6 DEF TypeOK
  <2>3. CASE group \in Groups
    <3>1. PICK f \in DOMAIN rows : rows[f].group = group /\ rows[f].pos = p
      BY <1>2, <2>3
    <3>2. \A i \in DOMAIN rows : rows[i].group = group => p <= rows[i].pos
      BY <1>2, <2>3
    <3>3. \A i \in DOMAIN rows : rows[i].pos = p => rows[i].group = group
      BY <2>1, <3>1
    <3>4. \A i, k \in DOMAIN rows :
            /\ rows[i].group = rows[k].group
            /\ rows[i].pos < p /\ p < rows[k].pos
            => group = rows[i].group \/ LeftApart(rows[i].group, group)
      BY <2>1, <3>1
    <3>5. ASSUME NEW i \in DOMAIN rows, NEW j \in DOMAIN rows, rows[i].group = group,
                 \/ rows[i].pos < rows[j].pos /\ rows[j].pos < p
                 \/ p < rows[j].pos /\ rows[j].pos < rows[i].pos
          PROVE  rows[j].group = group \/ LeftApart(group, rows[j].group)
      <4>1. p <= rows[i].pos /\ rows[i].pos \in Nat /\ rows[j].pos \in Nat
        BY <2>2, <3>2, <3>5
      <4>2. p < rows[j].pos /\ rows[j].pos < rows[i].pos
        BY <1>2, <3>5, <4>1
      <4> QED
        BY <2>1, <3>1, <3>5, <4>2
    <3> QED
      BY <3>3, <3>4, <3>5
  <2>4. CASE group \notin Groups
    <3>1. \A i \in DOMAIN rows : rows[i].group # group
      BY <2>4 DEF Groups
    <3>2. \A i \in DOMAIN rows : ~(rows[i].pos = p) /\ ~(p < rows[i].pos)
      BY <1>2, <2>2, <2>4
    <3> QED
      BY <3>1, <3>2
  <2> QED
    BY <2>3, <2>4
<1>12. RowFits(r)'
  BY <1>5, <1>6, <1>8, <1>9, <1>11 DEF RowFits, LeftApart
<1> QED
  BY <1>8, <1>10, <1>12 DEF SortInv
----------------------------------------------------------------------------
\* The backfill numbers the rows there are.
LEMMA InitSort == Init => SortInv
<1> SUFFICES ASSUME Init PROVE SortInv
  OBVIOUS
<1> DEFINE R == {Initial[k] : k \in DOMAIN Initial}
           P(i) == CHOOSE k \in DOMAIN Initial : Initial[k] = i
<1>1. /\ Len(Initial) \in Nat /\ DOMAIN Initial = 1..Len(Initial)
      /\ \A k \in DOMAIN Initial : Initial[k] \notin Requests
      /\ Initial \in [1..Len(Initial) -> R]
  <2> DEFINE T == R \ (Requests \cup {None})
  <2>1. Initial \in Seq(T)
    BY SortOrderAssumption
  <2> HIDE DEF T
  <2>2. /\ Len(Initial) \in Nat /\ DOMAIN Initial = 1..Len(Initial)
        /\ \A k \in DOMAIN Initial : Initial[k] \in T
        /\ Initial \in [1..Len(Initial) -> T]
    BY <2>1
  <2> QED
    BY <2>2 DEF T
<1>2. Ids \ Requests = R
  BY <1>1 DEF Ids
<1>3. /\ DOMAIN rows = R /\ lock = [i \in {} |-> None] /\ inTurn = TRUE /\ faults = 0
      /\ \A i \in R : rows[i] = [group |-> StockOf[i], pos |-> P(i) - 1]
      /\ \A r \in Requests : req[r] = Fresh
      /\ req = [r \in Requests |-> Fresh]
  BY <1>2 DEF Init
<1>4. ASSUME NEW i \in R
      PROVE  P(i) \in DOMAIN Initial /\ Initial[P(i)] = i
  BY <1>4
<1>5. \A i \in R : P(i) \in 1..Len(Initial) /\ Initial[P(i)] = i
  BY <1>1, <1>4
<1>6. IsFiniteSet(R)
  <2>1. Initial \in Surjection(1..Len(Initial), R)
    BY <1>1 DEF Surjection
  <2>2. IsFiniteSet(1..Len(Initial))
    BY <1>1, FS_Interval
  <2> QED
    BY <2>1, <2>2, FS_Surjection
<1>7. \A i \in R : i \notin Requests /\ i \in Ids /\ StockOf[i] \in Ids
  BY <1>1, SortOrderAssumption DEF Ids
<1> HIDE DEF P, R
<1>8. /\ \A i \in R : /\ rows[i].group = StockOf[i] /\ rows[i].pos = P(i) - 1
                      /\ P(i) \in DOMAIN Initial /\ Initial[P(i)] = i
                      /\ P(i) \in Nat /\ rows[i].pos \in Nat
                      /\ rows[i].pos <= Len(Initial) /\ rows[i] \in NewRow
      /\ \A i, j \in R : rows[i].pos = rows[j].pos => i = j
  <2>1. ASSUME NEW i \in R
        PROVE  /\ rows[i].group = StockOf[i] /\ rows[i].pos = P(i) - 1 /\ P(i) - 1 \in Nat
               /\ P(i) \in Nat
               /\ P(i) - 1 <= Len(Initial) /\ rows[i] \in NewRow
    <3>1. rows[i] = [group |-> StockOf[i], pos |-> P(i) - 1]
      BY <1>3
    <3>2. P(i) \in 1..Len(Initial)
      BY <1>5
    <3>3. P(i) \in Nat /\ P(i) - 1 \in Nat /\ P(i) - 1 <= Len(Initial)
      BY <1>1, <3>2
    <3> QED
      BY <1>7, <3>1, <3>3 DEF NewRow
  <2>2. ASSUME NEW i \in R, NEW j \in R, P(i) - 1 = P(j) - 1 PROVE i = j
    <3>1. P(i) \in 1..Len(Initial) /\ P(j) \in 1..Len(Initial)
      BY <1>5
    <3>2. P(i) = P(j)
      BY <1>1, <2>2, <3>1
    <3> QED
      BY <1>5, <3>2
  <2> QED
    BY <1>4, <2>1, <2>2
<1>9. TypeOK
  <2>1. DOMAIN lock = {} /\ 0 \in 0..MaxFaults
    BY <1>3, SortOrderAssumption
  <2>2. req \in [Requests -> Request]
    BY <1>3, FreshFits
  <2>3. DOMAIN rows \subseteq Ids /\ \A i \in DOMAIN rows : rows[i] \in [group : Ids, pos : Nat]
    BY <1>3, <1>7, <1>8 DEF NewRow
  <2> QED
    BY <1>3, <2>1, <2>2, <2>3 DEF TypeOK
<1>10. RowsNamed /\ RowsFinite /\ Bounded
  <2>1. RowsNamed /\ RowsFinite
    BY <1>3, <1>6, <1>7 DEF RowsNamed, RowsFinite
  <2>2. Bounded
    BY <1>1, <1>3, <1>8 DEF Bounded
  <2> QED
    BY <2>1, <2>2
<1>12. \A r \in Requests : /\ req[r].pc = "idle" /\ req[r].op = "none" /\ req[r].at = 1
                           /\ req[r].list = <<>>
  BY <1>3, FreshFits
<1>11. DisorderNeedsOverlap
  <2>1. TiesNeedOverlap
    BY <1>3, <1>8 DEF TiesNeedOverlap
  <2>2. SplitsNeedOverlap
    <3>1. ~Reordered
      BY <1>12 DEF Reordered, At
    <3>2. ASSUME NEW i \in R, NEW j \in R, NEW k \in R,
                 rows[i].group = rows[k].group,
                 rows[i].pos < rows[j].pos, rows[j].pos < rows[k].pos
          PROVE  ApartAtStart(rows[i].group, rows[j].group)
      <4>1. P(i) < P(j) /\ P(j) < P(k)
        BY <1>8, <3>2
      <4>2. /\ StockOf[Initial[P(i)]] = rows[i].group /\ StockOf[Initial[P(j)]] = rows[j].group
            /\ StockOf[Initial[P(k)]] = rows[i].group
        BY <1>8, <3>2
      <4>3. P(i) \in DOMAIN Initial /\ P(j) \in DOMAIN Initial /\ P(k) \in DOMAIN Initial
        BY <1>8
      <4> QED
        BY <4>1, <4>2, <4>3, Zenon DEF ApartAtStart
    <3> QED
      BY <1>3, <3>1, <3>2 DEF SplitsNeedOverlap, LeftApart
  <2> QED
    BY <2>1, <2>2 DEF DisorderNeedsOverlap
<1>13. OneAtATime
  BY <1>12 DEF OneAtATime, Placing
<1>14. ASSUME NEW r \in Requests
       PROVE  LocalOK(r) /\ ListsFit(r) /\ LocksKept(r) /\ ListComplete(r) /\ RowFits(r)
  <2>1. LocalOK(r)
    <3>1. Len(req[r].list) = 0
      BY <1>12
    <3> QED
      BY <1>3, <1>12, <3>1 DEF LocalOK
  <2>2. ListsFit(r) /\ LocksKept(r)
    BY <1>12 DEF ListsFit, LocksKept, At
  <2>3. ListComplete(r) /\ RowFits(r)
    BY <1>12 DEF ListComplete, RowFits, At
  <2> QED
    BY <2>1, <2>2, <2>3
<1> QED
  BY <1>9, <1>10, <1>11, <1>13, <1>14 DEF SortInv

\* Every step keeps the inductive invariant.
LEMMA StepSort == SortInv /\ [Next]_vars => SortInv'
<1> SUFFICES ASSUME SortInv, [Next]_vars PROVE SortInv'
  OBVIOUS
<1>1. ASSUME NEW r \in Requests, List(r) PROVE SortInv'
  BY <1>1, ListKeeps
<1>2. ASSUME NEW r \in Requests, Begin(r) PROVE SortInv'
  BY <1>2, BeginKeeps
<1>3. ASSUME NEW r \in Requests, Insert(r) PROVE SortInv'
  BY <1>3, InsertKeeps
<1>4. ASSUME NEW r \in Requests, Delete(r) PROVE SortInv'
  BY <1>4, DeleteKeeps
<1>5. ASSUME NEW r \in Requests, UpdateFails(r) PROVE SortInv'
  BY <1>5, UpdateFailsKeeps
<1>6. ASSUME NEW r \in Requests, Serve(r) PROVE SortInv'
  BY <1>6, UpdateRowKeeps, CommitKeeps, DeadlockKeeps, InsertCommitKeeps, DeleteRowKeeps
     DEF Serve
<1>7. CASE Crash
  BY <1>7, CrashKeeps
<1>8. CASE UNCHANGED vars
  <2>1. /\ rows' = rows /\ lock' = lock /\ req' = req /\ inTurn' = inTurn
        /\ faults' = faults
    BY <1>8 DEF vars
  <2>2. TypeOK' /\ RowsNamed' /\ RowsFinite' /\ Bounded'
    BY <2>1 DEF SortInv, TypeOK, At, RowsNamed, RowsFinite, Bounded
  <2>3. OneAtATime' /\ DisorderNeedsOverlap'
    BY <2>1 DEF SortInv, OneAtATime, Placing, DisorderNeedsOverlap, TiesNeedOverlap,
                SplitsNeedOverlap, LeftApart, Reordered, At
  <2>4. ASSUME NEW x \in Requests
        PROVE  /\ LocalOK(x)' /\ ListsFit(x)' /\ LocksKept(x)'
               /\ ListComplete(x)' /\ RowFits(x)'
    <3>1. LocalOK(x) /\ ListsFit(x) /\ LocksKept(x) /\ ListComplete(x) /\ RowFits(x)
      BY DEF SortInv
    <3>2. LocalOK(x)' /\ ListsFit(x)' /\ LocksKept(x)'
      BY <2>1, <3>1 DEF LocalOK, ListsFit, LocksKept, At
    <3>3. ListComplete(x)' /\ RowFits(x)'
      BY <2>1, <3>1 DEF ListComplete, Listed, RowFits, At, LeftApart, Reordered
    <3> QED
      BY <3>2, <3>3
  <2> QED
    BY <2>2, <2>3, <2>4 DEF SortInv
<1> QED
  BY <1>1, <1>2, <1>3, <1>4, <1>5, <1>6, <1>7, <1>8 DEF Next, Finished

\* The invariant holds throughout.
THEOREM SortInvariant == Spec => []SortInv
<1>1. Init => SortInv
  BY InitSort
<1>2. SortInv /\ [Next]_vars => SortInv'
  BY StepSort
<1> QED
  BY <1>1, <1>2, PTL DEF Spec

\* Types: rows are well formed, and a locked row exists and is locked by a
\* request that has come to it and still rewrites the order it is in.
THEOREM SortTypeCorrect == Spec => []TypeOK
<1>1. SortInv => TypeOK
  BY DEF SortInv
<1> QED
  BY <1>1, SortInvariant, PTL

\* Two stocks never share a position, and none stands between the rows of
\* another, for any number of rows, requests and failures, unless two requests
\* that place rows overlap; but where the backfill has put one it stands until
\* a reorder is answered.
THEOREM OnlyOverlapDisorders == Spec => []DisorderNeedsOverlap
<1>1. SortInv => DisorderNeedsOverlap
  BY DEF SortInv
<1> QED
  BY <1>1, SortInvariant, PTL
----------------------------------------------------------------------------
(* Reordering is one step: the rows and lists as ManualOrder sees them. *)
Pos == [i \in DOMAIN rows |-> rows[i].pos]
Asked == [r \in Requests |-> IF req[r].op = "reorder" THEN req[r].list ELSE <<>>]

\* A request that goes on asks for what it has asked for.
LEMMA AskedKept ==
  ASSUME TypeOK, NEW r \in Requests, NEW at \in Nat \ {0}, GoOn(r, at)
  PROVE  Asked' = Asked
<1>1. /\ \A x \in Requests : x # r => req'[x] = req[x]
      /\ req'[r].op = req[r].op /\ req'[r].list = req[r].list
  BY MovedFields
<1>2. \A x \in Requests : req'[x].op = req[x].op /\ req'[x].list = req[x].list
  BY <1>1
<1> QED
  BY <1>2 DEF Asked

\* One that is answered asks for nothing any more.
LEMMA AskedDone ==
  ASSUME TypeOK, NEW r \in Requests, NEW pc \in Answered, Answer(r, pc)
  PROVE  /\ Asked'[r] = <<>> /\ \A x \in Requests \ {r} : Asked'[x] = Asked[x]
         /\ req[r].op # "reorder" => Asked' = Asked
<1>1. /\ \A x \in Requests : x # r => req'[x] = req[x]
      /\ req'[r].op = req[r].op /\ req'[r].list = <<>>
  BY AnswerFields
<1>2. ASSUME req[r].op # "reorder" PROVE Asked' = Asked
  <2>1. \A x \in Requests : (IF req'[x].op = "reorder" THEN req'[x].list ELSE <<>>)
                            = (IF req[x].op = "reorder" THEN req[x].list ELSE <<>>)
    BY <1>1, <1>2
  <2> QED
    BY <2>1 DEF Asked
<1> QED
  BY <1>1, <1>2 DEF Asked

\* A client asks for nothing until it asks for an order.
LEMMA AskedAnew ==
  ASSUME SortInv, NEW r \in Requests, NEW pc \in {"listed", "insert", "delete"},
         NEW op \in {"reorder", "create", "delete"}, NEW list \in Seq(Ids),
         NEW row \in NewRow \cup {None}, Open(r, pc, op, list, row)
  PROVE  /\ Asked[r] = <<>> /\ \A x \in Requests \ {r} : Asked'[x] = Asked[x]
         /\ op # "reorder" => Asked' = Asked
<1>1. /\ TypeOK /\ LocalOK(r)
  BY DEF SortInv
<1>2. /\ \A x \in Requests : x # r => req'[x] = req[x]
      /\ req[r].pc = "idle" /\ req'[r].op = op
  BY <1>1, OpenFields
<1>3. req[r].op = "none"
  BY <1>1, <1>2, FreshFits DEF LocalOK
<1>4. op # "reorder" => Asked' = Asked
  <2> SUFFICES ASSUME op # "reorder", NEW x \in Requests
               PROVE  (IF req'[x].op = "reorder" THEN req'[x].list ELSE <<>>)
                      = (IF req[x].op = "reorder" THEN req[x].list ELSE <<>>)
    BY DEF Asked
  <2> QED
    BY <1>2, <1>3
<1> QED
  BY <1>2, <1>3, <1>4 DEF Asked

\* At the start nobody asks for anything.
LEMMA InitOrder == Init => Order!Init
<1> SUFFICES ASSUME Init PROVE Order!Init
  OBVIOUS
<1>1. \A r \in Requests : req[r].op = "none"
  BY FreshFits DEF Init
<1> QED
  BY <1>1 DEF Order!Init

\* A commit puts every row of the list that is still there in its place.
LEMMA CommitArranges ==
  ASSUME SortInv, NEW r \in Requests, At(r, "reorder", "update"),
         req[r].at \notin DOMAIN req[r].list, rows' = Written(r),
         Asked'[r] = <<>>, \A x \in Requests \ {r} : Asked'[x] = Asked[x]
  PROVE  Order!Arrange(r)
<1>1. /\ DOMAIN rows' = DOMAIN rows
      /\ \A i \in DOMAIN rows :
           rows'[i] = IF i \in Listed(r) THEN Placed(r, i) ELSE rows[i]
      /\ \A i \in DOMAIN rows : i \in Listed(r) => rows'[i].pos = Place(r, i)
  BY WrittenRows
<1>2. Asked[r] = req[r].list
  BY DEF Asked, At
<1>3. Order!Listed(Asked[r]) = Listed(r)
  BY <1>2 DEF Order!Listed, Listed
<1>4. \A i : Order!Place(Asked[r], i) = Place(r, i)
  BY <1>2 DEF Order!Place, Place
<1>5. Pos' = [i \in DOMAIN Pos |-> IF i \in Order!Listed(Asked[r])
                                   THEN Order!Place(Asked[r], i) ELSE Pos[i]]
  <2>1. DOMAIN Pos = DOMAIN rows /\ \A i \in DOMAIN rows : Pos[i] = rows[i].pos
    BY DEF Pos
  <2>2. Pos' = [i \in DOMAIN rows |-> rows'[i].pos]
    BY <1>1 DEF Pos
  <2>3. \A i \in DOMAIN rows :
          rows'[i].pos = IF i \in Order!Listed(Asked[r])
                         THEN Order!Place(Asked[r], i) ELSE Pos[i]
    BY <1>1, <1>3, <1>4, <2>1
  <2> QED
    BY <2>1, <2>2, <2>3
<1> QED
  BY <1>5 DEF Order!Arrange, Order!OthersAsk, Pos, Asked

\* A request ends and has moved nothing.
LEMMA GivesUp ==
  ASSUME NEW r \in Requests, Pos' = Pos,
         Asked'[r] = <<>>, \A x \in Requests \ {r} : Asked'[x] = Asked[x]
  PROVE  Order!Next
<1>1. Order!GiveUp
  BY DEF Order!GiveUp, Pos, Asked
<1> QED
  BY <1>1 DEF Order!Next

\* Every step is one of ManualOrder, or none.
LEMMA StepOrder == SortInv /\ [Next]_vars => [Order!Next]_(Order!vars)
<1> SUFFICES ASSUME SortInv, [Next]_vars
             PROVE  Order!Next \/ (Pos' = Pos /\ Asked' = Asked)
  BY DEF Order!vars, Pos, Asked
<1>0. TypeOK
  BY DEF SortInv
<1>1. ASSUME NEW r \in Requests, List(r) PROVE Order!Next
  <2>1. PICK list \in Orders : Open(r, "listed", "reorder", list, None)
    BY <1>1 DEF List
  <2>2. list \in Seq(Ids) /\ None \in NewRow \cup {None}
    BY OrdersFit
  <2>3. Asked[r] = <<>> /\ \A x \in Requests \ {r} : Asked'[x] = Asked[x]
    BY <2>1, <2>2, AskedAnew
  <2>4. Pos' = Pos
    BY <1>1 DEF List, Pos
  <2>5. Order!Ask(r)
    BY <2>3, <2>4 DEF Order!Ask, Order!OthersAsk, Pos, Asked
  <2> QED
    BY <2>5 DEF Order!Next
<1>2. ASSUME NEW r \in Requests, Begin(r) PROVE Pos' = Pos /\ Asked' = Asked
  <2>1. Asked' = Asked
    BY <1>0, <1>2, ListFacts, AskedKept DEF Begin
  <2> QED
    BY <1>2, <2>1 DEF Begin, Pos
<1>3. ASSUME NEW r \in Requests, Insert(r) PROVE Pos' = Pos /\ Asked' = Asked
  <2>1. PICK group \in Stocks(r) :
          Open(r, "insert", "create", <<>>, [group |-> group, pos |-> NewPosition(group)])
    BY <1>3 DEF Insert
  <2>2. \A x \in Requests : x # r => req'[x] = req[x]
    BY <1>0, <2>1 DEF Open, TypeOK
  <2>3. req[r].op = "none" /\ req'[r].op = "create"
    <3>1. req[r].pc = "idle" /\ LocalOK(r) /\ req \in [Requests -> Request]
      BY <1>0, <2>1 DEF Open, SortInv, TypeOK
    <3>2. req[r].op = "none"
      BY <3>1, FreshFits DEF LocalOK
    <3> QED
      BY <2>1, <3>1, <3>2 DEF Open, Holding
  <2>4. \A x \in Requests : (IF req'[x].op = "reorder" THEN req'[x].list ELSE <<>>)
                            = (IF req[x].op = "reorder" THEN req[x].list ELSE <<>>)
    BY <2>2, <2>3
  <2>5. Asked' = Asked
    BY <2>4 DEF Asked
  <2> QED
    BY <1>3, <2>5 DEF Insert, Pos
<1>4. ASSUME NEW r \in Requests, Delete(r) PROVE Pos' = Pos /\ Asked' = Asked
  <2>1. PICK i \in DOMAIN rows : Open(r, "delete", "delete", <<i>>, None)
    BY <1>4 DEF Delete
  <2>2. i \in Ids
    BY <1>0 DEF TypeOK
  <2> DEFINE list == <<i>>
  <2>3. list \in Seq(Ids) /\ Open(r, "delete", "delete", list, None)
        /\ None \in NewRow \cup {None}
    BY <2>1, <2>2
  <2> HIDE DEF list
  <2>4. Asked' = Asked
    BY <2>3, AskedAnew
  <2> QED
    BY <1>4, <2>4 DEF Delete, Pos
<1>5. ASSUME NEW r \in Requests, Abort(r) PROVE Order!Next
  <2>1. Asked'[r] = <<>> /\ \A x \in Requests \ {r} : Asked'[x] = Asked[x]
    BY <1>0, <1>5, AskedDone DEF Abort, Answered
  <2>2. Pos' = Pos
    BY <1>5 DEF Abort, Pos
  <2> QED
    BY <2>1, <2>2, GivesUp
<1>6. ASSUME NEW r \in Requests, UpdateRow(r) PROVE Pos' = Pos /\ Asked' = Asked
  <2>1. req[r].at + 1 \in Nat \ {0}
    BY <1>0, ListFacts
  <2>2. GoOn(r, req[r].at + 1) /\ rows' = rows
    BY <1>6 DEF UpdateRow
  <2>3. Asked' = Asked
    BY <1>0, <2>1, <2>2, AskedKept
  <2> QED
    BY <2>2, <2>3 DEF Pos
<1>7. ASSUME NEW r \in Requests, Commit(r) PROVE Order!Next
  <2>1. /\ At(r, "reorder", "update") /\ req[r].at \notin DOMAIN req[r].list
        /\ rows' = rows \/ rows' = Written(r)
        /\ Answer(r, "ok") \/ Answer(r, "error")
    BY <1>7 DEF Commit
  <2>2. Asked'[r] = <<>> /\ \A x \in Requests \ {r} : Asked'[x] = Asked[x]
    BY <1>0, <2>1, AskedDone DEF Answered
  <2>3. CASE rows' = rows
    <3>1. Pos' = Pos
      BY <2>3 DEF Pos
    <3> QED
      BY <2>2, <3>1, GivesUp
  <2>4. CASE rows' = Written(r)
    BY <2>1, <2>2, <2>4, CommitArranges DEF Order!Next
  <2> QED
    BY <2>1, <2>3, <2>4
<1>8. ASSUME NEW r \in Requests, InsertCommit(r) \/ DeleteRow(r)
      PROVE  Order!Next
  <2>1. (Answer(r, "ok") \/ Answer(r, "error")) /\ req[r].op # "reorder"
    BY <1>8 DEF InsertCommit, DeleteRow, At
  <2>2. Asked' = Asked
    BY <1>0, <2>1, AskedDone DEF Answered
  <2>3. /\ DOMAIN rows \subseteq DOMAIN rows' \/ DOMAIN rows' \subseteq DOMAIN rows
        /\ \A i \in DOMAIN rows \cap DOMAIN rows' : rows'[i] = rows[i]
    <3>1. CASE InsertCommit(r)
      <4>1. r \notin DOMAIN rows
        BY <3>1 DEF InsertCommit, At, SortInv, RowsNamed
      <4> QED
        BY <3>1, <4>1 DEF InsertCommit
    <3>2. CASE DeleteRow(r)
      BY <3>2 DEF DeleteRow
    <3> QED
      BY <1>8, <3>1, <3>2
  <2>4. /\ DOMAIN Pos = DOMAIN rows /\ DOMAIN Pos' = DOMAIN rows'
        /\ \A i \in DOMAIN Pos \cap DOMAIN Pos' : Pos'[i] = Pos[i]
    BY <2>3 DEF Pos
  <2>5. Order!AddOrRemove
    BY <2>2, <2>3, <2>4 DEF Order!AddOrRemove, Pos, Asked
  <2> QED
    BY <2>5 DEF Order!Next
<1>9. ASSUME Crash PROVE Order!Next
  <2>1. ASSUME NEW x \in Requests PROVE Asked'[x] \in {Asked[x], <<>>}
    <3>1. req'[x] = IF req[x].pc \in Working THEN Done(x, "lost") ELSE req[x]
      BY <1>9 DEF Crash
    <3>2. Done(x, "lost").list = <<>> /\ Done(x, "lost").op = req[x].op
      BY <1>0, DoneHeld DEF Answered
    <3> QED
      BY <3>1, <3>2 DEF Asked
  <2>2. Pos' = Pos
    BY <1>9 DEF Crash, Pos
  <2>3. Order!GiveUp
    BY <2>1, <2>2 DEF Order!GiveUp, Pos, Asked
  <2> QED
    BY <2>3 DEF Order!Next
<1>10. CASE UNCHANGED vars
  BY <1>10 DEF vars, Pos, Asked
<1>11. ASSUME NEW r \in Requests, UpdateFails(r) \/ Deadlock(r) PROVE Abort(r)
  BY <1>11 DEF UpdateFails, Deadlock
<1>12. ASSUME NEW r \in Requests, Serve(r)
       PROVE  Order!Next \/ (Pos' = Pos /\ Asked' = Asked)
  BY <1>12, <1>5, <1>6, <1>7, <1>8, <1>11 DEF Serve
<1> QED
  BY <1>1, <1>2, <1>3, <1>4, <1>5, <1>9, <1>10, <1>11, <1>12 DEF Next, Finished

\* A reorder is all or nothing, and one step: SortOrder implements ManualOrder.
\* "A partial write can never leave a half-shuffled order" (pg_assets.go), nor
\* can a crash, a deadlock, a row that is deleted or another reorder meanwhile.
THEOREM ReorderIsOneStep == Spec => ReorderAsOne
<1>1. Init => Order!Init
  BY InitOrder
<1>2. SortInv /\ [Next]_vars => [Order!Next]_(Order!vars)
  BY StepOrder
<1> QED
  BY <1>1, <1>2, SortInvariant, PTL DEF Spec, ReorderAsOne, Order!Spec
====
