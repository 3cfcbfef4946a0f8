---------------------------- MODULE RoadmapProofs ----------------------------
(***************************************************************************)
(* Proofs about Roadmap, for every set of requests and any number of       *)
(* failures.  Requests that overlap may draw a plan line from a goal or    *)
(* assumptions that are being changed, or insert a second goal: what is    *)
(* proved is that nothing else can.  The argument is about what a request  *)
(* has read and has not written yet: who is to blame when it is not true   *)
(* any more, and that whoever is to blame was not answered before it.      *)
(***************************************************************************)
EXTENDS Roadmap, TLAPS

\* What a goroutine holds fits its operation and step.
LocalOK(r) ==
  /\ req[r].pc = "idle" => req[r] = Fresh
  /\ req[r].op = "none" => req[r].pc = "idle"
  /\ r \notin req[r].before
  /\ \A q \in req[r].before : req[q].pc \in Answered
  /\ req[r].op = "goal" => req[r].pc \in {"write", "delete"} \cup Answered
  /\ req[r].op = "assumptions" =>
       req[r].pc \in {"ensure", "insert", "read", "write", "delete"} \cup Answered
  /\ req[r].op = "project" =>
       req[r].pc \in {"assumptions", "ensure", "insert", "baseline", "save", "reread"}
                       \cup Answered
  /\ req[r].op = "snapshot" => req[r].pc \in {"record"} \cup Answered
  /\ req[r].pc = "assumptions" \/ At(r, "assumptions", "write") =>
       req[r].goal \in DOMAIN target
  /\ At(r, "goal", "write") => req[r].goal \in DOMAIN target \cup {r}

Locals == \A r \in Requests : LocalOK(r)

\* Whoever wrote a row has begun, and still holds its goal while a plan line
\* drawn from the row before is to be deleted.
Owners ==
  /\ \A g \in DOMAIN target : target[g] \in Requests =>
       /\ req[target[g]].op = "goal" /\ req[target[g]].pc # "write"
       /\ req[target[g]].pc = "delete" => req[target[g]].goal = g
  /\ \A g \in DOMAIN assumptions :
       /\ req[assumptions[g]].op = "assumptions"
       /\ req[assumptions[g]].pc \in {"delete"} \cup Answered
       /\ req[assumptions[g]].pc = "delete" => req[assumptions[g]].goal = g
  /\ \A g \in DOMAIN baselines : req[baselines[g].by].op = "project"
  /\ \A j \in DOMAIN goals : goals[j] \in Requests => req[goals[j]].op # "none"
  /\ snapshot \in Requests => req[snapshot].op # "none"

\* The change p was not answered before the projection r began, nor r before p
\* began if p has been answered.
Behind(p, r) == p \notin req[r].before /\ (req[p].pc = "ok" => r \notin req[p].before)

\* A stored line disagrees with its goal or assumptions only after such a change.
Lines ==
  \A g \in DOMAIN baselines :
    /\ target[g] \in Requests /\ target[g] # baselines[g].target
         => Behind(target[g], baselines[g].by)
    /\ g \in DOMAIN assumptions /\ assumptions[g] # baselines[g].assumed
         => Behind(assumptions[g], baselines[g].by)

\* The same of a line that is still to be stored.
DrawnOK(r) ==
  req[r].op = "project" =>
    LET g == req[r].goal
    IN /\ req[r].pc \in {"assumptions", "baseline", "save"} /\ target[g] \in Requests
            => target[g] = req[r].target \/ target[g] \notin req[r].before
       /\ req[r].pc \in {"baseline", "save"} /\ g \in DOMAIN assumptions
            => assumptions[g] = req[r].assumed \/ assumptions[g] \notin req[r].before
       /\ req[r].pc \in {"ensure", "insert"}
            => \A h \in DOMAIN assumptions : assumptions[h] \notin req[r].before

\* r will insert a goal.
Unseen(r) ==
  req[r].pc = "insert" \/ (At(r, "goal", "write") /\ req[r].goal \notin DOMAIN target)

\* Such a request began before any goal was answered for.
GoalsOK ==
  /\ \A i, j \in DOMAIN goals : i < j => goals[j] \in Requests
  /\ OneGoal
  /\ \A r \in Requests : Unseen(r) =>
       \A i \in DOMAIN goals : goals[i] # Default /\ goals[i] \notin req[r].before

NoChange == \A r \in Requests : req[r].op \notin {"goal", "assumptions"}

\* The stored line is there when it is read again.
PlanOK(r) ==
  /\ req[r].pc # "panic"
  /\ req[r].pc = "reread" => req[r].goal \in DOMAIN baselines
  /\ At(r, "project", "ok") =>
       /\ req[r].goal \in DOMAIN baselines
       /\ req[r].plan = baselines[req[r].goal]

\* The inductive invariant.
RoadmapInv ==
  /\ TypeOK /\ Locals /\ Owners
  /\ Lines /\ \A r \in Requests : DrawnOK(r)
  /\ GoalsOK
  /\ NoChange => \A r \in Requests : PlanOK(r)
  /\ PostedSnapshotReplaced

----------------------------------------------------------------------------
\* The requests answered so far.
Done == {q \in Requests : req[q].pc \in Answered}

\* r goes on: from the step it is at to another one, or to its answer.
Moves(r) ==
  /\ req' \in [Requests -> Request]
  /\ \A x \in Requests : x # r => req'[x] = req[x]
  /\ req[r].pc \in Working /\ req'[r].pc \in Working \cup Answered
  /\ req'[r].op = req[r].op /\ req'[r].before = req[r].before

\* r begins.
Begins(r) ==
  /\ req' \in [Requests -> Request]
  /\ \A x \in Requests : x # r => req'[x] = req[x]
  /\ req[r].pc = "idle" /\ req'[r].pc \in Working
  /\ req'[r].op # "none" /\ req'[r].before = Done
  /\ req'[r].recorded = FALSE

\* Going on changes the step; what was read is dropped with the answer.
LEMMA GoFields ==
  ASSUME TypeOK, NEW r \in Requests, req[r].pc \in Working,
         NEW p \in Working \cup Answered, Go(r, p)
  PROVE  /\ Moves(r) /\ req'[r].pc = p /\ req'[r].recorded = req[r].recorded
         /\ p \in Working => /\ req'[r].goal = req[r].goal
                             /\ req'[r].target = req[r].target
                             /\ req'[r].assumed = req[r].assumed
<1>1. req \in [Requests -> Request] /\ req[r] \in Request
  BY DEF TypeOK
<1>2. CASE p \in Answered
  <2> DEFINE new == Ended(r, p, None, None)
  <2>1. new \in Request /\ new.pc = p /\ new.op = req[r].op /\ new.before = req[r].before
        /\ new.recorded = req[r].recorded
    BY <1>1, <1>2 DEF Ended, Request, Writers
  <2>2. req' = [req EXCEPT ![r] = new]
    BY <1>2 DEF Go
  <2> HIDE DEF new
  <2>3. p \notin Working
    BY <1>2 DEF Working, Answered
  <2> QED
    BY <1>1, <1>2, <2>1, <2>2, <2>3 DEF Moves
<1>3. CASE p \in Working
  <2> DEFINE new == [req[r] EXCEPT !.pc = p]
  <2>1. /\ new \in Request /\ new.pc = p /\ new.op = req[r].op /\ new.before = req[r].before
        /\ new.recorded = req[r].recorded /\ new.goal = req[r].goal
        /\ new.target = req[r].target /\ new.assumed = req[r].assumed
    BY <1>1, <1>3 DEF Request
  <2>2. p \notin Answered
    BY <1>3 DEF Working, Answered
  <2>3. req' = [req EXCEPT ![r] = new]
    BY <1>1, <2>2 DEF Go
  <2> HIDE DEF new
  <2> QED
    BY <1>1, <1>3, <2>1, <2>3 DEF Moves
<1> QED
  BY <1>2, <1>3

\* The answer of a projection holds its goal and the plan line.
LEMMA AnswerFields ==
  ASSUME TypeOK, NEW r \in Requests, req[r].pc \in Working, NEW plan \in Plans,
         Answer(r, plan)
  PROVE  /\ Moves(r) /\ req'[r].pc = "ok" /\ req'[r].recorded = req[r].recorded
         /\ req'[r].goal = req[r].goal /\ req'[r].plan = plan
<1>1. req \in [Requests -> Request] /\ req[r] \in Request
  BY DEF TypeOK
<1> DEFINE new == Ended(r, "ok", req[r].goal, plan)
<1>2. /\ new \in Request /\ new.pc = "ok" /\ new.op = req[r].op
      /\ new.before = req[r].before /\ new.recorded = req[r].recorded
      /\ new.goal = req[r].goal /\ new.plan = plan
  BY <1>1 DEF Ended, Request, Writers, Plans, Answered
<1>3. req' = [req EXCEPT ![r] = new]
  BY DEF Answer
<1> HIDE DEF new
<1> QED
  BY <1>1, <1>2, <1>3 DEF Moves, Answered

\* A request begins with what it has found, and all that was answered.
LEMMA OpenFields ==
  ASSUME TypeOK, NEW r \in Requests,
         NEW o \in {"project", "goal", "assumptions", "snapshot"}, NEW p \in Working,
         NEW g \in Writers \cup {None}, NEW aim \in Writers, Open(r, o, p, g, aim)
  PROVE  /\ Begins(r) /\ req'[r].pc = p /\ req'[r].op = o /\ req'[r].goal = g
         /\ req'[r].target = aim /\ req'[r].assumed = Default
<1>1. req \in [Requests -> Request] /\ Done \in SUBSET Requests
  BY DEF TypeOK, Done
<1> DEFINE new == [pc |-> p, op |-> o, goal |-> g, target |-> aim, assumed |-> Default,
                   plan |-> None, recorded |-> FALSE, before |-> Done]
<1>2. /\ new \in Request /\ new.pc = p /\ new.op = o /\ new.goal = g
      /\ new.target = aim /\ new.assumed = Default /\ new.before = Done
      /\ new.recorded = FALSE
  BY <1>1 DEF Request, Writers
<1>3. req' = [req EXCEPT ![r] = new] /\ req[r].pc = "idle"
  BY DEF Open, Done
<1> HIDE DEF new
<1> QED
  BY <1>1, <1>2, <1>3 DEF Begins
----------------------------------------------------------------------------
\* Who began before whom does not change; a request in the making is before
\* nobody.
LEMMA BeforeStays ==
  ASSUME Locals, TypeOK, NEW r \in Requests, Begins(r) \/ Moves(r)
  PROVE  /\ \A x \in Requests : req[x].op # "none" =>
              req'[x].op = req[x].op /\ req'[x].before = req[x].before
         /\ \A x \in Requests : r \notin req[x].before /\ r \notin req'[x].before
         /\ \A x \in Requests : \A q \in req'[x].before :
              q # r /\ q \in Requests /\ req'[q].pc \in Answered
         /\ \A x \in Requests : req'[x].op # "none" \/ req'[x] = req[x]
         /\ req' \in [Requests -> Request]
<1>1. req \in [Requests -> Request] /\ \A x \in Requests : req[x].before \subseteq Requests
  BY DEF TypeOK, Request
<1>2. req[r].pc \notin Answered
  BY DEF Begins, Moves, Answered, Working
<1>3. \A x \in Requests : r \notin req[x].before
  BY <1>2 DEF Locals, LocalOK
<1>4. req[r].pc \in Working => req[r].op # "none"
  BY DEF Locals, LocalOK, Working
<1>5. req[r].pc = "idle" => req[r].op = "none"
  BY DEF Locals, LocalOK, Fresh
<1>6. \A x \in Requests : req[x].op # "none" =>
        req'[x].op = req[x].op /\ req'[x].before = req[x].before
  BY <1>5 DEF Begins, Moves
<1>7. \A x \in Requests : r \notin req'[x].before
  BY <1>2, <1>3 DEF Begins, Moves, Done
<1>8. ASSUME NEW x \in Requests, NEW q \in req'[x].before
      PROVE  q # r /\ q \in Requests /\ req'[q].pc \in Answered
  <2>1. q # r
    BY <1>7, <1>8
  <2>2. CASE req'[x].before = req[x].before
    BY <1>1, <1>8, <2>1, <2>2 DEF Locals, LocalOK, Begins, Moves
  <2>3. CASE req'[x].before = Done
    BY <1>8, <2>1, <2>3 DEF Done, Begins, Moves
  <2> QED
    BY <2>2, <2>3 DEF Begins, Moves
<1> QED
  BY <1>3, <1>4, <1>6, <1>7, <1>8 DEF Begins, Moves

\* A step that changes no row: what r holds after it is in order.
Quiet(r) ==
  /\ Begins(r) \/ (Moves(r) /\ req'[r].recorded = req[r].recorded)
  /\ UNCHANGED <<goals, target, assumptions, baselines, snapshot>>
  /\ background' \subseteq background \cup {r}
  /\ r \in background' => req'[r].op = "project"
  /\ req'[r].pc \in {"baseline", "save", "reread", "read", "delete"} =>
       req'[r].goal \in DOMAIN target
  /\ LocalOK(r)' /\ DrawnOK(r)'
  /\ NoChange' => PlanOK(r)'
  /\ Unseen(r)' => Unseen(r) \/ goals = <<>>
  /\ req'[r].op \in {"goal", "assumptions"} => req'[r].pc # "ok"
  /\ req[r].pc = "delete" => req'[r].pc = "error"
  /\ faults' \in 0..MaxFaults

\* Such a step keeps the invariant.
LEMMA QuietKeeps ==
  ASSUME RoadmapInv, NEW r \in Requests, Quiet(r)
  PROVE  RoadmapInv'
<1>1. /\ TypeOK /\ Locals /\ req \in [Requests -> Request]
      /\ Begins(r) \/ (Moves(r) /\ req'[r].recorded = req[r].recorded)
      /\ goals' = goals /\ target' = target /\ assumptions' = assumptions
      /\ baselines' = baselines /\ snapshot' = snapshot
      /\ \A x \in Requests : x # r => req'[x] = req[x]
  BY DEF RoadmapInv, TypeOK, Quiet, Begins, Moves
<1>2. /\ \A x \in Requests : req[x].op # "none" =>
           req'[x].op = req[x].op /\ req'[x].before = req[x].before
      /\ \A x \in Requests : r \notin req[x].before /\ r \notin req'[x].before
      /\ \A x \in Requests : \A q \in req'[x].before :
           q # r /\ q \in Requests /\ req'[q].pc \in Answered
      /\ \A x \in Requests : req'[x].op # "none" \/ req'[x] = req[x]
      /\ req' \in [Requests -> Request]
  BY <1>1, BeforeStays
<1>3. TypeOK'
  <2>1. goals' \in Seq(Writers) /\ DOMAIN target' = {goals'[i] : i \in DOMAIN goals'}
    BY <1>1 DEF TypeOK
  <2>2. background' \subseteq {x \in Requests : req'[x].op = "project"}
    BY <1>1 DEF TypeOK, Quiet
  <2>3. ASSUME NEW x \in Requests,
               req'[x].pc \in {"baseline", "save", "reread", "read", "delete"}
        PROVE  req'[x].goal \in DOMAIN target'
    BY <2>3, <1>1 DEF TypeOK, Quiet
  <2> QED
    BY <2>1, <2>2, <2>3, <1>1, <1>2 DEF TypeOK, Quiet
<1>4. ASSUME NEW x \in Requests PROVE LocalOK(x)'
  <2>1. CASE x = r
    BY <2>1 DEF Quiet
  <2>2. CASE x # r
    <3>1. LocalOK(x) /\ req'[x] = req[x]
      BY <2>2, <1>1 DEF Locals
    <3> QED
      BY <3>1, <1>1, <1>2 DEF LocalOK, At
  <2> QED
    BY <2>1, <2>2
<1>5. req[r].pc \in Working => req[r].pc \notin Answered
  BY DEF Working, Answered
<1>6. Owners'
  <2>1. \A g \in DOMAIN target : target[g] \in Requests =>
          /\ req'[target[g]].op = "goal" /\ req'[target[g]].pc # "write"
          /\ req'[target[g]].pc = "delete" => req'[target[g]].goal = g
    <3> SUFFICES ASSUME NEW g \in DOMAIN target, target[g] \in Requests
                 PROVE  /\ req'[target[g]].op = "goal" /\ req'[target[g]].pc # "write"
                        /\ req'[target[g]].pc = "delete" => req'[target[g]].goal = g
      OBVIOUS
    <3>1. /\ req[target[g]].op = "goal" /\ req[target[g]].pc # "write"
          /\ req[target[g]].pc = "delete" => req[target[g]].goal = g
      BY DEF RoadmapInv, Owners
    <3>2. CASE target[g] = r
      <4>1. req[r].pc = "delete"
        BY <3>1, <3>2, <1>1, <1>5 DEF Locals, LocalOK, Fresh, Begins, Moves
      <4> QED
        BY <3>1, <3>2, <4>1, <1>2 DEF Quiet
    <3> QED
      BY <3>1, <3>2, <1>1
  <2>2. ASSUME NEW g \in DOMAIN assumptions
        PROVE  /\ req'[assumptions[g]].op = "assumptions"
               /\ req'[assumptions[g]].pc \in {"delete"} \cup Answered
               /\ req'[assumptions[g]].pc = "delete" => req'[assumptions[g]].goal = g
    <3>1. /\ req[assumptions[g]].op = "assumptions" /\ assumptions[g] \in Requests
          /\ req[assumptions[g]].pc \in {"delete"} \cup Answered
          /\ req[assumptions[g]].pc = "delete" => req[assumptions[g]].goal = g
      BY <1>1 DEF RoadmapInv, Owners, TypeOK
    <3>2. CASE assumptions[g] = r
      <4>1. req[r].pc = "delete"
        BY <3>1, <3>2, <1>1, <1>5 DEF Locals, LocalOK, Fresh, Begins, Moves
      <4> QED
        BY <3>1, <3>2, <4>1, <1>2 DEF Quiet, Answered
    <3> QED
      BY <3>1, <3>2, <1>1
  <2>3. \A g \in DOMAIN baselines : baselines[g].by \in Requests
    BY <1>1 DEF TypeOK, Plans
  <2> QED
    BY <2>1, <2>2, <2>3, <1>1, <1>2 DEF RoadmapInv, Owners
<1>7. ASSUME NEW p \in Requests, NEW x \in Requests, req[p].op \in {"goal", "assumptions"},
             req[x].op = "project", Behind(p, x)
      PROVE  Behind(p, x)'
  <2>1. req'[p].op = req[p].op /\ req'[p].before = req[p].before
        /\ req'[x].before = req[x].before
    BY <1>2, <1>7
  <2>2. CASE p = r
    BY <2>1, <2>2, <1>7 DEF Behind, Quiet
  <2>3. CASE p # r
    BY <2>1, <2>3, <1>1, <1>7 DEF Behind
  <2> QED
    BY <2>2, <2>3
<1>8. Lines'
  <2> SUFFICES ASSUME NEW g \in DOMAIN baselines
               PROVE  /\ target[g] \in Requests /\ target[g] # baselines[g].target
                           => Behind(target[g], baselines[g].by)'
                      /\ g \in DOMAIN assumptions /\ assumptions[g] # baselines[g].assumed
                           => Behind(assumptions[g], baselines[g].by)'
    BY <1>1 DEF Lines, Behind
  <2>1. /\ baselines[g].by \in Requests /\ req[baselines[g].by].op = "project"
        /\ g \in DOMAIN target
        /\ target[g] \in Requests => req[target[g]].op = "goal"
        /\ g \in DOMAIN assumptions =>
             assumptions[g] \in Requests /\ req[assumptions[g]].op = "assumptions"
    BY <1>1 DEF TypeOK, Plans, RoadmapInv, Owners
  <2>2. /\ target[g] \in Requests /\ target[g] # baselines[g].target
            => Behind(target[g], baselines[g].by)
        /\ g \in DOMAIN assumptions /\ assumptions[g] # baselines[g].assumed
            => Behind(assumptions[g], baselines[g].by)
    BY DEF RoadmapInv, Lines
  <2>3. ASSUME NEW p, p \in Requests, req[p].op \in {"goal", "assumptions"},
               Behind(p, baselines[g].by)
        PROVE  Behind(p, baselines[g].by)'
    BY <2>1, <2>3, <1>1, <1>7 DEF Behind
  <2> QED
    BY <2>1, <2>2, <2>3, <1>1 DEF Behind
<1>9. ASSUME NEW x \in Requests PROVE DrawnOK(x)'
  <2>1. CASE x = r
    BY <2>1 DEF Quiet
  <2>2. CASE x # r
    BY <2>2, <1>1 DEF RoadmapInv, DrawnOK
  <2> QED
    BY <2>1, <2>2
<1>10. GoalsOK'
  <2>1. OneGoal'
    <3> SUFFICES ASSUME NEW i \in DOMAIN goals, NEW j \in DOMAIN goals, i < j
                 PROVE  goals[i] # Default /\ goals[i] \notin req'[goals[j]].before
      BY <1>1 DEF OneGoal
    <3>1. /\ goals[i] # Default /\ goals[i] \notin req[goals[j]].before
          /\ goals[j] \in Requests
      BY DEF RoadmapInv, GoalsOK, OneGoal
    <3>2. req[goals[j]].op # "none"
      BY <3>1 DEF RoadmapInv, Owners
    <3> QED
      BY <3>1, <3>2, <1>2
  <2>2. ASSUME NEW x \in Requests, Unseen(x)', NEW i \in DOMAIN goals
        PROVE  goals[i] # Default /\ goals[i] \notin req'[x].before
    <3>1. CASE x = r
      <4>1. Unseen(r)
        BY <2>2, <3>1 DEF Quiet
      <4>2. req[r].op # "none"
        BY <4>1, <1>1 DEF Unseen, At, Locals, LocalOK
      <4> QED
        BY <3>1, <4>1, <4>2, <1>2 DEF RoadmapInv, GoalsOK
    <3>2. CASE x # r
      <4>1. Unseen(x) /\ req'[x] = req[x]
        BY <2>2, <3>2, <1>1 DEF Unseen, At
      <4> QED
        BY <4>1 DEF RoadmapInv, GoalsOK
    <3> QED
      BY <3>1, <3>2
  <2> QED
    BY <2>1, <2>2, <1>1 DEF RoadmapInv, GoalsOK
<1>11. ASSUME NoChange', NEW x \in Requests PROVE PlanOK(x)'
  <2>1. CASE x = r
    BY <1>11, <2>1 DEF Quiet
  <2>2. CASE x # r
    <3>1. NoChange
      BY <1>11, <1>2 DEF NoChange
    <3> QED
      BY <2>2, <3>1, <1>1 DEF RoadmapInv, PlanOK, At
  <2> QED
    BY <2>1, <2>2
<1>12. PostedSnapshotReplaced'
  <2> SUFFICES ASSUME NEW x \in Requests, req'[x].recorded, snapshot \in Requests,
                      snapshot # x, req'[snapshot].op = "snapshot",
                      snapshot \in req'[x].before
               PROVE  FALSE
    BY <1>1 DEF PostedSnapshotReplaced
  <2>1. req[x].recorded
    BY <1>1 DEF Begins
  <2>2. req[x].op # "none"
    BY <2>1, <1>1 DEF Locals, LocalOK, Fresh
  <2>3. req[snapshot].op = "snapshot" /\ snapshot \in req[x].before
    BY <2>2, <1>2 DEF RoadmapInv, Owners
  <2> QED
    BY <2>1, <2>3 DEF RoadmapInv, PostedSnapshotReplaced
<1> QED
  BY <1>3, <1>4, <1>6, <1>8, <1>9, <1>10, <1>11, <1>12 DEF RoadmapInv, Locals

\* UpsertGoal adds at most one goal, at the end, and gives the goal its writer.
LEMMA UpsertRows ==
  ASSUME TypeOK, NEW g \in Writers, NEW by \in Writers, UpsertGoal(g, by)
  PROVE  /\ goals' \in Seq(Writers)
         /\ DOMAIN target' = {goals'[i] : i \in DOMAIN goals'}
         /\ DOMAIN target' = DOMAIN target \cup {g} /\ target'[g] = by
         /\ \A h \in DOMAIN target : h # g => target'[h] = target[h]
         /\ \A h \in DOMAIN target' : target'[h] \in Writers
         /\ \A j \in DOMAIN goals' :
              \/ j \in DOMAIN goals /\ goals'[j] = goals[j]
              \/ /\ g \notin DOMAIN target /\ goals'[j] = g
                 /\ \A i \in DOMAIN goals' : i # j => i \in DOMAIN goals /\ i < j
<1>1. /\ DOMAIN target' = DOMAIN target \cup {g} /\ target'[g] = by
      /\ \A h \in DOMAIN target : h # g => target'[h] = target[h]
  BY DEF UpsertGoal, Put
<1>2. /\ goals \in Seq(Writers) /\ DOMAIN target = {goals[i] : i \in DOMAIN goals}
      /\ \A h \in DOMAIN target : target[h] \in Writers
  BY DEF TypeOK
<1>3. CASE g \in DOMAIN target
  BY <1>1, <1>2, <1>3 DEF UpsertGoal
<1>4. CASE g \notin DOMAIN target
  <2>1. goals' = Append(goals, g)
    BY <1>4 DEF UpsertGoal
  <2>2. /\ goals' \in Seq(Writers) /\ Len(goals') = Len(goals) + 1
        /\ DOMAIN goals' = 1..Len(goals) + 1 /\ DOMAIN goals = 1..Len(goals)
        /\ Len(goals) \in Nat /\ goals'[Len(goals) + 1] = g
        /\ \A i \in 1..Len(goals) : goals'[i] = goals[i]
    BY <1>2, <2>1
  <2>3. {goals'[i] : i \in DOMAIN goals'} = {goals[i] : i \in DOMAIN goals} \cup {g}
    BY <2>2
  <2>4. \A j \in DOMAIN goals' : j \in DOMAIN goals \/ j = Len(goals) + 1
    BY <2>2
  <2>5. \A i \in DOMAIN goals : i < Len(goals) + 1
    BY <2>2
  <2> QED
    BY <1>1, <1>2, <1>4, <2>2, <2>3, <2>4, <2>5
<1> QED
  BY <1>3, <1>4

\* A goal is inserted after another one only by a request that overlapped.
LEMMA UpsertGoals ==
  ASSUME RoadmapInv, NEW r \in Requests, Moves(r), NEW g, g \in DOMAIN target \/ g = r,
         NEW by \in Writers, UpsertGoal(g, by),
         g \notin DOMAIN target => Unseen(r), ~Unseen(r)'
  PROVE  /\ GoalsOK'
         /\ \A j \in DOMAIN goals' : goals'[j] \in Requests => req'[goals'[j]].op # "none"
<1>1. TypeOK /\ Locals /\ \A x \in Requests : x # r => req'[x] = req[x]
  BY DEF RoadmapInv, Moves
<1>2. /\ \A x \in Requests : req[x].op # "none" =>
           req'[x].op = req[x].op /\ req'[x].before = req[x].before
      /\ \A x \in Requests : r \notin req[x].before /\ r \notin req'[x].before
  BY <1>1, BeforeStays
<1>3. g \in Writers /\ r # Default
  BY <1>1, RoadmapAssumption DEF TypeOK, Writers
<1>4. /\ DOMAIN target' = DOMAIN target \cup {g}
      /\ \A j \in DOMAIN goals' :
           \/ j \in DOMAIN goals /\ goals'[j] = goals[j]
           \/ /\ g \notin DOMAIN target /\ goals'[j] = g
              /\ \A i \in DOMAIN goals' : i # j => i \in DOMAIN goals /\ i < j
  BY <1>1, <1>3, UpsertRows
<1>5. \A i \in DOMAIN goals' : i \in Int
  <2>1. goals' \in Seq(Writers)
    BY <1>1, <1>3, UpsertRows
  <2> QED
    BY <2>1
<1>6. req[r].op # "none"
  BY <1>1 DEF Moves, Locals, LocalOK, Working
<1>7. ASSUME NEW i \in DOMAIN goals', NEW j \in DOMAIN goals', i < j
      PROVE  /\ goals'[j] \in Requests /\ goals'[i] # Default
             /\ goals'[i] \notin req'[goals'[j]].before
  <2>1. CASE /\ i \in DOMAIN goals /\ goals'[i] = goals[i]
             /\ j \in DOMAIN goals /\ goals'[j] = goals[j]
    <3>1. goals[j] \in Requests /\ goals[i] # Default
          /\ goals[i] \notin req[goals[j]].before
      BY <1>7, <2>1 DEF RoadmapInv, GoalsOK, OneGoal
    <3>2. req[goals[j]].op # "none"
      BY <2>1, <3>1 DEF RoadmapInv, Owners
    <3> QED
      BY <2>1, <3>1, <3>2, <1>2
  <2>2. CASE g \notin DOMAIN target /\ goals'[j] = g /\ i \in DOMAIN goals
             /\ goals'[i] = goals[i]
    <3>1. g = r /\ Unseen(r)
      BY <2>2
    <3>2. goals[i] # Default /\ goals[i] \notin req[r].before
      BY <2>2, <3>1 DEF RoadmapInv, GoalsOK
    <3> QED
      BY <2>2, <3>1, <3>2, <1>2, <1>6
  <2>3. ASSUME \A k \in DOMAIN goals' : k # i => k \in DOMAIN goals /\ k < i PROVE FALSE
    <3>1. i \in Int /\ j \in Int
      BY <1>5, <1>7
    <3>2. j < i
      BY <1>7, <2>3, <3>1
    <3> QED
      BY <1>7, <3>1, <3>2
  <2>4. CASE \A k \in DOMAIN goals' : k # j => k \in DOMAIN goals /\ k < j
    <3>1. i # j
      BY <1>5, <1>7
    <3>2. i \in DOMAIN goals
      BY <2>4, <3>1
    <3> QED
      BY <1>4, <2>1, <2>2, <2>3, <3>2
  <2> QED
    BY <1>4, <2>1, <2>3, <2>4
<1>8. ASSUME NEW x \in Requests, Unseen(x)', NEW i \in DOMAIN goals'
      PROVE  goals'[i] # Default /\ goals'[i] \notin req'[x].before
  <2>1. x # r /\ req'[x] = req[x] /\ Unseen(x)
    BY <1>1, <1>4, <1>8 DEF Unseen, At
  <2>2. CASE i \in DOMAIN goals /\ goals'[i] = goals[i]
    BY <2>1, <2>2 DEF RoadmapInv, GoalsOK
  <2>3. CASE goals'[i] = r
    BY <2>3, <1>2, <1>3
  <2> QED
    BY <1>4, <2>2, <2>3
<1>9. ASSUME NEW j \in DOMAIN goals', goals'[j] \in Requests
      PROVE req'[goals'[j]].op # "none"
  <2>1. CASE j \in DOMAIN goals /\ goals'[j] = goals[j]
    BY <1>2, <1>9, <2>1 DEF RoadmapInv, Owners
  <2>2. CASE goals'[j] = r
    BY <1>2, <1>6, <2>2
  <2> QED
    BY <1>4, <2>1, <2>2
<1> QED
  BY <1>7, <1>8, <1>9 DEF GoalsOK, OneGoal

\* What any step of a request in the making leaves as it is.
LEMMA MoveFacts ==
  ASSUME RoadmapInv, NEW r \in Requests, Moves(r)
  PROVE  /\ TypeOK /\ Locals /\ req' \in [Requests -> Request]
         /\ \A x \in Requests : x # r => req'[x] = req[x]
         /\ req'[r].op = req[r].op /\ req[r].op # "none"
         /\ req[r].pc # "idle" /\ req[r].pc \notin Answered
         /\ \A x \in Requests : req[x].op # "none" =>
              req'[x].op = req[x].op /\ req'[x].before = req[x].before
         /\ \A x \in Requests : r \notin req[x].before /\ r \notin req'[x].before
         /\ \A x \in Requests : \A q \in req'[x].before :
              q # r /\ q \in Requests /\ req'[q].pc \in Answered
         /\ snapshot' = snapshot /\ req'[r].recorded = req[r].recorded
              => PostedSnapshotReplaced'
         /\ \A p, x \in Requests :
              /\ req[p].op # "none" /\ req[x].op # "none"
              /\ Behind(p, x) /\ (p # r \/ req'[r].pc # "ok")
              => Behind(p, x)'
         /\ DOMAIN target \subseteq DOMAIN target' =>
              \A x \in Requests : x # r => LocalOK(x)'
<1>1. TypeOK /\ Locals
  BY DEF RoadmapInv
<1>2. /\ \A x \in Requests : req[x].op # "none" =>
           req'[x].op = req[x].op /\ req'[x].before = req[x].before
      /\ \A x \in Requests : r \notin req[x].before /\ r \notin req'[x].before
      /\ \A x \in Requests : \A q \in req'[x].before :
           q # r /\ q \in Requests /\ req'[q].pc \in Answered
      /\ req' \in [Requests -> Request]
  BY <1>1, BeforeStays
<1>3. /\ \A x \in Requests : x # r => req'[x] = req[x]
      /\ req'[r].op = req[r].op /\ req[r].op # "none"
      /\ req[r].pc # "idle" /\ req[r].pc \notin Answered
  BY <1>1 DEF Moves, Locals, LocalOK, Working, Answered
<1>4. ASSUME snapshot' = snapshot, req'[r].recorded = req[r].recorded
      PROVE  PostedSnapshotReplaced'
  <2> SUFFICES ASSUME NEW x \in Requests, req'[x].recorded, snapshot \in Requests,
                      snapshot # x, req'[snapshot].op = "snapshot",
                      snapshot \in req'[x].before
               PROVE  FALSE
    BY <1>4 DEF PostedSnapshotReplaced
  <2>1. req[x].recorded /\ req[x].op # "none"
    BY <1>1, <1>3, <1>4 DEF Locals, LocalOK, Fresh
  <2>2. req[snapshot].op = "snapshot" /\ snapshot \in req[x].before
    BY <2>1, <1>2 DEF RoadmapInv, Owners
  <2> QED
    BY <2>1, <2>2 DEF RoadmapInv, PostedSnapshotReplaced
<1>5. ASSUME NEW p \in Requests, NEW x \in Requests, req[p].op # "none", req[x].op # "none",
             Behind(p, x), p # r \/ req'[r].pc # "ok"
      PROVE  Behind(p, x)'
  BY <1>2, <1>3, <1>5 DEF Behind
<1>6. ASSUME DOMAIN target \subseteq DOMAIN target', NEW x \in Requests, x # r
      PROVE  LocalOK(x)'
  <2>1. LocalOK(x) /\ req'[x] = req[x]
    BY <1>1, <1>3, <1>6 DEF Locals
  <2> QED
    BY <2>1, <1>2, <1>6 DEF LocalOK, At
<1> QED
  BY <1>1, <1>2, <1>3, <1>4, <1>5, <1>6

\* A goal that is written is newer than every plan line and every plan line in
\* the making; whoever began before it is not answered before it.
LEMMA PutGoalKeeps ==
  ASSUME RoadmapInv, NEW r \in Requests, At(r, "goal", "write"),
         UpsertGoal(req[r].goal, r), Go(r, "delete"), Ok,
         UNCHANGED <<assumptions, baselines, snapshot, background>>
  PROVE  RoadmapInv'
<1> DEFINE g == req[r].goal
<1>1. /\ TypeOK /\ req[r].pc = "write" /\ req[r].op = "goal" /\ LocalOK(r)
      /\ r \in Writers /\ assumptions' = assumptions /\ baselines' = baselines
      /\ snapshot' = snapshot /\ background' = background /\ faults' = faults
      /\ UpsertGoal(g, r)
  BY DEF RoadmapInv, Locals, At, Writers, Ok
<1>2. g \in DOMAIN target \cup {r} /\ g \in Writers
  BY <1>1 DEF LocalOK, At, TypeOK, Writers
<1> HIDE DEF g
<1>3. /\ Moves(r) /\ req'[r].pc = "delete" /\ req'[r].goal = g
      /\ req'[r].recorded = req[r].recorded
  <2>1. req[r].pc \in Working /\ "delete" \in Working
    BY <1>1 DEF Working
  <2> QED
    BY <1>1, <2>1, GoFields DEF g
<1>4. /\ Locals /\ req' \in [Requests -> Request]
      /\ \A x \in Requests : x # r => req'[x] = req[x]
      /\ req'[r].op = "goal"
      /\ \A x \in Requests : req[x].op # "none" =>
           req'[x].op = req[x].op /\ req'[x].before = req[x].before
      /\ \A x \in Requests : r \notin req[x].before /\ r \notin req'[x].before
      /\ \A x \in Requests : \A q \in req'[x].before :
           q # r /\ q \in Requests /\ req'[q].pc \in Answered
      /\ PostedSnapshotReplaced'
      /\ \A p, x \in Requests :
           req[p].op # "none" /\ req[x].op # "none" /\ Behind(p, x) => Behind(p, x)'
      /\ DOMAIN target \subseteq DOMAIN target' => \A x \in Requests : x # r => LocalOK(x)'
  BY <1>1, <1>3, MoveFacts
<1>5. /\ goals' \in Seq(Writers)
      /\ DOMAIN target' = {goals'[i] : i \in DOMAIN goals'}
      /\ DOMAIN target' = DOMAIN target \cup {g} /\ target'[g] = r
      /\ \A h \in DOMAIN target : h # g => target'[h] = target[h]
      /\ \A h \in DOMAIN target' : target'[h] \in Writers
  BY <1>1, <1>2, UpsertRows
<1>6. TypeOK'
  <2>1. ASSUME NEW x \in Requests,
               req'[x].pc \in {"baseline", "save", "reread", "read", "delete"}
        PROVE  req'[x].goal \in DOMAIN target'
    BY <2>1, <1>1, <1>3, <1>4, <1>5 DEF TypeOK
  <2>2. background' \subseteq {x \in Requests : req'[x].op = "project"}
    BY <1>1, <1>4 DEF TypeOK
  <2> QED
    BY <2>1, <2>2, <1>1, <1>4, <1>5 DEF TypeOK
<1>7. ASSUME NEW x \in Requests PROVE LocalOK(x)'
  <2>1. LocalOK(r)'
    BY <1>3, <1>4 DEF LocalOK, At
  <2> QED
    BY <2>1, <1>4, <1>5
<1>8. /\ GoalsOK'
      /\ \A j \in DOMAIN goals' : goals'[j] \in Requests => req'[goals'[j]].op # "none"
  <2>1. g \notin DOMAIN target => Unseen(r)
    BY <1>1 DEF Unseen, At, g
  <2>2. ~Unseen(r)'
    BY <1>3 DEF Unseen, At
  <2> QED
    BY <2>1, <2>2, <1>1, <1>2, <1>3, UpsertGoals
<1>9. \A h \in DOMAIN target : target[h] # r
  BY <1>1 DEF RoadmapInv, Owners
<1>10. \A h \in DOMAIN assumptions : assumptions[h] # r /\ assumptions[h] \in Requests
  BY <1>1 DEF RoadmapInv, Owners, TypeOK
<1>11. Owners'
  <2>1. ASSUME NEW h \in DOMAIN target', target'[h] \in Requests
        PROVE  /\ req'[target'[h]].op = "goal" /\ req'[target'[h]].pc # "write"
               /\ req'[target'[h]].pc = "delete" => req'[target'[h]].goal = h
    <3>1. CASE h = g
      BY <3>1, <1>3, <1>4, <1>5
    <3>2. CASE h # g
      <4>1. h \in DOMAIN target /\ target'[h] = target[h] /\ target[h] # r
        BY <3>2, <1>5, <1>9
      <4>2. req'[target[h]] = req[target[h]]
        BY <2>1, <4>1, <1>4
      <4> QED
        BY <2>1, <4>1, <4>2 DEF RoadmapInv, Owners
    <3> QED
      BY <3>1, <3>2
  <2>2. \A h \in DOMAIN assumptions :
          /\ req'[assumptions[h]].op = "assumptions"
          /\ req'[assumptions[h]].pc \in {"delete"} \cup Answered
          /\ req'[assumptions[h]].pc = "delete" => req'[assumptions[h]].goal = h
    BY <1>4, <1>10 DEF RoadmapInv, Owners
  <2>3. \A h \in DOMAIN baselines : baselines[h].by \in Requests
    BY <1>1 DEF TypeOK, Plans
  <2> QED
    BY <2>1, <2>2, <2>3, <1>1, <1>4, <1>8 DEF RoadmapInv, Owners
<1>12. Lines'
  <2>1. ASSUME NEW h \in DOMAIN baselines
        PROVE  /\ baselines[h].by \in Requests /\ req[baselines[h].by].op # "none"
               /\ h \in DOMAIN target
    BY <1>1 DEF TypeOK, Plans, RoadmapInv, Owners
  <2>2. ASSUME NEW h \in DOMAIN baselines, NEW b \in Requests, b = baselines[h].by,
               NEW p \in Requests,
               \/ p = target'[h] /\ p # baselines[h].target
               \/ h \in DOMAIN assumptions /\ p = assumptions[h] /\ p # baselines[h].assumed
        PROVE  Behind(p, b)'
    <3>1. CASE h = g /\ p = target'[h]
      BY <2>1, <2>2, <3>1, <1>3, <1>4, <1>5 DEF Behind
    <3>2. CASE h # g /\ p = target'[h] /\ p # baselines[h].target
      <4>1. p = target[h] /\ Behind(p, b) /\ req[p].op # "none"
        BY <2>1, <2>2, <3>2, <1>5 DEF RoadmapInv, Lines, Owners
      <4> QED
        BY <2>1, <2>2, <4>1, <1>4
    <3>3. CASE h \in DOMAIN assumptions /\ p = assumptions[h] /\ p # baselines[h].assumed
      <4>1. Behind(p, b) /\ req[p].op # "none"
        BY <2>2, <3>3 DEF RoadmapInv, Lines, Owners
      <4> QED
        BY <2>1, <2>2, <4>1, <1>4
    <3> QED
      BY <2>2, <3>1, <3>2, <3>3
  <2> QED
    BY <2>1, <2>2, <1>1, <1>10 DEF Lines, Behind
<1>13. ASSUME NEW x \in Requests PROVE DrawnOK(x)'
  <2>1. CASE x = r
    BY <2>1, <1>4 DEF DrawnOK
  <2>2. CASE x # r
    <3>1. req'[x] = req[x] /\ DrawnOK(x) /\ LocalOK(x)
      BY <2>2, <1>4 DEF RoadmapInv, Locals
    <3>2. req[x].pc \in {"assumptions", "baseline", "save"} => req[x].goal \in DOMAIN target
      BY <3>1, <1>1 DEF LocalOK, TypeOK
    <3> QED
      BY <3>1, <3>2, <1>1, <1>4, <1>5 DEF DrawnOK
  <2> QED
    BY <2>1, <2>2
<1>14. ~NoChange'
  BY <1>4 DEF NoChange
<1> QED
  BY <1>4, <1>6, <1>7, <1>8, <1>11, <1>12, <1>13, <1>14 DEF RoadmapInv, Locals

\* r goes on with the goal it has inserted.
Inserted(r) == req' = [req EXCEPT ![r].pc = AfterEnsure(r), ![r].goal = r]

\* The default goal that a request inserts has no writer: nobody is to blame
\* for what was drawn before it.
LEMMA InsertGoalKeeps ==
  ASSUME RoadmapInv, NEW r \in Requests, req[r].pc = "insert", UpsertGoal(r, Default),
         Inserted(r), Ok,
         UNCHANGED <<assumptions, baselines, snapshot, background>>
  PROVE  RoadmapInv'
<1>1. /\ TypeOK /\ LocalOK(r) /\ req[r] \in Request /\ Default \notin Requests
      /\ r \in Writers /\ Default \in Writers /\ assumptions' = assumptions
      /\ baselines' = baselines /\ snapshot' = snapshot /\ background' = background
      /\ faults' = faults /\ req \in [Requests -> Request]
  BY RoadmapAssumption DEF RoadmapInv, TypeOK, Locals, Writers, Ok
<1>2. req[r].op \in {"project", "assumptions"}
  BY <1>1 DEF LocalOK, Request, Answered
<1> DEFINE pc == AfterEnsure(r)
           f1 == [req EXCEPT ![r].pc = pc]
           f2 == [f1 EXCEPT ![r].goal = r]
<1>3. /\ pc \in {"baseline", "read"} /\ pc \in Working
      /\ pc = "baseline" <=> req[r].op = "project"
  BY <1>2 DEF AfterEnsure, Working
<1>4. req' = f2
  BY Zenon DEF f1, f2, Inserted
<1> HIDE DEF pc
<1>5. /\ f1 \in [Requests -> Request] /\ f1[r].pc = pc /\ f1[r].op = req[r].op
      /\ f1[r].before = req[r].before /\ f1[r].recorded = req[r].recorded
      /\ f1[r].target = req[r].target /\ f1[r].assumed = req[r].assumed
      /\ \A x \in Requests : x # r => f1[x] = req[x]
  BY <1>1, <1>3 DEF Request
<1> HIDE DEF f1
<1>6. /\ req' \in [Requests -> Request] /\ req'[r].pc = pc /\ req'[r].op = req[r].op
      /\ req'[r].before = req[r].before /\ req'[r].recorded = req[r].recorded
      /\ req'[r].goal = r
      /\ \A x \in Requests : x # r => req'[x] = req[x]
  <2>1. r \in Writers \cup {None}
    BY <1>1
  <2> QED
    BY <2>1, <1>4, <1>5 DEF Request
<1>7. Moves(r)
  BY <1>3, <1>6 DEF Moves, Working
<1>8. /\ Locals
      /\ \A x \in Requests : req[x].op # "none" =>
           req'[x].op = req[x].op /\ req'[x].before = req[x].before
      /\ \A x \in Requests : r \notin req[x].before /\ r \notin req'[x].before
      /\ \A x \in Requests : \A q \in req'[x].before :
           q # r /\ q \in Requests /\ req'[q].pc \in Answered
      /\ PostedSnapshotReplaced'
      /\ \A p, x \in Requests :
           req[p].op # "none" /\ req[x].op # "none" /\ Behind(p, x) => Behind(p, x)'
      /\ DOMAIN target \subseteq DOMAIN target' => \A x \in Requests : x # r => LocalOK(x)'
  BY <1>1, <1>3, <1>6, <1>7, MoveFacts
<1>9. /\ goals' \in Seq(Writers)
      /\ DOMAIN target' = {goals'[i] : i \in DOMAIN goals'}
      /\ DOMAIN target' = DOMAIN target \cup {r} /\ target'[r] = Default
      /\ \A h \in DOMAIN target : h # r => target'[h] = target[h]
      /\ \A h \in DOMAIN target' : target'[h] \in Writers
  BY <1>1, UpsertRows
<1>10. TypeOK'
  <2>1. ASSUME NEW x \in Requests,
               req'[x].pc \in {"baseline", "save", "reread", "read", "delete"}
        PROVE  req'[x].goal \in DOMAIN target'
    BY <2>1, <1>1, <1>6, <1>9 DEF TypeOK
  <2>2. background' \subseteq {x \in Requests : req'[x].op = "project"}
    BY <1>1, <1>6 DEF TypeOK
  <2> QED
    BY <2>1, <2>2, <1>1, <1>6, <1>9 DEF TypeOK
<1>11. ASSUME NEW x \in Requests PROVE LocalOK(x)'
  <2>1. LocalOK(r)'
    BY <1>2, <1>3, <1>6, <1>8 DEF LocalOK, At
  <2> QED
    BY <2>1, <1>8, <1>9
<1>12. /\ GoalsOK'
       /\ \A j \in DOMAIN goals' : goals'[j] \in Requests => req'[goals'[j]].op # "none"
  <2>1. Unseen(r) /\ ~Unseen(r)'
    BY <1>3, <1>6 DEF Unseen, At
  <2> QED
    BY <2>1, <1>1, <1>7, UpsertGoals
<1>13. \A h \in DOMAIN assumptions : assumptions[h] # r /\ assumptions[h] \in Requests
  BY <1>1 DEF RoadmapInv, Owners, TypeOK, Answered
<1>14. Owners'
  <2>1. ASSUME NEW h \in DOMAIN target', target'[h] \in Requests
        PROVE  /\ req'[target'[h]].op = "goal" /\ req'[target'[h]].pc # "write"
               /\ req'[target'[h]].pc = "delete" => req'[target'[h]].goal = h
    <3>1. h \in DOMAIN target /\ target'[h] = target[h] /\ target[h] # r
      BY <2>1, <1>1, <1>2, <1>9 DEF RoadmapInv, Owners
    <3>2. req'[target[h]] = req[target[h]]
      BY <2>1, <3>1, <1>6
    <3> QED
      BY <2>1, <3>1, <3>2 DEF RoadmapInv, Owners
  <2>2. \A h \in DOMAIN assumptions :
          /\ req'[assumptions[h]].op = "assumptions"
          /\ req'[assumptions[h]].pc \in {"delete"} \cup Answered
          /\ req'[assumptions[h]].pc = "delete" => req'[assumptions[h]].goal = h
    BY <1>6, <1>13 DEF RoadmapInv, Owners
  <2>3. \A h \in DOMAIN baselines : baselines[h].by \in Requests
    BY <1>1 DEF TypeOK, Plans
  <2>4. \A h \in DOMAIN baselines : req'[baselines[h].by].op = "project"
    BY <2>3, <1>8 DEF RoadmapInv, Owners
  <2>5. snapshot \in Requests => req'[snapshot].op # "none"
    BY <1>8 DEF RoadmapInv, Owners
  <2> QED
    BY <2>1, <2>2, <2>4, <2>5, <1>1, <1>12 DEF Owners
<1>15. Lines'
  <2>1. ASSUME NEW h \in DOMAIN baselines
        PROVE  /\ baselines[h].by \in Requests /\ req[baselines[h].by].op # "none"
               /\ h \in DOMAIN target
    BY <1>1 DEF TypeOK, Plans, RoadmapInv, Owners
  <2>2. ASSUME NEW h \in DOMAIN baselines, NEW b \in Requests, b = baselines[h].by,
               NEW p \in Requests,
               \/ p = target'[h] /\ p # baselines[h].target
               \/ h \in DOMAIN assumptions /\ p = assumptions[h] /\ p # baselines[h].assumed
        PROVE  Behind(p, b)'
    <3>1. Behind(p, b) /\ req[p].op # "none"
      BY <2>1, <2>2, <1>1, <1>9 DEF RoadmapInv, Lines, Owners
    <3> QED
      BY <2>1, <2>2, <3>1, <1>8
  <2> QED
    BY <2>1, <2>2, <1>1, <1>13 DEF Lines, Behind
<1>16. ASSUME NEW x \in Requests PROVE DrawnOK(x)'
  <2>1. CASE x = r
    BY <2>1, <1>1, <1>3, <1>6, <1>9 DEF RoadmapInv, DrawnOK
  <2>2. CASE x # r
    <3>1. req'[x] = req[x] /\ DrawnOK(x) /\ LocalOK(x)
      BY <2>2, <1>6, <1>8 DEF RoadmapInv, Locals
    <3>2. req[x].pc \in {"assumptions", "baseline", "save"} => req[x].goal \in DOMAIN target
      BY <3>1, <1>1 DEF LocalOK, TypeOK
    <3> QED
      BY <3>1, <3>2, <1>1, <1>9 DEF DrawnOK
  <2> QED
    BY <2>1, <2>2
<1>17. ASSUME NoChange', NEW x \in Requests PROVE PlanOK(x)'
  <2>1. NoChange
    BY <1>6, <1>17 DEF NoChange
  <2> QED
    BY <2>1, <1>1, <1>3, <1>6 DEF RoadmapInv, PlanOK, At
<1> QED
  BY <1>8, <1>10, <1>11, <1>12, <1>14, <1>15, <1>16, <1>17 DEF RoadmapInv, Locals

\* Whoever changed the goal or its assumptions deletes the plan line before it
\* is answered.
LEMMA DeleteBaselineKeeps ==
  ASSUME RoadmapInv, NEW r \in Requests, req[r].pc = "delete", Go(r, "ok"), Ok,
         baselines' = [g \in DOMAIN baselines \ {req[r].goal} |-> baselines[g]],
         UNCHANGED <<goals, target, assumptions, snapshot, background>>
  PROVE  RoadmapInv'
<1>1. /\ TypeOK /\ LocalOK(r) /\ req[r] \in Request /\ goals' = goals
      /\ target' = target /\ assumptions' = assumptions /\ snapshot' = snapshot
      /\ background' = background /\ faults' = faults
      /\ req[r].pc \in Working /\ "ok" \in Answered
  BY DEF RoadmapInv, TypeOK, Locals, Ok, Working, Answered
<1>2. req[r].op \in {"goal", "assumptions"}
  BY <1>1 DEF LocalOK, Request, Answered
<1>3. Moves(r) /\ req'[r].pc = "ok" /\ req'[r].recorded = req[r].recorded
  BY <1>1, GoFields
<1>4. /\ Locals /\ req' \in [Requests -> Request]
      /\ \A x \in Requests : x # r => req'[x] = req[x]
      /\ req'[r].op = req[r].op
      /\ \A x \in Requests : req[x].op # "none" =>
           req'[x].op = req[x].op /\ req'[x].before = req[x].before
      /\ \A x \in Requests : \A q \in req'[x].before :
           q # r /\ q \in Requests /\ req'[q].pc \in Answered
      /\ \A x \in Requests : r \notin req'[x].before
      /\ PostedSnapshotReplaced'
      /\ \A p, x \in Requests :
           p # r /\ req[p].op # "none" /\ req[x].op # "none" /\ Behind(p, x)
             => Behind(p, x)'
      /\ \A x \in Requests : x # r => LocalOK(x)'
  BY <1>1, <1>3, MoveFacts
<1>5. /\ DOMAIN baselines' = DOMAIN baselines \ {req[r].goal}
      /\ \A h \in DOMAIN baselines' : baselines'[h] = baselines[h]
  OBVIOUS
<1>6. TypeOK'
  <2>1. goals' \in Seq(Writers) /\ DOMAIN target' = {goals'[i] : i \in DOMAIN goals'}
    BY <1>1 DEF TypeOK
  <2>2. background' \subseteq {x \in Requests : req'[x].op = "project"}
    BY <1>1, <1>4 DEF TypeOK
  <2>3. ASSUME NEW x \in Requests,
               req'[x].pc \in {"baseline", "save", "reread", "read", "delete"}
        PROVE  req'[x].goal \in DOMAIN target'
    BY <2>3, <1>1, <1>3, <1>4 DEF TypeOK
  <2> QED
    BY <2>1, <2>2, <2>3, <1>1, <1>4, <1>5 DEF TypeOK
<1>7. ASSUME NEW x \in Requests PROVE LocalOK(x)'
  <2>1. LocalOK(r)'
    BY <1>1, <1>2, <1>3, <1>4 DEF LocalOK, At
  <2> QED
    BY <2>1, <1>4
<1>8. Owners'
  <2>1. \A g \in DOMAIN target : target[g] \in Requests =>
          /\ req'[target[g]].op = "goal" /\ req'[target[g]].pc # "write"
          /\ req'[target[g]].pc = "delete" => req'[target[g]].goal = g
    BY <1>3, <1>4 DEF RoadmapInv, Owners
  <2>2. \A h \in DOMAIN assumptions : assumptions[h] \in Requests
    BY <1>1 DEF TypeOK
  <2>3. \A h \in DOMAIN assumptions :
          /\ req'[assumptions[h]].op = "assumptions"
          /\ req'[assumptions[h]].pc \in {"delete"} \cup Answered
          /\ req'[assumptions[h]].pc = "delete" => req'[assumptions[h]].goal = h
    BY <2>2, <1>1, <1>3, <1>4 DEF RoadmapInv, Owners
  <2>4. \A h \in DOMAIN baselines : baselines[h].by \in Requests
    BY <1>1 DEF TypeOK, Plans
  <2> QED
    BY <2>1, <2>3, <2>4, <1>1, <1>4, <1>5 DEF RoadmapInv, Owners
<1>9. Lines'
  <2>1. ASSUME NEW h \in DOMAIN baselines'
        PROVE  /\ baselines[h].by \in Requests /\ req[baselines[h].by].op # "none"
               /\ h \in DOMAIN target /\ h \in DOMAIN baselines /\ h # req[r].goal
    BY <1>1, <1>5 DEF TypeOK, Plans, RoadmapInv, Owners
  <2>2. ASSUME NEW h \in DOMAIN baselines', NEW b \in Requests, b = baselines[h].by,
               NEW p \in Requests,
               \/ p = target[h] /\ p # baselines[h].target
               \/ h \in DOMAIN assumptions /\ p = assumptions[h] /\ p # baselines[h].assumed
        PROVE  Behind(p, b)'
    <3>1. Behind(p, b) /\ req[p].op # "none" /\ p # r
      BY <2>1, <2>2 DEF RoadmapInv, Lines, Owners
    <3> QED
      BY <2>1, <2>2, <3>1, <1>4
  <2>3. \A h \in DOMAIN assumptions : assumptions[h] \in Requests
    BY <1>1 DEF TypeOK
  <2> QED
    BY <2>1, <2>2, <2>3, <1>1, <1>5 DEF Lines, Behind
<1>10. ASSUME NEW x \in Requests PROVE DrawnOK(x)'
  BY <1>1, <1>2, <1>4 DEF RoadmapInv, DrawnOK
<1>11. GoalsOK'
  <2>1. OneGoal'
    BY <1>1, <1>4 DEF RoadmapInv, GoalsOK, OneGoal, Owners
  <2>2. \A x \in Requests : Unseen(x)' => Unseen(x) /\ req'[x] = req[x]
    BY <1>1, <1>3, <1>4 DEF Unseen, At
  <2> QED
    BY <2>1, <2>2, <1>1 DEF RoadmapInv, GoalsOK
<1>12. ~NoChange'
  BY <1>2, <1>4 DEF NoChange
<1> QED
  BY <1>4, <1>6, <1>7, <1>8, <1>9, <1>10, <1>11, <1>12 DEF RoadmapInv, Locals

\* Assumptions that are written are newer than every plan line, as a goal is.
LEMMA PutAssumptionsKeeps ==
  ASSUME RoadmapInv, NEW r \in Requests, At(r, "assumptions", "write"),
         assumptions' = Put(assumptions, req[r].goal, r), Go(r, "delete"), Ok,
         UNCHANGED <<goals, target, baselines, snapshot, background>>
  PROVE  RoadmapInv'
<1> DEFINE g == req[r].goal
<1>1. /\ TypeOK /\ req[r].pc = "write" /\ req[r].op = "assumptions" /\ LocalOK(r)
      /\ goals' = goals /\ target' = target /\ baselines' = baselines
      /\ snapshot' = snapshot /\ background' = background /\ faults' = faults
      /\ req[r].pc \in Working /\ "delete" \in Working
  BY DEF RoadmapInv, Locals, At, Ok, Working
<1>2. g \in DOMAIN target
  BY <1>1 DEF LocalOK, At
<1>3. /\ DOMAIN assumptions' = DOMAIN assumptions \cup {g} /\ assumptions'[g] = r
      /\ \A h \in DOMAIN assumptions : h # g => assumptions'[h] = assumptions[h]
  BY DEF Put
<1>4. /\ Moves(r) /\ req'[r].pc = "delete" /\ req'[r].goal = g
      /\ req'[r].recorded = req[r].recorded
  BY <1>1, GoFields
<1> HIDE DEF g
<1>5. /\ Locals /\ req' \in [Requests -> Request]
      /\ \A x \in Requests : x # r => req'[x] = req[x]
      /\ req'[r].op = "assumptions"
      /\ \A x \in Requests : req[x].op # "none" =>
           req'[x].op = req[x].op /\ req'[x].before = req[x].before
      /\ \A x \in Requests : r \notin req[x].before /\ r \notin req'[x].before
      /\ \A x \in Requests : \A q \in req'[x].before :
           q # r /\ q \in Requests /\ req'[q].pc \in Answered
      /\ PostedSnapshotReplaced'
      /\ \A p, x \in Requests :
           req[p].op # "none" /\ req[x].op # "none" /\ Behind(p, x) => Behind(p, x)'
      /\ \A x \in Requests : x # r => LocalOK(x)'
  BY <1>1, <1>4, MoveFacts
<1>6. TypeOK'
  <2>1. goals' \in Seq(Writers) /\ DOMAIN target' = {goals'[i] : i \in DOMAIN goals'}
    BY <1>1 DEF TypeOK
  <2>2. background' \subseteq {x \in Requests : req'[x].op = "project"}
    BY <1>1, <1>5 DEF TypeOK
  <2>3. ASSUME NEW x \in Requests,
               req'[x].pc \in {"baseline", "save", "reread", "read", "delete"}
        PROVE  req'[x].goal \in DOMAIN target'
    BY <2>3, <1>1, <1>2, <1>4, <1>5 DEF TypeOK
  <2>4. /\ \A h \in DOMAIN assumptions' : assumptions'[h] \in Requests
        /\ DOMAIN assumptions' \subseteq DOMAIN target
    BY <1>1, <1>2, <1>3 DEF TypeOK
  <2> QED
    BY <2>1, <2>2, <2>3, <2>4, <1>1, <1>5 DEF TypeOK
<1>7. ASSUME NEW x \in Requests PROVE LocalOK(x)'
  <2>1. LocalOK(r)'
    BY <1>4, <1>5 DEF LocalOK, At
  <2> QED
    BY <2>1, <1>5
<1>8. /\ \A h \in DOMAIN assumptions : assumptions[h] # r /\ assumptions[h] \in Requests
      /\ \A h \in DOMAIN target : target[h] # r
  BY <1>1 DEF RoadmapInv, Owners, TypeOK, Answered
<1>9. Owners'
  <2>1. \A h \in DOMAIN target : target[h] \in Requests =>
          /\ req'[target[h]].op = "goal" /\ req'[target[h]].pc # "write"
          /\ req'[target[h]].pc = "delete" => req'[target[h]].goal = h
    BY <1>5, <1>8 DEF RoadmapInv, Owners
  <2>2. ASSUME NEW h \in DOMAIN assumptions'
        PROVE  /\ req'[assumptions'[h]].op = "assumptions"
               /\ req'[assumptions'[h]].pc \in {"delete"} \cup Answered
               /\ req'[assumptions'[h]].pc = "delete" => req'[assumptions'[h]].goal = h
    <3>1. CASE h = g
      BY <3>1, <1>3, <1>4, <1>5
    <3>2. CASE h # g
      <4>1. h \in DOMAIN assumptions /\ assumptions'[h] = assumptions[h]
        BY <2>2, <3>2, <1>3
      <4>2. req'[assumptions[h]] = req[assumptions[h]]
        BY <4>1, <1>5, <1>8
      <4> QED
        BY <4>1, <4>2 DEF RoadmapInv, Owners
    <3> QED
      BY <3>1, <3>2
  <2>3. \A h \in DOMAIN baselines : baselines[h].by \in Requests
    BY <1>1 DEF TypeOK, Plans
  <2>4. \A h \in DOMAIN baselines : req'[baselines[h].by].op = "project"
    BY <2>3, <1>5 DEF RoadmapInv, Owners
  <2>5. /\ snapshot \in Requests => req'[snapshot].op # "none"
        /\ \A j \in DOMAIN goals : goals[j] \in Requests => req'[goals[j]].op # "none"
    BY <1>5 DEF RoadmapInv, Owners
  <2> QED
    BY <2>1, <2>2, <2>4, <2>5, <1>1 DEF Owners
<1>10. Lines'
  <2>1. ASSUME NEW h \in DOMAIN baselines
        PROVE  /\ baselines[h].by \in Requests /\ req[baselines[h].by].op # "none"
               /\ h \in DOMAIN target
    BY <1>1 DEF TypeOK, Plans, RoadmapInv, Owners
  <2>2. ASSUME NEW h \in DOMAIN baselines, NEW b \in Requests, b = baselines[h].by,
               NEW p \in Requests,
               \/ p = target[h] /\ p # baselines[h].target
               \/ h \in DOMAIN assumptions' /\ p = assumptions'[h]
                  /\ p # baselines[h].assumed
        PROVE  Behind(p, b)'
    <3>1. CASE h = g /\ p = assumptions'[h]
      BY <2>1, <2>2, <3>1, <1>3, <1>4, <1>5 DEF Behind
    <3>2. CASE /\ h # g /\ h \in DOMAIN assumptions' /\ p = assumptions'[h]
               /\ p # baselines[h].assumed
      <4>1. h \in DOMAIN assumptions /\ p = assumptions[h]
        BY <3>2, <1>3
      <4>2. Behind(p, b) /\ req[p].op # "none"
        BY <2>2, <3>2, <4>1 DEF RoadmapInv, Lines, Owners
      <4> QED
        BY <2>1, <2>2, <4>2, <1>5
    <3>3. CASE p = target[h] /\ p # baselines[h].target
      <4>1. Behind(p, b) /\ req[p].op # "none"
        BY <2>1, <2>2, <3>3 DEF RoadmapInv, Lines, Owners
      <4> QED
        BY <2>1, <2>2, <4>1, <1>5
    <3> QED
      BY <2>2, <3>1, <3>2, <3>3
  <2>3. \A h \in DOMAIN assumptions' : assumptions'[h] \in Requests
    BY <1>3, <1>8
  <2> QED
    BY <2>1, <2>2, <2>3, <1>1 DEF Lines, Behind
<1>11. ASSUME NEW x \in Requests PROVE DrawnOK(x)'
  <2>1. CASE x = r
    BY <2>1, <1>5 DEF DrawnOK
  <2>2. CASE x # r
    <3>1. req'[x] = req[x] /\ DrawnOK(x)
      BY <2>2, <1>5 DEF RoadmapInv
    <3>2. ASSUME NEW h \in DOMAIN assumptions'
          PROVE  \/ assumptions'[h] \notin req[x].before
                 \/ h \in DOMAIN assumptions /\ assumptions'[h] = assumptions[h]
      BY <1>3, <1>5
    <3> QED
      BY <3>1, <3>2, <1>1 DEF DrawnOK
  <2> QED
    BY <2>1, <2>2
<1>12. GoalsOK'
  <2>1. OneGoal'
    BY <1>1, <1>5 DEF RoadmapInv, GoalsOK, OneGoal, Owners
  <2>2. \A x \in Requests : Unseen(x)' => Unseen(x) /\ req'[x] = req[x]
    BY <1>1, <1>4, <1>5 DEF Unseen, At
  <2> QED
    BY <2>1, <2>2, <1>1 DEF RoadmapInv, GoalsOK
<1>13. ~NoChange'
  BY <1>5 DEF NoChange
<1> QED
  BY <1>5, <1>6, <1>7, <1>9, <1>10, <1>11, <1>12, <1>13 DEF RoadmapInv, Locals

\* A line that is stored blames only those whom the projection that drew it may
\* blame, and none of them was answered after it was stored.
LEMMA SaveBaselineKeeps ==
  ASSUME RoadmapInv, NEW r \in Requests, At(r, "project", "save"), Go(r, "reread"), Ok,
         baselines' = IF req[r].goal \in DOMAIN baselines THEN baselines
                      ELSE Put(baselines, req[r].goal, NewBaseline(r)),
         UNCHANGED <<goals, target, assumptions, snapshot, background>>
  PROVE  RoadmapInv'
<1> DEFINE g == req[r].goal
<1>1. /\ TypeOK /\ req[r].pc = "save" /\ req[r].op = "project" /\ LocalOK(r)
      /\ req[r] \in Request /\ goals' = goals /\ target' = target
      /\ assumptions' = assumptions /\ snapshot' = snapshot
      /\ background' = background /\ faults' = faults
      /\ req[r].pc \in Working /\ "reread" \in Working
  BY DEF RoadmapInv, TypeOK, Locals, At, Ok, Working
<1>2. g \in DOMAIN target
  BY <1>1 DEF TypeOK
<1>3. /\ NewBaseline(r) \in Plans /\ NewBaseline(r).by = r
      /\ NewBaseline(r).target = req[r].target /\ NewBaseline(r).assumed = req[r].assumed
  BY <1>1 DEF NewBaseline, Plans, Request
<1>4. /\ DOMAIN baselines' = DOMAIN baselines \cup {g}
      /\ \A h \in DOMAIN baselines : baselines'[h] = baselines[h]
      /\ g \notin DOMAIN baselines => baselines'[g] = NewBaseline(r)
  BY DEF Put
<1>5. /\ Moves(r) /\ req'[r].pc = "reread" /\ req'[r].goal = g
      /\ req'[r].recorded = req[r].recorded
  BY <1>1, GoFields
<1> HIDE DEF g
<1>6. /\ Locals /\ req' \in [Requests -> Request]
      /\ \A x \in Requests : x # r => req'[x] = req[x]
      /\ req'[r].op = "project"
      /\ \A x \in Requests : req[x].op # "none" =>
           req'[x].op = req[x].op /\ req'[x].before = req[x].before
      /\ \A x \in Requests : r \notin req[x].before /\ r \notin req'[x].before
      /\ \A x \in Requests : \A q \in req'[x].before :
           q # r /\ q \in Requests /\ req'[q].pc \in Answered
      /\ PostedSnapshotReplaced'
      /\ \A p, x \in Requests :
           req[p].op # "none" /\ req[x].op # "none" /\ Behind(p, x) => Behind(p, x)'
      /\ \A x \in Requests : x # r => LocalOK(x)'
  BY <1>1, <1>5, MoveFacts
<1>7. TypeOK'
  <2>1. goals' \in Seq(Writers) /\ DOMAIN target' = {goals'[i] : i \in DOMAIN goals'}
    BY <1>1 DEF TypeOK
  <2>2. background' \subseteq {x \in Requests : req'[x].op = "project"}
    BY <1>1, <1>6 DEF TypeOK
  <2>3. ASSUME NEW x \in Requests,
               req'[x].pc \in {"baseline", "save", "reread", "read", "delete"}
        PROVE  req'[x].goal \in DOMAIN target'
    BY <2>3, <1>1, <1>2, <1>5, <1>6 DEF TypeOK
  <2>4. /\ \A h \in DOMAIN baselines' : baselines'[h] \in Plans
        /\ DOMAIN baselines' \subseteq DOMAIN target
    BY <1>1, <1>2, <1>3, <1>4 DEF TypeOK
  <2> QED
    BY <2>1, <2>2, <2>3, <2>4, <1>1, <1>6 DEF TypeOK
<1>8. ASSUME NEW x \in Requests PROVE LocalOK(x)'
  <2>1. LocalOK(r)'
    BY <1>5, <1>6 DEF LocalOK, At
  <2> QED
    BY <2>1, <1>6
<1>9. Owners'
  <2>1. \A h \in DOMAIN target : target[h] \in Requests =>
          /\ req'[target[h]].op = "goal" /\ req'[target[h]].pc # "write"
          /\ req'[target[h]].pc = "delete" => req'[target[h]].goal = h
    BY <1>1, <1>6 DEF RoadmapInv, Owners
  <2>2. \A h \in DOMAIN assumptions : assumptions[h] \in Requests
    BY <1>1 DEF TypeOK
  <2>3. \A h \in DOMAIN assumptions :
          /\ req'[assumptions[h]].op = "assumptions"
          /\ req'[assumptions[h]].pc \in {"delete"} \cup Answered
          /\ req'[assumptions[h]].pc = "delete" => req'[assumptions[h]].goal = h
    BY <2>2, <1>1, <1>6 DEF RoadmapInv, Owners
  <2>4. ASSUME NEW h \in DOMAIN baselines' PROVE req'[baselines'[h].by].op = "project"
    <3>1. CASE h \in DOMAIN baselines
      <4>1. baselines[h].by \in Requests /\ req[baselines[h].by].op = "project"
        BY <3>1, <1>1 DEF TypeOK, Plans, RoadmapInv, Owners
      <4> QED
        BY <3>1, <4>1, <1>4, <1>6
    <3>2. CASE h = g /\ g \notin DOMAIN baselines
      BY <3>2, <1>3, <1>4, <1>6
    <3> QED
      BY <3>1, <3>2, <1>4
  <2>5. /\ snapshot \in Requests => req'[snapshot].op # "none"
        /\ \A j \in DOMAIN goals : goals[j] \in Requests => req'[goals[j]].op # "none"
    BY <1>6 DEF RoadmapInv, Owners
  <2> QED
    BY <2>1, <2>3, <2>4, <2>5, <1>1 DEF Owners
<1>10. Lines'
  <2>1. ASSUME NEW h \in DOMAIN baselines
        PROVE  /\ baselines[h].by \in Requests /\ req[baselines[h].by].op # "none"
               /\ h \in DOMAIN target
    BY <1>1 DEF TypeOK, Plans, RoadmapInv, Owners
  <2>2. ASSUME NEW h \in DOMAIN baselines', NEW b \in Requests, b = baselines'[h].by,
               NEW p \in Requests,
               \/ p = target[h] /\ p # baselines'[h].target
               \/ h \in DOMAIN assumptions /\ p = assumptions[h]
                  /\ p # baselines'[h].assumed
        PROVE  Behind(p, b)'
    <3>1. CASE h \in DOMAIN baselines
      <4>1. Behind(p, b) /\ req[p].op # "none" /\ b = baselines[h].by
        BY <2>1, <2>2, <3>1, <1>4 DEF RoadmapInv, Lines, Owners
      <4> QED
        BY <2>1, <2>2, <3>1, <4>1, <1>6
    <3>2. CASE h = g /\ g \notin DOMAIN baselines
      <4>1. b = r
        BY <2>2, <3>2, <1>3, <1>4
      <4>2. DrawnOK(r)
        BY DEF RoadmapInv
      <4>3. p \notin req[r].before
        BY <2>2, <3>2, <4>2, <1>1, <1>3, <1>4 DEF DrawnOK, g
      <4>4. p \notin req'[r].before /\ r \notin req'[p].before
        BY <4>3, <1>1, <1>6
      <4> QED
        BY <4>1, <4>4 DEF Behind
    <3> QED
      BY <3>1, <3>2, <1>4
  <2>3. /\ \A h \in DOMAIN assumptions : assumptions[h] \in Requests
        /\ \A h \in DOMAIN baselines' : baselines'[h].by \in Requests
    BY <2>1, <1>1, <1>3, <1>4 DEF TypeOK
  <2> QED
    BY <2>2, <2>3, <1>1 DEF Lines, Behind
<1>11. ASSUME NEW x \in Requests PROVE DrawnOK(x)'
  <2>1. CASE x = r
    BY <2>1, <1>5 DEF DrawnOK
  <2>2. CASE x # r
    BY <2>2, <1>1, <1>6 DEF RoadmapInv, DrawnOK
  <2> QED
    BY <2>1, <2>2
<1>12. GoalsOK'
  <2>1. OneGoal'
    BY <1>1, <1>6 DEF RoadmapInv, GoalsOK, OneGoal, Owners
  <2>2. \A x \in Requests : Unseen(x)' => Unseen(x) /\ req'[x] = req[x]
    BY <1>1, <1>5, <1>6 DEF Unseen, At
  <2> QED
    BY <2>1, <2>2, <1>1 DEF RoadmapInv, GoalsOK
<1>13. ASSUME NoChange', NEW x \in Requests PROVE PlanOK(x)'
  <2>1. NoChange
    BY <1>1, <1>6, <1>13 DEF NoChange
  <2>2. CASE x = r
    BY <2>2, <1>4, <1>5 DEF PlanOK, At
  <2>3. CASE x # r
    BY <2>1, <2>3, <1>4, <1>6 DEF RoadmapInv, PlanOK, At
  <2> QED
    BY <2>2, <2>3
<1> QED
  BY <1>6, <1>7, <1>8, <1>9, <1>10, <1>11, <1>12, <1>13 DEF RoadmapInv, Locals

\* r is answered, and has recorded its snapshot.
Recorded(r) == req' = [req EXCEPT ![r].pc = "ok", ![r].recorded = TRUE]

\* A posted snapshot is written before its request is answered.
LEMMA RecordSnapshotKeeps ==
  ASSUME RoadmapInv, NEW r \in Requests, At(r, "snapshot", "record"), snapshot' = r,
         Recorded(r), Ok, UNCHANGED <<goals, target, assumptions, baselines, background>>
  PROVE  RoadmapInv'
<1>1. /\ TypeOK /\ LocalOK(r) /\ req \in [Requests -> Request]
      /\ req[r].pc = "record" /\ req[r].op = "snapshot" /\ goals' = goals
      /\ target' = target /\ assumptions' = assumptions /\ baselines' = baselines
      /\ background' = background /\ faults' = faults
      /\ req[r].pc \in Working /\ "ok" \in Answered
  BY DEF RoadmapInv, TypeOK, Locals, At, Ok, Working, Answered
<1> DEFINE f1 == [req EXCEPT ![r].pc = "ok"]
           f2 == [f1 EXCEPT ![r].recorded = TRUE]
<1>2. req' = f2
  BY Zenon DEF Recorded
<1>3. /\ f1 \in [Requests -> Request] /\ f1[r].pc = "ok" /\ f1[r].op = req[r].op
      /\ f1[r].before = req[r].before
      /\ \A x \in Requests : x # r => f1[x] = req[x]
  BY <1>1 DEF Request, Answered
<1> HIDE DEF f1
<1>4. /\ req' \in [Requests -> Request] /\ req'[r].pc = "ok" /\ req'[r].op = req[r].op
      /\ req'[r].before = req[r].before
      /\ \A x \in Requests : x # r => req'[x] = req[x]
  <2> DEFINE new == [f1[r] EXCEPT !.recorded = TRUE]
  <2>1. f1[r] \in Request
    BY <1>3
  <2>2. /\ new \in Request /\ new.pc = f1[r].pc /\ new.op = f1[r].op
        /\ new.before = f1[r].before
    BY <2>1 DEF Request
  <2>3. f2 = [f1 EXCEPT ![r] = new]
    BY <1>3
  <2> HIDE DEF new
  <2> QED
    BY <1>2, <1>3, <2>2, <2>3
<1>5. Moves(r)
  BY <1>1, <1>4 DEF Moves
<1>6. /\ Locals
      /\ \A x \in Requests : req[x].op # "none" =>
           req'[x].op = req[x].op /\ req'[x].before = req[x].before
      /\ \A x \in Requests : r \notin req'[x].before
      /\ \A x \in Requests : \A q \in req'[x].before :
           q # r /\ q \in Requests /\ req'[q].pc \in Answered
      /\ \A p, x \in Requests :
           p # r /\ req[p].op # "none" /\ req[x].op # "none" /\ Behind(p, x)
             => Behind(p, x)'
      /\ \A x \in Requests : x # r => LocalOK(x)'
  BY <1>1, <1>5, MoveFacts
<1>7. TypeOK'
  <2>1. goals' \in Seq(Writers) /\ DOMAIN target' = {goals'[i] : i \in DOMAIN goals'}
    BY <1>1 DEF TypeOK
  <2>2. background' \subseteq {x \in Requests : req'[x].op = "project"}
    BY <1>1, <1>4 DEF TypeOK
  <2>3. ASSUME NEW x \in Requests,
               req'[x].pc \in {"baseline", "save", "reread", "read", "delete"}
        PROVE  req'[x].goal \in DOMAIN target'
    BY <2>3, <1>1, <1>4 DEF TypeOK
  <2> QED
    BY <2>1, <2>2, <2>3, <1>1, <1>4 DEF TypeOK
<1>8. ASSUME NEW x \in Requests PROVE LocalOK(x)'
  <2>1. LocalOK(r)'
    BY <1>1, <1>4, <1>6 DEF LocalOK, At
  <2> QED
    BY <2>1, <1>6
<1>9. Owners'
  <2>1. /\ \A h \in DOMAIN assumptions : assumptions[h] \in Requests
        /\ \A h \in DOMAIN baselines : baselines[h].by \in Requests
    BY <1>1 DEF TypeOK, Plans
  <2>2. /\ \A h \in DOMAIN target : target[h] # r
        /\ \A h \in DOMAIN assumptions : assumptions[h] # r
        /\ \A h \in DOMAIN baselines : baselines[h].by # r
    BY <1>1 DEF RoadmapInv, Owners
  <2>3. \A j \in DOMAIN goals : goals[j] \in Requests => req'[goals[j]].op # "none"
    BY <1>6 DEF RoadmapInv, Owners
  <2> QED
    BY <2>1, <2>2, <2>3, <1>1, <1>4 DEF RoadmapInv, Owners
<1>10. Lines'
  <2>1. ASSUME NEW h \in DOMAIN baselines
        PROVE  /\ baselines[h].by \in Requests /\ req[baselines[h].by].op # "none"
               /\ h \in DOMAIN target
    BY <1>1 DEF TypeOK, Plans, RoadmapInv, Owners
  <2>2. ASSUME NEW h \in DOMAIN baselines, NEW b \in Requests, b = baselines[h].by,
               NEW p \in Requests,
               \/ p = target[h] /\ p # baselines[h].target
               \/ h \in DOMAIN assumptions /\ p = assumptions[h] /\ p # baselines[h].assumed
        PROVE  Behind(p, b)'
    <3>1. Behind(p, b) /\ req[p].op # "none" /\ p # r
      BY <2>1, <2>2, <1>1 DEF RoadmapInv, Lines, Owners
    <3> QED
      BY <2>1, <2>2, <3>1, <1>6
  <2>3. \A h \in DOMAIN assumptions : assumptions[h] \in Requests
    BY <1>1 DEF TypeOK
  <2> QED
    BY <2>1, <2>2, <2>3, <1>1 DEF Lines, Behind
<1>11. ASSUME NEW x \in Requests PROVE DrawnOK(x)'
  BY <1>1, <1>4 DEF RoadmapInv, DrawnOK
<1>12. GoalsOK'
  <2>1. OneGoal'
    BY <1>1, <1>6 DEF RoadmapInv, GoalsOK, OneGoal, Owners
  <2>2. \A x \in Requests : Unseen(x)' => Unseen(x) /\ req'[x] = req[x]
    BY <1>1, <1>4 DEF Unseen, At
  <2> QED
    BY <2>1, <2>2, <1>1 DEF RoadmapInv, GoalsOK
<1>13. ASSUME NoChange', NEW x \in Requests PROVE PlanOK(x)'
  <2>1. NoChange
    BY <1>1, <1>4, <1>13 DEF NoChange
  <2> QED
    BY <2>1, <1>1, <1>4 DEF RoadmapInv, PlanOK, At
<1>14. PostedSnapshotReplaced'
  BY <1>6 DEF PostedSnapshotReplaced
<1> QED
  BY <1>6, <1>7, <1>8, <1>9, <1>10, <1>11, <1>12, <1>13, <1>14 DEF RoadmapInv, Locals

\* Every request holds what it held, but for its step and for having recorded
\* its snapshot; those that were answered stay where they are, and those that
\* were not get no answer of success.
Same ==
  /\ req' \in [Requests -> Request]
  /\ \A x \in Requests :
       /\ req'[x].op = req[x].op /\ req'[x].before = req[x].before
       /\ \/ /\ req'[x].pc = req[x].pc /\ req'[x].goal = req[x].goal
             /\ req'[x].target = req[x].target /\ req'[x].assumed = req[x].assumed
             /\ req'[x].plan = req[x].plan
             /\ req'[x].op = "none" => req'[x] = req[x]
          \/ req'[x].pc = "lost" /\ req'[x].op # "none" /\ req[x].pc \notin Answered

\* Such a step keeps everything but what is said of snapshots.
LEMMA SameKeeps ==
  ASSUME RoadmapInv, Same, UNCHANGED <<goals, target, assumptions, baselines>>,
         background' \subseteq background, snapshot' \in Requests \cup {None},
         snapshot' \in Requests => req[snapshot'].op # "none", faults' \in 0..MaxFaults,
         PostedSnapshotReplaced'
  PROVE  RoadmapInv'
<1>1. /\ TypeOK /\ Locals /\ goals' = goals /\ target' = target
      /\ assumptions' = assumptions /\ baselines' = baselines
      /\ req' \in [Requests -> Request]
      /\ \A x \in Requests : req'[x].op = req[x].op /\ req'[x].before = req[x].before
      /\ \A x \in Requests : req[x].before \subseteq Requests
  BY DEF RoadmapInv, Same, TypeOK, Request
<1>2. \A x \in Requests : req[x].pc \in Answered => req'[x].pc = req[x].pc
  BY DEF Same
<1>3. \A x \in Requests : req'[x].pc = "ok" => req[x].pc = "ok"
  BY DEF Same
<1>4. TypeOK'
  <2>1. goals' \in Seq(Writers) /\ DOMAIN target' = {goals'[i] : i \in DOMAIN goals'}
    BY <1>1 DEF TypeOK
  <2>2. background' \subseteq {x \in Requests : req'[x].op = "project"}
    BY <1>1 DEF TypeOK
  <2>3. ASSUME NEW x \in Requests,
               req'[x].pc \in {"baseline", "save", "reread", "read", "delete"}
        PROVE  req'[x].goal \in DOMAIN target'
    BY <2>3, <1>1 DEF TypeOK, Same
  <2> QED
    BY <2>1, <2>2, <2>3, <1>1 DEF TypeOK
<1>5. ASSUME NEW x \in Requests PROVE LocalOK(x)'
  <2>1. LocalOK(x)
    BY <1>1 DEF Locals
  <2>2. x \notin req'[x].before /\ \A q \in req'[x].before : req'[q].pc \in Answered
    BY <2>1, <1>1, <1>2 DEF LocalOK
  <2>3. CASE req'[x].pc = "lost" /\ req'[x].op # "none"
    BY <2>2, <2>3 DEF LocalOK, At, Answered
  <2>4. CASE /\ req'[x].pc = req[x].pc /\ req'[x].goal = req[x].goal
             /\ req'[x].op = "none" => req'[x] = req[x]
    <3>1. req[x].pc = "idle" => req[x].op = "none"
      BY <2>1 DEF LocalOK, Fresh
    <3> QED
      BY <2>1, <2>2, <2>4, <3>1, <1>1 DEF LocalOK, At
  <2> QED
    BY <2>3, <2>4 DEF Same
<1>6. Owners'
  <2>1. \A h \in DOMAIN target : target[h] \in Requests =>
          /\ req'[target[h]].op = "goal" /\ req'[target[h]].pc # "write"
          /\ req'[target[h]].pc = "delete" => req'[target[h]].goal = h
    BY DEF RoadmapInv, Owners, Same
  <2>2. ASSUME NEW h \in DOMAIN assumptions
        PROVE  /\ req'[assumptions[h]].op = "assumptions"
               /\ req'[assumptions[h]].pc \in {"delete"} \cup Answered
               /\ req'[assumptions[h]].pc = "delete" => req'[assumptions[h]].goal = h
    <3>1. assumptions[h] \in Requests
      BY <1>1 DEF TypeOK
    <3> QED
      BY <3>1 DEF RoadmapInv, Owners, Same, Answered
  <2>3. \A h \in DOMAIN baselines : baselines[h].by \in Requests
    BY <1>1 DEF TypeOK, Plans
  <2> QED
    BY <2>1, <2>2, <2>3, <1>1 DEF RoadmapInv, Owners
<1>7. Lines'
  <2>1. ASSUME NEW p \in Requests, NEW x \in Requests, Behind(p, x) PROVE Behind(p, x)'
    BY <2>1, <1>1, <1>3 DEF Behind
  <2>2. /\ \A h \in DOMAIN assumptions : assumptions[h] \in Requests
        /\ \A h \in DOMAIN baselines : baselines[h].by \in Requests
    BY <1>1 DEF TypeOK, Plans
  <2> QED
    BY <2>1, <2>2, <1>1 DEF RoadmapInv, Lines, Behind
<1>8. ASSUME NEW x \in Requests PROVE DrawnOK(x)'
  <2>1. CASE req'[x].pc = "lost"
    BY <2>1 DEF DrawnOK
  <2>2. CASE /\ req'[x].pc = req[x].pc /\ req'[x].goal = req[x].goal
             /\ req'[x].target = req[x].target /\ req'[x].assumed = req[x].assumed
    BY <2>2, <1>1 DEF RoadmapInv, DrawnOK
  <2> QED
    BY <2>1, <2>2 DEF Same
<1>9. GoalsOK'
  <2>1. OneGoal'
    BY <1>1 DEF RoadmapInv, GoalsOK, OneGoal
  <2>2. \A x \in Requests : Unseen(x)' => Unseen(x)
    BY <1>1 DEF Unseen, At, Same
  <2> QED
    BY <2>1, <2>2, <1>1 DEF RoadmapInv, GoalsOK
<1>10. ASSUME NoChange', NEW x \in Requests PROVE PlanOK(x)'
  <2>1. NoChange
    BY <1>1, <1>10 DEF NoChange
  <2>2. PlanOK(x)
    BY <2>1 DEF RoadmapInv
  <2> QED
    BY <2>2, <1>1 DEF PlanOK, At, Same
<1> QED
  BY <1>1, <1>4, <1>5, <1>6, <1>7, <1>8, <1>9, <1>10 DEF RoadmapInv, Locals

\* A snapshot from the background is a projection's.
LEMMA BackgroundKeeps ==
  ASSUME RoadmapInv, NEW r \in Requests, Background(r)
  PROVE  RoadmapInv'
<1>1. /\ TypeOK /\ req \in [Requests -> Request] /\ req[r].op = "project"
      /\ UNCHANGED <<goals, target, assumptions, baselines>>
      /\ background' \subseteq background
  BY DEF RoadmapInv, TypeOK, Background
<1>2. CASE snapshot' = r /\ req' = [req EXCEPT ![r].recorded = TRUE] /\ Ok
  <2>1. Same
    BY <1>1, <1>2 DEF Same, Request
  <2>2. req'[r].op = "project" /\ snapshot' = r
    BY <2>1, <1>1, <1>2 DEF Same
  <2>3. faults' \in 0..MaxFaults
    BY <1>1, <1>2 DEF TypeOK, Ok
  <2>4. PostedSnapshotReplaced'
    BY <2>2 DEF PostedSnapshotReplaced
  <2> QED
    BY <1>1, <2>1, <2>2, <2>3, <2>4, SameKeeps
<1>3. CASE Fault /\ UNCHANGED <<snapshot, req>>
  <2>1. Same
    BY <1>1, <1>3 DEF Same
  <2>2. faults' \in 0..MaxFaults
    BY <1>1, <1>3, RoadmapAssumption DEF TypeOK, Fault
  <2>3. /\ snapshot' \in Requests \cup {None}
        /\ snapshot' \in Requests => req[snapshot'].op # "none"
        /\ PostedSnapshotReplaced'
    BY <1>1, <1>3 DEF RoadmapInv, TypeOK, Owners, PostedSnapshotReplaced
  <2> QED
    BY <1>1, <2>1, <2>2, <2>3, SameKeeps
<1> QED
  BY <1>2, <1>3 DEF Background

\* A crash ends every request and every background goroutine.
LEMMA CrashKeeps ==
  ASSUME RoadmapInv, Crash
  PROVE  RoadmapInv'
<1>1. /\ TypeOK /\ Locals /\ req \in [Requests -> Request] /\ Fault
      /\ UNCHANGED <<goals, target, assumptions, baselines, snapshot>>
      /\ background' \subseteq background
  BY DEF RoadmapInv, TypeOK, Crash
<1>2. ASSUME NEW x \in Requests
      PROVE  /\ req'[x] \in Request /\ req'[x].recorded = req[x].recorded
             /\ req'[x].op = req[x].op /\ req'[x].before = req[x].before
             /\ \/ req'[x] = req[x]
                \/ /\ req'[x].pc = "lost" /\ req'[x].op # "none"
                   /\ req[x].pc \notin Answered
  <2>1. req[x] \in Request
    BY <1>1
  <2>2. CASE x \in InFlight
    <3>1. req'[x] = Ended(x, "lost", None, None)
      BY <2>2 DEF Crash
    <3>2. req[x].op # "none" /\ req[x].pc \notin Answered
      BY <2>2, <1>1 DEF InFlight, Locals, LocalOK, Working, Answered
    <3> QED
      BY <2>1, <3>1, <3>2 DEF Ended, Request, Answered, Writers
  <2>3. CASE x \notin InFlight
    BY <2>1, <2>3 DEF Crash
  <2> QED
    BY <2>2, <2>3
<1>3. Same
  <2>1. req' \in [Requests -> Request]
    BY <1>2 DEF Crash
  <2> QED
    BY <2>1, <1>2 DEF Same
<1>4. faults' \in 0..MaxFaults
  BY <1>1, RoadmapAssumption DEF TypeOK, Fault
<1>5. /\ snapshot' \in Requests \cup {None}
      /\ snapshot' \in Requests => req[snapshot'].op # "none"
      /\ PostedSnapshotReplaced'
  BY <1>1, <1>2 DEF RoadmapInv, TypeOK, Owners, PostedSnapshotReplaced
<1> QED
  BY <1>1, <1>3, <1>4, <1>5, SameKeeps

\* The active goal is a stored one; without one nothing is stored.
LEMMA ActiveGoalStored ==
  ASSUME TypeOK
  PROVE  /\ ActiveGoal # None =>
              /\ ActiveGoal \in DOMAIN target /\ ActiveGoal \in Writers
              /\ target[ActiveGoal] \in Writers
         /\ ActiveGoal = None =>
              goals = <<>> /\ DOMAIN target = {} /\ DOMAIN assumptions = {}
<1>1. /\ goals \in Seq(Writers) /\ DOMAIN target = {goals[i] : i \in DOMAIN goals}
      /\ \A g \in DOMAIN target : target[g] \in Writers
      /\ DOMAIN assumptions \subseteq DOMAIN target
  BY DEF TypeOK
<1>2. CASE goals = <<>>
  <2>1. DOMAIN target = {}
    BY <1>1, <1>2
  <2> QED
    BY <1>1, <1>2, <2>1 DEF ActiveGoal
<1>3. CASE goals # <<>>
  <2>1. Len(goals) \in DOMAIN goals /\ ActiveGoal = goals[Len(goals)]
    BY <1>1, <1>3 DEF ActiveGoal
  <2>2. goals[Len(goals)] \in Writers
    BY <1>1, <2>1
  <2>3. /\ ActiveGoal \in Writers /\ ActiveGoal \in DOMAIN target
        /\ target[ActiveGoal] \in Writers
    BY <1>1, <2>1, <2>2
  <2> QED
    BY <2>3, RoadmapAssumption DEF Writers
<1> QED
  BY <1>2, <1>3

\* A step of r that changes no row and starts nothing.
Still == UNCHANGED <<goals, target, assumptions, baselines, snapshot, background>>

\* What a step that is not the answer of a plan line has to be checked for.
LEMMA MoveQuiet ==
  ASSUME RoadmapInv, NEW r \in Requests, Moves(r), req'[r].recorded = req[r].recorded,
         UNCHANGED <<goals, target, assumptions, baselines, snapshot>>,
         background' \subseteq background \cup {r},
         r \in background' => req'[r].op = "project", faults' \in 0..MaxFaults,
         req'[r].pc = "error" \/ req[r].pc # "delete",
         req'[r].pc \in {"error", "panic"}
           \/ /\ req'[r].op \in {"project", "assumptions"}
              /\ LocalOK(r)' /\ DrawnOK(r)'
              /\ NoChange' => PlanOK(r)'
              /\ req'[r].pc \in {"baseline", "save", "reread", "read", "delete"} =>
                   req'[r].goal \in DOMAIN target
              /\ req'[r].pc = "insert" => goals = <<>>
              /\ req'[r].op = "assumptions" => req'[r].pc # "ok",
         req'[r].pc = "panic" => ~NoChange
  PROVE  RoadmapInv'
<1>1. /\ \A x \in Requests : x # r => req'[x] = req[x]
      /\ req'[r].op = req[r].op /\ req[r].op # "none"
      /\ \A x \in Requests : r \notin req'[x].before
      /\ \A x \in Requests : \A q \in req'[x].before :
           q # r /\ q \in Requests /\ req'[q].pc \in Answered
  BY MoveFacts
<1>2. CASE req'[r].pc \in {"error", "panic"}
  <2>1. LocalOK(r)'
    BY <1>1, <1>2 DEF LocalOK, At, Answered
  <2>2. DrawnOK(r)' /\ ~Unseen(r)'
    BY <1>2 DEF DrawnOK, Unseen, At
  <2>3. NoChange' => NoChange
    BY <1>1 DEF NoChange
  <2>4. NoChange' => PlanOK(r)'
    BY <1>2, <2>3 DEF PlanOK, At
  <2>5. Quiet(r)
    BY <1>2, <2>1, <2>2, <2>4 DEF Quiet
  <2> QED
    BY <2>5, QuietKeeps
<1>3. CASE req'[r].pc \notin {"error", "panic"}
  <2>1. Unseen(r)' => goals = <<>>
    BY <1>3 DEF Unseen, At
  <2>2. req'[r].op \in {"goal", "assumptions"} => req'[r].pc # "ok"
    BY <1>3
  <2>3. Quiet(r)
    BY <1>3, <2>1, <2>2 DEF Quiet
  <2> QED
    BY <2>3, QuietKeeps
<1> QED
  BY <1>2, <1>3

\* A failed statement ends the request and changes nothing else.
LEMMA FailKeeps ==
  ASSUME RoadmapInv, NEW r \in Requests, req[r].pc \in Working, Fails(r), Still
  PROVE  RoadmapInv'
<1>1. /\ TypeOK /\ "error" \in Answered /\ Go(r, "error") /\ faults' \in 0..MaxFaults
      /\ r \in background' => req[r].op = "project"
  BY RoadmapAssumption DEF RoadmapInv, TypeOK, Fails, Fault, Answered, Still
<1>2. Moves(r) /\ req'[r].pc = "error" /\ req'[r].recorded = req[r].recorded
  BY <1>1, GoFields
<1> QED
  BY <1>1, <1>2, MoveQuiet DEF Still, Moves

\* A request that begins holds a goal that is stored, or finds none at all.
LEMMA BeginQuiet ==
  ASSUME RoadmapInv, NEW r \in Requests, Begins(r),
         UNCHANGED <<goals, target, assumptions, baselines, snapshot, faults>>,
         background' \subseteq background \cup {r},
         r \in background' => req'[r].op = "project",
         \/ /\ At(r, "goal", "write")'
            /\ req'[r].goal \in DOMAIN target \/ (req'[r].goal = r /\ goals = <<>>)
         \/ At(r, "assumptions", "ensure")'
         \/ At(r, "project", "ensure")' /\ DOMAIN assumptions = {}
         \/ /\ At(r, "project", "assumptions")' /\ req'[r].goal \in DOMAIN target
            /\ req'[r].target = target[req'[r].goal]
         \/ At(r, "snapshot", "record")'
  PROVE  RoadmapInv'
<1>1. TypeOK /\ Locals /\ faults' \in 0..MaxFaults
  BY DEF RoadmapInv, TypeOK
<1>2. /\ \A x \in Requests : r \notin req'[x].before
      /\ \A x \in Requests : \A q \in req'[x].before :
           q # r /\ q \in Requests /\ req'[q].pc \in Answered
      /\ req[r].pc # "delete"
  BY <1>1, BeforeStays DEF Begins
<1>3. CASE /\ At(r, "goal", "write")'
           /\ req'[r].goal \in DOMAIN target \/ (req'[r].goal = r /\ goals = <<>>)
  <2>1. LocalOK(r)' /\ DrawnOK(r)' /\ PlanOK(r)'
    BY <1>2, <1>3 DEF LocalOK, DrawnOK, PlanOK, At
  <2>2. Unseen(r)' => goals = <<>>
    BY <1>3 DEF Unseen, At
  <2>3. Quiet(r)
    BY <1>1, <1>2, <1>3, <2>1, <2>2 DEF Quiet, At
  <2> QED
    BY <2>3, QuietKeeps
<1>4. CASE At(r, "assumptions", "ensure")' \/ At(r, "snapshot", "record")'
  <2>1. LocalOK(r)' /\ DrawnOK(r)' /\ PlanOK(r)' /\ ~Unseen(r)'
    BY <1>2, <1>4 DEF LocalOK, DrawnOK, PlanOK, At, Unseen
  <2>2. Quiet(r)
    BY <1>1, <1>2, <1>4, <2>1 DEF Quiet, At
  <2> QED
    BY <2>2, QuietKeeps
<1>5. CASE At(r, "project", "ensure")' /\ DOMAIN assumptions = {}
  <2>1. LocalOK(r)' /\ DrawnOK(r)' /\ PlanOK(r)' /\ ~Unseen(r)'
    BY <1>2, <1>5 DEF LocalOK, DrawnOK, PlanOK, At, Unseen
  <2>2. Quiet(r)
    BY <1>1, <1>2, <1>5, <2>1 DEF Quiet, At
  <2> QED
    BY <2>2, QuietKeeps
<1>6. CASE /\ At(r, "project", "assumptions")' /\ req'[r].goal \in DOMAIN target
           /\ req'[r].target = target[req'[r].goal]
  <2>1. LocalOK(r)' /\ DrawnOK(r)' /\ PlanOK(r)' /\ ~Unseen(r)'
    BY <1>2, <1>6 DEF LocalOK, DrawnOK, PlanOK, At, Unseen
  <2>2. Quiet(r)
    BY <1>1, <1>2, <1>6, <2>1 DEF Quiet, At
  <2> QED
    BY <2>2, QuietKeeps
<1> QED
  BY <1>3, <1>4, <1>5, <1>6

\* The four ways a request begins.
LEMMA OpeningsKeep ==
  ASSUME RoadmapInv, NEW r \in Requests,
         PutGoalRead(r) \/ PutAssumptions(r) \/ ProjectGoal(r) \/ PostSnapshot(r)
  PROVE  RoadmapInv'
<1>1. /\ TypeOK /\ None \in Writers \cup {None} /\ Default \in Writers /\ r \in Writers
      /\ r \in background => req[r].op = "project"
      /\ req[r].pc = "idle" => req[r].op = "none"
      /\ {"write", "ensure", "assumptions", "record"} \subseteq Working
  BY DEF RoadmapInv, TypeOK, Writers, Working, Locals, LocalOK, Fresh
<1>2. /\ ActiveGoal # None => /\ ActiveGoal \in DOMAIN target /\ ActiveGoal \in Writers
                              /\ target[ActiveGoal] \in Writers
      /\ ActiveGoal = None => goals = <<>> /\ DOMAIN target = {} /\ DOMAIN assumptions = {}
  BY <1>1, ActiveGoalStored
<1>3. Begins(r) => r \notin background
  BY <1>1 DEF Begins
<1>4. CASE PutGoalRead(r)
  <2> DEFINE g == IF ActiveGoal = None THEN r ELSE ActiveGoal
  <2>1. g \in Writers \cup {None} /\ (g \in DOMAIN target \/ (g = r /\ goals = <<>>))
    BY <1>1, <1>2
  <2>2. /\ Open(r, "goal", "write", g, Default)
        /\ UNCHANGED <<goals, target, assumptions, baselines, snapshot, faults>>
        /\ background' = background
    BY <1>4 DEF PutGoalRead, Ok
  <2> HIDE DEF g
  <2>3. Begins(r) /\ req'[r].pc = "write" /\ req'[r].op = "goal" /\ req'[r].goal = g
    BY <1>1, <2>1, <2>2, OpenFields
  <2>4. At(r, "goal", "write")'
    BY <2>3 DEF At
  <2> QED
    BY <1>3, <2>1, <2>2, <2>3, <2>4, BeginQuiet
<1>5. CASE PutAssumptions(r)
  <2>1. /\ Open(r, "assumptions", "ensure", None, Default)
        /\ UNCHANGED <<goals, target, assumptions, baselines, snapshot, faults>>
        /\ background' = background
    BY <1>5 DEF PutAssumptions, Ok
  <2>2. Begins(r) /\ At(r, "assumptions", "ensure")'
    BY <1>1, <2>1, OpenFields DEF At
  <2> QED
    BY <1>3, <2>1, <2>2, BeginQuiet
<1>6. CASE PostSnapshot(r)
  <2>1. /\ Open(r, "snapshot", "record", None, Default)
        /\ UNCHANGED <<goals, target, assumptions, baselines, snapshot, faults>>
        /\ background' = background
    BY <1>6 DEF PostSnapshot, Ok
  <2>2. Begins(r) /\ At(r, "snapshot", "record")'
    BY <1>1, <2>1, OpenFields DEF At
  <2> QED
    BY <1>3, <2>1, <2>2, BeginQuiet
<1>7. CASE ProjectGoal(r)
  <2>1. UNCHANGED <<goals, target, assumptions, baselines, snapshot, faults>>
    BY <1>7 DEF ProjectGoal, Ok
  <2>2. CASE /\ ActiveGoal # None /\ background' = background
             /\ Open(r, "project", "assumptions", ActiveGoal, target[ActiveGoal])
    <3>1. /\ Begins(r) /\ req'[r].goal = ActiveGoal /\ req'[r].target = target[ActiveGoal]
          /\ req'[r].pc = "assumptions" /\ req'[r].op = "project"
      BY <1>1, <1>2, <2>2, OpenFields
    <3>2. At(r, "project", "assumptions")'
      BY <3>1 DEF At
    <3> QED
      BY <1>2, <1>3, <2>1, <2>2, <3>1, <3>2, BeginQuiet
  <2>3. CASE /\ ActiveGoal = None /\ background' = background \cup {r}
             /\ Open(r, "project", "ensure", None, Default)
    <3>1. /\ Begins(r) /\ req'[r].op = "project" /\ req'[r].pc = "ensure"
      BY <1>1, <2>3, OpenFields
    <3>2. At(r, "project", "ensure")'
      BY <3>1 DEF At
    <3> QED
      BY <1>2, <2>1, <2>3, <3>1, <3>2, BeginQuiet
  <2> QED
    BY <1>7, <2>2, <2>3 DEF ProjectGoal
<1> QED
  BY <1>4, <1>5, <1>6, <1>7

\* What ensureGoal has found.
LEMMA FoundFields ==
  ASSUME TypeOK, NEW r \in Requests, req[r].pc \in Working, NEW p \in Working,
         ActiveGoal # None, Found(r, p)
  PROVE  /\ Moves(r) /\ req'[r].pc = p /\ req'[r].recorded = req[r].recorded
         /\ req'[r].goal = ActiveGoal /\ req'[r].target = target[ActiveGoal]
         /\ req'[r].assumed = req[r].assumed
<1>1. /\ req \in [Requests -> Request] /\ ActiveGoal \in Writers
      /\ target[ActiveGoal] \in Writers
  BY ActiveGoalStored DEF TypeOK
<1> DEFINE f1 == [req EXCEPT ![r].pc = p]
           f2 == [f1 EXCEPT ![r].goal = ActiveGoal]
           f3 == [f2 EXCEPT ![r].target = target[ActiveGoal]]
<1>2. req' = f3
  BY Zenon DEF Found
<1>3. /\ f1 \in [Requests -> Request] /\ f1[r].pc = p /\ f1[r].op = req[r].op
      /\ f1[r].before = req[r].before /\ f1[r].recorded = req[r].recorded
      /\ f1[r].assumed = req[r].assumed
      /\ \A x \in Requests : x # r => f1[x] = req[x]
  BY <1>1 DEF Request
<1> HIDE DEF f1
<1>4. /\ f2 \in [Requests -> Request] /\ f2[r].pc = p /\ f2[r].op = req[r].op
      /\ f2[r].before = req[r].before /\ f2[r].recorded = req[r].recorded
      /\ f2[r].assumed = req[r].assumed /\ f2[r].goal = ActiveGoal
      /\ \A x \in Requests : x # r => f2[x] = req[x]
  BY <1>1, <1>3 DEF Request, Writers
<1> HIDE DEF f2
<1>5. /\ f3 \in [Requests -> Request] /\ f3[r].pc = p /\ f3[r].op = req[r].op
      /\ f3[r].before = req[r].before /\ f3[r].recorded = req[r].recorded
      /\ f3[r].assumed = req[r].assumed /\ f3[r].goal = ActiveGoal
      /\ f3[r].target = target[ActiveGoal]
      /\ \A x \in Requests : x # r => f3[x] = req[x]
  BY <1>1, <1>4 DEF Request
<1> HIDE DEF f3
<1> QED
  BY <1>2, <1>5 DEF Moves

\* The goal that is found is the one whose target is read with it.
LEMMA EnsureGoalReadKeeps ==
  ASSUME RoadmapInv, NEW r \in Requests, EnsureGoalRead(r)
  PROVE  RoadmapInv'
<1>1. /\ TypeOK /\ LocalOK(r) /\ req[r] \in Request /\ req[r].pc = "ensure" /\ Still
      /\ req[r].pc \in Working /\ {"baseline", "read", "insert"} \subseteq Working
      /\ r \in background => req[r].op = "project"
  BY DEF RoadmapInv, TypeOK, Locals, EnsureGoalRead, Working, Still
<1>2. req[r].op \in {"project", "assumptions"}
  BY <1>1 DEF LocalOK, Request, Answered
<1>3. /\ ActiveGoal # None => ActiveGoal \in DOMAIN target
      /\ ActiveGoal = None => goals = <<>>
  BY <1>1, ActiveGoalStored
<1>4. CASE ActiveGoal # None /\ Found(r, AfterEnsure(r)) /\ Ok
  <2> DEFINE p == AfterEnsure(r)
  <2>1. /\ p \in {"baseline", "read"} /\ p \in Working
        /\ (p = "baseline" <=> req[r].op = "project")
    BY <1>1, <1>2 DEF AfterEnsure
  <2> HIDE DEF p
  <2>2. /\ Moves(r) /\ req'[r].pc = p /\ req'[r].recorded = req[r].recorded
        /\ req'[r].goal = ActiveGoal /\ req'[r].target = target[ActiveGoal]
    BY <1>1, <1>4, <2>1, FoundFields DEF p
  <2>3. /\ req'[r].op = req[r].op /\ req'[r].before = req[r].before
        /\ \A x \in Requests : r \notin req'[x].before
        /\ \A x \in Requests : \A q \in req'[x].before :
             q # r /\ q \in Requests /\ req'[q].pc \in Answered
    BY <2>2, MoveFacts DEF Moves
  <2>4. LocalOK(r)'
    BY <1>2, <2>1, <2>2, <2>3 DEF LocalOK, At
  <2>5. DrawnOK(r)'
    <3>1. DrawnOK(r) /\ target' = target /\ assumptions' = assumptions
      BY <1>1 DEF RoadmapInv, Still
    <3> QED
      BY <1>1, <2>1, <2>2, <2>3, <3>1 DEF DrawnOK
  <2>6. PlanOK(r)'
    BY <2>1, <2>2 DEF PlanOK, At
  <2>7. faults' \in 0..MaxFaults
    BY <1>1, <1>4 DEF TypeOK, Ok
  <2> QED
    BY <1>1, <1>2, <1>3, <1>4, <2>1, <2>2, <2>3, <2>4, <2>5, <2>6, <2>7, MoveQuiet DEF Still
<1>5. CASE ActiveGoal = None /\ Go(r, "insert") /\ Ok
  <2>1. /\ Moves(r) /\ req'[r].pc = "insert" /\ req'[r].recorded = req[r].recorded
    BY <1>1, <1>5, GoFields
  <2>2. /\ req'[r].op = req[r].op /\ req'[r].before = req[r].before
        /\ \A x \in Requests : r \notin req'[x].before
        /\ \A x \in Requests : \A q \in req'[x].before :
             q # r /\ q \in Requests /\ req'[q].pc \in Answered
    BY <2>1, MoveFacts DEF Moves
  <2>3. LocalOK(r)'
    BY <1>2, <2>1, <2>2 DEF LocalOK, At
  <2>4. DrawnOK(r)'
    <3>1. DrawnOK(r) /\ target' = target /\ assumptions' = assumptions
      BY <1>1 DEF RoadmapInv, Still
    <3> QED
      BY <1>1, <2>1, <2>2, <3>1 DEF DrawnOK
  <2>5. PlanOK(r)'
    BY <2>1 DEF PlanOK, At
  <2>6. faults' \in 0..MaxFaults
    BY <1>1, <1>5 DEF TypeOK, Ok
  <2> QED
    BY <1>1, <1>2, <1>3, <1>5, <2>1, <2>2, <2>3, <2>4, <2>5, <2>6, MoveQuiet DEF Still
<1> QED
  BY <1>1, <1>4, <1>5, FailKeeps DEF EnsureGoalRead

\* The assumptions are read for nothing but their identifier.
LEMMA PutAssumptionsReadKeeps ==
  ASSUME RoadmapInv, NEW r \in Requests, PutAssumptionsRead(r)
  PROVE  RoadmapInv'
<1>1. /\ TypeOK /\ req[r].pc = "read" /\ req[r].op = "assumptions" /\ Still
      /\ req[r].pc \in Working /\ "write" \in Working /\ req[r].goal \in DOMAIN target
      /\ r \notin background
  BY DEF RoadmapInv, TypeOK, At, PutAssumptionsRead, Working, Still
<1>2. CASE Go(r, "write") /\ Ok
  <2>1. /\ Moves(r) /\ req'[r].pc = "write" /\ req'[r].recorded = req[r].recorded
        /\ req'[r].goal = req[r].goal
    BY <1>1, <1>2, GoFields
  <2>2. /\ req'[r].op = req[r].op
        /\ \A x \in Requests : r \notin req'[x].before
        /\ \A x \in Requests : \A q \in req'[x].before :
             q # r /\ q \in Requests /\ req'[q].pc \in Answered
    BY <2>1, MoveFacts
  <2>3. LocalOK(r)' /\ DrawnOK(r)' /\ PlanOK(r)'
    BY <1>1, <2>1, <2>2 DEF LocalOK, DrawnOK, PlanOK, At, Still
  <2>4. faults' \in 0..MaxFaults
    BY <1>1, <1>2 DEF TypeOK, Ok
  <2> QED
    BY <1>1, <2>1, <2>2, <2>3, <2>4, MoveQuiet DEF Still
<1> QED
  BY <1>1, <1>2, FailKeeps DEF PutAssumptionsRead

\* r goes on to the baseline with the assumptions a.
Assumed(r, a) == req' = [req EXCEPT ![r].pc = "baseline", ![r].assumed = a]

\* What a projection reads is what is stored.
LEMMA ProjectAssumptionsKeeps ==
  ASSUME RoadmapInv, NEW r \in Requests, ProjectAssumptions(r)
  PROVE  RoadmapInv'
<1> DEFINE g == req[r].goal
           a == IF g \in DOMAIN assumptions THEN assumptions[g] ELSE Default
<1>1. /\ TypeOK /\ LocalOK(r) /\ req \in [Requests -> Request] /\ req[r] \in Request
      /\ req[r].pc = "assumptions" /\ req[r].op = "project"
      /\ UNCHANGED <<goals, target, assumptions, baselines, snapshot>>
      /\ req[r].pc \in Working /\ "baseline" \in Working
  BY DEF RoadmapInv, TypeOK, Locals, At, ProjectAssumptions, Working
<1>2. g \in DOMAIN target /\ a \in Writers
  BY <1>1 DEF LocalOK, TypeOK, Writers
<1>3. CASE Assumed(r, a) /\ background' = background \cup {r} /\ Ok
  <2> DEFINE f1 == [req EXCEPT ![r].pc = "baseline"]
             f2 == [f1 EXCEPT ![r].assumed = a]
  <2> HIDE DEF a
  <2>1. req' = f2
    BY <1>3, Zenon DEF Assumed
  <2>2. /\ f1 \in [Requests -> Request] /\ f1[r].pc = "baseline" /\ f1[r].op = req[r].op
        /\ f1[r].before = req[r].before /\ f1[r].recorded = req[r].recorded
        /\ f1[r].goal = g /\ f1[r].target = req[r].target
        /\ \A x \in Requests : x # r => f1[x] = req[x]
    BY <1>1 DEF Request
  <2> HIDE DEF f1
  <2>3. /\ f2 \in [Requests -> Request] /\ f2[r].pc = "baseline" /\ f2[r].op = req[r].op
        /\ f2[r].before = req[r].before /\ f2[r].recorded = req[r].recorded
        /\ f2[r].goal = g /\ f2[r].target = req[r].target /\ f2[r].assumed = a
        /\ \A x \in Requests : x # r => f2[x] = req[x]
    BY <1>2, <2>2 DEF Request
  <2> HIDE DEF f2
  <2>4. /\ Moves(r) /\ req'[r].pc = "baseline" /\ req'[r].recorded = req[r].recorded
        /\ req'[r].goal = g /\ req'[r].target = req[r].target /\ req'[r].assumed = a
        /\ req'[r].op = "project"
    BY <1>1, <2>1, <2>3 DEF Moves
  <2>5. /\ req'[r].before = req[r].before
        /\ \A x \in Requests : r \notin req'[x].before
        /\ \A x \in Requests : \A q \in req'[x].before :
             q # r /\ q \in Requests /\ req'[q].pc \in Answered
    BY <2>4, MoveFacts DEF Moves
  <2>6. LocalOK(r)' /\ PlanOK(r)'
    BY <2>4, <2>5 DEF LocalOK, PlanOK, At
  <2>7. DrawnOK(r)'
    <3>1. DrawnOK(r)
      BY DEF RoadmapInv
    <3>2. target[g] \in Requests
            => target[g] = req[r].target \/ target[g] \notin req[r].before
      BY <3>1, <1>1 DEF DrawnOK
    <3>3. g \in DOMAIN assumptions => assumptions[g] = a
      BY DEF a
    <3>4. target' = target /\ assumptions' = assumptions
      BY <1>1
    <3> QED
      BY <3>2, <3>3, <3>4, <2>4, <2>5 DEF DrawnOK
  <2>8. faults' \in 0..MaxFaults
    BY <1>1, <1>3 DEF TypeOK, Ok
  <2> QED
    BY <1>1, <1>2, <1>3, <2>4, <2>5, <2>6, <2>7, <2>8, MoveQuiet
<1>4. CASE Fails(r) /\ UNCHANGED background
  BY <1>1, <1>4, FailKeeps DEF Still
<1> QED
  BY <1>3, <1>4, Zenon DEF ProjectAssumptions, Assumed

\* A projection answers with the stored line of its goal.
LEMMA AnswerKeeps ==
  ASSUME RoadmapInv, NEW r \in Requests, req[r].op = "project", req[r].pc \in Working,
         req[r].goal \in DOMAIN baselines, Answer(r, baselines[req[r].goal]), Ok, Still
  PROVE  RoadmapInv'
<1> DEFINE line == baselines[req[r].goal]
<1>1. /\ TypeOK /\ LocalOK(r) /\ line \in Plans /\ req[r].pc # "delete"
      /\ UNCHANGED <<goals, target, assumptions, baselines, snapshot, background>>
      /\ r \in background => req[r].op = "project"
  BY DEF RoadmapInv, TypeOK, Locals, LocalOK, Still, Answered, Plans
<1>2. Answer(r, line)
  OBVIOUS
<1> HIDE DEF line
<1>3. /\ Moves(r) /\ req'[r].pc = "ok" /\ req'[r].recorded = req[r].recorded
      /\ req'[r].goal = req[r].goal /\ req'[r].plan = line
  BY <1>1, <1>2, AnswerFields
<1>4. /\ req'[r].op = "project"
      /\ \A x \in Requests : r \notin req'[x].before
      /\ \A x \in Requests : \A q \in req'[x].before :
           q # r /\ q \in Requests /\ req'[q].pc \in Answered
  BY <1>3, MoveFacts
<1>5. LocalOK(r)' /\ DrawnOK(r)'
  BY <1>3, <1>4 DEF LocalOK, DrawnOK, At, Answered
<1>6. PlanOK(r)'
  BY <1>1, <1>3 DEF PlanOK, At, line
<1>7. faults' \in 0..MaxFaults
  BY <1>1 DEF TypeOK, Ok
<1> QED
  BY <1>1, <1>3, <1>4, <1>5, <1>6, <1>7, MoveQuiet

\* Without a stored line the projection will store its own.
LEMMA BaselineReadKeeps ==
  ASSUME RoadmapInv, NEW r \in Requests, BaselineRead(r)
  PROVE  RoadmapInv'
<1>1. /\ TypeOK /\ req[r].pc = "baseline" /\ req[r].op = "project" /\ Still
      /\ req[r].pc \in Working /\ "save" \in Working /\ req[r].goal \in DOMAIN target
  BY DEF RoadmapInv, TypeOK, At, BaselineRead, Working, Still
<1>2. CASE Go(r, "save") /\ Ok
  <2>1. /\ Moves(r) /\ req'[r].pc = "save" /\ req'[r].recorded = req[r].recorded
        /\ req'[r].goal = req[r].goal /\ req'[r].target = req[r].target
        /\ req'[r].assumed = req[r].assumed
    BY <1>1, <1>2, GoFields
  <2>2. /\ req'[r].op = req[r].op /\ req'[r].before = req[r].before
        /\ \A x \in Requests : r \notin req'[x].before
        /\ \A x \in Requests : \A q \in req'[x].before :
             q # r /\ q \in Requests /\ req'[q].pc \in Answered
    BY <2>1, MoveFacts DEF Moves
  <2>3. LocalOK(r)' /\ PlanOK(r)'
    BY <1>1, <2>1, <2>2 DEF LocalOK, PlanOK, At
  <2>4. DrawnOK(r)'
    <3>1. DrawnOK(r) /\ target' = target /\ assumptions' = assumptions
      BY <1>1 DEF RoadmapInv, Still
    <3> QED
      BY <1>1, <2>1, <2>2, <3>1 DEF DrawnOK
  <2>5. faults' \in 0..MaxFaults
    BY <1>1, <1>2 DEF TypeOK, Ok
  <2> QED
    BY <1>1, <2>1, <2>2, <2>3, <2>4, <2>5, MoveQuiet DEF Still
<1> QED
  BY <1>1, <1>2, FailKeeps, AnswerKeeps DEF BaselineRead

\* The line that is read again is only missing when somebody has changed the
\* goal or the assumptions.
LEMMA BaselineRereadKeeps ==
  ASSUME RoadmapInv, NEW r \in Requests, BaselineReread(r)
  PROVE  RoadmapInv'
<1>1. /\ TypeOK /\ req[r].pc = "reread" /\ req[r].op = "project" /\ Still
      /\ req[r].pc \in Working /\ "panic" \in Answered
  BY DEF RoadmapInv, TypeOK, At, BaselineReread, Working, Answered, Still
<1>2. CASE req[r].goal \notin DOMAIN baselines /\ Go(r, "panic") /\ Ok
  <2>1. /\ Moves(r) /\ req'[r].pc = "panic" /\ req'[r].recorded = req[r].recorded
    BY <1>1, <1>2, GoFields
  <2>2. ~NoChange
    BY <1>1, <1>2 DEF RoadmapInv, PlanOK
  <2>3. faults' \in 0..MaxFaults
    BY <1>1, <1>2 DEF TypeOK, Ok
  <2>4. r \in background' => req'[r].op = "project"
    BY <1>1, <2>1 DEF Moves
  <2> QED
    BY <1>1, <2>1, <2>2, <2>3, <2>4, MoveQuiet DEF Still
<1> QED
  BY <1>1, <1>2, FailKeeps, AnswerKeeps DEF BaselineReread

----------------------------------------------------------------------------
\* The invariant holds of a couple without a plan.
LEMMA InitRoadmap == Init => RoadmapInv
<1> SUFFICES ASSUME Init PROVE RoadmapInv
  OBVIOUS
<1>1. /\ goals = <<>> \/ goals = <<Default>>
      /\ DOMAIN target = {goals[i] : i \in DOMAIN goals}
      /\ \A g \in DOMAIN target : target[g] = Default
      /\ DOMAIN assumptions = {} /\ DOMAIN baselines = {}
      /\ snapshot = None /\ background = {} /\ faults = 0
      /\ req = [r \in Requests |-> Fresh]
  BY DEF Init
<1>2. goals \in Seq(Writers) /\ \A i, j \in DOMAIN goals : ~(i < j)
  <2>1. Default \in Writers
    BY DEF Writers
  <2>2. CASE goals = <<>>
    BY <2>2
  <2>3. CASE goals = <<Default>>
    BY <2>1, <2>3
  <2> QED
    BY <1>1, <2>2, <2>3
<1>3. Fresh \in Request /\ Default \notin Requests /\ None \notin Requests
  BY RoadmapAssumption DEF Fresh, Request, Writers
<1>4. /\ Fresh.pc = "idle" /\ Fresh.op = "none" /\ Fresh.before = {}
      /\ Fresh.recorded = FALSE
  BY DEF Fresh
<1>5. /\ req \in [Requests -> Request]
      /\ \A r \in Requests : /\ req[r] = Fresh /\ req[r].pc = "idle" /\ req[r].op = "none"
                             /\ req[r].before = {} /\ req[r].recorded = FALSE
  BY <1>1, <1>3, <1>4
<1>6. TypeOK
  <2>1. faults \in 0..MaxFaults
    BY <1>1, RoadmapAssumption
  <2> QED
    BY <1>1, <1>2, <1>5, <2>1 DEF TypeOK, Writers
<1>7. Locals
  BY <1>5 DEF Locals, LocalOK, At
<1>8. goals = <<Default>> => \A i \in DOMAIN goals : goals[i] = Default
  OBVIOUS
<1>9. Owners
  BY <1>1, <1>3, <1>8 DEF Owners
<1>10. Lines /\ \A r \in Requests : DrawnOK(r)
  BY <1>1, <1>5 DEF Lines, DrawnOK
<1>11. GoalsOK
  BY <1>2, <1>5 DEF GoalsOK, OneGoal, Unseen, At
<1>12. \A r \in Requests : PlanOK(r)
  BY <1>5 DEF PlanOK, At
<1>13. PostedSnapshotReplaced
  BY <1>5 DEF PostedSnapshotReplaced
<1> QED
  BY <1>6, <1>7, <1>9, <1>10, <1>11, <1>12, <1>13 DEF RoadmapInv

\* A write that fails changes nothing either.
LEMMA WritesKeep ==
  ASSUME RoadmapInv, NEW r \in Requests,
         PutGoalWrite(r) \/ DeleteBaseline(r) \/ EnsureGoalInsert(r)
           \/ PutAssumptionsWrite(r) \/ SaveBaseline(r) \/ RecordSnapshot(r)
  PROVE  RoadmapInv'
<1>1. CASE PutGoalWrite(r)
  <2>1. req[r].pc \in Working /\ UNCHANGED <<assumptions, baselines, snapshot, background>>
    BY <1>1 DEF PutGoalWrite, At, Working
  <2> QED
    BY <1>1, <2>1, PutGoalKeeps, FailKeeps DEF PutGoalWrite, Still
<1>2. CASE DeleteBaseline(r)
  <2>1. /\ req[r].pc = "delete" /\ req[r].pc \in Working
        /\ UNCHANGED <<goals, target, assumptions, snapshot, background>>
    BY <1>2 DEF DeleteBaseline, Working
  <2> QED
    BY <1>2, <2>1, DeleteBaselineKeeps, FailKeeps DEF DeleteBaseline, Still
<1>3. CASE EnsureGoalInsert(r)
  <2>1. /\ req[r].pc = "insert" /\ req[r].pc \in Working
        /\ UNCHANGED <<assumptions, baselines, snapshot, background>>
    BY <1>3 DEF EnsureGoalInsert, Working
  <2>2. UpsertGoal(r, Default) /\ Inserted(r) /\ Ok => RoadmapInv'
    BY <2>1, InsertGoalKeeps
  <2>3. Fails(r) /\ UNCHANGED <<goals, target>> => RoadmapInv'
    BY <2>1, FailKeeps DEF Still
  <2> QED
    BY <1>3, <2>2, <2>3, Zenon DEF EnsureGoalInsert, Inserted
<1>4. CASE PutAssumptionsWrite(r)
  <2>1. /\ At(r, "assumptions", "write") /\ req[r].pc \in Working
        /\ UNCHANGED <<goals, target, baselines, snapshot, background>>
    BY <1>4 DEF PutAssumptionsWrite, At, Working
  <2> QED
    BY <1>4, <2>1, PutAssumptionsKeeps, FailKeeps DEF PutAssumptionsWrite, Still
<1>5. CASE SaveBaseline(r)
  <2>1. /\ At(r, "project", "save") /\ req[r].pc \in Working
        /\ UNCHANGED <<goals, target, assumptions, snapshot, background>>
    BY <1>5 DEF SaveBaseline, At, Working
  <2> QED
    BY <1>5, <2>1, SaveBaselineKeeps, FailKeeps DEF SaveBaseline, Still
<1>6. CASE RecordSnapshot(r)
  <2>1. /\ At(r, "snapshot", "record") /\ req[r].pc \in Working
        /\ UNCHANGED <<goals, target, assumptions, baselines, background>>
    BY <1>6 DEF RecordSnapshot, At, Working
  <2>2. snapshot' = r /\ Recorded(r) /\ Ok => RoadmapInv'
    BY <2>1, RecordSnapshotKeeps
  <2>3. Fails(r) /\ UNCHANGED snapshot => RoadmapInv'
    BY <2>1, FailKeeps DEF Still
  <2> QED
    BY <1>6, <2>2, <2>3, Zenon DEF RecordSnapshot, Recorded
<1> QED
  BY <1>1, <1>2, <1>3, <1>4, <1>5, <1>6

\* Every step keeps the invariant.
LEMMA StepRoadmap == RoadmapInv /\ [Next]_vars => RoadmapInv'
<1> SUFFICES ASSUME RoadmapInv, [Next]_vars PROVE RoadmapInv'
  OBVIOUS
<1>1. CASE UNCHANGED vars
  <2>1. /\ TypeOK /\ UNCHANGED <<goals, target, assumptions, baselines>>
        /\ background' = background /\ snapshot' = snapshot
        /\ faults' = faults /\ req' = req
    BY <1>1 DEF vars, RoadmapInv
  <2>2. Same
    BY <2>1 DEF Same, TypeOK
  <2>3. /\ snapshot' \in Requests \cup {None} /\ faults' \in 0..MaxFaults
        /\ snapshot' \in Requests => req[snapshot'].op # "none"
        /\ PostedSnapshotReplaced'
    BY <2>1 DEF TypeOK, RoadmapInv, Owners, PostedSnapshotReplaced
  <2> QED
    BY <2>1, <2>2, <2>3, SameKeeps
<1>2. ASSUME NEW r \in Requests, Serve(r) PROVE RoadmapInv'
  BY <1>2, OpeningsKeep, WritesKeep, EnsureGoalReadKeeps, PutAssumptionsReadKeeps,
     ProjectAssumptionsKeeps, BaselineReadKeeps, BaselineRereadKeeps, BackgroundKeeps
     DEF Serve
<1>3. CASE Crash
  BY <1>3, CrashKeeps
<1>4. CASE Finished
  BY <1>1, <1>4 DEF Finished
<1> QED
  BY <1>1, <1>2, <1>3, <1>4 DEF Next

\* The invariant holds in every state that is reached.
LEMMA RoadmapInvariant == Spec => []RoadmapInv
  BY InitRoadmap, StepRoadmap, PTL DEF Spec

\* Rows are well formed, belong to a stored goal, and only a projection has a
\* snapshot to write (pg_roadmap.go, roadmapProjection).
THEOREM RoadmapTypeCorrect == Spec => []TypeOK
<1>1. RoadmapInv => TypeOK
  BY DEF RoadmapInv
<1> QED
  BY <1>1, RoadmapInvariant, PTL

\* The two halves of BaselineFollowsChanges.
TargetFollowed(g) ==
  target[g] \in Requests /\ req[target[g]].pc = "ok" /\ baselines[g].target # target[g]
    => Overlap(target[g], baselines[g].by)

AssumptionsFollowed(g) ==
  LET q == IF g \in DOMAIN assumptions THEN assumptions[g] ELSE Default
  IN q \in Requests /\ req[q].pc = "ok" /\ baselines[g].assumed # q
       => Overlap(q, baselines[g].by)

\* A plan line is stale only if the projection that drew it overlapped the
\* change: baselineFor reads before it writes, and both PUT handlers delete
\* the line after they have written.
THEOREM StaleLineNeedsOverlap == Spec => []BaselineFollowsChanges
<1>1. RoadmapInv => BaselineFollowsChanges
  <2> SUFFICES ASSUME RoadmapInv, NEW g \in DOMAIN baselines
               PROVE  /\ TargetFollowed(g)
                      /\ AssumptionsFollowed(g)
    BY DEF BaselineFollowsChanges, TargetFollowed, AssumptionsFollowed
  <2>1. /\ target[g] \in Requests /\ target[g] # baselines[g].target
             => Behind(target[g], baselines[g].by)
        /\ g \in DOMAIN assumptions /\ assumptions[g] # baselines[g].assumed
             => Behind(assumptions[g], baselines[g].by)
    BY DEF RoadmapInv, Lines
  <2>2. ASSUME NEW p \in Requests, req[p].pc = "ok", Behind(p, baselines[g].by)
        PROVE  Overlap(p, baselines[g].by)
    BY <2>2 DEF Overlap, Behind
  <2>3. ASSUME NEW q \in Requests, req[q].pc = "ok", baselines[g].assumed # q,
               q = IF g \in DOMAIN assumptions THEN assumptions[g] ELSE Default
        PROVE  Overlap(q, baselines[g].by)
    <3>1. g \in DOMAIN assumptions /\ q = assumptions[g]
      BY <2>3, RoadmapAssumption
    <3> QED
      BY <2>1, <2>2, <2>3, <3>1
  <2> QED
    BY <2>1, <2>2, <2>3 DEF TargetFollowed, AssumptionsFollowed
<1> QED
  BY <1>1, RoadmapInvariant, PTL

\* A second goal needs two requests that overlapped, and while nobody changes
\* goal or assumptions every projection answers with the stored line and none
\* dereferences a line that is gone (ensureGoal, baselineFor).
THEOREM OneGoalAndItsPlan == Spec => []OneGoalOnePlan
<1>1. RoadmapInv => OneGoalOnePlan
  BY DEF RoadmapInv, GoalsOK, NoChange, PlanOK, OneGoalOnePlan, PlanIsStored
<1> QED
  BY <1>1, RoadmapInvariant, PTL

\* What POST /api/roadmap/snapshot records does not land over the snapshot of a
\* request that began after it was answered: it is written before the answer.
\* Nothing of the kind holds of what projections write in the background.
THEOREM PostedSnapshotsInOrder == Spec => []PostedSnapshotReplaced
<1>1. RoadmapInv => PostedSnapshotReplaced
  BY DEF RoadmapInv
<1> QED
  BY <1>1, RoadmapInvariant, PTL

\* A stored plan line is never overwritten (ON CONFLICT DO NOTHING): between
\* two lines of one goal a PUT has deleted the first.
THEOREM StoredLineStays == Spec => BaselineKept
<1> DEFINE Kept == \A g \in DOMAIN baselines \cap DOMAIN baselines' :
                      baselines'[g] = baselines[g]
<1>1. [Next]_vars => Kept
  <2> SUFFICES ASSUME [Next]_vars PROVE Kept
    OBVIOUS
  <2>1. CASE UNCHANGED vars \/ Crash \/ Finished
    BY <2>1 DEF vars, Crash, Finished
  <2>2. ASSUME NEW r \in Requests, Serve(r) PROVE Kept
    <3>1. CASE UNCHANGED baselines
      BY <3>1
    <3>2. CASE SaveBaseline(r)
      <4>1. \/ baselines' = baselines
            \/ req[r].goal \notin DOMAIN baselines
               /\ baselines' = Put(baselines, req[r].goal, NewBaseline(r))
        BY <3>2 DEF SaveBaseline
      <4> QED
        BY <4>1 DEF Put
    <3>3. CASE DeleteBaseline(r)
      <4>1. \/ baselines' = baselines
            \/ baselines' = [g \in DOMAIN baselines \ {req[r].goal} |-> baselines[g]]
        BY <3>3 DEF DeleteBaseline
      <4> QED
        BY <4>1
    <3>4. Serve(r) => SaveBaseline(r) \/ DeleteBaseline(r) \/ UNCHANGED baselines
      BY Zenon DEF Serve, PutGoalRead, PutGoalWrite, EnsureGoalRead, EnsureGoalInsert,
         PutAssumptions, PutAssumptionsRead, PutAssumptionsWrite, ProjectGoal,
         ProjectAssumptions, BaselineRead, BaselineReread, Background, PostSnapshot,
         RecordSnapshot
    <3> QED
      BY <2>2, <3>1, <3>2, <3>3, <3>4
  <2> QED
    BY <2>1, <2>2 DEF Next
<1> QED
  BY <1>1, PTL DEF Spec, BaselineKept
=============================================================================
