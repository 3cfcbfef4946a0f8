------------------------------- MODULE Roadmap -------------------------------
(***************************************************************************)
(* The roadmap of a couple (internal/handler/roadmap.go, pg_roadmap.go):   *)
(* the goal, the assumptions that belong to it, and the baseline, a plan   *)
(* line drawn once from both by the first projection that finds none and   *)
(* deleted when either changes.  A projection also records this month's    *)
(* net worth, from a background goroutine that outlives the request.       *)
(*                                                                         *)
(* A value is abstracted to the request that wrote or measured it; Default *)
(* stands for the opening goal and for the defaults of the code.  A new    *)
(* goal is named after the request that inserts it.                        *)
(***************************************************************************)
EXTENDS Integers, Sequences, FiniteSets

CONSTANTS
  Requests,      \* HTTP requests, each sent at most once
  Default, None,
  MaxInFlight,   \* bound on requests being served at once
  MaxFaults      \* bound on failed statements and process crashes

ASSUME RoadmapAssumption ==
  /\ Default \notin Requests
  /\ None \notin Requests \cup {Default}
  /\ MaxInFlight \in Nat
  /\ MaxFaults \in Nat

VARIABLES
  goals,        \* identifiers of roadmap_goals, oldest first
  target,       \* target and date of each goal
  assumptions,  \* rows of roadmap_assumptions, by goal
  baselines,    \* rows of roadmap_baselines, by goal
  snapshot,     \* who measured this month's row of networth_snapshots
  background,   \* projections whose snapshot is still to be written
  req,          \* what each handler goroutine holds
  faults        \* failures so far

vars == <<goals, target, assumptions, baselines, snapshot, background, req, faults>>

----------------------------------------------------------------------------
Writers == Requests \cup {Default}

Answered == {"ok", "error", "panic", "lost"}

Working == {"assumptions", "ensure", "insert", "baseline", "save", "reread",
            "write", "read", "delete", "record"}

\* goal, target and assumed are what the request has read; plan is the plan
\* line it answered with and recorded says that its snapshot was written.
Request == [pc : Working \cup {"idle"} \cup Answered,
            op : {"none", "project", "goal", "assumptions", "snapshot"},
            goal : Writers \cup {None}, target : Writers, assumed : Writers,
            plan : [target : Writers, assumed : Writers, by : Requests] \cup {None},
            recorded : BOOLEAN, before : SUBSET Requests]

Fresh == [pc |-> "idle", op |-> "none", goal |-> None, target |-> Default,
          assumed |-> Default, plan |-> None, recorded |-> FALSE, before |-> {}]

InFlight == {r \in Requests : req[r].pc \in Working}

Ok == UNCHANGED faults
Fault == faults < MaxFaults /\ faults' = faults + 1

\* A request begins, with the goal it has found and what that aims at.
Open(r, op, pc, goal, aim) ==
  /\ req[r].pc = "idle"
  /\ Cardinality(InFlight) < MaxInFlight
  /\ req' = [req EXCEPT ![r] =
               [pc |-> pc, op |-> op, goal |-> goal, target |-> aim,
                assumed |-> Default, plan |-> None, recorded |-> FALSE,
                before |-> {q \in Requests : req[q].pc \in Answered}]]

\* What a goroutine has read is gone when it ends.
Ended(r, pc, goal, plan) ==
  [pc |-> pc, op |-> req[r].op, goal |-> goal, target |-> Default,
   assumed |-> Default, plan |-> plan, recorded |-> req[r].recorded,
   before |-> req[r].before]

Go(r, pc) ==
  req' = [req EXCEPT ![r] = IF pc \in Answered THEN Ended(r, pc, None, None)
                            ELSE [@ EXCEPT !.pc = pc]]

\* A projection is answered with a plan line of its goal.
Answer(r, plan) == req' = [req EXCEPT ![r] = Ended(r, "ok", req[r].goal, plan)]

At(r, op, pc) == req[r].op = op /\ req[r].pc = pc

Put(table, key, value) ==
  [k \in DOMAIN table \cup {key} |-> IF k = key THEN value ELSE table[k]]

\* The newest goal, or None.
ActiveGoal == IF goals = <<>> THEN None ELSE goals[Len(goals)]

UpsertGoal(g, by) ==
  /\ goals' = IF g \in DOMAIN target THEN goals ELSE Append(goals, g)
  /\ target' = Put(target, g, by)

\* A statement that fails ends the request.
Fails(r) == Fault /\ Go(r, "error")

----------------------------------------------------------------------------
(* PUT /api/roadmap/goal. *)

PutGoalRead(r) ==
  /\ Open(r, "goal", "write", IF ActiveGoal = None THEN r ELSE ActiveGoal, Default)
  /\ Ok
  /\ UNCHANGED <<goals, target, assumptions, baselines, snapshot, background>>

PutGoalWrite(r) ==
  /\ At(r, "goal", "write")
  /\ \/ UpsertGoal(req[r].goal, r) /\ Go(r, "delete") /\ Ok
     \/ Fails(r) /\ UNCHANGED <<goals, target>>
  /\ UNCHANGED <<assumptions, baselines, snapshot, background>>

\* Faulty: the old plan line stays.
DeleteBaselineSkipped(r) ==
  /\ req[r].pc = "delete"
  /\ Go(r, "ok")
  /\ Ok
  /\ UNCHANGED <<goals, target, assumptions, baselines, snapshot, background>>

\* The last statement of both PUT handlers.
DeleteBaseline(r) ==
  /\ req[r].pc = "delete"
  /\ \/ /\ baselines' = [g \in DOMAIN baselines \ {req[r].goal} |-> baselines[g]]
        /\ Go(r, "ok")
        /\ Ok
     \/ Fails(r) /\ UNCHANGED baselines
  /\ UNCHANGED <<goals, target, assumptions, snapshot, background>>

----------------------------------------------------------------------------
(* ensureGoal: the active goal, or the default one, inserted now. *)

Found(r, pc) ==
  req' = [req EXCEPT ![r].pc = pc, ![r].goal = ActiveGoal,
                     ![r].target = target[ActiveGoal]]

AfterEnsure(r) == IF req[r].op = "project" THEN "baseline" ELSE "read"

EnsureGoalRead(r) ==
  /\ req[r].pc = "ensure"
  /\ \/ ActiveGoal # None /\ Found(r, AfterEnsure(r)) /\ Ok
     \/ ActiveGoal = None /\ Go(r, "insert") /\ Ok
     \/ Fails(r)
  /\ UNCHANGED <<goals, target, assumptions, baselines, snapshot, background>>

EnsureGoalInsert(r) ==
  /\ req[r].pc = "insert"
  /\ \/ /\ UpsertGoal(r, Default)
        /\ req' = [req EXCEPT ![r].pc = AfterEnsure(r), ![r].goal = r]
        /\ Ok
     \/ Fails(r) /\ UNCHANGED <<goals, target>>
  /\ UNCHANGED <<assumptions, baselines, snapshot, background>>

----------------------------------------------------------------------------
(* PUT /api/roadmap/assumptions. *)

PutAssumptions(r) ==
  /\ Open(r, "assumptions", "ensure", None, Default)
  /\ Ok
  /\ UNCHANGED <<goals, target, assumptions, baselines, snapshot, background>>

\* The row that is there only gives its identifier, the key is the goal.
PutAssumptionsRead(r) ==
  /\ At(r, "assumptions", "read")
  /\ (Go(r, "write") /\ Ok) \/ Fails(r)
  /\ UNCHANGED <<goals, target, assumptions, baselines, snapshot, background>>

PutAssumptionsWrite(r) ==
  /\ At(r, "assumptions", "write")
  /\ \/ assumptions' = Put(assumptions, req[r].goal, r) /\ Go(r, "delete") /\ Ok
     \/ Fails(r) /\ UNCHANGED assumptions
  /\ UNCHANGED <<goals, target, baselines, snapshot, background>>

----------------------------------------------------------------------------
(* GET /api/roadmap/projection. *)

\* The goal is read; an unsaved default goal has no assumptions to read.
\* Holdings, snapshots and contributions are read beside it.
ProjectGoal(r) ==
  /\ \/ /\ ActiveGoal # None
        /\ Open(r, "project", "assumptions", ActiveGoal, target[ActiveGoal])
        /\ UNCHANGED background
     \/ /\ ActiveGoal = None
        /\ Open(r, "project", "ensure", None, Default)
        /\ background' = background \cup {r}
  /\ Ok
  /\ UNCHANGED <<goals, target, assumptions, baselines, snapshot>>

\* When everything is read the background goroutine starts.
ProjectAssumptions(r) ==
  LET g == req[r].goal
  IN /\ At(r, "project", "assumptions")
     /\ \/ /\ req' = [req EXCEPT ![r].pc = "baseline",
                ![r].assumed = IF g \in DOMAIN assumptions THEN assumptions[g]
                                                           ELSE Default]
           /\ background' = background \cup {r}
           /\ Ok
        \/ Fails(r) /\ UNCHANGED background
     /\ UNCHANGED <<goals, target, assumptions, baselines, snapshot>>

BaselineRead(r) ==
  LET g == req[r].goal
  IN /\ At(r, "project", "baseline")
     /\ \/ g \in DOMAIN baselines /\ Answer(r, baselines[g]) /\ Ok
        \/ g \notin DOMAIN baselines /\ Go(r, "save") /\ Ok
        \/ Fails(r)
     /\ UNCHANGED <<goals, target, assumptions, baselines, snapshot, background>>

NewBaseline(r) == [target |-> req[r].target, assumed |-> req[r].assumed, by |-> r]

\* Faulty: a conflict overwrites.
SaveBaselineUpserts(r) ==
  /\ At(r, "project", "save")
  /\ baselines' = Put(baselines, req[r].goal, NewBaseline(r))
  /\ Go(r, "reread")
  /\ Ok
  /\ UNCHANGED <<goals, target, assumptions, snapshot, background>>

\* ON CONFLICT DO NOTHING.
SaveBaseline(r) ==
  LET g == req[r].goal
  IN /\ At(r, "project", "save")
     /\ \/ /\ baselines' = IF g \in DOMAIN baselines THEN baselines
                           ELSE Put(baselines, g, NewBaseline(r))
           /\ Go(r, "reread")
           /\ Ok
        \/ Fails(r) /\ UNCHANGED baselines
     /\ UNCHANGED <<goals, target, assumptions, snapshot, background>>

\* Faulty: the answer is the line of this request, stored or not.
BaselineRereadOwn(r) ==
  /\ At(r, "project", "reread")
  /\ Answer(r, NewBaseline(r))
  /\ Ok
  /\ UNCHANGED <<goals, target, assumptions, baselines, snapshot, background>>

\* The stored line is read again.  If a PUT has deleted it meanwhile the
\* handler dereferences nil and panics.
BaselineReread(r) ==
  LET g == req[r].goal
  IN /\ At(r, "project", "reread")
     /\ \/ g \in DOMAIN baselines /\ Answer(r, baselines[g]) /\ Ok
        \/ g \notin DOMAIN baselines /\ Go(r, "panic") /\ Ok
        \/ Fails(r)
     /\ UNCHANGED <<goals, target, assumptions, baselines, snapshot, background>>

\* UpsertSnapshot of the background goroutine; a failure is only logged.
Background(r) ==
  /\ r \in background
  /\ background' = background \ {r}
  /\ \/ snapshot' = r /\ req' = [req EXCEPT ![r].recorded = TRUE] /\ Ok
     \/ Fault /\ UNCHANGED <<snapshot, req>>
  /\ UNCHANGED <<goals, target, assumptions, baselines>>

----------------------------------------------------------------------------
(* POST /api/roadmap/snapshot. *)

\* Rate, assets, holdings and stored prices are read: r is what they say.
PostSnapshot(r) ==
  /\ Open(r, "snapshot", "record", None, Default)
  /\ Ok
  /\ UNCHANGED <<goals, target, assumptions, baselines, snapshot, background>>

\* Faulty: in the background, as a projection does it.
RecordSnapshotLater(r) ==
  /\ At(r, "snapshot", "record")
  /\ background' = background \cup {r}
  /\ Go(r, "ok")
  /\ Ok
  /\ UNCHANGED <<goals, target, assumptions, baselines, snapshot>>

RecordSnapshot(r) ==
  /\ At(r, "snapshot", "record")
  /\ \/ /\ snapshot' = r
        /\ req' = [req EXCEPT ![r].pc = "ok", ![r].recorded = TRUE]
        /\ Ok
     \/ Fails(r) /\ UNCHANGED snapshot
  /\ UNCHANGED <<goals, target, assumptions, baselines, background>>

----------------------------------------------------------------------------
Crash ==
  /\ InFlight \cup background # {}
  /\ Fault
  /\ req' = [r \in Requests |->
               IF r \in InFlight THEN Ended(r, "lost", None, None) ELSE req[r]]
  /\ background' = {}
  /\ UNCHANGED <<goals, target, assumptions, baselines, snapshot>>

\* Every request has been answered: the model, not the server, stops.
Finished ==
  /\ \A r \in Requests : req[r].pc \in Answered
  /\ background = {}
  /\ UNCHANGED vars

\* A couple without a goal, or with one and nothing else.
Init ==
  /\ goals \in {<<>>, <<Default>>}
  /\ target = [g \in {Default} \cap {goals[i] : i \in DOMAIN goals} |-> Default]
  /\ assumptions = [g \in {} |-> Default]
  /\ baselines = [g \in {} |-> Fresh.plan]
  /\ snapshot = None
  /\ background = {}
  /\ req = [r \in Requests |-> Fresh]
  /\ faults = 0

Serve(r) ==
  \/ PutGoalRead(r) \/ PutGoalWrite(r) \/ DeleteBaseline(r)
  \/ EnsureGoalRead(r) \/ EnsureGoalInsert(r)
  \/ PutAssumptions(r) \/ PutAssumptionsRead(r) \/ PutAssumptionsWrite(r)
  \/ ProjectGoal(r) \/ ProjectAssumptions(r)
  \/ BaselineRead(r) \/ SaveBaseline(r) \/ BaselineReread(r) \/ Background(r)
  \/ PostSnapshot(r) \/ RecordSnapshot(r)

Next == (\E r \in Requests : Serve(r)) \/ Crash \/ Finished

Spec == Init /\ [][Next]_vars

----------------------------------------------------------------------------
Plans == [target : Writers, assumed : Writers, by : Requests]

\* Rows are well formed, everything belongs to a stored goal, and only a
\* projection that has read everything has a snapshot to write.
TypeOK ==
  /\ goals \in Seq(Writers)
  /\ DOMAIN target = {goals[i] : i \in DOMAIN goals}
  /\ \A g \in DOMAIN target : target[g] \in Writers
  /\ DOMAIN assumptions \cup DOMAIN baselines \subseteq DOMAIN target
  /\ \A g \in DOMAIN assumptions : assumptions[g] \in Requests
  /\ \A g \in DOMAIN baselines : baselines[g] \in Plans
  /\ snapshot \in Requests \cup {None}
  /\ background \subseteq {r \in Requests : req[r].op = "project"}
  /\ req \in [Requests -> Request]
  /\ \A r \in Requests :
       req[r].pc \in {"baseline", "save", "reread", "read", "delete"} =>
         req[r].goal \in DOMAIN target
  /\ faults \in 0..MaxFaults

Overlap(q, r) == q \notin req[r].before /\ r \notin req[q].before

\* A plan line that is stored is never replaced: between two different lines
\* of one goal a PUT deletes the first.
BaselineKept ==
  [][\A g \in DOMAIN baselines \cap DOMAIN baselines' :
       baselines'[g] = baselines[g]]_vars

\* A change that was answered with success leaves no plan line drawn from
\* what it replaced, unless the projection that drew the line overlapped it.
BaselineFollowsChanges ==
  \A g \in DOMAIN baselines :
    LET line == baselines[g]
        p == target[g]
        q == IF g \in DOMAIN assumptions THEN assumptions[g] ELSE Default
    IN /\ p \in Requests /\ req[p].pc = "ok" /\ line.target # p
            => Overlap(p, line.by)
       /\ q \in Requests /\ req[q].pc = "ok" /\ line.assumed # q
            => Overlap(q, line.by)

\* As long as nobody changes goal or assumptions, every projection of a goal
\* answers with the stored line, whoever drew it, and none panics.
PlanIsStored ==
  (\A r \in Requests : req[r].op \notin {"goal", "assumptions"}) =>
    \A r \in Requests :
      /\ req[r].pc # "panic"
      /\ At(r, "project", "ok") =>
           /\ req[r].goal \in DOMAIN baselines
           /\ req[r].plan = baselines[req[r].goal]

\* A couple gets a second goal only from requests that overlapped.
OneGoal ==
  \A i, j \in DOMAIN goals :
    i < j => goals[i] # Default /\ goals[i] \notin req[goals[j]].before

\* A couple is shown one goal and one plan line of it.
OneGoalOnePlan == OneGoal /\ PlanIsStored

\* What a request posts does not land over the snapshot, posted or in the
\* background, of one that began after it was answered.  (One in the background
\* is ordered with nothing and may itself come back over a posted one.)
PostedSnapshotReplaced ==
  \A r \in Requests :
    req[r].recorded /\ snapshot \in Requests /\ snapshot # r
      => ~(req[snapshot].op = "snapshot" /\ snapshot \in req[r].before)
=============================================================================
