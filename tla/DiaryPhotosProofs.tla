-------------------------- MODULE DiaryPhotosProofs --------------------------
(***************************************************************************)
(* Proofs about DiaryPhotos, for every set of requests, diaries and photos *)
(* and any number of failures: what a missing file, a file nobody shows    *)
(* and a lost upload or edit have to be due to.  The argument is about     *)
(* lists that goroutines hold: what a delete has read and not removed yet, *)
(* what a patch has read and will write back.                              *)
(***************************************************************************)
EXTENDS DiaryPhotos, TLAPS

\* The files that r has read of, or has dealt with.
Handled(r) == req[r].todo \cup req[r].removed \cup req[r].kept

\* What a goroutine holds fits the step it is at.  Only answered requests are
\* before another one, so that a request being worked on is before nobody.
LocalOK(r) ==
  /\ req[r].pc = "idle" => req[r] = Fresh
  /\ req[r].op = "none" => req[r].pc = "idle"
  /\ r \notin req[r].before
  /\ \A q \in req[r].before : req[q].pc \in Answered
  /\ req[r].op # "delete" => req[r].todo = {}
  /\ req[r].op \notin {"delete", "unlink"} => req[r].removed = {} /\ req[r].kept = {}
  /\ req[r].op = "unlink" => req[r].removed \cup req[r].kept = {req[r].file}
  /\ req[r].op \in {"patch", "delete", "upload"} => req[r].diary \in issued

Locals == \A r \in Requests : LocalOK(r)

\* f is not an upload that is still under way.
Settled(f) == f \in Requests => req[f].op = "upload" /\ req[f].pc = "ok"

\* A photo in a list was uploaded to that diary, and stored before.
Placed ==
  /\ \A d \in DOMAIN diaries : \A f \in diaries[d].photos :
       Settled(f) /\ (f \in Requests => req[f].diary = d)
  /\ \A r \in Requests : \A f \in Handled(r) : Settled(f)
  /\ \A r \in Requests : req[r].op = "upload" /\ req[r].pc = "add" => r \in stored
  /\ \A r \in Requests : r \in stored => req[r].op = "upload" /\ req[r].pc \notin {"idle", "file"}

\* No file is stored again, and a delete deals with the files of its own diary.
Removed ==
  /\ \A r \in Requests : req[r].removed \cap stored = {}
  /\ \A r \in Requests : req[r].op = "delete" =>
       \A d \in DOMAIN diaries : diaries[d].photos \cap Handled(r) # {} => d = req[r].diary

\* A delete misses only what was added to its diary since it read the list.
Deleting ==
  \A r \in Requests :
    /\ req[r].op = "delete" /\ req[r].pc \in {"remove", "delete"}
    /\ req[r].diary \in DOMAIN diaries
    => \A f \in diaries[req[r].diary].photos \ Handled(r) :
         f \in Requests /\ f \notin req[r].before

\* q is a reason for the field that r has patched to have changed.
Excuse(q, r, field) ==
  /\ q # r /\ req[q].op = "patch" /\ q \notin req[r].before
  /\ req[q].diary = req[r].diary
  /\ field \in req[q].fields \/ Overlap(q, r)

\* Such a reason shows in a copy of the row that was read after the patch, too.
Copied ==
  \A q, r \in Requests :
    /\ req[q].op = "patch" /\ req[q].pc = "write" /\ r \in req[q].before
    /\ req[r].op = "patch" /\ req[r].pc = "ok" /\ req[r].diary = req[q].diary
    => \A field \in req[r].fields :
         req[q].row[field] = r \/ \E p \in Requests : Excuse(p, r, field)

\* The two halves of AnsweredIsKept, and a reason for a file not to be shown.
UploadKept(r) ==
  req[r].op = "upload" /\ req[r].pc = "ok" /\ r \notin Shown =>
    \E q \in Requests :
      /\ q \notin req[r].before
      /\ \/ req[q].op = "unlink" /\ req[q].file = r
         \/ req[q].op = "delete" /\ req[q].diary = req[r].diary

PatchKept(r) ==
  req[r].op = "patch" /\ req[r].pc = "ok" /\ req[r].diary \in DOMAIN diaries =>
    \A field \in req[r].fields :
      diaries[req[r].diary][field] # r => \E q \in Requests : Excuse(q, r, field)

Unshown(f) ==
  \/ \E r \in Requests : f \in req[r].kept
  \/ /\ f \in Requests
     /\ \/ req[f].pc # "ok"
        \/ \E r \in Requests :
             /\ req[r].op = "delete" /\ req[r].diary = req[f].diary
             /\ Overlap(f, r)

\* The inductive invariant.
DiaryInv ==
  /\ TypeOK /\ Locals
  /\ Placed /\ Removed /\ Deleting /\ Copied
  /\ ShownIsStored
  /\ \A f \in stored \ Shown : Unshown(f)
  /\ \A r \in Requests : UploadKept(r) /\ PatchKept(r)

----------------------------------------------------------------------------
\* What no step of a request in the making changes.
Fixed(x) ==
  /\ req'[x].op = req[x].op /\ req'[x].diary = req[x].diary
  /\ req'[x].file = req[x].file /\ req'[x].fields = req[x].fields
  /\ req'[x].before = req[x].before
  /\ req'[x].pc = "idle" <=> req[x].pc = "idle"
  /\ req[x].pc \in Answered => req'[x] = req[x]

\* Moving on changes the step, and the copy of the row when the request ends.
LEMMA GoFields ==
  ASSUME req \in [Requests -> Request], NEW r \in Requests,
         NEW p \in {"ok", "error", "add"}, Go(r, p)
  PROVE  /\ req' \in [Requests -> Request]
         /\ \A x \in Requests : x # r => req'[x] = req[x]
         /\ req'[r].pc = p /\ req'[r].op = req[r].op /\ req'[r].diary = req[r].diary
         /\ req'[r].file = req[r].file /\ req'[r].fields = req[r].fields
         /\ req'[r].before = req[r].before /\ req'[r].todo = req[r].todo
         /\ req'[r].removed = req[r].removed /\ req'[r].kept = req[r].kept
<1> DEFINE row == IF p \in Answered THEN Blank ELSE req[r].row
           f1 == [req EXCEPT ![r].pc = p]
           f2 == [f1 EXCEPT ![r].row = row]
<1>1. row \in Row
  <2>1. Blank \in Row
    BY DEF Blank, Row, Writers
  <2>2. req[r].row \in Row
    BY DEF Request
  <2> QED
    BY <2>1, <2>2
<1>2. f1 \in [Requests -> Request] /\ f1[r].row = req[r].row /\ f1[r].pc = p
  BY DEF Request, Working, Answered
<1>3. req' = f2
  BY Zenon, <1>2 DEF Go
<1>4. \A x \in Requests : x # r => f1[x] = req[x]
  OBVIOUS
<1>5. /\ f1[r].op = req[r].op /\ f1[r].diary = req[r].diary
      /\ f1[r].file = req[r].file /\ f1[r].fields = req[r].fields
      /\ f1[r].before = req[r].before /\ f1[r].todo = req[r].todo
      /\ f1[r].removed = req[r].removed /\ f1[r].kept = req[r].kept
  BY DEF Request
<1> HIDE DEF f1, row
<1> QED
  BY <1>1, <1>2, <1>3, <1>4, <1>5 DEF Request

\* The requests answered so far.
Done == {q \in Requests : req[q].pc \in Answered}

\* f is req with r taken up, and nothing else changed.
TakenUp(f, r, o, p, d) ==
  /\ f \in [Requests -> Request]
  /\ \A x \in Requests : x # r => f[x] = req[x]
  /\ f[r].pc = p /\ f[r].op = o /\ f[r].diary = d /\ f[r].before = Done
  /\ f[r].file = req[r].file /\ f[r].fields = req[r].fields
  /\ f[r].row = req[r].row /\ f[r].todo = req[r].todo
  /\ f[r].removed = req[r].removed /\ f[r].kept = req[r].kept

\* Taking up a request records the operation, the diary and what was answered.
LEMMA OpenFields ==
  ASSUME req \in [Requests -> Request], NEW r \in Requests,
         NEW o \in {"create", "patch", "delete", "upload", "unlink"},
         NEW p \in Working \cup Answered, NEW d \in Diaries
  PROVE  TakenUp(Open(r, o, p, d), r, o, p, d)
<1> DEFINE B == Done
<1>1. B \in SUBSET Requests
  BY DEF Done
<1> DEFINE f1 == [req EXCEPT ![r].pc = p]
           f2 == [f1 EXCEPT ![r].op = o]
           f3 == [f2 EXCEPT ![r].diary = d]
           f4 == [f3 EXCEPT ![r].before = B]
<1>2. /\ f1 \in [Requests -> Request] /\ f1[r].pc = p
      /\ f1[r].file = req[r].file /\ f1[r].fields = req[r].fields
      /\ f1[r].row = req[r].row /\ f1[r].todo = req[r].todo
      /\ f1[r].removed = req[r].removed /\ f1[r].kept = req[r].kept
      /\ \A x \in Requests : x # r => f1[x] = req[x]
  BY DEF Request
<1> HIDE DEF B, f1
<1>3. /\ f2 \in [Requests -> Request] /\ f2[r].pc = p /\ f2[r].op = o
      /\ f2[r].file = req[r].file /\ f2[r].fields = req[r].fields
      /\ f2[r].row = req[r].row /\ f2[r].todo = req[r].todo
      /\ f2[r].removed = req[r].removed /\ f2[r].kept = req[r].kept
      /\ \A x \in Requests : x # r => f2[x] = req[x]
  BY <1>2 DEF Request
<1> HIDE DEF f2
<1>4. /\ f3 \in [Requests -> Request] /\ f3[r].pc = p /\ f3[r].op = o /\ f3[r].diary = d
      /\ f3[r].file = req[r].file /\ f3[r].fields = req[r].fields
      /\ f3[r].row = req[r].row /\ f3[r].todo = req[r].todo
      /\ f3[r].removed = req[r].removed /\ f3[r].kept = req[r].kept
      /\ \A x \in Requests : x # r => f3[x] = req[x]
  BY <1>3 DEF Request
<1> HIDE DEF f3
<1>5. /\ f4 \in [Requests -> Request] /\ f4[r].pc = p /\ f4[r].op = o /\ f4[r].diary = d
      /\ f4[r].before = B
      /\ f4[r].file = req[r].file /\ f4[r].fields = req[r].fields
      /\ f4[r].row = req[r].row /\ f4[r].todo = req[r].todo
      /\ f4[r].removed = req[r].removed /\ f4[r].kept = req[r].kept
      /\ \A x \in Requests : x # r => f4[x] = req[x]
  BY <1>1, <1>4 DEF Request
<1>6. Open(r, o, p, d) = f4
  BY Zenon DEF Open, f1, f2, f3, B, Done
<1> HIDE DEF f4
<1> QED
  BY <1>5, <1>6 DEF B, TakenUp

\* As long as requests only move on, who was answered before whom stays, and so
\* do the reasons that refer to it.
LEMMA FixedLocals ==
  ASSUME DiaryInv, \A x \in Requests : Fixed(x)
  PROVE  /\ \A x \in Requests : /\ x \notin req'[x].before
                                /\ req[x].before \subseteq Requests
                                /\ \A q \in req'[x].before : req'[q].pc \in Answered
         /\ \A q, x \in Requests : \A field : Excuse(q, x, field)' <=> Excuse(q, x, field)
         /\ \A q, x \in Requests : Overlap(q, x)' <=> Overlap(q, x)
<1>1. req \in [Requests -> Request]
  BY DEF DiaryInv, TypeOK
<1>2. \A x \in Requests : req[x].before \subseteq Requests
  BY <1>1 DEF Request
<1>3. \A x \in Requests : x \notin req[x].before /\ \A q \in req[x].before : req[q].pc \in Answered
  BY DEF DiaryInv, Locals, LocalOK
<1>4. \A x \in Requests : req'[x].before = req[x].before
  BY DEF Fixed
<1>5. \A q, x \in Requests : Overlap(q, x)' <=> Overlap(q, x)
  BY <1>4 DEF Overlap
<1>6. \A q, x \in Requests : \A field : Excuse(q, x, field)' <=> Excuse(q, x, field)
  BY <1>5 DEF Excuse, Fixed
<1>7. ASSUME NEW x \in Requests, NEW q \in req'[x].before PROVE req'[q].pc \in Answered
  BY <1>2, <1>3, <1>4, <1>7 DEF Fixed
<1> QED
  BY <1>2, <1>3, <1>4, <1>5, <1>6, <1>7

\* A failed call, or a row that is gone, ends a request and leaves the rows.
LEMMA ErrorKeeps ==
  ASSUME DiaryInv, NEW r \in Requests, req[r].pc \in Working, Go(r, "error"),
         faults' \in 0..MaxFaults, UNCHANGED <<remote, diaries, issued>>,
         \/ stored' = stored
         \/ req[r].op = "upload" /\ req[r].pc = "file" /\ stored' = stored \cup {r}
  PROVE  DiaryInv'
<1>1. TypeOK /\ req \in [Requests -> Request]
  BY DEF DiaryInv, TypeOK
<1>2. /\ req' \in [Requests -> Request]
      /\ \A x \in Requests : x # r => req'[x] = req[x]
      /\ req'[r].pc = "error" /\ req'[r].op = req[r].op /\ req'[r].diary = req[r].diary
      /\ req'[r].file = req[r].file /\ req'[r].fields = req[r].fields
      /\ req'[r].before = req[r].before /\ req'[r].todo = req[r].todo
      /\ req'[r].removed = req[r].removed /\ req'[r].kept = req[r].kept
  BY <1>1, GoFields
<1>3. \A x \in Requests : Fixed(x)
  BY <1>2 DEF Fixed, Working, Answered
<1>4. TypeOK'
  <2>1. \A x \in InFlight' : x \in InFlight /\ req'[x] = req[x]
    BY <1>2 DEF InFlight, Working
  <2>2. stored' \subseteq Files
    BY <1>1 DEF TypeOK, Files
  <2> QED
    BY <2>1, <2>2, <1>1, <1>2 DEF TypeOK
<1>5. Locals'
  <2>1. ASSUME NEW x \in Requests PROVE LocalOK(x)'
    <3>1. LocalOK(x)
      BY DEF DiaryInv, Locals
    <3>2. x \notin req'[x].before /\ \A q \in req'[x].before : req'[q].pc \in Answered
      BY <1>3, FixedLocals
    <3>3. CASE x = r
      BY <3>1, <3>2, <3>3, <1>2 DEF LocalOK, Working
    <3>4. CASE x # r
      BY <3>1, <3>2, <3>4, <1>2 DEF LocalOK
    <3> QED
      BY <3>3, <3>4
  <2> QED
    BY <2>1 DEF Locals
<1>6. /\ \A x \in Requests : Handled(x)' = Handled(x)
      /\ \A f \in Files : Settled(f) => Settled(f)'
  BY <1>2 DEF Handled, Settled, Working
<1>7. /\ \A x \in Requests : Handled(x) \subseteq Files
      /\ \A d \in DOMAIN diaries : diaries[d].photos \subseteq Files
  BY <1>1 DEF TypeOK, Handled, Request, Row
<1>8. Placed'
  <2>1. \A d \in DOMAIN diaries : \A f \in diaries[d].photos :
          Settled(f)' /\ (f \in Requests => req'[f].diary = d)
    BY <1>3, <1>6, <1>7 DEF DiaryInv, Placed, Fixed
  <2>2. \A x \in Requests : \A f \in Handled(x)' : Settled(f)'
    BY <1>6, <1>7 DEF DiaryInv, Placed
  <2>3. \A x \in Requests : req'[x].op = "upload" /\ req'[x].pc = "add" => x \in stored'
    BY <1>2 DEF DiaryInv, Placed
  <2>4. \A x \in Requests : x \in stored' =>
          req'[x].op = "upload" /\ req'[x].pc \notin {"idle", "file"}
    BY <1>2 DEF DiaryInv, Placed
  <2> QED
    BY <2>1, <2>2, <2>3, <2>4 DEF Placed
<1>9. \A x \in Requests : r \notin Handled(x)
  BY DEF DiaryInv, Placed, Settled, Working
<1>10. Removed'
  <2>1. \A x \in Requests : req'[x].removed = req[x].removed /\ r \notin req[x].removed
    BY <1>2, <1>9 DEF Handled
  <2>2. \A x \in Requests : req'[x].removed \cap stored' = {}
    BY <2>1 DEF DiaryInv, Removed
  <2> QED
    BY <2>2, <1>3, <1>6 DEF DiaryInv, Removed, Fixed
<1>11. Deleting'
  BY <1>2, <1>6 DEF DiaryInv, Deleting
<1>12. Copied'
  <2> SUFFICES ASSUME NEW q \in Requests, NEW x \in Requests,
                      req'[q].op = "patch", req'[q].pc = "write", x \in req'[q].before,
                      req'[x].op = "patch", req'[x].pc = "ok", req'[x].diary = req'[q].diary,
                      NEW field \in req'[x].fields
               PROVE  req'[q].row[field] = x \/ \E p \in Requests : Excuse(p, x, field)'
    BY DEF Copied
  <2>1. q # r /\ x # r
    BY <1>2
  <2> QED
    BY <2>1, <1>2, <1>3, FixedLocals DEF DiaryInv, Copied
<1>13. ShownIsStored'
  BY <1>2 DEF DiaryInv, ShownIsStored
<1>14. ASSUME NEW f \in stored' \ Shown' PROVE Unshown(f)'
  <2>1. CASE f = r
    BY <2>1, <1>2 DEF Unshown
  <2>2. CASE f # r
    <3>1. f \in stored \ Shown /\ \A x \in Requests : req'[x].kept = req[x].kept
      BY <2>2, <1>2 DEF Shown
    <3> QED
      BY <3>1, <2>2, <1>2, <1>3, FixedLocals DEF DiaryInv, Unshown, Fixed
  <2> QED
    BY <2>1, <2>2
<1>15. ASSUME NEW x \in Requests PROVE UploadKept(x)' /\ PatchKept(x)'
  <2>1. UploadKept(x)'
    BY <1>2, <1>3 DEF DiaryInv, UploadKept, Shown, Fixed
  <2>2. PatchKept(x)'
    BY <1>2, <1>3, FixedLocals DEF DiaryInv, PatchKept, Fixed
  <2> QED
    BY <2>1, <2>2
<1> QED
  BY <1>4, <1>5, <1>8, <1>10, <1>11, <1>12, <1>13, <1>14, <1>15 DEF DiaryInv

\* A goroutine that moves on and has no list of files keeps what it holds.
LEMMA MovedLocals ==
  ASSUME DiaryInv, NEW r \in Requests, req[r].pc \in Working,
         NEW p \in {"ok", "error", "add"}, Go(r, p), issued \subseteq issued'
  PROVE  /\ \A x \in Requests : Fixed(x)
         /\ \A x \in Requests : x # r => req'[x] = req[x]
         /\ req'[r].pc = p
         /\ Locals'
         /\ \A x \in Requests : Handled(x)' = Handled(x) /\ r \notin Handled(x)
         /\ \A x \in Requests : /\ req'[x].removed = req[x].removed
                                /\ req'[x].kept = req[x].kept
                                /\ req'[x].todo = req[x].todo
         /\ \A f \in Files : Settled(f) => Settled(f)' /\ f # r
         /\ req' \in [Requests -> Request]
<1>1. TypeOK /\ req \in [Requests -> Request]
  BY DEF DiaryInv, TypeOK
<1>2. /\ req' \in [Requests -> Request]
      /\ \A x \in Requests : x # r => req'[x] = req[x]
      /\ req'[r].pc = p /\ req'[r].op = req[r].op /\ req'[r].diary = req[r].diary
      /\ req'[r].file = req[r].file /\ req'[r].fields = req[r].fields
      /\ req'[r].before = req[r].before /\ req'[r].todo = req[r].todo
      /\ req'[r].removed = req[r].removed /\ req'[r].kept = req[r].kept
  BY <1>1, GoFields
<1>3. \A x \in Requests : Fixed(x)
  BY <1>2 DEF Fixed, Working, Answered
<1>4. ASSUME NEW x \in Requests PROVE LocalOK(x)'
  <2>1. LocalOK(x)
    BY DEF DiaryInv, Locals
  <2>2. x \notin req'[x].before /\ \A q \in req'[x].before : req'[q].pc \in Answered
    BY <1>3, FixedLocals
  <2>3. CASE x = r
    BY <2>1, <2>2, <2>3, <1>2 DEF LocalOK, Working
  <2>4. CASE x # r
    BY <2>1, <2>2, <2>4, <1>2 DEF LocalOK
  <2> QED
    BY <2>3, <2>4
<1>5. \A f \in Files : Settled(f) => Settled(f)' /\ f # r
  BY <1>2 DEF Settled, Working
<1>6. \A x \in Requests : Handled(x)' = Handled(x) /\ r \notin Handled(x)
  BY <1>2 DEF Handled, DiaryInv, Placed, Settled, Working
<1> QED
  BY <1>2, <1>3, <1>4, <1>5, <1>6 DEF Locals

\* A patch that is answered sets its fields.  What it puts back of the others
\* was there when it read the row: it is the doing of a patch that overlaps, or
\* was excused already.
LEMMA WriteKeeps ==
  ASSUME DiaryInv, NEW r \in Requests, At(r, "patch", "write"), Go(r, "ok"), Ok,
         req[r].diary \in DOMAIN diaries,
         Update(req[r].diary, Patched(r, diaries[req[r].diary].photos)),
         UNCHANGED <<remote, issued, stored>>
  PROVE  DiaryInv'
<1> DEFINE d == req[r].diary
           row == Patched(r, diaries[d].photos)
<1>1. /\ TypeOK /\ req \in [Requests -> Request] /\ req[r].op = "patch"
      /\ req[r].pc = "write" /\ req[r].pc \in Working
      /\ req[r].removed = {} /\ r \notin stored
  BY DEF DiaryInv, TypeOK, At, Working, Locals, LocalOK, Placed
<1>2. /\ \A x \in Requests : Fixed(x)
      /\ \A x \in Requests : x # r => req'[x] = req[x]
      /\ req'[r].pc = "ok"
      /\ Locals'
      /\ \A x \in Requests : Handled(x)' = Handled(x) /\ r \notin Handled(x)
      /\ \A x \in Requests : /\ req'[x].removed = req[x].removed
                             /\ req'[x].kept = req[x].kept
      /\ \A f \in Files : Settled(f) => Settled(f)' /\ f # r
      /\ req' \in [Requests -> Request]
  BY <1>1, MovedLocals
<1>3. /\ DOMAIN diaries' = DOMAIN diaries /\ diaries'[d] = row
      /\ \A e \in DOMAIN diaries : e # d => diaries'[e] = diaries[e]
  BY DEF Update
<1>4. row \in Row /\ row.photos = diaries[d].photos
  <2>1. req[r].row \in Row /\ diaries[d] \in Row
    BY <1>1 DEF Request, TypeOK
  <2> QED
    BY <2>1 DEF Row, Patched, Writers
<1> HIDE DEF row
<1>5. /\ \A e \in DOMAIN diaries : diaries'[e].photos = diaries[e].photos
      /\ Shown' = Shown
      /\ \A e \in DOMAIN diaries : diaries[e].photos \subseteq Files
      /\ \A x \in Requests : Handled(x) \subseteq Files
  BY <1>1, <1>3, <1>4 DEF Shown, TypeOK, Row, Handled, Request
<1>6. TypeOK'
  <2>1. \A x \in InFlight' : x \in InFlight /\ req'[x] = req[x]
    BY <1>2 DEF InFlight, Working
  <2>2. \A e \in DOMAIN diaries' : diaries'[e] \in Row
    BY <1>1, <1>3, <1>4 DEF TypeOK
  <2> QED
    BY <2>1, <2>2, <1>1, <1>2, <1>3, <1>5 DEF TypeOK, Ok
<1>7. Placed'
  BY <1>1, <1>2, <1>3, <1>5 DEF DiaryInv, Placed, Fixed
<1>8. Removed'
  BY <1>2, <1>3, <1>5 DEF DiaryInv, Removed, Fixed
<1>9. Deleting'
  BY <1>1, <1>2, <1>3, <1>5 DEF DiaryInv, Deleting, Fixed
<1>10. ShownIsStored'
  BY <1>1, <1>2, <1>3, <1>5 DEF DiaryInv, ShownIsStored, Fixed
<1>11. ASSUME NEW f \in stored' \ Shown' PROVE Unshown(f)'
  BY <1>1, <1>2, <1>5, FixedLocals DEF DiaryInv, Unshown, Fixed
<1>12. \A x \in Requests : UploadKept(x)'
  BY <1>1, <1>2, <1>5 DEF DiaryInv, UploadKept, Fixed
<1>13. ASSUME NEW x \in Requests PROVE PatchKept(x)'
  <2> SUFFICES ASSUME req'[x].op = "patch", req'[x].pc = "ok",
                      req'[x].diary \in DOMAIN diaries', NEW field \in req'[x].fields,
                      diaries'[req'[x].diary][field] # x
               PROVE  \E q \in Requests : Excuse(q, x, field)'
    BY DEF PatchKept
  <2>1. /\ req[x].op = "patch" /\ req'[x].diary = req[x].diary
        /\ req[x].diary \in DOMAIN diaries
        /\ field \in req[x].fields /\ req'[x].fields = req[x].fields
        /\ \A q \in Requests : Excuse(q, x, field) <=> Excuse(q, x, field)'
        /\ req[x].fields \subseteq Fields
    BY <1>1, <1>2, <1>3, FixedLocals DEF Fixed, Request
  <2>2. CASE req[x].diary # d
    BY <2>1, <2>2, <1>2, <1>3 DEF DiaryInv, PatchKept
  <2>3. CASE req[x].diary = d /\ x = r
    BY <2>1, <2>3, <1>3 DEF row, Patched, Fields
  <2>4. CASE req[x].diary = d /\ x # r
    <3>1. r \notin req[x].before
      BY <1>1 DEF DiaryInv, Locals, LocalOK, Working, Answered
    <3>2. CASE field \in req[r].fields
      <4>1. Excuse(r, x, field)
        BY <2>1, <2>4, <3>1, <3>2, <1>1 DEF Excuse
      <4> QED
        BY <2>1, <4>1
    <3>3. CASE x \notin req[r].before
      <4>1. Excuse(r, x, field)
        BY <2>1, <2>4, <3>1, <3>3, <1>1 DEF Excuse, Overlap
      <4> QED
        BY <2>1, <4>1
    <3>4. CASE field \notin req[r].fields /\ x \in req[r].before
      <4>1. diaries'[d][field] = req[r].row[field]
        BY <2>1, <3>4, <1>3 DEF row, Patched, Fields
      <4>2. req[x].pc = "ok"
        BY <2>4, <1>2
      <4> QED
        BY <2>1, <2>4, <3>4, <4>1, <4>2, <1>1 DEF DiaryInv, Copied
    <3> QED
      BY <3>2, <3>3, <3>4
  <2> QED
    BY <2>2, <2>3, <2>4
<1>14. Copied'
  <2> SUFFICES ASSUME NEW q \in Requests, NEW x \in Requests,
                      req'[q].op = "patch", req'[q].pc = "write", x \in req'[q].before,
                      req'[x].op = "patch", req'[x].pc = "ok", req'[x].diary = req'[q].diary,
                      NEW field \in req'[x].fields
               PROVE  req'[q].row[field] = x \/ \E p \in Requests : Excuse(p, x, field)'
    BY DEF Copied
  <2>1. q # r /\ req'[q] = req[q] /\ x # r /\ req'[x] = req[x]
    BY <1>1, <1>2 DEF DiaryInv, Locals, LocalOK, Answered
  <2> QED
    BY <2>1, <1>2, FixedLocals DEF DiaryInv, Copied
<1> QED
  BY <1>2, <1>6, <1>7, <1>8, <1>9, <1>10, <1>11, <1>12, <1>13, <1>14 DEF DiaryInv

\* A file is added to its diary once, when it is stored and nobody knows of it.
LEMMA AddKeeps ==
  ASSUME DiaryInv, NEW r \in Requests, At(r, "upload", "add"), Go(r, "ok"), Ok,
         req[r].diary \in DOMAIN diaries,
         Update(req[r].diary,
                [diaries[req[r].diary] EXCEPT !.photos = @ \cup {r}]),
         UNCHANGED <<remote, issued, stored>>
  PROVE  DiaryInv'
<1> DEFINE d == req[r].diary
           row == [diaries[d] EXCEPT !.photos = @ \cup {r}]
<1>1. /\ TypeOK /\ req \in [Requests -> Request] /\ req[r].op = "upload"
      /\ req[r].pc = "add" /\ req[r].pc \in Working
      /\ req[r].removed = {} /\ r \in stored
  BY DEF DiaryInv, TypeOK, At, Working, Locals, LocalOK, Placed
<1>2. /\ \A x \in Requests : Fixed(x)
      /\ \A x \in Requests : x # r => req'[x] = req[x]
      /\ req'[r].pc = "ok"
      /\ Locals'
      /\ \A x \in Requests : Handled(x)' = Handled(x) /\ r \notin Handled(x)
      /\ \A x \in Requests : /\ req'[x].removed = req[x].removed
                             /\ req'[x].kept = req[x].kept
      /\ \A f \in Files : Settled(f) => Settled(f)' /\ f # r
      /\ req' \in [Requests -> Request]
  BY <1>1, MovedLocals
<1>3. /\ DOMAIN diaries' = DOMAIN diaries /\ diaries'[d] = row
      /\ \A e \in DOMAIN diaries : e # d => diaries'[e] = diaries[e]
  BY DEF Update
<1>4. /\ diaries[d] \in Row /\ row \in Row /\ row.photos = diaries[d].photos \cup {r}
      /\ row.content = diaries[d].content /\ row.mood = diaries[d].mood
      /\ row["content"] = row.content /\ row["mood"] = row.mood
  <2>1. diaries[d] \in Row /\ r \in Files
    BY <1>1 DEF TypeOK, Files
  <2> QED
    BY <2>1 DEF Row
<1> HIDE DEF row
<1>5. /\ \A e \in DOMAIN diaries : /\ diaries[e].photos \subseteq diaries'[e].photos
                                   /\ diaries[e].photos \subseteq Files
                                   /\ r \notin diaries[e].photos
                                   /\ e # d => diaries'[e].photos = diaries[e].photos
      /\ diaries'[d].photos = diaries[d].photos \cup {r}
      /\ Shown' = Shown \cup {r}
      /\ \A x \in Requests : Handled(x) \subseteq Files
  <2>1. \A e \in DOMAIN diaries : diaries[e].photos \subseteq Files /\ r \notin diaries[e].photos
    BY <1>1, <1>2 DEF TypeOK, Row, DiaryInv, Placed
  <2>2. \A x \in Requests : Handled(x) \subseteq Files
    BY <1>1 DEF Handled, Request
  <2>3. Shown' = Shown \cup {r}
    BY <1>3, <1>4 DEF Shown
  <2> QED
    BY <2>1, <2>2, <2>3, <1>3, <1>4
<1>6. TypeOK'
  <2>1. \A x \in InFlight' : x \in InFlight /\ req'[x] = req[x]
    BY <1>2 DEF InFlight, Working
  <2>2. \A e \in DOMAIN diaries' : diaries'[e] \in Row
    BY <1>1, <1>3, <1>4 DEF TypeOK
  <2>3. \A e, g \in DOMAIN diaries' :
          e # g => diaries'[e].photos \cap diaries'[g].photos = {}
    BY <1>1, <1>3, <1>5 DEF TypeOK
  <2> QED
    BY <2>1, <2>2, <2>3, <1>1, <1>2, <1>3 DEF TypeOK, Ok
<1>7. Placed'
  <2>1. ASSUME NEW e \in DOMAIN diaries', NEW f \in diaries'[e].photos
        PROVE  Settled(f)' /\ (f \in Requests => req'[f].diary = e)
    <3>1. CASE f = r
      BY <3>1, <1>1, <1>2, <1>3, <1>5 DEF Settled, Fixed
    <3>2. CASE f # r
      <4>1. e \in DOMAIN diaries /\ f \in diaries[e].photos /\ f \in Files
        BY <3>2, <1>3, <1>5
      <4> QED
        BY <4>1, <1>2 DEF DiaryInv, Placed, Fixed
    <3> QED
      BY <3>1, <3>2
  <2>2. \A x \in Requests : \A f \in Handled(x)' : Settled(f)'
    BY <1>2, <1>5 DEF DiaryInv, Placed
  <2>3. \A x \in Requests : req'[x].op = "upload" /\ req'[x].pc = "add" => x \in stored'
    BY <1>2 DEF DiaryInv, Placed
  <2>4. \A x \in Requests : x \in stored' =>
          req'[x].op = "upload" /\ req'[x].pc \notin {"idle", "file"}
    BY <1>2 DEF DiaryInv, Placed, Fixed
  <2> QED
    BY <2>1, <2>2, <2>3, <2>4 DEF Placed
<1>8. Removed'
  <2>1. \A x \in Requests : req'[x].removed \cap stored' = {}
    BY <1>2 DEF DiaryInv, Removed
  <2>2. \A x \in Requests, e \in DOMAIN diaries :
          diaries'[e].photos \cap Handled(x)' = diaries[e].photos \cap Handled(x)
    BY <1>2, <1>3, <1>5
  <2> QED
    BY <2>1, <2>2, <1>2, <1>3 DEF DiaryInv, Removed, Fixed
<1>9. Deleting'
  <2> SUFFICES ASSUME NEW x \in Requests,
                      req'[x].op = "delete", req'[x].pc \in {"remove", "delete"},
                      req'[x].diary \in DOMAIN diaries',
                      NEW f \in diaries'[req'[x].diary].photos \ Handled(x)'
               PROVE  f \in Requests /\ f \notin req'[x].before
    BY DEF Deleting
  <2>1. CASE f = r
    BY <2>1, <1>1, <1>2 DEF DiaryInv, Locals, LocalOK, Working, Answered, Fixed
  <2>2. CASE f # r
    BY <2>2, <1>1, <1>2, <1>3, <1>5 DEF DiaryInv, Deleting, Fixed
  <2> QED
    BY <2>1, <2>2
<1>10. ShownIsStored'
  <2> SUFFICES ASSUME NEW e \in DOMAIN diaries', NEW f \in diaries'[e].photos \ stored'
               PROVE  \E x \in Requests :
                        /\ f \in req'[x].removed
                        /\ \/ req'[x].pc # "ok"
                           \/ req'[x].op = "unlink" /\ req'[x].diary # e
    BY DEF ShownIsStored
  <2>1. e \in DOMAIN diaries /\ f \in diaries[e].photos \ stored
    BY <1>1, <1>3, <1>5
  <2> QED
    BY <2>1, <1>1, <1>2 DEF DiaryInv, ShownIsStored, Fixed
<1>11. ASSUME NEW f \in stored' \ Shown' PROVE Unshown(f)'
  BY <1>1, <1>2, <1>5, FixedLocals DEF DiaryInv, Unshown, Fixed
<1>12. \A x \in Requests : UploadKept(x)'
  BY <1>1, <1>2, <1>5 DEF DiaryInv, UploadKept, Fixed
<1>13. ASSUME NEW x \in Requests PROVE PatchKept(x)'
  <2>1. \A e \in DOMAIN diaries : \A field \in Fields : diaries'[e][field] = diaries[e][field]
    BY <1>3, <1>4 DEF Fields
  <2>2. req[x].fields \subseteq Fields
    BY <1>1 DEF Request
  <2> QED
    BY <2>1, <2>2, <1>1, <1>2, <1>3, FixedLocals DEF DiaryInv, PatchKept, Fixed
<1>14. Copied'
  BY <1>1, <1>2, FixedLocals DEF DiaryInv, Copied, Fixed
<1> QED
  BY <1>2, <1>6, <1>7, <1>8, <1>9, <1>10, <1>11, <1>12, <1>13, <1>14 DEF DiaryInv

\* The file that leaves a list was removed before, or could not be.
LEMMA UnlinkKeeps ==
  ASSUME DiaryInv, NEW r \in Requests, At(r, "unlink", "row"), Go(r, "ok"), Ok,
         req[r].diary \in DOMAIN diaries,
         Update(req[r].diary,
                [diaries[req[r].diary] EXCEPT !.photos = @ \ {req[r].file}]),
         UNCHANGED <<remote, issued, stored>>
  PROVE  DiaryInv'
<1> DEFINE d == req[r].diary
           g == req[r].file
           row == [diaries[d] EXCEPT !.photos = @ \ {g}]
<1>1. /\ TypeOK /\ req \in [Requests -> Request] /\ req[r].op = "unlink"
      /\ req[r].pc = "row" /\ req[r].pc \in Working
      /\ req[r].removed \cup req[r].kept = {g} /\ r \notin stored
  BY DEF DiaryInv, TypeOK, At, Working, Locals, LocalOK, Placed
<1>2. /\ \A x \in Requests : Fixed(x)
      /\ \A x \in Requests : x # r => req'[x] = req[x]
      /\ req'[r].pc = "ok"
      /\ Locals'
      /\ \A x \in Requests : Handled(x)' = Handled(x) /\ r \notin Handled(x)
      /\ \A x \in Requests : /\ req'[x].removed = req[x].removed
                             /\ req'[x].kept = req[x].kept
      /\ \A f \in Files : Settled(f) => Settled(f)' /\ f # r
      /\ req' \in [Requests -> Request]
  BY <1>1, MovedLocals
<1>3. /\ DOMAIN diaries' = DOMAIN diaries /\ diaries'[d] = row
      /\ \A e \in DOMAIN diaries : e # d => diaries'[e] = diaries[e]
  BY DEF Update
<1>4. /\ diaries[d] \in Row /\ row \in Row /\ row.photos = diaries[d].photos \ {g}
      /\ row.content = diaries[d].content /\ row.mood = diaries[d].mood
      /\ row["content"] = row.content /\ row["mood"] = row.mood
  <2>1. diaries[d] \in Row
    BY <1>1 DEF TypeOK
  <2> QED
    BY <2>1 DEF Row
<1> HIDE DEF row
<1>5. /\ \A e \in DOMAIN diaries : /\ diaries'[e].photos \subseteq diaries[e].photos
                                   /\ diaries[e].photos \subseteq Files
                                   /\ e # d => diaries'[e].photos = diaries[e].photos
      /\ diaries'[d].photos = diaries[d].photos \ {g}
      /\ Shown \subseteq Shown' \cup {g}
      /\ \A x \in Requests : Handled(x) \subseteq Files
  <2>1. \A e \in DOMAIN diaries : diaries[e].photos \subseteq Files
    BY <1>1, <1>2 DEF TypeOK, Row
  <2>2. \A x \in Requests : Handled(x) \subseteq Files
    BY <1>1 DEF Handled, Request
  <2>3. Shown \subseteq Shown' \cup {g}
    BY <1>3, <1>4 DEF Shown
  <2> QED
    BY <2>1, <2>2, <2>3, <1>3, <1>4
<1>6. TypeOK'
  <2>1. \A x \in InFlight' : x \in InFlight /\ req'[x] = req[x]
    BY <1>2 DEF InFlight, Working
  <2>2. \A e \in DOMAIN diaries' : diaries'[e] \in Row
    BY <1>1, <1>3, <1>4 DEF TypeOK
  <2>3. \A e, h \in DOMAIN diaries' :
          e # h => diaries'[e].photos \cap diaries'[h].photos = {}
    BY <1>1, <1>3, <1>5 DEF TypeOK
  <2> QED
    BY <2>1, <2>2, <2>3, <1>1, <1>2, <1>3 DEF TypeOK, Ok
<1>7. Placed'
  <2>1. ASSUME NEW e \in DOMAIN diaries', NEW f \in diaries'[e].photos
        PROVE  Settled(f)' /\ (f \in Requests => req'[f].diary = e)
    <3>1. e \in DOMAIN diaries /\ f \in diaries[e].photos /\ f \in Files
      BY <1>3, <1>5
    <3> QED
      BY <3>1, <1>2 DEF DiaryInv, Placed, Fixed
  <2>2. \A x \in Requests : \A f \in Handled(x)' : Settled(f)'
    BY <1>2, <1>5 DEF DiaryInv, Placed
  <2>3. \A x \in Requests : req'[x].op = "upload" /\ req'[x].pc = "add" => x \in stored'
    BY <1>2 DEF DiaryInv, Placed
  <2>4. \A x \in Requests : x \in stored' =>
          req'[x].op = "upload" /\ req'[x].pc \notin {"idle", "file"}
    BY <1>2 DEF DiaryInv, Placed, Fixed
  <2> QED
    BY <2>1, <2>2, <2>3, <2>4 DEF Placed
<1>8. Removed'
  <2>1. \A x \in Requests : req'[x].removed \cap stored' = {}
    BY <1>2 DEF DiaryInv, Removed
  <2>2. ASSUME NEW x \in Requests, req'[x].op = "delete", NEW e \in DOMAIN diaries',
               diaries'[e].photos \cap Handled(x)' # {}
        PROVE  e = req'[x].diary
    <3>1. e \in DOMAIN diaries /\ diaries[e].photos \cap Handled(x) # {}
      BY <2>2, <1>2, <1>3, <1>5
    <3> QED
      BY <2>2, <3>1, <1>2 DEF DiaryInv, Removed, Fixed
  <2> QED
    BY <2>1, <2>2 DEF Removed
<1>9. Deleting'
  <2> SUFFICES ASSUME NEW x \in Requests,
                      req'[x].op = "delete", req'[x].pc \in {"remove", "delete"},
                      req'[x].diary \in DOMAIN diaries',
                      NEW f \in diaries'[req'[x].diary].photos \ Handled(x)'
               PROVE  f \in Requests /\ f \notin req'[x].before
    BY DEF Deleting
  <2> QED
    BY <1>1, <1>2, <1>3, <1>5 DEF DiaryInv, Deleting, Fixed
<1>10. ShownIsStored'
  <2> SUFFICES ASSUME NEW e \in DOMAIN diaries', NEW f \in diaries'[e].photos \ stored'
               PROVE  \E x \in Requests :
                        /\ f \in req'[x].removed
                        /\ \/ req'[x].pc # "ok"
                           \/ req'[x].op = "unlink" /\ req'[x].diary # e
    BY DEF ShownIsStored
  <2>1. e \in DOMAIN diaries /\ f \in diaries[e].photos \ stored
    BY <1>1, <1>3, <1>5
  <2>2. PICK x \in Requests :
          /\ f \in req[x].removed
          /\ \/ req[x].pc # "ok"
             \/ req[x].op = "unlink" /\ req[x].diary # e
    BY <2>1 DEF DiaryInv, ShownIsStored
  <2>3. CASE x = r
    <3>1. f = g /\ e # d
      BY <2>2, <2>3, <1>1, <1>5
    <3> QED
      BY <2>2, <2>3, <3>1, <1>1, <1>2 DEF Fixed
  <2>4. CASE x # r
    BY <2>2, <2>4, <1>2
  <2> QED
    BY <2>3, <2>4
<1>11. ASSUME NEW f \in stored' \ Shown' PROVE Unshown(f)'
  <2>1. CASE f \in Shown
    <3>1. f = g /\ f \notin req[r].removed
      BY <2>1, <1>5 DEF DiaryInv, Removed
    <3> QED
      BY <3>1, <1>1, <1>2 DEF Unshown
  <2>2. CASE f \notin Shown
    BY <2>2, <1>1, <1>2, FixedLocals DEF DiaryInv, Unshown, Fixed
  <2> QED
    BY <2>1, <2>2
<1>12. ASSUME NEW x \in Requests PROVE UploadKept(x)'
  <2>1. CASE x \in Shown /\ x \notin Shown'
    <3>1. x = g
      BY <2>1, <1>5
    <3>2. r \notin req[x].before
      BY <1>1 DEF DiaryInv, Locals, LocalOK, Working, Answered
    <3>3. req'[r].op = "unlink" /\ req'[r].file = g /\ req'[x].before = req[x].before
      BY <1>1, <1>2 DEF Fixed
    <3> QED
      BY <3>1, <3>2, <3>3 DEF UploadKept
  <2>2. CASE ~(x \in Shown /\ x \notin Shown')
    BY <2>2, <1>1, <1>2 DEF DiaryInv, UploadKept, Fixed
  <2> QED
    BY <2>1, <2>2
<1>13. ASSUME NEW x \in Requests PROVE PatchKept(x)'
  <2>1. \A e \in DOMAIN diaries : \A field \in Fields : diaries'[e][field] = diaries[e][field]
    BY <1>3, <1>4 DEF Fields
  <2>2. req[x].fields \subseteq Fields
    BY <1>1 DEF Request
  <2> QED
    BY <2>1, <2>2, <1>1, <1>2, <1>3, FixedLocals DEF DiaryInv, PatchKept, Fixed
<1>14. Copied'
  BY <1>1, <1>2, FixedLocals DEF DiaryInv, Copied, Fixed
<1> QED
  BY <1>2, <1>6, <1>7, <1>8, <1>9, <1>10, <1>11, <1>12, <1>13, <1>14 DEF DiaryInv

\* When a row goes, its files are removed, kept after an error, or were added
\* while the delete was under way.
LEMMA DeleteRowKeeps ==
  ASSUME DiaryInv, NEW r \in Requests, At(r, "delete", "delete"), Go(r, "ok"), Ok,
         req[r].diary \in DOMAIN diaries,
         diaries' = [e \in DOMAIN diaries \ {req[r].diary} |-> diaries[e]],
         UNCHANGED <<remote, issued, stored>>
  PROVE  DiaryInv'
<1> DEFINE d == req[r].diary
<1>1. /\ TypeOK /\ req \in [Requests -> Request] /\ req[r].op = "delete"
      /\ req[r].pc = "delete" /\ req[r].pc \in Working /\ r \in InFlight
      /\ r \notin stored
  BY DEF DiaryInv, TypeOK, At, Working, InFlight, Locals, LocalOK, Placed
<1>2. /\ \A x \in Requests : Fixed(x)
      /\ \A x \in Requests : x # r => req'[x] = req[x]
      /\ req'[r].pc = "ok"
      /\ Locals'
      /\ \A x \in Requests : Handled(x)' = Handled(x) /\ r \notin Handled(x)
      /\ \A x \in Requests : /\ req'[x].removed = req[x].removed
                             /\ req'[x].kept = req[x].kept
      /\ \A f \in Files : Settled(f) => Settled(f)' /\ f # r
      /\ req' \in [Requests -> Request]
  BY <1>1, MovedLocals
<1>3. /\ DOMAIN diaries' = DOMAIN diaries \ {d}
      /\ \A e \in DOMAIN diaries' : diaries'[e] = diaries[e]
      /\ Shown \subseteq Shown' \cup diaries[d].photos
  BY DEF Shown
<1>4. /\ req[r].todo = {}
      /\ \A e \in DOMAIN diaries : diaries[e].photos \subseteq Files
      /\ \A x \in Requests : Handled(x) \subseteq Files
  <2>1. req[r].todo = {}
    BY <1>1 DEF TypeOK
  <2> QED
    BY <2>1, <1>1 DEF TypeOK, Row, Handled, Request
<1>5. TypeOK'
  <2>1. \A x \in InFlight' : x \in InFlight /\ req'[x] = req[x]
    BY <1>2 DEF InFlight, Working
  <2> QED
    BY <2>1, <1>1, <1>2, <1>3 DEF TypeOK, Ok
<1>6. Placed'
  BY <1>1, <1>2, <1>3, <1>4 DEF DiaryInv, Placed, Fixed
<1>7. Removed'
  <2>1. \A x \in Requests : req'[x].removed \cap stored' = {}
    BY <1>2 DEF DiaryInv, Removed
  <2>2. ASSUME NEW x \in Requests, req'[x].op = "delete", NEW e \in DOMAIN diaries',
               diaries'[e].photos \cap Handled(x)' # {}
        PROVE  e = req'[x].diary
    <3>1. e \in DOMAIN diaries /\ diaries[e].photos \cap Handled(x) # {}
      BY <2>2, <1>2, <1>3
    <3> QED
      BY <2>2, <3>1, <1>2 DEF DiaryInv, Removed, Fixed
  <2> QED
    BY <2>1, <2>2 DEF Removed
<1>8. Deleting'
  BY <1>1, <1>2, <1>3 DEF DiaryInv, Deleting, Fixed
<1>9. ShownIsStored'
  <2> SUFFICES ASSUME NEW e \in DOMAIN diaries', NEW f \in diaries'[e].photos \ stored'
               PROVE  \E x \in Requests :
                        /\ f \in req'[x].removed
                        /\ \/ req'[x].pc # "ok"
                           \/ req'[x].op = "unlink" /\ req'[x].diary # e
    BY DEF ShownIsStored
  <2>1. e \in DOMAIN diaries /\ e # d /\ f \in diaries[e].photos \ stored
    BY <1>3
  <2>2. PICK x \in Requests :
          /\ f \in req[x].removed
          /\ \/ req[x].pc # "ok"
             \/ req[x].op = "unlink" /\ req[x].diary # e
    BY <2>1 DEF DiaryInv, ShownIsStored
  <2>3. x # r
    BY <2>1, <2>2, <1>1 DEF DiaryInv, Removed, Handled
  <2> QED
    BY <2>2, <2>3, <1>2
<1>10. ASSUME NEW f \in stored' \ Shown' PROVE Unshown(f)'
  <2>1. CASE f \in diaries[d].photos
    <3>1. CASE f \in Handled(r)
      <4>1. f \in req[r].kept
        BY <3>1, <1>4 DEF Handled, DiaryInv, Removed
      <4> QED
        BY <4>1, <1>2 DEF Unshown
    <3>2. CASE f \notin Handled(r)
      <4>1. f \in Requests /\ f \notin req[r].before /\ req[f].diary = d
        BY <2>1, <3>2, <1>1 DEF DiaryInv, Deleting, Placed
      <4>2. r \notin req[f].before
        BY <4>1, <1>1 DEF DiaryInv, Locals, LocalOK, Working, Answered
      <4>3. Overlap(f, r)'
        BY <4>1, <4>2, FixedLocals, <1>2 DEF Overlap
      <4> QED
        BY <4>1, <4>3, <1>1, <1>2 DEF Unshown, Fixed
    <3> QED
      BY <3>1, <3>2
  <2>2. CASE f \notin diaries[d].photos
    BY <2>2, <1>1, <1>2, <1>3, FixedLocals DEF DiaryInv, Unshown, Fixed
  <2> QED
    BY <2>1, <2>2
<1>11. ASSUME NEW x \in Requests PROVE UploadKept(x)'
  <2>1. CASE x \in Shown /\ x \notin Shown'
    <3>1. x \in diaries[d].photos /\ req[x].diary = d
      BY <2>1, <1>3 DEF DiaryInv, Placed
    <3>2. r \notin req[x].before
      BY <1>1 DEF DiaryInv, Locals, LocalOK, Working, Answered
    <3>3. /\ req'[r].op = "delete" /\ req'[r].diary = d
          /\ req'[x].before = req[x].before /\ req'[x].diary = req[x].diary
      BY <1>1, <1>2 DEF Fixed
    <3> QED
      BY <3>1, <3>2, <3>3 DEF UploadKept
  <2>2. CASE ~(x \in Shown /\ x \notin Shown')
    BY <2>2, <1>1, <1>2 DEF DiaryInv, UploadKept, Fixed
  <2> QED
    BY <2>1, <2>2
<1>12. \A x \in Requests : PatchKept(x)'
  BY <1>1, <1>2, <1>3, FixedLocals DEF DiaryInv, PatchKept, Fixed
<1>13. Copied'
  BY <1>1, <1>2, FixedLocals DEF DiaryInv, Copied, Fixed
<1> QED
  BY <1>2, <1>5, <1>6, <1>7, <1>8, <1>9, <1>10, <1>11, <1>12, <1>13 DEF DiaryInv

\* A stored file waits to be added, unknown to everybody.
LEMMA UploadKeeps ==
  ASSUME DiaryInv, NEW r \in Requests, At(r, "upload", "file"), Go(r, "add"), Ok,
         stored' = stored \cup {r}, UNCHANGED <<remote, diaries, issued>>
  PROVE  DiaryInv'
<1>1. /\ TypeOK /\ req \in [Requests -> Request] /\ req[r].op = "upload"
      /\ req[r].pc = "file" /\ req[r].pc \in Working /\ req[r].todo = {}
      /\ r \in Files
  BY DEF DiaryInv, TypeOK, At, Working, Locals, LocalOK, Files
<1>2. /\ \A x \in Requests : Fixed(x)
      /\ \A x \in Requests : x # r => req'[x] = req[x]
      /\ req'[r].pc = "add"
      /\ Locals'
      /\ \A x \in Requests : Handled(x)' = Handled(x) /\ r \notin Handled(x)
      /\ \A x \in Requests : /\ req'[x].removed = req[x].removed
                             /\ req'[x].kept = req[x].kept
                             /\ req'[x].todo = req[x].todo
      /\ \A f \in Files : Settled(f) => Settled(f)' /\ f # r
      /\ req' \in [Requests -> Request]
  BY <1>1, MovedLocals
<1>3. /\ \A e \in DOMAIN diaries : diaries[e].photos \subseteq Files
      /\ \A x \in Requests : Handled(x) \subseteq Files
  BY <1>1 DEF TypeOK, Row, Handled, Request
<1>4. TypeOK'
  <2>1. ASSUME NEW x \in InFlight' PROVE req'[x].pc = "remove" <=> req'[x].todo # {}
    <3>1. CASE x = r
      BY <3>1, <1>1, <1>2
    <3>2. CASE x # r
      BY <3>2, <1>1, <1>2 DEF TypeOK, InFlight
    <3> QED
      BY <3>1, <3>2
  <2> QED
    BY <2>1, <1>1, <1>2 DEF TypeOK, Ok
<1>5. Placed'
  <2>1. \A d \in DOMAIN diaries : \A f \in diaries[d].photos :
          Settled(f)' /\ (f \in Requests => req'[f].diary = d)
    BY <1>2, <1>3 DEF DiaryInv, Placed, Fixed
  <2>2. \A x \in Requests : \A f \in Handled(x)' : Settled(f)'
    BY <1>2, <1>3 DEF DiaryInv, Placed
  <2>3. \A x \in Requests : req'[x].op = "upload" /\ req'[x].pc = "add" => x \in stored'
    BY <1>2 DEF DiaryInv, Placed
  <2>4. \A x \in Requests : x \in stored' =>
          req'[x].op = "upload" /\ req'[x].pc \notin {"idle", "file"}
    BY <1>1, <1>2 DEF DiaryInv, Placed, Fixed
  <2> QED
    BY <2>1, <2>2, <2>3, <2>4 DEF Placed
<1>6. Removed'
  BY <1>2 DEF DiaryInv, Removed, Fixed, Handled
<1>7. Deleting'
  BY <1>1, <1>2 DEF DiaryInv, Deleting, Fixed
<1>8. ShownIsStored'
  BY <1>1, <1>2 DEF DiaryInv, ShownIsStored, Fixed
<1>9. ASSUME NEW f \in stored' \ Shown' PROVE Unshown(f)'
  <2>1. CASE f = r
    BY <2>1, <1>2 DEF Unshown
  <2>2. CASE f # r
    <3>1. f \in stored \ Shown
      BY <2>2 DEF Shown
    <3> QED
      BY <3>1, <2>2, <1>2, FixedLocals DEF DiaryInv, Unshown, Fixed
  <2> QED
    BY <2>1, <2>2
<1>10. \A x \in Requests : UploadKept(x)' /\ PatchKept(x)'
  BY <1>1, <1>2, FixedLocals DEF DiaryInv, UploadKept, PatchKept, Shown, Fixed
<1>11. Copied'
  BY <1>1, <1>2, FixedLocals DEF DiaryInv, Copied, Fixed
<1> QED
  BY <1>2, <1>4, <1>5, <1>6, <1>7, <1>8, <1>9, <1>10, <1>11 DEF DiaryInv

\* What the removal of a file changes in the request that removes it.
LEMMA RemoveFields ==
  ASSUME req \in [Requests -> Request], NEW r \in Requests, NEW f \in Files,
         RemoveFile(r, f)
  PROVE  /\ req' \in [Requests -> Request]
         /\ \A x \in Requests : x # r => req'[x] = req[x]
         /\ req'[r].op = req[r].op /\ req'[r].diary = req[r].diary
         /\ req'[r].file = req[r].file /\ req'[r].fields = req[r].fields
         /\ req'[r].before = req[r].before
         /\ req'[r].todo = req[r].todo \ {f}
         /\ req'[r].pc = AfterRemove(req[r].todo \ {f})
         /\ \/ /\ stored' = stored \ {f} /\ (Ok \/ Fault)
               /\ req'[r].removed = req[r].removed \cup {f} /\ req'[r].kept = req[r].kept
            \/ /\ UNCHANGED stored /\ Fault
               /\ req'[r].removed = req[r].removed /\ req'[r].kept = req[r].kept \cup {f}
<1> DEFINE todo == req[r].todo \ {f}
           pc == AfterRemove(todo)
           f1 == [req EXCEPT ![r].pc = pc]
           f2 == [f1 EXCEPT ![r].todo = todo]
           f3 == [f2 EXCEPT ![r].removed = @ \cup {f}]
           f4 == [f2 EXCEPT ![r].kept = @ \cup {f}]
<1>1. pc \in {"remove", "delete"} /\ todo \in SUBSET Files
      /\ req[r].removed \in SUBSET Files /\ req[r].kept \in SUBSET Files
  BY DEF AfterRemove, Request
<1>2. \/ req' = f3 /\ stored' = stored \ {f} /\ (Ok \/ Fault)
      \/ req' = f4 /\ UNCHANGED stored /\ Fault
  BY Zenon DEF RemoveFile
<1> HIDE DEF pc, todo
<1>3. /\ f1 \in [Requests -> Request] /\ f1[r].pc = pc
      /\ f1[r].op = req[r].op /\ f1[r].diary = req[r].diary
      /\ f1[r].file = req[r].file /\ f1[r].fields = req[r].fields
      /\ f1[r].before = req[r].before
      /\ f1[r].removed = req[r].removed /\ f1[r].kept = req[r].kept
      /\ \A x \in Requests : x # r => f1[x] = req[x]
  BY <1>1 DEF Request, Working
<1> HIDE DEF f1
<1>4. /\ f2 \in [Requests -> Request] /\ f2[r].pc = pc /\ f2[r].todo = todo
      /\ f2[r].op = req[r].op /\ f2[r].diary = req[r].diary
      /\ f2[r].file = req[r].file /\ f2[r].fields = req[r].fields
      /\ f2[r].before = req[r].before
      /\ f2[r].removed = req[r].removed /\ f2[r].kept = req[r].kept
      /\ \A x \in Requests : x # r => f2[x] = req[x]
  BY <1>1, <1>3 DEF Request
<1> HIDE DEF f2
<1>5. /\ f3 \in [Requests -> Request] /\ f3[r].pc = pc /\ f3[r].todo = todo
      /\ f3[r].op = req[r].op /\ f3[r].diary = req[r].diary
      /\ f3[r].file = req[r].file /\ f3[r].fields = req[r].fields
      /\ f3[r].before = req[r].before
      /\ f3[r].removed = req[r].removed \cup {f} /\ f3[r].kept = req[r].kept
      /\ \A x \in Requests : x # r => f3[x] = req[x]
  BY <1>1, <1>4 DEF Request
<1>6. /\ f4 \in [Requests -> Request] /\ f4[r].pc = pc /\ f4[r].todo = todo
      /\ f4[r].op = req[r].op /\ f4[r].diary = req[r].diary
      /\ f4[r].file = req[r].file /\ f4[r].fields = req[r].fields
      /\ f4[r].before = req[r].before
      /\ f4[r].removed = req[r].removed /\ f4[r].kept = req[r].kept \cup {f}
      /\ \A x \in Requests : x # r => f4[x] = req[x]
  BY <1>1, <1>4 DEF Request
<1> HIDE DEF f3, f4
<1> QED
  BY <1>2, <1>5, <1>6 DEF pc, todo

\* A delete removes only files of its own diary, which it still shows, and
\* notes which were removed.
LEMMA RemoveKeeps ==
  ASSUME DiaryInv, NEW r \in Requests, NEW f \in Files, RemoveFile(r, f)
  PROVE  DiaryInv'
<1>1. /\ TypeOK /\ req \in [Requests -> Request] /\ req[r].op = "delete"
      /\ req[r].pc = "remove" /\ req[r].pc \in Working /\ f \in req[r].todo
      /\ r \notin stored /\ UNCHANGED <<remote, diaries, issued>>
      /\ Settled(f)
  BY DEF DiaryInv, TypeOK, RemoveFile, At, Working, Locals, LocalOK, Placed, Handled
<1>2. /\ req' \in [Requests -> Request]
      /\ \A x \in Requests : x # r => req'[x] = req[x]
      /\ req'[r].op = req[r].op /\ req'[r].diary = req[r].diary
      /\ req'[r].file = req[r].file /\ req'[r].fields = req[r].fields
      /\ req'[r].before = req[r].before
      /\ req'[r].todo = req[r].todo \ {f}
      /\ req'[r].pc = AfterRemove(req[r].todo \ {f})
      /\ \/ /\ stored' = stored \ {f} /\ (Ok \/ Fault)
            /\ req'[r].removed = req[r].removed \cup {f} /\ req'[r].kept = req[r].kept
         \/ /\ UNCHANGED stored /\ Fault
            /\ req'[r].removed = req[r].removed /\ req'[r].kept = req[r].kept \cup {f}
  BY <1>1, RemoveFields
<1>3. /\ req'[r].pc \in {"remove", "delete"}
      /\ req'[r].pc = "remove" <=> req'[r].todo # {}
  BY <1>2 DEF AfterRemove
<1>4. \A x \in Requests : Fixed(x)
  BY <1>1, <1>2, <1>3 DEF Fixed, Working, Answered
<1>5. /\ \A x \in Requests : Handled(x)' = Handled(x)
      /\ \A x \in Requests : Handled(x) \subseteq Files
      /\ \A e \in DOMAIN diaries : diaries[e].photos \subseteq Files
      /\ \A g \in Files : Settled(g) => Settled(g)'
      /\ Shown' = Shown
  BY <1>1, <1>2 DEF Handled, Settled, TypeOK, Row, Request, Shown
<1>6. TypeOK'
  <2>1. \A x \in InFlight' : req'[x].pc = "remove" <=> req'[x].todo # {}
    BY <1>1, <1>2, <1>3 DEF TypeOK, InFlight
  <2>2. stored' \subseteq Files /\ faults' \in 0..MaxFaults
    BY <1>1, <1>2, DiaryAssumption DEF TypeOK, Ok, Fault
  <2> QED
    BY <2>1, <2>2, <1>1, <1>2 DEF TypeOK
<1>7. ASSUME NEW x \in Requests PROVE LocalOK(x)'
  <2>1. LocalOK(x)
    BY DEF DiaryInv, Locals
  <2>2. x \notin req'[x].before /\ \A q \in req'[x].before : req'[q].pc \in Answered
    BY <1>4, FixedLocals
  <2>3. CASE x = r
    BY <2>1, <2>2, <2>3, <1>1, <1>2, <1>3 DEF LocalOK
  <2>4. CASE x # r
    BY <2>1, <2>2, <2>4, <1>1, <1>2 DEF LocalOK
  <2> QED
    BY <2>3, <2>4
<1>8. Placed'
  <2>1. \A d \in DOMAIN diaries : \A g \in diaries[d].photos :
          Settled(g)' /\ (g \in Requests => req'[g].diary = d)
    BY <1>4, <1>5 DEF DiaryInv, Placed, Fixed
  <2>2. \A x \in Requests : \A g \in Handled(x)' : Settled(g)'
    BY <1>5 DEF DiaryInv, Placed
  <2>3. \A x \in Requests : req'[x].op = "upload" /\ req'[x].pc = "add" => x \in stored'
    BY <1>1, <1>2 DEF DiaryInv, Placed, Settled
  <2>4. \A x \in Requests : x \in stored' =>
          req'[x].op = "upload" /\ req'[x].pc \notin {"idle", "file"}
    BY <1>1, <1>2 DEF DiaryInv, Placed
  <2> QED
    BY <2>1, <2>2, <2>3, <2>4, <1>1 DEF Placed
<1>9. Removed'
  <2>1. ASSUME NEW x \in Requests PROVE req'[x].removed \cap stored' = {}
    BY <1>2 DEF DiaryInv, Removed
  <2> QED
    BY <2>1, <1>1, <1>4, <1>5 DEF DiaryInv, Removed, Fixed
<1>10. Deleting'
  BY <1>1, <1>2, <1>4, <1>5 DEF DiaryInv, Deleting, Fixed
<1>11. ShownIsStored'
  <2> SUFFICES ASSUME NEW e \in DOMAIN diaries, NEW g \in diaries[e].photos \ stored'
               PROVE  \E x \in Requests :
                        /\ g \in req'[x].removed
                        /\ \/ req'[x].pc # "ok"
                           \/ req'[x].op = "unlink" /\ req'[x].diary # e
    BY <1>1 DEF ShownIsStored
  <2>1. CASE g \in stored
    BY <2>1, <1>2, <1>3
  <2>2. CASE g \notin stored
    <3>1. PICK x \in Requests :
            /\ g \in req[x].removed
            /\ \/ req[x].pc # "ok"
               \/ req[x].op = "unlink" /\ req[x].diary # e
      BY <2>2 DEF DiaryInv, ShownIsStored
    <3>2. CASE x = r
      BY <3>1, <3>2, <1>2, <1>3
    <3>3. CASE x # r
      BY <3>1, <3>3, <1>2
    <3> QED
      BY <3>2, <3>3
  <2> QED
    BY <2>1, <2>2
<1>12. ASSUME NEW g \in stored' \ Shown' PROVE Unshown(g)'
  <2>1. g \in stored \ Shown /\ g # r
    BY <1>1, <1>2, <1>5
  <2>2. \A x \in Requests : req[x].kept \subseteq req'[x].kept
    BY <1>2
  <2> QED
    BY <2>1, <2>2, <1>2, <1>4, FixedLocals DEF DiaryInv, Unshown, Fixed
<1>13. \A x \in Requests : UploadKept(x)' /\ PatchKept(x)'
  BY <1>1, <1>2, <1>3, <1>4, FixedLocals DEF DiaryInv, UploadKept, PatchKept, Shown, Fixed
<1>14. Copied'
  BY <1>1, <1>2, <1>3, <1>4, FixedLocals DEF DiaryInv, Copied, Fixed
<1> QED
  BY <1>6, <1>7, <1>8, <1>9, <1>10, <1>11, <1>12, <1>13, <1>14 DEF DiaryInv, Locals
\* A request that has not been sent is known to nobody.
LEMMA IdleUnknown ==
  ASSUME DiaryInv, NEW r \in Requests, req[r].pc = "idle"
  PROVE  /\ req[r] = Fresh
         /\ r \notin stored /\ r \notin Shown
         /\ \A x \in Requests : r \notin Handled(x) /\ r \notin req[x].before
         /\ \A x \in Requests : r \notin req[x].removed /\ r \notin req[x].kept
<1>1. req[r] = Fresh /\ r \notin stored
  BY DEF DiaryInv, Locals, LocalOK, Placed
<1>2. ~Settled(r)
  BY <1>1 DEF Settled, Fresh
<1>3. r \notin Shown /\ \A x \in Requests : r \notin Handled(x)
  BY <1>2 DEF DiaryInv, Placed, Shown
<1>4. \A x \in Requests : r \notin req[x].before
  BY DEF DiaryInv, Locals, LocalOK, Answered
<1> QED
  BY <1>1, <1>3, <1>4 DEF Handled

\* r is taken up: it knows everything answered so far, and what it has read is
\* what the rows say.  A file may go, and a row without photos may be new.
Opened(r) ==
  /\ req' \in [Requests -> Request]
  /\ \A x \in Requests : x # r => req'[x] = req[x]
  /\ req'[r].before = Done
  /\ req'[r].op \in {"create", "patch", "delete", "upload", "unlink"}
  /\ req'[r].pc # "idle" /\ LocalOK(r)'
  /\ req'[r].pc = "ok" => req'[r].op = "create"
  /\ req'[r].op = "upload" => req'[r].pc = "file"
  /\ req'[r].op = "patch" =>
       req'[r].diary \in DOMAIN diaries /\ req'[r].row = diaries[req'[r].diary]
  /\ req'[r].op = "delete" =>
       /\ req'[r].diary \in DOMAIN diaries
       /\ req'[r].todo = diaries[req'[r].diary].photos
       /\ req'[r].removed = {} /\ req'[r].kept = {}
  /\ req'[r].removed \cup req'[r].kept \subseteq Shown
  /\ req'[r].pc \in Working => (req'[r].pc = "remove" <=> req'[r].todo # {})
  /\ stored' = stored \ req'[r].removed

Grown ==
  /\ faults' \in 0..MaxFaults /\ remote' = remote
  /\ issued \subseteq issued' /\ issued' \subseteq Diaries
  /\ DOMAIN diaries \subseteq DOMAIN diaries' /\ DOMAIN diaries' \subseteq issued'
  /\ \A e \in DOMAIN diaries : diaries'[e] = diaries[e]
  /\ \A e \in DOMAIN diaries' \ DOMAIN diaries :
       e \notin issued /\ diaries'[e] \in Row /\ diaries'[e].photos = {}

LEMMA OpenKeeps ==
  ASSUME DiaryInv, NEW r \in Requests, req[r].pc = "idle", Opened(r), Grown
  PROVE  DiaryInv'
<1> USE DEF Opened, Grown
<1>1. /\ TypeOK /\ req \in [Requests -> Request]
      /\ req[r].op = "none" /\ req[r].removed = {} /\ req[r].kept = {}
      /\ r \notin stored /\ r \notin Shown
      /\ \A x \in Requests : r \notin Handled(x) /\ r \notin req[x].before
  BY IdleUnknown DEF DiaryInv, TypeOK, Fresh
<1>2. /\ Shown' = Shown
      /\ \A e \in DOMAIN diaries' : diaries'[e].photos # {} => e \in DOMAIN diaries
      /\ \A e \in issued : e \in DOMAIN diaries' => e \in DOMAIN diaries
      /\ stored' \subseteq stored
  BY DEF Shown
<1>3. \A f : Settled(f) => Settled(f)' /\ f # r
  BY <1>1 DEF Settled
<1>4. \A f \in Shown : Settled(f)
  BY DEF DiaryInv, Placed, Shown
<1>5. /\ \A f \in Handled(r)' : f \in Shown
      /\ \A x \in Requests : x # r => Handled(x)' = Handled(x)
  BY DEF Handled, LocalOK, Shown
<1>6. \A q, x \in Requests : q # r /\ x # r =>
        /\ Overlap(q, x)' <=> Overlap(q, x)
        /\ \A field : Excuse(q, x, field)' <=> Excuse(q, x, field)
  BY DEF Overlap, Excuse
<1>7. TypeOK'
  <2>1. \A x \in InFlight' : req'[x].pc = "remove" <=> req'[x].todo # {}
    BY <1>1 DEF TypeOK, InFlight
  <2>2. \A e \in DOMAIN diaries' : diaries'[e] \in Row
    BY <1>1 DEF TypeOK
  <2>3. \A d, e \in DOMAIN diaries' :
          d # e => diaries'[d].photos \cap diaries'[e].photos = {}
    BY <1>1, <1>2 DEF TypeOK
  <2> QED
    BY <2>1, <2>2, <2>3, <1>1, <1>2 DEF TypeOK
<1>8. Locals'
  <2>1. ASSUME NEW x \in Requests, x # r PROVE LocalOK(x)'
    <3>1. LocalOK(x)
      BY DEF DiaryInv, Locals
    <3>2. \A q \in req[x].before : q # r
      BY <1>1, <2>1
    <3>3. req[x].before \subseteq Requests
      BY <1>1 DEF Request
    <3> QED
      BY <2>1, <3>1, <3>2, <3>3 DEF LocalOK
  <2> QED
    BY <2>1 DEF Locals
<1>9. Placed'
  <2>1. ASSUME NEW e \in DOMAIN diaries', NEW f \in diaries'[e].photos
        PROVE  Settled(f)' /\ (f \in Requests => req'[f].diary = e)
    <3>1. e \in DOMAIN diaries /\ f \in diaries[e].photos
      BY <2>1, <1>2
    <3>2. Settled(f) /\ (f \in Requests => req[f].diary = e)
      BY <3>1 DEF DiaryInv, Placed
    <3> QED
      BY <3>2, <1>3
  <2>2. ASSUME NEW x \in Requests, NEW f \in Handled(x)' PROVE Settled(f)'
    <3>1. CASE x = r
      BY <2>2, <3>1, <1>3, <1>4, <1>5
    <3>2. CASE x # r
      BY <2>2, <3>2, <1>3, <1>5 DEF DiaryInv, Placed
    <3> QED
      BY <3>1, <3>2
  <2>3. ASSUME NEW x \in Requests, req'[x].op = "upload", req'[x].pc = "add"
        PROVE  x \in stored'
    <3>1. x # r /\ x \in stored
      BY <2>3 DEF DiaryInv, Placed
    <3>2. ~Settled(x)
      BY <2>3, <3>1 DEF Settled
    <3>3. x \notin req'[r].removed
      BY <3>2, <1>4
    <3> QED
      BY <3>1, <3>3
  <2>4. \A x \in Requests : x \in stored' =>
          req'[x].op = "upload" /\ req'[x].pc \notin {"idle", "file"}
    BY <1>1, <1>2 DEF DiaryInv, Placed
  <2> QED
    BY <2>1, <2>2, <2>3, <2>4 DEF Placed
<1>10. Removed'
  <2>1. \A x \in Requests : req'[x].removed \cap stored' = {}
    BY <1>2 DEF DiaryInv, Removed
  <2>2. ASSUME NEW x \in Requests, req'[x].op = "delete", NEW e \in DOMAIN diaries',
               diaries'[e].photos \cap Handled(x)' # {}
        PROVE  e = req'[x].diary
    <3>1. e \in DOMAIN diaries /\ diaries'[e] = diaries[e]
      BY <2>2, <1>2
    <3>2. CASE x = r
      <4>1. Handled(r)' = diaries[req'[r].diary].photos
        BY <2>2, <3>2 DEF Handled
      <4> QED
        BY <2>2, <3>1, <3>2, <4>1, <1>1 DEF TypeOK
    <3>3. CASE x # r
      BY <2>2, <3>1, <3>3, <1>5 DEF DiaryInv, Removed
    <3> QED
      BY <3>2, <3>3
  <2> QED
    BY <2>1, <2>2 DEF Removed
<1>11. Deleting'
  <2> SUFFICES ASSUME NEW x \in Requests, req'[x].op = "delete",
                      req'[x].pc \in {"remove", "delete"},
                      req'[x].diary \in DOMAIN diaries',
                      NEW f \in diaries'[req'[x].diary].photos \ Handled(x)'
               PROVE  f \in Requests /\ f \notin req'[x].before
    BY DEF Deleting
  <2>1. CASE x = r
    BY <2>1 DEF Handled
  <2>2. CASE x # r
    BY <2>2, <1>2, <1>5 DEF DiaryInv, Deleting
  <2> QED
    BY <2>1, <2>2
<1>12. ASSUME NEW x \in Requests, x # r, req[x].op = "patch", req[x].pc = "ok",
              NEW d \in DOMAIN diaries, req[x].diary = d, NEW field \in req[x].fields
       PROVE  diaries[d][field] = x \/ \E q \in Requests : Excuse(q, x, field)'
  <2>1. CASE diaries[d][field] # x
    <3>1. PICK q \in Requests : Excuse(q, x, field)
      BY <1>12, <2>1 DEF DiaryInv, PatchKept
    <3>2. q # r
      BY <3>1, <1>1 DEF Excuse
    <3> QED
      BY <3>1, <3>2, <1>6, <1>12
  <2> QED
    BY <2>1
<1>13. Copied'
  <2> SUFFICES ASSUME NEW q \in Requests, NEW x \in Requests,
                      req'[q].op = "patch", req'[q].pc = "write", x \in req'[q].before,
                      req'[x].op = "patch", req'[x].pc = "ok", req'[x].diary = req'[q].diary,
                      NEW field \in req'[x].fields
               PROVE  req'[q].row[field] = x \/ \E p \in Requests : Excuse(p, x, field)'
    BY DEF Copied
  <2>1. x # r
    OBVIOUS
  <2>2. CASE q = r
    BY <2>1, <2>2, <1>12
  <2>3. CASE q # r /\ req[q].row[field] # x
    <3>1. PICK p \in Requests : Excuse(p, x, field)
      BY <2>1, <2>3 DEF DiaryInv, Copied
    <3>2. p # r
      BY <3>1, <1>1 DEF Excuse
    <3> QED
      BY <2>1, <3>1, <3>2, <1>6
  <2> QED
    BY <2>2, <2>3
<1>14. ShownIsStored'
  <2> SUFFICES ASSUME NEW e \in DOMAIN diaries', NEW f \in diaries'[e].photos \ stored'
               PROVE  \E x \in Requests :
                        /\ f \in req'[x].removed
                        /\ \/ req'[x].pc # "ok"
                           \/ req'[x].op = "unlink" /\ req'[x].diary # e
    BY DEF ShownIsStored
  <2>1. e \in DOMAIN diaries /\ f \in diaries[e].photos
    BY <1>2
  <2>2. CASE f \in stored
    <3>1. f \in req'[r].removed
      BY <2>2
    <3>2. req'[r].op # "create"
      BY <3>1 DEF LocalOK
    <3> QED
      BY <3>1, <3>2
  <2>3. CASE f \notin stored
    <3>1. PICK x \in Requests :
            /\ f \in req[x].removed
            /\ \/ req[x].pc # "ok"
               \/ req[x].op = "unlink" /\ req[x].diary # e
      BY <2>1, <2>3 DEF DiaryInv, ShownIsStored
    <3>2. x # r
      BY <3>1, <1>1
    <3> QED
      BY <3>1, <3>2
  <2> QED
    BY <2>2, <2>3
<1>15. ASSUME NEW f \in stored' \ Shown' PROVE Unshown(f)'
  <2>1. f \in stored \ Shown /\ f # r
    BY <1>1, <1>2
  <2>2. Unshown(f)
    BY <2>1 DEF DiaryInv
  <2>3. CASE \E x \in Requests : f \in req[x].kept
    <3>1. \E x \in Requests : f \in req'[x].kept
      BY <2>3, <1>1
    <3> QED
      BY <3>1 DEF Unshown
  <2>4. CASE f \in Requests /\ req[f].pc # "ok"
    BY <2>1, <2>4 DEF Unshown
  <2>5. ASSUME f \in Requests, NEW x \in Requests, req[x].op = "delete",
               req[x].diary = req[f].diary, Overlap(f, x)
        PROVE  Unshown(f)'
    <3>1. x # r
      BY <2>5, <1>1
    <3>2. Overlap(f, x)'
      BY <2>1, <2>5, <3>1, <1>6
    <3> QED
      BY <2>1, <2>5, <3>1, <3>2 DEF Unshown
  <2> QED
    BY <2>2, <2>3, <2>4, <2>5 DEF Unshown
<1>16. ASSUME NEW x \in Requests PROVE UploadKept(x)'
  <2>1. CASE x # r
    BY <2>1, <1>1, <1>2 DEF DiaryInv, UploadKept
  <2> QED
    BY <2>1 DEF UploadKept
<1>17. ASSUME NEW x \in Requests PROVE PatchKept(x)'
  <2>1. CASE x # r /\ req[x].op = "patch"
    <3>1. req[x].diary \in issued
      BY <2>1 DEF DiaryInv, Locals, LocalOK
    <3> QED
      BY <2>1, <3>1, <1>2, <1>12 DEF PatchKept
  <2> QED
    BY <2>1 DEF PatchKept
<1> QED
  BY <1>7, <1>8, <1>9, <1>10, <1>11, <1>13, <1>14, <1>15, <1>16, <1>17 DEF DiaryInv
\* What CreateDiary ... DeletePhotoFile have in common: the request was new.
LEMMA NewRequest ==
  ASSUME DiaryInv, NEW r \in Requests, CanOpen(r)
  PROVE  /\ req \in [Requests -> Request] /\ req[r].pc = "idle"
         /\ req[r].file = None /\ req[r].fields = {} /\ req[r].row = Blank
         /\ req[r].todo = {} /\ req[r].removed = {} /\ req[r].kept = {}
         /\ r \notin Done
         /\ TypeOK
BY DEF DiaryInv, TypeOK, CanOpen, Locals, LocalOK, Fresh, Answered, Done

LEMMA CreateKeeps ==
  ASSUME DiaryInv, NEW r \in Requests, NEW d \in Diaries, CreateDiary(r, d)
  PROVE  DiaryInv'
<1>1. /\ CanOpen(r) /\ d \notin issued /\ req' = Open(r, "create", "ok", d)
      /\ UNCHANGED <<remote, stored, faults>> /\ issued' = issued \cup {d}
      /\ DOMAIN diaries' = DOMAIN diaries \cup {d}
      /\ \A e \in DOMAIN diaries' :
           diaries'[e] = IF e = d THEN [content |-> r, mood |-> r, photos |-> {}]
                                  ELSE diaries[e]
  BY DEF CreateDiary, Ok
<1>2. /\ req \in [Requests -> Request] /\ req[r].pc = "idle"
      /\ req[r].file = None /\ req[r].todo = {}
      /\ req[r].removed = {} /\ req[r].kept = {}
      /\ r \notin Done
      /\ TypeOK
  BY <1>1, NewRequest
<1>3. /\ req' \in [Requests -> Request]
      /\ \A x \in Requests : x # r => req'[x] = req[x]
      /\ req'[r].pc = "ok" /\ req'[r].op = "create" /\ req'[r].diary = d
      /\ req'[r].before = Done
      /\ req'[r].todo = {} /\ req'[r].removed = {} /\ req'[r].kept = {}
  <2>1. /\ "create" \in {"create", "patch", "delete", "upload", "unlink"}
        /\ "ok" \in Working \cup Answered
    BY <1>1, <1>2 DEF Working, Answered
  <2>2. TakenUp(req', r, "create", "ok", d)
    BY Zenon, <1>1, <1>2, <2>1, OpenFields
  <2> QED
    BY <2>2, <1>1, <1>2 DEF TakenUp
<1>4. LocalOK(r)'
  BY <1>2, <1>3 DEF LocalOK, Done
<1>5. d \notin DOMAIN diaries /\ diaries'[d] \in Row /\ diaries'[d].photos = {}
  BY <1>1, <1>2 DEF TypeOK, Row, Writers
<1>6. Opened(r)
  BY <1>1, <1>2, <1>3, <1>4, <1>5 DEF Opened, Working, Shown
<1>7. Grown
  BY <1>1, <1>2, <1>3, <1>4, <1>5 DEF Grown, TypeOK
<1> QED
  BY <1>2, <1>6, <1>7, OpenKeeps

LEMMA UpdateReadKeeps ==
  ASSUME DiaryInv, NEW r \in Requests, NEW d \in Diaries, NEW fields \in SUBSET Fields,
         UpdateDiaryRead(r, d, fields)
  PROVE  DiaryInv'
<1> DEFINE f1 == Open(r, "patch", "write", d)
           f2 == [f1 EXCEPT ![r].fields = fields]
           f3 == [f2 EXCEPT ![r].row = diaries[d]]
<1>1. /\ CanOpen(r) /\ d \in DOMAIN diaries
      /\ UNCHANGED <<remote, diaries, issued, stored, faults>>
  BY DEF UpdateDiaryRead, Ok
<1>2. req' = f3
  BY Zenon DEF UpdateDiaryRead
<1>3. /\ req \in [Requests -> Request] /\ req[r].pc = "idle"
      /\ req[r].file = None /\ req[r].todo = {}
      /\ req[r].removed = {} /\ req[r].kept = {}
      /\ r \notin Done
      /\ TypeOK /\ diaries[d] \in Row
  BY <1>1, NewRequest DEF TypeOK
<1>4. /\ f1 \in [Requests -> Request]
      /\ \A x \in Requests : x # r => f1[x] = req[x]
      /\ f1[r].pc = "write" /\ f1[r].op = "patch" /\ f1[r].diary = d
      /\ f1[r].before = Done
      /\ f1[r].todo = {} /\ f1[r].removed = {} /\ f1[r].kept = {}
  <2>1. /\ "patch" \in {"create", "patch", "delete", "upload", "unlink"}
        /\ "write" \in Working \cup Answered
    BY <1>3 DEF Working, Answered
  <2>2. TakenUp(f1, r, "patch", "write", d)
    BY Zenon, <1>3, <2>1, OpenFields DEF f1
  <2> QED
    BY <2>2, <1>3 DEF TakenUp
<1> HIDE DEF f1
<1>5. /\ f2 \in [Requests -> Request]
      /\ \A x \in Requests : x # r => f2[x] = req[x]
      /\ f2[r].pc = "write" /\ f2[r].op = "patch" /\ f2[r].diary = d
      /\ f2[r].before = Done
      /\ f2[r].todo = {} /\ f2[r].removed = {} /\ f2[r].kept = {}
  BY <1>4 DEF Request
<1> HIDE DEF f2
<1>6. /\ req' \in [Requests -> Request]
      /\ \A x \in Requests : x # r => req'[x] = req[x]
      /\ req'[r].pc = "write" /\ req'[r].op = "patch" /\ req'[r].diary = d
      /\ req'[r].before = Done
      /\ req'[r].todo = {} /\ req'[r].removed = {} /\ req'[r].kept = {}
      /\ req'[r].row = diaries[d]
  BY <1>2, <1>3, <1>5 DEF Request
<1>7. LocalOK(r)'
  BY <1>1, <1>3, <1>6 DEF LocalOK, TypeOK, Done
<1>8. Opened(r)
  BY <1>1, <1>3, <1>6, <1>7 DEF Opened, Working, Shown
<1>9. Grown
  BY <1>1, <1>3, <1>6, <1>7 DEF Grown, TypeOK
<1> QED
  BY <1>3, <1>8, <1>9, OpenKeeps

LEMMA DeleteReadKeeps ==
  ASSUME DiaryInv, NEW r \in Requests, NEW d \in Diaries, DeleteDiaryRead(r, d)
  PROVE  DiaryInv'
<1> DEFINE photos == diaries[d].photos
           pc == AfterRemove(photos)
           f1 == Open(r, "delete", pc, d)
           f2 == [f1 EXCEPT ![r].row = diaries[d]]
           f3 == [f2 EXCEPT ![r].todo = photos]
<1>1. /\ CanOpen(r) /\ d \in DOMAIN diaries
      /\ UNCHANGED <<remote, diaries, issued, stored, faults>>
  BY DEF DeleteDiaryRead, Ok
<1>2. req' = f3
  BY Zenon DEF DeleteDiaryRead
<1>3. /\ req \in [Requests -> Request] /\ req[r].pc = "idle"
      /\ req[r].removed = {} /\ req[r].kept = {}
      /\ r \notin Done
      /\ TypeOK /\ diaries[d] \in Row /\ photos \in SUBSET Files
  BY <1>1, NewRequest DEF TypeOK, Row
<1>4. /\ pc \in {"remove", "delete"} /\ pc \in Working
      /\ pc = "remove" <=> photos # {}
  BY DEF AfterRemove, Working
<1> HIDE DEF pc
<1>5. /\ f1 \in [Requests -> Request]
      /\ \A x \in Requests : x # r => f1[x] = req[x]
      /\ f1[r].pc = pc /\ f1[r].op = "delete" /\ f1[r].diary = d
      /\ f1[r].before = Done
      /\ f1[r].removed = {} /\ f1[r].kept = {}
  <2>1. /\ "delete" \in {"create", "patch", "delete", "upload", "unlink"}
        /\ pc \in Working \cup Answered
    BY <1>3, <1>4 DEF Working, Answered
  <2>2. TakenUp(f1, r, "delete", pc, d)
    BY Zenon, <1>3, <1>4, <2>1, OpenFields DEF f1
  <2> QED
    BY <2>2, <1>3, <1>4 DEF TakenUp
<1> HIDE DEF f1
<1>6. /\ f2 \in [Requests -> Request]
      /\ \A x \in Requests : x # r => f2[x] = req[x]
      /\ f2[r].pc = pc /\ f2[r].op = "delete" /\ f2[r].diary = d
      /\ f2[r].before = Done
      /\ f2[r].removed = {} /\ f2[r].kept = {}
  BY <1>3, <1>5 DEF Request
<1> HIDE DEF f2
<1>7. /\ req' \in [Requests -> Request]
      /\ \A x \in Requests : x # r => req'[x] = req[x]
      /\ req'[r].pc = pc /\ req'[r].op = "delete" /\ req'[r].diary = d
      /\ req'[r].before = Done
      /\ req'[r].removed = {} /\ req'[r].kept = {}
      /\ req'[r].todo = photos
  BY <1>2, <1>3, <1>6 DEF Request
<1>8. LocalOK(r)'
  BY <1>1, <1>3, <1>4, <1>7 DEF LocalOK, TypeOK, Done
<1>9. Opened(r)
  BY <1>1, <1>3, <1>4, <1>7, <1>8 DEF Opened, Working, Shown
<1>10. Grown
  BY <1>1, <1>3, <1>4, <1>7, <1>8 DEF Grown, TypeOK
<1> QED
  BY <1>3, <1>9, <1>10, OpenKeeps

LEMMA UploadReadKeeps ==
  ASSUME DiaryInv, NEW r \in Requests, NEW d \in Diaries, UploadPhotoRead(r, d)
  PROVE  DiaryInv'
<1> DEFINE f1 == Open(r, "upload", "file", d)
           f2 == [f1 EXCEPT ![r].file = r]
<1>1. /\ CanOpen(r) /\ d \in DOMAIN diaries
      /\ UNCHANGED <<remote, diaries, issued, stored, faults>>
  BY DEF UploadPhotoRead, Ok
<1>2. req' = f2
  BY Zenon DEF UploadPhotoRead
<1>3. /\ req \in [Requests -> Request] /\ req[r].pc = "idle"
      /\ req[r].todo = {} /\ req[r].removed = {} /\ req[r].kept = {}
      /\ r \notin Done
      /\ TypeOK /\ r \in Files
  BY <1>1, NewRequest DEF Files
<1>4. /\ f1 \in [Requests -> Request]
      /\ \A x \in Requests : x # r => f1[x] = req[x]
      /\ f1[r].pc = "file" /\ f1[r].op = "upload" /\ f1[r].diary = d
      /\ f1[r].before = Done
      /\ f1[r].todo = {} /\ f1[r].removed = {} /\ f1[r].kept = {}
  <2>1. /\ "upload" \in {"create", "patch", "delete", "upload", "unlink"}
        /\ "file" \in Working \cup Answered
    BY <1>3 DEF Working, Answered
  <2>2. TakenUp(f1, r, "upload", "file", d)
    BY Zenon, <1>3, <2>1, OpenFields DEF f1
  <2> QED
    BY <2>2, <1>3 DEF TakenUp
<1> HIDE DEF f1
<1>5. /\ req' \in [Requests -> Request]
      /\ \A x \in Requests : x # r => req'[x] = req[x]
      /\ req'[r].pc = "file" /\ req'[r].op = "upload" /\ req'[r].diary = d
      /\ req'[r].before = Done
      /\ req'[r].todo = {} /\ req'[r].removed = {} /\ req'[r].kept = {}
  BY SMTT(30), <1>2, <1>3, <1>4 DEF Request
<1>6. LocalOK(r)'
  BY <1>1, <1>3, <1>5 DEF LocalOK, TypeOK, Done
<1>7. Opened(r)
  BY <1>1, <1>3, <1>5, <1>6 DEF Opened, Working, Shown
<1>8. Grown
  BY <1>1, <1>3, <1>5, <1>6 DEF Grown, TypeOK
<1> QED
  BY <1>3, <1>7, <1>8, OpenKeeps

LEMMA DeletePhotoKeeps ==
  ASSUME DiaryInv, NEW r \in Requests, NEW d \in Diaries, NEW f \in Files,
         DeletePhotoFile(r, d, f)
  PROVE  DiaryInv'
<1>1. /\ CanOpen(r) /\ f \in Shown /\ UNCHANGED <<remote, diaries, issued>>
  BY DEF DeletePhotoFile
<1>2. /\ req \in [Requests -> Request] /\ req[r].pc = "idle"
      /\ req[r].todo = {} /\ req[r].removed = {} /\ req[r].kept = {}
      /\ r \notin Done
      /\ TypeOK
  BY <1>1, NewRequest
<1>3. ASSUME NEW pc \in {"row", "error"}, FileGone(r, d, f, pc), Ok \/ Fault
      PROVE  DiaryInv'
  <2> DEFINE f1 == Open(r, "unlink", pc, d)
             f2 == [f1 EXCEPT ![r].file = f]
             f3 == [f2 EXCEPT ![r].removed = {f}]
  <2>1. req' = f3 /\ stored' = stored \ {f}
    BY Zenon, <1>3 DEF FileGone
  <2>2. /\ f1 \in [Requests -> Request]
        /\ \A x \in Requests : x # r => f1[x] = req[x]
        /\ f1[r].pc = pc /\ f1[r].op = "unlink" /\ f1[r].diary = d
        /\ f1[r].before = Done
        /\ f1[r].todo = {} /\ f1[r].removed = {} /\ f1[r].kept = {}
    <3>1. /\ "unlink" \in {"create", "patch", "delete", "upload", "unlink"}
          /\ pc \in Working \cup Answered
      BY <1>2 DEF Working, Answered
    <3>2. TakenUp(f1, r, "unlink", pc, d)
      BY Zenon, <1>2, <3>1, OpenFields DEF f1
    <3> QED
      BY <3>2, <1>2 DEF TakenUp
  <2> HIDE DEF f1
  <2>3. /\ f2 \in [Requests -> Request]
        /\ \A x \in Requests : x # r => f2[x] = req[x]
        /\ f2[r].pc = pc /\ f2[r].op = "unlink" /\ f2[r].file = f
        /\ f2[r].before = Done
        /\ f2[r].todo = {} /\ f2[r].removed = {} /\ f2[r].kept = {}
    BY <2>2 DEF Request
  <2> HIDE DEF f2
  <2>4. /\ req' \in [Requests -> Request]
        /\ \A x \in Requests : x # r => req'[x] = req[x]
        /\ req'[r].pc = pc /\ req'[r].op = "unlink" /\ req'[r].file = f
        /\ req'[r].before = Done
        /\ req'[r].todo = {} /\ req'[r].removed = {f} /\ req'[r].kept = {}
    BY <2>1, <2>3 DEF Request
  <2>5. LocalOK(r)'
    BY <1>2, <1>3, <2>4 DEF LocalOK, Done
  <2>6. faults' \in 0..MaxFaults
    BY <1>2, <1>3, DiaryAssumption DEF TypeOK, Ok, Fault
  <2>7. Opened(r)
    BY <1>1, <1>2, <1>3, <2>1, <2>4, <2>5, <2>6 DEF Opened, Working, Shown
  <2>8. Grown
    BY <1>1, <1>2, <1>3, <2>1, <2>4, <2>5, <2>6 DEF Grown, TypeOK
  <2> QED
    BY <1>2, <2>7, <2>8, OpenKeeps
<1>4. CASE /\ Fault /\ UNCHANGED stored
           /\ req' = [Open(r, "unlink", IF remote THEN "error" ELSE "row", d)
                        EXCEPT ![r].file = f, ![r].kept = {f}]
  <2> DEFINE pc == IF remote THEN "error" ELSE "row"
             f1 == Open(r, "unlink", pc, d)
             f2 == [f1 EXCEPT ![r].file = f]
             f3 == [f2 EXCEPT ![r].kept = {f}]
  <2>1. req' = f3
    BY Zenon, <1>4
  <2>2. pc \in {"error", "row"} /\ pc \in Working \cup Answered
    BY DEF Working, Answered
  <2> HIDE DEF pc
  <2>3. /\ f1 \in [Requests -> Request]
        /\ \A x \in Requests : x # r => f1[x] = req[x]
        /\ f1[r].pc = pc /\ f1[r].op = "unlink" /\ f1[r].diary = d
        /\ f1[r].before = Done
        /\ f1[r].todo = {} /\ f1[r].removed = {} /\ f1[r].kept = {}
    <3>1. /\ "unlink" \in {"create", "patch", "delete", "upload", "unlink"}
          /\ pc \in Working \cup Answered
      BY <1>2, <2>2 DEF Working, Answered
    <3>2. TakenUp(f1, r, "unlink", pc, d)
      BY Zenon, <1>2, <2>2, <3>1, OpenFields DEF f1
    <3> QED
      BY <3>2, <1>2, <2>2 DEF TakenUp
  <2> HIDE DEF f1
  <2>4. /\ f2 \in [Requests -> Request]
        /\ \A x \in Requests : x # r => f2[x] = req[x]
        /\ f2[r].pc = pc /\ f2[r].op = "unlink" /\ f2[r].file = f
        /\ f2[r].before = Done
        /\ f2[r].todo = {} /\ f2[r].removed = {} /\ f2[r].kept = {}
    BY <2>3 DEF Request
  <2> HIDE DEF f2
  <2>5. /\ req' \in [Requests -> Request]
        /\ \A x \in Requests : x # r => req'[x] = req[x]
        /\ req'[r].pc = pc /\ req'[r].op = "unlink" /\ req'[r].file = f
        /\ req'[r].before = Done
        /\ req'[r].todo = {} /\ req'[r].removed = {} /\ req'[r].kept = {f}
    BY <2>1, <2>4 DEF Request
  <2>6. LocalOK(r)'
    BY <1>2, <2>2, <2>5 DEF LocalOK, Done
  <2>7. faults' \in 0..MaxFaults
    BY <1>2, <1>4, DiaryAssumption DEF TypeOK, Fault
  <2>8. Opened(r)
    BY <1>1, <1>2, <1>4, <2>2, <2>5, <2>6, <2>7 DEF Opened, Working, Shown
  <2>9. Grown
    BY <1>1, <1>2, <1>4, <2>2, <2>5, <2>6, <2>7 DEF Grown, TypeOK
  <2> QED
    BY <1>2, <2>8, <2>9, OpenKeeps
<1> QED
  BY Zenon, <1>3, <1>4 DEF DeletePhotoFile
\* A crash ends every request at once; nothing that is stored changes.
LEMMA CrashKeeps ==
  ASSUME DiaryInv, Crash
  PROVE  DiaryInv'
<1>1. /\ TypeOK /\ req \in [Requests -> Request] /\ Fault
      /\ UNCHANGED <<remote, diaries, issued, stored>>
  BY DEF DiaryInv, TypeOK, Crash
<1>2. /\ req' \in [Requests -> Request]
      /\ \A x \in Requests : x \notin InFlight => req'[x] = req[x]
      /\ \A x \in InFlight : req'[x].pc = "lost"
      /\ \A x \in Requests :
           /\ req'[x].op = req[x].op /\ req'[x].diary = req[x].diary
           /\ req'[x].file = req[x].file /\ req'[x].fields = req[x].fields
           /\ req'[x].before = req[x].before /\ req'[x].todo = req[x].todo
           /\ req'[x].removed = req[x].removed /\ req'[x].kept = req[x].kept
  <2>1. \A x \in Requests :
          req'[x] = IF x \in InFlight THEN [req[x] EXCEPT !.pc = "lost"] ELSE req[x]
    BY DEF Crash
  <2>2. InFlight \subseteq Requests
    BY DEF InFlight
  <2>3. ASSUME NEW x \in Requests
        PROVE  /\ req'[x] \in Request
               /\ x \in InFlight => req'[x].pc = "lost"
               /\ req'[x].op = req[x].op /\ req'[x].diary = req[x].diary
               /\ req'[x].file = req[x].file /\ req'[x].fields = req[x].fields
               /\ req'[x].before = req[x].before /\ req'[x].todo = req[x].todo
               /\ req'[x].removed = req[x].removed /\ req'[x].kept = req[x].kept
    <3>1. req[x] \in Request
      BY <1>1
    <3>2. CASE x \in InFlight
      <4> DEFINE held == [req[x] EXCEPT !.pc = "lost"]
      <4>1. held \in Request
        BY <3>1 DEF Request, Answered
      <4>2. /\ held.pc = "lost" /\ held.op = req[x].op /\ held.diary = req[x].diary
            /\ held.file = req[x].file /\ held.fields = req[x].fields
            /\ held.before = req[x].before /\ held.todo = req[x].todo
            /\ held.removed = req[x].removed /\ held.kept = req[x].kept
        BY <3>1 DEF Request
      <4>3. req'[x] = held
        BY <2>1, <3>2
      <4> HIDE DEF held
      <4> QED
        BY <3>2, <4>1, <4>2, <4>3
    <3>3. CASE x \notin InFlight
      BY <2>1, <3>1, <3>3
    <3> QED
      BY <3>2, <3>3
  <2>4. req' \in [Requests -> Request]
    BY <2>3 DEF Crash
  <2> QED
    BY <2>1, <2>2, <2>3, <2>4
<1>3. \A x \in Requests : x \in InFlight <=> req[x].pc \in Working
  BY DEF InFlight
<1>4. /\ \A x \in Requests : Fixed(x)
      /\ \A x \in Requests : req'[x].pc \notin Working
      /\ \A x \in Requests : req'[x].pc = "ok" <=> req[x].pc = "ok"
      /\ \A x \in Requests : req'[x].pc = "idle" => req[x] = req'[x]
  <2>1. ASSUME NEW x \in Requests
        PROVE  /\ Fixed(x) /\ req'[x].pc \notin Working
               /\ req'[x].pc = "ok" <=> req[x].pc = "ok"
               /\ req'[x].pc = "idle" => req[x] = req'[x]
    <3>1. CASE x \in InFlight
      BY <3>1, <1>2, <1>3 DEF Fixed, Working, Answered
    <3>2. CASE x \notin InFlight
      BY <3>2, <1>2, <1>3 DEF Fixed, Working, Answered
    <3> QED
      BY <3>1, <3>2
  <2> QED
    BY <2>1
<1>5. /\ \A x \in Requests : Handled(x)' = Handled(x)
      /\ \A f : Settled(f) => Settled(f)'
      /\ Shown' = Shown
  BY <1>1, <1>2, <1>4 DEF Handled, Settled, Shown
<1>6. TypeOK'
  <2>1. InFlight' = {}
    BY <1>4 DEF InFlight
  <2>2. faults' \in 0..MaxFaults
    BY <1>1, DiaryAssumption DEF TypeOK, Fault
  <2> QED
    BY <2>1, <2>2, <1>1, <1>2 DEF TypeOK
<1>7. ASSUME NEW x \in Requests PROVE LocalOK(x)'
  <2>1. LocalOK(x)
    BY DEF DiaryInv, Locals
  <2>2. x \notin req'[x].before /\ \A q \in req'[x].before : req'[q].pc \in Answered
    BY <1>4, FixedLocals
  <2>3. req[x].op = "none" => req'[x].pc = "idle"
    BY <2>1, <1>4 DEF LocalOK, Fixed
  <2> QED
    BY <2>1, <2>2, <2>3, <1>1, <1>2, <1>4 DEF LocalOK
<1>8. Placed'
  <2>1. \A d \in DOMAIN diaries' : \A f \in diaries'[d].photos :
          Settled(f)' /\ (f \in Requests => req'[f].diary = d)
    BY <1>1, <1>2, <1>5 DEF DiaryInv, Placed
  <2>2. \A x \in Requests : \A f \in Handled(x)' : Settled(f)'
    BY <1>5 DEF DiaryInv, Placed
  <2>3. \A x \in Requests : req'[x].pc # "add" /\ req'[x].pc # "file"
    BY <1>4 DEF Working
  <2>4. \A x \in Requests : x \in stored' => req'[x].op = "upload" /\ req'[x].pc # "idle"
    BY <1>1, <1>2, <1>4 DEF DiaryInv, Placed
  <2> QED
    BY <2>1, <2>2, <2>3, <2>4 DEF Placed
<1>9. Removed'
  BY <1>1, <1>2, <1>5 DEF DiaryInv, Removed
<1>10. Deleting' /\ Copied'
  <2>1. \A x \in Requests : req'[x].pc \notin {"remove", "delete", "write"}
    BY <1>4 DEF Working
  <2> QED
    BY <2>1 DEF Deleting, Copied
<1>11. ShownIsStored'
  BY <1>1, <1>2, <1>4 DEF DiaryInv, ShownIsStored
<1>12. ASSUME NEW f \in stored' \ Shown' PROVE Unshown(f)'
  BY <1>1, <1>2, <1>4, <1>5, FixedLocals DEF DiaryInv, Unshown
<1>13. ASSUME NEW x \in Requests PROVE UploadKept(x)' /\ PatchKept(x)'
  <2>1. UploadKept(x)'
    BY <1>2, <1>4, <1>5 DEF DiaryInv, UploadKept
  <2>2. PatchKept(x)'
    BY <1>1, <1>2, <1>4, FixedLocals DEF DiaryInv, PatchKept
  <2> QED
    BY <2>1, <2>2
<1> QED
  BY <1>6, <1>7, <1>8, <1>9, <1>10, <1>11, <1>12, <1>13 DEF DiaryInv, Locals

\* Before the first request every file is stored, and shown by one diary.
LEMMA InitDiary == Init => DiaryInv
<1> SUFFICES ASSUME Init PROVE DiaryInv
  OBVIOUS
<1>1. Blank \in Row /\ Blank.photos = {}
  BY DEF Blank, Row, Writers
<1>2. PICK home \in issued :
        diaries = [d \in issued |->
                     IF d = home THEN [Blank EXCEPT !.photos = Album] ELSE Blank]
  BY DEF Init
<1>3. DOMAIN diaries = issued
  BY <1>2
<1>4. /\ diaries[home] = [Blank EXCEPT !.photos = Album]
      /\ \A d \in issued : d # home => diaries[d] = Blank
  BY <1>2
<1>5. diaries[home] \in Row /\ diaries[home].photos = Album
  BY <1>4 DEF Blank, Row, Writers, Files
<1>6. Shown = Album
  BY <1>1, <1>3, <1>4, <1>5 DEF Shown
<1>7. Fresh \in Request
  BY <1>1 DEF Fresh, Request
<1>8. \A r \in Requests : req[r] = Fresh
  BY DEF Init
<1>9. InFlight = {}
  BY <1>8 DEF InFlight, Fresh, Working
<1>10. TypeOK
  <2>1. req \in [Requests -> Request]
    BY <1>7 DEF Init
  <2>2. \A d \in DOMAIN diaries : diaries[d] \in Row
    BY <1>1, <1>3, <1>4, <1>5
  <2>3. \A d, e \in DOMAIN diaries :
          d # e => diaries[d].photos \cap diaries[e].photos = {}
    BY <1>1, <1>3, <1>4
  <2> QED
    BY <2>1, <2>2, <2>3, <1>3, <1>9, DiaryAssumption DEF Init, TypeOK, Files
<1>11. Locals
  BY <1>8 DEF Locals, LocalOK, Fresh
<1>12. \A f \in Album : Settled(f)
  BY DiaryAssumption DEF Settled
<1>13. Placed
  <2>1. \A d \in DOMAIN diaries : diaries[d].photos \subseteq Album
    BY <1>1, <1>3, <1>4, <1>5
  <2>2. \A r \in Requests : Handled(r) = {} /\ req[r].op = "none"
    BY <1>8 DEF Handled, Fresh
  <2> QED
    BY <2>1, <2>2, <1>12, DiaryAssumption DEF Placed, Init
<1>14. Removed /\ Deleting /\ Copied
  BY <1>8 DEF Removed, Deleting, Copied, Fresh
<1>15. ShownIsStored
  BY <1>6 DEF ShownIsStored, Shown, Init
<1>16. \A f \in stored \ Shown : Unshown(f)
  BY <1>6 DEF Init
<1>17. \A r \in Requests : UploadKept(r) /\ PatchKept(r)
  BY <1>8 DEF UploadKept, PatchKept, Fresh
<1> QED
  BY <1>10, <1>11, <1>13, <1>14, <1>15, <1>16, <1>17 DEF DiaryInv

\* The steps that end a request with an error are alike.
LEMMA EndsKeeps ==
  ASSUME DiaryInv, NEW r \in Requests, req[r].pc \in Working, Gone(r) \/ Fails(r),
         UNCHANGED <<remote, diaries, issued, stored>>
  PROVE  DiaryInv'
<1>1. faults' \in 0..MaxFaults
  BY DiaryAssumption DEF DiaryInv, TypeOK, Gone, Fails, Ok, Fault
<1> QED
  BY <1>1, ErrorKeeps DEF Gone, Fails

\* Every step keeps the invariant.
LEMMA StepDiary == DiaryInv /\ [Next]_vars => DiaryInv'
<1> SUFFICES ASSUME DiaryInv, [Next]_vars PROVE DiaryInv'
  OBVIOUS
<1>1. CASE UNCHANGED vars
  <2>1. /\ UNCHANGED <<remote, diaries, issued, stored, req, faults>>
    BY <1>1 DEF vars
  <2>2. TypeOK' /\ Locals' /\ Placed' /\ Removed' /\ Deleting'
    BY <2>1 DEF DiaryInv, TypeOK, InFlight, Locals, LocalOK, Placed, Settled, Removed,
                Deleting, Handled
  <2>3. Copied' /\ \A r \in Requests : PatchKept(r)'
    BY <2>1 DEF DiaryInv, Copied, PatchKept, Excuse, Overlap
  <2>4. ShownIsStored' /\ (\A f \in stored' \ Shown' : Unshown(f)')
        /\ \A r \in Requests : UploadKept(r)'
    BY <2>1 DEF DiaryInv, ShownIsStored, Shown, Unshown, UploadKept, Overlap
  <2> QED
    BY <2>2, <2>3, <2>4 DEF DiaryInv
<1>2. CASE Crash
  BY <1>2, CrashKeeps
<1>3. ASSUME NEW r \in Requests, Serve(r) PROVE DiaryInv'
  <2>1. ASSUME NEW d \in Diaries, CreateDiary(r, d) PROVE DiaryInv'
    BY <2>1, CreateKeeps
  <2>2. ASSUME NEW d \in Diaries, DeleteDiaryRead(r, d) PROVE DiaryInv'
    BY <2>2, DeleteReadKeeps
  <2>3. ASSUME NEW d \in Diaries, UploadPhotoRead(r, d) PROVE DiaryInv'
    BY <2>3, UploadReadKeeps
  <2>4. ASSUME NEW d \in Diaries, NEW fields \in SUBSET Fields \ {{}},
               UpdateDiaryRead(r, d, fields)
        PROVE  DiaryInv'
    BY <2>4, UpdateReadKeeps
  <2>5. ASSUME NEW d \in Diaries, NEW f \in Files, DeletePhotoFile(r, d, f)
        PROVE  DiaryInv'
    BY <2>5, DeletePhotoKeeps
  <2>6. CASE UpdateDiaryWrite(r)
    <3>1. At(r, "patch", "write") /\ UNCHANGED <<remote, issued, stored>>
          /\ req[r].pc \in Working
      BY <2>6 DEF UpdateDiaryWrite, At, Working
    <3>2. CASE /\ req[r].diary \in DOMAIN diaries
               /\ Update(req[r].diary, Patched(r, diaries[req[r].diary].photos))
               /\ Go(r, "ok") /\ Ok
      BY <3>1, <3>2, WriteKeeps
    <3>3. CASE (Gone(r) \/ Fails(r)) /\ UNCHANGED diaries
      BY <3>1, <3>3, EndsKeeps
    <3> QED
      BY Zenon, <2>6, <3>2, <3>3 DEF UpdateDiaryWrite
  <2>7. ASSUME NEW f \in Files, RemoveFile(r, f) PROVE DiaryInv'
    BY <2>7, RemoveKeeps
  <2>8. CASE DeleteDiaryRow(r)
    <3>1. At(r, "delete", "delete") /\ UNCHANGED <<remote, issued, stored>>
          /\ req[r].pc \in Working
      BY <2>8 DEF DeleteDiaryRow, At, Working
    <3>2. CASE /\ req[r].diary \in DOMAIN diaries
               /\ diaries' = [e \in DOMAIN diaries \ {req[r].diary} |-> diaries[e]]
               /\ Go(r, "ok") /\ Ok
      BY <3>1, <3>2, DeleteRowKeeps
    <3>3. CASE (Gone(r) \/ Fails(r)) /\ UNCHANGED diaries
      BY <3>1, <3>3, EndsKeeps
    <3> QED
      BY Zenon, <2>8, <3>2, <3>3 DEF DeleteDiaryRow
  <2>9. CASE UploadFile(r)
    <3>1. At(r, "upload", "file") /\ UNCHANGED <<remote, diaries, issued>>
          /\ req[r].op = "upload" /\ req[r].pc = "file" /\ req[r].pc \in Working
      BY <2>9 DEF UploadFile, At, Working
    <3>2. CASE stored' = stored \cup {r} /\ Go(r, "add") /\ Ok
      BY <3>1, <3>2, UploadKeeps
    <3>3. CASE Fails(r) /\ stored' \in {stored, stored \cup {r}}
      <4>1. faults' \in 0..MaxFaults
        BY <3>3, DiaryAssumption DEF DiaryInv, TypeOK, Fails, Fault
      <4> QED
        BY <3>1, <3>3, <4>1, ErrorKeeps DEF Fails
    <3> QED
      BY Zenon, <2>9, <3>2, <3>3 DEF UploadFile
  <2>10. CASE AddPhoto(r)
    <3>1. At(r, "upload", "add") /\ UNCHANGED <<remote, issued, stored>>
          /\ req[r].pc \in Working
      BY <2>10 DEF AddPhoto, At, Working
    <3>2. CASE /\ req[r].diary \in DOMAIN diaries
               /\ Update(req[r].diary,
                         [diaries[req[r].diary] EXCEPT !.photos = @ \cup {r}])
               /\ Go(r, "ok") /\ Ok
      BY <3>1, <3>2, AddKeeps
    <3>3. CASE (Gone(r) \/ Fails(r)) /\ UNCHANGED diaries
      BY <3>1, <3>3, EndsKeeps
    <3> QED
      BY Zenon, <2>10, <3>2, <3>3 DEF AddPhoto
  <2>11. CASE DeletePhotoRow(r)
    <3>1. At(r, "unlink", "row") /\ UNCHANGED <<remote, issued, stored>>
          /\ req[r].pc \in Working
      BY <2>11 DEF DeletePhotoRow, At, Working
    <3>2. CASE /\ req[r].diary \in DOMAIN diaries
               /\ Update(req[r].diary,
                         [diaries[req[r].diary] EXCEPT !.photos = @ \ {req[r].file}])
               /\ Go(r, "ok") /\ Ok
      BY <3>1, <3>2, UnlinkKeeps
    <3>3. CASE (Gone(r) \/ Fails(r)) /\ UNCHANGED diaries
      BY <3>1, <3>3, EndsKeeps
    <3> QED
      BY Zenon, <2>11, <3>2, <3>3 DEF DeletePhotoRow
  <2> QED
    BY Zenon, <1>3, <2>1, <2>2, <2>3, <2>4, <2>5, <2>6, <2>7, <2>8, <2>9, <2>10, <2>11
       DEF Serve
<1> QED
  BY <1>1, <1>2, <1>3 DEF Next, Finished

\* The invariant holds in every state that can be reached.
LEMMA DiaryInvariant == Spec => []DiaryInv
  BY InitDiary, StepDiary, PTL DEF Spec

\* Rows belong to identifiers handed out, a photo is in one diary at most, and
\* deleteDiary never stops with files of its list left to remove.
THEOREM DiaryTypeCorrect == Spec => []TypeOK
<1>1. DiaryInv => TypeOK
  BY DEF DiaryInv
<1> QED
  BY <1>1, DiaryInvariant, PTL

\* A diary shows a photo whose file is gone only because deleteDiary or
\* deleteDiaryPhoto removed it and stopped half way, or because the photo was
\* named under another diary.
THEOREM ShownFilesAreStored == Spec => []ShownIsStored
<1>1. DiaryInv => ShownIsStored
  BY DEF DiaryInv
<1> QED
  BY <1>1, DiaryInvariant, PTL

\* A file that no diary shows is an upload that is not done, or one whose
\* diary was being deleted, or a file whose removal failed.
THEOREM StoredFilesAreShown == Spec => []StoredIsShown
<1>1. DiaryInv => StoredIsShown
  BY DEF DiaryInv, StoredIsShown, Unshown
<1> QED
  BY <1>1, DiaryInvariant, PTL

\* What uploadDiaryPhoto and updateDiary answered stays: an uploaded photo is
\* shown until somebody deletes it or its diary, a patched field is lost only to
\* a later patch of it or to a patch that overlapped.
THEOREM AnsweredStays == Spec => []AnsweredIsKept
<1>1. DiaryInv => AnsweredIsKept
  <2> SUFFICES ASSUME DiaryInv, NEW r \in Requests, req[r].pc = "ok"
               PROVE  /\ req[r].op = "upload" /\ r \notin Shown
                           => \E q \in Requests :
                                \/ /\ req[q].op \in {"unlink"} /\ q \notin req[r].before
                                   /\ req[q].file = r
                                \/ /\ req[q].op \in {"delete"} /\ q \notin req[r].before
                                   /\ req[q].diary = req[r].diary
                      /\ req[r].op = "patch" /\ req[r].diary \in DOMAIN diaries
                           => \A field \in req[r].fields :
                                diaries[req[r].diary][field] # r
                                  => \E q \in Requests \ {r} :
                                       /\ req[q].op \in {"patch"} /\ q \notin req[r].before
                                       /\ req[q].diary = req[r].diary
                                       /\ (field \in req[q].fields) \/ Overlap(q, r)
    BY DEF AnsweredIsKept
  <2>1. UploadKept(r) /\ PatchKept(r)
    BY DEF DiaryInv
  <2>2. ASSUME req[r].op = "upload", r \notin Shown
        PROVE  \E q \in Requests :
                 \/ /\ req[q].op \in {"unlink"} /\ q \notin req[r].before
                    /\ req[q].file = r
                 \/ /\ req[q].op \in {"delete"} /\ q \notin req[r].before
                    /\ req[q].diary = req[r].diary
    BY <2>1, <2>2 DEF UploadKept
  <2>3. ASSUME req[r].op = "patch", req[r].diary \in DOMAIN diaries,
               NEW field \in req[r].fields, diaries[req[r].diary][field] # r
        PROVE  \E q \in Requests \ {r} :
                 /\ req[q].op \in {"patch"} /\ q \notin req[r].before
                 /\ req[q].diary = req[r].diary
                 /\ (field \in req[q].fields) \/ Overlap(q, r)
    BY <2>1, <2>3 DEF PatchKept, Excuse
  <2> QED
    BY <2>2, <2>3
<1> QED
  BY <1>1, DiaryInvariant, PTL
=============================================================================
