----------------------------- MODULE DiaryPhotos -----------------------------
(***************************************************************************)
(* The diary and its photos (internal/handler/handler.go, pg_diaries.go,   *)
(* storage/supabase.go).  A row of diaries lists the addresses of its      *)
(* photos, and the files are kept elsewhere: in an S3 bucket, or in a      *)
(* local directory when no bucket is configured.  No transaction spans the *)
(* two, and each handler takes its steps on them in an order of its own.   *)
(*                                                                         *)
(* An uploaded file has a random name, so it is named after its upload; an *)
(* address is the file it points to.  A text is the request that typed it. *)
(***************************************************************************)
EXTENDS Integers, FiniteSets

CONSTANTS
  Requests,      \* HTTP requests, each sent at most once
  Diaries,       \* identifiers the database may hand out
  Album,         \* photos that exist before the first request
  None,
  MaxInFlight,   \* bound on requests being served at once
  MaxFaults      \* bound on failed calls and process crashes

ASSUME DiaryAssumption ==
  /\ Requests \cap Album = {}
  /\ None \notin Requests \cup Album \cup Diaries
  /\ MaxInFlight \in Nat
  /\ MaxFaults \in Nat

VARIABLES
  remote,    \* whether photos go to the bucket (h.stor # nil)
  diaries,   \* rows of diaries, by identifier
  issued,    \* identifiers handed out so far
  stored,    \* files in the bucket or in the directory
  req,       \* what each handler goroutine holds
  faults     \* failures so far

vars == <<remote, diaries, issued, stored, req, faults>>

----------------------------------------------------------------------------
Files == Requests \cup Album
Writers == Requests \cup {None}
Fields == {"content", "mood"}

Row == [content : Writers, mood : Writers, photos : SUBSET Files]

Answered == {"ok", "error", "lost"}
Working == {"write", "file", "add", "row", "remove", "delete"}

\* row is the copy a patch or a delete has read, fields what a patch sets,
\* todo the files a delete still has to remove.  kept and removed record the
\* files it failed to remove and those it removed.
Request == [pc : Working \cup {"idle"} \cup Answered,
            op : {"none", "create", "patch", "delete", "upload", "unlink"},
            diary : Diaries \cup {None}, file : Files \cup {None},
            fields : SUBSET Fields, row : Row, todo : SUBSET Files,
            kept : SUBSET Files, removed : SUBSET Files,
            before : SUBSET Requests]

Blank == [content |-> None, mood |-> None, photos |-> {}]

Fresh == [pc |-> "idle", op |-> "none", diary |-> None, file |-> None,
          fields |-> {}, row |-> Blank, todo |-> {}, kept |-> {},
          removed |-> {}, before |-> {}]

InFlight == {r \in Requests : req[r].pc \in Working}

Ok == UNCHANGED faults
Fault == faults < MaxFaults /\ faults' = faults + 1

CanOpen(r) == req[r].pc = "idle" /\ Cardinality(InFlight) < MaxInFlight

\* What the goroutines hold when that of r, for diary d, has come to step pc.
Open(r, op, pc, d) ==
  [req EXCEPT ![r].pc = pc, ![r].op = op, ![r].diary = d,
              ![r].before = {q \in Requests : req[q].pc \in Answered}]

\* A goroutine that ends drops its copy of the row.
Go(r, pc) ==
  req' = [req EXCEPT ![r].pc = pc, ![r].row = IF pc \in Answered THEN Blank ELSE @]

At(r, op, pc) == req[r].op = op /\ req[r].pc = pc

\* A call that fails and ends the request.
Fails(r) == Fault /\ Go(r, "error")

\* An UPDATE or DELETE of a row that is gone affects nothing: an error too.
Gone(r) == req[r].diary \notin DOMAIN diaries /\ Go(r, "error") /\ Ok

Update(d, row) == diaries' = [diaries EXCEPT ![d] = row]

----------------------------------------------------------------------------
(* createDiary, updateDiary. *)

\* One INSERT, always without photos.
CreateDiary(r, d) ==
  /\ d \notin issued
  /\ CanOpen(r)
  /\ req' = Open(r, "create", "ok", d)
  /\ diaries' = [e \in DOMAIN diaries \cup {d} |->
                   IF e = d THEN [content |-> r, mood |-> r, photos |-> {}]
                            ELSE diaries[e]]
  /\ issued' = issued \cup {d}
  /\ Ok
  /\ UNCHANGED <<remote, stored>>

UpdateDiaryRead(r, d, fields) ==
  /\ d \in DOMAIN diaries
  /\ CanOpen(r)
  /\ req' = [Open(r, "patch", "write", d) EXCEPT ![r].fields = fields,
                                                 ![r].row = diaries[d]]
  /\ Ok
  /\ UNCHANGED <<remote, diaries, issued, stored>>

\* The copy with the fields of the patch set.
Patched(r, photos) ==
  [content |-> IF "content" \in req[r].fields THEN r ELSE req[r].row.content,
   mood |-> IF "mood" \in req[r].fields THEN r ELSE req[r].row.mood,
   photos |-> photos]

\* Faulty: the whole copy is written back.
UpdateDiaryWriteWhole(r) ==
  /\ At(r, "patch", "write")
  /\ req[r].diary \in DOMAIN diaries
  /\ Update(req[r].diary, Patched(r, req[r].row.photos))
  /\ Go(r, "ok")
  /\ Ok
  /\ UNCHANGED <<remote, issued, stored>>

\* content and mood are written back, photos are not.
UpdateDiaryWrite(r) ==
  LET d == req[r].diary
  IN /\ At(r, "patch", "write")
     /\ \/ /\ d \in DOMAIN diaries
           /\ Update(d, Patched(r, diaries[d].photos))
           /\ Go(r, "ok")
           /\ Ok
        \/ Gone(r) /\ UNCHANGED diaries
        \/ Fails(r) /\ UNCHANGED diaries
     /\ UNCHANGED <<remote, issued, stored>>

----------------------------------------------------------------------------
(* deleteDiary: the files of the list it read, one by one, then the row. *)

\* Faulty: the loop does not end.
AfterRemoveAgain(todo) == "remove"

AfterRemove(todo) == IF todo = {} THEN "delete" ELSE "remove"

\* Faulty: only the row goes.
DeleteDiaryReadRowOnly(r, d) ==
  /\ d \in DOMAIN diaries
  /\ CanOpen(r)
  /\ req' = Open(r, "delete", "delete", d)
  /\ Ok
  /\ UNCHANGED <<remote, diaries, issued, stored>>

DeleteDiaryRead(r, d) ==
  /\ d \in DOMAIN diaries
  /\ CanOpen(r)
  /\ req' = [Open(r, "delete", AfterRemove(diaries[d].photos), d)
               EXCEPT ![r].row = diaries[d], ![r].todo = diaries[d].photos]
  /\ Ok
  /\ UNCHANGED <<remote, diaries, issued, stored>>

\* An error of the removal is ignored, whether the file stays or, in the
\* bucket, went all the same.
RemoveFile(r, f) ==
  LET todo == req[r].todo \ {f}
      next == [req EXCEPT ![r].pc = AfterRemove(todo), ![r].todo = todo]
  IN /\ At(r, "delete", "remove")
     /\ f \in req[r].todo
     /\ \/ /\ stored' = stored \ {f}
           /\ req' = [next EXCEPT ![r].removed = @ \cup {f}]
           /\ Ok \/ (remote /\ Fault)
        \/ /\ Fault
           /\ req' = [next EXCEPT ![r].kept = @ \cup {f}]
           /\ UNCHANGED stored
     /\ UNCHANGED <<remote, diaries, issued>>

DeleteDiaryRow(r) ==
  LET d == req[r].diary
  IN /\ At(r, "delete", "delete")
     /\ \/ /\ d \in DOMAIN diaries
           /\ diaries' = [e \in DOMAIN diaries \ {d} |-> diaries[e]]
           /\ Go(r, "ok")
           /\ Ok
        \/ Gone(r) /\ UNCHANGED diaries
        \/ Fails(r) /\ UNCHANGED diaries
     /\ UNCHANGED <<remote, issued, stored>>

----------------------------------------------------------------------------
(* uploadDiaryPhoto: the diary is looked up, the file stored, the address  *)
(* appended to the row.                                                    *)

UploadPhotoRead(r, d) ==
  /\ d \in DOMAIN diaries
  /\ CanOpen(r)
  /\ req' = [Open(r, "upload", "file", d) EXCEPT ![r].file = r]
  /\ Ok
  /\ UNCHANGED <<remote, diaries, issued, stored>>

\* A call to the bucket that fails may have stored the file all the same.
UploadFile(r) ==
  /\ At(r, "upload", "file")
  /\ \/ stored' = stored \cup {r} /\ Go(r, "add") /\ Ok
     \/ Fails(r) /\ stored' \in {stored, stored \cup {r}}
  /\ UNCHANGED <<remote, diaries, issued>>

\* array_append on the row as it is now.
AddPhoto(r) ==
  LET d == req[r].diary
  IN /\ At(r, "upload", "add")
     /\ \/ /\ d \in DOMAIN diaries
           /\ Update(d, [diaries[d] EXCEPT !.photos = @ \cup {r}])
           /\ Go(r, "ok")
           /\ Ok
        \/ Gone(r) /\ UNCHANGED diaries
        \/ Fails(r) /\ UNCHANGED diaries
     /\ UNCHANGED <<remote, issued, stored>>

----------------------------------------------------------------------------
(* deleteDiaryPhoto: a file name and a diary from the path, which nothing  *)
(* compares.  The file goes first; only the bucket's errors are looked at. *)

\* The client takes a name from a list it was shown.
Shown == UNION {diaries[d].photos : d \in DOMAIN diaries}

FileGone(r, d, f, pc) ==
  /\ req' = [Open(r, "unlink", pc, d) EXCEPT ![r].file = f, ![r].removed = {f}]
  /\ stored' = stored \ {f}

\* An error of the bucket ends the request, also when the file is gone.
DeletePhotoFile(r, d, f) ==
  /\ f \in Shown
  /\ CanOpen(r)
  /\ \/ FileGone(r, d, f, "row") /\ Ok
     \/ remote /\ FileGone(r, d, f, "error") /\ Fault
     \/ /\ Fault
        /\ req' = [Open(r, "unlink", IF remote THEN "error" ELSE "row", d)
                     EXCEPT ![r].file = f, ![r].kept = {f}]
        /\ UNCHANGED stored
  /\ UNCHANGED <<remote, diaries, issued>>

\* Faulty: only the file goes.
DeletePhotoRowSkipped(r) ==
  /\ At(r, "unlink", "row")
  /\ Go(r, "ok")
  /\ Ok
  /\ UNCHANGED <<remote, diaries, issued, stored>>

\* array_remove: it succeeds whether or not the row lists the photo.
DeletePhotoRow(r) ==
  LET d == req[r].diary
  IN /\ At(r, "unlink", "row")
     /\ \/ /\ d \in DOMAIN diaries
           /\ Update(d, [diaries[d] EXCEPT !.photos = @ \ {req[r].file}])
           /\ Go(r, "ok")
           /\ Ok
        \/ Gone(r) /\ UNCHANGED diaries
        \/ Fails(r) /\ UNCHANGED diaries
     /\ UNCHANGED <<remote, issued, stored>>

----------------------------------------------------------------------------
Crash ==
  /\ InFlight # {}
  /\ Fault
  /\ req' = [r \in Requests |->
               IF r \in InFlight THEN [req[r] EXCEPT !.pc = "lost"] ELSE req[r]]
  /\ UNCHANGED <<remote, diaries, issued, stored>>

\* Every request has been answered, or nothing is left to ask for: the model,
\* not the server, stops.
Finished ==
  /\ InFlight = {}
  /\ \/ \A r \in Requests : req[r].pc \in Answered
     \/ DOMAIN diaries = {} /\ issued = Diaries
  /\ UNCHANGED vars

\* Some diaries; one of them has the photos of the album.
Init ==
  /\ remote \in BOOLEAN
  /\ issued \in SUBSET Diaries
  /\ \E home \in issued :
       diaries = [d \in issued |->
                    IF d = home THEN [Blank EXCEPT !.photos = Album] ELSE Blank]
  /\ stored = Album
  /\ req = [r \in Requests |-> Fresh]
  /\ faults = 0

Serve(r) ==
  \/ \E d \in Diaries :
       \/ CreateDiary(r, d) \/ DeleteDiaryRead(r, d) \/ UploadPhotoRead(r, d)
       \/ \E fields \in SUBSET Fields \ {{}} : UpdateDiaryRead(r, d, fields)
       \/ \E f \in Files : DeletePhotoFile(r, d, f)
  \/ UpdateDiaryWrite(r)
  \/ (\E f \in Files : RemoveFile(r, f)) \/ DeleteDiaryRow(r)
  \/ UploadFile(r) \/ AddPhoto(r)
  \/ DeletePhotoRow(r)

Next == (\E r \in Requests : Serve(r)) \/ Crash \/ Finished

Spec == Init /\ [][Next]_vars

----------------------------------------------------------------------------
\* Rows belong to identifiers handed out, a photo is in one diary at most,
\* and a goroutine that removes files holds a list it has not finished.
TypeOK ==
  /\ remote \in BOOLEAN
  /\ issued \subseteq Diaries
  /\ DOMAIN diaries \subseteq issued
  /\ \A d \in DOMAIN diaries : diaries[d] \in Row
  /\ \A d, e \in DOMAIN diaries :
       d # e => diaries[d].photos \cap diaries[e].photos = {}
  /\ stored \subseteq Files
  /\ req \in [Requests -> Request]
  /\ \A r \in InFlight : req[r].pc = "remove" <=> req[r].todo # {}
  /\ faults \in 0..MaxFaults

Overlap(q, r) == q \notin req[r].before /\ r \notin req[q].before

\* A diary shows a photo whose file is gone only while, or after, a request
\* to delete either stopped half way: nothing else removes a file that is
\* shown, unless the photo was named under another diary than its own.
ShownIsStored ==
  \A d \in DOMAIN diaries : \A f \in diaries[d].photos \ stored :
    \E r \in Requests :
      /\ f \in req[r].removed
      /\ \/ req[r].pc # "ok"
         \/ req[r].op = "unlink" /\ req[r].diary # d

\* A file nobody shows was left by a request that failed or is not done yet,
\* by a removal whose error was ignored, or by an upload to a diary that was
\* being deleted at the same time.
StoredIsShown ==
  \A f \in stored \ Shown :
    \/ \E r \in Requests : f \in req[r].kept
    \/ /\ f \in Requests
       /\ \/ req[f].pc # "ok"
          \/ \E r \in Requests :
               /\ req[r].op = "delete" /\ req[r].diary = req[f].diary
               /\ Overlap(f, r)

\* What was answered with success is there: an uploaded photo until somebody
\* deletes it or its diary later or at the same time, whoever patches the
\* diary meanwhile; a patched field until a later patch sets it, or until a
\* patch of anything in that diary that overlapped writes back what it read.
AnsweredIsKept ==
  \A r \in Requests : req[r].pc = "ok" =>
    LET d == req[r].diary
        On(q, ops) == req[q].op \in ops /\ q \notin req[r].before
    IN /\ req[r].op = "upload" /\ r \notin Shown
            => \E q \in Requests :
                 \/ On(q, {"unlink"}) /\ req[q].file = r
                 \/ On(q, {"delete"}) /\ req[q].diary = d
       /\ req[r].op = "patch" /\ d \in DOMAIN diaries
            => \A field \in req[r].fields :
                 diaries[d][field] # r
                   => \E q \in Requests \ {r} :
                        /\ On(q, {"patch"}) /\ req[q].diary = d
                        /\ (field \in req[q].fields) \/ Overlap(q, r)
=============================================================================
