------------------------------ MODULE Accounts -------------------------------
(***************************************************************************)
(* Sign-in, set-up of a couple, invitations and the couple's settings      *)
(* (internal/handler/auth_handler.go, handler.go 2145-2195, pg_users.go,   *)
(* pg_invites.go).  A person signs in with a Google account, which has an  *)
(* address and a subject; a user row is found by the subject, or by the    *)
(* address when it is older than the subjects.                             *)
(*                                                                         *)
(* A user, a couple and an invitation are named after the request that     *)
(* inserts them; Home names those that were there before.  The repository  *)
(* shows no unique key on users and no definition of couple_invites, so    *)
(* the database refuses nothing here.                                      *)
(***************************************************************************)
EXTENDS Integers, FiniteSets

CONSTANTS
  Requests,      \* HTTP requests, each sent at most once
  People,        \* Google accounts
  Home,          \* the couple, its first user and its invitation that exist
  None,
  MaxInFlight,   \* bound on requests being served at once
  MaxFaults      \* bound on failed statements and process crashes

ASSUME AccountsAssumption ==
  /\ Home \notin Requests
  /\ None \notin Requests \cup People \cup {Home}
  /\ MaxInFlight \in Nat
  /\ MaxFaults \in Nat

VARIABLES
  users,     \* rows of users
  couples,   \* rows of couples: who chose the day the ledger's month starts
  invites,   \* rows of couple_invites
  req,       \* what each handler goroutine holds
  faults     \* failures so far

vars == <<users, couples, invites, req, faults>>

----------------------------------------------------------------------------
Names == Requests \cup {Home}
Roles == {"husband", "wife"}
Days == Names \cup {None}    \* None is the first of the month

\* by is the request that wrote the subject, through the invitation a user
\* was created with.
User == [couple : Names, role : Roles, email : People, sub : People \cup {None},
         by : Names \cup {None}, through : Names \cup {None}]

\* open says that the invitation is unused and has not expired.
Invite == [couple : Names, open : BOOLEAN]

Answered == {"ok", "new_user", "error", "lost"}
Working == {"email", "link", "invite", "role", "create", "mark",
            "couple", "user", "letter", "write"}

\* code is the invitation a callback carries, user the row it found, couple
\* and role those of the row it will insert; blind says that a statement
\* failed and its error was ignored.
Request == [pc : Working \cup {"idle"} \cup Answered,
            op : {"none", "callback", "setup", "invite", "settings"},
            person : People \cup {None}, code : Names \cup {None},
            user : Names \cup {None}, couple : Names \cup {None},
            role : Roles \cup {None}, day : Days, sets : BOOLEAN,
            blind : BOOLEAN, before : SUBSET Requests]

Fresh == [pc |-> "idle", op |-> "none", person |-> None, code |-> None,
          user |-> None, couple |-> None, role |-> None, day |-> None,
          sets |-> FALSE, blind |-> FALSE, before |-> {}]

InFlight == {r \in Requests : req[r].pc \in Working}

Ok == UNCHANGED faults
Fault == faults < MaxFaults /\ faults' = faults + 1

\* What a goroutine holds when it has read its request.
Signing(pc, op, person, code, role, blind) ==
  [pc |-> pc, op |-> op, person |-> person, code |-> code, user |-> None,
   couple |-> None, role |-> role, day |-> None, sets |-> FALSE, blind |-> blind,
   before |-> {}]

Settings(couple, day, sets, blind) ==
  [pc |-> "write", op |-> "settings", person |-> None, code |-> None, user |-> None,
   couple |-> couple, role |-> None, day |-> day, sets |-> sets, blind |-> blind,
   before |-> {}]

Begin(r, held) ==
  /\ req[r].pc = "idle"
  /\ Cardinality(InFlight) < MaxInFlight
  /\ req' = [req EXCEPT ![r] =
               [held EXCEPT !.before = {q \in Requests : req[q].pc \in Answered}]]

\* What it holds next.
Held(r, pc, user, couple, role, blind) ==
  [pc |-> pc, op |-> req[r].op, person |-> req[r].person, code |-> req[r].code,
   user |-> user, couple |-> couple, role |-> role, day |-> req[r].day,
   sets |-> req[r].sets, blind |-> blind, before |-> req[r].before]

\* What it held is gone when it ends; op, couple, sets and blind stay, for the
\* properties.
Ended(r, pc, blind) ==
  [pc |-> pc, op |-> req[r].op, person |-> None, code |-> None, user |-> None,
   couple |-> req[r].couple, role |-> None, day |-> None, sets |-> req[r].sets,
   blind |-> blind, before |-> req[r].before]

Go(r, held) == req' = [req EXCEPT ![r] = held]

Reply(r, pc) == Go(r, Ended(r, pc, req[r].blind))

At(r, op, pc) == req[r].op = op /\ req[r].pc = pc

\* A statement that fails and ends the request.
Fails(r) == Fault /\ Reply(r, "error")

Put(table, key, row) ==
  [k \in DOMAIN table \cup {key} |-> IF k = key THEN row ELSE table[k]]

----------------------------------------------------------------------------
(* authCallback. *)

BySub(p) == {u \in DOMAIN users : users[u].sub = p}
ByEmail(p) == {u \in DOMAIN users : users[u].email = p}

\* GetUserByGoogleSub; a row that is found is the user, whichever it is.
CallbackSub(r, p, code) ==
  /\ \/ BySub(p) # {} /\ Begin(r, Signing("ok", "callback", None, None, None, FALSE))
     \/ BySub(p) = {} /\ Begin(r, Signing("email", "callback", p, code, None, FALSE))
  /\ Ok
  /\ UNCHANGED <<users, couples, invites>>

CallbackEmail(r) ==
  LET p == req[r].person
  IN /\ At(r, "callback", "email")
     /\ \/ /\ \E u \in ByEmail(p) : Go(r, Held(r, "link", u, None, None, FALSE))
           /\ Ok
        \/ ByEmail(p) = {} /\ req[r].code = None /\ Reply(r, "new_user") /\ Ok
        \/ /\ ByEmail(p) = {} /\ req[r].code # None
           /\ Go(r, Held(r, "invite", None, None, None, FALSE))
           /\ Ok
        \/ Fails(r)
     /\ UNCHANGED <<users, couples, invites>>

\* UpdateUserGoogleSub.
Linked(r, u) ==
  [couple |-> users[u].couple, role |-> users[u].role, email |-> users[u].email,
   sub |-> req[r].person, by |-> r, through |-> users[u].through]

CallbackLink(r) ==
  /\ At(r, "callback", "link")
  /\ \/ /\ users' = Put(users, req[r].user, Linked(r, req[r].user))
        /\ Reply(r, "ok")
        /\ Ok
     \/ Fails(r) /\ UNCHANGED users
  /\ UNCHANGED <<couples, invites>>

Closed(i) == [couple |-> invites[i].couple, open |-> FALSE]

\* Faulty: a used invitation is found too.
CallbackInviteUsed(r) ==
  /\ At(r, "callback", "invite")
  /\ Go(r, Held(r, "role", None, invites[req[r].code].couple, None, FALSE))
  /\ Ok
  /\ UNCHANGED <<users, couples, invites>>

\* GetInviteByCode: the code of an unused invitation that has not expired.
\* Nothing else looks at the time, so an invitation expires when it is looked
\* up too late.
CallbackInvite(r) ==
  LET i == req[r].code
  IN /\ At(r, "callback", "invite")
     /\ \/ /\ invites[i].open
           /\ Go(r, Held(r, "role", None, invites[i].couple, None, FALSE))
           /\ Ok
           /\ UNCHANGED invites
        \/ /\ invites' = Put(invites, i, Closed(i))
           /\ Reply(r, "error")
           /\ Ok
        \/ Fails(r) /\ UNCHANGED invites
     /\ UNCHANGED <<users, couples>>

Taken(c) == {users[u].role : u \in {v \in DOMAIN users : users[v].couple = c}}

\* A third member is a wife.
FreeRole(taken) == IF "husband" \notin taken THEN "husband" ELSE "wife"

\* ListUsers; when it fails nobody is taken to be there.  No invitation
\* names a role.
CallbackRole(r) ==
  LET c == req[r].couple
  IN /\ At(r, "callback", "role")
     /\ \/ Go(r, Held(r, "create", None, c, FreeRole(Taken(c)), FALSE)) /\ Ok
        \/ Go(r, Held(r, "create", None, c, FreeRole({}), TRUE)) /\ Fault
     /\ UNCHANGED <<users, couples, invites>>

NewUser(r, through) ==
  [couple |-> req[r].couple, role |-> req[r].role, email |-> req[r].person,
   sub |-> req[r].person, by |-> r, through |-> through]

CallbackCreate(r) ==
  /\ At(r, "callback", "create")
  /\ \/ /\ users' = Put(users, r, NewUser(r, req[r].code))
        /\ Go(r, Held(r, "mark", None, req[r].couple, None, req[r].blind))
        /\ Ok
     \/ Fails(r) /\ UNCHANGED users
  /\ UNCHANGED <<couples, invites>>

\* MarkInviteUsed, whose error is ignored.
CallbackMark(r) ==
  LET i == req[r].code
  IN /\ At(r, "callback", "mark")
     /\ \/ invites' = Put(invites, i, Closed(i)) /\ Reply(r, "ok") /\ Ok
        \/ Go(r, Ended(r, "ok", TRUE)) /\ Fault /\ UNCHANGED invites
     /\ UNCHANGED <<users, couples>>

----------------------------------------------------------------------------
(* authSetup: a couple, its first user, and an invitation for the partner. *)

\* When the lookup fails nobody is taken to be there.
SetupLookup(r, p, role) ==
  /\ \/ /\ BySub(p) = {}
        /\ Begin(r, Signing("couple", "setup", p, None, role, FALSE))
        /\ Ok
     \/ Begin(r, Signing("couple", "setup", p, None, role, TRUE)) /\ Fault
  /\ UNCHANGED <<users, couples, invites>>

\* Faulty: the couple is left for later.
SetupCoupleSkipped(r) ==
  /\ At(r, "setup", "couple")
  /\ Go(r, Held(r, "user", None, r, req[r].role, req[r].blind))
  /\ Ok
  /\ UNCHANGED <<users, couples, invites>>

SetupCouple(r) ==
  /\ At(r, "setup", "couple")
  /\ \/ /\ couples' = Put(couples, r, None)
        /\ Go(r, Held(r, "user", None, r, req[r].role, req[r].blind))
        /\ Ok
     \/ Fails(r) /\ UNCHANGED couples
  /\ UNCHANGED <<users, invites>>

SetupUser(r) ==
  /\ At(r, "setup", "user")
  /\ \/ /\ users' = Put(users, r, NewUser(r, None))
        /\ Go(r, Held(r, "letter", None, r, None, req[r].blind))
        /\ Ok
     \/ Fails(r) /\ UNCHANGED users
  /\ UNCHANGED <<couples, invites>>

NewInvite(c) == [couple |-> c, open |-> TRUE]

SetupInvite(r) ==
  /\ At(r, "setup", "letter")
  /\ \/ /\ invites' = Put(invites, r, NewInvite(req[r].couple))
        /\ Reply(r, "ok")
        /\ Ok
     \/ Fails(r) /\ UNCHANGED invites
  /\ UNCHANGED <<users, couples>>

\* createInvite, by a user of the couple.  Nothing looks how many they are.
CreateInvite(r, u) ==
  /\ Begin(r, Signing("ok", "invite", None, None, None, FALSE))
  /\ invites' = Put(invites, r, NewInvite(users[u].couple))
  /\ Ok
  /\ UNCHANGED <<users, couples>>

----------------------------------------------------------------------------
(* updateCouple. *)

\* A request that names no day reads the one there is; when that fails the
\* day is the first of the month.
UpdateCoupleRead(r, c) ==
  /\ \/ Begin(r, Settings(c, couples[c], FALSE, FALSE)) /\ Ok
     \/ Begin(r, Settings(c, None, FALSE, TRUE)) /\ Fault
  /\ UNCHANGED <<users, couples, invites>>

UpdateCoupleDay(r, c) ==
  /\ Begin(r, Settings(c, r, TRUE, FALSE))
  /\ Ok
  /\ UNCHANGED <<users, couples, invites>>

\* Faulty: a request that names no day resets it.
UpdateCoupleWriteFirst(r) ==
  /\ At(r, "settings", "write")
  /\ couples' = Put(couples, req[r].couple, IF req[r].sets THEN r ELSE None)
  /\ Reply(r, "ok")
  /\ Ok
  /\ UNCHANGED <<users, invites>>

UpdateCoupleWrite(r) ==
  /\ At(r, "settings", "write")
  /\ \/ /\ couples' = Put(couples, req[r].couple, req[r].day)
        /\ Reply(r, "ok")
        /\ Ok
     \/ Fails(r) /\ UNCHANGED couples
  /\ UNCHANGED <<users, invites>>

----------------------------------------------------------------------------
Crash ==
  /\ InFlight # {}
  /\ Fault
  /\ req' = [r \in Requests |->
               IF r \in InFlight THEN Ended(r, "lost", req[r].blind) ELSE req[r]]
  /\ UNCHANGED <<users, couples, invites>>

\* Every request has been answered: the model, not the server, stops.
Finished == (\A r \in Requests : req[r].pc \in Answered) /\ UNCHANGED vars

\* Nobody, or a couple of one, who may have joined before subjects were
\* stored, and an invitation for the partner.
Init ==
  /\ \/ users = [u \in {} |-> Fresh]
     \/ \E p \in People, sub \in {TRUE, FALSE}, role \in Roles :
          users = [u \in {Home} |->
                     [couple |-> Home, role |-> role, email |-> p,
                      sub |-> IF sub THEN p ELSE None,
                      by |-> IF sub THEN Home ELSE None, through |-> None]]
  /\ couples = [c \in DOMAIN users |-> None]
  /\ invites = [i \in DOMAIN users |-> NewInvite(Home)]
  /\ req = [r \in Requests |-> Fresh]
  /\ faults = 0

Serve(r) ==
  \/ \E p \in People :
       \/ \E code \in DOMAIN invites \cup {None} : CallbackSub(r, p, code)
       \/ \E role \in Roles : SetupLookup(r, p, role)
  \/ CallbackEmail(r) \/ CallbackLink(r)
  \/ CallbackInvite(r) \/ CallbackRole(r) \/ CallbackCreate(r) \/ CallbackMark(r)
  \/ SetupCouple(r) \/ SetupUser(r) \/ SetupInvite(r)
  \/ \E u \in DOMAIN users : CreateInvite(r, u)
  \/ \E c \in DOMAIN couples : UpdateCoupleRead(r, c) \/ UpdateCoupleDay(r, c)
  \/ UpdateCoupleWrite(r)

Next ==
  \/ \E r \in Requests : Serve(r)
  \/ Crash
  \/ Finished

Spec == Init /\ [][Next]_vars

----------------------------------------------------------------------------
\* Users and invitations belong to couples that exist, whatever fails; a
\* couple without a user is one whose set-up has not come so far, or failed
\* before it, so that repeating the set-up is not refused.
TypeOK ==
  /\ \A u \in DOMAIN users : u \in Names /\ users[u] \in User
  /\ DOMAIN couples \subseteq Names
  /\ \A c \in DOMAIN couples : couples[c] \in Days
  /\ \A i \in DOMAIN invites : i \in Names /\ invites[i] \in Invite
  /\ \A u \in DOMAIN users : users[u].couple \in DOMAIN couples
  /\ \A i \in DOMAIN invites : invites[i].couple \in DOMAIN couples
  /\ \A c \in DOMAIN couples \ DOMAIN users :
       c \in Requests /\ req[c].pc \in {"user", "error", "lost"}
  /\ req \in [Requests -> Request]
  /\ faults \in 0..MaxFaults

\* Home is before every request.
Overlap(q, r) ==
  {q, r} \subseteq Requests /\ q \notin req[r].before /\ r \notin req[q].before

\* An error was ignored, or the process stopped, on the way.
Marred(r) == r \in Requests /\ (req[r].blind \/ req[r].pc = "lost")

\* A person has two users, an invitation admits two, or a couple has two
\* husbands only through requests that overlapped, or after a lookup, a list
\* or a mark whose error was ignored, or a crash before the mark.  A second
\* wife found husband and wife.
SignUpsCollideOnlyOnOverlap ==
  \A u, v \in DOMAIN users : u # v =>
    LET x == users[u]
        y == users[v]
        Excused(q, r) == Overlap(q, r) \/ Marred(u) \/ Marred(v)
    IN /\ x.sub # None /\ x.sub = y.sub => Excused(x.by, y.by)
       /\ x.through # None /\ x.through = y.through => Excused(u, v)
       /\ x.couple = y.couple /\ x.role = y.role =>
            \/ Excused(u, v)
            \/ /\ x.role = "wife"
               /\ \E w \in DOMAIN users :
                    users[w].couple = x.couple /\ users[w].role = "husband"

\* The day a couple chose is kept until a later request names another, by
\* requests that name none too, except one that overlapped the choice or
\* could not read it.
StartDayKept ==
  \A q \in Requests :
    /\ req[q].op = "settings" /\ req[q].sets /\ req[q].pc = "ok"
    /\ couples[req[q].couple] # q
    => \E r \in Requests \ {q} :
         /\ req[r].op = "settings" /\ req[r].couple = req[q].couple
         /\ r \notin req[q].before
         /\ req[r].sets \/ req[r].blind \/ Overlap(q, r)

----------------------------------------------------------------------------
\* Whoever accepts an invitation gets the role that is still available: the
\* users of a couple are its two spouses.
SpousesDiffer ==
  \A u, v \in DOMAIN users :
    u # v /\ users[u].couple = users[v].couple => users[u].role # users[v].role
=============================================================================
