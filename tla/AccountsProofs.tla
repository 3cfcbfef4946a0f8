---------------------------- MODULE AccountsProofs ---------------------------
(***************************************************************************)
(* Proofs about Accounts, for every set of requests and people and any     *)
(* number of failures.  Nothing is locked and the tables refuse nothing,   *)
(* so two requests that overlap can collide.  What is proved is that       *)
(* requests one after the other do not: each looks before it inserts, and  *)
(* whatever appears after it has looked was written by a request it        *)
(* overlaps with.                                                         *)
(***************************************************************************)
EXTENDS Accounts, TLAPS

Waiting == {"email", "link", "invite", "role", "create"}

\* The couples whose first user is there.
Founded == DOMAIN users \cap DOMAIN couples

\* What a goroutine holds fits its operation and step.
LocalOK(r) ==
  /\ req[r].pc = "idle" => req[r] = Fresh
  /\ req[r].op = "none" => req[r].pc = "idle"
  /\ req[r].op = "callback" => req[r].pc \in Waiting \cup {"mark"} \cup Answered
  /\ req[r].op = "setup" => req[r].pc \in {"couple", "user", "letter"} \cup Answered
  /\ req[r].op = "invite" => req[r].pc \in Answered
  /\ req[r].op = "settings" => req[r].pc \in {"write"} \cup Answered
  /\ req[r].pc \in {"email", "link", "invite", "role"} => ~req[r].blind

\* It refers to rows that are there.
RefersOK(r) ==
  /\ req[r].pc \in Waiting \cup {"couple", "user"} => req[r].person \in People
  /\ req[r].pc = "link" => req[r].user \in DOMAIN users
  /\ req[r].pc = "email" => req[r].code \in DOMAIN invites \cup {None}
  /\ req[r].pc \in {"invite", "role", "create"} => req[r].code \in DOMAIN invites
  /\ req[r].pc \in {"role", "create"} => req[r].couple \in Founded
  /\ req[r].pc \in {"create", "couple", "user"} => req[r].role \in Roles
  /\ req[r].pc = "mark" =>
       r \in DOMAIN users /\ req[r].code = users[r].through /\ req[r].code # None
  /\ req[r].pc \in {"user", "letter"} => req[r].couple = r
  /\ req[r].pc = "user" => r \in DOMAIN couples
  /\ req[r].pc = "letter" => r \in Founded
  /\ req[r].op = "settings" => req[r].couple \in DOMAIN couples
  /\ req[r].pc = "write" /\ req[r].sets => req[r].day = r

\* Only requests that have been answered began before it.
BeforeOK(r) == \A q \in req[r].before : q # r /\ req[q].pc \in Answered

\* A row is named after a request that has inserted it, and a couple is the
\* couple of the user that was inserted with it.
Named ==
  /\ \A u \in DOMAIN users :
       /\ u # Home => req[u].pc \in {"mark", "letter"} \cup Answered
       /\ users[u].by \in Requests => req[users[u].by].op # "none"
  /\ \A c \in DOMAIN couples : c # Home => req[c].op = "setup" /\ req[c].pc # "couple"
  /\ \A i \in DOMAIN invites : i # Home => req[i].pc = "ok"
  /\ \A u \in DOMAIN users : users[u].couple \in Founded
  /\ \A i \in DOMAIN invites : invites[i].couple \in Founded
  /\ \A u \in DOMAIN users : users[u].through # None =>
       users[u].through \in DOMAIN invites /\ u # Home

\* The three ways in which sign-ups could collide.
SubsApart ==
  \A u, v \in DOMAIN users :
    u # v /\ users[u].sub # None /\ users[u].sub = users[v].sub =>
      Overlap(users[u].by, users[v].by) \/ Marred(u) \/ Marred(v)

LettersApart ==
  \A u, v \in DOMAIN users :
    u # v /\ users[u].through # None /\ users[u].through = users[v].through =>
      Overlap(u, v) \/ Marred(u) \/ Marred(v)

\* c has a husband.
Husband(c) == \E w \in DOMAIN users : users[w].couple = c /\ users[w].role = "husband"

RolesApart ==
  \A u, v \in DOMAIN users :
    u # v /\ users[u].couple = users[v].couple /\ users[u].role = users[v].role =>
      \/ Overlap(u, v) \/ Marred(u) \/ Marred(v)
      \/ users[u].role = "wife" /\ Husband(users[u].couple)

\* Whoever has its person's subject by now overlaps with it.
SubOK(r) ==
  req[r].pc \in Waiting \cup {"couple", "user"} =>
    \A u \in DOMAIN users :
      users[u].sub = req[r].person => Overlap(users[u].by, r) \/ req[r].blind

\* Whoever has come through an open invitation is about to close it.
OpenOK ==
  \A u \in DOMAIN users :
    users[u].through # None /\ invites[users[u].through].open =>
      req[u].pc = "mark" \/ Marred(u)

\* Whoever has come through the invitation it has found open overlaps with it.
LetterOK(r) ==
  req[r].pc \in {"role", "create"} =>
    \A u \in DOMAIN users :
      users[u].through = req[r].code => Overlap(u, r) \/ Marred(u)

\* Whoever has the role that it found available overlaps with it.
RoleOK(r) ==
  req[r].pc = "create" =>
    \A u \in DOMAIN users :
      users[u].couple = req[r].couple /\ users[u].role = req[r].role =>
        \/ Overlap(u, r) \/ Marred(r)
        \/ req[r].role = "wife" /\ Husband(req[r].couple)

\* The choice that q has made has been superseded.
Superseded(q) ==
  \E r \in Requests \ {q} :
    /\ req[r].op = "settings" /\ req[r].couple = req[q].couple
    /\ r \notin req[q].before
    /\ req[r].sets \/ req[r].blind \/ Overlap(q, r)

\* q has chosen a day for the couple.
Chosen(q, c) ==
  req[q].op = "settings" /\ req[q].sets /\ req[q].pc = "ok" /\ req[q].couple = c

\* A request that names no day holds the last that was chosen before.
DayOK(r) ==
  req[r].pc = "write" /\ ~req[r].sets /\ ~req[r].blind =>
    \A q \in req[r].before :
      Chosen(q, req[r].couple) => req[r].day = q \/ Superseded(q)

\* The inductive invariant.
AccountsInv ==
  /\ TypeOK /\ Named
  /\ \A r \in Requests : LocalOK(r) /\ RefersOK(r) /\ BeforeOK(r)
  /\ SubsApart /\ \A r \in Requests : SubOK(r)
  /\ LettersApart /\ OpenOK /\ \A r \in Requests : LetterOK(r)
  /\ RolesApart /\ \A r \in Requests : RoleOK(r)
  /\ StartDayKept /\ \A r \in Requests : DayOK(r)

----------------------------------------------------------------------------
Done == {q \in Requests : req[q].pc \in Answered}

\* r begins.
Begins(r) ==
  /\ req' \in [Requests -> Request]
  /\ \A x \in Requests : x # r => req'[x] = req[x]
  /\ req[r].pc = "idle" /\ req'[r].pc # "idle" /\ req'[r].op # "none"
  /\ req'[r].before = Done

\* r goes on, to another step or to its answer.
Moves(r) ==
  /\ req' \in [Requests -> Request]
  /\ \A x \in Requests : x # r => req'[x] = req[x]
  /\ req[r].pc \in Working /\ req'[r].pc \in Working \cup Answered
  /\ req'[r].op = req[r].op /\ req'[r].before = req[r].before
  /\ req'[r].sets = req[r].sets /\ (req[r].blind => req'[r].blind)
  /\ req[r].op = "settings" => req'[r].couple = req[r].couple
  /\ req'[r].pc \notin Answered =>
       req'[r].person = req[r].person /\ req'[r].code = req[r].code

\* r writes the subject of the user u, and r is a user it inserts.
Wrote(r, u) ==
  /\ req[r].pc = "link" \/ (u = r /\ req[r].pc \in {"create", "user"})
  /\ users'[u].sub = req[r].person /\ users'[u].by = r

Joined(r) ==
  /\ Wrote(r, r)
  /\ users'[r].couple = req[r].couple /\ users'[r].role = req[r].role
  /\ \/ /\ req[r].pc = "create" /\ req'[r].pc = "mark"
        /\ users'[r].through = req[r].code
     \/ req[r].pc = "user" /\ req'[r].pc = "letter" /\ users'[r].through = None

\* What a step may do to users, ...
UsersStep(r) ==
  /\ DOMAIN users \subseteq DOMAIN users' /\ DOMAIN users' \subseteq DOMAIN users \cup {r}
  /\ \A u \in DOMAIN users' : users'[u] \in User
  /\ \A u \in DOMAIN users :
       /\ users'[u].couple = users[u].couple /\ users'[u].role = users[u].role
       /\ users'[u].through = users[u].through
       /\ (users'[u].sub = users[u].sub /\ users'[u].by = users[u].by) \/ Wrote(r, u)
  /\ r \in DOMAIN users' \ DOMAIN users => Joined(r)

\* ... to invitations ...
InvitesStep(r) ==
  /\ DOMAIN invites \subseteq DOMAIN invites'
  /\ DOMAIN invites' \subseteq DOMAIN invites \cup {r}
  /\ \A i \in DOMAIN invites' : invites'[i] \in Invite
  /\ \A i \in DOMAIN invites :
       /\ invites'[i].couple = invites[i].couple
       /\ invites'[i].open => invites[i].open
  /\ r \in DOMAIN invites' \ DOMAIN invites =>
       invites'[r].couple \in Founded /\ req'[r].pc = "ok"

\* ... and to couples.
CouplesStep(r) ==
  /\ DOMAIN couples \subseteq DOMAIN couples'
  /\ DOMAIN couples' \subseteq DOMAIN couples \cup {r}
  /\ \A c \in DOMAIN couples' : couples'[c] \in Days
  /\ \A c \in DOMAIN couples :
       \/ couples'[c] = couples[c]
       \/ /\ req[r].pc = "write" /\ req'[r].pc = "ok"
          /\ c = req[r].couple /\ couples'[c] = req[r].day
  /\ r \in DOMAIN couples' \ DOMAIN couples => req[r].pc = "couple" /\ req'[r].pc = "user"

\* What r has seen when it begins.
Seen(r) ==
  /\ req'[r].pc \in {"ok", "email", "couple", "write"}
  /\ req'[r].pc \in {"email", "couple"} =>
       \A u \in DOMAIN users : users[u].sub = req'[r].person => req'[r].blind
  /\ req'[r].pc = "write" /\ ~req'[r].sets /\ ~req'[r].blind =>
       req'[r].couple \in DOMAIN couples /\ req'[r].day = couples[req'[r].couple]
  /\ req'[r].op = "settings" => req'[r].pc = "write"

\* What it has seen when it goes on.
Found(r) ==
  /\ req'[r].pc \in Waiting => req[r].pc \in Waiting
  /\ req'[r].pc = "user" => req[r].pc = "couple" /\ r \in DOMAIN couples'
  /\ req'[r].pc \notin {"couple", "write"}
  /\ req'[r].pc = "role" => req[r].pc = "invite" /\ invites[req[r].code].open
  /\ req'[r].pc = "create" =>
       /\ req[r].pc = "role" /\ req'[r].couple = req[r].couple
       /\ \/ req'[r].blind
          \/ \A u \in DOMAIN users :
               users[u].couple = req'[r].couple /\ users[u].role = req'[r].role =>
                 req'[r].role = "wife" /\ Husband(req'[r].couple)
  /\ req[r].pc = "mark" =>
       /\ req'[r].pc = "ok"
       /\ req'[r].blind \/ ~invites'[req[r].code].open
  /\ req[r].pc = "letter" => req'[r].pc \in {"ok", "error"}
  /\ req[r].pc = "user" => r \in DOMAIN users' \/ req'[r].pc = "error"
  /\ req[r].pc = "write" /\ req'[r].pc = "ok" => couples'[req[r].couple] = req[r].day

Step(r) ==
  /\ (Begins(r) /\ Seen(r)) \/ (Moves(r) /\ Found(r))
  /\ UsersStep(r) /\ InvitesStep(r) /\ CouplesStep(r) /\ faults' \in 0..MaxFaults
  /\ LocalOK(r)' /\ RefersOK(r)'

\* What a step leaves as it is.
LEMMA StepFacts ==
  ASSUME AccountsInv, NEW r \in Requests, Begins(r) \/ Moves(r)
  PROVE  /\ TypeOK /\ req \in [Requests -> Request] /\ req' \in [Requests -> Request]
         /\ \A x \in Requests : x # r => req'[x] = req[x]
         /\ \A x \in Requests : req[x].op # "none" =>
              /\ req'[x].op = req[x].op /\ req'[x].before = req[x].before
              /\ req'[x].sets = req[x].sets
              /\ req[x].op = "settings" => req'[x].couple = req[x].couple
         /\ \A x \in Requests : BeforeOK(x)'
         /\ \A x \in Requests : req[x].pc # "idle" => req[x].op # "none"
         /\ \A x \in Requests : req'[x].before \subseteq Requests
         /\ \A x \in Requests : r \notin req[x].before /\ r \notin req'[x].before
<1>1. /\ TypeOK /\ req \in [Requests -> Request] /\ req' \in [Requests -> Request]
      /\ \A x \in Requests : x # r => req'[x] = req[x]
      /\ \A x \in Requests : req'[x].before \subseteq Requests
  BY DEF AccountsInv, TypeOK, Begins, Moves, Request
<1>2. req[r].pc \notin Answered
  BY DEF Begins, Moves, Answered, Working
<1>3. req[r].pc = "idle" => req[r].op = "none"
  BY DEF AccountsInv, LocalOK, Fresh
<1>4. \A x \in Requests : req[x].op # "none" =>
        /\ req'[x].op = req[x].op /\ req'[x].before = req[x].before
        /\ req'[x].sets = req[x].sets
        /\ req[x].op = "settings" => req'[x].couple = req[x].couple
  BY <1>1, <1>3 DEF Begins, Moves
<1>5. \A x \in Requests : r \notin req[x].before
  BY <1>2 DEF AccountsInv, BeforeOK
<1>6. \A x \in Requests : r \notin req'[x].before
  BY <1>1, <1>2, <1>5 DEF Begins, Moves, Done
<1>7. ASSUME NEW x \in Requests, NEW q \in req'[x].before
      PROVE  q # x /\ req'[q].pc \in Answered
  <2>1. q # r /\ q \in Requests /\ req'[q] = req[q]
    BY <1>1, <1>6, <1>7
  <2>2. CASE req'[x].before = req[x].before
    BY <1>7, <2>1, <2>2 DEF AccountsInv, BeforeOK
  <2>3. CASE req'[x].before = Done /\ x = r
    BY <1>7, <2>1, <2>3 DEF Done
  <2> QED
    BY <1>1, <2>2, <2>3 DEF Begins, Moves
<1>8. \A x \in Requests : req[x].pc # "idle" => req[x].op # "none"
  BY DEF AccountsInv, LocalOK
<1> QED
  BY <1>1, <1>4, <1>5, <1>6, <1>7, <1>8 DEF BeforeOK

\* An overlap, an ignored error and a loss stay what they are, and two requests
\* of which neither has been answered overlap.
LEMMA OverlapFacts ==
  ASSUME AccountsInv, NEW r \in Requests, Begins(r) \/ Moves(r)
  PROVE  /\ \A q, x : Overlap(q, x) /\ req[q].op # "none" /\ req[x].op # "none" =>
                        Overlap(q, x)'
         /\ \A x : Marred(x) => Marred(x)'
         /\ \A x \in Requests : req[x].pc \in Working => Overlap(r, x)' /\ Overlap(x, r)'
         /\ \A q, x : Overlap(q, x) <=> Overlap(x, q)
<1>1. /\ \A x \in Requests : x # r => req'[x] = req[x]
      /\ \A x \in Requests : req[x].op # "none" => req'[x].before = req[x].before
      /\ \A x \in Requests : req[x].pc # "idle" => req[x].op # "none"
      /\ \A x \in Requests : r \notin req[x].before /\ r \notin req'[x].before
  BY StepFacts
<1>2. \A q, x : Overlap(q, x) /\ req[q].op # "none" /\ req[x].op # "none" => Overlap(q, x)'
  BY <1>1 DEF Overlap
<1>3. ASSUME NEW x, Marred(x) PROVE Marred(x)'
  <2>1. CASE x = r
    <3>1. req[r].pc # "lost"
      BY DEF Begins, Moves, Working
    <3>2. req[r].blind
      BY <1>3, <2>1, <3>1 DEF Marred
    <3>3. req[r].pc # "idle"
      BY <3>2 DEF AccountsInv, LocalOK, Fresh
    <3> QED
      BY <2>1, <3>2, <3>3 DEF Begins, Moves, Marred
  <2>2. CASE x # r
    BY <1>1, <1>3, <2>2 DEF Marred
  <2> QED
    BY <2>1, <2>2
<1>4. ASSUME NEW x \in Requests, req[x].pc \in Working PROVE Overlap(r, x)' /\ Overlap(x, r)'
  <2>1. req[x].pc \notin Answered
    BY <1>4 DEF Working, Answered
  <2>2. x \notin req[r].before
    BY <2>1 DEF AccountsInv, BeforeOK
  <2>3. x \notin req'[r].before
    BY <2>1, <2>2 DEF Begins, Moves, Done
  <2> QED
    BY <1>1, <2>3 DEF Overlap
<1> QED
  BY <1>2, <1>3, <1>4 DEF Overlap

\* The rows, and what the goroutines hold.
LEMMA StepRows ==
  ASSUME AccountsInv, NEW r \in Requests, Step(r)
  PROVE  TypeOK' /\ Named' /\ \A x \in Requests : LocalOK(x)' /\ RefersOK(x)'
<1>1. /\ TypeOK /\ Named /\ req' \in [Requests -> Request]
      /\ \A x \in Requests : x # r => req'[x] = req[x]
      /\ \A x \in Requests : req[x].op # "none" => req'[x].op = req[x].op
      /\ LocalOK(r) /\ r # Home
  BY StepFacts, AccountsAssumption DEF Step, AccountsInv
<1>2. UsersStep(r) /\ InvitesStep(r) /\ CouplesStep(r) /\ faults' \in 0..MaxFaults
  BY DEF Step
<1>3. /\ Begins(r) => req[r].pc = "idle"
      /\ req[r].pc \in Working \cup {"idle"} /\ req[r].pc \notin Answered
      /\ req[r].pc = "idle" => req[r].op = "none"
  BY <1>1 DEF Step, Begins, Moves, Working, Answered, LocalOK, Fresh
<1>4. Founded \subseteq Founded'
  BY <1>2 DEF UsersStep, CouplesStep, Founded
<1>5. \A u \in DOMAIN users' : users'[u].couple \in Founded'
  <2> SUFFICES ASSUME NEW u \in DOMAIN users' PROVE users'[u].couple \in Founded'
    OBVIOUS
  <2>1. CASE u \in DOMAIN users
    BY <2>1, <1>1, <1>2, <1>4 DEF UsersStep, Named
  <2>2. CASE u \notin DOMAIN users
    <3>1. u = r /\ Joined(r) /\ RefersOK(r)
      BY <2>2, <1>2 DEF UsersStep, AccountsInv
    <3>2. CASE req[r].pc = "create"
      BY <3>1, <3>2, <1>4 DEF Joined, RefersOK
    <3>3. CASE req[r].pc = "user"
      BY <3>1, <3>3, <1>2 DEF Joined, RefersOK, CouplesStep, Founded
    <3> QED
      BY <3>1, <3>2, <3>3 DEF Joined
  <2> QED
    BY <2>1, <2>2
<1>6. \A i \in DOMAIN invites' : invites'[i].couple \in Founded'
  BY <1>1, <1>2, <1>4 DEF InvitesStep, Named
<1>7. \A u \in DOMAIN users' : u # Home => req'[u].pc \in {"mark", "letter"} \cup Answered
  <2> SUFFICES ASSUME NEW u \in DOMAIN users', u # Home
               PROVE  req'[u].pc \in {"mark", "letter"} \cup Answered
    OBVIOUS
  <2>1. CASE u # r
    <3>1. u \in DOMAIN users /\ u \in Requests
      BY <2>1, <1>1, <1>2 DEF UsersStep, TypeOK, Names
    <3> QED
      BY <3>1, <2>1, <1>1 DEF Named
  <2>2. CASE u = r /\ r \in DOMAIN users
    <3>1. req[r].pc \in {"mark", "letter"}
      BY <2>2, <1>1, <1>3 DEF Named
    <3> QED
      BY <3>1, <2>2 DEF Step, Begins, Found, Answered
  <2>3. CASE u = r /\ r \notin DOMAIN users
    BY <2>3, <1>2 DEF UsersStep, Joined
  <2> QED
    BY <2>1, <2>2, <2>3
<1>8. \A u \in DOMAIN users' :
        users'[u].by \in Requests => req'[users'[u].by].op # "none"
  <2> SUFFICES ASSUME NEW u \in DOMAIN users', users'[u].by \in Requests
               PROVE  req'[users'[u].by].op # "none"
    OBVIOUS
  <2>1. CASE Wrote(r, u)
    <3>1. req[r].op # "none"
      BY <2>1, <1>1 DEF Wrote, LocalOK
    <3> QED
      BY <2>1, <3>1, <1>1 DEF Wrote
  <2>2. CASE ~Wrote(r, u)
    <3>1. u \in DOMAIN users /\ users'[u].by = users[u].by
      BY <2>2, <1>2 DEF UsersStep, Joined
    <3> QED
      BY <2>2, <3>1, <1>1 DEF Named
  <2> QED
    BY <2>1, <2>2
<1>9. \A c \in DOMAIN couples' : c # Home => req'[c].op = "setup" /\ req'[c].pc # "couple"
  <2> SUFFICES ASSUME NEW c \in DOMAIN couples', c # Home
               PROVE  req'[c].op = "setup" /\ req'[c].pc # "couple"
    OBVIOUS
  <2>1. CASE c # r
    <3>1. c \in DOMAIN couples /\ c \in Requests
      BY <2>1, <1>1, <1>2 DEF CouplesStep, TypeOK, Names
    <3> QED
      BY <3>1, <2>1, <1>1 DEF Named
  <2>2. CASE c = r /\ r \in DOMAIN couples
    <3>1. req[r].op = "setup"
      BY <2>2, <1>1 DEF Named
    <3>2. Moves(r) /\ Found(r)
      BY <3>1, <1>3 DEF Step
    <3> QED
      BY <3>1, <3>2, <2>2 DEF Moves, Found
  <2>3. CASE c = r /\ r \notin DOMAIN couples
    <3>1. req[r].pc = "couple" /\ req'[r].pc = "user"
      BY <2>3, <1>2 DEF CouplesStep
    <3>2. req[r].op = "setup"
      BY <3>1, <1>1, <1>3 DEF LocalOK, Waiting, Answered, TypeOK, Request
    <3> QED
      BY <3>1, <3>2, <2>3, <1>1
  <2> QED
    BY <2>1, <2>2, <2>3
<1>10. \A i \in DOMAIN invites' : i # Home => req'[i].pc = "ok"
  <2> SUFFICES ASSUME NEW i \in DOMAIN invites', i # Home PROVE req'[i].pc = "ok"
    OBVIOUS
  <2>1. CASE i \in DOMAIN invites
    <3>1. i \in Requests /\ req[i].pc = "ok"
      BY <2>1, <1>1 DEF TypeOK, Named, Names
    <3>2. i # r
      BY <3>1, <1>3 DEF Answered
    <3> QED
      BY <3>1, <3>2, <1>1
  <2>2. CASE i \notin DOMAIN invites
    BY <2>2, <1>2 DEF InvitesStep
  <2> QED
    BY <2>1, <2>2
<1>11. \A u \in DOMAIN users' : users'[u].through # None =>
         users'[u].through \in DOMAIN invites' /\ u # Home
  <2> SUFFICES ASSUME NEW u \in DOMAIN users', users'[u].through # None
               PROVE  users'[u].through \in DOMAIN invites' /\ u # Home
    OBVIOUS
  <2>1. CASE u \in DOMAIN users
    BY <2>1, <1>1, <1>2 DEF UsersStep, InvitesStep, Named
  <2>2. CASE u \notin DOMAIN users
    <3>1. u = r /\ Joined(r) /\ RefersOK(r)
      BY <2>2, <1>2 DEF UsersStep, AccountsInv
    <3> QED
      BY <3>1, <1>1, <1>2 DEF Joined, RefersOK, InvitesStep
  <2> QED
    BY <2>1, <2>2
<1>12. \A c \in DOMAIN couples' \ DOMAIN users' :
         c \in Requests /\ req'[c].pc \in {"user", "error", "lost"}
  <2> SUFFICES ASSUME NEW c \in DOMAIN couples', c \notin DOMAIN users'
               PROVE  c \in Requests /\ req'[c].pc \in {"user", "error", "lost"}
    OBVIOUS
  <2>1. CASE c \in DOMAIN couples
    <3>1. c \in Requests /\ req[c].pc \in {"user", "error", "lost"}
      BY <2>1, <1>1, <1>2 DEF UsersStep, TypeOK
    <3>2. CASE c # r
      BY <3>1, <3>2, <1>1
    <3>3. CASE c = r
      <4>1. req[r].pc = "user"
        BY <3>1, <3>3, <1>3 DEF Answered
      <4> QED
        BY <4>1, <3>3, <1>3 DEF Step, Found, Begins
    <3> QED
      BY <3>2, <3>3
  <2>2. CASE c \notin DOMAIN couples
    BY <2>2, <1>2 DEF CouplesStep
  <2> QED
    BY <2>1, <2>2
<1>13. TypeOK'
  <2>1. \A u \in DOMAIN users' : u \in Names /\ users'[u] \in User
    BY <1>1, <1>2 DEF UsersStep, TypeOK, Names
  <2>2. DOMAIN couples' \subseteq Names /\ \A c \in DOMAIN couples' : couples'[c] \in Days
    BY <1>1, <1>2 DEF CouplesStep, TypeOK, Names
  <2>3. \A i \in DOMAIN invites' : i \in Names /\ invites'[i] \in Invite
    BY <1>1, <1>2 DEF InvitesStep, TypeOK, Names
  <2>4. /\ \A u \in DOMAIN users' : users'[u].couple \in DOMAIN couples'
        /\ \A i \in DOMAIN invites' : invites'[i].couple \in DOMAIN couples'
    BY <1>5, <1>6 DEF Founded
  <2> QED
    BY <1>1, <1>2, <1>12, <2>1, <2>2, <2>3, <2>4 DEF TypeOK
<1>14. Named'
  BY <1>5, <1>6, <1>7, <1>8, <1>9, <1>10, <1>11 DEF Named
<1>15. ASSUME NEW x \in Requests, x # r PROVE LocalOK(x)' /\ RefersOK(x)'
  <2>1. LocalOK(x) /\ RefersOK(x) /\ req'[x] = req[x]
    BY <1>1, <1>15 DEF AccountsInv
  <2>2. LocalOK(x)'
    BY <2>1 DEF LocalOK
  <2>3. RefersOK(x)'
    <3>1. /\ DOMAIN users \subseteq DOMAIN users' /\ DOMAIN couples \subseteq DOMAIN couples'
          /\ DOMAIN invites \subseteq DOMAIN invites'
          /\ \A u \in DOMAIN users : users'[u].through = users[u].through
      BY <1>2 DEF UsersStep, InvitesStep, CouplesStep
    <3> QED
      BY <2>1, <3>1, <1>4 DEF RefersOK
  <2> QED
    BY <2>2, <2>3
<1> QED
  BY <1>13, <1>14, <1>15 DEF Step

\* Who writes a subject has seen nobody with it, or ignored that it could not
\* look: whoever has written it since overlaps with it.
LEMMA StepSubs ==
  ASSUME AccountsInv, NEW r \in Requests, Step(r)
  PROVE  SubsApart' /\ \A x \in Requests : SubOK(x)'
<1>1. /\ TypeOK /\ Named /\ req' \in [Requests -> Request]
      /\ \A x \in Requests : x # r => req'[x] = req[x]
      /\ \A x \in Requests : r \notin req[x].before /\ r \notin req'[x].before
      /\ \A x \in Requests : req[x].pc # "idle" => req[x].op # "none"
  BY StepFacts DEF Step, AccountsInv
<1>2. /\ \A q, x : Overlap(q, x) /\ req[q].op # "none" /\ req[x].op # "none" =>
                     Overlap(q, x)'
      /\ \A x : Marred(x) => Marred(x)'
      /\ \A x \in Requests : req[x].pc \in Working => Overlap(r, x)' /\ Overlap(x, r)'
      /\ \A q, x : Overlap(q, x) <=> Overlap(x, q)
  BY OverlapFacts DEF Step
<1>3. UsersStep(r) /\ ((Begins(r) /\ Seen(r)) \/ (Moves(r) /\ Found(r)))
  BY DEF Step
<1>4. \A q, x : Overlap(q, x) => q \in Requests /\ x \in Requests
  BY DEF Overlap
<1>5. \A u \in DOMAIN users : users[u].by \in Requests => req[users[u].by].op # "none"
  BY <1>1 DEF Named
<1>6. \A u \in DOMAIN users' : ~Wrote(r, u) =>
        u \in DOMAIN users /\ users'[u].sub = users[u].sub /\ users'[u].by = users[u].by
  BY <1>3 DEF UsersStep, Joined, Step
<1>7. ASSUME NEW u \in DOMAIN users', NEW v \in DOMAIN users', u # v,
             Wrote(r, u), ~Wrote(r, v), users'[u].sub = users'[v].sub
      PROVE  Overlap(r, users[v].by)' \/ Marred(u)'
  <2>1. /\ v \in DOMAIN users /\ users[v].sub = req[r].person
        /\ users'[v].by = users[v].by /\ users'[v].sub = req[r].person
    BY <1>6, <1>7 DEF Wrote
  <2>2. SubOK(r) /\ req[r].pc \in {"link", "create", "user"} /\ LocalOK(r)
    BY <1>7 DEF AccountsInv, Wrote
  <2>3. Overlap(users[v].by, r) \/ req[r].blind
    BY <2>1, <2>2 DEF SubOK, Waiting
  <2>4. CASE Overlap(users[v].by, r)
    <3>1. req[r].op # "none"
      BY <1>1, <2>2
    <3>2. Overlap(users[v].by, r)'
      BY <2>4, <3>1, <1>2, <1>4, <1>5, <2>1
    <3> QED
      BY <3>2 DEF Overlap
  <2>5. CASE req[r].blind
    <3>1. req[r].pc # "link"
      BY <2>2, <2>5 DEF LocalOK
    <3>2. u = r
      BY <3>1, <1>7 DEF Wrote
    <3> QED
      BY <2>5, <3>2, <1>2 DEF Marred
  <2> QED
    BY <2>3, <2>4, <2>5
<1>8. Overlap(r, r)' \/ ~\E u : Wrote(r, u)
  <2>1. (\E u : Wrote(r, u)) => req[r].pc \in Working
    BY DEF Wrote, Working
  <2> QED
    BY <2>1, <1>2
<1>9. SubsApart'
  <2> SUFFICES ASSUME NEW u \in DOMAIN users', NEW v \in DOMAIN users', u # v,
                      users'[u].sub # None, users'[u].sub = users'[v].sub
               PROVE  Overlap(users[u].by, users[v].by)' \/ Marred(u)' \/ Marred(v)'
    BY DEF SubsApart, Overlap, Marred
  <2>1. CASE Wrote(r, u) /\ Wrote(r, v)
    BY <2>1, <1>8 DEF Wrote
  <2>2. CASE Wrote(r, u) /\ ~Wrote(r, v)
    <3>1. Overlap(r, users[v].by)' \/ Marred(u)'
      BY <2>2, <1>7
    <3> QED
      BY <2>2, <3>1 DEF Wrote
  <2>3. CASE ~Wrote(r, u) /\ Wrote(r, v)
    <3>1. Overlap(r, users[u].by)' \/ Marred(v)'
      BY <2>3, <1>7
    <3> QED
      BY <2>3, <3>1 DEF Wrote, Overlap
  <2>4. CASE ~Wrote(r, u) /\ ~Wrote(r, v)
    <3>1. /\ u \in DOMAIN users /\ users'[u].sub = users[u].sub /\ users'[u].by = users[u].by
          /\ v \in DOMAIN users /\ users'[v].sub = users[v].sub /\ users'[v].by = users[v].by
      BY <2>4, <1>6
    <3>2. Overlap(users[u].by, users[v].by) \/ Marred(u) \/ Marred(v)
      BY <3>1 DEF AccountsInv, SubsApart
    <3>3. Overlap(users[u].by, users[v].by) => Overlap(users[u].by, users[v].by)'
      BY <3>1, <1>2, <1>4, <1>5
    <3> QED
      BY <3>2, <3>3, <1>2
  <2> QED
    BY <2>1, <2>2, <2>3, <2>4
<1>10. ASSUME NEW x \in Requests PROVE SubOK(x)'
  <2> SUFFICES ASSUME req'[x].pc \in Waiting \cup {"couple", "user"},
                      NEW u \in DOMAIN users', users'[u].sub = req'[x].person
               PROVE  Overlap(users[u].by, x)' \/ req'[x].blind
    BY DEF SubOK, Overlap
  <2>1. CASE x = r /\ Begins(r) /\ Seen(r)
    <3>1. ~Wrote(r, u)
      BY <2>1 DEF Wrote, Begins
    <3> QED
      BY <2>1, <3>1, <1>6 DEF Seen, Waiting
  <2>2. CASE x # r \/ (Moves(r) /\ Found(r))
    <3>1. /\ req[x].pc \in Waiting \cup {"couple", "user"} /\ req'[x].person = req[x].person
          /\ req[x].blind => req'[x].blind
      BY <2>2, <1>1 DEF Moves, Found, Waiting, Answered
    <3>2. req[x].pc \in Working /\ req[x].op # "none"
      BY <3>1, <1>1 DEF Waiting, Working
    <3>3. CASE Wrote(r, u)
      BY <3>2, <3>3, <1>2 DEF Wrote
    <3>4. CASE ~Wrote(r, u)
      <4>1. /\ u \in DOMAIN users /\ users'[u].sub = users[u].sub
            /\ users'[u].by = users[u].by
        BY <3>4, <1>6
      <4>2. Overlap(users[u].by, x) \/ req[x].blind
        BY <3>1, <4>1 DEF AccountsInv, SubOK
      <4>3. Overlap(users[u].by, x) => Overlap(users[u].by, x)'
        BY <3>2, <4>1, <1>2, <1>4, <1>5
      <4> QED
        BY <3>1, <4>2, <4>3
    <3> QED
      BY <3>3, <3>4
  <2> QED
    BY <2>1, <2>2, <1>3
<1> QED
  BY <1>9, <1>10

\* Who comes through an invitation has found it open: whoever has come through
\* it since overlaps with it, or has not managed to close it.
LEMMA StepLetters ==
  ASSUME AccountsInv, NEW r \in Requests, Step(r)
  PROVE  LettersApart' /\ OpenOK' /\ \A x \in Requests : LetterOK(x)'
<1>1. /\ TypeOK /\ Named /\ req' \in [Requests -> Request]
      /\ \A x \in Requests : x # r => req'[x] = req[x]
      /\ \A x \in Requests : req[x].pc # "idle" => req[x].op # "none"
      /\ RefersOK(r) /\ None \notin Requests /\ Home \notin Requests
  BY StepFacts, AccountsAssumption DEF Step, AccountsInv
<1>2. /\ \A q, x : Overlap(q, x) /\ req[q].op # "none" /\ req[x].op # "none" =>
                     Overlap(q, x)'
      /\ \A x : Marred(x) => Marred(x)'
      /\ \A x \in Requests : req[x].pc \in Working => Overlap(r, x)' /\ Overlap(x, r)'
      /\ \A q, x : Overlap(q, x) <=> Overlap(x, q)
  BY OverlapFacts DEF Step
<1>3. /\ UsersStep(r) /\ InvitesStep(r)
      /\ \/ Begins(r) /\ Seen(r)
         \/ Moves(r) /\ Found(r)
  BY DEF Step
<1>4. \A q, x : Overlap(q, x) => q \in Requests /\ x \in Requests
  BY DEF Overlap
<1>5. \A u \in DOMAIN users : u \in Requests => req[u].op # "none"
  BY <1>1 DEF Named, Answered
<1>6. \A u \in DOMAIN users' :
        \/ u \in DOMAIN users /\ users'[u].through = users[u].through
        \/ u = r /\ u \notin DOMAIN users /\ Joined(r)
  BY <1>3 DEF UsersStep
<1>7. ASSUME NEW v \in DOMAIN users, Joined(r), users'[r].through # None,
             users[v].through = users'[r].through
      PROVE  Overlap(v, r)' \/ Marred(v)'
  <2>1. req[r].pc = "create" /\ users[v].through = req[r].code /\ req[r].op # "none"
    BY <1>1, <1>7 DEF Joined
  <2>2. Overlap(v, r) \/ Marred(v)
    BY <2>1 DEF AccountsInv, LetterOK
  <2> QED
    BY <2>1, <2>2, <1>2, <1>4, <1>5
<1>8. LettersApart'
  <2> SUFFICES ASSUME NEW u \in DOMAIN users', NEW v \in DOMAIN users', u # v,
                      users'[u].through # None, users'[u].through = users'[v].through
               PROVE  Overlap(u, v)' \/ Marred(u)' \/ Marred(v)'
    BY DEF LettersApart, Overlap, Marred
  <2>1. CASE /\ u \in DOMAIN users /\ users'[u].through = users[u].through
             /\ v \in DOMAIN users /\ users'[v].through = users[v].through
    <3>1. Overlap(u, v) \/ Marred(u) \/ Marred(v)
      BY <2>1 DEF AccountsInv, LettersApart
    <3> QED
      BY <2>1, <3>1, <1>2, <1>4, <1>5
  <2>2. CASE u = r /\ Joined(r) /\ v \in DOMAIN users /\ users'[v].through = users[v].through
    <3>1. Overlap(v, r)' \/ Marred(v)'
      BY <2>2, <1>7
    <3> QED
      BY <2>2, <3>1 DEF Overlap
  <2>3. CASE v = r /\ Joined(r) /\ u \in DOMAIN users /\ users'[u].through = users[u].through
    BY <2>3, <1>7
  <2> QED
    BY <2>1, <2>2, <2>3, <1>6
<1>9. OpenOK'
  <2> SUFFICES ASSUME NEW u \in DOMAIN users', users'[u].through # None,
                      invites'[users'[u].through].open
               PROVE  req'[u].pc = "mark" \/ Marred(u)'
    BY DEF OpenOK, Marred
  <2>1. CASE u \notin DOMAIN users
    BY <2>1, <1>6 DEF Joined
  <2>2. CASE u \in DOMAIN users
    <3>1. users[u].through \in DOMAIN invites /\ users'[u].through = users[u].through
      BY <2>2, <1>1, <1>6 DEF Named
    <3>2. req[u].pc = "mark" \/ Marred(u)
      BY <2>2, <3>1, <1>3 DEF AccountsInv, OpenOK, InvitesStep
    <3>3. u \in Requests
      BY <2>2, <3>1, <1>1 DEF Named, TypeOK, Names
    <3>4. CASE u = r /\ req[r].pc = "mark"
      <4>1. req'[r].blind
        BY <3>4, <3>1, <1>1, <1>3 DEF Begins, Found, RefersOK
      <4> QED
        BY <3>4, <4>1 DEF Marred
    <3>5. CASE u # r
      BY <3>2, <3>3, <3>5, <1>1, <1>2
    <3> QED
      BY <3>2, <3>4, <3>5, <1>2
  <2> QED
    BY <2>1, <2>2
<1>10. ASSUME NEW x \in Requests PROVE LetterOK(x)'
  <2> SUFFICES ASSUME req'[x].pc \in {"role", "create"},
                      NEW u \in DOMAIN users', users'[u].through = req'[x].code
               PROVE  Overlap(u, x)' \/ Marred(u)'
    BY DEF LetterOK, Overlap, Marred
  <2>1. /\ req[x].pc \in {"invite", "role", "create"} /\ req'[x].code = req[x].code
        /\ req'[x].pc = "role" /\ x = r => req[x].pc = "invite" /\ invites[req[x].code].open
        /\ x # r \/ req'[x].pc = "role" => req[x].pc = req'[x].pc \/ x = r
        /\ req'[x].pc = "create" => req[x].pc \in {"role", "create"}
    BY <1>1, <1>3 DEF Begins, Seen, Moves, Found, Answered
  <2>2. req[x].pc \in Working /\ req[x].op # "none" /\ RefersOK(x)
    BY <2>1, <1>1 DEF Working, AccountsInv
  <2>3. req[x].code \in DOMAIN invites /\ req[x].code # None
    BY <2>1, <2>2, <1>1, AccountsAssumption DEF RefersOK, TypeOK, Names
  <2>4. CASE u \notin DOMAIN users
    BY <2>2, <2>4, <1>2, <1>6
  <2>5. CASE u \in DOMAIN users /\ req[x].pc \in {"role", "create"}
    <3>1. Overlap(u, x) \/ Marred(u)
      BY <2>1, <2>5, <1>6 DEF AccountsInv, LetterOK
    <3> QED
      BY <2>2, <2>5, <3>1, <1>2, <1>4, <1>5
  <2>6. CASE u \in DOMAIN users /\ req[x].pc = "invite"
    <3>1. x = r /\ invites[req[x].code].open
      BY <2>1, <2>6, <1>1
    <3>2. users[u].through = req[x].code
      BY <2>1, <2>6, <1>6
    <3>3. req[u].pc = "mark" \/ Marred(u)
      BY <2>3, <2>6, <3>1, <3>2 DEF AccountsInv, OpenOK
    <3>4. u \in Requests
      BY <2>3, <2>6, <3>2, <1>1 DEF Named, TypeOK, Names
    <3>5. req[u].pc = "mark" => Overlap(u, r)'
      BY <3>4, <1>2 DEF Working
    <3> QED
      BY <3>1, <3>3, <3>5, <1>2
  <2> QED
    BY <2>1, <2>4, <2>5, <2>6
<1> QED
  BY <1>8, <1>9, <1>10

\* Who takes a role has found it free, or its couple complete, or ignored that
\* it could not look: whoever has taken it since overlaps with it.
LEMMA StepRoles ==
  ASSUME AccountsInv, NEW r \in Requests, Step(r)
  PROVE  RolesApart' /\ \A x \in Requests : RoleOK(x)'
<1>1. /\ TypeOK /\ Named /\ req' \in [Requests -> Request]
      /\ \A x \in Requests : x # r => req'[x] = req[x]
      /\ \A x \in Requests : req[x].pc # "idle" => req[x].op # "none"
      /\ RefersOK(r)
  BY StepFacts DEF Step, AccountsInv
<1>2. /\ \A q, x : Overlap(q, x) /\ req[q].op # "none" /\ req[x].op # "none" =>
                     Overlap(q, x)'
      /\ \A x : Marred(x) => Marred(x)'
      /\ \A x \in Requests : req[x].pc \in Working => Overlap(r, x)' /\ Overlap(x, r)'
      /\ \A q, x : Overlap(q, x) <=> Overlap(x, q)
  BY OverlapFacts DEF Step
<1>3. UsersStep(r) /\ ((Begins(r) /\ Seen(r)) \/ (Moves(r) /\ Found(r)))
  BY DEF Step
<1>4. \A q, x : Overlap(q, x) => q \in Requests /\ x \in Requests
  BY DEF Overlap
<1>5. \A u \in DOMAIN users : u \in Requests => req[u].op # "none"
  BY <1>1, AccountsAssumption DEF Named, Answered
<1>6. \A u \in DOMAIN users' :
        \/ /\ u \in DOMAIN users
           /\ users'[u].couple = users[u].couple /\ users'[u].role = users[u].role
        \/ u = r /\ u \notin DOMAIN users /\ Joined(r)
  BY <1>3 DEF UsersStep
<1>7. \A c : Husband(c) => \E w \in DOMAIN users' :
                             users'[w].couple = c /\ users'[w].role = "husband"
  <2> SUFFICES ASSUME NEW c, NEW w \in DOMAIN users, users[w].couple = c,
                      users[w].role = "husband"
               PROVE  \E v \in DOMAIN users' :
                        users'[v].couple = c /\ users'[v].role = "husband"
    BY DEF Husband
  <2> QED
    BY <1>3 DEF UsersStep
<1>8. ASSUME NEW v \in DOMAIN users, r \notin DOMAIN users, Joined(r),
             users[v].couple = users'[r].couple, users[v].role = users'[r].role
      PROVE  \/ Overlap(v, r)' \/ Marred(r)'
             \/ users'[r].role = "wife" /\ Husband(users'[r].couple)
  <2>1. CASE req[r].pc = "create"
    <3>1. \/ Overlap(v, r) \/ Marred(r)
          \/ users'[r].role = "wife" /\ Husband(users'[r].couple)
      BY <2>1, <1>8 DEF AccountsInv, RoleOK, Joined
    <3>2. req[r].op # "none"
      BY <2>1, <1>1
    <3> QED
      BY <3>1, <3>2, <1>2, <1>4, <1>5
  <2>2. CASE req[r].pc = "user"
    <3>1. users[v].couple = r
      BY <2>2, <1>1, <1>8 DEF Joined, RefersOK
    <3> QED
      BY <3>1, <1>1, <1>8 DEF Named, Founded
  <2> QED
    BY <2>1, <2>2, <1>8 DEF Joined
<1>9. RolesApart'
  <2> SUFFICES ASSUME NEW u \in DOMAIN users', NEW v \in DOMAIN users', u # v,
                      users'[u].couple = users'[v].couple, users'[u].role = users'[v].role
               PROVE  \/ Overlap(u, v)' \/ Marred(u)' \/ Marred(v)'
                      \/ /\ users'[u].role = "wife"
                         /\ \E w \in DOMAIN users' : /\ users'[w].couple = users'[u].couple
                                                     /\ users'[w].role = "husband"
    BY DEF RolesApart, Overlap, Marred, Husband
  <2>1. CASE u \in DOMAIN users /\ v \in DOMAIN users
    <3>1. /\ users'[u].couple = users[u].couple /\ users'[u].role = users[u].role
          /\ users'[v].couple = users[v].couple /\ users'[v].role = users[v].role
      BY <2>1, <1>6
    <3>2. \/ Overlap(u, v) \/ Marred(u) \/ Marred(v)
          \/ users[u].role = "wife" /\ Husband(users[u].couple)
      BY <2>1, <3>1 DEF AccountsInv, RolesApart
    <3>3. Overlap(u, v) => Overlap(u, v)'
      BY <2>1, <1>2, <1>4, <1>5
    <3> QED
      BY <3>1, <3>2, <3>3, <1>2, <1>7
  <2>2. CASE u \notin DOMAIN users
    <3>1. /\ u = r /\ Joined(r) /\ v \in DOMAIN users
          /\ users'[v].couple = users[v].couple /\ users'[v].role = users[v].role
      BY <2>2, <1>6
    <3>2. \/ Overlap(v, r)' \/ Marred(r)'
          \/ users'[r].role = "wife" /\ Husband(users'[r].couple)
      BY <2>2, <3>1, <1>8
    <3>3. Overlap(v, r)' => Overlap(u, v)'
      BY <3>1 DEF Overlap
    <3> QED
      BY <3>1, <3>2, <3>3, <1>7
  <2>3. CASE v \notin DOMAIN users
    <3>1. /\ v = r /\ Joined(r) /\ u \in DOMAIN users
          /\ users'[u].couple = users[u].couple /\ users'[u].role = users[u].role
      BY <2>3, <1>6
    <3>2. \/ Overlap(u, r)' \/ Marred(r)'
          \/ users'[r].role = "wife" /\ Husband(users'[r].couple)
      BY <2>3, <3>1, <1>8
    <3> QED
      BY <3>1, <3>2, <1>7
  <2> QED
    BY <2>1, <2>2, <2>3
<1>10. ASSUME NEW x \in Requests PROVE RoleOK(x)'
  <2> SUFFICES ASSUME req'[x].pc = "create", NEW u \in DOMAIN users',
                      users'[u].couple = req'[x].couple, users'[u].role = req'[x].role
               PROVE  \/ Overlap(u, x)' \/ Marred(x)'
                      \/ /\ req'[x].role = "wife"
                         /\ \E w \in DOMAIN users' : /\ users'[w].couple = req'[x].couple
                                                     /\ users'[w].role = "husband"
    BY DEF RoleOK, Overlap, Marred, Husband
  <2>1. req[x].pc \in {"role", "create"}
    BY <1>1, <1>3 DEF Seen, Found
  <2>2. req[x].pc \in Working /\ req[x].op # "none"
    BY <2>1, <1>1 DEF Working
  <2>3. CASE u \notin DOMAIN users
    BY <2>2, <2>3, <1>2, <1>6
  <2>4. CASE u \in DOMAIN users /\ x # r
    <3>1. users'[u].couple = users[u].couple /\ users'[u].role = users[u].role
      BY <2>4, <1>6
    <3>2. \/ Overlap(u, x) \/ Marred(x)
          \/ req[x].role = "wife" /\ Husband(req[x].couple)
      BY <2>4, <3>1, <1>1 DEF AccountsInv, RoleOK
    <3>3. Overlap(u, x) => Overlap(u, x)'
      BY <2>2, <2>4, <1>2, <1>4, <1>5
    <3> QED
      BY <2>4, <3>2, <3>3, <1>1, <1>2, <1>7
  <2>5. CASE u \in DOMAIN users /\ x = r
    <3>1. users'[u].couple = users[u].couple /\ users'[u].role = users[u].role
      BY <2>5, <1>6
    <3>2. req'[r].blind \/ (req'[r].role = "wife" /\ Husband(req'[r].couple))
      BY <2>5, <3>1, <1>3 DEF Seen, Found
    <3> QED
      BY <2>5, <3>2, <1>7 DEF Marred
  <2> QED
    BY <2>3, <2>4, <2>5
<1> QED
  BY <1>9, <1>10

\* A request that names no day writes the last that was chosen before it, or
\* one that has been superseded since.
LEMMA StepDays ==
  ASSUME AccountsInv, NEW r \in Requests, Step(r)
  PROVE  StartDayKept' /\ \A x \in Requests : DayOK(x)'
<1>1. /\ TypeOK /\ Named /\ req \in [Requests -> Request] /\ req' \in [Requests -> Request]
      /\ \A x \in Requests : x # r => req'[x] = req[x]
      /\ \A x \in Requests : req[x].op # "none" =>
           /\ req'[x].op = req[x].op /\ req'[x].before = req[x].before
           /\ req'[x].sets = req[x].sets
           /\ req[x].op = "settings" => req'[x].couple = req[x].couple
      /\ \A x \in Requests : req[x].pc # "idle" => req[x].op # "none"
      /\ \A x \in Requests : r \notin req[x].before /\ r \notin req'[x].before
      /\ \A x \in Requests : req'[x].before \subseteq Requests
      /\ \A x \in Requests : LocalOK(x) /\ RefersOK(x)
  BY StepFacts DEF Step, AccountsInv
<1>2. /\ \A q, x : Overlap(q, x) /\ req[q].op # "none" /\ req[x].op # "none" =>
                     Overlap(q, x)'
      /\ \A x \in Requests : req[x].pc \in Working => Overlap(r, x)' /\ Overlap(x, r)'
  BY OverlapFacts DEF Step
<1>3. CouplesStep(r) /\ ((Begins(r) /\ Seen(r)) \/ (Moves(r) /\ Found(r)))
  BY DEF Step
<1>4. ASSUME NEW q \in Requests, req[q].op = "settings", Superseded(q) PROVE Superseded(q)'
  <2>1. PICK x \in Requests \ {q} :
          /\ req[x].op = "settings" /\ req[x].couple = req[q].couple
          /\ x \notin req[q].before
          /\ req[x].sets \/ req[x].blind \/ Overlap(q, x)
    BY <1>4 DEF Superseded
  <2>2. /\ req'[x].op = "settings" /\ req'[x].couple = req'[q].couple
        /\ x \notin req'[q].before /\ req'[x].sets = req[x].sets
    BY <1>1, <1>4, <2>1
  <2>3. req[x].blind => req'[x].blind
    BY <1>1, <1>3, <2>1 DEF Begins, Moves, LocalOK, Fresh
  <2>4. Overlap(q, x) => Overlap(q, x)'
    BY <1>2, <1>4, <2>1
  <2> QED
    BY <2>1, <2>2, <2>3, <2>4 DEF Superseded, Overlap
<1>5. ASSUME NEW q \in Requests, req'[q].op = "settings", req'[q].sets, req'[q].pc = "ok",
             couples'[req'[q].couple] # q
      PROVE  Superseded(q)'
  <2>1. CASE q = r
    <3>1. Moves(r) /\ Found(r) /\ req[r].op = "settings" /\ req[r].sets
      BY <1>3, <1>5, <2>1 DEF Seen, Moves
    <3>2. req[r].pc = "write"
      BY <3>1, <1>1 DEF Moves, LocalOK, Working, Answered
    <3>3. req[r].day = r /\ req'[r].couple = req[r].couple
      BY <3>1, <3>2, <1>1 DEF RefersOK
    <3> QED
      BY <3>1, <3>2, <3>3, <1>5, <2>1 DEF Found
  <2>2. CASE q # r
    <3> DEFINE c == req[q].couple
    <3>1. /\ req'[q] = req[q] /\ req[q].op = "settings" /\ c \in DOMAIN couples
          /\ Chosen(q, c)
      BY <1>1, <1>5, <2>2 DEF RefersOK, Chosen
    <3>2. CASE couples[c] # q
      <4>1. Superseded(q)
        BY <3>1, <3>2 DEF AccountsInv, StartDayKept, Superseded, Chosen
      <4> QED
        BY <4>1, <3>1, <1>4
    <3>3. CASE couples[c] = q
      <4>1. /\ req[r].pc = "write" /\ req'[r].pc = "ok" /\ c = req[r].couple
            /\ req[r].day # q
        BY <3>1, <3>3, <1>3, <1>5 DEF CouplesStep
      <4>2. Moves(r) /\ req[r].op = "settings" /\ req[r].op # "none"
        BY <4>1, <1>1, <1>3 DEF Begins, LocalOK, Waiting, Answered, Request
      <4>3. CASE req[r].sets \/ req[r].blind \/ q \notin req[r].before
        <5>1. req'[r].op = "settings" /\ req'[r].couple = c /\ req'[r].before = req[r].before
          BY <4>1, <4>2 DEF Moves
        <5>2. (req[r].sets => req'[r].sets) /\ (req[r].blind => req'[r].blind)
          BY <4>2 DEF Moves
        <5>3. r \notin req'[q].before
          BY <1>1
        <5>4. q \notin req[r].before => Overlap(q, r)'
          BY <5>1, <5>3 DEF Overlap
        <5> QED
          BY <4>3, <5>1, <5>2, <5>3, <5>4, <2>2, <3>1 DEF Superseded, Overlap
      <4>4. CASE ~req[r].sets /\ ~req[r].blind /\ q \in req[r].before
        <5>1. Superseded(q)
          BY <4>1, <4>4, <3>1 DEF AccountsInv, DayOK
        <5> QED
          BY <5>1, <3>1, <1>4
      <4> QED
        BY <4>3, <4>4
    <3> QED
      BY <3>2, <3>3
  <2> QED
    BY <2>1, <2>2
<1>6. StartDayKept'
  BY <1>5 DEF StartDayKept, Superseded, Overlap
<1>7. ASSUME NEW x \in Requests PROVE DayOK(x)'
  <2> SUFFICES ASSUME req'[x].pc = "write", ~req'[x].sets, ~req'[x].blind,
                      NEW q \in req'[x].before, Chosen(q, req[x].couple)',
                      req'[x].day # q
               PROVE  Superseded(q)'
    BY DEF DayOK, Chosen, Superseded, Overlap
  <2>1. q \in Requests /\ q # r /\ req'[q] = req[q] /\ req[q].op = "settings"
    BY <1>1 DEF Chosen
  <2>2. CASE x # r
    <3>1. Chosen(q, req[x].couple)
      BY <2>1, <2>2, <1>1 DEF Chosen
    <3>2. Superseded(q)
      BY <2>2, <3>1, <1>1 DEF AccountsInv, DayOK
    <3> QED
      BY <2>1, <3>2, <1>4
  <2>3. CASE x = r
    <3>1. Begins(r) /\ Seen(r)
      BY <2>3, <1>3 DEF Found
    <3>2. req'[r].day = couples[req'[r].couple] /\ Chosen(q, req'[r].couple)
      BY <3>1, <2>1, <2>3 DEF Seen, Chosen
    <3>3. Superseded(q)
      BY <3>2, <2>1, <2>3 DEF AccountsInv, StartDayKept, Superseded, Chosen
    <3> QED
      BY <2>1, <3>3, <1>4
  <2> QED
    BY <2>2, <2>3
<1> QED
  BY <1>6, <1>7

\* A step of this kind keeps the invariant.
LEMMA StepKeeps ==
  ASSUME AccountsInv, NEW r \in Requests, Step(r)
  PROVE  AccountsInv'
<1>1. \A x \in Requests : BeforeOK(x)'
  BY StepFacts DEF Step
<1> QED
  BY <1>1, StepRows, StepSubs, StepLetters, StepRoles, StepDays DEF AccountsInv

----------------------------------------------------------------------------
\* A request that has not begun holds nothing.
LEMMA FreshFits ==
  /\ Fresh \in Request /\ Fresh.pc = "idle" /\ Fresh.op = "none" /\ Fresh.blind = FALSE
  /\ Fresh.sets = FALSE /\ Fresh.before = {}
BY DEF Fresh, Request, Days

\* A sign-in, a set-up or an invitation begins.
LEMMA SigningFields ==
  ASSUME TypeOK, NEW r \in Requests, NEW pc \in {"ok", "email", "couple"},
         NEW op \in {"callback", "setup", "invite"}, NEW person \in People \cup {None},
         NEW code \in Names \cup {None}, NEW role \in Roles \cup {None},
         NEW blind \in BOOLEAN, Begin(r, Signing(pc, op, person, code, role, blind))
  PROVE  /\ Begins(r) /\ req'[r].pc = pc /\ req'[r].op = op /\ req'[r].person = person
         /\ req'[r].code = code /\ req'[r].role = role /\ req'[r].blind = blind
<1>1. req \in [Requests -> Request] /\ Done \in SUBSET Requests
  BY DEF TypeOK, Done
<1> DEFINE held == Signing(pc, op, person, code, role, blind)
           now == [held EXCEPT !.before = Done]
<1>2. /\ held \in Request /\ held.pc = pc /\ held.op = op /\ held.person = person
      /\ held.code = code /\ held.role = role /\ held.blind = blind
  BY DEF Signing, Request, Working, Answered, Days
<1>3. req' = [req EXCEPT ![r] = now] /\ req[r].pc = "idle"
  BY DEF Begin, Done
<1> HIDE DEF held
<1>4. /\ now \in Request /\ now.pc = pc /\ now.op = op /\ now.person = person
      /\ now.code = code /\ now.role = role /\ now.blind = blind /\ now.before = Done
  BY <1>1, <1>2 DEF Request
<1> HIDE DEF now
<1> QED
  BY <1>1, <1>3, <1>4 DEF Begins

\* A change of the settings begins.
LEMMA SettingsFields ==
  ASSUME TypeOK, NEW r \in Requests, NEW couple \in Names, NEW day \in Days,
         NEW sets \in BOOLEAN, NEW blind \in BOOLEAN,
         Begin(r, Settings(couple, day, sets, blind))
  PROVE  /\ Begins(r) /\ req'[r].pc = "write" /\ req'[r].op = "settings"
         /\ req'[r].couple = couple /\ req'[r].day = day /\ req'[r].sets = sets
         /\ req'[r].blind = blind
<1>1. req \in [Requests -> Request] /\ Done \in SUBSET Requests
  BY DEF TypeOK, Done
<1> DEFINE held == Settings(couple, day, sets, blind)
           now == [held EXCEPT !.before = Done]
<1>2. /\ held \in Request /\ held.pc = "write" /\ held.op = "settings"
      /\ held.couple = couple /\ held.day = day /\ held.sets = sets /\ held.blind = blind
  BY DEF Settings, Request, Working
<1>3. req' = [req EXCEPT ![r] = now] /\ req[r].pc = "idle"
  BY DEF Begin, Done
<1> HIDE DEF held
<1>4. /\ now \in Request /\ now.pc = "write" /\ now.op = "settings"
      /\ now.couple = couple /\ now.day = day /\ now.sets = sets /\ now.blind = blind
      /\ now.before = Done
  BY <1>1, <1>2 DEF Request
<1> HIDE DEF now
<1> QED
  BY <1>1, <1>3, <1>4 DEF Begins

\* A request goes on with what it holds next.
LEMMA HeldFields ==
  ASSUME TypeOK, NEW r \in Requests, req[r].pc \in Working, req[r].op # "settings",
         NEW pc \in Working, NEW user \in Names \cup {None},
         NEW couple \in Names \cup {None}, NEW role \in Roles \cup {None},
         NEW blind \in BOOLEAN, req[r].blind => blind,
         Go(r, Held(r, pc, user, couple, role, blind))
  PROVE  /\ Moves(r) /\ req'[r].pc = pc /\ req'[r].user = user
         /\ req'[r].couple = couple /\ req'[r].role = role /\ req'[r].blind = blind
         /\ req'[r].person = req[r].person /\ req'[r].code = req[r].code
         /\ req'[r].op = req[r].op
<1>1. req \in [Requests -> Request] /\ req[r] \in Request
  BY DEF TypeOK
<1> DEFINE held == Held(r, pc, user, couple, role, blind)
<1>2. /\ held \in Request /\ held.pc = pc /\ held.op = req[r].op /\ held.user = user
      /\ held.couple = couple /\ held.role = role /\ held.blind = blind
      /\ held.person = req[r].person /\ held.code = req[r].code
      /\ held.sets = req[r].sets /\ held.before = req[r].before
  BY <1>1 DEF Held, Request
<1>3. req' = [req EXCEPT ![r] = held]
  BY DEF Go
<1> HIDE DEF held
<1> QED
  BY <1>1, <1>2, <1>3 DEF Moves

\* An answer drops what a request held but for its couple.
LEMMA EndedFields ==
  ASSUME TypeOK, NEW r \in Requests, req[r].pc \in Working, NEW pc \in Answered,
         NEW blind \in BOOLEAN, req[r].blind => blind, Go(r, Ended(r, pc, blind))
  PROVE  /\ Moves(r) /\ req'[r].pc = pc /\ req'[r].op = req[r].op
         /\ req'[r].couple = req[r].couple /\ req'[r].blind = blind
<1>1. req \in [Requests -> Request] /\ req[r] \in Request
  BY DEF TypeOK
<1> DEFINE held == Ended(r, pc, blind)
<1>2. /\ held \in Request /\ held.pc = pc /\ held.op = req[r].op
      /\ held.couple = req[r].couple /\ held.blind = blind
      /\ held.sets = req[r].sets /\ held.before = req[r].before
  BY <1>1 DEF Ended, Request, Days
<1>3. req' = [req EXCEPT ![r] = held]
  BY DEF Go
<1> HIDE DEF held
<1> QED
  BY <1>1, <1>2, <1>3 DEF Moves

\* A statement that succeeds or fails.
LEMMA FaultsFit ==
  ASSUME TypeOK, Ok \/ Fault
  PROVE  faults' \in 0..MaxFaults
BY AccountsAssumption DEF TypeOK, Ok, Fault

\* Tables that are not written.
LEMMA TablesStay ==
  ASSUME TypeOK, NEW r \in Requests
  PROVE  /\ users' = users => UsersStep(r)
         /\ invites' = invites => InvitesStep(r)
         /\ couples' = couples => CouplesStep(r)
<1>1. users' = users => UsersStep(r)
  BY DEF TypeOK, UsersStep
<1>2. invites' = invites => InvitesStep(r)
  BY DEF TypeOK, InvitesStep
<1>3. couples' = couples => CouplesStep(r)
  BY DEF TypeOK, CouplesStep
<1> QED
  BY <1>1, <1>2, <1>3

\* What has to be checked of an answer.
LEMMA AnswerKeeps ==
  ASSUME AccountsInv, NEW r \in Requests, req[r].pc \in Working,
         NEW pc \in {"ok", "new_user", "error"}, NEW blind \in BOOLEAN,
         req[r].blind => blind, Go(r, Ended(r, pc, blind)), Ok \/ Fault,
         UsersStep(r), InvitesStep(r), CouplesStep(r),
         req[r].pc = "mark" => pc = "ok" /\ (blind \/ ~invites'[req[r].code].open),
         req[r].pc = "letter" => pc \in {"ok", "error"}, req[r].pc = "user" => pc = "error",
         req[r].pc = "write" /\ pc = "ok" => couples'[req[r].couple] = req[r].day
  PROVE  AccountsInv'
<1>1. TypeOK /\ LocalOK(r) /\ RefersOK(r) /\ pc \in Answered /\ pc \notin Waiting
  BY DEF AccountsInv, Answered, Waiting
<1>2. /\ Moves(r) /\ req'[r].pc = pc /\ req'[r].op = req[r].op
      /\ req'[r].couple = req[r].couple /\ req'[r].blind = blind
  BY <1>1, EndedFields
<1>3. req[r].op # "none"
  BY <1>1 DEF LocalOK, Working
<1>4. LocalOK(r)'
  BY <1>1, <1>2, <1>3 DEF LocalOK
<1>5. RefersOK(r)'
  <2>1. DOMAIN couples \subseteq DOMAIN couples'
    BY DEF CouplesStep
  <2> QED
    BY <2>1, <1>1, <1>2 DEF RefersOK
<1>6. Found(r)
  BY <1>1, <1>2 DEF Found
<1> QED
  BY <1>1, <1>2, <1>4, <1>5, <1>6, FaultsFit, StepKeeps DEF Step

\* A failure ends the request, except where its error is ignored.
LEMMA FailsKeeps ==
  ASSUME AccountsInv, NEW r \in Requests, req[r].pc \in Working, req[r].pc # "mark",
         Fails(r), UNCHANGED <<users, couples, invites>>
  PROVE  AccountsInv'
<1>1. TypeOK /\ req[r].blind \in BOOLEAN
  BY DEF AccountsInv, TypeOK, Request
<1> QED
  BY <1>1, TablesStay, AnswerKeeps DEF Fails, Reply

----------------------------------------------------------------------------
\* The steps, one by one.  A sign-in looks for the subject.
LEMMA CallbackSubKeeps ==
  ASSUME AccountsInv, NEW r \in Requests, NEW p \in People,
         NEW code \in DOMAIN invites \cup {None}, CallbackSub(r, p, code)
  PROVE  AccountsInv'
<1> DEFINE no == FALSE
<1>1. /\ TypeOK /\ code \in Names \cup {None} /\ no \in BOOLEAN /\ None \in People \cup {None}
      /\ Ok /\ users' = users /\ couples' = couples /\ invites' = invites
  BY DEF AccountsInv, TypeOK, CallbackSub
<1>2. UsersStep(r) /\ CouplesStep(r) /\ InvitesStep(r) /\ faults' \in 0..MaxFaults
  BY <1>1, TablesStay, FaultsFit
<1>3. no = FALSE
  OBVIOUS
<1> HIDE DEF no
<1>4. CASE Begin(r, Signing("ok", "callback", None, None, None, no))
  <2>1. Begins(r) /\ req'[r].pc = "ok" /\ req'[r].op = "callback" /\ req'[r].blind = no
    BY <1>1, <1>4, SigningFields
  <2>2. LocalOK(r)' /\ RefersOK(r)' /\ Seen(r)
    BY <2>1 DEF LocalOK, RefersOK, Seen, Answered, Waiting
  <2> QED
    BY <1>2, <2>1, <2>2, StepKeeps DEF Step
<1>5. CASE BySub(p) = {} /\ Begin(r, Signing("email", "callback", p, code, None, no))
  <2>1. /\ Begins(r) /\ req'[r].pc = "email" /\ req'[r].op = "callback"
        /\ req'[r].person = p /\ req'[r].code = code /\ req'[r].blind = no
    <3>1. Begin(r, Signing("email", "callback", p, code, None, no))
      BY <1>5
    <3>2. /\ Begins(r) /\ req'[r].pc = "email" /\ req'[r].op = "callback"
          /\ req'[r].person = p /\ req'[r].blind = no
      BY <1>1, <3>1, SigningFields
    <3>3. req'[r].code = code
      BY SMTT(30), <1>1, <3>1, SigningFields
    <3> QED
      BY <3>2, <3>3
  <2>2. LocalOK(r)' /\ RefersOK(r)'
    BY <1>1, <1>3, <2>1 DEF LocalOK, RefersOK, Waiting, Answered
  <2>3. Seen(r)
    BY <1>5, <2>1 DEF Seen, BySub
  <2> QED
    BY <1>2, <2>1, <2>2, <2>3, StepKeeps DEF Step
<1> QED
  BY <1>3, <1>4, <1>5 DEF CallbackSub

\* A set-up looks for the subject too, or ignores that it could not.
LEMMA SetupLookupKeeps ==
  ASSUME AccountsInv, NEW r \in Requests, NEW p \in People, NEW role \in Roles,
         SetupLookup(r, p, role)
  PROVE  AccountsInv'
<1>1. /\ TypeOK /\ (Ok \/ Fault)
      /\ users' = users /\ couples' = couples /\ invites' = invites
  BY DEF AccountsInv, SetupLookup
<1>2. UsersStep(r) /\ CouplesStep(r) /\ InvitesStep(r) /\ faults' \in 0..MaxFaults
  BY <1>1, TablesStay, FaultsFit
<1>3. PICK blind \in BOOLEAN : /\ Begin(r, Signing("couple", "setup", p, None, role, blind))
                               /\ blind \/ BySub(p) = {}
  BY DEF SetupLookup
<1>4. /\ Begins(r) /\ req'[r].pc = "couple" /\ req'[r].op = "setup"
      /\ req'[r].person = p /\ req'[r].role = role /\ req'[r].blind = blind
  BY <1>1, <1>3, SigningFields
<1>5. LocalOK(r)' /\ RefersOK(r)'
  BY <1>4 DEF LocalOK, RefersOK, Waiting, Answered
<1>6. Seen(r)
  BY <1>3, <1>4 DEF Seen, BySub
<1> QED
  BY <1>2, <1>4, <1>5, <1>6, StepKeeps DEF Step

\* An invitation to a couple whose first user is there.
LEMMA CreateInviteKeeps ==
  ASSUME AccountsInv, NEW r \in Requests, NEW u \in DOMAIN users, CreateInvite(r, u)
  PROVE  AccountsInv'
<1> DEFINE no == FALSE
           row == NewInvite(users[u].couple)
<1>1. /\ TypeOK /\ Named /\ no \in BOOLEAN /\ None \in People \cup {None} /\ Ok
      /\ users' = users /\ couples' = couples /\ invites' = Put(invites, r, row)
      /\ Begin(r, Signing("ok", "invite", None, None, None, no))
  BY DEF AccountsInv, CreateInvite
<1>2. row \in Invite /\ row.couple = users[u].couple /\ users[u].couple \in Founded
  BY <1>1 DEF NewInvite, Invite, Named, TypeOK, User
<1> HIDE DEF no, row
<1>3. Begins(r) /\ req'[r].pc = "ok" /\ req'[r].op = "invite"
  BY <1>1, SigningFields
<1>4. LocalOK(r)' /\ RefersOK(r)' /\ Seen(r)
  BY <1>3 DEF LocalOK, RefersOK, Seen, Answered, Waiting
<1>5. r \notin DOMAIN invites
  BY <1>1, <1>3, AccountsAssumption DEF Begins, Named
<1>6. InvitesStep(r)
  <2>1. /\ DOMAIN invites' = DOMAIN invites \cup {r} /\ invites'[r] = row
        /\ \A i \in DOMAIN invites : invites'[i] = invites[i]
    BY <1>1, <1>5 DEF Put
  <2> QED
    BY <1>1, <1>2, <1>3, <2>1 DEF InvitesStep, TypeOK
<1> QED
  BY <1>1, <1>3, <1>4, <1>6, TablesStay, FaultsFit, StepKeeps DEF Step

\* The settings: the day that is there is read, or another is named.
LEMMA UpdateCoupleKeeps ==
  ASSUME AccountsInv, NEW r \in Requests, NEW c \in DOMAIN couples,
         UpdateCoupleRead(r, c) \/ UpdateCoupleDay(r, c)
  PROVE  AccountsInv'
<1>1. /\ TypeOK /\ (Ok \/ Fault) /\ c \in Names /\ couples[c] \in Days /\ r \in Days
      /\ None \in Days /\ users' = users /\ couples' = couples /\ invites' = invites
  BY DEF AccountsInv, TypeOK, UpdateCoupleRead, UpdateCoupleDay, Days, Names
<1>2. UsersStep(r) /\ CouplesStep(r) /\ InvitesStep(r) /\ faults' \in 0..MaxFaults
  BY <1>1, TablesStay, FaultsFit
<1>3. PICK day \in Days, sets \in BOOLEAN, blind \in BOOLEAN :
        /\ Begin(r, Settings(c, day, sets, blind))
        /\ ~sets /\ ~blind => day = couples[c]
        /\ sets => day = r
  BY <1>1 DEF UpdateCoupleRead, UpdateCoupleDay
<1>4. /\ Begins(r) /\ req'[r].pc = "write" /\ req'[r].op = "settings"
      /\ req'[r].couple = c /\ req'[r].day = day /\ req'[r].sets = sets
      /\ req'[r].blind = blind
  BY <1>1, <1>3, SettingsFields
<1>5. LocalOK(r)' /\ RefersOK(r)'
  BY <1>1, <1>3, <1>4 DEF LocalOK, RefersOK, Waiting, Answered
<1>6. Seen(r)
  BY <1>3, <1>4 DEF Seen
<1> QED
  BY <1>2, <1>4, <1>5, <1>6, StepKeeps DEF Step

\* The address is looked up.
LEMMA CallbackEmailKeeps ==
  ASSUME AccountsInv, NEW r \in Requests, CallbackEmail(r)
  PROVE  AccountsInv'
<1> DEFINE no == FALSE
<1>1. /\ TypeOK /\ LocalOK(r) /\ RefersOK(r) /\ req[r].pc = "email"
      /\ req[r].op = "callback" /\ req[r].pc \in Working /\ ~req[r].blind
      /\ req[r].op # "settings" /\ no \in BOOLEAN /\ (req[r].blind => no)
      /\ req[r].person \in People /\ req[r].blind \in BOOLEAN
      /\ users' = users /\ couples' = couples /\ invites' = invites
  BY DEF AccountsInv, TypeOK, CallbackEmail, At, Working, LocalOK, RefersOK, Waiting, Request
<1>2. UsersStep(r) /\ CouplesStep(r) /\ InvitesStep(r)
  BY <1>1, TablesStay
<1>3. no = FALSE
  OBVIOUS
<1> HIDE DEF no
<1>4. ASSUME NEW pc \in {"link", "invite"}, NEW user \in Names \cup {None},
             Go(r, Held(r, pc, user, None, None, no)), Ok,
             pc = "link" => user \in DOMAIN users,
             pc = "invite" => req[r].code \in DOMAIN invites
      PROVE  AccountsInv'
  <2>0. pc \in Working
    BY DEF Working
  <2>1. /\ Moves(r) /\ req'[r].pc = pc /\ req'[r].user = user /\ req'[r].blind = no
        /\ req'[r].person = req[r].person /\ req'[r].code = req[r].code
        /\ req'[r].op = "callback"
    BY <1>1, <1>4, <2>0, HeldFields
  <2>2. LocalOK(r)' /\ RefersOK(r)'
    BY <1>1, <1>2, <1>3, <1>4, <2>1 DEF LocalOK, RefersOK, Waiting, Answered
  <2>3. Found(r)
    BY <1>1, <2>1 DEF Found, Waiting
  <2> QED
    BY <1>1, <1>2, <1>4, <2>1, <2>2, <2>3, FaultsFit, StepKeeps DEF Step
<1>5. CASE (\E u \in ByEmail(req[r].person) : Go(r, Held(r, "link", u, None, None, no))) /\ Ok
  BY <1>1, <1>4, <1>5 DEF ByEmail, TypeOK
<1>6. CASE Reply(r, "new_user") /\ Ok
  BY <1>1, <1>2, <1>6, AnswerKeeps DEF Reply
<1>7. CASE req[r].code # None /\ Go(r, Held(r, "invite", None, None, None, no)) /\ Ok
  <2>1. req[r].code \in DOMAIN invites
    BY <1>1, <1>7 DEF RefersOK
  <2>2. None \in Names \cup {None}
    OBVIOUS
  <2> QED
    BY <1>4, <1>7, <2>1, <2>2
<1>8. CASE Fails(r)
  BY <1>1, <1>8, FailsKeeps
<1> QED
  BY <1>3, <1>5, <1>6, <1>7, <1>8 DEF CallbackEmail

\* The subject is written to the row that has the address.
LEMMA CallbackLinkKeeps ==
  ASSUME AccountsInv, NEW r \in Requests, CallbackLink(r)
  PROVE  AccountsInv'
<1> DEFINE u == req[r].user
           row == Linked(r, u)
<1>1. /\ TypeOK /\ LocalOK(r) /\ RefersOK(r) /\ req[r].pc = "link" /\ req[r].pc \in Working
      /\ req[r].op = "callback" /\ req[r].blind \in BOOLEAN /\ u \in DOMAIN users
      /\ couples' = couples /\ invites' = invites
  BY DEF AccountsInv, TypeOK, CallbackLink, At, Working, RefersOK, Request
<1>2. /\ row \in User /\ row.couple = users[u].couple /\ row.role = users[u].role
      /\ row.through = users[u].through /\ row.sub = req[r].person /\ row.by = r
  BY <1>1 DEF TypeOK, User, Linked, RefersOK, Waiting, Names
<1> HIDE DEF u, row
<1>3. CASE users' = Put(users, u, row) /\ Reply(r, "ok") /\ Ok
  <2>1. /\ DOMAIN users' = DOMAIN users /\ users'[u] = row
        /\ \A v \in DOMAIN users : v # u => users'[v] = users[v]
    BY <1>1, <1>3 DEF Put
  <2>2. Wrote(r, u)
    BY <1>1, <1>2, <2>1 DEF Wrote
  <2>3. UsersStep(r)
    <3>1. \A v \in DOMAIN users' : users'[v] \in User
      BY <1>1, <1>2, <2>1 DEF TypeOK
    <3>2. ASSUME NEW v \in DOMAIN users
          PROVE  /\ users'[v].couple = users[v].couple /\ users'[v].role = users[v].role
                 /\ users'[v].through = users[v].through
                 /\ \/ users'[v].sub = users[v].sub /\ users'[v].by = users[v].by
                    \/ Wrote(r, v)
      BY <1>2, <2>1, <2>2
    <3> QED
      BY <2>1, <3>1, <3>2 DEF UsersStep
  <2> QED
    BY <1>1, <1>3, <2>3, TablesStay, AnswerKeeps DEF Reply
<1>4. CASE Fails(r) /\ UNCHANGED users
  BY <1>1, <1>4, FailsKeeps
<1> QED
  BY <1>3, <1>4 DEF CallbackLink, u, row

\* An invitation that is closed was there.
LEMMA ClosedFits ==
  ASSUME AccountsInv, NEW r \in Requests, NEW i \in DOMAIN invites,
         invites' = Put(invites, i, Closed(i))
  PROVE  InvitesStep(r) /\ ~invites'[i].open
<1>1. TypeOK
  BY DEF AccountsInv
<1>2. Closed(i) \in Invite /\ Closed(i).couple = invites[i].couple /\ Closed(i).open = FALSE
  BY <1>1 DEF TypeOK, Closed, Invite
<1>3. /\ DOMAIN invites' = DOMAIN invites /\ invites'[i] = Closed(i)
      /\ \A j \in DOMAIN invites : j # i => invites'[j] = invites[j]
  BY DEF Put
<1> QED
  BY <1>1, <1>2, <1>3 DEF InvitesStep, TypeOK

\* The invitation is looked up.
LEMMA CallbackInviteKeeps ==
  ASSUME AccountsInv, NEW r \in Requests, CallbackInvite(r)
  PROVE  AccountsInv'
<1> DEFINE no == FALSE
           i == req[r].code
           c == invites[i].couple
<1>1. /\ TypeOK /\ Named /\ LocalOK(r) /\ RefersOK(r) /\ req[r].pc = "invite"
      /\ req[r].op = "callback" /\ req[r].pc \in Working /\ ~req[r].blind
      /\ req[r].op # "settings" /\ no \in BOOLEAN /\ (req[r].blind => no)
      /\ req[r].blind \in BOOLEAN /\ req[r].person \in People
      /\ i \in DOMAIN invites /\ users' = users /\ couples' = couples
  BY DEF AccountsInv, TypeOK, CallbackInvite, At, Working, LocalOK, RefersOK, Waiting, Request
<1>2. c \in Names \cup {None} /\ c \in Founded /\ None \in Names \cup {None}
      /\ None \in Roles \cup {None} /\ "role" \in Working
  BY <1>1 DEF Named, Founded, TypeOK, Working
<1>3. no = FALSE
  OBVIOUS
<1> HIDE DEF no
<1>4. CASE /\ invites[i].open /\ Go(r, Held(r, "role", None, c, None, no)) /\ Ok
           /\ UNCHANGED invites
  <2>0. invites' = invites
    BY <1>4
  <2> HIDE DEF c
  <2>1. /\ Moves(r) /\ req'[r].pc = "role" /\ req'[r].couple = c /\ req'[r].blind = no
        /\ req'[r].person = req[r].person /\ req'[r].code = i
        /\ req'[r].op = "callback"
    BY SMTT(30), <1>1, <1>2, <1>4, HeldFields
  <2> HIDE DEF i
  <2>2. LocalOK(r)' /\ RefersOK(r)'
    BY <1>1, <1>2, <1>3, <2>0, <2>1 DEF LocalOK, RefersOK, Waiting, Answered, Founded
  <2>3. Found(r)
    BY <1>1, <1>4, <2>1 DEF Found, Waiting, i
  <2> QED
    BY <1>1, <1>4, <2>0, <2>1, <2>2, <2>3, TablesStay, FaultsFit, StepKeeps DEF Step
<1>5. CASE invites' = Put(invites, i, Closed(i)) /\ Reply(r, "error") /\ Ok
  BY <1>1, <1>5, ClosedFits, TablesStay, AnswerKeeps DEF Reply
<1>6. CASE Fails(r) /\ UNCHANGED invites
  BY <1>1, <1>6, FailsKeeps
<1> QED
  BY <1>3, <1>4, <1>5, <1>6 DEF CallbackInvite

\* The role that is free, or the first one when the list cannot be read.
LEMMA CallbackRoleKeeps ==
  ASSUME AccountsInv, NEW r \in Requests, CallbackRole(r)
  PROVE  AccountsInv'
<1> DEFINE c == req[r].couple
<1>1. /\ TypeOK /\ LocalOK(r) /\ RefersOK(r) /\ req[r].pc = "role"
      /\ req[r].op = "callback" /\ req[r].pc \in Working /\ ~req[r].blind
      /\ req[r].op # "settings" /\ req[r].person \in People
      /\ req[r].code \in DOMAIN invites /\ c \in Founded
      /\ users' = users /\ couples' = couples /\ invites' = invites
  BY DEF AccountsInv, TypeOK, CallbackRole, At, Working, LocalOK, RefersOK, Waiting
<1>2. /\ c \in Names \cup {None} /\ None \in Names \cup {None} /\ "create" \in Working
  BY <1>1 DEF Founded, TypeOK, Working
<1>3. PICK role \in Roles, blind \in BOOLEAN :
        /\ Go(r, Held(r, "create", None, c, role, blind)) /\ (Ok \/ Fault)
        /\ blind \/ role = FreeRole(Taken(c))
  BY DEF CallbackRole, FreeRole, Roles
<1>4. role \in Roles \cup {None} /\ (req[r].blind => blind)
  BY <1>1
<1> HIDE DEF c
<1>5. /\ Moves(r) /\ req'[r].pc = "create" /\ req'[r].couple = c /\ req'[r].role = role
      /\ req'[r].blind = blind /\ req'[r].person = req[r].person
      /\ req'[r].code = req[r].code /\ req'[r].op = "callback"
  BY <1>1, <1>2, <1>3, <1>4, HeldFields
<1>6. LocalOK(r)' /\ RefersOK(r)'
  BY <1>1, <1>5 DEF LocalOK, RefersOK, Waiting, Answered, Founded
<1>7. ASSUME ~blind, NEW u \in DOMAIN users, users[u].couple = c, users[u].role = role
      PROVE  role = "wife" /\ Husband(c)
  <2>1. users[u].role \in Taken(c)
    BY <1>7 DEF Taken
  <2>2. "husband" \in Taken(c) /\ role = "wife"
    BY <1>3, <1>7, <2>1 DEF FreeRole
  <2> QED
    BY <2>2 DEF Taken, Husband
<1>8. Found(r)
  <2>1. c = req[r].couple
    BY DEF c
  <2> QED
    BY <1>1, <1>5, <1>7, <2>1 DEF Found, Waiting
<1> QED
  BY <1>1, <1>3, <1>5, <1>6, <1>8, TablesStay, FaultsFit, StepKeeps DEF Step

\* A row that a request inserts, under its own name.
LEMMA InsertFits ==
  ASSUME AccountsInv, NEW r \in Requests, NEW row \in User, r \notin DOMAIN users,
         users' = Put(users, r, row), Joined(r)
  PROVE  UsersStep(r) /\ DOMAIN users' = DOMAIN users \cup {r} /\ users'[r] = row
<1>1. TypeOK
  BY DEF AccountsInv
<1>2. /\ DOMAIN users' = DOMAIN users \cup {r} /\ users'[r] = row
      /\ \A u \in DOMAIN users : users'[u] = users[u]
  BY DEF Put
<1>3. \A u \in DOMAIN users' : users'[u] \in User
  BY <1>1, <1>2 DEF TypeOK
<1> QED
  BY <1>2, <1>3 DEF UsersStep

\* The user of an invitation is inserted.
LEMMA CallbackCreateKeeps ==
  ASSUME AccountsInv, NEW r \in Requests, CallbackCreate(r)
  PROVE  AccountsInv'
<1> DEFINE row == NewUser(r, req[r].code)
           c == req[r].couple
           b == req[r].blind
<1>1. /\ TypeOK /\ Named /\ LocalOK(r) /\ RefersOK(r) /\ req[r].pc = "create"
      /\ req[r].op = "callback" /\ req[r].pc \in Working /\ b \in BOOLEAN
      /\ req[r].op # "settings" /\ req[r].person \in People /\ req[r].role \in Roles
      /\ req[r].code \in DOMAIN invites /\ c \in Founded /\ r # Home
      /\ couples' = couples /\ invites' = invites
  BY AccountsAssumption
     DEF AccountsInv, TypeOK, CallbackCreate, At, Working, LocalOK, RefersOK, Waiting, Request
<1>2. /\ row \in User /\ row.couple = c /\ row.role = req[r].role
      /\ row.sub = req[r].person /\ row.by = r /\ row.through = req[r].code
  BY <1>1 DEF NewUser, User, TypeOK, Founded, Names
<1>3. r \notin DOMAIN users
  BY <1>1 DEF Named, Answered
<1>4. /\ c \in Names \cup {None} /\ None \in Names \cup {None} /\ "mark" \in Working
      /\ None \in Roles \cup {None} /\ req[r].code \in Names
  BY <1>1 DEF Founded, TypeOK, Working
<1>5. CASE /\ users' = Put(users, r, row) /\ Go(r, Held(r, "mark", None, c, None, b)) /\ Ok
  <2> HIDE DEF row, c, b
  <2>1. /\ Moves(r) /\ req'[r].pc = "mark" /\ req'[r].couple = c /\ req'[r].blind = b
        /\ req'[r].code = req[r].code /\ req'[r].op = "callback"
    <3>1. req[r].blind => b
      BY DEF b
    <3>2. Go(r, Held(r, "mark", None, c, None, b))
      BY <1>5
    <3>3. /\ TypeOK /\ req[r].pc \in Working /\ req[r].op # "settings"
          /\ b \in BOOLEAN /\ req[r].op = "callback"
      BY <1>1
    <3>4. /\ c \in Names \cup {None} /\ None \in Names \cup {None}
          /\ "mark" \in Working /\ None \in Roles \cup {None}
      BY <1>4
    <3>5. Moves(r) /\ req'[r].pc = "mark" /\ req'[r].couple = c /\ req'[r].blind = b
      BY <3>1, <3>2, <3>3, <3>4, HeldFields
    <3>6. req'[r].code = req[r].code /\ req'[r].op = req[r].op
      BY <3>1, <3>2, <3>3, <3>4, HeldFields
    <3> QED
      BY <3>3, <3>5, <3>6
  <2>2. users'[r] = row
    BY <1>3, <1>5 DEF Put
  <2>3. Joined(r)
    BY <1>1, <1>2, <2>1, <2>2 DEF Joined, Wrote, c
  <2>4. UsersStep(r) /\ DOMAIN users' = DOMAIN users \cup {r}
    BY <1>2, <1>3, <1>5, <2>3, InsertFits
  <2>5. req[r].code # None
    BY <1>4, AccountsAssumption DEF Names
  <2>6. LocalOK(r)' /\ RefersOK(r)'
    BY <1>1, <1>2, <2>1, <2>2, <2>4, <2>5 DEF LocalOK, RefersOK, Waiting, Answered
  <2>7. Found(r)
    BY <1>1, <2>1 DEF Found, Waiting
  <2> QED
    BY <1>1, <1>5, <2>1, <2>4, <2>6, <2>7, TablesStay, FaultsFit, StepKeeps DEF Step
<1>6. CASE Fails(r) /\ UNCHANGED users
  BY <1>1, <1>6, FailsKeeps
<1> QED
  BY <1>5, <1>6 DEF CallbackCreate

\* The invitation is closed, unless that fails, which is ignored.
LEMMA CallbackMarkKeeps ==
  ASSUME AccountsInv, NEW r \in Requests, CallbackMark(r)
  PROVE  AccountsInv'
<1> DEFINE i == req[r].code
           yes == TRUE
<1>1. /\ TypeOK /\ RefersOK(r) /\ req[r].pc = "mark" /\ req[r].pc \in Working
      /\ req[r].blind \in BOOLEAN /\ yes \in BOOLEAN /\ (req[r].blind => yes)
      /\ i \in DOMAIN invites /\ users' = users /\ couples' = couples
  BY DEF AccountsInv, TypeOK, CallbackMark, At, Working, RefersOK, Request, Named
<1>2. UsersStep(r) /\ CouplesStep(r)
  BY <1>1, TablesStay
<1>3. CASE invites' = Put(invites, i, Closed(i)) /\ Reply(r, "ok") /\ Ok
  <2>1. InvitesStep(r) /\ ~invites'[i].open
    BY <1>1, <1>3, ClosedFits
  <2> QED
    BY <1>1, <1>2, <1>3, <2>1, AnswerKeeps DEF Reply
<1>4. CASE Go(r, Ended(r, "ok", yes)) /\ Fault /\ UNCHANGED invites
  <2>1. InvitesStep(r)
    BY <1>1, <1>4, TablesStay
  <2>2. yes
    OBVIOUS
  <2> HIDE DEF yes
  <2> QED
    BY <1>1, <1>2, <1>4, <2>1, <2>2, AnswerKeeps
<1> QED
  BY <1>3, <1>4 DEF CallbackMark

\* A couple is inserted, ...
LEMMA SetupCoupleKeeps ==
  ASSUME AccountsInv, NEW r \in Requests, SetupCouple(r)
  PROVE  AccountsInv'
<1> DEFINE role == req[r].role
           b == req[r].blind
<1>1. /\ TypeOK /\ Named /\ LocalOK(r) /\ RefersOK(r) /\ req[r].pc = "couple"
      /\ req[r].op = "setup" /\ req[r].pc \in Working /\ b \in BOOLEAN
      /\ req[r].op # "settings" /\ req[r].person \in People /\ role \in Roles
      /\ r # Home /\ users' = users /\ invites' = invites
  BY AccountsAssumption
     DEF AccountsInv, TypeOK, SetupCouple, At, Working, LocalOK, RefersOK, Waiting, Request
<1>2. r \notin DOMAIN couples
  BY <1>1 DEF Named
<1>3. /\ r \in Names \cup {None} /\ None \in Names \cup {None} /\ "user" \in Working
      /\ role \in Roles \cup {None}
  BY <1>1 DEF Working, Names
<1>4. CASE /\ couples' = Put(couples, r, None) /\ Go(r, Held(r, "user", None, r, role, b))
           /\ Ok
  <2> HIDE DEF role, b
  <2>1. /\ Moves(r) /\ req'[r].pc = "user" /\ req'[r].couple = r /\ req'[r].role = role
        /\ req'[r].blind = b /\ req'[r].person = req[r].person /\ req'[r].op = "setup"
    <3>1. req[r].blind => b
      BY DEF b
    <3>2. Go(r, Held(r, "user", None, r, role, b))
      BY <1>4
    <3>3. /\ TypeOK /\ req[r].pc \in Working /\ req[r].op # "settings" /\ b \in BOOLEAN
          /\ r \in Names \cup {None} /\ None \in Names \cup {None}
          /\ role \in Roles \cup {None} /\ "user" \in Working
      BY <1>1, <1>3
    <3>4. Moves(r) /\ req'[r].pc = "user" /\ req'[r].couple = r /\ req'[r].blind = b
      BY SMTT(30), <3>1, <3>2, <3>3, HeldFields
    <3>5. req'[r].role = role
      BY SMTT(30), <3>1, <3>2, <3>3, HeldFields
    <3>6. req'[r].person = req[r].person /\ req'[r].op = req[r].op
      BY SMTT(30), <3>1, <3>2, <3>3, HeldFields
    <3> QED
      BY <1>1, <3>4, <3>5, <3>6
  <2>2. /\ DOMAIN couples' = DOMAIN couples \cup {r} /\ couples'[r] = None
        /\ \A c \in DOMAIN couples : couples'[c] = couples[c]
    BY <1>2, <1>4 DEF Put
  <2>3. CouplesStep(r)
    BY <1>1, <2>1, <2>2 DEF CouplesStep, TypeOK, Days
  <2>4. LocalOK(r)' /\ RefersOK(r)'
    BY <1>1, <2>1, <2>2 DEF LocalOK, RefersOK, Waiting, Answered
  <2>5. Found(r)
    BY <1>1, <2>1, <2>2 DEF Found, Waiting
  <2> QED
    BY <1>1, <1>4, <2>1, <2>3, <2>4, <2>5, TablesStay, FaultsFit, StepKeeps DEF Step
<1>5. CASE Fails(r) /\ UNCHANGED couples
  BY <1>1, <1>5, FailsKeeps
<1> QED
  BY <1>4, <1>5 DEF SetupCouple

\* ... then its first user, ...
LEMMA SetupUserKeeps ==
  ASSUME AccountsInv, NEW r \in Requests, SetupUser(r)
  PROVE  AccountsInv'
<1> DEFINE row == NewUser(r, None)
           b == req[r].blind
<1>1. /\ TypeOK /\ Named /\ LocalOK(r) /\ RefersOK(r) /\ req[r].pc = "user"
      /\ req[r].op = "setup" /\ req[r].pc \in Working /\ b \in BOOLEAN
      /\ req[r].op # "settings" /\ req[r].person \in People /\ req[r].role \in Roles
      /\ req[r].couple = r /\ r \in DOMAIN couples /\ r # Home
      /\ couples' = couples /\ invites' = invites
  BY AccountsAssumption
     DEF AccountsInv, TypeOK, SetupUser, At, Working, LocalOK, RefersOK, Waiting, Request
<1>2. /\ row \in User /\ row.couple = r /\ row.role = req[r].role
      /\ row.sub = req[r].person /\ row.by = r /\ row.through = None
  BY <1>1 DEF NewUser, User, Names
<1>3. r \notin DOMAIN users
  BY <1>1 DEF Named, Answered
<1>4. /\ r \in Names \cup {None} /\ None \in Names \cup {None} /\ "letter" \in Working
      /\ None \in Roles \cup {None}
  BY DEF Working, Names
<1>5. CASE /\ users' = Put(users, r, row) /\ Go(r, Held(r, "letter", None, r, None, b)) /\ Ok
  <2> HIDE DEF row, b
  <2>1. /\ Moves(r) /\ req'[r].pc = "letter" /\ req'[r].couple = r /\ req'[r].blind = b
        /\ req'[r].op = "setup"
    <3>1. req[r].blind => b
      BY DEF b
    <3> DEFINE c == r
    <3>2. Go(r, Held(r, "letter", None, c, None, b)) /\ c \in Names \cup {None}
      BY <1>4, <1>5
    <3>3. c = r
      OBVIOUS
    <3> HIDE DEF c
    <3>4. /\ TypeOK /\ req[r].pc \in Working /\ req[r].op # "settings" /\ b \in BOOLEAN
          /\ None \in Names \cup {None} /\ None \in Roles \cup {None} /\ "letter" \in Working
      BY <1>1, <1>4
    <3>5. Moves(r) /\ req'[r].pc = "letter" /\ req'[r].couple = c /\ req'[r].blind = b
      BY <3>1, <3>2, <3>4, HeldFields
    <3>6. req'[r].op = req[r].op
      BY <3>1, <3>2, <3>4, HeldFields
    <3> QED
      BY <1>1, <3>3, <3>5, <3>6
  <2>2. users'[r] = row
    BY <1>3, <1>5 DEF Put
  <2>3. Joined(r)
    BY <1>1, <1>2, <2>1, <2>2 DEF Joined, Wrote
  <2>4. UsersStep(r) /\ DOMAIN users' = DOMAIN users \cup {r}
    BY <1>2, <1>3, <1>5, <2>3, InsertFits
  <2>5. LocalOK(r)' /\ RefersOK(r)'
    BY <1>1, <2>1, <2>4 DEF LocalOK, RefersOK, Waiting, Answered, Founded
  <2>6. Found(r)
    BY <1>1, <2>1, <2>4 DEF Found, Waiting
  <2> QED
    BY <1>1, <1>5, <2>1, <2>4, <2>5, <2>6, TablesStay, FaultsFit, StepKeeps DEF Step
<1>6. CASE Fails(r) /\ UNCHANGED users
  BY <1>1, <1>6, FailsKeeps
<1> QED
  BY <1>5, <1>6 DEF SetupUser

\* ... then the invitation for the partner.
LEMMA SetupInviteKeeps ==
  ASSUME AccountsInv, NEW r \in Requests, SetupInvite(r)
  PROVE  AccountsInv'
<1> DEFINE row == NewInvite(req[r].couple)
<1>1. /\ TypeOK /\ Named /\ RefersOK(r) /\ req[r].pc = "letter" /\ req[r].pc \in Working
      /\ req[r].blind \in BOOLEAN /\ req[r].couple = r /\ r \in Founded /\ r # Home
      /\ users' = users /\ couples' = couples
  BY AccountsAssumption
     DEF AccountsInv, TypeOK, SetupInvite, At, Working, RefersOK, Request
<1>2. row \in Invite /\ row.couple = r
  BY <1>1 DEF NewInvite, Invite, Names
<1>3. r \notin DOMAIN invites
  BY <1>1 DEF Named
<1>4. CASE invites' = Put(invites, r, row) /\ Reply(r, "ok") /\ Ok
  <2> HIDE DEF row
  <2>1. /\ DOMAIN invites' = DOMAIN invites \cup {r} /\ invites'[r] = row
        /\ \A i \in DOMAIN invites : invites'[i] = invites[i]
    BY <1>3, <1>4 DEF Put
  <2>2. req'[r].pc = "ok"
    BY <1>1, <1>4, EndedFields DEF Reply, Answered
  <2>3. InvitesStep(r)
    BY <1>1, <1>2, <2>1, <2>2 DEF InvitesStep, TypeOK
  <2> QED
    BY <1>1, <1>4, <2>3, TablesStay, AnswerKeeps DEF Reply
<1>5. CASE Fails(r) /\ UNCHANGED invites
  BY <1>1, <1>5, FailsKeeps
<1> QED
  BY <1>4, <1>5 DEF SetupInvite

\* The day is written.
LEMMA UpdateCoupleWriteKeeps ==
  ASSUME AccountsInv, NEW r \in Requests, UpdateCoupleWrite(r)
  PROVE  AccountsInv'
<1> DEFINE c == req[r].couple
<1>1. /\ TypeOK /\ RefersOK(r) /\ req[r].pc = "write" /\ req[r].pc \in Working
      /\ req[r].blind \in BOOLEAN /\ c \in DOMAIN couples /\ req[r].day \in Days
      /\ users' = users /\ invites' = invites
  BY DEF AccountsInv, TypeOK, UpdateCoupleWrite, At, Working, RefersOK, Request
<1>2. CASE couples' = Put(couples, c, req[r].day) /\ Reply(r, "ok") /\ Ok
  <2>1. /\ DOMAIN couples' = DOMAIN couples /\ couples'[c] = req[r].day
        /\ \A x \in DOMAIN couples : x # c => couples'[x] = couples[x]
    BY <1>1, <1>2 DEF Put
  <2>2. req'[r].pc = "ok"
    BY <1>1, <1>2, EndedFields DEF Reply, Answered
  <2>3. CouplesStep(r)
    BY <1>1, <2>1, <2>2 DEF CouplesStep, TypeOK
  <2> QED
    BY <1>1, <1>2, <2>1, <2>3, TablesStay, AnswerKeeps DEF Reply
<1>3. CASE Fails(r) /\ UNCHANGED couples
  BY <1>1, <1>3, FailsKeeps
<1> QED
  BY <1>2, <1>3 DEF UpdateCoupleWrite
----------------------------------------------------------------------------
\* Every request is as it was, or was being served and is lost.
CutOff ==
  /\ req' \in [Requests -> Request]
  /\ \A x \in Requests :
       \/ req'[x] = req[x]
       \/ /\ req[x].pc \in Working /\ req'[x].pc = "lost"
          /\ req'[x].op = req[x].op /\ req'[x].couple = req[x].couple
          /\ req'[x].sets = req[x].sets /\ req'[x].blind = req[x].blind
          /\ req'[x].before = req[x].before

\* What was inserted stays inserted, and a couple keeps its day.
LEMMA CutOffKeeps ==
  ASSUME AccountsInv, CutOff, UNCHANGED <<users, couples, invites>>,
         faults' \in 0..MaxFaults
  PROVE  AccountsInv'
<1>1. /\ TypeOK /\ req' \in [Requests -> Request]
      /\ users' = users /\ couples' = couples /\ invites' = invites
      /\ \A x \in Requests : req[x].before \subseteq Requests
  BY DEF AccountsInv, CutOff, TypeOK, Request
<1>2. \A x \in Requests :
        /\ req'[x].op = req[x].op /\ req'[x].couple = req[x].couple
        /\ req'[x].sets = req[x].sets /\ req'[x].blind = req[x].blind
        /\ req'[x].before = req[x].before
  BY DEF CutOff
<1>3. \A x \in Requests :
        \/ req'[x] = req[x]
        \/ req[x].pc \in Working /\ req'[x].pc = "lost"
  BY DEF CutOff
<1>4. /\ \A q, x : Overlap(q, x) <=> Overlap(q, x)'
      /\ \A x : Marred(x) => Marred(x)'
  BY <1>2, <1>3 DEF Overlap, Marred, Working
<1>5. \A c : Husband(c)' <=> Husband(c)
  BY <1>1 DEF Husband
<1>6. TypeOK'
  <2>1. ASSUME NEW c \in DOMAIN couples \ DOMAIN users
        PROVE  c \in Requests /\ req'[c].pc \in {"user", "error", "lost"}
    BY <1>1, <1>3 DEF TypeOK
  <2> QED
    BY <1>1, <2>1 DEF TypeOK
<1>7. Named'
  <2>1. \A u \in DOMAIN users : u # Home => u \in Requests
    BY <1>1 DEF TypeOK, Names
  <2>2. \A u \in DOMAIN users : u # Home => req'[u].pc \in {"mark", "letter"} \cup Answered
    BY <2>1, <1>3 DEF AccountsInv, Named, Answered
  <2>3. ASSUME NEW c \in DOMAIN couples, c # Home
        PROVE  req'[c].op = "setup" /\ req'[c].pc # "couple"
    <3>1. c \in Requests
      BY <1>1, <2>3 DEF TypeOK, Names
    <3> QED
      BY <3>1, <2>3, <1>2, <1>3 DEF AccountsInv, Named
  <2>4. ASSUME NEW i \in DOMAIN invites, i # Home PROVE req'[i].pc = "ok"
    <3>1. i \in Requests /\ req[i].pc = "ok"
      BY <1>1, <2>4 DEF AccountsInv, Named, TypeOK, Names
    <3> QED
      BY <3>1, <1>3 DEF Working
  <2>5. \A u \in DOMAIN users : users[u].by \in Requests => req'[users[u].by].op # "none"
    BY <1>2 DEF AccountsInv, Named
  <2> QED
    BY <1>1, <2>2, <2>3, <2>4, <2>5 DEF AccountsInv, Named, Founded
<1>8. ASSUME NEW x \in Requests PROVE LocalOK(x)' /\ RefersOK(x)' /\ BeforeOK(x)'
  <2>1. LocalOK(x) /\ RefersOK(x) /\ BeforeOK(x)
    BY DEF AccountsInv
  <2>2. LocalOK(x)'
    BY <2>1, <1>2, <1>3 DEF LocalOK, Answered, Working
  <2>3. RefersOK(x)'
    BY <2>1, <1>1, <1>2, <1>3 DEF RefersOK, Founded, Waiting
  <2>4. BeforeOK(x)'
    <3>1. \A q \in req[x].before : q \in Requests
      BY <1>1
    <3> QED
      BY <2>1, <3>1, <1>2, <1>3 DEF BeforeOK, Answered, Working
  <2> QED
    BY <2>2, <2>3, <2>4
<1>9. SubsApart' /\ LettersApart' /\ RolesApart'
  <2>1. SubsApart'
    BY <1>1, <1>4 DEF AccountsInv, SubsApart
  <2>2. LettersApart'
    BY <1>1, <1>4 DEF AccountsInv, LettersApart
  <2>3. RolesApart'
    BY <1>1, <1>4, <1>5 DEF AccountsInv, RolesApart
  <2> QED
    BY <2>1, <2>2, <2>3
<1>10. ASSUME NEW x \in Requests PROVE SubOK(x)' /\ LetterOK(x)' /\ RoleOK(x)'
  <2>1. SubOK(x)'
    BY <1>1, <1>2, <1>3, <1>4 DEF AccountsInv, SubOK, Waiting
  <2>2. LetterOK(x)'
    BY <1>1, <1>2, <1>3, <1>4 DEF AccountsInv, LetterOK
  <2>3. RoleOK(x)'
    BY <1>1, <1>2, <1>3, <1>4, <1>5 DEF AccountsInv, RoleOK
  <2> QED
    BY <2>1, <2>2, <2>3
<1>11. OpenOK'
  <2> SUFFICES ASSUME NEW u \in DOMAIN users, users[u].through # None,
                      invites[users[u].through].open
               PROVE  req'[u].pc = "mark" \/ Marred(u)'
    BY <1>1 DEF OpenOK, Marred
  <2>1. req[u].pc = "mark" \/ Marred(u)
    BY DEF AccountsInv, OpenOK
  <2>2. u \in Requests
    BY <1>1 DEF AccountsInv, Named, TypeOK, Names
  <2> QED
    BY <2>1, <2>2, <1>3, <1>4 DEF Marred
<1>12. ASSUME NEW q \in Requests PROVE Superseded(q)' <=> Superseded(q)
  BY <1>2, <1>4 DEF Superseded
<1>13. ASSUME NEW q \in Requests, NEW c, Chosen(q, c)' PROVE Chosen(q, c)
  BY <1>2, <1>3, <1>13 DEF Chosen
<1>14. StartDayKept'
  <2> SUFFICES ASSUME NEW q \in Requests, req'[q].op = "settings", req'[q].sets,
                      req'[q].pc = "ok", couples[req'[q].couple] # q
               PROVE  Superseded(q)'
    BY <1>1 DEF StartDayKept, Superseded, Overlap
  <2>1. Chosen(q, req[q].couple) /\ req'[q].couple = req[q].couple
    BY <1>2, <1>13 DEF Chosen
  <2>2. Superseded(q)
    BY <2>1 DEF AccountsInv, StartDayKept, Superseded, Chosen
  <2> QED
    BY <2>2, <1>12
<1>15. ASSUME NEW x \in Requests PROVE DayOK(x)'
  <2> SUFFICES ASSUME req'[x].pc = "write", ~req'[x].sets, ~req'[x].blind,
                      NEW q \in req'[x].before, Chosen(q, req[x].couple)',
                      req'[x].day # q
               PROVE  Superseded(q)'
    BY DEF DayOK, Chosen, Superseded, Overlap
  <2>1. req'[x] = req[x] /\ q \in Requests
    BY <1>1, <1>2, <1>3
  <2>2. Chosen(q, req[x].couple)
    BY <2>1, <1>2, <1>3 DEF Chosen
  <2>3. Superseded(q)
    BY <2>1, <2>2 DEF AccountsInv, DayOK
  <2> QED
    BY <2>1, <2>3, <1>12
<1> QED
  BY <1>6, <1>7, <1>8, <1>9, <1>10, <1>11, <1>14, <1>15 DEF AccountsInv

\* The process dies.
LEMMA CrashKeeps ==
  ASSUME AccountsInv, Crash
  PROVE  AccountsInv'
<1>1. TypeOK /\ Fault /\ UNCHANGED <<users, couples, invites>>
  BY DEF AccountsInv, Crash
<1>2. ASSUME NEW x \in Requests, req[x].pc \in Working
      PROVE  LET y == Ended(x, "lost", req[x].blind)
             IN /\ y \in Request /\ y.pc = "lost" /\ y.op = req[x].op
                /\ y.couple = req[x].couple /\ y.sets = req[x].sets
                /\ y.blind = req[x].blind /\ y.before = req[x].before
  BY <1>1 DEF TypeOK, Ended, Request, Answered, Days
<1>3. \A x \in Requests :
        req'[x] = IF req[x].pc \in Working THEN Ended(x, "lost", req[x].blind) ELSE req[x]
  BY DEF Crash, InFlight
<1>4. req' \in [Requests -> Request]
  BY <1>1, <1>2 DEF Crash, InFlight, TypeOK
<1>5. CutOff
  BY <1>2, <1>3, <1>4 DEF CutOff
<1> QED
  BY <1>1, <1>5, FaultsFit, CutOffKeeps

\* At the start there is nobody, or a couple of one and its invitation.
LEMMA InitAccounts == Init => AccountsInv
<1> SUFFICES ASSUME Init PROVE AccountsInv
  OBVIOUS
<1>1. /\ couples = [c \in DOMAIN users |-> None]
      /\ invites = [i \in DOMAIN users |-> NewInvite(Home)]
      /\ req = [r \in Requests |-> Fresh] /\ faults = 0
  BY DEF Init
<1>2. /\ \A u \in DOMAIN users : u = Home /\ users[u] \in User /\ users[u].couple = Home
      /\ \A u \in DOMAIN users : users[u].through = None /\ users[u].by \notin Requests
  <2>1. CASE users = [u \in {} |-> Fresh]
    BY <2>1
  <2>2. ASSUME NEW p \in People, NEW sub \in {TRUE, FALSE}, NEW role \in Roles,
               users = [u \in {Home} |->
                          [couple |-> Home, role |-> role, email |-> p,
                           sub |-> IF sub THEN p ELSE None,
                           by |-> IF sub THEN Home ELSE None, through |-> None]]
        PROVE  \A u \in DOMAIN users :
                 /\ u = Home /\ users[u] \in User /\ users[u].couple = Home
                 /\ users[u].through = None /\ users[u].by \notin Requests
    <3> DEFINE s == IF sub THEN p ELSE None
               b == IF sub THEN Home ELSE None
               row == [couple |-> Home, role |-> role, email |-> p, sub |-> s, by |-> b,
                       through |-> None]
    <3>1. s \in People \cup {None} /\ b \in Names \cup {None} /\ b \notin Requests
      BY AccountsAssumption DEF Names
    <3>2. \A u \in DOMAIN users : u = Home /\ users[u] = row
      BY <2>2
    <3> HIDE DEF s, b
    <3>3. row \in User /\ row.couple = Home /\ row.through = None /\ row.by = b
      BY <3>1 DEF User, Names
    <3> HIDE DEF row
    <3> QED
      BY <3>1, <3>2, <3>3
  <2> QED
    BY ZenonT(60), <2>1, <2>2 DEF Init
<1>3. NewInvite(Home) \in Invite /\ NewInvite(Home).couple = Home
  BY DEF NewInvite, Invite, Names
<1>4. /\ \A r \in Requests : req[r] = Fresh /\ req[r].pc = "idle" /\ req[r].op = "none"
      /\ \A r \in Requests : req[r].blind = FALSE /\ req[r].before = {}
      /\ \A r \in Requests : req[r].sets = FALSE
      /\ req \in [Requests -> Request]
  BY <1>1, FreshFits
<1>5. TypeOK
  BY <1>1, <1>2, <1>3, <1>4, AccountsAssumption DEF TypeOK, Names, Days
<1>6. Named
  BY <1>1, <1>2, <1>3, AccountsAssumption DEF Named, Founded
<1>7. \A r \in Requests : LocalOK(r) /\ RefersOK(r) /\ BeforeOK(r)
  BY <1>4 DEF LocalOK, RefersOK, BeforeOK, Waiting
<1>8. SubsApart /\ LettersApart /\ RolesApart /\ OpenOK
  BY <1>2 DEF SubsApart, LettersApart, RolesApart, OpenOK
<1>9. \A r \in Requests : SubOK(r) /\ LetterOK(r) /\ RoleOK(r) /\ DayOK(r)
  BY <1>4 DEF SubOK, LetterOK, RoleOK, DayOK, Waiting
<1>10. StartDayKept
  BY <1>4 DEF StartDayKept
<1> QED
  BY <1>5, <1>6, <1>7, <1>8, <1>9, <1>10 DEF AccountsInv

\* Every step keeps the invariant.
LEMMA StepAccounts == AccountsInv /\ [Next]_vars => AccountsInv'
<1> SUFFICES ASSUME AccountsInv, [Next]_vars PROVE AccountsInv'
  OBVIOUS
<1>1. ASSUME NEW r \in Requests, Serve(r) PROVE AccountsInv'
  <2>1. ASSUME NEW p \in People, NEW code \in DOMAIN invites \cup {None},
               CallbackSub(r, p, code)
        PROVE  AccountsInv'
    BY <2>1, CallbackSubKeeps
  <2>2. ASSUME NEW p \in People, NEW role \in Roles, SetupLookup(r, p, role)
        PROVE  AccountsInv'
    BY <2>2, SetupLookupKeeps
  <2>3. CASE CallbackEmail(r) \/ CallbackLink(r) \/ CallbackInvite(r) \/ CallbackRole(r)
             \/ CallbackCreate(r) \/ CallbackMark(r)
    BY <2>3, CallbackEmailKeeps, CallbackLinkKeeps, CallbackInviteKeeps, CallbackRoleKeeps,
       CallbackCreateKeeps, CallbackMarkKeeps
  <2>4. CASE SetupCouple(r) \/ SetupUser(r) \/ SetupInvite(r)
    BY <2>4, SetupCoupleKeeps, SetupUserKeeps, SetupInviteKeeps
  <2>5. ASSUME NEW u \in DOMAIN users, CreateInvite(r, u) PROVE AccountsInv'
    BY <2>5, CreateInviteKeeps
  <2>6. ASSUME NEW c \in DOMAIN couples, UpdateCoupleRead(r, c) \/ UpdateCoupleDay(r, c)
        PROVE  AccountsInv'
    BY <2>6, UpdateCoupleKeeps
  <2>7. CASE UpdateCoupleWrite(r)
    BY <2>7, UpdateCoupleWriteKeeps
  <2> QED
    BY <1>1, <2>1, <2>2, <2>3, <2>4, <2>5, <2>6, <2>7 DEF Serve
<1>2. CASE UNCHANGED vars
  <2>1. CutOff /\ faults' \in 0..MaxFaults
    BY <1>2 DEF vars, CutOff, AccountsInv, TypeOK
  <2> QED
    BY <1>2, <2>1, CutOffKeeps DEF vars
<1>3. CASE Crash
  BY <1>3, CrashKeeps
<1>4. CASE Finished
  BY <1>2, <1>4 DEF Finished
<1> QED
  BY <1>1, <1>2, <1>3, <1>4 DEF Next

----------------------------------------------------------------------------
\* The inductive invariant holds throughout.
THEOREM AccountsInvariant == Spec => []AccountsInv
<1> QED
  BY InitAccounts, StepAccounts, PTL DEF Spec

\* Users, couples and invitations are well formed and belong to couples that
\* exist, whatever failed: a set-up writes the couple first.
THEOREM AccountsTypeCorrect == Spec => []TypeOK
<1>1. AccountsInv => TypeOK
  BY DEF AccountsInv
<1> QED
  BY <1>1, AccountsInvariant, PTL

\* Nobody has two users, no invitation admits two and no couple has two
\* husbands, unless the sign-ups overlapped, an error was ignored or the
\* process died on the way: however many sign up, with no key to refuse them.
THEOREM SignUpsInTurnDoNotCollide == Spec => []SignUpsCollideOnlyOnOverlap
<1>1. ASSUME AccountsInv PROVE SignUpsCollideOnlyOnOverlap
  <2>1. SubsApart /\ LettersApart /\ RolesApart
    BY <1>1 DEF AccountsInv
  <2> SUFFICES ASSUME NEW u \in DOMAIN users, NEW v \in DOMAIN users, u # v
               PROVE  /\ users[u].sub # None /\ users[u].sub = users[v].sub =>
                           Overlap(users[u].by, users[v].by) \/ Marred(u) \/ Marred(v)
                      /\ users[u].through # None /\ users[u].through = users[v].through =>
                           Overlap(u, v) \/ Marred(u) \/ Marred(v)
                      /\ users[u].couple = users[v].couple /\ users[u].role = users[v].role =>
                           \/ Overlap(u, v) \/ Marred(u) \/ Marred(v)
                           \/ users[u].role = "wife" /\ Husband(users[u].couple)
    BY DEF SignUpsCollideOnlyOnOverlap, Husband
  <2> QED
    BY <2>1 DEF SubsApart, LettersApart, RolesApart
<1> QED
  BY <1>1, AccountsInvariant, PTL

\* The day a couple chose outlives every later change of other settings that
\* could read it.
THEOREM ChosenDayIsKept == Spec => []StartDayKept
<1>1. AccountsInv => StartDayKept
  BY DEF AccountsInv
<1> QED
  BY <1>1, AccountsInvariant, PTL
====
