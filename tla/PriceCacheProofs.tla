--------------------------- MODULE PriceCacheProofs ---------------------------
(***************************************************************************)
(* Proofs about PriceCache, for every set of requests, keys and crashes    *)
(* and every cacheTTL and httpTimeout: what is passed off as live is fresh *)
(* and is not asked for again too soon, a refresh takes effect, and a row  *)
(* goes back at most by the age of a live price.  They need to know what   *)
(* the cache holds between two requests, which the properties, being about *)
(* requests, do not say.                                                   *)
(***************************************************************************)
EXTENDS PriceCache, TLAPS

\* The requests that were sent.
Opened == {r \in Requests : req[r].pc # "idle"}

\* What a goroutine holds fits the step it is at.  Only answered requests are
\* before another one, so that a request being worked on is before nobody.
LocalOK(r) ==
  /\ req[r].start <= now
  /\ req[r].pc = "idle" => req[r] = Fresh
  /\ \A q \in req[r].before : req[q].pc \in Answered
  /\ r \notin req[r].before
  /\ req[r].pc \in Working => req[r].op = "quote"
  /\ req[r].op = "quote" => req[r].key \in Keys
  /\ req[r].pc \in {"persist", "fallback"} => req[r].key \in Stored
  /\ req[r].pc \in {"fetch", "fallback"} => req[r].source = "none" /\ req[r].stored = None
  /\ req[r].pc \in {"store", "persist"} => req[r].source = "live"
  /\ req[r].pc = "store" => req[r].stored = None
  /\ req[r].pc = "store" =>
       /\ req[r].value.by = r
       /\ req[r].start <= req[r].value.seen /\ req[r].value.seen <= now
  /\ req[r].source = "live" =>
       /\ req[r].op = "quote" /\ req[r].value \in Value /\ req[r].value.by \in Opened
       /\ req[r].value.seen <= now
  /\ req[r].persisted =>
       /\ req[r].source = "live" /\ req[r].key \in Stored /\ req[r].pc \in Answered
       /\ table[SymbolOf[req[r].key]].by \in Opened

Locals == \A r \in Requests : LocalOK(r)

\* An entry was fetched by a request, at most httpTimeout before.
CacheOK ==
  \A k \in DOMAIN cache :
    /\ cache[k].value.by \in Opened
    /\ cache[k].at <= cache[k].value.seen + Timeout

\* A refresh leaves nothing that was fetched before it.
RefreshClears ==
  \A q \in Requests, k \in DOMAIN cache :
    req[q].op = "refresh" /\ k \in Cleared => cache[k].value.by \notin req[q].before

\* What the cache holds is no older than what somebody got from it.
CacheGoesForward ==
  \A r \in Requests :
    req[r].source = "live" /\ req[r].pc # "store" /\ req[r].key \in DOMAIN cache
      => cache[req[r].key].value.by \notin req[req[r].value.by].before

\* What a request got is no older than what an earlier one got.
AnswersGoForward ==
  \A w, r \in Requests :
    r \in req[w].before /\ req[w].source = "live" /\ req[r].source = "live"
      /\ req[w].key = req[r].key
      => req[w].value.by \notin req[req[r].value.by].before

\* What a request answered with was on the market before the later ones asked.
AnswersWereSeen ==
  \A w, r \in Requests :
    r \in req[w].before /\ req[r].source = "live" => req[r].value.seen <= req[w].start

\* The condition under which FetchesAreSpaced promises anything.
Undisturbed == crashes = 0 /\ \A q \in Requests : req[q].op # "refresh"

\* Nothing but a later answer replaces an entry, and a request asks the market
\* only when the answers before it have run out.
EntriesLast ==
  Undisturbed =>
    /\ \A p \in Requests :
         req[p].stored # None =>
           /\ req[p].key \in DOMAIN cache /\ req[p].stored <= cache[req[p].key].at
           /\ req[p].pc # "idle"
    /\ \A p, r \in Requests :
         /\ p \in req[r].before /\ req[p].key = req[r].key /\ req[p].stored # None
         /\ req[r].pc \in {"fetch", "store"} \/ req[r].stored # None
         => req[r].start >= req[p].stored + TTL

\* The inductive invariant.
CacheInv ==
  /\ TypeOK /\ Locals /\ CacheOK
  /\ LiveIsFresh
  /\ RefreshClears /\ RefreshTakesEffect
  /\ CacheGoesForward /\ AnswersGoForward /\ AnswersWereSeen
  /\ TableGoesForward
  /\ EntriesLast

----------------------------------------------------------------------------
\* A hit takes an entry that is younger than cacheTTL, and that no refresh found
\* there; a miss finds that the answers before it have run out.
LEMMA QuoteKeeps ==
  ASSUME CacheInv, NEW r \in Requests, Quote(r)
  PROVE  CacheInv'
<1> DEFINE B == {q \in Requests : req[q].pc \in Answered}
<1>1. PICK k \in Keys :
        \/ Hit(k) /\ Open(r, "quote", AfterLive(k), k, cache[k].value, "live")
        \/ ~Hit(k) /\ Open(r, "quote", "fetch", k, None, "none")
  BY DEF Quote
<1>2. UNCHANGED <<now, cache, table, crashes>>
  BY DEF Quote
<1>3. TypeOK /\ req \in [Requests -> Request] /\ now \in Time /\ Time \subseteq Int
      /\ TTL \in Nat /\ Timeout \in Nat
  BY PriceCacheAssumption DEF CacheInv, TypeOK, Time
<1>4. \/ k \in Stored /\ AfterLive(k) = "persist"
      \/ AfterLive(k) = "ok"
  BY DEF AfterLive
<1>5. /\ req[r].pc = "idle" /\ req[r] = Fresh
      /\ \A x \in Requests : x # r => req'[x] = req[x]
      /\ req'[r].op = "quote" /\ req'[r].key = k /\ req'[r].start = now
      /\ req'[r].stored = None /\ req'[r].persisted = FALSE /\ req'[r].before = B
  BY <1>1, <1>3 DEF Open, CacheInv, Locals, LocalOK
<1>6. \/ /\ Hit(k) /\ req'[r].pc \in {"persist", "ok"} /\ req'[r].source = "live"
         /\ req'[r].pc = "persist" => k \in Stored
         /\ req'[r].value = cache[k].value
      \/ ~Hit(k) /\ req'[r].pc = "fetch" /\ req'[r].source = "none" /\ req'[r].value = None
  BY <1>1, <1>3, <1>4 DEF Open
<1>7. Hit(k) => cache[k].value \in Value /\ cache[k].at \in Time /\ k \in DOMAIN cache
                /\ now - cache[k].at < TTL
  BY <1>3 DEF Hit, TypeOK
<1>8. req' \in [Requests -> Request]
  <2>1. CASE Hit(k) /\ Open(r, "quote", AfterLive(k), k, cache[k].value, "live")
    BY <1>3, <1>4, <1>7, <2>1 DEF Open, Request, Working, Answered
  <2>2. CASE ~Hit(k) /\ Open(r, "quote", "fetch", k, None, "none")
    BY <1>3, <2>2 DEF Open, Request, Working
  <2> QED
    BY <1>1, <2>1, <2>2
<1>9. B \subseteq Requests /\ (\A q \in B : req[q].pc \in Answered /\ req'[q].pc \in Answered /\ q # r)
  BY <1>5 DEF Answered
<1> HIDE DEF B
<1>11. TypeOK'
  BY <1>2, <1>3, <1>5, <1>8 DEF TypeOK, Time
<1>12. Opened \subseteq Opened' /\ r \in Opened' /\ r \notin Opened
  BY <1>5, <1>6 DEF Opened
<1>13. CacheOK'
  BY <1>2, <1>12 DEF CacheInv, CacheOK
<1>14. ASSUME NEW x \in Requests PROVE LocalOK(x)'
  <2>1. CASE x = r
    <3>1. ASSUME Hit(k) PROVE cache[k].value.seen <= now
      <4>1. cache[k].value.seen <= cache[k].at /\ cache[k].at <= now
        BY <3>1, <1>3, <1>7 DEF TypeOK
      <4>2. cache[k].value.seen \in Int /\ cache[k].at \in Int /\ now \in Int
        BY <3>1, <1>3, <1>7 DEF Value
      <4> QED
        BY <4>1, <4>2
    <3> QED
      BY <2>1, <3>1, <1>2, <1>3, <1>5, <1>6, <1>7, <1>9, <1>12
      DEF LocalOK, Working, Answered, CacheInv, CacheOK
  <2>2. CASE x # r
    <3>1. LocalOK(x) /\ req'[x] = req[x]
      BY <2>2, <1>5 DEF CacheInv, Locals
    <3>2. \A q \in req[x].before : req'[q].pc \in Answered
      BY <3>1, <1>3, <1>5 DEF LocalOK, Request, Answered
    <3> QED
      BY <3>1, <3>2, <1>2, <1>12 DEF LocalOK
  <2> QED
    BY <2>1, <2>2
<1>15. LiveIsFresh'
  BY <1>2, <1>3, <1>5, <1>6, <1>7 DEF LiveIsFresh, CacheInv, CacheOK, Value, Time
<1>16. \A x \in Requests : r \notin req[x].before
  BY <1>5 DEF CacheInv, Locals, LocalOK, Answered
<1>17. \A x \in Requests : req'[x].op = "refresh" => x # r /\ req[x].op = "refresh"
  BY <1>5
<1>18. RefreshClears'
  BY <1>2, <1>5, <1>17 DEF RefreshClears, CacheInv
<1>19. RefreshTakesEffect'
  BY <1>2, <1>5, <1>6, <1>7, <1>16, <1>17 DEF RefreshTakesEffect, RefreshClears, CacheInv
<1>20. \A x \in Requests : req[x].source = "live" => x # r /\ req[x].value.by \in Requests /\ req[x].value.by # r
  BY <1>5, <1>12 DEF CacheInv, Locals, LocalOK, Opened, Fresh
<1>21. \A j \in DOMAIN cache : cache[j].value.by \in Requests /\ cache[j].value.by # r
  BY <1>12 DEF CacheInv, CacheOK, Opened
<1>22. CacheGoesForward'
  <2> SUFFICES ASSUME NEW x \in Requests, req'[x].source = "live", req'[x].pc # "store",
                      req'[x].key \in DOMAIN cache
               PROVE  cache[req'[x].key].value.by \notin req'[req'[x].value.by].before
    BY <1>2 DEF CacheGoesForward
  <2>1. CASE x = r
    BY <2>1, <1>5, <1>6, <1>7, <1>21 DEF CacheInv, Locals, LocalOK
  <2>2. CASE x # r
    BY <2>2, <1>5, <1>20 DEF CacheGoesForward, CacheInv
  <2> QED
    BY <2>1, <2>2
<1>23. AnswersGoForward'
  <2> SUFFICES ASSUME NEW w \in Requests, NEW x \in Requests, x \in req'[w].before,
                      req'[w].source = "live", req'[x].source = "live",
                      req'[w].key = req'[x].key
               PROVE  req'[w].value.by \notin req'[req'[x].value.by].before
    BY DEF AnswersGoForward
  <2>1. x # r
    BY <1>5, <1>9, <1>16
  <2>2. CASE w = r
    BY <2>1, <2>2, <1>5, <1>6, <1>7, <1>9, <1>20 DEF CacheInv, CacheGoesForward, Answered
  <2>3. CASE w # r
    BY <2>1, <2>3, <1>5, <1>20 DEF CacheInv, AnswersGoForward
  <2> QED
    BY <2>2, <2>3
<1>24. TableGoesForward'
  <2> SUFFICES ASSUME NEW x \in Requests, req'[x].persisted
               PROVE  NotBehind(x)'
    BY <1>2 DEF TableGoesForward
  <2>1. x # r /\ req'[x] = req[x]
    BY <1>5
  <2>2. req[x].source = "live" /\ table[SymbolOf[req[x].key]].by \in Opened
    BY <2>1 DEF CacheInv, Locals, LocalOK
  <2>3. table[SymbolOf[req[x].key]].by \in Requests /\ table[SymbolOf[req[x].key]].by # r
    BY <2>2, <1>12 DEF Opened
  <2>4. NotBehind(x)
    BY <2>1 DEF CacheInv, TableGoesForward
  <2>5. /\ req'[table[SymbolOf[req[x].key]].by].before = req[table[SymbolOf[req[x].key]].by].before
        /\ req'[table[SymbolOf[req[x].key]].by].key = req[table[SymbolOf[req[x].key]].by].key
        /\ req'[req[x].value.by].before = req[req[x].value.by].before
    BY <2>2, <2>3, <1>5, <1>20
  <2>6. /\ req'[x].key = req[x].key /\ req'[x].before = req[x].before
        /\ req'[x].value = req[x].value /\ table' = table
    BY <2>1, <1>2
  <2> QED
    BY <2>4, <2>5, <2>6 DEF NotBehind
<1>25. EntriesLast'
  <2> SUFFICES ASSUME Undisturbed'
               PROVE  EntriesLast!2'
    BY DEF EntriesLast
  <2>1. Undisturbed
    BY <1>2, <1>5, Undisturbed' DEF Undisturbed, Fresh
  <2>2. ASSUME NEW p \in Requests, req'[p].stored # None
        PROVE  /\ p # r /\ req'[p] = req[p] /\ req[p].pc # "idle"
               /\ req[p].key \in DOMAIN cache /\ req[p].stored <= cache[req[p].key].at
               /\ req[p].stored \in Time
    BY <2>1, <2>2, <1>3, <1>5 DEF CacheInv, EntriesLast, Request
  <2>3. ASSUME NEW p \in Requests, NEW x \in Requests,
               p \in req'[x].before, req'[p].key = req'[x].key, req'[p].stored # None,
               req'[x].pc \in {"fetch", "store"} \/ req'[x].stored # None
        PROVE  req'[x].start >= req'[p].stored + TTL
    <3>1. CASE x # r
      BY <2>1, <2>2, <2>3, <3>1, <1>5 DEF CacheInv, EntriesLast
    <3>2. CASE x = r
      <4>1. ~Hit(k) /\ k = req[p].key /\ p # r /\ req'[p].stored = req[p].stored
        BY <2>2, <2>3, <3>2, <1>5, <1>6
      <4>2. k \in DOMAIN cache /\ req[p].stored <= cache[k].at /\ req[p].stored \in Int
        BY <2>2, <2>3, <4>1, <1>3
      <4>3. cache[k].at \in Int
        BY <4>2, <1>3 DEF TypeOK
      <4>4. ~(now - cache[k].at < TTL)
        BY <4>1, <4>2 DEF Hit
      <4>5. now \in Int /\ req'[x].start = now
        BY <3>2, <1>3, <1>5
      <4> QED
        BY <4>1, <4>2, <4>3, <4>4, <4>5, <1>3
    <3> QED
      BY <3>1, <3>2
  <2> QED
    BY <2>2, <2>3, <1>2
<1>26. AnswersWereSeen'
  <2> SUFFICES ASSUME NEW w \in Requests, NEW x \in Requests, x \in req'[w].before,
                      req'[x].source = "live"
               PROVE  req'[x].value.seen <= req'[w].start
    BY DEF AnswersWereSeen
  <2>1. x # r /\ req'[x] = req[x]
    BY <1>5, <1>9, <1>16
  <2>2. CASE w = r
    BY <2>1, <2>2, <1>5 DEF CacheInv, Locals, LocalOK
  <2>3. CASE w # r
    BY <2>1, <2>3, <1>5 DEF CacheInv, AnswersWereSeen
  <2> QED
    BY <2>2, <2>3
<1> QED
  BY <1>11, <1>13, <1>14, <1>15, <1>18, <1>19, <1>22, <1>23, <1>24, <1>25, <1>26
  DEF CacheInv, Locals

----------------------------------------------------------------------------
\* What no step of a request in the making changes.
Fixed(x) ==
  /\ req'[x].op = req[x].op /\ req'[x].key = req[x].key
  /\ req'[x].start = req[x].start /\ req'[x].before = req[x].before
  /\ req'[x].pc = "idle" <=> req[x].pc = "idle"

\* A step that brings nobody a live value.
Quiet(x) ==
  /\ Fixed(x)
  /\ req'[x].stored = req[x].stored /\ req'[x].persisted = req[x].persisted
  /\ req'[x].source = "live" <=> req[x].source = "live"
  /\ req[x].source = "live" => req'[x].value = req[x].value
  /\ req'[x].pc = "store" <=> req[x].pc = "store"
  /\ req'[x].pc = "fetch" => req[x].pc = "fetch"

\* Whoever was before a request stays before it, and answered.
LEMMA FixedBefore ==
  ASSUME CacheInv, \A x \in Requests : Fixed(x),
         \A x \in Requests : req[x].pc \in Answered => req'[x].pc \in Answered
  PROVE  /\ Opened' = Opened
         /\ \A x \in Requests : /\ req'[x].before \subseteq Requests
                                /\ x \notin req'[x].before
                                /\ \A q \in req'[x].before : req'[q].pc \in Answered
<1>1. req \in [Requests -> Request]
  BY DEF CacheInv, TypeOK
<1>2. \A x \in Requests : req[x].before \subseteq Requests
  BY <1>1 DEF Request
<1>3. Opened' = Opened
  BY DEF Opened, Fixed
<1> QED
  BY <1>2, <1>3 DEF Fixed, CacheInv, Locals, LocalOK

\* A step that brings nobody a live value and leaves cache and table alone
\* disturbs none of the properties.
LEMMA QuietKeeps ==
  ASSUME CacheInv, \A x \in Requests : Quiet(x), UNCHANGED <<cache, table, crashes>>
  PROVE  /\ CacheOK' /\ LiveIsFresh' /\ RefreshClears' /\ RefreshTakesEffect'
         /\ CacheGoesForward' /\ AnswersGoForward' /\ AnswersWereSeen'
         /\ TableGoesForward' /\ EntriesLast'
<1>1. req \in [Requests -> Request]
  BY DEF CacheInv, TypeOK
<1>2. ASSUME NEW x \in Requests
      PROVE  /\ x \in Opened' <=> x \in Opened
             /\ req[x].before \subseteq Requests
             /\ req[x].source = "live" => req[x].value.by \in Requests
             /\ \A q \in Requests : req'[q].before = req[q].before
  BY <1>1 DEF Opened, Quiet, Fixed, Request, CacheInv, Locals, LocalOK
<1>3. \A k \in DOMAIN cache : cache[k].value.by \in Requests
  BY DEF CacheInv, CacheOK, Opened
<1>4. CacheOK'
  BY <1>2, <1>3 DEF CacheInv, CacheOK, Quiet, Fixed, Opened
<1>5. LiveIsFresh' /\ RefreshClears' /\ RefreshTakesEffect'
  BY <1>2, <1>3 DEF CacheInv, LiveIsFresh, RefreshClears, RefreshTakesEffect, Quiet, Fixed
<1>6. CacheGoesForward'
  BY <1>2, <1>3 DEF CacheInv, CacheGoesForward, Quiet, Fixed
<1>7. AnswersGoForward' /\ AnswersWereSeen'
  BY <1>2 DEF CacheInv, AnswersGoForward, AnswersWereSeen, Quiet, Fixed
<1>8. TableGoesForward'
  <2> SUFFICES ASSUME NEW x \in Requests, req'[x].persisted
               PROVE  NotBehind(x)'
    BY DEF TableGoesForward
  <2>1. /\ req[x].persisted /\ req'[x].key = req[x].key /\ req'[x].before = req[x].before
        /\ req[x].source = "live" /\ req'[x].value = req[x].value
        /\ table[SymbolOf[req[x].key]].by \in Requests
    BY DEF CacheInv, Locals, LocalOK, Quiet, Fixed, Opened
  <2>2. NotBehind(x)
    BY <2>1 DEF CacheInv, TableGoesForward
  <2>3. /\ req'[table[SymbolOf[req[x].key]].by].before = req[table[SymbolOf[req[x].key]].by].before
        /\ req'[table[SymbolOf[req[x].key]].by].key = req[table[SymbolOf[req[x].key]].by].key
        /\ req'[req[x].value.by].before = req[req[x].value.by].before
    BY <2>1, <1>2 DEF Quiet, Fixed
  <2>4. /\ req'[x].key = req[x].key /\ req'[x].before = req[x].before
        /\ req'[x].value = req[x].value /\ table' = table
    BY <2>1
  <2> QED
    BY <2>2, <2>3, <2>4 DEF NotBehind
<1>9. EntriesLast'
  <2>1. Undisturbed' => Undisturbed
    BY DEF Undisturbed, Quiet, Fixed
  <2>2. \A x \in Requests : req'[x].pc \in {"fetch", "store"} => req[x].pc \in {"fetch", "store"}
    BY DEF Quiet
  <2> QED
    BY <2>1, <2>2 DEF CacheInv, EntriesLast, Quiet, Fixed
<1> QED
  BY <1>4, <1>5, <1>6, <1>7, <1>8, <1>9

\* A failed fetch leaves the request without a value.
LEMMA FailsKeeps ==
  ASSUME CacheInv, NEW r \in Requests, FetchFails(r)
  PROVE  CacheInv'
<1>1. TypeOK /\ req \in [Requests -> Request] /\ LocalOK(r)
  BY DEF CacheInv, TypeOK, Locals
<1>2. UNCHANGED <<now, cache, table, crashes>> /\ req[r].pc = "fetch"
  BY DEF FetchFails, Has
<1>3. \/ req[r].key \in Stored /\ req'[r].pc = "fallback"
      \/ req'[r].pc = "ok"
  BY <1>1 DEF FetchFails, AfterFailure
<1>4. req' \in [Requests -> Request]
  BY <1>1 DEF FetchFails, AfterFailure, Request, Working, Answered
<1>5. /\ \A x \in Requests : x # r => req'[x] = req[x]
      /\ req'[r].op = req[r].op /\ req'[r].key = req[r].key
      /\ req'[r].start = req[r].start /\ req'[r].before = req[r].before
      /\ req'[r].stored = req[r].stored /\ req'[r].persisted = req[r].persisted
      /\ req'[r].source = req[r].source /\ req'[r].value = req[r].value
  BY <1>1 DEF FetchFails, Request
<1>6. \A x \in Requests : Quiet(x)
  BY <1>2, <1>3, <1>5 DEF Quiet, Fixed
<1>7. TypeOK'
  BY <1>1, <1>2, <1>3, <1>4, <1>5 DEF TypeOK
<1>8. \A x \in Requests : req[x].pc \in Answered => req'[x].pc \in Answered
  BY <1>2, <1>5 DEF Answered
<1>9. ASSUME NEW x \in Requests PROVE LocalOK(x)'
  <2>1. LocalOK(x)
    BY DEF CacheInv, Locals
  <2>2. Opened' = Opened /\ x \notin req'[x].before
        /\ \A q \in req'[x].before : req'[q].pc \in Answered
    BY <1>6, <1>8, FixedBefore DEF Quiet
  <2>3. CASE x = r
    BY <2>1, <2>2, <2>3, <1>2, <1>3, <1>5 DEF LocalOK, Working, Answered
  <2>4. CASE x # r
    BY <2>1, <2>2, <2>4, <1>2, <1>5 DEF LocalOK
  <2> QED
    BY <2>3, <2>4
<1> QED
  BY <1>2, <1>6, <1>7, <1>9, QuietKeeps DEF CacheInv, Locals

\* A step that stores what a request got.
LEMMA StoredStep ==
  ASSUME req \in [Requests -> Request], NEW r \in Requests,
         NEW p \in Working \cup {"idle"} \cup Answered, NEW t \in Time
  PROVE  [req EXCEPT ![r].pc = p, ![r].stored = t] \in [Requests -> Request]
<1> DEFINE f1 == [req EXCEPT ![r].pc = p]
           f2 == [f1 EXCEPT ![r].stored = t]
<1>1. f1 \in [Requests -> Request]
  BY DEF Request
<1> HIDE DEF f1
<1>2. f2 \in [Requests -> Request]
  <2> DEFINE held == [f1[r] EXCEPT !.stored = t]
  <2>1. f1[r] \in Request
    BY <1>1
  <2>2. held \in Request
    BY <2>1 DEF Request
  <2>3. f2 = [f1 EXCEPT ![r] = held]
    OBVIOUS
  <2> HIDE DEF held, f2
  <2> QED
    BY <1>1, <2>2, <2>3
<1> QED
  BY <1>2 DEF f1, f2

\* A step that sets what a request got.
LEMMA ValueStep ==
  ASSUME req \in [Requests -> Request], NEW r \in Requests,
         NEW p \in Working \cup {"idle"} \cup Answered,
         NEW v \in Value, NEW s \in {"none", "live", "cached"}
  PROVE  [req EXCEPT ![r].pc = p, ![r].source = s, ![r].value = v]
           \in [Requests -> Request]
<1> DEFINE f1 == [req EXCEPT ![r].pc = p]
           f2 == [f1 EXCEPT ![r].source = s]
           f3 == [f2 EXCEPT ![r].value = v]
<1>1. f1 \in [Requests -> Request]
  BY DEF Request
<1> HIDE DEF f1
<1>2. f2 \in [Requests -> Request]
  BY <1>1 DEF Request
<1> HIDE DEF f2
<1>3. f3 \in [Requests -> Request]
  BY SMTT(30), <1>2 DEF Request
<1> QED
  BY <1>3 DEF f1, f2, f3

\* What comes from the table is not passed off as live.
LEMMA FallbackKeeps ==
  ASSUME CacheInv, NEW r \in Requests, Fallback(r)
  PROVE  CacheInv'
<1>1. TypeOK /\ req \in [Requests -> Request] /\ LocalOK(r)
  BY DEF CacheInv, TypeOK, Locals
<1>2. UNCHANGED <<now, cache, table, crashes>> /\ req[r].pc = "fallback"
      /\ req[r].key \in Stored /\ req[r].source = "none"
  BY <1>1 DEF Fallback, Has, LocalOK
<1>3. /\ \A x \in Requests : x # r => req'[x] = req[x]
      /\ req'[r].pc = "ok"
      /\ req'[r].op = req[r].op /\ req'[r].key = req[r].key
      /\ req'[r].start = req[r].start /\ req'[r].before = req[r].before
      /\ req'[r].stored = req[r].stored /\ req'[r].persisted = req[r].persisted
      /\ req'[r].source \in {"none", "cached"}
  BY <1>1, <1>2 DEF Fallback, Request
<1>4. req' \in [Requests -> Request]
  <2>1. CASE req' = [req EXCEPT ![r].pc = "ok"]
    BY <1>1, <2>1 DEF Request, Answered
  <2>2. CASE /\ table[SymbolOf[req[r].key]] # None
             /\ req' = [req EXCEPT ![r].pc = "ok", ![r].source = "cached",
                                   ![r].value = table[SymbolOf[req[r].key]].value]
    <3>1. table[SymbolOf[req[r].key]].value \in Value
      BY <1>1, <1>2, <2>2 DEF TypeOK, Symbols
    <3> QED
      BY Zenon, <1>1, <2>2, <3>1, ValueStep DEF Answered
  <2> QED
    BY <2>1, <2>2 DEF Fallback
<1>5. \A x \in Requests : Quiet(x)
  BY <1>2, <1>3 DEF Quiet, Fixed
<1>6. TypeOK'
  BY <1>1, <1>2, <1>3, <1>4 DEF TypeOK
<1>7. \A x \in Requests : req[x].pc \in Answered => req'[x].pc \in Answered
  BY <1>3 DEF Answered
<1>8. ASSUME NEW x \in Requests PROVE LocalOK(x)'
  <2>1. LocalOK(x)
    BY DEF CacheInv, Locals
  <2>2. Opened' = Opened /\ x \notin req'[x].before
        /\ \A q \in req'[x].before : req'[q].pc \in Answered
    BY <1>5, <1>7, FixedBefore DEF Quiet
  <2>3. CASE x = r
    BY <2>1, <2>2, <2>3, <1>2, <1>3 DEF LocalOK, Working, Answered
  <2>4. CASE x # r
    BY <2>1, <2>2, <2>4, <1>2, <1>3 DEF LocalOK
  <2> QED
    BY <2>3, <2>4
<1> QED
  BY <1>2, <1>5, <1>6, <1>8, QuietKeeps DEF CacheInv, Locals

\* A live answer is the request's own: the request has not been answered, so it
\* is before nobody.
LEMMA AnswersKeeps ==
  ASSUME CacheInv, NEW r \in Requests, FetchAnswers(r)
  PROVE  CacheInv'
<1>1. TypeOK /\ req \in [Requests -> Request] /\ LocalOK(r)
      /\ now \in Time /\ Time \subseteq Nat /\ TTL \in Nat \ {0} /\ Timeout \in Nat \ {0}
      /\ req[r].start \in Time
  BY PriceCacheAssumption DEF CacheInv, TypeOK, Locals, Time, Request
<1>2. UNCHANGED <<now, cache, table, crashes>> /\ req[r].pc = "fetch"
      /\ req[r].stored = None
  BY <1>1 DEF FetchAnswers, Has, LocalOK
<1>3. PICK t \in req[r].start..now :
        req' = [req EXCEPT ![r].pc = "store", ![r].source = "live",
                           ![r].value = [seen |-> t, by |-> r]]
  BY Zenon DEF FetchAnswers
<1>4. t \in Time /\ t \in Int /\ req[r].start \in Int /\ now \in Int
      /\ req[r].start <= t /\ t <= now
  BY <1>1, PriceCacheAssumption DEF Time
<1>5. req' \in [Requests -> Request]
  <2>1. [seen |-> t, by |-> r] \in Value
    BY <1>4 DEF Value
  <2> QED
    BY Zenon, <1>1, <1>3, <2>1, ValueStep DEF Working
<1>6. /\ \A x \in Requests : x # r => req'[x] = req[x]
      /\ req'[r].pc = "store" /\ req'[r].source = "live"
      /\ req'[r].value = [seen |-> t, by |-> r]
      /\ req'[r].op = req[r].op /\ req'[r].key = req[r].key
      /\ req'[r].start = req[r].start /\ req'[r].before = req[r].before
      /\ req'[r].stored = req[r].stored /\ req'[r].persisted = req[r].persisted
  BY <1>1, <1>3 DEF Request
<1>7. TypeOK'
  BY <1>1, <1>2, <1>5, <1>6 DEF TypeOK
<1>8. \A x \in Requests : Fixed(x)
  BY <1>2, <1>6 DEF Fixed
<1>9. \A x \in Requests : req[x].pc \in Answered => req'[x].pc \in Answered
  BY <1>2, <1>6 DEF Answered
<1>10. /\ Opened' = Opened /\ r \in Opened
       /\ \A x \in Requests : /\ req[x].before \subseteq Requests
                              /\ r \notin req[x].before
                              /\ x \notin req'[x].before
                              /\ \A q \in req'[x].before : req'[q].pc \in Answered
  BY <1>2, <1>6, <1>8, <1>9, FixedBefore DEF Opened, Answered
<1>11. \A x \in Requests : req[x].source = "live" => req[x].value.by \in Requests
  BY DEF CacheInv, Locals, LocalOK, Opened
<1>12. ASSUME NEW x \in Requests PROVE LocalOK(x)'
  <2>1. LocalOK(x)
    BY DEF CacheInv, Locals
  <2>2. CASE x = r
    BY <2>1, <2>2, <1>1, <1>2, <1>4, <1>6, <1>10 DEF LocalOK, Working, Value
  <2>3. CASE x # r
    BY <2>1, <2>3, <1>2, <1>6, <1>10 DEF LocalOK
  <2> QED
    BY <2>2, <2>3
<1>13. CacheOK'
  BY <1>2, <1>10 DEF CacheInv, CacheOK
<1>14. LiveIsFresh'
  BY <1>1, <1>4, <1>6 DEF CacheInv, LiveIsFresh
<1>15. RefreshClears'
  BY <1>2, <1>8 DEF CacheInv, RefreshClears, Fixed
<1>16. RefreshTakesEffect'
  BY <1>6, <1>8, <1>10 DEF CacheInv, RefreshTakesEffect, Fixed
<1>17. CacheGoesForward'
  BY <1>2, <1>6, <1>8, <1>11 DEF CacheInv, CacheGoesForward, Fixed
<1>18. AnswersGoForward'
  <2> SUFFICES ASSUME NEW w \in Requests, NEW x \in Requests, x \in req'[w].before,
                      req'[w].source = "live", req'[x].source = "live",
                      req'[w].key = req'[x].key
               PROVE  req'[w].value.by \notin req'[req'[x].value.by].before
    BY DEF AnswersGoForward
  <2>1. x # r /\ req'[x] = req[x]
    BY <1>6, <1>8, <1>10 DEF Fixed
  <2>2. CASE w = r
    BY <2>1, <2>2, <1>6, <1>8, <1>10, <1>11 DEF Fixed
  <2>3. CASE w # r
    BY <2>1, <2>3, <1>6, <1>8, <1>11 DEF CacheInv, AnswersGoForward, Fixed
  <2> QED
    BY <2>2, <2>3
<1>19. TableGoesForward'
  <2> SUFFICES ASSUME NEW x \in Requests, req'[x].persisted
               PROVE  NotBehind(x)'
    BY <1>2 DEF TableGoesForward
  <2>1. x # r /\ req'[x] = req[x]
    BY <1>2, <1>6, <1>12 DEF LocalOK, Answered
  <2>2. req[x].source = "live" /\ table[SymbolOf[req[x].key]].by \in Requests
    BY <2>1 DEF CacheInv, Locals, LocalOK, Opened
  <2>3. NotBehind(x)
    BY <2>1 DEF CacheInv, TableGoesForward
  <2>4. /\ req'[table[SymbolOf[req[x].key]].by].before = req[table[SymbolOf[req[x].key]].by].before
        /\ req'[table[SymbolOf[req[x].key]].by].key = req[table[SymbolOf[req[x].key]].by].key
        /\ req'[req[x].value.by].before = req[req[x].value.by].before
    BY <2>2, <1>8, <1>11 DEF Fixed
  <2>5. /\ req'[x].key = req[x].key /\ req'[x].before = req[x].before
        /\ req'[x].value = req[x].value /\ table' = table
    BY <2>1, <1>2
  <2> QED
    BY <2>3, <2>4, <2>5 DEF NotBehind
<1>20. EntriesLast'
  <2>1. Undisturbed' => Undisturbed
    BY <1>2, <1>8 DEF Undisturbed, Fixed
  <2>2. \A x \in Requests :
          /\ req'[x].stored = req[x].stored
          /\ req'[x].pc \in {"fetch", "store"} => req[x].pc \in {"fetch", "store"}
          /\ req'[x].pc = "idle" <=> req[x].pc = "idle"
    BY <1>2, <1>6
  <2> QED
    BY <2>1, <2>2, <1>2, <1>8 DEF CacheInv, EntriesLast, Fixed
<1>21. AnswersWereSeen'
  BY <1>6, <1>8, <1>10 DEF CacheInv, AnswersWereSeen, Fixed
<1> QED
  BY <1>7, <1>12, <1>13, <1>14, <1>15, <1>16, <1>17, <1>18, <1>19, <1>20, <1>21
  DEF CacheInv, Locals

\* The entry is stamped at most httpTimeout after the market had its value, and
\* its fetcher, not answered yet, is before nobody.
LEMMA StoreKeeps ==
  ASSUME CacheInv, NEW r \in Requests, Store(r)
  PROVE  CacheInv'
<1> DEFINE k == req[r].key
           v == req[r].value
<1>1. TypeOK /\ req \in [Requests -> Request] /\ LocalOK(r)
      /\ now \in Time /\ Time \subseteq Int /\ TTL \in Nat \ {0} /\ Timeout \in Nat \ {0}
      /\ now \in Int
  BY PriceCacheAssumption DEF CacheInv, TypeOK, Locals, Time
<1>2. /\ UNCHANGED <<now, table, crashes>> /\ req[r].pc = "store" /\ req[r].source = "live"
      /\ req[r].stored = None /\ k \in Keys /\ v \in Value /\ v.by = r
      /\ req[r].start <= v.seen /\ req[r].op = "quote"
  BY <1>1 DEF Store, Has, LocalOK, Working
<1>3. cache' = Put(cache, k, [value |-> v, at |-> now])
  BY DEF Store
<1>4. \/ k \in Stored /\ req'[r].pc = "persist"
      \/ req'[r].pc = "ok"
  BY <1>1 DEF Store, AfterLive
<1>5. req' \in [Requests -> Request]
  <2>1. AfterLive(req[r].key) \in Working \cup {"idle"} \cup Answered
    BY DEF AfterLive, Working, Answered
  <2> QED
    BY Zenon, <1>1, <2>1, StoredStep DEF Store
<1>6. /\ \A x \in Requests : x # r => req'[x] = req[x]
      /\ req'[r].source = "live" /\ req'[r].value = v /\ req'[r].stored = now
      /\ req'[r].op = req[r].op /\ req'[r].key = k
      /\ req'[r].start = req[r].start /\ req'[r].before = req[r].before
      /\ req'[r].persisted = req[r].persisted
  BY <1>1, <1>2 DEF Store, Request
<1>7. v.seen \in Int /\ v.seen <= now /\ now <= v.seen + Timeout /\ req[r].start \in Int
  <2> DEFINE t == v.seen
             t0 == req[r].start
  <2>1. t \in Int /\ t0 \in Int /\ Timeout \in Int /\ now \in Int
    <3>1. t \in Time
      BY <1>2 DEF Value
    <3>2. t0 \in Time
      BY <1>1 DEF Request
    <3> HIDE DEF t, t0
    <3> QED
      BY <3>1, <3>2, <1>1
  <2>2. now <= t0 + Timeout
    BY <1>1, <1>2 DEF TypeOK
  <2>3. t <= now
    BY <1>1, <1>2 DEF LocalOK
  <2>4. t0 <= t
    BY <1>2
  <2> HIDE DEF t, t0
  <2>5. now <= t + Timeout
    BY <2>1, <2>2, <2>4
  <2> QED
    BY <2>1, <2>3, <2>5 DEF t, t0
<1>8. /\ DOMAIN cache' = DOMAIN cache \cup {k}
      /\ cache'[k].value = v /\ cache'[k].at = now
      /\ \A j \in DOMAIN cache : j # k => cache'[j] = cache[j]
  BY <1>3 DEF Put
<1> HIDE DEF k, v
<1>9. \A x \in Requests : Fixed(x)
  BY <1>2, <1>4, <1>6 DEF Fixed, k
<1>10. \A x \in Requests : req[x].pc \in Answered => req'[x].pc \in Answered
  BY <1>2, <1>6 DEF Answered
<1>11. /\ Opened' = Opened /\ r \in Opened
       /\ \A x \in Requests : /\ req[x].before \subseteq Requests
                              /\ r \notin req[x].before
                              /\ x \notin req'[x].before
                              /\ \A q \in req'[x].before : req'[q].pc \in Answered
  BY <1>2, <1>6, <1>9, <1>10, FixedBefore DEF Opened, CacheInv, Locals, LocalOK, Answered
<1>12. \A x \in Requests : req[x].source = "live" => req[x].value.by \in Requests
  BY DEF CacheInv, Locals, LocalOK, Opened
<1>13. TypeOK'
  <2>1. DOMAIN cache' \subseteq Keys
    BY <1>1, <1>2, <1>8 DEF TypeOK
  <2>2. ASSUME NEW j \in DOMAIN cache'
        PROVE  /\ cache'[j].value \in Value /\ cache'[j].at \in Time
               /\ cache'[j].value.seen <= cache'[j].at /\ cache'[j].at <= now
    BY <1>1, <1>2, <1>7, <1>8 DEF TypeOK
  <2>3. \A x \in Requests :
          req'[x].pc \in {"fetch", "store"} => now <= req'[x].start + Timeout
    BY <1>1, <1>4, <1>6 DEF TypeOK
  <2> QED
    BY <2>1, <2>2, <2>3, <1>1, <1>2, <1>5 DEF TypeOK
<1>14. ASSUME NEW x \in Requests PROVE LocalOK(x)'
  <2>1. LocalOK(x)
    BY DEF CacheInv, Locals
  <2>2. CASE x = r
    BY <2>1, <2>2, <1>2, <1>4, <1>6, <1>11 DEF LocalOK, Working, Answered, k, v
  <2>3. CASE x # r
    BY <2>1, <2>3, <1>2, <1>6, <1>11 DEF LocalOK
  <2> QED
    BY <2>2, <2>3
<1>15. CacheOK'
  <2>1. ASSUME NEW j \in DOMAIN cache'
        PROVE  cache'[j].value.by \in Opened' /\ cache'[j].at <= cache'[j].value.seen + Timeout
    BY <1>2, <1>7, <1>8, <1>11 DEF CacheInv, CacheOK
  <2> QED
    BY <2>1, <1>2, <1>11 DEF CacheInv, CacheOK
<1>16. LiveIsFresh'
  BY <1>2, <1>6 DEF CacheInv, LiveIsFresh, v
<1>17. RefreshClears'
  BY <1>2, <1>8, <1>9, <1>11 DEF CacheInv, RefreshClears, Fixed
<1>18. \A x \in Requests : /\ req'[x].source = req[x].source /\ req'[x].value = req[x].value
                           /\ req'[x].persisted = req[x].persisted
  BY <1>2, <1>6 DEF v
<1>19. RefreshTakesEffect'
  BY <1>9, <1>18 DEF CacheInv, RefreshTakesEffect, Fixed
<1>20. CacheGoesForward'
  <2> SUFFICES ASSUME NEW x \in Requests, req'[x].source = "live", req'[x].pc # "store",
                      req'[x].key \in DOMAIN cache'
               PROVE  cache'[req'[x].key].value.by \notin req'[req'[x].value.by].before
    BY DEF CacheGoesForward
  <2>1. req'[x].value.by \in Requests /\ req'[x].key = req[x].key
        /\ req'[req'[x].value.by].before = req[req[x].value.by].before
        /\ r \notin req[req[x].value.by].before
    BY <1>9, <1>11, <1>12, <1>18 DEF Fixed
  <2>2. CASE req[x].key = k
    BY <2>1, <2>2, <1>2, <1>8
  <2>3. CASE req[x].key # k
    <3>1. x # r
      BY <2>3, <1>6 DEF k
    <3> QED
      BY <2>1, <2>3, <3>1, <1>6, <1>8 DEF CacheInv, CacheGoesForward
  <2> QED
    BY <2>2, <2>3
<1>21. AnswersGoForward' /\ AnswersWereSeen'
  BY <1>9, <1>12, <1>18 DEF CacheInv, AnswersGoForward, AnswersWereSeen, Fixed
<1>22. TableGoesForward'
  <2> SUFFICES ASSUME NEW x \in Requests, req'[x].persisted
               PROVE  NotBehind(x)'
    BY <1>2 DEF TableGoesForward
  <2>1. /\ req[x].persisted /\ req'[x].value = req[x].value
        /\ req'[x].key = req[x].key /\ req'[x].before = req[x].before
        /\ req[x].source = "live" /\ table[SymbolOf[req[x].key]].by \in Requests
    BY <1>9, <1>18 DEF CacheInv, Locals, LocalOK, Opened, Fixed
  <2>2. NotBehind(x)
    BY <2>1 DEF CacheInv, TableGoesForward
  <2>3. /\ req'[table[SymbolOf[req[x].key]].by].before = req[table[SymbolOf[req[x].key]].by].before
        /\ req'[table[SymbolOf[req[x].key]].by].key = req[table[SymbolOf[req[x].key]].by].key
        /\ req'[req[x].value.by].before = req[req[x].value.by].before
    BY <2>1, <1>9, <1>12 DEF Fixed
  <2>4. /\ req'[x].key = req[x].key /\ req'[x].before = req[x].before
        /\ req'[x].value = req[x].value /\ table' = table
    BY <2>1, <1>2
  <2> QED
    BY <2>2, <2>3, <2>4 DEF NotBehind
<1>23. EntriesLast'
  <2> SUFFICES ASSUME Undisturbed'
               PROVE  EntriesLast!2'
    BY DEF EntriesLast
  <2>1. Undisturbed
    BY <1>2, <1>9, Undisturbed' DEF Undisturbed, Fixed
  <2>2. ASSUME NEW p \in Requests, req'[p].stored # None
        PROVE  /\ req'[p].key \in DOMAIN cache' /\ req'[p].stored <= cache'[req'[p].key].at
               /\ req'[p].pc # "idle"
    <3>1. CASE p = r
      BY <3>1, <1>1, <1>4, <1>6, <1>8
    <3>2. CASE p # r
      <4>1. /\ req'[p] = req[p] /\ req[p].key \in DOMAIN cache
            /\ req[p].stored <= cache[req[p].key].at /\ req[p].pc # "idle"
        BY <2>1, <2>2, <3>2, <1>6 DEF CacheInv, EntriesLast
      <4>2. cache[req[p].key].at <= now /\ cache[req[p].key].at \in Int
        BY <4>1, <1>1 DEF TypeOK
      <4>3. req[p].stored \in Time \cup {None}
        BY <1>1 DEF Request
      <4>4. req[p].stored \in Int
        BY <2>2, <4>1, <4>3, <1>1
      <4>5. CASE req[p].key = k
        BY <4>1, <4>2, <4>4, <4>5, <1>1, <1>8
      <4>6. CASE req[p].key # k
        BY <4>1, <4>6, <1>8
      <4> QED
        BY <4>5, <4>6
    <3> QED
      BY <3>1, <3>2
  <2>3. ASSUME NEW p \in Requests, NEW x \in Requests,
               p \in req'[x].before, req'[p].key = req'[x].key, req'[p].stored # None,
               req'[x].pc \in {"fetch", "store"} \/ req'[x].stored # None
        PROVE  req'[x].start >= req'[p].stored + TTL
    <3>1. p # r /\ req'[p] = req[p]
      BY <2>3, <1>6, <1>9, <1>11 DEF Fixed
    <3>2. req[x].pc \in {"fetch", "store"} \/ req[x].stored # None
      BY <2>3, <1>2, <1>6
    <3> QED
      BY <2>1, <2>3, <3>1, <3>2, <1>9 DEF CacheInv, EntriesLast, Fixed
  <2> QED
    BY <2>2, <2>3
<1> QED
  BY <1>13, <1>14, <1>15, <1>16, <1>17, <1>19, <1>20, <1>21, <1>22, <1>23
  DEF CacheInv, Locals

\* The table is written by a request that has not been answered, so it is
\* before nobody: what it leaves was fetched after what it replaces, or by a
\* request that overlaps it.
LEMMA PersistKeeps ==
  ASSUME CacheInv, NEW r \in Requests, Persist(r)
  PROVE  CacheInv'
<1> DEFINE k == req[r].key
<1>1. TypeOK /\ req \in [Requests -> Request] /\ LocalOK(r)
  BY DEF CacheInv, TypeOK, Locals
<1>2. /\ UNCHANGED <<now, cache, crashes>> /\ req[r].pc = "persist"
      /\ req[r].source = "live" /\ k \in Stored /\ req[r].value \in Value
      /\ req[r].value.by \in Opened /\ ~req[r].persisted
  BY <1>1 DEF Persist, Has, LocalOK, Answered
<1>3. /\ \A x \in Requests : x # r => req'[x] = req[x]
      /\ req'[r].pc = "ok"
      /\ req'[r].op = req[r].op /\ req'[r].key = req[r].key
      /\ req'[r].start = req[r].start /\ req'[r].before = req[r].before
      /\ req'[r].stored = req[r].stored
      /\ req'[r].source = req[r].source /\ req'[r].value = req[r].value
  BY <1>1, <1>2 DEF Persist, Write, Request
<1>4. \/ req'[r].persisted = TRUE /\ table' = [table EXCEPT ![SymbolOf[k]] = [value |-> req[r].value, by |-> r]]
      \/ req'[r].persisted = req[r].persisted /\ table' = table
  BY <1>1, <1>2 DEF Persist, Write, Request
<1>5. req' \in [Requests -> Request]
  BY <1>1 DEF Persist, Request, Answered
<1>6. \A x \in Requests : Fixed(x)
  BY <1>2, <1>3 DEF Fixed
<1>7. \A x \in Requests : req[x].pc \in Answered => req'[x].pc \in Answered
  BY <1>2, <1>3 DEF Answered
<1>8. /\ Opened' = Opened /\ r \in Opened
      /\ \A x \in Requests : /\ req[x].before \subseteq Requests
                             /\ r \notin req[x].before
                             /\ x \notin req'[x].before
                             /\ \A q \in req'[x].before : req'[q].pc \in Answered
  BY <1>2, <1>6, <1>7, FixedBefore DEF Opened, Answered, Fixed, CacheInv, Locals, LocalOK
<1>9. \A x \in Requests : /\ req'[x].source = req[x].source /\ req'[x].value = req[x].value
                          /\ req'[x].stored = req[x].stored
                          /\ req'[x].pc = "store" <=> req[x].pc = "store"
                          /\ req'[x].pc = "fetch" <=> req[x].pc = "fetch"
                          /\ req'[x].persisted => x = r \/ req[x].persisted
                          /\ req[x].source = "live" => req[x].value.by \in Requests
  BY <1>2, <1>3 DEF CacheInv, Locals, LocalOK, Opened
<1>10. table' \in [Symbols -> [value : Value, by : Requests] \cup {None}]
  BY <1>1, <1>2, <1>4 DEF TypeOK
<1>11. TypeOK'
  BY <1>1, <1>2, <1>3, <1>5, <1>10 DEF TypeOK
<1>12. \A j \in Symbols :
          \/ table'[j] = table[j]
          \/ j = SymbolOf[k] /\ table'[j] = [value |-> req[r].value, by |-> r]
  BY <1>1, <1>2, <1>4 DEF TypeOK
<1>13. req'[r].persisted => table'[SymbolOf[k]] = [value |-> req[r].value, by |-> r]
  BY <1>1, <1>2, <1>4 DEF TypeOK, Symbols
<1> HIDE DEF k
<1>14. ASSUME NEW x \in Requests PROVE LocalOK(x)'
  <2>1. LocalOK(x)
    BY DEF CacheInv, Locals
  <2>2. CASE x = r
    BY <2>1, <2>2, <1>2, <1>3, <1>8, <1>13 DEF LocalOK, Working, Answered, k
  <2>3. CASE x # r
    <3>1. req[x].persisted => table'[SymbolOf[req[x].key]].by \in Opened
      BY <2>1, <1>8, <1>12 DEF LocalOK, Symbols
    <3> QED
      BY <2>1, <2>3, <3>1, <1>2, <1>3, <1>8 DEF LocalOK
  <2> QED
    BY <2>2, <2>3
<1>15. CacheOK'
  BY <1>2, <1>8 DEF CacheInv, CacheOK
<1>16. LiveIsFresh' /\ RefreshClears' /\ RefreshTakesEffect'
  BY <1>2, <1>6, <1>9 DEF CacheInv, LiveIsFresh, RefreshClears, RefreshTakesEffect, Fixed
<1>17. CacheGoesForward' /\ AnswersGoForward' /\ AnswersWereSeen'
  BY <1>2, <1>6, <1>9
  DEF CacheInv, CacheGoesForward, AnswersGoForward, AnswersWereSeen, Fixed
<1>18. TableGoesForward'
  <2> SUFFICES ASSUME NEW x \in Requests, req'[x].persisted
               PROVE  NotBehind(x)'
    BY DEF TableGoesForward
  <2> DEFINE j == SymbolOf[req[x].key]
  <2>1. /\ req'[x].key = req[x].key /\ req'[x].value = req[x].value
        /\ req'[x].before = req[x].before
        /\ req'[x].source = "live" /\ req[x].source = "live" /\ req[x].key \in Stored
        /\ req[x].value.by \in Requests /\ j \in Symbols
        /\ req'[req[x].value.by].before = req[req[x].value.by].before
    BY <1>2, <1>6, <1>9 DEF CacheInv, Locals, LocalOK, Fixed, k, Symbols
  <2>2. CASE table'[j] = [value |-> req[r].value, by |-> r] /\ j = SymbolOf[k]
    <3>1. CASE x \in req[r].before /\ req[x].key = k
      <4>1. req[r].value.by \notin req[req[x].value.by].before
        BY <2>1, <3>1, <1>2 DEF CacheInv, AnswersGoForward, k
      <4>2. req'[r].key = req'[x].key
        BY <3>1, <1>3, <2>1 DEF k
      <4> QED
        BY <2>1, <2>2, <4>1, <4>2 DEF NotBehind
    <3>2. CASE x \in req[r].before /\ req[x].key # k
      <4>1. req[x].value.seen <= req[r].start
        BY <2>1, <3>2 DEF CacheInv, AnswersWereSeen
      <4>2. req[r].value.seen > req[r].start - TTL - Timeout
        BY <1>2 DEF CacheInv, LiveIsFresh
      <4>3. /\ req[x].value.seen \in Int /\ req[r].value.seen \in Int
            /\ req[r].start \in Int /\ TTL \in Int /\ Timeout \in Int
        <5>1. req[x].value \in Value
          BY <2>1 DEF CacheInv, Locals, LocalOK
        <5> QED
          BY <5>1, <1>1, <1>2, PriceCacheAssumption DEF Value, Time, Request
      <4>4. req[r].value.seen > req[x].value.seen - TTL - Timeout
        BY <4>1, <4>2, <4>3
      <4>5. req'[r].key # req'[x].key
        BY <3>2, <1>3, <2>1 DEF k
      <4> QED
        BY <2>1, <2>2, <4>4, <4>5 DEF NotBehind
    <3>3. CASE x \notin req[r].before
      BY <2>1, <2>2, <3>3, <1>3, <1>8 DEF NotBehind
    <3> QED
      BY <3>1, <3>2, <3>3
  <2>3. CASE table'[j] = table[j]
             /\ ~(table'[j] = [value |-> req[r].value, by |-> r] /\ j = SymbolOf[k])
    <3>1. x # r /\ req[x].persisted
      BY <2>1, <2>3, <1>9, <1>13 DEF k
    <3>2. table[j].by \in Requests
      BY <3>1 DEF CacheInv, Locals, LocalOK, Opened
    <3>3. NotBehind(x)
      BY <3>1 DEF CacheInv, TableGoesForward
    <3>4. /\ req'[table[j].by].before = req[table[j].by].before
          /\ req'[table[j].by].key = req[table[j].by].key
      BY <3>2, <1>6 DEF Fixed
    <3> QED
      BY <2>1, <2>3, <3>3, <3>4 DEF NotBehind
  <2> QED
    BY <2>1, <2>2, <2>3, <1>12
<1>19. EntriesLast'
  <2>1. Undisturbed' => Undisturbed
    BY <1>2, <1>6 DEF Undisturbed, Fixed
  <2> QED
    BY <2>1, <1>2, <1>6, <1>9 DEF CacheInv, EntriesLast, Fixed
<1> QED
  BY <1>11, <1>14, <1>15, <1>16, <1>17, <1>18, <1>19 DEF CacheInv, Locals

\* A refresh clears what could be served after it.
LEMMA RefreshKeeps ==
  ASSUME CacheInv, NEW r \in Requests, Refresh(r)
  PROVE  CacheInv'
<1> DEFINE B == {q \in Requests : req[q].pc \in Answered}
<1>1. TypeOK /\ req \in [Requests -> Request] /\ now \in Time
  BY DEF CacheInv, TypeOK
<1>2. UNCHANGED <<now, table, crashes>> /\ req[r].pc = "idle" /\ req[r] = Fresh
      /\ cache' = [k \in DOMAIN cache \ Cleared |-> cache[k]]
  BY DEF Refresh, Open, CacheInv, Locals, LocalOK
<1>3. /\ \A x \in Requests : x # r => req'[x] = req[x]
      /\ req'[r].pc = "ok" /\ req'[r].op = "refresh" /\ req'[r].key = None
      /\ req'[r].start = now /\ req'[r].stored = None /\ req'[r].source = "none"
      /\ req'[r].persisted = FALSE /\ req'[r].before = B
  BY <1>1 DEF Refresh, Open
<1>4. req' \in [Requests -> Request]
  BY <1>1 DEF Refresh, Open, Request, Answered
<1>5. B \subseteq Requests /\ (\A q \in B : req[q].pc \in Answered /\ req'[q].pc \in Answered /\ q # r)
  BY <1>2, <1>3 DEF Answered
<1> HIDE DEF B
<1>6. DOMAIN cache' = DOMAIN cache \ Cleared /\ \A k \in DOMAIN cache' : cache'[k] = cache[k]
  BY <1>2
<1>7. TypeOK'
  BY <1>1, <1>2, <1>3, <1>4, <1>6 DEF TypeOK
<1>8. Opened \subseteq Opened' /\ r \in Opened' /\ r \notin Opened
  BY <1>2, <1>3 DEF Opened
<1>9. CacheOK'
  BY <1>6, <1>8 DEF CacheInv, CacheOK
<1>10. ASSUME NEW x \in Requests PROVE LocalOK(x)'
  <2>1. CASE x = r
    BY <2>1, <1>1, <1>2, <1>3, <1>5 DEF LocalOK, Working, Answered, Time
  <2>2. CASE x # r
    <3>1. LocalOK(x) /\ req'[x] = req[x]
      BY <2>2, <1>3 DEF CacheInv, Locals
    <3>2. \A q \in req[x].before : req'[q].pc \in Answered
      BY <3>1, <1>1, <1>3 DEF LocalOK, Request, Answered
    <3> QED
      BY <3>1, <3>2, <1>2, <1>8 DEF LocalOK
  <2> QED
    BY <2>1, <2>2
<1>11. \A x \in Requests : /\ req'[x].source = "live" => x # r /\ req[x].source = "live"
                           /\ req[x].source = "live" => /\ req[x].value.by \in Requests
                                                        /\ req[x].value.by # r
                           /\ r \notin req[x].before
  BY <1>2, <1>3, <1>8 DEF CacheInv, Locals, LocalOK, Opened, Fresh, Answered
<1>12. LiveIsFresh'
  BY <1>3, <1>11 DEF CacheInv, LiveIsFresh
<1>13. RefreshClears'
  <2> SUFFICES ASSUME NEW q \in Requests, NEW k \in DOMAIN cache',
                      req'[q].op = "refresh", k \in Cleared
               PROVE  cache'[k].value.by \notin req'[q].before
    BY DEF RefreshClears
  <2> QED
    BY <1>6
<1>14. RefreshTakesEffect'
  BY <1>3, <1>11 DEF CacheInv, RefreshTakesEffect
<1>15. CacheGoesForward'
  BY <1>3, <1>6, <1>11 DEF CacheInv, CacheGoesForward
<1>16. AnswersGoForward'
  BY <1>3, <1>11 DEF CacheInv, AnswersGoForward
<1>17. TableGoesForward'
  <2> SUFFICES ASSUME NEW x \in Requests, req'[x].persisted
               PROVE  NotBehind(x)'
    BY <1>2 DEF TableGoesForward
  <2>1. x # r /\ req'[x] = req[x]
    BY <1>3
  <2>2. req[x].source = "live" /\ table[SymbolOf[req[x].key]].by \in Opened
    BY <2>1 DEF CacheInv, Locals, LocalOK
  <2>3. table[SymbolOf[req[x].key]].by \in Requests /\ table[SymbolOf[req[x].key]].by # r
    BY <2>2, <1>8 DEF Opened
  <2>4. NotBehind(x)
    BY <2>1 DEF CacheInv, TableGoesForward
  <2>5. /\ req'[table[SymbolOf[req[x].key]].by].before = req[table[SymbolOf[req[x].key]].by].before
        /\ req'[table[SymbolOf[req[x].key]].by].key = req[table[SymbolOf[req[x].key]].by].key
        /\ req'[req[x].value.by].before = req[req[x].value.by].before
    BY <2>2, <2>3, <1>3, <1>11
  <2>6. /\ req'[x].key = req[x].key /\ req'[x].before = req[x].before
        /\ req'[x].value = req[x].value /\ table' = table
    BY <2>1, <1>2
  <2> QED
    BY <2>4, <2>5, <2>6 DEF NotBehind
<1>18. EntriesLast'
  BY <1>3 DEF EntriesLast, Undisturbed
<1>19. AnswersWereSeen'
  <2> SUFFICES ASSUME NEW w \in Requests, NEW x \in Requests, x \in req'[w].before,
                      req'[x].source = "live"
               PROVE  req'[x].value.seen <= req'[w].start
    BY DEF AnswersWereSeen
  <2>1. x # r /\ req'[x] = req[x]
    BY <1>3, <1>11
  <2>2. CASE w = r
    BY <2>1, <2>2, <1>3 DEF CacheInv, Locals, LocalOK
  <2>3. CASE w # r
    BY <2>1, <2>3, <1>3 DEF CacheInv, AnswersWereSeen
  <2> QED
    BY <2>2, <2>3
<1> QED
  BY <1>7, <1>9, <1>10, <1>12, <1>13, <1>14, <1>15, <1>16, <1>17, <1>18, <1>19
  DEF CacheInv, Locals

\* No fetch outlives its timeout, and no answer waits to be stored.
LEMMA TickKeeps ==
  ASSUME CacheInv, Tick
  PROVE  CacheInv'
<1>1. TypeOK /\ now \in Time /\ MaxTime \in Nat /\ req \in [Requests -> Request]
      /\ Timeout \in Nat
  BY PriceCacheAssumption DEF CacheInv, TypeOK
<1>2. UNCHANGED <<cache, table, req, crashes>> /\ now' = now + 1 /\ now < MaxTime
      /\ \A r \in Requests : ~Has(r, "store")
                             /\ (Has(r, "fetch") => now < req[r].start + Timeout)
  BY DEF Tick
<1>3. TypeOK'
  <2>1. now' \in Time /\ now <= now' /\ now \in Int /\ now' \in Int
    BY <1>1, <1>2 DEF Time
  <2>2. \A k \in DOMAIN cache : cache[k].at \in Int
    BY <1>1 DEF TypeOK, Time
  <2>3. ASSUME NEW r \in Requests, req[r].pc \in {"fetch", "store"}
        PROVE  now' <= req[r].start + Timeout
    <3>1. req[r].start \in Time
      BY <1>1 DEF Request
    <3>2. req[r].start \in Int
      BY <3>1 DEF Time
    <3>3. now < req[r].start + Timeout
      BY <1>2, <2>3 DEF Has
    <3> QED
      BY <3>2, <3>3, <2>1, <1>1, <1>2
  <2>4. \A k \in DOMAIN cache : cache[k].at <= now'
    BY <2>1, <2>2, <1>1 DEF TypeOK
  <2> QED
    BY <2>1, <2>3, <2>4, <1>1, <1>2 DEF TypeOK
<1>4. \A r \in Requests : Quiet(r)
  BY <1>2 DEF Quiet, Fixed
<1>5. ASSUME NEW r \in Requests PROVE LocalOK(r)'
  <2>1. LocalOK(r) /\ req[r].pc # "store" /\ req[r].start \in Time
    BY <1>1, <1>2 DEF CacheInv, Locals, Has, Request
  <2>2. req[r].start <= now'
    <3>1. req[r].start <= now
      BY <2>1 DEF LocalOK
    <3>2. req[r].start \in Int /\ now \in Int
      BY <2>1, <1>1 DEF Time
    <3> QED
      BY <3>1, <3>2, <1>2
  <2>3. ASSUME req[r].source = "live" PROVE req[r].value.seen <= now'
    <3>1. req[r].value \in Value /\ req[r].value.seen <= now
      BY <2>1, <2>3 DEF LocalOK
    <3>2. req[r].value.seen \in Int /\ now \in Int
      BY <3>1, <1>1 DEF Value, Time
    <3> QED
      BY <3>1, <3>2, <1>2
  <2> QED
    BY <2>1, <2>2, <2>3, <1>2 DEF LocalOK, Opened
<1> QED
  BY <1>2, <1>3, <1>4, <1>5, QuietKeeps DEF CacheInv, Locals

\* The entries go, and the requests that were being worked on are lost.
LEMMA CrashKeeps ==
  ASSUME CacheInv, Crash
  PROVE  CacheInv'
<1>1. TypeOK /\ req \in [Requests -> Request] /\ crashes \in Nat /\ MaxCrashes \in Nat
  BY PriceCacheAssumption DEF CacheInv, TypeOK
<1>2. UNCHANGED <<now, table>> /\ DOMAIN cache' = {} /\ crashes' = crashes + 1
      /\ crashes < MaxCrashes
  BY DEF Crash, Empty
<1>3. req' \in [Requests -> Request]
  BY <1>1 DEF Crash, Request, Answered
<1>4. ASSUME NEW x \in Requests
      PROVE  /\ req'[x].op = req[x].op /\ req'[x].key = req[x].key
             /\ req'[x].start = req[x].start /\ req'[x].before = req[x].before
             /\ req'[x].stored = req[x].stored /\ req'[x].persisted = req[x].persisted
             /\ req'[x].source = req[x].source /\ req'[x].value = req[x].value
             /\ IF req[x].pc \in Working THEN req'[x].pc = "lost" ELSE req'[x] = req[x]
  BY <1>1 DEF Crash, Request
<1>5. \A x \in Requests : Fixed(x)
  BY <1>4 DEF Fixed, Working
<1>6. \A x \in Requests : req[x].pc \in Answered => req'[x].pc \in Answered
  BY <1>4 DEF Answered, Working
<1>7. /\ Opened' = Opened
      /\ \A x \in Requests : /\ x \notin req'[x].before
                             /\ \A q \in req'[x].before : req'[q].pc \in Answered
  BY <1>5, <1>6, FixedBefore
<1>8. \A x \in Requests : req'[x].pc \notin Working
  BY <1>4 DEF Working
<1>9. TypeOK'
  BY <1>1, <1>2, <1>3, <1>8 DEF TypeOK, Working
<1>10. ASSUME NEW x \in Requests PROVE LocalOK(x)'
  <2>1. LocalOK(x)
    BY DEF CacheInv, Locals
  <2> QED
    BY <2>1, <1>2, <1>4, <1>6, <1>7, <1>8 DEF LocalOK, Working
<1>11. \A x \in Requests : req[x].source = "live" => req[x].value.by \in Requests
  BY DEF CacheInv, Locals, LocalOK, Opened
<1>12. CacheOK' /\ LiveIsFresh' /\ RefreshClears' /\ RefreshTakesEffect'
  BY <1>2, <1>4, <1>11
  DEF CacheInv, CacheOK, LiveIsFresh, RefreshClears, RefreshTakesEffect
<1>13. CacheGoesForward' /\ AnswersGoForward' /\ AnswersWereSeen'
  BY <1>2, <1>4, <1>11 DEF CacheInv, CacheGoesForward, AnswersGoForward, AnswersWereSeen
<1>14. TableGoesForward'
  <2> SUFFICES ASSUME NEW x \in Requests, req'[x].persisted
               PROVE  NotBehind(x)'
    BY <1>2 DEF TableGoesForward
  <2>1. req[x].source = "live" /\ table[SymbolOf[req[x].key]].by \in Requests
    BY <1>4 DEF CacheInv, Locals, LocalOK, Opened
  <2>2. NotBehind(x)
    BY <1>4 DEF CacheInv, TableGoesForward
  <2>3. /\ req'[table[SymbolOf[req[x].key]].by].before = req[table[SymbolOf[req[x].key]].by].before
        /\ req'[table[SymbolOf[req[x].key]].by].key = req[table[SymbolOf[req[x].key]].by].key
        /\ req'[req[x].value.by].before = req[req[x].value.by].before
    BY <2>1, <1>4, <1>11
  <2>4. /\ req'[x].key = req[x].key /\ req'[x].before = req[x].before
        /\ req'[x].value = req[x].value /\ table' = table
    BY <1>2, <1>4
  <2> QED
    BY <2>2, <2>3, <2>4 DEF NotBehind
<1>15. EntriesLast'
  BY <1>1, <1>2 DEF EntriesLast, Undisturbed
<1> QED
  BY <1>9, <1>10, <1>12, <1>13, <1>14, <1>15 DEF CacheInv, Locals

\* At first the cache is empty and no request was sent.
LEMMA InitCache == Init => CacheInv
<1> SUFFICES ASSUME Init PROVE CacheInv
  OBVIOUS
<1>1. now = 0 /\ DOMAIN cache = {} /\ table = [s \in Symbols |-> None]
      /\ req = [r \in Requests |-> Fresh] /\ crashes = 0
  BY DEF Init, Empty
<1>2. 0 \in Time /\ 0 \in 0..MaxCrashes
  BY PriceCacheAssumption DEF Time
<1>3. Fresh \in Request
  BY <1>2 DEF Fresh, Request
<1>4. \A r \in Requests : req[r] = Fresh
  BY <1>1
<1>5. TypeOK
  BY <1>1, <1>2, <1>3 DEF TypeOK, Fresh
<1>6. ASSUME NEW r \in Requests PROVE LocalOK(r)
  <2> DEFINE f == req[r]
  <2>1. f = [pc |-> "idle", op |-> "none", key |-> None, start |-> 0,
             stored |-> None, value |-> None, source |-> "none",
             persisted |-> FALSE, before |-> {}]
    BY <1>4 DEF Fresh
  <2> HIDE DEF f
  <2>2. /\ f.start = 0 /\ f.pc = "idle" /\ f.before = {}
        /\ f.op = "none" /\ f.source = "none" /\ f.persisted = FALSE
    BY <2>1
  <2>3. f = Fresh /\ f = req[r]
    BY <1>4 DEF f
  <2> QED
    BY <2>2, <2>3, <1>1 DEF LocalOK, Working
<1>7. CacheOK /\ RefreshClears
  BY <1>1 DEF CacheOK, RefreshClears
<1>8. LiveIsFresh /\ RefreshTakesEffect /\ CacheGoesForward /\ AnswersGoForward
      /\ AnswersWereSeen /\ TableGoesForward /\ EntriesLast
  BY <1>4 DEF LiveIsFresh, RefreshTakesEffect, CacheGoesForward, AnswersGoForward,
              AnswersWereSeen, TableGoesForward, EntriesLast, Fresh
<1> QED
  BY <1>5, <1>6, <1>7, <1>8 DEF CacheInv, Locals

\* Every step keeps the invariant.
LEMMA StepCache == CacheInv /\ [Next]_vars => CacheInv'
<1> SUFFICES ASSUME CacheInv, [Next]_vars PROVE CacheInv'
  OBVIOUS
<1>1. CASE UNCHANGED vars
  <2>1. UNCHANGED <<now, cache, table, req, crashes>>
    BY <1>1 DEF vars
  <2>2. \A r \in Requests : Quiet(r)
    BY <2>1 DEF Quiet, Fixed
  <2>3. TypeOK'
    BY <2>1 DEF CacheInv, TypeOK
  <2>4. Locals'
    BY <2>1 DEF CacheInv, Locals, LocalOK, Opened
  <2> QED
    BY <2>1, <2>2, <2>3, <2>4, QuietKeeps DEF CacheInv
<1>2. CASE \E r \in Requests : Quote(r)
  BY <1>2, QuoteKeeps
<1>3. CASE \E r \in Requests : FetchAnswers(r)
  BY <1>3, AnswersKeeps
<1>4. CASE \E r \in Requests : FetchFails(r)
  BY <1>4, FailsKeeps
<1>5. CASE \E r \in Requests : Store(r)
  BY <1>5, StoreKeeps
<1>6. CASE \E r \in Requests : Persist(r)
  BY <1>6, PersistKeeps
<1>7. CASE \E r \in Requests : Fallback(r)
  BY <1>7, FallbackKeeps
<1>8. CASE \E r \in Requests : Refresh(r)
  BY <1>8, RefreshKeeps
<1>9. CASE Tick
  BY <1>9, TickKeeps
<1>10. CASE Crash
  BY <1>10, CrashKeeps
<1> QED
  BY <1>1, <1>2, <1>3, <1>4, <1>5, <1>6, <1>7, <1>8, <1>9, <1>10 DEF Next, Finished

\* The invariant holds in every state that can be reached.
LEMMA CacheInvariant == Spec => []CacheInv
  BY InitCache, StepCache, PTL DEF Spec

\* Entries are well formed and no fetch outlives httpTimeout.
THEOREM CacheTypeCorrect == Spec => []TypeOK
<1>1. CacheInv => TypeOK
  BY DEF CacheInv
<1> QED
  BY <1>1, CacheInvariant, PTL

\* An entry is used for cacheTTL: a value passed off as live by FetchPrice,
\* FetchUSDKRW or FetchDividendHistory is younger than cacheTTL plus httpTimeout,
\* and undisturbed the market is not asked again within cacheTTL.
THEOREM EntriesKeptForTTL == Spec => []TTLIsKept
<1>1. CacheInv => TTLIsKept
  BY DEF CacheInv, TTLIsKept, EntriesLast, Undisturbed, FetchesAreSpaced
<1> QED
  BY <1>1, CacheInvariant, PTL

\* After InvalidateAll no price or rate that was fetched before it is served as
\* live, unless the fetch overlapped the refresh.
THEOREM RefreshIsEffective == Spec => []RefreshTakesEffect
<1>1. CacheInv => RefreshTakesEffect
  BY DEF CacheInv
<1> QED
  BY <1>1, CacheInvariant, PTL

\* UpsertPriceSnapshot never puts a price in the table that was fetched before
\* one of the same exchange that a request had already written and answered
\* with; over one of another exchange of the symbol it may put an older price,
\* by less than cacheTTL plus httpTimeout.
THEOREM TableNeverGoesBack == Spec => []TableGoesForward
<1>1. CacheInv => TableGoesForward
  BY DEF CacheInv
<1> QED
  BY <1>1, CacheInvariant, PTL
=============================================================================
