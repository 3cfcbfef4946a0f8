------------------------------ MODULE PriceCache ------------------------------
(***************************************************************************)
(* The caches of PriceService (price_service.go, dividend_history.go) and  *)
(* the table price_snapshots behind them.  A lookup answers from the cache *)
(* or asks the market, stores the answer, and, for a price, writes it to   *)
(* the table; when the market does not answer it reads the table.  The     *)
(* mutex covers one map access, never the call to the market.              *)
(*                                                                         *)
(* Time is counted in ticks.  A value is abstracted to the time at which   *)
(* the market had it, seen, and the request that fetched it, by.           *)
(***************************************************************************)
EXTENDS Integers

CONSTANTS
  Requests,   \* HTTP requests, each sent at most once
  Keys,       \* keys of the caches: prices, the dollar, dividend histories
  Cleared,    \* the keys that InvalidateAll clears: all but the histories
  Stored,     \* the keys of prices: a symbol with an exchange
  SymbolOf,   \* the symbol of such a key, which alone names a row of the table
  None,
  TTL,        \* cacheTTL
  Timeout,    \* httpTimeout
  MaxTime,    \* bound on the clock
  MaxCrashes  \* bound on process crashes

ASSUME PriceCacheAssumption ==
  /\ Cleared \subseteq Keys
  /\ Stored \subseteq Keys
  /\ DOMAIN SymbolOf = Stored
  /\ None \notin Requests \cup Keys
  /\ TTL \in Nat \ {0}
  /\ Timeout \in Nat \ {0}
  /\ MaxTime \in Nat
  /\ MaxCrashes \in Nat

VARIABLES
  now,       \* the clock
  cache,     \* cached value of each key, with the time it was stored
  table,     \* stored value of each symbol, with the request that wrote it
  req,       \* what each handler goroutine holds
  crashes    \* process crashes so far

vars == <<now, cache, table, req, crashes>>

----------------------------------------------------------------------------
Answered == {"ok", "lost"}

Working == {"fetch", "store", "persist", "fallback"}

Time == 0..MaxTime

Value == [seen : Time, by : Requests]

\* start is the time of the lookup, stored the time of the request's own
\* fill, source what is known of value when it is used.
Request == [pc : Working \cup {"idle"} \cup Answered,
            op : {"none", "quote", "refresh"},
            key : Keys \cup {None}, start : Time, stored : Time \cup {None},
            value : Value \cup {None}, source : {"none", "live", "cached"},
            persisted : BOOLEAN, before : SUBSET Requests]

Fresh == [pc |-> "idle", op |-> "none", key |-> None, start |-> 0,
          stored |-> None, value |-> None, source |-> "none",
          persisted |-> FALSE, before |-> {}]

Open(r, op, pc, k, value, source) ==
  /\ req[r].pc = "idle"
  /\ req' = [req EXCEPT ![r] =
       [pc |-> pc, op |-> op, key |-> k, start |-> now, stored |-> None,
        value |-> value, source |-> source, persisted |-> FALSE,
        before |-> {q \in Requests : req[q].pc \in Answered}]]

Has(r, pc) == req[r].pc = pc

Empty == [k \in {} |-> None]

Symbols == {SymbolOf[k] : k \in Stored}

\* An entry of the cache is a value with the time it was stored.
Put(map, key, value) ==
  [k \in DOMAIN map \cup {key} |-> IF k = key THEN value ELSE map[k]]

\* What follows a live value: portfolio writes a price to the table.
AfterLive(k) == IF k \in Stored THEN "persist" ELSE "ok"

\* What follows a failure: a price is read from the table; the dollar has a
\* constant, a history is left out.
AfterFailure(k) == IF k \in Stored THEN "fallback" ELSE "ok"

----------------------------------------------------------------------------
(* FetchPrice, FetchUSDKRW, FetchDividendHistory *)

\* Faulty: an entry of any age.
HitOfAnyAge(k) == k \in DOMAIN cache

Hit(k) == k \in DOMAIN cache /\ now - cache[k].at < TTL

Quote(r) ==
  /\ \E k \in Keys :
       \/ Hit(k) /\ Open(r, "quote", AfterLive(k), k, cache[k].value, "live")
       \/ ~Hit(k) /\ Open(r, "quote", "fetch", k, None, "none")
  /\ UNCHANGED <<now, cache, table, crashes>>

\* The market answers with what it knew at some time since it was asked.
FetchAnswers(r) ==
  /\ Has(r, "fetch")
  /\ \E t \in req[r].start..now :
       req' = [req EXCEPT ![r].pc = "store", ![r].source = "live",
                          ![r].value = [seen |-> t, by |-> r]]
  /\ UNCHANGED <<now, cache, table, crashes>>

\* No answer in time, no connection, a status that is not 200, no data.
FetchFails(r) ==
  /\ Has(r, "fetch")
  /\ req' = [req EXCEPT ![r].pc = AfterFailure(req[r].key)]
  /\ UNCHANGED <<now, cache, table, crashes>>

Store(r) ==
  /\ Has(r, "store")
  /\ cache' = Put(cache, req[r].key, [value |-> req[r].value, at |-> now])
  /\ req' = [req EXCEPT ![r].pc = AfterLive(req[r].key), ![r].stored = now]
  /\ UNCHANGED <<now, table, crashes>>

----------------------------------------------------------------------------
(* portfolio, around FetchPrice *)

\* Entries of two exchanges of one symbol write the same row.
Write(r) ==
  table' = [table EXCEPT ![SymbolOf[req[r].key]] = [value |-> req[r].value, by |-> r]]

\* Faulty: in the background, after the answer.
PersistLater(r) ==
  /\ \/ /\ Has(r, "persist")
        /\ req' = [req EXCEPT ![r].pc = "ok"]
        /\ UNCHANGED table
     \/ /\ Has(r, "ok") /\ req[r].source = "live" /\ req[r].key \in Stored
        /\ ~req[r].persisted
        /\ Write(r)
        /\ req' = [req EXCEPT ![r].persisted = TRUE]
  /\ UNCHANGED <<now, cache, crashes>>

\* Whether the statement succeeds does not matter to the answer.
Persist(r) ==
  /\ Has(r, "persist")
  /\ \/ Write(r) /\ req' = [req EXCEPT ![r].pc = "ok", ![r].persisted = TRUE]
     \/ req' = [req EXCEPT ![r].pc = "ok"] /\ UNCHANGED table
  /\ UNCHANGED <<now, cache, crashes>>

\* The row, or nothing when there is none or the statement fails.  The
\* roadmap reads the rows of all its symbols this way, at once.
Fallback(r) ==
  /\ Has(r, "fallback")
  /\ \/ /\ table[SymbolOf[req[r].key]] # None
        /\ req' = [req EXCEPT ![r].pc = "ok", ![r].source = "cached",
                              ![r].value = table[SymbolOf[req[r].key]].value]
     \/ req' = [req EXCEPT ![r].pc = "ok"]
  /\ UNCHANGED <<now, cache, table, crashes>>

----------------------------------------------------------------------------
\* Faulty: the exchange rate stays.
RefreshPricesOnly(r) ==
  /\ Open(r, "refresh", "ok", None, None, "none")
  /\ cache' = [k \in DOMAIN cache \ Stored |-> cache[k]]
  /\ UNCHANGED <<now, table, crashes>>

\* POST /api/stocks/refresh: InvalidateAll.
Refresh(r) ==
  /\ Open(r, "refresh", "ok", None, None, "none")
  /\ cache' = [k \in DOMAIN cache \ Cleared |-> cache[k]]
  /\ UNCHANGED <<now, table, crashes>>

\* Faulty: a client without a timeout.
TickIgnoresTimeout ==
  /\ now < MaxTime
  /\ \A r \in Requests : ~Has(r, "store")
  /\ now' = now + 1
  /\ UNCHANGED <<cache, table, req, crashes>>

\* A call to the market ends before its timeout; what follows it, up to the
\* fill of the cache, takes no time that counts against cacheTTL.
Tick ==
  /\ now < MaxTime
  /\ \A r \in Requests :
       /\ ~Has(r, "store")
       /\ Has(r, "fetch") => now < req[r].start + Timeout
  /\ now' = now + 1
  /\ UNCHANGED <<cache, table, req, crashes>>

\* The caches go with the process, the table stays.
Crash ==
  /\ crashes < MaxCrashes
  /\ crashes' = crashes + 1
  /\ cache' = Empty
  /\ req' = [r \in Requests |->
               IF req[r].pc \in Working THEN [req[r] EXCEPT !.pc = "lost"] ELSE req[r]]
  /\ UNCHANGED <<now, table>>

\* Every request has been answered: the model, not the server, stops.
Finished ==
  /\ \A r \in Requests : req[r].pc \in Answered
  /\ UNCHANGED vars

Init ==
  /\ now = 0
  /\ cache = Empty
  /\ table = [s \in Symbols |-> None]
  /\ req = [r \in Requests |-> Fresh]
  /\ crashes = 0

Next ==
  \/ \E r \in Requests :
       \/ Quote(r) \/ FetchAnswers(r) \/ FetchFails(r) \/ Store(r)
       \/ Persist(r) \/ Fallback(r) \/ Refresh(r)
  \/ Tick
  \/ Crash
  \/ Finished

Spec == Init /\ [][Next]_vars

----------------------------------------------------------------------------
\* Entries are well formed, nothing in the cache comes from the future, and
\* no fetch outlives its timeout.
TypeOK ==
  /\ now \in Time
  /\ DOMAIN cache \subseteq Keys
  /\ \A k \in DOMAIN cache :
       /\ cache[k].value \in Value /\ cache[k].at \in Time
       /\ cache[k].value.seen <= cache[k].at /\ cache[k].at <= now
  /\ table \in [Symbols -> [value : Value, by : Requests] \cup {None}]
  /\ req \in [Requests -> Request]
  /\ \A r \in Requests :
       req[r].pc \in {"fetch", "store"} => now <= req[r].start + Timeout
  /\ crashes \in 0..MaxCrashes

\* A value that is passed off as live was on the market less than cacheTTL
\* plus httpTimeout before it was asked for: the entry is stamped when the
\* answer arrives, not when the market was asked.
LiveIsFresh ==
  \A r \in Requests :
    req[r].source = "live" => req[r].value.seen > req[r].start - TTL - Timeout

\* After a refresh, a price or rate that was fetched before it is never
\* served as live, unless the fetch overlapped the refresh.
RefreshTakesEffect ==
  \A q, r \in Requests :
    /\ req[q].op = "refresh" /\ q \in req[r].before
    /\ req[r].source = "live" /\ req[r].key \in Cleared
    => req[r].value.by \notin req[q].before

\* The row that r wrote was written since by nobody but requests that overlapped
\* r, or holds nothing older than r wrote.  The price of another exchange may be
\* older, by less than cacheTTL plus httpTimeout.
NotBehind(r) ==
  LET row == table[SymbolOf[req[r].key]]
  IN \/ r \notin req[row.by].before /\ row.by \notin req[r].before
     \/ IF req[row.by].key = req[r].key
        THEN row.value.by \notin req[req[r].value.by].before
        ELSE row.value.seen > req[r].value.seen - TTL - Timeout

\* After a request wrote a price, and answered, no later request puts one
\* there that was fetched before, if it is of the same exchange.  (The
\* valuation of the roadmap reads nothing but the table.)
TableGoesForward == \A r \in Requests : req[r].persisted => NotBehind(r)

\* The market is asked again only when cacheTTL has passed since the last
\* answer, unless the requests overlapped, somebody refreshed, or the process
\* restarted.
FetchesAreSpaced ==
  crashes = 0 =>
    \A p, r \in Requests :
      /\ p \in req[r].before /\ req[p].key = req[r].key
      /\ req[p].stored # None /\ req[r].stored # None
      /\ \A q \in Requests : req[q].op # "refresh"
      => req[r].start >= req[p].stored + TTL

\* An entry is used for cacheTTL, neither longer nor, undisturbed, shorter.
TTLIsKept == LiveIsFresh /\ FetchesAreSpaced
=============================================================================
