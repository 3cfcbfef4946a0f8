------------------------------- MODULE Saving -------------------------------
(***************************************************************************)
(* SavingService.ApplySaving (internal/service/saving_service.go) beside   *)
(* the stock handlers of Holdings and the patch and delete of other assets *)
(* and of ledger entries.  A saving writes a ledger entry, then credits an *)
(* asset: shares of a stock or money of another asset, existing or new.    *)
(* If the asset cannot be credited, it deletes the entry again.            *)
(*                                                                         *)
(* One mutex serializes the savings.  The handlers of stocks and assets    *)
(* write the same rows and do not take it.  Every statement of a saving    *)
(* runs under the context of its request, so after the client has gone all *)
(* of them fail, the rollback too.                                         *)
(***************************************************************************)
EXTENDS Holdings

CONSTANTS
  Savers,        \* POST /api/transactions with type=saving, each sent once
  Assets,        \* identifiers of other assets
  OpeningValue,  \* money of an asset at the start, 0: identifier unused
  Nobody,        \* the mutex is free
  New            \* a link without link_asset_id: create the asset

ASSUME SavingAssumption ==
  /\ Savers \subseteq Lots
  /\ Nobody \notin Savers \cup Assets
  /\ New \notin Stocks \cup Assets
  /\ Stocks \cap Assets = {}
  /\ Assets # {}
  /\ OpeningValue \in [Assets -> Nat]

VARIABLES
  mutex,   \* the saver that holds SavingService.mu, or Nobody
  ledger,  \* the savers whose entry is in transactions; nobody reads its link
  assets,  \* the rows of other_assets: identifier to value_krw
  coined,  \* identifiers of other assets handed out so far
  saver,   \* what each saving goroutine holds
  editor   \* what each handler of other assets and of entries holds

savingVars == <<mutex, ledger, assets, coined, saver, editor>>
allVars == <<vars, savingVars>>

----------------------------------------------------------------------------
Links == Stocks \cup Assets \cup {New}

Busy == {"lock", "entry", "asset", "write", "log", "rollback"}

\* The reply is an error in "orphan" too: the asset failed, then the rollback.
\* "lost" is no reply, the process stopped.
Answered == {"ok", "error", "orphan", "lost"}

\* link is the service's copy of the saving link.  credited and gone record
\* what has happened: the asset was written, the client went away.
Saver == [pc : Busy \cup {"idle"} \cup Answered,
          kind : {"stock", "other", "unknown"}, link : Links, amount : Nat,
          user : Users, row : Row, value : Nat,
          credited : BOOLEAN, gone : BOOLEAN]

Fresh == [pc |-> "idle", kind |-> "unknown", link |-> New, amount |-> 0,
          user |-> Blank.user, row |-> Blank, value |-> 0,
          credited |-> FALSE, gone |-> FALSE]

\* The links of each kind: a new asset, or one that exists or has existed.
Targets(kind) ==
  {New} \cup CASE kind = "stock" -> issued
               [] kind = "other" -> coined
               [] OTHER          -> {}

\* asset is the asset a request is for, entry the saver whose entry it deleted.
Editor == [pc : {"idle", "write", "done"}, asset : Assets \cup {Nobody},
           value : Nat, entry : Savers \cup {Nobody}]

NotSent == [pc |-> "idle", asset |-> Nobody, value |-> 0, entry |-> Nobody]

\* A statement of a saving succeeds, or fails: for good once the client went.
Succeeds(x) == ~saver[x].gone /\ Ok
Fails(x) == (saver[x].gone /\ Ok) \/ Fault

At(x, kind, pc) == saver[x].kind = kind /\ saver[x].pc = pc

Step(x, pc) == saver' = [saver EXCEPT ![x].pc = pc]

\* The deferred Unlock runs on every return.  Of a saving that credited an
\* asset the model remembers how much went where.
Return(x, pc) ==
  /\ saver' = [saver EXCEPT ![x] = [Fresh EXCEPT !.pc = pc]]
  /\ mutex' = Nobody

Succeed(x, link) ==
  /\ saver' = [saver EXCEPT ![x] = [Fresh EXCEPT !.pc = "ok", !.link = link,
                                   !.amount = saver[x].amount, !.credited = TRUE]]
  /\ mutex' = Nobody

\* Faulty: no rollback.
AssetFailsUnrolled(x) ==
  /\ Return(x, "error")
  /\ UNCHANGED <<stocks, issued, log, ledger, assets, coined>>

\* The asset is not credited: roll back.
AssetFails(x) ==
  /\ Step(x, "rollback")
  /\ UNCHANGED <<stocks, issued, log, mutex, ledger, assets, coined>>

----------------------------------------------------------------------------
(* ApplySaving. *)

Send(x) ==
  /\ saver[x].pc = "idle"
  /\ Step(x, "lock")
  /\ UNCHANGED <<vars, mutex, ledger, assets, coined, editor>>

\* What the request carries matters from here on.
Begin(x) ==
  \E kind \in {"stock", "other", "unknown"}, n \in Quantities, u \in Users :
    \E link \in Targets(kind) :
      saver' = [saver EXCEPT ![x] = [@ EXCEPT !.pc = "entry", !.kind = kind,
                  !.link = link, !.amount = n, !.user = u]]

\* Faulty: no mutex.
LockIgnored(x) ==
  /\ saver[x].pc = "lock"
  /\ mutex' = x
  /\ Begin(x)
  /\ UNCHANGED <<vars, ledger, assets, coined, editor>>

Lock(x) ==
  /\ saver[x].pc = "lock"
  /\ mutex = Nobody
  /\ mutex' = x
  /\ Begin(x)
  /\ UNCHANGED <<vars, ledger, assets, coined, editor>>

CreateEntry(x) ==
  /\ saver[x].pc = "entry"
  /\ \/ /\ Succeeds(x)
        /\ ledger' = ledger \cup {x}
        /\ Step(x, "asset")
        /\ UNCHANGED mutex
     \/ Fails(x) /\ Return(x, "error") /\ UNCHANGED ledger
  /\ UNCHANGED <<stocks, issued, log, req, assets, coined, editor>>

\* The average takes the new lot, the won cost basis stays as it is.
AddLot(row, n, x) == [row EXCEPT !.quantity = @ + n, !.avg = @ \cup {x}]

\* applyStock, existing holding.  Quantity and price are only checked now, so
\* this fails for a missing row, a missing number or a failed statement.
AddToStockRead(x) ==
  LET s == saver[x].link
  IN /\ At(x, "stock", "asset")
     /\ s # New
     /\ \/ /\ Succeeds(x)
           /\ s \in DOMAIN stocks
           /\ saver' = [saver EXCEPT ![x].pc = "write",
                ![x].row = AddLot(stocks[s], saver[x].amount, x)]
           /\ UNCHANGED <<stocks, issued, log, mutex, ledger, assets, coined>>
        \/ Ok /\ AssetFails(x)
        \/ Fault /\ AssetFails(x)
     /\ UNCHANGED <<req, editor>>

AddToStockWrite(x) ==
  /\ At(x, "stock", "write")
  /\ \/ /\ Succeeds(x)
        /\ Update(saver[x].link, saver[x].row)
        /\ saver' = [saver EXCEPT ![x].pc = "log", ![x].credited = TRUE]
        /\ UNCHANGED <<issued, log, mutex, ledger, assets, coined>>
     \/ saver[x].link \notin DOMAIN stocks /\ Ok /\ AssetFails(x)
     \/ Fails(x) /\ AssetFails(x)
  /\ UNCHANGED <<req, editor>>

\* applyStock, new holding, without a won cost basis.  created.SavingLink points
\* to the very link that applyStock fills in, so the two never differ and the
\* update of the entry that follows is never reached.
CreateSavedStock(x) ==
  /\ At(x, "stock", "asset")
  /\ saver[x].link = New
  /\ \/ /\ Succeeds(x)
        /\ \E s \in Stocks :
             LET row == [user |-> saver[x].user, quantity |-> saver[x].amount,
                         avg |-> {x}, krw |-> {}]
             IN /\ Insert(s, row)
                /\ saver' = [saver EXCEPT ![x].pc = "log", ![x].link = s,
                                          ![x].row = row, ![x].credited = TRUE]
        /\ UNCHANGED <<log, mutex, ledger, assets, coined>>
     \/ Ok /\ AssetFails(x)
     \/ Fault /\ AssetFails(x)
  /\ UNCHANGED <<req, editor>>

\* The log of the purchase; its failure is only warned about.
LogSaving(x) ==
  /\ At(x, "stock", "log")
  /\ \/ /\ Succeeds(x)
        /\ Append([req |-> x, stock |-> saver[x].link, type |-> "buy",
                   quantity |-> saver[x].amount, user |-> saver[x].user,
                   exact |-> saver[x].row.krw = saver[x].row.avg])
     \/ Fails(x) /\ UNCHANGED log
  /\ Succeed(x, saver[x].link)
  /\ UNCHANGED <<stocks, issued, ledger, req, assets, coined, editor>>

\* applyOtherAsset, existing asset.
AddToAssetRead(x) ==
  LET a == saver[x].link
  IN /\ At(x, "other", "asset")
     /\ a # New
     /\ \/ /\ Succeeds(x)
           /\ a \in DOMAIN assets
           /\ saver' = [saver EXCEPT ![x].pc = "write",
                                     ![x].value = assets[a] + saver[x].amount]
           /\ UNCHANGED <<stocks, issued, log, mutex, ledger, assets, coined>>
        \/ a \notin DOMAIN assets /\ Ok /\ AssetFails(x)
        \/ Fails(x) /\ AssetFails(x)
     /\ UNCHANGED <<req, editor>>

AddToAssetWrite(x) ==
  LET a == saver[x].link
  IN /\ At(x, "other", "write")
     /\ \/ /\ Succeeds(x)
           /\ a \in DOMAIN assets
           /\ assets' = [assets EXCEPT ![a] = saver[x].value]
           /\ Succeed(x, a)
           /\ UNCHANGED <<stocks, issued, log, ledger, coined>>
        \/ a \notin DOMAIN assets /\ Ok /\ AssetFails(x)
        \/ Fails(x) /\ AssetFails(x)
     /\ UNCHANGED <<req, editor>>

\* A uuid says nothing, so one stands for all that were not handed out yet.
NextAsset == CHOOSE a \in Assets \ coined : TRUE

\* applyOtherAsset, new asset: again that update is never reached.
CreateSavedAsset(x) ==
  /\ At(x, "other", "asset")
  /\ saver[x].link = New
  /\ \/ /\ Succeeds(x)
        /\ Assets \ coined # {}
        /\ coined' = coined \cup {NextAsset}
        /\ assets' = [a \in DOMAIN assets \cup {NextAsset} |->
                        IF a = NextAsset THEN saver[x].amount ELSE assets[a]]
        /\ Succeed(x, NextAsset)
        /\ UNCHANGED <<stocks, issued, log, ledger>>
     \/ Fails(x) /\ AssetFails(x)
  /\ UNCHANGED <<req, editor>>

\* A link of another kind.
RejectKind(x) ==
  /\ At(x, "unknown", "asset")
  /\ Ok
  /\ AssetFails(x)
  /\ UNCHANGED <<req, editor>>

\* Faulty: a rollback that fails is tried again, under the same context.
RollbackRetries(x) ==
  /\ saver[x].pc = "rollback"
  /\ \/ /\ Succeeds(x)
        /\ ledger' = ledger \ {x}
        /\ Return(x, "error")
     \/ Fails(x) /\ UNCHANGED <<ledger, saver, mutex>>
  /\ UNCHANGED <<stocks, issued, log, req, assets, coined, editor>>

\* Best effort: a failure is only warned about and leaves the entry.  That
\* somebody else has deleted the entry is a failure like any other.
Rollback(x) ==
  /\ saver[x].pc = "rollback"
  /\ \/ /\ Succeeds(x)
        /\ ledger' = ledger \ {x}
        /\ Return(x, "error")
     \/ Fails(x) /\ Return(x, "orphan") /\ UNCHANGED ledger
  /\ UNCHANGED <<stocks, issued, log, req, assets, coined, editor>>

\* The client disconnects and the request context is cancelled.
Disconnect(x) ==
  /\ saver[x].pc \in Busy
  /\ ~saver[x].gone
  /\ Fault
  /\ saver' = [saver EXCEPT ![x].gone = TRUE]
  /\ UNCHANGED <<stocks, issued, log, req, mutex, ledger, assets, coined, editor>>

----------------------------------------------------------------------------
(* The handlers of other assets and of entries.  A request is for a         *)
(* holding, an asset or an entry.                                          *)

Unsent(r) == req[r].pc = "idle" /\ editor[r].pc = "idle"

\* PUT /api/assets/{id}: the copy keeps value_krw or takes a typed one.
UpdateAssetRead(r) ==
  \E a \in DOMAIN assets :
    \E v \in {assets[a], 0} :
      /\ Unsent(r)
      /\ editor' = [editor EXCEPT ![r] = [NotSent EXCEPT !.pc = "write", !.asset = a,
                                                          !.value = v]]
      /\ UNCHANGED <<vars, mutex, ledger, assets, coined, saver>>

UpdateAssetWrite(r) ==
  LET a == editor[r].asset
  IN /\ editor[r].pc = "write"
     /\ assets' = IF a \in DOMAIN assets
                  THEN [assets EXCEPT ![a] = editor[r].value] ELSE assets
     /\ editor' = [editor EXCEPT ![r].pc = "done"]
     /\ UNCHANGED <<vars, mutex, ledger, coined, saver>>

\* DELETE /api/assets/{id}.
DeleteAsset(r) ==
  \E a \in DOMAIN assets :
    /\ Unsent(r)
    /\ assets' = [b \in DOMAIN assets \ {a} |-> assets[b]]
    /\ editor' = [editor EXCEPT ![r] = [NotSent EXCEPT !.pc = "done", !.asset = a]]
    /\ UNCHANGED <<vars, mutex, ledger, coined, saver>>

\* PUT /api/transactions/{id}: a saving's entry takes whatever the body says, a
\* link to another asset too; the assets stay as they are.
UpdateTransaction(r) ==
  /\ ledger # {}
  /\ Unsent(r)
  /\ editor' = [editor EXCEPT ![r] = [NotSent EXCEPT !.pc = "done"]]
  /\ UNCHANGED <<vars, mutex, ledger, assets, coined, saver>>

\* DELETE /api/transactions/{id}: a saving's entry goes as soon as it is there,
\* what the saving credited, or still will, does not.
DeleteTransaction(r) ==
  \E x \in ledger :
    /\ Unsent(r)
    /\ ledger' = ledger \ {x}
    /\ editor' = [editor EXCEPT ![r] = [NotSent EXCEPT !.pc = "done", !.entry = x]]
    /\ UNCHANGED <<vars, mutex, assets, coined, saver>>

----------------------------------------------------------------------------
\* The process stops and starts again with a free mutex.
Restart ==
  /\ InFlight # {} \/ mutex # Nobody \/ \E r \in Requests : editor[r].pc = "write"
  /\ Fault
  /\ req' = Lost(InFlight)
  /\ saver' = [x \in Savers |->
                 IF saver[x].pc \in Busy
                 THEN [saver[x] EXCEPT !.pc = "lost", !.row = Blank, !.value = 0,
                                      !.gone = FALSE]
                 ELSE saver[x]]
  /\ editor' = [r \in Requests |->
                  IF editor[r].pc = "write" THEN [editor[r] EXCEPT !.pc = "done"]
                                            ELSE editor[r]]
  /\ mutex' = Nobody
  /\ UNCHANGED <<stocks, issued, log, ledger, assets, coined>>

AllAnswered ==
  /\ \A r \in Requests : req[r].pc \in {"ok", "error", "lost"} \/ editor[r].pc = "done"
  /\ \A x \in Savers : saver[x].pc \in Answered
  /\ UNCHANGED allVars

SavingInit ==
  /\ Init
  /\ mutex = Nobody
  /\ ledger = {}
  /\ coined = {a \in Assets : OpeningValue[a] > 0}
  /\ assets = [a \in coined |-> OpeningValue[a]]
  /\ saver = [x \in Savers |-> Fresh]
  /\ editor = [r \in Requests |-> NotSent]

\* The steps of ApplySaving after the mutex was taken.
Apply(x) ==
  \/ CreateEntry(x)
  \/ AddToStockRead(x) \/ AddToStockWrite(x) \/ CreateSavedStock(x) \/ LogSaving(x)
  \/ AddToAssetRead(x) \/ AddToAssetWrite(x) \/ CreateSavedAsset(x)
  \/ RejectKind(x) \/ Rollback(x)

SavingNext ==
  \/ \E x \in Savers : Send(x) \/ Lock(x) \/ Apply(x) \/ Disconnect(x)
  \/ \E r \in Requests :
       \/ UpdateAssetRead(r) \/ UpdateAssetWrite(r) \/ DeleteAsset(r)
       \/ UpdateTransaction(r) \/ DeleteTransaction(r)
       \/ editor[r].pc = "idle" /\ Serve(r) /\ UNCHANGED savingVars
  \/ Restart
  \/ AllAnswered

\* The Go scheduler runs every runnable goroutine, every statement ends, and
\* sync.Mutex hands itself to a waiter that has starved.
Fairness ==
  \A x \in Savers : WF_allVars(Apply(x)) /\ SF_allVars(Lock(x))

SavingSpec == SavingInit /\ [][SavingNext]_allVars /\ Fairness

----------------------------------------------------------------------------
SavingTypeOK ==
  /\ TypeOK
  /\ mutex \in Savers \cup {Nobody}
  /\ ledger \subseteq Savers
  /\ DOMAIN assets \subseteq coined /\ coined \subseteq Assets
  /\ \A a \in DOMAIN assets : assets[a] \in Nat
  /\ saver \in [Savers -> Saver]
  /\ editor \in [Requests -> Editor]
  /\ \A x \in Savers : saver[x].pc \in Busy \ {"lock"} <=> mutex = x

\* The savers whose entry a request has deleted.
Removed == {x \in Savers : \E r \in Requests : editor[r].entry = x}

\* A saving that was answered has an entry in the ledger exactly when it
\* credited its asset, whatever failed, was cancelled, sold, patched or deleted
\* in between.  Two exceptions: a rollback that fails leaves the entry, and an
\* entry that a request deletes leaves what it stands for credited.
EntryIffCredited ==
  \A x \in Savers :
    saver[x].pc \in {"ok", "error"} =>
      (x \in ledger <=> saver[x].credited /\ x \notin Removed)

Creditors(link) == {x \in Savers : saver[x].credited /\ saver[x].link = link}

Credited(link) == SumOf([x \in Savers |-> saver[x].amount], Creditors(link))

\* Two savings into one asset never lose each other's amount: as long as no
\* handler outside the mutex has written the row, it holds what it opened
\* with and every saving credited to it.
SavingsAddUp ==
  /\ \A a \in DOMAIN assets :
       (\A r \in Requests : editor[r].asset # a)
         => assets[a] = OpeningValue[a] + Credited(a)
  /\ \A s \in DOMAIN stocks :
       (\A r \in Requests : req[r].op = "none" \/ req[r].stock # s)
         => stocks[s].quantity = OpeningQuantity[s] + Credited(s)

\* Every saving that is waiting for the mutex is answered in the end, unless
\* the process loses it: no return, error or rollback keeps the mutex.
SavingAnswered ==
  \A x \in Savers :
    saver[x].pc = "lock" ~> saver[x].pc \in Answered
=============================================================================
