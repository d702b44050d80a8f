------------------------- MODULE PaymentMoneyProofs -------------------------
(***************************************************************************)
(* Proofs that MoneyAgrees is an invariant of Payment, and what follows:   *)
(* a completed or billed transaction was paid, a merchant that requires    *)
(* 3-D Secure gets no reservation without it, and an ended transaction     *)
(* stays ended unless it is started again.                                 *)
(*                                                                         *)
(* MoneyAgrees is inductive relative to HandlersAgree.  The argument has   *)
(* the same shape: payments, captures and confirmations are never taken    *)
(* back (LedgerGrows), so the handlers that do not move keep what they     *)
(* know; for each action it remains to show what the moving handler knows  *)
(* next and what it stored.                                                *)
(***************************************************************************)
EXTENDS PaymentProofs

\* What every step keeps of the money.
LedgerGrows ==
  /\ session' = session
  /\ \A id \in ShopTxIds : captured[id] > 0 => captured'[id] > 0
  /\ \A id \in ShopTxIds : page[id] = "paid" => page'[id] = "paid"
  /\ confirmations > 0 => confirmations' > 0

\* Both invariants, and what they say of one handler.
LEMMA Known ==
  ASSUME HandlersAgree, MoneyAgrees, NEW h \in Requests
  PROVE  /\ TypeOK /\ DocumentsInv /\ WorldInv /\ LedgerInv
         /\ HandlerInv(h) /\ HolderInv(h)
         /\ loc[h] \in Locals
         /\ loc[h].shops \in Seq(BOShopTransaction)
         /\ \A i \in 1..Len(loc[h].shops) : loc[h].shops[i].id \in ShopTxIds
<1>1. loc[h] \in Locals
  BY InHand
<1>2. loc[h].shops \in Seq(BOShopTransaction)
  BY <1>1, LocalsType
<1>3. \A i \in 1..Len(loc[h].shops) : loc[h].shops[i] \in BOShopTransaction
  BY <1>2
<1>4. \A i \in 1..Len(loc[h].shops) : loc[h].shops[i].id \in ShopTxIds
  BY <1>3 DEF BOShopTransaction
<1> QED BY <1>1, <1>2, <1>4, InHand DEF MoneyAgrees, HoldersAgree

\* A payment made stays made.
LEMMA PaidStays ==
  ASSUME TypeOK, LedgerGrows, PaidFor
  PROVE  PaidFor'
<1>1. \A r \in StartReqs, s \in Shops : <<r, s>> \in ShopTxIds
  BY DEF ShopTxIds
<1> QED BY <1>1, ShopsAssumption DEF LedgerGrows, PaidFor, Paid

\* What holds of the shop of a session's cart, or of its payment method, stays so.
LEMMA SameCart ==
  ASSUME session' = session
  PROVE  CartShops' = CartShops /\ OnlyThreeDS' = OnlyThreeDS
  BY DEF CartShops, OnlyThreeDS

\* A handler keeps what it knows of the money while others move.
LEMMA HoldersKeep ==
  ASSUME HandlersAgree, MoneyAgrees, LedgerGrows, NEW g \in Requests,
         pc'[g] = pc[g], loc'[g] = loc[g]
  PROVE  HolderInv(g)'
<1>1. /\ session' = session /\ CartShops' = CartShops /\ OnlyThreeDS' = OnlyThreeDS
      /\ (ByOrder(g, pc[g]) => ByOrder(g, pc[g])')
  BY SameCart DEF LedgerGrows, ByOrder
<1>2. CartCopiesInv(loc[g])'
  BY <1>1, Known DEF HolderInv, CartCopiesInv
<1>3. PaidInv(pc[g], loc[g])'
  <2>1. PaidInv(pc[g], loc[g]) /\ (PaidFor => PaidFor')
    BY Known, PaidStays DEF HolderInv
  <2>2. pc[g] \in {"captureSave", "detailsSave"} => loc[g].shops[1].id \in ShopTxIds
    <3>1. pc[g] \in {"captureSave", "detailsSave"} => Len(loc[g].shops) = 1
      BY Known DEF HandlerInv, OrderInv, DetailsInv, Ordered
    <3> QED BY <3>1, Known
  <2> QED BY <2>1, <2>2 DEF PaidInv, LedgerGrows
<1>4. ForOperatorInv(g, pc[g], loc[g])'
  BY <1>1, Known DEF HolderInv, ForOperatorInv
<1>5. ThreeDSDataInv(pc[g], loc[g])'
  BY <1>1, Known DEF HolderInv, ThreeDSDataInv
<1>6. EndedInv(g, pc[g], loc[g])'
  BY <1>1, Known DEF HolderInv, EndedInv
<1> QED BY <1>2, <1>3, <1>4, <1>5, <1>6 DEF HolderInv

\* What a handler's move says of everyone's position and locals.
LEMMA MovedTo ==
  ASSUME TypeOK, NEW h \in Requests, NEW p, NEW l, Moved(h, p, l)
  PROVE  /\ pc'[h] = p /\ loc'[h] = l
         /\ \A g \in Requests \ {h} : pc'[g] = pc[g] /\ loc'[g] = loc[g]
  BY DEF TypeOK, Moved

\* A step of one handler: what is left to show of it.
LEMMA HolderMoves ==
  ASSUME HandlersAgree, MoneyAgrees, NEW h \in Requests, NEW p, NEW l, Moved(h, p, l),
         LedgerGrows, LedgerInv', HolderInv(h)'
  PROVE  HoldersAgree'
<1>1. ASSUME NEW g \in Requests PROVE HolderInv(g)'
  <2>1. CASE g = h
    BY <2>1
  <2>2. CASE g # h
    BY <2>2, Known, MovedTo, HoldersKeep
  <2> QED BY <2>1, <2>2
<1> QED BY <1>1 DEF MoneyAgrees, HoldersAgree

\* A step that leaves the bank and the counters alone takes no payment back.
LEMMA SameLedger ==
  ASSUME UNCHANGED <<session, bank, history>>
  PROVE  /\ LedgerGrows
         /\ (PaidFor' <=> PaidFor)
         /\ CartShops' = CartShops /\ OnlyThreeDS' = OnlyThreeDS
         /\ UNCHANGED <<authorized, plainAuth, captured, refunded, page, labels, mails, confirmations>>
<1>1. UNCHANGED <<session, authorized, plainAuth, captured, refunded, page, labels, mails, confirmations>>
  BY DEF bank, history
<1> QED BY <1>1, SameCart DEF LedgerGrows, PaidFor, Paid

\* A step that only moves the handler.
LEMMA QuietHolds ==
  ASSUME HandlersAgree, MoneyAgrees, NEW h \in Requests, NEW p, NEW l, Moved(h, p, l),
         UNCHANGED <<session, documents, bank, history>>, HolderInv(h)'
  PROVE  HoldersAgree'
<1>1. UNCHANGED <<tx, shopTx>>
  BY DEF documents
<1>2. LedgerGrows /\ LedgerInv'
  BY <1>1, Known, SameLedger DEF LedgerInv, Exists
<1> QED BY <1>2, HolderMoves

\* A step that stores a shop transaction of the cart.
LEMMA DocHolds ==
  ASSUME HandlersAgree, MoneyAgrees, NEW h \in Requests, NEW p, NEW l, Moved(h, p, l),
         NEW doc \in BOShopTransaction, doc.id[2] \in CartShops, SaveShop(doc),
         UNCHANGED <<session, tx, bank, history>>, HolderInv(h)'
  PROVE  HoldersAgree'
<1>1. LedgerGrows /\ UNCHANGED <<tx, plainAuth, mails>> /\ CartShops' = CartShops
      /\ OnlyThreeDS' = OnlyThreeDS /\ (PaidFor' <=> PaidFor)
  BY SameLedger
<1>2. \A id \in ShopTxIds : Exists(shopTx'[id]) => id[2] \in CartShops
  BY Known DEF LedgerInv, SaveShop, TypeOK, Exists
<1>3. LedgerInv'
  BY <1>1, <1>2, Known DEF LedgerInv, Exists
<1> QED BY <1>1, <1>3, HolderMoves

\* A step that writes the transaction, and perhaps counts something.
LEMMA TxHolds ==
  ASSUME HandlersAgree, MoneyAgrees, NEW h \in Requests, NEW p, NEW l, Moved(h, p, l),
         tx'.status = "COMPLETED" => PaidFor,
         UNCHANGED <<session, shopTx, bank, mails>>,
         confirmations > 0 => confirmations' > 0,
         HolderInv(h)'
  PROVE  HoldersAgree'
<1>1. UNCHANGED <<session, shopTx, plainAuth, captured, page, mails>>
  BY DEF bank
<1>2. (PaidFor' <=> PaidFor) /\ CartShops' = CartShops /\ OnlyThreeDS' = OnlyThreeDS
  BY <1>1, SameCart DEF PaidFor, Paid
<1>3. LedgerGrows
  BY <1>1 DEF LedgerGrows
<1>4. LedgerInv'
  BY <1>1, <1>2, Known DEF LedgerInv, Exists
<1> QED BY <1>3, <1>4, HolderMoves

-----------------------------------------------------------------------------
(* What is to be shown of the moving handler, by the step it has reached.  *)

Plain == {"idle", "createShops", "webRequest", "webAnswer", "enrollRequest", "enrollCall", "enrollSave",
          "enrolled", "threeDSShops", "returnRead", "detailsRequest", "detailsCall", "mailOrder"} \cup Final

\* At these steps only the copies count.
LEMMA AtPlain ==
  ASSUME NEW h, pc'[h] \in Plain, CartCopiesInv(loc[h])', loc'[h].tx.status = "COMPLETED" => PaidFor'
  PROVE  HolderInv(h)'
  BY DEF Plain, Final, HolderInv, PaidInv, ForOperatorInv, ThreeDSDataInv, EndedInv, Committed

\* An ended handler holds nothing.
LEMMA EndHolds ==
  ASSUME HandlersAgree, NEW h \in Requests, NEW p \in Final, End(h, p)
  PROVE  Moved(h, p, NoLocals) /\ HolderInv(h)'
<1>1. Moved(h, p, NoLocals)
  BY DEF End, Goto, Moved
<1>2. pc'[h] = p /\ loc'[h] = NoLocals /\ p \in Plain
  BY <1>1, InHand, MovedTo DEF Plain
<1>3. NoLocals.shops = <<>> /\ NoLocals.tx.status = "NONE"
  BY DEF NoLocals, NoTx
<1>4. CartCopiesInv(loc[h])'
  BY <1>2, <1>3 DEF CartCopiesInv
<1> QED BY <1>1, <1>2, <1>3, <1>4, AtPlain

\* A handler that goes on to finishTransaction needs a justified status.
LEMMA ToFinishHolds ==
  ASSUME TypeOK, NEW h \in Requests, NEW locals \in Locals, NEW status, NEW error,
         ToFinish(h, locals, status, error),
         CartCopiesInv(locals)', locals.tx.status = "COMPLETED" => PaidFor',
         status = "COMPLETED" => PaidFor'
  PROVE  \E l : Moved(h, "finish", l) /\ HolderInv(h)'
<1> DEFINE l == [locals EXCEPT !.status = status, !.error = error]
<1>1. l.tx = locals.tx /\ l.status = status /\ l.shops = locals.shops
  BY DEF Locals
<1>2. Moved(h, "finish", l)
  BY DEF ToFinish, Goto, Moved
<1> HIDE DEF l
<1>3. pc'[h] = "finish" /\ loc'[h] = l
  BY <1>2, MovedTo
<1>4. CartCopiesInv(loc[h])'
  BY <1>1, <1>3 DEF CartCopiesInv
<1>5. HolderInv(h)'
  BY <1>1, <1>3, <1>4 DEF HolderInv, PaidInv, ForOperatorInv, ThreeDSDataInv, EndedInv, Committed
<1> QED BY <1>2, <1>5

\* A handler that keeps its copies keeps what it knows of them.
LEMMA SameCopies ==
  ASSUME HandlersAgree, MoneyAgrees, NEW h \in Requests, LedgerGrows,
         loc'[h].shops = loc[h].shops, loc'[h].tx = loc[h].tx
  PROVE  CartCopiesInv(loc[h])' /\ (loc'[h].tx.status = "COMPLETED" => PaidFor')
<1>1. CartShops' = CartShops
  BY SameCart DEF LedgerGrows
<1>2. CartCopiesInv(loc[h]) /\ PaidInv(pc[h], loc[h])
  BY Known DEF HolderInv
<1>3. CartCopiesInv(loc[h])'
  BY <1>1, <1>2 DEF CartCopiesInv
<1>4. loc[h].tx.status = "COMPLETED" => PaidFor'
  BY <1>2, Known, PaidStays DEF PaidInv
<1> QED BY <1>3, <1>4

\* The shop transaction whose turn it is belongs to the cart.
LEMMA CurrentOfCart ==
  ASSUME HandlersAgree, MoneyAgrees, NEW h \in Requests, Len(loc[h].results) < Len(loc[h].shops)
  PROVE  /\ Current(h) \in BOShopTransaction /\ Current(h).id \in ShopTxIds
         /\ Current(h).id[2] \in CartShops
<1>1. Len(loc[h].results) + 1 \in 1..Len(loc[h].shops)
  BY Known, LocalsType
<1>2. CartCopiesInv(loc[h])
  BY Known DEF HolderInv
<1>3. Current(h).id[2] \in CartShops
  BY <1>1, <1>2 DEF CartCopiesInv, Current
<1> QED BY <1>3, Known, CurrentType

\* A write of the current copy with a new status, after which the handler goes on.
LEMMA SaveCurrentHolds ==
  ASSUME HandlersAgree, MoneyAgrees, NEW h \in Requests, Len(loc[h].results) < Len(loc[h].shops),
         NEW status \in ShopTransactionStatus, status # "NONE", NEW code \in Codes,
         SaveShop(WithStatus(Current(h), status, code)),
         NEW p, NEW l, Moved(h, p, l),
         UNCHANGED <<session, tx, bank, history>>, HolderInv(h)'
  PROVE  HoldersAgree'
<1> DEFINE doc == WithStatus(Current(h), status, code)
<1>1. doc \in BOShopTransaction /\ doc.id = Current(h).id /\ SaveShop(doc)
  BY CurrentOfCart, WithStatusType
<1> HIDE DEF doc
<1> QED BY <1>1, CurrentOfCart, DocHolds

\* The same for a handler that goes on to a step where only its copies count.
LEMMA SavePlainHolds ==
  ASSUME HandlersAgree, MoneyAgrees, NEW h \in Requests, Len(loc[h].results) < Len(loc[h].shops),
         NEW status \in ShopTransactionStatus, status # "NONE", NEW code \in Codes,
         SaveShop(WithStatus(Current(h), status, code)),
         NEW p \in Plain, NEW l, l.shops = loc[h].shops, l.tx = loc[h].tx, Moved(h, p, l),
         UNCHANGED <<session, tx, bank, history>>
  PROVE  HoldersAgree'
<1>1. pc'[h] = p /\ loc'[h] = l
  BY Known, MovedTo
<1>2. CartCopiesInv(loc[h])' /\ (loc'[h].tx.status = "COMPLETED" => PaidFor')
  BY <1>1, SameLedger, SameCopies
<1>3. HolderInv(h)'
  BY <1>1, <1>2, AtPlain
<1> QED BY <1>3, SaveCurrentHolds

\* A lost handler keeps HoldersAgree.
LEMMA AbortHolds ==
  ASSUME HandlersAgree, MoneyAgrees, NEW h \in Requests, Abort(h)
  PROVE  HoldersAgree'
<1>1. End(h, "failed") /\ UNCHANGED <<session, documents, bank, history>> /\ "failed" \in Final
  BY DEF Abort, Final
<1> QED BY <1>1, EndHolds, QuietHolds

-----------------------------------------------------------------------------
(* startPayment, doWebPayment and the return from the page.                *)

\* startPayment's reset of the transaction keeps HoldersAgree.
LEMMA StartPaymentHolds ==
  ASSUME HandlersAgree, MoneyAgrees, NEW h \in StartReqs, StartPayment(h)
  PROVE  HoldersAgree'
<1> DEFINE locals == [NoLocals EXCEPT !.tx = NewTx]
<1>0. h \in Requests
  BY DEF Requests
<1>1. /\ tx' = NewTx /\ UNCHANGED <<session, shopTx, bank, history>>
      /\ \/ session.cart = <<>> /\ ToFinish(h, locals, "COMPLETED", NoCode)
         \/ ToFinish(h, locals, "FAILED", "ERROR_EXTERNAL_PAYMENT_NOT_ALLOWED_WITH_MANY_SHOPS")
         \/ Goto(h, "createShops") /\ loc' = [loc EXCEPT ![h] = locals]
  BY DEF StartPayment
<1>2. /\ locals \in Locals /\ locals.tx = NewTx /\ locals.shops = <<>> /\ NewTx.status = "INITIATED"
  <2>1. NewTx \in BOTransaction /\ NewTx.status = "INITIATED"
    BY DEF NewTx, NoTx, BOTransaction, NoCode, Codes, Errors, TransactionStatus
  <2>2. NoLocals \in Locals /\ NoLocals.shops = <<>>
    BY NoLocalsType DEF NoLocals
  <2> QED BY <2>1, <2>2 DEF Locals
<1> HIDE DEF locals
<1>3. CartCopiesInv(locals)' /\ locals.tx.status # "COMPLETED"
  BY <1>2 DEF CartCopiesInv
<1>4. (session.cart = <<>> => PaidFor') /\ UNCHANGED <<session, shopTx, bank, mails, confirmations>>
  BY <1>1 DEF PaidFor, history
<1>5. \E p, l : Moved(h, p, l) /\ HolderInv(h)'
  <2>1. CASE \E s, e : ToFinish(h, locals, s, e) /\ (s = "COMPLETED" => session.cart = <<>>)
    BY <1>0, <1>2, <1>3, <1>4, <2>1, Known, ToFinishHolds
  <2>2. CASE Goto(h, "createShops") /\ loc' = [loc EXCEPT ![h] = locals]
    <3>1. Moved(h, "createShops", locals)
      BY <2>2 DEF Goto, Moved
    <3>2. pc'[h] = "createShops" /\ loc'[h] = locals /\ "createShops" \in Plain
      BY <1>0, <3>1, Known, MovedTo DEF Plain
    <3>3. HolderInv(h)'
      BY <1>3, <3>2, AtPlain DEF CartCopiesInv
    <3> QED BY <3>1, <3>3
  <2> QED BY <1>1, <2>1, <2>2
<1> QED BY <1>0, <1>1, <1>2, <1>4, <1>5, TxHolds

\* createBOShopTransaction keeps HoldersAgree: its document is one of the cart's, and a session
\* that must use 3-D Secure does not go straight to the authorisation.
LEMMA CreateShopTransactionHolds ==
  ASSUME HandlersAgree, MoneyAgrees, NEW h \in Requests, CreateShopTransaction(h)
  PROVE  HoldersAgree'
<1> DEFINE n     == Len(loc[h].shops) + 1
           id    == <<h, session.cart[n]>>
           doc   == [NoShopTx(id) EXCEPT !.status = "INITIATED"]
           shops == Append(loc[h].shops, doc)
           l     == [loc[h] EXCEPT !.shops = shops]
           p     == IF n = Len(session.cart) THEN AfterCreation ELSE "createShops"
<1>1. /\ pc[h] = "createShops" /\ SaveShop(doc) /\ Goto(h, p)
      /\ loc' = [loc EXCEPT ![h].shops = Append(@, doc)]
      /\ UNCHANGED <<session, tx, bank, history>>
  BY DEF CreateShopTransaction
<1>2. h \in StartReqs /\ Len(loc[h].shops) < Len(session.cart)
  BY <1>1, Known DEF HandlerInv, CreateInv, OwnShops
<1>3. n \in 1..Len(session.cart) /\ session.cart[n] \in Shops /\ session.cart[n] \in CartShops
  <2>1. n \in 1..Len(session.cart)
    BY <1>2, Known, LocalsType, CartType
  <2> QED BY <2>1, Known, CartType DEF CartShops
<1>4. id \in ShopTxIds /\ id[2] \in CartShops
  BY <1>2, <1>3 DEF ShopTxIds
<1>5. doc \in BOShopTransaction /\ doc.id = id
  <2> HIDE DEF id
  <2> QED BY <1>4 DEF NoShopTx, BOShopTransaction, ShopTransactionStatus, NoCode, Codes
<1> HIDE DEF doc, id
<1>6. /\ Len(shops) = Len(loc[h].shops) + 1 /\ Len(loc[h].shops) \in Nat
      /\ shops[Len(loc[h].shops) + 1] = doc
      /\ \A i \in 1..Len(loc[h].shops) : shops[i] = loc[h].shops[i]
  BY <1>5, Known, AppendFacts
<1>7. l.shops = shops /\ l.tx = loc[h].tx /\ Moved(h, p, l)
  <2>1. loc[h] \in Locals /\ loc \in [Requests -> Locals]
    BY Known DEF TypeOK
  <2> HIDE DEF p
  <2> QED BY <1>1, <2>1 DEF Goto, Moved, Locals
<1> HIDE DEF l, shops
<1>8. pc'[h] = p /\ loc'[h] = l
  BY <1>7, Known, MovedTo
<1>9. \A i \in 1..Len(shops) : shops[i].id[2] \in CartShops
  <2>1. CartCopiesInv(loc[h])
    BY Known DEF HolderInv
  <2> QED BY <1>4, <1>5, <1>6, <2>1 DEF CartCopiesInv
<1>10. LedgerGrows /\ CartShops' = CartShops /\ OnlyThreeDS' = OnlyThreeDS
  BY <1>1, SameLedger
<1>11. CartCopiesInv(loc[h])'
  BY <1>7, <1>8, <1>9, <1>10 DEF CartCopiesInv
<1>12. loc'[h].tx.status = "COMPLETED" => PaidFor'
  BY <1>7, <1>8, <1>10, Known, PaidStays DEF HolderInv, PaidInv
<1>13. /\ p \in {"createShops", "webRequest", "enrollRequest", "authRequest"}
       /\ p = "authRequest" => ~OnlyThreeDS
  BY DEF AfterCreation, OnlyThreeDS
<1> HIDE DEF p
<1>14. HolderInv(h)'
  BY <1>8, <1>10, <1>11, <1>12, <1>13
     DEF HolderInv, PaidInv, ForOperatorInv, ThreeDSDataInv, EndedInv, Committed
<1> QED BY <1>1, <1>4, <1>5, <1>7, <1>14, DocHolds

\* A handler that goes on to finishTransaction with its copies and another status.
LEMMA StayToFinish ==
  ASSUME HandlersAgree, MoneyAgrees, NEW h \in Requests, LedgerGrows, NEW status, NEW error,
         ToFinish(h, loc[h], status, error), status = "COMPLETED" => PaidFor
  PROVE  \E l : Moved(h, "finish", l) /\ HolderInv(h)'
<1> DEFINE l == [loc[h] EXCEPT !.status = status, !.error = error]
<1>1. l.tx = loc[h].tx /\ l.status = status /\ l.shops = loc[h].shops
  BY Known DEF Locals
<1>2. Moved(h, "finish", l)
  BY DEF ToFinish, Goto, Moved
<1> HIDE DEF l
<1>3. pc'[h] = "finish" /\ loc'[h] = l
  BY <1>2, Known, MovedTo
<1>4. CartCopiesInv(loc[h])' /\ (loc'[h].tx.status = "COMPLETED" => PaidFor')
  BY <1>1, <1>3, SameCopies
<1>6. status = "COMPLETED" => PaidFor'
  BY Known, PaidStays
<1>7. HolderInv(h)'
  BY <1>1, <1>3, <1>4, <1>6 DEF HolderInv, PaidInv, ForOperatorInv, ThreeDSDataInv, EndedInv, Committed
<1> QED BY <1>2, <1>7

\* doWebPayment works on the page of its own start request, which is not open yet.
LEMMA WebPageIsNew ==
  ASSUME HandlersAgree, MoneyAgrees, NEW h \in Requests, pc[h] = "webAnswer"
  PROVE  h \in StartReqs /\ Current(h).id[1] = h /\ page[Current(h).id] = "none"
<1>1. /\ OwnShops(h, loc[h].shops) /\ Len(loc[h].shops) = 1 /\ Len(session.cart) = 1
      /\ loc[h].results = <<>>
  BY Known DEF HandlerInv, WebInv
<1>2. Current(h).id = <<h, session.cart[1]>> /\ h \in StartReqs
  BY <1>1, OneShop DEF OwnShops
<1>3. session.cart[1] \in Shops
  BY <1>1, Known, CartType
<1> QED BY <1>2, <1>3 DEF MoneyAgrees, PagesInv

\* doWebPayment's status before the call keeps HoldersAgree.
LEMMA WebRequestHolds ==
  ASSUME HandlersAgree, MoneyAgrees, NEW h \in Requests, WebRequest(h)
  PROVE  HoldersAgree'
<1>1. /\ pc[h] = "webRequest" /\ SaveShop(WithStatus(Current(h), "PAYMENT_EXTERNAL_REQUESTED", NoCode))
      /\ Goto(h, "webAnswer") /\ loc' = loc
      /\ UNCHANGED <<session, tx, bank, history>>
  BY DEF WebRequest
<1>2. Len(loc[h].results) < Len(loc[h].shops)
  BY <1>1, Known, OneShop DEF HandlerInv, WebInv
<1>3. /\ "PAYMENT_EXTERNAL_REQUESTED" \in ShopTransactionStatus /\ NoCode \in Codes
      /\ "webAnswer" \in Places /\ "webAnswer" \in Plain
  BY DEF ShopTransactionStatus, Codes, Places, Active, Plain
<1>4. Moved(h, "webAnswer", loc[h])
  BY <1>1, <1>3, Known, StayFacts
<1> QED BY <1>1, <1>2, <1>3, <1>4, SavePlainHolds

\* doWebPayment's answer keeps HoldersAgree: the page of a shop of the cart is opened, and no
\* page that was paid is opened again, as each belongs to one start request.
LEMMA WebAnswerHolds ==
  ASSUME HandlersAgree, MoneyAgrees, NEW h \in Requests, WebAnswer(h)
  PROVE  HoldersAgree'
<1> DEFINE cur == Current(h)
<1>1. pc[h] = "webAnswer" /\ UNCHANGED <<session, tx, authorized, plainAuth, captured, refunded, history>>
  BY DEF WebAnswer
<1>2. Len(loc[h].results) < Len(loc[h].shops) /\ loc[h].results = <<>> /\ Len(loc[h].shops) = 1
  BY <1>1, Known, OneShop DEF HandlerInv, WebInv
<1>3. cur \in BOShopTransaction /\ cur.id \in ShopTxIds /\ cur.id[2] \in CartShops
  BY <1>2, CurrentOfCart
<1> HIDE DEF cur
<1>4. ASSUME NEW status \in ShopTransactionStatus, NEW code \in Codes, NEW token \in BOOLEAN,
             SaveShop([WithStatus(cur, status, code) EXCEPT !.token = token])
      PROVE  \A id \in ShopTxIds : Exists(shopTx'[id]) => id[2] \in CartShops
  <2> DEFINE doc == [WithStatus(cur, status, code) EXCEPT !.token = token]
  <2>1. doc \in BOShopTransaction /\ doc.id = cur.id
    BY <1>3 DEF WithStatus, BOShopTransaction
  <2>2. SaveShop(doc)
    BY <1>4
  <2> HIDE DEF doc
  <2> QED BY <1>3, <2>1, <2>2, Known DEF SaveShop, LedgerInv, TypeOK, Exists
<1>5. /\ \A s \in {"PAYMENT_EXTERNAL_PROCESSING", "PAYMENT_EXTERNAL_FAILED"} : s \in ShopTransactionStatus
      /\ SUCCESS_CODE \in Codes
  BY DEF ShopTransactionStatus, Codes
<1>6. ASSUME \A id \in ShopTxIds : Exists(shopTx'[id]) => id[2] \in CartShops, LedgerGrows
      PROVE  LedgerInv'
  <2>1. UNCHANGED <<session, tx, plainAuth, captured, mails>>
    BY <1>1 DEF history
  <2>2. CartShops' = CartShops /\ OnlyThreeDS' = OnlyThreeDS /\ (PaidFor => PaidFor')
    BY <1>6, <2>1, Known, SameCart, PaidStays
  <2> QED BY <1>6, <2>1, <2>2, Known DEF LedgerInv, Exists
<1>7. CASE /\ SaveShop([WithStatus(cur, "PAYMENT_EXTERNAL_PROCESSING", SUCCESS_CODE) EXCEPT !.token = TRUE])
           /\ page' = [page EXCEPT ![cur.id] = "open"]
           /\ End(h, "redirect")
  <2>1. page[cur.id] # "paid"
    BY <1>1, <1>2, WebPageIsNew DEF cur
  <2>2. LedgerGrows
    <3>1. UNCHANGED <<session, captured, confirmations>> /\ page \in [ShopTxIds -> {"none", "open", "paid", "refused"}]
      BY <1>1, Known DEF history, TypeOK
    <3> QED BY <1>3, <1>7, <2>1, <3>1 DEF LedgerGrows
  <2>3. LedgerInv'
    BY <1>4, <1>5, <1>6, <1>7, <2>2
  <2>4. "redirect" \in Final
    BY DEF Final
  <2> QED BY <1>7, <2>2, <2>3, <2>4, EndHolds, HolderMoves
<1>8. CASE \E code \in Codes \ {SUCCESS_CODE}, token \in BOOLEAN :
             /\ SaveShop([WithStatus(cur, "PAYMENT_EXTERNAL_FAILED", code) EXCEPT !.token = token])
             /\ ToFinish(h, loc[h], "FAILED", code)
             /\ UNCHANGED page
  <2>1. LedgerGrows
    BY <1>1, <1>8 DEF LedgerGrows, history
  <2>2. LedgerInv'
    BY <1>4, <1>5, <1>6, <1>8, <2>1
  <2>3. \E l : Moved(h, "finish", l) /\ HolderInv(h)'
    BY <1>8, <2>1, StayToFinish
  <2> QED BY <2>1, <2>2, <2>3, HolderMoves
<1> QED BY <1>7, <1>8 DEF WebAnswer, cur

\* The payer's decision keeps HoldersAgree.
LEMMA PayerDecidesHolds ==
  ASSUME HandlersAgree, MoneyAgrees, NEW id \in ShopTxIds, PayerDecides(id)
  PROVE  HoldersAgree'
<1>1. /\ page[id] = "open"
      /\ page' = [page EXCEPT ![id] = "paid"] \/ page' = [page EXCEPT ![id] = "refused"]
      /\ UNCHANGED <<session, documents, pc, loc, plainAuth, captured, refunded, history>>
  BY DEF PayerDecides
<1>2. UNCHANGED <<session, tx, shopTx, pc, loc, plainAuth, captured, mails, confirmations>>
  BY <1>1 DEF documents, history
<1>3. TypeOK /\ LedgerInv
  BY DEF HandlersAgree, MoneyAgrees, HoldersAgree
<1>4. LedgerGrows
  BY <1>1, <1>2, <1>3 DEF LedgerGrows, TypeOK
<1>5. LedgerInv'
  BY <1>2, <1>3, <1>4, SameCart, PaidStays DEF LedgerInv, Exists
<1>6. ASSUME NEW g \in Requests PROVE HolderInv(g)'
  BY <1>2, <1>4, HoldersKeep
<1> QED BY <1>5, <1>6 DEF HoldersAgree

\* What an idle handler holds: nothing.
LEMMA IdleLocals ==
  ASSUME HandlersAgree, NEW h \in Requests, pc[h] = "idle"
  PROVE  loc[h] = NoLocals /\ loc[h].shops = <<>> /\ loc[h].tx.status # "COMPLETED"
<1>1. loc[h] = NoLocals
  BY InHand DEF HandlerInv, IdleInv
<1> QED BY <1>1 DEF NoLocals, NoTx

\* A document of an opened page is one of the cart's single shop.
LEMMA PageOfCart ==
  ASSUME HandlersAgree, NEW id \in ShopTxIds, page[id] # "none"
  PROVE  shopTx[id].id = id /\ id[2] \in CartShops
<1>1. Len(session.cart) = 1 /\ id[2] = session.cart[1] /\ shopTx[id].id = id
  BY DEF HandlersAgree, WorldInv, DocumentsInv
<1>2. 1 \in 1..Len(session.cart)
  BY <1>1
<1> QED BY <1>1, <1>2 DEF CartShops

\* processPaylineResponse's reading of the shop transaction keeps HoldersAgree.
LEMMA ReturnShopHolds ==
  ASSUME HandlersAgree, MoneyAgrees, NEW h \in Requests, ReturnShop(h)
  PROVE  HoldersAgree'
<1>1. /\ pc[h] = "idle" /\ Goto(h, "returnRead") /\ UNCHANGED <<session, documents, bank, history>>
  BY DEF ReturnShop
<1>2. PICK id \in ShopTxIds :
        page[id] # "none" /\ loc' = [loc EXCEPT ![h].shops = <<shopTx[id]>>]
  BY DEF ReturnShop
<1> DEFINE l == [loc[h] EXCEPT !.shops = <<shopTx[id]>>]
<1>3. l.tx = loc[h].tx /\ l.shops = <<shopTx[id]>> /\ Moved(h, "returnRead", l)
  <2>1. loc[h] \in Locals /\ loc \in [Requests -> Locals]
    BY Known DEF TypeOK
  <2> QED BY <1>1, <1>2, <2>1 DEF Goto, Moved, Locals
<1> HIDE DEF l
<1>4. pc'[h] = "returnRead" /\ loc'[h] = l /\ "returnRead" \in Plain
  BY <1>3, Known, MovedTo DEF Plain
<1>5. CartShops' = CartShops /\ (PaidFor' <=> PaidFor)
  BY <1>1, SameLedger
<1>6. CartCopiesInv(loc[h])'
  <2>1. Len(l.shops) = 1 /\ l.shops[1].id[2] \in CartShops
    BY <1>2, <1>3, PageOfCart
  <2> QED BY <1>4, <1>5, <2>1 DEF CartCopiesInv
<1>7. HolderInv(h)'
  <2>1. HolderInv(h)
    BY Known
  <2> QED BY <1>3, <1>4, <1>5, <1>6, <2>1, AtPlain DEF HolderInv, PaidInv
<1> QED BY <1>1, <1>3, <1>7, QuietHolds

\* processPaylineResponse's reading of the transaction keeps HoldersAgree.
LEMMA ReturnReadHolds ==
  ASSUME HandlersAgree, MoneyAgrees, NEW h \in Requests, ReturnRead(h)
  PROVE  HoldersAgree'
<1>1. /\ Goto(h, "detailsRequest") /\ loc' = [loc EXCEPT ![h].tx = tx]
      /\ UNCHANGED <<session, documents, bank, history>>
  BY DEF ReturnRead
<1> DEFINE l == [loc[h] EXCEPT !.tx = tx]
<1>2. l.tx = tx /\ l.shops = loc[h].shops /\ Moved(h, "detailsRequest", l)
  <2>1. loc[h] \in Locals /\ loc \in [Requests -> Locals]
    BY Known DEF TypeOK
  <2> QED BY <1>1, <2>1 DEF Goto, Moved, Locals
<1> HIDE DEF l
<1>3. pc'[h] = "detailsRequest" /\ loc'[h] = l /\ "detailsRequest" \in Plain
  BY <1>2, Known, MovedTo DEF Plain
<1>4. CartShops' = CartShops /\ (PaidFor' <=> PaidFor)
  BY <1>1, SameLedger
<1>5. CartCopiesInv(loc[h])'
  <2>1. CartCopiesInv(loc[h])
    BY Known DEF HolderInv
  <2> QED BY <1>2, <1>3, <1>4, <2>1 DEF CartCopiesInv
<1>6. HolderInv(h)'
  BY <1>2, <1>3, <1>4, <1>5, Known, AtPlain DEF LedgerInv
<1> QED BY <1>1, <1>2, <1>6, QuietHolds

\* getWebPaymentDetails' status before the call keeps HoldersAgree.
LEMMA DetailsRequestHolds ==
  ASSUME HandlersAgree, MoneyAgrees, NEW h \in Requests, DetailsRequest(h)
  PROVE  HoldersAgree'
<1>1. /\ pc[h] = "detailsRequest" /\ SaveShop(WithStatus(Current(h), "PAYMENT_VERIFICATION", NoCode))
      /\ Goto(h, "detailsCall") /\ loc' = loc /\ UNCHANGED <<session, tx, bank, history>>
  BY DEF DetailsRequest
<1>2. /\ "PAYMENT_VERIFICATION" \in ShopTransactionStatus /\ NoCode \in Codes
      /\ "detailsCall" \in Places /\ "detailsCall" \in Plain
  BY DEF ShopTransactionStatus, Codes, Places, Active, Plain
<1>3. Moved(h, "detailsCall", loc[h])
  BY <1>1, <1>2, Known, StayFacts
<1> QED BY <1>1, <1>2, <1>3, DetailsFacts, SavePlainHolds

\* getWebPaymentDetails' call keeps HoldersAgree: a success code means a page that was paid.
LEMMA DetailsCallHolds ==
  ASSUME HandlersAgree, MoneyAgrees, NEW h \in Requests, DetailsCall(h)
  PROVE  HoldersAgree'
<1>1. pc[h] = "detailsCall" /\ UNCHANGED <<session, documents, bank, history>>
  BY DEF DetailsCall
<1>2. PICK code \in Codes :
        /\ code = SUCCESS_CODE => page[Current(h).id] = "paid"
        /\ Receive(h, code, "detailsSave")
  BY DEF DetailsCall
<1>3. "detailsSave" \in Places
  BY DEF Places, Active
<1>4. PICK l \in Locals :
        /\ Moved(h, "detailsSave", l) /\ pc'[h] = "detailsSave" /\ loc'[h] = l
        /\ l.tx = loc[h].tx /\ l.shops = loc[h].shops /\ l.results = loc[h].results
        /\ l.answer = code
  BY <1>2, <1>3, Known, ReceiveFacts
<1>5. CartCopiesInv(loc[h])' /\ (loc'[h].tx.status = "COMPLETED" => PaidFor') /\ page' = page
  BY <1>1, <1>4, SameLedger, SameCopies
<1>6. Current(h) = loc[h].shops[1]
  BY <1>1, DetailsFacts
<1>7. HolderInv(h)'
  BY <1>2, <1>4, <1>5, <1>6 DEF HolderInv, PaidInv, ForOperatorInv, ThreeDSDataInv, EndedInv, Committed
<1> QED BY <1>1, <1>4, <1>7, QuietHolds

\* A paid page is a payment.
LEMMA PageIsPaid ==
  ASSUME NEW id \in ShopTxIds, page[id] = "paid"
  PROVE  PaidFor
<1>1. id = <<id[1], id[2]>> /\ id[1] \in StartReqs /\ id[2] \in Shops
  BY PairFacts DEF ShopTxIds
<1> QED BY <1>1 DEF PaidFor, Paid

\* getWebPaymentDetails' status after the call keeps HoldersAgree.
LEMMA DetailsSaveHolds ==
  ASSUME HandlersAgree, MoneyAgrees, NEW h \in Requests, DetailsSave(h)
  PROVE  HoldersAgree'
<1> DEFINE code   == loc[h].answer
           paid   == code = SUCCESS_CODE
           status == IF paid THEN "PAYMENT_VERIFIED" ELSE "PAYMENT_VERIFICATION_FAILED"
           result == IF paid THEN "COMPLETED" ELSE "PAYMENT_REFUSED"
<1>1. /\ pc[h] = "detailsSave" /\ SaveShop(WithStatus(Current(h), status, code))
      /\ ToFinish(h, loc[h], result, Current(h).errorCode)
      /\ UNCHANGED <<session, tx, bank, history>>
  BY DEF DetailsSave
<1>2. /\ status \in ShopTransactionStatus /\ status # "NONE" /\ code \in Codes
      /\ result = "COMPLETED" => paid
  BY Known, LocalsType DEF ShopTransactionStatus
<1>3. paid => PaidFor
  <2>1. paid => page[loc[h].shops[1].id] = "paid"
    BY <1>1, Known DEF HolderInv, PaidInv
  <2> QED BY <1>1, <2>1, DetailsFacts, PageIsPaid
<1> HIDE DEF status, result, paid
<1>4. \E l : Moved(h, "finish", l) /\ HolderInv(h)'
  BY <1>1, <1>2, <1>3, SameLedger, StayToFinish
<1> QED BY <1>1, <1>2, <1>4, DetailsFacts, SaveCurrentHolds

-----------------------------------------------------------------------------
(* verifyEnrollment and threeDSCallback.                                   *)

\* The two loops of verifyEnrollment keep HoldersAgree.
LEMMA EnrollLoopHolds ==
  ASSUME HandlersAgree, MoneyAgrees, NEW h \in Requests, EnrollRequest(h) \/ EnrollSave(h)
  PROVE  HoldersAgree'
<1>1. PICK status, code, p, results :
        /\ status \in {"VERIFICATION_THREEDS", "THREEDS_TESTED"} /\ code \in Codes
        /\ p \in {"enrollRequest", "enrollCall", "enrollSave", "enrolled"}
        /\ SaveShop(WithStatus(Current(h), status, code))
        /\ Goto(h, p) /\ loc' = [loc EXCEPT ![h].results = results]
  <2>1. NoCode \in Codes /\ loc[h].answer \in Codes
    BY Known, LocalsType DEF Codes
  <2> QED BY <2>1 DEF EnrollRequest, EnrollSave
<1>2. pc[h] \in {"enrollRequest", "enrollSave"} /\ UNCHANGED <<session, tx, bank, history>>
  BY DEF EnrollRequest, EnrollSave
<1>3. Len(loc[h].results) < Len(loc[h].shops)
  BY <1>2, Known DEF HandlerInv, EnrollInv
<1>4. status \in ShopTransactionStatus /\ status # "NONE" /\ p \in Plain
  BY <1>1 DEF ShopTransactionStatus, Plain
<1> DEFINE l == [loc[h] EXCEPT !.results = results]
<1>5. l.shops = loc[h].shops /\ l.tx = loc[h].tx /\ Moved(h, p, l)
  <2>1. loc[h] \in Locals /\ loc \in [Requests -> Locals]
    BY Known DEF TypeOK
  <2> QED BY <1>1, <2>1 DEF Goto, Moved, Locals
<1> HIDE DEF l
<1> QED BY <1>1, <1>2, <1>3, <1>4, <1>5, SavePlainHolds

\* verifyEnrollment's call keeps HoldersAgree.
LEMMA EnrollCallHolds ==
  ASSUME HandlersAgree, MoneyAgrees, NEW h \in Requests, EnrollCall(h)
  PROVE  HoldersAgree'
<1>1. pc[h] = "enrollCall" /\ UNCHANGED <<session, documents, bank, history>>
  BY DEF EnrollCall
<1>2. PICK code \in Codes : Receive(h, code, "enrollSave")
  BY DEF EnrollCall
<1>3. "enrollSave" \in Places /\ "enrollSave" \in Plain
  BY DEF Places, Active, Plain
<1>4. PICK l \in Locals :
        /\ Moved(h, "enrollSave", l) /\ pc'[h] = "enrollSave" /\ loc'[h] = l
        /\ l.tx = loc[h].tx /\ l.shops = loc[h].shops
  BY <1>2, <1>3, Known, ReceiveFacts
<1>5. HolderInv(h)'
  BY <1>1, <1>3, <1>4, SameLedger, SameCopies, AtPlain
<1> QED BY <1>1, <1>4, <1>5, QuietHolds

\* startPayment's choice after the enrolment keeps HoldersAgree: where 3-D Secure is required
\* it never goes on to the authorisation.
LEMMA EnrolledHolds ==
  ASSUME HandlersAgree, MoneyAgrees, NEW h \in Requests, Enrolled(h)
  PROVE  HoldersAgree'
<1>1. pc[h] = "enrolled" /\ UNCHANGED <<session, documents, bank, history>>
  BY DEF Enrolled
<1>2. LedgerGrows /\ OnlyThreeDS' = OnlyThreeDS
  BY <1>1, SameLedger
<1>3. CASE \E error : ToFinish(h, loc[h], "FAILED", error)
  BY <1>1, <1>2, <1>3, StayToFinish, QuietHolds
<1>4. CASE End(h, "form")
  <2>1. "form" \in Final
    BY DEF Final
  <2> QED BY <1>1, <1>4, <2>1, EndHolds, QuietHolds
<1>5. CASE session.paymentMethod # "THREEDS_REQUIRED" /\ Goto(h, "authRequest") /\ UNCHANGED loc
  <2>1. Moved(h, "authRequest", loc[h]) /\ pc'[h] = "authRequest" /\ loc'[h] = loc[h]
    BY <1>5, Known, StayFacts DEF Places, Active
  <2>2. CartCopiesInv(loc[h])' /\ (loc'[h].tx.status = "COMPLETED" => PaidFor')
    BY <1>2, <2>1, SameCopies
  <2>3. ~OnlyThreeDS
    BY <1>5 DEF OnlyThreeDS
  <2>4. HolderInv(h)'
    BY <1>2, <2>1, <2>2, <2>3
       DEF HolderInv, PaidInv, ForOperatorInv, ThreeDSDataInv, EndedInv, Committed
  <2> QED BY <1>1, <2>1, <2>4, QuietHolds
<1> QED BY <1>3, <1>4, <1>5 DEF Enrolled

\* threeDSCallback's reading of the transaction keeps HoldersAgree.
LEMMA ThreeDSReadHolds ==
  ASSUME HandlersAgree, MoneyAgrees, NEW h \in Requests, ThreeDSRead(h)
  PROVE  HoldersAgree'
<1> DEFINE locals == [NoLocals EXCEPT !.tx = tx]
<1>1. UNCHANGED <<session, documents, bank, history>>
  BY DEF ThreeDSRead
<1>2. tx \in BOTransaction /\ (tx.status = "COMPLETED" => PaidFor) /\ (PaidFor' <=> PaidFor)
  BY <1>1, Known, SameLedger DEF TypeOK, LedgerInv
<1>3. ASSUME NEW p, NEW l, Moved(h, p, l), l.shops = <<>>, l.tx = tx,
             p \in {"finish", "threeDSShops"}, p = "finish" => l.status = "FAILED"
      PROVE  HoldersAgree'
  <2>1. pc'[h] = p /\ loc'[h] = l
    BY <1>3, Known, MovedTo
  <2>2. CartCopiesInv(loc[h])' /\ (loc'[h].tx.status = "COMPLETED" => PaidFor')
    BY <1>2, <1>3, <2>1 DEF CartCopiesInv
  <2>3. HolderInv(h)'
    BY <1>3, <2>1, <2>2 DEF HolderInv, PaidInv, ForOperatorInv, ThreeDSDataInv, EndedInv, Committed
  <2> QED BY <1>1, <1>3, <2>3, QuietHolds
<1>4. locals \in Locals /\ locals.tx = tx /\ locals.shops = <<>>
  <2>1. NoLocals \in Locals /\ NoLocals.shops = <<>>
    BY NoLocalsType DEF NoLocals
  <2> QED BY <1>2, <2>1 DEF Locals
<1> HIDE DEF locals
<1>5. CASE ToFinish(h, locals, "FAILED", "ERROR_PAYMENT_REQUEST_NOT_FOUND")
  <2> DEFINE l == [locals EXCEPT !.status = "FAILED", !.error = "ERROR_PAYMENT_REQUEST_NOT_FOUND"]
  <2>1. l.tx = tx /\ l.shops = <<>> /\ l.status = "FAILED"
    BY <1>4 DEF Locals
  <2>2. Moved(h, "finish", l)
    BY <1>5 DEF ToFinish, Goto, Moved
  <2> HIDE DEF l
  <2> QED BY <1>3, <2>1, <2>2
<1>6. CASE Goto(h, "threeDSShops") /\ loc' = [loc EXCEPT ![h] = locals]
  <2>1. Moved(h, "threeDSShops", locals)
    BY <1>6 DEF Goto, Moved
  <2> QED BY <1>3, <1>4, <2>1
<1> QED BY <1>5, <1>6 DEF ThreeDSRead, locals

\* A stored document that a search finds is one of the cart's, under its own id.
LEMMA FoundOfCart ==
  ASSUME HandlersAgree, MoneyAgrees, NEW d \in FindByTransactionUuid
  PROVE  d \in BOShopTransaction /\ d.id[2] \in CartShops
<1>1. PICK id \in ShopTxIds : d = shopTx[id] /\ Exists(shopTx[id])
  BY DEF FindByTransactionUuid
<1>2. TypeOK /\ DocumentsInv /\ LedgerInv
  BY DEF HandlersAgree, MoneyAgrees, HoldersAgree
<1> QED BY <1>1, <1>2 DEF TypeOK, DocumentsInv, LedgerInv

\* threeDSCallback's search for the shop transactions keeps HoldersAgree: every copy gets the
\* 3-D Secure data.
LEMMA ThreeDSShopsHolds ==
  ASSUME HandlersAgree, MoneyAgrees, NEW h \in Requests, ThreeDSShops(h)
  PROVE  HoldersAgree'
<1> DEFINE found == FindByTransactionUuid
           N     == 1..Cardinality(found)
<1>1. /\ pc[h] = "threeDSShops" /\ Goto(h, "authRequest")
      /\ UNCHANGED <<session, documents, bank, history>>
  BY DEF ThreeDSShops
<1>2. PICK list \in [N -> found] :
        loc' = [loc EXCEPT ![h].shops = [i \in N |-> [list[i] EXCEPT !.threeDS = TRUE]]]
  BY DEF ThreeDSShops
<1> DEFINE shops == [i \in N |-> [list[i] EXCEPT !.threeDS = TRUE]]
           l     == [loc[h] EXCEPT !.shops = shops]
<1>3. Cardinality(found) \in Nat
  BY FoundIsFinite, FS_CardinalityType
<1>4. ASSUME NEW i \in N PROVE shops[i].id[2] \in CartShops /\ shops[i].threeDS
  <2>1. list[i] \in BOShopTransaction /\ list[i].id[2] \in CartShops
    BY FoundOfCart
  <2>2. shops[i] = [list[i] EXCEPT !.threeDS = TRUE]
    OBVIOUS
  <2> HIDE DEF shops, N
  <2> QED BY <2>1, <2>2 DEF BOShopTransaction
<1>5. Len(shops) = Cardinality(found)
  BY <1>3
<1>6. l.shops = shops /\ l.tx = loc[h].tx /\ Moved(h, "authRequest", l)
  <2>1. loc[h] \in Locals /\ loc \in [Requests -> Locals]
    BY Known DEF TypeOK
  <2> HIDE DEF N
  <2> QED BY <1>1, <1>2, <2>1 DEF Goto, Moved, Locals
<1> HIDE DEF l, shops
<1>7. pc'[h] = "authRequest" /\ loc'[h] = l
  BY <1>6, Known, MovedTo
<1>8. LedgerGrows /\ CartShops' = CartShops
  BY <1>1, SameLedger
<1>9. loc'[h].tx.status = "COMPLETED" => PaidFor'
  BY <1>6, <1>7, <1>8, Known, PaidStays DEF HolderInv, PaidInv
<1>10. \A i \in 1..Len(loc'[h].shops) : loc'[h].shops[i].id[2] \in CartShops' /\ loc'[h].shops[i].threeDS
  BY <1>4, <1>5, <1>6, <1>7, <1>8
<1>11. HolderInv(h)'
  BY <1>7, <1>9, <1>10
     DEF HolderInv, CartCopiesInv, PaidInv, ForOperatorInv, ThreeDSDataInv, EndedInv, Committed
<1> QED BY <1>1, <1>6, <1>11, QuietHolds

-----------------------------------------------------------------------------
(* doMultiAuthorizations.                                                  *)

\* Inside the loop of doMultiAuthorizations the copies do not change.
LEMMA AuthLoopHolds ==
  ASSUME HandlersAgree, MoneyAgrees, NEW h \in Requests, LedgerGrows,
         pc[h] \in {"authRequest", "authCall", "authSave"}, pc'[h] \in {"authRequest", "authCall", "authSave"},
         loc'[h].shops = loc[h].shops, loc'[h].tx = loc[h].tx
  PROVE  HolderInv(h)'
<1>1. CartCopiesInv(loc[h])' /\ (loc'[h].tx.status = "COMPLETED" => PaidFor')
  BY SameCopies
<1>2. OnlyThreeDS' = OnlyThreeDS
  BY SameCart DEF LedgerGrows
<1>3. ThreeDSDataInv(pc[h], loc[h])
  BY Known DEF HolderInv
<1>4. ThreeDSDataInv(pc[h], loc[h])'
  BY <1>2, <1>3 DEF ThreeDSDataInv
<1> QED BY <1>1, <1>4 DEF HolderInv, PaidInv, ForOperatorInv, EndedInv, Committed

\* doAuthorization's status before the call keeps HoldersAgree.
LEMMA AuthRequestHolds ==
  ASSUME HandlersAgree, MoneyAgrees, NEW h \in Requests, AuthRequest(h)
  PROVE  HoldersAgree'
<1>1. /\ pc[h] = "authRequest" /\ SaveShop(WithStatus(Current(h), "AUTHORIZATION_REQUESTED", NoCode))
      /\ Goto(h, "authCall") /\ loc' = loc /\ UNCHANGED <<session, tx, bank, history>>
  BY DEF AuthRequest
<1>2. "AUTHORIZATION_REQUESTED" \in ShopTransactionStatus /\ NoCode \in Codes /\ "authCall" \in Places
  BY DEF ShopTransactionStatus, Codes, Places, Active
<1>3. Moved(h, "authCall", loc[h]) /\ pc'[h] = "authCall" /\ loc'[h] = loc[h]
  BY <1>1, <1>2, Known, StayFacts
<1>4. HolderInv(h)'
  BY <1>1, <1>3, SameLedger, AuthLoopHolds
<1> QED BY <1>1, <1>2, <1>3, <1>4, AuthFacts, SaveCurrentHolds

\* doAuthorization's call keeps HoldersAgree: where 3-D Secure is required, the copy sent to
\* the gateway has its data.
LEMMA AuthCallHolds ==
  ASSUME HandlersAgree, MoneyAgrees, NEW h \in Requests, AuthCall(h)
  PROVE  HoldersAgree'
<1>0. PICK answer \in GatewayAnswer :
        /\ plainAuth' = IF answer.done /\ ~Current(h).threeDS THEN plainAuth \cup {Current(h).id} ELSE plainAuth
        /\ Receive(h, answer.code, "authSave")
  BY DEF AuthCall
<1>1. pc[h] = "authCall" /\ UNCHANGED <<session, documents, captured, refunded, page, history>>
  BY DEF AuthCall
<1>2. UNCHANGED <<session, tx, shopTx, captured, page, mails, confirmations>>
  BY <1>1 DEF documents, history
<1>3. answer.code \in Codes /\ "authSave" \in Places
  BY DEF GatewayAnswer, Places, Active
<1>4. PICK l \in Locals :
        /\ Moved(h, "authSave", l) /\ pc'[h] = "authSave" /\ loc'[h] = l
        /\ l.tx = loc[h].tx /\ l.shops = loc[h].shops
  BY <1>0, <1>3, Known, ReceiveFacts
<1>5. LedgerGrows
  BY <1>2 DEF LedgerGrows
<1>6. HolderInv(h)'
  BY <1>1, <1>4, <1>5, AuthLoopHolds
<1>7. OnlyThreeDS => Current(h).threeDS
  <2>1. Len(loc[h].results) + 1 \in 1..Len(loc[h].shops)
    BY <1>1, Known, LocalsType, AuthFacts
  <2>2. ThreeDSDataInv(pc[h], loc[h])
    BY Known DEF HolderInv
  <2> QED BY <1>1, <2>1, <2>2 DEF ThreeDSDataInv, Current
<1>8. LedgerInv'
  <2>1. CartShops' = CartShops /\ OnlyThreeDS' = OnlyThreeDS /\ (PaidFor => PaidFor')
    BY <1>2, <1>5, Known, SameCart, PaidStays
  <2>2. OnlyThreeDS => plainAuth' = {}
    BY <1>0, <1>7, Known DEF LedgerInv
  <2> QED BY <1>2, <2>1, <2>2, Known DEF LedgerInv, Exists
<1> QED BY <1>4, <1>5, <1>6, <1>8, HolderMoves

\* doAuthorization's status after the call, and the verdict, keep HoldersAgree.
LEMMA AuthSaveHolds ==
  ASSUME HandlersAgree, MoneyAgrees, NEW h \in Requests, AuthSave(h)
  PROVE  HoldersAgree'
<1> DEFINE code    == loc[h].answer
           status  == StatusOf(code, "AUTHORIZED", "AUTHORIZATION_REFUSED", "AUTHORIZATION_FAILED")
           results == Append(loc[h].results, status)
           locals  == [loc[h] EXCEPT !.results = results]
           last    == [locals EXCEPT !.status = Verdict(results), !.error = NoCode]
<1>1. /\ pc[h] = "authSave" /\ SaveShop(WithStatus(Current(h), status, code))
      /\ \/ Moved(h, "finish", last)
         \/ Moved(h, "authRequest", locals)
      /\ UNCHANGED <<session, tx, bank, history>>
  BY DEF AuthSave, ToFinish, Goto, Moved
<1>2. code \in Codes /\ status \in ShopTransactionStatus /\ status # "NONE"
  <2>1. code \in Codes
    BY Known, LocalsType
  <2> QED BY <2>1, StatusOfType DEF ShopTransactionStatus
<1> HIDE DEF results, status, code
<1>3. /\ locals.shops = loc[h].shops /\ locals.tx = loc[h].tx
      /\ last.shops = loc[h].shops /\ last.tx = loc[h].tx /\ last.status = Verdict(results)
  <2>1. locals.shops = loc[h].shops /\ locals.tx = loc[h].tx
    BY Known DEF Locals
  <2>2. last.shops = locals.shops /\ last.tx = locals.tx /\ last.status = Verdict(results)
    BY Known DEF Locals
  <2> QED BY <2>1, <2>2
<1>4. Verdict(results) # "COMPLETED"
  BY VerdictType
<1> HIDE DEF locals, last
<1>5. LedgerGrows
  BY <1>1, SameLedger
<1>6. CASE Moved(h, "finish", last)
  <2>1. pc'[h] = "finish" /\ loc'[h] = last
    BY <1>6, Known, MovedTo
  <2>2. CartCopiesInv(loc[h])' /\ (loc'[h].tx.status = "COMPLETED" => PaidFor')
    BY <1>3, <1>5, <2>1, SameCopies
  <2>3. HolderInv(h)'
    BY <1>3, <1>4, <2>1, <2>2 DEF HolderInv, PaidInv, ForOperatorInv, ThreeDSDataInv, EndedInv, Committed
  <2> QED BY <1>1, <1>2, <1>6, <2>3, AuthFacts, SaveCurrentHolds
<1>7. CASE Moved(h, "authRequest", locals)
  <2>1. pc'[h] = "authRequest" /\ loc'[h] = locals
    BY <1>7, Known, MovedTo
  <2>2. HolderInv(h)'
    BY <1>1, <1>3, <1>5, <2>1, AuthLoopHolds
  <2> QED BY <1>1, <1>2, <1>7, <2>2, AuthFacts, SaveCurrentHolds
<1> QED BY <1>1, <1>6, <1>7

-----------------------------------------------------------------------------
(* finishTransaction and finishPayment.                                    *)

\* finishTransaction's write keeps HoldersAgree: finishPayment gets an ended copy.
LEMMA FinishTransactionHolds ==
  ASSUME HandlersAgree, MoneyAgrees, NEW h \in Requests, FinishTransaction(h)
  PROVE  HoldersAgree'
<1> DEFINE new == [loc[h].tx EXCEPT !.status = loc[h].status, !.error = loc[h].error, !.endDate = TRUE]
           l   == [loc[h] EXCEPT !.tx = new]
<1>1. /\ pc[h] = "finish" /\ tx' = new
      /\ \/ End(h, "replied")
         \/ Goto(h, "finishPayment") /\ loc' = [loc EXCEPT ![h].tx = new]
      /\ UNCHANGED <<session, shopTx, bank, labels, mails, confirmations>>
  BY DEF FinishTransaction
<1>2. new.status = loc[h].status /\ new.endDate
  <2>1. loc[h].tx \in BOTransaction
    BY Known, LocalsType
  <2> QED BY <2>1 DEF BOTransaction
<1>3. loc[h].status = "COMPLETED" => PaidFor
  BY <1>1, Known DEF HolderInv, PaidInv
<1> HIDE DEF new
<1>4. l.tx = new /\ l.shops = loc[h].shops
  BY Known DEF Locals
<1>5. CASE End(h, "replied")
  <2>1. "replied" \in Final
    BY DEF Final
  <2> QED BY <1>1, <1>2, <1>3, <1>5, <2>1, EndHolds, TxHolds
<1>6. CASE Goto(h, "finishPayment") /\ loc' = [loc EXCEPT ![h].tx = new]
  <2>1. Moved(h, "finishPayment", l)
    <3>1. loc \in [Requests -> Locals]
      BY Known DEF TypeOK
    <3> QED BY <1>6, <3>1 DEF Goto, Moved
  <2> HIDE DEF l
  <2>2. pc'[h] = "finishPayment" /\ loc'[h] = l
    BY <2>1, Known, MovedTo
  <2>3. LedgerGrows /\ CartShops' = CartShops /\ (PaidFor => PaidFor')
    <3>1. LedgerGrows
      BY <1>1 DEF LedgerGrows, bank
    <3> QED BY <1>1, <3>1, Known, SameCart, PaidStays
  <2>4. CartCopiesInv(loc[h])'
    <3>1. CartCopiesInv(loc[h])
      BY Known DEF HolderInv
    <3> QED BY <1>4, <2>2, <2>3, <3>1 DEF CartCopiesInv
  <2>5. HolderInv(h)'
    BY <1>2, <1>3, <1>4, <2>2, <2>3, <2>4
       DEF HolderInv, PaidInv, ForOperatorInv, ThreeDSDataInv, EndedInv, Committed
  <2> QED BY <1>1, <1>2, <1>3, <2>1, <2>5, TxHolds
<1> QED BY <1>1, <1>5, <1>6

\* What a search for a shop finds is a document of the cart and of that shop.
LEMMA ShopFound ==
  ASSUME HandlersAgree, MoneyAgrees, NEW s, NEW doc \in FindByShopId(s)
  PROVE  doc \in BOShopTransaction /\ doc.id[2] \in CartShops /\ doc.id[2] = s
<1>1. PICK id \in ShopTxIds : doc = shopTx[id] /\ Exists(shopTx[id]) /\ id[2] = s
  BY DEF FindByShopId
<1>2. TypeOK /\ DocumentsInv /\ LedgerInv
  BY DEF HandlersAgree, MoneyAgrees, HoldersAgree
<1> QED BY <1>1, <1>2 DEF TypeOK, DocumentsInv, LedgerInv

\* finishPayment's test of the status keeps HoldersAgree: it takes the operator's shop only.
LEMMA FinishPaymentHolds ==
  ASSUME HandlersAgree, MoneyAgrees, NEW h \in Requests, FinishPayment(h)
  PROVE  HoldersAgree'
<1>1. pc[h] = "finishPayment" /\ UNCHANGED <<session, documents, bank, history>>
  BY DEF FinishPayment
<1>2. LedgerGrows /\ CartShops' = CartShops
  BY <1>1, SameLedger
<1>3. ASSUME NEW next \in {"ship", "mailOrder"}, NEW shops, Goto(h, next),
             \A i \in 1..Len(shops) : shops[i].id[2] \in CartShops /\ shops[i].id[2] = SHOP_MOGOBIZ,
             loc' = [loc EXCEPT ![h].shops = shops, ![h].results = <<>>]
      PROVE  HoldersAgree'
  <2> DEFINE l == [loc[h] EXCEPT !.shops = shops, !.results = <<>>]
  <2>1. l.tx = loc[h].tx /\ l.shops = shops
    BY Known DEF Locals
  <2>2. Moved(h, next, l)
    <3>1. loc \in [Requests -> Locals]
      BY Known DEF TypeOK
    <3> QED BY <1>3, <3>1 DEF Goto, Moved
  <2> HIDE DEF l
  <2>3. pc'[h] = next /\ loc'[h] = l
    BY <2>2, Known, MovedTo
  <2>4. CartCopiesInv(loc[h])'
    BY <1>2, <1>3, <2>1, <2>3 DEF CartCopiesInv
  <2>5. /\ loc'[h].tx.status = "COMPLETED" => PaidFor'
        /\ loc'[h].tx.endDate
    BY <1>1, <1>2, <2>1, <2>3, Known, PaidStays DEF HolderInv, PaidInv, EndedInv
  <2>6. HolderInv(h)'
    BY <1>3, <2>1, <2>3, <2>4, <2>5
       DEF HolderInv, PaidInv, ForOperatorInv, ThreeDSDataInv, EndedInv, Committed
  <2> QED BY <1>1, <2>2, <2>6, QuietHolds
<1>4. CASE End(h, "replied")
  <2>1. "replied" \in Final
    BY DEF Final
  <2> QED BY <1>1, <1>4, <2>1, EndHolds, QuietHolds
<1>5. \/ End(h, "replied")
      \/ \E next \in {"ship", "mailOrder"} :
           Goto(h, next) /\ loc' = [loc EXCEPT ![h].shops = <<>>, ![h].results = <<>>]
      \/ \E next \in {"ship", "mailOrder"}, doc \in FindByShopId(SHOP_MOGOBIZ) :
           Goto(h, next) /\ loc' = [loc EXCEPT ![h].shops = <<doc>>, ![h].results = <<>>]
  BY DEF FinishPayment
<1>6. ASSUME NEW next \in {"ship", "mailOrder"}, NEW doc \in FindByShopId(SHOP_MOGOBIZ), Goto(h, next),
             loc' = [loc EXCEPT ![h].shops = <<doc>>, ![h].results = <<>>]
      PROVE  HoldersAgree'
  <2>1. \A i \in 1..Len(<<doc>>) : <<doc>>[i].id[2] \in CartShops /\ <<doc>>[i].id[2] = SHOP_MOGOBIZ
    BY <1>6, ShopFound
  <2> QED BY <1>3, <1>6, <2>1
<1>7. ASSUME NEW next \in {"ship", "mailOrder"}, Goto(h, next),
             loc' = [loc EXCEPT ![h].shops = <<>>, ![h].results = <<>>]
      PROVE  HoldersAgree'
  <2> DEFINE none == <<>>
  <2>1. \A i \in 1..Len(none) : none[i].id[2] \in CartShops /\ none[i].id[2] = SHOP_MOGOBIZ
    OBVIOUS
  <2>2. loc' = [loc EXCEPT ![h].shops = none, ![h].results = <<>>]
    BY <1>7
  <2> HIDE DEF none
  <2> QED BY <1>3, <1>7, <2>1, <2>2
<1> QED BY <1>4, <1>5, <1>6, <1>7

\* A handler that stays in finishPayment, or in a marketplace order, with the same shop.
LEMMA CommittedHolds ==
  ASSUME HandlersAgree, MoneyAgrees, NEW h \in Requests, LedgerGrows,
         pc[h] \in Committed, pc'[h] \in Committed,
         loc'[h].shops = loc[h].shops,
         loc'[h].tx.status = loc[h].tx.status, loc'[h].tx.endDate = loc[h].tx.endDate,
         ByOrder(h, pc[h]) => ByOrder(h, pc[h])',
         pc'[h] = "complete" => PaidFor,
         pc'[h] = "captureSave" /\ loc'[h].answer = SUCCESS_CODE => captured'[loc[h].shops[1].id] > 0
  PROVE  HolderInv(h)'
<1>1. /\ CartCopiesInv(loc[h]) /\ PaidInv(pc[h], loc[h])
      /\ ForOperatorInv(h, pc[h], loc[h]) /\ EndedInv(h, pc[h], loc[h])
  BY Known DEF HolderInv
<1>2. CartShops' = CartShops /\ (PaidFor => PaidFor')
  BY Known, SameCart, PaidStays DEF LedgerGrows
<1>3. CartCopiesInv(loc[h])'
  BY <1>1, <1>2 DEF CartCopiesInv
<1>4. PaidInv(pc[h], loc[h])'
  BY <1>1, <1>2 DEF PaidInv, Committed
<1>5. ForOperatorInv(h, pc[h], loc[h])'
  BY <1>1 DEF ForOperatorInv
<1>6. ThreeDSDataInv(pc[h], loc[h])'
  BY DEF ThreeDSDataInv, Committed
<1>7. EndedInv(h, pc[h], loc[h])'
  BY <1>1 DEF EndedInv, Committed
<1> QED BY <1>3, <1>4, <1>5, <1>6, <1>7 DEF HolderInv

\* After shipping, finishPayment captures the operator's shop or replies.
LEMMA AfterShippingHolds ==
  ASSUME HandlersAgree, MoneyAgrees, NEW h \in Requests, pc[h] \in {"ship", "shipSave"}, LedgerGrows,
         AfterShipping(h)
  PROVE  \E p, l : Moved(h, p, l) /\ HolderInv(h)'
<1>1. CASE End(h, "replied")
  <2>1. "replied" \in Final
    BY DEF Final
  <2> QED BY <1>1, <2>1, EndHolds
<1>2. CASE Goto(h, "captureRequest") /\ UNCHANGED loc
  <2>1. "captureRequest" \in Places /\ "captureRequest" \in Committed /\ pc[h] \in Committed
        /\ ~ByOrder(h, pc[h])
    BY DEF Places, Active, Committed, ByOrder
  <2>2. Moved(h, "captureRequest", loc[h]) /\ pc'[h] = "captureRequest" /\ loc'[h] = loc[h]
    BY <1>2, <2>1, Known, StayFacts
  <2>3. HolderInv(h)'
    BY <2>1, <2>2, CommittedHolds
  <2> QED BY <2>2, <2>3
<1> QED BY <1>1, <1>2 DEF AfterShipping

\* confirmShippingPrice, with or without a label, keeps HoldersAgree.
LEMMA ConfirmShippingPriceHolds ==
  ASSUME HandlersAgree, MoneyAgrees, NEW h \in Requests, ConfirmShippingPrice(h)
  PROVE  HoldersAgree'
<1>1. pc[h] = "ship" /\ UNCHANGED <<session, documents, bank, mails, finishes, confirmations>>
  BY DEF ConfirmShippingPrice
<1>2. UNCHANGED <<session, tx, shopTx, plainAuth, captured, page, mails, confirmations>>
  BY <1>1 DEF documents, bank
<1>3. LedgerGrows
  BY <1>2 DEF LedgerGrows
<1>4. LedgerInv'
  BY <1>2, <1>3, Known, SameCart, PaidStays DEF LedgerInv, Exists
<1>5. pc[h] \in Committed /\ ~ByOrder(h, pc[h])
  BY <1>1 DEF Committed, ByOrder
<1>6. CASE AfterShipping(h)
  BY <1>1, <1>3, <1>4, <1>6, AfterShippingHolds, HolderMoves
<1>7. CASE loc' = [loc EXCEPT ![h].tx.confirm = TRUE] /\ Goto(h, "shipSave")
  <2> DEFINE t == [loc[h].tx EXCEPT !.confirm = TRUE]
             l == [loc[h] EXCEPT !.tx = t]
  <2>1. t.status = loc[h].tx.status /\ t.endDate = loc[h].tx.endDate
    <3>1. loc[h].tx \in BOTransaction
      BY Known, LocalsType
    <3> QED BY <3>1 DEF BOTransaction
  <2>2. l.tx = t /\ l.shops = loc[h].shops
    <3> HIDE DEF t
    <3> QED BY Known DEF Locals
  <2>3. Moved(h, "shipSave", l)
    <3>1. loc \in [Requests -> Locals]
      BY Known DEF TypeOK
    <3> QED BY <1>7, <3>1 DEF Goto, Moved
  <2> HIDE DEF l, t
  <2>4. pc'[h] = "shipSave" /\ loc'[h] = l /\ "shipSave" \in Committed
    BY <2>3, Known, MovedTo DEF Committed
  <2>5. HolderInv(h)'
    BY <1>3, <1>5, <2>1, <2>2, <2>4, CommittedHolds
  <2> QED BY <1>3, <1>4, <2>3, <2>5, HolderMoves
<1>8. CASE Goto(h, "shipError") /\ UNCHANGED loc
  <2>1. "shipError" \in Places /\ "shipError" \in Committed
    BY DEF Places, Active, Committed
  <2>2. Moved(h, "shipError", loc[h]) /\ pc'[h] = "shipError" /\ loc'[h] = loc[h]
    BY <1>8, <2>1, Known, StayFacts
  <2>3. HolderInv(h)'
    BY <1>3, <1>5, <2>1, <2>2, CommittedHolds
  <2> QED BY <1>3, <1>4, <2>2, <2>3, HolderMoves
<1> QED BY <1>6, <1>7, <1>8 DEF ConfirmShippingPrice

\* The write of the shipping data keeps HoldersAgree.
LEMMA SaveShippingHolds ==
  ASSUME HandlersAgree, MoneyAgrees, NEW h \in Requests, SaveShipping(h)
  PROVE  HoldersAgree'
<1>1. /\ pc[h] = "shipSave" /\ tx' = loc[h].tx /\ AfterShipping(h)
      /\ UNCHANGED <<session, shopTx, bank, history>>
  BY DEF SaveShipping
<1>2. LedgerGrows /\ UNCHANGED <<session, shopTx, bank, mails, confirmations>>
  BY <1>1, SameLedger
<1>3. tx'.status = "COMPLETED" => PaidFor
  BY <1>1, Known DEF HolderInv, PaidInv
<1> QED BY <1>1, <1>2, <1>3, AfterShippingHolds, TxHolds

\* Each last write of finishPayment keeps HoldersAgree.
LEMMA LastUpdateHolds ==
  ASSUME HandlersAgree, MoneyAgrees, NEW h \in Requests, ShippingFailed(h) \/ Complete(h) \/ RefundEnd(h)
  PROVE  HoldersAgree'
<1>1. PICK status, error : /\ EndWith(h, status, error)
                           /\ status = "COMPLETED" => pc[h] = "complete"
  BY DEF ShippingFailed, Complete, RefundEnd
<1>2. UNCHANGED <<session, shopTx, bank, history>>
  BY DEF ShippingFailed, Complete, RefundEnd
<1>3. status = "COMPLETED" => PaidFor
  BY <1>1, Known DEF HolderInv, PaidInv
<1> DEFINE new == [loc[h].tx EXCEPT !.status = status, !.error = error]
           l   == [loc[h] EXCEPT !.tx = new]
<1>4. new.status = status
  <2>1. loc[h].tx \in BOTransaction
    BY Known, LocalsType
  <2> QED BY <2>1 DEF BOTransaction
<1>5. /\ tx' = new
      /\ \/ End(h, "replied")
         \/ Goto(h, "mailOrder") /\ loc' = [loc EXCEPT ![h].tx = new]
  BY <1>1 DEF EndWith
<1> HIDE DEF new
<1>6. LedgerGrows /\ UNCHANGED <<session, shopTx, bank, mails, confirmations>> /\ CartShops' = CartShops
      /\ (PaidFor' <=> PaidFor)
  BY <1>2, SameLedger
<1>7. CASE End(h, "replied")
  <2>1. "replied" \in Final
    BY DEF Final
  <2> QED BY <1>3, <1>4, <1>5, <1>6, <1>7, <2>1, EndHolds, TxHolds
<1>8. CASE Goto(h, "mailOrder") /\ loc' = [loc EXCEPT ![h].tx = new]
  <2>1. l.tx = new /\ l.shops = loc[h].shops
    BY Known DEF Locals
  <2>2. Moved(h, "mailOrder", l)
    <3>1. loc \in [Requests -> Locals]
      BY Known DEF TypeOK
    <3> QED BY <1>8, <3>1 DEF Goto, Moved
  <2> HIDE DEF l
  <2>3. pc'[h] = "mailOrder" /\ loc'[h] = l /\ "mailOrder" \in Plain
    BY <2>2, Known, MovedTo DEF Plain
  <2>4. CartCopiesInv(loc[h])'
    <3>1. CartCopiesInv(loc[h])
      BY Known DEF HolderInv
    <3> QED BY <1>6, <2>1, <2>3, <3>1 DEF CartCopiesInv
  <2>5. HolderInv(h)'
    BY <1>3, <1>4, <1>6, <2>1, <2>3, <2>4, AtPlain
  <2> QED BY <1>3, <1>4, <1>5, <1>6, <2>2, <2>5, TxHolds
<1> QED BY <1>5, <1>7, <1>8

-----------------------------------------------------------------------------
(* validatePayment and refundPayment.                                      *)

\* The status before the call of a capture or a refund keeps HoldersAgree.
LEMMA OrderRequestHolds ==
  ASSUME HandlersAgree, MoneyAgrees, NEW h \in Requests, CaptureRequest(h) \/ RefundRequest(h)
  PROVE  HoldersAgree'
<1>1. PICK p, status :
        /\ \/ pc[h] = "captureRequest" /\ p = "captureCall"
           \/ pc[h] = "refundRequest" /\ p = "refundCall"
        /\ status \in {"VALIDATION_REQUESTED", "REFUND_REQUESTED"}
        /\ SaveShop(WithStatus(Current(h), status, NoCode))
        /\ Goto(h, p) /\ loc' = loc /\ UNCHANGED <<session, tx, bank, history>>
  BY DEF CaptureRequest, RefundRequest
<1>2. /\ status \in ShopTransactionStatus /\ status # "NONE" /\ NoCode \in Codes /\ p \in Places
      /\ pc[h] \in Committed /\ pc[h] \in Ordered /\ p \in Committed /\ p \notin {"complete", "captureSave"}
  BY <1>1 DEF ShopTransactionStatus, Codes, Places, Active, Committed, Ordered
<1>3. Moved(h, p, loc[h]) /\ pc'[h] = p /\ loc'[h] = loc[h]
  BY <1>1, <1>2, Known, StayFacts
<1>4. LedgerGrows /\ confirmations' = confirmations
  BY <1>1, SameLedger
<1>5. ByOrder(h, pc[h]) => ByOrder(h, pc[h])'
  BY <1>1, <1>3, <1>4 DEF ByOrder
<1>6. HolderInv(h)'
  BY <1>2, <1>3, <1>4, <1>5, CommittedHolds
<1> QED BY <1>1, <1>2, <1>3, <1>6, CommittedFacts, SaveCurrentHolds

\* The call of a capture or a refund keeps HoldersAgree: a success code means it was done.
LEMMA OrderCallHolds ==
  ASSUME HandlersAgree, MoneyAgrees, NEW h \in Requests, CaptureCall(h) \/ RefundCall(h)
  PROVE  HoldersAgree'
<1>1. PICK answer, p :
        /\ answer \in GatewayAnswer
        /\ Receive(h, answer.code, p)
        /\ \/ /\ pc[h] = "captureCall" /\ p = "captureSave"
              /\ captured' = [captured EXCEPT ![Current(h).id] = IF answer.done THEN @ + 1 ELSE @]
           \/ /\ pc[h] = "refundCall" /\ p = "refundSave"
              /\ captured' = captured
  BY DEF CaptureCall, RefundCall
<1>2. UNCHANGED <<session, tx, shopTx, plainAuth, page, mails, confirmations>>
  BY DEF CaptureCall, RefundCall, documents, history
<1>3. answer.code \in Codes /\ (answer.code = SUCCESS_CODE => answer.done)
  BY <1>1 DEF GatewayAnswer
<1>4. /\ p \in Places /\ pc[h] \in Committed /\ pc[h] \in Ordered
      /\ p \in Committed /\ p # "complete"
  BY <1>1 DEF Places, Active, Committed, Ordered
<1>5. Current(h) = loc[h].shops[1] /\ Current(h).id \in ShopTxIds
  BY <1>4, CommittedFacts, OneShop
<1>6. PICK l \in Locals :
        /\ Moved(h, p, l) /\ pc'[h] = p /\ loc'[h] = l
        /\ l.tx = loc[h].tx /\ l.shops = loc[h].shops /\ l.answer = answer.code
  BY <1>1, <1>3, <1>4, Known, ReceiveFacts
<1>7. /\ \A id \in ShopTxIds : captured[id] > 0 => captured'[id] > 0
      /\ p = "captureSave" /\ answer.code = SUCCESS_CODE => captured'[loc[h].shops[1].id] > 0
  <2>1. captured \in [ShopTxIds -> Nat]
    BY Known DEF TypeOK
  <2> QED BY <1>1, <1>3, <1>5, <2>1
<1>8. LedgerGrows
  BY <1>2, <1>7 DEF LedgerGrows
<1>9. LedgerInv'
  BY <1>2, <1>8, Known, SameCart, PaidStays DEF LedgerInv, Exists
<1>10. ByOrder(h, pc[h]) => ByOrder(h, pc[h])'
  BY <1>1, <1>2, <1>6 DEF ByOrder
<1>11. HolderInv(h)'
  BY <1>4, <1>6, <1>7, <1>8, <1>10, CommittedHolds
<1> QED BY <1>6, <1>8, <1>9, <1>11, HolderMoves

\* finishPayment's successful capture has paid the operator's shop.
LEMMA CapturedIsPaid ==
  ASSUME HandlersAgree, MoneyAgrees, NEW h \in Requests, pc[h] = "captureSave",
         loc[h].answer = SUCCESS_CODE, h \notin DebitReqs
  PROVE  PaidFor
<1>1. pc[h] \in Committed /\ pc[h] \in Ordered /\ ~ByOrder(h, pc[h])
  BY DEF Committed, Ordered, ByOrder
<1>2. Len(loc[h].shops) = 1
  BY <1>1, CommittedFacts
<1>3. loc[h].shops[1].id[2] = SHOP_MOGOBIZ /\ captured[loc[h].shops[1].id] > 0
  BY <1>1, <1>2, Known DEF HolderInv, ForOperatorInv, PaidInv
<1>4. loc[h].shops[1].id \in StartReqs \X Shops
  BY <1>2, Known DEF ShopTxIds
<1>5. PICK r \in StartReqs : loc[h].shops[1].id = <<r, SHOP_MOGOBIZ>>
  BY <1>3, <1>4
<1> QED BY <1>3, <1>5 DEF PaidFor, Paid

\* The status after a capture or a refund keeps HoldersAgree.
LEMMA OrderSaveHolds ==
  ASSUME HandlersAgree, MoneyAgrees, NEW h \in Requests, CaptureSave(h) \/ RefundSave(h)
  PROVE  HoldersAgree'
<1>1. PICK status, p :
        /\ status \in {"VALIDATED", "VALIDATION_REFUSED", "VALIDATION_FAILED",
                       "REFUNDED", "REFUND_REFUSED", "REFUND_FAILED"}
        /\ SaveShop(WithStatus(Current(h), status, loc[h].answer))
        /\ \/ End(h, "replied")
           \/ Goto(h, p) /\ loc' = loc
        /\ \/ pc[h] = "captureSave" /\ p = "refundRequest" /\ (h \in DebitReqs => End(h, "replied"))
           \/ pc[h] = "captureSave" /\ p = "complete" /\ loc[h].answer = SUCCESS_CODE
              /\ (h \in DebitReqs => End(h, "replied"))
           \/ pc[h] = "refundSave" /\ p = "refundEnd" /\ (h \in RefundReqs => End(h, "replied"))
        /\ UNCHANGED <<session, tx, bank, history>>
  <2>0. loc[h].answer \in Codes
    BY Known, LocalsType
  <2>1. StatusOf(loc[h].answer, "VALIDATED", "VALIDATION_REFUSED", "VALIDATION_FAILED")
          \in {"VALIDATED", "VALIDATION_REFUSED", "VALIDATION_FAILED"}
    BY <2>0, StatusOfType
  <2>2. StatusOf(loc[h].answer, "REFUNDED", "REFUND_REFUSED", "REFUND_FAILED")
          \in {"REFUNDED", "REFUND_REFUSED", "REFUND_FAILED"}
    BY <2>0, StatusOfType
  <2> QED BY <2>1, <2>2 DEF CaptureSave, RefundSave
<1>2. /\ status \in ShopTransactionStatus /\ status # "NONE" /\ p \in Places
      /\ pc[h] \in Committed /\ pc[h] \in Ordered /\ p \in Committed /\ p # "captureSave"
  BY <1>1 DEF ShopTransactionStatus, Places, Active, Committed, Ordered
<1>3. loc[h].answer \in Codes
  BY Known, LocalsType
<1>4. LedgerGrows /\ confirmations' = confirmations
  BY <1>1, SameLedger
<1>5. CASE End(h, "replied")
  <2>1. "replied" \in Final
    BY DEF Final
  <2>2. Moved(h, "replied", NoLocals) /\ HolderInv(h)'
    BY <1>5, <2>1, EndHolds
  <2> QED BY <1>1, <1>2, <1>3, <2>2, CommittedFacts, SaveCurrentHolds
<1>6. CASE Goto(h, p) /\ loc' = loc /\ ~End(h, "replied")
  <2>1. Moved(h, p, loc[h]) /\ pc'[h] = p /\ loc'[h] = loc[h]
    BY <1>2, <1>6, Known, StayFacts
  <2>2. ~ByOrder(h, pc[h])
    BY <1>1, <1>6 DEF ByOrder
  <2>3. p = "complete" => PaidFor
    BY <1>1, <1>6, CapturedIsPaid
  <2>4. HolderInv(h)'
    BY <1>2, <1>4, <2>1, <2>2, <2>3, CommittedHolds
  <2> QED BY <1>1, <1>2, <1>3, <2>1, <2>4, CommittedFacts, SaveCurrentHolds
<1> QED BY <1>1, <1>5, <1>6

-----------------------------------------------------------------------------
(* Mails, verify and the marketplace's orders.                             *)

\* The mails keep HoldersAgree: only a completed copy is billed.
LEMMA MailHolds ==
  ASSUME HandlersAgree, MoneyAgrees, NEW h \in Requests, MailOrder(h) \/ MailBill(h)
  PROVE  HoldersAgree'
<1>1. PICK kinds, p :
        /\ Mail(h, kinds, p)
        /\ p \in {"mailBill", "replied"}
        /\ p = "mailBill" => loc[h].tx.status = "COMPLETED"
        /\ "mail-bill" \in kinds => pc[h] = "mailBill"
  BY DEF MailOrder, MailBill
<1>2. UNCHANGED <<session, tx, shopTx, plainAuth, captured, page, confirmations>>
  BY DEF MailOrder, MailBill, documents, bank
<1>3. LedgerGrows
  BY <1>2 DEF LedgerGrows
<1>4. (loc[h].tx.status = "COMPLETED" => PaidFor) /\ (pc[h] = "mailBill" => PaidFor)
  BY Known DEF HolderInv, PaidInv
<1>5. "mail-bill" \in mails' => PaidFor
  BY <1>1, <1>4, Known DEF Mail, LedgerInv
<1>6. LedgerInv'
  BY <1>2, <1>3, <1>5, Known, SameCart, PaidStays DEF LedgerInv, Exists
<1>7. CASE End(h, "replied")
  <2>1. "replied" \in Final
    BY DEF Final
  <2> QED BY <1>3, <1>6, <1>7, <2>1, EndHolds, HolderMoves
<1>8. CASE p = "mailBill" /\ Goto(h, p) /\ loc' = loc
  <2>1. p \in Places
    BY <1>8 DEF Places, Active
  <2>2. Moved(h, p, loc[h]) /\ pc'[h] = p /\ loc'[h] = loc[h]
    BY <1>8, <2>1, Known, StayFacts
  <2>3. CartCopiesInv(loc[h])' /\ (loc'[h].tx.status = "COMPLETED" => PaidFor')
    BY <1>3, <2>2, SameCopies
  <2>4. HolderInv(h)'
    BY <1>1, <1>8, <2>2, <2>3
       DEF HolderInv, PaidInv, ForOperatorInv, ThreeDSDataInv, EndedInv, Committed
  <2> QED BY <1>3, <1>6, <2>2, <2>4, HolderMoves
<1> QED BY <1>1, <1>7, <1>8 DEF Mail

\* verify's copy of an ended transaction keeps HoldersAgree.
LEMMA VerifyReadHolds ==
  ASSUME HandlersAgree, MoneyAgrees, NEW h \in Requests, VerifyRead(h)
  PROVE  HoldersAgree'
<1>1. pc[h] = "idle" /\ UNCHANGED <<session, documents, bank, history>>
  BY DEF VerifyRead
<1>2. CASE End(h, "replied")
  <2>1. "replied" \in Final
    BY DEF Final
  <2> QED BY <1>1, <1>2, <2>1, EndHolds, QuietHolds
<1>3. CASE tx.endDate /\ loc' = [loc EXCEPT ![h].tx = tx] /\ Goto(h, "verifyShop")
  <2> DEFINE l == [loc[h] EXCEPT !.tx = tx]
  <2>1. l.tx = tx /\ l.shops = loc[h].shops
    BY Known DEF Locals
  <2>2. Moved(h, "verifyShop", l)
    <3>1. loc \in [Requests -> Locals]
      BY Known DEF TypeOK
    <3> QED BY <1>3, <3>1 DEF Goto, Moved
  <2> HIDE DEF l
  <2>3. pc'[h] = "verifyShop" /\ loc'[h] = l
    BY <2>2, Known, MovedTo
  <2>4. CartShops' = CartShops /\ (PaidFor' <=> PaidFor) /\ CartCopiesInv(loc[h])
    BY <1>1, Known, SameLedger DEF HolderInv
  <2>5. CartCopiesInv(loc[h])'
    BY <2>1, <2>3, <2>4 DEF CartCopiesInv
  <2>6. tx.status = "COMPLETED" => PaidFor
    BY Known DEF LedgerInv
  <2>7. HolderInv(h)'
    BY <1>3, <2>1, <2>3, <2>4, <2>5, <2>6
       DEF HolderInv, PaidInv, ForOperatorInv, ThreeDSDataInv, EndedInv, Committed
  <2> QED BY <1>1, <2>2, <2>7, QuietHolds
<1> QED BY <1>2, <1>3 DEF VerifyRead

\* verify's search for the operator's shop keeps HoldersAgree.
LEMMA VerifyShopHolds ==
  ASSUME HandlersAgree, MoneyAgrees, NEW h \in Requests, VerifyShop(h)
  PROVE  HoldersAgree'
<1>1. pc[h] = "verifyShop" /\ UNCHANGED <<session, documents, bank, history>>
  BY DEF VerifyShop
<1>2. CASE End(h, "replied")
  <2>1. "replied" \in Final
    BY DEF Final
  <2> QED BY <1>1, <1>2, <2>1, EndHolds, QuietHolds
<1>3. ASSUME NEW expected, Goto(h, "verifyWrite"), loc' = [loc EXCEPT ![h].status = expected]
      PROVE  HoldersAgree'
  <2> DEFINE l == [loc[h] EXCEPT !.status = expected]
  <2>1. l.tx = loc[h].tx /\ l.shops = loc[h].shops
    BY Known DEF Locals
  <2>2. Moved(h, "verifyWrite", l)
    <3>1. loc \in [Requests -> Locals]
      BY Known DEF TypeOK
    <3> QED BY <1>3, <3>1 DEF Goto, Moved
  <2> HIDE DEF l
  <2>3. pc'[h] = "verifyWrite" /\ loc'[h] = l
    BY <2>2, Known, MovedTo
  <2>4. CartCopiesInv(loc[h])' /\ (loc'[h].tx.status = "COMPLETED" => PaidFor')
    BY <1>1, <2>1, <2>3, SameLedger, SameCopies
  <2>5. loc[h].tx.endDate
    BY <1>1, Known DEF HolderInv, EndedInv
  <2>6. HolderInv(h)'
    BY <2>1, <2>3, <2>4, <2>5
       DEF HolderInv, PaidInv, ForOperatorInv, ThreeDSDataInv, EndedInv, Committed
  <2> QED BY <1>1, <2>2, <2>6, QuietHolds
<1> QED BY <1>2, <1>3 DEF VerifyShop

\* verify's write and answer keeps HoldersAgree.
LEMMA VerifyWriteHolds ==
  ASSUME HandlersAgree, MoneyAgrees, NEW h \in Requests, VerifyWrite(h)
  PROVE  HoldersAgree'
<1> DEFINE new == [loc[h].tx EXCEPT !.merchantConfirmation = TRUE]
<1>1. /\ tx' = new /\ End(h, "replied")
      /\ confirmations' = IF loc[h].tx.status = loc[h].status THEN confirmations + 1 ELSE confirmations
      /\ UNCHANGED <<session, shopTx, bank, mails>>
  BY DEF VerifyWrite
<1>2. new.status = loc[h].tx.status
  <2>1. loc[h].tx \in BOTransaction
    BY Known, LocalsType
  <2> QED BY <2>1 DEF BOTransaction
<1> HIDE DEF new
<1>3. confirmations > 0 => confirmations' > 0
  BY <1>1, Known DEF TypeOK
<1>4. tx'.status = "COMPLETED" => PaidFor
  BY <1>1, <1>2, Known DEF HolderInv, PaidInv
<1>5. "replied" \in Final
  BY DEF Final
<1> QED BY <1>1, <1>3, <1>4, <1>5, EndHolds, TxHolds

\* A marketplace debit or refund keeps HoldersAgree: the merchant was told.
LEMMA MiraklReadHolds ==
  ASSUME HandlersAgree, MoneyAgrees, NEW h \in Requests,
         (h \in DebitReqs /\ DebitCustomer(h)) \/ (h \in RefundReqs /\ RefundCustomer(h))
  PROVE  HoldersAgree'
<1>1. PICK p : /\ MiraklRead(h, p)
               /\ (h \in DebitReqs /\ p = "captureRequest") \/ (h \in RefundReqs /\ p = "refundRequest")
  BY DEF DebitCustomer, RefundCustomer
<1>2. /\ pc[h] = "idle" /\ confirmations > 0 /\ Goto(h, p)
      /\ UNCHANGED <<session, documents, bank, history>>
  BY <1>1 DEF MiraklRead
<1>3. PICK s, doc : doc \in FindByShopId(s) /\ loc' = [loc EXCEPT ![h].shops = <<doc>>]
  BY <1>1 DEF MiraklRead
<1> DEFINE l == [loc[h] EXCEPT !.shops = <<doc>>]
<1>4. l.tx = loc[h].tx /\ l.shops = <<doc>>
  BY Known DEF Locals
<1>5. Moved(h, p, l)
  <2>1. loc \in [Requests -> Locals]
    BY Known DEF TypeOK
  <2> QED BY <1>2, <1>3, <2>1 DEF Goto, Moved
<1> HIDE DEF l
<1>6. pc'[h] = p /\ loc'[h] = l
  BY <1>5, Known, MovedTo
<1>7. CartShops' = CartShops /\ (PaidFor' <=> PaidFor) /\ confirmations' = confirmations
  BY <1>2, SameLedger
<1>8. CartCopiesInv(loc[h])'
  <2>1. Len(l.shops) = 1 /\ l.shops[1].id[2] \in CartShops
    BY <1>3, <1>4, ShopFound
  <2> QED BY <1>6, <1>7, <2>1 DEF CartCopiesInv
<1>9. loc[h].tx.status = "COMPLETED" => PaidFor
  BY Known DEF HolderInv, PaidInv
<1>10. ByOrder(h, pc[h])'
  BY <1>1, <1>2, <1>6, <1>7 DEF ByOrder
<1>11. HolderInv(h)'
  BY <1>1, <1>4, <1>6, <1>7, <1>8, <1>9, <1>10
     DEF HolderInv, PaidInv, ForOperatorInv, ThreeDSDataInv, EndedInv
<1> QED BY <1>2, <1>5, <1>11, QuietHolds

-----------------------------------------------------------------------------
(* Where the steps lead.                                                   *)

BeforePage == {"idle", "createShops", "webRequest", "webAnswer"}

\* A step takes its handler on, and not back to where the page is not open yet.
Onward(h) == \E p : /\ Goto(h, p) /\ p # "idle"
                    /\ p \in BeforePage => pc[h] \in BeforePage

\* startPayment up to the page.
LEMMA StartSteps ==
  ASSUME NEW h, CreateShopTransaction(h) \/ WebRequest(h) \/ WebAnswer(h)
  PROVE  Onward(h) /\ pc[h] # "idle"
<1>1. pc[h] \in BeforePage /\ pc[h] # "idle"
  BY DEF CreateShopTransaction, WebRequest, WebAnswer, BeforePage
<1>2. \E p : Goto(h, p) /\ p # "idle"
  <2>1. CASE CreateShopTransaction(h)
    <3>1. AfterCreation # "idle"
      BY DEF AfterCreation
    <3> QED BY <2>1, <3>1 DEF CreateShopTransaction
  <2>2. CASE WebRequest(h)
    BY <2>2 DEF WebRequest
  <2>3. CASE WebAnswer(h)
    <3>1. Goto(h, "redirect") \/ Goto(h, "finish")
      BY <2>3 DEF WebAnswer, End, ToFinish
    <3> QED BY <3>1
  <2> QED BY <2>1, <2>2, <2>3
<1> QED BY <1>1, <1>2 DEF Onward

\* The rest of startPayment, and what follows a return of the payer.
LEMMA AuthorizationSteps ==
  ASSUME NEW h,
         \/ ReturnRead(h) \/ DetailsRequest(h) \/ DetailsCall(h) \/ DetailsSave(h)
         \/ EnrollRequest(h) \/ EnrollCall(h) \/ EnrollSave(h) \/ Enrolled(h)
         \/ ThreeDSShops(h) \/ AuthRequest(h) \/ AuthCall(h) \/ AuthSave(h)
  PROVE  Onward(h) /\ pc[h] # "idle" /\ page' = page
<1>1. pc[h] # "idle"
  BY DEF ReturnRead, DetailsRequest, DetailsCall, DetailsSave, EnrollRequest, EnrollCall,
         EnrollSave, Enrolled, ThreeDSShops, AuthRequest, AuthCall, AuthSave
<1>2. page' = page
  BY DEF ReturnRead, DetailsRequest, DetailsCall, DetailsSave, EnrollRequest, EnrollCall,
         EnrollSave, Enrolled, ThreeDSShops, AuthRequest, AuthCall, AuthSave, bank
<1>3. \E p : Goto(h, p) /\ p \notin BeforePage
  BY DEF ReturnRead, DetailsRequest, DetailsCall, DetailsSave, EnrollRequest, EnrollCall,
         EnrollSave, Enrolled, ThreeDSShops, AuthRequest, AuthCall, AuthSave, Receive, ToFinish, End, BeforePage
<1> QED BY <1>1, <1>2, <1>3 DEF Onward, BeforePage

\* finishTransaction, finishPayment, the orders and verify.
LEMMA FinishSteps ==
  ASSUME NEW h,
         \/ FinishTransaction(h) \/ FinishPayment(h) \/ ConfirmShippingPrice(h) \/ SaveShipping(h)
         \/ ShippingFailed(h) \/ CaptureRequest(h) \/ CaptureCall(h) \/ CaptureSave(h) \/ Complete(h)
         \/ RefundRequest(h) \/ RefundCall(h) \/ RefundSave(h) \/ RefundEnd(h)
         \/ MailOrder(h) \/ MailBill(h) \/ VerifyShop(h) \/ VerifyWrite(h)
  PROVE  Onward(h) /\ pc[h] # "idle" /\ page' = page
<1>1. pc[h] # "idle"
  BY DEF FinishTransaction, FinishPayment, ConfirmShippingPrice, SaveShipping, ShippingFailed,
         CaptureRequest, CaptureCall, CaptureSave, Complete, RefundRequest, RefundCall, RefundSave,
         RefundEnd, MailOrder, MailBill, VerifyShop, VerifyWrite
<1>2. page' = page
  BY DEF FinishTransaction, FinishPayment, ConfirmShippingPrice, SaveShipping, ShippingFailed,
         CaptureRequest, CaptureCall, CaptureSave, Complete, RefundRequest, RefundCall, RefundSave,
         RefundEnd, MailOrder, MailBill, VerifyShop, VerifyWrite, bank
<1>3. \E p : Goto(h, p) /\ p \notin BeforePage
  <2>1. CASE FinishTransaction(h) \/ FinishPayment(h) \/ ConfirmShippingPrice(h) \/ SaveShipping(h)
    <3>1. \/ Goto(h, "replied") \/ Goto(h, "finishPayment") \/ Goto(h, "ship") \/ Goto(h, "mailOrder")
          \/ Goto(h, "captureRequest") \/ Goto(h, "shipSave") \/ Goto(h, "shipError")
      BY <2>1 DEF FinishTransaction, FinishPayment, ConfirmShippingPrice, SaveShipping, AfterShipping, End
    <3> QED BY <3>1 DEF BeforePage
  <2>2. CASE ShippingFailed(h) \/ Complete(h) \/ RefundEnd(h)
    BY <2>2 DEF ShippingFailed, Complete, RefundEnd, EndWith, End, BeforePage
  <2>3. CASE \/ CaptureRequest(h) \/ CaptureCall(h) \/ CaptureSave(h)
             \/ RefundRequest(h) \/ RefundCall(h) \/ RefundSave(h)
    BY <2>3 DEF CaptureRequest, CaptureCall, CaptureSave, RefundRequest, RefundCall, RefundSave,
                Receive, End, BeforePage
  <2>4. CASE MailOrder(h) \/ MailBill(h) \/ VerifyShop(h) \/ VerifyWrite(h)
    BY <2>4 DEF MailOrder, MailBill, Mail, VerifyShop, VerifyWrite, End, BeforePage
  <2> QED BY <2>1, <2>2, <2>3, <2>4
<1> QED BY <1>1, <1>2, <1>3 DEF Onward, BeforePage

\* Each arriving request is taken from idle to its first step.
LEMMA ArriveSteps ==
  ASSUME NEW h,
         \/ StartPayment(h) \/ ReturnShop(h) \/ ThreeDSRead(h) \/ VerifyRead(h)
         \/ DebitCustomer(h) \/ RefundCustomer(h)
  PROVE  Onward(h) /\ page' = page
<1>1. page' = page
  BY DEF StartPayment, ReturnShop, ThreeDSRead, VerifyRead, DebitCustomer, RefundCustomer, MiraklRead, bank
<1>2. pc[h] = "idle"
  BY DEF StartPayment, ReturnShop, ThreeDSRead, VerifyRead, DebitCustomer, RefundCustomer, MiraklRead
<1>3. \E p : Goto(h, p) /\ p # "idle"
  <2>1. CASE StartPayment(h)
    <3>1. Goto(h, "finish") \/ Goto(h, "createShops")
      BY <2>1 DEF StartPayment, ToFinish
    <3> QED BY <3>1
  <2>2. CASE ReturnShop(h)
    BY <2>2 DEF ReturnShop
  <2>3. CASE ThreeDSRead(h)
    <3>1. Goto(h, "finish") \/ Goto(h, "threeDSShops")
      BY <2>3 DEF ThreeDSRead, ToFinish
    <3> QED BY <3>1
  <2>4. CASE VerifyRead(h)
    BY <2>4 DEF VerifyRead, End
  <2>5. CASE DebitCustomer(h) \/ RefundCustomer(h)
    BY <2>5 DEF DebitCustomer, RefundCustomer, MiraklRead
  <2> QED BY <2>1, <2>2, <2>3, <2>4, <2>5
<1> QED BY <1>1, <1>2, <1>3 DEF Onward, BeforePage

\* So is every running handler.
LEMMA RunningSteps ==
  ASSUME NEW h, Step(h) \/ Abort(h)
  PROVE  Onward(h) /\ pc[h] # "idle" /\ (page' = page \/ WebAnswer(h))
<1>1. CASE CreateShopTransaction(h) \/ WebRequest(h)
  <2>1. page' = page
    BY <1>1 DEF CreateShopTransaction, WebRequest, bank
  <2> QED BY <1>1, <2>1, StartSteps
<1>2. CASE Abort(h)
  <2>1. Goto(h, "failed") /\ page' = page /\ pc[h] \in Active
    BY <1>2 DEF Abort, End, bank
  <2> QED BY <2>1 DEF Onward, BeforePage, Active
<1> QED BY <1>1, <1>2, StartSteps, AuthorizationSteps, FinishSteps DEF Step

\* A step that opens no page keeps PagesInv.
LEMMA OnwardKeepsPages ==
  ASSUME TypeOK, PagesInv, NEW h, Onward(h), page' = page
  PROVE  PagesInv'
<1>1. PICK p : pc' = [pc EXCEPT ![h] = p] /\ (p \in BeforePage => pc[h] \in BeforePage)
  BY DEF Onward, Goto
<1>2. ASSUME NEW g \in StartReqs, pc'[g] \in BeforePage PROVE pc[g] \in BeforePage
  BY <1>1, <1>2 DEF TypeOK, Requests
<1> QED BY <1>2 DEF PagesInv, BeforePage

\* doWebPayment opens the page of its own request, which then has its answer.
LEMMA WebAnswerKeepsPages ==
  ASSUME HandlersAgree, MoneyAgrees, NEW h \in Requests, WebAnswer(h)
  PROVE  PagesInv'
<1>1. pc[h] = "webAnswer"
  BY DEF WebAnswer
<1>2. h \in StartReqs /\ Current(h).id[1] = h
  BY <1>1, WebPageIsNew
<1>3. CASE page' = page
  BY <1>3, Known, StartSteps, OnwardKeepsPages DEF MoneyAgrees
<1>4. CASE page' = [page EXCEPT ![Current(h).id] = "open"] /\ Goto(h, "redirect")
  <2>1. TypeOK /\ PagesInv
    BY Known DEF MoneyAgrees
  <2>2. pc'[h] = "redirect" /\ \A g \in StartReqs \ {h} : pc'[g] = pc[g]
    BY <1>2, <1>4, <2>1 DEF Goto, TypeOK, Requests
  <2>3. \A g \in StartReqs \ {h}, s \in Shops : page'[<<g, s>>] = page[<<g, s>>]
    <3>1. \A g \in StartReqs \ {h}, s \in Shops : <<g, s>> \in ShopTxIds /\ <<g, s>> # Current(h).id
      BY <1>2 DEF ShopTxIds
    <3> QED BY <1>4, <2>1, <3>1 DEF TypeOK
  <2> QED BY <2>1, <2>2, <2>3 DEF PagesInv
<1> QED BY <1>3, <1>4 DEF WebAnswer, End

\* The payer decides on open pages only.
LEMMA PayerKeepsPages ==
  ASSUME TypeOK, PagesInv, NEW id \in ShopTxIds, PayerDecides(id)
  PROVE  PagesInv'
<1>1. /\ page[id] = "open" /\ pc' = pc
      /\ page' = [page EXCEPT ![id] = "paid"] \/ page' = [page EXCEPT ![id] = "refused"]
  BY DEF PayerDecides
<1>2. \A g \in StartReqs, s \in Shops : <<g, s>> \in ShopTxIds
  BY DEF ShopTxIds
<1> QED BY <1>1, <1>2 DEF PagesInv, TypeOK

-----------------------------------------------------------------------------
(* The invariant and what follows from it.                                 *)

\* The states before the first request satisfy MoneyAgrees.
LEMMA InitMoney == Init => MoneyAgrees
<1> SUFFICES ASSUME Init PROVE MoneyAgrees
  OBVIOUS
<1>1. PagesInv
  BY DEF Init, PagesInv, ShopTxIds
<1>2. LedgerInv
  <2>1. NoTx.status = "NONE" /\ \A id \in ShopTxIds : NoShopTx(id).status = "NONE"
    BY DEF NoTx, NoShopTx
  <2> QED BY <2>1 DEF Init, LedgerInv, Exists
<1>3. ASSUME NEW h \in Requests PROVE HolderInv(h)
  <2>1. pc[h] = "idle" /\ loc[h] = NoLocals
    BY DEF Init
  <2>2. NoLocals.shops = <<>> /\ NoLocals.tx.status = "NONE"
    BY DEF NoLocals, NoTx
  <2> QED BY <2>1, <2>2 DEF HolderInv, CartCopiesInv, PaidInv, ForOperatorInv, ThreeDSDataInv,
                            EndedInv, Committed
<1> QED BY <1>1, <1>2, <1>3 DEF MoneyAgrees, HoldersAgree

\* Every step of every running handler keeps HoldersAgree.
LEMMA StepHolds ==
  ASSUME HandlersAgree, MoneyAgrees, NEW h \in Requests, Step(h)
  PROVE  HoldersAgree'
  BY CreateShopTransactionHolds, WebRequestHolds, WebAnswerHolds, ReturnReadHolds, DetailsRequestHolds,
     DetailsCallHolds, DetailsSaveHolds, EnrollLoopHolds, EnrollCallHolds,
     EnrolledHolds, ThreeDSShopsHolds, AuthRequestHolds, AuthCallHolds, AuthSaveHolds,
     FinishTransactionHolds, FinishPaymentHolds, ConfirmShippingPriceHolds, SaveShippingHolds,
     LastUpdateHolds, OrderRequestHolds, OrderCallHolds, OrderSaveHolds, MailHolds,
     VerifyShopHolds, VerifyWriteHolds
  DEF Step

\* Every request that arrives keeps MoneyAgrees.
LEMMA ArriveMoney ==
  ASSUME HandlersAgree, MoneyAgrees, Arrive
  PROVE  MoneyAgrees'
<1>1. /\ StartReqs \subseteq Requests /\ ReturnReqs \subseteq Requests /\ ThreeDSReqs \subseteq Requests
      /\ VerifyReqs \subseteq Requests /\ DebitReqs \subseteq Requests /\ RefundReqs \subseteq Requests
  BY DEF Requests
<1>2. HoldersAgree'
  BY <1>1, StartPaymentHolds, ReturnShopHolds, ThreeDSReadHolds, VerifyReadHolds, MiraklReadHolds DEF Arrive
<1>3. TypeOK /\ PagesInv
  BY DEF HandlersAgree, MoneyAgrees
<1>4. \E h \in Requests : Onward(h) /\ page' = page
  BY <1>1, ArriveSteps DEF Arrive
<1>5. PagesInv'
  BY <1>3, <1>4, OnwardKeepsPages
<1> QED BY <1>2, <1>5 DEF MoneyAgrees

\* So does every other step.
LEMMA RunMoney ==
  ASSUME HandlersAgree, MoneyAgrees, NEW h \in Requests, Step(h) \/ Abort(h)
  PROVE  MoneyAgrees'
<1>1. HoldersAgree'
  BY StepHolds, AbortHolds
<1>2. TypeOK /\ PagesInv
  BY DEF HandlersAgree, MoneyAgrees
<1>3. PagesInv'
  BY <1>2, RunningSteps, OnwardKeepsPages, WebAnswerKeepsPages
<1> QED BY <1>1, <1>3 DEF MoneyAgrees

\* A step that changes nothing keeps MoneyAgrees.
LEMMA StutterMoney ==
  ASSUME HandlersAgree, MoneyAgrees, UNCHANGED vars
  PROVE  MoneyAgrees'
<1>1. UNCHANGED <<session, tx, shopTx, pc, loc, plainAuth, captured, page, mails, confirmations>>
  BY DEF vars, documents, bank, history
<1>2. LedgerGrows
  BY <1>1 DEF LedgerGrows
<1>3. TypeOK /\ LedgerInv /\ PagesInv
  BY DEF HandlersAgree, MoneyAgrees, HoldersAgree
<1>4. LedgerInv'
  BY <1>1, <1>2, <1>3, SameCart, PaidStays DEF LedgerInv, Exists
<1>5. ASSUME NEW g \in Requests PROVE HolderInv(g)'
  BY <1>1, <1>2, HoldersKeep
<1>6. PagesInv'
  BY <1>1, <1>3 DEF PagesInv
<1> QED BY <1>4, <1>5, <1>6 DEF MoneyAgrees, HoldersAgree

\* However requests overlap, repeat or get lost, the money agrees with what is stored,
\* mailed and believed: MoneyAgrees is an invariant.
THEOREM MoneyAlwaysAgrees == Spec => []MoneyAgrees
<1>1. HandlersAgree /\ MoneyAgrees /\ [Next]_vars => MoneyAgrees'
  <2> SUFFICES ASSUME HandlersAgree, MoneyAgrees, [Next]_vars PROVE MoneyAgrees'
    OBVIOUS
  <2>1. CASE Arrive
    BY <2>1, ArriveMoney
  <2>2. ASSUME NEW h \in Requests, Step(h) \/ Abort(h) PROVE MoneyAgrees'
    BY <2>2, RunMoney
  <2>3. ASSUME NEW id \in ShopTxIds, PayerDecides(id) PROVE MoneyAgrees'
    BY <2>3, PayerDecidesHolds, PayerKeepsPages DEF MoneyAgrees, HandlersAgree
  <2>4. CASE UNCHANGED vars
    BY <2>4, StutterMoney
  <2> QED BY <2>1, <2>2, <2>3, <2>4 DEF Next
<1> QED BY <1>1, InitMoney, HandlersAlwaysAgree, PTL DEF Spec

\* finishPayment, processPaylineResponse: whatever requests overlap, a transaction stored as
\* completed was captured for the operator's shop or paid on Payline's page.
THEOREM CompletedTransactionIsPaid == Spec => []CompletedIsPaid
<1>1. MoneyAgrees => CompletedIsPaid
  BY DEF MoneyAgrees, HoldersAgree, LedgerInv, PaidFor, Paid, CompletedIsPaid
<1> QED BY <1>1, MoneyAlwaysAgrees, PTL

\* notifyPaymentFinished: no customer is billed for what was neither captured nor paid.
THEOREM BillIsForPayment == Spec => []BillIsPaid
<1>1. MoneyAgrees => BillIsPaid
  BY DEF MoneyAgrees, HoldersAgree, LedgerInv, PaidFor, Paid, BillIsPaid
<1> QED BY <1>1, MoneyAlwaysAgrees, PTL

\* startPayment, threeDSCallback: a merchant that requires 3-D Secure gets no reservation
\* without it, but for mogopay sessions and Payline's page.
THEOREM ThreeDSIsRequired == Spec => []RequiredThreeDS
<1>1. MoneyAgrees => RequiredThreeDS
  BY DEF MoneyAgrees, HoldersAgree, LedgerInv, OnlyThreeDS, RequiredThreeDS
<1> QED BY <1>1, MoneyAlwaysAgrees, PTL

-----------------------------------------------------------------------------
(* Who may take an end date back.                                          *)

\* Until a start request has come nothing else can, so the first one finds no transaction.
LEMMA BeforeStartStep ==
  ASSUME TypeOK, BeforeStart, [Next]_vars
  PROVE  BeforeStart'
<1>1. CASE UNCHANGED vars
  <2>1. UNCHANGED <<tx, page, confirmations, pc>>
    BY <1>1 DEF vars, documents, bank, history
  <2> QED BY <2>1 DEF BeforeStart
<1>2. CASE Next
  <2> SUFFICES ASSUME \A r \in StartReqs : pc'[r] = "idle" PROVE FALSE
    BY DEF BeforeStart
  <2>1. ASSUME NEW h \in Requests, Onward(h), NEW g \in Requests, pc'[g] = "idle"
        PROVE  pc[g] = "idle" /\ g # h
    BY <2>1 DEF Onward, Goto, TypeOK
  <2>2. StartReqs \subseteq Requests
    BY DEF Requests
  <2>3. \/ \E h \in Requests : Onward(h)
        \/ pc' = pc
    <3>1. /\ ReturnReqs \subseteq Requests /\ ThreeDSReqs \subseteq Requests
          /\ VerifyReqs \subseteq Requests /\ DebitReqs \subseteq Requests /\ RefundReqs \subseteq Requests
      BY DEF Requests
    <3>2. CASE Arrive
      BY <2>2, <3>1, <3>2, ArriveSteps DEF Arrive
    <3>3. CASE \E h \in Requests : Step(h) \/ Abort(h)
      BY <3>3, RunningSteps
    <3>4. CASE \E id \in ShopTxIds : PayerDecides(id)
      BY <3>4 DEF PayerDecides
    <3> QED BY <1>2, <3>2, <3>3, <3>4 DEF Next
  <2>4. \A r \in StartReqs : pc[r] = "idle"
    BY <2>1, <2>2, <2>3
  <2>5. /\ tx = NoTx /\ confirmations = 0
        /\ \A id \in ShopTxIds : page[id] = "none"
        /\ \A h \in Requests : pc[h] = "idle"
    BY <2>4 DEF BeforeStart
  <2>6. ~ \E h \in StartReqs : StartPayment(h)
    BY <2>1, <2>2, ArriveSteps
  <2>7. ~Exists(tx)
    BY <2>5 DEF NoTx, Exists
  <2>8. ~ \E h \in Requests : Step(h) \/ Abort(h)
    BY <2>5, RunningSteps
  <2>9. ~ \E id \in ShopTxIds : PayerDecides(id)
    BY <2>5 DEF PayerDecides
  <2>10. ~Arrive
    <3>1. \A h : ~ReturnShop(h)
      BY <2>5 DEF ReturnShop
    <3>2. \A h : ~ThreeDSRead(h)
      BY <2>4 DEF ThreeDSRead
    <3>3. \A h : ~VerifyRead(h)
      BY <2>7 DEF VerifyRead
    <3>4. \A h : ~DebitCustomer(h) /\ ~RefundCustomer(h)
      <4>1. ~(confirmations > 0)
        BY <2>5
      <4> QED BY <4>1 DEF DebitCustomer, RefundCustomer, MiraklRead
    <3> QED BY <2>6, <3>1, <3>2, <3>3, <3>4 DEF Arrive
  <2> QED BY <1>2, <2>8, <2>9, <2>10 DEF Next
<1> QED BY <1>1, <1>2

\* The first start request finds nothing: BeforeStart is an invariant.
THEOREM NothingBeforeStart == Spec => []BeforeStart
<1>1. Init => BeforeStart
  BY DEF Init, BeforeStart
<1>2. TypeOK /\ BeforeStart /\ [Next]_vars => BeforeStart'
  BY BeforeStartStep
<1> QED BY <1>1, <1>2, PaymentTypeOK, PTL DEF Spec

\* The handlers that write the transaction write an ended copy, startPayment excepted.
LEMMA WritersHoldEnded ==
  ASSUME HandlersAgree, MoneyAgrees, NEW h \in Requests,
         \/ FinishTransaction(h) \/ SaveShipping(h) \/ ShippingFailed(h) \/ Complete(h)
         \/ RefundEnd(h) \/ VerifyWrite(h)
  PROVE  tx'.endDate
<1>1. loc[h].tx \in BOTransaction
  BY Known, LocalsType
<1>2. CASE FinishTransaction(h)
  BY <1>1, <1>2 DEF FinishTransaction, BOTransaction
<1>3. ASSUME ~FinishTransaction(h) PROVE loc[h].tx.endDate
  <2>1. pc[h] \in {"shipSave", "shipError", "complete", "refundEnd", "verifyWrite"}
    BY <1>3 DEF SaveShipping, ShippingFailed, Complete, RefundEnd, VerifyWrite
  <2>2. ~ByOrder(h, pc[h])
    BY <2>1 DEF ByOrder
  <2> QED BY <2>1, <2>2, Known DEF HolderInv, EndedInv, Committed
<1>4. CASE SaveShipping(h) /\ ~FinishTransaction(h)
  BY <1>3, <1>4 DEF SaveShipping
<1>5. CASE VerifyWrite(h) /\ ~FinishTransaction(h)
  BY <1>1, <1>3, <1>5 DEF VerifyWrite, BOTransaction
<1>6. CASE (ShippingFailed(h) \/ Complete(h) \/ RefundEnd(h)) /\ ~FinishTransaction(h)
  <2>1. PICK status, error : tx' = [loc[h].tx EXCEPT !.status = status, !.error = error]
    BY <1>6 DEF ShippingFailed, Complete, RefundEnd, EndWith
  <2> QED BY <1>1, <1>3, <1>6, <2>1 DEF BOTransaction
<1> QED BY <1>2, <1>4, <1>5, <1>6

\* All other steps leave the transaction alone.
LEMMA OthersKeepTx ==
  ASSUME [Next]_vars
  PROVE  \/ tx' = tx
         \/ \E h \in StartReqs : StartPayment(h)
         \/ \E h \in Requests : \/ FinishTransaction(h) \/ SaveShipping(h) \/ ShippingFailed(h)
                                \/ Complete(h) \/ RefundEnd(h) \/ VerifyWrite(h)
<1>1. CASE Arrive
  BY <1>1 DEF Arrive, ReturnShop, ThreeDSRead, VerifyRead, DebitCustomer, RefundCustomer, MiraklRead, documents
<1>2. ASSUME NEW h \in Requests, Abort(h)
      PROVE  tx' = tx
  BY <1>2 DEF Abort, documents
<1>3. ASSUME NEW h \in Requests,
             \/ CreateShopTransaction(h) \/ WebRequest(h) \/ WebAnswer(h) \/ ReturnRead(h)
             \/ DetailsRequest(h) \/ DetailsCall(h) \/ DetailsSave(h) \/ EnrollRequest(h) \/ EnrollCall(h) \/ EnrollSave(h)
             \/ Enrolled(h) \/ ThreeDSShops(h) \/ AuthRequest(h) \/ AuthCall(h) \/ AuthSave(h)
      PROVE  tx' = tx
  BY <1>3 DEF CreateShopTransaction, WebRequest, WebAnswer, ReturnRead, DetailsRequest, DetailsCall,
     DetailsSave, EnrollRequest, EnrollCall, EnrollSave, Enrolled, ThreeDSShops, AuthRequest, AuthCall, AuthSave, documents
<1>4. ASSUME NEW h \in Requests,
             \/ FinishPayment(h) \/ ConfirmShippingPrice(h) \/ CaptureRequest(h) \/ CaptureCall(h)
             \/ CaptureSave(h) \/ RefundRequest(h) \/ RefundCall(h) \/ RefundSave(h)
             \/ MailOrder(h) \/ MailBill(h) \/ VerifyShop(h)
      PROVE  tx' = tx
  BY <1>4 DEF FinishPayment, ConfirmShippingPrice, CaptureRequest, CaptureCall, CaptureSave,
     RefundRequest, RefundCall, RefundSave, MailOrder, MailBill, VerifyShop, documents
<1>5. CASE \E id \in ShopTxIds : PayerDecides(id)
  BY <1>5 DEF PayerDecides, documents
<1>6. CASE UNCHANGED vars
  BY <1>6 DEF vars, documents
<1> QED BY <1>1, <1>2, <1>3, <1>4, <1>5, <1>6 DEF Next, Step

\* finishTransaction, confirmShippingPrice, finishPayment and verify write whole stale
\* copies, in any order; an end date is lost only to a new createBOTransaction.
THEOREM OnlyStartReopensTransaction == Spec => OnlyStartReopens
<1>1. HandlersAgree /\ MoneyAgrees /\ [Next]_vars =>
        [tx.endDate /\ ~tx'.endDate => \E h \in StartReqs : StartPayment(h)]_vars
  BY OthersKeepTx, WritersHoldEnded
<1> QED BY <1>1, HandlersAlwaysAgree, MoneyAlwaysAgrees, PTL DEF Spec, OnlyStartReopens

\* With a single start request an ended transaction is never reopened, whatever returns,
\* callbacks, verifications and orders overlap.
THEOREM EndedTransactionStaysEnded ==
  ASSUME \A r, s \in StartReqs : r = s
  PROVE  Spec => EndedStaysEnded
<1>1. HandlersAgree /\ MoneyAgrees /\ BeforeStart /\ [Next]_vars => [tx.endDate => tx'.endDate]_vars
  <2> SUFFICES ASSUME HandlersAgree, MoneyAgrees, BeforeStart, [Next]_vars, tx.endDate
               PROVE  tx'.endDate
    OBVIOUS
  <2>1. ASSUME NEW h \in StartReqs, StartPayment(h) PROVE FALSE
    <3>1. \A r \in StartReqs : pc[r] = "idle"
      BY <2>1 DEF StartPayment
    <3>2. ~tx.endDate
      BY <3>1 DEF BeforeStart, NoTx
    <3> QED BY <3>2
  <2> QED BY <2>1, OthersKeepTx, WritersHoldEnded
<1> QED BY <1>1, HandlersAlwaysAgree, MoneyAlwaysAgrees, NothingBeforeStart, PTL DEF Spec, EndedStaysEnded
=============================================================================
