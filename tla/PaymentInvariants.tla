------------------------- MODULE PaymentInvariants -------------------------
(***************************************************************************)
(* What each handler of Payment knows at each of its steps, whatever the   *)
(* other handlers do meanwhile.  The conjunction is inductive.             *)
(***************************************************************************)
EXTENDS Payment

\* The statuses that stand for a successful authorisation, or for what follows one.
Success == {"PAYMENT_AUTHORIZED", "COMPLETED", "REFUNDED", "REFUNDED_FAILED", "SHIPMENT_ERROR"}

\* Where finishPayment or a marketplace order works on an authorised payment.
Committed == {"ship", "shipSave", "shipError", "captureRequest", "captureCall", "captureSave",
              "complete", "refundRequest", "refundCall", "refundSave", "refundEnd"}

Ordered == {"captureRequest", "captureCall", "captureSave", "refundRequest", "refundCall", "refundSave"}

\* A document of every shop of the cart is stored.
AllStored == \A s \in CartShops : \E r \in StartReqs : Exists(shopTx[<<r, s>>])

\* The copies are those of the cart's shops, in order, as this start request created them.
OwnShops(h, shops) ==
  /\ h \in StartReqs
  /\ \A i \in 1..Len(shops) : /\ i \in 1..Len(session.cart)
                              /\ shops[i].id = <<h, session.cart[i]>>
                              /\ Exists(shopTx[shops[i].id])

-----------------------------------------------------------------------------
(* What is known of the documents and of the outside world.                *)

DocumentsInv ==
  /\ \A id \in ShopTxIds : shopTx[id].id = id
  /\ tx.status \in Success => AllAuthorized

WorldInv ==
  /\ \A id \in ShopTxIds : page[id] # "none" => Len(session.cart) = 1 /\ id[2] = session.cart[1]
  /\ \A id \in ShopTxIds : page[id] = "paid" => id \in authorized
  /\ \A id \in ShopTxIds : captured[id] > 0 \/ refunded[id] > 0 => AllAuthorized
  /\ labels > 0 => AllAuthorized
  /\ confirmations > 0 => AllAuthorized

-----------------------------------------------------------------------------
(* What a handler at step p with locals l knows.                           *)

IdleInv(p, l) == p = "idle" => l = NoLocals

CopyInv(p, l) ==
  /\ l.tx.status \in Success => AllAuthorized
  /\ p = "finish" /\ l.status \in Success => AllAuthorized
  /\ p \in Committed => AllAuthorized
  /\ p = "verifyWrite" => l.status \in {"PAYMENT_AUTHORIZED", "COMPLETED"}

CreateInv(h, p, l) ==
  p = "createShops" =>
    /\ OwnShops(h, l.shops)
    /\ Len(l.shops) < Len(session.cart)
    /\ l.results = <<>>
    /\ ~session.mogopay /\ session.paymentMethod = "EXTERNAL" => Len(session.cart) = 1

WebInv(h, p, l) ==
  p \in {"webRequest", "webAnswer"} =>
    /\ OwnShops(h, l.shops)
    /\ Len(l.shops) = 1 /\ Len(session.cart) = 1
    /\ l.results = <<>>

EnrollInv(h, p, l) ==
  p \in {"enrollRequest", "enrollCall", "enrollSave", "enrolled"} =>
    /\ OwnShops(h, l.shops)
    /\ Len(l.shops) = Len(session.cart)
    /\ Len(l.results) < Len(l.shops)
    /\ p \in {"enrollCall", "enrolled"} => l.results = <<>>

FormInv(p) ==
  p \in {"form", "threeDSShops"} => AllStored /\ session.cart # <<>>

ThreeDSInv(p, l) == p = "threeDSShops" => l.results = <<>>

AuthInv(p, l) ==
  p \in {"authRequest", "authCall", "authSave"} =>
    /\ Len(l.results) < Len(l.shops)
    /\ \A s \in CartShops : \E i \in 1..Len(l.shops) : l.shops[i].id[2] = s
    /\ \A i \in 1..Len(l.results) : l.results[i] = "AUTHORIZED" => l.shops[i].id \in authorized
    /\ p = "authSave" /\ l.answer = SUCCESS_CODE => l.shops[Len(l.results) + 1].id \in authorized

DetailsInv(p, l) ==
  p \in {"returnRead", "detailsRequest", "detailsCall", "detailsSave"} =>
    /\ Len(l.shops) = 1 /\ l.results = <<>>
    /\ page[l.shops[1].id] # "none"
    /\ p = "detailsSave" /\ l.answer = SUCCESS_CODE => l.shops[1].id \in authorized

OrderInv(p, l) ==
  /\ p \in Committed => l.results = <<>> /\ Len(l.shops) <= 1
  /\ p \in Ordered => Len(l.shops) = 1

HandlerInv(h) ==
  /\ IdleInv(pc[h], loc[h])
  /\ CopyInv(pc[h], loc[h])
  /\ CreateInv(h, pc[h], loc[h])
  /\ WebInv(h, pc[h], loc[h])
  /\ EnrollInv(h, pc[h], loc[h])
  /\ FormInv(pc[h])
  /\ ThreeDSInv(pc[h], loc[h])
  /\ AuthInv(pc[h], loc[h])
  /\ DetailsInv(pc[h], loc[h])
  /\ OrderInv(pc[h], loc[h])

\* Every handler's copies and position, however stale, agree with the bank: a handler that
\* believes in a success, captures, ships or is about to store a success does so only
\* after every shop of the cart was authorised.
HandlersAgree ==
  /\ TypeOK
  /\ DocumentsInv
  /\ WorldInv
  /\ \A h \in Requests : HandlerInv(h)

-----------------------------------------------------------------------------
(* What is known besides of the money: who was paid, from which documents. *)

\* There was something to pay, and it was: the operator's shop was captured, or the payer
\* paid on Payline's page.
Paid ==
  \E r \in StartReqs : \/ captured[<<r, SHOP_MOGOBIZ>>] > 0
                       \/ \E s \in Shops : page[<<r, s>>] = "paid"

PaidFor == session.cart # <<>> => Paid

OnlyThreeDS == session.paymentMethod = "THREEDS_REQUIRED" /\ ~session.mogopay

LedgerInv ==
  /\ \A id \in ShopTxIds : Exists(shopTx[id]) => id[2] \in CartShops
  /\ tx.status = "COMPLETED" => PaidFor
  /\ "mail-bill" \in mails => PaidFor
  /\ OnlyThreeDS => plainAuth = {}

CartCopiesInv(l) == \A i \in 1..Len(l.shops) : l.shops[i].id[2] \in CartShops

PaidInv(p, l) ==
  /\ l.tx.status = "COMPLETED" => PaidFor
  /\ p = "finish" /\ l.status = "COMPLETED" => PaidFor
  /\ p = "complete" => PaidFor
  /\ p = "mailBill" => l.tx.status = "COMPLETED"
  /\ p = "captureSave" /\ l.answer = SUCCESS_CODE => captured[l.shops[1].id] > 0
  /\ p = "detailsSave" /\ l.answer = SUCCESS_CODE => page[l.shops[1].id] = "paid"

\* debitCustomer or refundCustomer at work: the merchant was told of a success.
ByOrder(h, p) ==
  /\ confirmations > 0
  /\ \/ h \in DebitReqs /\ p \in {"captureRequest", "captureCall", "captureSave"}
     \/ h \in RefundReqs /\ p \in {"refundRequest", "refundCall", "refundSave"}

\* finishPayment works on the operator's shop only.
ForOperatorInv(h, p, l) ==
  p \in Committed =>
    ByOrder(h, p) \/ \A i \in 1..Len(l.shops) : l.shops[i].id[2] = SHOP_MOGOBIZ

ThreeDSDataInv(p, l) ==
  p \in {"authRequest", "authCall", "authSave"} /\ OnlyThreeDS =>
    \A i \in 1..Len(l.shops) : l.shops[i].threeDS

\* Whoever is to write the transaction after finishTransaction holds an ended copy.
EndedInv(h, p, l) ==
  /\ p \in {"finishPayment", "verifyShop", "verifyWrite"} => l.tx.endDate
  /\ p \in Committed /\ ~ByOrder(h, p) => l.tx.endDate

HolderInv(h) ==
  /\ CartCopiesInv(loc[h])
  /\ PaidInv(pc[h], loc[h])
  /\ ForOperatorInv(h, pc[h], loc[h])
  /\ ThreeDSDataInv(pc[h], loc[h])
  /\ EndedInv(h, pc[h], loc[h])

\* A page belongs to one start request, which has not opened it before its answer came.
PagesInv ==
  \A h \in StartReqs : pc[h] \in {"idle", "createShops", "webRequest", "webAnswer"} =>
    \A s \in Shops : page[<<h, s>>] = "none"

HoldersAgree ==
  /\ LedgerInv
  /\ \A h \in Requests : HolderInv(h)

\* The money agrees with what is stored, mailed and believed: every stored or held shop
\* transaction is one of the cart's, a completed copy stands for a payment, and money moves
\* for the operator's shop, or on the order of a merchant that was told.
MoneyAgrees ==
  /\ PagesInv
  /\ HoldersAgree

\* Until a start request has come there is no transaction, no page and nothing to answer.
BeforeStart ==
  (\A r \in StartReqs : pc[r] = "idle") =>
    /\ tx = NoTx
    /\ \A id \in ShopTxIds : page[id] = "none"
    /\ confirmations = 0
    /\ \A h \in Requests : pc[h] = "idle"

\* Only createBOTransaction, run again, may take an end date back.
OnlyStartReopens == [][tx.endDate /\ ~tx'.endDate => \E h \in StartReqs : StartPayment(h)]_vars
=============================================================================
