--------------------------- MODULE PaymentProofs ---------------------------
(***************************************************************************)
(* Proofs that HandlersAgree is an invariant of Payment for every set of   *)
(* shops, every set of carts and any number of requests, and what follows: *)
(* a stored success, a capture, a label or a confirmation is backed by the *)
(* bank for every shop of the cart.                                        *)
(*                                                                         *)
(* The argument: the session never changes, and authorisations, stored     *)
(* documents and opened pages are never taken back (Monotone), so what a   *)
(* handler knows stays true while others move (OthersKeep).  It remains to *)
(* show for each action that the handler taking it knows at its next step  *)
(* what it must (one lemma per action, named after it).                    *)
(***************************************************************************)
EXTENDS PaymentInvariants, FiniteSetTheorems, SequenceTheorems, TLAPS

\* Appending keeps a sequence's elements and puts the new one last.
LEMMA AppendFacts ==
  ASSUME NEW S, NEW q \in Seq(S), NEW x \in S
  PROVE  /\ Append(q, x) \in Seq(S)
         /\ Len(Append(q, x)) = Len(q) + 1
         /\ Append(q, x)[Len(q) + 1] = x
         /\ \A i \in 1..Len(q) : Append(q, x)[i] = q[i]
  OBVIOUS

\* Arithmetic of the last turn of a loop.
LEMMA OneLeft ==
  ASSUME NEW n \in Nat, n > 0, ~(n > 1)
  PROVE  n = 1
  OBVIOUS

\* The second component of a pair: the shop of a shop transaction's id.
LEMMA SecondOf ==
  ASSUME NEW a, NEW b, NEW p, p = <<a, b>>
  PROVE  p[2] = b
  OBVIOUS

\* A non-empty sequence of at most one element has exactly one.
LEMMA AtMostOne ==
  ASSUME NEW S, NEW q \in Seq(S), q # <<>>, Len(q) <= 1
  PROVE  Len(q) = 1
<1>1. Len(q) \in Nat \ {0}
  BY EmptySeq, Zenon
<1> QED BY <1>1

\* A member of a product is the pair of its components.
LEMMA PairFacts ==
  ASSUME NEW A, NEW B, NEW p \in A \X B
  PROVE  p = <<p[1], p[2]>> /\ p[1] \in A /\ p[2] \in B
  OBVIOUS

\* The types of a handler's locals, field by field.
LEMMA LocalsType ==
  ASSUME NEW l \in Locals
  PROVE  /\ l.tx \in BOTransaction
         /\ l.shops \in Seq(BOShopTransaction)
         /\ l.results \in Seq(ShopTransactionStatus)
         /\ l.answer \in Codes
         /\ l.status \in TransactionStatus
         /\ l.error \in Errors
         /\ Len(l.shops) \in Nat
         /\ Len(l.results) \in Nat
  BY DEF Locals

\* updateBOShopTransactionStatusAndData yields a shop transaction of the same id.
LEMMA WithStatusType ==
  ASSUME NEW doc \in BOShopTransaction, NEW status \in ShopTransactionStatus, NEW code \in Codes,
         status # "NONE"
  PROVE  /\ WithStatus(doc, status, code) \in BOShopTransaction
         /\ WithStatus(doc, status, code).id = doc.id
         /\ Exists(WithStatus(doc, status, code))
  BY DEF WithStatus, BOShopTransaction, Exists

\* The shop transaction whose turn it is in a handler's loop is a shop transaction.
LEMMA CurrentType ==
  ASSUME TypeOK, NEW h \in Requests, Len(loc[h].results) < Len(loc[h].shops)
  PROVE  Current(h) \in BOShopTransaction /\ Current(h).id \in ShopTxIds
<1>1. loc[h] \in Locals
  BY DEF TypeOK
<1>2. Current(h) \in BOShopTransaction
  BY <1>1, LocalsType DEF Current
<1> QED BY <1>2 DEF BOShopTransaction

\* What every step keeps.
Monotone ==
  /\ session' = session
  /\ authorized \subseteq authorized'
  /\ \A id \in ShopTxIds : Exists(shopTx[id]) => Exists(shopTx'[id])
  /\ \A id \in ShopTxIds : page[id] # "none" => page'[id] # "none"

\* Storing a shop transaction under its own id keeps every id and loses no document.
LEMMA SaveShopFacts ==
  ASSUME TypeOK, DocumentsInv, NEW doc \in BOShopTransaction, Exists(doc), SaveShop(doc)
  PROVE  /\ shopTx' \in [ShopTxIds -> BOShopTransaction]
         /\ \A id \in ShopTxIds : shopTx'[id].id = id
         /\ \A id \in ShopTxIds : Exists(shopTx[id]) => Exists(shopTx'[id])
         /\ Exists(shopTx'[doc.id])
<1>1. doc.id \in ShopTxIds
  BY DEF BOShopTransaction
<1> QED BY <1>1 DEF SaveShop, TypeOK, DocumentsInv, Exists

\* A full authorisation of the cart is never lost.
LEMMA MonotoneAuthorized ==
  ASSUME Monotone, AllAuthorized
  PROVE  AllAuthorized'
  BY DEF Monotone, AllAuthorized, CartShops

\* The cart of the session is a sequence of shops.
LEMMA CartType ==
  ASSUME TypeOK
  PROVE  /\ session.cart \in Seq(Shops)
         /\ Len(session.cart) \in Nat
         /\ CartShops \subseteq Shops
  BY CartsAssumption DEF TypeOK, Sessions, CartShops

\* Stored shop transactions of the cart stay stored.
LEMMA MonotoneStored ==
  ASSUME TypeOK, Monotone, AllStored
  PROVE  AllStored'
<1>1. CartShops' = CartShops /\ CartShops \subseteq Shops
  BY CartType DEF Monotone, CartShops
<1> QED BY <1>1 DEF Monotone, AllStored, ShopTxIds

\* The copies a start request created stay those of stored documents.
LEMMA MonotoneOwn ==
  ASSUME TypeOK, Monotone, NEW h, NEW shops \in Seq(BOShopTransaction), OwnShops(h, shops)
  PROVE  OwnShops(h, shops)'
<1>1. \A i \in 1..Len(shops) : shops[i] \in BOShopTransaction
  OBVIOUS
<1>2. \A i \in 1..Len(shops) : shops[i].id \in ShopTxIds
  BY <1>1 DEF BOShopTransaction
<1> QED BY <1>2 DEF Monotone, OwnShops, Exists

\* A handler keeps what it knows while others move.
LEMMA OthersKeep ==
  ASSUME TypeOK, Monotone, NEW g \in Requests, HandlerInv(g),
         pc'[g] = pc[g], loc'[g] = loc[g]
  PROVE  HandlerInv(g)'
<1>1. loc[g] \in Locals
  BY DEF TypeOK
<1>2. CartShops' = CartShops /\ session' = session
  BY DEF Monotone, CartShops
<1>0. IdleInv(pc[g], loc[g])'
  BY DEF HandlerInv, IdleInv
<1>3. CopyInv(pc[g], loc[g])'
  BY MonotoneAuthorized DEF HandlerInv, CopyInv
<1>4. CreateInv(g, pc[g], loc[g])'
  BY <1>1, <1>2, MonotoneOwn, LocalsType DEF HandlerInv, CreateInv
<1>5. WebInv(g, pc[g], loc[g])'
  BY <1>1, <1>2, MonotoneOwn, LocalsType DEF HandlerInv, WebInv
<1>6. EnrollInv(g, pc[g], loc[g])'
  BY <1>1, <1>2, MonotoneOwn, LocalsType DEF HandlerInv, EnrollInv
<1>7. FormInv(pc[g])'
  BY <1>2, MonotoneStored DEF HandlerInv, FormInv
<1>8. ThreeDSInv(pc[g], loc[g])'
  BY DEF HandlerInv, ThreeDSInv
<1>9. AuthInv(pc[g], loc[g])'
  BY <1>2 DEF HandlerInv, AuthInv, Monotone
<1>10. DetailsInv(pc[g], loc[g])'
  <2> SUFFICES ASSUME pc[g] \in {"returnRead", "detailsRequest", "detailsCall", "detailsSave"}
               PROVE  DetailsInv(pc[g], loc[g])'
    BY DEF DetailsInv
  <2>1. loc[g].shops[1] \in BOShopTransaction
    BY <1>1, LocalsType DEF HandlerInv, DetailsInv
  <2>2. loc[g].shops[1].id \in ShopTxIds
    BY <2>1 DEF BOShopTransaction
  <2> QED BY <2>2 DEF HandlerInv, DetailsInv, Monotone
<1>11. OrderInv(pc[g], loc[g])'
  BY DEF HandlerInv, OrderInv
<1> QED
  BY <1>0, <1>3, <1>4, <1>5, <1>6, <1>7, <1>8, <1>9, <1>10, <1>11 DEF HandlerInv

\* A step of one handler: what is left to show of it.
LEMMA OneHandlerMoves ==
  ASSUME HandlersAgree, NEW h \in Requests,
         \A g \in Requests \ {h} : pc'[g] = pc[g] /\ loc'[g] = loc[g],
         TypeOK', DocumentsInv', WorldInv', Monotone, HandlerInv(h)'
  PROVE  HandlersAgree'
<1>1. ASSUME NEW g \in Requests PROVE HandlerInv(g)'
  <2>1. CASE g = h
    BY <2>1
  <2>2. CASE g # h
    BY <2>2, OthersKeep DEF HandlersAgree
  <2> QED BY <2>1, <2>2
<1> QED BY <1>1 DEF HandlersAgree

-----------------------------------------------------------------------------
(* A handler moves to step p with locals l.                                *)

Places == {"idle"} \cup Active \cup Final

Moved(h, p, l) == pc' = [pc EXCEPT ![h] = p] /\ loc' = [loc EXCEPT ![h] = l]

\* What the types say after one handler has moved, and that the others have not.
LEMMA MovedFacts ==
  ASSUME TypeOK, NEW h \in Requests, NEW p \in Places, NEW l \in Locals, Moved(h, p, l)
  PROVE  /\ pc' \in [Requests -> Places]
         /\ loc' \in [Requests -> Locals]
         /\ pc'[h] = p
         /\ loc'[h] = l
         /\ \A g \in Requests \ {h} : pc'[g] = pc[g] /\ loc'[g] = loc[g]
<1>1. pc \in [Requests -> Places] /\ loc \in [Requests -> Locals]
  BY DEF TypeOK, Places
<1> QED BY <1>1 DEF Moved

\* A step that only moves the handler.
LEMMA QuietStep ==
  ASSUME HandlersAgree, NEW h \in Requests, NEW p \in Places, NEW l \in Locals, Moved(h, p, l),
         UNCHANGED <<session, documents, bank, history>>, HandlerInv(h)'
  PROVE  HandlersAgree'
<1>1. TypeOK /\ DocumentsInv /\ WorldInv
  BY DEF HandlersAgree
<1>2. UNCHANGED <<session, tx, shopTx, authorized, plainAuth, captured, refunded, page,
                  labels, mails, finishes, confirmations>>
  BY DEF documents, bank, history
<1>3. TypeOK'
  BY <1>1, <1>2, MovedFacts DEF TypeOK, Places
<1>4. AllAuthorized' = AllAuthorized
  BY <1>2 DEF AllAuthorized, CartShops
<1>5. DocumentsInv' /\ WorldInv'
  BY <1>1, <1>2, <1>4 DEF DocumentsInv, WorldInv
<1>6. Monotone
  BY <1>2 DEF Monotone
<1> QED BY <1>1, <1>3, <1>5, <1>6, MovedFacts, OneHandlerMoves

\* A step that writes a shop transaction.
LEMMA DocStep ==
  ASSUME HandlersAgree, NEW h \in Requests, NEW p \in Places, NEW l \in Locals, Moved(h, p, l),
         NEW doc \in BOShopTransaction, Exists(doc), SaveShop(doc),
         UNCHANGED <<session, tx, bank, history>>, HandlerInv(h)'
  PROVE  HandlersAgree'
<1>1. TypeOK /\ DocumentsInv /\ WorldInv
  BY DEF HandlersAgree
<1>2. UNCHANGED <<session, tx, authorized, plainAuth, captured, refunded, page,
                  labels, mails, finishes, confirmations>>
  BY DEF bank, history
<1>3. TypeOK'
  BY <1>1, <1>2, MovedFacts, SaveShopFacts DEF TypeOK, Places
<1>4. AllAuthorized' = AllAuthorized
  BY <1>2 DEF AllAuthorized, CartShops
<1>5. DocumentsInv' /\ WorldInv'
  BY <1>1, <1>2, <1>4, SaveShopFacts DEF DocumentsInv, WorldInv
<1>6. Monotone
  BY <1>1, <1>2, SaveShopFacts DEF Monotone
<1> QED BY <1>1, <1>3, <1>5, <1>6, MovedFacts, OneHandlerMoves

\* A step that writes the transaction, and perhaps counts something.
LEMMA TxStep ==
  ASSUME HandlersAgree, NEW h \in Requests, NEW p \in Places, NEW l \in Locals, Moved(h, p, l),
         tx' \in BOTransaction, tx'.status \in Success => AllAuthorized,
         UNCHANGED <<session, shopTx, bank, labels, mails>>,
         finishes' \in Nat,
         confirmations' = confirmations \/ (confirmations' \in Nat /\ AllAuthorized),
         HandlerInv(h)'
  PROVE  HandlersAgree'
<1>1. TypeOK /\ DocumentsInv /\ WorldInv
  BY DEF HandlersAgree
<1>2. UNCHANGED <<session, shopTx, authorized, plainAuth, captured, refunded, page, labels, mails>>
  BY DEF bank
<1>3. TypeOK'
  BY <1>1, <1>2, MovedFacts DEF TypeOK, Places
<1>4. AllAuthorized' = AllAuthorized
  BY <1>2 DEF AllAuthorized, CartShops
<1>5. DocumentsInv' /\ WorldInv'
  BY <1>1, <1>2, <1>4 DEF DocumentsInv, WorldInv
<1>6. Monotone
  BY <1>2 DEF Monotone
<1> QED BY <1>1, <1>3, <1>5, <1>6, MovedFacts, OneHandlerMoves

-----------------------------------------------------------------------------
(* What is to be shown of a handler, by the step it has reached.           *)

Quiet == {"replied", "failed", "redirect", "finishPayment", "mailOrder", "mailBill", "verifyShop"}

\* At these steps a handler only needs to know about its copy of the transaction.
LEMMA AtQuiet ==
  ASSUME NEW h, pc'[h] \in Quiet, loc'[h].tx.status \in Success => AllAuthorized'
  PROVE  HandlerInv(h)'
  BY DEF Quiet, HandlerInv, IdleInv, CopyInv, CreateInv, WebInv, EnrollInv, FormInv, ThreeDSInv, AuthInv,
         DetailsInv, OrderInv, Committed, Ordered

\* What a handler about to call finishTransaction must know.
LEMMA AtFinish ==
  ASSUME NEW h, pc'[h] = "finish", loc'[h].tx.status \in Success => AllAuthorized',
         loc'[h].status \in Success => AllAuthorized'
  PROVE  HandlerInv(h)'
  BY DEF HandlerInv, IdleInv, CopyInv, CreateInv, WebInv, EnrollInv, FormInv, ThreeDSInv, AuthInv,
         DetailsInv, OrderInv, Committed, Ordered

\* What a handler inside finishPayment, or serving a marketplace order, must know.
LEMMA AtCommitted ==
  ASSUME NEW h, pc'[h] \in Committed, AllAuthorized', loc'[h].results = <<>>, Len(loc'[h].shops) <= 1,
         pc'[h] \in Ordered => Len(loc'[h].shops) = 1
  PROVE  HandlerInv(h)'
  BY DEF HandlerInv, IdleInv, CopyInv, CreateInv, WebInv, EnrollInv, FormInv, ThreeDSInv, AuthInv,
         DetailsInv, OrderInv, Committed, Ordered

\* What verify must know before it writes.
LEMMA AtVerifyWrite ==
  ASSUME NEW h, pc'[h] = "verifyWrite", loc'[h].tx.status \in Success => AllAuthorized',
         loc'[h].status \in {"PAYMENT_AUTHORIZED", "COMPLETED"}
  PROVE  HandlerInv(h)'
  BY DEF HandlerInv, IdleInv, CopyInv, CreateInv, WebInv, EnrollInv, FormInv, ThreeDSInv, AuthInv,
         DetailsInv, OrderInv, Committed, Ordered

\* What startPayment must know while it creates shop transactions.
LEMMA AtCreate ==
  ASSUME NEW h, pc'[h] = "createShops", loc'[h].tx.status \in Success => AllAuthorized',
         CreateInv(h, pc[h], loc[h])'
  PROVE  HandlerInv(h)'
  BY DEF HandlerInv, IdleInv, CopyInv, WebInv, EnrollInv, FormInv, ThreeDSInv, AuthInv,
         DetailsInv, OrderInv, Committed, Ordered

\* What doWebPayment must know.
LEMMA AtWeb ==
  ASSUME NEW h, pc'[h] \in {"webRequest", "webAnswer"}, loc'[h].tx.status \in Success => AllAuthorized',
         WebInv(h, pc[h], loc[h])'
  PROVE  HandlerInv(h)'
  BY DEF HandlerInv, IdleInv, CopyInv, CreateInv, EnrollInv, FormInv, ThreeDSInv, AuthInv,
         DetailsInv, OrderInv, Committed, Ordered

\* What verifyEnrollment must know.
LEMMA AtEnroll ==
  ASSUME NEW h, pc'[h] \in {"enrollRequest", "enrollCall", "enrollSave", "enrolled"},
         loc'[h].tx.status \in Success => AllAuthorized', EnrollInv(h, pc[h], loc[h])'
  PROVE  HandlerInv(h)'
  BY DEF HandlerInv, IdleInv, CopyInv, CreateInv, WebInv, FormInv, ThreeDSInv, AuthInv,
         DetailsInv, OrderInv, Committed, Ordered

\* What is known when the 3-D Secure form is shown, and when its answer is read.
LEMMA AtForm ==
  ASSUME NEW h, pc'[h] \in {"form", "threeDSShops"}, loc'[h].tx.status \in Success => AllAuthorized',
         loc'[h].results = <<>>, FormInv(pc[h])'
  PROVE  HandlerInv(h)'
  BY DEF HandlerInv, IdleInv, CopyInv, CreateInv, WebInv, EnrollInv, ThreeDSInv, AuthInv,
         DetailsInv, OrderInv, Committed, Ordered

\* What doMultiAuthorizations must know.
LEMMA AtAuth ==
  ASSUME NEW h, pc'[h] \in {"authRequest", "authCall", "authSave"},
         loc'[h].tx.status \in Success => AllAuthorized', AuthInv(pc[h], loc[h])'
  PROVE  HandlerInv(h)'
  BY DEF HandlerInv, IdleInv, CopyInv, CreateInv, WebInv, EnrollInv, FormInv, ThreeDSInv,
         DetailsInv, OrderInv, Committed, Ordered

\* What getWebPaymentDetails must know.
LEMMA AtDetails ==
  ASSUME NEW h, pc'[h] \in {"returnRead", "detailsRequest", "detailsCall", "detailsSave"},
         loc'[h].tx.status \in Success => AllAuthorized', DetailsInv(pc[h], loc[h])'
  PROVE  HandlerInv(h)'
  BY DEF HandlerInv, IdleInv, CopyInv, CreateInv, WebInv, EnrollInv, FormInv, ThreeDSInv, AuthInv,
         OrderInv, Committed, Ordered

\* What a running handler has in hand.
LEMMA InHand ==
  ASSUME HandlersAgree, NEW h \in Requests
  PROVE  /\ TypeOK /\ DocumentsInv /\ WorldInv /\ HandlerInv(h)
         /\ loc[h] \in Locals
         /\ loc[h].tx.status \in Success => AllAuthorized
  BY DEF HandlersAgree, TypeOK, HandlerInv, CopyInv

\* With session and bank unchanged, so is what the bank has authorised of the cart.
LEMMA SameWorld ==
  ASSUME UNCHANGED <<session, bank>>
  PROVE  /\ session' = session /\ authorized' = authorized /\ page' = page
         /\ CartShops' = CartShops
         /\ AllAuthorized' = AllAuthorized
<1>1. session' = session /\ authorized' = authorized /\ page' = page
  BY DEF bank
<1> QED BY <1>1 DEF CartShops, AllAuthorized

\* The locals of an ended handler are well typed and claim no success.
LEMMA NoLocalsType == NoLocals \in Locals /\ NoLocals.tx.status \notin Success
<1>1. NoTx \in BOTransaction /\ NoTx.status \notin Success
  BY DEF NoTx, BOTransaction, NoCode, Codes, Errors, TransactionStatus, Success
<1>2. NoCode \in Codes /\ NoCode \in Errors /\ "NONE" \in TransactionStatus
  BY DEF NoCode, Codes, Errors, TransactionStatus
<1>3. <<>> \in Seq(BOShopTransaction) /\ <<>> \in Seq(ShopTransactionStatus)
  OBVIOUS
<1> QED BY <1>1, <1>2, <1>3 DEF NoLocals, Locals

\* A handler that ends, or is lost, leaves nothing to show.
LEMMA EndMoves ==
  ASSUME HandlersAgree, NEW h \in Requests, NEW p \in {"replied", "failed", "redirect"}, End(h, p)
  PROVE  Moved(h, p, NoLocals) /\ HandlerInv(h)'
<1>1. Moved(h, p, NoLocals)
  BY DEF End, Goto, Moved
<1>2. p \in Places /\ p \in Quiet
  BY DEF Places, Final, Quiet
<1>3. pc'[h] = p /\ loc'[h] = NoLocals
  BY <1>1, <1>2, InHand, NoLocalsType, MovedFacts
<1> QED BY <1>1, <1>2, <1>3, NoLocalsType, AtQuiet

\* A handler lost anywhere keeps HandlersAgree.
LEMMA AbortKeeps ==
  ASSUME HandlersAgree, NEW h \in Requests, Abort(h)
  PROVE  HandlersAgree'
<1>1. End(h, "failed") /\ UNCHANGED <<session, documents, bank, history>>
  BY DEF Abort
<1>2. "failed" \in Places
  BY DEF Places, Final
<1> QED BY <1>1, <1>2, EndMoves, NoLocalsType, QuietStep

-----------------------------------------------------------------------------
(* doMultiAuthorizations.                                                  *)

\* What doAuthorization has in hand at any turn of its loop.
LEMMA AuthFacts ==
  ASSUME HandlersAgree, NEW h \in Requests, pc[h] \in {"authRequest", "authCall", "authSave"}
  PROVE  /\ AuthInv(pc[h], loc[h])
         /\ Len(loc[h].results) < Len(loc[h].shops)
         /\ Current(h) \in BOShopTransaction /\ Current(h).id \in ShopTxIds
<1>1. AuthInv(pc[h], loc[h]) /\ Len(loc[h].results) < Len(loc[h].shops)
  BY InHand DEF HandlerInv, AuthInv
<1> QED BY <1>1, InHand, CurrentType

\* doAuthorization's status before the call keeps HandlersAgree.
LEMMA AuthRequestKeeps ==
  ASSUME HandlersAgree, NEW h \in Requests, AuthRequest(h)
  PROVE  HandlersAgree'
<1> DEFINE doc == WithStatus(Current(h), "AUTHORIZATION_REQUESTED", NoCode)
<1>1. /\ pc[h] = "authRequest" /\ SaveShop(doc) /\ Goto(h, "authCall")
      /\ UNCHANGED <<session, tx, loc, bank, history>>
  BY DEF AuthRequest
<1>2. doc \in BOShopTransaction /\ Exists(doc)
  <2>1. "AUTHORIZATION_REQUESTED" \in ShopTransactionStatus /\ NoCode \in Codes
    BY DEF ShopTransactionStatus, Codes
  <2> QED BY <1>1, <2>1, AuthFacts, WithStatusType
<1>3. "authCall" \in Places
  BY DEF Places, Active
<1>4. Moved(h, "authCall", loc[h])
  BY <1>1, InHand DEF Goto, Moved, TypeOK
<1>5. pc'[h] = "authCall" /\ loc'[h] = loc[h]
  BY <1>3, <1>4, InHand, MovedFacts
<1>6. AuthInv(pc[h], loc[h])'
  BY <1>1, <1>5, AuthFacts, SameWorld DEF AuthInv
<1>7. HandlerInv(h)'
  BY <1>1, <1>5, <1>6, InHand, SameWorld, AtAuth
<1> HIDE DEF doc
<1> QED BY <1>1, <1>2, <1>3, <1>4, <1>7, InHand, DocStep

\* doAuthorization's call, answered or not, keeps HandlersAgree.
LEMMA AuthCallKeeps ==
  ASSUME HandlersAgree, NEW h \in Requests, AuthCall(h)
  PROVE  HandlersAgree'
<1> DEFINE id == Current(h).id
<1>0. PICK answer \in GatewayAnswer :
        /\ authorized' = IF answer.done THEN authorized \cup {id} ELSE authorized
        /\ plainAuth' = IF answer.done /\ ~Current(h).threeDS THEN plainAuth \cup {id} ELSE plainAuth
        /\ Receive(h, answer.code, "authSave")
  BY DEF AuthCall
<1>1. pc[h] = "authCall" /\ UNCHANGED <<session, documents, captured, refunded, page, history>>
  BY DEF AuthCall
<1>2. UNCHANGED <<session, tx, shopTx, captured, refunded, page, labels, mails, finishes, confirmations>>
  BY <1>1 DEF documents, history
<1>3. id \in ShopTxIds
  BY <1>1, AuthFacts
<1>4. answer.code \in Codes /\ (answer.code = SUCCESS_CODE => answer.done)
  BY DEF GatewayAnswer
<1> DEFINE l == [loc[h] EXCEPT !.answer = answer.code]
<1>5. l \in Locals /\ Moved(h, "authSave", l)
  <2>1. loc[h] \in Locals /\ loc \in [Requests -> Locals]
    BY InHand DEF TypeOK
  <2> QED BY <1>0, <1>4, <2>1 DEF Receive, Goto, Moved, Locals
<1>6. "authSave" \in Places
  BY DEF Places, Active
<1>7. pc'[h] = "authSave" /\ loc'[h] = l
  BY <1>5, <1>6, InHand, MovedFacts
<1>8. authorized \subseteq authorized' /\ authorized' \subseteq ShopTxIds /\ plainAuth' \subseteq ShopTxIds
  BY <1>0, <1>3, InHand DEF TypeOK
<1>9. Monotone
  BY <1>2, <1>8 DEF Monotone
<1>10. TypeOK'
  BY <1>2, <1>5, <1>6, <1>8, InHand, MovedFacts DEF TypeOK, Places
<1>11. AllAuthorized => AllAuthorized'
  BY <1>9, MonotoneAuthorized
<1>12. DocumentsInv' /\ WorldInv'
  BY <1>2, <1>8, <1>11, InHand DEF DocumentsInv, WorldInv
<1>13. AuthInv(pc[h], loc[h])'
  <2>1. /\ l.shops = loc[h].shops /\ l.results = loc[h].results /\ l.answer = answer.code
    BY InHand DEF Locals
  <2>2. l.answer = SUCCESS_CODE => id \in authorized'
    BY <1>0, <1>4, <2>1
  <2>3. id = l.shops[Len(l.results) + 1].id
    BY <2>1 DEF Current
  <2>4. CartShops' = CartShops
    BY <1>2 DEF CartShops
  <2> HIDE DEF l, id
  <2> QED BY <1>1, <1>7, <1>8, <2>1, <2>2, <2>3, <2>4, AuthFacts DEF AuthInv
<1>14. HandlerInv(h)'
  <2>1. l.tx = loc[h].tx
    BY InHand DEF Locals
  <2> HIDE DEF l
  <2> QED BY <1>7, <1>11, <1>13, <2>1, InHand, AtAuth
<1> HIDE DEF l, id
<1> QED BY <1>5, <1>6, <1>9, <1>10, <1>12, <1>14, InHand, MovedFacts, OneHandlerMoves

\* The verdict is a success only if every shop was accepted.
LEMMA VerdictType ==
  ASSUME NEW results
  PROVE  /\ Verdict(results) \in {"PAYMENT_AUTHORIZED", "PAYMENT_REFUSED", "PAYMENT_FAILED"}
         /\ Verdict(results) = "PAYMENT_AUTHORIZED" =>
              \A i \in 1..Len(results) : \A j \in 1..i : results[j] = "AUTHORIZED"
  BY DEF Verdict

\* An accepted list that covers the cart is a reservation of the cart.
LEMMA CoveredIsAuthorized ==
  ASSUME TypeOK, NEW shops \in Seq(BOShopTransaction),
         \A s \in CartShops : \E i \in 1..Len(shops) : shops[i].id[2] = s,
         \A i \in 1..Len(shops) : shops[i].id \in authorized
  PROVE  AllAuthorized
<1> SUFFICES ASSUME NEW s \in CartShops
             PROVE  \E r \in StartReqs : <<r, s>> \in authorized
  BY DEF AllAuthorized
<1>1. PICK i \in 1..Len(shops) : shops[i].id[2] = s
  OBVIOUS
<1>2. shops[i].id \in authorized /\ shops[i].id \in StartReqs \X Shops
  BY DEF TypeOK, ShopTxIds
<1>3. shops[i].id = <<shops[i].id[1], s>> /\ shops[i].id[1] \in StartReqs
  BY <1>1, <1>2, PairFacts
<1> QED BY <1>2, <1>3

\* A status derived from a gateway code is a success exactly for the success code.
LEMMA StatusOfType ==
  ASSUME NEW code \in Codes, NEW ok, NEW refused, NEW failed
  PROVE  /\ StatusOf(code, ok, refused, failed) \in {ok, refused, failed}
         /\ code = SUCCESS_CODE => StatusOf(code, ok, refused, failed) = ok
         /\ code # SUCCESS_CODE => StatusOf(code, ok, refused, failed) \in {refused, failed}
  BY DEF StatusOf, Codes, SUCCESS_CODE, NoCode

\* doAuthorization's status after the call, and the verdict of doMultiAuthorizations
\* after the last shop, keeps HandlersAgree.
LEMMA AuthSaveKeeps ==
  ASSUME HandlersAgree, NEW h \in Requests, AuthSave(h)
  PROVE  HandlersAgree'
<1> DEFINE code    == loc[h].answer
           status  == StatusOf(code, "AUTHORIZED", "AUTHORIZATION_REFUSED", "AUTHORIZATION_FAILED")
           results == Append(loc[h].results, status)
           locals  == [loc[h] EXCEPT !.results = results]
           doc     == WithStatus(Current(h), status, code)
           last    == [locals EXCEPT !.status = Verdict(results), !.error = NoCode]
<1>1. /\ pc[h] = "authSave" /\ SaveShop(doc)
      /\ IF IsLast(h) THEN Goto(h, "finish") /\ loc' = [loc EXCEPT ![h] = last]
                      ELSE Goto(h, "authRequest") /\ loc' = [loc EXCEPT ![h] = locals]
      /\ UNCHANGED <<session, tx, bank, history>>
  BY DEF AuthSave, ToFinish
<1>2. code \in Codes /\ status \in ShopTransactionStatus /\ status # "NONE"
      /\ (status = "AUTHORIZED" => code = SUCCESS_CODE)
  <2>1. code \in Codes
    BY InHand, LocalsType
  <2> QED BY <2>1, StatusOfType DEF ShopTransactionStatus
<1>3. doc \in BOShopTransaction /\ Exists(doc)
  BY <1>1, <1>2, AuthFacts, WithStatusType
<1>4. /\ loc[h].results \in Seq(ShopTransactionStatus) /\ loc[h].shops \in Seq(BOShopTransaction)
      /\ loc[h].tx.status \in Success => AllAuthorized
      /\ loc[h] \in Locals
  BY InHand, LocalsType
<1>5. /\ results \in Seq(ShopTransactionStatus) /\ Len(results) = Len(loc[h].results) + 1
      /\ results[Len(loc[h].results) + 1] = status
      /\ \A i \in 1..Len(loc[h].results) : results[i] = loc[h].results[i]
  BY <1>2, <1>4, AppendFacts
<1>6. /\ locals \in Locals
      /\ locals.results = results /\ locals.shops = loc[h].shops /\ locals.tx = loc[h].tx
  <2> HIDE DEF results
  <2> QED BY <1>4, <1>5 DEF Locals
<1>7. /\ last \in Locals /\ last.tx = loc[h].tx /\ last.status = Verdict(results)
  <2>1. Verdict(results) \in TransactionStatus /\ NoCode \in Errors
    BY VerdictType DEF TransactionStatus, Errors, Codes
  <2> HIDE DEF locals, results
  <2> QED BY <1>6, <2>1 DEF Locals
<1>8. \A i \in 1..Len(results) : results[i] = "AUTHORIZED" => loc[h].shops[i].id \in authorized
  <2>1. /\ \A i \in 1..Len(loc[h].results) :
             loc[h].results[i] = "AUTHORIZED" => loc[h].shops[i].id \in authorized
        /\ code = SUCCESS_CODE => loc[h].shops[Len(loc[h].results) + 1].id \in authorized
    BY <1>1, AuthFacts DEF AuthInv
  <2>2. Len(loc[h].results) \in Nat
    BY <1>4
  <2> HIDE DEF results, status, code
  <2> QED BY <1>2, <1>5, <2>1, <2>2
<1>9. \A s \in CartShops : \E i \in 1..Len(loc[h].shops) : loc[h].shops[i].id[2] = s
  BY <1>1, AuthFacts DEF AuthInv
<1> HIDE DEF doc, last, locals, results
<1>10. CASE IsLast(h)
  <2>1. Len(results) = Len(loc[h].shops)
    BY <1>5, <1>10 DEF IsLast
  <2>2. Verdict(results) \in Success => AllAuthorized
    <3> SUFFICES ASSUME Verdict(results) = "PAYMENT_AUTHORIZED" PROVE AllAuthorized
      BY VerdictType DEF Success
    <3>1. \A i \in 1..Len(results) : results[i] = "AUTHORIZED"
      <4>1. Len(results) \in Nat
        BY <1>5
      <4> QED BY <4>1, VerdictType
    <3>2. \A i \in 1..Len(loc[h].shops) : loc[h].shops[i].id \in authorized
      BY <1>8, <2>1, <3>1
    <3> QED BY <1>4, <1>9, <3>2, InHand, CoveredIsAuthorized
  <2>3. Moved(h, "finish", last) /\ "finish" \in Places
    BY <1>1, <1>10 DEF Goto, Moved, Places, Active
  <2>4. pc'[h] = "finish" /\ loc'[h] = last
    BY <1>7, <2>3, InHand, MovedFacts
  <2>5. HandlerInv(h)'
    BY <1>1, <1>4, <1>7, <2>2, <2>4, SameWorld, AtFinish
  <2> QED BY <1>1, <1>3, <1>7, <2>3, <2>5, DocStep
<1>11. CASE ~IsLast(h)
  <2>1. Moved(h, "authRequest", locals) /\ "authRequest" \in Places
    BY <1>1, <1>11 DEF Goto, Moved, Places, Active
  <2>2. pc'[h] = "authRequest" /\ loc'[h] = locals
    BY <1>6, <2>1, InHand, MovedFacts
  <2>3. Len(results) < Len(loc[h].shops)
    <3>1. Len(loc[h].results) \in Nat /\ Len(loc[h].shops) \in Nat
      BY <1>4
    <3> QED BY <1>1, <1>5, <1>11, <3>1, AuthFacts DEF IsLast
  <2>4. AuthInv(pc[h], loc[h])'
    BY <1>1, <1>6, <1>8, <1>9, <2>2, <2>3, SameWorld DEF AuthInv
  <2>5. HandlerInv(h)'
    BY <1>1, <1>4, <1>6, <2>2, <2>4, SameWorld, AtAuth
  <2> QED BY <1>1, <1>3, <1>6, <2>1, <2>5, DocStep
<1> QED BY <1>10, <1>11

-----------------------------------------------------------------------------
(* startPayment and doWebPayment.                                          *)

\* A handler that goes on to finishTransaction with a justified status keeps what it must
\* know.
LEMMA ToFinishMoves ==
  ASSUME TypeOK, NEW h \in Requests, NEW locals \in Locals, NEW status \in TransactionStatus,
         NEW error \in Errors, ToFinish(h, locals, status, error),
         locals.tx.status \in Success => AllAuthorized',
         status \in Success => AllAuthorized'
  PROVE  "finish" \in Places /\ \E l \in Locals : Moved(h, "finish", l) /\ HandlerInv(h)'
<1> DEFINE l == [locals EXCEPT !.status = status, !.error = error]
<1>1. l \in Locals /\ l.tx = locals.tx /\ l.status = status
  BY DEF Locals
<1>2. Moved(h, "finish", l) /\ "finish" \in Places
  BY DEF ToFinish, Goto, Moved, Places, Active
<1> HIDE DEF l
<1>3. pc'[h] = "finish" /\ loc'[h] = l
  BY <1>1, <1>2, MovedFacts
<1> QED BY <1>1, <1>2, <1>3, AtFinish

\* startPayment's reset of the transaction keeps HandlersAgree.
LEMMA StartPaymentKeeps ==
  ASSUME HandlersAgree, NEW h \in StartReqs, StartPayment(h)
  PROVE  HandlersAgree'
<1> DEFINE locals == [NoLocals EXCEPT !.tx = NewTx]
<1>0. h \in Requests
  BY DEF Requests
<1>1. /\ tx' = NewTx /\ UNCHANGED <<session, shopTx, bank, history>>
      /\ CASE session.cart = <<>> -> ToFinish(h, locals, "COMPLETED", NoCode)
           [] session.cart # <<>> /\ ~session.mogopay /\ session.paymentMethod = "EXTERNAL"
                /\ Len(session.cart) > 1 ->
                ToFinish(h, locals, "FAILED", "ERROR_EXTERNAL_PAYMENT_NOT_ALLOWED_WITH_MANY_SHOPS")
           [] OTHER -> Goto(h, "createShops") /\ loc' = [loc EXCEPT ![h] = locals]
  BY DEF StartPayment
<1>2. NewTx \in BOTransaction /\ NewTx.status \notin Success
  BY DEF NewTx, NoTx, BOTransaction, NoCode, Codes, Errors, TransactionStatus, Success
<1>3. /\ locals \in Locals /\ locals.tx = NewTx /\ locals.shops = <<>> /\ locals.results = <<>>
  <2>1. NoLocals \in Locals /\ NoLocals.shops = <<>> /\ NoLocals.results = <<>>
    BY NoLocalsType DEF NoLocals
  <2> QED BY <1>2, <2>1 DEF Locals
<1>4. UNCHANGED <<session, bank, labels, mails, finishes, confirmations>> /\ finishes' \in Nat
  BY <1>0, <1>1, InHand DEF history, TypeOK
<1>5. AllAuthorized' = AllAuthorized
  BY <1>1, SameWorld
<1> HIDE DEF locals
<1>6. CASE session.cart = <<>>
  <2>1. ToFinish(h, locals, "COMPLETED", NoCode)
    BY <1>1, <1>6
  <2>2. AllAuthorized'
    <3>1. CartShops = {}
      BY <1>6 DEF CartShops
    <3> QED BY <1>5, <3>1 DEF AllAuthorized
  <2>3. "COMPLETED" \in TransactionStatus /\ NoCode \in Errors
    BY DEF TransactionStatus, Errors, Codes
  <2>4. "finish" \in Places /\ \E l \in Locals : Moved(h, "finish", l) /\ HandlerInv(h)'
    BY <1>0, <1>3, <2>1, <2>2, <2>3, InHand, ToFinishMoves
  <2> QED BY <1>0, <1>1, <1>2, <1>4, <2>4, TxStep
<1>7. CASE session.cart # <<>> /\ ~session.mogopay /\ session.paymentMethod = "EXTERNAL"
             /\ Len(session.cart) > 1
  <2>1. ToFinish(h, locals, "FAILED", "ERROR_EXTERNAL_PAYMENT_NOT_ALLOWED_WITH_MANY_SHOPS")
    BY <1>1, <1>7
  <2>2. "FAILED" \in TransactionStatus /\ "FAILED" \notin Success
        /\ "ERROR_EXTERNAL_PAYMENT_NOT_ALLOWED_WITH_MANY_SHOPS" \in Errors
    BY DEF TransactionStatus, Errors, Success
  <2>3. "finish" \in Places /\ \E l \in Locals : Moved(h, "finish", l) /\ HandlerInv(h)'
    BY <1>0, <1>2, <1>3, <2>1, <2>2, InHand, ToFinishMoves
  <2> QED BY <1>0, <1>1, <1>2, <1>4, <2>3, TxStep
<1>8. CASE /\ session.cart # <<>>
           /\ ~(~session.mogopay /\ session.paymentMethod = "EXTERNAL" /\ Len(session.cart) > 1)
  <2>1. Moved(h, "createShops", locals) /\ "createShops" \in Places
    BY <1>1, <1>8 DEF Moved, Goto, Places, Active
  <2>2. pc'[h] = "createShops" /\ loc'[h] = locals
    BY <1>0, <1>3, <2>1, InHand, MovedFacts
  <2>3. session' = session /\ Len(session.cart) \in Nat /\ Len(session.cart) > 0
    BY <1>0, <1>1, <1>8, InHand, CartType
  <2>4. CreateInv(h, pc[h], loc[h])'
    <3>1. loc'[h].shops = <<>> /\ loc'[h].results = <<>> /\ Len(loc'[h].shops) = 0
      BY <1>3, <2>2
    <3>2. OwnShops(h, loc[h].shops)'
      BY <3>1 DEF OwnShops
    <3>3. ~session.mogopay /\ session.paymentMethod = "EXTERNAL" => Len(session.cart) = 1
      <4> SUFFICES ASSUME ~session.mogopay, session.paymentMethod = "EXTERNAL"
                   PROVE  Len(session.cart) = 1
        BY Zenon
      <4>1. ~(Len(session.cart) > 1)
        BY <1>8, Zenon
      <4> QED BY <2>3, <4>1, OneLeft
    <3> QED BY <2>3, <3>1, <3>2, <3>3 DEF CreateInv
  <2>5. HandlerInv(h)'
    BY <1>2, <1>3, <2>2, <2>4, AtCreate
  <2> QED BY <1>0, <1>1, <1>2, <1>3, <1>4, <2>1, <2>5, TxStep
<1> QED BY <1>6, <1>7, <1>8

\* The copies of a start request stay its own when one more document is written.
LEMMA OwnAfterSave ==
  ASSUME TypeOK, DocumentsInv, session' = session, NEW doc \in BOShopTransaction, Exists(doc),
         SaveShop(doc), NEW h, NEW shops \in Seq(BOShopTransaction), OwnShops(h, shops)
  PROVE  OwnShops(h, shops)'
<1>1. \A i \in 1..Len(shops) : shops[i] \in BOShopTransaction
  OBVIOUS
<1>2. \A i \in 1..Len(shops) : shops[i].id \in ShopTxIds
  BY <1>1 DEF BOShopTransaction
<1> QED BY <1>2, SaveShopFacts DEF OwnShops, Exists

\* createBOShopTransaction keeps HandlersAgree.
LEMMA CreateShopTransactionKeeps ==
  ASSUME HandlersAgree, NEW h \in Requests, CreateShopTransaction(h)
  PROVE  HandlersAgree'
<1> DEFINE n     == Len(loc[h].shops) + 1
           id    == <<h, session.cart[n]>>
           doc   == [NoShopTx(id) EXCEPT !.status = "INITIATED"]
           shops == Append(loc[h].shops, doc)
           l     == [loc[h] EXCEPT !.shops = shops]
           p     == IF n = Len(session.cart) THEN AfterCreation ELSE "createShops"
<1>1. /\ pc[h] = "createShops" /\ SaveShop(doc) /\ Goto(h, p)
      /\ loc' = [loc EXCEPT ![h].shops = Append(@, doc)]
      /\ UNCHANGED <<session, tx, bank, history>>
  BY DEF CreateShopTransaction
<1>2. /\ OwnShops(h, loc[h].shops) /\ Len(loc[h].shops) < Len(session.cart) /\ loc[h].results = <<>>
      /\ ~session.mogopay /\ session.paymentMethod = "EXTERNAL" => Len(session.cart) = 1
      /\ h \in StartReqs
  BY <1>1, InHand DEF HandlerInv, CreateInv, OwnShops
<1>3. /\ loc[h].shops \in Seq(BOShopTransaction) /\ Len(loc[h].shops) \in Nat
      /\ Len(session.cart) \in Nat /\ session.cart \in Seq(Shops) /\ loc[h] \in Locals
  BY InHand, LocalsType, CartType
<1>4. n \in 1..Len(session.cart) /\ n \in Nat
  BY <1>2, <1>3
<1>5. id \in ShopTxIds
  <2>1. session.cart[n] \in Shops
    BY <1>3, <1>4
  <2> QED BY <1>2, <2>1 DEF ShopTxIds
<1>6. doc \in BOShopTransaction /\ doc.id = id /\ Exists(doc)
  <2> HIDE DEF id
  <2> QED BY <1>5 DEF NoShopTx, BOShopTransaction, Exists, ShopTransactionStatus, NoCode, Codes
<1> HIDE DEF doc
<1>7. /\ shops \in Seq(BOShopTransaction) /\ Len(shops) = n /\ shops[n] = doc
      /\ \A i \in 1..Len(loc[h].shops) : shops[i] = loc[h].shops[i]
  BY <1>3, <1>6, AppendFacts
<1> HIDE DEF shops
<1>8. l \in Locals /\ l.shops = shops /\ l.results = <<>> /\ l.tx = loc[h].tx
  BY <1>2, <1>3, <1>7 DEF Locals
<1>9. Moved(h, p, l) /\ p \in Places
  <2>1. p \in Places
    BY DEF AfterCreation, Places, Active
  <2>2. loc \in [Requests -> Locals]
    BY InHand DEF TypeOK
  <2> QED BY <1>1, <2>1, <2>2 DEF Moved, Goto, shops
<1>10. pc'[h] = p /\ loc'[h] = l
  BY <1>8, <1>9, InHand, MovedFacts
<1> HIDE DEF l
<1>11. session' = session /\ AllAuthorized' = AllAuthorized /\ CartShops' = CartShops
       /\ authorized' = authorized
  BY <1>1, SameWorld
<1>12. OwnShops(h, loc[h].shops)' /\ loc'[h].shops = shops
  <2>1. OwnShops(h, loc[h].shops) /\ h \in StartReqs
    BY <1>2
  <2>2. /\ \A i \in 1..Len(loc[h].shops) : loc[h].shops[i] \in BOShopTransaction
        /\ \A i \in 1..Len(loc[h].shops) : loc[h].shops[i].id \in ShopTxIds
    <3>1. \A i \in 1..Len(loc[h].shops) : loc[h].shops[i] \in BOShopTransaction
      BY <1>3
    <3> QED BY <3>1 DEF BOShopTransaction
  <2>3. /\ \A i \in ShopTxIds : Exists(shopTx[i]) => Exists(shopTx'[i])
        /\ Exists(shopTx'[doc.id])
    BY <1>1, <1>6, InHand, SaveShopFacts
  <2>4. ASSUME NEW i \in 1..Len(shops)
        PROVE  /\ i \in 1..Len(session.cart)
               /\ shops[i].id = <<h, session.cart[i]>>
               /\ Exists(shopTx'[shops[i].id])
    <3>1. CASE i = n
      BY <1>4, <1>6, <1>7, <2>3, <3>1
    <3>2. CASE i # n
      <4>1. i \in 1..Len(loc[h].shops) /\ shops[i] = loc[h].shops[i]
        BY <1>3, <1>7, <3>2
      <4> QED BY <2>1, <2>2, <2>3, <4>1 DEF OwnShops
    <3> QED BY <3>1, <3>2
  <2>5. /\ h \in StartReqs
        /\ \A i \in 1..Len(shops) : /\ i \in 1..Len(session'.cart)
                                    /\ shops[i].id = <<h, session'.cart[i]>>
                                    /\ Exists(shopTx'[shops[i].id])
    BY <1>2, <1>11, <2>4
  <2> QED BY <1>8, <1>10, <2>5 DEF OwnShops, Exists
<1>13. CASE n # Len(session.cart)
  <2>1. CreateInv(h, pc[h], loc[h])'
    BY <1>2, <1>3, <1>7, <1>8, <1>10, <1>11, <1>12, <1>13 DEF CreateInv
  <2>2. HandlerInv(h)'
    BY <1>8, <1>10, <1>11, <1>13, <2>1, InHand, AtCreate
  <2> QED BY <1>1, <1>6, <1>8, <1>9, <2>2, DocStep
<1>14. CASE n = Len(session.cart)
  <2>1. p = AfterCreation /\ Len(shops) = Len(session.cart) /\ Len(l.results) = 0
    BY <1>7, <1>8, <1>14
  <2>2. CASE p = "authRequest"
    <3>1. \A s \in CartShops : \E i \in 1..Len(shops) : shops[i].id[2] = s
      <4>1. \A i \in 1..Len(shops) : shops[i].id = <<h, session.cart[i]>>
        BY <1>11, <1>12 DEF OwnShops
      <4> QED BY <2>1, <4>1 DEF CartShops
    <3>2. AuthInv(pc[h], loc[h])'
      BY <1>4, <1>8, <1>10, <1>11, <2>1, <2>2, <3>1 DEF AuthInv
    <3>3. HandlerInv(h)'
      BY <1>8, <1>10, <1>11, <2>2, <3>2, InHand, AtAuth
    <3> QED BY <1>1, <1>6, <1>8, <1>9, <3>3, DocStep
  <2>3. CASE p = "webRequest"
    <3>1. Len(session.cart) = 1
      BY <1>2, <2>1, <2>3 DEF AfterCreation
    <3>2. WebInv(h, pc[h], loc[h])'
      BY <1>8, <1>10, <1>11, <1>12, <2>1, <3>1 DEF WebInv
    <3>3. HandlerInv(h)'
      BY <1>8, <1>10, <1>11, <2>3, <3>2, InHand, AtWeb
    <3> QED BY <1>1, <1>6, <1>8, <1>9, <3>3, DocStep
  <2>4. CASE p = "enrollRequest"
    <3>1. EnrollInv(h, pc[h], loc[h])'
      BY <1>4, <1>8, <1>10, <1>11, <1>12, <2>1, <2>4 DEF EnrollInv
    <3>2. HandlerInv(h)'
      BY <1>8, <1>10, <1>11, <2>4, <3>1, InHand, AtEnroll
    <3> QED BY <1>1, <1>6, <1>8, <1>9, <3>2, DocStep
  <2> QED BY <2>1, <2>2, <2>3, <2>4 DEF AfterCreation
<1> QED BY <1>13, <1>14

\* A handler that goes to another step and keeps its locals.
LEMMA StayFacts ==
  ASSUME TypeOK, NEW h \in Requests, NEW p \in Places, Goto(h, p), loc' = loc
  PROVE  Moved(h, p, loc[h]) /\ pc'[h] = p /\ loc'[h] = loc[h]
<1>1. pc \in [Requests -> Places] /\ loc \in [Requests -> Locals]
  BY DEF TypeOK, Places
<1> QED BY <1>1 DEF Goto, Moved

\* A write of the current copy with a new status, after which the handler goes on.
LEMMA SaveCurrentStep ==
  ASSUME HandlersAgree, NEW h \in Requests, Len(loc[h].results) < Len(loc[h].shops),
         NEW status \in ShopTransactionStatus, status # "NONE", NEW code \in Codes,
         SaveShop(WithStatus(Current(h), status, code)),
         NEW p \in Places, NEW l \in Locals, Moved(h, p, l),
         UNCHANGED <<session, tx, bank, history>>, HandlerInv(h)'
  PROVE  HandlersAgree'
<1>1. Current(h) \in BOShopTransaction
  BY InHand, CurrentType
<1>2. WithStatus(Current(h), status, code) \in BOShopTransaction
      /\ Exists(WithStatus(Current(h), status, code))
  BY <1>1, WithStatusType
<1> QED BY <1>2, DocStep

\* A loop over a single shop transaction is at its first and last turn.
LEMMA OneShop ==
  ASSUME NEW h, loc[h].results = <<>>, Len(loc[h].shops) = 1
  PROVE  Len(loc[h].results) < Len(loc[h].shops) /\ Current(h) = loc[h].shops[1] /\ IsLast(h)
  BY DEF Current, IsLast

\* doWebPayment's status before the call keeps HandlersAgree.
LEMMA WebRequestKeeps ==
  ASSUME HandlersAgree, NEW h \in Requests, WebRequest(h)
  PROVE  HandlersAgree'
<1>1. /\ pc[h] = "webRequest" /\ SaveShop(WithStatus(Current(h), "PAYMENT_EXTERNAL_REQUESTED", NoCode))
      /\ Goto(h, "webAnswer") /\ loc' = loc
      /\ UNCHANGED <<session, tx, bank, history>>
  BY DEF WebRequest
<1>2. /\ OwnShops(h, loc[h].shops) /\ Len(loc[h].shops) = 1 /\ Len(session.cart) = 1
      /\ loc[h].results = <<>>
  BY <1>1, InHand DEF HandlerInv, WebInv
<1>3. "PAYMENT_EXTERNAL_REQUESTED" \in ShopTransactionStatus /\ NoCode \in Codes /\ "webAnswer" \in Places
  BY DEF ShopTransactionStatus, Codes, Places, Active
<1>4. Moved(h, "webAnswer", loc[h]) /\ pc'[h] = "webAnswer" /\ loc'[h] = loc[h]
  BY <1>1, <1>3, InHand, StayFacts
<1>5. OwnShops(h, loc[h].shops)'
  <2>1. Current(h) \in BOShopTransaction
    BY <1>2, InHand, OneShop, CurrentType
  <2>2. /\ WithStatus(Current(h), "PAYMENT_EXTERNAL_REQUESTED", NoCode) \in BOShopTransaction
        /\ Exists(WithStatus(Current(h), "PAYMENT_EXTERNAL_REQUESTED", NoCode))
    BY <1>3, <2>1, WithStatusType
  <2> QED BY <1>1, <1>2, <1>4, <2>2, InHand, LocalsType, OwnAfterSave
<1>6. HandlerInv(h)'
  <2>1. WebInv(h, pc[h], loc[h])'
    BY <1>1, <1>2, <1>4, <1>5, SameWorld DEF WebInv
  <2> QED BY <1>1, <1>4, <2>1, InHand, SameWorld, AtWeb
<1> QED BY <1>1, <1>2, <1>3, <1>4, <1>6, InHand, OneShop, SaveCurrentStep

\* doWebPayment's answer keeps HandlersAgree.
LEMMA WebAnswerKeeps ==
  ASSUME HandlersAgree, NEW h \in Requests, WebAnswer(h)
  PROVE  HandlersAgree'
<1> DEFINE cur == Current(h)
<1>1. pc[h] = "webAnswer" /\ UNCHANGED <<session, tx, authorized, plainAuth, captured, refunded, history>>
  BY DEF WebAnswer
<1>2. /\ OwnShops(h, loc[h].shops) /\ Len(loc[h].shops) = 1 /\ Len(session.cart) = 1
      /\ loc[h].results = <<>>
  BY <1>1, InHand DEF HandlerInv, WebInv
<1>3. cur \in BOShopTransaction /\ cur.id \in ShopTxIds /\ cur.id[2] = session.cart[1]
  <2>1. cur = loc[h].shops[1] /\ cur \in BOShopTransaction /\ cur.id \in ShopTxIds
    BY <1>2, InHand, OneShop, CurrentType
  <2> QED BY <1>2, <2>1 DEF OwnShops
<1>4. \A status \in ShopTransactionStatus \ {"NONE"}, code \in Codes, token \in BOOLEAN :
        LET doc == [WithStatus(cur, status, code) EXCEPT !.token = token]
        IN  doc \in BOShopTransaction /\ Exists(doc)
  <2> HIDE DEF cur
  <2> QED BY <1>3 DEF WithStatus, BOShopTransaction, Exists
<1> HIDE DEF cur
<1>5. CASE /\ SaveShop([WithStatus(cur, "PAYMENT_EXTERNAL_PROCESSING", SUCCESS_CODE) EXCEPT !.token = TRUE])
           /\ page' = [page EXCEPT ![cur.id] = "open"]
           /\ End(h, "redirect")
  <2> DEFINE doc == [WithStatus(cur, "PAYMENT_EXTERNAL_PROCESSING", SUCCESS_CODE) EXCEPT !.token = TRUE]
  <2>1. doc \in BOShopTransaction /\ Exists(doc) /\ SaveShop(doc)
    <3>1. "PAYMENT_EXTERNAL_PROCESSING" \in ShopTransactionStatus \ {"NONE"} /\ SUCCESS_CODE \in Codes
          /\ TRUE \in BOOLEAN
      BY DEF ShopTransactionStatus, Codes
    <3> QED BY <1>4, <1>5, <3>1
  <2> HIDE DEF doc
  <2>2. Moved(h, "redirect", NoLocals) /\ HandlerInv(h)' /\ "redirect" \in Places
    BY <1>5, EndMoves DEF Places, Final
  <2>3. /\ UNCHANGED <<session, tx, authorized, plainAuth, captured, refunded, labels, mails, finishes, confirmations>>
        /\ AllAuthorized' = AllAuthorized
    BY <1>1 DEF history, AllAuthorized, CartShops
  <2>4. TypeOK /\ DocumentsInv /\ WorldInv
    BY InHand
  <2>5. /\ page' \in [ShopTxIds -> {"none", "open", "paid", "refused"}]
        /\ \A i \in ShopTxIds : page'[i] = IF i = cur.id THEN "open" ELSE page[i]
    BY <1>3, <1>5, <2>4 DEF TypeOK
  <2>6. TypeOK'
    BY <2>1, <2>2, <2>3, <2>4, <2>5, NoLocalsType, MovedFacts, SaveShopFacts DEF TypeOK, Places
  <2>7. DocumentsInv'
    BY <2>1, <2>3, <2>4, SaveShopFacts DEF DocumentsInv
  <2>8. WorldInv'
    BY <1>2, <1>3, <2>3, <2>4, <2>5 DEF WorldInv
  <2>9. Monotone
    BY <2>1, <2>3, <2>4, <2>5, SaveShopFacts DEF Monotone
  <2> QED BY <2>2, <2>4, <2>6, <2>7, <2>8, <2>9, NoLocalsType, MovedFacts, OneHandlerMoves
<1>6. ASSUME NEW code \in Codes \ {SUCCESS_CODE}, NEW token \in BOOLEAN,
             SaveShop([WithStatus(cur, "PAYMENT_EXTERNAL_FAILED", code) EXCEPT !.token = token]),
             ToFinish(h, loc[h], "FAILED", code), UNCHANGED page
      PROVE  HandlersAgree'
  <2> DEFINE doc == [WithStatus(cur, "PAYMENT_EXTERNAL_FAILED", code) EXCEPT !.token = token]
  <2>1. doc \in BOShopTransaction /\ Exists(doc) /\ SaveShop(doc)
    <3>1. "PAYMENT_EXTERNAL_FAILED" \in ShopTransactionStatus \ {"NONE"}
      BY DEF ShopTransactionStatus
    <3> QED BY <1>4, <1>6, <3>1
  <2> HIDE DEF doc
  <2>2. UNCHANGED <<session, tx, bank, history>>
    BY <1>1, <1>6 DEF bank
  <2>3. "FAILED" \in TransactionStatus /\ "FAILED" \notin Success /\ code \in Errors
    BY DEF TransactionStatus, Success, Errors
  <2>4. "finish" \in Places /\ \E l \in Locals : Moved(h, "finish", l) /\ HandlerInv(h)'
    BY <1>6, <2>2, <2>3, InHand, SameWorld, ToFinishMoves
  <2> QED BY <2>1, <2>2, <2>4, DocStep
<1> QED BY <1>5, <1>6 DEF WebAnswer, cur

\* The payer's decision on Payline's page keeps HandlersAgree.
LEMMA PayerDecidesKeeps ==
  ASSUME HandlersAgree, NEW id \in ShopTxIds, PayerDecides(id)
  PROVE  HandlersAgree'
<1>1. /\ page[id] = "open"
      /\ UNCHANGED <<session, tx, shopTx, pc, loc, plainAuth, captured, refunded, labels, mails,
                     finishes, confirmations>>
  BY DEF PayerDecides, documents, history
<1>2. TypeOK /\ DocumentsInv /\ WorldInv
  BY DEF HandlersAgree
<1>3. /\ authorized \subseteq authorized' /\ authorized' \subseteq ShopTxIds
      /\ page' \in [ShopTxIds -> {"none", "open", "paid", "refused"}]
      /\ \A i \in ShopTxIds \ {id} : page'[i] = page[i]
      /\ page'[id] \in {"paid", "refused"}
      /\ page'[id] = "paid" => id \in authorized'
  BY <1>2 DEF PayerDecides, TypeOK
<1>4. Monotone
  BY <1>1, <1>3 DEF Monotone
<1>5. TypeOK'
  BY <1>1, <1>2, <1>3 DEF TypeOK
<1>6. AllAuthorized => AllAuthorized'
  BY <1>4, MonotoneAuthorized
<1>7. DocumentsInv' /\ WorldInv'
  BY <1>1, <1>2, <1>3, <1>6 DEF DocumentsInv, WorldInv
<1>8. ASSUME NEW g \in Requests PROVE HandlerInv(g)'
  BY <1>1, <1>2, <1>4, OthersKeep DEF HandlersAgree
<1> QED BY <1>5, <1>7, <1>8 DEF HandlersAgree

-----------------------------------------------------------------------------
(* done, callbackPayment and getWebPaymentDetails.                         *)

\* done and callback, reading the shop transaction, keep HandlersAgree.
LEMMA ReturnShopKeeps ==
  ASSUME HandlersAgree, NEW h \in Requests, ReturnShop(h)
  PROVE  HandlersAgree'
<1>0. loc[h].results = <<>>
  BY InHand DEF ReturnShop, HandlerInv, IdleInv, NoLocals
<1>1. PICK id \in ShopTxIds :
        page[id] # "none" /\ loc' = [loc EXCEPT ![h].shops = <<shopTx[id]>>]
  BY DEF ReturnShop
<1>2. Goto(h, "returnRead") /\ UNCHANGED <<session, documents, bank, history>>
  BY DEF ReturnShop
<1> DEFINE l == [loc[h] EXCEPT !.shops = <<shopTx[id]>>]
<1>3. shopTx[id] \in BOShopTransaction /\ shopTx[id].id = id
  BY InHand DEF TypeOK, DocumentsInv
<1>4. <<shopTx[id]>> \in Seq(BOShopTransaction) /\ Len(<<shopTx[id]>>) = 1
  BY <1>3
<1>5. l \in Locals /\ l.tx = loc[h].tx /\ l.shops = <<shopTx[id]>> /\ l.results = <<>>
  BY <1>0, <1>3, <1>4, InHand DEF Locals
<1>6. Moved(h, "returnRead", l) /\ "returnRead" \in Places
  <2>1. loc \in [Requests -> Locals]
    BY InHand DEF TypeOK
  <2> QED BY <1>1, <1>2, <2>1 DEF Moved, Goto, Places, Active
<1> HIDE DEF l
<1>7. pc'[h] = "returnRead" /\ loc'[h] = l
  BY <1>5, <1>6, InHand, MovedFacts
<1>8. DetailsInv(pc[h], loc[h])'
  <2>1. loc'[h].shops = <<shopTx[id]>> /\ loc'[h].results = <<>>
    BY <1>5, <1>7
  <2>2. Len(loc'[h].shops) = 1 /\ loc'[h].shops[1].id = id
    BY <1>3, <2>1
  <2>3. page'[loc'[h].shops[1].id] # "none"
    BY <1>1, <1>2, <2>2, SameWorld
  <2> QED BY <1>7, <2>1, <2>2, <2>3 DEF DetailsInv
<1>9. HandlerInv(h)'
  BY <1>2, <1>5, <1>7, <1>8, InHand, SameWorld, AtDetails DEF DocumentsInv
<1> QED BY <1>2, <1>5, <1>6, <1>9, QuietStep

\* getWebPaymentDetails works on the one shop transaction that was found.
LEMMA DetailsFacts ==
  ASSUME HandlersAgree, NEW h \in Requests,
         pc[h] \in {"returnRead", "detailsRequest", "detailsCall", "detailsSave"}
  PROVE  /\ DetailsInv(pc[h], loc[h])
         /\ Len(loc[h].results) < Len(loc[h].shops) /\ Current(h) = loc[h].shops[1]
         /\ Current(h) \in BOShopTransaction /\ Current(h).id \in ShopTxIds
<1>1. DetailsInv(pc[h], loc[h]) /\ loc[h].results = <<>> /\ Len(loc[h].shops) = 1
  BY InHand DEF HandlerInv, DetailsInv
<1> QED BY <1>1, InHand, OneShop, CurrentType

\* done and callback, reading the transaction next, keep HandlersAgree.
LEMMA ReturnReadKeeps ==
  ASSUME HandlersAgree, NEW h \in Requests, ReturnRead(h)
  PROVE  HandlersAgree'
<1>1. /\ pc[h] = "returnRead" /\ Goto(h, "detailsRequest") /\ loc' = [loc EXCEPT ![h].tx = tx]
      /\ UNCHANGED <<session, documents, bank, history>>
  BY DEF ReturnRead
<1> DEFINE l == [loc[h] EXCEPT !.tx = tx]
<1>2. loc \in [Requests -> Locals] /\ loc[h] \in Locals /\ tx \in BOTransaction
  BY InHand DEF TypeOK
<1>3. l \in Locals /\ l.tx = tx /\ l.shops = loc[h].shops /\ l.results = loc[h].results
  BY <1>2 DEF Locals
<1>4. Moved(h, "detailsRequest", l) /\ "detailsRequest" \in Places
  BY <1>1, <1>2 DEF Moved, Goto, Places, Active
<1> HIDE DEF l
<1>5. pc'[h] = "detailsRequest" /\ loc'[h] = l
  BY <1>3, <1>4, InHand, MovedFacts
<1>6. DetailsInv(pc[h], loc[h])'
  BY <1>1, <1>3, <1>5, DetailsFacts, SameWorld DEF DetailsInv
<1>7. HandlerInv(h)'
  BY <1>1, <1>3, <1>5, <1>6, InHand, SameWorld, AtDetails DEF DocumentsInv
<1> QED BY <1>1, <1>3, <1>4, <1>7, QuietStep

\* getWebPaymentDetails' status before the call keeps HandlersAgree.
LEMMA DetailsRequestKeeps ==
  ASSUME HandlersAgree, NEW h \in Requests, DetailsRequest(h)
  PROVE  HandlersAgree'
<1>1. /\ pc[h] = "detailsRequest" /\ SaveShop(WithStatus(Current(h), "PAYMENT_VERIFICATION", NoCode))
      /\ Goto(h, "detailsCall") /\ loc' = loc /\ UNCHANGED <<session, tx, bank, history>>
  BY DEF DetailsRequest
<1>2. "PAYMENT_VERIFICATION" \in ShopTransactionStatus /\ NoCode \in Codes /\ "detailsCall" \in Places
  BY DEF ShopTransactionStatus, Codes, Places, Active
<1>3. Moved(h, "detailsCall", loc[h]) /\ pc'[h] = "detailsCall" /\ loc'[h] = loc[h]
  BY <1>1, <1>2, InHand, StayFacts
<1>4. HandlerInv(h)'
  <2>1. DetailsInv(pc[h], loc[h])'
    BY <1>1, <1>3, DetailsFacts, SameWorld DEF DetailsInv
  <2> QED BY <1>1, <1>3, <2>1, InHand, SameWorld, AtDetails
<1> QED BY <1>1, <1>2, <1>3, <1>4, InHand, DetailsFacts, SaveCurrentStep

\* The answer is the only local that a call changes.
LEMMA ReceiveFacts ==
  ASSUME TypeOK, NEW h \in Requests, NEW code \in Codes, NEW p \in Places, Receive(h, code, p)
  PROVE  \E l \in Locals :
           /\ Moved(h, p, l) /\ pc'[h] = p /\ loc'[h] = l
           /\ l.tx = loc[h].tx /\ l.shops = loc[h].shops /\ l.results = loc[h].results
           /\ l.answer = code
<1> DEFINE l == [loc[h] EXCEPT !.answer = code]
<1>1. loc[h] \in Locals /\ loc \in [Requests -> Locals]
  BY DEF TypeOK
<1>2. l \in Locals /\ l.tx = loc[h].tx /\ l.shops = loc[h].shops /\ l.results = loc[h].results
      /\ l.answer = code
  BY <1>1 DEF Locals
<1>3. Moved(h, p, l)
  BY <1>1 DEF Receive, Goto, Moved
<1> HIDE DEF l
<1> QED BY <1>2, <1>3, MovedFacts

\* getWebPaymentDetails' call keeps HandlersAgree.
LEMMA DetailsCallKeeps ==
  ASSUME HandlersAgree, NEW h \in Requests, DetailsCall(h)
  PROVE  HandlersAgree'
<1>1. pc[h] = "detailsCall" /\ UNCHANGED <<session, documents, bank, history>>
  BY DEF DetailsCall
<1>2. PICK code \in Codes :
        /\ code = SUCCESS_CODE => page[Current(h).id] = "paid"
        /\ Receive(h, code, "detailsSave")
  BY DEF DetailsCall
<1>3. "detailsSave" \in Places
  BY DEF Places, Active
<1>4. PICK l \in Locals :
        /\ Moved(h, "detailsSave", l) /\ pc'[h] = "detailsSave" /\ loc'[h] = l
        /\ l.tx = loc[h].tx /\ l.shops = loc[h].shops /\ l.results = loc[h].results
        /\ l.answer = code
  BY <1>2, <1>3, InHand, ReceiveFacts
<1>5. code = SUCCESS_CODE => Current(h).id \in authorized
  BY <1>1, <1>2, InHand, DetailsFacts DEF WorldInv
<1>6. HandlerInv(h)'
  <2>1. DetailsInv(pc[h], loc[h])'
    BY <1>1, <1>4, <1>5, DetailsFacts, SameWorld DEF DetailsInv
  <2> QED BY <1>1, <1>4, <2>1, InHand, SameWorld, AtDetails
<1> QED BY <1>1, <1>3, <1>4, <1>6, QuietStep

\* A payment on the page reserves the whole cart, which has one shop.
LEMMA PageIsAuthorized ==
  ASSUME HandlersAgree, NEW id \in ShopTxIds, page[id] # "none", id \in authorized
  PROVE  AllAuthorized
<1>1. TypeOK /\ Len(session.cart) = 1 /\ id[2] = session.cart[1]
  BY DEF HandlersAgree, WorldInv
<1>2. id = <<id[1], id[2]>> /\ id[1] \in StartReqs
  BY PairFacts DEF ShopTxIds
<1>3. CartShops = {session.cart[1]}
  <2>1. 1..Len(session.cart) = {1}
    BY <1>1
  <2> QED BY <2>1 DEF CartShops
<1> QED BY <1>1, <1>2, <1>3 DEF AllAuthorized

\* getWebPaymentDetails' status after the call keeps HandlersAgree.
LEMMA DetailsSaveKeeps ==
  ASSUME HandlersAgree, NEW h \in Requests, DetailsSave(h)
  PROVE  HandlersAgree'
<1> DEFINE code   == loc[h].answer
           paid   == code = SUCCESS_CODE
           status == IF paid THEN "PAYMENT_VERIFIED" ELSE "PAYMENT_VERIFICATION_FAILED"
           result == IF paid THEN "COMPLETED" ELSE "PAYMENT_REFUSED"
<1>1. /\ pc[h] = "detailsSave" /\ SaveShop(WithStatus(Current(h), status, code))
      /\ ToFinish(h, loc[h], result, Current(h).errorCode)
      /\ UNCHANGED <<session, tx, bank, history>>
  BY DEF DetailsSave
<1>2. /\ status \in ShopTransactionStatus /\ status # "NONE" /\ result \in TransactionStatus
      /\ result \in Success => paid
  BY DEF ShopTransactionStatus, TransactionStatus, Success
<1>3. code \in Codes /\ Current(h).errorCode \in Errors
  BY <1>1, InHand, LocalsType, DetailsFacts DEF BOShopTransaction, Errors
<1>4. paid => AllAuthorized
  <2>1. paid => Current(h).id \in authorized /\ page[Current(h).id] # "none"
    BY <1>1, DetailsFacts DEF DetailsInv
  <2> QED BY <1>1, <2>1, DetailsFacts, PageIsAuthorized
<1> HIDE DEF status, result, paid
<1>5. "finish" \in Places /\ \E l \in Locals : Moved(h, "finish", l) /\ HandlerInv(h)'
  BY <1>1, <1>2, <1>3, <1>4, InHand, SameWorld, ToFinishMoves
<1> QED BY <1>1, <1>2, <1>3, <1>5, DetailsFacts, SaveCurrentStep

-----------------------------------------------------------------------------
(* verifyEnrollment and threeDSCallback.                                   *)

\* What verifyEnrollment has in hand at any turn of its loop.
LEMMA EnrollFacts ==
  ASSUME HandlersAgree, NEW h \in Requests,
         pc[h] \in {"enrollRequest", "enrollCall", "enrollSave", "enrolled"}
  PROVE  /\ OwnShops(h, loc[h].shops) /\ Len(loc[h].shops) = Len(session.cart)
         /\ Len(loc[h].results) < Len(loc[h].shops)
         /\ pc[h] \in {"enrollCall", "enrolled"} => loc[h].results = <<>>
         /\ Current(h) \in BOShopTransaction
         /\ Len(loc[h].shops) \in Nat /\ Len(loc[h].results) \in Nat
<1>1. EnrollInv(h, pc[h], loc[h])
  BY InHand DEF HandlerInv
<1>2. Len(loc[h].results) < Len(loc[h].shops)
  BY <1>1 DEF EnrollInv
<1> QED BY <1>1, <1>2, InHand, LocalsType, CurrentType DEF EnrollInv

\* One turn of either loop: the copy is written, and the loop goes on or starts anew.
LEMMA EnrollLoop ==
  ASSUME HandlersAgree, NEW h \in Requests, pc[h] \in {"enrollRequest", "enrollSave"},
         NEW status \in ShopTransactionStatus, status # "NONE", NEW code \in Codes,
         SaveShop(WithStatus(Current(h), status, code)),
         NEW next \in {"enrollCall", "enrolled"},
         loc' = [loc EXCEPT ![h].results = IF IsLast(h) THEN <<>> ELSE Append(@, status)],
         Goto(h, IF IsLast(h) THEN next ELSE pc[h]),
         UNCHANGED <<session, tx, bank, history>>
  PROVE  HandlersAgree'
<1> DEFINE results == IF IsLast(h) THEN <<>> ELSE Append(loc[h].results, status)
           p       == IF IsLast(h) THEN next ELSE pc[h]
           l       == [loc[h] EXCEPT !.results = results]
           doc     == WithStatus(Current(h), status, code)
<1>1. /\ loc[h] \in Locals /\ loc[h].results \in Seq(ShopTransactionStatus)
      /\ loc[h].shops \in Seq(BOShopTransaction) /\ loc \in [Requests -> Locals]
  BY InHand, LocalsType DEF TypeOK
<1>2. /\ results \in Seq(ShopTransactionStatus) /\ Len(results) < Len(loc[h].shops)
      /\ p = next => results = <<>>
  <2>1. CASE IsLast(h)
    BY <2>1, EnrollFacts
  <2>2. CASE ~IsLast(h)
    BY <1>1, <2>2, EnrollFacts, AppendFacts DEF IsLast
  <2> QED BY <2>1, <2>2
<1>3. p \in {"enrollRequest", "enrollCall", "enrollSave", "enrolled"} /\ p \in Places
      /\ (p \in {"enrollCall", "enrolled"} => p = next)
  BY DEF Places, Active
<1>4. doc \in BOShopTransaction /\ Exists(doc) /\ SaveShop(doc)
  BY EnrollFacts, WithStatusType
<1> HIDE DEF doc
<1>5. l \in Locals /\ l.results = results /\ l.shops = loc[h].shops /\ l.tx = loc[h].tx
  <2> HIDE DEF results
  <2> QED BY <1>1, <1>2 DEF Locals
<1>6. Moved(h, p, l)
  BY <1>1 DEF Moved, Goto
<1> HIDE DEF l, p, results
<1>7. pc'[h] = p /\ loc'[h] = l
  BY <1>3, <1>5, <1>6, InHand, MovedFacts
<1>8. OwnShops(h, loc[h].shops)'
  BY <1>1, <1>4, <1>5, <1>7, InHand, EnrollFacts, OwnAfterSave
<1>9. EnrollInv(h, pc[h], loc[h])'
  BY <1>2, <1>3, <1>5, <1>7, <1>8, EnrollFacts DEF EnrollInv
<1>10. HandlerInv(h)'
  <2>1. loc'[h].tx.status \in Success => AllAuthorized'
    BY <1>5, <1>7, InHand, SameWorld
  <2>2. pc'[h] \in {"enrollRequest", "enrollCall", "enrollSave", "enrolled"}
    BY <1>3, <1>7
  <2> QED BY <1>9, <2>1, <2>2, AtEnroll
<1> QED BY <1>3, <1>4, <1>5, <1>6, <1>10, DocStep

\* verifyEnrollment's status before the call keeps HandlersAgree.
LEMMA EnrollRequestKeeps ==
  ASSUME HandlersAgree, NEW h \in Requests, EnrollRequest(h)
  PROVE  HandlersAgree'
<1>1. "VERIFICATION_THREEDS" \in ShopTransactionStatus /\ NoCode \in Codes
  BY DEF ShopTransactionStatus, Codes
<1> QED BY <1>1, EnrollLoop DEF EnrollRequest

\* verifyEnrollment's status after the call keeps HandlersAgree.
LEMMA EnrollSaveKeeps ==
  ASSUME HandlersAgree, NEW h \in Requests, EnrollSave(h)
  PROVE  HandlersAgree'
<1>1. "THREEDS_TESTED" \in ShopTransactionStatus /\ loc[h].answer \in Codes
  BY InHand, LocalsType DEF ShopTransactionStatus
<1> QED BY <1>1, EnrollLoop DEF EnrollSave

\* verifyEnrollment's call keeps HandlersAgree.
LEMMA EnrollCallKeeps ==
  ASSUME HandlersAgree, NEW h \in Requests, EnrollCall(h)
  PROVE  HandlersAgree'
<1>1. pc[h] = "enrollCall" /\ UNCHANGED <<session, documents, bank, history>>
  BY DEF EnrollCall
<1>2. PICK code \in Codes : Receive(h, code, "enrollSave")
  BY DEF EnrollCall
<1>3. "enrollSave" \in Places
  BY DEF Places, Active
<1>4. PICK l \in Locals :
        /\ Moved(h, "enrollSave", l) /\ pc'[h] = "enrollSave" /\ loc'[h] = l
        /\ l.tx = loc[h].tx /\ l.shops = loc[h].shops /\ l.results = loc[h].results
  BY <1>2, <1>3, InHand, ReceiveFacts
<1>5. OwnShops(h, loc[h].shops)'
  <2>1. UNCHANGED <<session, shopTx>> /\ loc'[h].shops = loc[h].shops
    BY <1>1, <1>4 DEF documents
  <2>2. OwnShops(h, loc[h].shops)
    BY <1>1, EnrollFacts
  <2> QED BY <2>1, <2>2 DEF OwnShops, Exists
<1>6. EnrollInv(h, pc[h], loc[h])'
  BY <1>1, <1>4, <1>5, EnrollFacts DEF EnrollInv
<1>7. HandlerInv(h)'
  BY <1>1, <1>4, <1>6, InHand, SameWorld, AtEnroll
<1> QED BY <1>1, <1>3, <1>4, <1>7, QuietStep

\* A start request that has created its shop transactions covers every shop of the cart.
LEMMA OwnFacts ==
  ASSUME HandlersAgree, NEW h \in Requests, OwnShops(h, loc[h].shops),
         Len(loc[h].shops) = Len(session.cart)
  PROVE  /\ AllStored
         /\ \A s \in CartShops : \E i \in 1..Len(loc[h].shops) : loc[h].shops[i].id[2] = s
<1>1. \A i \in 1..Len(session.cart) :
        /\ loc[h].shops[i].id = <<h, session.cart[i]>>
        /\ Exists(shopTx[<<h, session.cart[i]>>])
  BY DEF OwnShops
<1>2. h \in StartReqs
  BY DEF OwnShops
<1>3. AllStored
  BY <1>1, <1>2 DEF AllStored, CartShops
<1>4. ASSUME NEW s \in CartShops
      PROVE  \E i \in 1..Len(loc[h].shops) : loc[h].shops[i].id[2] = s
  <2>1. PICK i \in 1..Len(session.cart) : session.cart[i] = s
    BY DEF CartShops
  <2>2. loc[h].shops[i].id = <<h, s>>
    BY <1>1, <2>1
  <2>3. loc[h].shops[i].id[2] = s
    BY <2>2, SecondOf
  <2> QED BY <2>1, <2>3
<1> QED BY <1>3, <1>4

\* startPayment's choice after the enrolment keeps HandlersAgree.
LEMMA EnrolledKeeps ==
  ASSUME HandlersAgree, NEW h \in Requests, Enrolled(h)
  PROVE  HandlersAgree'
<1>1. pc[h] = "enrolled" /\ UNCHANGED <<session, documents, bank, history>>
  BY DEF Enrolled
<1>2. loc[h].results = <<>> /\ session.cart # <<>>
  BY <1>1, EnrollFacts
<1>3. /\ "FAILED" \in TransactionStatus /\ "FAILED" \notin Success
      /\ "ERROR_THREEDS_NOT_ALLOWED_WITH_MANY_SHOPS" \in Errors /\ "ERROR_THREEDS_REQUIRED" \in Errors
  BY DEF TransactionStatus, Success, Errors
<1>4. ASSUME NEW error \in Errors, ToFinish(h, loc[h], "FAILED", error)
      PROVE  HandlersAgree'
  <2>1. "finish" \in Places /\ \E l \in Locals : Moved(h, "finish", l) /\ HandlerInv(h)'
    BY <1>1, <1>3, <1>4, InHand, SameWorld, ToFinishMoves
  <2> QED BY <1>1, <2>1, QuietStep
<1>5. CASE End(h, "form")
  <2>1. Moved(h, "form", NoLocals) /\ "form" \in Places
    BY <1>5 DEF End, Goto, Moved, Places, Final
  <2>2. pc'[h] = "form" /\ loc'[h] = NoLocals
    BY <2>1, InHand, NoLocalsType, MovedFacts
  <2>3. FormInv(pc[h])'
    <3>1. AllStored
      BY <1>1, EnrollFacts, OwnFacts
    <3>2. UNCHANGED <<session, shopTx>>
      BY <1>1 DEF documents
    <3>3. AllStored'
      BY <3>1, <3>2 DEF AllStored, CartShops, Exists
    <3> QED BY <1>2, <3>2, <3>3 DEF FormInv
  <2>4. HandlerInv(h)'
    BY <2>2, <2>3, NoLocalsType, AtForm DEF NoLocals
  <2> QED BY <1>1, <2>1, <2>4, NoLocalsType, QuietStep
<1>6. CASE Goto(h, "authRequest") /\ UNCHANGED loc
  <2>1. "authRequest" \in Places
    BY DEF Places, Active
  <2>2. Moved(h, "authRequest", loc[h]) /\ pc'[h] = "authRequest" /\ loc'[h] = loc[h]
    BY <1>6, <2>1, InHand, StayFacts
  <2>3. AuthInv(pc[h], loc[h])'
    <3>1. /\ Len(loc[h].results) < Len(loc[h].shops)
          /\ \A s \in CartShops : \E i \in 1..Len(loc[h].shops) : loc[h].shops[i].id[2] = s
      BY <1>1, EnrollFacts, OwnFacts
    <3>2. CartShops' = CartShops
      BY <1>1, SameWorld
    <3> QED BY <1>2, <2>2, <3>1, <3>2 DEF AuthInv
  <2>4. HandlerInv(h)'
    BY <1>1, <2>2, <2>3, InHand, SameWorld, AtAuth
  <2> QED BY <1>1, <2>1, <2>2, <2>4, InHand, QuietStep
<1> QED BY <1>3, <1>4, <1>5, <1>6 DEF Enrolled

\* threeDSCallback's reading of the transaction keeps HandlersAgree.
LEMMA ThreeDSReadKeeps ==
  ASSUME HandlersAgree, NEW h \in Requests, ThreeDSRead(h)
  PROVE  HandlersAgree'
<1> DEFINE locals == [NoLocals EXCEPT !.tx = tx]
<1>1. UNCHANGED <<session, documents, bank, history>>
  BY DEF ThreeDSRead
<1>2. /\ locals \in Locals /\ locals.tx = tx /\ locals.results = <<>>
      /\ tx.status \in Success => AllAuthorized
  <2>1. NoLocals \in Locals /\ NoLocals.results = <<>> /\ tx \in BOTransaction
    BY NoLocalsType, InHand DEF NoLocals, TypeOK
  <2>2. tx.status \in Success => AllAuthorized
    BY InHand DEF DocumentsInv
  <2> QED BY <2>1, <2>2 DEF Locals
<1> HIDE DEF locals
<1>3. CASE ToFinish(h, locals, "FAILED", "ERROR_PAYMENT_REQUEST_NOT_FOUND")
  <2>1. "FAILED" \in TransactionStatus /\ "FAILED" \notin Success
        /\ "ERROR_PAYMENT_REQUEST_NOT_FOUND" \in Errors
    BY DEF TransactionStatus, Success, Errors
  <2>2. "finish" \in Places /\ \E l \in Locals : Moved(h, "finish", l) /\ HandlerInv(h)'
    BY <1>1, <1>2, <1>3, <2>1, InHand, SameWorld, ToFinishMoves
  <2> QED BY <1>1, <2>2, QuietStep
<1>4. CASE Goto(h, "threeDSShops") /\ loc' = [loc EXCEPT ![h] = locals]
  <2>1. Moved(h, "threeDSShops", locals) /\ "threeDSShops" \in Places
    BY <1>4 DEF Goto, Moved, Places, Active
  <2>2. pc'[h] = "threeDSShops" /\ loc'[h] = locals
    BY <1>2, <2>1, InHand, MovedFacts
  <2>3. AllStored /\ session.cart # <<>>
    <3>1. PICK r \in StartReqs : pc[r] = "form"
      BY DEF ThreeDSRead
    <3>2. r \in Requests
      BY DEF Requests
    <3> QED BY <3>1, <3>2, InHand DEF HandlerInv, FormInv
  <2>4. FormInv(pc[h])'
    <3>1. UNCHANGED <<session, shopTx>>
      BY <1>1 DEF documents
    <3>2. AllStored'
      BY <2>3, <3>1 DEF AllStored, CartShops, Exists
    <3> QED BY <2>3, <3>1, <3>2 DEF FormInv
  <2>5. HandlerInv(h)'
    BY <1>1, <1>2, <2>2, <2>4, SameWorld, AtForm
  <2> QED BY <1>1, <1>2, <2>1, <2>5, QuietStep
<1> QED BY <1>3, <1>4 DEF ThreeDSRead, locals

\* findByTransactionUuid finds finitely many documents.
LEMMA FoundIsFinite == IsFiniteSet(FindByTransactionUuid)
<1>1. IsFiniteSet(ShopTxIds)
  BY ShopsAssumption, RequestAssumption, FS_Product DEF ShopTxIds
<1> DEFINE ids == {i \in ShopTxIds : Exists(shopTx[i])}
<1>2. IsFiniteSet(ids)
  BY <1>1, FS_Subset
<1> DEFINE f == [i \in ids |-> shopTx[i]]
<1>3. f \in Surjection(ids, FindByTransactionUuid)
  BY DEF Surjection, FindByTransactionUuid
<1> HIDE DEF ids, f
<1> QED BY <1>2, <1>3, FS_Surjection

\* threeDSCallback's search for the shop transactions keeps HandlersAgree.
LEMMA ThreeDSShopsKeeps ==
  ASSUME HandlersAgree, NEW h \in Requests, ThreeDSShops(h)
  PROVE  HandlersAgree'
<1> DEFINE found == FindByTransactionUuid
           N     == 1..Cardinality(found)
<1>1. /\ pc[h] = "threeDSShops" /\ Goto(h, "authRequest")
      /\ UNCHANGED <<session, documents, bank, history>>
  BY DEF ThreeDSShops
<1>2. PICK list \in [N -> found] :
        /\ \A d \in found : \E i \in N : list[i] = d
        /\ loc' = [loc EXCEPT ![h].shops = [i \in N |-> [list[i] EXCEPT !.threeDS = TRUE]]]
  BY DEF ThreeDSShops
<1> DEFINE shops == [i \in N |-> [list[i] EXCEPT !.threeDS = TRUE]]
           l     == [loc[h] EXCEPT !.shops = shops]
<1>3. AllStored /\ session.cart # <<>> /\ loc[h].results = <<>>
  BY <1>1, InHand DEF HandlerInv, FormInv, ThreeDSInv
<1>4. \A d \in found : d \in BOShopTransaction
  BY InHand DEF TypeOK, FindByTransactionUuid
<1>5. Cardinality(found) \in Nat
  BY FoundIsFinite, FS_CardinalityType
<1>6. \A s \in CartShops : \E d \in found : d.id[2] = s
  <2> SUFFICES ASSUME NEW s \in CartShops PROVE \E d \in found : d.id[2] = s
    OBVIOUS
  <2>1. PICK r \in StartReqs : Exists(shopTx[<<r, s>>])
    BY <1>3 DEF AllStored
  <2>2. <<r, s>> \in ShopTxIds
    BY InHand, CartType DEF ShopTxIds
  <2>3. shopTx[<<r, s>>] \in found
    BY <2>1, <2>2 DEF FindByTransactionUuid
  <2>4. shopTx[<<r, s>>].id = <<r, s>>
    BY <2>2, InHand DEF DocumentsInv
  <2> QED BY <2>3, <2>4, SecondOf
<1>7. Cardinality(found) > 0
  <2>1. session.cart[1] \in CartShops
    BY <1>3, InHand, CartType DEF CartShops
  <2>2. found # {}
    BY <1>6, <2>1
  <2> QED BY <1>5, <2>2, FoundIsFinite, FS_EmptySet
<1> HIDE DEF found
<1>8. \A i \in N : shops[i] \in BOShopTransaction /\ shops[i].id = list[i].id
  <2>1. ASSUME NEW d \in BOShopTransaction
        PROVE  [d EXCEPT !.threeDS = TRUE] \in BOShopTransaction /\ [d EXCEPT !.threeDS = TRUE].id = d.id
    BY DEF BOShopTransaction
  <2>2. \A i \in N : list[i] \in BOShopTransaction /\ shops[i] = [list[i] EXCEPT !.threeDS = TRUE]
    BY <1>2, <1>4
  <2> HIDE DEF shops
  <2> QED BY <2>1, <2>2
<1>9. shops \in Seq(BOShopTransaction) /\ Len(shops) = Cardinality(found)
  <2> DEFINE n == Cardinality(found)
             S == BOShopTransaction
  <2>1. n \in Nat /\ shops \in [1..n -> S]
    BY <1>5, <1>8
  <2> HIDE DEF shops, n, S
  <2>2. shops \in Seq(S) /\ Len(shops) = n
    BY <2>1
  <2> QED BY <2>2 DEF n, S
<1>10. \A s \in CartShops : \E i \in 1..Len(shops) : shops[i].id[2] = s
  <2> HIDE DEF shops
  <2> QED BY <1>2, <1>6, <1>8, <1>9
<1> HIDE DEF shops
<1>11. l \in Locals /\ l.shops = shops /\ l.results = <<>> /\ l.tx = loc[h].tx
  BY <1>3, <1>9, InHand DEF Locals
<1>12. Moved(h, "authRequest", l) /\ "authRequest" \in Places
  <2>1. loc \in [Requests -> Locals]
    BY InHand DEF TypeOK
  <2> QED BY <1>1, <1>2, <2>1 DEF Moved, Goto, Places, Active, shops
<1> HIDE DEF l
<1>13. pc'[h] = "authRequest" /\ loc'[h] = l
  BY <1>11, <1>12, InHand, MovedFacts
<1>14. AuthInv(pc[h], loc[h])'
  <2>1. Len(l.results) = 0 /\ Len(l.results) < Len(l.shops)
    BY <1>5, <1>7, <1>9, <1>11
  <2>2. CartShops' = CartShops
    BY <1>1, SameWorld
  <2> QED BY <1>10, <1>11, <1>13, <2>1, <2>2 DEF AuthInv
<1>15. HandlerInv(h)'
  BY <1>1, <1>11, <1>13, <1>14, InHand, SameWorld, AtAuth
<1> QED BY <1>1, <1>11, <1>12, <1>15, QuietStep

-----------------------------------------------------------------------------
(* finishTransaction, finishPayment and its steps.                         *)

\* finishTransaction's write keeps HandlersAgree.
LEMMA FinishTransactionKeeps ==
  ASSUME HandlersAgree, NEW h \in Requests, FinishTransaction(h)
  PROVE  HandlersAgree'
<1> DEFINE new == [loc[h].tx EXCEPT !.status = loc[h].status, !.error = loc[h].error, !.endDate = TRUE]
           l   == [loc[h] EXCEPT !.tx = new]
<1>1. /\ pc[h] = "finish" /\ tx' = new
      /\ IF loc[h].tx.endDate
         THEN End(h, "replied") /\ UNCHANGED finishes
         ELSE /\ Goto(h, "finishPayment")
              /\ loc' = [loc EXCEPT ![h].tx = new]
              /\ finishes' = finishes + 1
      /\ UNCHANGED <<session, shopTx, bank, labels, mails, confirmations>>
  BY DEF FinishTransaction
<1>2. new \in BOTransaction /\ new.status = loc[h].status
  <2>1. loc[h].tx \in BOTransaction /\ loc[h].status \in TransactionStatus /\ loc[h].error \in Errors
    BY InHand, LocalsType
  <2> QED BY <2>1 DEF BOTransaction
<1>3. loc[h].status \in Success => AllAuthorized
  BY <1>1, InHand DEF HandlerInv, CopyInv
<1> HIDE DEF new
<1>4. l \in Locals /\ l.tx = new
  BY <1>2, InHand DEF Locals
<1>5. AllAuthorized' = AllAuthorized
  BY <1>1, SameWorld
<1>6. CASE End(h, "replied") /\ UNCHANGED finishes
  <2>1. Moved(h, "replied", NoLocals) /\ HandlerInv(h)' /\ "replied" \in Places
    BY <1>6, EndMoves DEF Places, Final
  <2>2. finishes' \in Nat
    BY <1>6, InHand DEF TypeOK
  <2> QED BY <1>1, <1>2, <1>3, <2>1, <2>2, NoLocalsType, TxStep
<1>7. CASE Goto(h, "finishPayment") /\ loc' = [loc EXCEPT ![h].tx = new] /\ finishes' = finishes + 1
  <2>1. Moved(h, "finishPayment", l) /\ "finishPayment" \in Places /\ "finishPayment" \in Quiet
    <3>1. loc \in [Requests -> Locals]
      BY InHand DEF TypeOK
    <3> QED BY <1>7, <3>1 DEF Goto, Moved, Places, Active, Quiet
  <2> HIDE DEF l
  <2>2. pc'[h] = "finishPayment" /\ loc'[h] = l
    BY <1>4, <2>1, InHand, MovedFacts
  <2>3. HandlerInv(h)'
    BY <1>2, <1>3, <1>4, <1>5, <2>1, <2>2, AtQuiet
  <2>4. finishes' \in Nat
    BY <1>7, InHand DEF TypeOK
  <2> QED BY <1>1, <1>2, <1>3, <1>4, <2>1, <2>3, <2>4, TxStep
<1> QED BY <1>1, <1>6, <1>7

\* finishPayment's test of the status keeps HandlersAgree.
LEMMA FinishPaymentKeeps ==
  ASSUME HandlersAgree, NEW h \in Requests, FinishPayment(h)
  PROVE  HandlersAgree'
<1> DEFINE next == IF loc[h].tx.status = "PAYMENT_AUTHORIZED" THEN "ship" ELSE "mailOrder"
<1>1. pc[h] = "finishPayment" /\ UNCHANGED <<session, documents, bank, history>>
  BY DEF FinishPayment
<1>2. /\ next \in Places /\ next \in {"ship", "mailOrder"}
      /\ next = "ship" => AllAuthorized
  BY InHand DEF Places, Active, Success
<1> HIDE DEF next
<1>3. ASSUME NEW shops \in Seq(BOShopTransaction), Len(shops) <= 1, Goto(h, next),
             loc' = [loc EXCEPT ![h].shops = shops, ![h].results = <<>>]
      PROVE  HandlersAgree'
  <2> DEFINE l == [loc[h] EXCEPT !.shops = shops, !.results = <<>>]
  <2>1. l \in Locals /\ l.tx = loc[h].tx /\ l.results = <<>> /\ l.shops = shops
    <3>1. <<>> \in Seq(ShopTransactionStatus) /\ loc[h] \in Locals
      BY InHand
    <3> QED BY <3>1 DEF Locals
  <2>2. Moved(h, next, l)
    <3>1. loc \in [Requests -> Locals]
      BY InHand DEF TypeOK
    <3> QED BY <1>3, <3>1 DEF Goto, Moved
  <2> HIDE DEF l
  <2>3. pc'[h] = next /\ loc'[h] = l
    BY <1>2, <2>1, <2>2, InHand, MovedFacts
  <2>4. HandlerInv(h)'
    <3>1. CASE next = "ship"
      <4>1. "ship" \in Committed /\ "ship" \notin Ordered
        BY DEF Committed, Ordered
      <4>2. AllAuthorized'
        BY <1>1, <1>2, <3>1, SameWorld
      <4>3. pc'[h] = "ship" /\ loc'[h].results = <<>> /\ Len(loc'[h].shops) <= 1
        BY <1>3, <2>1, <2>3, <3>1
      <4> QED BY <4>1, <4>2, <4>3, AtCommitted
    <3>2. CASE next = "mailOrder"
      BY <1>1, <2>1, <2>3, <3>2, InHand, SameWorld, AtQuiet DEF Quiet
    <3> QED BY <1>2, <3>1, <3>2
  <2> QED BY <1>1, <1>2, <2>1, <2>2, <2>4, QuietStep
<1>4. CASE End(h, "replied")
  <2>1. "replied" \in Places
    BY DEF Places, Final
  <2> QED BY <1>1, <1>4, <2>1, EndMoves, NoLocalsType, QuietStep
<1>5. \A doc \in FindByShopId(SHOP_MOGOBIZ) : <<doc>> \in Seq(BOShopTransaction) /\ Len(<<doc>>) <= 1
  <2>1. \A doc \in FindByShopId(SHOP_MOGOBIZ) : doc \in BOShopTransaction
    BY InHand DEF FindByShopId, TypeOK
  <2> QED BY <2>1
<1>6. <<>> \in Seq(BOShopTransaction) /\ Len(<<>>) <= 1
  OBVIOUS
<1>7. \/ End(h, "replied")
      \/ Goto(h, next) /\ loc' = [loc EXCEPT ![h].shops = <<>>, ![h].results = <<>>]
      \/ \E doc \in FindByShopId(SHOP_MOGOBIZ) :
           Goto(h, next) /\ loc' = [loc EXCEPT ![h].shops = <<doc>>, ![h].results = <<>>]
  BY DEF FinishPayment, next
<1> QED BY <1>3, <1>4, <1>5, <1>6, <1>7

\* Inside finishPayment and the marketplace orders the cart is authorised and one shop at
\* most is concerned.
LEMMA CommittedFacts ==
  ASSUME HandlersAgree, NEW h \in Requests, pc[h] \in Committed
  PROVE  /\ AllAuthorized /\ loc[h].results = <<>> /\ Len(loc[h].shops) <= 1
         /\ pc[h] \in Ordered => /\ Len(loc[h].shops) = 1
                                 /\ Len(loc[h].results) < Len(loc[h].shops)
                                 /\ Current(h) \in BOShopTransaction /\ Current(h).id \in ShopTxIds
<1>1. CopyInv(pc[h], loc[h]) /\ OrderInv(pc[h], loc[h])
  BY InHand DEF HandlerInv
<1>2. /\ AllAuthorized /\ loc[h].results = <<>> /\ Len(loc[h].shops) <= 1
      /\ pc[h] \in Ordered => Len(loc[h].shops) = 1
  BY <1>1 DEF CopyInv, OrderInv
<1> QED BY <1>2, InHand, OneShop, CurrentType

\* A handler in finishPayment ends or stays with the copies it has.
LEMMA CommittedMoves ==
  ASSUME HandlersAgree, NEW h \in Requests, pc[h] \in Committed, UNCHANGED <<session, bank>>,
         NEW p \in Committed \cup Quiet, p \in Ordered => Len(loc[h].shops) = 1,
         Goto(h, p), loc' = loc
  PROVE  p \in Places /\ Moved(h, p, loc[h]) /\ HandlerInv(h)'
<1>1. p \in Places
  BY DEF Committed, Quiet, Places, Active, Final
<1>2. Moved(h, p, loc[h]) /\ pc'[h] = p /\ loc'[h] = loc[h]
  BY <1>1, InHand, StayFacts
<1>3. AllAuthorized' /\ loc[h].results = <<>> /\ Len(loc[h].shops) <= 1
  BY CommittedFacts, SameWorld
<1>4. HandlerInv(h)'
  BY <1>2, <1>3, AtCommitted, AtQuiet
<1> QED BY <1>1, <1>2, <1>4

\* After shipping, finishPayment captures the operator's shop or replies.
LEMMA AfterShippingMoves ==
  ASSUME HandlersAgree, NEW h \in Requests, pc[h] \in {"ship", "shipSave"}, UNCHANGED <<session, bank>>,
         AfterShipping(h)
  PROVE  \E p \in Places, l \in Locals : Moved(h, p, l) /\ HandlerInv(h)'
<1>1. CASE loc[h].shops = <<>>
  <2>1. End(h, "replied") /\ "replied" \in Places
    BY <1>1 DEF AfterShipping, Places, Final
  <2> QED BY <2>1, EndMoves, NoLocalsType
<1>2. CASE loc[h].shops # <<>>
  <2>1. Goto(h, "captureRequest") /\ loc' = loc
    BY <1>2 DEF AfterShipping
  <2>2. pc[h] \in Committed /\ "captureRequest" \in Committed
    BY DEF Committed
  <2>3. Len(loc[h].shops) = 1
    <3>1. loc[h].shops \in Seq(BOShopTransaction) /\ Len(loc[h].shops) <= 1
      BY <2>2, InHand, LocalsType, CommittedFacts
    <3> QED BY <1>2, <3>1, AtMostOne
  <2> QED BY <2>1, <2>2, <2>3, InHand, CommittedMoves
<1> QED BY <1>1, <1>2

\* A step that may buy a label for an authorised payment.
LEMMA LabelStep ==
  ASSUME HandlersAgree, NEW h \in Requests, NEW p \in Places, NEW l \in Locals, Moved(h, p, l),
         AllAuthorized, labels' \in Nat,
         UNCHANGED <<session, documents, bank, mails, finishes, confirmations>>, HandlerInv(h)'
  PROVE  HandlersAgree'
<1>1. TypeOK /\ DocumentsInv /\ WorldInv
  BY DEF HandlersAgree
<1>2. UNCHANGED <<session, tx, shopTx, authorized, plainAuth, captured, refunded, page,
                  mails, finishes, confirmations>>
  BY DEF documents, bank
<1>3. TypeOK'
  BY <1>1, <1>2, MovedFacts DEF TypeOK, Places
<1>4. AllAuthorized' = AllAuthorized
  BY <1>2 DEF AllAuthorized, CartShops
<1>5. DocumentsInv' /\ WorldInv'
  BY <1>1, <1>2, <1>4 DEF DocumentsInv, WorldInv
<1>6. Monotone
  BY <1>2 DEF Monotone
<1> QED BY <1>1, <1>3, <1>5, <1>6, MovedFacts, OneHandlerMoves

\* confirmShippingPrice, with or without a label, keeps HandlersAgree.
LEMMA ConfirmShippingPriceKeeps ==
  ASSUME HandlersAgree, NEW h \in Requests, ConfirmShippingPrice(h)
  PROVE  HandlersAgree'
<1>1. pc[h] = "ship" /\ UNCHANGED <<session, documents, bank, mails, finishes, confirmations>>
  BY DEF ConfirmShippingPrice
<1>2. pc[h] \in Committed
  BY <1>1 DEF Committed
<1>3. AllAuthorized /\ loc[h].results = <<>> /\ Len(loc[h].shops) <= 1 /\ labels \in Nat
  BY <1>2, InHand, CommittedFacts DEF TypeOK
<1>4. CASE AfterShipping(h) /\ UNCHANGED labels
  <2>1. \E p \in Places, l \in Locals : Moved(h, p, l) /\ HandlerInv(h)'
    BY <1>1, <1>4, AfterShippingMoves
  <2> QED BY <1>1, <1>3, <1>4, <2>1, LabelStep
<1>5. CASE /\ labels' = IF session.shipping = "EASYPOST" /\ ~loc[h].tx.confirm THEN labels + 1 ELSE labels
           /\ loc' = [loc EXCEPT ![h].tx.confirm = TRUE]
           /\ Goto(h, "shipSave")
  <2> DEFINE t == [loc[h].tx EXCEPT !.confirm = TRUE]
             l == [loc[h] EXCEPT !.tx = t]
  <2>1. t \in BOTransaction
    <3>1. loc[h].tx \in BOTransaction
      BY InHand, LocalsType
    <3> QED BY <3>1 DEF BOTransaction
  <2>2. l \in Locals /\ l.results = <<>> /\ l.shops = loc[h].shops
    <3> HIDE DEF t
    <3> QED BY <1>3, <2>1, InHand DEF Locals
  <2>3. Moved(h, "shipSave", l) /\ "shipSave" \in Places /\ "shipSave" \in Committed \ Ordered
    <3>1. loc \in [Requests -> Locals]
      BY InHand DEF TypeOK
    <3> QED BY <1>5, <3>1 DEF Goto, Moved, Places, Active, Committed, Ordered
  <2> HIDE DEF l
  <2>4. pc'[h] = "shipSave" /\ loc'[h] = l
    BY <2>2, <2>3, InHand, MovedFacts
  <2>5. HandlerInv(h)'
    BY <1>1, <1>3, <2>2, <2>3, <2>4, SameWorld, AtCommitted
  <2>6. labels' \in Nat
    BY <1>3, <1>5
  <2> QED BY <1>1, <1>3, <2>2, <2>3, <2>5, <2>6, LabelStep
<1>6. CASE labels' \in {labels, labels + 1} /\ Goto(h, "shipError") /\ UNCHANGED loc
  <2>1. "shipError" \in Committed \ Ordered /\ labels' \in Nat
    BY <1>3, <1>6 DEF Committed, Ordered
  <2>2. "shipError" \in Places /\ Moved(h, "shipError", loc[h]) /\ HandlerInv(h)'
    BY <1>1, <1>2, <1>6, <2>1, CommittedMoves
  <2> QED BY <1>1, <1>3, <2>1, <2>2, InHand, LabelStep
<1> QED BY <1>4, <1>5, <1>6 DEF ConfirmShippingPrice

\* The write of the shipping data keeps HandlersAgree.
LEMMA SaveShippingKeeps ==
  ASSUME HandlersAgree, NEW h \in Requests, SaveShipping(h)
  PROVE  HandlersAgree'
<1>1. /\ pc[h] = "shipSave" /\ tx' = loc[h].tx /\ AfterShipping(h)
      /\ UNCHANGED <<session, shopTx, bank, labels, mails, finishes, confirmations>>
  BY DEF SaveShipping, history
<1>2. \E p \in Places, l \in Locals : Moved(h, p, l) /\ HandlerInv(h)'
  BY <1>1, AfterShippingMoves
<1>3. tx' \in BOTransaction /\ finishes' \in Nat /\ (tx'.status \in Success => AllAuthorized)
  BY <1>1, InHand, LocalsType DEF TypeOK
<1> QED BY <1>1, <1>2, <1>3, TxStep

\* The last update of finishPayment.
LEMMA EndWithKeeps ==
  ASSUME HandlersAgree, NEW h \in Requests, pc[h] \in Committed,
         NEW status \in TransactionStatus, NEW error \in Errors, EndWith(h, status, error),
         UNCHANGED <<session, shopTx, bank, history>>
  PROVE  HandlersAgree'
<1> DEFINE new == [loc[h].tx EXCEPT !.status = status, !.error = error]
           l   == [loc[h] EXCEPT !.tx = new]
<1>1. /\ tx' = new
      /\ \/ End(h, "replied")
         \/ Goto(h, "mailOrder") /\ loc' = [loc EXCEPT ![h].tx = new]
  BY DEF EndWith
<1>2. new \in BOTransaction
  <2>1. loc[h].tx \in BOTransaction
    BY InHand, LocalsType
  <2> QED BY <2>1 DEF BOTransaction
<1> HIDE DEF new
<1>3. AllAuthorized /\ AllAuthorized'
  BY CommittedFacts, SameWorld
<1>4. finishes' \in Nat /\ UNCHANGED <<session, shopTx, bank, labels, mails, confirmations>>
  BY InHand DEF TypeOK, history
<1>5. CASE End(h, "replied")
  <2>1. Moved(h, "replied", NoLocals) /\ HandlerInv(h)' /\ "replied" \in Places
    BY <1>5, EndMoves DEF Places, Final
  <2> QED BY <1>1, <1>2, <1>3, <1>4, <2>1, NoLocalsType, TxStep
<1>6. CASE Goto(h, "mailOrder") /\ loc' = [loc EXCEPT ![h].tx = new]
  <2>1. l \in Locals
    BY <1>2, InHand DEF Locals
  <2>2. Moved(h, "mailOrder", l) /\ "mailOrder" \in Places /\ "mailOrder" \in Quiet
    <3>1. loc \in [Requests -> Locals]
      BY InHand DEF TypeOK
    <3> QED BY <1>6, <3>1 DEF Goto, Moved, Places, Active, Quiet
  <2> HIDE DEF l
  <2>3. pc'[h] = "mailOrder"
    BY <2>1, <2>2, InHand, MovedFacts
  <2>4. HandlerInv(h)'
    BY <1>3, <2>2, <2>3, AtQuiet
  <2> QED BY <1>1, <1>2, <1>3, <1>4, <2>1, <2>2, <2>4, TxStep
<1> QED BY <1>1, <1>5, <1>6

\* Each last write of finishPayment keeps HandlersAgree.
LEMMA LastUpdateKeeps ==
  ASSUME HandlersAgree, NEW h \in Requests, ShippingFailed(h) \/ Complete(h) \/ RefundEnd(h)
  PROVE  HandlersAgree'
<1>1. /\ \A s \in {"SHIPMENT_ERROR", "COMPLETED", "REFUNDED", "REFUNDED_FAILED"} : s \in TransactionStatus
      /\ NoCode \in Errors /\ "ERROR_CONFIRM_SHIPPING" \in Errors
  BY DEF TransactionStatus, Errors, Codes
<1>2. pc[h] \in Committed /\ UNCHANGED <<session, shopTx, bank, history>>
  BY DEF ShippingFailed, Complete, RefundEnd, Committed
<1>3. CASE ShippingFailed(h)
  BY <1>1, <1>2, <1>3, EndWithKeeps DEF ShippingFailed
<1>4. CASE Complete(h)
  BY <1>1, <1>2, <1>4, EndWithKeeps DEF Complete
<1>5. CASE RefundEnd(h)
  BY <1>1, <1>2, <1>5, EndWithKeeps DEF RefundEnd
<1> QED BY <1>3, <1>4, <1>5

-----------------------------------------------------------------------------
(* validatePayment and refundPayment.                                      *)

\* The status before a capture or a refund keeps HandlersAgree.
LEMMA OrderRequestKeeps ==
  ASSUME HandlersAgree, NEW h \in Requests, CaptureRequest(h) \/ RefundRequest(h)
  PROVE  HandlersAgree'
<1>1. /\ \A s \in {"VALIDATION_REQUESTED", "REFUND_REQUESTED"} :
           s \in ShopTransactionStatus /\ s # "NONE"
      /\ NoCode \in Codes
      /\ \A p \in {"captureCall", "refundCall"} : p \in Committed /\ p \in Ordered
  BY DEF ShopTransactionStatus, Codes, Committed, Ordered
<1>2. PICK s \in {"VALIDATION_REQUESTED", "REFUND_REQUESTED"}, p \in {"captureCall", "refundCall"} :
        SaveShop(WithStatus(Current(h), s, NoCode)) /\ Goto(h, p)
  BY DEF CaptureRequest, RefundRequest
<1>3. pc[h] \in Committed /\ pc[h] \in Ordered /\ loc' = loc /\ UNCHANGED <<session, tx, bank, history>>
  BY DEF CaptureRequest, RefundRequest, Committed, Ordered
<1>4. Len(loc[h].shops) = 1 /\ Len(loc[h].results) < Len(loc[h].shops)
  BY <1>3, CommittedFacts
<1>5. p \in Places /\ Moved(h, p, loc[h]) /\ HandlerInv(h)'
  BY <1>1, <1>2, <1>3, <1>4, CommittedMoves
<1> QED BY <1>1, <1>2, <1>3, <1>4, <1>5, InHand, SaveCurrentStep

\* The call of a capture or a refund keeps HandlersAgree.
LEMMA OrderCallKeeps ==
  ASSUME HandlersAgree, NEW h \in Requests, CaptureCall(h) \/ RefundCall(h)
  PROVE  HandlersAgree'
<1> DEFINE id == Current(h).id
<1>1. /\ pc[h] \in Committed /\ pc[h] \in Ordered
      /\ UNCHANGED <<session, documents, authorized, plainAuth, page, history>>
  BY DEF CaptureCall, RefundCall, Committed, Ordered
<1>2. UNCHANGED <<session, tx, shopTx, authorized, plainAuth, page, labels, mails, finishes, confirmations>>
  BY <1>1 DEF documents, history
<1>3. /\ AllAuthorized /\ loc[h].results = <<>> /\ Len(loc[h].shops) = 1 /\ id \in ShopTxIds
  BY <1>1, CommittedFacts
<1>4. AllAuthorized'
  BY <1>2, <1>3 DEF AllAuthorized, CartShops
<1>5. captured' \in [ShopTxIds -> Nat] /\ refunded' \in [ShopTxIds -> Nat]
  <2>1. captured \in [ShopTxIds -> Nat] /\ refunded \in [ShopTxIds -> Nat]
    BY InHand DEF TypeOK
  <2> QED BY <1>3, <2>1 DEF CaptureCall, RefundCall
<1>6. PICK code \in Codes, p \in {"captureSave", "refundSave"} : Receive(h, code, p)
  BY DEF CaptureCall, RefundCall, GatewayAnswer
<1>7. p \in Places /\ p \in Committed
  BY DEF Places, Active, Committed
<1>8. PICK l \in Locals :
        /\ Moved(h, p, l) /\ pc'[h] = p /\ loc'[h] = l
        /\ l.shops = loc[h].shops /\ l.results = loc[h].results
  BY <1>6, <1>7, InHand, ReceiveFacts
<1>9. HandlerInv(h)'
  <2>1. loc'[h].results = <<>> /\ Len(loc'[h].shops) = 1
    BY <1>3, <1>8
  <2>2. Len(loc'[h].shops) <= 1
    BY <2>1
  <2> QED BY <1>4, <1>7, <1>8, <2>1, <2>2, AtCommitted
<1>10. TypeOK'
  BY <1>2, <1>5, <1>7, <1>8, InHand, MovedFacts DEF TypeOK, Places
<1>11. DocumentsInv'
  BY <1>2, <1>4, InHand DEF DocumentsInv
<1>12. WorldInv'
  BY <1>2, <1>4, InHand DEF WorldInv
<1>13. Monotone
  BY <1>2 DEF Monotone
<1> QED BY <1>7, <1>8, <1>9, <1>10, <1>11, <1>12, <1>13, InHand, MovedFacts, OneHandlerMoves

\* The status after a capture or a refund keeps HandlersAgree.
LEMMA OrderSaveKeeps ==
  ASSUME HandlersAgree, NEW h \in Requests, CaptureSave(h) \/ RefundSave(h)
  PROVE  HandlersAgree'
<1> DEFINE Results == {"VALIDATED", "VALIDATION_REFUSED", "VALIDATION_FAILED",
                       "REFUNDED", "REFUND_REFUSED", "REFUND_FAILED"}
           Steps   == {"complete", "refundRequest", "refundEnd"}
<1>1. pc[h] \in Committed /\ pc[h] \in Ordered /\ UNCHANGED <<session, tx, bank, history>>
  BY DEF CaptureSave, RefundSave, Committed, Ordered
<1>2. loc[h].answer \in Codes /\ Len(loc[h].results) < Len(loc[h].shops) /\ Len(loc[h].shops) = 1
  BY <1>1, InHand, LocalsType, CommittedFacts
<1>3. \E s \in Results : SaveShop(WithStatus(Current(h), s, loc[h].answer))
  <2>1. CASE CaptureSave(h)
    BY <1>2, <2>1, StatusOfType DEF CaptureSave
  <2>2. CASE RefundSave(h)
    BY <1>2, <2>2, StatusOfType DEF RefundSave
  <2> QED BY <2>1, <2>2
<1>4. PICK s \in Results : SaveShop(WithStatus(Current(h), s, loc[h].answer))
  BY <1>3
<1>5. s \in ShopTransactionStatus /\ s # "NONE"
  BY DEF ShopTransactionStatus
<1>6. End(h, "replied") \/ \E p \in Steps : Goto(h, p) /\ loc' = loc
  BY DEF CaptureSave, RefundSave
<1>7. CASE End(h, "replied")
  <2>1. Moved(h, "replied", NoLocals) /\ HandlerInv(h)' /\ "replied" \in Places
    BY <1>7, EndMoves DEF Places, Final
  <2> QED BY <1>1, <1>2, <1>4, <1>5, <2>1, NoLocalsType, SaveCurrentStep
<1>8. ASSUME NEW p \in Steps, Goto(h, p), loc' = loc
      PROVE  HandlersAgree'
  <2>1. p \in Committed
    BY DEF Committed
  <2>2. p \in Places /\ Moved(h, p, loc[h]) /\ HandlerInv(h)'
    BY <1>1, <1>2, <1>8, <2>1, CommittedMoves
  <2> QED BY <1>1, <1>2, <1>4, <1>5, <2>2, InHand, SaveCurrentStep
<1> QED BY <1>6, <1>7, <1>8

-----------------------------------------------------------------------------
(* Mails, verify and the marketplace's orders.                             *)

\* The mails of notifyPaymentFinished keep HandlersAgree.
LEMMA MailKeeps ==
  ASSUME HandlersAgree, NEW h \in Requests, MailOrder(h) \/ MailBill(h)
  PROVE  HandlersAgree'
<1>1. UNCHANGED <<session, tx, shopTx, bank, labels, finishes, confirmations>>
  BY DEF MailOrder, MailBill, documents
<1>2. \/ End(h, "replied")
      \/ Goto(h, "mailBill") /\ UNCHANGED loc
  BY DEF MailOrder, MailBill, Mail
<1>3. mails' \subseteq {"mail-order", "mail-bill", "mail-refund"}
  <2>1. mails \subseteq {"mail-order", "mail-bill", "mail-refund"}
    BY InHand DEF TypeOK
  <2> QED BY <2>1 DEF MailOrder, MailBill, Mail
<1>4. PICK p \in Places, l \in Locals : Moved(h, p, l) /\ HandlerInv(h)'
  <2>1. CASE End(h, "replied")
    <3>1. "replied" \in Places
      BY DEF Places, Final
    <3> QED BY <2>1, <3>1, EndMoves, NoLocalsType
  <2>2. CASE Goto(h, "mailBill") /\ UNCHANGED loc
    <3>1. "mailBill" \in Places /\ "mailBill" \in Quiet
      BY DEF Places, Active, Quiet
    <3>2. Moved(h, "mailBill", loc[h]) /\ pc'[h] = "mailBill" /\ loc'[h] = loc[h]
      BY <2>2, <3>1, InHand, StayFacts
    <3>3. HandlerInv(h)'
      BY <1>1, <3>1, <3>2, InHand, SameWorld, AtQuiet
    <3> QED BY <3>1, <3>2, <3>3, InHand
  <2> QED BY <1>2, <2>1, <2>2
<1>5. UNCHANGED <<session, tx, shopTx, authorized, plainAuth, captured, refunded, page, labels,
                  finishes, confirmations>> /\ AllAuthorized' = AllAuthorized
  BY <1>1, SameWorld DEF bank
<1>6. TypeOK'
  BY <1>3, <1>4, <1>5, InHand, MovedFacts DEF TypeOK, Places
<1>7. DocumentsInv' /\ WorldInv'
  BY <1>5, InHand DEF DocumentsInv, WorldInv
<1>8. Monotone
  BY <1>5 DEF Monotone
<1> QED BY <1>4, <1>6, <1>7, <1>8, InHand, MovedFacts, OneHandlerMoves

\* A copy of the whole transaction is taken.
LEMMA VerifyReadKeeps ==
  ASSUME HandlersAgree, NEW h \in Requests, VerifyRead(h)
  PROVE  HandlersAgree'
<1>1. UNCHANGED <<session, documents, bank, history>>
  BY DEF VerifyRead
<1>2. CASE End(h, "replied")
  <2>1. "replied" \in Places
    BY DEF Places, Final
  <2> QED BY <1>1, <1>2, <2>1, EndMoves, NoLocalsType, QuietStep
<1>3. CASE loc' = [loc EXCEPT ![h].tx = tx] /\ Goto(h, "verifyShop")
  <2> DEFINE l == [loc[h] EXCEPT !.tx = tx]
  <2>1. l \in Locals /\ l.tx = tx
    <3>1. tx \in BOTransaction /\ loc[h] \in Locals
      BY InHand DEF TypeOK
    <3> QED BY <3>1 DEF Locals
  <2>2. Moved(h, "verifyShop", l) /\ "verifyShop" \in Places /\ "verifyShop" \in Quiet
    <3>1. loc \in [Requests -> Locals]
      BY InHand DEF TypeOK
    <3> QED BY <1>3, <3>1 DEF Goto, Moved, Places, Active, Quiet
  <2> HIDE DEF l
  <2>3. pc'[h] = "verifyShop" /\ loc'[h] = l
    BY <2>1, <2>2, InHand, MovedFacts
  <2>4. HandlerInv(h)'
    BY <1>1, <2>1, <2>2, <2>3, InHand, SameWorld, AtQuiet DEF DocumentsInv
  <2> QED BY <1>1, <2>1, <2>2, <2>4, QuietStep
<1> QED BY <1>2, <1>3 DEF VerifyRead

\* verify's search for the operator's shop keeps HandlersAgree.
LEMMA VerifyShopKeeps ==
  ASSUME HandlersAgree, NEW h \in Requests, VerifyShop(h)
  PROVE  HandlersAgree'
<1>1. UNCHANGED <<session, documents, bank, history>>
  BY DEF VerifyShop
<1>2. CASE End(h, "replied")
  <2>1. "replied" \in Places
    BY DEF Places, Final
  <2> QED BY <1>1, <1>2, <2>1, EndMoves, NoLocalsType, QuietStep
<1>3. ASSUME NEW expected \in {"PAYMENT_AUTHORIZED", "COMPLETED"},
             Goto(h, "verifyWrite"), loc' = [loc EXCEPT ![h].status = expected]
      PROVE  HandlersAgree'
  <2> DEFINE l == [loc[h] EXCEPT !.status = expected]
  <2>1. l \in Locals /\ l.status = expected /\ l.tx = loc[h].tx
    <3>1. expected \in TransactionStatus /\ loc[h] \in Locals
      BY InHand DEF TransactionStatus
    <3> QED BY <3>1 DEF Locals
  <2>2. Moved(h, "verifyWrite", l) /\ "verifyWrite" \in Places
    <3>1. loc \in [Requests -> Locals]
      BY InHand DEF TypeOK
    <3> QED BY <1>3, <3>1 DEF Goto, Moved, Places, Active
  <2> HIDE DEF l
  <2>3. pc'[h] = "verifyWrite" /\ loc'[h] = l
    BY <2>1, <2>2, InHand, MovedFacts
  <2>4. HandlerInv(h)'
    BY <1>1, <1>3, <2>1, <2>3, InHand, SameWorld, AtVerifyWrite
  <2> QED BY <1>1, <2>1, <2>2, <2>4, QuietStep
<1> QED BY <1>2, <1>3 DEF VerifyShop

\* verify's write and answer keeps HandlersAgree.
LEMMA VerifyWriteKeeps ==
  ASSUME HandlersAgree, NEW h \in Requests, VerifyWrite(h)
  PROVE  HandlersAgree'
<1> DEFINE new == [loc[h].tx EXCEPT !.merchantConfirmation = TRUE]
<1>1. /\ pc[h] = "verifyWrite" /\ tx' = new /\ End(h, "replied")
      /\ confirmations' = IF loc[h].tx.status = loc[h].status THEN confirmations + 1 ELSE confirmations
      /\ UNCHANGED <<session, shopTx, bank, labels, mails, finishes>>
  BY DEF VerifyWrite
<1>2. new \in BOTransaction /\ new.status = loc[h].tx.status
  <2>1. loc[h].tx \in BOTransaction
    BY InHand, LocalsType
  <2> QED BY <2>1 DEF BOTransaction
<1> HIDE DEF new
<1>3. loc[h].status \in Success
  BY <1>1, InHand DEF HandlerInv, CopyInv, Success
<1>4. confirmations' = confirmations \/ (confirmations' \in Nat /\ AllAuthorized)
  BY <1>1, <1>3, InHand DEF TypeOK
<1>5. finishes' \in Nat
  BY <1>1, InHand DEF TypeOK
<1>6. Moved(h, "replied", NoLocals) /\ HandlerInv(h)' /\ "replied" \in Places
  BY <1>1, EndMoves DEF Places, Final
<1>7. tx' \in BOTransaction /\ (tx'.status \in Success => AllAuthorized)
  BY <1>1, <1>2, InHand
<1> QED BY <1>1, <1>4, <1>5, <1>6, <1>7, NoLocalsType, TxStep

\* A marketplace debit or refund keeps HandlersAgree.
LEMMA MiraklReadKeeps ==
  ASSUME HandlersAgree, NEW h \in Requests, DebitCustomer(h) \/ RefundCustomer(h)
  PROVE  HandlersAgree'
<1>1. PICK p \in {"captureRequest", "refundRequest"} : MiraklRead(h, p)
  BY DEF DebitCustomer, RefundCustomer
<1>2. /\ pc[h] = "idle" /\ confirmations > 0 /\ Goto(h, p)
      /\ UNCHANGED <<session, documents, bank, history>>
  BY <1>1 DEF MiraklRead
<1>a. PICK s \in Shops : \E doc \in FindByShopId(s) : loc' = [loc EXCEPT ![h].shops = <<doc>>]
  BY <1>1 DEF MiraklRead
<1>3. PICK doc \in FindByShopId(s) : loc' = [loc EXCEPT ![h].shops = <<doc>>]
  BY <1>a
<1>4. AllAuthorized /\ loc[h].results = <<>>
  BY <1>2, InHand DEF WorldInv, HandlerInv, IdleInv, NoLocals
<1>5. <<doc>> \in Seq(BOShopTransaction) /\ Len(<<doc>>) = 1
  <2>1. doc \in BOShopTransaction
    BY InHand DEF FindByShopId, TypeOK
  <2> QED BY <2>1
<1> DEFINE l == [loc[h] EXCEPT !.shops = <<doc>>]
<1>6. l \in Locals /\ l.results = <<>> /\ l.shops = <<doc>>
  BY <1>4, <1>5, InHand DEF Locals
<1>7. Moved(h, p, l) /\ p \in Places /\ p \in Committed
  <2>1. loc \in [Requests -> Locals]
    BY InHand DEF TypeOK
  <2> QED BY <1>2, <1>3, <2>1 DEF Goto, Moved, Places, Active, Committed
<1> HIDE DEF l
<1>8. pc'[h] = p /\ loc'[h] = l
  BY <1>6, <1>7, InHand, MovedFacts
<1>9. HandlerInv(h)'
  <2>1. AllAuthorized'
    BY <1>2, <1>4, SameWorld
  <2>2. loc'[h].results = <<>> /\ Len(loc'[h].shops) = 1
    BY <1>5, <1>6, <1>8
  <2>3. Len(loc'[h].shops) <= 1
    BY <2>2
  <2> QED BY <1>7, <1>8, <2>1, <2>2, <2>3, AtCommitted
<1> QED BY <1>2, <1>6, <1>7, <1>9, QuietStep

-----------------------------------------------------------------------------
(* The invariant and what follows from it.                                 *)

\* The states before the first request satisfy HandlersAgree.
LEMMA InitAgrees == Init => HandlersAgree
<1> SUFFICES ASSUME Init PROVE HandlersAgree
  OBVIOUS
<1>1. NoTx \in BOTransaction /\ NoTx.status \notin Success
  BY DEF NoTx, BOTransaction, NoCode, Codes, Errors, TransactionStatus, Success
<1>2. \A id \in ShopTxIds : NoShopTx(id) \in BOShopTransaction /\ NoShopTx(id).id = id
  BY DEF NoShopTx, BOShopTransaction, NoCode, Codes, ShopTransactionStatus
<1>3. TypeOK
  BY <1>1, <1>2, NoLocalsType DEF Init, TypeOK
<1>4. DocumentsInv
  BY <1>1, <1>2 DEF Init, DocumentsInv
<1>5. WorldInv
  BY DEF Init, WorldInv
<1>6. ASSUME NEW h \in Requests PROVE HandlerInv(h)
  <2>1. pc[h] = "idle" /\ loc[h] = NoLocals
    BY DEF Init
  <2> QED BY <2>1, NoLocalsType DEF HandlerInv, IdleInv, CopyInv, CreateInv, WebInv, EnrollInv,
             FormInv, ThreeDSInv, AuthInv, DetailsInv, OrderInv, Committed, Ordered
<1> QED BY <1>3, <1>4, <1>5, <1>6 DEF HandlersAgree

\* Every step of every running handler keeps HandlersAgree.
LEMMA StepAgrees ==
  ASSUME HandlersAgree, NEW h \in Requests, Step(h)
  PROVE  HandlersAgree'
  BY CreateShopTransactionKeeps, WebRequestKeeps, WebAnswerKeeps, ReturnReadKeeps, DetailsRequestKeeps,
     DetailsCallKeeps, DetailsSaveKeeps, EnrollRequestKeeps, EnrollCallKeeps, EnrollSaveKeeps,
     EnrolledKeeps, ThreeDSShopsKeeps, AuthRequestKeeps, AuthCallKeeps, AuthSaveKeeps,
     FinishTransactionKeeps, FinishPaymentKeeps, ConfirmShippingPriceKeeps, SaveShippingKeeps,
     LastUpdateKeeps, OrderRequestKeeps, OrderCallKeeps, OrderSaveKeeps, MailKeeps,
     VerifyShopKeeps, VerifyWriteKeeps
  DEF Step

\* Every request that arrives keeps HandlersAgree.
LEMMA ArriveAgrees ==
  ASSUME HandlersAgree, Arrive
  PROVE  HandlersAgree'
<1>1. /\ StartReqs \subseteq Requests /\ ReturnReqs \subseteq Requests /\ ThreeDSReqs \subseteq Requests
      /\ VerifyReqs \subseteq Requests /\ DebitReqs \subseteq Requests /\ RefundReqs \subseteq Requests
  BY DEF Requests
<1> QED BY <1>1, StartPaymentKeeps, ReturnShopKeeps, ThreeDSReadKeeps, VerifyReadKeeps,
           MiraklReadKeeps DEF Arrive

\* So does a step that changes nothing.
LEMMA StutterAgrees ==
  ASSUME HandlersAgree, UNCHANGED vars
  PROVE  HandlersAgree'
<1>1. UNCHANGED <<session, tx, shopTx, pc, loc, authorized, plainAuth, captured, refunded, page,
                  labels, mails, finishes, confirmations>>
  BY DEF vars, documents, bank, history
<1>2. Monotone
  BY <1>1 DEF Monotone
<1>3. TypeOK /\ DocumentsInv /\ WorldInv
  BY DEF HandlersAgree
<1>4. TypeOK'
  BY <1>1, <1>3 DEF TypeOK
<1>5. AllAuthorized' = AllAuthorized
  BY <1>1 DEF AllAuthorized, CartShops
<1>6. DocumentsInv' /\ WorldInv'
  BY <1>1, <1>3, <1>5 DEF DocumentsInv, WorldInv
<1>7. ASSUME NEW g \in Requests PROVE HandlerInv(g)'
  BY <1>1, <1>2, <1>3, OthersKeep DEF HandlersAgree
<1> QED BY <1>4, <1>6, <1>7 DEF HandlersAgree

\* The handlers of a transaction, in any number and however they overlap, repeat or get
\* lost, never disagree with the bank: HandlersAgree is an invariant.
THEOREM HandlersAlwaysAgree == Spec => []HandlersAgree
<1>1. HandlersAgree /\ [Next]_vars => HandlersAgree'
  <2> SUFFICES ASSUME HandlersAgree, [Next]_vars PROVE HandlersAgree'
    OBVIOUS
  <2>1. CASE Arrive
    BY <2>1, ArriveAgrees
  <2>2. ASSUME NEW h \in Requests, Step(h) \/ Abort(h) PROVE HandlersAgree'
    BY <2>2, StepAgrees, AbortKeeps
  <2>3. ASSUME NEW id \in ShopTxIds, PayerDecides(id) PROVE HandlersAgree'
    BY <2>3, PayerDecidesKeeps
  <2>4. CASE UNCHANGED vars
    BY <2>4, StutterAgrees
  <2> QED BY <2>1, <2>2, <2>3, <2>4 DEF Next
<1> QED BY <1>1, InitAgrees, PTL DEF Spec

\* Documents, copies and counters of the payment handlers keep their types.
THEOREM PaymentTypeOK == Spec => []TypeOK
<1>1. HandlersAgree => TypeOK
  BY DEF HandlersAgree
<1> QED BY <1>1, HandlersAlwaysAgree, PTL

\* doMultiAuthorizations, processPaylineResponse, finishPayment: for every cart and any
\* number of overlapping requests, a transaction stored as a success is backed by the
\* bank's reservation for every shop of the cart.
THEOREM StoredSuccessIsAuthorized == Spec => []SuccessIsAuthorized
<1>1. HandlersAgree => SuccessIsAuthorized
  BY DEF HandlersAgree, DocumentsInv, SuccessIsAuthorized, Success
<1> QED BY <1>1, HandlersAlwaysAgree, PTL

\* finishPayment, debitCustomer, verify: nobody is debited, refunded, shipped to or told of a
\* success before the bank has reserved every shop of the cart.
THEOREM NothingHappensBeforeAuthorization == Spec => []NothingBeforeAuthorization
<1>1. HandlersAgree => NothingBeforeAuthorization
  <2> SUFFICES ASSUME HandlersAgree,
                      \/ \E id \in ShopTxIds : captured[id] + refunded[id] > 0
                      \/ labels > 0
                      \/ confirmations > 0
               PROVE  AllAuthorized
    BY DEF NothingBeforeAuthorization
  <2>1. TypeOK /\ WorldInv
    BY DEF HandlersAgree
  <2>2. ASSUME NEW id \in ShopTxIds, captured[id] + refunded[id] > 0 PROVE AllAuthorized
    <3>1. captured[id] \in Nat /\ refunded[id] \in Nat
      BY <2>1 DEF TypeOK
    <3>2. captured[id] > 0 \/ refunded[id] > 0
      BY <2>2, <3>1
    <3> QED BY <2>1, <3>2 DEF WorldInv
  <2> QED BY <2>1, <2>2 DEF WorldInv
<1> QED BY <1>1, HandlersAlwaysAgree, PTL
=============================================================================
