------------------------------ MODULE Payment ------------------------------
(***************************************************************************)
(* The life of one card transaction, from PaylineHandler.startPayment to   *)
(* the merchant's verify and the marketplace's debit and refund orders.    *)
(*                                                                         *)
(* Every HTTP request and every Mirakl message is a handler thread of its  *)
(* own: it reads documents from Elasticsearch into local copies, calls the *)
(* Payline gateway, EasyPost or the mail server, and writes whole          *)
(* documents back without any version check.  A step of the model is one   *)
(* write of a shared document or one call to an outside service, so that   *)
(* the steps of several requests interleave as they do in the program.     *)
(***************************************************************************)
EXTENDS Naturals, Sequences, FiniteSets

CONSTANTS
  Shops,         \* the shops of the marketplace
  SHOP_MOGOBIZ,  \* the operator's own shop, whose payments are captured at once
  Carts,         \* the carts a session may hold: sequences of distinct shops
  Methods,       \* the merchant's possible CBPaymentMethod settings
  Anonymous,     \* Settings.Mogopay.Anonymous: mail failures are ignored
  StartReqs,     \* GET  payline/start
  ReturnReqs,    \* GET  payline/done and payline/callback
  ThreeDSReqs,   \* POST payline/3ds-callback
  VerifyReqs,    \* GET  transaction/verify
  DebitReqs,     \* one order of a POST mirakl/debitCustomer
  RefundReqs     \* one refund line of a POST mirakl/refundCustomer

CBPaymentMethod ==
  {"EXTERNAL", "THREEDS_NO", "THREEDS_IF_AVAILABLE", "THREEDS_REQUIRED"}

ASSUME ShopsAssumption   == SHOP_MOGOBIZ \in Shops /\ IsFiniteSet(Shops)
ASSUME CartsAssumption   ==
  /\ Carts \subseteq Seq(Shops)
  /\ \A c \in Carts : \A i, j \in 1..Len(c) : c[i] = c[j] => i = j
ASSUME ConfigAssumption  == Methods \subseteq CBPaymentMethod /\ Anonymous \in BOOLEAN
ASSUME RequestAssumption ==
  /\ StartReqs  \cap (ReturnReqs \cup ThreeDSReqs \cup VerifyReqs \cup DebitReqs \cup RefundReqs) = {}
  /\ ReturnReqs \cap (ThreeDSReqs \cup VerifyReqs \cup DebitReqs \cup RefundReqs) = {}
  /\ ThreeDSReqs \cap (VerifyReqs \cup DebitReqs \cup RefundReqs) = {}
  /\ VerifyReqs \cap (DebitReqs \cup RefundReqs) = {}
  /\ DebitReqs \cap RefundReqs = {}
  /\ IsFiniteSet(StartReqs)

Requests == StartReqs \cup ReturnReqs \cup ThreeDSReqs \cup VerifyReqs \cup DebitReqs \cup RefundReqs

-----------------------------------------------------------------------------
(* Documents.  "NONE" is the status of a document that does not exist yet. *)

TransactionStatus ==
  {"NONE", "INITIATED", "COMPLETED", "FAILED", "PAYMENT_AUTHORIZED", "PAYMENT_REFUSED",
   "PAYMENT_FAILED", "REFUNDED", "REFUNDED_FAILED", "SHIPMENT_ERROR"}

ShopTransactionStatus ==
  {"NONE", "INITIATED", "AUTHORIZATION_REQUESTED", "AUTHORIZED", "AUTHORIZATION_REFUSED",
   "AUTHORIZATION_FAILED", "PAYMENT_EXTERNAL_REQUESTED", "PAYMENT_EXTERNAL_PROCESSING",
   "PAYMENT_EXTERNAL_FAILED", "VERIFICATION_THREEDS", "THREEDS_TESTED", "PAYMENT_VERIFICATION",
   "PAYMENT_VERIFICATION_FAILED", "PAYMENT_VERIFIED", "VALIDATION_REQUESTED", "VALIDATED",
   "VALIDATION_REFUSED", "VALIDATION_FAILED", "REFUND_REQUESTED", "REFUNDED",
   "REFUND_REFUSED", "REFUND_FAILED"}

\* A gateway result code: absent, the success code, or any other code.
NoCode       == "no code"
SUCCESS_CODE == "00000"
Codes        == {NoCode, SUCCESS_CODE, "refused"}

\* The error field of a transaction: a gateway code or one of the handler's own errors.
Errors == Codes \cup
  {"ERROR_EXTERNAL_PAYMENT_NOT_ALLOWED_WITH_MANY_SHOPS", "ERROR_THREEDS_NOT_ALLOWED_WITH_MANY_SHOPS",
   "ERROR_THREEDS_REQUIRED", "ERROR_PAYMENT_REQUEST_NOT_FOUND", "ERROR_CONFIRM_SHIPPING"}

\* The uuid of a shop transaction: fresh for each createBOShopTransaction, which one
\* start request calls once for each shop of its cart.
ShopTxIds == StartReqs \X Shops

BOTransaction ==
  [status : TransactionStatus, endDate : BOOLEAN, error : Errors,
   confirm : BOOLEAN,               \* shippingData.confirm
   merchantConfirmation : BOOLEAN]

\* token and threeDS say whether paymentData holds the token of Payline's page, and the
\* MD and PaRes of a 3-D Secure authentication.
BOShopTransaction ==
  [id : ShopTxIds, status : ShopTransactionStatus, errorCode : Codes,
   token : BOOLEAN, threeDS : BOOLEAN]

Sessions ==
  [cart : Carts, paymentMethod : Methods, mogopay : BOOLEAN,
   shipping : {"none", "KIALA", "EASYPOST"}]

NoTx == [status |-> "NONE", endDate |-> FALSE, error |-> NoCode, confirm |-> FALSE,
         merchantConfirmation |-> FALSE]
NewTx == [NoTx EXCEPT !.status = "INITIATED"]

NoShopTx(id) == [id |-> id, status |-> "NONE", errorCode |-> NoCode,
                 token |-> FALSE, threeDS |-> FALSE]

Exists(doc) == doc.status # "NONE"

-----------------------------------------------------------------------------
VARIABLES
  session,      \* the SessionData stored by submit, as startPayment finds it
  tx,           \* the BOTransaction document
  shopTx,       \* the BOShopTransaction documents
  pc,           \* where each request's handler is
  loc,          \* the local variables of each handler
  authorized,   \* history: shop transactions whose amount the bank reserved
  plainAuth,    \* history: those reserved without 3-D Secure data
  captured,     \* history: how often the bank took the money of a shop transaction
  refunded,     \* history: how often the bank gave it back
  page,         \* external: the payer's progress on Payline's web page
  labels,       \* history: number of EasyPost labels bought
  mails,        \* history: the kinds of mail sent
  finishes,     \* history: number of times finishPayment was entered
  confirmations \* history: number of verify requests answered with a success

documents == <<tx, shopTx>>
bank      == <<authorized, plainAuth, captured, refunded, page>>
history   == <<labels, mails, finishes, confirmations>>
vars      == <<session, documents, pc, loc, bank, history>>

\* What a handler holds: its copy of the transaction, its copies of shop transactions,
\* the statuses doAuthorization returned so far, the gateway's last answer and the
\* arguments of the coming finishTransaction.
Locals ==
  [tx : BOTransaction, shops : Seq(BOShopTransaction), results : Seq(ShopTransactionStatus),
   answer : Codes, status : TransactionStatus, error : Errors]

NoLocals == [tx |-> NoTx, shops |-> <<>>, results |-> <<>>, answer |-> NoCode,
             status |-> "NONE", error |-> NoCode]

Final  == {"replied", "failed", "form", "redirect"}
Active == {"createShops", "webRequest", "webAnswer", "enrollRequest", "enrollCall", "enrollSave", "enrolled",
           "threeDSShops", "authRequest", "authCall", "authSave", "returnRead", "detailsRequest",
           "detailsCall", "detailsSave", "finish", "finishPayment", "ship", "shipSave", "shipError",
           "captureRequest", "captureCall", "captureSave", "complete", "refundRequest", "refundCall", "refundSave", "refundEnd",
           "mailOrder", "mailBill", "verifyShop", "verifyWrite"}

TypeOK ==
  /\ session \in Sessions
  /\ tx \in BOTransaction
  /\ shopTx \in [ShopTxIds -> BOShopTransaction]
  /\ pc \in [Requests -> {"idle"} \cup Active \cup Final]
  /\ loc \in [Requests -> Locals]
  /\ authorized \subseteq ShopTxIds
  /\ plainAuth \subseteq ShopTxIds
  /\ captured \in [ShopTxIds -> Nat]
  /\ refunded \in [ShopTxIds -> Nat]
  /\ page \in [ShopTxIds -> {"none", "open", "paid", "refused"}]
  /\ labels \in Nat
  /\ mails \subseteq {"mail-order", "mail-bill", "mail-refund"}
  /\ finishes \in Nat
  /\ confirmations \in Nat

-----------------------------------------------------------------------------
(* Helpers.                                                                *)

Goto(h, l) == pc' = [pc EXCEPT ![h] = l]

\* A handler that ends forgets its local copies.
End(h, l) == Goto(h, l) /\ loc' = [loc EXCEPT ![h] = NoLocals]

\* updateBOShopTransactionStatusAndData: the in-hand copy with a new status, written whole.
WithStatus(doc, status, code) == [doc EXCEPT !.status = status, !.errorCode = code]

SaveShop(doc) == shopTx' = [shopTx EXCEPT ![doc.id] = doc]

\* The shop transactions a search for the transaction, or for one of its shops, finds.
FindByTransactionUuid == {shopTx[id] : id \in {i \in ShopTxIds : Exists(shopTx[i])}}
FindByShopId(s) == {shopTx[id] : id \in {i \in ShopTxIds : Exists(shopTx[i]) /\ i[2] = s}}

\* finishTransaction(copy, status, error) is about to run.
ToFinish(h, locals, status, error) ==
  /\ Goto(h, "finish")
  /\ loc' = [loc EXCEPT ![h] = [locals EXCEPT !.status = status, !.error = error]]

\* What a call to the gateway brings back: a result code or none.  Only a code tells
\* whether the gateway did what it was asked.
GatewayAnswer ==
  {a \in [code : Codes, done : BOOLEAN] :
     /\ a.code = SUCCESS_CODE => a.done
     /\ a.code = "refused" => ~a.done}

Receive(h, code, next) == Goto(h, next) /\ loc' = [loc EXCEPT ![h].answer = code]

\* The copy a loop over the shop transactions is at, and the loop's next step.
Current(h) == loc[h].shops[Len(loc[h].results) + 1]
IsLast(h)  == Len(loc[h].results) + 1 = Len(loc[h].shops)

-----------------------------------------------------------------------------
(* startPayment.                                                           *)

Init ==
  /\ session \in {s \in Sessions : s.shipping # "none" =>
                     \E i \in 1..Len(s.cart) : s.cart[i] = SHOP_MOGOBIZ}
  /\ tx = NoTx
  /\ shopTx = [id \in ShopTxIds |-> NoShopTx(id)]
  /\ pc = [h \in Requests |-> "idle"]
  /\ loc = [h \in Requests |-> NoLocals]
  /\ authorized = {} /\ plainAuth = {}
  /\ captured = [id \in ShopTxIds |-> 0]
  /\ refunded = [id \in ShopTxIds |-> 0]
  /\ page = [id \in ShopTxIds |-> "none"]
  /\ labels = 0 /\ mails = {} /\ finishes = 0 /\ confirmations = 0

\* createBOTransaction, and the tests that need no other document.
StartPayment(h) ==
  /\ pc[h] = "idle"
  /\ tx' = NewTx
  /\ LET locals == [NoLocals EXCEPT !.tx = NewTx] IN
       CASE session.cart = <<>> ->
              ToFinish(h, locals, "COMPLETED", NoCode)
         [] session.cart # <<>> /\ ~session.mogopay /\ session.paymentMethod = "EXTERNAL"
              /\ Len(session.cart) > 1 ->
              ToFinish(h, locals, "FAILED", "ERROR_EXTERNAL_PAYMENT_NOT_ALLOWED_WITH_MANY_SHOPS")
         [] OTHER ->
              Goto(h, "createShops") /\ loc' = [loc EXCEPT ![h] = locals]
  /\ UNCHANGED <<session, shopTx, bank, history>>

AfterCreation ==
  CASE session.mogopay -> "authRequest"
    [] ~session.mogopay /\ session.paymentMethod = "EXTERNAL" -> "webRequest"
    [] ~session.mogopay /\ session.paymentMethod = "THREEDS_NO" -> "authRequest"
    [] OTHER -> "enrollRequest"

\* createBOShopTransaction for the next shop of the cart.
CreateShopTransaction(h) ==
  /\ pc[h] = "createShops"
  /\ LET n   == Len(loc[h].shops) + 1
         id  == <<h, session.cart[n]>>
         doc == [NoShopTx(id) EXCEPT !.status = "INITIATED"]
     IN  /\ SaveShop(doc)
         /\ loc' = [loc EXCEPT ![h].shops = Append(@, doc)]
         /\ Goto(h, IF n = Len(session.cart) THEN AfterCreation ELSE "createShops")
  /\ UNCHANGED <<session, tx, bank, history>>

-----------------------------------------------------------------------------
(* doWebPayment: payment on Payline's own page.                            *)

WebRequest(h) ==
  /\ pc[h] = "webRequest"
  /\ SaveShop(WithStatus(Current(h), "PAYMENT_EXTERNAL_REQUESTED", NoCode))
  /\ Goto(h, "webAnswer")
  /\ UNCHANGED <<session, tx, loc, bank, history>>

\* The response carries the page's token and address.  Answer and write are one step: nobody
\* else learns the answer before, and the payer reaches the page only through the redirect.
WebAnswer(h) ==
  /\ pc[h] = "webAnswer"
  /\ LET doc == Current(h) IN
       \/ /\ SaveShop([WithStatus(doc, "PAYMENT_EXTERNAL_PROCESSING", SUCCESS_CODE) EXCEPT !.token = TRUE])
          /\ page' = [page EXCEPT ![doc.id] = "open"]
          /\ End(h, "redirect")
       \/ \E code \in Codes \ {SUCCESS_CODE}, token \in BOOLEAN :
            /\ SaveShop([WithStatus(doc, "PAYMENT_EXTERNAL_FAILED", code) EXCEPT !.token = token])
            /\ ToFinish(h, loc[h], "FAILED", code)
            /\ UNCHANGED page
  /\ UNCHANGED <<session, tx, authorized, plainAuth, captured, refunded, history>>

\* External: the payer pays on the page, which only authorises the amount, or gives up.
PayerDecides(id) ==
  /\ page[id] = "open"
  /\ \/ page' = [page EXCEPT ![id] = "paid"] /\ authorized' = authorized \cup {id}
     \/ page' = [page EXCEPT ![id] = "refused"] /\ UNCHANGED authorized
  /\ UNCHANGED <<session, documents, pc, loc, plainAuth, captured, refunded, history>>

\* done and callbackPayment: processPaylineResponse loads the shop transaction that its
\* address names, then the transaction.
ReturnShop(h) ==
  /\ pc[h] = "idle"
  /\ \E id \in ShopTxIds :
       /\ page[id] # "none"
       /\ loc' = [loc EXCEPT ![h].shops = <<shopTx[id]>>]
  /\ Goto(h, "returnRead")
  /\ UNCHANGED <<session, documents, bank, history>>

ReturnRead(h) ==
  /\ pc[h] = "returnRead"
  /\ loc' = [loc EXCEPT ![h].tx = tx]
  /\ Goto(h, "detailsRequest")
  /\ UNCHANGED <<session, documents, bank, history>>

\* getWebPaymentDetails.
DetailsRequest(h) ==
  /\ pc[h] = "detailsRequest"
  /\ SaveShop(WithStatus(Current(h), "PAYMENT_VERIFICATION", NoCode))
  /\ Goto(h, "detailsCall")
  /\ UNCHANGED <<session, tx, loc, bank, history>>

\* The page's state decides, if there is a token to ask with and no error on the way.
DetailsCall(h) ==
  /\ pc[h] = "detailsCall"
  /\ \E code \in Codes :
       /\ code # NoCode => Current(h).token
       /\ code = SUCCESS_CODE => page[Current(h).id] = "paid"
       /\ Receive(h, code, "detailsSave")
  /\ UNCHANGED <<session, documents, bank, history>>

\* Mutant: the answer's result code is not looked at.
DetailsSaveUnchecked(h) ==
  /\ pc[h] = "detailsSave"
  /\ SaveShop(WithStatus(Current(h), "PAYMENT_VERIFIED", loc[h].answer))
  /\ ToFinish(h, loc[h], "COMPLETED", Current(h).errorCode)
  /\ UNCHANGED <<session, tx, bank, history>>

\* The transaction gets the error code that the shop transaction had when it was loaded.
DetailsSave(h) ==
  /\ pc[h] = "detailsSave"
  /\ LET doc  == Current(h)
         code == loc[h].answer
         paid == code = SUCCESS_CODE
     IN  /\ SaveShop(WithStatus(doc, IF paid THEN "PAYMENT_VERIFIED" ELSE "PAYMENT_VERIFICATION_FAILED", code))
         /\ ToFinish(h, loc[h], IF paid THEN "COMPLETED" ELSE "PAYMENT_REFUSED", doc.errorCode)
  /\ UNCHANGED <<session, tx, bank, history>>

-----------------------------------------------------------------------------
(* verifyEnrollment: is the card enrolled in 3-D Secure?                   *)

EnrollRequest(h) ==
  /\ pc[h] = "enrollRequest"
  /\ SaveShop(WithStatus(Current(h), "VERIFICATION_THREEDS", NoCode))
  /\ loc' = [loc EXCEPT ![h].results = IF IsLast(h) THEN <<>> ELSE Append(@, "VERIFICATION_THREEDS")]
  /\ Goto(h, IF IsLast(h) THEN "enrollCall" ELSE "enrollRequest")
  /\ UNCHANGED <<session, tx, bank, history>>

\* SUCCESS_CODE stands here for both codes of an enrolled card, 00000 and 03000.
EnrollCall(h) ==
  /\ pc[h] = "enrollCall"
  /\ \E code \in Codes : Receive(h, code, "enrollSave")
  /\ UNCHANGED <<session, documents, bank, history>>

EnrollSave(h) ==
  /\ pc[h] = "enrollSave"
  /\ SaveShop(WithStatus(Current(h), "THREEDS_TESTED", loc[h].answer))
  /\ loc' = [loc EXCEPT ![h].results = IF IsLast(h) THEN <<>> ELSE Append(@, "THREEDS_TESTED")]
  /\ Goto(h, IF IsLast(h) THEN "enrolled" ELSE "enrollSave")
  /\ UNCHANGED <<session, tx, bank, history>>

\* Mutant: a card without 3-D Secure is accepted whatever the merchant requires.
EnrolledOptional(h) ==
  /\ pc[h] = "enrolled"
  /\ \/ loc[h].answer = SUCCESS_CODE /\ End(h, "form")
     \/ loc[h].answer # SUCCESS_CODE /\ Goto(h, "authRequest") /\ UNCHANGED loc
  /\ UNCHANGED <<session, documents, bank, history>>

\* The rest of startPayment.
Enrolled(h) ==
  /\ pc[h] = "enrolled"
  /\ \/ /\ loc[h].answer = SUCCESS_CODE /\ Len(loc[h].shops) > 1
        /\ ToFinish(h, loc[h], "FAILED", "ERROR_THREEDS_NOT_ALLOWED_WITH_MANY_SHOPS")
     \/ /\ loc[h].answer = SUCCESS_CODE /\ Len(loc[h].shops) <= 1
        /\ End(h, "form")
     \/ /\ loc[h].answer # SUCCESS_CODE /\ session.paymentMethod = "THREEDS_REQUIRED"
        /\ ToFinish(h, loc[h], "FAILED", "ERROR_THREEDS_REQUIRED")
     \/ /\ loc[h].answer # SUCCESS_CODE /\ session.paymentMethod # "THREEDS_REQUIRED"
        /\ Goto(h, "authRequest") /\ UNCHANGED loc
  /\ UNCHANGED <<session, documents, bank, history>>

\* threeDSCallback, from the form's address: the session may have gone meanwhile.
ThreeDSRead(h) ==
  /\ pc[h] = "idle"
  /\ \E r \in StartReqs : pc[r] = "form"
  /\ LET locals == [NoLocals EXCEPT !.tx = tx] IN
       \/ ToFinish(h, locals, "FAILED", "ERROR_PAYMENT_REQUEST_NOT_FOUND")
       \/ Goto(h, "threeDSShops") /\ loc' = [loc EXCEPT ![h] = locals]
  /\ UNCHANGED <<session, documents, bank, history>>

\* findByTransactionUuid, in whatever order; MD and PaRes go into each copy.
ThreeDSShops(h) ==
  /\ pc[h] = "threeDSShops"
  /\ LET found == FindByTransactionUuid
         N     == 1..Cardinality(found)
     IN \E list \in [N -> found] :
          /\ \A d \in found : \E i \in N : list[i] = d
          /\ loc' = [loc EXCEPT ![h].shops = [i \in N |-> [list[i] EXCEPT !.threeDS = TRUE]]]
  /\ Goto(h, "authRequest")
  /\ UNCHANGED <<session, documents, bank, history>>

-----------------------------------------------------------------------------
(* doMultiAuthorizations: doAuthorization for each shop transaction, then  *)
(* the verdict.  Both results of doAuthorization's two writes start from   *)
(* the copy in hand.                                                       *)

AuthRequest(h) ==
  /\ pc[h] = "authRequest"
  /\ SaveShop(WithStatus(Current(h), "AUTHORIZATION_REQUESTED", NoCode))
  /\ Goto(h, "authCall")
  /\ UNCHANGED <<session, tx, loc, bank, history>>

AuthCall(h) ==
  /\ pc[h] = "authCall"
  /\ \E answer \in GatewayAnswer :
       /\ authorized' = IF answer.done THEN authorized \cup {Current(h).id} ELSE authorized
       /\ plainAuth' = IF answer.done /\ ~Current(h).threeDS
                       THEN plainAuth \cup {Current(h).id} ELSE plainAuth
       /\ Receive(h, answer.code, "authSave")
  /\ UNCHANGED <<session, documents, captured, refunded, page, history>>

\* Mutant: an unexpected code is stored as the status.
StatusOfRaw(code, ok, refused, failed) ==
  CASE code = SUCCESS_CODE -> ok [] code = NoCode -> failed [] OTHER -> code

\* The status a gateway code stands for, of an operation's three possible results.
StatusOf(code, ok, refused, failed) ==
  CASE code = SUCCESS_CODE -> ok [] code = NoCode -> failed [] OTHER -> refused

\* Mutant: one accepted shop is enough.
VerdictAny(results) ==
  IF \E i \in 1..Len(results) : results[i] = "AUTHORIZED" THEN "PAYMENT_AUTHORIZED" ELSE "PAYMENT_REFUSED"

\* span(AUTHORIZED), then span(AUTHORIZATION_REFUSED) on what is left.
Verdict(results) ==
  LET N == 1..Len(results)
      Accepted(i) == \A j \in 1..i : results[j] = "AUTHORIZED"
  IN  CASE \A i \in N : Accepted(i) -> "PAYMENT_AUTHORIZED"
        [] /\ \E i \in N : ~Accepted(i)
           /\ \A i \in N : Accepted(i) \/ results[i] = "AUTHORIZATION_REFUSED" -> "PAYMENT_REFUSED"
        [] OTHER -> "PAYMENT_FAILED"

AuthSave(h) ==
  /\ pc[h] = "authSave"
  /\ LET code    == loc[h].answer
         status  == StatusOf(code, "AUTHORIZED", "AUTHORIZATION_REFUSED", "AUTHORIZATION_FAILED")
         results == Append(loc[h].results, status)
         locals  == [loc[h] EXCEPT !.results = results]
     IN  /\ SaveShop(WithStatus(Current(h), status, code))
         /\ IF IsLast(h)
            THEN ToFinish(h, locals, Verdict(results), NoCode)
            ELSE Goto(h, "authRequest") /\ loc' = [loc EXCEPT ![h] = locals]
  /\ UNCHANGED <<session, tx, bank, history>>

-----------------------------------------------------------------------------
(* finishTransaction and finishPayment.                                    *)

\* Mutant: finishPayment gets the copy without the end date.
FinishTransactionStale(h) ==
  /\ pc[h] = "finish"
  /\ LET old == loc[h].tx
         new == [old EXCEPT !.status = loc[h].status, !.error = loc[h].error]
     IN  /\ tx' = [new EXCEPT !.endDate = TRUE]
         /\ Goto(h, "finishPayment")
         /\ loc' = [loc EXCEPT ![h].tx = new]
         /\ finishes' = finishes + 1
  /\ UNCHANGED <<session, shopTx, bank, labels, mails, confirmations>>

\* updateTransactionStatus writes the copy; only a copy without an end date goes on.
FinishTransaction(h) ==
  /\ pc[h] = "finish"
  /\ LET old == loc[h].tx
         new == [old EXCEPT !.status = loc[h].status, !.error = loc[h].error, !.endDate = TRUE]
     IN  /\ tx' = new
         /\ IF old.endDate
            THEN End(h, "replied") /\ UNCHANGED finishes
            ELSE /\ Goto(h, "finishPayment")
                 /\ loc' = [loc EXCEPT ![h].tx = new]
                 /\ finishes' = finishes + 1
  /\ UNCHANGED <<session, shopTx, bank, labels, mails, confirmations>>

\* Mutant: shipping and capture follow whatever the status.
FinishPaymentAlways(h) ==
  /\ pc[h] = "finishPayment"
  /\ \E doc \in FindByShopId(SHOP_MOGOBIZ) :
       /\ Goto(h, "ship")
       /\ loc' = [loc EXCEPT ![h].shops = <<doc>>, ![h].results = <<>>]
  /\ UNCHANGED <<session, documents, bank, history>>

\* findByShopIdAndTransactionUuid takes the first hit of a search.
FinishPayment(h) ==
  /\ pc[h] = "finishPayment"
  /\ LET found == FindByShopId(SHOP_MOGOBIZ)
         next  == IF loc[h].tx.status = "PAYMENT_AUTHORIZED" THEN "ship" ELSE "mailOrder"
     IN  \/ /\ found = {}
            /\ IF next = "ship"
               THEN Goto(h, next) /\ loc' = [loc EXCEPT ![h].shops = <<>>, ![h].results = <<>>]
               ELSE End(h, "replied")
         \/ \E doc \in found :
              /\ Goto(h, next)
              /\ loc' = [loc EXCEPT ![h].shops = <<doc>>, ![h].results = <<>>]
  /\ UNCHANGED <<session, documents, bank, history>>

AfterShipping(h) == IF loc[h].shops = <<>> THEN End(h, "replied")
                    ELSE Goto(h, "captureRequest") /\ UNCHANGED loc

\* ShippingHandler.confirmShippingPrice: EasyPost buys a label, unless the copy says it
\* is bought; Kiala only marks the shipment; anything thrown is caught.
ConfirmShippingPrice(h) ==
  /\ pc[h] = "ship"
  /\ \/ /\ session.shipping = "none"
        /\ AfterShipping(h)
        /\ UNCHANGED labels
     \/ /\ session.shipping # "none"
        /\ labels' = IF session.shipping = "EASYPOST" /\ ~loc[h].tx.confirm THEN labels + 1 ELSE labels
        /\ loc' = [loc EXCEPT ![h].tx.confirm = TRUE]
        /\ Goto(h, "shipSave")
     \/ /\ session.shipping = "EASYPOST" /\ ~loc[h].tx.confirm
        /\ labels' \in {labels, labels + 1}
        /\ Goto(h, "shipError") /\ UNCHANGED loc
  /\ UNCHANGED <<session, documents, bank, mails, finishes, confirmations>>

SaveShipping(h) ==
  /\ pc[h] = "shipSave"
  /\ tx' = loc[h].tx
  /\ AfterShipping(h)
  /\ UNCHANGED <<session, shopTx, bank, history>>

\* updateTransactionStatus of the copy in hand, then the mails.
EndWith(h, status, error) ==
  LET new == [loc[h].tx EXCEPT !.status = status, !.error = error] IN
    /\ tx' = new
    /\ IF loc[h].shops = <<>>
       THEN End(h, "replied")
       ELSE Goto(h, "mailOrder") /\ loc' = [loc EXCEPT ![h].tx = new]

ShippingFailed(h) ==
  /\ pc[h] = "shipError"
  /\ EndWith(h, "SHIPMENT_ERROR", "ERROR_CONFIRM_SHIPPING")
  /\ UNCHANGED <<session, shopTx, bank, history>>

-----------------------------------------------------------------------------
(* validatePayment (capture) and refundPayment, for finishPayment and for  *)
(* Mirakl.  Again both writes start from the copy in hand.                 *)

CaptureRequest(h) ==
  /\ pc[h] = "captureRequest"
  /\ SaveShop(WithStatus(Current(h), "VALIDATION_REQUESTED", NoCode))
  /\ Goto(h, "captureCall")
  /\ UNCHANGED <<session, tx, loc, bank, history>>

CaptureCall(h) ==
  /\ pc[h] = "captureCall"
  /\ \E answer \in GatewayAnswer :
       /\ captured' = [captured EXCEPT ![Current(h).id] = IF answer.done THEN @ + 1 ELSE @]
       /\ Receive(h, answer.code, "captureSave")
  /\ UNCHANGED <<session, documents, authorized, plainAuth, refunded, page, history>>

\* Mutant: the transaction is completed whatever the capture's result.
CaptureSaveCompletes(h) ==
  /\ pc[h] = "captureSave"
  /\ SaveShop(WithStatus(Current(h), "VALIDATED", loc[h].answer))
  /\ IF h \in DebitReqs THEN End(h, "replied") ELSE Goto(h, "complete") /\ UNCHANGED loc
  /\ UNCHANGED <<session, tx, bank, history>>

\* A debit ends here; finishPayment completes the transaction or refunds it, from the
\* copy it had before the capture.
CaptureSave(h) ==
  /\ pc[h] = "captureSave"
  /\ LET code == loc[h].answer IN
       /\ SaveShop(WithStatus(Current(h), StatusOf(code, "VALIDATED", "VALIDATION_REFUSED", "VALIDATION_FAILED"), code))
       /\ IF h \in DebitReqs
          THEN End(h, "replied")
          ELSE Goto(h, IF code = SUCCESS_CODE THEN "complete" ELSE "refundRequest") /\ UNCHANGED loc
  /\ UNCHANGED <<session, tx, bank, history>>

\* Mutant: the new status is not stored.
CompleteUnsaved(h) ==
  /\ pc[h] = "complete"
  /\ End(h, "replied")
  /\ UNCHANGED <<session, documents, bank, history>>

Complete(h) ==
  /\ pc[h] = "complete"
  /\ EndWith(h, "COMPLETED", NoCode)
  /\ UNCHANGED <<session, shopTx, bank, history>>

RefundRequest(h) ==
  /\ pc[h] = "refundRequest"
  /\ SaveShop(WithStatus(Current(h), "REFUND_REQUESTED", NoCode))
  /\ Goto(h, "refundCall")
  /\ UNCHANGED <<session, tx, loc, bank, history>>

RefundCall(h) ==
  /\ pc[h] = "refundCall"
  /\ \E answer \in GatewayAnswer :
       /\ refunded' = [refunded EXCEPT ![Current(h).id] = IF answer.done THEN @ + 1 ELSE @]
       /\ Receive(h, answer.code, "refundSave")
  /\ UNCHANGED <<session, documents, authorized, plainAuth, captured, page, history>>

RefundSave(h) ==
  /\ pc[h] = "refundSave"
  /\ LET code == loc[h].answer IN
       /\ SaveShop(WithStatus(Current(h), StatusOf(code, "REFUNDED", "REFUND_REFUSED", "REFUND_FAILED"), code))
       /\ IF h \in RefundReqs
          THEN End(h, "replied")
          ELSE Goto(h, "refundEnd") /\ UNCHANGED loc
  /\ UNCHANGED <<session, tx, bank, history>>

\* The PaymentStatus refundPayment returns for the gateway's answer.
RefundPaymentStatus(code) == IF code = SUCCESS_CODE THEN "COMPLETE" ELSE "INVALID"

RefundEnd(h) ==
  /\ pc[h] = "refundEnd"
  /\ EndWith(h, IF RefundPaymentStatus(loc[h].answer) = "REFUNDED" THEN "REFUNDED" ELSE "REFUNDED_FAILED",
             NoCode)
  /\ UNCHANGED <<session, shopTx, bank, history>>

-----------------------------------------------------------------------------
(* notifyPaymentFinished and notifySuccessRefund.                          *)

\* The mail goes out, or its preparation throws: ignored when Anonymous.
Mail(h, kinds, next) ==
  /\ mails' = mails \cup kinds \/ (Anonymous /\ UNCHANGED mails)
  /\ IF next = "replied" THEN End(h, next) ELSE Goto(h, next) /\ UNCHANGED loc

\* Mutant: every finished transaction gets a bill.
MailOrderBills(h) ==
  /\ pc[h] = "mailOrder"
  /\ Mail(h, {"mail-order"}, "mailBill")
  /\ UNCHANGED <<session, documents, bank, labels, finishes, confirmations>>

\* notifySuccessRefund's mail is for a REFUNDED transaction, which never gets a bill.
MailOrder(h) ==
  /\ pc[h] = "mailOrder"
  /\ Mail(h, {"mail-order"} \cup (IF loc[h].tx.status = "REFUNDED" THEN {"mail-refund"} ELSE {}),
          IF loc[h].tx.status = "COMPLETED" THEN "mailBill" ELSE "replied")
  /\ UNCHANGED <<session, documents, bank, labels, finishes, confirmations>>

MailBill(h) ==
  /\ pc[h] = "mailBill"
  /\ Mail(h, {"mail-bill"}, "replied")
  /\ UNCHANGED <<session, documents, bank, labels, finishes, confirmations>>

-----------------------------------------------------------------------------
(* verify: the merchant asks once whether the transaction succeeded.       *)

\* A transaction without an end date is as old as the epoch, hence timed out; a wrong
\* secret or amount, and a verification that comes too late, are refused as well.
VerifyRead(h) ==
  /\ pc[h] = "idle"
  /\ Exists(tx)
  /\ \/ /\ tx.endDate /\ ~tx.merchantConfirmation
        /\ loc' = [loc EXCEPT ![h].tx = tx]
        /\ Goto(h, "verifyShop")
     \/ End(h, "replied")
  /\ UNCHANGED <<session, documents, bank, history>>

\* Without a shop transaction of the operator's shop an authorisation is all one expects.
VerifyShop(h) ==
  /\ pc[h] = "verifyShop"
  /\ LET expected == IF FindByShopId(SHOP_MOGOBIZ) = {} THEN "PAYMENT_AUTHORIZED" ELSE "COMPLETED" IN
       IF loc[h].tx.status \in {expected, "REFUNDED"}
       THEN Goto(h, "verifyWrite") /\ loc' = [loc EXCEPT ![h].status = expected]
       ELSE End(h, "replied")
  /\ UNCHANGED <<session, documents, bank, history>>

VerifyWrite(h) ==
  /\ pc[h] = "verifyWrite"
  /\ tx' = [loc[h].tx EXCEPT !.merchantConfirmation = TRUE]
  /\ confirmations' = IF loc[h].tx.status = loc[h].status THEN confirmations + 1 ELSE confirmations
  /\ End(h, "replied")
  /\ UNCHANGED <<session, shopTx, bank, labels, mails, finishes>>

-----------------------------------------------------------------------------
(* Mirakl.  debitCustomer and refundCustomer look the shop transaction up  *)
(* and check nothing else.  That a verify succeeded before is assumed of   *)
(* the marketplace (external): it knows only the orders that a merchant    *)
(* told of a success has placed.                                           *)

MiraklRead(h, next) ==
  /\ pc[h] = "idle"
  /\ confirmations > 0
  /\ \E s \in Shops \ {SHOP_MOGOBIZ} : \E doc \in FindByShopId(s) :
       loc' = [loc EXCEPT ![h].shops = <<doc>>]
  /\ Goto(h, next)
  /\ UNCHANGED <<session, documents, bank, history>>

DebitCustomer(h)  == MiraklRead(h, "captureRequest")
RefundCustomer(h) == MiraklRead(h, "refundRequest")

-----------------------------------------------------------------------------
\* A handler is lost, its documents stay as it left them: Elasticsearch, SQL or the
\* gateway's transport throws, a field of the gateway's response is missing, or the
\* server stops (which loses all running handlers, one after the other).
Abort(h) ==
  /\ pc[h] \in Active
  /\ End(h, "failed")
  /\ UNCHANGED <<session, documents, bank, history>>

Arrive ==
  \/ \E h \in StartReqs   : StartPayment(h)
  \/ \E h \in ReturnReqs  : ReturnShop(h)
  \/ \E h \in ThreeDSReqs : ThreeDSRead(h)
  \/ \E h \in VerifyReqs  : VerifyRead(h)
  \/ \E h \in DebitReqs   : DebitCustomer(h)
  \/ \E h \in RefundReqs  : RefundCustomer(h)

Step(h) ==
  \/ CreateShopTransaction(h)
  \/ WebRequest(h) \/ WebAnswer(h)
  \/ ReturnRead(h) \/ DetailsRequest(h) \/ DetailsCall(h) \/ DetailsSave(h)
  \/ EnrollRequest(h) \/ EnrollCall(h) \/ EnrollSave(h) \/ Enrolled(h) \/ ThreeDSShops(h)
  \/ AuthRequest(h) \/ AuthCall(h) \/ AuthSave(h)
  \/ FinishTransaction(h) \/ FinishPayment(h)
  \/ ConfirmShippingPrice(h) \/ SaveShipping(h) \/ ShippingFailed(h)
  \/ CaptureRequest(h) \/ CaptureCall(h) \/ CaptureSave(h) \/ Complete(h)
  \/ RefundRequest(h) \/ RefundCall(h) \/ RefundSave(h) \/ RefundEnd(h)
  \/ MailOrder(h) \/ MailBill(h)
  \/ VerifyShop(h) \/ VerifyWrite(h)

Next ==
  \/ Arrive
  \/ \E h \in Requests : Step(h) \/ Abort(h)
  \/ \E id \in ShopTxIds : PayerDecides(id)

Spec == Init /\ [][Next]_vars

\* Every handler runs on a thread of its own until it answers.
FairSpec == Spec /\ \A h \in Requests : WF_vars(Step(h))

-----------------------------------------------------------------------------
(* Properties.                                                             *)

CartShops == {session.cart[i] : i \in 1..Len(session.cart)}

\* The bank has reserved the amount of every shop of the cart.
AllAuthorized == \A s \in CartShops : \E r \in StartReqs : <<r, s>> \in authorized

\* doMultiAuthorizations, processPaylineResponse: whatever requests overlap, a stored
\* transaction that stands for a successful authorisation or anything finishPayment does
\* after one is backed by a reservation for every shop of the cart.
SuccessIsAuthorized ==
  tx.status \in {"PAYMENT_AUTHORIZED", "COMPLETED", "REFUNDED", "REFUNDED_FAILED", "SHIPMENT_ERROR"}
    => AllAuthorized

\* finishPayment, debitCustomer: no shop is debited, no label bought and no merchant told of
\* a success unless the whole cart is reserved.
NothingBeforeAuthorization ==
  (\/ \E id \in ShopTxIds : captured[id] + refunded[id] > 0
   \/ labels > 0
   \/ confirmations > 0) => AllAuthorized

\* finishPayment, processPaylineResponse: a completed transaction with something to pay has
\* been captured for the operator's shop or paid on Payline's page.
CompletedIsPaid ==
  tx.status = "COMPLETED" /\ session.cart # <<>> =>
    \E r \in StartReqs : \/ captured[<<r, SHOP_MOGOBIZ>>] > 0
                         \/ \E s \in Shops : page[<<r, s>>] = "paid"

\* startPayment, threeDSCallback: a merchant that requires 3-D Secure never gets a
\* reservation without it, unless through a mogopay session or Payline's own page.
RequiredThreeDS ==
  session.paymentMethod = "THREEDS_REQUIRED" /\ ~session.mogopay => plainAuth = {}

\* notifyPaymentFinished: the bill goes out only for money taken or a payment made.
BillIsPaid ==
  "mail-bill" \in mails /\ session.cart # <<>> =>
    \E r \in StartReqs : \/ captured[<<r, SHOP_MOGOBIZ>>] > 0
                         \/ \E s \in Shops : page[<<r, s>>] = "paid"

\* finishTransaction and verify write whole stale documents, yet with a single start
\* request an ended transaction is never reopened.
EndedStaysEnded == [][tx.endDate => tx'.endDate]_vars

\* finishPayment: an authorised transaction with the operator's shop in the cart does not
\* stay authorised: it is completed, refunded or marked, unless some handler threw.
AuthorizedIsSettled ==
  tx.status = "PAYMENT_AUTHORIZED" /\ SHOP_MOGOBIZ \in CartShops
    ~> \/ tx.status \in {"COMPLETED", "REFUNDED", "REFUNDED_FAILED", "SHIPMENT_ERROR"}
       \/ \E h \in StartReqs \cup ThreeDSReqs : pc[h] = "failed"

-----------------------------------------------------------------------------
(* What the repository says of the code, and the code does not do.         *)

\* finishTransaction: "La transaction était déjà terminée, pas besoin de le refaire une
\* 2° fois", a transaction is finished once.
FinishedOnce == finishes <= 1

\* verify: "S'il n'y a pas de produit du shop mogobiz, on ne fait que des autorisations",
\* a transaction without the operator's shop is authorised, and completed only later.
OnlyAuthorizedWithoutMogobiz ==
  tx.status = "COMPLETED" /\ session.cart # <<>> => SHOP_MOGOBIZ \in CartShops

=============================================================================
