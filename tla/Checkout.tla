------------------------------ MODULE Checkout ------------------------------
(***************************************************************************)
(* From the cart to payline/start: TransactionService and the submit half  *)
(* of TransactionHandler, over the session store.                          *)
(*                                                                         *)
(* All requests here carry the cookie of one browser session.  Each loads  *)
(* the stored SessionData when it arrives, works on that copy and stores   *)
(* the whole of it when it is done.  submit then asks its own server for   *)
(* payline/start, which loads the session again.  A step is one read or    *)
(* one write of a document.                                                *)
(*                                                                         *)
(* The amounts, payers, card and vendor data a submit brings or finds are  *)
(* abstracted to the outcomes of the tests on them; the card submit may    *)
(* store in the account is left out.  What startPayment does after it has  *)
(* created the transaction is module Payment.                              *)
(***************************************************************************)
EXTENDS Naturals, FiniteSets

CONSTANTS
  TxIds,       \* uuids of transaction requests, and of the transactions made of them
  Merchants,
  Carts,       \* contents of the customer's cart
  Anonymous,   \* Settings.Mogopay.Anonymous
  Requests,    \* each a POST transaction/submit, with or without the session's id in its
               \* path, or another request that changes the session
  None

ASSUME CheckoutAssumption ==
  /\ None \notin TxIds \cup Merchants \cup Carts
  /\ Anonymous \in BOOLEAN

\* accountId is set and dropped together with authenticated.  selectShippingCart and
\* shippingCart are represented by the cart they were computed for, paymentRequest by
\* the cart it asks payment of.
SessionData ==
  [authenticated : BOOLEAN, mogopay : BOOLEAN,
   merchantId : Merchants \cup {None}, transactionUuid : TxIds \cup {None},
   cart : Carts \cup {None}, shippingCart : Carts \cup {None},
   selectShippingCart : Carts \cup {None}, paymentRequest : Carts \cup {None}]

EmptySession ==
  [authenticated |-> FALSE, mogopay |-> FALSE, merchantId |-> None, transactionUuid |-> None,
   cart |-> None, shippingCart |-> None, selectShippingCart |-> None, paymentRequest |-> None]

\* A BOTransaction, as far as createBOTransaction fills it from the session.
BOTransaction == [vendor : Merchants, cart : Carts]

ASSUME NoneAssumption == None \notin BOTransaction

VARIABLES
  request,   \* the TransactionRequest documents: the vendor of each, or None
  tx,        \* the BOTransaction documents, or None
  stored,    \* the SessionData in the session store
  pc,        \* where each request's handler is
  loc,       \* its copy of the session and its parameters
  startPc,   \* where the payline/start that a submit asked for is
  startLoc,  \* its copy of the session
  issued,    \* history: transaction requests made so far
  expired,   \* history: those that Elasticsearch removed after their time to live
  validated, \* history: vendor and cart of the last submit of a transaction that passed
             \* every test, or None
  overlap    \* history: some request arrived while another was being handled

documents == <<request, tx>>
starts    == <<startPc, startLoc>>
history   == <<issued, expired, validated, overlap>>
vars      == <<documents, stored, pc, loc, starts, history>>

Locals ==
  [session : SessionData, transactionUUID : TxIds \cup {None}, merchantId : Merchants \cup {None},
   target : {"none", "payline/start", "mogopay/start", "mogopay/authenticate"},
   late : BOOLEAN,     \* the transaction existed when the request arrived
   hadCart : BOOLEAN]  \* the session had a cart and a shipping price then

NoLocals ==
  [session |-> EmptySession, transactionUUID |-> None, merchantId |-> None,
   target |-> "none", late |-> FALSE, hadCart |-> FALSE]

\* "refused" and "noCart": an error before the transaction request is deleted, the second
\* for want of a cart or a shipping price; "failed": an error after that.
BeforeDelete == {"store", "find", "delete"}
AfterDelete  == {"validate", "saveRequest", "save", "waiting", "clean"}
Final        == {"refused", "noCart", "failed", "replied"}

TypeOK ==
  /\ request \in [TxIds -> Merchants \cup {None}]
  /\ tx \in [TxIds -> BOTransaction \cup {None}]
  /\ stored \in SessionData
  /\ pc \in [Requests -> {"idle", "session"} \cup BeforeDelete \cup AfterDelete \cup Final]
  /\ loc \in [Requests -> Locals]
  /\ startPc \in [Requests -> {"none", "called", "create", "save", "done"}]
  /\ startLoc \in [Requests -> SessionData]
  /\ issued \subseteq TxIds /\ expired \subseteq issued
  /\ validated \in [TxIds -> BOTransaction \cup {None}]
  /\ overlap \in BOOLEAN

-----------------------------------------------------------------------------
Goto(h, l) == pc' = [pc EXCEPT ![h] = l]

\* A handler that has answered keeps only what the properties ask about.
End(h, l) ==
  /\ Goto(h, l)
  /\ loc' = [loc EXCEPT ![h] = [NoLocals EXCEPT
               !.transactionUUID = loc[h].transactionUUID,
               !.target = IF loc[h].target = "mogopay/authenticate" THEN loc[h].target ELSE "none",
               !.hadCart = l = "noCart" /\ loc[h].hadCart]]

Running(h) == pc[h] \notin {"idle"} \cup Final
StartRunning(h) == startPc[h] \in {"called", "create", "save"}

Arriving == overlap' = (\/ overlap
                        \/ \E h \in Requests : Running(h) \/ StartRunning(h))

\* Session.clear: only the id of the session is kept.
Cleared == EmptySession

Init ==
  /\ request = [t \in TxIds |-> None]
  /\ tx = [t \in TxIds |-> None]
  /\ \E c \in Carts, m \in Merchants, loggedIn \in BOOLEAN :
       stored = [EmptySession EXCEPT !.authenticated = loggedIn,
                                     !.merchantId = IF loggedIn THEN m ELSE None,
                                     !.cart = c, !.shippingCart = c, !.selectShippingCart = c]
  /\ pc = [h \in Requests |-> "idle"]
  /\ loc = [h \in Requests |-> NoLocals]
  /\ startPc = [h \in Requests |-> "none"]
  /\ startLoc = [h \in Requests |-> EmptySession]
  /\ issued = {} /\ expired = {} /\ overlap = FALSE
  /\ validated = [t \in TxIds |-> None]

-----------------------------------------------------------------------------
(* init, and the end of a transaction request nobody submits.              *)

\* init: a request with a new uuid; it only reads the session.
InitTransaction(t, m) ==
  /\ t \notin issued
  /\ stored.cart # None
  /\ request' = [request EXCEPT ![t] = m]
  /\ issued' = issued \cup {t}
  /\ UNCHANGED <<tx, stored, pc, loc, starts, expired, validated, overlap>>

\* The document's _ttl runs out.
Expire(t) ==
  /\ request[t] # None
  /\ request' = [request EXCEPT ![t] = None]
  /\ expired' = expired \cup {t}
  /\ UNCHANGED <<tx, stored, pc, loc, starts, issued, validated, overlap>>

-----------------------------------------------------------------------------
(* submit, up to the call of transactionHandler.submit.                    *)

\* The session is loaded; with its id in the path it is not stored again first.  The shop
\* submits uuids that init gave it.
SubmitLoad(h, t, m) ==
  /\ pc[h] = "idle" /\ t \in issued
  /\ loc' = [loc EXCEPT ![h] = [NoLocals EXCEPT
               !.session = stored, !.transactionUUID = t, !.merchantId = m,
               !.late = tx[t] # None,
               !.hadCart = stored.cart # None /\ stored.selectShippingCart # None]]
  /\ \E next \in {"store", "find"} : Goto(h, next)
  /\ Arriving
  /\ UNCHANGED <<documents, stored, starts, issued, expired, validated>>

\* Mutant: the transaction's uuid is stored with the payers, before any test.
SubmitStoreEarly(h) ==
  /\ pc[h] = "store"
  /\ stored' = [loc[h].session EXCEPT !.transactionUuid = loc[h].transactionUUID]
  /\ loc' = [loc EXCEPT ![h].session = stored']
  /\ Goto(h, "find")
  /\ UNCHANGED <<documents, starts, history>>

\* The payers are set and the copy is stored.
SubmitStore(h) ==
  /\ pc[h] = "store"
  /\ stored' = loc[h].session
  /\ Goto(h, "find")
  /\ UNCHANGED <<documents, loc, starts, history>>

\* doSubmit: a session that is not authenticated and does not know the transaction is
\* cleared, in the copy.
SubmitSession(h) ==
  LET s == loc[h].session IN
    IF ~s.authenticated /\ s.transactionUuid # loc[h].transactionUUID THEN Cleared ELSE s

\* The tests doSubmit and submit make before they delete the request; the wrong amount,
\* payers of a payment that is not a group's and an unknown vendor are refused too.
FindRequest(h) ==
  /\ pc[h] = "find"
  /\ LET s == SubmitSession(h) IN
       \/ End(h, "refused")
       \/ /\ Anonymous \/ loc[h].session.merchantId = loc[h].merchantId
          /\ request[loc[h].transactionUUID] = loc[h].merchantId
          /\ IF s.cart = None \/ s.selectShippingCart = None
             THEN End(h, "noCart")
             ELSE Goto(h, "delete") /\ loc' = [loc EXCEPT ![h].session = s]
  /\ UNCHANGED <<documents, stored, starts, history>>

DeleteRequest(h) ==
  /\ pc[h] = "delete"
  /\ request' = [request EXCEPT ![loc[h].transactionUUID] = None]
  /\ Goto(h, "validate")
  /\ UNCHANGED <<tx, stored, loc, starts, history>>

-----------------------------------------------------------------------------
(* The rest of submit.                                                     *)

\* What submit writes into the session, for a payment of the customer's cart.
Submitted(s, t, m, mogopay) ==
  [s EXCEPT !.transactionUuid = t, !.merchantId = m, !.mogopay = mogopay]

\* Mutant: a payment request the session already has is kept.
WithPaymentRequestOnce(s) == IF s.paymentRequest = None THEN [s EXCEPT !.paymentRequest = s.cart] ELSE s

WithPaymentRequest(s) == [s EXCEPT !.paymentRequest = s.cart]

\* A mogopay payment with a CVV uses the card stored in the account; without one the
\* customer is sent to authenticate and the request is saved again; any other payment
\* goes to the provider.
Validated(h, mogopay, cvv) ==
  LET t == loc[h].transactionUUID
      m == loc[h].merchantId
      s == Submitted(loc[h].session, t, m, mogopay)
      p == WithPaymentRequest(s)
  IN  \/ /\ mogopay /\ ~cvv
         /\ loc' = [loc EXCEPT ![h].session = s, ![h].target = "mogopay/authenticate"]
         /\ Goto(h, "saveRequest")
      \/ /\ mogopay /\ cvv /\ s.authenticated
         /\ loc' = [loc EXCEPT ![h].session = p, ![h].target = "mogopay/start"]
         /\ Goto(h, "save")
      \/ /\ ~mogopay
         /\ loc' = [loc EXCEPT ![h].session = p, ![h].target = "payline/start"]
         /\ Goto(h, "save")

\* Mutant: no look for a transaction made of this request before.
ValidateUnchecked(h) ==
  /\ pc[h] = "validate"
  /\ \E store, cvv \in BOOLEAN :
       /\ Validated(h, loc[h].session.mogopay \/ store, cvv)
       /\ validated' = [validated EXCEPT ![loc[h].transactionUUID] =
                          [vendor |-> loc[h].merchantId, cart |-> loc[h].session.cart]]
  /\ UNCHANGED <<documents, stored, starts, issued, expired, overlap>>

\* A transaction that exists, and vendor or card data that will not do, end the request
\* with its transaction request gone.
Validate(h) ==
  /\ pc[h] = "validate"
  /\ \/ /\ End(h, "failed")
        /\ UNCHANGED validated
     \/ /\ tx[loc[h].transactionUUID] = None
        /\ \E store, cvv \in BOOLEAN : Validated(h, loc[h].session.mogopay \/ store, cvv)
        /\ validated' = [validated EXCEPT ![loc[h].transactionUUID] =
                           [vendor |-> loc[h].merchantId, cart |-> loc[h].session.cart]]
  /\ UNCHANGED <<documents, stored, starts, issued, expired, overlap>>

\* Mutant: the request is not saved again.
SaveRequestForgotten(h) ==
  /\ pc[h] = "saveRequest"
  /\ Goto(h, "save")
  /\ UNCHANGED <<documents, stored, loc, starts, history>>

\* The transaction request found at first, which names the same vendor, is saved.
SaveRequest(h) ==
  /\ pc[h] = "saveRequest"
  /\ request' = [request EXCEPT ![loc[h].transactionUUID] = loc[h].merchantId]
  /\ Goto(h, "save")
  /\ UNCHANGED <<tx, stored, loc, starts, history>>

Call(h) == startPc' = [startPc EXCEPT ![h] = IF loc[h].target = "payline/start" THEN "called" ELSE "done"]

\* setSession, and the call to this server; the routes of mogopay answer and do nothing.
SaveSession(h) ==
  /\ pc[h] = "save"
  /\ stored' = loc[h].session
  /\ Call(h)
  /\ Goto(h, "waiting")
  /\ UNCHANGED <<documents, loc, startLoc, history>>

\* The answer, an error of payline/start included, is passed on to the browser.
Answered(h) ==
  /\ pc[h] = "waiting"
  /\ ~StartRunning(h)
  /\ End(h, "replied")
  /\ UNCHANGED <<documents, stored, starts, history>>

\* The call itself fails, by a timeout or a lost connection; payline/start may still run.
CallFailed(h) ==
  /\ pc[h] = "waiting"
  /\ Goto(h, "clean")
  /\ UNCHANGED <<documents, stored, loc, starts, history>>

\* cleanSession, on the copy, which is stored.
CleanSession(h) ==
  /\ pc[h] = "clean"
  /\ stored' = [Cleared EXCEPT !.authenticated = loc[h].session.authenticated]
  /\ End(h, "replied")
  /\ UNCHANGED <<documents, starts, history>>

-----------------------------------------------------------------------------
(* payline/start.                                                          *)

StartLoad(h) ==
  /\ startPc[h] = "called"
  /\ startPc' = [startPc EXCEPT ![h] = "create"]
  /\ startLoc' = [startLoc EXCEPT ![h] = stored]
  /\ UNCHANGED <<documents, stored, pc, loc, history>>

\* Mutant: the payment request is not required.
StartCreateUnchecked(h) ==
  /\ startPc[h] = "create"
  /\ LET s == startLoc[h] IN
       /\ s.merchantId # None /\ s.transactionUuid # None
       /\ tx' = [tx EXCEPT ![s.transactionUuid] = [vendor |-> s.merchantId, cart |-> s.paymentRequest]]
  /\ startPc' = [startPc EXCEPT ![h] = "save"]
  /\ UNCHANGED <<request, stored, pc, loc, startLoc, history>>

\* createBOTransaction needs a payment request, a merchant and a transaction's uuid.
StartCreate(h) ==
  /\ startPc[h] = "create"
  /\ LET s == startLoc[h] IN
       \/ /\ s.paymentRequest # None /\ s.merchantId # None /\ s.transactionUuid # None
          /\ tx' = [tx EXCEPT ![s.transactionUuid] = [vendor |-> s.merchantId, cart |-> s.paymentRequest]]
          /\ startPc' = [startPc EXCEPT ![h] = "save"]
          /\ UNCHANGED startLoc
       \/ /\ startPc' = [startPc EXCEPT ![h] = "done"]
          /\ startLoc' = [startLoc EXCEPT ![h] = EmptySession]
          /\ UNCHANGED tx
  /\ UNCHANGED <<request, stored, pc, loc, history>>

\* startPayment is done and its copy of the session is stored, or it threw.
StartSave(h) ==
  /\ startPc[h] = "save"
  /\ stored' = startLoc[h] \/ UNCHANGED stored
  /\ startPc' = [startPc EXCEPT ![h] = "done"]
  /\ startLoc' = [startLoc EXCEPT ![h] = EmptySession]
  /\ UNCHANGED <<documents, pc, loc, history>>

-----------------------------------------------------------------------------
(* Other requests of the session.                                          *)

SessionLoad(h) ==
  /\ pc[h] = "idle"
  /\ loc' = [loc EXCEPT ![h].session = stored]
  /\ Goto(h, "session")
  /\ Arriving
  /\ UNCHANGED <<documents, stored, starts, issued, expired, validated>>

Store(h, s) ==
  /\ pc[h] = "session"
  /\ stored' = s
  /\ End(h, "replied")
  /\ UNCHANGED <<documents, starts, history>>

\* login, and initGroupPayment, which logs the invited payer in: authenticateSession.  The
\* account's owner is none for a merchant.
AuthenticateSession(h) ==
  \E m \in Merchants \cup {None} :
    Store(h, [loc[h].session EXCEPT !.authenticated = TRUE, !.merchantId = m])

\* customer-token and merchant-token.
Token(h) == Store(h, Cleared)

\* done, callback and threeDSCallback of payline: once the transaction is found and dealt
\* with, the session is stored as it was loaded.
Returned(h) == (\E t \in TxIds : tx[t] # None) /\ Store(h, loc[h].session)

\* The shop puts another cart into the session.
ShopSetsCart(h) == \E c \in Carts : Store(h, [loc[h].session EXCEPT !.cart = c])

\* The shop stores the prices shippingPrices computed for the cart, or their errors,
\* which nothing can be selected from.  It passes the account they are for, which the
\* session does not decide.
ShippingPrices(h) ==
  /\ loc[h].session.cart # None
  /\ \E quote \in {loc[h].session.cart, None} :
       Store(h, [loc[h].session EXCEPT !.shippingCart = quote])

\* selectShippingPrice throws without prices, an active address or a price for each shop.
SelectShippingPrice(h) ==
  /\ pc[h] = "session"
  /\ \/ /\ loc[h].session.shippingCart # None
        /\ Store(h, [loc[h].session EXCEPT !.selectShippingCart = loc[h].session.shippingCart])
     \/ End(h, "refused") /\ UNCHANGED <<documents, stored, starts, history>>

-----------------------------------------------------------------------------
\* Elasticsearch or the server fails a submit anywhere.
Abort(h) ==
  /\ pc[h] \in BeforeDelete \cup AfterDelete
  /\ End(h, IF pc[h] \in BeforeDelete THEN "refused" ELSE "failed")
  /\ UNCHANGED <<documents, stored, starts, history>>

Submit(h) ==
  \/ \E t \in TxIds, m \in Merchants : SubmitLoad(h, t, m)
  \/ SubmitStore(h) \/ FindRequest(h) \/ DeleteRequest(h) \/ Validate(h) \/ SaveRequest(h)
  \/ SaveSession(h) \/ Answered(h) \/ CallFailed(h) \/ CleanSession(h) \/ Abort(h)

Start(h) == StartLoad(h) \/ StartCreate(h) \/ StartSave(h)

Other(h) ==
  \/ SessionLoad(h) \/ AuthenticateSession(h) \/ Token(h) \/ Returned(h)
  \/ ShopSetsCart(h) \/ ShippingPrices(h) \/ SelectShippingPrice(h)

Next ==
  \/ \E t \in TxIds, m \in Merchants : InitTransaction(t, m)
  \/ \E t \in TxIds : Expire(t)
  \/ \E h \in Requests : Submit(h) \/ Start(h) \/ Other(h)

Spec == Init /\ [][Next]_vars

-----------------------------------------------------------------------------
(* Properties.                                                             *)

\* submit: whatever other submits delete and save again meanwhile, one that arrives when
\* the transaction already exists never passes, so that it asks for no second payment.
LateSubmitIsRefused ==
  \A h \in Requests : loc[h].late => pc[h] \notin AfterDelete \ {"validate"}

\* submit deletes the transaction request and, to authenticate the customer, saves it
\* again: as long as every submit of a transaction was refused before the delete or sent to
\* authenticate, the customer's next attempt finds the request, unless it expired.
RequestSurvives ==
  \A t \in issued \ expired :
    (\A h \in Requests : loc[h].transactionUUID = t =>
        \/ pc[h] \in BeforeDelete \cup {"refused", "noCart"}
        \/ pc[h] \in {"save", "waiting", "clean", "replied"} /\ loc[h].target = "mogopay/authenticate")
    => request[t] # None

\* payline/start takes transaction and merchant from the session as it is stored then,
\* which submits and other tabs overwrite; still no transaction exists for which no submit
\* passed every test.
CreatedWasSubmitted == \A t \in TxIds : tx[t] # None => validated[t] # None

\* A customer whose requests never overlap, however many submits fail, expire, log in or
\* change the cart in between, pays the vendor and the cart that the submit validated.
AloneIsConsistent ==
  ~overlap => \A t \in TxIds : tx[t] # None => tx[t] = validated[t]

-----------------------------------------------------------------------------
(* What the repository says of the code, and the code does not do.         *)

\* doSubmit: "is he authenticated (mogopay payment) or is it his first attempt": a customer
\* who has chosen cart and shipping is not refused for want of them.
CartIsKept == \A h \in Requests : pc[h] = "noCart" => ~loc[h].hadCart

=============================================================================
