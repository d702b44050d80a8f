# Mogopay: a verification project

Mogopay is a payment server (Scala, Spray, Elasticsearch). A merchant opens a
transaction, the buyer submits a cart and pays by card through Payline, the merchant
verifies the result, and a Mirakl marketplace later orders debits and refunds. The
server is stateless: every HTTP request is a thread that loads documents from
Elasticsearch, calls outside services and writes whole documents back. Almost none of
these writes checks a version. A console of JavaScript pages lets merchants look at orders
and handle returns. This project models what happens when such requests and pages overlap,
repeat, stop half-way, or are answered oddly.

## 1. Inventory

| Component | State | Operations | Interacts with |
|---|---|---|---|
| Payline provider (`PaylineHandler`, `PaylineService`) | none of its own | `startPayment`, `done`, `callbackPayment`, `threeDSCallback`, `validatePayment`, `refundPayment` | Payline over SOAP; the documents below |
| Payment life cycle (`PaymentHandler`, `TransactionHandler`) | `BOTransaction`, one `BOShopTransaction` per shop of the cart | `createBOTransaction`, `finishTransaction`, `finishPayment`, `verify`, mails | provider, shipping, mail, merchant |
| Marketplace orders (`MiraklHandler`, `MiraklService`) | reads shop transactions | `debitCustomer`, `refundCustomer` | provider's capture and refund |
| Transaction ids (`TransactionSequenceHandler`) | one document per vendor, versioned | `nextTransactionId` | Elasticsearch's optimistic concurrency |
| Checkout (`TransactionService`, `TransactionHandler.submit`) | `TransactionRequest`, `SessionData` | `init`, `shippingPrices`, `selectShippingPrice`, `submit` | session store, shipping, accounts |
| Shipping (`ShippingHandler`, `EasyPostHandler`, `KialaShippingHandler`) | `shippingData` of the transaction | price computation, `confirmShippingPrice` | EasyPost, Kiala |
| Accounts (`AccountHandler`) | `Account` documents | signup, confirmation, login and lockout, addresses, recycling | mail, SMS |
| Session store (`SessionDirectives`, `Session`) | one document per browser session | load, `clear`, store of the whole | every service |
| Admin console (`static/admin/js`) | `$rootScope`, a scope per page, one overlay, calls in flight | login, logout, searches, order details, return updates, profile | the server, by asynchronous calls |
| Others | | rates, countries, templates, PDF, notifications, back office, boot | I/O only |

`PROJECT.json` lists every component with what is and is not modelled. The other card
providers (Systempay, Sips, Paybox, PayPal, Authorize.net, Apple Pay) are class shells
in this commit: their bodies are commented out.

What is hard, and what makes each part correct:

* **Life cycle.** Two requests of one transaction overlap (browser return and Payline's
  notification; a form posted twice; a payment started twice; verify during finishing),
  each with a stale copy of the whole document. Correct means: whatever is stored,
  captured, mailed or answered as a success is backed by the bank, for every shop.
* **Provider.** The gateway's answer may be missing, refused or lost after the gateway
  acted; a cart of several shops may be authorised in part; 3-D Secure may be required.
* **Checkout.** `submit` stores the session and then asks its own server for `payline/start`,
  which loads the session again and creates the transaction it finds there. Other tabs store
  their own copies in between. A transaction request is deleted before the last tests and
  saved again in one case. Correct means: only what a `submit` has validated is paid, and a
  customer who may try again can.
* **Console.** Callbacks run when answers come, on whatever page the user is by then, over
  whatever lists and selection there are. One overlay, shared by all calls, takes the clicks.
* **Ids.** Optimistic concurrency, an unbounded retry loop, a first call without a
  version, midnight.
* **Accounts.** Lost updates of a counter or of an address list, a cleaning job that
  races with a confirmation.

## 2. Modules

| Module | Models |
|---|---|
| `Payment` | one transaction from `startPayment` to `verify` and the Mirakl orders |
| `PaymentInvariants` | what each handler knows at each step, and what it knows of the money: the inductive invariants |
| `CartSettlement` | abstract: what a payment promises to bank, customer and merchant |
| `PaymentSettlement` | the refinement mapping from `Payment` to it |
| `PaymentProofs` | theorems about `Payment`: authorisation before success |
| `PaymentMoneyProofs` | theorems about `Payment`: who was paid, and what has ended |
| `PaymentSettlementProofs` | `Payment` implements `CartSettlement` |
| `MCPayment` | its small instances |
| `TransactionSequence` | `nextTransactionId` of one vendor |
| `MCTransactionSequence` | its small instance |
| `TransactionSequenceProofs` | theorems about it |
| `Account` | the accounts: signup to cleaning job |
| `AccountInvariants`, `AccountProofs` | the inductive invariant and theorems about it |
| `MCAccount` | its small instances |
| `Checkout` | the session, the transaction requests, `submit` and the `payline/start` it asks for |
| `CheckoutInvariants`, `CheckoutProofs` | the inductive invariant and theorems about it |
| `MCCheckout` | its small instances |
| `AdminConsole` | the merchant's pages: calls, answers, overlay, selection |
| `AdminConsoleInvariants`, `AdminConsoleProofs` | the inductive invariant and theorems about it |
| `CardNumber` | the two Luhn checks, as operators |
| `MCAdminConsole` | the console's small instance; evaluates the facts of `CardNumber` |

`Checkout` hands over to `Payment`: its last step is the creation of the transaction with
which `Payment` begins. They share no variables; `Payment` starts from any session that
`Checkout` may leave, of which it reads the cart and the payment method.

### Payment

`tx` is the `BOTransaction` document, `shopTx` the `BOShopTransaction` documents, one for
each start request and shop. Each request `h` has a program counter `pc[h]` and locals
`loc[h]`: its *copy* of the transaction and of the shop transactions, the statuses its
loop has gathered, the gateway's last answer and the arguments of the coming
`finishTransaction`. One step of the model is one write of a shared document or one call
to an outside service, so everything between two of them is atomic, and nothing else is.

The bank and the outside world appear as history: `authorized` (amounts reserved),
`plainAuth` (reserved without 3-D Secure data), `captured`, `refunded`, the payer's
progress on Payline's `page`, `labels` bought, `mails` sent, how often `finishPayment`
was entered and how often `verify` answered with a success. Properties relate the stored
documents to this history.

| Code | Actions |
|---|---|
| `startPayment` | `StartPayment`, `CreateShopTransaction`, `Enrolled` |
| `doWebPayment` | `WebRequest`, `WebAnswer` |
| `processPaylineResponse`, `getWebPaymentDetails` | `ReturnShop`, `ReturnRead`, `DetailsRequest`, `DetailsCall`, `DetailsSave` |
| `verifyEnrollment` | `EnrollRequest`, `EnrollCall`, `EnrollSave` |
| `threeDSCallback` | `ThreeDSRead`, `ThreeDSShops` |
| `doMultiAuthorizations`, `doAuthorization` | `AuthRequest`, `AuthCall`, `AuthSave`, `Verdict` |
| `finishTransaction`, `finishPayment` | `FinishTransaction`, `FinishPayment`, `ConfirmShippingPrice`, `SaveShipping`, `ShippingFailed`, `Complete`, `RefundEnd` |
| `validatePayment`, `refundPayment` | `CaptureRequest/Call/Save`, `RefundRequest/Call/Save` |
| `notifyPaymentFinished` | `MailOrder`, `MailBill` |
| `verify` | `VerifyRead`, `VerifyShop`, `VerifyWrite` |
| `debitCustomer`, `refundCustomer` | `DebitCustomer`, `RefundCustomer` |
| an exception, a missing field, a server stop | `Abort`, at any point of any handler |

Abstracted: amounts, currencies, card data, SOAP requests, log records and the audit
list `modifications`. A result code is absent, a success or another one; `00000` and the
`03000` of the enrolment check are one success. Searches return their hits in any order. An
Elasticsearch search is taken to see every earlier write (the handlers index with refresh).

### CartSettlement

The abstract view of `Payment` has five variables: the shops of the cart, those the bank
holds the money of, those whose money has moved, what the transaction says (`open`,
`success`, `failure`) and whether the merchant was told of a success. Money moves and a
success is concluded only when the whole cart is reserved; money of a shop that is not the
operator's moves only after the merchant was told. `PaymentSettlement` maps `Payment` to it:
`reserved` are the shops with an authorisation of some start request, `moved` those with a
capture or a refund, `outcome` is the stored status (nothing or INITIATED is `open`, a member
of `Success` is `success`), and `told` is that `verify` has answered with a success.
`PaymentSettles` says that every step of every handler is a step of `CartSettlement` or none.
That foreign money moves only after the merchant was told is no guard of `MiraklHandler`,
which checks nothing: it is assumed of Mirakl, whose orders `DebitCustomer` and
`RefundCustomer` take to come from an order the merchant has placed there.

### TransactionSequence

`doc` is the vendor's document with Elasticsearch's version (0 when missing); `copy`
and `next` are the locals of each caller. `Update` is the conditional write,
`UpdateAnswerLost` the same with its answer lost (a `Failure` to the caller, which starts
over), `Conflict` the refused write, `Index` the unconditional first creation,
`Midnight` the change of date.

### Account

`accounts` holds the documents as `load` finds them, `index` as a search finds them. A write
with refresh changes both at once, one without refresh changes `accounts`, and `Refresh`
brings the index up to date later. A request first takes a copy of a document (`loc`), from
either place, and then writes the whole of it back; `Update` fails when the document is gone,
as `EsClient.update` does without upsert. Each request runs one operation once.

| Code | Actions |
|---|---|
| `signup`, `UserHandler.register`, `save` | `Signup`, `Register`, `SaveFind`, `SaveIndex` |
| `confirmSignup` | `ConfirmLoad`, `ConfirmSignup` |
| both `login` | `LoginFind`, `LoginRefused`, `LoginFailed`, `LoginDone` |
| `sendNewPassword` | `NewPasswordFind`, `SendNewPassword` |
| requests of a logged-in user | `SessionLoad`, then one of `UpdatePassword`, `GenerateAndSendPincode3`, `EnrollNumber`, `GenerateNewSecret`, `CreateCard`, ..., `UpdateProfileLight` |
| `enroll` with the account's own number | `EnrollLoad`, `EnrollVerify` |
| `recycle`, `delete` | `RecycleSearch`, `Delete`, one account at a time |
| time | `Age`: the confirmation token is too old and the account may be recycled, both after a day in the shipped configuration |

An account's `owner` is the vendor for customers and missing for merchants. `ValidateEmail`
and `ValidatePhone` are the owners whose accounts have to be confirmed, `SharedCustomers` is
`account.validate.customershared`, and `Asked` the owner that a search for an e-mail then asks
for. A pin code is kept with the form it is stored in (the
digest's bytes read as UTF-8, its hex form, plain text), because the code compares two
different ones. Passwords are tokens, the password check is a choice between
`LoginFailed` and `LoginDone`, and names, companies, payment settings and the mails are left
out.

### Checkout

All requests come from one browser session. `stored` is the session in Elasticsearch,
`loc[h].session` the copy a request loaded when it arrived, `request` and `tx` are the
transaction requests and transactions. A request is a `submit` or one of the others that
store the session; the `payline/start` a `submit` calls has a program counter of its own
(`startPc`), because it goes on when the call has timed out.

| Code | Actions |
|---|---|
| `init`, and the time to live of its document | `InitTransaction`, `Expire` |
| `submit`, `submitWithSession` | `SubmitLoad`, `SubmitStore` |
| `doSubmit`, `TransactionHandler.submit` | `FindRequest`, `DeleteRequest`, `Validate`, `SaveRequest`, `SaveSession` |
| the call of the own server | `Answered`, `CallFailed`, `CleanSession` |
| `payline/start` | `StartLoad`, `StartCreate`, `StartSave` |
| login, tokens, returns from the gateway, shipping prices and their selection, the shop's cart | `SessionLoad`, then `AuthenticateSession`, `Token`, `Returned`, `ShippingPrices`, `SelectShippingPrice`, `ShopSetsCart` |
| an exception or a server stop | `Abort`, before or after the delete |

`Returned` is what `done`, `callback` and `threeDSCallback` do to the session: they load it when
they arrive and store it unchanged when the handler has answered. `ShippingPrices` asks for no
account in the session, because the shop passes the account it wants prices for. Cart,
shipping prices, shipping choice and payment request are each represented by the cart
they are for. The tests on amounts, payers, vendor and card data are choices. The routes
`mogopay/start` and `mogopay/authenticate` answer and do nothing, as in the code; the branch
of `submit` for a customer who comes "back from the CVV screen" cannot be reached, since
its URLs are mandatory.

### AdminConsole

`calls` are the calls in flight in the order they were made. A step is a click (`Login`,
`Logout`, ... `SaveProfile`) or the answer to a call, which is a success of its kind or an
`Error`; both are one turn of the browser's event loop (`Turn`): the scopes are written,
new calls made, and the page changed, which starts its controller. The four sets at the top
are the last three arguments of every `callServer`: whether the call shows the overlay and
when it removes it. Clicks need the page uncovered, the enter key of the login form does not.
The overlay is not tied to a call, so the answer of one uncovers the page under another: the
details page makes two calls at once, and clicks made in between are in the model.

An answer that overtakes an earlier call is counted in `overtakes`. HTTP gives no order, so
`OverlayLifts` holds for every order. The other three are stated for answers that come in
order, because the code does not keep them otherwise: a late answer may fill the lists after
a logout, or show the cart of an order that is no longer selected.

`CardNumber` states what `luhn10` detects, and that the server's `checkLuhn` accepts every
number of two or more digits, for numbers of up to three digits; its facts are assumptions
that TLC evaluates.

## 3. Runs

Bounds are the sets of requests in each cfg; no counter of `Payment`, `Account` or `Checkout`
needs another bound, because every request runs once. Two shops, the operator's and another, give every
kind of cart the code distinguishes: empty, own, foreign, and both in either order. Two
requests of a kind suffice for every race between copies.

| Run | Shows |
|---|---|
| `payment_card` | direct payments of every cart with and without 3-D Secure: all safety properties with every gateway answer and every lost handler; an authorised payment of the operator's shop is settled |
| `payment_overlap` | the same safety properties when two requests of a kind overlap: return and notification of Payline's page, or the 3-D Secure form posted twice, with verify and a marketplace debit |
| `payment_restart` | the payment of two shops started twice |
| `sequence` | no id is handed out twice unless the document is created twice; every caller gets an id |
| `account_session` | two requests of a logged-in user and two logins overwrite each other's changes: lists stay sound, failures bounded |
| `account_enrol` | two signups, a confirmation, a login or new password and the cleaning job, with shared customers as shipped: deleted and confirmed accounts stay so, nothing is created beside an account the searches ask for, abandoned accounts disappear |
| `checkout` | three requests of one session over two transactions and two carts: only what was validated is created, late submits are refused, requests survive |
| `console` | six clicks with answers in order, or one of them out of order: the overlay lifts, a logout leaves nothing, the details page settles |
| `payment_finished_once` | *violated*: `finishPayment` can run twice |
| `payment_marketplace_page` | *violated*: a marketplace payment on the page is COMPLETED and never verified |
| `account_recycle_race` | *violated*: an account activated by a new password is recycled |
| `checkout_first_attempt` | *violated*: the first submit of a customer who is not logged in loses its cart |

Deadlock is not checked: when all requests are answered, or the user stops clicking, the system
rightly stops.

**Properties of Payment.** The inductive invariants of section 4 are checked with the rest:
`HandlersAgree` in `payment_card` and `payment_overlap`, where it implies
`SuccessIsAuthorized`, and `MoneyAgrees` in `payment_overlap`. `SuccessIsAuthorized` and `NothingBeforeAuthorization`: a
stored success, a capture, a label or a confirmation implies that the bank has reserved
every shop of the cart, whichever handler wrote last. `CompletedIsPaid`, `BillIsPaid`:
`COMPLETED` and the bill mean money captured, or paid on Payline's page. `RequiredThreeDS`:
no path leads round 3-D Secure when the merchant requires it. `EndedStaysEnded`: stale
whole-document writes never reopen an ended transaction (with one start request; a second
start does reopen it, so the property is not in `payment_restart`). `PaymentSettles` is the
refinement: it adds to the invariants the order of things, that no step moves money, tells the
merchant or concludes before it may.

**Properties of Account.** Updates of accounts are lost; the properties say what survives.
`AccountsAgree` is the inductive invariant of section 4, with the types in it.
`ListsAreSound`: no stale list gives an account two active shipping addresses or two entries
of one. `FailuresAreBounded`: overlapping failed logins never count past the limit plus one.
`DeletedStaysDeleted`: no late write brings a recycled account back. `ConfirmedStaysConfirmed`:
no stale copy puts a confirmed account back among the waiting ones; it holds because login,
the one handler that would write such a copy, refuses those accounts first.
`SignupRefusesKnown`: a request creates nothing while an account stays that had its e-mail
before it came and that the searches ask for, one of the same owner or, with shared
customers, one without owner. Requests that overlap may both create one; the rest rests on
`save` indexing at once what it stores. With shared customers that is less than it sounds:
`signup` stores the vendor as a customer's owner, so that a customer the vendor already has is
none of the accounts asked for, and his e-mail is accepted again.
`AbandonedIsRecycled` is the job's promise. `account_enrol` has shared customers and merchants
that confirm, so that accounts without owner wait, too; `account_session` and
`account_recycle_race` keep customers apart, because the search of `sendNewPassword` finds no
customer of a vendor when they are shared. One known customer and two signups of one e-mail
give every pair of rivals, as owners tell them apart where the setting does; a limit of zero
and two logins let the count pass from zero over the limit to beyond it.

**Properties of Checkout.** `CheckoutAgrees` is the inductive invariant, with the types in
it. `CreatedWasSubmitted`: however tabs overwrite the session, no
transaction is created that no `submit` has validated. `AloneIsConsistent`: without overlaps it
is created for the vendor and cart that were validated, also after failed calls, expired
requests and changes of cart; with overlaps it may not be, as another tab's cart or vendor
may be in the session by then. `LateSubmitIsRefused`: a `submit` that comes when the
transaction exists never passes. `RequestSurvives`: as long as a customer was only refused
early or sent to log in, the next attempt finds the transaction request. Three requests are
needed: two submits of one transaction and a request that changes the session between them,
or a third submit; the two transactions and carts make a mix-up visible.

**Properties of AdminConsole.** `ConsoleAgrees` is the inductive invariant, with the types in
it. `OverlayLifts`: under every order, failure and overlap the
overlay goes away, unless a row's callback lost its row and threw. `OverlayHasCause`: with
answers in order it never outlives the calls, even then. `LoggedOutIsEmpty` and
`DetailsSettle` are what a user relies on after a logout and on the details page. Six clicks
reach every page and let a user leave the details page for a customer's while an order's cart
is on its way; two orders and lists of none, one and two give every case of the rows' loop.

The models also show behaviours that no run singles out: two signups that overlap both create
an account; with shared customers, the shipped setting, a known customer's e-mail is accepted again;
two verifications that overlap are both told of the success; two first calls for a vendor get
the same id; a capture whose answer is lost is never completed; a mail that throws fails a
request whose payment is done; a login that overlaps a change of
password stores the old one; and `enroll` accepts no code, because it compares two different
encodings of its digest (and an Option with a string). In the console, the update of a return
may name the order selected last and an item of the cart still shown; a second logout leaves a
login form that logs in as a customer; and a token that is answered after the login empties
the new session.

**Fairness.** In `Payment`, `FairSpec` is weak fairness of each handler's own steps: Spray runs each
request on a thread of its own, and the calls in it either return or throw. Requests are
not fair: nobody has to verify. In `TransactionSequence` the retry loop needs no more:
a conflict means that another caller has advanced, and calls are finite. In `Account` only
the cleaning job is fair: Akka's scheduler starts it every hour, and it goes through all it
found. Neither requests nor the refresh of the index are. In `AdminConsole` the oldest call is
answered some time, since `$.ajax` ends every call with a success or an error; clicks are not
fair. `Checkout` has no liveness property: nobody has to come back.

## 4. Proofs

### Payment

`PaymentProofs` proves, for every set of shops, every set of carts and any number of
requests of each kind:

* `HandlersAlwaysAgree`: `Spec => []HandlersAgree`;
* `StoredSuccessIsAuthorized`: `Spec => []SuccessIsAuthorized`;
* `NothingHappensBeforeAuthorization`: `Spec => []NothingBeforeAuthorization`;
* `PaymentTypeOK`: `Spec => []TypeOK`.

Assumed of the constants: the set of shops is finite and contains the operator's
(`ShopsAssumption`), carts are sequences of shops without repetition (`CartsAssumption`),
the kinds of requests are disjoint and start requests are finitely many
(`RequestAssumption`).

`SuccessIsAuthorized` is not inductive: the document is overwritten from copies, and a copy
is only as good as the step its handler is at. `HandlersAgree` therefore says for every
handler what it knows at each step. A copy that claims a success, a status about to be
stored, or a position inside `finishPayment` implies a full authorisation (`CopyInv`). The
loop of `doMultiAuthorizations` covers every shop of the cart, and each of its results that
says AUTHORIZED is one the bank gave (`AuthInv`). For that, `startPayment` must hold the shop
transactions it created (`CreateInv`, `EnrollInv`) and the search of `threeDSCallback` must
find one for each shop (`FormInv`). A page only exists for a cart of one shop, so its
payment is the whole cart's (`WebInv`, `DetailsInv`, `WorldInv`).

The argument rests on one observation. The session of a payment is fixed, and
authorisations, stored documents and opened pages are never taken back (`Monotone`), so what
a handler knows cannot be spoilt by the others (`OthersKeep`). One lemma per action shows
that the handler taking it knows at its next step what it must.

`PaymentMoneyProofs` goes on to the money, from the same assumptions:

* `MoneyAlwaysAgrees`: `Spec => []MoneyAgrees`;
* `CompletedTransactionIsPaid`, `BillIsForPayment`, `ThreeDSIsRequired`: `CompletedIsPaid`,
  `BillIsPaid` and `RequiredThreeDS`, which follow from it;
* `NothingBeforeStart` and `OnlyStartReopensTransaction`: until a start request has come there
  is nothing to find, and an end date is only ever taken back by `createBOTransaction`, run again;
* `EndedTransactionStaysEnded`: `Spec => EndedStaysEnded`, assuming that there is at most one
  start request. The assumption is needed: the second start is the one step that reopens.

`MoneyAgrees` is inductive together with `HandlersAgree`. A copy that says COMPLETED stands for
a payment, and so does a status about to be stored (`PaidInv`); `finishPayment` works on the
operator's shop, any other shop's money moves on the order of a merchant that was told
(`ForOperatorInv`); every copy that will be authorised under a merchant's 3-D Secure rule
carries its data (`ThreeDSDataInv`); whoever still writes after `finishTransaction` holds an
ended copy (`EndedInv`). A page belongs to one start request that has not opened it before
(`PagesInv`), so what was paid there stays paid.

`PaymentSettlementProofs` proves `PaymentImplementsSettlement`: `Spec => PaymentSettles`. The
initial state maps to the abstract one, and under `HandlersAgree` and `MoneyAgrees` each action
maps to `Reserve`, `Move`, `Conclude` or `Tell`, or stutters.

### TransactionSequence

`TransactionSequenceProofs` proves, for any set of callers and any bounds, `Spec =>
[]TypeOK` and `Spec => []FreshIds`. The second needs an inductive invariant: an issued id
of the document's day is not above the document's counter; no issued id belongs to a day
after the current one; the version never falls behind a caller's copy, and a caller whose
copy carries the current version holds the current document, so that the id it has
decided on is above every issued one. Only creation can break this, which is why
`FreshIds` speaks of documents created at most once.

### Checkout

`CheckoutProofs` proves, for any sets of requests, transactions, vendors and carts,
`CheckoutAlwaysAgrees` and from it `CreatedTransactionWasSubmitted`, `AloneCustomerIsConsistent`,
`LateSubmitNeverPasses` and `TransactionRequestSurvives`. Assumed is that "none" is none of the
values it stands beside (`CheckoutAssumption`, `NoneAssumption`).

`CreatedWasSubmitted` speaks of transactions; what keeps it true is that every copy of the
session, stored, held by a handler or by a `payline/start` that has timed out, names a
transaction that some `submit` has validated, or none (`SessionsInv`). For `AloneIsConsistent`
the session that the next `payline/start` will find must also be the one whose cart and
vendor were validated (`AloneInv`), and at most one handler is at work.

### Account

`AccountProofs` proves, for any accounts, requests of each kind, e-mails, limits and
settings, `AccountsAlwaysAgree` and from it `ListsStaySound`, `FailuresStayBounded`,
`DeletedAccountStaysDeleted`, `ConfirmedAccountStaysConfirmed` and `KnownEmailIsRefused`, the last
for shared and unshared customers alike. Assumed of the constants: the kinds of requests share
no identifiers, and those that create something share none with the accounts there are
(`RequestAssumption`); the settings have their types (`ConfigAssumption`).

No property of a stored document can be inductive alone, since whole old copies are written
back. `AccountsAgree` states the same of documents, of index entries and of every handler's
copy (`Fine` in `DocumentsInv`, `HandlerInv`), says which handlers may hold a copy that still
waits for confirmation, that nobody knows an account before its signup has been answered
(`UnbornInv`), that a signup past its search has no rival left among the accounts it asked for
(`RivalInv`), and that an identifier a request draws for a list entry is in no list, stale or
not, before it writes (`FreshInv`).

### AdminConsole

`AdminConsoleProofs` proves, for any orders, search results and numbers of clicks,
`ConsoleAlwaysAgrees` and from it `OverlayAlwaysHasCause`, `LoggedOutIsAlwaysEmpty` and
`DetailsAlwaysSettle`. Assumed is that "none" is no order and no list (`ConsoleAssumption`). The
queue of calls may have any length, so the invariant speaks of it with three words: it holds
a call of some kinds (`Has`), one before another (`Before`), or one after each of another
(`Followed`); lemmas say what taking the oldest call out and adding new ones does to each.

The parts need each other. Nobody's lists can be filled after a logout, because without a user
no call for one is in flight that could still succeed, not even behind a login (`NoUserInv`).
That needs that no login is made during a logout (`LogoutInv`), and that the login form is not
there before the question about the session is answered (`SessionInv`). The overlay is always
some call's to remove: a call that keeps it when it succeeds is followed by one that does not
(`OverlayInv`). The types hold in every order of answers, the rest as long as none overtakes.

### Only model-checked

Liveness is outside the prover's reach: `AuthorizedIsSettled`, `CallsReturn`, `AbandonedIsRecycled`
and `OverlayLifts` are checked by TLC only. So are the facts of `CardNumber`, which compute
with digits. Every other property of a passing run is a theorem.

## 5. Plan

Done: `Payment`, `TransactionSequence`, `Account`, `Checkout`, `AdminConsole`, the refinement to
`CartSettlement`, and the theorems of section 4. Left:

1. `Checkout` to `Payment`: an abstract session from which both start, so that
   `AloneIsConsistent` and `SuccessIsAuthorized` become one theorem about a customer's cart;
2. `AdminConsole` with answers out of order: which part of `ConsoleAgrees` survives an answer
   that overtakes, beyond the types;
3. `TransactionSequence`: an abstract counter that it implements.

## 6. Not modelled

Rendering, imports, the SQL mirror, notifications, sample data and the providers whose code is
commented out; see the components in `PROJECT.json`. Shipping prices are sums over the answers of
EasyPost and Kiala, with no state. A group payment ends in mails to its payers.

Of the console, the pages for signup, passwords, tracking and cards are forms around one call
each; the customer's pages and the index page are variants of the merchant's.

Measured in lines of JavaScript, most of the repository is not modelled and should not be: the
119,000 lines under the two `admin/js` directories are AngularJS, jQuery, their plugins and
locale files, twice. The program's own scripts are some 2,400 lines of controllers, of which
`AdminConsole` models the merchant's; its core is the Scala code under `src/core/src/main/scala`
and `src/session`, which the other modules model.
