---------------------------- MODULE AdminConsole ----------------------------
(***************************************************************************)
(* The merchant's console (merchant.html): share.js and the controllers.   *)
(*                                                                         *)
(* Every call to the server is asynchronous.  Its callbacks run when the   *)
(* answer comes, one at a time, on whatever page the user is then, and     *)
(* write $rootScope or the scope of the controller that made the call.     *)
(* Most calls cover the page with an overlay that takes all clicks, until  *)
(* any callback that is told to removes it: there is one overlay, not one  *)
(* for each call.                                                          *)
(*                                                                         *)
(* Orders are represented by their uuid, the content of a page by the uuid *)
(* of the order it was loaded for.  The search forms, the store selection, *)
(* the cards of a profile and the pages that only navigate are left out.   *)
(***************************************************************************)
EXTENDS Naturals, Sequences, SequencesExt

CONSTANTS
  Orders,         \* uuids
  SearchResults,  \* lists of orders that backoffice/listOrders may answer with
  MaxClicks,      \* bound: clicks of the user
  MaxOvertakes,   \* bound: answers that overtake an earlier call's
  None

\* The list of orders shown; the status of an order is represented by its uuid.
Rows == Seq([uuid : Orders, deliveryStatus : Orders \cup {None}])

ASSUME ConsoleAssumption ==
  /\ SearchResults \subseteq Seq(Orders)
  /\ None \notin Orders \cup SearchResults /\ None \notin Rows
  /\ {MaxClicks, MaxOvertakes} \subseteq Nat

Pages == {"login", "listTransactions", "listCustomers", "details", "return", "profile"}

\* The calls by what callServer is told of the overlay: shown when the call is made,
\* removed when it succeeds, removed when it fails.
ShowLoading ==
  {"list-merchants", "login", "logout", "listOrders", "listCustomers", "history", "cartDetails",
   "goToProfile", "admins1", "admins2", "return", "update-profile"}
HideLoadingOnSuccess ==
  {"list-merchants", "profile-info", "logout", "listCustomers", "history", "cartDetails",
   "countries", "admins1", "admins2", "return", "update-profile"}
HideLoadingOnError ==
  HideLoadingOnSuccess \cup {"login", "listOrders", "goToProfile"}
NoLoading ==
  {"session", "drop-session", "merchant-token", "list-compagnies", "rowStatus", "logs"}

Kinds == ShowLoading \cup HideLoadingOnSuccess \cup NoLoading

\* uuid is the order the call names, if it names one, index what the callback's closure
\* holds; own says that the controller that made the call still is the one of the page;
\* signedIn, that the server knew the user then.
Calls ==
  {c \in [kind : Kinds, uuid : Orders \cup {None}, index : Nat, own : BOOLEAN, signedIn : BOOLEAN] :
     /\ c.kind \in {"cartDetails", "rowStatus", "logs"} <=> c.uuid # None
     /\ c.kind = "rowStatus" => c.index > 0}

VARIABLES
  page,      \* $location.path()
  rootScope,
  scope,     \* the scope of the page's controller
  calls,     \* calls without an answer, in the order they were made
  loading,   \* the overlay is shown
  server,    \* external: the browser's session on the server is authenticated
  clicks,    \* clicks so far
  rowsLost,  \* history: the callback of a row found its row gone, and threw
  overtakes  \* calls answered before an earlier one so far

vars == <<page, rootScope, scope, calls, loading, server, clicks, rowsLost, overtakes>>

TypeOK ==
  /\ page \in Pages
  /\ {rootScope.isMerchant, rootScope.userProfile, rootScope.customers,
      rootScope.mogopayGoToProfile, rootScope.selectedCustomer} \subseteq BOOLEAN
  /\ rootScope.transactions # None => rootScope.transactions \in Rows
  /\ {rootScope.selectedTransaction, rootScope.logsDetails, rootScope.returnDetails} \subseteq Orders \cup {None}
  /\ scope \in [loginContainer : BOOLEAN, historyDetails : BOOLEAN, cartDetails : Orders \cup {None}]
  /\ calls \in Seq(Calls)
  /\ {loading, server, rowsLost} \subseteq BOOLEAN
  /\ clicks \in 0..MaxClicks
  /\ overtakes \in 0..MaxOvertakes

-----------------------------------------------------------------------------
NewCall(kind, uuid, index) ==
  [kind |-> kind, uuid |-> uuid, index |-> index, own |-> TRUE, signedIn |-> server']

Ask(kind) == <<NewCall(kind, None, 0)>>

NewScope == [loginContainer |-> FALSE, historyDetails |-> FALSE, cartDetails |-> None]

\* What the controller of page p asks for when it starts: LoginCtrl whether there is a
\* session (the merchants are known by then), DetailsCtrl the customer's orders and the
\* order, ProfileCtrl the countries.
StartCalls(p, root) ==
  CASE p = "login"   -> Ask("session")
    [] p = "details" -> (IF root.selectedCustomer THEN Ask("history") ELSE <<>>) \o
                        (IF root.selectedTransaction # None
                         THEN <<NewCall("cartDetails", root.selectedTransaction, 0)>> ELSE <<>>)
    [] p = "profile" -> Ask("countries")
    [] OTHER         -> <<>>

\* One turn of the browser's event loop: $rootScope and scope become root and sc, the calls
\* sent are made, then navigateToPage(p) leaves the page unless it is p.  A controller
\* that needs a user and finds none goes to login.  covered: the overlay is still there.
Turn(root, sc, left, sent, p, covered) ==
  LET moved == p # page
      to    == IF p = "login" \/ root.userProfile THEN p ELSE "login"
      made  == sent \o (IF moved THEN StartCalls(to, root) ELSE <<>>)
  IN  /\ page' = IF moved THEN to ELSE page
      /\ rootScope' = CASE moved /\ to = "details" -> [root EXCEPT !.logsDetails = None, !.returnDetails = None]
                        [] moved /\ to = "login"   -> [root EXCEPT !.isMerchant = TRUE]
                        [] OTHER                   -> root
      /\ scope' = IF moved THEN NewScope ELSE sc
      /\ calls' = (IF moved THEN [i \in 1..Len(left) |-> [left[i] EXCEPT !.own = FALSE]] ELSE left) \o made
      /\ loading' = (covered \/ \E i \in 1..Len(made) : made[i].kind \in ShowLoading)

Init ==
  /\ page = "login"
  /\ \E toProfile \in BOOLEAN :
       rootScope = [isMerchant |-> TRUE, userProfile |-> FALSE, transactions |-> None, customers |-> FALSE,
                    selectedTransaction |-> None, selectedCustomer |-> FALSE, logsDetails |-> None,
                    returnDetails |-> None, mogopayGoToProfile |-> toProfile]
  /\ scope = NewScope
  /\ server \in BOOLEAN
  /\ calls = <<[kind |-> "list-merchants", uuid |-> None, index |-> 0, own |-> TRUE, signedIn |-> server]>>
  /\ loading = TRUE
  /\ clicks = 0 /\ rowsLost = FALSE /\ overtakes = 0

-----------------------------------------------------------------------------
(* Clicks.                                                                 *)

Click(root, sent, p) ==
  /\ clicks < MaxClicks
  /\ clicks' = clicks + 1
  /\ UNCHANGED <<server, rowsLost, overtakes>>
  /\ Turn(root, scope, calls, sent, p, loading)

\* By the enter key too, which the overlay does not stop.
Login ==
  /\ page = "login" /\ scope.loginContainer
  /\ Click(rootScope, Ask("login"), page)

Logout == page # "login" /\ ~loading /\ Click(rootScope, Ask("logout"), page)

NavigateToPage(p) == page # "login" /\ p # page /\ ~loading /\ Click(rootScope, <<>>, p)

GoToProfile ==
  /\ page \notin {"login", "profile"} /\ ~loading
  /\ Click(rootScope, Ask("goToProfile"), page)

ListTransactionsSearch ==
  page = "listTransactions" /\ ~loading /\ Click(rootScope, Ask("listOrders"), page)

\* The transaction may come without a customer.
GotToOrderDetails ==
  /\ page = "listTransactions" /\ ~loading /\ rootScope.transactions # None
  /\ \E i \in 1..Len(rootScope.transactions), customer \in BOOLEAN :
       Click([rootScope EXCEPT !.selectedTransaction = rootScope.transactions[i].uuid,
                               !.selectedCustomer = customer], <<>>, "details")

ListCustomersSearch ==
  page = "listCustomers" /\ ~loading /\ Click(rootScope, Ask("listCustomers"), page)

GotToCustomerDetails ==
  /\ page = "listCustomers" /\ ~loading /\ rootScope.customers
  /\ Click([rootScope EXCEPT !.selectedTransaction = None, !.selectedCustomer = TRUE], <<>>, "details")

\* Mutant: the order is asked for before it is selected.
DetailsSelectOrderLate ==
  /\ page = "details" /\ ~loading /\ scope.historyDetails
  /\ \E o \in Orders \ {rootScope.selectedTransaction} :
       Click([rootScope EXCEPT !.selectedTransaction = o, !.logsDetails = None, !.returnDetails = None],
             <<NewCall("cartDetails", IF rootScope.selectedTransaction = None THEN o
                                      ELSE rootScope.selectedTransaction, 0)>>, page)

DetailsSelectOrder ==
  /\ page = "details" /\ ~loading /\ scope.historyDetails
  /\ \E o \in Orders \ {rootScope.selectedTransaction} :
       Click([rootScope EXCEPT !.selectedTransaction = o, !.logsDetails = None, !.returnDetails = None],
             <<NewCall("cartDetails", o, 0)>>, page)

\* The item is one of the cart that is shown.
DetailsSelectReturn ==
  /\ page = "details" /\ ~loading /\ scope.cartDetails # None
  /\ Click([rootScope EXCEPT !.returnDetails = scope.cartDetails], <<>>,
           IF rootScope.isMerchant THEN "return" ELSE page)

\* acceptReturn, refuseReturn and receiveReturn of a form that is filled in.
UpdateReturnItem == page = "return" /\ ~loading /\ Click(rootScope, Ask("return"), page)

LoadStatesForCountry ==
  page = "profile" /\ ~loading /\ \E kind \in {"admins1", "admins2"} : Click(rootScope, Ask(kind), page)

SaveProfile == page = "profile" /\ ~loading /\ Click(rootScope, Ask("update-profile"), page)

-----------------------------------------------------------------------------
(* Answers.                                                                *)

\* Mutant: only a success removes the overlay.
CoveredAfterError(i, ok) == loading /\ ~(ok /\ calls[i].kind \in HideLoadingOnSuccess)

\* What callServer's wrappers leave of the overlay.
Covered(i, ok) ==
  loading /\ calls[i].kind \notin (IF ok THEN HideLoadingOnSuccess ELSE HideLoadingOnError)

Left(i) == RemoveAt(calls, i)

Answer(i, kinds) ==
  /\ i \in 1..Len(calls)
  /\ calls[i].kind \in kinds
  /\ i > 1 => overtakes < MaxOvertakes
  /\ overtakes' = IF i > 1 THEN overtakes + 1 ELSE overtakes
  /\ UNCHANGED clicks

\* A success that takes a user: with answers out of order it may be from before a logout.
Known(i) == server \/ (overtakes' > 0 /\ calls[i].signedIn)

Succeed(i, root, sc, sent, p) == Turn(root, sc, Left(i), sent, p, Covered(i, TRUE))

\* Any call may fail; most callbacks then do nothing.
Error(i) ==
  /\ Answer(i, Kinds \ {"session", "rowStatus", "cartDetails"})
  /\ Turn(rootScope, scope, Left(i), <<>>, page, Covered(i, FALSE))
  /\ UNCHANGED <<server, rowsLost>>

ListMerchantsSuccess(i) ==
  /\ Answer(i, {"list-merchants"})
  /\ UNCHANGED <<server, rowsLost>>
  /\ Succeed(i, rootScope, scope, Ask("session"), page)

\* loginGetProfileInfo: without a session the form is shown and a new token asked for; a
\* customer's session is ended first.
SessionAnswer(i) ==
  /\ Answer(i, {"session"})
  /\ UNCHANGED <<server, rowsLost>>
  /\ \/ /\ Known(i)
        /\ \/ Succeed(i, [rootScope EXCEPT !.userProfile = TRUE], scope, Ask("list-compagnies"), page)
           \/ Succeed(i, rootScope, scope, Ask("drop-session"), page)
     \/ Turn(rootScope, [scope EXCEPT !.loginContainer = page = "login"], Left(i), Ask("merchant-token"),
             page, loading)

DropSessionSuccess(i) ==
  /\ Answer(i, {"drop-session"})
  /\ server' = FALSE
  /\ UNCHANGED rowsLost
  /\ Succeed(i, rootScope, [scope EXCEPT !.loginContainer = page = "login"], Ask("merchant-token"), page)

\* The server empties the session it makes a token for.
MerchantTokenSuccess(i) ==
  /\ Answer(i, {"merchant-token"})
  /\ server' = FALSE
  /\ UNCHANGED rowsLost
  /\ Succeed(i, rootScope, scope, <<>>, page)

LoginSuccess(i) ==
  /\ Answer(i, {"login"})
  /\ server' = TRUE
  /\ UNCHANGED rowsLost
  /\ Succeed(i, rootScope, scope, Ask("profile-info"), page)

ProfileInfoSuccess(i) ==
  /\ Answer(i, {"profile-info"}) /\ Known(i)
  /\ UNCHANGED <<server, rowsLost>>
  /\ Succeed(i, [rootScope EXCEPT !.userProfile = TRUE], scope, Ask("list-compagnies"), page)

\* getAllStores.
ListCompagniesSuccess(i) ==
  /\ Answer(i, {"list-compagnies"}) /\ Known(i)
  /\ UNCHANGED <<server, rowsLost>>
  /\ Succeed(i, [rootScope EXCEPT !.transactions = None, !.customers = FALSE, !.mogopayGoToProfile = FALSE],
             scope, <<>>, IF rootScope.mogopayGoToProfile THEN "profile" ELSE "listTransactions")

\* Mutant: the lists are kept for the next user.
LogoutSuccessKeeps(i) ==
  /\ Answer(i, {"logout"})
  /\ server' = FALSE
  /\ UNCHANGED rowsLost
  /\ Succeed(i, [rootScope EXCEPT !.isMerchant = FALSE, !.userProfile = FALSE], scope, <<>>, "login")

LogoutSuccess(i) ==
  /\ Answer(i, {"logout"})
  /\ server' = FALSE
  /\ UNCHANGED rowsLost
  /\ Succeed(i, [rootScope EXCEPT !.isMerchant = FALSE, !.userProfile = FALSE, !.transactions = None,
                                  !.customers = FALSE], scope, <<>>, "login")

\* Mutant: the overlay is left to the rows' callbacks, of which an empty list has none.
ListOrdersSuccessEmpty(i) ==
  /\ Answer(i, {"listOrders"}) /\ Known(i)
  /\ UNCHANGED <<server, rowsLost>>
  /\ \E list \in SearchResults :
       Turn([rootScope EXCEPT !.transactions =
               [k \in 1..Len(list) |-> [uuid |-> list[k], deliveryStatus |-> None]]],
            scope, Left(i), IF list = <<>> THEN <<>> ELSE <<NewCall("rowStatus", list[1], 1)>>,
            page, loading)

\* listTransactionsSearch: the list is shown once the status of its last row is known.
ListOrdersSuccess(i) ==
  /\ Answer(i, {"listOrders"}) /\ Known(i)
  /\ UNCHANGED <<server, rowsLost>>
  /\ \E list \in SearchResults :
       Turn([rootScope EXCEPT !.transactions =
               [k \in 1..Len(list) |-> [uuid |-> list[k], deliveryStatus |-> None]]],
            scope, Left(i), IF list = <<>> THEN <<>> ELSE <<NewCall("rowStatus", list[1], 1)>>,
            page, loading /\ list # <<>>)

\* listTransactionsGetCartItems: the answer is for the row at index of the list there is
\* now; the next row follows, the last one removes the overlay.
RowStatusAnswer(i) ==
  LET c    == calls[i]
      rows == rootScope.transactions
      here == rows # None /\ c.index <= Len(rows)
      last == here /\ c.index = Len(rows)
  IN  /\ Answer(i, {"rowStatus"})
      /\ UNCHANGED server
      /\ rowsLost' = (rowsLost \/ ~here)
      /\ \/ /\ ~here
            /\ Turn(rootScope, scope, Left(i), <<>>, page, loading)
         \/ /\ here
            /\ \E status \in {rows[c.index].deliveryStatus} \cup (IF Known(i) THEN {c.uuid} ELSE {}) :
                 Turn([rootScope EXCEPT !.transactions[c.index].deliveryStatus = status], scope, Left(i),
                      IF last THEN <<>> ELSE <<NewCall("rowStatus", rows[c.index + 1].uuid, c.index + 1)>>,
                      page, loading /\ ~last)

ListCustomersSuccess(i) ==
  /\ Answer(i, {"listCustomers"}) /\ Known(i)
  /\ UNCHANGED <<server, rowsLost>>
  /\ Succeed(i, [rootScope EXCEPT !.customers = TRUE], scope, <<>>, page)

\* detailsGetCustomerHistory.
HistorySuccess(i) ==
  /\ Answer(i, {"history"}) /\ Known(i)
  /\ UNCHANGED <<server, rowsLost>>
  /\ Succeed(i, rootScope, [scope EXCEPT !.historyDetails = calls[i].own \/ @], <<>>, page)

\* Mutant: the logs are asked for even when no order is selected any more.
CartDetailsAnswerUnguarded(i, ok) ==
  /\ Answer(i, {"cartDetails"}) /\ (ok => Known(i))
  /\ UNCHANGED <<server, rowsLost>>
  /\ Turn(rootScope,
          [scope EXCEPT !.cartDetails = IF ~calls[i].own THEN @ ELSE IF ok THEN calls[i].uuid ELSE None],
          Left(i), IF rootScope.isMerchant THEN <<NewCall("logs", rootScope.selectedTransaction, 0)>> ELSE <<>>,
          page, Covered(i, ok))

\* detailsGetOrderDetails: the logs are those of the order selected by now.  Without one
\* the callback throws, before it writes its scope.
CartDetailsAnswer(i, ok) ==
  /\ Answer(i, {"cartDetails"}) /\ (ok => Known(i))
  /\ UNCHANGED <<server, rowsLost>>
  /\ LET o      == rootScope.selectedTransaction
         logs   == rootScope.isMerchant /\ o # None
         throws == rootScope.isMerchant /\ o = None
     IN  Turn(rootScope,
              [scope EXCEPT !.cartDetails = IF ~calls[i].own \/ (ok /\ throws) THEN @
                                            ELSE IF ok THEN calls[i].uuid ELSE None],
              Left(i), IF logs THEN <<NewCall("logs", o, 0)>> ELSE <<>>, page, Covered(i, ok))

\* detailsGetOrderLogs.
LogsSuccess(i) ==
  /\ Answer(i, {"logs"}) /\ Known(i)
  /\ UNCHANGED <<server, rowsLost>>
  /\ Succeed(i, [rootScope EXCEPT !.logsDetails = calls[i].uuid], scope, <<>>, page)

GoToProfileSuccess(i) ==
  /\ Answer(i, {"goToProfile"}) /\ Known(i)
  /\ UNCHANGED <<server, rowsLost>>
  /\ Succeed(i, [rootScope EXCEPT !.userProfile = TRUE], scope, <<>>, "profile")

\* profileLoadCountries and profileLoadStatesForCountry go on with the states and regions
\* of the address, if they find it in the answer.
CountriesSuccess(i) ==
  /\ Answer(i, {"countries", "admins1", "admins2"})
  /\ UNCHANGED <<server, rowsLost>>
  /\ \/ Succeed(i, rootScope, scope, <<>>, page)
     \/ calls[i].kind = "countries" /\ Succeed(i, rootScope, scope, Ask("admins1"), page)
     \/ calls[i].kind = "admins1" /\ Succeed(i, rootScope, scope, Ask("admins2"), page)

\* The browser goes to details, wherever the user is.
ReturnSuccess(i) ==
  /\ Answer(i, {"return"}) /\ Known(i)
  /\ UNCHANGED <<server, rowsLost>>
  /\ Succeed(i, rootScope, scope, <<>>, "details")

\* saveProfile: a new company name has the stores loaded again.
UpdateProfileSuccess(i) ==
  /\ Answer(i, {"update-profile"}) /\ Known(i)
  /\ UNCHANGED <<server, rowsLost>>
  /\ \/ Succeed(i, rootScope, scope, Ask("list-compagnies"), page)
     \/ Succeed(i, rootScope, scope, <<>>, "listTransactions")

-----------------------------------------------------------------------------
UserClicks ==
  \/ Login \/ Logout \/ GoToProfile
  \/ \E p \in {"listTransactions", "listCustomers"} : NavigateToPage(p)
  \/ ListTransactionsSearch \/ GotToOrderDetails
  \/ ListCustomersSearch \/ GotToCustomerDetails
  \/ DetailsSelectOrder \/ DetailsSelectReturn \/ UpdateReturnItem
  \/ LoadStatesForCountry \/ SaveProfile

Answered(i) ==
  \/ Error(i)
  \/ ListMerchantsSuccess(i) \/ SessionAnswer(i) \/ DropSessionSuccess(i) \/ MerchantTokenSuccess(i)
  \/ LoginSuccess(i) \/ ProfileInfoSuccess(i) \/ ListCompagniesSuccess(i) \/ LogoutSuccess(i)
  \/ ListOrdersSuccess(i) \/ RowStatusAnswer(i) \/ ListCustomersSuccess(i)
  \/ HistorySuccess(i) \/ (\E ok \in BOOLEAN : CartDetailsAnswer(i, ok)) \/ LogsSuccess(i)
  \/ GoToProfileSuccess(i) \/ CountriesSuccess(i) \/ ReturnSuccess(i) \/ UpdateProfileSuccess(i)

Next == UserClicks \/ \E i \in 1..Len(calls) : Answered(i)

\* $.ajax ends every call with a success or an error.
Spec == Init /\ [][Next]_vars /\ WF_vars(Answered(1))

-----------------------------------------------------------------------------
(* Properties.                                                             *)

\* callServer and the callbacks that remove the overlay themselves: however calls overlap,
\* fail and are answered out of order, the overlay goes away, unless a row's callback threw.
OverlayLifts == loading ~> ~loading \/ rowsLost

\* One overlay for all calls: if answers come in the order of the calls, it never stays
\* once all of them have come, even when a callback throws.
OverlayHasCause == loading /\ overtakes = 0 => calls # <<>>

\* logout, listTransactionsSearch: if answers come in the order of the calls, no list of the
\* last user is there when nobody is logged in.
LoggedOutIsEmpty ==
  ~rootScope.userProfile /\ overtakes = 0 => rootScope.transactions = None /\ ~rootScope.customers

\* detailsSelectOrder, detailsGetOrderDetails: if answers come in the order of the calls, the
\* details page ends with the cart of the order that is selected, or none.
DetailsSettle ==
  page = "details" /\ overtakes = 0 /\ (\A i \in 1..Len(calls) : calls[i].kind # "cartDetails" \/ ~calls[i].own)
    => scope.cartDetails \in {None, rootScope.selectedTransaction}
=============================================================================
