----------------------- MODULE AdminConsoleInvariants -----------------------
(***************************************************************************)
(* What the page, the scopes, the overlay and the calls in flight of       *)
(* AdminConsole know of each other at every step.  The conjunction is      *)
(* inductive.                                                              *)
(***************************************************************************)
EXTENDS AdminConsole

RootScope ==
  [isMerchant : BOOLEAN, userProfile : BOOLEAN, transactions : Rows \cup {None}, customers : BOOLEAN,
   selectedTransaction : Orders \cup {None}, selectedCustomer : BOOLEAN, logsDetails : Orders \cup {None},
   returnDetails : Orders \cup {None}, mogopayGoToProfile : BOOLEAN]

\* The queue q holds a call of one of the kinds A; holds one of A before one of B; holds one
\* of B after each one of A.
Has(q, A)         == \E i \in 1..Len(q) : q[i].kind \in A
Before(q, A, B)   == \E i, j \in 1..Len(q) : i < j /\ q[i].kind \in A /\ q[j].kind \in B
Followed(q, A, B) == \A i \in 1..Len(q) : q[i].kind \in A => \E j \in 1..Len(q) : i < j /\ q[j].kind \in B

\* Calls that are made for a known user only and whose success needs one, and those that
\* find out whether there is one.
UserKinds    == {"listOrders", "listCustomers", "goToProfile", "return", "update-profile", "list-compagnies"}
SessionKinds == {"list-merchants", "session", "drop-session"}

\* Without a user the login page is shown, the lists are empty, and no call that could fill
\* them or leave the page can succeed any more, not even after the next login.
NoUserInv ==
  ~rootScope.userProfile =>
    /\ page = "login" /\ rootScope.transactions = None /\ ~rootScope.customers
    /\ server => ~Has(calls, UserKinds)
    /\ ~Before(calls, {"login"}, UserKinds)

\* Nobody logs in while a logout is under way.
LogoutInv ==
  /\ ~Before(calls, {"logout"}, {"login"})
  /\ page = "login" /\ scope.loginContainer => ~Has(calls, {"logout"})

\* While the login page finds out whether there is a session, it waits: there is no user
\* and no form yet.
SessionInv ==
  Has(calls, SessionKinds) =>
    /\ ~rootScope.userProfile /\ page = "login" /\ ~scope.loginContainer
    /\ ~Has(calls, {"login"})
    /\ ~Before(calls, SessionKinds, SessionKinds \cup {"logout"})
    /\ server => Len(calls) = 1 /\ (loading => calls[1].kind = "list-merchants")

\* The call is for a row that is still there.
Live(c) ==
  /\ c.kind = "rowStatus" /\ rootScope.transactions # None
  /\ c.index <= Len(rootScope.transactions)

\* Some call in flight removes the overlay, or hands it on.
OverlayInv ==
  /\ loading => \E i \in 1..Len(calls) : calls[i].kind \in HideLoadingOnError \/ Live(calls[i])
  /\ loading => Followed(calls, {"list-compagnies"}, ShowLoading)
  /\ page = "profile" => Followed(calls, {"goToProfile"}, {"countries"})

OwnCart(c) == c.kind = "cartDetails" /\ c.own

\* The last cart the details page has asked for is the one of the order selected, and so is
\* the cart it shows once it waits for none.
DetailsInv ==
  page = "details" =>
    \/ \E i \in 1..Len(calls) : /\ OwnCart(calls[i]) /\ calls[i].uuid = rootScope.selectedTransaction
                                /\ \A j \in 1..Len(calls) : i < j => ~OwnCart(calls[j])
    \/ /\ \A i \in 1..Len(calls) : ~OwnCart(calls[i])
       /\ scope.cartDetails \in {None, rootScope.selectedTransaction}

\* callServer, the callbacks and the controllers: as long as answers come in the order of
\* the calls, page, scopes and overlay agree with the calls in flight and with what the
\* server knows of the user.
ConsoleAgrees ==
  /\ TypeOK /\ rootScope \in RootScope
  /\ overtakes = 0 => /\ NoUserInv /\ LogoutInv /\ SessionInv
                      /\ OverlayInv /\ DetailsInv
=============================================================================
