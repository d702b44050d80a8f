------------------------- MODULE AccountInvariants -------------------------
(***************************************************************************)
(* What the documents of Account, the copies its handlers hold and the     *)
(* search index know of each other at every step.  The conjunction is      *)
(* inductive.                                                              *)
(***************************************************************************)
EXTENDS Account

\* What holds of every version of a document, however old.
Fine(a) ==
  /\ a.status # "INACTIVE"
  /\ a.loginFailedCount <= MaxAttempts + 1
  /\ Sound(a)

\* Versions of a document keep its e-mail and owner.
SameHolder(a, b) == a.email = b.email /\ a.owner = b.owner

\* No entry of the account's lists was made by the request h.
Lacks(a, h) ==
  /\ \A s \in a.shippingAddresses : s.uuid # h
  /\ \A c \in a.creditCards : c.uuid # h

Busy(h) == pc[h] \notin {"idle", "replied"}

DocumentsInv ==
  \A u \in Uuids :
    /\ Exists(accounts[u]) => /\ Fine(accounts[u])
                              /\ Exists(index[u]) /\ SameHolder(index[u], accounts[u])
                              /\ u \in sessions => accounts[u].status = "ACTIVE"
    /\ Exists(index[u]) => Fine(index[u])

\* A handler at work holds some version of a document; only those that confirm, log in or
\* send a password hold one that may still wait for its confirmation.
HandlerInv(h) ==
  /\ ~Busy(h) => loc[h] = NoLocals
  /\ Busy(h) => loc[h].id \in Uuids /\ Copy(h) \in AccountDoc /\ Fine(Copy(h))
  /\ pc[h] \in {"save", "index"} => loc[h].id = h
  /\ Busy(h) => (h \in SignupReqs <=> pc[h] \in {"save", "index"})
  /\ pc[h] \in {"loaded", "enroll"} => /\ Copy(h).status = "ACTIVE"
                                       /\ Stored(h) => accounts[loc[h].id].status = "ACTIVE"
  /\ Busy(h) /\ Stored(h) => SameHolder(Copy(h), accounts[loc[h].id])

\* Until a signup has been answered nothing knows the account it may make.
UnbornInv ==
  \A h \in SignupReqs : pc[h] # "replied" =>
    /\ ~Exists(accounts[h]) /\ ~Exists(index[h]) /\ h \notin sessions
    /\ \A g \in Requests \ {h} : Busy(g) => loc[g].id # h
    /\ \A d \in deleted : d.id # h
    /\ \A g \in SignupReqs : h \notin rivals[g]

\* The uuid a request of a logged-in user draws is in no list before it writes.
FreshInv ==
  \A h \in SessionReqs : pc[h] # "replied" =>
    /\ \A u \in Uuids : /\ Exists(accounts[u]) => Lacks(accounts[u], h)
                        /\ Exists(index[u]) => Lacks(index[u], h)
    /\ \A g \in Requests : Busy(g) => Lacks(Copy(g), h)

\* A signup that save lets through has no rival left of the owner it asked for.
RivalInv(h) ==
  \A u \in rivals[h] : Exists(accounts[u]) =>
    /\ pc[h] = "save" => accounts[u].email = Copy(h).email
    /\ pc[h] = "index" => accounts[u].owner # Asked(Copy(h).owner)
    /\ Exists(accounts[h]) => accounts[u].owner # Asked(accounts[h].owner)

\* signup, login, confirmSignup, the session handlers and recycle each write back a whole copy
\* of the account that they read earlier: documents, index, sessions and every stale copy
\* still agree on whose account it is, on what is confirmed and on what the lists hold,
\* whoever writes next.
AccountsAgree ==
  /\ TypeOK
  /\ DocumentsInv
  /\ \A h \in Requests : HandlerInv(h)
  /\ UnbornInv /\ FreshInv /\ \A h \in SignupReqs : RivalInv(h)
  /\ DeletedStaysDeleted /\ ListsAreSound /\ FailuresAreBounded
=============================================================================
