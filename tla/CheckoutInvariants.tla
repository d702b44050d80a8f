------------------------ MODULE CheckoutInvariants ------------------------
(***************************************************************************)
(* What the handlers of Checkout, the session store and the documents know *)
(* of each other at every step.  The conjunction is inductive.             *)
(***************************************************************************)
EXTENDS Checkout

Submitting == BeforeDelete \cup AfterDelete

\* A handler before and after the delete of its transaction request.
HandlerInv(h) ==
  /\ pc[h] \in {"idle", "session"} => loc[h].transactionUUID = None
  /\ loc[h].transactionUUID # None => loc[h].transactionUUID \in issued
  /\ pc[h] \in Submitting => loc[h].transactionUUID # None /\ loc[h].merchantId # None
  /\ pc[h] \in {"delete", "validate"} => loc[h].session.cart # None
  /\ pc[h] = "saveRequest" => loc[h].target = "mogopay/authenticate"
  /\ startPc[h] # "none" => pc[h] \in {"waiting", "clean"} \cup Final

RequestsInv == \A t \in TxIds : request[t] # None => t \in issued

\* A submit that came too late remembers a transaction that is still there.
LateInv(h) ==
  loc[h].late => /\ loc[h].transactionUUID # None
                 /\ tx[loc[h].transactionUUID] # None
                 /\ pc[h] \notin AfterDelete \ {"validate"}

\* Whoever holds a session that names a transaction holds one that some submit validated.
Known(s) == s.transactionUuid # None => validated[s.transactionUuid] # None

SessionsInv ==
  /\ Known(stored)
  /\ \A h \in Requests : Known(loc[h].session) /\ Known(startLoc[h])

Busy(h) == Running(h) \/ StartRunning(h)

\* createBOTransaction makes of this session what was validated.
Faithful(s) ==
  s.paymentRequest # None /\ s.merchantId # None /\ s.transactionUuid # None =>
    validated[s.transactionUuid] = [vendor |-> s.merchantId, cart |-> s.paymentRequest]

\* Without overlap there is one handler at a time, and its payline/start finds the session
\* that it stored, or the cleaned one.
AloneInv ==
  ~overlap =>
    /\ \A g, h \in Requests : Busy(g) /\ Busy(h) => g = h
    /\ \A h \in Requests :
         /\ pc[h] = "save" /\ loc[h].target = "payline/start" => Faithful(loc[h].session)
         /\ startPc[h] = "called" => Faithful(stored)
         /\ startPc[h] = "create" => Faithful(startLoc[h])

\* submit, the session directives and payline/start: sessions, transaction requests and
\* transactions agree with what the submits validated, however stale the copies of the
\* session are that the handlers store.
CheckoutAgrees ==
  /\ TypeOK
  /\ RequestsInv
  /\ \A h \in Requests : HandlerInv(h) /\ LateInv(h)
  /\ SessionsInv
  /\ AloneInv
  /\ LateSubmitIsRefused /\ RequestSurvives /\ CreatedWasSubmitted /\ AloneIsConsistent
=============================================================================
