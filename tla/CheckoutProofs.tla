--------------------------- MODULE CheckoutProofs ---------------------------
(***************************************************************************)
(* Proof that CheckoutAgrees is an invariant of Checkout, and that its     *)
(* four properties are.                                                    *)
(*                                                                         *)
(* Each action of a handler moves that handler alone: Keeps says what all  *)
(* such moves have in common, and is shown of each of them once.  The      *)
(* conjuncts of the invariant then follow from it and from which variable  *)
(* besides the move writes.                                                *)
(***************************************************************************)
EXTENDS CheckoutInvariants, TLAPS

Places == {"idle", "session"} \cup BeforeDelete \cup AfterDelete \cup Final

\* A handler goes on to p with locals l.
Moved(h, p, l) ==
  /\ pc' = [pc EXCEPT ![h] = p]
  /\ loc' = [loc EXCEPT ![h] = l]

\* The handler has deleted its transaction request and not saved it again.
Gone(p, l) ==
  ~ \/ p \in BeforeDelete \cup {"refused", "noCart"}
    \/ p \in {"save", "waiting", "clean", "replied"} /\ l.target = "mogopay/authenticate"

\* The part of the invariant that speaks of one handler at a time.
Base == TypeOK /\ RequestsInv /\ \A h \in Requests : HandlerInv(h) /\ LateInv(h)

\* What every move of a handler keeps.
Keeps(h, p, l) ==
  /\ l \in Locals /\ p \in Places /\ p # "idle" /\ pc[h] \notin Final
  /\ \/ l.transactionUUID = loc[h].transactionUUID
     \/ pc[h] = "idle" /\ l.transactionUUID \in issued /\ p \in BeforeDelete
  /\ p = "session" => l.transactionUUID = None
  /\ p \in Submitting => l.transactionUUID # None /\ l.merchantId # None
  /\ p \in {"delete", "validate"} => l.session.cart # None
  /\ p = "saveRequest" => l.target = "mogopay/authenticate"
  /\ pc[h] \in {"waiting", "clean"} => p \in {"waiting", "clean"} \cup Final
  /\ l.late => /\ l.transactionUUID # None /\ tx[l.transactionUUID] # None
               /\ p \notin AfterDelete \ {"validate"}
  /\ loc[h].transactionUUID # None /\ Gone(pc[h], loc[h]) =>
       Gone(p, l) \/ (pc[h] = "saveRequest" /\ p = "save")

-----------------------------------------------------------------------------
(* Types.                                                                  *)

\* The components of a session.
LEMMA SessionType ==
  ASSUME NEW s \in SessionData
  PROVE  /\ s.authenticated \in BOOLEAN /\ s.mogopay \in BOOLEAN
         /\ s.merchantId \in Merchants \cup {None} /\ s.transactionUuid \in TxIds \cup {None}
         /\ s.cart \in Carts \cup {None} /\ s.shippingCart \in Carts \cup {None}
         /\ s.selectShippingCart \in Carts \cup {None} /\ s.paymentRequest \in Carts \cup {None}
  BY DEF SessionData

\* The components of a handler's locals.
LEMMA LocalsType ==
  ASSUME NEW l \in Locals
  PROVE  /\ l.session \in SessionData /\ l.transactionUUID \in TxIds \cup {None}
         /\ l.merchantId \in Merchants \cup {None} /\ l.late \in BOOLEAN /\ l.hadCart \in BOOLEAN
         /\ l.target \in {"none", "payline/start", "mogopay/start", "mogopay/authenticate"}
  BY DEF Locals

\* The empty session, and the locals of a handler without work.
LEMMA EmptyType ==
  /\ EmptySession \in SessionData /\ EmptySession.transactionUuid = None
  /\ EmptySession.paymentRequest = None /\ EmptySession.cart = None
  /\ NoLocals \in Locals /\ NoLocals.transactionUUID = None /\ NoLocals.session = EmptySession
  /\ NoLocals.late = FALSE
<1>1. EmptySession \in SessionData
  BY DEF EmptySession, SessionData
<1> HIDE DEF EmptySession
<1>2. NoLocals \in Locals
  BY <1>1 DEF NoLocals, Locals
<1> QED BY <1>1, <1>2 DEF NoLocals, EmptySession

\* What the invariant says of one handler.
LEMMA InHand ==
  ASSUME Base, NEW h \in Requests
  PROVE  /\ HandlerInv(h) /\ LateInv(h) /\ loc[h] \in Locals /\ pc[h] \in Places
         /\ loc[h].session \in SessionData /\ startLoc[h] \in SessionData /\ stored \in SessionData
         /\ pc \in [Requests -> Places] /\ loc \in [Requests -> Locals]
         /\ issued \subseteq TxIds /\ expired \subseteq issued
         /\ request \in [TxIds -> Merchants \cup {None}]
         /\ tx \in [TxIds -> BOTransaction \cup {None}]
         /\ validated \in [TxIds -> BOTransaction \cup {None}]
<1>1. TypeOK /\ HandlerInv(h) /\ LateInv(h)
  BY DEF Base
<1> QED BY <1>1, LocalsType DEF TypeOK, Places

\* A move seen from the handlers.
LEMMA MovedFacts ==
  ASSUME TypeOK, NEW h \in Requests, NEW p, NEW l, Moved(h, p, l)
  PROVE  /\ pc'[h] = p /\ loc'[h] = l
         /\ \A g \in Requests \ {h} : pc'[g] = pc[g] /\ loc'[g] = loc[g]
  BY DEF TypeOK, Moved

\* A handler that stays with its locals.
LEMMA StayMoves ==
  ASSUME TypeOK, NEW h \in Requests, NEW p, Goto(h, p), loc' = loc
  PROVE  Moved(h, p, loc[h])
  BY DEF TypeOK, Moved, Goto

\* A handler that changes its copy of the session.
LEMMA SessionMoves ==
  ASSUME TypeOK, NEW h \in Requests, NEW p, Goto(h, p), NEW s \in SessionData,
         loc' = [loc EXCEPT ![h].session = s]
  PROVE  \E l \in Locals :
           /\ Moved(h, p, l) /\ l.session = s /\ l.transactionUUID = loc[h].transactionUUID
           /\ l.merchantId = loc[h].merchantId /\ l.target = loc[h].target /\ l.late = loc[h].late
<1> DEFINE l == [loc[h] EXCEPT !.session = s]
<1>1. loc[h] \in Locals /\ loc \in [Requests -> Locals]
  BY DEF TypeOK
<1>2. /\ l \in Locals /\ l.session = s /\ l.transactionUUID = loc[h].transactionUUID
      /\ l.merchantId = loc[h].merchantId /\ l.target = loc[h].target /\ l.late = loc[h].late
  BY <1>1 DEF Locals
<1>3. Moved(h, p, l)
  BY <1>1 DEF Moved, Goto
<1> QED BY <1>2, <1>3

\* A handler that answers.
LEMMA EndMoves ==
  ASSUME TypeOK, NEW h \in Requests, NEW p, End(h, p)
  PROVE  \E l \in Locals :
           /\ Moved(h, p, l) /\ l.transactionUUID = loc[h].transactionUUID
           /\ l.session = EmptySession /\ l.late = FALSE
           /\ l.target = IF loc[h].target = "mogopay/authenticate" THEN loc[h].target ELSE "none"
<1> DEFINE u == loc[h].transactionUUID
           t == IF loc[h].target = "mogopay/authenticate" THEN loc[h].target ELSE "none"
           c == p = "noCart" /\ loc[h].hadCart
           l == [NoLocals EXCEPT !.transactionUUID = u, !.target = t, !.hadCart = c]
<1>1. loc[h] \in Locals
  BY DEF TypeOK
<1>2. u \in TxIds \cup {None} /\ t \in {"none", "mogopay/authenticate"} /\ c \in BOOLEAN
  BY <1>1, LocalsType
<1>3. Moved(h, p, l)
  BY DEF Moved, End, Goto
<1> HIDE DEF u, t, c
<1>4. l \in Locals /\ l.transactionUUID = u /\ l.target = t
  BY <1>2, EmptyType DEF Locals
<1>5. l.session = EmptySession /\ l.late = FALSE
  BY EmptyType DEF Locals
<1> QED BY <1>3, <1>4, <1>5 DEF u, t

-----------------------------------------------------------------------------
(* What each action of a handler does to it.                               *)

\* A handler that answers, at the end of its work or on an error.
LEMMA EndKeeps ==
  ASSUME Base, NEW h \in Requests, NEW p, End(h, p),
         \/ pc[h] \in {"waiting", "clean"} /\ p = "replied"
         \/ pc[h] = "session" /\ p \in Final
         \/ pc[h] \in BeforeDelete /\ p \in Final
         \/ pc[h] \in Submitting /\ p = "failed"
  PROVE  \E l : Moved(h, p, l) /\ Keeps(h, p, l) /\ l.session = EmptySession
<1>1. PICK l \in Locals :
           /\ Moved(h, p, l) /\ l.transactionUUID = loc[h].transactionUUID
           /\ l.session = EmptySession /\ l.late = FALSE
           /\ l.target = IF loc[h].target = "mogopay/authenticate" THEN loc[h].target ELSE "none"
  BY EndMoves DEF Base
<1>2. p \in Final /\ pc[h] \notin Final
  BY DEF Final, Submitting, BeforeDelete, AfterDelete
<1>3. p \in Places /\ p \notin {"idle", "session", "delete", "validate", "saveRequest"} /\ p \notin Submitting
  BY <1>2 DEF Places, Final, Submitting, BeforeDelete, AfterDelete
<1>4. HandlerInv(h)
  BY InHand
<1>5. loc[h].transactionUUID # None /\ Gone(pc[h], loc[h]) => Gone(p, l)
  BY <1>1, <1>4 DEF Gone, HandlerInv, BeforeDelete
<1> QED BY <1>1, <1>2, <1>3, <1>5 DEF Keeps

\* A submit that arrives takes a copy of the session.
LEMMA SubmitLoadKeeps ==
  ASSUME Base, NEW h \in Requests, NEW t \in TxIds, NEW m \in Merchants, SubmitLoad(h, t, m)
  PROVE  \E p, l : Moved(h, p, l) /\ Keeps(h, p, l) /\ l.session = stored
<1> DEFINE late == tx[t] # None
           had  == stored.cart # None /\ stored.selectShippingCart # None
           l    == [NoLocals EXCEPT !.session = stored, !.transactionUUID = t, !.merchantId = m,
                                    !.late = late, !.hadCart = had]
<1>1. PICK p \in {"store", "find"} : Goto(h, p) /\ pc[h] = "idle" /\ t \in issued /\ loc' = [loc EXCEPT ![h] = l]
  BY DEF SubmitLoad
<1>2. Moved(h, p, l)
  BY <1>1 DEF Moved, Goto
<1>3. late \in BOOLEAN /\ had \in BOOLEAN /\ stored \in SessionData /\ t \in TxIds \cup {None}
      /\ m \in Merchants \cup {None}
  BY InHand
<1>4. late => tx[t] # None
  OBVIOUS
<1> HIDE DEF late, had
<1>5. l \in Locals /\ l.session = stored /\ l.transactionUUID = t /\ l.merchantId = m /\ l.late = late
  BY <1>3, EmptyType DEF Locals
<1> HIDE DEF l
<1>6. /\ p \in Places /\ p \in BeforeDelete /\ p \notin {"idle", "session", "delete", "validate", "saveRequest"}
      /\ p \notin AfterDelete /\ "idle" \notin Final
  BY DEF Places, BeforeDelete, AfterDelete, Final
<1>7. loc[h].transactionUUID = None /\ t # None /\ m # None
  BY <1>1, InHand, CheckoutAssumption DEF HandlerInv
<1> QED BY <1>1, <1>2, <1>4, <1>5, <1>6, <1>7 DEF Keeps

\* Any other request that arrives does so too.
LEMMA SessionLoadKeeps ==
  ASSUME Base, NEW h \in Requests, SessionLoad(h)
  PROVE  \E p, l : Moved(h, p, l) /\ Keeps(h, p, l) /\ l.session = stored
<1>1. pc[h] = "idle" /\ Goto(h, "session") /\ loc' = [loc EXCEPT ![h].session = stored]
  BY DEF SessionLoad
<1>2. PICK l \in Locals :
        /\ Moved(h, "session", l) /\ l.session = stored /\ l.transactionUUID = loc[h].transactionUUID
        /\ l.late = loc[h].late
  BY <1>1, InHand, SessionMoves DEF Base
<1>3. loc[h].transactionUUID = None /\ ~loc[h].late
  BY <1>1, InHand DEF HandlerInv, LateInv
<1>4. /\ "session" \in Places /\ "session" \notin Submitting /\ "idle" \notin Final
  BY DEF Places, Submitting, BeforeDelete, AfterDelete, Final
<1> QED BY <1>1, <1>2, <1>3, <1>4 DEF Keeps

\* A submit that goes on with the same locals.
LEMMA StayKeeps ==
  ASSUME Base, NEW h \in Requests, NEW p, Goto(h, p), loc' = loc,
         \/ pc[h] = "store" /\ p = "find"
         \/ pc[h] = "delete" /\ p = "validate"
         \/ pc[h] = "saveRequest" /\ p = "save"
         \/ pc[h] = "save" /\ p = "waiting"
         \/ pc[h] = "waiting" /\ p = "clean"
  PROVE  Moved(h, p, loc[h]) /\ Keeps(h, p, loc[h])
<1>1. Moved(h, p, loc[h])
  BY StayMoves DEF Base
<1>2. /\ p \in Places /\ p \in Submitting /\ pc[h] \in Submitting /\ pc[h] \notin Final
      /\ p \notin {"idle", "session", "saveRequest"}
      /\ p \in AfterDelete \ {"validate"} => pc[h] \in AfterDelete \ {"validate"}
  BY DEF Places, Submitting, BeforeDelete, AfterDelete, Final
<1>3. HandlerInv(h) /\ LateInv(h) /\ loc[h] \in Locals
  BY InHand
<1>4. Gone(pc[h], loc[h]) => Gone(p, loc[h]) \/ (pc[h] = "saveRequest" /\ p = "save")
  BY DEF Gone, BeforeDelete
<1>5. p \in {"delete", "validate"} => pc[h] \in {"delete", "validate"}
  OBVIOUS
<1> QED BY <1>1, <1>2, <1>3, <1>4, <1>5 DEF Keeps, HandlerInv, LateInv

\* findRequest's tests: a submit is refused, or goes on with a session that has a cart.
LEMMA FindRequestKeeps ==
  ASSUME Base, NEW h \in Requests, FindRequest(h)
  PROVE  \E p, l : /\ Moved(h, p, l) /\ Keeps(h, p, l) /\ p # "save"
                   /\ l.session \in {loc[h].session, EmptySession}
<1>1. pc[h] = "find" /\ pc[h] \in BeforeDelete
  BY DEF FindRequest, BeforeDelete
<1>2. ASSUME NEW p \in {"refused", "noCart"}, End(h, p)
      PROVE  \E l : Moved(h, p, l) /\ Keeps(h, p, l) /\ l.session = EmptySession
  <2>1. p \in Final
    BY DEF Final
  <2> QED BY <1>1, <1>2, <2>1, EndKeeps
<1>3. CASE End(h, "refused") \/ End(h, "noCart")
  BY <1>2, <1>3
<1>4. CASE /\ SubmitSession(h).cart # None
           /\ Goto(h, "delete") /\ loc' = [loc EXCEPT ![h].session = SubmitSession(h)]
  <2>1. SubmitSession(h) \in {loc[h].session, EmptySession}
    BY DEF SubmitSession, Cleared
  <2>2. SubmitSession(h) \in SessionData
    BY <2>1, InHand, EmptyType
  <2>3. PICK l \in Locals :
           /\ Moved(h, "delete", l) /\ l.session = SubmitSession(h)
           /\ l.transactionUUID = loc[h].transactionUUID
           /\ l.merchantId = loc[h].merchantId /\ l.target = loc[h].target /\ l.late = loc[h].late
    BY <1>4, <2>2, SessionMoves DEF Base
  <2>4. HandlerInv(h) /\ LateInv(h)
    BY InHand
  <2>5. /\ "delete" \in Places /\ "delete" \in Submitting /\ pc[h] \in Submitting /\ pc[h] \notin Final
        /\ "delete" \notin AfterDelete /\ ~Gone(pc[h], loc[h])
    BY <1>1 DEF Places, Submitting, BeforeDelete, AfterDelete, Final, Gone
  <2>6. Keeps(h, "delete", l)
    BY <1>1, <1>4, <2>3, <2>4, <2>5 DEF Keeps, HandlerInv, LateInv
  <2> QED BY <2>1, <2>3, <2>6
<1> QED BY <1>3, <1>4 DEF FindRequest

\* What submit writes into the session.
LEMMA SubmittedFacts ==
  ASSUME NEW s \in SessionData, NEW t \in TxIds, NEW m \in Merchants, NEW mogopay \in BOOLEAN
  PROVE  LET n == Submitted(s, t, m, mogopay)
             p == WithPaymentRequest(n)
         IN  /\ n \in SessionData /\ n.transactionUuid = t /\ n.merchantId = m /\ n.cart = s.cart
             /\ p \in SessionData /\ p.transactionUuid = t /\ p.merchantId = m
             /\ p.paymentRequest = s.cart
<1> DEFINE n == Submitted(s, t, m, mogopay)
           p == WithPaymentRequest(n)
<1>1. n \in SessionData /\ n.transactionUuid = t /\ n.merchantId = m /\ n.cart = s.cart
  BY DEF Submitted, SessionData
<1>2. n.cart \in Carts \cup {None}
  BY <1>1, SessionType
<1> HIDE DEF n
<1>3. p \in SessionData /\ p.transactionUuid = n.transactionUuid /\ p.merchantId = n.merchantId
      /\ p.paymentRequest = n.cart
  BY <1>1, <1>2 DEF WithPaymentRequest, SessionData
<1> QED BY <1>1, <1>3 DEF n

\* A submit that passed every test goes on with the vendor and the cart that were validated.
LEMMA ValidatedKeeps ==
  ASSUME Base, NEW h \in Requests, pc[h] = "validate", tx[loc[h].transactionUUID] = None,
         NEW mogopay \in BOOLEAN, NEW cvv \in BOOLEAN, Validated(h, mogopay, cvv)
  PROVE  \E p, l : /\ Moved(h, p, l) /\ Keeps(h, p, l)
                   /\ l.session.transactionUuid = loc[h].transactionUUID
                   /\ l.target = "payline/start" =>
                        /\ l.session.merchantId = loc[h].merchantId
                        /\ l.session.paymentRequest = loc[h].session.cart
<1> DEFINE t == loc[h].transactionUUID
           m == loc[h].merchantId
           s == Submitted(loc[h].session, t, m, mogopay)
           w == WithPaymentRequest(s)
<1>1. HandlerInv(h) /\ LateInv(h) /\ loc[h] \in Locals /\ loc[h].session \in SessionData
  BY InHand
<1>2. /\ pc[h] \in Submitting /\ pc[h] \notin Final
      /\ \A p \in {"saveRequest", "save"} : p \in Places /\ p \in Submitting /\ p \notin BeforeDelete
  BY DEF Places, Submitting, BeforeDelete, AfterDelete, Final
<1>3. t \in TxIds /\ m \in Merchants /\ ~loc[h].late
  BY <1>1, <1>2, LocalsType DEF HandlerInv, LateInv
<1>4. /\ s \in SessionData /\ s.transactionUuid = t
      /\ w \in SessionData /\ w.transactionUuid = t /\ w.merchantId = m /\ w.paymentRequest = loc[h].session.cart
  BY <1>1, <1>3, SubmittedFacts
<1>5. \E n \in {s, w}, p \in {"saveRequest", "save"}, a \in {"payline/start", "mogopay/start", "mogopay/authenticate"} :
        /\ loc' = [loc EXCEPT ![h].session = n, ![h].target = a] /\ Goto(h, p)
        /\ p = "saveRequest" <=> a = "mogopay/authenticate"
        /\ a = "payline/start" => n = w
  BY DEF Validated
<1> HIDE DEF s, w
<1>6. PICK n \in {s, w}, p \in {"saveRequest", "save"}, a \in {"payline/start", "mogopay/start", "mogopay/authenticate"} :
        /\ loc' = [loc EXCEPT ![h].session = n, ![h].target = a] /\ Goto(h, p)
        /\ p = "saveRequest" <=> a = "mogopay/authenticate"
        /\ a = "payline/start" => n = w
  BY <1>5
<1> DEFINE l == [loc[h] EXCEPT !.session = n, !.target = a]
<1>7. /\ Moved(h, p, l) /\ l \in Locals /\ l.session = n /\ l.transactionUUID = loc[h].transactionUUID
      /\ l.merchantId = loc[h].merchantId /\ l.target = a /\ l.late = loc[h].late
  <2>1. n \in SessionData
    BY <1>4
  <2>2. /\ l \in Locals /\ l.session = n /\ l.transactionUUID = loc[h].transactionUUID
        /\ l.merchantId = loc[h].merchantId /\ l.target = a /\ l.late = loc[h].late
    BY <1>1, <2>1 DEF Locals
  <2>3. loc \in [Requests -> Locals]
    BY InHand
  <2> QED BY <1>6, <2>2, <2>3 DEF Moved, Goto
<1> HIDE DEF l
<1>8. Gone(p, l)
  BY <1>2, <1>6, <1>7 DEF Gone
<1>9. Keeps(h, p, l)
  BY <1>1, <1>2, <1>3, <1>6, <1>7, <1>8, CheckoutAssumption DEF Keeps
<1> QED BY <1>4, <1>6, <1>7, <1>9

-----------------------------------------------------------------------------
(* The conjuncts that speak of one handler.                                *)

\* Nothing known of transactions, requests and validations is lost.
Grows ==
  /\ issued \subseteq issued'
  /\ \A t \in TxIds : tx[t] # None => tx'[t] # None
  /\ \A t \in TxIds : validated[t] # None => validated'[t] # None

\* A handler keeps what it knows while others move.
LEMMA OthersKeep ==
  ASSUME Base, Grows, NEW g \in Requests, pc'[g] = pc[g], loc'[g] = loc[g],
         startPc'[g] # "none" => startPc[g] # "none"
  PROVE  HandlerInv(g)' /\ LateInv(g)'
<1>1. HandlerInv(g) /\ LateInv(g) /\ loc[g].transactionUUID \in TxIds \cup {None}
  BY InHand, LocalsType
<1>2. HandlerInv(g)'
  BY <1>1 DEF HandlerInv, Grows
<1>3. LateInv(g)'
  BY <1>1 DEF LateInv, Grows
<1> QED BY <1>2, <1>3

\* A moving handler does too, and the types of its state are kept.
LEMMA MoverKeeps ==
  ASSUME Base, Grows, NEW h \in Requests, NEW p, NEW l, Moved(h, p, l), Keeps(h, p, l),
         \A g \in Requests \ {h} : startPc'[g] = startPc[g],
         \/ startPc' = startPc
         \/ p = "waiting"
  PROVE  /\ \A g \in Requests : HandlerInv(g)' /\ LateInv(g)'
         /\ pc' \in [Requests -> Places] /\ loc' \in [Requests -> Locals]
<1>1. TypeOK /\ HandlerInv(h) /\ LateInv(h) /\ pc \in [Requests -> Places] /\ loc \in [Requests -> Locals]
  BY InHand DEF Base
<1>2. /\ pc'[h] = p /\ loc'[h] = l
      /\ \A g \in Requests \ {h} : pc'[g] = pc[g] /\ loc'[g] = loc[g]
  BY <1>1, MovedFacts
<1>3. l.transactionUUID \in TxIds \cup {None}
  BY LocalsType DEF Keeps
<1>4. HandlerInv(h)'
  <2>1. l.transactionUUID # None => l.transactionUUID \in issued'
    BY <1>1 DEF Keeps, HandlerInv, Grows
  <2>2. startPc'[h] # "none" => p \in {"waiting", "clean"} \cup Final
    BY <1>1 DEF Keeps, HandlerInv
  <2> QED BY <1>2, <2>1, <2>2 DEF Keeps, HandlerInv
<1>5. LateInv(h)'
  BY <1>2, <1>3 DEF Keeps, LateInv, Grows
<1>6. ASSUME NEW g \in Requests PROVE HandlerInv(g)' /\ LateInv(g)'
  BY <1>2, <1>4, <1>5, <1>6, OthersKeep
<1>7. pc' \in [Requests -> Places] /\ loc' \in [Requests -> Locals]
  BY <1>1 DEF Moved, Keeps
<1> QED BY <1>6, <1>7

\* A step in which no handler moves.
LEMMA NoneMoves ==
  ASSUME Base, Grows, UNCHANGED <<pc, loc>>,
         \A g \in Requests : startPc'[g] # "none" => startPc[g] # "none"
  PROVE  \A g \in Requests : HandlerInv(g)' /\ LateInv(g)'
  BY OthersKeep

-----------------------------------------------------------------------------
(* The steps, by what they write besides the handler.                      *)

\* Nothing.
Quiet(h) ==
  /\ \E p, l : /\ Moved(h, p, l) /\ Keeps(h, p, l) /\ p # "save"
               /\ l.session \in {loc[h].session, EmptySession}
  /\ pc[h] # "idle"
  /\ UNCHANGED <<request, tx, stored, startPc, startLoc, issued, expired, validated, overlap>>

\* A handler takes its copy of the session.
Arrives(h) ==
  /\ \E p, l : Moved(h, p, l) /\ Keeps(h, p, l) /\ l.session = stored /\ p # "save"
  /\ pc[h] = "idle"
  /\ Arriving
  /\ UNCHANGED <<request, tx, stored, startPc, startLoc, issued, expired, validated>>

\* The session, for the same transaction or for none.
Stores(h) ==
  /\ \E p, l : /\ Moved(h, p, l) /\ Keeps(h, p, l) /\ p # "save"
               /\ l.session \in {loc[h].session, EmptySession}
  /\ pc[h] # "idle"
  /\ stored' \in SessionData /\ stored'.transactionUuid \in {loc[h].session.transactionUuid, None}
  /\ pc[h] \in {"waiting", "clean"} => stored'.paymentRequest = None
  /\ UNCHANGED <<request, tx, startPc, startLoc, issued, expired, validated, overlap>>

\* That the transaction's request passed every test.
Passes(h) ==
  /\ \E p, l : /\ Moved(h, p, l) /\ Keeps(h, p, l)
               /\ l.session.transactionUuid = loc[h].transactionUUID
               /\ l.target = "payline/start" =>
                    /\ l.session.merchantId = loc[h].merchantId
                    /\ l.session.paymentRequest = loc[h].session.cart
  /\ pc[h] = "validate" /\ tx[loc[h].transactionUUID] = None
  /\ validated' = [validated EXCEPT ![loc[h].transactionUUID] =
                     [vendor |-> loc[h].merchantId, cart |-> loc[h].session.cart]]
  /\ UNCHANGED <<request, tx, stored, startPc, startLoc, issued, expired, overlap>>

\* A session changed in its own fields keeps its transaction.
LEMMA ChangedSession ==
  ASSUME NEW s \in SessionData
  PROVE  /\ \A m \in Merchants \cup {None} :
              LET n == [s EXCEPT !.authenticated = TRUE, !.merchantId = m]
              IN  n \in SessionData /\ n.transactionUuid = s.transactionUuid
         /\ \A c \in Carts : LET n == [s EXCEPT !.cart = c]
                             IN  n \in SessionData /\ n.transactionUuid = s.transactionUuid
         /\ \A c \in Carts \cup {None} : LET n == [s EXCEPT !.shippingCart = c]
                             IN  n \in SessionData /\ n.transactionUuid = s.transactionUuid
         /\ \A c \in Carts \cup {None} : LET n == [s EXCEPT !.selectShippingCart = c]
                             IN  n \in SessionData /\ n.transactionUuid = s.transactionUuid
         /\ \A b \in BOOLEAN : LET n == [Cleared EXCEPT !.authenticated = b]
                               IN  n \in SessionData /\ n.transactionUuid = None /\ n.paymentRequest = None
<1>1. ASSUME NEW m \in Merchants \cup {None}
      PROVE  LET n == [s EXCEPT !.authenticated = TRUE, !.merchantId = m]
             IN  n \in SessionData /\ n.transactionUuid = s.transactionUuid
  BY DEF SessionData
<1>2. ASSUME NEW c \in Carts
      PROVE  LET n == [s EXCEPT !.cart = c] IN n \in SessionData /\ n.transactionUuid = s.transactionUuid
  BY DEF SessionData
<1>3. ASSUME NEW c \in Carts \cup {None}
      PROVE  LET n == [s EXCEPT !.shippingCart = c]
             IN  n \in SessionData /\ n.transactionUuid = s.transactionUuid
  BY DEF SessionData
<1>4. ASSUME NEW c \in Carts \cup {None}
      PROVE  LET n == [s EXCEPT !.selectShippingCart = c]
             IN  n \in SessionData /\ n.transactionUuid = s.transactionUuid
  BY DEF SessionData
<1>5. ASSUME NEW b \in BOOLEAN
      PROVE  LET n == [Cleared EXCEPT !.authenticated = b]
             IN  n \in SessionData /\ n.transactionUuid = None /\ n.paymentRequest = None
  <2>1. ASSUME NEW e \in SessionData
        PROVE  LET n == [e EXCEPT !.authenticated = b]
               IN  /\ n \in SessionData /\ n.transactionUuid = e.transactionUuid
                   /\ n.paymentRequest = e.paymentRequest
    BY DEF SessionData
  <2>2. Cleared \in SessionData /\ Cleared.transactionUuid = None /\ Cleared.paymentRequest = None
    BY EmptyType DEF Cleared
  <2> QED BY <2>1, <2>2
<1> QED BY <1>1, <1>2, <1>3, <1>4, <1>5, Zenon

\* The requests that change the session.
LEMMA OtherCases ==
  ASSUME Base, NEW h \in Requests, Other(h)
  PROVE  Arrives(h) \/ Stores(h) \/ Quiet(h)
<1>1. loc[h].session \in SessionData
  BY InHand
<1>2. ASSUME NEW s \in SessionData, s.transactionUuid \in {loc[h].session.transactionUuid, None}, Store(h, s)
      PROVE  Stores(h)
  <2>1. pc[h] = "session" /\ stored' = s /\ End(h, "replied") /\ UNCHANGED <<documents, starts, history>>
    BY <1>2 DEF Store
  <2>2. "replied" \in Final
    BY DEF Final
  <2>3. \E l : Moved(h, "replied", l) /\ Keeps(h, "replied", l) /\ l.session = EmptySession
    BY <2>1, <2>2, EndKeeps
  <2>4. UNCHANGED <<request, tx, startPc, startLoc, issued, expired, validated, overlap>>
    BY <2>1 DEF documents, starts, history
  <2> QED BY <1>2, <2>1, <2>3, <2>4 DEF Stores
<1>3. CASE SessionLoad(h)
  <2>1. \E p, l : Moved(h, p, l) /\ Keeps(h, p, l) /\ l.session = stored /\ p # "save"
    <3>1. PICK p, l : Moved(h, p, l) /\ Keeps(h, p, l) /\ l.session = stored
      BY <1>3, SessionLoadKeeps
    <3>2. p # "save"
      <4>1. pc'[h] = "session" /\ pc'[h] = p
        BY <1>3, <3>1 DEF SessionLoad, Goto, Moved, Base, TypeOK
      <4> QED BY <4>1
    <3> QED BY <3>1, <3>2
  <2> QED BY <1>3, <2>1 DEF SessionLoad, Arrives, documents, starts
<1>4. CASE AuthenticateSession(h)
  BY <1>1, <1>2, <1>4, ChangedSession DEF AuthenticateSession
<1>5. CASE Token(h)
  BY <1>2, <1>5, EmptyType DEF Token, Cleared
<1>6. CASE ShopSetsCart(h)
  BY <1>1, <1>2, <1>6, ChangedSession DEF ShopSetsCart
<1>7. CASE ShippingPrices(h)
  <2>1. PICK quote \in {loc[h].session.cart, None} : Store(h, [loc[h].session EXCEPT !.shippingCart = quote])
    BY <1>7 DEF ShippingPrices
  <2>2. quote \in Carts \cup {None}
    BY <1>1, SessionType
  <2> QED BY <1>1, <1>2, <2>1, <2>2, ChangedSession
<1>8. CASE SelectShippingPrice(h)
  <2>1. CASE Store(h, [loc[h].session EXCEPT !.selectShippingCart = loc[h].session.shippingCart])
    BY <1>1, <1>2, <2>1, ChangedSession, SessionType
  <2>2. CASE pc[h] = "session" /\ End(h, "refused") /\ UNCHANGED <<documents, stored, starts, history>>
    <3>1. "refused" \in Final
      BY DEF Final
    <3>2. \E l : Moved(h, "refused", l) /\ Keeps(h, "refused", l) /\ l.session = EmptySession
      BY <2>2, <3>1, EndKeeps
    <3> QED BY <2>2, <3>2 DEF Quiet, documents, starts, history
  <2> QED BY <1>8, <2>1, <2>2 DEF SelectShippingPrice
<1>9. CASE Returned(h)
  BY <1>1, <1>2, <1>9 DEF Returned
<1> QED BY <1>3, <1>4, <1>5, <1>6, <1>7, <1>8, <1>9 DEF Other

\* submit.
LEMMA SubmitCases ==
  ASSUME Base, NEW h \in Requests, Submit(h)
  PROVE  \/ Arrives(h) \/ Stores(h) \/ Quiet(h) \/ Passes(h)
         \/ DeleteRequest(h) \/ SaveRequest(h) \/ SaveSession(h)
<1>1. loc[h].session \in SessionData /\ TypeOK
  BY InHand DEF Base
<1>2. ASSUME NEW p \in Final, End(h, p), UNCHANGED <<documents, stored, starts, history>>,
             \/ pc[h] = "waiting" /\ p = "replied"
             \/ pc[h] \in BeforeDelete
             \/ pc[h] \in Submitting /\ p = "failed"
      PROVE  Quiet(h)
  <2>1. \E l : Moved(h, p, l) /\ Keeps(h, p, l) /\ l.session = EmptySession
    BY <1>2, EndKeeps
  <2>2. p # "save" /\ pc[h] # "idle"
    BY <1>2 DEF Final, BeforeDelete, AfterDelete, Submitting
  <2> QED BY <1>2, <2>1, <2>2 DEF Quiet, documents, starts, history
<1>3. CASE \E t \in TxIds, m \in Merchants : SubmitLoad(h, t, m)
  <2>1. PICK t \in TxIds, m \in Merchants : SubmitLoad(h, t, m)
    BY <1>3
  <2>2. PICK p, l : Moved(h, p, l) /\ Keeps(h, p, l) /\ l.session = stored
    BY <2>1, SubmitLoadKeeps
  <2>3. p # "save"
    <3>1. pc'[h] \in {"store", "find"} /\ pc'[h] = p
      BY <1>1, <2>1, <2>2 DEF SubmitLoad, Goto, Moved, TypeOK
    <3> QED BY <3>1
  <2>4. Arriving /\ pc[h] = "idle" /\ UNCHANGED <<documents, stored, starts, issued, expired, validated>>
    BY <2>1 DEF SubmitLoad
  <2>5. UNCHANGED <<request, tx, stored, startPc, startLoc, issued, expired, validated>>
    BY <2>4 DEF documents, starts
  <2> QED BY <2>2, <2>3, <2>4, <2>5 DEF Arrives
<1>4. CASE SubmitStore(h)
  <2>1. pc[h] = "store" /\ stored' = loc[h].session /\ Goto(h, "find") /\ loc' = loc
    BY <1>4 DEF SubmitStore
  <2>2. Moved(h, "find", loc[h]) /\ Keeps(h, "find", loc[h])
    BY <2>1, StayKeeps
  <2>3. UNCHANGED <<request, tx, startPc, startLoc, issued, expired, validated, overlap>>
    BY <1>4 DEF SubmitStore, documents, starts, history
  <2> QED BY <1>1, <2>1, <2>2, <2>3 DEF Stores
<1>5. CASE FindRequest(h)
  <2>1. \E p, l : /\ Moved(h, p, l) /\ Keeps(h, p, l) /\ p # "save"
                   /\ l.session \in {loc[h].session, EmptySession}
    BY <1>5, FindRequestKeeps
  <2> QED BY <1>5, <2>1 DEF FindRequest, Quiet, documents, starts, history
<1>6. CASE Validate(h)
  <2>1. pc[h] = "validate" /\ UNCHANGED <<documents, stored, starts, issued, expired, overlap>>
    BY <1>6 DEF Validate
  <2>2. CASE End(h, "failed") /\ UNCHANGED validated
    <3>1. pc[h] \in Submitting /\ "failed" \in Final
      BY <2>1 DEF Submitting, AfterDelete, Final
    <3>2. UNCHANGED <<documents, stored, starts, history>>
      BY <2>1, <2>2 DEF history
    <3> QED BY <1>2, <2>2, <3>1, <3>2
  <2>3. CASE /\ tx[loc[h].transactionUUID] = None
             /\ \E store, cvv \in BOOLEAN : Validated(h, loc[h].session.mogopay \/ store, cvv)
             /\ validated' = [validated EXCEPT ![loc[h].transactionUUID] =
                           [vendor |-> loc[h].merchantId, cart |-> loc[h].session.cart]]
    <3>1. PICK store \in BOOLEAN, cvv \in BOOLEAN : Validated(h, loc[h].session.mogopay \/ store, cvv)
      BY <2>3
    <3>2. (loc[h].session.mogopay \/ store) \in BOOLEAN
      OBVIOUS
    <3>3. \E p, l : /\ Moved(h, p, l) /\ Keeps(h, p, l)
                    /\ l.session.transactionUuid = loc[h].transactionUUID
                    /\ l.target = "payline/start" =>
                         /\ l.session.merchantId = loc[h].merchantId
                         /\ l.session.paymentRequest = loc[h].session.cart
      BY <2>1, <2>3, <3>1, <3>2, ValidatedKeeps, Zenon
    <3> QED BY <2>1, <2>3, <3>3 DEF Passes, documents, starts
  <2> QED BY <1>6, <2>2, <2>3 DEF Validate
<1>7. CASE Answered(h)
  <2>1. "replied" \in Final
    BY DEF Final
  <2> QED BY <1>2, <1>7, <2>1 DEF Answered
<1>8. CASE CallFailed(h)
  <2>1. pc[h] = "waiting" /\ Goto(h, "clean") /\ loc' = loc
    BY <1>8 DEF CallFailed
  <2>2. Moved(h, "clean", loc[h]) /\ Keeps(h, "clean", loc[h])
    BY <2>1, StayKeeps
  <2> QED BY <1>8, <2>1, <2>2 DEF CallFailed, Quiet, documents, starts, history
<1>9. CASE CleanSession(h)
  <2>1. /\ pc[h] = "clean" /\ End(h, "replied")
        /\ stored' = [Cleared EXCEPT !.authenticated = loc[h].session.authenticated]
        /\ UNCHANGED <<documents, starts, history>>
    BY <1>9 DEF CleanSession
  <2>2. \E l : Moved(h, "replied", l) /\ Keeps(h, "replied", l) /\ l.session = EmptySession
    BY <2>1, EndKeeps
  <2>3. stored' \in SessionData /\ stored'.transactionUuid = None /\ stored'.paymentRequest = None
    BY <1>1, <2>1, ChangedSession, SessionType
  <2> QED BY <2>1, <2>2, <2>3 DEF Stores, documents, starts, history
<1>10. CASE Abort(h)
  <2>1. /\ pc[h] \in BeforeDelete \cup AfterDelete
        /\ (End(h, "refused") /\ pc[h] \in BeforeDelete) \/ End(h, "failed")
        /\ UNCHANGED <<documents, stored, starts, history>>
    BY <1>10 DEF Abort
  <2>2. "refused" \in Final /\ "failed" \in Final
    BY DEF Final
  <2> QED BY <1>2, <2>1, <2>2 DEF Submitting
<1> QED BY <1>3, <1>4, <1>5, <1>6, <1>7, <1>8, <1>9, <1>10 DEF Submit

\* The steps that delete and save the request, and that store the session and call.
LEMMA StayCases ==
  ASSUME Base, NEW h \in Requests
  PROVE  /\ DeleteRequest(h) => Moved(h, "validate", loc[h]) /\ Keeps(h, "validate", loc[h])
         /\ SaveRequest(h) => Moved(h, "save", loc[h]) /\ Keeps(h, "save", loc[h])
         /\ SaveSession(h) => Moved(h, "waiting", loc[h]) /\ Keeps(h, "waiting", loc[h])
<1>1. ASSUME DeleteRequest(h) PROVE Moved(h, "validate", loc[h]) /\ Keeps(h, "validate", loc[h])
  BY <1>1, StayKeeps DEF DeleteRequest
<1>2. ASSUME SaveRequest(h) PROVE Moved(h, "save", loc[h]) /\ Keeps(h, "save", loc[h])
  BY <1>2, StayKeeps DEF SaveRequest
<1>3. ASSUME SaveSession(h) PROVE Moved(h, "waiting", loc[h]) /\ Keeps(h, "waiting", loc[h])
  BY <1>3, StayKeeps DEF SaveSession
<1> QED BY <1>1, <1>2, <1>3

\* A submit works on a transaction request that was made, for some vendor.
LEMMA SubmitType ==
  ASSUME Base, NEW h \in Requests, pc[h] \in Submitting
  PROVE  /\ loc[h].transactionUUID \in issued /\ loc[h].transactionUUID \in TxIds
         /\ loc[h].merchantId \in Merchants
  BY InHand, LocalsType DEF HandlerInv

\* What validate records is a transaction.
LEMMA PassesType ==
  ASSUME Base, NEW h \in Requests, pc[h] = "validate"
  PROVE  /\ loc[h].transactionUUID \in TxIds
         /\ [vendor |-> loc[h].merchantId, cart |-> loc[h].session.cart] \in BOTransaction
<1>1. HandlerInv(h) /\ loc[h].session \in SessionData
  BY InHand
<1>2. pc[h] \in Submitting
  BY DEF Submitting, AfterDelete
<1>3. loc[h].session.cart \in Carts
  BY <1>1, SessionType DEF HandlerInv
<1> QED BY <1>2, <1>3, SubmitType DEF BOTransaction

\* Every move of a handler keeps Base, and loses nothing.
LEMMA MoveKeepsBase ==
  ASSUME Base, NEW h \in Requests,
         \/ Quiet(h) \/ Arrives(h) \/ Stores(h) \/ Passes(h)
         \/ DeleteRequest(h) \/ SaveRequest(h) \/ SaveSession(h)
  PROVE  Base' /\ Grows
<1>1. PICK p, l : Moved(h, p, l) /\ Keeps(h, p, l) /\ (SaveSession(h) => p = "waiting")
  BY StayCases DEF Quiet, Arrives, Stores, Passes
<1>2. /\ TypeOK /\ RequestsInv
      /\ loc[h].session \in SessionData /\ stored \in SessionData
      /\ validated \in [TxIds -> BOTransaction \cup {None}] /\ request \in [TxIds -> Merchants \cup {None}]
  BY InHand DEF Base
<1>3. UNCHANGED <<tx, startLoc, issued, expired>>
  BY DEF Quiet, Arrives, Stores, Passes, DeleteRequest, SaveRequest, SaveSession, documents, starts, history
<1>4. /\ validated' \in [TxIds -> BOTransaction \cup {None}]
      /\ \A t \in TxIds : validated[t] # None => validated'[t] # None
  <2>1. CASE Passes(h)
    <3>1. PICK r \in BOTransaction : validated' = [validated EXCEPT ![loc[h].transactionUUID] = r]
      BY <2>1, PassesType DEF Passes
    <3> QED BY <1>2, <3>1, NoneAssumption
  <2>2. CASE validated' = validated
    BY <1>2, <2>2
  <2> QED BY <2>1, <2>2 DEF Quiet, Arrives, Stores, Passes, DeleteRequest, SaveRequest, SaveSession, history
<1>5. stored' \in SessionData
  BY <1>2 DEF Quiet, Arrives, Stores, Passes, DeleteRequest, SaveRequest, SaveSession
<1>6. request' \in [TxIds -> Merchants \cup {None}] /\ RequestsInv'
  <2>1. CASE request' = request
    BY <1>2, <1>3, <2>1 DEF RequestsInv
  <2>2. CASE DeleteRequest(h)
    BY <1>2, <1>3, <2>2 DEF DeleteRequest, RequestsInv
  <2>3. CASE SaveRequest(h)
    <3>1. pc[h] \in Submitting
      BY <2>3 DEF SaveRequest, Submitting, AfterDelete
    <3>2. loc[h].transactionUUID \in issued /\ loc[h].merchantId \in Merchants
      BY <3>1, SubmitType
    <3> QED BY <1>2, <1>3, <2>3, <3>2 DEF SaveRequest, RequestsInv
  <2> QED BY <2>1, <2>2, <2>3 DEF Quiet, Arrives, Stores, Passes, SaveSession, documents
<1>7. /\ startPc' \in [Requests -> {"none", "called", "create", "save", "done"}]
      /\ \A g \in Requests \ {h} : startPc'[g] = startPc[g]
      /\ startPc' = startPc \/ p = "waiting"
  <2>1. CASE startPc' = startPc
    BY <1>2, <2>1 DEF TypeOK
  <2>2. CASE SaveSession(h)
    BY <1>1, <1>2, <2>2 DEF TypeOK, SaveSession, Call
  <2> QED BY <2>1, <2>2 DEF Quiet, Arrives, Stores, Passes, DeleteRequest, SaveRequest, starts
<1>8. overlap' \in BOOLEAN
  <2>1. CASE overlap' = overlap
    BY <1>2, <2>1 DEF TypeOK
  <2>2. CASE Arriving
    BY <2>2 DEF Arriving
  <2> QED BY <2>1, <2>2 DEF Quiet, Arrives, Stores, Passes, DeleteRequest, SaveRequest, SaveSession, history
<1>9. Grows
  BY <1>3, <1>4 DEF Grows
<1>10. /\ \A g \in Requests : HandlerInv(g)' /\ LateInv(g)'
       /\ pc' \in [Requests -> Places] /\ loc' \in [Requests -> Locals]
  BY <1>1, <1>7, <1>9, MoverKeeps
<1>11. TypeOK'
  BY <1>2, <1>3, <1>4, <1>5, <1>6, <1>7, <1>8, <1>10 DEF TypeOK, Places
<1> QED BY <1>6, <1>9, <1>10, <1>11 DEF Base

\* payline/start keeps Base, and loses nothing.
LEMMA StartKeepsBase ==
  ASSUME Base, NEW h \in Requests, Start(h)
  PROVE  Base' /\ Grows
<1>1. /\ TypeOK /\ RequestsInv
      /\ startLoc[h] \in SessionData /\ stored \in SessionData
      /\ tx \in [TxIds -> BOTransaction \cup {None}]
  BY InHand DEF Base
<1>2. UNCHANGED <<request, pc, loc, issued, expired, validated, overlap>>
  BY DEF Start, StartLoad, StartCreate, StartSave, documents, history
<1>3. /\ tx' \in [TxIds -> BOTransaction \cup {None}]
      /\ \A t \in TxIds : tx[t] # None => tx'[t] # None
  <2>1. CASE tx' = tx
    BY <1>1, <2>1
  <2>2. CASE \E t, r : t \in TxIds /\ r \in BOTransaction /\ tx' = [tx EXCEPT ![t] = r]
    BY <1>1, <2>2, NoneAssumption
  <2>3. CASE StartCreate(h) /\ tx' # tx
    <3> DEFINE s == startLoc[h]
               r == [vendor |-> s.merchantId, cart |-> s.paymentRequest]
    <3>1. /\ s.paymentRequest # None /\ s.merchantId # None /\ s.transactionUuid # None
          /\ tx' = [tx EXCEPT ![s.transactionUuid] = r]
      BY <2>3 DEF StartCreate
    <3>2. s.transactionUuid \in TxIds /\ r \in BOTransaction
      BY <1>1, <3>1, SessionType DEF BOTransaction
    <3> HIDE DEF s, r
    <3> QED BY <2>2, <3>1, <3>2
  <2> QED BY <2>1, <2>3 DEF Start, StartLoad, StartCreate, StartSave, documents
<1>4. /\ startPc' \in [Requests -> {"none", "called", "create", "save", "done"}]
      /\ startLoc' \in [Requests -> SessionData] /\ stored' \in SessionData
      /\ \A g \in Requests : startPc'[g] # "none" => startPc[g] # "none"
  BY <1>1, EmptyType DEF TypeOK, Start, StartLoad, StartCreate, StartSave
<1>5. Grows
  BY <1>2, <1>3 DEF Grows
<1>6. TypeOK' /\ RequestsInv'
  BY <1>1, <1>2, <1>3, <1>4 DEF TypeOK, RequestsInv
<1> QED BY <1>2, <1>4, <1>5, <1>6, NoneMoves DEF Base

\* So do init and the time to live.
LEMMA RequestKeepsBase ==
  ASSUME Base, NEW t \in TxIds, Expire(t) \/ \E m \in Merchants : InitTransaction(t, m)
  PROVE  Base' /\ Grows
<1>1. TypeOK /\ RequestsInv
  BY DEF Base
<1>2. UNCHANGED <<tx, stored, pc, loc, startPc, startLoc, validated, overlap>>
  BY DEF Expire, InitTransaction, starts
<1>3. /\ request' \in [TxIds -> Merchants \cup {None}] /\ RequestsInv'
      /\ issued \subseteq issued' /\ issued' \subseteq TxIds /\ expired' \subseteq issued'
  BY <1>1 DEF TypeOK, RequestsInv, Expire, InitTransaction
<1>4. Grows
  BY <1>2, <1>3 DEF Grows
<1>5. TypeOK'
  BY <1>1, <1>2, <1>3 DEF TypeOK
<1> QED BY <1>2, <1>3, <1>4, <1>5, NoneMoves DEF Base

-----------------------------------------------------------------------------
(* The sessions, and the transactions made of them.                        *)

\* What a session names was validated, after the step.
KnownAfter(s) == s.transactionUuid # None => validated'[s.transactionUuid] # None

\* A session that was known stays known, and one without a transaction is.
LEMMA KnownStays ==
  ASSUME Grows
  PROVE  /\ \A s \in SessionData : Known(s) => KnownAfter(s)
         /\ KnownAfter(EmptySession)
<1>1. ASSUME NEW s \in SessionData, Known(s) PROVE KnownAfter(s)
  BY <1>1, SessionType DEF Known, KnownAfter, Grows
<1>2. KnownAfter(EmptySession)
  BY EmptyType DEF KnownAfter
<1> QED BY <1>1, <1>2

\* The sessions held after a step.
LEMMA SessionsFollow ==
  ASSUME KnownAfter(stored'),
         \A h \in Requests : KnownAfter(loc'[h].session) /\ KnownAfter(startLoc'[h])
  PROVE  SessionsInv'
  BY DEF SessionsInv, Known, KnownAfter

\* A handler's move leaves every session known.
LEMMA MoveKeepsSessions ==
  ASSUME Base, SessionsInv, CreatedWasSubmitted, NEW h \in Requests,
         \/ Quiet(h) \/ Arrives(h) \/ Stores(h) \/ Passes(h)
         \/ DeleteRequest(h) \/ SaveRequest(h) \/ SaveSession(h)
  PROVE  SessionsInv' /\ CreatedWasSubmitted'
<1>1. Grows /\ TypeOK
  BY MoveKeepsBase DEF Base
<1>2. UNCHANGED <<tx, startLoc>>
  BY DEF Quiet, Arrives, Stores, Passes, DeleteRequest, SaveRequest, SaveSession, documents, starts
<1>3. CreatedWasSubmitted'
  BY <1>1, <1>2 DEF CreatedWasSubmitted, Grows
<1>4. \A g \in Requests : KnownAfter(loc[g].session) /\ KnownAfter(startLoc[g])
  BY <1>1, InHand, KnownStays DEF SessionsInv
<1>5. KnownAfter(stored)
  BY <1>1, InHand, KnownStays DEF SessionsInv
<1>6. PICK p, l : /\ Moved(h, p, l) /\ Keeps(h, p, l)
                  /\ \/ l.session \in {loc[h].session, EmptySession, stored}
                     \/ Passes(h) /\ l.session.transactionUuid = loc[h].transactionUUID
  BY StayCases DEF Quiet, Arrives, Stores, Passes
<1>7. /\ loc'[h] = l
      /\ \A g \in Requests \ {h} : loc'[g] = loc[g]
  BY <1>1, <1>6, MovedFacts
<1>8. KnownAfter(l.session)
  <2>1. CASE l.session \in {loc[h].session, EmptySession, stored}
    BY <1>1, <1>4, <1>5, <2>1, KnownStays
  <2>2. CASE Passes(h) /\ l.session.transactionUuid = loc[h].transactionUUID
    <3>1. PICK r \in BOTransaction : validated' = [validated EXCEPT ![loc[h].transactionUUID] = r]
      BY <2>2, PassesType DEF Passes
    <3>2. validated'[loc[h].transactionUUID] = r
      BY <1>1, <2>2, <3>1, PassesType DEF Passes, TypeOK
    <3> QED BY <2>2, <3>2, NoneAssumption DEF KnownAfter
  <2> QED BY <1>6, <2>1, <2>2
<1>9. KnownAfter(stored')
  <2>1. stored' \in {stored, loc[h].session} \/ stored'.transactionUuid \in {loc[h].session.transactionUuid, None}
    BY DEF Quiet, Arrives, Stores, Passes, DeleteRequest, SaveRequest, SaveSession
  <2> QED BY <1>4, <1>5, <2>1 DEF KnownAfter
<1> QED BY <1>2, <1>3, <1>4, <1>7, <1>8, <1>9, SessionsFollow

\* payline/start makes a transaction of the one its session names, which was validated.
LEMMA StartKeepsSessions ==
  ASSUME Base, SessionsInv, CreatedWasSubmitted, NEW h \in Requests, Start(h)
  PROVE  SessionsInv' /\ CreatedWasSubmitted'
<1>1. Grows /\ TypeOK
  BY StartKeepsBase DEF Base
<1>2. UNCHANGED <<loc, validated>>
  BY DEF Start, StartLoad, StartCreate, StartSave, history
<1>3. /\ \A g \in Requests : KnownAfter(loc[g].session) /\ KnownAfter(startLoc[g])
      /\ KnownAfter(stored) /\ KnownAfter(EmptySession)
  BY <1>1, InHand, KnownStays DEF SessionsInv
<1>4. /\ stored' \in {stored, startLoc[h]}
      /\ \A g \in Requests : startLoc'[g] \in {startLoc[g], stored, EmptySession}
  BY <1>1 DEF Start, StartLoad, StartCreate, StartSave, TypeOK
<1>5. CreatedWasSubmitted'
  <2>1. CASE tx' = tx
    BY <1>2, <2>1 DEF CreatedWasSubmitted
  <2>2. CASE StartCreate(h) /\ tx' # tx
    <3>1. /\ startLoc[h].transactionUuid # None
          /\ \A t \in TxIds \ {startLoc[h].transactionUuid} : tx'[t] = tx[t]
      BY <1>1, <2>2 DEF StartCreate, TypeOK
    <3>2. validated'[startLoc[h].transactionUuid] # None
      BY <1>3, <3>1 DEF KnownAfter
    <3> QED BY <1>2, <3>1, <3>2 DEF CreatedWasSubmitted
  <2> QED BY <2>1, <2>2 DEF Start, StartLoad, StartCreate, StartSave, documents
<1> QED BY <1>2, <1>3, <1>4, <1>5, SessionsFollow

-----------------------------------------------------------------------------
(* The transaction request.                                                *)

\* Who found the request deleted and did not save it again is responsible for its loss.
LEMMA SurvivesBy ==
  ASSUME Base, \A t \in issued' \ expired' : request'[t] = None =>
                 \E h \in Requests : loc'[h].transactionUUID = t /\ Gone(pc'[h], loc'[h])
  PROVE  RequestSurvives'
  BY DEF RequestSurvives, Gone

\* The same read from the invariant.
LEMMA LostBy ==
  ASSUME RequestSurvives, NEW t \in issued \ expired, request[t] = None
  PROVE  \E h \in Requests : loc[h].transactionUUID = t /\ Gone(pc[h], loc[h])
  BY DEF RequestSurvives, Gone

\* A handler's move loses no transaction request but its own.
LEMMA MoveKeepsRequest ==
  ASSUME Base, RequestSurvives, NEW h \in Requests,
         \/ Quiet(h) \/ Arrives(h) \/ Stores(h) \/ Passes(h)
         \/ DeleteRequest(h) \/ SaveRequest(h) \/ SaveSession(h)
  PROVE  RequestSurvives'
<1>1. TypeOK /\ HandlerInv(h)
  BY InHand DEF Base
<1>2. UNCHANGED <<issued, expired>>
  BY DEF Quiet, Arrives, Stores, Passes, DeleteRequest, SaveRequest, SaveSession, history
<1>3. SUFFICES ASSUME NEW t \in issued \ expired, request'[t] = None
               PROVE  \E g \in Requests : loc'[g].transactionUUID = t /\ Gone(pc'[g], loc'[g])
  BY <1>2, SurvivesBy
<1>4. t # None /\ t \in TxIds
  BY <1>1, CheckoutAssumption DEF TypeOK
<1>5. PICK p, l : /\ Moved(h, p, l) /\ Keeps(h, p, l)
                  /\ pc[h] = "saveRequest" /\ p = "save" => SaveRequest(h)
  BY StayCases DEF Quiet, Arrives, Stores, Passes, DeleteRequest, SaveSession
<1>6. /\ pc'[h] = p /\ loc'[h] = l
      /\ \A g \in Requests \ {h} : pc'[g] = pc[g] /\ loc'[g] = loc[g]
  BY <1>1, <1>5, MovedFacts
<1>7. CASE DeleteRequest(h) /\ t = loc[h].transactionUUID
  <2>1. loc'[h] = loc[h] /\ pc'[h] = "validate"
    BY <1>1, <1>7 DEF DeleteRequest, Goto, TypeOK
  <2>2. Gone("validate", loc[h])
    BY DEF Gone, BeforeDelete
  <2> QED BY <1>7, <2>1, <2>2
<1>8. CASE request[t] = None
  <2>1. PICK g \in Requests : loc[g].transactionUUID = t /\ Gone(pc[g], loc[g])
    BY <1>3, <1>8, LostBy
  <2>2. CASE g # h
    BY <1>6, <2>1, <2>2
  <2>3. CASE g = h /\ ~SaveRequest(h)
    <3>1. pc[h] # "idle"
      BY <1>1, <1>4, <2>1, <2>3 DEF HandlerInv
    <3>2. l.transactionUUID = t /\ Gone(p, l)
      BY <1>4, <1>5, <2>1, <2>3, <3>1 DEF Keeps
    <3> QED BY <1>6, <3>2
  <2>4. CASE g = h /\ SaveRequest(h)
    <3>1. pc[h] \in Submitting
      BY <2>4 DEF SaveRequest, Submitting, AfterDelete
    <3>2. loc[h].merchantId \in Merchants
      BY <3>1, SubmitType
    <3>3. request'[t] = loc[h].merchantId
      BY <1>1, <1>4, <2>1, <2>4 DEF SaveRequest, TypeOK
    <3> QED BY <1>3, <3>2, <3>3, CheckoutAssumption
  <2> QED BY <2>2, <2>3, <2>4
<1>9. request'[t] = request[t] \/ SaveRequest(h) \/ (DeleteRequest(h) /\ t = loc[h].transactionUUID)
  BY <1>1, <1>4 DEF Quiet, Arrives, Stores, Passes, DeleteRequest, SaveSession, documents, TypeOK
<1>10. CASE SaveRequest(h) /\ request[t] # None
  <2>1. t = loc[h].transactionUUID
    BY <1>1, <1>3, <1>4, <1>10 DEF SaveRequest, TypeOK
  <2>2. pc[h] \in Submitting
    BY <1>10 DEF SaveRequest, Submitting, AfterDelete
  <2>3. request'[t] \in Merchants
    BY <1>1, <1>4, <1>10, <2>1, <2>2, SubmitType DEF SaveRequest, TypeOK
  <2> QED BY <1>3, <2>3, CheckoutAssumption
<1> QED BY <1>3, <1>7, <1>8, <1>9, <1>10

\* Neither do payline/start, init and the time to live.
LEMMA OthersKeepRequest ==
  ASSUME Base, RequestSurvives,
         \/ \E h \in Requests : Start(h)
         \/ \E t \in TxIds : Expire(t) \/ \E m \in Merchants : InitTransaction(t, m)
  PROVE  RequestSurvives'
<1>1. TypeOK
  BY DEF Base
<1>2. UNCHANGED <<pc, loc>>
  BY DEF Start, StartLoad, StartCreate, StartSave, Expire, InitTransaction
<1>3. \A t \in issued' \ expired' : request'[t] = None => t \in issued \ expired /\ request[t] = None
  <2>1. CASE UNCHANGED <<request, issued, expired>>
    BY <2>1
  <2>2. CASE \E t \in TxIds : Expire(t)
    BY <1>1, <2>2 DEF Expire, TypeOK
  <2>3. CASE \E t \in TxIds, m \in Merchants : InitTransaction(t, m)
    BY <1>1, <2>3, CheckoutAssumption DEF InitTransaction, TypeOK
  <2> QED BY <2>1, <2>2, <2>3 DEF Start, StartLoad, StartCreate, StartSave, documents, history
<1> QED BY <1>2, <1>3, LostBy, SurvivesBy

-----------------------------------------------------------------------------
(* A customer whose requests do not overlap.                               *)

\* createBOTransaction makes of this session what was validated, after the step.
FaithfulAfter(s) ==
  s.paymentRequest # None /\ s.merchantId # None /\ s.transactionUuid # None =>
    validated'[s.transactionUuid] = [vendor |-> s.merchantId, cart |-> s.paymentRequest]

\* A handler that moves is the only one at work.
LEMMA AloneMoves ==
  ASSUME Base, AloneInv, ~overlap', NEW h \in Requests, NEW p, NEW l, Moved(h, p, l), Keeps(h, p, l),
         \/ overlap' = overlap /\ pc[h] # "idle"
         \/ Arriving
  PROVE  ~overlap /\ \A g \in Requests \ {h} : ~Busy(g)
<1>1. CASE Arriving
  <2>1. ~(overlap \/ \E g \in Requests : Running(g) \/ StartRunning(g))
    BY <1>1 DEF Arriving
  <2> QED BY <2>1 DEF Busy
<1>2. CASE overlap' = overlap /\ pc[h] # "idle"
  <2>1. ~overlap
    BY <1>2
  <2>2. Busy(h)
    BY <1>2 DEF Busy, Running, Keeps
  <2> QED BY <2>1, <2>2 DEF AloneInv
<1> QED BY <1>1, <1>2

\* A handler at work alone keeps the session that its payline/start is to find.
LEMMA MoveKeepsAlone ==
  ASSUME Base, AloneInv, AloneIsConsistent, NEW h \in Requests,
         \/ Quiet(h) \/ Arrives(h) \/ Stores(h) \/ Passes(h)
         \/ DeleteRequest(h) \/ SaveRequest(h) \/ SaveSession(h)
  PROVE  AloneInv' /\ AloneIsConsistent'
<1>1. SUFFICES ASSUME ~overlap' PROVE AloneInv' /\ AloneIsConsistent'
  BY DEF AloneInv, AloneIsConsistent
<1>2. TypeOK /\ HandlerInv(h) /\ loc[h] \in Locals
  BY InHand DEF Base
<1>3. PICK p, l :
        /\ Moved(h, p, l) /\ Keeps(h, p, l)
        /\ p = "save" => \/ SaveRequest(h) /\ l = loc[h]
                         \/ /\ Passes(h) /\ l.session.transactionUuid = loc[h].transactionUUID
                            /\ l.target = "payline/start" =>
                                 /\ l.session.merchantId = loc[h].merchantId
                                 /\ l.session.paymentRequest = loc[h].session.cart
  BY StayCases DEF Quiet, Arrives, Stores, Passes
<1>4. Arriving \/ (overlap' = overlap /\ pc[h] # "idle")
  BY DEF Quiet, Arrives, Stores, Passes, DeleteRequest, SaveRequest, SaveSession, history
<1>5. ~overlap /\ \A g \in Requests \ {h} : ~Busy(g)
  BY <1>1, <1>3, <1>4, AloneMoves
<1>6. /\ pc'[h] = p /\ loc'[h] = l
      /\ \A g \in Requests \ {h} : pc'[g] = pc[g] /\ loc'[g] = loc[g]
  BY <1>2, <1>3, MovedFacts
<1>7. \A g \in Requests \ {h} : startPc'[g] = startPc[g]
  <2>1. CASE startPc' = startPc
    BY <2>1
  <2>2. CASE SaveSession(h)
    BY <1>2, <2>2 DEF SaveSession, Call, TypeOK
  <2> QED BY <2>1, <2>2 DEF Quiet, Arrives, Stores, Passes, DeleteRequest, SaveRequest, starts
<1>8. \A g \in Requests \ {h} : /\ ~Busy(g)' /\ pc'[g] # "save"
                                /\ startPc'[g] # "called" /\ startPc'[g] # "create"
  BY <1>5, <1>6, <1>7 DEF Busy, Running, StartRunning, Final
<1>9. UNCHANGED <<tx, startLoc>>
  BY DEF Quiet, Arrives, Stores, Passes, DeleteRequest, SaveRequest, SaveSession, documents, starts
<1>10. validated' = validated \/ Passes(h)
  BY DEF Quiet, Arrives, Stores, DeleteRequest, SaveRequest, SaveSession, history
<1>11. AloneIsConsistent'
  <2>1. \A t \in TxIds : tx[t] # None => tx[t] = validated[t]
    BY <1>5 DEF AloneIsConsistent
  <2>2. \A t \in TxIds : tx[t] # None => validated'[t] = validated[t]
    BY <1>2, <1>10 DEF Passes, TypeOK
  <2> QED BY <1>9, <2>1, <2>2 DEF AloneIsConsistent
<1>12. ASSUME p = "save", l.target = "payline/start" PROVE FaithfulAfter(l.session)
  <2>1. CASE SaveRequest(h) /\ l = loc[h]
    BY <1>2, <1>12, <2>1 DEF SaveRequest, HandlerInv
  <2>2. CASE /\ Passes(h) /\ l.session.transactionUuid = loc[h].transactionUUID
             /\ l.session.merchantId = loc[h].merchantId
             /\ l.session.paymentRequest = loc[h].session.cart
    <3>1. pc[h] = "validate" /\ loc[h].transactionUUID \in TxIds
      BY <2>2, PassesType DEF Passes
    <3>2. validated'[loc[h].transactionUUID] = [vendor |-> loc[h].merchantId, cart |-> loc[h].session.cart]
      BY <1>2, <2>2, <3>1 DEF Passes, TypeOK
    <3> QED BY <2>2, <3>2 DEF FaithfulAfter
  <2> QED BY <1>3, <1>12, <2>1, <2>2
<1>13. startPc[h] # "none" => pc[h] \in {"waiting", "clean"}
  BY <1>2, <1>3 DEF HandlerInv, Keeps
<1>14. ASSUME startPc'[h] = "called" PROVE FaithfulAfter(stored')
  <2>1. CASE SaveSession(h)
    <3>1. pc[h] = "save" /\ loc[h].target = "payline/start"
      BY <1>2, <1>14, <2>1 DEF SaveSession, Call, TypeOK
    <3>2. Faithful(loc[h].session)
      BY <1>5, <3>1 DEF AloneInv
    <3>3. stored' = loc[h].session /\ validated' = validated
      BY <2>1 DEF SaveSession, history
    <3> QED BY <3>2, <3>3 DEF Faithful, FaithfulAfter
  <2>2. CASE startPc'[h] = startPc[h]
    <3>1. startPc[h] = "called" /\ pc[h] \in {"waiting", "clean"}
      BY <1>13, <1>14, <2>2
    <3>2. Faithful(stored)
      BY <1>5, <3>1 DEF AloneInv
    <3>3. CASE stored' = stored /\ validated' = validated
      BY <3>2, <3>3 DEF Faithful, FaithfulAfter
    <3>4. CASE stored'.paymentRequest = None
      BY <3>4 DEF FaithfulAfter
    <3>5. (stored' = stored /\ validated' = validated) \/ stored'.paymentRequest = None \/ SaveSession(h)
      BY <3>1 DEF Quiet, Arrives, Stores, Passes, DeleteRequest, SaveRequest, history
    <3> QED BY <2>1, <3>3, <3>4, <3>5
  <2> QED BY <2>1, <2>2 DEF Quiet, Arrives, Stores, Passes, DeleteRequest, SaveRequest, starts
<1>15. ASSUME startPc'[h] = "create" PROVE FaithfulAfter(startLoc'[h])
  <2>1. startPc[h] = "create"
    <3>1. CASE SaveSession(h)
      BY <1>2, <1>15, <3>1 DEF SaveSession, Call, TypeOK
    <3>2. CASE startPc' = startPc
      BY <1>15, <3>2
    <3> QED BY <3>1, <3>2 DEF Quiet, Arrives, Stores, Passes, DeleteRequest, SaveRequest, starts
  <2>2. Faithful(startLoc[h]) /\ pc[h] \in {"waiting", "clean"}
    BY <1>5, <1>13, <2>1 DEF AloneInv
  <2>3. validated' = validated
    BY <1>10, <2>2 DEF Passes
  <2> QED BY <1>9, <2>2, <2>3 DEF Faithful, FaithfulAfter
<1>16. AloneInv'
  <2>1. \A g, k \in Requests : Busy(g)' /\ Busy(k)' => g = k
    BY <1>8
  <2>2. ASSUME NEW g \in Requests
        PROVE  /\ pc'[g] = "save" /\ loc'[g].target = "payline/start" => FaithfulAfter(loc'[g].session)
               /\ startPc'[g] = "called" => FaithfulAfter(stored')
               /\ startPc'[g] = "create" => FaithfulAfter(startLoc'[g])
    <3>1. CASE g = h
      BY <1>6, <1>12, <1>14, <1>15, <3>1
    <3>2. CASE g # h
      BY <1>8, <3>2
    <3> QED BY <3>1, <3>2
  <2> QED BY <2>1, <2>2 DEF AloneInv, Faithful, FaithfulAfter
<1> QED BY <1>11, <1>16

\* Its payline/start creates what was validated.
LEMMA StartKeepsAlone ==
  ASSUME Base, AloneInv, AloneIsConsistent, NEW h \in Requests, Start(h)
  PROVE  AloneInv' /\ AloneIsConsistent'
<1>1. UNCHANGED <<pc, loc, validated, overlap>>
  BY DEF Start, StartLoad, StartCreate, StartSave, history
<1>2. SUFFICES ASSUME ~overlap PROVE AloneInv' /\ AloneIsConsistent'
  BY <1>1 DEF AloneInv, AloneIsConsistent
<1>3. TypeOK /\ startLoc[h] \in SessionData
  BY InHand DEF Base
<1>4. startPc[h] \in {"called", "create", "save"}
  BY DEF Start, StartLoad, StartCreate, StartSave
<1>5. \A g \in Requests \ {h} : startPc'[g] = startPc[g] /\ startLoc'[g] = startLoc[g]
  BY <1>3 DEF Start, StartLoad, StartCreate, StartSave, TypeOK
<1>6. Busy(h)
  BY <1>4 DEF Busy, StartRunning
<1>7. \A g \in Requests \ {h} : ~Busy(g)
  BY <1>2, <1>6 DEF AloneInv
<1>8. \A g \in Requests \ {h} : startPc[g] # "called" /\ startPc[g] # "create"
  BY <1>7 DEF Busy, StartRunning
<1>9. \A g \in Requests : Busy(g)' => Busy(g)
  BY <1>1, <1>5, <1>6 DEF Busy, Running, StartRunning
<1>10. startPc'[h] # "called" /\ (startPc'[h] = "create" => Faithful(startLoc'[h]))
  <2>1. CASE StartLoad(h)
    <3>1. startPc'[h] = "create" /\ startLoc'[h] = stored /\ startPc[h] = "called"
      BY <1>3, <2>1 DEF StartLoad, TypeOK
    <3> QED BY <1>2, <3>1 DEF AloneInv
  <2>2. CASE StartCreate(h) \/ StartSave(h)
    BY <1>3, <2>2 DEF StartCreate, StartSave, TypeOK
  <2> QED BY <2>1, <2>2 DEF Start
<1>11. AloneInv'
  <2>1. \A g, k \in Requests : Busy(g)' /\ Busy(k)' => g = k
    BY <1>2, <1>9 DEF AloneInv
  <2>2. ASSUME NEW g \in Requests
        PROVE  /\ pc'[g] = "save" /\ loc'[g].target = "payline/start" => FaithfulAfter(loc'[g].session)
               /\ startPc'[g] # "called"
               /\ startPc'[g] = "create" => FaithfulAfter(startLoc'[g])
    <3>1. startPc'[g] # "called" /\ (startPc'[g] = "create" => Faithful(startLoc'[g]))
      BY <1>5, <1>8, <1>10
    <3>2. pc[g] = "save" /\ loc[g].target = "payline/start" => Faithful(loc[g].session)
      BY <1>2 DEF AloneInv
    <3> QED BY <1>1, <3>1, <3>2 DEF Faithful, FaithfulAfter
  <2> QED BY <2>1, <2>2 DEF AloneInv, Faithful, FaithfulAfter
<1>12. AloneIsConsistent'
  <2>1. \A t \in TxIds : tx[t] # None => tx[t] = validated[t]
    BY <1>2 DEF AloneIsConsistent
  <2>2. CASE tx' = tx
    BY <1>1, <2>1, <2>2 DEF AloneIsConsistent
  <2>3. CASE StartCreate(h) /\ tx' # tx
    <3> DEFINE s == startLoc[h]
               r == [vendor |-> s.merchantId, cart |-> s.paymentRequest]
    <3>1. /\ s.paymentRequest # None /\ s.merchantId # None /\ s.transactionUuid # None
          /\ tx' = [tx EXCEPT ![s.transactionUuid] = r]
      BY <2>3 DEF StartCreate
    <3>2. startPc[h] = "create"
      BY <2>3 DEF StartCreate
    <3>3. Faithful(s)
      BY <1>2, <3>2 DEF AloneInv
    <3>4. validated[s.transactionUuid] = r /\ s.transactionUuid \in TxIds
      BY <1>3, <3>1, <3>3, SessionType DEF Faithful
    <3> HIDE DEF s, r
    <3>5. \A t \in TxIds : tx'[t] # None => tx'[t] = validated[t]
      BY <1>3, <2>1, <3>1, <3>4 DEF TypeOK
    <3> QED BY <1>1, <3>5 DEF AloneIsConsistent
  <2> QED BY <2>2, <2>3 DEF Start, StartLoad, StartCreate, StartSave, documents
<1> QED BY <1>11, <1>12

-----------------------------------------------------------------------------
(* The theorems.                                                           *)

\* The state the customer's session is in before the first request.
LEMMA CheckoutInit == Init => CheckoutAgrees
<1>1. SUFFICES ASSUME Init PROVE CheckoutAgrees
  OBVIOUS
<1>2. stored \in SessionData /\ stored.transactionUuid = None
  <2>1. PICK c \in Carts, m \in Merchants, b \in BOOLEAN :
          stored = [EmptySession EXCEPT !.authenticated = b, !.merchantId = IF b THEN m ELSE None,
                                        !.cart = c, !.shippingCart = c, !.selectShippingCart = c]
    BY <1>1 DEF Init
  <2> DEFINE k == IF b THEN m ELSE None
  <2>2. k \in Merchants \cup {None} /\ c \in Carts \cup {None}
    OBVIOUS
  <2>3. stored = [EmptySession EXCEPT !.authenticated = b, !.merchantId = k,
                                        !.cart = c, !.shippingCart = c, !.selectShippingCart = c]
    BY <2>1
  <2> HIDE DEF k
  <2> QED BY <2>2, <2>3, EmptyType DEF SessionData
<1>3. /\ request = [t \in TxIds |-> None] /\ tx = [t \in TxIds |-> None]
      /\ validated = [t \in TxIds |-> None]
      /\ pc = [h \in Requests |-> "idle"] /\ loc = [h \in Requests |-> NoLocals]
      /\ startPc = [h \in Requests |-> "none"] /\ startLoc = [h \in Requests |-> EmptySession]
      /\ issued = {} /\ expired = {} /\ overlap = FALSE
  BY <1>1 DEF Init
<1>4. TypeOK
  BY <1>2, <1>3, EmptyType DEF TypeOK
<1>5. \A h \in Requests : HandlerInv(h) /\ LateInv(h)
  BY <1>3, EmptyType DEF HandlerInv, LateInv, Submitting, BeforeDelete, AfterDelete
<1>6. SessionsInv
  BY <1>2, <1>3, EmptyType DEF SessionsInv, Known
<1>7. AloneInv
  BY <1>3 DEF AloneInv, Busy, Running, StartRunning, Final
<1>8. RequestsInv /\ RequestSurvives /\ CreatedWasSubmitted /\ AloneIsConsistent
  BY <1>3 DEF RequestsInv, RequestSurvives, CreatedWasSubmitted, AloneIsConsistent
<1>9. LateSubmitIsRefused
  BY <1>3, EmptyType DEF LateSubmitIsRefused
<1> QED BY <1>4, <1>5, <1>6, <1>7, <1>8, <1>9 DEF CheckoutAgrees

\* What each step establishes, from which the rest follows.
LEMMA CheckoutParts ==
  ASSUME Base', SessionsInv', AloneInv', RequestSurvives', CreatedWasSubmitted', AloneIsConsistent'
  PROVE  CheckoutAgrees'
<1>1. LateSubmitIsRefused'
  BY DEF LateSubmitIsRefused, Base, LateInv
<1> QED BY <1>1 DEF CheckoutAgrees, Base

\* Every step of every request keeps sessions, requests and transactions in agreement.
LEMMA CheckoutStep == CheckoutAgrees /\ [Next]_vars => CheckoutAgrees'
<1>1. SUFFICES ASSUME CheckoutAgrees, [Next]_vars PROVE CheckoutAgrees'
  OBVIOUS
<1>2. Base /\ SessionsInv /\ AloneInv /\ RequestSurvives /\ CreatedWasSubmitted /\ AloneIsConsistent
  BY <1>1 DEF CheckoutAgrees, Base
<1>3. CASE UNCHANGED vars
  <2>1. /\ UNCHANGED <<request, tx, stored, pc, loc, startPc, startLoc, issued, expired, validated, overlap>>
    BY <1>3 DEF vars, documents, starts, history
  <2> QED BY <1>2, <2>1, CheckoutParts
          DEF Base, TypeOK, RequestsInv, HandlerInv, LateInv, SessionsInv, Known, AloneInv, Busy, Running,
              StartRunning, Faithful, RequestSurvives, CreatedWasSubmitted, AloneIsConsistent
<1>4. ASSUME NEW t \in TxIds, Expire(t) \/ \E m \in Merchants : InitTransaction(t, m)
      PROVE  CheckoutAgrees'
  <2>1. Base' /\ RequestSurvives'
    BY <1>2, <1>4, RequestKeepsBase, OthersKeepRequest
  <2>2. UNCHANGED <<tx, stored, pc, loc, startPc, startLoc, validated, overlap>>
    BY <1>4 DEF Expire, InitTransaction, starts
  <2>3. SessionsInv' /\ CreatedWasSubmitted' /\ AloneIsConsistent'
    BY <1>2, <2>2 DEF SessionsInv, Known, CreatedWasSubmitted, AloneIsConsistent
  <2>4. AloneInv'
    BY <1>2, <2>2 DEF AloneInv, Busy, Running, StartRunning, Faithful
  <2> QED BY <2>1, <2>3, <2>4, CheckoutParts
<1>5. ASSUME NEW h \in Requests, Start(h) PROVE CheckoutAgrees'
  BY <1>2, <1>5, StartKeepsBase, StartKeepsSessions, StartKeepsAlone, OthersKeepRequest, CheckoutParts
<1>6. ASSUME NEW h \in Requests, Submit(h) \/ Other(h) PROVE CheckoutAgrees'
  <2>1. \/ Quiet(h) \/ Arrives(h) \/ Stores(h) \/ Passes(h)
        \/ DeleteRequest(h) \/ SaveRequest(h) \/ SaveSession(h)
    BY <1>2, <1>6, SubmitCases, OtherCases
  <2> QED BY <1>2, <2>1, MoveKeepsBase, MoveKeepsSessions, MoveKeepsRequest, MoveKeepsAlone, CheckoutParts
<1> QED BY <1>1, <1>3, <1>4, <1>5, <1>6 DEF Next

\* However the session's requests interleave, fail and overwrite each other's copies, every
\* session names a validated transaction and documents and handlers agree.
THEOREM CheckoutAlwaysAgrees == Spec => []CheckoutAgrees
  BY CheckoutInit, CheckoutStep, PTL DEF Spec

\* A submit that arrives when its transaction exists never gets past validate.
THEOREM LateSubmitNeverPasses == Spec => []LateSubmitIsRefused
<1>1. CheckoutAgrees => LateSubmitIsRefused
  BY DEF CheckoutAgrees
<1> QED BY <1>1, CheckoutAlwaysAgrees, PTL

\* A transaction request goes only by its time to live or by a submit that passed or failed
\* after the delete.
THEOREM TransactionRequestSurvives == Spec => []RequestSurvives
<1>1. CheckoutAgrees => RequestSurvives
  BY DEF CheckoutAgrees
<1> QED BY <1>1, CheckoutAlwaysAgrees, PTL

\* payline/start creates no transaction that no submit validated.
THEOREM CreatedTransactionWasSubmitted == Spec => []CreatedWasSubmitted
<1>1. CheckoutAgrees => CreatedWasSubmitted
  BY DEF CheckoutAgrees
<1> QED BY <1>1, CheckoutAlwaysAgrees, PTL

\* Without overlap the transaction is for the vendor and the cart that were validated.
THEOREM AloneCustomerIsConsistent == Spec => []AloneIsConsistent
<1>1. CheckoutAgrees => AloneIsConsistent
  BY DEF CheckoutAgrees
<1> QED BY <1>1, CheckoutAlwaysAgrees, PTL
=============================================================================
