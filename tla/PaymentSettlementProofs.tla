---------------------- MODULE PaymentSettlementProofs ----------------------
(***************************************************************************)
(* Proof that Payment implements CartSettlement, step by step: a write of  *)
(* the transaction concludes, an authorisation reserves, a capture or a    *)
(* refund moves money, a verify's answer tells, and every other step       *)
(* leaves what CartSettlement speaks of alone.  That the whole cart is     *)
(* reserved comes from HandlersAgree, that the shop is the cart's, and the *)
(* operator's or ordered by a merchant that was told, from MoneyAgrees.    *)
(***************************************************************************)
EXTENDS PaymentSettlement, PaymentMoneyProofs

\* What CartSettlement speaks of.
settled == <<session, tx, authorized, captured, refunded, confirmations>>

\* The whole cart is reserved exactly when every shop was authorised.
LEMMA WholeCartIsAuthorized == AllAuthorized <=> Settlement!WholeCart
  BY DEF AllAuthorized, Settlement!WholeCart, SettlementReserved

\* The next outcome is one of three, and a success exactly for a status of success.
LEMMA OutcomeType ==
  /\ SettlementOutcome' \in {"open", "success", "failure"}
  /\ SettlementOutcome' = "success" <=> tx'.status \in Success
  BY DEF SettlementOutcome, Success

\* The parts of the abstract state depend on their own variables only.
LEMMA SamePart ==
  /\ session' = session => CartShops' = CartShops
  /\ session' = session /\ authorized' = authorized => SettlementReserved' = SettlementReserved
  /\ captured' = captured /\ refunded' = refunded => SettlementMoved' = SettlementMoved
  /\ tx' = tx => SettlementOutcome' = SettlementOutcome
  BY DEF CartShops, SettlementReserved, SettlementMoved, SettlementOutcome

\* A step that leaves settled alone is a step CartSettlement does not see.
LEMMA UnseenStep ==
  ASSUME UNCHANGED settled
  PROVE  UNCHANGED Settlement!vars
  BY SamePart DEF settled, Settlement!vars

\* A write of the transaction is a conclusion.
LEMMA ConcludeStep ==
  ASSUME DocumentsInv', UNCHANGED <<session, authorized, captured, refunded, confirmations>>
  PROVE  Settlement!Next
<1>1. AllAuthorized' = AllAuthorized
  BY DEF AllAuthorized, CartShops
<1>2. SettlementOutcome' = "success" => Settlement!WholeCart
  BY <1>1, OutcomeType, WholeCartIsAuthorized DEF DocumentsInv
<1>3. Settlement!Conclude(SettlementOutcome')
  BY <1>2, SamePart DEF Settlement!Conclude
<1>4. SettlementOutcome' \in {"open", "success", "failure"}
  BY OutcomeType
<1> QED BY <1>3, <1>4 DEF Settlement!Next

\* A reservation of one of the cart's shops.
LEMMA ReserveStep ==
  ASSUME NEW id \in ShopTxIds, id[2] \in CartShops, authorized' = authorized \cup {id},
         UNCHANGED <<session, tx, captured, refunded, confirmations>>
  PROVE  Settlement!Next
<1>1. PICK r \in StartReqs, s \in Shops : id = <<r, s>>
  BY DEF ShopTxIds
<1>2. SettlementReserved' = SettlementReserved \cup {s}
  BY <1>1 DEF SettlementReserved, CartShops
<1>3. Settlement!Reserve(s) /\ s \in CartShops
  BY <1>1, <1>2, SamePart DEF Settlement!Reserve
<1> QED BY <1>3 DEF Settlement!Next

\* A capture or a refund of one of the cart's shops, by finishPayment or on order.
LEMMA MoveStep ==
  ASSUME TypeOK, AllAuthorized, NEW id \in ShopTxIds, id[2] \in CartShops,
         id[2] = SHOP_MOGOBIZ \/ confirmations > 0,
         \/ captured' = [captured EXCEPT ![id] = @ + 1] /\ refunded' = refunded
         \/ refunded' = [refunded EXCEPT ![id] = @ + 1] /\ captured' = captured,
         UNCHANGED <<session, tx, authorized, confirmations>>
  PROVE  Settlement!Next
<1>1. PICK r \in StartReqs, s \in Shops : id = <<r, s>>
  BY DEF ShopTxIds
<1>2. captured \in [ShopTxIds -> Nat] /\ refunded \in [ShopTxIds -> Nat]
  BY DEF TypeOK
<1>3. /\ captured'[id] + refunded'[id] > 0
      /\ \A i \in ShopTxIds \ {id} : captured'[i] = captured[i] /\ refunded'[i] = refunded[i]
  BY <1>2
<1>4. SettlementMoved' = SettlementMoved \cup {s}
  <2>1. \A q \in StartReqs, t \in Shops : <<q, t>> \in ShopTxIds /\ (<<q, t>> = id <=> q = r /\ t = s)
    BY <1>1 DEF ShopTxIds
  <2>2. \A i \in ShopTxIds \ {id} : captured'[i] + refunded'[i] = captured[i] + refunded[i]
    BY <1>3
  <2> QED BY <1>1, <1>3, <2>1, <2>2 DEF SettlementMoved
<1>5. Settlement!Move(s) /\ s \in CartShops
  BY <1>1, <1>4, SamePart, WholeCartIsAuthorized DEF Settlement!Move
<1> QED BY <1>5 DEF Settlement!Next

\* verify's write concludes again what its copy says, or tells the merchant of it.
LEMMA TellStep ==
  ASSUME HandlersAgree, DocumentsInv', NEW h \in Requests, VerifyWrite(h)
  PROVE  Settlement!Next
<1>1. UNCHANGED <<session, authorized, captured, refunded>>
  BY DEF VerifyWrite, bank
<1>2. CASE confirmations' = confirmations
  BY <1>1, <1>2, ConcludeStep
<1>3. CASE loc[h].tx.status = loc[h].status /\ confirmations' = confirmations + 1
  <2>1. loc[h].status \in Success
    BY InHand DEF VerifyWrite, HandlerInv, CopyInv, Success
  <2>2. tx'.status = loc[h].tx.status
    <3>1. loc[h].tx \in BOTransaction
      BY InHand, LocalsType
    <3> QED BY <3>1 DEF VerifyWrite, BOTransaction
  <2>3. SettlementOutcome' = "success"
    BY <1>3, <2>1, <2>2, OutcomeType
  <2>4. Settlement!WholeCart
    BY <1>3, <2>1, InHand, WholeCartIsAuthorized DEF HandlerInv, CopyInv
  <2>5. (confirmations' > 0) = TRUE
    BY <1>3, InHand DEF TypeOK
  <2>6. Settlement!Tell
    BY <1>1, <2>3, <2>4, <2>5, SamePart DEF Settlement!Tell
  <2> QED BY <2>6 DEF Settlement!Next
<1> QED BY <1>2, <1>3 DEF VerifyWrite

\* doAuthorization's call reserves the amount of a shop of the cart, or nothing.
LEMMA AuthCallSettles ==
  ASSUME HandlersAgree, MoneyAgrees, NEW h \in Requests, AuthCall(h)
  PROVE  [Settlement!Next]_(Settlement!vars)
<1>1. /\ pc[h] = "authCall"
      /\ authorized' = authorized \/ authorized' = authorized \cup {Current(h).id}
      /\ UNCHANGED <<session, documents, captured, refunded, page, history>>
  BY DEF AuthCall
<1>2. UNCHANGED <<session, tx, captured, refunded, confirmations>>
  BY <1>1 DEF documents, history
<1>3. Current(h).id \in ShopTxIds /\ Current(h).id[2] \in CartShops
  BY <1>1, AuthFacts, CurrentOfCart
<1>4. CASE authorized' = authorized
  BY <1>2, <1>4, UnseenStep DEF settled
<1>5. CASE authorized' = authorized \cup {Current(h).id}
  BY <1>2, <1>3, <1>5, ReserveStep
<1> QED BY <1>1, <1>4, <1>5

\* So does the payer on Payline's page.
LEMMA PayerSettles ==
  ASSUME HandlersAgree, MoneyAgrees, NEW id \in ShopTxIds, PayerDecides(id)
  PROVE  [Settlement!Next]_(Settlement!vars)
<1>1. /\ page[id] # "none"
      /\ authorized' = authorized \/ authorized' = authorized \cup {id}
      /\ UNCHANGED <<session, documents, captured, refunded, history>>
  BY DEF PayerDecides
<1>2. UNCHANGED <<session, tx, captured, refunded, confirmations>>
  BY <1>1 DEF documents, history
<1>3. id[2] \in CartShops
  <2>1. Len(session.cart) = 1 /\ id[2] = session.cart[1]
    BY <1>1 DEF HandlersAgree, WorldInv
  <2> QED BY <2>1 DEF CartShops
<1>4. CASE authorized' = authorized
  BY <1>2, <1>4, UnseenStep DEF settled
<1>5. CASE authorized' = authorized \cup {id}
  BY <1>2, <1>3, <1>5, ReserveStep
<1> QED BY <1>1, <1>4, <1>5

\* validatePayment's and refundPayment's calls move money that may move, or none.
LEMMA OrderCallSettles ==
  ASSUME HandlersAgree, MoneyAgrees, NEW h \in Requests, CaptureCall(h) \/ RefundCall(h)
  PROVE  [Settlement!Next]_(Settlement!vars)
<1>1. pc[h] \in Committed /\ pc[h] \in Ordered
  BY DEF CaptureCall, RefundCall, Committed, Ordered
<1>2. AllAuthorized /\ Current(h).id \in ShopTxIds /\ Current(h).id[2] \in CartShops
  BY <1>1, CommittedFacts, CurrentOfCart
<1>3. Current(h).id[2] = SHOP_MOGOBIZ \/ confirmations > 0
  <2>1. Len(loc[h].shops) = 1 /\ Current(h) = loc[h].shops[1]
    BY <1>1, CommittedFacts, OneShop
  <2> QED BY <1>1, <2>1, Known DEF HolderInv, ForOperatorInv, ByOrder
<1>4. UNCHANGED <<session, tx, authorized, confirmations>>
  BY DEF CaptureCall, RefundCall, documents, history
<1>5. captured \in [ShopTxIds -> Nat] /\ refunded \in [ShopTxIds -> Nat]
  BY Known DEF TypeOK
<1>6. \/ captured' = captured /\ refunded' = refunded
      \/ captured' = [captured EXCEPT ![Current(h).id] = @ + 1] /\ refunded' = refunded
      \/ refunded' = [refunded EXCEPT ![Current(h).id] = @ + 1] /\ captured' = captured
  BY <1>5 DEF CaptureCall, RefundCall
<1>7. CASE captured' = captured /\ refunded' = refunded
  BY <1>4, <1>7, UnseenStep DEF settled
<1>8. CASE ~(captured' = captured /\ refunded' = refunded)
  BY <1>2, <1>3, <1>4, <1>6, <1>8, Known, MoveStep
<1> QED BY <1>7, <1>8

-----------------------------------------------------------------------------
(* Every step.                                                             *)

\* A request that arrives starts the transaction again, or is not seen.
LEMMA ArriveSettles ==
  ASSUME DocumentsInv', Arrive
  PROVE  [Settlement!Next]_(Settlement!vars)
<1>1. UNCHANGED <<session, authorized, captured, refunded, confirmations>>
  BY DEF Arrive, StartPayment, ReturnShop, ThreeDSRead, VerifyRead, DebitCustomer, RefundCustomer,
         MiraklRead, bank, history
<1> QED BY <1>1, ConcludeStep

\* Writes of shop transactions, reads and mails are not seen.
LEMMA UnseenSteps ==
  ASSUME NEW h \in Requests,
         \/ CreateShopTransaction(h) \/ WebRequest(h) \/ WebAnswer(h) \/ ReturnRead(h)
         \/ DetailsRequest(h) \/ DetailsCall(h) \/ DetailsSave(h) \/ EnrollRequest(h) \/ EnrollCall(h) \/ EnrollSave(h)
         \/ Enrolled(h) \/ ThreeDSShops(h) \/ AuthRequest(h) \/ AuthSave(h)
         \/ FinishPayment(h) \/ ConfirmShippingPrice(h) \/ CaptureRequest(h)
         \/ CaptureSave(h) \/ RefundRequest(h) \/ RefundSave(h)
         \/ MailOrder(h) \/ MailBill(h) \/ VerifyShop(h) \/ Abort(h)
  PROVE  UNCHANGED settled
<1>1. CASE \/ CreateShopTransaction(h) \/ WebRequest(h) \/ WebAnswer(h) \/ ReturnRead(h)
           \/ DetailsRequest(h) \/ DetailsCall(h) \/ DetailsSave(h) \/ EnrollRequest(h) \/ EnrollCall(h) \/ EnrollSave(h)
  BY <1>1 DEF CreateShopTransaction, WebRequest, WebAnswer, ReturnRead, DetailsRequest, DetailsCall,
     DetailsSave, EnrollRequest, EnrollCall, EnrollSave, documents, bank, history, settled
<1>2. CASE \/ Enrolled(h) \/ ThreeDSShops(h) \/ AuthRequest(h) \/ AuthSave(h)
           \/ FinishPayment(h) \/ ConfirmShippingPrice(h)
  BY <1>2 DEF Enrolled, ThreeDSShops, AuthRequest, AuthSave, FinishPayment, ConfirmShippingPrice,
     documents, bank, history, settled
<1>3. CASE \/ CaptureRequest(h) \/ CaptureSave(h) \/ RefundRequest(h) \/ RefundSave(h)
           \/ MailOrder(h) \/ MailBill(h) \/ VerifyShop(h) \/ Abort(h)
  BY <1>3 DEF CaptureRequest, CaptureSave, RefundRequest, RefundSave, MailOrder, MailBill, VerifyShop,
     Abort, documents, bank, history, settled
<1> QED BY <1>1, <1>2, <1>3

\* The writes of the transaction leave the bank and the answers alone.
LEMMA WritersConclude ==
  ASSUME DocumentsInv', NEW h \in Requests,
         \/ FinishTransaction(h) \/ SaveShipping(h) \/ ShippingFailed(h) \/ Complete(h) \/ RefundEnd(h)
  PROVE  Settlement!Next
<1>1. UNCHANGED <<session, authorized, captured, refunded, confirmations>>
  BY DEF FinishTransaction, SaveShipping, ShippingFailed, Complete, RefundEnd, bank, history
<1> QED BY <1>1, ConcludeStep

\* Each step of Payment is a step of CartSettlement, or one it does not see.
LEMMA StepSettles ==
  ASSUME HandlersAgree, MoneyAgrees, HandlersAgree', [Next]_vars
  PROVE  [Settlement!Next]_(Settlement!vars)
<1>1. DocumentsInv'
  BY DEF HandlersAgree
<1>2. CASE Arrive
  BY <1>1, <1>2, ArriveSettles
<1>3. ASSUME NEW h \in Requests, Step(h) \/ Abort(h)
      PROVE  [Settlement!Next]_(Settlement!vars)
  BY <1>1, <1>3, UnseenSteps, UnseenStep, WritersConclude, TellStep, AuthCallSettles, OrderCallSettles
     DEF Step
<1>4. ASSUME NEW id \in ShopTxIds, PayerDecides(id)
      PROVE  [Settlement!Next]_(Settlement!vars)
  BY <1>4, PayerSettles
<1>5. CASE UNCHANGED vars
  <2>1. UNCHANGED settled
    BY <1>5 DEF vars, documents, bank, history, settled
  <2> QED BY <2>1, UnseenStep
<1> QED BY <1>2, <1>3, <1>4, <1>5 DEF Next

\* Before the first request nothing is reserved, moved, concluded or told.
LEMMA InitSettles == Init => Settlement!Init
<1> SUFFICES ASSUME Init PROVE Settlement!Init
  OBVIOUS
<1>1. CartShops \subseteq Shops
  <2>1. session.cart \in Seq(Shops)
    BY CartsAssumption DEF Init, Sessions
  <2> QED BY <2>1 DEF CartShops
<1>2. SettlementReserved = {}
  BY DEF Init, SettlementReserved
<1>3. SettlementMoved = {}
  <2>1. \A r \in StartReqs, s \in Shops : captured[<<r, s>>] = 0 /\ refunded[<<r, s>>] = 0
    BY DEF Init, ShopTxIds
  <2>2. \A r \in StartReqs, s \in Shops : ~(captured[<<r, s>>] + refunded[<<r, s>>] > 0)
    <3>1. \A a, b : a = 0 /\ b = 0 => ~(a + b > 0)
      OBVIOUS
    <3> QED BY <2>1, <3>1, Zenon
  <2> QED BY <2>2 DEF SettlementMoved
<1>4. SettlementOutcome = "open"
  <2>1. tx.status = "NONE"
    BY DEF Init, NoTx
  <2> QED BY <2>1 DEF SettlementOutcome, Success
<1>5. (confirmations > 0) = FALSE
  BY DEF Init
<1> QED BY <1>1, <1>2, <1>3, <1>4, <1>5 DEF Settlement!Init

\* startPayment to debitCustomer: for any cart and any number of overlapping, repeated and
\* lost requests, the payment handlers implement CartSettlement.
THEOREM PaymentImplementsSettlement == Spec => PaymentSettles
<1>1. HandlersAgree /\ MoneyAgrees /\ HandlersAgree' /\ [Next]_vars
        => [Settlement!Next]_(Settlement!vars)
  BY StepSettles
<1> QED BY <1>1, InitSettles, HandlersAlwaysAgree, MoneyAlwaysAgrees, PTL
        DEF Spec, PaymentSettles, Settlement!Spec
=============================================================================
