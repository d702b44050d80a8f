------------------------- MODULE PaymentSettlement -------------------------
(* Payment implements CartSettlement. *)
EXTENDS PaymentInvariants

SettlementReserved == {s \in CartShops : \E r \in StartReqs : <<r, s>> \in authorized}

SettlementMoved ==
  {s \in Shops : \E r \in StartReqs : captured[<<r, s>>] + refunded[<<r, s>>] > 0}

SettlementOutcome ==
  CASE tx.status \in {"NONE", "INITIATED"} -> "open"
    [] tx.status \in Success               -> "success"
    [] OTHER                               -> "failure"

Settlement == INSTANCE CartSettlement WITH
  OperatorShop <- SHOP_MOGOBIZ,
  cart         <- CartShops,
  reserved     <- SettlementReserved,
  moved        <- SettlementMoved,
  outcome      <- SettlementOutcome,
  told         <- confirmations > 0

\* startPayment to debitCustomer, with every overlap, retry and lost handler: the stored
\* transaction, the bank and the merchant's answer move as CartSettlement allows.
PaymentSettles == Settlement!Spec
=============================================================================
