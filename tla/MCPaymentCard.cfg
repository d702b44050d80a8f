SPECIFICATION FairSpec
CONSTANTS
  m = m
  a = a
  Shops <- MCShops
  SHOP_MOGOBIZ = m
  Carts <- AllCarts
  Methods = {"THREEDS_NO", "THREEDS_IF_AVAILABLE", "THREEDS_REQUIRED"}
  Anonymous = FALSE
  StartReqs = {s1}
  ReturnReqs = {}
  ThreeDSReqs = {t1}
  VerifyReqs = {v1}
  DebitReqs = {d1}
  RefundReqs = {f1}
INVARIANTS
  TypeOK
  HandlersAgree
  NothingBeforeAuthorization
  CompletedIsPaid
  RequiredThreeDS
  BillIsPaid
PROPERTIES
  EndedStaysEnded
  AuthorizedIsSettled
  PaymentSettles
CHECK_DEADLOCK FALSE
