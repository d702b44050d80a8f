SPECIFICATION Spec
CONSTANTS
  m = m
  a = a
  Shops <- MCShops
  SHOP_MOGOBIZ = m
  Carts <- AllCarts
  Methods = {"EXTERNAL", "THREEDS_REQUIRED"}
  Anonymous = TRUE
  StartReqs = {s1}
  ReturnReqs = {r1, r2}
  ThreeDSReqs = {t1, t2}
  VerifyReqs = {v1}
  DebitReqs = {d1}
  RefundReqs = {}
INVARIANTS
  HandlersAgree
  MoneyAgrees
  NothingBeforeAuthorization
  CompletedIsPaid
  RequiredThreeDS
  BillIsPaid
PROPERTIES
  EndedStaysEnded
SYMMETRY Symmetric
CHECK_DEADLOCK FALSE
