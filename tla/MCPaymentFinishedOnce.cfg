SPECIFICATION Spec
CONSTANTS
  m = m
  a = a
  Shops <- MCShops
  SHOP_MOGOBIZ = m
  Carts <- SingleCarts
  Methods = {"EXTERNAL"}
  Anonymous = FALSE
  StartReqs = {s1}
  ReturnReqs = {r1, r2}
  ThreeDSReqs = {}
  VerifyReqs = {}
  DebitReqs = {}
  RefundReqs = {}
INVARIANTS
  FinishedOnce
CHECK_DEADLOCK FALSE
