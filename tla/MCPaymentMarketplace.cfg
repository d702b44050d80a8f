SPECIFICATION Spec
CONSTANTS
  m = m
  a = a
  Shops <- MCShops
  SHOP_MOGOBIZ = m
  Carts <- SingleCarts
  Methods = {"EXTERNAL"}
  Anonymous = FALSE
  StartReqs = {s1}
  ReturnReqs = {r1}
  ThreeDSReqs = {}
  VerifyReqs = {}
  DebitReqs = {}
  RefundReqs = {}
INVARIANTS
  OnlyAuthorizedWithoutMogobiz
CHECK_DEADLOCK FALSE
