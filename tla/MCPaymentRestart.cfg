SPECIFICATION Spec
CONSTANTS
  m = m
  a = a
  Shops <- MCShops
  SHOP_MOGOBIZ = m
  Carts <- TwoShopCarts
  Methods = {"THREEDS_NO"}
  Anonymous = FALSE
  StartReqs = {s1, s2}
  ReturnReqs = {}
  ThreeDSReqs = {}
  VerifyReqs = {}
  DebitReqs = {}
  RefundReqs = {}
INVARIANTS
  SuccessIsAuthorized
  NothingBeforeAuthorization
  CompletedIsPaid
SYMMETRY Symmetric
CHECK_DEADLOCK FALSE
