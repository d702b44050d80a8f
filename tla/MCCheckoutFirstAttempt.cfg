SPECIFICATION Spec
CONSTANTS
  None = None
  TxIds = {t1, t2}
  Merchants = {m1}
  Carts = {c1}
  Anonymous = TRUE
  Requests = {h1, h2}
INVARIANTS
  CartIsKept
SYMMETRY Symmetric
CHECK_DEADLOCK FALSE
