SPECIFICATION Spec
CONSTANTS
  None = None
  TxIds = {t1, t2}
  Merchants = {m1}
  Carts = {c1, c2}
  Anonymous = TRUE
  Requests = {h1, h2, h3}
INVARIANTS
  CheckoutAgrees
  LateSubmitIsRefused
  RequestSurvives
  CreatedWasSubmitted
  AloneIsConsistent
SYMMETRY Symmetric
CHECK_DEADLOCK FALSE
