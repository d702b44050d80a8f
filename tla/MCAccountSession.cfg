SPECIFICATION Spec
CONSTANTS
  Known = {k1}
  SignupReqs = {}
  LoginReqs = {l1, l2}
  ConfirmReqs = {}
  SessionReqs = {q1, q2}
  Emails = {e1}
  Passwords = {p1, p2}
  Phones = {n1, n2}
  Pins = {c1}
  MaxAttempts = 0
  SharedCustomers = FALSE
  ValidateEmail = {"vendor"}
  ValidatePhone = {"none"}
INVARIANTS
  AccountsAgree
  ListsAreSound
  FailuresAreBounded
SYMMETRY Symmetric
CHECK_DEADLOCK FALSE
