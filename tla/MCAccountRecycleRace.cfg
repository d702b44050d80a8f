SPECIFICATION Spec
CONSTANTS
  Known = {}
  SignupReqs = {s1}
  LoginReqs = {l1}
  ConfirmReqs = {}
  SessionReqs = {}
  Emails = {e1}
  Passwords = {p1}
  Phones = {n1}
  Pins = {c1}
  MaxAttempts = 0
  SharedCustomers = FALSE
  ValidateEmail = {"vendor"}
  ValidatePhone = {"none"}
INVARIANTS
  RecycledWasWaiting
CHECK_DEADLOCK FALSE
