SPECIFICATION FairSpec
CONSTANTS
  Known = {k1}
  SignupReqs = {s1, s2}
  LoginReqs = {l1}
  ConfirmReqs = {f1}
  SessionReqs = {}
  Emails = {e1}
  Passwords = {p1}
  Phones = {n1}
  Pins = {c1}
  MaxAttempts = 0
  SharedCustomers = TRUE
  ValidateEmail = {"none", "vendor"}
  ValidatePhone = {"none"}
INVARIANTS
  AccountsAgree
  DeletedStaysDeleted
  SignupRefusesKnown
PROPERTIES
  ConfirmedStaysConfirmed
  AbandonedIsRecycled
CHECK_DEADLOCK FALSE
