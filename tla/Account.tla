------------------------------ MODULE Account ------------------------------
(***************************************************************************)
(* The accounts of AccountHandler: signup and its confirmation, login and  *)
(* its lockout, new passwords, what a logged-in user changes, and the job  *)
(* that deletes accounts nobody confirmed.  Every handler reads an account *)
(* document, from the store or from the search index, and later writes the *)
(* whole of it back.  A write without refresh reaches the index later.     *)
(* One step is one read or one write.                                      *)
(***************************************************************************)
EXTENDS Naturals, FiniteSets

CONSTANTS
  Known,            \* confirmed customers of the vendor when the system is first looked at
  SignupReqs,       \* signup and register requests; each draws a uuid of its own
  LoginReqs,        \* login, login-with-secret and send-new-password
  ConfirmReqs,      \* confirm-signup
  SessionReqs,      \* requests of a logged-in user
  Emails, Passwords, Phones, Pins,
  MaxAttempts,      \* account.validate.password.maxattempts
  SharedCustomers,  \* account.validate.customershared
  ValidateEmail,    \* the owners whose accounts confirm their e-mail: account.validate.
  ValidatePhone     \* customeremail and .merchantemail; the same of telephones

ASSUME RequestAssumption ==
  /\ Known \cap (SignupReqs \cup SessionReqs) = {}
  /\ SignupReqs \cap (LoginReqs \cup ConfirmReqs \cup SessionReqs) = {}
  /\ LoginReqs \cap (ConfirmReqs \cup SessionReqs) = {}
  /\ ConfirmReqs \cap SessionReqs = {}

\* An owner is the vendor of a customer; merchants have none.
Owners == {"none", "vendor"}

ASSUME ConfigAssumption ==
  /\ MaxAttempts \in Nat /\ SharedCustomers \in BOOLEAN
  /\ ValidateEmail \subseteq Owners /\ ValidatePhone \subseteq Owners

\* A request that creates something draws a fresh uuid, which the request itself stands for.
Uuids    == Known \cup SignupReqs
Requests == SignupReqs \cup LoginReqs \cup ConfirmReqs \cup SessionReqs
ListUuids == Uuids \cup SessionReqs

-----------------------------------------------------------------------------
(* Documents.  An Option is a set of at most one element.                  *)

AccountStatus   == {"ACTIVE", "INACTIVE", "WAITING_ENROLLMENT"}
TelephoneStatus == {"ACTIVE", "DELETED", "WAITING_ENROLLMENT"}

\* What is stored of a pin code: the digest's bytes read as UTF-8, its hex form, or plain text.
Digests == [form : {"utf8", "hex", "plain"}, of : Pins \cup {"000"}]

Telephone       == [lphone : Phones, pinCode3 : SUBSET Digests, status : TelephoneStatus]
ShippingAddress == [uuid : ListUuids, active : BOOLEAN, road : {"given", "changed"}]
CreditCard      == [uuid : ListUuids, holder : {"given", "changed"}]

AccountDoc ==
  [email : Emails, owner : Owners, status : AccountStatus, password : Passwords,
   loginFailedCount : Nat, address : BOOLEAN, telephone : SUBSET Telephone,
   shippingAddresses : SUBSET ShippingAddress, creditCards : SUBSET CreditCard]

NoAccount == [status |-> "NONE"]
Exists(doc) == doc # NoAccount

\* telephoneHandler.buildTelephone.
BuildTelephone(n, status) ==
  [lphone |-> n, pinCode3 |-> {[form |-> "plain", of |-> "000"]}, status |-> status]

\* The account signup builds; it is registered (register) without an address.
NewAccount(u, email, owner, status, p, telephone, withShippingAddress) ==
  [email |-> email, owner |-> owner, status |-> status, password |-> p, loginFailedCount |-> 0,
   address |-> telephone # {}, telephone |-> telephone,
   shippingAddresses |-> IF withShippingAddress THEN {[uuid |-> u, active |-> TRUE, road |-> "given"]}
                                                ELSE {},
   creditCards |-> {}]

-----------------------------------------------------------------------------
VARIABLES
  accounts,    \* the documents, as load finds them
  index,       \* the documents as searches find them
  tokens,      \* accounts whose confirmation token was handed out
  aged,        \* accounts older than mail.confirmation.maxage and account.recycle.duration
  sessions,    \* accounts some browser is logged in to
  recycling,   \* the accounts recycle still has to delete
  pc, loc,     \* each request's position; its account's uuid and its copy of the document
  rivals,      \* history: accounts of the same e-mail when a signup arrived
  deleted      \* history: deleted accounts, each with its status at that moment

documents == <<accounts, index>>
world     == <<tokens, aged, sessions, recycling>>
history   == <<rivals, deleted>>
vars      == <<accounts, index, tokens, aged, sessions, recycling, pc, loc, rivals, deleted>>

Places == {"idle", "save", "index", "login", "newPassword", "confirm", "loaded", "enroll", "replied"}

NoLocals == [id |-> "none", copy |-> NoAccount]
Locals   == [id : Uuids, copy : AccountDoc] \cup {NoLocals}

TypeOK ==
  /\ accounts \in [Uuids -> AccountDoc \cup {NoAccount}]
  /\ index \in [Uuids -> AccountDoc \cup {NoAccount}]
  /\ tokens \subseteq SignupReqs /\ aged \subseteq Uuids
  /\ sessions \subseteq Uuids /\ recycling \subseteq Uuids
  /\ pc \in [Requests -> Places]
  /\ loc \in [Requests -> Locals]
  /\ rivals \in [SignupReqs -> SUBSET Uuids]
  /\ deleted \subseteq [id : Uuids, status : AccountStatus]

\* A confirmed customer with a telephone and a shipping address, logged in.
Init ==
  /\ \E e \in Emails, p \in Passwords, n \in Phones :
       accounts = [u \in Uuids |->
         IF u \in Known
         THEN NewAccount(u, e, "vendor", "ACTIVE", p, {BuildTelephone(n, "ACTIVE")}, TRUE)
         ELSE NoAccount]
  /\ index = accounts
  /\ tokens = {} /\ aged = {} /\ recycling = {}
  /\ sessions = Known
  /\ pc = [h \in Requests |-> "idle"]
  /\ loc = [h \in Requests |-> NoLocals]
  /\ rivals = [h \in SignupReqs |-> {}]
  /\ deleted = {}

-----------------------------------------------------------------------------
(* Reading and writing.                                                    *)

Goto(h, p, l) == pc' = [pc EXCEPT ![h] = p] /\ loc' = [loc EXCEPT ![h] = l]
Reply(h)      == Goto(h, "replied", NoLocals)

Copy(h) == loc[h].copy

\* The document is still there for an update.
Stored(h) == Exists(accounts[loc[h].id])

\* Mutant: the update creates the document it does not find.
UpdateUpsert(h, account, refresh) ==
  /\ accounts' = [accounts EXCEPT ![loc[h].id] = account]
  /\ index' = IF refresh THEN [index EXCEPT ![loc[h].id] = account] ELSE index

\* EsClient.update with upsert = false: a document that is gone stays so, and update throws.
Update(h, account, refresh) ==
  IF Stored(h)
  THEN /\ accounts' = [accounts EXCEPT ![loc[h].id] = account]
       /\ index' = IF refresh THEN [index EXCEPT ![loc[h].id] = account] ELSE index
  ELSE UNCHANGED documents

\* A search by e-mail and owner, exactly.
Search(email, owner) ==
  {u \in Uuids : Exists(index[u]) /\ index[u].email = email /\ index[u].owner = owner}

\* buildFindAccountRequest: shared customers are looked for among accounts without owner.
Asked(owner) == IF SharedCustomers THEN "none" ELSE owner

FindByEmail(email, owner) == Search(email, Asked(owner))

\* The search index catches up with a document.
Refresh(u) ==
  /\ index[u] # accounts[u]
  /\ index' = [index EXCEPT ![u] = accounts[u]]
  /\ UNCHANGED <<accounts, world, pc, loc, history>>

\* A missing vendor or parameter, a refused input, an exception or a server stop.
Abort(h) ==
  /\ pc[h] \notin {"idle", "replied"}
  /\ Reply(h)
  /\ UNCHANGED <<documents, world, history>>

-----------------------------------------------------------------------------
(* Signup, register and save.                                              *)

Holders(email) == {u \in Uuids : Exists(accounts[u]) /\ accounts[u].email = email}

\* alreadyExistEmail asks for exactly one hit.
Signup(h) ==
  /\ pc[h] = "idle"
  /\ \E email \in Emails, owner \in Owners, p \in Passwords, n \in Phones, ship \in BOOLEAN :
       LET status  == IF owner \in ValidateEmail THEN "WAITING_ENROLLMENT" ELSE "ACTIVE"
           phone   == IF owner \in ValidatePhone THEN "WAITING_ENROLLMENT" ELSE "ACTIVE"
           account == NewAccount(h, email, owner, status, p, {BuildTelephone(n, phone)}, ship)
       IN  /\ IF Cardinality(FindByEmail(email, owner)) = 1
              THEN Reply(h)
              ELSE Goto(h, "save", [id |-> h, copy |-> account])
           /\ rivals' = [rivals EXCEPT ![h] = Holders(email)]
  /\ UNCHANGED <<documents, world, deleted>>

\* UserHandler.register looks for a customer and saves an account without owner.
Register(h) ==
  /\ pc[h] = "idle"
  /\ \E email \in Emails, p \in Passwords :
       /\ IF FindByEmail(email, "vendor") # {}
          THEN Reply(h)
          ELSE Goto(h, "save", [id |-> h, copy |-> NewAccount(h, email, "none", "ACTIVE", p, {}, FALSE)])
       /\ rivals' = [rivals EXCEPT ![h] = Holders(email)]
  /\ UNCHANGED <<documents, world, deleted>>

\* save asks for any hit, where alreadyExistEmail wanted exactly one.
SaveFind(h) ==
  /\ pc[h] = "save"
  /\ IF FindByEmail(Copy(h).email, Copy(h).owner) # {}
     THEN Reply(h)
     ELSE Goto(h, "index", loc[h])
  /\ UNCHANGED <<documents, world, history>>

\* Mutant: the document is stored without refresh.
SaveIndexUnrefreshed(h) ==
  /\ pc[h] = "index"
  /\ accounts' = [accounts EXCEPT ![h] = Copy(h)]
  /\ tokens' = IF Copy(h).status = "WAITING_ENROLLMENT" THEN tokens \cup {h} ELSE tokens
  /\ Reply(h)
  /\ UNCHANGED <<index, aged, sessions, recycling, history>>

\* The document is indexed, and the token mailed to an account that must be confirmed.
SaveIndex(h) ==
  /\ pc[h] = "index"
  /\ accounts' = [accounts EXCEPT ![h] = Copy(h)]
  /\ index' = [index EXCEPT ![h] = Copy(h)]
  /\ tokens' = IF Copy(h).status = "WAITING_ENROLLMENT" THEN tokens \cup {h} ELSE tokens
  /\ Reply(h)
  /\ UNCHANGED <<aged, sessions, recycling, history>>

\* confirmSignup: the token is not too old, and the account is loaded.
ConfirmLoad(h) ==
  /\ pc[h] = "idle"
  /\ \E u \in tokens \ aged :
       IF Exists(accounts[u]) THEN Goto(h, "confirm", [id |-> u, copy |-> accounts[u]])
                              ELSE Reply(h)
  /\ UNCHANGED <<documents, world, history>>

\* The confirmation mail may throw, and then nobody is logged in.
ConfirmSignup(h) ==
  /\ pc[h] = "confirm"
  /\ Update(h, [Copy(h) EXCEPT !.status = "ACTIVE"], TRUE)
  /\ \E mailed \in BOOLEAN :
       sessions' = IF Stored(h) /\ mailed THEN sessions \cup {loc[h].id} ELSE sessions
  /\ Reply(h)
  /\ UNCHANGED <<tokens, aged, recycling, history>>

-----------------------------------------------------------------------------
(* Login and new passwords, both from a search.                            *)

LoginFind(h) ==
  /\ pc[h] = "idle"
  /\ \E email \in Emails, owner \in Owners :
       \/ \E u \in Search(email, owner) : Goto(h, "login", [id |-> u, copy |-> index[u]])
       \/ Search(email, owner) = {} /\ Reply(h)
  /\ UNCHANGED <<documents, world, history>>

\* Mutant: accounts that wait for their confirmation may log in.
RefusedInactive(account) == account.loginFailedCount > MaxAttempts \/ account.status = "INACTIVE"

\* Mutant: failures are counted and never looked at.
RefusedStatus(account) == account.status \in {"WAITING_ENROLLMENT", "INACTIVE"}

Refused(account) ==
  \/ account.loginFailedCount > MaxAttempts
  \/ account.status \in {"WAITING_ENROLLMENT", "INACTIVE"}

LoginRefused(h) ==
  /\ pc[h] = "login"
  /\ Refused(Copy(h))
  /\ Reply(h)
  /\ UNCHANGED <<documents, world, history>>

\* The password is another one.
LoginFailed(h) ==
  /\ pc[h] = "login"
  /\ ~Refused(Copy(h))
  /\ Update(h, [Copy(h) EXCEPT !.loginFailedCount = @ + 1], TRUE)
  /\ Reply(h)
  /\ UNCHANGED <<world, history>>

\* The password, or the secret, is right.
LoginDone(h) ==
  /\ pc[h] = "login"
  /\ ~Refused(Copy(h))
  /\ Update(h, [Copy(h) EXCEPT !.loginFailedCount = 0], TRUE)
  /\ sessions' = IF Stored(h) THEN sessions \cup {loc[h].id} ELSE sessions
  /\ Reply(h)
  /\ UNCHANGED <<tokens, aged, recycling, history>>

NewPasswordFind(h) ==
  /\ pc[h] = "idle"
  /\ \E email \in Emails :
       \/ \E u \in FindByEmail(email, "vendor") :
            Goto(h, "newPassword", [id |-> u, copy |-> index[u]])
       \/ FindByEmail(email, "vendor") = {} /\ Reply(h)
  /\ UNCHANGED <<documents, world, history>>

SendNewPassword(h) ==
  /\ pc[h] = "newPassword"
  /\ \E p \in Passwords :
       Update(h, [Copy(h) EXCEPT !.loginFailedCount = 0, !.password = p,
                    !.status = IF @ = "WAITING_ENROLLMENT" THEN "ACTIVE" ELSE @], TRUE)
  /\ Reply(h)
  /\ UNCHANGED <<world, history>>

-----------------------------------------------------------------------------
(* Requests of a logged-in user: load the session's account, then one of   *)
(* the changes below.                                                      *)

SessionLoad(h) ==
  /\ pc[h] = "idle"
  /\ \E u \in sessions :
       IF Exists(accounts[u]) THEN Goto(h, "loaded", [id |-> u, copy |-> accounts[u]])
                              ELSE Reply(h)
  /\ UNCHANGED <<documents, world, history>>

Change(h, account, refresh) ==
  /\ pc[h] = "loaded"
  /\ Update(h, account, refresh)
  /\ Reply(h)
  /\ UNCHANGED <<world, history>>

UpdatePassword(h) ==
  \E p \in Passwords : Change(h, [Copy(h) EXCEPT !.password = p], FALSE)

\* Mutant: a missing telephone is made up.
GenerateAndSendPincode3Anyway(h) ==
  \E c \in Pins :
    Change(h, [Copy(h) EXCEPT !.telephone =
                 {[status |-> "WAITING_ENROLLMENT", pinCode3 |-> {[form |-> "utf8", of |-> c]}]}], FALSE)

\* The digest's bytes are stored as a UTF-8 string, then the code is sent.
GenerateAndSendPincode3(h) ==
  /\ Copy(h).telephone # {}
  /\ \E c \in Pins :
       Change(h, [Copy(h) EXCEPT !.telephone =
                    {[t EXCEPT !.status = "WAITING_ENROLLMENT", !.pinCode3 = {[form |-> "utf8", of |-> c]}]
                       : t \in @}], FALSE)

\* enroll with another number than the account's only stores that number.
EnrollNumber(h) ==
  \E n \in Phones :
    /\ \E t \in Copy(h).telephone : t.lphone # n
    /\ Change(h, [Copy(h) EXCEPT !.telephone = {[t EXCEPT !.lphone = n] : t \in @}], TRUE)

\* Otherwise enroll loads the account again.
EnrollLoad(h) ==
  /\ pc[h] = "loaded"
  /\ IF Stored(h) THEN Goto(h, "enroll", [loc[h] EXCEPT !.copy = accounts[loc[h].id]])
                  ELSE Reply(h)
  /\ UNCHANGED <<documents, world, history>>

\* It compares the hex form of the digest of the code it was given, a string, with the
\* Option of what is stored.
EnrollVerify(h) ==
  /\ pc[h] = "enroll"
  /\ \E n \in Phones, c \in Pins :
       LET pins  == UNION {t.pinCode3 : t \in Copy(h).telephone}
           waits == \E t \in Copy(h).telephone : t.status = "WAITING_ENROLLMENT"
       IN  IF waits /\ pins = {[form |-> "hex", of |-> c]}
           THEN Update(h, [Copy(h) EXCEPT !.telephone =
                            {[lphone |-> n, pinCode3 |-> {}, status |-> "ACTIVE"]}], TRUE)
           ELSE UNCHANGED documents
  /\ Reply(h)
  /\ UNCHANGED <<world, history>>

\* The secret is left out; the rest of the copy is written with it.
GenerateNewSecret(h) == Change(h, Copy(h), FALSE)

CreateCard(h) ==
  Change(h, [Copy(h) EXCEPT !.creditCards = @ \cup {[uuid |-> h, holder |-> "given"]}], TRUE)

UpdateCard(h) ==
  \E card \in Copy(h).creditCards :
    Change(h, [Copy(h) EXCEPT !.creditCards =
                 {c \in @ : c.uuid # card.uuid} \cup {[card EXCEPT !.holder = "changed"]}], TRUE)

DeleteCard(h) ==
  \E card \in Copy(h).creditCards :
    Change(h, [Copy(h) EXCEPT !.creditCards = @ \ {card}], FALSE)

\* A first address comes without telephone.
AssignBillingAddress(h) ==
  \E n \in Phones :
    Change(h, [Copy(h) EXCEPT !.address = TRUE,
                 !.telephone = IF Copy(h).address THEN {BuildTelephone(n, "WAITING_ENROLLMENT")} ELSE {}],
           TRUE)

\* Mutant: the addresses there are stay active.
AddShippingAddressOnly(h) ==
  Change(h, [Copy(h) EXCEPT !.shippingAddresses =
               @ \cup {[uuid |-> h, active |-> TRUE, road |-> "given"]}], TRUE)

AddShippingAddress(h) ==
  Change(h, [Copy(h) EXCEPT !.shippingAddresses =
               {[a EXCEPT !.active = FALSE] : a \in @}
                 \cup {[uuid |-> h, active |-> TRUE, road |-> "given"]}], TRUE)

UpdateShippingAddress(h) ==
  \E addr \in Copy(h).shippingAddresses :
    Change(h, [Copy(h) EXCEPT !.shippingAddresses =
                 (@ \ {addr}) \cup {[addr EXCEPT !.road = "changed"]}], TRUE)

\* Any id may be given: one the account does not have leaves no address active.
SelectShippingAddress(h) ==
  \E id \in ListUuids :
    Change(h, [Copy(h) EXCEPT !.shippingAddresses =
                 {[a EXCEPT !.active = (a.uuid = id)] : a \in @}], TRUE)

DeleteShippingAddress(h) ==
  \E addr \in Copy(h).shippingAddresses :
    Change(h, [Copy(h) EXCEPT !.shippingAddresses = @ \ {addr}], FALSE)

\* An account with an address gets a new telephone; the password may be left as it is.
UpdateProfile(h) ==
  \E n \in Phones, p \in Passwords, new \in BOOLEAN :
    LET password  == IF new THEN p ELSE Copy(h).password
        telephone == [lphone |-> n, pinCode3 |-> {}, status |-> "WAITING_ENROLLMENT"]
    IN  Change(h, [Copy(h) EXCEPT !.password = password,
                     !.telephone = IF Copy(h).address THEN {telephone} ELSE @], FALSE)

UpdateProfileLight(h) ==
  \E p \in Passwords, new \in BOOLEAN :
    Change(h, [Copy(h) EXCEPT !.password = IF new THEN p ELSE @], FALSE)

Logout(u) ==
  /\ u \in sessions
  /\ sessions' = sessions \ {u}
  /\ UNCHANGED <<documents, tokens, aged, recycling, pc, loc, history>>

-----------------------------------------------------------------------------
(* The cleaning job.  Both delays are a day in the configuration.          *)

Age(u) ==
  /\ Exists(accounts[u]) /\ u \notin aged
  /\ aged' = aged \cup {u}
  /\ UNCHANGED <<documents, tokens, sessions, recycling, pc, loc, history>>

Abandoned == {u \in aged : Exists(index[u]) /\ index[u].status = "WAITING_ENROLLMENT"}

RecycleSearch ==
  /\ recycling = {} /\ Abandoned # {}
  /\ recycling' = Abandoned
  /\ UNCHANGED <<documents, tokens, aged, sessions, pc, loc, history>>

\* Mutant: the job goes through what it found and deletes nothing.
DeleteNothing(u) ==
  /\ u \in recycling
  /\ recycling' = recycling \ {u}
  /\ UNCHANGED <<documents, tokens, aged, sessions, pc, loc, history>>

\* The document is deleted without refresh.
Delete(u) ==
  /\ u \in recycling
  /\ recycling' = recycling \ {u}
  /\ accounts' = [accounts EXCEPT ![u] = NoAccount]
  /\ deleted' = IF Exists(accounts[u]) THEN deleted \cup {[id |-> u, status |-> accounts[u].status]}
                                       ELSE deleted
  /\ UNCHANGED <<index, tokens, aged, sessions, pc, loc, rivals>>

-----------------------------------------------------------------------------
Arrive ==
  \/ \E h \in SignupReqs : Signup(h) \/ Register(h)
  \/ \E h \in ConfirmReqs : ConfirmLoad(h)
  \/ \E h \in LoginReqs : LoginFind(h) \/ NewPasswordFind(h)
  \/ \E h \in SessionReqs : SessionLoad(h)

Continue(h) ==
  \/ SaveFind(h) \/ SaveIndex(h) \/ ConfirmSignup(h)
  \/ LoginRefused(h) \/ LoginFailed(h) \/ LoginDone(h) \/ SendNewPassword(h)
  \/ EnrollVerify(h) \/ Abort(h)

Session(h) ==
  \/ UpdatePassword(h) \/ GenerateAndSendPincode3(h) \/ EnrollNumber(h) \/ EnrollLoad(h)
  \/ GenerateNewSecret(h) \/ CreateCard(h) \/ UpdateCard(h) \/ DeleteCard(h)
  \/ AssignBillingAddress(h) \/ AddShippingAddress(h) \/ UpdateShippingAddress(h)
  \/ SelectShippingAddress(h) \/ DeleteShippingAddress(h)
  \/ UpdateProfile(h) \/ UpdateProfileLight(h)

Time(u) == Refresh(u) \/ Logout(u) \/ Age(u) \/ Delete(u)

Next ==
  \/ Arrive
  \/ \E h \in Requests : Continue(h)
  \/ \E h \in SessionReqs : pc[h] = "loaded" /\ Session(h)
  \/ \E u \in Uuids : Time(u)
  \/ RecycleSearch

Spec == Init /\ [][Next]_vars

\* The job runs every hour and ends; requests and refreshes are not assumed.
FairSpec == Spec /\ WF_vars(RecycleSearch) /\ \A u \in Uuids : WF_vars(Delete(u))

-----------------------------------------------------------------------------
(* Properties.                                                             *)

Sound(account) ==
  /\ \A a, b \in account.shippingAddresses :
       /\ a.uuid = b.uuid => a = b
       /\ a.active /\ b.active => a = b
  /\ \A a, b \in account.creditCards : a.uuid = b.uuid => a = b

\* addShippingAddress, selectShippingAddress, updateShippingAddress, updateCard: whatever
\* stale lists are written back, an account never has two active shipping addresses, nor
\* two entries of one address or card.
ListsAreSound == \A u \in Uuids : Exists(accounts[u]) => Sound(accounts[u])

\* recycle, update: an account that was deleted stays so, although handlers that read it
\* before still write it.
DeletedStaysDeleted == \A d \in deleted : ~Exists(accounts[d.id])

\* login: failures are counted up to one more than the maximum, however many logins overlap.
FailuresAreBounded ==
  \A u \in Uuids : Exists(accounts[u]) => accounts[u].loginFailedCount <= MaxAttempts + 1

\* confirmSignup, sendNewPassword, login: no write from a stale copy or from the index puts
\* a confirmed account back among those waiting for confirmation.
ConfirmedStaysConfirmed ==
  [][\A u \in Uuids : Exists(accounts[u]) /\ accounts[u].status = "ACTIVE" /\ Exists(accounts'[u])
                        => accounts'[u].status = "ACTIVE"]_vars

\* signup, register, save: a request creates nothing while an account stays that had its
\* e-mail before the request came and that the setting has the searches ask for: one of the
\* same owner, or with shared customers, the shipped setting, one without owner.  (A
\* vendor's customer has the vendor as owner, so that shared customers are accepted again.)
\* Only requests that overlap can make two such accounts.
SignupRefusesKnown ==
  \A h \in SignupReqs : \A u \in rivals[h] :
    Exists(accounts[h]) /\ Exists(accounts[u]) => accounts[u].owner # Asked(accounts[h].owner)

\* recycle: an account nobody confirms in time is deleted, or is confirmed after all.
AbandonedIsRecycled ==
  \A u \in Uuids :
    u \in aged /\ Exists(accounts[u]) /\ accounts[u].status = "WAITING_ENROLLMENT"
      ~> ~Exists(accounts[u]) \/ accounts[u].status = "ACTIVE"

-----------------------------------------------------------------------------
(* What the repository says of the code, and the code does not do.         *)

\* sendNewPassword: the user it sends a password to "is no more waiting for enrollment", and
\* recycle deletes only those who are.
RecycledWasWaiting == \A d \in deleted : d.status = "WAITING_ENROLLMENT"
=============================================================================
