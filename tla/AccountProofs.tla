---------------------------- MODULE AccountProofs ----------------------------
(***************************************************************************)
(* Proof that AccountsAgree is an invariant of Account, of the safety      *)
(* properties it implies, and that a confirmed account stays confirmed.    *)
(*                                                                         *)
(* Every handler writes back the whole of a document it read before.  The  *)
(* argument is that whatever version it holds, what it writes is a         *)
(* NextVersion of it: the first half shows that of each operation, and the *)
(* second half that the invariant survives any step that writes one.       *)
(***************************************************************************)
EXTENDS AccountInvariants, TLAPS

-----------------------------------------------------------------------------
(* Documents and their lists.                                              *)

\* The components of a document.
LEMMA DocType ==
  ASSUME NEW a \in AccountDoc
  PROVE  /\ a.email \in Emails /\ a.owner \in Owners /\ a.status \in AccountStatus
         /\ a.password \in Passwords /\ a.loginFailedCount \in Nat /\ a.address \in BOOLEAN
         /\ a.telephone \in SUBSET Telephone /\ a.shippingAddresses \in SUBSET ShippingAddress
         /\ a.creditCards \in SUBSET CreditCard
  BY DEF AccountDoc

\* An absent document is no document.
LEMMA NoAccountType == NoAccount \notin AccountDoc /\ \A a \in AccountDoc : Exists(a)
<1>1. NoAccount.status = "NONE" /\ "NONE" \notin AccountStatus
  BY DEF NoAccount, AccountStatus
<1>2. NoAccount \notin AccountDoc
  BY <1>1, DocType
<1> QED BY <1>2 DEF Exists

\* A list of shipping addresses as Sound asks for it, and one of cards.
AddressesSound(s) ==
  \A a, b \in s : (a.uuid = b.uuid => a = b) /\ (a.active /\ b.active => a = b)

CardsSound(s) == \A a, b \in s : a.uuid = b.uuid => a = b

\* The document has the same holder, status and failures.
Kin(a, c) ==
  /\ a \in AccountDoc /\ SameHolder(a, c)
  /\ a.status = c.status /\ a.loginFailedCount = c.loginFailedCount

SameLists(a, c) == a.shippingAddresses = c.shippingAddresses /\ a.creditCards = c.creditCards

\* Changes of one field.
LEMMA PasswordChanged ==
  ASSUME NEW c \in AccountDoc, NEW p \in Passwords
  PROVE  LET a == [c EXCEPT !.password = p] IN Kin(a, c) /\ SameLists(a, c)
  BY DEF AccountDoc, Kin, SameHolder, SameLists

\* The telephone.
LEMMA TelephoneChanged ==
  ASSUME NEW c \in AccountDoc, NEW t \in SUBSET Telephone
  PROVE  LET a == [c EXCEPT !.telephone = t] IN Kin(a, c) /\ SameLists(a, c)
  BY DEF AccountDoc, Kin, SameHolder, SameLists

\* The password and the telephone.
LEMMA ProfileChanged ==
  ASSUME NEW c \in AccountDoc, NEW p \in Passwords, NEW t \in SUBSET Telephone
  PROVE  LET a == [c EXCEPT !.password = p, !.telephone = t] IN Kin(a, c) /\ SameLists(a, c)
  BY DEF AccountDoc, Kin, SameHolder, SameLists

\* The address and the telephone.
LEMMA AddressChanged ==
  ASSUME NEW c \in AccountDoc, NEW t \in SUBSET Telephone
  PROVE  LET a == [c EXCEPT !.address = TRUE, !.telephone = t] IN Kin(a, c) /\ SameLists(a, c)
  BY DEF AccountDoc, Kin, SameHolder, SameLists

\* The shipping addresses.
LEMMA AddressesChanged ==
  ASSUME NEW c \in AccountDoc, NEW s \in SUBSET ShippingAddress
  PROVE  LET a == [c EXCEPT !.shippingAddresses = s]
         IN  Kin(a, c) /\ a.shippingAddresses = s /\ a.creditCards = c.creditCards
  BY DEF AccountDoc, Kin, SameHolder

\* The cards.
LEMMA CardsChanged ==
  ASSUME NEW c \in AccountDoc, NEW s \in SUBSET CreditCard
  PROVE  LET a == [c EXCEPT !.creditCards = s]
         IN  Kin(a, c) /\ a.shippingAddresses = c.shippingAddresses /\ a.creditCards = s
  BY DEF AccountDoc, Kin, SameHolder

\* The status.
LEMMA StatusChanged ==
  ASSUME NEW c \in AccountDoc
  PROVE  LET a == [c EXCEPT !.status = "ACTIVE"]
         IN  /\ a \in AccountDoc /\ SameHolder(a, c) /\ SameLists(a, c) /\ a.status = "ACTIVE"
             /\ a.loginFailedCount = c.loginFailedCount
  BY DEF AccountDoc, SameHolder, SameLists, AccountStatus

\* The count of failures.
LEMMA FailuresChanged ==
  ASSUME NEW c \in AccountDoc, NEW n \in Nat
  PROVE  LET a == [c EXCEPT !.loginFailedCount = n]
         IN  /\ a \in AccountDoc /\ SameHolder(a, c) /\ SameLists(a, c) /\ a.status = c.status
             /\ a.loginFailedCount = n
  BY DEF AccountDoc, SameHolder, SameLists

\* The components of a shipping address and of a card.
LEMMA EntryType ==
  /\ \A a \in ShippingAddress : a.uuid \in ListUuids /\ a.active \in BOOLEAN /\ a.road \in {"given", "changed"}
  /\ \A c \in CreditCard : c.uuid \in ListUuids /\ c.holder \in {"given", "changed"}
  BY DEF ShippingAddress, CreditCard

\* Adding an address with a new uuid and making the others inactive.
LEMMA AddressAdded ==
  ASSUME NEW s \in SUBSET ShippingAddress, NEW h \in ListUuids, AddressesSound(s),
         \A a \in s : a.uuid # h
  PROVE  LET n == [uuid |-> h, active |-> TRUE, road |-> "given"]
             t == {[a EXCEPT !.active = FALSE] : a \in s} \cup {n}
         IN  /\ t \in SUBSET ShippingAddress /\ AddressesSound(t)
             /\ \A g : g # h /\ (\A a \in s : a.uuid # g) => \A a \in t : a.uuid # g
<1> DEFINE n == [uuid |-> h, active |-> TRUE, road |-> "given"]
           m(a) == [a EXCEPT !.active = FALSE]
           t == {m(a) : a \in s} \cup {n}
<1>1. n \in ShippingAddress /\ n.uuid = h
  BY DEF ShippingAddress
<1>2. \A a \in s : m(a) \in ShippingAddress /\ m(a).uuid = a.uuid /\ ~m(a).active
  BY DEF ShippingAddress
<1>3. \A a, b \in s : m(a).uuid = m(b).uuid => m(a) = m(b)
  BY <1>2 DEF AddressesSound
<1> HIDE DEF n, m
<1>4. t \in SUBSET ShippingAddress
  BY <1>1, <1>2
<1>5. ASSUME NEW x \in t, NEW y \in t
      PROVE (x.uuid = y.uuid => x = y) /\ (x.active /\ y.active => x = y)
  <2>1. CASE x = n /\ y = n
    BY <2>1
  <2>2. CASE x = n /\ y # n
    <3>1. PICK b \in s : y = m(b)
      BY <2>2
    <3> QED BY <1>1, <1>2, <2>2, <3>1
  <2>3. CASE x # n /\ y = n
    <3>1. PICK b \in s : x = m(b)
      BY <2>3
    <3> QED BY <1>1, <1>2, <2>3, <3>1
  <2>4. CASE x # n /\ y # n
    <3>1. PICK a \in s, b \in s : x = m(a) /\ y = m(b)
      BY <2>4
    <3> QED BY <1>2, <1>3, <3>1
  <2> QED BY <2>1, <2>2, <2>3, <2>4
<1>6. ASSUME NEW g, g # h, \A a \in s : a.uuid # g, NEW x \in t PROVE x.uuid # g
  BY <1>1, <1>2, <1>6
<1> QED BY <1>4, <1>5, <1>6 DEF AddressesSound, n, m

\* Changing the road of one address.
LEMMA AddressUpdated ==
  ASSUME NEW s \in SUBSET ShippingAddress, NEW d \in s, AddressesSound(s)
  PROVE  LET t == (s \ {d}) \cup {[d EXCEPT !.road = "changed"]}
         IN  /\ t \in SUBSET ShippingAddress /\ AddressesSound(t)
             /\ \A g : (\A a \in s : a.uuid # g) => \A a \in t : a.uuid # g
<1> DEFINE n == [d EXCEPT !.road = "changed"]
           t == (s \ {d}) \cup {n}
<1>1. n \in ShippingAddress /\ n.uuid = d.uuid /\ n.active = d.active
  BY DEF ShippingAddress
<1> HIDE DEF n
<1>2. t \in SUBSET ShippingAddress
  BY <1>1
<1>3. ASSUME NEW x \in t, NEW y \in t
      PROVE (x.uuid = y.uuid => x = y) /\ (x.active /\ y.active => x = y)
  BY <1>1, <1>3 DEF AddressesSound
<1> QED BY <1>1, <1>2, <1>3 DEF AddressesSound, n

\* Making one address the active one.
LEMMA AddressSelected ==
  ASSUME NEW s \in SUBSET ShippingAddress, NEW id, AddressesSound(s)
  PROVE  LET t == {[a EXCEPT !.active = (a.uuid = id)] : a \in s}
         IN  /\ t \in SUBSET ShippingAddress /\ AddressesSound(t)
             /\ \A g : (\A a \in s : a.uuid # g) => \A a \in t : a.uuid # g
<1> DEFINE m(a) == [a EXCEPT !.active = (a.uuid = id)]
           t == {m(a) : a \in s}
<1>1. \A a \in s : m(a) \in ShippingAddress /\ m(a).uuid = a.uuid
  BY DEF ShippingAddress
<1>2. \A a \in s : m(a).active => a.uuid = id
  BY DEF ShippingAddress
<1>3. \A a, b \in s : a.uuid = b.uuid => a = b
  BY DEF AddressesSound
<1> HIDE DEF m
<1>4. t \in SUBSET ShippingAddress
  BY <1>1
<1>5. ASSUME NEW x \in t, NEW y \in t
      PROVE (x.uuid = y.uuid => x = y) /\ (x.active /\ y.active => x = y)
  <2>1. PICK a \in s, b \in s : x = m(a) /\ y = m(b)
    OBVIOUS
  <2> QED BY <1>1, <1>2, <1>3, <2>1
<1>6. AddressesSound(t)
  BY <1>5 DEF AddressesSound
<1>7. ASSUME NEW g, \A a \in s : a.uuid # g, NEW x \in t PROVE x.uuid # g
  BY <1>1, <1>7
<1> QED BY <1>4, <1>6, <1>7 DEF m

\* Changing the holder of one card.
LEMMA CardUpdated ==
  ASSUME NEW s \in SUBSET CreditCard, NEW d \in s, CardsSound(s)
  PROVE  LET t == {c \in s : c.uuid # d.uuid} \cup {[d EXCEPT !.holder = "changed"]}
         IN  /\ t \in SUBSET CreditCard /\ CardsSound(t)
             /\ \A g : (\A a \in s : a.uuid # g) => \A a \in t : a.uuid # g
<1> DEFINE n == [d EXCEPT !.holder = "changed"]
           t == {c \in s : c.uuid # d.uuid} \cup {n}
<1>1. n \in CreditCard /\ n.uuid = d.uuid
  BY DEF CreditCard
<1> HIDE DEF n
<1>2. t \in SUBSET CreditCard
  BY <1>1
<1>3. CardsSound(t)
  BY <1>1 DEF CardsSound
<1> QED BY <1>1, <1>2, <1>3 DEF n

\* Adding a card with a new uuid.
LEMMA CardAdded ==
  ASSUME NEW s \in SUBSET CreditCard, NEW h \in ListUuids, CardsSound(s), \A a \in s : a.uuid # h
  PROVE  LET t == s \cup {[uuid |-> h, holder |-> "given"]}
         IN  /\ t \in SUBSET CreditCard /\ CardsSound(t)
             /\ \A g : g # h /\ (\A a \in s : a.uuid # g) => \A a \in t : a.uuid # g
<1> DEFINE n == [uuid |-> h, holder |-> "given"]
           t == s \cup {n}
<1>1. n \in CreditCard /\ n.uuid = h
  BY DEF CreditCard
<1> HIDE DEF n
<1>2. t \in SUBSET CreditCard
  BY <1>1
<1>3. CardsSound(t)
  BY <1>1 DEF CardsSound
<1> QED BY <1>1, <1>2, <1>3 DEF n

\* The telephones the operations write.
LEMMA TelephoneType ==
  /\ \A n \in Phones, s \in TelephoneStatus : BuildTelephone(n, s) \in Telephone
  /\ \A n \in Phones, s \in TelephoneStatus : [lphone |-> n, pinCode3 |-> {}, status |-> s] \in Telephone
  /\ \A T \in SUBSET Telephone, c \in Pins :
       {[t EXCEPT !.status = "WAITING_ENROLLMENT", !.pinCode3 = {[form |-> "utf8", of |-> c]}] : t \in T}
         \in SUBSET Telephone
  /\ \A T \in SUBSET Telephone, n \in Phones : {[t EXCEPT !.lphone = n] : t \in T} \in SUBSET Telephone
<1>1. /\ [form |-> "plain", of |-> "000"] \in Digests
      /\ \A c \in Pins : [form |-> "utf8", of |-> c] \in Digests
  BY DEF Digests
<1>2. \A n \in Phones, s \in TelephoneStatus : BuildTelephone(n, s) \in Telephone
  BY <1>1 DEF BuildTelephone, Telephone
<1>3. \A n \in Phones, s \in TelephoneStatus : [lphone |-> n, pinCode3 |-> {}, status |-> s] \in Telephone
  BY DEF Telephone
<1>4. \A d \in SUBSET Digests, t \in Telephone :
        [t EXCEPT !.status = "WAITING_ENROLLMENT", !.pinCode3 = d] \in Telephone
  BY DEF Telephone, TelephoneStatus
<1>5. \A n \in Phones, t \in Telephone : [t EXCEPT !.lphone = n] \in Telephone
  BY DEF Telephone
<1>6. ASSUME NEW T \in SUBSET Telephone, NEW c \in Pins
      PROVE  {[t EXCEPT !.status = "WAITING_ENROLLMENT", !.pinCode3 = {[form |-> "utf8", of |-> c]}] : t \in T}
               \in SUBSET Telephone
  <2> DEFINE d == {[form |-> "utf8", of |-> c]}
  <2>1. d \in SUBSET Digests
    BY <1>1
  <2> HIDE DEF d
  <2>2. {[t EXCEPT !.status = "WAITING_ENROLLMENT", !.pinCode3 = d] : t \in T} \in SUBSET Telephone
    BY <1>4, <2>1
  <2> QED BY <2>2 DEF d
<1> QED BY <1>2, <1>3, <1>5, <1>6

\* Sound, by the two lists.
LEMMA SoundParts ==
  ASSUME NEW a
  PROVE  Sound(a) <=> AddressesSound(a.shippingAddresses) /\ CardsSound(a.creditCards)
  BY DEF Sound, AddressesSound, CardsSound

-----------------------------------------------------------------------------
(* What the handlers write.                                                *)

\* A version of the account that h may write, whatever is stored by then.
NextVersion(h, a) ==
  /\ a \in AccountDoc /\ Fine(a) /\ a.status = "ACTIVE"
  /\ SameHolder(a, Copy(h))
  /\ \A g \in SessionReqs \ {h} : Lacks(Copy(h), g) => Lacks(a, g)

\* The handler writes one, answers, and may have logged its user in.
Writes(h) ==
  /\ Busy(h) /\ pc[h] \notin {"save", "index"}
  /\ \E a, refresh : NextVersion(h, a) /\ Update(h, a, refresh)
  /\ Reply(h)
  /\ sessions' = sessions \/ (Stored(h) /\ sessions' = sessions \cup {loc[h].id})
  /\ UNCHANGED <<tokens, aged, recycling, rivals, deleted>>

\* The handler takes a version of a document that is stored or indexed.
Takes(h) ==
  /\ h \notin SignupReqs /\ pc[h] \in {"idle", "loaded"}
  /\ \E u \in Uuids, p \in {"confirm", "login", "newPassword", "loaded", "enroll"} : \E d \in {accounts[u], index[u]} :
       /\ Exists(d)
       /\ p \in {"loaded", "enroll"} => d = accounts[u] /\ d.status = "ACTIVE"
       /\ Goto(h, p, [id |-> u, copy |-> d])
  /\ UNCHANGED <<accounts, index, tokens, aged, sessions, recycling, rivals, deleted>>

\* The handler answers and writes nothing.
Replies(h) ==
  /\ Reply(h)
  /\ UNCHANGED <<accounts, index, tokens, aged, sessions, recycling, rivals, deleted>>

\* What is known of a handler that is at work.
LEMMA AtWork ==
  ASSUME AccountsAgree, NEW h \in Requests, Busy(h)
  PROVE  /\ loc[h].id \in Uuids /\ Copy(h) \in AccountDoc
         /\ Copy(h).status \in {"ACTIVE", "WAITING_ENROLLMENT"}
         /\ Copy(h).loginFailedCount \in Nat /\ Copy(h).loginFailedCount <= MaxAttempts + 1
         /\ Copy(h).shippingAddresses \in SUBSET ShippingAddress /\ AddressesSound(Copy(h).shippingAddresses)
         /\ Copy(h).creditCards \in SUBSET CreditCard /\ CardsSound(Copy(h).creditCards)
         /\ Copy(h).telephone \in SUBSET Telephone
         /\ pc[h] \in {"loaded", "enroll"} => Copy(h).status = "ACTIVE"
<1>1. HandlerInv(h)
  BY DEF AccountsAgree
<1>2. loc[h].id \in Uuids /\ Copy(h) \in AccountDoc /\ Fine(Copy(h))
  BY <1>1 DEF HandlerInv
<1>3. Sound(Copy(h)) /\ Copy(h).loginFailedCount <= MaxAttempts + 1 /\ Copy(h).status # "INACTIVE"
  BY <1>2 DEF Fine
<1>4. AddressesSound(Copy(h).shippingAddresses) /\ CardsSound(Copy(h).creditCards)
  BY <1>3, SoundParts
<1>5. pc[h] \in {"loaded", "enroll"} => Copy(h).status = "ACTIVE"
  BY <1>1 DEF HandlerInv
<1>6. Copy(h).status \in {"ACTIVE", "WAITING_ENROLLMENT"}
  BY <1>2, <1>3, DocType DEF AccountStatus
<1> QED BY <1>2, <1>3, <1>4, <1>5, <1>6, DocType

\* A document of the same holder with the same lists.
LEMMA SameListsVersion ==
  ASSUME AccountsAgree, NEW h \in Requests, Busy(h), NEW a \in AccountDoc,
         SameHolder(a, Copy(h)), SameLists(a, Copy(h)), a.status = "ACTIVE",
         a.loginFailedCount <= MaxAttempts + 1
  PROVE  NextVersion(h, a)
<1>1. AddressesSound(a.shippingAddresses) /\ CardsSound(a.creditCards)
  BY AtWork DEF SameLists
<1>2. Sound(a)
  BY <1>1, SoundParts
<1>3. Fine(a)
  BY <1>2 DEF Fine
<1> QED BY <1>3 DEF NextVersion, SameLists, Lacks

\* A logged-in user's document with the same lists.
LEMMA KinVersion ==
  ASSUME AccountsAgree, NEW h \in Requests, pc[h] \in {"loaded", "enroll"}, NEW a,
         Kin(a, Copy(h)), SameLists(a, Copy(h))
  PROVE  NextVersion(h, a)
<1>1. Busy(h)
  BY DEF Busy
<1>2. a \in AccountDoc /\ SameHolder(a, Copy(h)) /\ a.status = "ACTIVE" /\ a.loginFailedCount <= MaxAttempts + 1
  BY <1>1, AtWork DEF Kin
<1> QED BY <1>1, <1>2, SameListsVersion

\* A logged-in user's document with lists that are still sound.
LEMMA ListsVersion ==
  ASSUME AccountsAgree, NEW h \in Requests, pc[h] = "loaded", NEW a,
         Kin(a, Copy(h)), AddressesSound(a.shippingAddresses), CardsSound(a.creditCards),
         \A g \in SessionReqs \ {h} : Lacks(Copy(h), g) => Lacks(a, g)
  PROVE  NextVersion(h, a)
<1>1. Busy(h)
  BY DEF Busy
<1>2. a \in AccountDoc /\ SameHolder(a, Copy(h)) /\ a.status = "ACTIVE" /\ a.loginFailedCount <= MaxAttempts + 1
  BY <1>1, AtWork DEF Kin
<1>3. Sound(a)
  BY SoundParts
<1>4. Fine(a)
  BY <1>2, <1>3 DEF Fine
<1> QED BY <1>2, <1>4 DEF NextVersion

\* A change that a logged-in user's request writes.
LEMMA ChangeWrites ==
  ASSUME NEW h \in Requests, NEW a, NEW refresh, Change(h, a, refresh), NextVersion(h, a)
  PROVE  Writes(h)
<1>1. Busy(h) /\ pc[h] \notin {"save", "index"}
  BY DEF Change, Busy
<1>2. Update(h, a, refresh) /\ Reply(h) /\ UNCHANGED <<tokens, aged, sessions, recycling, rivals, deleted>>
  BY DEF Change, world, history
<1> QED BY <1>1, <1>2 DEF Writes

\* Passwords, telephones, billing address and secret of a logged-in user.
LEMMA ProfileWrites ==
  ASSUME AccountsAgree, NEW h \in Requests, pc[h] = "loaded",
         \/ UpdatePassword(h) \/ GenerateAndSendPincode3(h) \/ EnrollNumber(h) \/ GenerateNewSecret(h)
         \/ AssignBillingAddress(h) \/ UpdateProfile(h) \/ UpdateProfileLight(h)
  PROVE  Writes(h)
<1>1. Busy(h)
  BY DEF Busy
<1>2. Copy(h) \in AccountDoc /\ Copy(h).telephone \in SUBSET Telephone /\ Copy(h).password \in Passwords
  BY <1>1, AtWork, DocType
<1>3. ASSUME NEW a, NEW r, Kin(a, Copy(h)), SameLists(a, Copy(h)), Change(h, a, r) PROVE Writes(h)
  BY <1>3, KinVersion, ChangeWrites
<1>4. CASE UpdatePassword(h)
  BY <1>2, <1>3, <1>4, PasswordChanged DEF UpdatePassword
<1>5. CASE GenerateAndSendPincode3(h)
  <2>1. PICK c \in Pins :
          Change(h, [Copy(h) EXCEPT !.telephone =
                    {[t EXCEPT !.status = "WAITING_ENROLLMENT", !.pinCode3 = {[form |-> "utf8", of |-> c]}]
                       : t \in Copy(h).telephone}], FALSE)
    BY <1>5 DEF GenerateAndSendPincode3
  <2> DEFINE T == {[t EXCEPT !.status = "WAITING_ENROLLMENT", !.pinCode3 = {[form |-> "utf8", of |-> c]}]
                       : t \in Copy(h).telephone}
  <2>2. T \in SUBSET Telephone
    BY <1>2, TelephoneType
  <2>3. Change(h, [Copy(h) EXCEPT !.telephone = T], FALSE)
    BY <2>1
  <2> HIDE DEF T
  <2> QED BY <1>2, <1>3, <2>2, <2>3, TelephoneChanged
<1>6. CASE EnrollNumber(h)
  <2>1. PICK n \in Phones :
          Change(h, [Copy(h) EXCEPT !.telephone = {[t EXCEPT !.lphone = n] : t \in Copy(h).telephone}], TRUE)
    BY <1>6 DEF EnrollNumber
  <2> DEFINE T == {[t EXCEPT !.lphone = n] : t \in Copy(h).telephone}
  <2>2. T \in SUBSET Telephone
    BY <1>2, TelephoneType
  <2>3. Change(h, [Copy(h) EXCEPT !.telephone = T], TRUE)
    BY <2>1
  <2> HIDE DEF T
  <2> QED BY <1>2, <1>3, <2>2, <2>3, TelephoneChanged
<1>7. CASE GenerateNewSecret(h)
  BY <1>2, <1>3, <1>7 DEF GenerateNewSecret, Kin, SameHolder, SameLists
<1>8. CASE AssignBillingAddress(h)
  <2>1. PICK n \in Phones :
          Change(h, [Copy(h) EXCEPT !.address = TRUE,
                       !.telephone = IF Copy(h).address THEN {BuildTelephone(n, "WAITING_ENROLLMENT")} ELSE {}],
                 TRUE)
    BY <1>8 DEF AssignBillingAddress
  <2> DEFINE T == IF Copy(h).address THEN {BuildTelephone(n, "WAITING_ENROLLMENT")} ELSE {}
  <2>2. T \in SUBSET Telephone
    BY TelephoneType DEF TelephoneStatus
  <2>3. Change(h, [Copy(h) EXCEPT !.address = TRUE, !.telephone = T], TRUE)
    BY <2>1
  <2> HIDE DEF T
  <2> QED BY <1>2, <1>3, <2>2, <2>3, AddressChanged
<1>9. CASE UpdateProfile(h)
  <2>1. PICK n \in Phones, p \in Passwords, new \in BOOLEAN :
          Change(h, [Copy(h) EXCEPT !.password = IF new THEN p ELSE Copy(h).password,
                       !.telephone = IF Copy(h).address
                                     THEN {[lphone |-> n, pinCode3 |-> {}, status |-> "WAITING_ENROLLMENT"]}
                                     ELSE Copy(h).telephone], FALSE)
    BY <1>9 DEF UpdateProfile
  <2> DEFINE T == IF Copy(h).address
                  THEN {[lphone |-> n, pinCode3 |-> {}, status |-> "WAITING_ENROLLMENT"]}
                  ELSE Copy(h).telephone
             w == IF new THEN p ELSE Copy(h).password
  <2>2. T \in SUBSET Telephone /\ w \in Passwords
    BY <1>2, TelephoneType DEF TelephoneStatus
  <2>3. Change(h, [Copy(h) EXCEPT !.password = w, !.telephone = T], FALSE)
    BY <2>1
  <2> HIDE DEF T, w
  <2> QED BY <1>2, <1>3, <2>2, <2>3, ProfileChanged
<1>10. CASE UpdateProfileLight(h)
  <2>1. PICK p \in Passwords, new \in BOOLEAN :
          Change(h, [Copy(h) EXCEPT !.password = IF new THEN p ELSE Copy(h).password], FALSE)
    BY <1>10 DEF UpdateProfileLight
  <2> DEFINE w == IF new THEN p ELSE Copy(h).password
  <2>2. w \in Passwords
    BY <1>2
  <2>3. Change(h, [Copy(h) EXCEPT !.password = w], FALSE)
    BY <2>1
  <2> HIDE DEF w
  <2> QED BY <1>2, <1>3, <2>2, <2>3, PasswordChanged
<1> QED BY <1>4, <1>5, <1>6, <1>7, <1>8, <1>9, <1>10

\* The lists of a logged-in user.
LEMMA ListsWrite ==
  ASSUME AccountsAgree, NEW h \in SessionReqs, pc[h] = "loaded",
         \/ CreateCard(h) \/ UpdateCard(h) \/ DeleteCard(h)
         \/ AddShippingAddress(h) \/ UpdateShippingAddress(h)
         \/ SelectShippingAddress(h) \/ DeleteShippingAddress(h)
  PROVE  Writes(h)
<1> DEFINE c == Copy(h)
<1>1. Busy(h) /\ h \in Requests /\ h \in ListUuids
  BY DEF Busy, Requests, ListUuids
<1>2. /\ c \in AccountDoc
      /\ c.shippingAddresses \in SUBSET ShippingAddress /\ AddressesSound(c.shippingAddresses)
      /\ c.creditCards \in SUBSET CreditCard /\ CardsSound(c.creditCards)
  BY <1>1, AtWork
<1>3. Lacks(c, h)
  BY <1>1 DEF AccountsAgree, FreshInv
<1>4. (\A a \in c.shippingAddresses : a.uuid # h) /\ (\A a \in c.creditCards : a.uuid # h)
  BY <1>3 DEF Lacks
<1> HIDE DEF c
<1>5. ASSUME NEW s \in SUBSET CreditCard, CardsSound(s), NEW r,
             \A g : g # h /\ (\A a \in c.creditCards : a.uuid # g) => \A a \in s : a.uuid # g,
             Change(h, [c EXCEPT !.creditCards = s], r)
      PROVE  Writes(h)
  <2> DEFINE a == [c EXCEPT !.creditCards = s]
  <2>1. Kin(a, c) /\ a.shippingAddresses = c.shippingAddresses /\ a.creditCards = s
    BY <1>2, <1>5, CardsChanged
  <2>2. Change(h, a, r)
    BY <1>5
  <2> HIDE DEF a
  <2>3. \A g \in SessionReqs \ {h} : Lacks(c, g) => Lacks(a, g)
    BY <1>5, <2>1 DEF Lacks
  <2>4. NextVersion(h, a)
    BY <1>1, <1>2, <1>5, <2>1, <2>3, ListsVersion DEF c
  <2> QED BY <1>1, <2>2, <2>4, ChangeWrites
<1>6. ASSUME NEW s \in SUBSET ShippingAddress, AddressesSound(s), NEW r,
             \A g : g # h /\ (\A a \in c.shippingAddresses : a.uuid # g) => \A a \in s : a.uuid # g,
             Change(h, [c EXCEPT !.shippingAddresses = s], r)
      PROVE  Writes(h)
  <2> DEFINE a == [c EXCEPT !.shippingAddresses = s]
  <2>1. Kin(a, c) /\ a.shippingAddresses = s /\ a.creditCards = c.creditCards
    BY <1>2, <1>6, AddressesChanged
  <2>2. Change(h, a, r)
    BY <1>6
  <2> HIDE DEF a
  <2>3. \A g \in SessionReqs \ {h} : Lacks(c, g) => Lacks(a, g)
    BY <1>6, <2>1 DEF Lacks
  <2>4. NextVersion(h, a)
    BY <1>1, <1>2, <1>6, <2>1, <2>3, ListsVersion DEF c
  <2> QED BY <1>1, <2>2, <2>4, ChangeWrites
<1>7. CASE CreateCard(h)
  <2> DEFINE s == c.creditCards \cup {[uuid |-> h, holder |-> "given"]}
  <2>1. /\ s \in SUBSET CreditCard /\ CardsSound(s)
        /\ \A g : g # h /\ (\A a \in c.creditCards : a.uuid # g) => \A a \in s : a.uuid # g
    BY <1>1, <1>2, <1>4, CardAdded
  <2>2. Change(h, [c EXCEPT !.creditCards = s], TRUE)
    BY <1>7 DEF CreateCard, c
  <2> HIDE DEF s
  <2> QED BY <1>5, <2>1, <2>2
<1>8. CASE UpdateCard(h)
  <2>1. PICK d \in c.creditCards :
          Change(h, [c EXCEPT !.creditCards =
                       {k \in c.creditCards : k.uuid # d.uuid} \cup {[d EXCEPT !.holder = "changed"]}], TRUE)
    BY <1>8 DEF UpdateCard, c
  <2> DEFINE s == {k \in c.creditCards : k.uuid # d.uuid} \cup {[d EXCEPT !.holder = "changed"]}
  <2>2. /\ s \in SUBSET CreditCard /\ CardsSound(s)
        /\ \A g : (\A a \in c.creditCards : a.uuid # g) => \A a \in s : a.uuid # g
    BY <1>2, CardUpdated
  <2>3. Change(h, [c EXCEPT !.creditCards = s], TRUE)
    BY <2>1
  <2> HIDE DEF s
  <2> QED BY <1>5, <2>2, <2>3
<1>9. CASE DeleteCard(h)
  <2>1. PICK d \in c.creditCards : Change(h, [c EXCEPT !.creditCards = c.creditCards \ {d}], FALSE)
    BY <1>9 DEF DeleteCard, c
  <2>2. (c.creditCards \ {d}) \in SUBSET CreditCard /\ CardsSound(c.creditCards \ {d})
    BY <1>2 DEF CardsSound
  <2> QED BY <1>5, <2>1, <2>2
<1>10. CASE AddShippingAddress(h)
  <2> DEFINE s == {[a EXCEPT !.active = FALSE] : a \in c.shippingAddresses}
                    \cup {[uuid |-> h, active |-> TRUE, road |-> "given"]}
  <2>1. /\ s \in SUBSET ShippingAddress /\ AddressesSound(s)
        /\ \A g : g # h /\ (\A a \in c.shippingAddresses : a.uuid # g) => \A a \in s : a.uuid # g
    BY <1>1, <1>2, <1>4, AddressAdded
  <2>2. Change(h, [c EXCEPT !.shippingAddresses = s], TRUE)
    BY <1>10 DEF AddShippingAddress, c
  <2> HIDE DEF s
  <2> QED BY <1>6, <2>1, <2>2
<1>11. CASE UpdateShippingAddress(h)
  <2>1. PICK d \in c.shippingAddresses :
          Change(h, [c EXCEPT !.shippingAddresses =
                       (c.shippingAddresses \ {d}) \cup {[d EXCEPT !.road = "changed"]}], TRUE)
    BY <1>11 DEF UpdateShippingAddress, c
  <2> DEFINE s == (c.shippingAddresses \ {d}) \cup {[d EXCEPT !.road = "changed"]}
  <2>2. /\ s \in SUBSET ShippingAddress /\ AddressesSound(s)
        /\ \A g : (\A a \in c.shippingAddresses : a.uuid # g) => \A a \in s : a.uuid # g
    BY <1>2, AddressUpdated
  <2>3. Change(h, [c EXCEPT !.shippingAddresses = s], TRUE)
    BY <2>1
  <2> HIDE DEF s
  <2> QED BY <1>6, <2>2, <2>3
<1>12. CASE SelectShippingAddress(h)
  <2>1. PICK id \in ListUuids :
          Change(h, [c EXCEPT !.shippingAddresses =
                       {[a EXCEPT !.active = (a.uuid = id)] : a \in c.shippingAddresses}], TRUE)
    BY <1>12 DEF SelectShippingAddress, c
  <2> DEFINE s == {[a EXCEPT !.active = (a.uuid = id)] : a \in c.shippingAddresses}
  <2>2. /\ s \in SUBSET ShippingAddress /\ AddressesSound(s)
        /\ \A g : (\A a \in c.shippingAddresses : a.uuid # g) => \A a \in s : a.uuid # g
    BY <1>2, AddressSelected
  <2>3. Change(h, [c EXCEPT !.shippingAddresses = s], TRUE)
    BY <2>1
  <2> HIDE DEF s
  <2> QED BY <1>6, <2>2, <2>3
<1>13. CASE DeleteShippingAddress(h)
  <2>1. PICK d \in c.shippingAddresses :
          Change(h, [c EXCEPT !.shippingAddresses = c.shippingAddresses \ {d}], FALSE)
    BY <1>13 DEF DeleteShippingAddress, c
  <2>2. (c.shippingAddresses \ {d}) \in SUBSET ShippingAddress /\ AddressesSound(c.shippingAddresses \ {d})
    BY <1>2 DEF AddressesSound
  <2> QED BY <1>6, <2>1, <2>2
<1> QED BY <1>7, <1>8, <1>9, <1>10, <1>11, <1>12, <1>13

\* The search index and the store hold documents.
LEMMA StoreType ==
  ASSUME AccountsAgree
  PROVE  /\ accounts \in [Uuids -> AccountDoc \cup {NoAccount}]
         /\ index \in [Uuids -> AccountDoc \cup {NoAccount}]
         /\ \A u \in Uuids : Exists(accounts[u]) => accounts[u] \in AccountDoc
         /\ \A u \in Uuids : Exists(index[u]) => index[u] \in AccountDoc
  BY DEF AccountsAgree, TypeOK, Exists

\* The second read of enroll.
LEMMA EnrollLoadTakes ==
  ASSUME AccountsAgree, NEW h \in Requests, h \notin SignupReqs, EnrollLoad(h)
  PROVE  Takes(h) \/ Replies(h)
<1>1. pc[h] = "loaded" /\ UNCHANGED <<accounts, index, tokens, aged, sessions, recycling, rivals, deleted>>
  BY DEF EnrollLoad, documents, world, history
<1>2. CASE ~Stored(h)
  BY <1>1, <1>2 DEF EnrollLoad, Replies
<1>3. CASE Stored(h)
  <2>1. HandlerInv(h) /\ loc[h] \in Locals /\ Busy(h)
    BY <1>1 DEF AccountsAgree, TypeOK, Busy
  <2>2. loc[h].id \in Uuids /\ accounts[loc[h].id].status = "ACTIVE"
    BY <1>1, <1>3, <2>1 DEF HandlerInv
  <2> DEFINE d == accounts[loc[h].id]
  <2>3. Copy(h) \in AccountDoc
    BY <2>1 DEF HandlerInv
  <2>4. loc[h] \in [id : Uuids, copy : AccountDoc]
    BY <2>1, <2>3, NoAccountType DEF Locals, NoLocals, Copy
  <2>5. [loc[h] EXCEPT !.copy = d] = [id |-> loc[h].id, copy |-> d]
    BY <2>4
  <2>6. Goto(h, "enroll", [id |-> loc[h].id, copy |-> d])
    BY <1>3, <2>5 DEF EnrollLoad
  <2>7. d \in {accounts[loc[h].id], index[loc[h].id]} /\ Exists(d) /\ d = accounts[loc[h].id] /\ d.status = "ACTIVE"
    BY <1>3, <2>2 DEF Stored
  <2> HIDE DEF d
  <2> QED BY <1>1, <2>2, <2>6, <2>7 DEF Takes
<1> QED BY <1>2, <1>3

\* The requests of a logged-in user, once the account is loaded.
LEMMA SessionCases ==
  ASSUME AccountsAgree, NEW h \in SessionReqs, pc[h] = "loaded", Session(h)
  PROVE  Writes(h) \/ Takes(h) \/ Replies(h)
<1>1. h \in Requests /\ h \notin SignupReqs
  BY RequestAssumption DEF Requests
<1> QED BY <1>1, ProfileWrites, ListsWrite, EnrollLoadTakes DEF Session

\* A handler that confirms, logs in, sends a password or verifies a code.
LEMMA ContinueCases ==
  ASSUME AccountsAgree, NEW h \in Requests, Continue(h), ~SaveFind(h), ~SaveIndex(h)
  PROVE  Writes(h) \/ Replies(h)
<1> DEFINE c == Copy(h)
<1>1. ASSUME Busy(h)
      PROVE  /\ c \in AccountDoc /\ c.status \in {"ACTIVE", "WAITING_ENROLLMENT"}
             /\ c.loginFailedCount \in Nat /\ c.loginFailedCount <= MaxAttempts + 1
  BY <1>1, AtWork
<1>2. MaxAttempts \in Nat
  BY ConfigAssumption
<1>3. CASE ConfirmSignup(h)
  <2> DEFINE a == [c EXCEPT !.status = "ACTIVE"]
  <2>1. Busy(h) /\ pc[h] \notin {"save", "index"}
    BY <1>3 DEF ConfirmSignup, Busy
  <2>2. /\ Update(h, a, TRUE) /\ Reply(h) /\ UNCHANGED <<tokens, aged, recycling, rivals, deleted>>
        /\ sessions' = sessions \/ (Stored(h) /\ sessions' = sessions \cup {loc[h].id})
    BY <1>3 DEF ConfirmSignup, history
  <2>3. /\ a \in AccountDoc /\ SameHolder(a, c) /\ SameLists(a, c) /\ a.status = "ACTIVE"
        /\ a.loginFailedCount = c.loginFailedCount
    BY <1>1, <2>1, StatusChanged
  <2> HIDE DEF a
  <2>4. NextVersion(h, a)
    BY <1>1, <2>1, <2>3, SameListsVersion
  <2> QED BY <2>1, <2>2, <2>4 DEF Writes
<1>4. CASE LoginFailed(h)
  <2> DEFINE n == c.loginFailedCount + 1
             a == [c EXCEPT !.loginFailedCount = n]
  <2>1. Busy(h) /\ pc[h] \notin {"save", "index"} /\ ~Refused(c)
    BY <1>4 DEF LoginFailed, Busy
  <2>2. /\ Update(h, a, TRUE) /\ Reply(h) /\ UNCHANGED <<tokens, aged, sessions, recycling, rivals, deleted>>
    BY <1>4 DEF LoginFailed, world, history
  <2>3. n \in Nat /\ n <= MaxAttempts + 1 /\ c.status = "ACTIVE"
    BY <1>1, <1>2, <2>1 DEF Refused
  <2> HIDE DEF n
  <2>4. /\ a \in AccountDoc /\ SameHolder(a, c) /\ SameLists(a, c) /\ a.status = c.status
        /\ a.loginFailedCount = n
    BY <1>1, <2>1, <2>3, FailuresChanged
  <2> HIDE DEF a
  <2>5. NextVersion(h, a)
    BY <2>1, <2>3, <2>4, SameListsVersion
  <2> QED BY <2>1, <2>2, <2>5 DEF Writes
<1>5. CASE LoginDone(h)
  <2> DEFINE a == [c EXCEPT !.loginFailedCount = 0]
  <2>1. Busy(h) /\ pc[h] \notin {"save", "index"} /\ ~Refused(c)
    BY <1>5 DEF LoginDone, Busy
  <2>2. /\ Update(h, a, TRUE) /\ Reply(h) /\ UNCHANGED <<tokens, aged, recycling, rivals, deleted>>
        /\ sessions' = sessions \/ (Stored(h) /\ sessions' = sessions \cup {loc[h].id})
    BY <1>5 DEF LoginDone, history
  <2>3. c.status = "ACTIVE" /\ 0 <= MaxAttempts + 1 /\ 0 \in Nat
    BY <1>1, <1>2, <2>1 DEF Refused
  <2>4. /\ a \in AccountDoc /\ SameHolder(a, c) /\ SameLists(a, c) /\ a.status = c.status
        /\ a.loginFailedCount = 0
    BY <1>1, <2>1, <2>3, FailuresChanged
  <2> HIDE DEF a
  <2>5. NextVersion(h, a)
    BY <2>1, <2>3, <2>4, SameListsVersion
  <2> QED BY <2>1, <2>2, <2>5 DEF Writes
<1>6. CASE SendNewPassword(h)
  <2> DEFINE s == IF c.status = "WAITING_ENROLLMENT" THEN "ACTIVE" ELSE c.status
  <2>1. Busy(h) /\ pc[h] \notin {"save", "index"}
    BY <1>6 DEF SendNewPassword, Busy
  <2>2. PICK p \in Passwords : Update(h, [c EXCEPT !.loginFailedCount = 0, !.password = p, !.status = s], TRUE)
    BY <1>6 DEF SendNewPassword
  <2>3. s = "ACTIVE" /\ s \in AccountStatus /\ 0 <= MaxAttempts + 1
    BY <1>1, <1>2, <2>1 DEF AccountStatus
  <2> HIDE DEF s
  <2> DEFINE a == [c EXCEPT !.loginFailedCount = 0, !.password = p, !.status = s]
  <2>4. /\ a \in AccountDoc /\ SameHolder(a, c) /\ SameLists(a, c) /\ a.status = s
        /\ a.loginFailedCount = 0
    <3>1. c \in AccountDoc
      BY <1>1, <2>1
    <3> HIDE DEF c
    <3>2. s \in AccountStatus
      BY <2>3
    <3> QED BY <3>1, <3>2 DEF AccountDoc, SameHolder, SameLists
  <2>5. Update(h, a, TRUE)
    BY <2>2
  <2> HIDE DEF a
  <2>6. NextVersion(h, a)
    BY <2>1, <2>3, <2>4, SameListsVersion
  <2>7. Reply(h) /\ UNCHANGED <<tokens, aged, sessions, recycling, rivals, deleted>>
    BY <1>6 DEF SendNewPassword, world, history
  <2> QED BY <2>1, <2>5, <2>6, <2>7 DEF Writes
<1>7. CASE EnrollVerify(h)
  <2>1. /\ Busy(h) /\ pc[h] \notin {"save", "index"} /\ pc[h] \in {"loaded", "enroll"}
        /\ Reply(h) /\ UNCHANGED <<tokens, aged, sessions, recycling, rivals, deleted>>
    BY <1>7 DEF EnrollVerify, Busy, world, history
  <2>2. \/ UNCHANGED <<accounts, index>>
        \/ \E n \in Phones :
             Update(h, [c EXCEPT !.telephone = {[lphone |-> n, pinCode3 |-> {}, status |-> "ACTIVE"]}], TRUE)
    BY <1>7 DEF EnrollVerify, documents
  <2>3. CASE UNCHANGED <<accounts, index>>
    BY <2>1, <2>3 DEF Replies
  <2>4. ASSUME NEW n \in Phones,
               Update(h, [c EXCEPT !.telephone = {[lphone |-> n, pinCode3 |-> {}, status |-> "ACTIVE"]}], TRUE)
        PROVE  Writes(h)
    <3> DEFINE T == {[lphone |-> n, pinCode3 |-> {}, status |-> "ACTIVE"]}
               a == [c EXCEPT !.telephone = T]
    <3>1. T \in SUBSET Telephone
      BY TelephoneType DEF TelephoneStatus
    <3>2. Update(h, a, TRUE)
      BY <2>4
    <3> HIDE DEF T
    <3>3. Kin(a, c) /\ SameLists(a, c)
      BY <1>1, <2>1, <3>1, TelephoneChanged
    <3> HIDE DEF a
    <3>4. NextVersion(h, a)
      BY <2>1, <3>3, KinVersion
    <3> QED BY <2>1, <3>2, <3>4 DEF Writes
  <2> QED BY <2>2, <2>3, <2>4
<1>8. CASE LoginRefused(h) \/ Abort(h)
  BY <1>8 DEF LoginRefused, Abort, Replies, documents, world, history
<1> QED BY <1>3, <1>4, <1>5, <1>6, <1>7, <1>8 DEF Continue

\* The requests that begin with a read of an account.
LEMMA ArriveCases ==
  ASSUME AccountsAgree, NEW h \in Requests, h \notin SignupReqs,
         ConfirmLoad(h) \/ LoginFind(h) \/ NewPasswordFind(h) \/ SessionLoad(h)
  PROVE  Takes(h) \/ Replies(h)
<1>1. pc[h] = "idle" /\ UNCHANGED <<accounts, index, tokens, aged, sessions, recycling, rivals, deleted>>
  BY DEF ConfirmLoad, LoginFind, NewPasswordFind, SessionLoad, documents, world, history
<1>2. TypeOK /\ DocumentsInv
  BY DEF AccountsAgree
<1>3. ASSUME NEW u \in Uuids, NEW p \in {"confirm", "login", "newPassword", "loaded"},
             NEW d \in {accounts[u], index[u]}, Exists(d),
             p = "loaded" => d = accounts[u] /\ d.status = "ACTIVE", Goto(h, p, [id |-> u, copy |-> d])
      PROVE  Takes(h)
  BY <1>1, <1>3 DEF Takes
<1>4. CASE Reply(h)
  BY <1>1, <1>4 DEF Replies
<1>5. CASE ConfirmLoad(h) /\ ~Reply(h)
  <2>1. PICK u \in tokens : Exists(accounts[u]) /\ Goto(h, "confirm", [id |-> u, copy |-> accounts[u]])
    BY <1>5 DEF ConfirmLoad
  <2>2. u \in Uuids
    BY <1>2 DEF TypeOK, Uuids
  <2> QED BY <1>3, <2>1, <2>2
<1>6. CASE LoginFind(h) /\ ~Reply(h)
  <2>1. PICK u \in Uuids : Exists(index[u]) /\ Goto(h, "login", [id |-> u, copy |-> index[u]])
    BY <1>6 DEF LoginFind, Search
  <2> QED BY <1>3, <2>1
<1>7. CASE NewPasswordFind(h) /\ ~Reply(h)
  <2>1. PICK u \in Uuids : Exists(index[u]) /\ Goto(h, "newPassword", [id |-> u, copy |-> index[u]])
    BY <1>7 DEF NewPasswordFind, FindByEmail, Search
  <2> QED BY <1>3, <2>1
<1>8. CASE SessionLoad(h) /\ ~Reply(h)
  <2>1. PICK u \in sessions : Exists(accounts[u]) /\ Goto(h, "loaded", [id |-> u, copy |-> accounts[u]])
    BY <1>8 DEF SessionLoad
  <2>2. u \in Uuids
    BY <1>2 DEF TypeOK
  <2>3. accounts[u].status = "ACTIVE"
    BY <1>2, <2>1, <2>2 DEF DocumentsInv
  <2> QED BY <1>3, <2>1, <2>2, <2>3
<1> QED BY <1>4, <1>5, <1>6, <1>7, <1>8

-----------------------------------------------------------------------------
(* What survives a step.                                                   *)

\* A document that is there was there, has the same holder and is still confirmed.
Evolves(u) ==
  Exists(accounts'[u]) =>
    /\ Exists(accounts[u]) /\ SameHolder(accounts'[u], accounts[u])
    /\ accounts[u].status = "ACTIVE" => accounts'[u].status = "ACTIVE"

\* A handler that does not move keeps what it knows.
LEMMA OtherHandlers ==
  ASSUME NEW g \in Requests, HandlerInv(g), pc'[g] = pc[g], loc'[g] = loc[g],
         Busy(g) => Evolves(loc[g].id)
  PROVE  HandlerInv(g)'
<1>1. Busy(g)' <=> Busy(g)
  BY DEF Busy
<1>2. Copy(g)' = Copy(g)
  BY DEF Copy
<1>3. CASE ~Busy(g)
  <2>1. pc[g] \in {"idle", "replied"}
    BY <1>3 DEF Busy
  <2> QED BY <1>1, <1>3, <2>1 DEF HandlerInv
<1>4. CASE Busy(g)
  <2>1. Stored(g)' => /\ Stored(g) /\ SameHolder(accounts'[loc[g].id], accounts[loc[g].id])
                      /\ accounts[loc[g].id].status = "ACTIVE" => accounts'[loc[g].id].status = "ACTIVE"
    BY <1>4 DEF Stored, Evolves
  <2>2. Busy(g) /\ Stored(g)' => SameHolder(Copy(g), accounts'[loc[g].id])
    BY <2>1 DEF HandlerInv, SameHolder
  <2>3. pc[g] \in {"loaded", "enroll"} => /\ Copy(g).status = "ACTIVE"
                                          /\ Stored(g)' => accounts'[loc[g].id].status = "ACTIVE"
    BY <2>1 DEF HandlerInv
  <2>4. /\ loc[g].id \in Uuids /\ Copy(g) \in AccountDoc /\ Fine(Copy(g))
        /\ pc[g] \in {"save", "index"} => loc[g].id = g
        /\ g \in SignupReqs <=> pc[g] \in {"save", "index"}
    BY <1>4 DEF HandlerInv
  <2> QED BY <1>1, <1>2, <1>4, <2>2, <2>3, <2>4 DEF HandlerInv
<1> QED BY <1>3, <1>4

\* The lists and counts of the stored documents.
LEMMA DocumentsGive ==
  ASSUME DocumentsInv'
  PROVE  ListsAreSound' /\ FailuresAreBounded'
  BY DEF DocumentsInv, Fine, ListsAreSound, FailuresAreBounded

\* A signup that does not go on keeps what it knows of its rivals.
LEMMA RivalFollows ==
  ASSUME NEW h \in SignupReqs, RivalInv(h), rivals'[h] = rivals[h],
         Evolves(h), \A u \in rivals[h] : Evolves(u),
         pc'[h] \in {"save", "index"} => pc'[h] = pc[h] /\ loc'[h] = loc[h]
  PROVE  RivalInv(h)'
<1>1. SUFFICES ASSUME NEW u \in rivals[h], Exists(accounts'[u])
               PROVE  /\ pc'[h] = "save" => accounts'[u].email = loc'[h].copy.email
                      /\ pc'[h] = "index" => accounts'[u].owner # Asked(loc'[h].copy.owner)
                      /\ Exists(accounts'[h]) => accounts'[u].owner # Asked(accounts'[h].owner)
  BY DEF RivalInv, Copy, Asked
<1>2. Exists(accounts[u]) /\ SameHolder(accounts'[u], accounts[u])
  BY <1>1 DEF Evolves
<1>3. /\ pc[h] = "save" => accounts[u].email = loc[h].copy.email
      /\ pc[h] = "index" => accounts[u].owner # Asked(loc[h].copy.owner)
      /\ Exists(accounts[h]) => accounts[u].owner # Asked(accounts[h].owner)
  BY <1>1, <1>2 DEF RivalInv, Copy
<1>4. Exists(accounts'[h]) => Exists(accounts[h]) /\ SameHolder(accounts'[h], accounts[h])
  BY DEF Evolves
<1> QED BY <1>2, <1>3, <1>4 DEF SameHolder

\* Signups in progress, rivals and deleted accounts, when documents only evolve.
LEMMA RivalsStay ==
  ASSUME AccountsAgree, \A u \in Uuids : Evolves(u), UNCHANGED rivals,
         \A d \in deleted' : d \in deleted \/ ~Exists(accounts'[d.id]),
         \A s \in SignupReqs : pc'[s] \in {"save", "index"} => pc'[s] = pc[s] /\ loc'[s] = loc[s]
  PROVE  (\A s \in SignupReqs : RivalInv(s)') /\ DeletedStaysDeleted'
<1>1. TypeOK /\ (\A s \in SignupReqs : RivalInv(s)) /\ DeletedStaysDeleted
  BY DEF AccountsAgree
<1>2. DeletedStaysDeleted'
  BY <1>1 DEF DeletedStaysDeleted, TypeOK, Evolves
<1>3. \A s \in SignupReqs : s \in Uuids /\ rivals[s] \subseteq Uuids
  BY <1>1 DEF TypeOK, Uuids
<1>4. ASSUME NEW s \in SignupReqs PROVE RivalInv(s)'
  <2>1. RivalInv(s) /\ Evolves(s) /\ \A u \in rivals[s] : Evolves(u)
    BY <1>1, <1>3
  <2>2. pc'[s] \in {"save", "index"} => pc'[s] = pc[s] /\ loc'[s] = loc[s]
    OBVIOUS
  <2> QED BY <2>1, <2>2, RivalFollows
<1> QED BY <1>2, <1>4

-----------------------------------------------------------------------------
(* A handler that reads, writes or answers.                                *)

\* What the handler wrote to document u.
Written(h, u) ==
  /\ Busy(h) /\ Stored(h) /\ u = loc[h].id
  /\ NextVersion(h, accounts'[u])
  /\ pc'[h] = "replied"

\* The effect of a step of one of the three kinds on the documents and sessions.
LEMMA ActEffect ==
  ASSUME AccountsAgree, NEW h \in Requests, Writes(h) \/ Takes(h) \/ Replies(h)
  PROVE  /\ accounts' \in [Uuids -> AccountDoc \cup {NoAccount}]
         /\ index' \in [Uuids -> AccountDoc \cup {NoAccount}]
         /\ \A u \in Uuids : \/ accounts'[u] = accounts[u] /\ index'[u] = index[u]
                             \/ Written(h, u) /\ index'[u] \in {index[u], accounts'[u]}
         /\ \/ sessions' = sessions
            \/ Busy(h) /\ Stored(h) /\ sessions' = sessions \cup {loc[h].id} /\ Written(h, loc[h].id)
         /\ UNCHANGED <<tokens, aged, recycling, rivals, deleted>>
<1>1. /\ accounts \in [Uuids -> AccountDoc \cup {NoAccount}]
      /\ index \in [Uuids -> AccountDoc \cup {NoAccount}]
  BY StoreType
<1>2. CASE Takes(h) \/ Replies(h)
  BY <1>1, <1>2 DEF Takes, Replies
<1>3. CASE Writes(h)
  <2>1. PICK a, refresh : NextVersion(h, a) /\ Update(h, a, refresh)
    BY <1>3 DEF Writes
  <2>2. loc[h].id \in Uuids /\ a \in AccountDoc /\ Busy(h)
    BY <1>3, <2>1, AtWork DEF Writes, NextVersion
  <2>3. pc'[h] = "replied"
    BY <1>3 DEF Writes, Reply, Goto, AccountsAgree, TypeOK
  <2>4. CASE Stored(h)
    <3>1. /\ accounts' = [accounts EXCEPT ![loc[h].id] = a]
          /\ index' = index \/ index' = [index EXCEPT ![loc[h].id] = a]
      BY <2>1, <2>4 DEF Update
    <3>2. /\ accounts'[loc[h].id] = a /\ index'[loc[h].id] \in {index[loc[h].id], a}
          /\ \A u \in Uuids \ {loc[h].id} : accounts'[u] = accounts[u] /\ index'[u] = index[u]
      BY <1>1, <2>2, <3>1
    <3>3. Written(h, loc[h].id)
      BY <2>1, <2>2, <2>3, <2>4, <3>2 DEF Written
    <3>4. /\ accounts' \in [Uuids -> AccountDoc \cup {NoAccount}]
          /\ index' \in [Uuids -> AccountDoc \cup {NoAccount}]
      BY <1>1, <2>2, <3>1
    <3> QED BY <1>3, <2>2, <2>4, <3>2, <3>3, <3>4 DEF Writes
  <2>5. CASE ~Stored(h)
    <3>1. UNCHANGED <<accounts, index>>
      BY <2>1, <2>5 DEF Update, documents
    <3> QED BY <1>1, <1>3, <2>5, <3>1 DEF Writes
  <2> QED BY <2>4, <2>5
<1> QED BY <1>2, <1>3

\* Where the handler is then and what it holds.
LEMMA ActMove ==
  ASSUME AccountsAgree, NEW h \in Requests, Writes(h) \/ Takes(h) \/ Replies(h)
  PROVE  \E p, l :
           /\ pc' \in [Requests -> Places] /\ loc' \in [Requests -> Locals]
           /\ pc'[h] = p /\ loc'[h] = l
           /\ \A g \in Requests \ {h} : pc'[g] = pc[g] /\ loc'[g] = loc[g]
           /\ \/ p = "replied" /\ l = NoLocals
              \/ /\ h \notin SignupReqs /\ pc[h] \in {"idle", "loaded"}
                 /\ p \in {"confirm", "login", "newPassword", "loaded", "enroll"}
                 /\ \E u \in Uuids :
                      /\ l.id = u /\ l.copy \in {accounts[u], index[u]} /\ Exists(l.copy) /\ l.copy \in AccountDoc
                      /\ p \in {"loaded", "enroll"} => l.copy = accounts[u] /\ l.copy.status = "ACTIVE"
                 /\ UNCHANGED <<accounts, index, sessions>>
<1>1. pc \in [Requests -> Places] /\ loc \in [Requests -> Locals]
  BY DEF AccountsAgree, TypeOK
<1>2. ASSUME NEW p \in Places, NEW l \in Locals, Goto(h, p, l)
      PROVE  /\ pc' \in [Requests -> Places] /\ loc' \in [Requests -> Locals]
             /\ pc'[h] = p /\ loc'[h] = l
             /\ \A g \in Requests \ {h} : pc'[g] = pc[g] /\ loc'[g] = loc[g]
  BY <1>1, <1>2 DEF Goto
<1>3. CASE Writes(h) \/ Replies(h)
  <2>1. Goto(h, "replied", NoLocals)
    BY <1>3 DEF Writes, Replies, Reply
  <2>2. "replied" \in Places /\ NoLocals \in Locals
    BY DEF Places, Locals
  <2> QED BY <1>2, <2>1, <2>2
<1>4. CASE Takes(h)
  <2>0. PICK u \in Uuids, p \in {"confirm", "login", "newPassword", "loaded", "enroll"} :
          \E d \in {accounts[u], index[u]} :
            /\ Exists(d)
            /\ p \in {"loaded", "enroll"} => d = accounts[u] /\ d.status = "ACTIVE"
            /\ Goto(h, p, [id |-> u, copy |-> d])
    BY <1>4 DEF Takes
  <2>1. PICK d \in {accounts[u], index[u]} :
          /\ Exists(d)
          /\ p \in {"loaded", "enroll"} => d = accounts[u] /\ d.status = "ACTIVE"
          /\ Goto(h, p, [id |-> u, copy |-> d])
    BY <2>0
  <2> DEFINE l == [id |-> u, copy |-> d]
  <2>2. d \in AccountDoc
    BY <2>1, StoreType
  <2>3. l \in Locals /\ l.id = u /\ l.copy = d
    BY <2>2 DEF Locals
  <2>4. p \in Places /\ Goto(h, p, l)
    BY <2>1 DEF Places
  <2> HIDE DEF l
  <2>5. /\ pc' \in [Requests -> Places] /\ loc' \in [Requests -> Locals]
        /\ pc'[h] = p /\ loc'[h] = l
        /\ \A g \in Requests \ {h} : pc'[g] = pc[g] /\ loc'[g] = loc[g]
    BY <1>2, <2>3, <2>4
  <2>6. h \notin SignupReqs /\ pc[h] \in {"idle", "loaded"} /\ UNCHANGED <<accounts, index, sessions>>
    BY <1>4 DEF Takes
  <2> QED BY <2>1, <2>2, <2>3, <2>5, <2>6
<1> QED BY <1>3, <1>4

\* Documents evolve under such a step.
LEMMA ActEvolves ==
  ASSUME AccountsAgree, NEW h \in Requests, Writes(h) \/ Takes(h) \/ Replies(h)
  PROVE  \A u \in Uuids : Evolves(u)
<1>1. SUFFICES ASSUME NEW u \in Uuids PROVE Evolves(u)
  OBVIOUS
<1>2. CASE accounts'[u] = accounts[u]
  BY <1>2 DEF Evolves, SameHolder
<1>3. CASE Written(h, u)
  <2>1. SameHolder(Copy(h), accounts[u]) /\ Exists(accounts[u])
    BY <1>3 DEF Written, AccountsAgree, HandlerInv, Stored
  <2>2. accounts'[u].status = "ACTIVE" /\ SameHolder(accounts'[u], Copy(h))
    BY <1>3 DEF Written, NextVersion
  <2> QED BY <2>1, <2>2 DEF Evolves, SameHolder
<1> QED BY <1>2, <1>3, ActEffect

\* The documents, their index and the sessions.
LEMMA ActDocuments ==
  ASSUME AccountsAgree, NEW h \in Requests, Writes(h) \/ Takes(h) \/ Replies(h)
  PROVE  DocumentsInv'
<1>1. SUFFICES ASSUME NEW u \in Uuids
               PROVE  /\ Exists(accounts'[u]) => /\ Fine(accounts'[u])
                                                 /\ Exists(index'[u]) /\ SameHolder(index'[u], accounts'[u])
                                                 /\ u \in sessions' => accounts'[u].status = "ACTIVE"
                      /\ Exists(index'[u]) => Fine(index'[u])
  BY DEF DocumentsInv
<1>2. DocumentsInv
  BY DEF AccountsAgree
<1>3. CASE Written(h, u) /\ index'[u] \in {index[u], accounts'[u]}
  <2>1. SameHolder(Copy(h), accounts[u]) /\ Exists(accounts[u])
    BY <1>3 DEF Written, AccountsAgree, HandlerInv, Stored
  <2>2. /\ Fine(accounts'[u]) /\ accounts'[u].status = "ACTIVE" /\ SameHolder(accounts'[u], Copy(h))
        /\ accounts'[u] \in AccountDoc
    BY <1>3 DEF Written, NextVersion
  <2>3. Exists(index[u]) /\ SameHolder(index[u], accounts[u]) /\ Fine(index[u])
    BY <1>2, <2>1 DEF DocumentsInv
  <2>4. SameHolder(index'[u], accounts'[u])
    BY <1>3, <2>1, <2>2, <2>3 DEF SameHolder
  <2>5. Exists(index'[u]) /\ Fine(index'[u])
    BY <1>3, <2>2, <2>3, NoAccountType
  <2> QED BY <2>2, <2>4, <2>5
<1>4. CASE ~Written(h, u) /\ accounts'[u] = accounts[u] /\ index'[u] = index[u]
  <2>1. u \in sessions' => u \in sessions
    BY <1>4, ActEffect
  <2> QED BY <1>2, <1>4, <2>1 DEF DocumentsInv
<1> QED BY <1>3, <1>4, ActEffect

\* The handlers.
LEMMA ActHandlers ==
  ASSUME AccountsAgree, NEW h \in Requests, Writes(h) \/ Takes(h) \/ Replies(h)
  PROVE  \A g \in Requests : HandlerInv(g)'
<1>1. PICK p, l :
           /\ pc'[h] = p /\ loc'[h] = l
           /\ \A g \in Requests \ {h} : pc'[g] = pc[g] /\ loc'[g] = loc[g]
           /\ \/ p = "replied" /\ l = NoLocals
              \/ /\ h \notin SignupReqs /\ pc[h] \in {"idle", "loaded"}
                 /\ p \in {"confirm", "login", "newPassword", "loaded", "enroll"}
                 /\ \E u \in Uuids :
                      /\ l.id = u /\ l.copy \in {accounts[u], index[u]} /\ Exists(l.copy) /\ l.copy \in AccountDoc
                      /\ p \in {"loaded", "enroll"} => l.copy = accounts[u] /\ l.copy.status = "ACTIVE"
                 /\ UNCHANGED <<accounts, index, sessions>>
  BY ActMove
<1>2. ASSUME NEW g \in Requests \ {h} PROVE HandlerInv(g)'
  <2>1. HandlerInv(g)
    BY DEF AccountsAgree
  <2>2. Busy(g) => Evolves(loc[g].id)
    BY <2>1, ActEvolves DEF HandlerInv
  <2> QED BY <1>1, <2>1, <2>2, OtherHandlers
<1>3. HandlerInv(h)'
  <2>1. CASE p = "replied" /\ l = NoLocals
    BY <1>1, <2>1 DEF HandlerInv, Busy
  <2>2. CASE /\ h \notin SignupReqs
             /\ p \in {"confirm", "login", "newPassword", "loaded", "enroll"}
             /\ \E u \in Uuids :
                  /\ l.id = u /\ l.copy \in {accounts[u], index[u]} /\ Exists(l.copy) /\ l.copy \in AccountDoc
                  /\ p \in {"loaded", "enroll"} => l.copy = accounts[u] /\ l.copy.status = "ACTIVE"
             /\ UNCHANGED <<accounts, index, sessions>>
    <3>1. PICK u \in Uuids :
                  /\ l.id = u /\ l.copy \in {accounts[u], index[u]} /\ Exists(l.copy) /\ l.copy \in AccountDoc
                  /\ p \in {"loaded", "enroll"} => l.copy = accounts[u] /\ l.copy.status = "ACTIVE"
      BY <2>2
    <3>2. DocumentsInv
      BY DEF AccountsAgree
    <3>3. Fine(l.copy) /\ (Exists(accounts[u]) => SameHolder(l.copy, accounts[u]))
      BY <3>1, <3>2 DEF DocumentsInv, SameHolder
    <3>4. /\ Busy(h)' /\ Copy(h)' = l.copy /\ loc'[h].id = u /\ (Stored(h)' <=> Exists(accounts[u]))
      BY <1>1, <2>2, <3>1 DEF Busy, Copy, Stored
    <3>5. p \notin {"save", "index"}
      BY <2>2
    <3> QED BY <1>1, <2>2, <3>1, <3>3, <3>4, <3>5 DEF HandlerInv
  <2> QED BY <1>1, <2>1, <2>2
<1> QED BY <1>2, <1>3

\* The uuids that are still to be used.
LEMMA ActFresh ==
  ASSUME AccountsAgree, NEW h \in Requests, Writes(h) \/ Takes(h) \/ Replies(h)
  PROVE  FreshInv' /\ UnbornInv'
<1>1. PICK p, l :
           /\ pc'[h] = p /\ loc'[h] = l
           /\ \A g \in Requests \ {h} : pc'[g] = pc[g] /\ loc'[g] = loc[g]
           /\ \/ p = "replied" /\ l = NoLocals
              \/ /\ h \notin SignupReqs /\ pc[h] \in {"idle", "loaded"}
                 /\ p \in {"confirm", "login", "newPassword", "loaded", "enroll"}
                 /\ \E u \in Uuids :
                      /\ l.id = u /\ l.copy \in {accounts[u], index[u]} /\ Exists(l.copy) /\ l.copy \in AccountDoc
                      /\ p \in {"loaded", "enroll"} => l.copy = accounts[u] /\ l.copy.status = "ACTIVE"
                 /\ UNCHANGED <<accounts, index, sessions>>
  BY ActMove
<1>2. FreshInv /\ UnbornInv /\ TypeOK
  BY DEF AccountsAgree
<1>3. Busy(h)' => \E u \in Uuids : l.id = u /\ l.copy \in {accounts[u], index[u]} /\ Exists(l.copy)
  BY <1>1 DEF Busy
<1>4. FreshInv'
  <2>1. SUFFICES ASSUME NEW q \in SessionReqs, pc'[q] # "replied"
                 PROVE  /\ \A u \in Uuids : /\ Exists(accounts'[u]) => Lacks(accounts'[u], q)
                                            /\ Exists(index'[u]) => Lacks(index'[u], q)
                        /\ \A g \in Requests : Busy(g)' => Lacks(loc'[g].copy, q)
    BY DEF FreshInv, Copy
  <2>2. q \in Requests
    BY DEF Requests
  <2>3. pc[q] # "replied"
    BY <1>1, <2>1, <2>2
  <2>4. /\ \A u \in Uuids : /\ Exists(accounts[u]) => Lacks(accounts[u], q)
                            /\ Exists(index[u]) => Lacks(index[u], q)
        /\ \A g \in Requests : Busy(g) => Lacks(Copy(g), q)
    BY <1>2, <2>3 DEF FreshInv
  <2>5. \A u \in Uuids : Written(h, u) => Lacks(accounts'[u], q)
    <3>1. ASSUME NEW u \in Uuids, Written(h, u) PROVE q # h /\ Busy(h) /\ NextVersion(h, accounts'[u])
      BY <2>1, <3>1 DEF Written
    <3> QED BY <2>4, <3>1 DEF NextVersion
  <2>6. \A u \in Uuids : /\ Exists(accounts'[u]) => Lacks(accounts'[u], q)
                         /\ Exists(index'[u]) => Lacks(index'[u], q)
    BY <2>4, <2>5, ActEffect
  <2>7. ASSUME NEW g \in Requests, Busy(g)' PROVE Lacks(loc'[g].copy, q)
    <3>1. CASE g = h
      BY <1>1, <1>3, <2>4, <2>7, <3>1
    <3>2. CASE g # h
      BY <1>1, <2>4, <2>7, <3>2 DEF Busy, Copy
    <3> QED BY <3>1, <3>2
  <2> QED BY <2>6, <2>7
<1>5. UnbornInv'
  <2>1. SUFFICES ASSUME NEW s \in SignupReqs, pc'[s] # "replied"
                 PROVE  /\ ~Exists(accounts'[s]) /\ ~Exists(index'[s]) /\ s \notin sessions'
                        /\ \A g \in Requests \ {s} : Busy(g)' => loc'[g].id # s
                        /\ \A d \in deleted' : d.id # s
                        /\ \A g \in SignupReqs : s \notin rivals'[g]
    BY DEF UnbornInv
  <2>2. s \in Requests /\ s \in Uuids
    BY DEF Requests, Uuids
  <2>3. pc[s] # "replied"
    BY <1>1, <2>1, <2>2
  <2>4. /\ ~Exists(accounts[s]) /\ ~Exists(index[s]) /\ s \notin sessions
        /\ \A g \in Requests \ {s} : Busy(g) => loc[g].id # s
        /\ \A d \in deleted : d.id # s
        /\ \A g \in SignupReqs : s \notin rivals[g]
    BY <1>2, <2>3 DEF UnbornInv
  <2>5. ~Exists(accounts'[s])
    BY <2>2, <2>4, ActEvolves DEF Evolves
  <2>6. Stored(h) => loc[h].id # s
    BY <2>4 DEF Stored
  <2>7. ~Exists(index'[s]) /\ s \notin sessions' /\ UNCHANGED <<rivals, deleted>>
    <3>1. /\ index'[s] \in {index[s], accounts'[s]} /\ UNCHANGED <<rivals, deleted>>
          /\ sessions' = sessions \/ (Stored(h) /\ sessions' = sessions \cup {loc[h].id})
      BY <2>2, ActEffect
    <3> QED BY <2>4, <2>5, <2>6, <3>1
  <2>8. ASSUME NEW g \in Requests \ {s}, Busy(g)' PROVE loc'[g].id # s
    <3>1. CASE g = h
      BY <1>1, <1>3, <2>4, <2>8, <3>1
    <3>2. CASE g # h
      BY <1>1, <2>4, <2>8, <3>2 DEF Busy
    <3> QED BY <3>1, <3>2
  <2> QED BY <2>4, <2>5, <2>7, <2>8
<1> QED BY <1>4, <1>5

\* A handler that reads, writes or answers keeps documents, index and copies in agreement.
LEMMA ActKeeps ==
  ASSUME AccountsAgree, NEW h \in Requests, Writes(h) \/ Takes(h) \/ Replies(h)
  PROVE  AccountsAgree'
<1>1. DocumentsInv' /\ (\A g \in Requests : HandlerInv(g)') /\ FreshInv' /\ UnbornInv'
  BY ActDocuments, ActHandlers, ActFresh
<1>2. ListsAreSound' /\ FailuresAreBounded'
  BY <1>1, DocumentsGive
<1>3. \A s \in SignupReqs : pc'[s] \in {"save", "index"} => pc'[s] = pc[s] /\ loc'[s] = loc[s]
  BY ActMove DEF Requests
<1>4. (\A s \in SignupReqs : RivalInv(s)') /\ DeletedStaysDeleted'
  BY <1>3, ActEvolves, ActEffect, RivalsStay
<1>5. TypeOK'
  <2>1. TypeOK
    BY DEF AccountsAgree
  <2>2. Busy(h) => loc[h].id \in Uuids
    BY AtWork
  <2>3. sessions' \subseteq Uuids
    BY <2>1, <2>2, ActEffect DEF TypeOK
  <2>4. pc' \in [Requests -> Places] /\ loc' \in [Requests -> Locals]
    BY ActMove
  <2>5. /\ accounts' \in [Uuids -> AccountDoc \cup {NoAccount}]
        /\ index' \in [Uuids -> AccountDoc \cup {NoAccount}]
        /\ UNCHANGED <<tokens, aged, recycling, rivals, deleted>>
    BY ActEffect
  <2> QED BY <2>1, <2>3, <2>4, <2>5 DEF TypeOK
<1> QED BY <1>1, <1>2, <1>4, <1>5 DEF AccountsAgree

-----------------------------------------------------------------------------
(* Signup, register and save.                                              *)

\* The account a signup builds.
LEMMA NewAccountFacts ==
  ASSUME NEW u \in Uuids, NEW e \in Emails, NEW o \in Owners, NEW s \in {"ACTIVE", "WAITING_ENROLLMENT"},
         NEW p \in Passwords, NEW T \in SUBSET Telephone, NEW ship \in BOOLEAN
  PROVE  LET a == NewAccount(u, e, o, s, p, T, ship)
         IN  /\ a \in AccountDoc /\ Fine(a) /\ a.email = e /\ a.owner = o /\ a.status = s
             /\ \A g : g # u => Lacks(a, g)
<1> DEFINE n == [uuid |-> u, active |-> TRUE, road |-> "given"]
           S == IF ship THEN {n} ELSE {}
           b == T # {}
           a == [email |-> e, owner |-> o, status |-> s, password |-> p, loginFailedCount |-> 0,
                 address |-> b, telephone |-> T, shippingAddresses |-> S, creditCards |-> {}]
<1>1. a = NewAccount(u, e, o, s, p, T, ship)
  BY DEF NewAccount
<1>2. n \in ShippingAddress /\ n.uuid = u
  BY DEF ShippingAddress, ListUuids
<1> HIDE DEF n
<1>3. S \in SUBSET ShippingAddress /\ S \subseteq {n} /\ b \in BOOLEAN
  BY <1>2
<1> HIDE DEF S, b
<1>4. a \in AccountDoc
  BY <1>3 DEF AccountDoc, AccountStatus
<1>5. /\ a.shippingAddresses = S /\ a.creditCards = {} /\ a.loginFailedCount = 0
      /\ a.email = e /\ a.owner = o /\ a.status = s
  OBVIOUS
<1> HIDE DEF a
<1>6. Sound(a)
  BY <1>3, <1>5 DEF Sound
<1>7. Fine(a)
  BY <1>5, <1>6, ConfigAssumption DEF Fine
<1>8. \A g : g # u => Lacks(a, g)
  BY <1>2, <1>3, <1>5 DEF Lacks
<1> QED BY <1>1, <1>4, <1>5, <1>7, <1>8

\* A signup arrives, and is refused or goes on with the account it builds.
Begins(h) ==
  /\ h \in SignupReqs /\ pc[h] = "idle"
  /\ \E a \in AccountDoc :
       /\ Fine(a) /\ \A g \in SessionReqs : Lacks(a, g)
       /\ Reply(h) \/ Goto(h, "save", [id |-> h, copy |-> a])
       /\ rivals' = [rivals EXCEPT ![h] = Holders(a.email)]
  /\ UNCHANGED <<accounts, index, tokens, aged, sessions, recycling, deleted>>

\* signup and register do.
LEMMA SignupBegins ==
  ASSUME NEW h \in SignupReqs, Signup(h) \/ Register(h)
  PROVE  Begins(h)
<1>1. h \in Uuids /\ \A g \in SessionReqs : g # h
  BY RequestAssumption DEF Uuids
<1>2. pc[h] = "idle" /\ UNCHANGED <<accounts, index, tokens, aged, sessions, recycling, deleted>>
  BY DEF Signup, Register, documents, world
<1>3. ASSUME NEW a \in AccountDoc, Fine(a), \A g : g # h => Lacks(a, g),
             Reply(h) \/ Goto(h, "save", [id |-> h, copy |-> a]),
             rivals' = [rivals EXCEPT ![h] = Holders(a.email)]
      PROVE  Begins(h)
  BY <1>1, <1>2, <1>3 DEF Begins
<1>4. CASE Signup(h)
  <2>1. PICK email \in Emails, owner \in Owners, p \in Passwords, n \in Phones, ship \in BOOLEAN :
       LET status  == IF owner \in ValidateEmail THEN "WAITING_ENROLLMENT" ELSE "ACTIVE"
           phone   == IF owner \in ValidatePhone THEN "WAITING_ENROLLMENT" ELSE "ACTIVE"
           account == NewAccount(h, email, owner, status, p, {BuildTelephone(n, phone)}, ship)
       IN  /\ Reply(h) \/ Goto(h, "save", [id |-> h, copy |-> account])
           /\ rivals' = [rivals EXCEPT ![h] = Holders(email)]
    BY <1>4 DEF Signup
  <2> DEFINE status == IF owner \in ValidateEmail THEN "WAITING_ENROLLMENT" ELSE "ACTIVE"
             phone  == IF owner \in ValidatePhone THEN "WAITING_ENROLLMENT" ELSE "ACTIVE"
             T      == {BuildTelephone(n, phone)}
             a      == NewAccount(h, email, owner, status, p, T, ship)
  <2>2. status \in {"ACTIVE", "WAITING_ENROLLMENT"} /\ phone \in TelephoneStatus
    BY DEF TelephoneStatus
  <2>3. T \in SUBSET Telephone
    BY <2>2, TelephoneType
  <2>4. Reply(h) \/ Goto(h, "save", [id |-> h, copy |-> a])
    BY <2>1
  <2> HIDE DEF status, T
  <2>5. /\ a \in AccountDoc /\ Fine(a) /\ a.email = email /\ a.owner = owner
        /\ \A g : g # h => Lacks(a, g)
    BY <1>1, <2>2, <2>3, NewAccountFacts
  <2> HIDE DEF a
  <2> QED BY <1>3, <2>1, <2>4, <2>5
<1>5. CASE Register(h)
  <2>1. PICK email \in Emails, p \in Passwords :
          /\ Reply(h) \/ Goto(h, "save", [id |-> h, copy |-> NewAccount(h, email, "none", "ACTIVE", p, {}, FALSE)])
          /\ rivals' = [rivals EXCEPT ![h] = Holders(email)]
    BY <1>5 DEF Register
  <2> DEFINE a == NewAccount(h, email, "none", "ACTIVE", p, {}, FALSE)
  <2>2. /\ a \in AccountDoc /\ Fine(a) /\ a.email = email /\ a.owner = "none"
        /\ \A g : g # h => Lacks(a, g)
    <3>1. ASSUME NEW f \in BOOLEAN, NEW o \in Owners, NEW s \in {"ACTIVE", "WAITING_ENROLLMENT"}, NEW T \in SUBSET Telephone
          PROVE  LET n == NewAccount(h, email, o, s, p, T, f)
                 IN  /\ n \in AccountDoc /\ Fine(n) /\ n.email = email /\ n.owner = o
                     /\ \A g : g # h => Lacks(n, g)
      BY <1>1, NewAccountFacts
    <3> QED BY <3>1, Zenon DEF Owners
  <2> HIDE DEF a
  <2> QED BY <1>3, <2>1, <2>2 DEF a
<1> QED BY <1>4, <1>5

\* A signup that arrives is known to nothing, and knows its rivals.
LEMMA BeginKeeps ==
  ASSUME AccountsAgree, NEW h \in SignupReqs, Begins(h)
  PROVE  AccountsAgree'
<1>1. TypeOK /\ DocumentsInv /\ HandlerInv(h) /\ UnbornInv /\ FreshInv /\ (\A s \in SignupReqs : RivalInv(s))
      /\ DeletedStaysDeleted /\ ListsAreSound /\ FailuresAreBounded /\ h \in Requests /\ h \in Uuids
  BY DEF AccountsAgree, Requests, Uuids
<1>2. PICK a \in AccountDoc :
       /\ Fine(a) /\ \A g \in SessionReqs : Lacks(a, g)
       /\ Reply(h) \/ Goto(h, "save", [id |-> h, copy |-> a])
       /\ rivals' = [rivals EXCEPT ![h] = Holders(a.email)]
  BY DEF Begins
<1>3. pc[h] = "idle" /\ UNCHANGED <<accounts, index, tokens, aged, sessions, recycling, deleted>>
  BY DEF Begins
<1>4. PICK p, l : /\ \/ p = "replied" /\ l = NoLocals
                     \/ p = "save" /\ l \in Locals /\ l.id = h /\ l.copy = a
                  /\ Goto(h, p, l)
  <2>1. [id |-> h, copy |-> a] \in Locals
    BY <1>1 DEF Locals
  <2> QED BY <1>2, <2>1 DEF Reply
<1>5. /\ pc' \in [Requests -> Places] /\ loc' \in [Requests -> Locals]
      /\ pc'[h] = p /\ loc'[h] = l
      /\ \A g \in Requests \ {h} : pc'[g] = pc[g] /\ loc'[g] = loc[g]
  <2>1. p \in Places /\ l \in Locals
    BY <1>4 DEF Places, Locals
  <2> QED BY <1>1, <1>4, <2>1 DEF Goto, TypeOK
<1>6. /\ rivals'[h] = Holders(a.email) /\ rivals' \in [SignupReqs -> SUBSET Uuids]
      /\ \A g \in SignupReqs \ {h} : rivals'[g] = rivals[g]
  BY <1>1, <1>2 DEF TypeOK, Holders
<1>7. \A u \in rivals'[h] : u \in Uuids /\ Exists(accounts[u]) /\ accounts[u].email = a.email
  BY <1>6 DEF Holders
<1>8. /\ ~Exists(accounts[h]) /\ ~Exists(index[h]) /\ h \notin sessions
      /\ \A g \in Requests \ {h} : Busy(g) => loc[g].id # h
      /\ \A d \in deleted : d.id # h
      /\ \A g \in SignupReqs : h \notin rivals[g]
  BY <1>1, <1>3 DEF UnbornInv
<1>9. TypeOK'
  BY <1>1, <1>3, <1>5, <1>6 DEF TypeOK
<1>10. DocumentsInv' /\ DeletedStaysDeleted' /\ ListsAreSound' /\ FailuresAreBounded'
  BY <1>1, <1>3 DEF DocumentsInv, DeletedStaysDeleted, ListsAreSound, FailuresAreBounded
<1>11. ASSUME NEW g \in Requests PROVE HandlerInv(g)'
  <2>1. CASE g # h
    <3>1. HandlerInv(g)
      BY DEF AccountsAgree
    <3>2. Busy(g) => Evolves(loc[g].id)
      BY <1>3 DEF Evolves, SameHolder
    <3> QED BY <1>5, <2>1, <3>1, <3>2, OtherHandlers
  <2>2. CASE g = h /\ p = "replied"
    BY <1>4, <1>5, <2>2 DEF HandlerInv, Busy
  <2>3. CASE g = h /\ p = "save"
    <3>1. Busy(h)' /\ Copy(h)' = a /\ loc'[h].id = h /\ ~Stored(h)'
      BY <1>3, <1>4, <1>5, <1>8, <2>3 DEF Busy, Copy, Stored
    <3> QED BY <1>1, <1>2, <1>5, <2>3, <3>1 DEF HandlerInv
  <2> QED BY <1>4, <2>1, <2>2, <2>3
<1>12. UnbornInv'
  <2>1. SUFFICES ASSUME NEW s \in SignupReqs, pc'[s] # "replied"
                 PROVE  /\ ~Exists(accounts[s]) /\ ~Exists(index[s]) /\ s \notin sessions
                        /\ \A g \in Requests \ {s} : Busy(g)' => loc'[g].id # s
                        /\ \A d \in deleted : d.id # s
                        /\ \A g \in SignupReqs : s \notin rivals'[g]
    BY <1>3 DEF UnbornInv
  <2>2. s \in Requests
    BY DEF Requests
  <2>3. pc[s] # "replied"
    BY <1>3, <1>5, <2>1, <2>2
  <2>4. /\ ~Exists(accounts[s]) /\ ~Exists(index[s]) /\ s \notin sessions
        /\ \A g \in Requests \ {s} : Busy(g) => loc[g].id # s
        /\ \A d \in deleted : d.id # s
        /\ \A g \in SignupReqs : s \notin rivals[g]
    BY <1>1, <2>3 DEF UnbornInv
  <2>5. \A g \in SignupReqs : s \notin rivals'[g]
    BY <1>6, <1>7, <2>4
  <2>6. ASSUME NEW g \in Requests \ {s}, Busy(g)' PROVE loc'[g].id # s
    <3>1. CASE g = h
      BY <1>4, <1>5, <2>6, <3>1 DEF Busy
    <3>2. CASE g # h
      BY <1>5, <2>4, <2>6, <3>2 DEF Busy
    <3> QED BY <3>1, <3>2
  <2> QED BY <2>4, <2>5, <2>6
<1>13. FreshInv'
  <2>1. SUFFICES ASSUME NEW q \in SessionReqs, pc'[q] # "replied"
                 PROVE  /\ \A u \in Uuids : /\ Exists(accounts[u]) => Lacks(accounts[u], q)
                                            /\ Exists(index[u]) => Lacks(index[u], q)
                        /\ \A g \in Requests : Busy(g)' => Lacks(loc'[g].copy, q)
    BY <1>3 DEF FreshInv, Copy
  <2>2. q \in Requests /\ q # h
    BY RequestAssumption DEF Requests
  <2>3. /\ \A u \in Uuids : /\ Exists(accounts[u]) => Lacks(accounts[u], q)
                            /\ Exists(index[u]) => Lacks(index[u], q)
        /\ \A g \in Requests : Busy(g) => Lacks(Copy(g), q)
    BY <1>1, <1>5, <2>1, <2>2 DEF FreshInv
  <2>4. ASSUME NEW g \in Requests, Busy(g)' PROVE Lacks(loc'[g].copy, q)
    <3>1. CASE g = h
      BY <1>2, <1>4, <1>5, <2>4, <3>1 DEF Busy
    <3>2. CASE g # h
      BY <1>5, <2>3, <2>4, <3>2 DEF Busy, Copy
    <3> QED BY <3>1, <3>2
  <2> QED BY <2>3, <2>4
<1>14. ASSUME NEW s \in SignupReqs PROVE RivalInv(s)'
  <2>1. CASE s = h
    BY <1>3, <1>4, <1>5, <1>7, <1>8, <2>1 DEF RivalInv, Copy
  <2>2. CASE s # h
    <3>1. RivalInv(s) /\ pc'[s] = pc[s] /\ loc'[s] = loc[s] /\ rivals'[s] = rivals[s]
      BY <1>5, <1>6, <2>2 DEF Requests, AccountsAgree
    <3>2. Evolves(s) /\ \A u \in rivals[s] : Evolves(u)
      BY <1>3 DEF Evolves, SameHolder
    <3> QED BY <3>1, <3>2, RivalFollows
  <2> QED BY <2>1, <2>2
<1> QED BY <1>9, <1>10, <1>11, <1>12, <1>13, <1>14 DEF AccountsAgree

\* save's own search: a signup that it lets through has no rival left.
LEMMA SaveFindKeeps ==
  ASSUME AccountsAgree, NEW h \in Requests, SaveFind(h), ~Replies(h)
  PROVE  AccountsAgree'
<1>1. /\ pc[h] = "save" /\ FindByEmail(Copy(h).email, Copy(h).owner) = {}
      /\ Goto(h, "index", loc[h])
      /\ UNCHANGED <<accounts, index, tokens, aged, sessions, recycling, rivals, deleted>>
  BY DEF SaveFind, Replies, documents, world, history
<1>2. /\ TypeOK /\ DocumentsInv /\ HandlerInv(h) /\ UnbornInv /\ FreshInv /\ (\A s \in SignupReqs : RivalInv(s))
      /\ DeletedStaysDeleted /\ ListsAreSound /\ FailuresAreBounded
  BY DEF AccountsAgree
<1>3. /\ pc' \in [Requests -> Places] /\ loc' = loc /\ pc'[h] = "index"
      /\ \A g \in Requests \ {h} : pc'[g] = pc[g]
  BY <1>1, <1>2 DEF Goto, TypeOK, Places
<1>4. Busy(h) /\ h \in SignupReqs
  BY <1>1, <1>2 DEF Busy, HandlerInv
<1>5. \A g \in Requests : Busy(g)' <=> Busy(g)
  BY <1>3, <1>4 DEF Busy
<1>6. TypeOK'
  BY <1>1, <1>2, <1>3 DEF TypeOK
<1>7. DocumentsInv' /\ DeletedStaysDeleted' /\ ListsAreSound' /\ FailuresAreBounded'
  BY <1>1, <1>2 DEF DocumentsInv, DeletedStaysDeleted, ListsAreSound, FailuresAreBounded
<1>8. ASSUME NEW g \in Requests PROVE HandlerInv(g)'
  <2>1. CASE g # h
    <3>1. HandlerInv(g)
      BY DEF AccountsAgree
    <3>2. Busy(g) => Evolves(loc[g].id)
      BY <1>1 DEF Evolves, SameHolder
    <3> QED BY <1>3, <2>1, <3>1, <3>2, OtherHandlers
  <2>2. CASE g = h
    <3>1. Copy(h)' = Copy(h) /\ (Stored(h)' <=> Stored(h))
      BY <1>1, <1>3 DEF Copy, Stored
    <3> QED BY <1>1, <1>2, <1>3, <1>4, <1>5, <2>2, <3>1 DEF HandlerInv
  <2> QED BY <2>1, <2>2
<1>9. \A s \in SignupReqs \cup SessionReqs : pc'[s] # "replied" => pc[s] # "replied"
  BY <1>1, <1>3 DEF Requests
<1>10. UnbornInv'
  BY <1>1, <1>2, <1>3, <1>5, <1>9 DEF UnbornInv
<1>11. FreshInv'
  BY <1>1, <1>2, <1>3, <1>5, <1>9 DEF FreshInv, Copy
<1>12. ASSUME NEW u \in rivals[h], Exists(accounts[u]) PROVE accounts[u].owner # Asked(Copy(h).owner)
  <2>1. u \in Uuids
    BY <1>2, <1>4, <1>12 DEF TypeOK
  <2>2. accounts[u].email = Copy(h).email
    BY <1>1, <1>4, <1>12 DEF AccountsAgree, RivalInv
  <2>3. Exists(index[u]) /\ SameHolder(index[u], accounts[u])
    BY <1>2, <1>12, <2>1 DEF DocumentsInv
  <2>4. u \notin Search(Copy(h).email, Asked(Copy(h).owner))
    BY <1>1 DEF FindByEmail
  <2> QED BY <2>1, <2>2, <2>3, <2>4 DEF Search, SameHolder
<1>13. ASSUME NEW s \in SignupReqs PROVE RivalInv(s)'
  <2>1. RivalInv(s)
    BY DEF AccountsAgree
  <2>2. CASE s = h
    <3>1. ~Exists(accounts[h])
      BY <1>1, <1>2, <1>4 DEF UnbornInv
    <3>2. Copy(h)' = Copy(h)
      BY <1>3 DEF Copy
    <3> QED BY <1>1, <1>3, <1>12, <2>2, <3>1, <3>2 DEF RivalInv
  <2>3. CASE s # h
    <3>1. pc'[s] = pc[s] /\ loc'[s] = loc[s] /\ rivals'[s] = rivals[s]
      BY <1>1, <1>3, <2>3 DEF Requests
    <3>2. Evolves(s) /\ \A u \in rivals[s] : Evolves(u)
      BY <1>1 DEF Evolves, SameHolder
    <3> QED BY <2>1, <3>1, <3>2, RivalFollows
  <2> QED BY <2>2, <2>3
<1> QED BY <1>6, <1>7, <1>8, <1>10, <1>11, <1>13 DEF AccountsAgree

\* The account is indexed: it is new to everyone.
LEMMA SaveIndexKeeps ==
  ASSUME AccountsAgree, NEW h \in Requests, SaveIndex(h)
  PROVE  AccountsAgree' /\ ~Exists(accounts[h]) /\ \A u \in Uuids \ {h} : accounts'[u] = accounts[u]
<1> DEFINE a == Copy(h)
<1>1. /\ pc[h] = "index" /\ Reply(h)
      /\ accounts' = [accounts EXCEPT ![h] = a] /\ index' = [index EXCEPT ![h] = a]
      /\ tokens' \in {tokens, tokens \cup {h}}
      /\ UNCHANGED <<aged, sessions, recycling, rivals, deleted>>
  BY DEF SaveIndex, history
<1>2. /\ TypeOK /\ DocumentsInv /\ HandlerInv(h) /\ UnbornInv /\ FreshInv /\ (\A s \in SignupReqs : RivalInv(s))
      /\ DeletedStaysDeleted /\ ListsAreSound /\ FailuresAreBounded
  BY DEF AccountsAgree
<1>3. Busy(h) /\ h \in SignupReqs /\ a \in AccountDoc /\ Fine(a)
  BY <1>1, <1>2 DEF Busy, HandlerInv
<1>4. h \in Uuids
  BY <1>3 DEF Uuids
<1> HIDE DEF a
<1>5. /\ accounts' \in [Uuids -> AccountDoc \cup {NoAccount}] /\ index' \in [Uuids -> AccountDoc \cup {NoAccount}]
      /\ accounts'[h] = a /\ index'[h] = a
      /\ \A u \in Uuids \ {h} : accounts'[u] = accounts[u] /\ index'[u] = index[u]
  BY <1>1, <1>2, <1>3, <1>4 DEF TypeOK
<1>6. /\ pc' \in [Requests -> Places] /\ loc' \in [Requests -> Locals]
      /\ pc'[h] = "replied" /\ loc'[h] = NoLocals
      /\ \A g \in Requests \ {h} : pc'[g] = pc[g] /\ loc'[g] = loc[g]
  BY <1>1, <1>2 DEF Reply, Goto, TypeOK, Places, Locals
<1>7. /\ ~Exists(accounts[h]) /\ ~Exists(index[h]) /\ h \notin sessions
      /\ \A g \in Requests \ {h} : Busy(g) => loc[g].id # h
      /\ \A d \in deleted : d.id # h
      /\ \A g \in SignupReqs : h \notin rivals[g]
  BY <1>1, <1>2, <1>3 DEF UnbornInv
<1>8. TypeOK'
  BY <1>1, <1>2, <1>3, <1>5, <1>6 DEF TypeOK
<1>9. DocumentsInv'
  <2>1. ASSUME NEW u \in Uuids
        PROVE  /\ Exists(accounts'[u]) => /\ Fine(accounts'[u])
                                          /\ Exists(index'[u]) /\ SameHolder(index'[u], accounts'[u])
                                          /\ u \in sessions => accounts'[u].status = "ACTIVE"
               /\ Exists(index'[u]) => Fine(index'[u])
    <3>1. CASE u = h
      BY <1>3, <1>5, <1>7, <3>1, NoAccountType DEF SameHolder
    <3>2. CASE u # h
      BY <1>2, <1>5, <3>2 DEF DocumentsInv
    <3> QED BY <3>1, <3>2
  <2> QED BY <1>1, <2>1 DEF DocumentsInv
<1>10. ListsAreSound' /\ FailuresAreBounded'
  BY <1>9, DocumentsGive
<1>11. DeletedStaysDeleted'
  BY <1>1, <1>2, <1>5, <1>7 DEF DeletedStaysDeleted, TypeOK
<1>12. ASSUME NEW g \in Requests PROVE HandlerInv(g)'
  <2>1. CASE g # h
    <3>1. HandlerInv(g)
      BY DEF AccountsAgree
    <3>2. Busy(g) => Evolves(loc[g].id)
      BY <1>5, <1>7, <2>1, <3>1 DEF Evolves, SameHolder, HandlerInv
    <3> QED BY <1>6, <2>1, <3>1, <3>2, OtherHandlers
  <2>2. CASE g = h
    BY <1>6, <2>2 DEF HandlerInv, Busy
  <2> QED BY <2>1, <2>2
<1>13. \A g \in Requests : Busy(g)' => Busy(g) /\ g # h /\ loc'[g] = loc[g]
  BY <1>6 DEF Busy
<1>14. \A s \in SignupReqs \cup SessionReqs : pc'[s] # "replied" => pc[s] # "replied" /\ s # h
  BY <1>6 DEF Requests
<1>15. UnbornInv'
  <2>1. ASSUME NEW s \in SignupReqs, pc'[s] # "replied"
        PROVE  /\ ~Exists(accounts'[s]) /\ ~Exists(index'[s]) /\ s \notin sessions
               /\ \A g \in Requests \ {s} : Busy(g)' => loc'[g].id # s
               /\ \A d \in deleted : d.id # s
               /\ \A g \in SignupReqs : s \notin rivals[g]
    BY <1>2, <1>5, <1>13, <1>14, <2>1 DEF UnbornInv, Uuids
  <2> QED BY <1>1, <2>1 DEF UnbornInv
<1>16. FreshInv'
  <2>1. ASSUME NEW q \in SessionReqs, pc'[q] # "replied"
        PROVE  /\ \A u \in Uuids : /\ Exists(accounts'[u]) => Lacks(accounts'[u], q)
                                   /\ Exists(index'[u]) => Lacks(index'[u], q)
               /\ \A g \in Requests : Busy(g)' => Lacks(loc'[g].copy, q)
    <3>1. /\ \A u \in Uuids : /\ Exists(accounts[u]) => Lacks(accounts[u], q)
                              /\ Exists(index[u]) => Lacks(index[u], q)
          /\ \A g \in Requests : Busy(g) => Lacks(loc[g].copy, q)
      BY <1>2, <1>14, <2>1 DEF FreshInv, Copy
    <3>2. Lacks(a, q)
      BY <1>3, <3>1 DEF a, Copy
    <3> QED BY <1>5, <1>13, <3>1, <3>2
  <2> QED BY <2>1 DEF FreshInv, Copy
<1>17. ASSUME NEW s \in SignupReqs PROVE RivalInv(s)'
  <2>1. RivalInv(s)
    BY DEF AccountsAgree
  <2>2. \A u \in rivals[s] : u \in Uuids /\ u # h /\ accounts'[u] = accounts[u]
    BY <1>1, <1>2, <1>5, <1>7 DEF TypeOK, UnbornInv
  <2>3. CASE s = h
    <3>1. pc'[h] = "replied" /\ accounts'[h] = a /\ rivals'[h] = rivals[h]
      BY <1>1, <1>5, <1>6
    <3>2. ASSUME NEW u \in rivals[h], Exists(accounts[u])
          PROVE  accounts[u].owner # Asked(a.owner)
      BY <1>1, <2>1, <2>3, <3>2 DEF RivalInv, a
    <3> QED BY <2>2, <2>3, <3>1, <3>2 DEF RivalInv, Asked
  <2>4. CASE s # h
    <3>1. /\ pc'[s] = pc[s] /\ loc'[s] = loc[s] /\ accounts'[s] = accounts[s]
          /\ rivals'[s] = rivals[s]
      BY <1>1, <1>5, <1>6, <2>4 DEF Requests, Uuids
    <3>2. Evolves(s) /\ \A u \in rivals[s] : Evolves(u)
      BY <2>2, <3>1 DEF Evolves, SameHolder
    <3> QED BY <2>1, <3>1, <3>2, RivalFollows
  <2> QED BY <2>3, <2>4
<1> QED BY <1>5, <1>7, <1>8, <1>9, <1>10, <1>11, <1>12, <1>15, <1>16, <1>17 DEF AccountsAgree

-----------------------------------------------------------------------------
(* The index, the sessions, and the cleaning job.                          *)

\* A step of none of the handlers, which may refresh, end sessions and delete.
LEMMA WorldKeeps ==
  ASSUME AccountsAgree, UNCHANGED <<pc, loc, rivals, tokens>>,
         accounts' \in [Uuids -> AccountDoc \cup {NoAccount}], index' \in [Uuids -> AccountDoc \cup {NoAccount}],
         \A u \in Uuids : accounts'[u] \in {accounts[u], NoAccount} /\ index'[u] \in {index[u], accounts[u]},
         \A u \in Uuids : Exists(accounts'[u]) => index'[u] = index[u] \/ index'[u] = accounts'[u],
         sessions' \subseteq sessions, aged' \subseteq Uuids, recycling' \subseteq Uuids,
         deleted' \subseteq [id : Uuids, status : AccountStatus],
         \A d \in deleted' : d \in deleted \/ (Exists(accounts[d.id]) /\ ~Exists(accounts'[d.id]))
  PROVE  AccountsAgree'
<1>1. TypeOK /\ DocumentsInv /\ UnbornInv /\ FreshInv
  BY DEF AccountsAgree
<1>2. \A u \in Uuids : Exists(accounts'[u]) => accounts'[u] = accounts[u]
  BY DEF Exists
<1>3. \A u \in Uuids : Evolves(u)
  BY <1>2 DEF Evolves, SameHolder
<1>4. TypeOK'
  BY <1>1 DEF TypeOK
<1>5. DocumentsInv'
  <2>1. ASSUME NEW u \in Uuids
        PROVE  /\ Exists(accounts'[u]) => /\ Fine(accounts'[u])
                                          /\ Exists(index'[u]) /\ SameHolder(index'[u], accounts'[u])
                                          /\ u \in sessions' => accounts'[u].status = "ACTIVE"
               /\ Exists(index'[u]) => Fine(index'[u])
    <3>1. /\ Exists(accounts[u]) => /\ Fine(accounts[u])
                                    /\ Exists(index[u]) /\ SameHolder(index[u], accounts[u])
                                    /\ u \in sessions => accounts[u].status = "ACTIVE"
          /\ Exists(index[u]) => Fine(index[u])
      BY <1>1 DEF DocumentsInv
    <3>2. Exists(index'[u]) => Fine(index'[u])
      BY <3>1
    <3>3. ASSUME Exists(accounts'[u])
          PROVE  /\ Fine(accounts'[u]) /\ Exists(index'[u]) /\ SameHolder(index'[u], accounts'[u])
                 /\ u \in sessions' => accounts'[u].status = "ACTIVE"
      BY <1>2, <3>1, <3>3 DEF SameHolder
    <3> QED BY <3>2, <3>3
  <2> QED BY <2>1 DEF DocumentsInv
<1>6. ListsAreSound' /\ FailuresAreBounded'
  BY <1>5, DocumentsGive
<1>7. ASSUME NEW g \in Requests PROVE HandlerInv(g)'
  <2>1. HandlerInv(g)
    BY DEF AccountsAgree
  <2>2. Busy(g) => Evolves(loc[g].id)
    BY <1>3, <2>1 DEF HandlerInv
  <2> QED BY <2>1, <2>2, OtherHandlers
<1>8. (\A s \in SignupReqs : RivalInv(s)') /\ DeletedStaysDeleted'
  BY <1>3, RivalsStay
<1>9. UnbornInv'
  <2>1. ASSUME NEW s \in SignupReqs, pc[s] # "replied"
        PROVE  /\ ~Exists(accounts'[s]) /\ ~Exists(index'[s]) /\ s \notin sessions'
               /\ \A g \in Requests \ {s} : Busy(g)' => loc'[g].id # s
               /\ \A d \in deleted' : d.id # s
               /\ \A g \in SignupReqs : s \notin rivals'[g]
    <3>1. /\ ~Exists(accounts[s]) /\ ~Exists(index[s]) /\ s \notin sessions
          /\ \A g \in Requests \ {s} : Busy(g) => loc[g].id # s
          /\ \A d \in deleted : d.id # s
          /\ \A g \in SignupReqs : s \notin rivals[g]
      BY <1>1, <2>1 DEF UnbornInv
    <3>2. s \in Uuids
      BY DEF Uuids
    <3>3. \A g \in Requests \ {s} : Busy(g)' => loc'[g].id # s
      BY <3>1 DEF Busy
    <3>4. ~Exists(accounts'[s]) /\ ~Exists(index'[s])
      BY <1>2, <3>1, <3>2
    <3>5. \A d \in deleted' : d.id # s
      BY <3>1
    <3> QED BY <3>1, <3>3, <3>4, <3>5
  <2> QED BY <2>1 DEF UnbornInv
<1>10. FreshInv'
  <2>1. ASSUME NEW q \in SessionReqs, pc[q] # "replied"
        PROVE  /\ \A u \in Uuids : /\ Exists(accounts'[u]) => Lacks(accounts'[u], q)
                                   /\ Exists(index'[u]) => Lacks(index'[u], q)
               /\ \A g \in Requests : Busy(g)' => Lacks(loc'[g].copy, q)
    <3>1. /\ \A u \in Uuids : /\ Exists(accounts[u]) => Lacks(accounts[u], q)
                              /\ Exists(index[u]) => Lacks(index[u], q)
          /\ \A g \in Requests : Busy(g) => Lacks(Copy(g), q)
      BY <1>1, <2>1 DEF FreshInv
    <3>2. \A g \in Requests : Busy(g)' => Lacks(loc'[g].copy, q)
      BY <3>1 DEF Busy, Copy
    <3>3. \A u \in Uuids : /\ Exists(accounts'[u]) => Lacks(accounts'[u], q)
                           /\ Exists(index'[u]) => Lacks(index'[u], q)
      BY <1>2, <3>1
    <3> QED BY <3>2, <3>3
  <2> QED BY <2>1 DEF FreshInv, Copy
<1> QED BY <1>4, <1>5, <1>6, <1>7, <1>8, <1>9, <1>10 DEF AccountsAgree

\* Such are the steps of time, of users who leave and of the job.
LEMMA TimeKeeps ==
  ASSUME AccountsAgree, RecycleSearch \/ \E u \in Uuids : Time(u)
  PROVE  AccountsAgree' /\ \A v \in Uuids : accounts'[v] \in {accounts[v], NoAccount}
<1>1. /\ TypeOK
      /\ accounts \in [Uuids -> AccountDoc \cup {NoAccount}] /\ index \in [Uuids -> AccountDoc \cup {NoAccount}]
      /\ \A u \in Uuids : Exists(accounts[u]) => accounts[u] \in AccountDoc
  BY StoreType DEF AccountsAgree
<1>2. sessions \subseteq Uuids /\ aged \subseteq Uuids /\ recycling \subseteq Uuids
      /\ deleted \subseteq [id : Uuids, status : AccountStatus]
  BY <1>1 DEF TypeOK
<1>3. CASE RecycleSearch \/ \E u \in Uuids : Logout(u) \/ Age(u)
  <2>1. /\ UNCHANGED <<accounts, index, pc, loc, rivals, tokens, deleted>>
        /\ sessions' \subseteq sessions /\ aged' \subseteq Uuids /\ recycling' \subseteq Uuids
    BY <1>2, <1>3 DEF RecycleSearch, Logout, Age, Abandoned, documents, history
  <2> QED BY <1>1, <1>2, <2>1, WorldKeeps
<1>4. ASSUME NEW u \in Uuids, Refresh(u)
      PROVE  AccountsAgree' /\ \A v \in Uuids : accounts'[v] \in {accounts[v], NoAccount}
  <2>1. /\ UNCHANGED <<accounts, pc, loc, rivals, tokens, deleted, sessions, aged, recycling>>
        /\ index' = [index EXCEPT ![u] = accounts[u]]
    BY <1>4 DEF Refresh, world, history
  <2>2. /\ index' \in [Uuids -> AccountDoc \cup {NoAccount}]
        /\ \A v \in Uuids : index'[v] = index[v] \/ index'[v] = accounts[v]
    BY <1>1, <2>1
  <2> QED BY <1>1, <1>2, <2>1, <2>2, WorldKeeps
<1>5. ASSUME NEW u \in Uuids, Delete(u)
      PROVE  AccountsAgree' /\ \A v \in Uuids : accounts'[v] \in {accounts[v], NoAccount}
  <2>1. /\ UNCHANGED <<index, pc, loc, rivals, tokens, sessions, aged>>
        /\ accounts' = [accounts EXCEPT ![u] = NoAccount] /\ recycling' \subseteq Uuids
    BY <1>2, <1>5 DEF Delete
  <2>2. /\ accounts' \in [Uuids -> AccountDoc \cup {NoAccount}]
        /\ \A v \in Uuids : accounts'[v] \in {accounts[v], NoAccount}
        /\ ~Exists(accounts'[u])
    BY <1>1, <2>1 DEF Exists
  <2>3. /\ deleted' \subseteq [id : Uuids, status : AccountStatus]
        /\ \A d \in deleted' : d \in deleted \/ (Exists(accounts[d.id]) /\ ~Exists(accounts'[d.id]))
    <3>1. CASE ~Exists(accounts[u])
      BY <1>2, <1>5, <3>1 DEF Delete
    <3>2. CASE Exists(accounts[u])
      <4> DEFINE d == [id |-> u, status |-> accounts[u].status]
      <4>1. deleted' = deleted \cup {d}
        BY <1>5, <3>2 DEF Delete
      <4>2. accounts[u].status \in AccountStatus
        BY <1>1, <3>2, DocType
      <4>3. d \in [id : Uuids, status : AccountStatus] /\ d.id = u
        BY <4>2
      <4> HIDE DEF d
      <4> QED BY <1>2, <2>2, <3>2, <4>1, <4>3
    <3> QED BY <3>1, <3>2
  <2> QED BY <1>1, <1>2, <2>1, <2>2, <2>3, WorldKeeps
<1> QED BY <1>3, <1>4, <1>5 DEF Time

-----------------------------------------------------------------------------
(* The theorems.                                                           *)

\* The confirmed customers and the idle handlers of the first state.
LEMMA AccountInit == Init => AccountsAgree
<1>1. SUFFICES ASSUME Init PROVE AccountsAgree
  OBVIOUS
<1>2. /\ index = accounts /\ tokens = {} /\ aged = {} /\ recycling = {} /\ sessions = Known
      /\ pc = [h \in Requests |-> "idle"] /\ loc = [h \in Requests |-> NoLocals]
      /\ rivals = [h \in SignupReqs |-> {}] /\ deleted = {}
  BY <1>1 DEF Init
<1>3. PICK e \in Emails, p \in Passwords, n \in Phones :
        accounts = [u \in Uuids |->
          IF u \in Known THEN NewAccount(u, e, "vendor", "ACTIVE", p, {BuildTelephone(n, "ACTIVE")}, TRUE)
                         ELSE NoAccount]
  BY <1>1 DEF Init
<1>4. ASSUME NEW u \in Known
      PROVE  /\ accounts[u] \in AccountDoc /\ Fine(accounts[u]) /\ accounts[u].status = "ACTIVE"
             /\ \A g \in SessionReqs : Lacks(accounts[u], g)
  <2>0. u \in Uuids
    BY DEF Uuids
  <2>1. ASSUME NEW f \in BOOLEAN, NEW o \in Owners, NEW s \in {"ACTIVE", "WAITING_ENROLLMENT"},
               NEW T \in SUBSET Telephone
        PROVE  LET a == NewAccount(u, e, o, s, p, T, f)
               IN  a \in AccountDoc /\ Fine(a) /\ a.status = s /\ \A g : g # u => Lacks(a, g)
    BY <2>0, NewAccountFacts
  <2>2. {BuildTelephone(n, "ACTIVE")} \in SUBSET Telephone /\ "vendor" \in Owners
    BY TelephoneType DEF TelephoneStatus, Owners
  <2> DEFINE a == NewAccount(u, e, "vendor", "ACTIVE", p, {BuildTelephone(n, "ACTIVE")}, TRUE)
  <2>3. a \in AccountDoc /\ Fine(a) /\ a.status = "ACTIVE" /\ \A g : g # u => Lacks(a, g)
    BY <2>1, <2>2, Zenon
  <2>4. accounts[u] = a
    BY <1>3 DEF Uuids
  <2>5. \A g \in SessionReqs : g # u
    BY RequestAssumption
  <2> HIDE DEF a
  <2> QED BY <2>3, <2>4, <2>5
<1>5. \A u \in Uuids : u \in Known \/ accounts[u] = NoAccount
  BY <1>3
<1>6. accounts \in [Uuids -> AccountDoc \cup {NoAccount}]
  <2>1. \A u \in Uuids : accounts[u] \in AccountDoc \cup {NoAccount}
    BY <1>4, <1>5
  <2>2. accounts = [u \in Uuids |-> accounts[u]]
    BY <1>3
  <2> QED BY <2>1, <2>2
<1>7. \A u \in Uuids : Exists(accounts[u]) => u \in Known
  BY <1>5 DEF Exists
<1>8. TypeOK
  BY <1>2, <1>6 DEF TypeOK, Uuids, Places, Locals
<1>9. DocumentsInv
  BY <1>2, <1>4, <1>7 DEF DocumentsInv, SameHolder
<1>10. ListsAreSound /\ FailuresAreBounded
  BY <1>9 DEF DocumentsInv, Fine, ListsAreSound, FailuresAreBounded
<1>11. \A h \in Requests : HandlerInv(h) /\ ~Busy(h)
  BY <1>2 DEF HandlerInv, Busy
<1>12. UnbornInv
  <2>1. \A s \in SignupReqs : s \in Uuids /\ s \notin Known
    BY RequestAssumption DEF Uuids
  <2> QED BY <1>2, <1>7, <1>11, <2>1 DEF UnbornInv
<1>13. FreshInv
  BY <1>2, <1>4, <1>7, <1>11 DEF FreshInv
<1>14. (\A h \in SignupReqs : RivalInv(h)) /\ DeletedStaysDeleted
  <2>1. \A h \in SignupReqs : rivals[h] = {} /\ pc[h] = "idle"
    BY <1>2 DEF Requests
  <2> QED BY <1>2, <2>1 DEF RivalInv, DeletedStaysDeleted
<1> QED BY <1>8, <1>9, <1>10, <1>11, <1>12, <1>13, <1>14 DEF AccountsAgree

\* A document that was there before the step and is there after it has only evolved.
Confirmed ==
  \A u \in Uuids : Exists(accounts[u]) /\ accounts[u].status = "ACTIVE" /\ Exists(accounts'[u])
                     => accounts'[u].status = "ACTIVE"

\* Every step keeps the invariant, and no step takes a confirmation back.
LEMMA AccountStep == AccountsAgree /\ [Next]_vars => AccountsAgree' /\ Confirmed
<1>1. SUFFICES ASSUME AccountsAgree, [Next]_vars PROVE AccountsAgree' /\ Confirmed
  OBVIOUS
<1>2. CASE UNCHANGED vars
  <2>1. UNCHANGED <<accounts, index, tokens, aged, sessions, recycling, pc, loc, rivals, deleted>>
    BY <1>2 DEF vars
  <2>2. TypeOK
    BY <1>1 DEF AccountsAgree
  <2>3. AccountsAgree'
    BY <1>1, <2>1, <2>2, WorldKeeps DEF TypeOK
  <2> QED BY <2>1, <2>3 DEF Confirmed
<1>3. ASSUME NEW h \in Requests, Writes(h) \/ Takes(h) \/ Replies(h)
      PROVE  AccountsAgree' /\ Confirmed
  BY <1>1, <1>3, ActKeeps, ActEvolves DEF Confirmed, Evolves
<1>4. CASE Arrive
  <2>1. ASSUME NEW h \in SignupReqs, Signup(h) \/ Register(h) PROVE AccountsAgree' /\ Confirmed
    <3>1. Begins(h)
      BY <2>1, SignupBegins
    <3> QED BY <1>1, <3>1, BeginKeeps DEF Begins, Confirmed
  <2>2. ASSUME NEW h \in LoginReqs \cup ConfirmReqs \cup SessionReqs,
               ConfirmLoad(h) \/ LoginFind(h) \/ NewPasswordFind(h) \/ SessionLoad(h)
        PROVE  AccountsAgree' /\ Confirmed
    <3>1. h \in Requests /\ h \notin SignupReqs
      BY RequestAssumption DEF Requests
    <3> QED BY <1>1, <1>3, <2>2, <3>1, ArriveCases
  <2> QED BY <1>4, <2>1, <2>2 DEF Arrive
<1>5. ASSUME NEW h \in Requests, Continue(h) PROVE AccountsAgree' /\ Confirmed
  <2>1. CASE ~SaveFind(h) /\ ~SaveIndex(h)
    BY <1>1, <1>3, <1>5, <2>1, ContinueCases
  <2>2. CASE SaveFind(h)
    <3>1. CASE Replies(h)
      BY <1>3, <3>1
    <3>2. CASE ~Replies(h)
      BY <1>1, <2>2, <3>2, SaveFindKeeps DEF SaveFind, documents, Confirmed
    <3> QED BY <3>1, <3>2
  <2>3. CASE SaveIndex(h)
    BY <1>1, <2>3, SaveIndexKeeps DEF Confirmed
  <2> QED BY <2>1, <2>2, <2>3
<1>6. ASSUME NEW h \in SessionReqs, pc[h] = "loaded", Session(h) PROVE AccountsAgree' /\ Confirmed
  BY <1>1, <1>3, <1>6, SessionCases DEF Requests
<1>7. CASE RecycleSearch \/ \E u \in Uuids : Time(u)
  BY <1>1, <1>7, TimeKeeps DEF Confirmed, Exists
<1> QED BY <1>1, <1>2, <1>4, <1>5, <1>6, <1>7 DEF Next

\* Whatever stale copies handlers write and however late the index follows, accounts, index,
\* sessions and copies agree.
THEOREM AccountsAlwaysAgree == Spec => []AccountsAgree
  BY AccountInit, AccountStep, PTL DEF Spec

\* No account ever has two active shipping addresses, or two entries of an address or card.
THEOREM ListsStaySound == Spec => []ListsAreSound
<1>1. AccountsAgree => ListsAreSound
  BY DEF AccountsAgree
<1> QED BY <1>1, AccountsAlwaysAgree, PTL

\* However many logins overlap, at most one failure more than the maximum is counted.
THEOREM FailuresStayBounded == Spec => []FailuresAreBounded
<1>1. AccountsAgree => FailuresAreBounded
  BY DEF AccountsAgree
<1> QED BY <1>1, AccountsAlwaysAgree, PTL

\* No handler brings back an account that recycle deleted.
THEOREM DeletedAccountStaysDeleted == Spec => []DeletedStaysDeleted
<1>1. AccountsAgree => DeletedStaysDeleted
  BY DEF AccountsAgree
<1> QED BY <1>1, AccountsAlwaysAgree, PTL

\* Whether customers are shared or not, a signup or registration creates nothing while an
\* account stays that had its e-mail before it came and that the searches ask for.
THEOREM KnownEmailIsRefused == Spec => []SignupRefusesKnown
<1>1. AccountsAgree => SignupRefusesKnown
  BY DEF AccountsAgree, RivalInv, SignupRefusesKnown
<1> QED BY <1>1, AccountsAlwaysAgree, PTL

\* No stale copy and no stale index entry takes a confirmation back.
THEOREM ConfirmedAccountStaysConfirmed == Spec => ConfirmedStaysConfirmed
<1>1. AccountsAgree /\ [Next]_vars =>
        [\A u \in Uuids : Exists(accounts[u]) /\ accounts[u].status = "ACTIVE" /\ Exists(accounts'[u])
                            => accounts'[u].status = "ACTIVE"]_vars
  BY AccountStep DEF Confirmed
<1> QED BY <1>1, AccountsAlwaysAgree, PTL DEF Spec, ConfirmedStaysConfirmed
=============================================================================
