--------------------- MODULE TransactionSequenceProofs ---------------------
(***************************************************************************)
(* nextTransactionId never returns an id twice on one day unless two       *)
(* callers found the vendor's document missing, for any number of callers, *)
(* calls, days and lost answers.                                           *)
(***************************************************************************)
EXTENDS TransactionSequence, TLAPS

\* A copy with the stored version is the stored document, and whoever is about to
\* create the document has found it missing.
CopyInv ==
  \A c \in Callers :
    /\ pc[c] \in {"decide", "update"} =>
         /\ copy[c].version > 0
         /\ copy[c].version <= doc.version
         /\ copy[c].version = doc.version => copy[c] = doc
         /\ copy[c].lastUpdated <= today
    /\ pc[c] = "update" =>
         /\ next[c].day <= today
         /\ \/ copy[c].lastUpdated < next[c].day
            \/ copy[c].lastUpdated = next[c].day /\ next[c].id = copy[c].transactionId + 1
\* While at most one caller created the document, every id returned is covered by it.
IssuedInv ==
  /\ doc.lastUpdated <= today
  /\ doc.version = 0 => issued = {} /\ created = 0
  /\ \A c \in Callers : pc[c] = "index" /\ doc.version > 0 => created >= 1
  /\ created <= 1 =>
       /\ repeats = 0
       /\ \A k \in issued : /\ k.day <= doc.lastUpdated
                            /\ k.day = doc.lastUpdated => k.id <= doc.transactionId

IInv == TypeOK /\ CopyInv /\ IssuedInv

(* The order of naturals, for days. *)
LEMMA LeqCases ==
  ASSUME NEW x \in Nat, NEW y \in Nat, x <= y
  PROVE  x < y \/ x = y
OBVIOUS

(* An id covered by a document is covered by the document's successor, and is not the  *)
(* successor's.                                                                        *)
LEMMA NextIdIsAbove ==
  ASSUME NEW k \in Ids, NEW d \in Docs, NEW n \in Ids, NEW now \in Nat,
         k.day <= d.lastUpdated, d.lastUpdated <= n.day, n.day <= now,
         k.day = d.lastUpdated => k.id <= d.transactionId,
         d.lastUpdated = n.day => n.id = d.transactionId + 1
  PROVE  /\ k.day <= now
         /\ k.day = now => k.id <= n.id
         /\ k # n
<1>1. /\ k.day \in Nat /\ k.id \in Nat /\ n.day \in Nat /\ n.id \in Nat
      /\ d.lastUpdated \in Nat /\ d.transactionId \in Nat
  BY DEF Ids, Docs
<1>2. k.day <= n.day
  BY <1>1
<1>3. CASE k.day = n.day
  <2>1. k.day = d.lastUpdated /\ d.lastUpdated = n.day
    BY <1>1, <1>3
  <2>2. k.id <= d.transactionId /\ n.id = d.transactionId + 1
    BY <2>1
  <2>3. k.id < n.id
    BY <2>2, <1>1
  <2> QED BY <2>3, <1>1, <1>2
<1>4. CASE k.day # n.day
  <2>1. k.day < n.day
    BY <1>1, <1>2, <1>4, LeqCases
  <2>2. k.day < now
    BY <2>1, <1>1
  <2> QED BY <2>1, <2>2, <1>1
<1> QED BY <1>3, <1>4

(* Type correctness of the counter and of every caller. *)
LEMMA InitInv == Init => IInv
BY SequenceAssumption DEF Init, IInv, TypeOK, CopyInv, IssuedInv, Docs, Ids, NoDoc, NoNext

\* The day and the id a caller computed, against the document it loaded.
SavedOrder(c) ==
  /\ doc.lastUpdated <= next[c].day
  /\ next[c].day <= today
  /\ doc.lastUpdated = next[c].day => next[c].id = doc.transactionId + 1

\* What a versioned update writes: a document one version on that covers the old one
\* and whose id is new on its day.
SavedDoc(c) ==
  /\ next[c] \in Ids
  /\ doc' \in Docs
  /\ doc.version > 0
  /\ doc'.version = doc.version + 1
  /\ doc'.transactionId = next[c].id
  /\ doc'.lastUpdated = today
  /\ SavedOrder(c)

(* The versioned update replaces exactly the document the caller loaded. *)
LEMMA SaveUpdateFacts ==
  ASSUME IInv, NEW c \in Callers, SaveUpdate(c)
  PROVE  SavedDoc(c)
<1>1. copy[c] = doc /\ doc \in Docs /\ next[c] \in Ids /\ today \in Nat
  BY DEF IInv, TypeOK, CopyInv, SaveUpdate
<1>2. doc' = [doc EXCEPT !.transactionId = next[c].id, !.version = @ + 1, !.lastUpdated = today]
  BY <1>1 DEF SaveUpdate
<1>3. /\ doc.version > 0
      /\ next[c].day <= today
      /\ \/ doc.lastUpdated < next[c].day
         \/ doc.lastUpdated = next[c].day /\ next[c].id = doc.transactionId + 1
  BY <1>1 DEF IInv, CopyInv, SaveUpdate
<1>4. /\ doc.transactionId \in Nat /\ doc.version \in Nat /\ doc.lastUpdated \in Nat
      /\ next[c].day \in Nat /\ next[c].id \in Nat
  BY <1>1 DEF Docs, Ids
<1>5. doc' = [transactionId |-> next[c].id, version |-> doc.version + 1, lastUpdated |-> today]
  BY <1>1, <1>2 DEF Docs
<1>6. doc.lastUpdated <= next[c].day
  BY <1>3, <1>4
<1>7. doc.lastUpdated = next[c].day => next[c].id = doc.transactionId + 1
  BY <1>3, <1>4
<1> QED
  BY <1>1, <1>3, <1>4, <1>5, <1>6, <1>7 DEF SavedDoc, SavedOrder, Docs

(* The inductive step: every action of nextTransactionId preserves the invariant. *)
LEMMA NextInv == IInv /\ [Next]_vars => IInv'
<1> SUFFICES ASSUME IInv, [Next]_vars PROVE IInv'
  OBVIOUS
<1> USE SequenceAssumption DEF IInv, TypeOK, Docs, Ids, Goto
<1>1. ASSUME NEW c \in Callers, Call(c) PROVE IInv'
  BY <1>1 DEF Call, CopyInv, IssuedInv
<1>2. ASSUME NEW c \in Callers, LoadWithVersion(c) PROVE IInv'
  BY <1>2 DEF LoadWithVersion, CopyInv, IssuedInv
<1>3. ASSUME NEW c \in Callers, Decide(c) PROVE IInv'
  <2>0. copy[c] \in Docs /\ copy[c].lastUpdated <= today
    BY <1>3 DEF Decide, CopyInv
  <2> DEFINE new == [day |-> today,
                     id  |-> IF copy[c].lastUpdated = today THEN copy[c].transactionId + 1 ELSE 1]
  <2>1. new \in Ids /\ next' = [next EXCEPT ![c] = new] /\ new.day = today
    BY <1>3, <2>0 DEF Decide
  <2>2. \/ copy[c].lastUpdated < new.day
        \/ copy[c].lastUpdated = new.day /\ new.id = copy[c].transactionId + 1
    <3>1. copy[c].lastUpdated \in Nat /\ today \in Nat
      BY <2>0
    <3>2. CASE copy[c].lastUpdated = today
      BY <3>2
    <3>3. CASE copy[c].lastUpdated # today
      <4>1. copy[c].lastUpdated < today
        BY <2>0, <3>1, <3>3, LeqCases
      <4> QED BY <4>1, <2>1
    <3> QED BY <3>2, <3>3
  <2> HIDE DEF new
  <2>3. TypeOK'
    BY <1>3, <2>1 DEF Decide
  <2>4. CopyInv'
    BY <1>3, <2>0, <2>1, <2>2 DEF Decide, CopyInv
  <2>5. IssuedInv'
    BY <1>3 DEF Decide, IssuedInv
  <2> QED BY <2>3, <2>4, <2>5
<1>4. ASSUME NEW c \in Callers, Update(c) PROVE IInv'
  <2>0. SavedDoc(c)
    BY <1>4, SaveUpdateFacts DEF Update
  <2>1. TypeOK'
    BY <1>4, <2>0 DEF Update, Return, NoDoc, NoNext, SavedDoc
  <2>2. CopyInv'
    BY <1>4, <2>0 DEF Update, Return, CopyInv, SavedDoc
  <2>3. ASSUME created <= 1 PROVE next[c] \notin issued
    <3> SUFFICES ASSUME next[c] \in issued PROVE FALSE
      OBVIOUS
    <3>1. next[c].day <= doc.lastUpdated /\ (next[c].day = doc.lastUpdated => next[c].id <= doc.transactionId)
      BY <2>3 DEF IssuedInv
    <3>2. doc \in Docs /\ next[c] \in Ids /\ today \in Nat
      OBVIOUS
    <3>3. SavedOrder(c)
      BY <2>0 DEF SavedDoc, SavedOrder
    <3> QED BY ONLY <3>1, <3>2, <3>3, NextIdIsAbove DEF SavedOrder
  <2>4. created <= 1 => \A k \in issued' : /\ k.day <= doc'.lastUpdated
                                           /\ k.day = doc'.lastUpdated => k.id <= doc'.transactionId
    <3> SUFFICES ASSUME created <= 1, NEW k \in issued'
                 PROVE  /\ k.day <= doc'.lastUpdated
                        /\ k.day = doc'.lastUpdated => k.id <= doc'.transactionId
      OBVIOUS
    <3>1. CASE k = next[c]
      BY <3>1, <2>0 DEF SavedDoc, SavedOrder
    <3>2. CASE k \in issued
      <4>1. k \in Ids /\ doc \in Docs /\ next[c] \in Ids /\ today \in Nat
        BY <3>2
      <4>2. k.day <= doc.lastUpdated /\ (k.day = doc.lastUpdated => k.id <= doc.transactionId)
        BY <3>2 DEF IssuedInv
      <4>3. SavedOrder(c) /\ doc'.lastUpdated = today /\ doc'.transactionId = next[c].id
        BY <2>0 DEF SavedDoc, SavedOrder
      <4>4. k.day <= today /\ (k.day = today => k.id <= next[c].id)
        BY ONLY <4>1, <4>2, <4>3, NextIdIsAbove DEF SavedOrder
      <4> QED BY <4>3, <4>4
    <3> QED BY <3>1, <3>2, <1>4 DEF Update, Return
  <2>5. repeats' = IF next[c] \in issued THEN repeats + 1 ELSE repeats
    BY <1>4 DEF Update, Return
  <2>6. created <= 1 => repeats' = 0
    BY <2>3, <2>5 DEF IssuedInv
  <2>7. UNCHANGED <<today, created>> /\ \A d \in Callers : pc'[d] = "index" => pc[d] = "index"
    BY <1>4 DEF Update, Return
  <2>8. doc'.version > 0 /\ doc'.lastUpdated <= today' /\ doc.version > 0
    BY <2>0, <2>7 DEF SavedDoc
  <2>9. IssuedInv'
    <3>1. doc' \in Docs /\ ~(doc'.version = 0)
      BY <2>0, <2>8 DEF SavedDoc
    <3>2. \A d \in Callers : pc'[d] = "index" => created' >= 1
      BY <2>7, <2>8 DEF IssuedInv
    <3>3. created' = created /\ doc'.lastUpdated <= today'
      BY <2>7, <2>8
    <3> QED BY ONLY <2>4, <2>6, <3>1, <3>2, <3>3 DEF IssuedInv
  <2> QED BY <2>1, <2>2, <2>9
<1>5. ASSUME NEW c \in Callers, UpdateAnswerLost(c) PROVE IInv'
  <2>0. SavedDoc(c)
    BY <1>5, SaveUpdateFacts DEF UpdateAnswerLost
  <2>1. TypeOK'
    BY <1>5, <2>0 DEF UpdateAnswerLost, SavedDoc
  <2>2. CopyInv'
    BY <1>5, <2>0 DEF UpdateAnswerLost, CopyInv, SavedDoc
  <2>3. IssuedInv'
    <3>1. ASSUME created <= 1, NEW k \in issued
          PROVE  /\ k.day <= doc'.lastUpdated
                 /\ k.day = doc'.lastUpdated => k.id <= doc'.transactionId
      <4>1. k \in Ids /\ doc \in Docs /\ next[c] \in Ids /\ today \in Nat
        BY <3>1
      <4>2. k.day <= doc.lastUpdated /\ (k.day = doc.lastUpdated => k.id <= doc.transactionId)
        BY <3>1 DEF IssuedInv
      <4>3. SavedOrder(c) /\ doc'.lastUpdated = today /\ doc'.transactionId = next[c].id
        BY <2>0 DEF SavedDoc, SavedOrder
      <4>4. k.day <= today /\ (k.day = today => k.id <= next[c].id)
        BY ONLY <4>1, <4>2, <4>3, NextIdIsAbove DEF SavedOrder
      <4> QED BY <4>3, <4>4
    <3> QED BY <1>5, <2>0, <3>1 DEF UpdateAnswerLost, IssuedInv, SavedDoc
  <2> QED BY <2>1, <2>2, <2>3
<1>6. ASSUME NEW c \in Callers, Conflict(c) PROVE IInv'
  BY <1>6 DEF Conflict, CopyInv, IssuedInv
<1>7. ASSUME NEW c \in Callers, Index(c) PROVE IInv'
  <2>1. TypeOK'
    BY <1>7 DEF Index, Return, NoDoc, NoNext
  <2>2. CopyInv'
    BY <1>7 DEF Index, Return, CopyInv, IssuedInv
  <2>3. IssuedInv'
    BY <1>7 DEF Index, Return, CopyInv, IssuedInv
  <2> QED BY <2>1, <2>2, <2>3
<1>8. CASE Midnight
  BY <1>8 DEF Midnight, CopyInv, IssuedInv
<1>9. CASE UNCHANGED vars
  BY <1>9 DEF vars, CopyInv, IssuedInv
<1> QED
  BY <1>1, <1>2, <1>3, <1>4, <1>5, <1>6, <1>7, <1>8, <1>9 DEF Next, Step

(* The counter, the callers and their copies keep their types. *)
THEOREM SequenceTypeOK == Spec => []TypeOK
<1>1. IInv => TypeOK
  BY DEF IInv
<1> QED
  BY <1>1, InitInv, NextInv, PTL DEF Spec

(* nextTransactionId: while at most one caller created the vendor's document, no id is *)
(* ever returned twice on one day.                                                     *)
THEOREM UniqueTransactionIds == Spec => []FreshIds
<1>1. IInv => FreshIds
  BY DEF IInv, IssuedInv, FreshIds
<1> QED
  BY <1>1, InitInv, NextInv, PTL DEF Spec
=============================================================================
