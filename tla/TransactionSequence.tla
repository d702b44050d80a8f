------------------------ MODULE TransactionSequence ------------------------
(***************************************************************************)
(* TransactionSequenceHandler.nextTransactionId: the per-vendor, per-day   *)
(* counter kept in one Elasticsearch document and advanced with optimistic *)
(* concurrency.  Several init requests of one vendor call it at once.      *)
(***************************************************************************)
EXTENDS Integers

CONSTANTS
  Callers,     \* the threads that call nextTransactionId
  FirstId,     \* 1, or the time of day HHmmss in the DEV environment
  MaxDay,      \* bound: midnights that pass
  MaxCalls,    \* bound: calls made in all
  MaxLost      \* bound: answers of Elasticsearch that get lost

ASSUME SequenceAssumption ==
  FirstId \in Nat /\ MaxDay \in Nat /\ MaxCalls \in Nat /\ MaxLost \in Nat

VARIABLES
  doc,      \* the stored TransactionSequence with the version Elasticsearch keeps
  today,    \* the current date
  pc,       \* "idle", "decide", "update" or "index", for each caller
  copy,     \* what loadWithVersion returned
  next,     \* newTxId, and the day it was computed on
  issued,   \* history: the ids returned, each with its day
  repeats,  \* history: how often an id was returned again on its day
  created,  \* history: how often the document was created
  calls,    \* calls begun
  lost      \* answers lost

vars == <<doc, today, pc, copy, next, issued, repeats, created, calls, lost>>

\* A missing document has version 0; Elasticsearch counts every write of it.
Docs == [transactionId : Nat, version : Nat, lastUpdated : Nat]
Ids  == [day : Nat, id : Nat]

TypeOK ==
  /\ doc \in Docs
  /\ today \in Nat
  /\ pc \in [Callers -> {"idle", "load", "decide", "update", "index"}]
  /\ copy \in [Callers -> Docs]
  /\ next \in [Callers -> Ids]
  /\ issued \subseteq Ids
  /\ repeats \in Nat
  /\ created \in Nat
  /\ calls \in Nat
  /\ lost \in Nat

NoNext == [day |-> 0, id |-> 0]

NoDoc == [transactionId |-> 0, version |-> 0, lastUpdated |-> 0]

\* The vendor's document is missing, or there already.
Init ==
  /\ doc \in {NoDoc, [transactionId |-> 1, version |-> 1, lastUpdated |-> 0]}
  /\ today = 0
  /\ pc = [c \in Callers |-> "idle"]
  /\ copy = [c \in Callers |-> NoDoc]
  /\ next = [c \in Callers |-> NoNext]
  /\ issued = {}
  /\ repeats = 0
  /\ created = 0
  /\ calls = 0
  /\ lost = 0

Goto(c, l) == pc' = [pc EXCEPT ![c] = l]

Call(c) ==
  /\ pc[c] = "idle"
  /\ calls < MaxCalls
  /\ calls' = calls + 1
  /\ Goto(c, "load")
  /\ UNCHANGED <<doc, today, copy, next, issued, repeats, created, lost>>

LoadWithVersion(c) ==
  /\ pc[c] = "load"
  /\ copy' = [copy EXCEPT ![c] = doc]
  /\ Goto(c, IF doc.version > 0 THEN "decide" ELSE "index")
  /\ UNCHANGED <<doc, today, next, issued, repeats, created, calls, lost>>

\* Mutant: counts down.
DecideDown(c) ==
  /\ pc[c] = "decide"
  /\ next' = [next EXCEPT ![c] =
       [day |-> today,
        id  |-> IF copy[c].lastUpdated = today THEN copy[c].transactionId - 1 ELSE 1]]
  /\ Goto(c, "update")
  /\ UNCHANGED <<doc, today, copy, issued, repeats, created, calls, lost>>

\* newTxId: one more on the same date, 1 on another.
Decide(c) ==
  /\ pc[c] = "decide"
  /\ next' = [next EXCEPT ![c] =
       [day |-> today,
        id  |-> IF copy[c].lastUpdated = today THEN copy[c].transactionId + 1 ELSE 1]]
  /\ Goto(c, "update")
  /\ UNCHANGED <<doc, today, copy, issued, repeats, created, calls, lost>>

Return(c, id) ==
  /\ issued' = issued \cup {id}
  /\ repeats' = IF id \in issued THEN repeats + 1 ELSE repeats
  /\ copy' = [copy EXCEPT ![c] = NoDoc]
  /\ next' = [next EXCEPT ![c] = NoNext]
  /\ Goto(c, "idle")

\* Mutant: an update without a version.
SaveUpdateUnversioned(c) ==
  /\ pc[c] = "update"
  /\ doc' = [copy[c] EXCEPT !.transactionId = next[c].id, !.version = doc.version + 1, !.lastUpdated = today]

\* The versioned update: the copy with the new id and the time of the write.
SaveUpdate(c) ==
  /\ pc[c] = "update"
  /\ copy[c].version = doc.version
  /\ doc' = [copy[c] EXCEPT !.transactionId = next[c].id, !.version = @ + 1, !.lastUpdated = today]

Update(c) ==
  /\ SaveUpdate(c)
  /\ Return(c, next[c])
  /\ UNCHANGED <<today, created, calls, lost>>

\* The update goes through but the caller is told of a failure: it starts over.
UpdateAnswerLost(c) ==
  /\ lost < MaxLost
  /\ SaveUpdate(c)
  /\ lost' = lost + 1
  /\ Goto(c, "load")
  /\ UNCHANGED <<today, copy, next, issued, repeats, created, calls>>

\* Mutant: the caller tries again from the copy it has.
ConflictKeepsCopy(c) ==
  /\ pc[c] = "update"
  /\ copy[c].version # doc.version
  /\ Goto(c, "decide")
  /\ UNCHANGED <<doc, today, copy, next, issued, repeats, created, calls, lost>>

\* A version conflict makes the caller start over.
Conflict(c) ==
  /\ pc[c] = "update"
  /\ copy[c].version # doc.version
  /\ Goto(c, "load")
  /\ UNCHANGED <<doc, today, copy, next, issued, repeats, created, calls, lost>>

\* EsClient.index overwrites whatever is there, without a version.
Index(c) ==
  /\ pc[c] = "index"
  /\ doc' = [transactionId |-> FirstId, version |-> doc.version + 1, lastUpdated |-> today]
  /\ created' = created + 1
  /\ Return(c, [day |-> today, id |-> FirstId])
  /\ UNCHANGED <<today, calls, lost>>

Midnight ==
  /\ today < MaxDay
  /\ today' = today + 1
  /\ UNCHANGED <<doc, pc, copy, next, issued, repeats, created, calls, lost>>

Step(c) ==
  \/ LoadWithVersion(c) \/ Decide(c)
  \/ Update(c) \/ UpdateAnswerLost(c) \/ Conflict(c) \/ Index(c)

Next ==
  \/ \E c \in Callers : Call(c) \/ Step(c)
  \/ Midnight

Spec == Init /\ [][Next]_vars

\* Every caller runs on a thread of its own until it returns.
FairSpec == Spec /\ \A c \in Callers : WF_vars(Step(c))

-----------------------------------------------------------------------------
\* nextTransactionId: as long as no two callers found the document missing, no id is
\* returned twice on one day, however calls, conflicts, lost answers and midnights mix.
FreshIds == created <= 1 => repeats = 0

\* nextTransactionId: with finitely many calls the retries come to an end, and every
\* caller gets its id.
CallsReturn == \A c \in Callers : pc[c] # "idle" ~> pc[c] = "idle"
=============================================================================
