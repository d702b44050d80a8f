------------------------- MODULE AdminConsoleProofs -------------------------
(***************************************************************************)
(* Theorems about AdminConsole: page, scopes and overlay agree with the    *)
(* calls in flight (ConsoleAgrees of AdminConsoleInvariants), and what     *)
(* follows from it.                                                        *)
(***************************************************************************)
EXTENDS AdminConsoleInvariants, SequenceTheorems, TLAPS

-----------------------------------------------------------------------------
(* Queues of calls.                                                        *)

\* The elements of two queues put together.
LEMMA ConcatElements ==
  ASSUME NEW S, NEW p \in Seq(S), NEW q \in Seq(S)
  PROVE  /\ p \o q \in Seq(S) /\ Len(p \o q) = Len(p) + Len(q)
         /\ \A i \in 1..Len(p) : (p \o q)[i] = p[i]
         /\ \A i \in 1..Len(q) : (p \o q)[Len(p) + i] = q[i]
         /\ \A i \in 1..Len(p \o q) : i \in 1..Len(p) \/ i - Len(p) \in 1..Len(q)
OBVIOUS

\* Which kinds there are in two queues put together.
LEMMA HasConcat ==
  ASSUME NEW S, NEW p \in Seq(S), NEW q \in Seq(S), NEW A
  PROVE  Has(p \o q, A) <=> Has(p, A) \/ Has(q, A)
<1>1. Has(p \o q, A) => Has(p, A) \/ Has(q, A)
  BY ConcatElements DEF Has
<1>2. Has(p, A) => Has(p \o q, A)
  BY ConcatElements DEF Has
<1>3. ASSUME Has(q, A) PROVE Has(p \o q, A)
  <2>1. PICK i \in 1..Len(q) : q[i].kind \in A
    BY <1>3 DEF Has
  <2>2. Len(p) + i \in 1..Len(p \o q) /\ (p \o q)[Len(p) + i] = q[i]
    BY ConcatElements
  <2> QED BY <2>1, <2>2 DEF Has
<1> QED BY <1>1, <1>2, <1>3

\* Nothing of B comes after something of A in two queues put together.
LEMMA BeforeConcat ==
  ASSUME NEW S, NEW p \in Seq(S), NEW q \in Seq(S), NEW A, NEW B,
         ~Before(p, A, B), ~Before(q, A, B), ~Has(p, A) \/ ~Has(q, B)
  PROVE  ~Before(p \o q, A, B)
<1>1. SUFFICES ASSUME NEW i \in 1..Len(p \o q), NEW j \in 1..Len(p \o q), i < j,
                      (p \o q)[i].kind \in A, (p \o q)[j].kind \in B
               PROVE  FALSE
  BY DEF Before
<1>2. CASE j \in 1..Len(p)
  BY <1>1, <1>2, ConcatElements DEF Before
<1>3. CASE i - Len(p) \in 1..Len(q)
  <2> DEFINE k == i - Len(p)
             l == j - Len(p)
  <2>1. l \in 1..Len(q) /\ k < l
    BY <1>1, <1>3, ConcatElements
  <2>2. q[k] = (p \o q)[i] /\ q[l] = (p \o q)[j]
    BY <1>3, <2>1, ConcatElements
  <2> QED BY <1>1, <1>3, <2>1, <2>2 DEF Before
<1>4. CASE i \in 1..Len(p) /\ j - Len(p) \in 1..Len(q)
  <2>1. p[i] = (p \o q)[i] /\ q[j - Len(p)] = (p \o q)[j]
    BY <1>4, ConcatElements
  <2> QED BY <1>1, <1>4, <2>1 DEF Has
<1> QED BY <1>2, <1>3, <1>4, ConcatElements

\* Something of B comes after all of A in two queues put together.
LEMMA FollowedConcat ==
  ASSUME NEW S, NEW p \in Seq(S), NEW q \in Seq(S), NEW A, NEW B,
         Followed(p, A, B) \/ Has(q, B), Followed(q, A, B)
  PROVE  Followed(p \o q, A, B)
<1>1. SUFFICES ASSUME NEW i \in 1..Len(p \o q), (p \o q)[i].kind \in A
               PROVE  \E j \in 1..Len(p \o q) : i < j /\ (p \o q)[j].kind \in B
  BY DEF Followed
<1>2. CASE i - Len(p) \in 1..Len(q)
  <2> DEFINE k == i - Len(p)
  <2>1. q[k] = (p \o q)[i]
    BY <1>2, ConcatElements
  <2>2. PICK l \in 1..Len(q) : k < l /\ q[l].kind \in B
    BY <1>1, <1>2, <2>1 DEF Followed
  <2>3. Len(p) + l \in 1..Len(p \o q) /\ i < Len(p) + l /\ (p \o q)[Len(p) + l] = q[l]
    BY <2>2, ConcatElements
  <2> QED BY <2>2, <2>3
<1>3. CASE i \in 1..Len(p) /\ Has(q, B)
  <2>1. PICK l \in 1..Len(q) : q[l].kind \in B
    BY <1>3 DEF Has
  <2>2. Len(p) + l \in 1..Len(p \o q) /\ i < Len(p) + l /\ (p \o q)[Len(p) + l] = q[l]
    BY <1>3, ConcatElements
  <2> QED BY <2>1, <2>2
<1>4. CASE i \in 1..Len(p) /\ Followed(p, A, B)
  <2>1. p[i] = (p \o q)[i]
    BY <1>4, ConcatElements
  <2>2. PICK j \in 1..Len(p) : i < j /\ p[j].kind \in B
    BY <1>1, <1>4, <2>1 DEF Followed
  <2>3. j \in 1..Len(p \o q) /\ (p \o q)[j] = p[j]
    BY ConcatElements
  <2> QED BY <2>2, <2>3
<1> QED BY <1>2, <1>3, <1>4, ConcatElements

\* Taking the oldest call out moves the others up by one.
LEMMA RestElements ==
  ASSUME NEW S, NEW q \in Seq(S), q # <<>>
  PROVE  /\ RemoveAt(q, 1) \in Seq(S) /\ Len(RemoveAt(q, 1)) = Len(q) - 1
         /\ \A i \in 1..Len(RemoveAt(q, 1)) : i + 1 \in 1..Len(q) /\ RemoveAt(q, 1)[i] = q[i + 1]
         /\ \A i \in 2..Len(q) : i - 1 \in 1..Len(RemoveAt(q, 1)) /\ RemoveAt(q, 1)[i - 1] = q[i]
         /\ 1 \in 1..Len(q)
<1> DEFINE r == SubSeq(q, 2, Len(q))
<1>1. RemoveAt(q, 1) = r
  <2>1. SubSeq(q, 1, 0) = <<>> /\ r \in Seq(S)
    OBVIOUS
  <2>2. <<>> \o r = r
    BY <2>1
  <2>3. RemoveAt(q, 1) = SubSeq(q, 1, 0) \o r
    BY DEF RemoveAt
  <2> HIDE DEF r
  <2> QED BY <2>1, <2>2, <2>3
<1>2. Len(q) \in Nat /\ Len(q) # 0
  OBVIOUS
<1>3. /\ r \in Seq(S) /\ Len(r) = Len(q) - 1
      /\ \A i \in 1..Len(r) : r[i] = q[i + 1]
  BY HeadTailProperties, TailIsSubSeq
<1> HIDE DEF r
<1>4. ASSUME NEW i \in 2..Len(q)
      PROVE  i - 1 \in 1..Len(r) /\ r[i - 1] = q[i]
  <2>1. i - 1 \in 1..Len(r)
    BY <1>2, <1>3
  <2>2. r[i - 1] = q[(i - 1) + 1]
    BY <1>3, <2>1
  <2> QED BY <2>1, <2>2
<1> QED BY <1>1, <1>2, <1>3, <1>4

\* Taking any call out leaves a queue.
LEMMA RemoveType ==
  ASSUME NEW S, NEW q \in Seq(S), NEW i \in 1..Len(q)
  PROVE  RemoveAt(q, i) \in Seq(S)
  BY DEF RemoveAt

\* Kinds and their order without the oldest call.
LEMMA RestFacts ==
  ASSUME NEW S, NEW q \in Seq(S), q # <<>>, NEW A, NEW B
  PROVE  LET r == RemoveAt(q, 1)
             k == q[1].kind
         IN  /\ Has(q, A) <=> k \in A \/ Has(r, A)
             /\ ~Before(q, A, B) => ~Before(r, A, B) /\ (k \in A => ~Has(r, B))
             /\ Followed(q, A, B) => Followed(r, A, B) /\ (k \in A => Has(r, B))
<1> DEFINE r == RemoveAt(q, 1)
           k == q[1].kind
<1>1. /\ r \in Seq(S) /\ Len(r) = Len(q) - 1 /\ 1 \in 1..Len(q)
      /\ \A i \in 1..Len(r) : i + 1 \in 1..Len(q) /\ r[i] = q[i + 1]
      /\ \A i \in 2..Len(q) : i - 1 \in 1..Len(r) /\ r[i - 1] = q[i]
  BY RestElements
<1> HIDE DEF r
<1>2. Has(q, A) <=> k \in A \/ Has(r, A)
  BY <1>1 DEF Has
<1>3. ASSUME ~Before(q, A, B) PROVE ~Before(r, A, B) /\ (k \in A => ~Has(r, B))
  <2>1. ~Before(r, A, B)
    <3>1. SUFFICES ASSUME NEW i \in 1..Len(r), NEW j \in 1..Len(r), i < j,
                          r[i].kind \in A, r[j].kind \in B
                   PROVE  FALSE
      BY DEF Before
    <3>2. i + 1 < j + 1 /\ q[i + 1].kind \in A /\ q[j + 1].kind \in B /\ {i + 1, j + 1} \subseteq 1..Len(q)
      BY <1>1, <3>1
    <3> QED BY <1>3, <3>2 DEF Before
  <2>2. ASSUME k \in A, NEW j \in 1..Len(r), r[j].kind \in B
        PROVE  FALSE
    <3>1. 1 < j + 1 /\ q[j + 1].kind \in B /\ {1, j + 1} \subseteq 1..Len(q)
      BY <1>1, <2>2
    <3> QED BY <1>3, <2>2, <3>1 DEF Before
  <2> QED BY <2>1, <2>2 DEF Has
<1>4. ASSUME Followed(q, A, B) PROVE Followed(r, A, B) /\ (k \in A => Has(r, B))
  <2>1. ASSUME NEW i \in 1..Len(r), r[i].kind \in A
        PROVE  \E j \in 1..Len(r) : i < j /\ r[j].kind \in B
    <3>1. i + 1 \in 1..Len(q) /\ q[i + 1].kind \in A
      BY <1>1, <2>1
    <3>2. PICK j \in 1..Len(q) : i + 1 < j /\ q[j].kind \in B
      BY <1>4, <3>1 DEF Followed
    <3>3. j - 1 \in 1..Len(r) /\ i < j - 1 /\ r[j - 1] = q[j]
      BY <1>1, <2>1, <3>2
    <3> QED BY <3>2, <3>3
  <2>2. ASSUME k \in A PROVE Has(r, B)
    <3>1. PICK j \in 1..Len(q) : 1 < j /\ q[j].kind \in B
      BY <1>1, <1>4, <2>2 DEF Followed
    <3>2. j - 1 \in 1..Len(r) /\ r[j - 1] = q[j]
      BY <1>1, <3>1
    <3> QED BY <3>1, <3>2 DEF Has
  <2> QED BY <2>1, <2>2 DEF Followed
<1> QED BY <1>2, <1>3, <1>4 DEF r

-----------------------------------------------------------------------------
(* Calls and turns.                                                        *)

\* The calls that name an order.
OrderKinds == {"cartDetails", "rowStatus", "logs"}

\* The queue q when its calls' controller is gone.
Unowned(q) == [i \in 1..Len(q) |-> [q[i] EXCEPT !.own = FALSE]]

\* A new call of a kind that names an order if and only if it is given one is a call.
LEMMA NewCallType ==
  ASSUME server' \in BOOLEAN, NEW kind \in Kinds, NEW uuid \in Orders \cup {None}, NEW index \in Nat,
         kind \in OrderKinds <=> uuid # None, kind = "rowStatus" => index > 0
  PROVE  LET c == NewCall(kind, uuid, index)
         IN  c \in Calls /\ c.kind = kind /\ c.uuid = uuid /\ c.index = index /\ c.own
<1> DEFINE c == NewCall(kind, uuid, index)
<1>1. c \in [kind : Kinds, uuid : Orders \cup {None}, index : Nat, own : BOOLEAN, signedIn : BOOLEAN]
  BY DEF NewCall
<1>2. c.kind = kind /\ c.uuid = uuid /\ c.index = index /\ c.own
  BY DEF NewCall
<1> HIDE DEF c
<1>3. c \in Calls
  BY <1>1, <1>2 DEF Calls, OrderKinds
<1> QED BY <1>2, <1>3 DEF c

\* The queues of no call and of one.
LEMMA ShortQueues ==
  ASSUME NEW S, NEW c \in S
  PROVE  /\ <<>> \in Seq(S) /\ <<c>> \in Seq(S) /\ Len(<<c>>) = 1 /\ <<c>>[1] = c
         /\ \A A : ~Has(<<>>, A) /\ (Has(<<c>>, A) <=> c.kind \in A)
         /\ \A A, B : /\ ~Before(<<>>, A, B) /\ Followed(<<>>, A, B)
                      /\ ~Before(<<c>>, A, B) /\ (Followed(<<c>>, A, B) <=> c.kind \notin A)
<1>1. <<>> \in Seq(S) /\ <<c>> \in Seq(S) /\ Len(<<c>>) = 1 /\ <<c>>[1] = c /\ Len(<<>>) = 0
  OBVIOUS
<1>2. ASSUME NEW A
      PROVE  ~Has(<<>>, A) /\ (Has(<<c>>, A) <=> c.kind \in A)
  BY <1>1 DEF Has
<1>3. ASSUME NEW A, NEW B
      PROVE  /\ ~Before(<<>>, A, B) /\ Followed(<<>>, A, B)
             /\ ~Before(<<c>>, A, B) /\ (Followed(<<c>>, A, B) <=> c.kind \notin A)
  BY <1>1 DEF Before, Followed
<1> QED BY <1>1, <1>2, <1>3

\* A call of a kind that names no order.
LEMMA AskType ==
  ASSUME server' \in BOOLEAN, NEW kind \in Kinds, kind \notin OrderKinds
  PROVE  /\ Ask(kind) \in Seq(Calls) /\ Len(Ask(kind)) = 1 /\ Ask(kind)[1].kind = kind
         /\ \A A : Has(Ask(kind), A) <=> kind \in A
         /\ \A A, B : ~Before(Ask(kind), A, B) /\ (Followed(Ask(kind), A, B) <=> kind \notin A)
<1> DEFINE c == NewCall(kind, None, 0)
<1>1. c \in Calls /\ c.kind = kind
  <2>1. kind # "rowStatus"
    BY DEF OrderKinds
  <2> QED BY <2>1, NewCallType
<1>2. Ask(kind) = <<c>>
  BY DEF Ask
<1> HIDE DEF c
<1> QED BY <1>1, <1>2, ShortQueues

\* Controllers change neither the kinds nor the order of the calls.
LEMMA UnownedFacts ==
  ASSUME NEW q \in Seq(Calls)
  PROVE  /\ Unowned(q) \in Seq(Calls) /\ Len(Unowned(q)) = Len(q)
         /\ \A i \in 1..Len(q) : /\ Unowned(q)[i].kind = q[i].kind /\ Unowned(q)[i].index = q[i].index
                                 /\ ~Unowned(q)[i].own
         /\ \A A : Has(Unowned(q), A) <=> Has(q, A)
         /\ \A A, B : /\ Before(Unowned(q), A, B) <=> Before(q, A, B)
                      /\ Followed(Unowned(q), A, B) <=> Followed(q, A, B)
<1> DEFINE u == Unowned(q)
<1>1. ASSUME NEW i \in 1..Len(q)
      PROVE  /\ [q[i] EXCEPT !.own = FALSE] \in Calls
             /\ [q[i] EXCEPT !.own = FALSE].kind = q[i].kind
             /\ [q[i] EXCEPT !.own = FALSE].index = q[i].index
             /\ ~[q[i] EXCEPT !.own = FALSE].own
  <2>1. q[i] \in Calls
    OBVIOUS
  <2> QED BY <2>1 DEF Calls
<1>2. /\ u \in Seq(Calls) /\ Len(u) = Len(q)
      /\ \A i \in 1..Len(q) : u[i].kind = q[i].kind /\ u[i].index = q[i].index /\ ~u[i].own
  <2>1. \A i \in 1..Len(q) : u[i] = [q[i] EXCEPT !.own = FALSE]
    BY DEF Unowned
  <2>2. u \in Seq(Calls) /\ Len(u) = Len(q)
    <3>1. u \in [1..Len(q) -> Calls] /\ Len(q) \in Nat
      BY <1>1 DEF Unowned
    <3> HIDE DEF u
    <3> QED BY <3>1
  <2> QED BY <1>1, <2>1, <2>2
<1> HIDE DEF u
<1>3. \A A : Has(u, A) <=> Has(q, A)
  BY <1>2 DEF Has
<1>4. \A A, B : (Before(u, A, B) <=> Before(q, A, B)) /\ (Followed(u, A, B) <=> Followed(q, A, B))
  BY <1>2 DEF Before, Followed
<1> QED BY <1>2, <1>3, <1>4 DEF u

\* What is known of the calls after a step that keeps those of left and makes those of made.
LEMMA QueueStep ==
  ASSUME NEW left \in Seq(Calls), NEW made \in Seq(Calls), NEW next,
         next = left \o made \/ next = Unowned(left) \o made
  PROVE  /\ next \in Seq(Calls) /\ Len(next) = Len(left) + Len(made)
         /\ \A A : Has(next, A) <=> Has(left, A) \/ Has(made, A)
         /\ \A A, B : ~Before(left, A, B) /\ ~Before(made, A, B) /\ (Has(left, A) => ~Has(made, B))
                        => ~Before(next, A, B)
         /\ \A A, B : (Followed(left, A, B) \/ Has(made, B)) /\ Followed(made, A, B) => Followed(next, A, B)
         /\ \A i \in 1..Len(left) : next[i].kind = left[i].kind /\ next[i].index = left[i].index
         /\ \A i \in 1..Len(made) : next[Len(left) + i] = made[i]
<1>1. PICK p \in {left, Unowned(left)} : next = p \o made
  OBVIOUS
<1>2. /\ p \in Seq(Calls) /\ Len(p) = Len(left)
      /\ \A i \in 1..Len(left) : p[i].kind = left[i].kind /\ p[i].index = left[i].index
      /\ \A A : Has(p, A) <=> Has(left, A)
      /\ \A A, B : (Before(p, A, B) <=> Before(left, A, B)) /\ (Followed(p, A, B) <=> Followed(left, A, B))
  <2>1. CASE p = left
    BY <2>1
  <2>2. CASE p = Unowned(left)
    BY <2>2, UnownedFacts
  <2> QED BY <2>1, <2>2
<1>3. ASSUME NEW A PROVE Has(next, A) <=> Has(left, A) \/ Has(made, A)
  BY <1>1, <1>2, HasConcat
<1>4. ASSUME NEW A, NEW B, ~Before(left, A, B), ~Before(made, A, B), Has(left, A) => ~Has(made, B)
      PROVE  ~Before(next, A, B)
  BY <1>1, <1>2, <1>4, BeforeConcat
<1>5. ASSUME NEW A, NEW B, Followed(left, A, B) \/ Has(made, B), Followed(made, A, B)
      PROVE  Followed(next, A, B)
  BY <1>1, <1>2, <1>5, FollowedConcat
<1>6. /\ next \in Seq(Calls) /\ Len(next) = Len(left) + Len(made)
      /\ \A i \in 1..Len(left) : next[i].kind = left[i].kind /\ next[i].index = left[i].index
      /\ \A i \in 1..Len(made) : next[Len(left) + i] = made[i]
  <2>1. /\ next \in Seq(Calls) /\ Len(next) = Len(p) + Len(made)
        /\ \A i \in 1..Len(p) : next[i] = p[i]
        /\ \A i \in 1..Len(made) : next[Len(p) + i] = made[i]
    <3>0. p \in Seq(Calls)
      BY <1>2
    <3>1. LET n == p \o made
          IN  /\ n \in Seq(Calls) /\ Len(n) = Len(p) + Len(made)
              /\ \A i \in 1..Len(p) : n[i] = p[i]
              /\ \A i \in 1..Len(made) : n[Len(p) + i] = made[i]
      BY <3>0, ConcatElements
    <3> QED BY <1>1, <3>1, Zenon
  <2> QED BY <1>2, <2>1
<1> QED BY <1>3, <1>4, <1>5, <1>6

\* A queue without A or B has nothing of B after A, and nothing of A that wants a B.
LEMMA NoneFacts ==
  ASSUME NEW q, NEW A, NEW B
  PROVE  /\ ~Has(q, A) => ~Before(q, A, B) /\ Followed(q, A, B)
         /\ ~Has(q, B) => ~Before(q, A, B)
  BY DEF Has, Before, Followed

\* Of more kinds, more.
LEMMA HasSubset ==
  ASSUME NEW q, NEW A, NEW B, A \subseteq B, Has(q, A)
  PROVE  Has(q, B)
  BY DEF Has

\* A turn that stays on the page.
LEMMA TurnStays ==
  ASSUME NEW root, NEW sc, NEW left, NEW sent \in Seq(Calls), NEW covered \in BOOLEAN,
         Turn(root, sc, left, sent, page, covered)
  PROVE  /\ page' = page /\ rootScope' = root /\ scope' = sc /\ calls' = left \o sent
         /\ loading' \in BOOLEAN /\ (loading' <=> covered \/ Has(sent, ShowLoading))
<1>1. sent \o <<>> = sent
  OBVIOUS
<1> QED BY <1>1 DEF Turn, Has

\* The calls a controller makes when it starts.
LEMMA StartCallsFacts ==
  ASSUME server' \in BOOLEAN, NEW p \in Pages, NEW root \in RootScope
  PROVE  LET made == StartCalls(p, root)
         IN  /\ made \in Seq(Calls)
             /\ p = "login" => made = Ask("session")
             /\ p = "profile" => made = Ask("countries")
             /\ \A i \in 1..Len(made) :
                  made[i].kind \in IF p = "login" THEN {"session"} ELSE {"history", "cartDetails", "countries"}
             /\ p = "details" =>
                  \/ /\ Len(made) \in 1..Len(made) /\ OwnCart(made[Len(made)])
                     /\ made[Len(made)].uuid = root.selectedTransaction
                  \/ root.selectedTransaction = None /\ \A i \in 1..Len(made) : ~OwnCart(made[i])
<1>1. \A k \in {"session", "countries", "history"} :
        /\ k \in Kinds /\ k \notin OrderKinds
        /\ Ask(k) \in Seq(Calls) /\ Len(Ask(k)) = 1 /\ Ask(k)[1].kind = k
  BY AskType DEF Kinds, ShowLoading, HideLoadingOnSuccess, NoLoading, OrderKinds
<1>2. CASE p = "login"
  BY <1>1, <1>2 DEF StartCalls
<1>3. CASE p = "profile"
  BY <1>1, <1>3 DEF StartCalls
<1>4. CASE p \notin {"login", "profile", "details"}
  <2>1. StartCalls(p, root) = <<>> /\ <<>> \in Seq(Calls) /\ Len(<<>>) = 0
    BY <1>4 DEF StartCalls
  <2> QED BY <1>4, <2>1
<1>5. CASE p = "details"
  <2> DEFINE o == root.selectedTransaction
             c == NewCall("cartDetails", o, 0)
             h == IF root.selectedCustomer THEN Ask("history") ELSE <<>>
             s == IF o # None THEN <<c>> ELSE <<>>
  <2>1. StartCalls(p, root) = h \o s
    BY <1>5 DEF StartCalls
  <2>2. h \in Seq(Calls) /\ Len(h) \in {0, 1} /\ \A i \in 1..Len(h) : h[i].kind = "history"
    BY <1>1
  <2>3. CASE o # None
    <3>1. o \in Orders
      BY <2>3 DEF RootScope
    <3>2. "cartDetails" \in Kinds
      BY DEF Kinds, ShowLoading
    <3>3. c \in Calls /\ c.kind = "cartDetails" /\ c.uuid = o /\ c.own
      BY <2>3, <3>1, <3>2, NewCallType DEF OrderKinds
    <3>4. s \in Seq(Calls) /\ Len(s) = 1 /\ s[1] = c
      BY <2>3, <3>3
    <3> HIDE DEF h, s, c
    <3>5. /\ h \o s \in Seq(Calls) /\ Len(h \o s) = Len(h) + 1 /\ (h \o s)[Len(h) + 1] = c
          /\ \A i \in 1..Len(h) : (h \o s)[i] = h[i]
      <4>1. /\ h \o s \in Seq(Calls) /\ Len(h \o s) = Len(h) + Len(s)
            /\ \A i \in 1..Len(h) : (h \o s)[i] = h[i]
            /\ \A i \in 1..Len(s) : (h \o s)[Len(h) + i] = s[i]
        BY <2>2, <3>4, ConcatElements
      <4> QED BY <3>4, <4>1
    <3>6. \A i \in 1..Len(h \o s) : i \in 1..Len(h) \/ i = Len(h) + 1
      BY <2>2, <3>5
    <3> HIDE DEF o
    <3> QED BY <1>5, <2>1, <2>2, <3>3, <3>5, <3>6 DEF OwnCart, o
  <2>4. CASE o = None
    <3>1. s = <<>> /\ h \o <<>> = h
      BY <2>2, <2>4
    <3> HIDE DEF h, s, c
    <3> QED BY <1>5, <2>1, <2>2, <2>4, <3>1 DEF OwnCart
  <2> QED BY <2>3, <2>4
<1> QED BY <1>2, <1>3, <1>4, <1>5

\* A turn that leaves the page.
LEMMA TurnMoves ==
  ASSUME NEW root \in RootScope, NEW sc, NEW left, NEW p \in Pages, NEW covered \in BOOLEAN, p # page,
         server' \in BOOLEAN, Turn(root, sc, left, <<>>, p, covered)
  PROVE  LET made == StartCalls(page', root)
         IN  /\ page' = IF p = "login" \/ root.userProfile THEN p ELSE "login"
             /\ page' \in Pages /\ scope' = NewScope
             /\ rootScope' \in RootScope
             /\ rootScope'.userProfile = root.userProfile /\ rootScope'.transactions = root.transactions
             /\ rootScope'.customers = root.customers
             /\ rootScope'.selectedTransaction = root.selectedTransaction
             /\ calls' = Unowned(left) \o made
             /\ loading' \in BOOLEAN /\ (loading' <=> covered \/ Has(made, ShowLoading))
<1> DEFINE to == IF p = "login" \/ root.userProfile THEN p ELSE "login"
<1>1. to \in Pages
  BY DEF Pages
<1>2. page' = to /\ scope' = NewScope
  BY DEF Turn
<1>3. <<>> \o StartCalls(to, root) = StartCalls(to, root)
  BY <1>1, StartCallsFacts
<1>4. /\ calls' = Unowned(left) \o StartCalls(to, root)
      /\ loading' \in BOOLEAN /\ (loading' <=> covered \/ Has(StartCalls(to, root), ShowLoading))
  <2> HIDE DEF to
  <2>1. LET made == <<>> \o StartCalls(to, root)
        IN  /\ calls' = Unowned(left) \o made
            /\ loading' = (covered \/ \E i \in 1..Len(made) : made[i].kind \in ShowLoading)
    BY DEF Turn, Unowned, to
  <2> QED BY <1>3, <2>1 DEF Has
<1>5. rootScope' \in {root, [root EXCEPT !.logsDetails = None, !.returnDetails = None], [root EXCEPT !.isMerchant = TRUE]}
  BY DEF Turn
<1>6. /\ rootScope' \in RootScope
      /\ rootScope'.userProfile = root.userProfile /\ rootScope'.transactions = root.transactions
      /\ rootScope'.customers = root.customers
      /\ rootScope'.selectedTransaction = root.selectedTransaction
  BY <1>5 DEF RootScope
<1> QED BY <1>1, <1>2, <1>4, <1>6

-----------------------------------------------------------------------------
(* Types.                                                                  *)

ScopeType == [loginContainer : BOOLEAN, historyDetails : BOOLEAN, cartDetails : Orders \cup {None}]

\* Everything has its type.
Typed == TypeOK /\ rootScope \in RootScope

\* The arguments of a turn have their types, and calls are made on a page that stays only.
Arguments(root, sc, left, sent, p, covered) ==
  /\ root \in RootScope /\ sc \in ScopeType /\ left \in Seq(Calls) /\ sent \in Seq(Calls) /\ p \in Pages
  /\ p = page \/ sent = <<>>
  /\ covered \in BOOLEAN

\* A turn with such arguments keeps the types.
LEMMA TurnType ==
  ASSUME Typed, NEW root, NEW sc, NEW left, NEW sent, NEW p, NEW covered,
         Arguments(root, sc, left, sent, p, covered), Turn(root, sc, left, sent, p, covered),
         server' \in BOOLEAN, rowsLost' \in BOOLEAN, clicks' \in 0..MaxClicks, overtakes' \in 0..MaxOvertakes
  PROVE  Typed'
<1>1. /\ root \in RootScope /\ sc \in ScopeType /\ left \in Seq(Calls) /\ sent \in Seq(Calls)
      /\ p \in Pages /\ (p = page \/ sent = <<>>)
      /\ covered \in BOOLEAN /\ page \in Pages
  BY DEF Arguments, Typed, TypeOK
<1>2. page' \in Pages /\ rootScope' \in RootScope /\ scope' \in ScopeType /\ calls' \in Seq(Calls) /\ loading' \in BOOLEAN
  <2>1. CASE p = page
    <3>1. page' = page /\ rootScope' = root /\ scope' = sc /\ calls' = left \o sent /\ loading' \in BOOLEAN
      BY <1>1, <2>1, TurnStays
    <3>2. left \o sent \in Seq(Calls)
      BY <1>1
    <3> QED BY <1>1, <3>1, <3>2
  <2>2. CASE p # page
    <3> DEFINE made == StartCalls(page', root)
    <3>1. Turn(root, sc, left, <<>>, p, covered)
      BY <1>1, <2>2
    <3>2. /\ page' \in Pages /\ scope' = NewScope /\ rootScope' \in RootScope
          /\ calls' = Unowned(left) \o made /\ loading' \in BOOLEAN
      BY <1>1, <2>2, <3>1, TurnMoves, Zenon
    <3>3. made \in Seq(Calls) /\ Unowned(left) \in Seq(Calls)
      BY <1>1, <3>2, StartCallsFacts, UnownedFacts
    <3> HIDE DEF made
    <3>4. Unowned(left) \o made \in Seq(Calls)
      BY <3>3
    <3>5. NewScope \in ScopeType
      BY DEF NewScope, ScopeType
    <3> QED BY <3>2, <3>4, <3>5
  <2> QED BY <2>1, <2>2
<1>3. /\ {rootScope'.isMerchant, rootScope'.userProfile, rootScope'.customers,
          rootScope'.mogopayGoToProfile, rootScope'.selectedCustomer} \subseteq BOOLEAN
      /\ rootScope'.transactions # None => rootScope'.transactions \in Rows
      /\ {rootScope'.selectedTransaction, rootScope'.logsDetails, rootScope'.returnDetails} \subseteq Orders \cup {None}
  BY <1>2 DEF RootScope
<1> QED BY <1>2, <1>3 DEF Typed, TypeOK, ScopeType

\* One row's status changes and nothing else does.
LEMMA RowsUpdate ==
  ASSUME NEW root \in RootScope, root.transactions # None, NEW n \in Nat, NEW status \in Orders \cup {None}
  PROVE  LET next == [root EXCEPT !.transactions[n].deliveryStatus = status]
         IN  /\ next \in RootScope /\ next.transactions # None
             /\ Len(next.transactions) = Len(root.transactions)
             /\ next.userProfile = root.userProfile /\ next.customers = root.customers
             /\ next.selectedTransaction = root.selectedTransaction
<1> DEFINE Row  == [uuid : Orders, deliveryStatus : Orders \cup {None}]
           rows == root.transactions
           new  == [rows EXCEPT ![n].deliveryStatus = status]
           next == [root EXCEPT !.transactions[n].deliveryStatus = status]
<1>1. rows \in Seq(Row)
  BY DEF RootScope, Rows
<1>2. new \in Seq(Row) /\ Len(new) = Len(rows)
  <2>1. new = [rows EXCEPT ![n] = [rows[n] EXCEPT !.deliveryStatus = status]]
    OBVIOUS
  <2>2. CASE n \in 1..Len(rows)
    <3> HIDE DEF rows, Row, new
    <3>1. rows[n] \in Row
      BY <1>1, <2>2
    <3>2. [rows[n] EXCEPT !.deliveryStatus = status] \in Row
      BY <3>1 DEF Row
    <3> QED BY <1>1, <2>1, <2>2, <3>2
  <2>3. CASE n \notin 1..Len(rows)
    <3>1. new = rows
      BY <1>1, <2>1, <2>3
    <3> QED BY <1>1, <3>1
  <2> QED BY <2>2, <2>3
<1>3. new # None
  BY <1>2, ConsoleAssumption DEF Rows
<1>4. next = [root EXCEPT !.transactions = new]
  BY DEF RootScope
<1>5. new \in Rows
  BY <1>2 DEF Rows
<1> HIDE DEF new
<1>6. LET x == [root EXCEPT !.transactions = new]
      IN  /\ x \in RootScope /\ x.transactions = new /\ x.userProfile = root.userProfile
          /\ x.customers = root.customers /\ x.selectedTransaction = root.selectedTransaction
  BY <1>5 DEF RootScope
<1> HIDE DEF next
<1> QED BY <1>2, <1>3, <1>4, <1>6 DEF next

-----------------------------------------------------------------------------
(* What clicks do.                                                         *)

\* root differs from $rootScope at most in what is selected and how it is shown.
SameUser(root) ==
  /\ root.userProfile = rootScope.userProfile
  /\ root.transactions = rootScope.transactions /\ root.customers = rootScope.customers

\* A click logs in, or comes from a page that is not covered.  On the details page it keeps
\* the order selected or asks for the cart of another one.
ClickShape(root, sent, p) ==
  /\ Arguments(root, scope, calls, sent, p, loading) /\ Click(root, sent, p)
  /\ SameUser(root)
  /\ \/ page = "login" /\ scope.loginContainer /\ p = page /\ sent = Ask("login")
     \/ /\ page # "login" /\ p # "login" /\ ~loading
        /\ ~Has(sent, SessionKinds \cup {"login", "list-compagnies"})
        /\ page = "profile" => ~Has(sent, {"goToProfile"})
  /\ page = "details" /\ p = page =>
       \/ /\ root.selectedTransaction = rootScope.selectedTransaction
          /\ \A j \in 1..Len(sent) : ~OwnCart(sent[j])
       \/ Len(sent) = 1 /\ OwnCart(sent[1]) /\ sent[1].uuid = root.selectedTransaction

\* Clicks that only call the server.
LEMMA AskClick ==
  ASSUME Typed, NEW kind \in Kinds, kind \notin OrderKinds \cup SessionKinds \cup {"list-compagnies"},
         Click(rootScope, Ask(kind), page),
         \/ page = "login" /\ scope.loginContainer /\ kind = "login"
         \/ page # "login" /\ ~loading /\ kind # "login" /\ (page = "profile" => kind # "goToProfile")
  PROVE  ClickShape(rootScope, Ask(kind), page)
<1>1. server' \in BOOLEAN /\ page \in Pages /\ loading \in BOOLEAN /\ calls \in Seq(Calls)
      /\ scope \in ScopeType /\ rootScope \in RootScope
  BY DEF Typed, TypeOK, Click, ScopeType
<1>2. /\ Ask(kind) \in Seq(Calls) /\ Len(Ask(kind)) = 1 /\ Ask(kind)[1].kind = kind
      /\ \A A : Has(Ask(kind), A) <=> kind \in A
  BY <1>1, AskType
<1>3. \A j \in 1..Len(Ask(kind)) : ~OwnCart(Ask(kind)[j])
  BY <1>2 DEF OwnCart, OrderKinds
<1>4. Arguments(rootScope, scope, calls, Ask(kind), page, loading)
  BY <1>1, <1>2 DEF Arguments
<1>5. page # "login" => /\ ~Has(Ask(kind), SessionKinds \cup {"login", "list-compagnies"})
                        /\ page = "profile" => ~Has(Ask(kind), {"goToProfile"})
  BY <1>2
<1> QED BY <1>3, <1>4, <1>5 DEF ClickShape, SameUser

\* Clicks that select something or go to another page.
LEMMA SelectClick ==
  ASSUME Typed, NEW root \in RootScope, NEW p \in Pages, p # "login", page # "login", ~loading,
         SameUser(root), Click(root, <<>>, p),
         p = page => root.selectedTransaction = rootScope.selectedTransaction
  PROVE  ClickShape(root, <<>>, p)
<1>1. /\ <<>> \in Seq(Calls) /\ Len(<<>>) = 0 /\ page \in Pages /\ loading \in BOOLEAN /\ calls \in Seq(Calls)
      /\ scope \in ScopeType
  BY DEF Typed, TypeOK, ScopeType
<1>2. Arguments(root, scope, calls, <<>>, p, loading)
  BY <1>1 DEF Arguments
<1>3. \A A : ~Has(<<>>, A)
  BY <1>1 DEF Has
<1> QED BY <1>1, <1>2, <1>3 DEF ClickShape

\* Every click has this shape.
LEMMA ClickShapes ==
  ASSUME Typed, UserClicks
  PROVE  \E root, sent, p : ClickShape(root, sent, p)
<1>1. rootScope \in RootScope /\ calls \in Seq(Calls) /\ scope \in ScopeType /\ loading \in BOOLEAN /\ page \in Pages
  BY DEF Typed, TypeOK, ScopeType
<1>2. ASSUME NEW kind \in Kinds, kind \notin OrderKinds \cup SessionKinds \cup {"list-compagnies"},
             Click(rootScope, Ask(kind), page),
             \/ page = "login" /\ scope.loginContainer /\ kind = "login"
             \/ page # "login" /\ ~loading /\ kind # "login" /\ (page = "profile" => kind # "goToProfile")
      PROVE  \E root, sent, p : ClickShape(root, sent, p)
  BY <1>2, AskClick
<1>3. ASSUME NEW root \in RootScope, NEW p \in Pages, p # "login", page # "login", ~loading,
             SameUser(root), Click(root, <<>>, p),
             p = page => root.selectedTransaction = rootScope.selectedTransaction
      PROVE  \E r, sent, q : ClickShape(r, sent, q)
  BY <1>3, SelectClick
<1>4. \A k \in {"login", "logout", "goToProfile", "listOrders", "listCustomers", "return", "admins1", "admins2",
               "update-profile"} :
        k \in Kinds /\ k \notin OrderKinds \cup SessionKinds \cup {"list-compagnies"}
  BY DEF Kinds, ShowLoading, OrderKinds, SessionKinds
<1>5. CASE Login \/ Logout \/ GoToProfile
  BY <1>2, <1>4, <1>5 DEF Login, Logout, GoToProfile
<1>6. CASE ListTransactionsSearch \/ ListCustomersSearch \/ UpdateReturnItem \/ LoadStatesForCountry \/ SaveProfile
  BY <1>2, <1>4, <1>6
     DEF ListTransactionsSearch, ListCustomersSearch, UpdateReturnItem, LoadStatesForCountry, SaveProfile
<1>7. ASSUME NEW p \in {"listTransactions", "listCustomers"}, NavigateToPage(p)
      PROVE  \E root, sent, q : ClickShape(root, sent, q)
  <2>1. p \in Pages /\ p # "login" /\ SameUser(rootScope)
    BY DEF Pages, SameUser
  <2> QED BY <1>1, <1>3, <1>7, <2>1 DEF NavigateToPage
<1>8. CASE GotToOrderDetails
  <2>1. PICK i \in 1..Len(rootScope.transactions), customer \in BOOLEAN :
          Click([rootScope EXCEPT !.selectedTransaction = rootScope.transactions[i].uuid,
                                  !.selectedCustomer = customer], <<>>, "details")
    BY <1>8 DEF GotToOrderDetails
  <2> DEFINE o    == rootScope.transactions[i].uuid
             root == [rootScope EXCEPT !.selectedTransaction = o, !.selectedCustomer = customer]
  <2>2. page = "listTransactions" /\ ~loading /\ rootScope.transactions # None
    BY <1>8 DEF GotToOrderDetails
  <2>3. o \in Orders
    <3>1. rootScope.transactions \in Rows
      BY <1>1, <2>2 DEF RootScope
    <3>2. rootScope.transactions[i] \in [uuid : Orders, deliveryStatus : Orders \cup {None}]
      BY <3>1, ElementOfSeq DEF Rows
    <3> QED BY <3>2
  <2> HIDE DEF o
  <2>4. root \in RootScope /\ SameUser(root)
    BY <1>1, <2>3 DEF RootScope, SameUser
  <2>5. Click(root, <<>>, "details") /\ "details" \in Pages
    BY <2>1 DEF Pages, o
  <2> HIDE DEF root
  <2> QED BY <1>3, <2>2, <2>4, <2>5
<1>9. CASE GotToCustomerDetails
  <2> DEFINE root == [rootScope EXCEPT !.selectedTransaction = None, !.selectedCustomer = TRUE]
  <2>1. root \in RootScope /\ SameUser(root) /\ "details" \in Pages
    BY <1>1 DEF RootScope, SameUser, Pages
  <2>2. page = "listCustomers" /\ ~loading /\ Click(root, <<>>, "details")
    BY <1>9 DEF GotToCustomerDetails
  <2> HIDE DEF root
  <2> QED BY <1>3, <2>1, <2>2
<1>10. CASE DetailsSelectReturn
  <2> DEFINE root == [rootScope EXCEPT !.returnDetails = scope.cartDetails]
             p    == IF rootScope.isMerchant THEN "return" ELSE page
  <2>1. scope.cartDetails \in Orders \cup {None}
    BY <1>1 DEF ScopeType
  <2>2. root \in RootScope /\ SameUser(root) /\ root.selectedTransaction = rootScope.selectedTransaction
    BY <1>1, <2>1 DEF RootScope, SameUser
  <2>3. page = "details" /\ ~loading /\ Click(root, <<>>, p)
    BY <1>10 DEF DetailsSelectReturn
  <2>4. p \in Pages /\ p # "login" /\ page # "login"
    BY <2>3 DEF Pages
  <2> HIDE DEF root, p
  <2> QED BY <1>3, <2>2, <2>3, <2>4
<1>11. CASE DetailsSelectOrder
  <2>1. PICK o \in Orders :
          Click([rootScope EXCEPT !.selectedTransaction = o, !.logsDetails = None, !.returnDetails = None],
                <<NewCall("cartDetails", o, 0)>>, page)
    BY <1>11 DEF DetailsSelectOrder
  <2> DEFINE root == [rootScope EXCEPT !.selectedTransaction = o, !.logsDetails = None, !.returnDetails = None]
             c    == NewCall("cartDetails", o, 0)
  <2>2. root \in RootScope /\ SameUser(root) /\ root.selectedTransaction = o
    BY <1>1 DEF RootScope, SameUser
  <2>3. server' \in BOOLEAN
    BY <2>1 DEF Click, Typed, TypeOK
  <2>4. c \in Calls /\ c.kind = "cartDetails" /\ c.uuid = o /\ c.own
    <3>1. "cartDetails" \in Kinds /\ "cartDetails" \in OrderKinds /\ o # None
      BY ConsoleAssumption DEF Kinds, ShowLoading, OrderKinds
    <3> QED BY <2>3, <3>1, NewCallType
  <2>5. page = "details" /\ ~loading /\ Click(root, <<c>>, page)
    BY <1>11, <2>1 DEF DetailsSelectOrder
  <2> HIDE DEF root, c
  <2>6. <<c>> \in Seq(Calls) /\ Len(<<c>>) = 1 /\ <<c>>[1] = c /\ \A A : Has(<<c>>, A) <=> "cartDetails" \in A
    BY <2>4, ShortQueues
  <2>7. Arguments(root, scope, calls, <<c>>, page, loading)
    BY <1>1, <2>2, <2>6 DEF Arguments
  <2>8. ~Has(<<c>>, SessionKinds \cup {"login", "list-compagnies"}) /\ ~Has(<<c>>, {"goToProfile"})
    BY <2>6 DEF SessionKinds
  <2>9. OwnCart(<<c>>[1]) /\ <<c>>[1].uuid = root.selectedTransaction
    BY <2>2, <2>4, <2>6 DEF OwnCart
  <2>10. ClickShape(root, <<c>>, page)
    BY <2>2, <2>5, <2>6, <2>7, <2>8, <2>9 DEF ClickShape
  <2> QED BY <2>10
<1> QED BY <1>5, <1>6, <1>7, <1>8, <1>9, <1>10, <1>11 DEF UserClicks

-----------------------------------------------------------------------------
(* What answers do.                                                        *)

\* An answer takes its call out of the queue, and writes the cart of its own order at most.
AnswerBase(i, root, sc, sent, p, covered) ==
  /\ i \in 1..Len(calls) /\ UNCHANGED clicks
  /\ overtakes' \in 0..MaxOvertakes /\ (overtakes' = 0 => i = 1 /\ overtakes = 0)
  /\ server' \in BOOLEAN /\ rowsLost' \in BOOLEAN
  /\ Arguments(root, sc, RemoveAt(calls, i), sent, p, covered)
  /\ Turn(root, sc, RemoveAt(calls, i), sent, p, covered)
  /\ covered => loading
  /\ root.selectedTransaction = rootScope.selectedTransaction
  /\ \A j \in 1..Len(sent) : ~OwnCart(sent[j])
  /\ ~OwnCart(calls[i]) => sc.cartDetails = scope.cartDetails
  /\ OwnCart(calls[i]) /\ calls[i].uuid = root.selectedTransaction =>
       sc.cartDetails \in {None, root.selectedTransaction}

\* Somebody still takes the overlay away: a new call, or not the one answered.
StillLifts(i, root, sent) ==
  \/ Has(sent, HideLoadingOnError)
  \/ /\ Len(sent) = 1 /\ sent[1].kind = "rowStatus"
     /\ root.transactions # None /\ sent[1].index <= Len(root.transactions)
  \/ /\ calls[i].kind \notin HideLoadingOnError /\ ~Live(calls[i])
     /\ rootScope.transactions # None => /\ root.transactions # None
                                         /\ Len(root.transactions) = Len(rootScope.transactions)

\* The answer changes neither the page nor who is known to be there.
PlainShape(i, root, sc, sent, p, covered) ==
  /\ p = page /\ root.userProfile = rootScope.userProfile
  /\ server' => server \/ calls[i].kind = "login"
  /\ sc.loginContainer = scope.loginContainer
  /\ ~Has(sent, SessionKinds \cup UserKinds \cup {"login", "logout"})
  /\ \/ calls[i].kind \in UserKinds /\ Known(i)
     \/ /\ root.customers = rootScope.customers
        /\ rootScope.transactions = None => root.transactions = None
  /\ covered => StillLifts(i, root, sent)

\* The login page learns something of the session.
SessionShape(i, root, sc, sent, p, covered) ==
  /\ calls[i].kind \in SessionKinds /\ p = page /\ (server' => server)
  /\ root.transactions = rootScope.transactions /\ root.customers = rootScope.customers
  /\ calls[i].kind = "list-merchants" => ~covered
  /\ \/ /\ calls[i].kind = "session" /\ Known(i) /\ root.userProfile
        /\ sc.loginContainer = scope.loginContainer /\ sent = Ask("list-compagnies")
     \/ /\ root.userProfile = rootScope.userProfile
        /\ sc.loginContainer = scope.loginContainer
        /\ sent = Ask("session") \/ sent = Ask("drop-session")
     \/ /\ root.userProfile = rootScope.userProfile
        /\ sent = Ask("merchant-token")

\* The stores of a user are asked for.
StoresShape(i, root, sc, sent, p, covered) ==
  /\ calls[i].kind \in {"profile-info", "update-profile"} /\ Known(i) /\ p = page /\ server' = server
  /\ root.userProfile \/ (calls[i].kind = "update-profile" /\ root.userProfile = rootScope.userProfile)
  /\ sc.loginContainer = scope.loginContainer /\ sent = Ask("list-compagnies") /\ ~covered

\* The browser goes to a page of the user's.
MoveShape(i, root, sc, sent, p, covered) ==
  /\ calls[i].kind \in UserKinds /\ Known(i) /\ server' = server /\ p # "login" /\ sent = <<>>
  /\ root.userProfile \/ root.userProfile = rootScope.userProfile
  /\ sc.loginContainer = scope.loginContainer
  /\ covered => calls[i].kind = "list-compagnies" \/ (calls[i].kind = "goToProfile" /\ p = "profile")

\* The user is forgotten.
LogoutShape(i, root, sc, sent, p, covered) ==
  /\ calls[i].kind = "logout" /\ ~server' /\ p = "login" /\ sent = <<>> /\ ~covered
  /\ ~root.userProfile /\ root.transactions = None /\ ~root.customers
  /\ sc.loginContainer = scope.loginContainer

\* What every answer starts from.
LEMMA AnswerFacts ==
  ASSUME Typed, NEW i, NEW kinds, Answer(i, kinds)
  PROVE  /\ i \in 1..Len(calls) /\ UNCHANGED clicks
         /\ overtakes' \in 0..MaxOvertakes /\ (overtakes' = 0 => i = 1 /\ overtakes = 0)
         /\ calls[i] \in Calls /\ calls[i].kind \in kinds /\ RemoveAt(calls, i) \in Seq(Calls)
         /\ server \in BOOLEAN /\ rowsLost \in BOOLEAN /\ loading \in BOOLEAN
         /\ page \in Pages /\ scope \in ScopeType /\ rootScope \in RootScope
         /\ \A ok \in BOOLEAN : Covered(i, ok) \in BOOLEAN /\ (Covered(i, ok) => loading)
<1>1. /\ calls \in Seq(Calls) /\ overtakes \in 0..MaxOvertakes /\ MaxOvertakes \in Nat
      /\ server \in BOOLEAN /\ rowsLost \in BOOLEAN /\ loading \in BOOLEAN
      /\ page \in Pages /\ scope \in ScopeType /\ rootScope \in RootScope
  BY ConsoleAssumption DEF Typed, TypeOK, ScopeType
<1>2. i \in 1..Len(calls) /\ calls[i].kind \in kinds /\ UNCHANGED clicks
  BY DEF Answer
<1>3. calls[i] \in Calls /\ RemoveAt(calls, i) \in Seq(Calls)
  BY <1>1, <1>2, RemoveType, ElementOfSeq
<1>4. overtakes' \in 0..MaxOvertakes /\ (overtakes' = 0 => i = 1 /\ overtakes = 0)
  BY <1>1, <1>2 DEF Answer
<1>5. \A ok \in BOOLEAN : Covered(i, ok) \in BOOLEAN /\ (Covered(i, ok) => loading)
  BY <1>1 DEF Covered
<1> QED BY <1>1, <1>2, <1>3, <1>4, <1>5

\* An answer that makes no call, or one that names no order.
LEMMA AnswerTurn ==
  ASSUME Typed, NEW i, NEW kinds, Answer(i, kinds), server' \in BOOLEAN, rowsLost' \in BOOLEAN,
         NEW root \in RootScope, root.selectedTransaction = rootScope.selectedTransaction,
         NEW sc \in ScopeType, NEW sent, NEW p \in Pages, NEW covered \in BOOLEAN, covered => loading,
         \/ sent = <<>>
         \/ p = page /\ \E k \in Kinds \ OrderKinds : sent = Ask(k),
         Turn(root, sc, RemoveAt(calls, i), sent, p, covered),
         sc.cartDetails = scope.cartDetails,
         "cartDetails" \notin kinds
  PROVE  AnswerBase(i, root, sc, sent, p, covered)
<1>1. sent \in Seq(Calls) /\ \A j \in 1..Len(sent) : ~OwnCart(sent[j])
  <2>1. CASE sent = <<>>
    BY <2>1
  <2>2. ASSUME NEW k \in Kinds \ OrderKinds, sent = Ask(k)
        PROVE  sent \in Seq(Calls) /\ \A j \in 1..Len(sent) : ~OwnCart(sent[j])
    <3>1. sent \in Seq(Calls) /\ Len(sent) = 1 /\ sent[1].kind = k
      BY <2>2, AskType
    <3> QED BY <3>1 DEF OwnCart, OrderKinds
  <2> QED BY <2>1, <2>2
<1>2. Arguments(root, sc, RemoveAt(calls, i), sent, p, covered)
  BY <1>1, AnswerFacts DEF Arguments
<1>3. ~OwnCart(calls[i])
  BY AnswerFacts DEF OwnCart
<1> QED BY <1>1, <1>2, <1>3, AnswerFacts DEF AnswerBase

\* The kinds of calls a plain answer may make.
LEMMA PlainKinds ==
  ASSUME server' \in BOOLEAN, NEW k \in {"profile-info", "merchant-token", "admins1", "admins2"}
  PROVE  /\ k \in Kinds \ OrderKinds
         /\ ~Has(Ask(k), SessionKinds \cup UserKinds \cup {"login", "logout"})
         /\ k # "merchant-token" => Has(Ask(k), HideLoadingOnError)
<1>1. k \in Kinds /\ k \notin OrderKinds
  BY DEF Kinds, ShowLoading, HideLoadingOnSuccess, NoLoading, OrderKinds
<1>2. \A A : Has(Ask(k), A) <=> k \in A
  BY <1>1, AskType
<1>3. k \notin SessionKinds \cup UserKinds \cup {"login", "logout"}
  BY DEF SessionKinds, UserKinds
<1>4. k # "merchant-token" => k \in HideLoadingOnError
  BY DEF HideLoadingOnError, HideLoadingOnSuccess
<1> QED BY <1>1, <1>2, <1>3, <1>4

\* No call is of any kind.
LEMMA NoCalls == \A A : ~Has(<<>>, A)
  BY DEF Has

\* What the overlay's tables say of a call that keeps the overlay.
LEMMA KeepsOverlay ==
  ASSUME NEW i, NEW ok \in BOOLEAN, Covered(i, ok)
  PROVE  /\ ~ok => calls[i].kind \notin HideLoadingOnError
         /\ calls[i].kind \in HideLoadingOnError => calls[i].kind \in {"login", "listOrders", "goToProfile"}
  BY DEF Covered, HideLoadingOnError

\* Failures, and successes that leave the lists alone.
LEMMA PlainAnswers ==
  ASSUME Typed, NEW i, Error(i) \/ MerchantTokenSuccess(i) \/ LoginSuccess(i) \/ CountriesSuccess(i)
  PROVE  \E root, sc, sent, p, covered :
           AnswerBase(i, root, sc, sent, p, covered) /\ PlainShape(i, root, sc, sent, p, covered)
<1>1. ASSUME NEW kinds, Answer(i, kinds), "cartDetails" \notin kinds, "rowStatus" \notin kinds,
             server' \in BOOLEAN, server' => server \/ calls[i].kind = "login", rowsLost' \in BOOLEAN,
             NEW ok \in BOOLEAN, NEW sent,
             \/ sent = <<>> /\ (ok => kinds \cap {"login", "listOrders", "goToProfile"} = {})
             \/ \E k \in {"profile-info", "admins1", "admins2"} : sent = Ask(k),
             Turn(rootScope, scope, Left(i), sent, page, Covered(i, ok))
      PROVE  /\ AnswerBase(i, rootScope, scope, sent, page, Covered(i, ok))
             /\ PlainShape(i, rootScope, scope, sent, page, Covered(i, ok))
  <2>1. /\ calls[i].kind \in kinds /\ page \in Pages /\ scope \in ScopeType /\ rootScope \in RootScope
        /\ Covered(i, ok) \in BOOLEAN /\ (Covered(i, ok) => loading)
    BY <1>1, AnswerFacts
  <2>2. Turn(rootScope, scope, RemoveAt(calls, i), sent, page, Covered(i, ok))
    BY <1>1 DEF Left
  <2>3. sent = <<>> \/ (page = page /\ \E k \in Kinds \ OrderKinds : sent = Ask(k))
    BY <1>1, PlainKinds
  <2>4. AnswerBase(i, rootScope, scope, sent, page, Covered(i, ok))
    BY <1>1, <2>1, <2>2, <2>3, AnswerTurn
  <2>5. ~Has(sent, SessionKinds \cup UserKinds \cup {"login", "logout"})
    BY <1>1, PlainKinds, NoCalls
  <2>6. ASSUME Covered(i, ok) PROVE StillLifts(i, rootScope, sent)
    <3>1. CASE sent = <<>> /\ (ok => kinds \cap {"login", "listOrders", "goToProfile"} = {})
      <4>1. calls[i].kind \notin HideLoadingOnError
        BY <1>1, <2>1, <2>6, <3>1, KeepsOverlay
      <4>2. ~Live(calls[i])
        BY <1>1, <2>1 DEF Live
      <4> QED BY <4>1, <4>2 DEF StillLifts
    <3>2. CASE \E k \in {"profile-info", "admins1", "admins2"} : sent = Ask(k)
      BY <1>1, <3>2, PlainKinds DEF StillLifts
    <3> QED BY <1>1, <3>1, <3>2
  <2> QED BY <1>1, <2>4, <2>5, <2>6 DEF PlainShape
<1>2. server \in BOOLEAN /\ rowsLost \in BOOLEAN
  BY DEF Typed, TypeOK
<1>3. CASE Error(i)
  <2>1. Answer(i, Kinds \ {"session", "rowStatus", "cartDetails"}) /\ UNCHANGED <<server, rowsLost>>
        /\ Turn(rootScope, scope, Left(i), <<>>, page, Covered(i, FALSE))
    BY <1>3 DEF Error
  <2>2. \E ok \in BOOLEAN : ~ok /\ Turn(rootScope, scope, Left(i), <<>>, page, Covered(i, ok))
    BY <2>1
  <2> QED BY <1>1, <1>2, <2>1, <2>2
<1>4. CASE MerchantTokenSuccess(i)
  <2>1. Answer(i, {"merchant-token"}) /\ server' = FALSE /\ UNCHANGED rowsLost
        /\ Turn(rootScope, scope, Left(i), <<>>, page, Covered(i, TRUE))
    BY <1>4 DEF MerchantTokenSuccess, Succeed
  <2>2. PICK sent : sent = <<>> /\ Turn(rootScope, scope, Left(i), sent, page, Covered(i, TRUE))
    BY <2>1
  <2>3. {"merchant-token"} \cap {"login", "listOrders", "goToProfile"} = {}
    OBVIOUS
  <2> QED BY <1>1, <1>2, <2>1, <2>2, <2>3
<1>5. CASE LoginSuccess(i)
  <2>1. Answer(i, {"login"}) /\ server' = TRUE /\ UNCHANGED rowsLost
        /\ Turn(rootScope, scope, Left(i), Ask("profile-info"), page, Covered(i, TRUE))
    BY <1>5 DEF LoginSuccess, Succeed
  <2>2. calls[i].kind = "login"
    BY <2>1 DEF Answer
  <2> QED BY <1>1, <1>2, <2>1, <2>2
<1>6. CASE CountriesSuccess(i)
  <2>1. Answer(i, {"countries", "admins1", "admins2"}) /\ UNCHANGED <<server, rowsLost>>
    BY <1>6 DEF CountriesSuccess
  <2>2. PICK sent \in {<<>>, Ask("admins1"), Ask("admins2")} :
          Turn(rootScope, scope, Left(i), sent, page, Covered(i, TRUE))
    BY <1>6 DEF CountriesSuccess, Succeed
  <2>3. \/ sent = <<>> /\ (TRUE => {"countries", "admins1", "admins2"} \cap {"login", "listOrders", "goToProfile"} = {})
        \/ \E k \in {"profile-info", "admins1", "admins2"} : sent = Ask(k)
    BY <2>2
  <2> QED BY <1>1, <1>2, <2>1, <2>2, <2>3
<1> QED BY <1>3, <1>4, <1>5, <1>6

\* An answer that makes no call and finds the overlay's table in order.
LEMMA SilentAnswer ==
  ASSUME Typed, NEW i, NEW kind, Answer(i, {kind}), kind \notin {"cartDetails", "rowStatus", "login", "listOrders", "goToProfile"},
         UNCHANGED <<server, rowsLost>>,
         NEW root \in RootScope, root.selectedTransaction = rootScope.selectedTransaction,
         root.userProfile = rootScope.userProfile, root.transactions = rootScope.transactions,
         root.customers = rootScope.customers \/ (kind \in UserKinds /\ Known(i)),
         NEW sc \in ScopeType, sc.cartDetails = scope.cartDetails, sc.loginContainer = scope.loginContainer,
         Turn(root, sc, Left(i), <<>>, page, Covered(i, TRUE))
  PROVE  \E r, s, sent, p, covered :
           AnswerBase(i, r, s, sent, p, covered) /\ PlainShape(i, r, s, sent, p, covered)
<1>0. PICK kinds : kinds = {kind}
  OBVIOUS
<1>1. /\ Answer(i, kinds) /\ "cartDetails" \notin kinds
      /\ calls[i].kind = kind /\ page \in Pages /\ server \in BOOLEAN /\ rowsLost \in BOOLEAN
      /\ Covered(i, TRUE) \in BOOLEAN /\ (Covered(i, TRUE) => loading)
  <2>1. Answer(i, kinds)
    BY <1>0
  <2>2. calls[i].kind \in kinds /\ page \in Pages /\ server \in BOOLEAN /\ rowsLost \in BOOLEAN
    BY <2>1, AnswerFacts
  <2>3. Covered(i, TRUE) \in BOOLEAN /\ (Covered(i, TRUE) => loading)
    BY <2>1, AnswerFacts
  <2> QED BY <1>0, <2>1, <2>2, <2>3
<1>2. PICK sent, covered : sent = <<>> /\ covered = Covered(i, TRUE)
  OBVIOUS
<1>3. Turn(root, sc, RemoveAt(calls, i), sent, page, covered)
  BY <1>2 DEF Left
<1>4. AnswerBase(i, root, sc, sent, page, covered)
  BY <1>1, <1>2, <1>3, AnswerTurn
<1>5. ~Has(sent, SessionKinds \cup UserKinds \cup {"login", "logout"})
  BY <1>2, NoCalls
<1>6. ASSUME covered PROVE StillLifts(i, root, sent)
  <2>1. calls[i].kind \notin HideLoadingOnError
    BY <1>1, <1>2, <1>6, KeepsOverlay
  <2>2. ~Live(calls[i])
    BY <1>1 DEF Live
  <2> QED BY <2>1, <2>2 DEF StillLifts
<1>7. PlainShape(i, root, sc, sent, page, covered)
  BY <1>1, <1>5, <1>6 DEF PlainShape
<1> QED BY <1>4, <1>7

\* Successes that show what was asked for.
LEMMA ShowAnswers ==
  ASSUME Typed, NEW i, ListCustomersSuccess(i) \/ HistorySuccess(i) \/ LogsSuccess(i)
  PROVE  \E root, sc, sent, p, covered :
           AnswerBase(i, root, sc, sent, p, covered) /\ PlainShape(i, root, sc, sent, p, covered)
<1>1. rootScope \in RootScope /\ scope \in ScopeType
  BY DEF Typed, TypeOK, ScopeType
<1>2. CASE ListCustomersSuccess(i)
  <2> DEFINE root == [rootScope EXCEPT !.customers = TRUE]
  <2>1. /\ Answer(i, {"listCustomers"}) /\ Known(i) /\ UNCHANGED <<server, rowsLost>>
        /\ Turn(root, scope, Left(i), <<>>, page, Covered(i, TRUE))
    BY <1>2 DEF ListCustomersSuccess, Succeed
  <2>2. /\ root \in RootScope /\ root.selectedTransaction = rootScope.selectedTransaction
        /\ root.userProfile = rootScope.userProfile /\ root.transactions = rootScope.transactions
    BY <1>1 DEF RootScope
  <2>3. "listCustomers" \in UserKinds
    BY DEF UserKinds
  <2> HIDE DEF root
  <2> QED BY <1>1, <2>1, <2>2, <2>3, SilentAnswer
<1>3. CASE HistorySuccess(i)
  <2>1. PICK b : b = (calls[i].own \/ scope.historyDetails)
    OBVIOUS
  <2> DEFINE sc == [scope EXCEPT !.historyDetails = b]
  <2>2. /\ Answer(i, {"history"}) /\ UNCHANGED <<server, rowsLost>>
        /\ Turn(rootScope, sc, Left(i), <<>>, page, Covered(i, TRUE))
    BY <1>3, <2>1 DEF HistorySuccess, Succeed
  <2>3. calls[i].own \in BOOLEAN
    <3>1. calls[i] \in Calls
      BY <2>2, AnswerFacts
    <3> QED BY <3>1 DEF Calls
  <2>4. b \in BOOLEAN
    BY <1>1, <2>1, <2>3 DEF ScopeType
  <2>5. sc \in ScopeType /\ sc.cartDetails = scope.cartDetails /\ sc.loginContainer = scope.loginContainer
    BY <1>1, <2>4 DEF ScopeType
  <2> HIDE DEF sc
  <2> QED BY <1>1, <2>2, <2>5, SilentAnswer
<1>4. CASE LogsSuccess(i)
  <2> DEFINE root == [rootScope EXCEPT !.logsDetails = calls[i].uuid]
  <2>1. /\ Answer(i, {"logs"}) /\ UNCHANGED <<server, rowsLost>>
        /\ Turn(root, scope, Left(i), <<>>, page, Covered(i, TRUE))
    BY <1>4 DEF LogsSuccess, Succeed
  <2>2. calls[i].uuid \in Orders \cup {None}
    <3>1. calls[i] \in Calls
      BY <2>1, AnswerFacts
    <3> QED BY <3>1 DEF Calls
  <2>3. /\ root \in RootScope /\ root.selectedTransaction = rootScope.selectedTransaction
        /\ root.userProfile = rootScope.userProfile /\ root.transactions = rootScope.transactions
        /\ root.customers = rootScope.customers
    BY <1>1, <2>2 DEF RootScope
  <2> HIDE DEF root
  <2> QED BY <1>1, <2>1, <2>3, SilentAnswer
<1> QED BY <1>2, <1>3, <1>4

\* A call for a row, or for the logs of an order.
LEMMA OrderCall ==
  ASSUME server' \in BOOLEAN, NEW kind \in {"rowStatus", "logs"}, NEW o \in Orders, NEW n \in Nat,
         kind = "rowStatus" => n > 0
  PROVE  LET q == <<NewCall(kind, o, n)>>
         IN  /\ q \in Seq(Calls) /\ Len(q) = 1 /\ q[1].kind = kind /\ q[1].index = n
             /\ \A j \in 1..Len(q) : ~OwnCart(q[j])
             /\ ~Has(q, SessionKinds \cup UserKinds \cup {"login", "logout"})
<1> DEFINE c == NewCall(kind, o, n)
<1>1. kind \in Kinds /\ kind \in OrderKinds /\ o # None
  BY ConsoleAssumption DEF Kinds, NoLoading, OrderKinds
<1>2. c \in Calls /\ c.kind = kind /\ c.index = n
  BY <1>1, NewCallType
<1> HIDE DEF c
<1>3. <<c>> \in Seq(Calls) /\ Len(<<c>>) = 1 /\ <<c>>[1] = c /\ \A A : Has(<<c>>, A) <=> kind \in A
  BY <1>2, ShortQueues
<1>4. kind \notin SessionKinds \cup UserKinds \cup {"login", "logout"}
  BY DEF SessionKinds, UserKinds
<1> QED BY <1>2, <1>3, <1>4 DEF OwnCart, c

\* The cart of an order came, or did not.
LEMMA CartAnswer ==
  ASSUME Typed, NEW i, NEW ok \in BOOLEAN, CartDetailsAnswer(i, ok)
  PROVE  \E root, sc, sent, p, covered :
           AnswerBase(i, root, sc, sent, p, covered) /\ PlainShape(i, root, sc, sent, p, covered)
<1> DEFINE o      == rootScope.selectedTransaction
           logs   == rootScope.isMerchant /\ o # None
           throws == rootScope.isMerchant /\ o = None
           c      == calls[i]
           d      == IF ~c.own \/ (ok /\ throws) THEN scope.cartDetails ELSE IF ok THEN c.uuid ELSE None
           sc     == [scope EXCEPT !.cartDetails = d]
           sent   == IF logs THEN <<NewCall("logs", o, 0)>> ELSE <<>>
<1>1. /\ Answer(i, {"cartDetails"}) /\ UNCHANGED <<server, rowsLost>>
      /\ Turn(rootScope, sc, Left(i), sent, page, Covered(i, ok))
  BY DEF CartDetailsAnswer
<1>2. PICK kinds : kinds = {"cartDetails"} /\ Answer(i, kinds)
  BY <1>1
<1>3. /\ i \in 1..Len(calls) /\ UNCHANGED clicks
      /\ overtakes' \in 0..MaxOvertakes /\ (overtakes' = 0 => i = 1 /\ overtakes = 0)
      /\ c \in Calls /\ c.kind = "cartDetails" /\ RemoveAt(calls, i) \in Seq(Calls)
      /\ server \in BOOLEAN /\ rowsLost \in BOOLEAN
      /\ page \in Pages /\ scope \in ScopeType /\ rootScope \in RootScope
  BY <1>2, AnswerFacts
<1>4. Covered(i, ok) \in BOOLEAN /\ (Covered(i, ok) => loading)
  BY <1>2, AnswerFacts
<1>5. c.uuid \in Orders /\ c.uuid # None /\ c.own \in BOOLEAN
  BY <1>3, ConsoleAssumption DEF Calls
<1>6. o \in Orders \cup {None}
  BY <1>3 DEF RootScope
<1> HIDE DEF c, o
<1>7. sent \in Seq(Calls) /\ (\A j \in 1..Len(sent) : ~OwnCart(sent[j]))
      /\ ~Has(sent, SessionKinds \cup UserKinds \cup {"login", "logout"})
  <2>1. CASE logs
    <3>1. o \in Orders /\ server' \in BOOLEAN /\ sent = <<NewCall("logs", o, 0)>>
      BY <1>1, <1>3, <1>6, <2>1
    <3> HIDE DEF sent
    <3> QED BY <3>1, OrderCall
  <2>2. CASE ~logs
    <3>1. sent = <<>>
      BY <2>2
    <3> HIDE DEF sent
    <3> QED BY <3>1, NoCalls
  <2> QED BY <2>1, <2>2
<1>8. sc \in ScopeType /\ sc.loginContainer = scope.loginContainer /\ sc.cartDetails = d
  BY <1>3, <1>5 DEF ScopeType
<1>9. ~OwnCart(c) => d = scope.cartDetails
  BY <1>3 DEF OwnCart
<1>10. OwnCart(c) /\ c.uuid = o => d \in {None, o}
  BY <1>5 DEF OwnCart
<1> HIDE DEF d, sc, sent, logs, throws
<1>11. AnswerBase(i, rootScope, sc, sent, page, Covered(i, ok))
  <2>1. Arguments(rootScope, sc, RemoveAt(calls, i), sent, page, Covered(i, ok))
    BY <1>3, <1>4, <1>7, <1>8 DEF Arguments
  <2>2. Turn(rootScope, sc, RemoveAt(calls, i), sent, page, Covered(i, ok))
    BY <1>1 DEF Left
  <2>3. server' \in BOOLEAN /\ rowsLost' \in BOOLEAN
    BY <1>1, <1>3
  <2> QED BY <1>3, <1>4, <1>7, <1>8, <1>9, <1>10, <2>1, <2>2, <2>3 DEF AnswerBase, c, o
<1>12. ~Covered(i, ok)
  <2>1. c.kind \in HideLoadingOnError
    BY <1>3 DEF HideLoadingOnError, HideLoadingOnSuccess
  <2>2. c.kind \notin {"login", "listOrders", "goToProfile"}
    BY <1>3
  <2> QED BY <2>1, <2>2, KeepsOverlay DEF c
<1>13. PlainShape(i, rootScope, sc, sent, page, Covered(i, ok))
  BY <1>1, <1>7, <1>8, <1>12 DEF PlainShape
<1> QED BY <1>11, <1>13

\* What the answers that fill or visit the rows have in common.
LEMMA RowsTurn ==
  ASSUME Typed, NEW i, NEW kind \in {"listOrders", "rowStatus"}, Answer(i, {kind}),
         server' = server, rowsLost' \in BOOLEAN,
         NEW root \in RootScope, root.selectedTransaction = rootScope.selectedTransaction,
         root.userProfile = rootScope.userProfile, root.customers = rootScope.customers,
         (kind = "listOrders" /\ Known(i)) \/ (rootScope.transactions = None => root.transactions = None),
         NEW sent, sent = <<>> \/ \E o \in Orders, n \in Nat \ {0} : sent = <<NewCall("rowStatus", o, n)>>,
         NEW covered \in BOOLEAN, covered => loading /\ StillLifts(i, root, sent),
         Turn(root, scope, Left(i), sent, page, covered)
  PROVE  /\ AnswerBase(i, root, scope, sent, page, covered)
         /\ PlainShape(i, root, scope, sent, page, covered)
<1>1. PICK kinds : kinds = {kind} /\ Answer(i, kinds)
  OBVIOUS
<1>2. /\ i \in 1..Len(calls) /\ UNCHANGED clicks
      /\ overtakes' \in 0..MaxOvertakes /\ (overtakes' = 0 => i = 1 /\ overtakes = 0)
      /\ calls[i].kind = kind /\ RemoveAt(calls, i) \in Seq(Calls)
      /\ server \in BOOLEAN /\ rowsLost \in BOOLEAN
      /\ page \in Pages /\ scope \in ScopeType
  BY <1>1, AnswerFacts
<1>3. sent \in Seq(Calls) /\ (\A j \in 1..Len(sent) : ~OwnCart(sent[j]))
      /\ ~Has(sent, SessionKinds \cup UserKinds \cup {"login", "logout"})
  <2>1. CASE sent = <<>>
    BY <2>1, NoCalls
  <2>2. ASSUME NEW o \in Orders, NEW n \in Nat \ {0}, sent = <<NewCall("rowStatus", o, n)>>
        PROVE  sent \in Seq(Calls) /\ (\A j \in 1..Len(sent) : ~OwnCart(sent[j]))
               /\ ~Has(sent, SessionKinds \cup UserKinds \cup {"login", "logout"})
    <3>2. PICK k \in {"rowStatus", "logs"} : k = "rowStatus"
      OBVIOUS
    <3>3. sent = <<NewCall(k, o, n)>> /\ n \in Nat /\ (k = "rowStatus" => n > 0) /\ server' \in BOOLEAN
      BY <1>2, <2>2, <3>2
    <3> QED BY <3>3, OrderCall
  <2> QED BY <2>1, <2>2
<1>4. AnswerBase(i, root, scope, sent, page, covered)
  <2>1. Arguments(root, scope, RemoveAt(calls, i), sent, page, covered)
    BY <1>2, <1>3 DEF Arguments
  <2>2. Turn(root, scope, RemoveAt(calls, i), sent, page, covered)
    BY DEF Left
  <2>3. ~OwnCart(calls[i])
    BY <1>2 DEF OwnCart
  <2> QED BY <1>2, <1>3, <2>1, <2>2, <2>3 DEF AnswerBase
<1>5. PlainShape(i, root, scope, sent, page, covered)
  BY <1>2, <1>3 DEF PlainShape, UserKinds
<1> QED BY <1>4, <1>5

\* The list of orders came.
LEMMA OrdersAnswer ==
  ASSUME Typed, NEW i, ListOrdersSuccess(i)
  PROVE  \E root, sc, sent, p, covered :
           AnswerBase(i, root, sc, sent, p, covered) /\ PlainShape(i, root, sc, sent, p, covered)
<1>1. PICK list \in SearchResults :
        Turn([rootScope EXCEPT !.transactions =
               [k \in 1..Len(list) |-> [uuid |-> list[k], deliveryStatus |-> None]]],
            scope, Left(i), IF list = <<>> THEN <<>> ELSE <<NewCall("rowStatus", list[1], 1)>>,
            page, loading /\ list # <<>>)
  BY DEF ListOrdersSuccess
<1> DEFINE rows == [k \in 1..Len(list) |-> [uuid |-> list[k], deliveryStatus |-> None]]
           root == [rootScope EXCEPT !.transactions = rows]
           sent == IF list = <<>> THEN <<>> ELSE <<NewCall("rowStatus", list[1], 1)>>
           covered == loading /\ list # <<>>
<1>2. Answer(i, {"listOrders"}) /\ Known(i) /\ UNCHANGED <<server, rowsLost>>
  BY DEF ListOrdersSuccess
<1>3. server \in BOOLEAN /\ rowsLost \in BOOLEAN /\ loading \in BOOLEAN /\ rootScope \in RootScope
  BY DEF Typed, TypeOK
<1>4. list \in Seq(Orders)
  BY ConsoleAssumption
<1>5. rows \in Rows /\ Len(rows) = Len(list) /\ rows # None
  <2>1. \A k \in 1..Len(list) :
          [uuid |-> list[k], deliveryStatus |-> None] \in [uuid : Orders, deliveryStatus : Orders \cup {None}]
    BY <1>4
  <2>2. rows \in Seq([uuid : Orders, deliveryStatus : Orders \cup {None}]) /\ Len(rows) = Len(list)
    BY <1>4, <2>1
  <2> HIDE DEF rows
  <2> QED BY <2>2, ConsoleAssumption DEF Rows
<1>6. Turn(root, scope, Left(i), sent, page, covered)
  BY <1>1
<1> HIDE DEF rows
<1>7. /\ root \in RootScope /\ root.selectedTransaction = rootScope.selectedTransaction
      /\ root.userProfile = rootScope.userProfile /\ root.customers = rootScope.customers
      /\ root.transactions = rows
  BY <1>3, <1>5 DEF RootScope
<1> HIDE DEF root
<1>8. sent = <<>> \/ \E o \in Orders, n \in Nat \ {0} : sent = <<NewCall("rowStatus", o, n)>>
  <2>1. list # <<>> => list[1] \in Orders
    BY <1>4
  <2> QED BY <2>1
<1>9. ASSUME covered PROVE StillLifts(i, root, sent)
  <2>1. list[1] \in Orders /\ Len(list) >= 1 /\ server' \in BOOLEAN
    BY <1>2, <1>3, <1>4, <1>9
  <2>2. Len(sent) = 1 /\ sent[1].kind = "rowStatus" /\ sent[1].index = 1
    <3>1. sent = <<NewCall("rowStatus", list[1], 1)>>
      BY <1>9
    <3> HIDE DEF sent
    <3> QED BY <2>1, <3>1, OrderCall
  <2> HIDE DEF sent
  <2> QED BY <1>4, <1>5, <1>7, <2>1, <2>2 DEF StillLifts
<1>10. covered \in BOOLEAN /\ (covered => loading)
  BY <1>3
<1> HIDE DEF sent, covered
<1>11. /\ AnswerBase(i, root, scope, sent, page, covered)
       /\ PlainShape(i, root, scope, sent, page, covered)
  BY <1>2, <1>3, <1>6, <1>7, <1>8, <1>9, <1>10, RowsTurn
<1> QED BY <1>11

\* The status of a row came, or did not, or its row is gone.
LEMMA RowAnswer ==
  ASSUME Typed, NEW i, RowStatusAnswer(i)
  PROVE  \E root, sc, sent, p, covered :
           AnswerBase(i, root, sc, sent, p, covered) /\ PlainShape(i, root, sc, sent, p, covered)
<1> DEFINE c    == calls[i]
           rows == rootScope.transactions
           here == rows # None /\ c.index <= Len(rows)
           last == here /\ c.index = Len(rows)
<1>1. Answer(i, {"rowStatus"}) /\ server' = server
  BY DEF RowStatusAnswer
<1>2. PICK kinds : kinds = {"rowStatus"} /\ Answer(i, kinds)
  BY <1>1
<1>3. c \in Calls /\ c.kind = "rowStatus" /\ server \in BOOLEAN /\ rowsLost \in BOOLEAN /\ loading \in BOOLEAN
      /\ rootScope \in RootScope
  BY <1>2, AnswerFacts
<1>4. rowsLost' \in BOOLEAN
  BY <1>3 DEF RowStatusAnswer
<1>5. c.index \in Nat /\ c.index > 0 /\ c.uuid \in Orders
  BY <1>3 DEF Calls
<1>6. CASE ~here
  <2>1. PICK sent : sent = <<>> /\ Turn(rootScope, scope, Left(i), sent, page, loading)
    BY <1>6 DEF RowStatusAnswer
  <2>2. calls[i].kind \notin HideLoadingOnError
    BY <1>3 DEF HideLoadingOnError, HideLoadingOnSuccess
  <2>3. ~Live(calls[i])
    BY <1>6 DEF Live
  <2>4. StillLifts(i, rootScope, sent)
    BY <2>2, <2>3 DEF StillLifts
  <2>5. /\ AnswerBase(i, rootScope, scope, sent, page, loading)
        /\ PlainShape(i, rootScope, scope, sent, page, loading)
    BY <1>1, <1>3, <1>4, <2>1, <2>4, RowsTurn
  <2> QED BY <2>5
<1>7. CASE here
  <2> DEFINE sent    == IF last THEN <<>> ELSE <<NewCall("rowStatus", rows[c.index + 1].uuid, c.index + 1)>>
             covered == loading /\ ~last
  <2>1. PICK status \in {rows[c.index].deliveryStatus} \cup (IF Known(i) THEN {c.uuid} ELSE {}) :
          Turn([rootScope EXCEPT !.transactions[c.index].deliveryStatus = status], scope, Left(i), sent, page, covered)
    BY <1>7 DEF RowStatusAnswer
  <2> DEFINE root == [rootScope EXCEPT !.transactions[c.index].deliveryStatus = status]
  <2>2. /\ rows \in Seq([uuid : Orders, deliveryStatus : Orders \cup {None}]) /\ rows # None
        /\ Len(rows) \in Nat /\ c.index \in 1..Len(rows)
    BY <1>3, <1>5, <1>7 DEF RootScope, Rows
  <2>3. \A k \in 1..Len(rows) : rows[k] \in [uuid : Orders, deliveryStatus : Orders \cup {None}]
    BY <2>2, ElementOfSeq
  <2>4. status \in Orders \cup {None}
    BY <1>5, <2>1, <2>2, <2>3
  <2>5. /\ root \in RootScope /\ root.transactions # None
        /\ Len(root.transactions) = Len(rows)
        /\ root.userProfile = rootScope.userProfile /\ root.customers = rootScope.customers
        /\ root.selectedTransaction = rootScope.selectedTransaction
    BY <1>3, <1>5, <2>2, <2>4, RowsUpdate
  <2>6. Turn(root, scope, Left(i), sent, page, covered)
    BY <2>1
  <2> HIDE DEF root
  <2>7. CASE last
    <3>1. sent = <<>> /\ ~covered /\ covered \in BOOLEAN
      BY <1>3, <2>7
    <3> HIDE DEF sent, covered
    <3>2. /\ AnswerBase(i, root, scope, sent, page, covered)
          /\ PlainShape(i, root, scope, sent, page, covered)
      BY <1>1, <1>4, <2>2, <2>5, <2>6, <3>1, RowsTurn
    <3> QED BY <3>2
  <2>8. CASE ~last
    <3> DEFINE o == rows[c.index + 1].uuid
               n == c.index + 1
    <3>1. sent = <<NewCall("rowStatus", o, n)>> /\ covered = loading
      BY <1>3, <2>8
    <3>2. n \in Nat \ {0} /\ n <= Len(rows) /\ o \in Orders
      <4>1. n \in 1..Len(rows)
        BY <1>5, <1>7, <2>2, <2>8
      <4>2. rows[n] \in [uuid : Orders, deliveryStatus : Orders \cup {None}]
        BY <2>3, <4>1
      <4> QED BY <2>2, <4>1, <4>2
    <3> HIDE DEF sent, covered, o, n
    <3>3. Len(sent) = 1 /\ sent[1].kind = "rowStatus" /\ sent[1].index = n
      <4>1. PICK k \in {"rowStatus", "logs"} : k = "rowStatus"
        OBVIOUS
      <4>2. sent = <<NewCall(k, o, n)>> /\ n \in Nat /\ (k = "rowStatus" => n > 0) /\ server' \in BOOLEAN
        BY <1>1, <1>3, <3>1, <3>2, <4>1
      <4>3. PICK x \in Orders, m \in Nat : x = o /\ m = n
        BY <3>2, <4>2
      <4>4. /\ server' \in BOOLEAN /\ (k = "rowStatus" => m > 0)
            /\ sent = <<NewCall(k, x, m)>>
        BY <4>2, <4>3
      <4>5. Len(sent) = 1 /\ sent[1].kind = k /\ sent[1].index = m
        BY <4>4, OrderCall
      <4> QED BY <4>1, <4>3, <4>5
    <3>4. StillLifts(i, root, sent)
      BY <2>5, <3>2, <3>3 DEF StillLifts
    <3>5. /\ AnswerBase(i, root, scope, sent, page, covered)
          /\ PlainShape(i, root, scope, sent, page, covered)
      BY <1>1, <1>3, <1>4, <2>2, <2>5, <2>6, <3>1, <3>2, <3>4, RowsTurn
    <3> QED BY <3>5
  <2> QED BY <2>7, <2>8
<1> QED BY <1>6, <1>7

\* Successes that set a user or end a session.
LEMMA SessionAnswers ==
  ASSUME Typed, NEW i, ListMerchantsSuccess(i) \/ SessionAnswer(i) \/ DropSessionSuccess(i)
  PROVE  \E root, sc, sent, p, covered :
           AnswerBase(i, root, sc, sent, p, covered) /\ SessionShape(i, root, sc, sent, p, covered)
<1>1. /\ server \in BOOLEAN /\ rowsLost \in BOOLEAN /\ loading \in BOOLEAN /\ page \in Pages
      /\ rootScope \in RootScope /\ scope \in ScopeType
  BY DEF Typed, TypeOK, ScopeType
<1>2. \A k \in {"session", "drop-session", "merchant-token", "list-compagnies"} : k \in Kinds \ OrderKinds
  BY DEF Kinds, NoLoading, OrderKinds
<1>3. CASE ListMerchantsSuccess(i)
  <2>1. PICK kinds, sent, covered :
          /\ kinds = {"list-merchants"} /\ sent = Ask("session") /\ covered = Covered(i, TRUE)
          /\ Answer(i, kinds) /\ UNCHANGED <<server, rowsLost>>
          /\ Turn(rootScope, scope, RemoveAt(calls, i), sent, page, covered)
    BY <1>3 DEF ListMerchantsSuccess, Succeed, Left
  <2>2. calls[i].kind = "list-merchants"
    BY <2>1 DEF Answer
  <2>3. ~covered
    BY <2>1, <2>2 DEF Covered, HideLoadingOnSuccess
  <2>4. covered \in BOOLEAN
    BY <2>1, AnswerFacts
  <2>5. /\ "cartDetails" \notin kinds /\ server' \in BOOLEAN /\ rowsLost' \in BOOLEAN
        /\ sent = <<>> \/ (page = page /\ \E k \in Kinds \ OrderKinds : sent = Ask(k))
    BY <1>1, <1>2, <2>1, <2>3, <2>4
  <2>6. AnswerBase(i, rootScope, scope, sent, page, covered)
    BY <1>1, <1>2, <2>1, <2>3, <2>4, <2>5, AnswerTurn
  <2>7. SessionShape(i, rootScope, scope, sent, page, covered)
    BY <2>1, <2>2, <2>3 DEF SessionShape, SessionKinds
  <2> QED BY <2>6, <2>7
<1>4. CASE DropSessionSuccess(i)
  <2> DEFINE sc == [scope EXCEPT !.loginContainer = page = "login"]
  <2>1. PICK kinds, sent, covered :
          /\ kinds = {"drop-session"} /\ sent = Ask("merchant-token") /\ covered = Covered(i, TRUE)
          /\ Answer(i, kinds) /\ server' = FALSE /\ UNCHANGED rowsLost
          /\ Turn(rootScope, sc, RemoveAt(calls, i), sent, page, covered)
    BY <1>4 DEF DropSessionSuccess, Succeed, Left
  <2>2. calls[i].kind = "drop-session"
    BY <2>1 DEF Answer
  <2>3. covered \in BOOLEAN /\ (covered => loading)
    BY <2>1, AnswerFacts
  <2>4. sc \in ScopeType /\ sc.cartDetails = scope.cartDetails
    BY <1>1 DEF ScopeType
  <2> HIDE DEF sc
  <2>5. /\ "cartDetails" \notin kinds /\ server' \in BOOLEAN /\ rowsLost' \in BOOLEAN
        /\ sent = <<>> \/ (page = page /\ \E k \in Kinds \ OrderKinds : sent = Ask(k))
    BY <1>1, <1>2, <2>1, <2>3, <2>4
  <2>6. AnswerBase(i, rootScope, sc, sent, page, covered)
    BY <1>1, <1>2, <2>1, <2>3, <2>4, <2>5, AnswerTurn
  <2>7. SessionShape(i, rootScope, sc, sent, page, covered)
    BY <2>1, <2>2 DEF SessionShape, SessionKinds
  <2> QED BY <2>6, <2>7
<1>5. CASE SessionAnswer(i)
  <2>1. PICK kinds : kinds = {"session"} /\ Answer(i, kinds) /\ UNCHANGED <<server, rowsLost>>
    BY <1>5 DEF SessionAnswer
  <2>2. calls[i].kind = "session" /\ server' \in BOOLEAN /\ rowsLost' \in BOOLEAN
    BY <1>1, <2>1 DEF Answer
  <2>3. Covered(i, TRUE) \in BOOLEAN /\ (Covered(i, TRUE) => loading)
    BY <2>1, AnswerFacts
  <2>4. ASSUME Known(i), NEW root, root = [rootScope EXCEPT !.userProfile = TRUE],
               Succeed(i, root, scope, Ask("list-compagnies"), page)
        PROVE  \E r, sc, sent, p, covered :
                 AnswerBase(i, r, sc, sent, p, covered) /\ SessionShape(i, r, sc, sent, p, covered)
    <3>1. /\ root \in RootScope /\ root.userProfile
          /\ root.transactions = rootScope.transactions /\ root.customers = rootScope.customers
          /\ root.selectedTransaction = rootScope.selectedTransaction
      BY <1>1, <2>4 DEF RootScope
    <3>2. PICK sent : sent = Ask("list-compagnies")
      OBVIOUS
    <3>3. Turn(root, scope, RemoveAt(calls, i), sent, page, Covered(i, TRUE))
      BY <2>4, <3>2 DEF Succeed, Left
    <3>4. /\ "cartDetails" \notin kinds /\ server' \in BOOLEAN /\ rowsLost' \in BOOLEAN
          /\ sent = <<>> \/ (page = page /\ \E k \in Kinds \ OrderKinds : sent = Ask(k))
      BY <1>1, <1>2, <2>1, <2>2, <2>3, <3>1, <3>2, <3>3
    <3>5. AnswerBase(i, root, scope, sent, page, Covered(i, TRUE))
      BY <1>1, <1>2, <2>1, <2>2, <2>3, <3>1, <3>2, <3>3, <3>4, AnswerTurn
    <3>6. SessionShape(i, root, scope, sent, page, Covered(i, TRUE))
      BY <2>1, <2>2, <2>4, <3>1, <3>2 DEF SessionShape, SessionKinds
    <3> QED BY <3>5, <3>6
  <2>5. ASSUME Succeed(i, rootScope, scope, Ask("drop-session"), page)
        PROVE  \E root, sc, sent, p, covered :
                 AnswerBase(i, root, sc, sent, p, covered) /\ SessionShape(i, root, sc, sent, p, covered)
    <3>2. PICK sent : sent = Ask("drop-session")
      OBVIOUS
    <3>3. Turn(rootScope, scope, RemoveAt(calls, i), sent, page, Covered(i, TRUE))
      BY <2>5, <3>2 DEF Succeed, Left
    <3>4. /\ "cartDetails" \notin kinds /\ server' \in BOOLEAN /\ rowsLost' \in BOOLEAN
          /\ sent = <<>> \/ (page = page /\ \E k \in Kinds \ OrderKinds : sent = Ask(k))
      BY <1>1, <1>2, <2>1, <2>2, <2>3, <3>2, <3>3
    <3>5. AnswerBase(i, rootScope, scope, sent, page, Covered(i, TRUE))
      BY <1>1, <1>2, <2>1, <2>2, <2>3, <3>2, <3>3, <3>4, AnswerTurn
    <3>6. SessionShape(i, rootScope, scope, sent, page, Covered(i, TRUE))
      BY <2>1, <2>2, <3>2 DEF SessionShape, SessionKinds
    <3> QED BY <3>5, <3>6
  <2>6. ASSUME NEW sc, sc = [scope EXCEPT !.loginContainer = page = "login"],
               Turn(rootScope, sc, Left(i), Ask("merchant-token"), page, loading)
        PROVE  \E root, s, sent, p, covered :
                 AnswerBase(i, root, s, sent, p, covered) /\ SessionShape(i, root, s, sent, p, covered)
    <3>1. sc \in ScopeType /\ sc.cartDetails = scope.cartDetails
      BY <1>1, <2>6 DEF ScopeType
    <3>2. PICK sent : sent = Ask("merchant-token")
      OBVIOUS
    <3>3. Turn(rootScope, sc, RemoveAt(calls, i), sent, page, loading)
      BY <2>6, <3>2 DEF Left
    <3>4. /\ "cartDetails" \notin kinds /\ server' \in BOOLEAN /\ rowsLost' \in BOOLEAN
          /\ sent = <<>> \/ (page = page /\ \E k \in Kinds \ OrderKinds : sent = Ask(k))
      BY <1>1, <1>2, <2>1, <2>2, <3>1, <3>2, <3>3
    <3>5. AnswerBase(i, rootScope, sc, sent, page, loading)
      BY <1>1, <1>2, <2>1, <2>2, <3>1, <3>2, <3>3, <3>4, AnswerTurn
    <3>6. SessionShape(i, rootScope, sc, sent, page, loading)
      BY <2>1, <2>2, <3>2 DEF SessionShape, SessionKinds
    <3> QED BY <3>5, <3>6
  <2> QED BY <1>5, <2>4, <2>5, <2>6 DEF SessionAnswer
<1> QED BY <1>3, <1>4, <1>5

\* Successes that ask for the stores.
LEMMA StoresAnswers ==
  ASSUME Typed, NEW i, ProfileInfoSuccess(i) \/ UpdateProfileSuccess(i)
  PROVE  \E root, sc, sent, p, covered :
           /\ AnswerBase(i, root, sc, sent, p, covered)
           /\ StoresShape(i, root, sc, sent, p, covered) \/ MoveShape(i, root, sc, sent, p, covered)
<1>1. /\ server \in BOOLEAN /\ rowsLost \in BOOLEAN /\ loading \in BOOLEAN /\ page \in Pages
      /\ rootScope \in RootScope /\ scope \in ScopeType
  BY DEF Typed, TypeOK, ScopeType
<1>2. "list-compagnies" \in Kinds \ OrderKinds /\ "listTransactions" \in Pages
  BY DEF Kinds, NoLoading, OrderKinds, Pages
<1>3. CASE ProfileInfoSuccess(i)
  <2>1. PICK root, kinds, sent, covered :
          /\ root = [rootScope EXCEPT !.userProfile = TRUE]
          /\ kinds = {"profile-info"} /\ sent = Ask("list-compagnies") /\ covered = Covered(i, TRUE)
          /\ Answer(i, kinds) /\ Known(i) /\ UNCHANGED <<server, rowsLost>>
          /\ Turn(root, scope, RemoveAt(calls, i), sent, page, covered)
    BY <1>3 DEF ProfileInfoSuccess, Succeed, Left
  <2>2. calls[i].kind = "profile-info"
    BY <2>1 DEF Answer
  <2>3. ~covered /\ covered \in BOOLEAN
    BY <2>1, <2>2 DEF Covered, HideLoadingOnSuccess
  <2>4. root \in RootScope /\ root.userProfile /\ root.selectedTransaction = rootScope.selectedTransaction
    BY <1>1, <2>1 DEF RootScope
  <2>5. /\ "cartDetails" \notin kinds /\ server' \in BOOLEAN /\ rowsLost' \in BOOLEAN
        /\ sent = <<>> \/ (page = page /\ \E k \in Kinds \ OrderKinds : sent = Ask(k))
        /\ Answer(i, kinds) /\ Turn(root, scope, RemoveAt(calls, i), sent, page, covered) /\ page \in Pages
    BY <1>1, <1>2, <2>1, <2>3, <2>4
  <2>6. AnswerBase(i, root, scope, sent, page, covered)
    BY <1>1, <2>3, <2>4, <2>5, AnswerTurn
  <2>7. StoresShape(i, root, scope, sent, page, covered)
    BY <2>1, <2>2, <2>3, <2>4 DEF StoresShape
  <2> QED BY <2>6, <2>7
<1>4. CASE UpdateProfileSuccess(i)
  <2>1. PICK kinds, sent, p, covered :
          /\ \/ sent = Ask("list-compagnies") /\ p = page
             \/ sent = <<>> /\ p = "listTransactions"
          /\ kinds = {"update-profile"} /\ covered = Covered(i, TRUE)
          /\ Answer(i, kinds) /\ Known(i) /\ UNCHANGED <<server, rowsLost>>
          /\ Turn(rootScope, scope, RemoveAt(calls, i), sent, p, covered)
    BY <1>4 DEF UpdateProfileSuccess, Succeed, Left
  <2>2. calls[i].kind = "update-profile"
    BY <2>1 DEF Answer
  <2>3. ~covered /\ covered \in BOOLEAN
    BY <2>1, <2>2 DEF Covered, HideLoadingOnSuccess
  <2>4. p \in Pages
    BY <1>1, <1>2, <2>1
  <2>5. /\ "cartDetails" \notin kinds /\ server' \in BOOLEAN /\ rowsLost' \in BOOLEAN
        /\ sent = <<>> \/ (p = page /\ \E k \in Kinds \ OrderKinds : sent = Ask(k))
    BY <1>1, <1>2, <2>1, <2>3, <2>4
  <2>6. AnswerBase(i, rootScope, scope, sent, p, covered)
    BY <1>1, <1>2, <2>1, <2>3, <2>4, <2>5, AnswerTurn
  <2>7. StoresShape(i, rootScope, scope, sent, p, covered) \/ MoveShape(i, rootScope, scope, sent, p, covered)
    BY <2>1, <2>2, <2>3 DEF StoresShape, MoveShape, UserKinds
  <2> QED BY <2>6, <2>7
<1> QED BY <1>3, <1>4

\* Successes that go to another page, and the end of a session.
LEMMA MoveAnswers ==
  ASSUME Typed, NEW i,
         ListCompagniesSuccess(i) \/ GoToProfileSuccess(i) \/ ReturnSuccess(i) \/ LogoutSuccess(i)
  PROVE  \E root, sc, sent, p, covered :
           /\ AnswerBase(i, root, sc, sent, p, covered)
           /\ MoveShape(i, root, sc, sent, p, covered) \/ LogoutShape(i, root, sc, sent, p, covered)
<1>1. /\ server \in BOOLEAN /\ rowsLost \in BOOLEAN /\ loading \in BOOLEAN /\ page \in Pages
      /\ rootScope \in RootScope /\ scope \in ScopeType
  BY DEF Typed, TypeOK, ScopeType
<1>2. {"profile", "listTransactions", "details", "login"} \subseteq Pages
  BY DEF Pages
<1>3. CASE ListCompagniesSuccess(i)
  <2>1. PICK root, kinds, sent, p, covered :
          /\ root = [rootScope EXCEPT !.transactions = None, !.customers = FALSE, !.mogopayGoToProfile = FALSE]
          /\ kinds = {"list-compagnies"} /\ sent = <<>> /\ covered = Covered(i, TRUE)
          /\ p \in {"profile", "listTransactions"}
          /\ Answer(i, kinds) /\ Known(i) /\ UNCHANGED <<server, rowsLost>>
          /\ Turn(root, scope, RemoveAt(calls, i), sent, p, covered)
    BY <1>3 DEF ListCompagniesSuccess, Succeed, Left
  <2>2. calls[i].kind = "list-compagnies"
    BY <2>1 DEF Answer
  <2>3. covered \in BOOLEAN /\ (covered => loading)
    BY <2>1, AnswerFacts
  <2>4. /\ root \in RootScope /\ root.userProfile = rootScope.userProfile
        /\ root.selectedTransaction = rootScope.selectedTransaction
    BY <1>1, <2>1 DEF RootScope
  <2>5. /\ "cartDetails" \notin kinds /\ server' \in BOOLEAN /\ rowsLost' \in BOOLEAN
        /\ sent = <<>> \/ (p = page /\ \E k \in Kinds \ OrderKinds : sent = Ask(k))
        /\ Answer(i, kinds) /\ Turn(root, scope, RemoveAt(calls, i), sent, p, covered) /\ p \in Pages
    BY <1>1, <1>2, <2>1, <2>3, <2>4
  <2>6. AnswerBase(i, root, scope, sent, p, covered)
    BY <1>1, <2>3, <2>4, <2>5, AnswerTurn
  <2>7. MoveShape(i, root, scope, sent, p, covered)
    BY <2>1, <2>2, <2>4 DEF MoveShape, UserKinds
  <2> QED BY <2>6, <2>7
<1>4. CASE GoToProfileSuccess(i)
  <2>1. PICK root, kinds, sent, p, covered :
          /\ root = [rootScope EXCEPT !.userProfile = TRUE]
          /\ kinds = {"goToProfile"} /\ sent = <<>> /\ covered = Covered(i, TRUE) /\ p = "profile"
          /\ Answer(i, kinds) /\ Known(i) /\ UNCHANGED <<server, rowsLost>>
          /\ Turn(root, scope, RemoveAt(calls, i), sent, p, covered)
    BY <1>4 DEF GoToProfileSuccess, Succeed, Left
  <2>2. calls[i].kind = "goToProfile"
    BY <2>1 DEF Answer
  <2>3. covered \in BOOLEAN /\ (covered => loading)
    BY <2>1, AnswerFacts
  <2>4. root \in RootScope /\ root.userProfile /\ root.selectedTransaction = rootScope.selectedTransaction
    BY <1>1, <2>1 DEF RootScope
  <2>5. /\ "cartDetails" \notin kinds /\ server' \in BOOLEAN /\ rowsLost' \in BOOLEAN
        /\ sent = <<>> \/ (p = page /\ \E k \in Kinds \ OrderKinds : sent = Ask(k))
        /\ Answer(i, kinds) /\ Turn(root, scope, RemoveAt(calls, i), sent, p, covered) /\ p \in Pages
    BY <1>1, <1>2, <2>1, <2>3, <2>4
  <2>6. AnswerBase(i, root, scope, sent, p, covered)
    BY <1>1, <2>3, <2>4, <2>5, AnswerTurn
  <2>7. MoveShape(i, root, scope, sent, p, covered)
    BY <2>1, <2>2, <2>4 DEF MoveShape, UserKinds
  <2> QED BY <2>6, <2>7
<1>5. CASE ReturnSuccess(i)
  <2>1. PICK kinds, sent, p, covered :
          /\ kinds = {"return"} /\ sent = <<>> /\ covered = Covered(i, TRUE) /\ p = "details"
          /\ Answer(i, kinds) /\ Known(i) /\ UNCHANGED <<server, rowsLost>>
          /\ Turn(rootScope, scope, RemoveAt(calls, i), sent, p, covered)
    BY <1>5 DEF ReturnSuccess, Succeed, Left
  <2>2. calls[i].kind = "return"
    BY <2>1 DEF Answer
  <2>3. ~covered /\ covered \in BOOLEAN
    BY <2>1, <2>2 DEF Covered, HideLoadingOnSuccess
  <2>4. /\ "cartDetails" \notin kinds /\ server' \in BOOLEAN /\ rowsLost' \in BOOLEAN
        /\ sent = <<>> \/ (p = page /\ \E k \in Kinds \ OrderKinds : sent = Ask(k))
    BY <1>1, <1>2, <2>1, <2>3
  <2>5. AnswerBase(i, rootScope, scope, sent, p, covered)
    BY <1>1, <1>2, <2>1, <2>3, <2>4, AnswerTurn
  <2>6. MoveShape(i, rootScope, scope, sent, p, covered)
    BY <2>1, <2>2, <2>3 DEF MoveShape, UserKinds
  <2> QED BY <2>5, <2>6
<1>6. CASE LogoutSuccess(i)
  <2>1. PICK root, kinds, sent, p, covered :
          /\ root = [rootScope EXCEPT !.isMerchant = FALSE, !.userProfile = FALSE, !.transactions = None,
                                      !.customers = FALSE]
          /\ kinds = {"logout"} /\ sent = <<>> /\ covered = Covered(i, TRUE) /\ p = "login"
          /\ Answer(i, kinds) /\ server' = FALSE /\ UNCHANGED rowsLost
          /\ Turn(root, scope, RemoveAt(calls, i), sent, p, covered)
    BY <1>6 DEF LogoutSuccess, Succeed, Left
  <2>2. calls[i].kind = "logout"
    BY <2>1 DEF Answer
  <2>3. ~covered /\ covered \in BOOLEAN
    BY <2>1, <2>2 DEF Covered, HideLoadingOnSuccess
  <2>4. /\ root \in RootScope /\ root.selectedTransaction = rootScope.selectedTransaction
        /\ ~root.userProfile /\ root.transactions = None /\ ~root.customers
    BY <1>1, <2>1 DEF RootScope
  <2>5. /\ "cartDetails" \notin kinds /\ server' \in BOOLEAN /\ rowsLost' \in BOOLEAN
        /\ sent = <<>> \/ (p = page /\ \E k \in Kinds \ OrderKinds : sent = Ask(k))
        /\ Answer(i, kinds) /\ Turn(root, scope, RemoveAt(calls, i), sent, p, covered) /\ p \in Pages
    BY <1>1, <1>2, <2>1, <2>3, <2>4
  <2>6. AnswerBase(i, root, scope, sent, p, covered)
    BY <1>1, <2>3, <2>4, <2>5, AnswerTurn
  <2>7. LogoutShape(i, root, scope, sent, p, covered)
    BY <2>1, <2>2, <2>3, <2>4 DEF LogoutShape
  <2> QED BY <2>6, <2>7
<1> QED BY <1>3, <1>4, <1>5, <1>6

\* Every answer has one of the shapes.
LEMMA AnswerShapes ==
  ASSUME Typed, NEW i, Answered(i)
  PROVE  \E root, sc, sent, p, covered :
           /\ AnswerBase(i, root, sc, sent, p, covered)
           /\ \/ PlainShape(i, root, sc, sent, p, covered)
              \/ SessionShape(i, root, sc, sent, p, covered)
              \/ StoresShape(i, root, sc, sent, p, covered)
              \/ MoveShape(i, root, sc, sent, p, covered)
              \/ LogoutShape(i, root, sc, sent, p, covered)
<1>1. CASE \/ Error(i) \/ MerchantTokenSuccess(i) \/ LoginSuccess(i) \/ CountriesSuccess(i)
  BY <1>1, PlainAnswers
<1>2. CASE ListCustomersSuccess(i) \/ HistorySuccess(i) \/ LogsSuccess(i)
  BY <1>2, ShowAnswers
<1>3. CASE \E ok \in BOOLEAN : CartDetailsAnswer(i, ok)
  BY <1>3, CartAnswer
<1>4. CASE ListOrdersSuccess(i) \/ RowStatusAnswer(i)
  BY <1>4, OrdersAnswer, RowAnswer
<1>5. CASE ListMerchantsSuccess(i) \/ SessionAnswer(i) \/ DropSessionSuccess(i)
  BY <1>5, SessionAnswers
<1>6. CASE ProfileInfoSuccess(i) \/ UpdateProfileSuccess(i)
  BY <1>6, StoresAnswers
<1>7. CASE ListCompagniesSuccess(i) \/ GoToProfileSuccess(i) \/ ReturnSuccess(i) \/ LogoutSuccess(i)
  BY <1>7, MoveAnswers
<1> QED BY <1>1, <1>2, <1>3, <1>4, <1>5, <1>6, <1>7 DEF Answered

-----------------------------------------------------------------------------
(* What a turn does to the calls.                                          *)

\* What is left of the calls and the calls made are the calls after the turn; it stays on
\* the page, or the new controller makes the calls.
Effect(root, sc, left, sent, p, covered, made) ==
  /\ made \in Seq(Calls) /\ page' \in Pages
  /\ rootScope'.userProfile = root.userProfile /\ rootScope'.transactions = root.transactions
  /\ rootScope'.customers = root.customers
  /\ rootScope'.selectedTransaction = root.selectedTransaction
  /\ loading' <=> covered \/ Has(made, ShowLoading)
  /\ \/ p = page /\ page' = page /\ scope' = sc /\ made = sent /\ calls' = left \o made
     \/ /\ p # page /\ sent = <<>> /\ page' = (IF p = "login" \/ root.userProfile THEN p ELSE "login")
        /\ scope' = NewScope /\ made = StartCalls(page', root) /\ calls' = Unowned(left) \o made

\* Every turn has such an effect.
LEMMA TurnEffect ==
  ASSUME Typed, server' \in BOOLEAN, NEW root, NEW sc, NEW left, NEW sent, NEW p, NEW covered,
         Arguments(root, sc, left, sent, p, covered), Turn(root, sc, left, sent, p, covered)
  PROVE  \E made : Effect(root, sc, left, sent, p, covered, made)
<1>1. /\ root \in RootScope /\ left \in Seq(Calls) /\ sent \in Seq(Calls) /\ p \in Pages
      /\ (p = page \/ sent = <<>>) /\ covered \in BOOLEAN /\ page \in Pages
  BY DEF Arguments, Typed, TypeOK
<1>2. CASE p = page
  <2>1. /\ page' = page /\ rootScope' = root /\ scope' = sc /\ calls' = left \o sent
        /\ (loading' <=> covered \/ Has(sent, ShowLoading))
    BY <1>1, <1>2, TurnStays
  <2>2. Effect(root, sc, left, sent, p, covered, sent)
    BY <1>1, <1>2, <2>1 DEF Effect
  <2> QED BY <2>2
<1>3. CASE p # page
  <2> DEFINE made == StartCalls(page', root)
  <2>1. sent = <<>> /\ Turn(root, sc, left, <<>>, p, covered)
    BY <1>1, <1>3
  <2>2. /\ page' = IF p = "login" \/ root.userProfile THEN p ELSE "login"
        /\ page' \in Pages /\ scope' = NewScope
        /\ rootScope'.userProfile = root.userProfile /\ rootScope'.transactions = root.transactions
        /\ rootScope'.customers = root.customers
        /\ rootScope'.selectedTransaction = root.selectedTransaction
        /\ calls' = Unowned(left) \o made
        /\ (loading' <=> covered \/ Has(made, ShowLoading))
    BY <1>1, <1>3, <2>1, TurnMoves, Zenon
  <2>3. made \in Seq(Calls)
    BY <1>1, <2>2, StartCallsFacts
  <2> HIDE DEF made
  <2>4. Effect(root, sc, left, sent, p, covered, made)
    BY <1>3, <2>1, <2>2, <2>3 DEF Effect, made
  <2> QED BY <2>4
<1> QED BY <1>2, <1>3

\* What is known of the calls after a turn.
LEMMA EffectQueue ==
  ASSUME NEW root, NEW sc, NEW left \in Seq(Calls), NEW sent, NEW p, NEW covered, NEW made,
         Effect(root, sc, left, sent, p, covered, made)
  PROVE  /\ calls' \in Seq(Calls) /\ Len(calls') = Len(left) + Len(made)
         /\ \A A : Has(calls', A) <=> Has(left, A) \/ Has(made, A)
         /\ \A A, B : ~Before(left, A, B) /\ ~Before(made, A, B) /\ (Has(left, A) => ~Has(made, B))
                        => ~Before(calls', A, B)
         /\ \A A, B : (Followed(left, A, B) \/ Has(made, B)) /\ Followed(made, A, B) => Followed(calls', A, B)
         /\ \A i \in 1..Len(left) : calls'[i].kind = left[i].kind /\ calls'[i].index = left[i].index
         /\ \A i \in 1..Len(made) : calls'[Len(left) + i] = made[i]
<1>1. PICK next : next = calls'
  OBVIOUS
<1>2. made \in Seq(Calls) /\ (next = left \o made \/ next = Unowned(left) \o made)
  BY <1>1 DEF Effect
<1>3. /\ next \in Seq(Calls) /\ Len(next) = Len(left) + Len(made)
      /\ \A A : Has(next, A) <=> Has(left, A) \/ Has(made, A)
      /\ \A A, B : ~Before(left, A, B) /\ ~Before(made, A, B) /\ (Has(left, A) => ~Has(made, B))
                     => ~Before(next, A, B)
      /\ \A A, B : (Followed(left, A, B) \/ Has(made, B)) /\ Followed(made, A, B) => Followed(next, A, B)
      /\ \A i \in 1..Len(left) : next[i].kind = left[i].kind /\ next[i].index = left[i].index
      /\ \A i \in 1..Len(made) : next[Len(left) + i] = made[i]
  BY <1>2, QueueStep, Zenon
<1> QED BY <1>1, <1>3, Zenon

\* What a turn that leaves the page asks for.
LEMMA MovedCalls ==
  ASSUME server' \in BOOLEAN, NEW root \in RootScope, NEW sc, NEW left, NEW sent, NEW p, NEW covered, NEW made,
         Effect(root, sc, left, sent, p, covered, made), p # page
  PROVE  /\ page' = "login" => made = Ask("session")
         /\ page' = "profile" => made = Ask("countries")
         /\ page' # "login" => \A A : A \cap {"history", "cartDetails", "countries"} = {} => ~Has(made, A)
<1>1. made = StartCalls(page', root) /\ page' \in Pages
  BY DEF Effect
<1>2. /\ page' = "login" => made = Ask("session")
      /\ page' = "profile" => made = Ask("countries")
      /\ \A i \in 1..Len(made) :
           made[i].kind \in IF page' = "login" THEN {"session"} ELSE {"history", "cartDetails", "countries"}
  BY <1>1, StartCallsFacts
<1>3. ASSUME page' # "login", NEW A, A \cap {"history", "cartDetails", "countries"} = {}
      PROVE  ~Has(made, A)
  BY <1>2, <1>3 DEF Has
<1> QED BY <1>2, <1>3

\* A single call of a kind that names no order, once it is made.
LEMMA MadeAsk ==
  ASSUME server' \in BOOLEAN,
         NEW kind \in {"session", "drop-session", "merchant-token", "list-compagnies", "countries", "login"}
  PROVE  /\ Ask(kind) \in Seq(Calls) /\ Len(Ask(kind)) = 1 /\ Ask(kind)[1].kind = kind
         /\ \A A : Has(Ask(kind), A) <=> kind \in A
         /\ \A A, B : ~Before(Ask(kind), A, B) /\ (Followed(Ask(kind), A, B) <=> kind \notin A)
<1>1. kind \in Kinds /\ kind \notin OrderKinds
  BY DEF Kinds, ShowLoading, HideLoadingOnSuccess, NoLoading, OrderKinds
<1> QED BY <1>1, AskType

-----------------------------------------------------------------------------
(* Clicks keep the invariants.                                             *)

\* What is known as long as answers come in the order of the calls.
InOrder == Typed /\ NoUserInv /\ LogoutInv /\ SessionInv /\ OverlayInv /\ DetailsInv

\* Whose users, sessions and overlay agree.
UsersAgree == NoUserInv /\ LogoutInv /\ SessionInv /\ OverlayInv

\* A call that takes the overlay away when it ends is enough to lift it.
LEMMA HasLifts ==
  ASSUME Has(calls', HideLoadingOnError)
  PROVE  (\E i \in 1..Len(calls) : calls[i].kind \in HideLoadingOnError \/ Live(calls[i]))'
  BY DEF Has

\* The kinds that show the overlay take it away, too.
LEMMA ShownIsHidden ==
  /\ ShowLoading \subseteq HideLoadingOnError
  /\ {"countries"} \subseteq HideLoadingOnError
  /\ ShowLoading \cap {"session", "drop-session", "merchant-token", "list-compagnies"} = {}
  BY DEF ShowLoading, HideLoadingOnError, HideLoadingOnSuccess

\* Logging in keeps them.
LEMMA LoginClickKeeps ==
  ASSUME InOrder, server' = server, NEW root, SameUser(root), NEW made,
         Effect(root, scope, calls, Ask("login"), page, loading, made),
         page = "login", scope.loginContainer
  PROVE  UsersAgree'
<1>1. calls \in Seq(Calls) /\ server' \in BOOLEAN
  BY DEF InOrder, Typed, TypeOK
<1>2. /\ made = Ask("login") /\ page' = page /\ scope' = scope
      /\ rootScope'.userProfile = rootScope.userProfile /\ rootScope'.transactions = rootScope.transactions
      /\ rootScope'.customers = rootScope.customers
  BY DEF Effect, SameUser
<1>3. PICK kind \in {"session", "drop-session", "merchant-token", "list-compagnies", "countries", "login"} :
        kind = "login"
  OBVIOUS
<1>4. /\ \A A : Has(made, A) <=> kind \in A
      /\ \A A, B : ~Before(made, A, B) /\ (Followed(made, A, B) <=> kind \notin A)
  BY <1>1, <1>2, <1>3, MadeAsk
<1>5. /\ \A A : Has(calls', A) <=> Has(calls, A) \/ Has(made, A)
      /\ \A A, B : ~Before(calls, A, B) /\ ~Before(made, A, B) /\ (Has(calls, A) => ~Has(made, B))
                     => ~Before(calls', A, B)
      /\ \A A, B : (Followed(calls, A, B) \/ Has(made, B)) /\ Followed(made, A, B) => Followed(calls', A, B)
  BY <1>1, EffectQueue
<1>6. /\ ~Has(made, UserKinds) /\ ~Has(made, SessionKinds) /\ ~Has(made, {"logout"})
      /\ Has(made, ShowLoading) /\ Has(made, HideLoadingOnError)
  BY <1>3, <1>4 DEF UserKinds, SessionKinds, ShowLoading, HideLoadingOnError
<1>7. NoUserInv'
  BY <1>2, <1>4, <1>5, <1>6 DEF InOrder, NoUserInv
<1>8. ~Has(calls, {"logout"}) /\ ~Has(calls, SessionKinds)
  BY DEF InOrder, LogoutInv, SessionInv
<1>9. LogoutInv'
  <2>1. ~Before(calls', {"logout"}, {"login"})
    BY <1>4, <1>5, <1>8 DEF InOrder, LogoutInv
  <2> QED BY <1>5, <1>6, <1>8, <2>1 DEF LogoutInv
<1>10. SessionInv'
  BY <1>5, <1>6, <1>8 DEF SessionInv
<1>11. OverlayInv'
  <2>1. Has(calls', HideLoadingOnError)
    BY <1>5, <1>6
  <2>2. Followed(calls', {"list-compagnies"}, ShowLoading)
    BY <1>3, <1>4, <1>5, <1>6
  <2>3. page' # "profile"
    BY <1>2
  <2> QED BY <2>1, <2>2, <2>3, HasLifts DEF OverlayInv
<1> QED BY <1>7, <1>9, <1>10, <1>11 DEF UsersAgree

\* The other clicks keep them.
LEMMA PageClickKeeps ==
  ASSUME InOrder, server' = server, NEW root \in RootScope, SameUser(root), NEW sent, NEW p, NEW made,
         Effect(root, scope, calls, sent, p, loading, made),
         page # "login", p # "login", ~loading,
         ~Has(sent, SessionKinds \cup {"login", "list-compagnies"}),
         page = "profile" => ~Has(sent, {"goToProfile"})
  PROVE  UsersAgree'
<1>1. /\ calls \in Seq(Calls) /\ server' \in BOOLEAN /\ rootScope.userProfile /\ ~Has(calls, SessionKinds)
      /\ rootScope \in RootScope
  BY DEF InOrder, Typed, TypeOK, NoUserInv, SessionInv
<1>2. rootScope'.userProfile /\ page' = p
  BY <1>1 DEF Effect, SameUser
<1>3. /\ \A A : Has(calls', A) <=> Has(calls, A) \/ Has(made, A)
      /\ \A A, B : ~Before(calls, A, B) /\ ~Before(made, A, B) /\ (Has(calls, A) => ~Has(made, B))
                     => ~Before(calls', A, B)
      /\ \A A, B : (Followed(calls, A, B) \/ Has(made, B)) /\ Followed(made, A, B) => Followed(calls', A, B)
  BY <1>1, EffectQueue
<1>4. ~Has(made, SessionKinds) /\ ~Has(made, {"login"}) /\ ~Has(made, {"list-compagnies"})
  <2>1. CASE p = page
    <3>1. made = sent
      BY <2>1 DEF Effect
    <3> QED BY <3>1, HasSubset
  <2>2. CASE p # page
    <3>1. \A A : A \cap {"history", "cartDetails", "countries"} = {} => ~Has(made, A)
      BY <1>1, <1>2, <2>2, MovedCalls
    <3>2. /\ SessionKinds \cap {"history", "cartDetails", "countries"} = {}
          /\ {"login"} \cap {"history", "cartDetails", "countries"} = {}
          /\ {"list-compagnies"} \cap {"history", "cartDetails", "countries"} = {}
      BY DEF SessionKinds
    <3> QED BY <3>1, <3>2
  <2> QED BY <2>1, <2>2
<1>5. NoUserInv'
  BY <1>2 DEF NoUserInv
<1>6. LogoutInv'
  <2>1. ~Before(made, {"logout"}, {"login"})
    BY <1>4, NoneFacts
  <2>2. ~Before(calls', {"logout"}, {"login"})
    BY <1>3, <1>4, <2>1 DEF InOrder, LogoutInv
  <2> QED BY <1>2, <2>2 DEF LogoutInv
<1>7. SessionInv'
  BY <1>1, <1>3, <1>4 DEF SessionInv
<1>8. OverlayInv'
  <2>1. ASSUME loading'
        PROVE  /\ Has(calls', HideLoadingOnError)
               /\ Followed(calls', {"list-compagnies"}, ShowLoading)
    <3>1. Has(made, ShowLoading)
      BY <2>1 DEF Effect
    <3>2. Has(made, HideLoadingOnError)
      BY <3>1, HasSubset, ShownIsHidden
    <3>3. Followed(made, {"list-compagnies"}, ShowLoading)
      BY <1>4, NoneFacts
    <3> QED BY <1>3, <3>1, <3>2, <3>3
  <2>2. ASSUME page' = "profile"
        PROVE  Followed(calls', {"goToProfile"}, {"countries"})
    <3>1. CASE p = page
      <4>1. ~Has(made, {"goToProfile"})
        BY <1>2, <2>2, <3>1 DEF Effect
      <4>2. Followed(made, {"goToProfile"}, {"countries"})
        BY <4>1, NoneFacts
      <4>3. Followed(calls, {"goToProfile"}, {"countries"})
        BY <1>2, <2>2, <3>1 DEF InOrder, OverlayInv
      <4> QED BY <1>3, <4>2, <4>3
    <3>2. CASE p # page
      <4>1. made = Ask("countries")
        BY <1>1, <2>2, <3>2, MovedCalls
      <4>2. PICK kind \in {"session", "drop-session", "merchant-token", "list-compagnies", "countries", "login"} :
              kind = "countries"
        OBVIOUS
      <4>3. Has(made, {"countries"}) /\ Followed(made, {"goToProfile"}, {"countries"})
        BY <1>1, <4>1, <4>2, MadeAsk
      <4> QED BY <1>3, <4>3
    <3> QED BY <3>1, <3>2
  <2> QED BY <2>1, <2>2, HasLifts DEF OverlayInv
<1> QED BY <1>5, <1>6, <1>7, <1>8 DEF UsersAgree

-----------------------------------------------------------------------------
(* Answers keep the invariants.                                            *)

\* The calls without the oldest one.
Rest == RemoveAt(calls, 1)

\* What is known of the other calls when the oldest is answered.
LEMMA RestQueue ==
  ASSUME Typed, 1 \in 1..Len(calls)
  PROVE  /\ Rest \in Seq(Calls) /\ Len(Rest) = Len(calls) - 1
         /\ \A i \in 1..Len(Rest) : i + 1 \in 1..Len(calls) /\ Rest[i] = calls[i + 1]
         /\ \A i \in 2..Len(calls) : i - 1 \in 1..Len(Rest) /\ Rest[i - 1] = calls[i]
         /\ \A A : Has(calls, A) <=> calls[1].kind \in A \/ Has(Rest, A)
         /\ \A A, B : ~Before(calls, A, B) =>
              ~Before(Rest, A, B) /\ (calls[1].kind \in A => ~Has(Rest, B))
         /\ \A A, B : Followed(calls, A, B) =>
              Followed(Rest, A, B) /\ (calls[1].kind \in A => Has(Rest, B))
<1>1. calls \in Seq(Calls) /\ calls # <<>>
  BY DEF Typed, TypeOK
<1>2. /\ Rest \in Seq(Calls) /\ Len(Rest) = Len(calls) - 1
      /\ \A i \in 1..Len(Rest) : i + 1 \in 1..Len(calls) /\ Rest[i] = calls[i + 1]
      /\ \A i \in 2..Len(calls) : i - 1 \in 1..Len(Rest) /\ Rest[i - 1] = calls[i]
  BY <1>1, RestElements DEF Rest
<1>3. ASSUME NEW A PROVE Has(calls, A) <=> calls[1].kind \in A \/ Has(Rest, A)
  BY <1>1, RestFacts DEF Rest
<1>4. ASSUME NEW A, NEW B
      PROVE  /\ ~Before(calls, A, B) => ~Before(Rest, A, B) /\ (calls[1].kind \in A => ~Has(Rest, B))
             /\ Followed(calls, A, B) => Followed(Rest, A, B) /\ (calls[1].kind \in A => Has(Rest, B))
  BY <1>1, RestFacts DEF Rest
<1> QED BY <1>2, <1>3, <1>4

\* The calls after an answer are the rest and the calls made.
LEMMA AnsweredQueue ==
  ASSUME Typed, 1 \in 1..Len(calls), NEW root, NEW sc, NEW sent, NEW p, NEW covered, NEW made,
         Effect(root, sc, Rest, sent, p, covered, made)
  PROVE  /\ calls' \in Seq(Calls) /\ Len(calls') = Len(Rest) + Len(made)
         /\ \A A : Has(calls', A) <=> Has(Rest, A) \/ Has(made, A)
         /\ \A A, B : ~Before(Rest, A, B) /\ ~Before(made, A, B) /\ (Has(Rest, A) => ~Has(made, B))
                        => ~Before(calls', A, B)
         /\ \A A, B : (Followed(Rest, A, B) \/ Has(made, B)) /\ Followed(made, A, B) => Followed(calls', A, B)
         /\ \A i \in 1..Len(Rest) : calls'[i].kind = Rest[i].kind /\ calls'[i].index = Rest[i].index
         /\ \A i \in 1..Len(made) : \A n : n = Len(Rest) + i => calls'[n] = made[i]
<1>1. PICK left \in Seq(Calls) : left = Rest
  BY RestQueue
<1>2. Effect(root, sc, left, sent, p, covered, made)
  BY <1>1, Zenon
<1>3. calls' \in Seq(Calls) /\ Len(calls') = Len(left) + Len(made)
  BY <1>2, EffectQueue
<1>4. \A A : Has(calls', A) <=> Has(left, A) \/ Has(made, A)
  BY <1>2, EffectQueue
<1>5. \A A, B : ~Before(left, A, B) /\ ~Before(made, A, B) /\ (Has(left, A) => ~Has(made, B))
                  => ~Before(calls', A, B)
  BY <1>2, EffectQueue
<1>6. \A A, B : (Followed(left, A, B) \/ Has(made, B)) /\ Followed(made, A, B) => Followed(calls', A, B)
  BY <1>2, EffectQueue
<1>7. \A i \in 1..Len(left) : calls'[i].kind = left[i].kind /\ calls'[i].index = left[i].index
  BY <1>2, EffectQueue
<1>8. \A i \in 1..Len(made) : calls'[Len(left) + i] = made[i]
  <2>1. PICK next : next = calls'
    OBVIOUS
  <2>2. made \in Seq(Calls) /\ (next = left \o made \/ next = Unowned(left) \o made)
    BY <1>2, <2>1 DEF Effect
  <2>3. \A i \in 1..Len(made) : next[Len(left) + i] = made[i]
    BY <2>2, QueueStep, Zenon
  <2> QED BY <2>1, <2>3, Zenon
<1> QED BY <1>1, <1>3, <1>4, <1>5, <1>6, <1>7, <1>8, Zenon

\* A success for a known user finds a user.
LEMMA KnownUser ==
  ASSUME InOrder, 1 \in 1..Len(calls), overtakes' = 0, Known(1)
  PROVE  server /\ (calls[1].kind \in UserKinds => rootScope.userProfile)
<1>1. server
  BY DEF Known
<1>2. calls[1].kind \in UserKinds => Has(calls, UserKinds)
  BY RestQueue DEF InOrder
<1> QED BY <1>1, <1>2 DEF InOrder, NoUserInv

\* The overlay is still taken away when neither the call answered did it nor the rows went.
LEMMA OverlayStays ==
  ASSUME InOrder, 1 \in 1..Len(calls), loading, calls[1].kind \notin HideLoadingOnError, ~Live(calls[1]),
         rootScope.transactions # None =>
           rootScope'.transactions # None /\ Len(rootScope'.transactions) = Len(rootScope.transactions),
         Len(calls') \in Nat, Len(Rest) <= Len(calls'),
         \A i \in 1..Len(Rest) : calls'[i].kind = Rest[i].kind /\ calls'[i].index = Rest[i].index
  PROVE  (\E i \in 1..Len(calls) : calls[i].kind \in HideLoadingOnError \/ Live(calls[i]))'
<1>1. PICK i \in 1..Len(calls) : calls[i].kind \in HideLoadingOnError \/ Live(calls[i])
  BY DEF InOrder, OverlayInv
<1>2. i # 1
  BY <1>1
<1>3. i \in 2..Len(calls) /\ calls \in Seq(Calls)
  BY <1>1, <1>2 DEF InOrder, Typed, TypeOK
<1>4. i - 1 \in 1..Len(Rest) /\ Rest[i - 1] = calls[i] /\ Len(Rest) = Len(calls) - 1
  BY <1>3, RestQueue DEF InOrder
<1>5. i - 1 \in 1..Len(calls') /\ calls'[i - 1].kind = calls[i].kind /\ calls'[i - 1].index = calls[i].index
  BY <1>3, <1>4
<1>6. CASE calls[i].kind \in HideLoadingOnError
  BY <1>5, <1>6
<1>7. CASE Live(calls[i])
  BY <1>5, <1>7 DEF Live
<1> QED BY <1>1, <1>6, <1>7

\* A plain answer keeps who is known to be there.
LEMMA PlainKeepsUsers ==
  ASSUME InOrder, 1 \in 1..Len(calls), overtakes' = 0, NEW root, NEW sc, NEW sent, NEW p, NEW covered, NEW made,
         Effect(root, sc, Rest, sent, p, covered, made), PlainShape(1, root, sc, sent, p, covered)
  PROVE  NoUserInv' /\ LogoutInv' /\ SessionInv'
<1>1. Typed
  BY DEF InOrder
<1>2. /\ made = sent /\ page' = page /\ scope' = sc /\ rootScope'.userProfile = rootScope.userProfile
      /\ rootScope'.transactions = root.transactions /\ rootScope'.customers = root.customers
      /\ server' => server \/ calls[1].kind = "login"
      /\ scope'.loginContainer = scope.loginContainer
  BY DEF Effect, PlainShape
<1>3. ~Has(made, SessionKinds) /\ ~Has(made, UserKinds) /\ ~Has(made, {"login"}) /\ ~Has(made, {"logout"})
      /\ ~Has(made, SessionKinds \cup {"logout"})
  <2>1. ~Has(made, SessionKinds \cup UserKinds \cup {"login", "logout"})
    BY <1>2 DEF PlainShape
  <2> QED BY <2>1, HasSubset
<1>4. /\ \A A : Has(calls, A) <=> calls[1].kind \in A \/ Has(Rest, A)
      /\ \A A, B : ~Before(calls, A, B) =>
           ~Before(Rest, A, B) /\ (calls[1].kind \in A => ~Has(Rest, B))
      /\ Len(Rest) = Len(calls) - 1
  BY <1>1, RestQueue
<1>5. /\ \A A : Has(calls', A) <=> Has(Rest, A) \/ Has(made, A)
      /\ \A A, B : ~Before(Rest, A, B) /\ ~Before(made, A, B) /\ (Has(Rest, A) => ~Has(made, B))
                     => ~Before(calls', A, B)
  BY <1>1, AnsweredQueue
<1>6. NoUserInv'
  <2>1. SUFFICES ASSUME ~rootScope.userProfile
                 PROVE  /\ page' = "login" /\ rootScope'.transactions = None /\ ~rootScope'.customers
                        /\ server' => ~Has(calls', UserKinds)
                        /\ ~Before(calls', {"login"}, UserKinds)
    BY <1>2 DEF NoUserInv
  <2>2. /\ page = "login" /\ rootScope.transactions = None /\ ~rootScope.customers
        /\ server => ~Has(calls, UserKinds)
        /\ ~Before(calls, {"login"}, UserKinds)
    BY <2>1 DEF InOrder, NoUserInv
  <2>3. ~(calls[1].kind \in UserKinds /\ Known(1))
    BY <2>1, KnownUser
  <2>4. rootScope'.transactions = None /\ ~rootScope'.customers
    BY <1>2, <2>2, <2>3 DEF PlainShape
  <2>5. server' => ~Has(Rest, UserKinds)
    BY <1>2, <1>4, <2>2
  <2>6. ~Before(made, {"login"}, UserKinds)
    BY <1>3, NoneFacts
  <2> QED BY <1>2, <1>3, <1>4, <1>5, <2>2, <2>4, <2>5, <2>6
<1>7. LogoutInv'
  <2>1. ~Before(made, {"logout"}, {"login"})
    BY <1>3, NoneFacts
  <2>2. ~Before(calls', {"logout"}, {"login"})
    BY <1>3, <1>4, <1>5, <2>1 DEF InOrder, LogoutInv
  <2>3. page = "login" /\ scope.loginContainer => ~Has(calls', {"logout"})
    BY <1>3, <1>4, <1>5 DEF InOrder, LogoutInv
  <2> QED BY <1>2, <2>2, <2>3 DEF LogoutInv
<1>8. SessionInv'
  <2>1. SUFFICES ASSUME Has(calls', SessionKinds)
                 PROVE  /\ ~rootScope'.userProfile /\ page' = "login" /\ ~scope'.loginContainer
                        /\ ~Has(calls', {"login"})
                        /\ ~Before(calls', SessionKinds, SessionKinds \cup {"logout"})
                        /\ ~server'
    BY DEF SessionInv
  <2>2. Has(Rest, SessionKinds) /\ Has(calls, SessionKinds)
    BY <1>3, <1>4, <1>5, <2>1
  <2>3. /\ ~rootScope.userProfile /\ page = "login" /\ ~scope.loginContainer
        /\ ~Has(calls, {"login"})
        /\ ~Before(calls, SessionKinds, SessionKinds \cup {"logout"})
        /\ server => Len(calls) = 1
    BY <2>2 DEF InOrder, SessionInv
  <2>4. ~server
    <3>1. ASSUME server PROVE FALSE
      <4>1. Len(calls) = 1 /\ Len(Rest) = Len(calls) - 1
        BY <1>1, <2>3, <3>1, RestQueue
      <4>2. Len(Rest) = 0
        BY <4>1
      <4> QED BY <2>2, <4>2 DEF Has
    <3> QED BY <3>1
  <2>5. calls[1].kind # "login" /\ ~Has(Rest, {"login"})
    BY <1>4, <2>3
  <2>6. ~Before(made, SessionKinds, SessionKinds \cup {"logout"})
    BY <1>3, NoneFacts
  <2>7. ~Before(calls', SessionKinds, SessionKinds \cup {"logout"})
    BY <1>3, <1>4, <1>5, <2>3, <2>6
  <2> QED BY <1>2, <1>3, <1>5, <2>3, <2>4, <2>5, <2>7
<1> QED BY <1>6, <1>7, <1>8

\* A call shown to the user takes the overlay away; one of a row that is there, too.
LEMMA PlainKeepsOverlay ==
  ASSUME InOrder, 1 \in 1..Len(calls), overtakes' = 0, NEW root, NEW sc, NEW sent, NEW p, NEW covered, NEW made,
         Effect(root, sc, Rest, sent, p, covered, made), PlainShape(1, root, sc, sent, p, covered),
         covered => loading
  PROVE  OverlayInv'
<1>1. Typed
  BY DEF InOrder
<1>2. /\ made = sent /\ page' = page /\ rootScope'.transactions = root.transactions /\ made \in Seq(Calls)
      /\ loading' <=> covered \/ Has(made, ShowLoading)
  BY DEF Effect, PlainShape
<1>3. ~Has(made, {"list-compagnies"}) /\ ~Has(made, {"goToProfile"})
  <2>1. ~Has(made, SessionKinds \cup UserKinds \cup {"login", "logout"})
    BY <1>2 DEF PlainShape
  <2>2. {"list-compagnies"} \subseteq SessionKinds \cup UserKinds \cup {"login", "logout"}
        /\ {"goToProfile"} \subseteq SessionKinds \cup UserKinds \cup {"login", "logout"}
    BY DEF UserKinds
  <2> QED BY <2>1, <2>2, HasSubset
<1>4. /\ \A A, B : Followed(calls, A, B) =>
           Followed(Rest, A, B) /\ (calls[1].kind \in A => Has(Rest, B))
      /\ Rest \in Seq(Calls)
  BY <1>1, RestQueue
<1>5. /\ \A A : Has(calls', A) <=> Has(Rest, A) \/ Has(made, A)
      /\ \A A, B : (Followed(Rest, A, B) \/ Has(made, B)) /\ Followed(made, A, B) => Followed(calls', A, B)
  BY <1>1, AnsweredQueue
<1>6. /\ calls' \in Seq(Calls) /\ Len(calls') = Len(Rest) + Len(made)
      /\ \A i \in 1..Len(Rest) : calls'[i].kind = Rest[i].kind /\ calls'[i].index = Rest[i].index
  BY <1>1, AnsweredQueue
<1>7. \A i \in 1..Len(made) : \A n : n = Len(Rest) + i => calls'[n] = made[i]
  BY <1>1, AnsweredQueue
<1>8. ASSUME loading' PROVE (\E i \in 1..Len(calls) : calls[i].kind \in HideLoadingOnError \/ Live(calls[i]))'
  <2>1. CASE Has(made, HideLoadingOnError) \/ Has(made, ShowLoading)
    BY <1>5, <2>1, HasSubset, ShownIsHidden, HasLifts
  <2>2. CASE covered /\ ~Has(made, HideLoadingOnError)
    <3>1. StillLifts(1, root, made) /\ loading
      BY <1>2, <2>2 DEF PlainShape
    <3>2. CASE /\ Len(made) = 1 /\ made[1].kind = "rowStatus"
               /\ root.transactions # None /\ made[1].index <= Len(root.transactions)
      <4>1. PICK n : n = Len(Rest) + 1
        OBVIOUS
      <4>2. calls'[n] = made[1]
        BY <1>7, <3>2, <4>1
      <4>3. n \in 1..Len(calls')
        BY <1>4, <1>6, <3>2, <4>1
      <4>4. Live(calls[n])'
        BY <1>2, <3>2, <4>2 DEF Live
      <4> QED BY <4>3, <4>4
    <3>3. CASE /\ calls[1].kind \notin HideLoadingOnError /\ ~Live(calls[1])
               /\ rootScope.transactions # None => /\ root.transactions # None
                                                   /\ Len(root.transactions) = Len(rootScope.transactions)
      <4>1. Len(calls') \in Nat /\ Len(Rest) <= Len(calls')
        BY <1>2, <1>4, <1>6
      <4> QED BY <1>2, <1>6, <3>1, <3>3, <4>1, OverlayStays
    <3> QED BY <2>2, <3>1, <3>2, <3>3 DEF StillLifts
  <2> QED BY <1>2, <1>8, <2>1, <2>2
<1>9. ASSUME loading' PROVE Followed(calls', {"list-compagnies"}, ShowLoading)
  <2>1. Followed(made, {"list-compagnies"}, ShowLoading)
    BY <1>3, NoneFacts
  <2>2. Followed(Rest, {"list-compagnies"}, ShowLoading) \/ Has(made, ShowLoading)
    BY <1>2, <1>4, <1>9 DEF InOrder, OverlayInv
  <2> QED BY <1>5, <2>1, <2>2
<1>10. ASSUME page' = "profile" PROVE Followed(calls', {"goToProfile"}, {"countries"})
  <2>1. Followed(made, {"goToProfile"}, {"countries"})
    BY <1>3, NoneFacts
  <2>2. Followed(Rest, {"goToProfile"}, {"countries"})
    BY <1>2, <1>4, <1>10 DEF InOrder, OverlayInv
  <2> QED BY <1>5, <2>1, <2>2
<1> QED BY <1>8, <1>9, <1>10 DEF OverlayInv

\* An answer about the session keeps them.
LEMMA SessionKeeps ==
  ASSUME InOrder, 1 \in 1..Len(calls), overtakes' = 0, server' \in BOOLEAN,
         NEW root, NEW sc, NEW sent, NEW p, NEW covered, NEW made,
         Effect(root, sc, Rest, sent, p, covered, made), SessionShape(1, root, sc, sent, p, covered),
         covered => loading
  PROVE  UsersAgree'
<1>1. Typed
  BY DEF InOrder
<1>2. /\ made = sent /\ page' = page /\ rootScope'.transactions = rootScope.transactions
      /\ rootScope'.customers = rootScope.customers /\ rootScope'.userProfile = root.userProfile
      /\ scope' = sc /\ (server' => server) /\ calls[1].kind \in SessionKinds /\ made \in Seq(Calls)
      /\ loading' <=> covered \/ Has(made, ShowLoading)
      /\ calls[1].kind = "list-merchants" => ~covered
  BY DEF Effect, SessionShape
<1>3. PICK kind \in {"session", "drop-session", "merchant-token", "list-compagnies", "countries", "login"} :
        /\ made = Ask(kind)
        /\ \/ kind = "list-compagnies" /\ Known(1) /\ root.userProfile
           \/ /\ kind \in {"session", "drop-session"} /\ root.userProfile = rootScope.userProfile
              /\ sc.loginContainer = scope.loginContainer
           \/ kind = "merchant-token" /\ root.userProfile = rootScope.userProfile
  BY <1>2 DEF SessionShape
<1>4. /\ Len(made) = 1 /\ made[1].kind = kind
      /\ \A A : Has(made, A) <=> kind \in A
      /\ \A A, B : ~Before(made, A, B) /\ (Followed(made, A, B) <=> kind \notin A)
  BY <1>3, MadeAsk
<1>5. /\ Rest \in Seq(Calls) /\ Len(Rest) = Len(calls) - 1
      /\ \A A : Has(calls, A) <=> calls[1].kind \in A \/ Has(Rest, A)
      /\ \A A, B : ~Before(calls, A, B) =>
           ~Before(Rest, A, B) /\ (calls[1].kind \in A => ~Has(Rest, B))
  BY <1>1, RestQueue
<1>6. /\ \A A : Has(calls', A) <=> Has(Rest, A) \/ Has(made, A)
      /\ \A A, B : ~Before(Rest, A, B) /\ ~Before(made, A, B) /\ (Has(Rest, A) => ~Has(made, B))
                     => ~Before(calls', A, B)
      /\ \A A, B : (Followed(Rest, A, B) \/ Has(made, B)) /\ Followed(made, A, B) => Followed(calls', A, B)
  BY <1>1, AnsweredQueue
<1>7. Has(calls, SessionKinds)
  BY <1>2, <1>5
<1>8. /\ ~rootScope.userProfile /\ page = "login" /\ ~scope.loginContainer
      /\ ~Has(calls, {"login"})
      /\ ~Before(calls, SessionKinds, SessionKinds \cup {"logout"})
      /\ server => Len(calls) = 1 /\ (loading => calls[1].kind = "list-merchants")
  BY <1>7 DEF InOrder, SessionInv
<1>9. ~Has(Rest, SessionKinds) /\ ~Has(Rest, {"logout"})
  <2>1. ~Has(Rest, SessionKinds \cup {"logout"})
    BY <1>2, <1>5, <1>8
  <2> QED BY <2>1, HasSubset
<1>10. kind \notin {"login", "logout"} /\ kind \notin ShowLoading /\ kind # "goToProfile"
  BY <1>3 DEF ShowLoading
<1>11. NoUserInv'
  <2>1. SUFFICES ASSUME ~rootScope'.userProfile
                 PROVE  /\ page' = "login" /\ rootScope'.transactions = None /\ ~rootScope'.customers
                        /\ server' => ~Has(calls', UserKinds)
                        /\ ~Before(calls', {"login"}, UserKinds)
    BY DEF NoUserInv
  <2>2. /\ rootScope.transactions = None /\ ~rootScope.customers
        /\ server => ~Has(calls, UserKinds)
        /\ ~Before(calls, {"login"}, UserKinds)
    BY <1>8 DEF InOrder, NoUserInv
  <2>3. kind \in {"session", "drop-session", "merchant-token"}
    BY <1>2, <1>3, <2>1
  <2>4. ~Has(made, UserKinds)
    BY <1>4, <2>3 DEF UserKinds
  <2> QED BY <1>2, <1>4, <1>5, <1>6, <1>8, <2>2, <2>4
<1>12. LogoutInv'
  <2>1. ~Before(calls', {"logout"}, {"login"})
    BY <1>4, <1>5, <1>6, <1>10 DEF InOrder, LogoutInv
  <2>2. ~Has(calls', {"logout"})
    BY <1>4, <1>6, <1>9, <1>10
  <2> QED BY <2>1, <2>2 DEF LogoutInv
<1>13. SessionInv'
  <2>1. CASE kind \notin SessionKinds
    BY <1>4, <1>6, <1>9, <2>1 DEF SessionInv
  <2>2. CASE kind \in SessionKinds
    <3>1. kind \in {"session", "drop-session"}
      BY <1>3, <2>2 DEF SessionKinds
    <3>2. ~rootScope'.userProfile /\ page' = "login" /\ ~scope'.loginContainer
      BY <1>2, <1>3, <1>8, <3>1
    <3>3. ~Has(calls', {"login"})
      BY <1>4, <1>5, <1>6, <1>8, <1>10
    <3>4. ~Before(calls', SessionKinds, SessionKinds \cup {"logout"})
      BY <1>2, <1>4, <1>5, <1>6, <1>8, <1>9
    <3>5. ASSUME server' PROVE Len(calls') = 1 /\ ~loading'
      <4>1. Len(calls) = 1 /\ Len(Rest) = Len(calls) - 1
        BY <1>1, <1>2, <1>8, <3>5, RestQueue
      <4>2. Len(calls') = Len(Rest) + Len(made)
        BY <1>1, AnsweredQueue
      <4>3. ~covered
        BY <1>2, <1>8, <3>5
      <4>4. Len(made) = 1
        BY <1>4
      <4> QED BY <1>2, <1>4, <1>10, <4>1, <4>2, <4>3, <4>4
    <3> QED BY <3>2, <3>3, <3>4, <3>5 DEF SessionInv
  <2> QED BY <2>1, <2>2
<1>14. OverlayInv'
  <2>1. ASSUME loading'
        PROVE  /\ (\E i \in 1..Len(calls) : calls[i].kind \in HideLoadingOnError \/ Live(calls[i]))'
               /\ Followed(calls', {"list-compagnies"}, ShowLoading)
    <3>1. covered /\ loading
      BY <1>2, <1>4, <1>10, <2>1
    <3>2. calls[1].kind \in {"session", "drop-session"} /\ ~server
      BY <1>2, <1>8, <3>1 DEF SessionKinds
    <3>3. calls[1].kind \notin HideLoadingOnError /\ ~Live(calls[1])
      BY <3>2 DEF HideLoadingOnError, HideLoadingOnSuccess, Live
    <3>4. (\E i \in 1..Len(calls) : calls[i].kind \in HideLoadingOnError \/ Live(calls[i]))'
      <4>1. /\ calls' \in Seq(Calls) /\ Len(calls') = Len(Rest) + Len(made)
            /\ \A i \in 1..Len(Rest) : calls'[i].kind = Rest[i].kind /\ calls'[i].index = Rest[i].index
        BY <1>1, AnsweredQueue
      <4>2. Len(calls') \in Nat /\ Len(Rest) <= Len(calls')
        BY <1>2, <1>5, <4>1
      <4> QED BY <1>2, <3>1, <3>3, <4>1, <4>2, OverlayStays
    <3>5. kind # "list-compagnies"
      BY <1>3, <3>2, KnownUser
    <3>6. Followed(calls, {"list-compagnies"}, ShowLoading)
      BY <3>1 DEF InOrder, OverlayInv
    <3>7. Followed(Rest, {"list-compagnies"}, ShowLoading)
      BY <1>1, <3>6, RestQueue
    <3> QED BY <1>4, <1>6, <3>4, <3>5, <3>7
  <2> QED BY <1>2, <1>8, <2>1 DEF OverlayInv
<1> QED BY <1>11, <1>12, <1>13, <1>14 DEF UsersAgree

\* With a known user on a page of his, users and sessions agree: nobody finds out about the
\* session and no login is made.
LEMMA UserKeeps ==
  ASSUME InOrder, 1 \in 1..Len(calls), overtakes' = 0, Known(1), NEW root, NEW sc, NEW sent, NEW p, NEW covered, NEW made,
         Effect(root, sc, Rest, sent, p, covered, made),
         rootScope'.userProfile, ~Has(made, SessionKinds), ~Has(made, {"login"}),
         page' = "login" /\ scope'.loginContainer =>
           page = "login" /\ scope.loginContainer /\ ~Has(made, {"logout"})
  PROVE  NoUserInv' /\ LogoutInv' /\ SessionInv'
<1>1. Typed /\ server
  BY KnownUser DEF InOrder
<1>2. /\ Rest \in Seq(Calls) /\ Len(Rest) = Len(calls) - 1
      /\ \A A : Has(calls, A) <=> calls[1].kind \in A \/ Has(Rest, A)
      /\ \A A, B : ~Before(calls, A, B) => ~Before(Rest, A, B)
  BY <1>1, RestQueue
<1>3. /\ \A A : Has(calls', A) <=> Has(Rest, A) \/ Has(made, A)
      /\ \A A, B : ~Before(Rest, A, B) /\ ~Before(made, A, B) /\ (Has(Rest, A) => ~Has(made, B))
                     => ~Before(calls', A, B)
  BY <1>1, AnsweredQueue
<1>4. NoUserInv'
  BY DEF NoUserInv
<1>5. LogoutInv'
  <2>1. ~Before(made, {"logout"}, {"login"})
    BY NoneFacts
  <2>2. ~Before(calls', {"logout"}, {"login"})
    BY <1>2, <1>3, <2>1 DEF InOrder, LogoutInv
  <2>3. page' = "login" /\ scope'.loginContainer => ~Has(calls', {"logout"})
    BY <1>2, <1>3 DEF InOrder, LogoutInv
  <2> QED BY <2>2, <2>3 DEF LogoutInv
<1>6. SessionInv'
  <2>1. ASSUME Has(Rest, SessionKinds) PROVE FALSE
    <3>1. Has(calls, SessionKinds)
      BY <1>2, <2>1
    <3>2. Len(calls) = 1 /\ Len(Rest) = Len(calls) - 1
      BY <1>1, <3>1, RestQueue DEF InOrder, SessionInv
    <3>3. Len(Rest) = 0
      BY <3>2
    <3> QED BY <2>1, <3>3 DEF Has
  <2> QED BY <1>3, <2>1 DEF SessionInv
<1> QED BY <1>4, <1>5, <1>6

\* Asking for the stores keeps them.
LEMMA StoresKeeps ==
  ASSUME InOrder, 1 \in 1..Len(calls), overtakes' = 0, server' \in BOOLEAN,
         NEW root, NEW sc, NEW sent, NEW p, NEW covered, NEW made,
         Effect(root, sc, Rest, sent, p, covered, made), StoresShape(1, root, sc, sent, p, covered)
  PROVE  UsersAgree'
<1>1. Typed /\ Known(1)
  BY DEF InOrder, StoresShape
<1>2. /\ made = Ask("list-compagnies") /\ page' = page /\ rootScope'.userProfile = root.userProfile
      /\ scope'.loginContainer = scope.loginContainer
      /\ loading' <=> Has(made, ShowLoading)
  BY DEF Effect, StoresShape
<1>3. PICK kind \in {"session", "drop-session", "merchant-token", "list-compagnies", "countries", "login"} :
        kind = "list-compagnies" /\ made = Ask(kind)
  BY <1>2
<1>4. /\ \A A : Has(made, A) <=> kind \in A
      /\ \A A, B : Followed(made, A, B) <=> kind \notin A
  BY <1>3, MadeAsk
<1>5. ~Has(made, SessionKinds) /\ ~Has(made, {"login"}) /\ ~Has(made, {"logout"}) /\ ~Has(made, ShowLoading)
      /\ Followed(made, {"goToProfile"}, {"countries"})
  BY <1>3, <1>4 DEF SessionKinds, ShowLoading
<1>6. root.userProfile
  <2>1. CASE calls[1].kind = "update-profile"
    BY <1>1, <2>1, KnownUser DEF StoresShape, UserKinds
  <2> QED BY <2>1 DEF StoresShape
<1>7. NoUserInv' /\ LogoutInv' /\ SessionInv'
  BY <1>1, <1>2, <1>5, <1>6, UserKeeps
<1>8. OverlayInv'
  <2>1. ASSUME page' = "profile" PROVE Followed(calls', {"goToProfile"}, {"countries"})
    <3>1. Followed(calls, {"goToProfile"}, {"countries"})
      BY <1>2, <2>1 DEF InOrder, OverlayInv
    <3>2. Followed(Rest, {"goToProfile"}, {"countries"})
      BY <1>1, <3>1, RestQueue
    <3>3. \A A, B : (Followed(Rest, A, B) \/ Has(made, B)) /\ Followed(made, A, B) => Followed(calls', A, B)
      BY <1>1, AnsweredQueue
    <3> QED BY <1>5, <3>2, <3>3
  <2> QED BY <1>2, <1>5, <2>1 DEF OverlayInv
<1> QED BY <1>7, <1>8 DEF UsersAgree

\* Going to a page of the user's keeps them.
LEMMA MoveKeeps ==
  ASSUME InOrder, 1 \in 1..Len(calls), overtakes' = 0, server' \in BOOLEAN,
         NEW root \in RootScope, NEW sc, NEW sent, NEW p, NEW covered, NEW made,
         Effect(root, sc, Rest, sent, p, covered, made), MoveShape(1, root, sc, sent, p, covered),
         covered => loading
  PROVE  UsersAgree'
<1>1. Typed /\ Known(1) /\ calls[1].kind \in UserKinds /\ p # "login" /\ sent = <<>>
  BY DEF InOrder, MoveShape
<1>2. root.userProfile
  BY <1>1, KnownUser DEF MoveShape
<1>3. page' = p /\ rootScope'.userProfile /\ (loading' <=> covered \/ Has(made, ShowLoading))
  BY <1>1, <1>2 DEF Effect
<1>4. /\ ~Has(made, SessionKinds) /\ ~Has(made, {"login"}) /\ ~Has(made, {"list-compagnies"})
      /\ ~Has(made, {"goToProfile"})
  <2>1. CASE p = page
    <3>1. made = <<>>
      BY <1>1, <2>1 DEF Effect
    <3> QED BY <3>1, NoCalls
  <2>2. CASE p # page
    <3>1. \A A : A \cap {"history", "cartDetails", "countries"} = {} => ~Has(made, A)
      BY <1>1, <1>3, <2>2, MovedCalls
    <3>2. /\ SessionKinds \cap {"history", "cartDetails", "countries"} = {}
          /\ {"login"} \cap {"history", "cartDetails", "countries"} = {}
          /\ {"list-compagnies"} \cap {"history", "cartDetails", "countries"} = {}
          /\ {"goToProfile"} \cap {"history", "cartDetails", "countries"} = {}
      BY DEF SessionKinds
    <3> QED BY <3>1, <3>2
  <2> QED BY <2>1, <2>2
<1>5. NoUserInv' /\ LogoutInv' /\ SessionInv'
  BY <1>1, <1>3, <1>4, UserKeeps
<1>6. /\ \A A, B : Followed(calls, A, B) =>
           Followed(Rest, A, B) /\ (calls[1].kind \in A => Has(Rest, B))
  BY <1>1, RestQueue
<1>7. /\ \A A : Has(calls', A) <=> Has(Rest, A) \/ Has(made, A)
      /\ \A A, B : (Followed(Rest, A, B) \/ Has(made, B)) /\ Followed(made, A, B) => Followed(calls', A, B)
  BY <1>1, AnsweredQueue
<1>8. p # page /\ p = "profile" => Has(made, {"countries"})
  <2>1. SUFFICES ASSUME p # page, p = "profile" PROVE Has(made, {"countries"})
    OBVIOUS
  <2>2. PICK kind \in {"session", "drop-session", "merchant-token", "list-compagnies", "countries", "login"} :
          kind = "countries"
    OBVIOUS
  <2>3. made = Ask(kind)
    BY <1>3, <2>1, <2>2, MovedCalls
  <2> QED BY <2>2, <2>3, MadeAsk
<1>9. ASSUME loading' PROVE Has(calls', HideLoadingOnError)
  <2>1. CASE Has(made, ShowLoading)
    BY <1>7, <2>1, HasSubset, ShownIsHidden
  <2>2. CASE covered /\ calls[1].kind = "list-compagnies"
    <3>1. Has(Rest, ShowLoading)
      BY <1>6, <2>2 DEF InOrder, OverlayInv
    <3> QED BY <1>7, <3>1, HasSubset, ShownIsHidden
  <2>3. CASE calls[1].kind = "goToProfile" /\ p = "profile"
    <3>1. p = page => Has(Rest, {"countries"})
      BY <1>6, <2>3 DEF InOrder, OverlayInv
    <3>2. Has(calls', {"countries"})
      BY <1>7, <1>8, <2>3, <3>1
    <3> QED BY <3>2, HasSubset, ShownIsHidden
  <2> QED BY <1>3, <1>9, <2>1, <2>2, <2>3 DEF MoveShape
<1>10. ASSUME loading' PROVE Followed(calls', {"list-compagnies"}, ShowLoading)
  <2>1. Followed(made, {"list-compagnies"}, ShowLoading)
    BY <1>4, NoneFacts
  <2>2. Followed(Rest, {"list-compagnies"}, ShowLoading) \/ Has(made, ShowLoading)
    BY <1>3, <1>6, <1>10 DEF InOrder, OverlayInv
  <2> QED BY <1>7, <2>1, <2>2
<1>11. ASSUME page' = "profile" PROVE Followed(calls', {"goToProfile"}, {"countries"})
  <2>1. Followed(made, {"goToProfile"}, {"countries"})
    BY <1>4, NoneFacts
  <2>2. p = page => Followed(Rest, {"goToProfile"}, {"countries"})
    BY <1>3, <1>6, <1>11 DEF InOrder, OverlayInv
  <2> QED BY <1>3, <1>7, <1>8, <1>11, <2>1, <2>2
<1> QED BY <1>5, <1>9, <1>10, <1>11, HasLifts DEF OverlayInv, UsersAgree

\* Logging out keeps them.
LEMMA LogoutKeeps ==
  ASSUME InOrder, 1 \in 1..Len(calls), overtakes' = 0, server' \in BOOLEAN,
         NEW root \in RootScope, NEW sc, NEW sent, NEW p, NEW covered, NEW made,
         Effect(root, sc, Rest, sent, p, covered, made), LogoutShape(1, root, sc, sent, p, covered)
  PROVE  UsersAgree'
<1>1. Typed /\ calls[1].kind = "logout" /\ ~server'
  BY DEF InOrder, LogoutShape
<1>2. /\ page' = "login" /\ ~rootScope'.userProfile /\ rootScope'.transactions = None
      /\ ~rootScope'.customers /\ (loading' <=> Has(made, ShowLoading))
      /\ \/ page = "login" /\ scope'.loginContainer = scope.loginContainer /\ made = <<>>
         \/ page # "login" /\ p # page /\ ~scope'.loginContainer
  BY DEF Effect, LogoutShape, NewScope
<1>3. PICK kind \in {"session", "drop-session", "merchant-token", "list-compagnies", "countries", "login"} :
        kind = "session"
  OBVIOUS
<1>4. /\ \A A : Has(made, A) => page # "login" /\ kind \in A
      /\ \A A, B : ~Before(made, A, B)
  <2>1. CASE page # "login"
    <3>1. made = Ask(kind)
      BY <1>2, <1>3, <2>1, MovedCalls
    <3> QED BY <2>1, <3>1, MadeAsk
  <2>2. CASE page = "login"
    <3>1. made = <<>>
      BY <1>2, <2>2
    <3>2. \A A, B : ~Before(made, A, B)
      BY <3>1, NoCalls, NoneFacts
    <3> QED BY <3>1, <3>2, NoCalls
  <2> QED BY <2>1, <2>2
<1>5. /\ \A A : Has(calls, A) <=> calls[1].kind \in A \/ Has(Rest, A)
      /\ \A A, B : ~Before(calls, A, B) =>
           ~Before(Rest, A, B) /\ (calls[1].kind \in A => ~Has(Rest, B))
  BY <1>1, RestQueue
<1>6. /\ \A A : Has(calls', A) <=> Has(Rest, A) \/ Has(made, A)
      /\ \A A, B : ~Before(Rest, A, B) /\ ~Before(made, A, B) /\ (Has(Rest, A) => ~Has(made, B))
                     => ~Before(calls', A, B)
  BY <1>1, AnsweredQueue
<1>7. ~Has(calls', {"login"})
  <2>1. ~Has(Rest, {"login"})
    BY <1>1, <1>5 DEF InOrder, LogoutInv
  <2> QED BY <1>3, <1>4, <1>6, <2>1
<1>8. NoUserInv'
  <2>1. ~Before(calls', {"login"}, UserKinds)
    BY <1>7, NoneFacts
  <2> QED BY <1>1, <1>2, <2>1 DEF NoUserInv
<1>9. LogoutInv'
  <2>1. ~Before(calls', {"logout"}, {"login"})
    BY <1>7, NoneFacts
  <2>2. scope'.loginContainer => ~Has(calls', {"logout"})
    BY <1>2, <1>3, <1>4, <1>5, <1>6 DEF InOrder, LogoutInv
  <2> QED BY <2>1, <2>2 DEF LogoutInv
<1>10. SessionInv'
  <2>1. ~Has(calls', SessionKinds) \/ (~scope'.loginContainer /\ ~Before(calls', SessionKinds, SessionKinds \cup {"logout"}))
    <3>1. CASE page # "login"
      <4>1. ~Has(Rest, SessionKinds)
        BY <1>5, <3>1 DEF InOrder, SessionInv
      <4>2. ~Before(Rest, SessionKinds, SessionKinds \cup {"logout"})
        BY <4>1, NoneFacts
      <4> QED BY <1>2, <1>4, <1>6, <3>1, <4>1, <4>2
    <3>2. CASE page = "login" /\ Has(Rest, SessionKinds)
      <4>1. ~scope.loginContainer /\ ~Before(calls, SessionKinds, SessionKinds \cup {"logout"})
        BY <1>5, <3>2 DEF InOrder, SessionInv
      <4>2. \A A : ~Has(made, A)
        BY <1>4, <3>2
      <4> QED BY <1>2, <1>4, <1>5, <1>6, <3>2, <4>1, <4>2
    <3>3. CASE page = "login" /\ ~Has(Rest, SessionKinds)
      BY <1>4, <1>6, <3>3
    <3> QED BY <3>1, <3>2, <3>3
  <2> QED BY <1>1, <1>2, <1>7, <2>1 DEF SessionInv
<1>11. OverlayInv'
  <2>1. ~loading'
    BY <1>2, <1>3, <1>4 DEF ShowLoading
  <2> QED BY <1>2, <2>1 DEF OverlayInv
<1> QED BY <1>8, <1>9, <1>10, <1>11 DEF UsersAgree

-----------------------------------------------------------------------------
(* The cart of the details page.                                           *)

\* The last cart in the queue q that the page still waits for is the one of order o.
LastCart(q, o) ==
  \E i \in 1..Len(q) : /\ OwnCart(q[i]) /\ q[i].uuid = o
                       /\ \A j \in 1..Len(q) : i < j => ~OwnCart(q[j])

NoCart(q) == \A i \in 1..Len(q) : ~OwnCart(q[i])

\* The carts of two queues put together are those of the second, if it has one.
LEMMA CartConcat ==
  ASSUME NEW S, NEW q \in Seq(S), NEW r \in Seq(S), NEW o
  PROVE  /\ LastCart(r, o) => LastCart(q \o r, o)
         /\ NoCart(r) /\ LastCart(q, o) => LastCart(q \o r, o)
         /\ NoCart(r) /\ NoCart(q) => NoCart(q \o r)
<1> DEFINE n == q \o r
<1>1. /\ Len(n) = Len(q) + Len(r)
      /\ \A i \in 1..Len(q) : n[i] = q[i]
      /\ \A i \in 1..Len(r) : n[Len(q) + i] = r[i]
      /\ \A i \in 1..Len(n) : i \in 1..Len(q) \/ i - Len(q) \in 1..Len(r)
  BY ConcatElements
<1>2. Len(q) \in Nat /\ Len(r) \in Nat
  OBVIOUS
<1> HIDE DEF n
<1>3. \A j \in 1..Len(n) : j - Len(q) \in 1..Len(r) => n[j] = r[j - Len(q)]
  <2>1. SUFFICES ASSUME NEW j \in 1..Len(n), NEW l, l = j - Len(q), l \in 1..Len(r)
                 PROVE  n[j] = r[l]
    OBVIOUS
  <2>2. j \in Int /\ Len(q) + l = j
    BY <1>2, <2>1
  <2>3. n[Len(q) + l] = r[l]
    BY <1>1, <2>1
  <2> QED BY <2>2, <2>3
<1>4. ASSUME LastCart(r, o) PROVE LastCart(n, o)
  <2>1. PICK i \in 1..Len(r) : OwnCart(r[i]) /\ r[i].uuid = o /\ \A j \in 1..Len(r) : i < j => ~OwnCart(r[j])
    BY <1>4 DEF LastCart
  <2>2. PICK k : k = Len(q) + i
    OBVIOUS
  <2>3. k \in 1..Len(n) /\ n[k] = r[i]
    BY <1>1, <1>2, <2>2
  <2>4. ASSUME NEW j \in 1..Len(n), k < j PROVE ~OwnCart(n[j])
    <3>1. j - Len(q) \in 1..Len(r) /\ i < j - Len(q)
      BY <1>1, <1>2, <2>2, <2>4
    <3>2. n[j] = r[j - Len(q)]
      BY <1>3, <3>1
    <3> QED BY <2>1, <3>1, <3>2
  <2> QED BY <2>1, <2>3, <2>4 DEF LastCart
<1>5. ASSUME NoCart(r) PROVE \A j \in 1..Len(n) : j - Len(q) \in 1..Len(r) => ~OwnCart(n[j])
  BY <1>3, <1>5 DEF NoCart
<1>6. ASSUME NoCart(r), LastCart(q, o) PROVE LastCart(n, o)
  <2>1. PICK i \in 1..Len(q) : OwnCart(q[i]) /\ q[i].uuid = o /\ \A j \in 1..Len(q) : i < j => ~OwnCart(q[j])
    BY <1>6 DEF LastCart
  <2>2. i \in 1..Len(n) /\ n[i] = q[i]
    BY <1>1, <1>2
  <2>3. ASSUME NEW j \in 1..Len(n), i < j PROVE ~OwnCart(n[j])
    <3>1. CASE j \in 1..Len(q)
      BY <1>1, <2>1, <2>3, <3>1
    <3>2. CASE j - Len(q) \in 1..Len(r)
      BY <1>5, <1>6, <3>2
    <3> QED BY <1>1, <3>1, <3>2
  <2> QED BY <2>1, <2>2, <2>3 DEF LastCart
<1>7. ASSUME NoCart(r), NoCart(q) PROVE NoCart(n)
  <2>1. ASSUME NEW j \in 1..Len(n) PROVE ~OwnCart(n[j])
    <3>1. CASE j \in 1..Len(q)
      BY <1>1, <1>7, <3>1 DEF NoCart
    <3>2. CASE j - Len(q) \in 1..Len(r)
      BY <1>5, <1>7, <3>2
    <3> QED BY <1>1, <3>1, <3>2
  <2> QED BY <2>1 DEF NoCart
<1> QED BY <1>4, <1>6, <1>7 DEF n

\* The invariant of the details page in these words.
LEMMA DetailsWords ==
  DetailsInv <=>
    (page = "details" =>
       \/ LastCart(calls, rootScope.selectedTransaction)
       \/ NoCart(calls) /\ scope.cartDetails \in {None, rootScope.selectedTransaction})
  BY DEF DetailsInv, LastCart, NoCart

\* A turn that comes to the details page asks for the order selected.
LEMMA DetailsMoves ==
  ASSUME server' \in BOOLEAN, NEW root \in RootScope, NEW sc, NEW left \in Seq(Calls), NEW sent, NEW p, NEW covered, NEW made,
         Effect(root, sc, left, sent, p, covered, made), p # page
  PROVE  DetailsInv'
<1>1. SUFFICES ASSUME page' = "details"
               PROVE  \/ LastCart(calls', rootScope'.selectedTransaction)
                      \/ NoCart(calls') /\ scope'.cartDetails \in {None, rootScope'.selectedTransaction}
  BY DEF DetailsInv, LastCart, NoCart
<1>2. PICK o : o = root.selectedTransaction /\ o = rootScope'.selectedTransaction
  BY DEF Effect
<1>3. scope'.cartDetails = None
  BY DEF Effect, NewScope
<1>4. PICK q : q = Unowned(left)
  OBVIOUS
<1>5. calls' = q \o made /\ made \in Seq(Calls) /\ made = StartCalls("details", root)
  BY <1>1, <1>4 DEF Effect
<1>6. q \in Seq(Calls) /\ NoCart(q)
  <2>1. /\ Unowned(left) \in Seq(Calls) /\ Len(Unowned(left)) = Len(left)
        /\ \A i \in 1..Len(left) : ~Unowned(left)[i].own
    BY UnownedFacts
  <2> QED BY <1>4, <2>1 DEF NoCart, OwnCart
<1>7. LastCart(made, o) \/ NoCart(made)
  <2>1. PICK d \in Pages : d = "details"
    BY DEF Pages
  <2>2. made = StartCalls(d, root)
    BY <1>5, <2>1
  <2>3. \/ /\ Len(made) \in 1..Len(made) /\ OwnCart(made[Len(made)])
           /\ made[Len(made)].uuid = root.selectedTransaction
        \/ \A i \in 1..Len(made) : ~OwnCart(made[i])
    BY <2>1, <2>2, StartCallsFacts
  <2>4. Len(made) \in Nat
    BY <1>5
  <2> QED BY <1>2, <2>3, <2>4 DEF LastCart, NoCart
<1>8. LastCart(q \o made, o) \/ NoCart(q \o made)
  BY <1>5, <1>6, <1>7, CartConcat
<1> QED BY <1>2, <1>3, <1>5, <1>8

\* A click that stays on the details page keeps the order selected, or asks for its cart.
LEMMA DetailsClickStays ==
  ASSUME InOrder, NEW root, NEW sent, NEW covered, NEW made,
         Effect(root, scope, calls, sent, page, covered, made),
         page = "details" =>
           \/ root.selectedTransaction = rootScope.selectedTransaction /\ \A j \in 1..Len(sent) : ~OwnCart(sent[j])
           \/ Len(sent) = 1 /\ OwnCart(sent[1]) /\ sent[1].uuid = root.selectedTransaction
  PROVE  DetailsInv'
<1>1. /\ page' = page /\ scope' = scope /\ made = sent /\ calls' = calls \o made /\ made \in Seq(Calls)
      /\ rootScope'.selectedTransaction = root.selectedTransaction /\ calls \in Seq(Calls)
  BY DEF Effect, InOrder, Typed, TypeOK
<1>2. SUFFICES ASSUME page = "details"
               PROVE  \/ LastCart(calls', rootScope'.selectedTransaction)
                      \/ NoCart(calls') /\ scope'.cartDetails \in {None, rootScope'.selectedTransaction}
  BY <1>1 DEF DetailsInv, LastCart, NoCart
<1>3. PICK o : o = root.selectedTransaction
  OBVIOUS
<1>4. \/ LastCart(calls, rootScope.selectedTransaction)
      \/ NoCart(calls) /\ scope.cartDetails \in {None, rootScope.selectedTransaction}
  BY <1>2, DetailsWords DEF InOrder
<1>5. CASE o = rootScope.selectedTransaction /\ NoCart(made)
  BY <1>1, <1>3, <1>4, <1>5, CartConcat
<1>6. CASE Len(made) = 1 /\ OwnCart(made[1]) /\ made[1].uuid = o
  <2>1. LastCart(made, o)
    BY <1>6 DEF LastCart
  <2> QED BY <1>1, <1>3, <2>1, CartConcat
<1> QED BY <1>1, <1>2, <1>3, <1>5, <1>6 DEF NoCart

\* An answer that stays on the details page shows the cart of the order selected, or none,
\* when it is the last the page waits for.
LEMMA DetailsAnswerStays ==
  ASSUME InOrder, 1 \in 1..Len(calls), NEW root, NEW sc, NEW sent, NEW covered, NEW made,
         Effect(root, sc, Rest, sent, page, covered, made),
         root.selectedTransaction = rootScope.selectedTransaction,
         \A j \in 1..Len(sent) : ~OwnCart(sent[j]),
         ~OwnCart(calls[1]) => sc.cartDetails = scope.cartDetails,
         OwnCart(calls[1]) /\ calls[1].uuid = root.selectedTransaction =>
           sc.cartDetails \in {None, root.selectedTransaction}
  PROVE  DetailsInv'
<1>1. Typed
  BY DEF InOrder
<1>2. /\ page' = page /\ scope' = sc /\ made = sent /\ calls' = Rest \o made /\ made \in Seq(Calls)
      /\ rootScope'.selectedTransaction = root.selectedTransaction
  BY DEF Effect
<1>3. SUFFICES ASSUME page = "details"
               PROVE  \/ LastCart(calls', rootScope'.selectedTransaction)
                      \/ NoCart(calls') /\ scope'.cartDetails \in {None, rootScope'.selectedTransaction}
  BY <1>2 DEF DetailsInv, LastCart, NoCart
<1>4. PICK o : o = root.selectedTransaction /\ o = rootScope.selectedTransaction
  OBVIOUS
<1>5. PICK q : q = Rest
  OBVIOUS
<1>6. /\ q \in Seq(Calls) /\ Len(q) = Len(calls) - 1
      /\ \A i \in 1..Len(q) : i + 1 \in 1..Len(calls) /\ q[i] = calls[i + 1]
      /\ \A i \in 2..Len(calls) : i - 1 \in 1..Len(q) /\ q[i - 1] = calls[i]
      /\ Len(calls) \in Nat
  BY <1>1, <1>5, RestQueue DEF Typed, TypeOK
<1>7. LastCart(q, o) \/ (NoCart(q) /\ sc.cartDetails \in {None, o})
  <2>1. CASE NoCart(calls) /\ scope.cartDetails \in {None, o}
    <3>1. NoCart(q)
      BY <1>6, <2>1 DEF NoCart
    <3>2. ~OwnCart(calls[1])
      BY <2>1 DEF NoCart
    <3> QED BY <2>1, <3>1, <3>2
  <2>2. CASE LastCart(calls, o)
    <3>1. PICK i \in 1..Len(calls) : /\ OwnCart(calls[i]) /\ calls[i].uuid = o
                                     /\ \A j \in 1..Len(calls) : i < j => ~OwnCart(calls[j])
      BY <2>2 DEF LastCart
    <3>2. CASE i = 1
      <4>1. ASSUME NEW j \in 1..Len(q) PROVE ~OwnCart(q[j])
        <5>1. j + 1 \in 1..Len(calls) /\ q[j] = calls[j + 1] /\ 1 < j + 1
          BY <1>6
        <5> QED BY <3>1, <3>2, <5>1
      <4> QED BY <1>4, <3>1, <3>2, <4>1 DEF NoCart
    <3>3. CASE i # 1
      <4>1. i \in 2..Len(calls)
        BY <1>6, <3>3
      <4>2. PICK k : k = i - 1
        OBVIOUS
      <4>3. k \in 1..Len(q) /\ q[k] = calls[i]
        BY <1>6, <4>1, <4>2
      <4>4. ASSUME NEW j \in 1..Len(q), k < j PROVE ~OwnCart(q[j])
        <5>1. j + 1 \in 1..Len(calls) /\ q[j] = calls[j + 1] /\ i < j + 1
          BY <1>6, <4>1, <4>2, <4>4
        <5> QED BY <3>1, <5>1
      <4> QED BY <3>1, <4>3, <4>4 DEF LastCart
    <3> QED BY <3>2, <3>3
  <2> QED BY <1>3, <1>4, <2>1, <2>2, DetailsWords DEF InOrder
<1>8. NoCart(made)
  BY <1>2 DEF NoCart
<1>9. LastCart(q \o made, o) \/ (NoCart(q \o made) /\ sc.cartDetails \in {None, o})
  BY <1>2, <1>6, <1>7, <1>8, CartConcat
<1> QED BY <1>2, <1>4, <1>5, <1>9

-----------------------------------------------------------------------------
(* The invariant.                                                          *)

\* As long as answers come in the order of the calls.
LEMMA ConsoleWords == ConsoleAgrees <=> Typed /\ (overtakes = 0 => InOrder)
  BY DEF ConsoleAgrees, Typed, InOrder

\* The console starts with the login page waiting for the merchants, under the overlay.
LEMMA ConsoleInit == Init => ConsoleAgrees
<1> SUFFICES ASSUME Init PROVE ConsoleAgrees
  OBVIOUS
<1>1. /\ page = "login" /\ scope = NewScope /\ server \in BOOLEAN /\ loading /\ overtakes = 0
      /\ loading = TRUE /\ clicks = 0 /\ rowsLost = FALSE
  BY DEF Init
<1>2. /\ rootScope \in RootScope /\ ~rootScope.userProfile /\ rootScope.transactions = None /\ ~rootScope.customers
      /\ rootScope.selectedTransaction = None
  BY DEF Init, RootScope
<1>3. PICK c : /\ c = [kind |-> "list-merchants", uuid |-> None, index |-> 0, own |-> TRUE, signedIn |-> server]
               /\ calls = <<c>>
  BY DEF Init
<1>4. c \in Calls /\ c.kind = "list-merchants"
  <2>1. "list-merchants" \in Kinds
    BY DEF Kinds, ShowLoading
  <2>2. c \in [kind : Kinds, uuid : Orders \cup {None}, index : Nat, own : BOOLEAN, signedIn : BOOLEAN]
        /\ c.kind = "list-merchants" /\ c.uuid = None
    BY <1>1, <1>3, <2>1
  <2> QED BY <2>2 DEF Calls
<1>5. /\ calls \in Seq(Calls) /\ Len(calls) = 1 /\ calls[1] = c
      /\ \A A : Has(calls, A) <=> c.kind \in A
      /\ \A A, B : ~Before(calls, A, B) /\ (Followed(calls, A, B) <=> c.kind \notin A)
  <2>1. <<c>> \in Seq(Calls) /\ Len(<<c>>) = 1 /\ <<c>>[1] = c
    BY <1>4, ShortQueues
  <2>2. \A A : Has(<<c>>, A) <=> c.kind \in A
    BY <1>4, ShortQueues
  <2>3. \A A, B : ~Before(<<c>>, A, B) /\ (Followed(<<c>>, A, B) <=> c.kind \notin A)
    BY <1>4, ShortQueues
  <2> QED BY <1>3, <2>1, <2>2, <2>3, Zenon
<1>6. Typed
  <2>1. scope \in ScopeType
    BY <1>1 DEF NewScope, ScopeType
  <2>2. clicks \in 0..MaxClicks /\ overtakes \in 0..MaxOvertakes
    BY <1>1, ConsoleAssumption
  <2>3. /\ {rootScope.isMerchant, rootScope.userProfile, rootScope.customers,
            rootScope.mogopayGoToProfile, rootScope.selectedCustomer} \subseteq BOOLEAN
        /\ {rootScope.selectedTransaction, rootScope.logsDetails, rootScope.returnDetails} \subseteq Orders \cup {None}
    BY <1>2 DEF RootScope
  <2> QED BY <1>1, <1>2, <1>5, <2>1, <2>2, <2>3 DEF Typed, TypeOK, Pages, ScopeType
<1>7. NoUserInv /\ LogoutInv
  BY <1>1, <1>2, <1>4, <1>5 DEF NoUserInv, LogoutInv, UserKinds
<1>8. SessionInv
  BY <1>1, <1>2, <1>4, <1>5 DEF SessionInv, NewScope
<1>9. OverlayInv
  <2>1. calls[1].kind \in HideLoadingOnError
    BY <1>4, <1>5 DEF HideLoadingOnError, HideLoadingOnSuccess
  <2> QED BY <1>1, <1>4, <1>5, <2>1 DEF OverlayInv
<1>10. DetailsInv
  BY <1>1 DEF DetailsInv
<1> QED BY <1>6, <1>7, <1>8, <1>9, <1>10, ConsoleWords DEF InOrder

\* Every click keeps the invariant.
LEMMA ClickStep ==
  ASSUME ConsoleAgrees, UserClicks
  PROVE  ConsoleAgrees'
<1>1. Typed
  BY ConsoleWords
<1>2. PICK root, sent, p : ClickShape(root, sent, p)
  BY <1>1, ClickShapes
<1>3. /\ Arguments(root, scope, calls, sent, p, loading) /\ Turn(root, scope, calls, sent, p, loading)
      /\ clicks < MaxClicks /\ clicks' = clicks + 1 /\ UNCHANGED <<server, rowsLost, overtakes>>
      /\ SameUser(root) /\ root \in RootScope
  BY <1>2 DEF ClickShape, Click, Arguments
<1>4. /\ server' \in BOOLEAN /\ rowsLost' \in BOOLEAN /\ clicks' \in 0..MaxClicks /\ overtakes' \in 0..MaxOvertakes
      /\ server' = server /\ overtakes' = overtakes /\ calls \in Seq(Calls)
  BY <1>1, <1>3, ConsoleAssumption DEF Typed, TypeOK
<1>5. Typed'
  BY <1>1, <1>3, <1>4, TurnType
<1>6. PICK made : Effect(root, scope, calls, sent, p, loading, made)
  BY <1>1, <1>3, <1>4, TurnEffect
<1>7. ASSUME InOrder PROVE UsersAgree' /\ DetailsInv'
  <2>1. UsersAgree'
    <3>1. CASE page = "login" /\ scope.loginContainer /\ p = page /\ sent = Ask("login")
      <4>1. Effect(root, scope, calls, Ask("login"), page, loading, made)
        BY <1>6, <3>1
      <4> QED BY <1>3, <1>4, <1>7, <3>1, <4>1, LoginClickKeeps
    <3>2. CASE /\ page # "login" /\ p # "login" /\ ~loading
               /\ ~Has(sent, SessionKinds \cup {"login", "list-compagnies"})
               /\ page = "profile" => ~Has(sent, {"goToProfile"})
      BY <1>3, <1>4, <1>6, <1>7, <3>2, PageClickKeeps
    <3> QED BY <1>2, <3>1, <3>2 DEF ClickShape
  <2>2. DetailsInv'
    <3>1. CASE p = page
      <4>1. /\ page = "details" =>
                 \/ root.selectedTransaction = rootScope.selectedTransaction /\ \A j \in 1..Len(sent) : ~OwnCart(sent[j])
                 \/ Len(sent) = 1 /\ OwnCart(sent[1]) /\ sent[1].uuid = root.selectedTransaction
            /\ Effect(root, scope, calls, sent, page, loading, made)
        BY <1>2, <1>6, <3>1 DEF ClickShape
      <4> QED BY <1>7, <4>1, DetailsClickStays
    <3>2. CASE p # page
      BY <1>3, <1>4, <1>6, <3>2, DetailsMoves
    <3> QED BY <3>1, <3>2
  <2> QED BY <2>1, <2>2
<1>8. ASSUME InOrder PROVE InOrder'
  BY <1>5, <1>7, <1>8 DEF InOrder, UsersAgree
<1>9. overtakes' = 0 => InOrder'
  BY <1>4, <1>8, ConsoleWords
<1>10. Typed' /\ (overtakes' = 0 => InOrder')
  BY <1>5, <1>9
<1> QED BY <1>10 DEF ConsoleAgrees, Typed, InOrder

\* Every answer keeps the invariant.
LEMMA AnswerStep ==
  ASSUME ConsoleAgrees, NEW i, Answered(i)
  PROVE  ConsoleAgrees'
<1>1. Typed
  BY ConsoleWords
<1>2. PICK root, sc, sent, p, covered :
        /\ AnswerBase(i, root, sc, sent, p, covered)
        /\ \/ PlainShape(i, root, sc, sent, p, covered)
           \/ SessionShape(i, root, sc, sent, p, covered)
           \/ StoresShape(i, root, sc, sent, p, covered)
           \/ MoveShape(i, root, sc, sent, p, covered)
           \/ LogoutShape(i, root, sc, sent, p, covered)
  BY <1>1, AnswerShapes
<1>3. PICK left : left = RemoveAt(calls, i)
  OBVIOUS
<1>4. /\ i \in 1..Len(calls) /\ clicks' = clicks
      /\ overtakes' \in 0..MaxOvertakes /\ (overtakes' = 0 => i = 1 /\ overtakes = 0)
      /\ server' \in BOOLEAN /\ rowsLost' \in BOOLEAN
      /\ Arguments(root, sc, left, sent, p, covered) /\ Turn(root, sc, left, sent, p, covered)
      /\ covered => loading
      /\ root \in RootScope
  BY <1>2, <1>3 DEF AnswerBase, Arguments
<1>5. clicks' \in 0..MaxClicks
  BY <1>1, <1>4 DEF Typed, TypeOK
<1>6. Typed'
  BY <1>1, <1>4, <1>5, TurnType
<1>7. PICK made : Effect(root, sc, left, sent, p, covered, made)
  BY <1>1, <1>4, TurnEffect
<1>8. ASSUME overtakes' = 0 PROVE UsersAgree' /\ DetailsInv'
  <2>1. i = 1 /\ 1 \in 1..Len(calls) /\ InOrder /\ left = Rest
    BY <1>3, <1>4, <1>8, ConsoleWords DEF Rest
  <2>2. Effect(root, sc, Rest, sent, p, covered, made)
    BY <1>7, <2>1
  <2>3. UsersAgree'
    <3>1. CASE PlainShape(1, root, sc, sent, p, covered)
      <4>1. NoUserInv' /\ LogoutInv' /\ SessionInv'
        BY <1>8, <2>1, <2>2, <3>1, PlainKeepsUsers
      <4>2. OverlayInv'
        BY <1>4, <1>8, <2>1, <2>2, <3>1, PlainKeepsOverlay
      <4> QED BY <4>1, <4>2 DEF UsersAgree
    <3>2. CASE SessionShape(1, root, sc, sent, p, covered)
      BY <1>4, <1>8, <2>1, <2>2, <3>2, SessionKeeps
    <3>3. CASE StoresShape(1, root, sc, sent, p, covered)
      BY <1>4, <1>8, <2>1, <2>2, <3>3, StoresKeeps
    <3>4. CASE MoveShape(1, root, sc, sent, p, covered)
      BY <1>4, <1>8, <2>1, <2>2, <3>4, MoveKeeps
    <3>5. CASE LogoutShape(1, root, sc, sent, p, covered)
      BY <1>4, <1>8, <2>1, <2>2, <3>5, LogoutKeeps
    <3> QED BY <1>2, <2>1, <3>1, <3>2, <3>3, <3>4, <3>5
  <2>4. DetailsInv'
    <3>1. CASE p = page
      <4>1. /\ root.selectedTransaction = rootScope.selectedTransaction
            /\ \A j \in 1..Len(sent) : ~OwnCart(sent[j])
            /\ ~OwnCart(calls[1]) => sc.cartDetails = scope.cartDetails
            /\ OwnCart(calls[1]) /\ calls[1].uuid = root.selectedTransaction =>
                 sc.cartDetails \in {None, root.selectedTransaction}
        BY <1>2, <2>1 DEF AnswerBase
      <4>2. Effect(root, sc, Rest, sent, page, covered, made)
        BY <2>2, <3>1
      <4> QED BY <2>1, <4>1, <4>2, DetailsAnswerStays
    <3>2. CASE p # page
      <4>1. left \in Seq(Calls)
        BY <1>4 DEF Arguments
      <4> QED BY <1>4, <1>7, <3>2, <4>1, DetailsMoves
    <3> QED BY <3>1, <3>2
  <2> QED BY <2>3, <2>4
<1>9. Typed' /\ (overtakes' = 0 => InOrder')
  BY <1>6, <1>8 DEF InOrder, UsersAgree
<1> QED BY <1>9 DEF ConsoleAgrees, Typed, InOrder

\* Every step keeps the invariant.
LEMMA ConsoleStep == ConsoleAgrees /\ [Next]_vars => ConsoleAgrees'
<1> SUFFICES ASSUME ConsoleAgrees, [Next]_vars PROVE ConsoleAgrees'
  OBVIOUS
<1>1. CASE UserClicks
  BY <1>1, ClickStep
<1>2. CASE \E i \in 1..Len(calls) : Answered(i)
  BY <1>2, AnswerStep
<1>3. CASE UNCHANGED vars
  BY <1>3 DEF vars, ConsoleAgrees, TypeOK, NoUserInv, LogoutInv, SessionInv, OverlayInv, DetailsInv,
              Has, Before, Followed, Live
<1> QED BY <1>1, <1>2, <1>3 DEF Next

-----------------------------------------------------------------------------
(* Theorems.                                                               *)

\* callServer, the callbacks and the controllers of the console: page, scopes and overlay
\* agree with the calls in flight, for any number of orders, clicks and calls.
THEOREM ConsoleAlwaysAgrees == Spec => []ConsoleAgrees
  BY ConsoleInit, ConsoleStep, PTL DEF Spec

\* callServer, hideLoading and the callbacks that remove the overlay themselves: while answers
\* come in the order of the calls, the page is never covered without a call that is still to end.
THEOREM OverlayAlwaysHasCause == Spec => []OverlayHasCause
<1>1. ConsoleAgrees => OverlayHasCause
  <2>1. SUFFICES ASSUME ConsoleAgrees, loading, overtakes = 0, calls = <<>> PROVE FALSE
    BY DEF OverlayHasCause
  <2>2. PICK i \in 1..Len(calls) : TRUE
    BY <2>1 DEF ConsoleAgrees, OverlayInv
  <2>3. Len(calls) = 0
    BY <2>1
  <2> QED BY <2>2, <2>3
<1> QED BY <1>1, ConsoleAlwaysAgrees, PTL

\* logout and listTransactionsSearch: while answers come in the order of the calls, nothing of
\* the last user's lists is there when nobody is logged in.
THEOREM LoggedOutIsAlwaysEmpty == Spec => []LoggedOutIsEmpty
<1>1. ConsoleAgrees => LoggedOutIsEmpty
  BY DEF ConsoleAgrees, NoUserInv, LoggedOutIsEmpty
<1> QED BY <1>1, ConsoleAlwaysAgrees, PTL

\* detailsSelectOrder and detailsGetOrderDetails: while answers come in the order of the calls,
\* the details page never ends with the cart of an order other than the one selected.
THEOREM DetailsAlwaysSettle == Spec => []DetailsSettle
<1>1. ConsoleAgrees => DetailsSettle
  BY DEF ConsoleAgrees, DetailsInv, DetailsSettle, OwnCart
<1> QED BY <1>1, ConsoleAlwaysAgrees, PTL
=============================================================================
