--------------------------- MODULE CartSettlement ---------------------------
(***************************************************************************)
(* What a payment promises to the bank, the customer and the merchant,     *)
(* whatever handlers, documents and retries it takes.                      *)
(*                                                                         *)
(* The amount of each shop of a cart is reserved, shop by shop.  Once the  *)
(* whole cart is reserved, and not before, money moves: the operator's     *)
(* own shop is captured or refunded at once, the others after the merchant *)
(* was told of the success.  A success is concluded, and told, only of a   *)
(* cart that is reserved as a whole.  It may still be followed by another  *)
(* conclusion: a transaction may be started again or end twice.            *)
(***************************************************************************)
CONSTANTS Shops, OperatorShop

VARIABLES
  cart,      \* the shops to be paid
  reserved,  \* those whose amount the bank holds
  moved,     \* those whose money the bank has taken or given back
  outcome,   \* what the transaction says
  told       \* the merchant was answered with a success

vars == <<cart, reserved, moved, outcome, told>>

Init ==
  /\ cart \subseteq Shops
  /\ reserved = {} /\ moved = {}
  /\ outcome = "open" /\ told = FALSE

WholeCart == cart \subseteq reserved

Reserve(s) ==
  /\ s \in cart
  /\ reserved' = reserved \cup {s}
  /\ UNCHANGED <<cart, moved, outcome, told>>

Move(s) ==
  /\ s \in cart /\ WholeCart
  /\ s = OperatorShop \/ told
  /\ moved' = moved \cup {s}
  /\ UNCHANGED <<cart, reserved, outcome, told>>

Conclude(o) ==
  /\ o = "success" => WholeCart
  /\ outcome' = o
  /\ UNCHANGED <<cart, reserved, moved, told>>

\* The answer is recorded in the transaction, which says success again.
Tell ==
  /\ WholeCart
  /\ outcome' = "success" /\ told' = TRUE
  /\ UNCHANGED <<cart, reserved, moved>>

Next ==
  \/ \E s \in cart : Reserve(s) \/ Move(s)
  \/ \E o \in {"open", "success", "failure"} : Conclude(o)
  \/ Tell

Spec == Init /\ [][Next]_vars
=============================================================================
