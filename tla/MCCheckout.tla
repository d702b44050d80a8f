----------------------------- MODULE MCCheckout -----------------------------
(* Instances of Checkout for TLC. *)
EXTENDS CheckoutInvariants, TLC

Symmetric == Permutations(Requests) \cup Permutations(TxIds) \cup Permutations(Carts) \cup Permutations(Merchants)

=============================================================================
