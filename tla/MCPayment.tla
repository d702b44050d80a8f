----------------------------- MODULE MCPayment -----------------------------
(* Small instances of Payment: the operator's shop and one marketplace shop. *)
EXTENDS PaymentSettlement, TLC

CONSTANTS m, a

MCShops == {m, a}

AllCarts     == {<<>>, <<m>>, <<a>>, <<m, a>>, <<a, m>>}
SingleCarts  == {<<m>>, <<a>>}
TwoShopCarts == {<<m, a>>}

\* Requests of one kind are interchangeable.
Symmetric == Permutations(StartReqs) \cup Permutations(ReturnReqs) \cup Permutations(ThreeDSReqs)
=============================================================================
