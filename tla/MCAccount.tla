----------------------------- MODULE MCAccount -----------------------------
(* Small instances of Account.                                              *)
EXTENDS AccountInvariants, TLC

\* Passwords, telephone numbers and pin codes are interchangeable.
Symmetric == Permutations(Passwords) \cup Permutations(Phones) \cup Permutations(Pins)
=============================================================================
