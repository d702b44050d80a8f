----------------------------- MODULE CardNumber -----------------------------
(***************************************************************************)
(* The two checks of a card number: luhn10 of the console's profile page   *)
(* and UtilHandler.checkLuhn of the server.  A number is the sequence of   *)
(* its digits.                                                             *)
(***************************************************************************)
EXTENDS Naturals, Sequences, FiniteSetsExt

Digit == 0..9

Numbers(n) == [1..n -> Digit]

\* The number of digits to the right decides whether a digit counts double.
luhn10(a) ==
  LET Counted(b) == IF (Len(a) - b) % 2 = 1 THEN ((2 * a[b]) % 10) + (IF a[b] > 4 THEN 1 ELSE 0) ELSE a[b]
  IN  a = <<>> \/ MapThenSumSet(Counted, 1..Len(a)) % 10 = 0

\* ccNumber is not empty.  The loop runs from the last index up to 0: as in Scala, the range
\* m..0 is empty unless m = 0.
checkLuhn(ccNumber) ==
  MapThenSumSet(LAMBDA i : ccNumber[i + 1], (Len(ccNumber) - 1)..0) % 10 = 0

-----------------------------------------------------------------------------
\* luhn10: the digits of the doubled digits are what is summed.
ASSUME LuhnSumsDigits ==
  \A c \in Digit : ((2 * c) % 10) + (IF c > 4 THEN 1 ELSE 0) = ((2 * c) \div 10) + ((2 * c) % 10)

\* luhn10: of the numbers of up to three digits, none that differs from a valid one in one
\* digit is valid, and none with two neighbours swapped, but for 09 and 90.
ASSUME LuhnDetects ==
  \A n \in 1..3 : \A a \in {x \in Numbers(n) : luhn10(x)} :
    /\ \A k \in 1..n, c \in Digit : c # a[k] => ~luhn10([a EXCEPT ![k] = c])
    /\ \A k \in 1..(n - 1) : a[k] # a[k + 1] /\ {a[k], a[k + 1]} # {0, 9}
         => ~luhn10([a EXCEPT ![k] = a[k + 1], ![k + 1] = a[k]])

\* UtilHandler.checkLuhn: of the numbers of two or three digits, every one is accepted.
ASSUME CheckLuhnAcceptsAll == \A n \in 2..3 : \A a \in Numbers(n) : checkLuhn(a)
=============================================================================
