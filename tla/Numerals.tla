------------------------------ MODULE Numerals ------------------------------
(***************************************************************************)
(* The number that digits, the most significant first, stand for.          *)
(***************************************************************************)
EXTENDS Naturals, Sequences

Numeral(base, digits) ==
  LET value[i \in 0..Len(digits)] == IF i = 0 THEN 0 ELSE value[i - 1] * base + digits[i]
  IN value[Len(digits)]

=============================================================================
