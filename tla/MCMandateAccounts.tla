------------------------- MODULE MCMandateAccounts -------------------------
(* A small instance of MandateAccounts for TLC.                            *)
EXTENDS MandateAccounts, TLC

CONSTANTS n1, n2, n3, n4

\* n1 and n2 are interchangeable, n3 is larger, n4 carries a confirmation.
Amounts == [n \in Nonces |-> IF n = n3 THEN 2 ELSE 1]

NonceSymmetry == Permutations({n1, n2})
=============================================================================
