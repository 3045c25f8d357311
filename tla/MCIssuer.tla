------------------------------ MODULE MCIssuer ------------------------------
(* Instances of Issuer for TLC.                                            *)
EXTENDS Issuer, TLC

CONSTANTS r1, r2, c1, c2

\* One holder redeems 2, another 1.
TwoRequests == (r1 :> 2) @@ (r2 :> 1)
=============================================================================
