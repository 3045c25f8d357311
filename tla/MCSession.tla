----------------------------- MODULE MCSession -----------------------------
(* Small instances of Session for TLC.                                     *)
EXTENDS Session

CONSTANTS a1, a2

\* One budget of two requests and a remainder, one of a single request.
SmallBudgets == [a \in Auths |-> IF a = a1 THEN 5 ELSE 2]
=============================================================================
