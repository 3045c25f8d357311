----------------------------- MODULE MCGateway -----------------------------
(* Small instances of Gateway for TLC.                                     *)
EXTENDS Gateway, TLC

CONSTANTS h1, h2, n1, n2, m1

AmountMixed == [n \in Nonces |-> IF n = n1 THEN 1 ELSE 2]

Payload(n, confirmed) ==
  [nonce |-> n, value |-> AmountMixed[n], mandate |-> m1, confirmed |-> confirmed, bound |-> TRUE]

\* A small payment and one large enough to be deferred, under one mandate
\* whose budget holds either but not both.
TwoPayments == {Payload(n1, FALSE), Payload(n2, FALSE)}
DeferredPayment == {Payload(n2, FALSE)}

\* The large payment is also sent with the delegator's confirmation, which lifts
\* the budget; another copy is bound to another resource, a third states a
\* value below the one that was signed, and below DeferAbove.
Confirmable ==
  TwoPayments \cup {Payload(n2, TRUE),
                    [Payload(n2, FALSE) EXCEPT !.bound = FALSE],
                    [Payload(n2, FALSE) EXCEPT !.value = 1]}

Limit0 == [m \in Mandates |-> 0]
Limit2 == [m \in Mandates |-> 2]

\* What a gateway with a working journal and a readable delivery outcome meets.
CrashFaults == {"rpc", "revert", "timeout", "deliver", "refund", "refund_wait", "crash"}

\* What a gateway that stays up and learns every settlement's outcome meets.
LimitFaults == {"rpc", "revert", "receipt", "deliver", "refund"}

HandlerSymmetry == Permutations(Handlers)
=============================================================================
