------------------------------ MODULE Payment ------------------------------
(***************************************************************************)
(* What the gateway promises of one payment, whatever its requests,        *)
(* timeouts, crashes and restarts do: it is paid on chain once, recorded   *)
(* before anything is handed over or answered, and ends in at most one of  *)
(* a delivery and a refund.  Module Gateway implements this specification. *)
(***************************************************************************)
EXTENDS Integers

CONSTANT Nonces  \* payments, by the nonce of their authorization

VARIABLES
  paid,       \* payments executed on chain
  recorded,   \* settlements in the journal
  delivered,  \* delivered[n]: how often the goods were handed over
  refunded,   \* refunded[n]: how often the payment was returned
  told        \* payments whose settlement was reported to the agent

vars == <<paid, recorded, delivered, refunded, told>>

Init ==
  /\ paid = {}
  /\ recorded = {}
  /\ delivered = [n \in Nonces |-> 0]
  /\ refunded = [n \in Nonces |-> 0]
  /\ told = {}

\* The authorization is executed.
Pay(n) ==
  /\ n \notin paid
  /\ paid' = paid \cup {n}
  /\ UNCHANGED <<recorded, delivered, refunded, told>>

\* The settlement is journaled.
Record(n) ==
  /\ n \in paid \ recorded
  /\ recorded' = recorded \cup {n}
  /\ UNCHANGED <<paid, delivered, refunded, told>>

Untouched(n) == n \in recorded /\ delivered[n] + refunded[n] = 0

Deliver(n) ==
  /\ Untouched(n)
  /\ delivered' = [delivered EXCEPT ![n] = 1]
  /\ UNCHANGED <<paid, recorded, refunded, told>>

\* The payment is returned, and the agent told with it.
Refund(n) ==
  /\ Untouched(n)
  /\ refunded' = [refunded EXCEPT ![n] = 1]
  /\ told' = told \cup {n}
  /\ UNCHANGED <<paid, recorded, delivered>>

\* The settlement is reported: served, deferred, or owed.
Tell(n) ==
  /\ n \in recorded
  /\ told' = told \cup {n}
  /\ UNCHANGED <<paid, recorded, delivered, refunded>>

Next == \E n \in Nonces : Pay(n) \/ Record(n) \/ Deliver(n) \/ Refund(n) \/ Tell(n)

Spec == Init /\ [][Next]_vars
=============================================================================
