----------------------------- MODULE MCPurchase -----------------------------
(* Instances of Purchase for TLC.                                          *)
EXTENDS Purchase, TLC

CONSTANTS m1, m2, a1, a2

\* Runs are interchangeable.
RunSymmetry == Permutations(Runs)

\* One resource is sold over the limits of both mandates, one within m1's.
TwoPrices == ("dear" :> 3) @@ ("cheap" :> 2)

\* m1 is for both resources, m2 for the dear one.
TwoTerms ==
  (m1 :> [agent |-> TRUE, resources |-> {"dear", "cheap"}, cap |-> 2, budget |-> 2]) @@
  (m2 :> [agent |-> TRUE, resources |-> {"dear"}, cap |-> 0, budget |-> 1])

Bounds(min, max, asked, then) ==
  [amountMin |-> min, amountMax |-> max, asksMax |-> asked, then |-> then]

\* The agent pays up to 3.
PayUpToThree == [default |-> "refuse", rules |-> <<Bounds(None, 3, None, "pay")>>]

\* The gateway takes 2 always, more from a delegator it asked at most once.
AskedAtMostOnce ==
  [default |-> "reject",
   rules |-> <<Bounds(None, 2, None, "approve"), Bounds(3, None, 1, "approve")>>]
=============================================================================
