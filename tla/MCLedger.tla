------------------------------ MODULE MCLedger ------------------------------
(* Small instances of Ledger for TLC.                                      *)
EXTENDS Ledger

Transfer(from_, to_) == [from |-> from_, to |-> to_, value |-> 1]

\* Two mints to tell apart, a move and a burn that only follow the first.
MintMoveBurn == {Transfer("zero", "a"), [Transfer("zero", "b") EXCEPT !.value = 2],
                 Transfer("a", "b"), Transfer("a", "zero")}

MintOrNothing == {Transfer("zero", "a"), NoEvent}
=============================================================================
