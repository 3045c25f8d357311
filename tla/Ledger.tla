------------------------------- MODULE Ledger -------------------------------
(***************************************************************************)
(* The off-chain ledger, ledger/ledger.go and ledger/incremental.go:       *)
(* SyncIncremental follows the chain with a window of unfinalised blocks   *)
(* keyed by hash and merges the deeper ones into aggregates.               *)
(*                                                                         *)
(* The window, a slice in block order, is a function of the block number:  *)
(* with one event in a block and every read starting behind the window,    *)
(* appendEvent opens a new record each time.                               *)
(*                                                                         *)
(* Every RPC of a sync is a step of its own, so the chain may grow or be   *)
(* reorganised between any two of them.  A block carries at most one       *)
(* Transfer event of the token.  The hash of a block is the number of      *)
(* reorgs before it was mined: at one height that tells two blocks apart,  *)
(* and blocks with equal hashes have the same ancestors.  Block 0 carries  *)
(* no event; the checkpoint -1 stands for hasCheckpoint = false, where the *)
(* code's finalizedBlock is 0 and no hash is compared.                     *)
(*                                                                         *)
(* A reorg swaps blocks without shortening the chain, so the header of a   *)
(* known height is always there; what the RPC errors of "rpc" do is what a *)
(* missing header would do.                                                *)
(***************************************************************************)
EXTENDS Integers, Sequences, FiniteSets, Sums

CONSTANTS
  Accounts,       \* addresses other than the zero address
  Zero,           \* the zero address
  Events,         \* the Transfer events a block may carry
  NoEvent,        \* a block without one; in BlockEvents when such blocks occur
  BlockEvents,    \* what a block may carry: Events, or Events and NoEvent
  FinalityDepth,  \* Ledger.FinalityDepth
  Faults,         \* "rpc": a call before the merge fails; "checkpoint": the one after it;
                  \* "torn": a reorg strikes between the last hash check and the log read
  MaxHead,        \* bound on the chain height
  MaxReorgs       \* bound on the reorgs

ASSUME EventAssumption ==
  /\ Zero \notin Accounts
  /\ Events \subseteq [from: Accounts \cup {Zero}, to: Accounts \cup {Zero}, value: Nat]
  /\ NoEvent \notin Events
  /\ BlockEvents \subseteq Events \cup {NoEvent}

ASSUME BoundAssumption ==
  /\ FinalityDepth \in Nat \ {0}
  /\ Faults \subseteq {"rpc", "checkpoint", "torn"}
  /\ MaxHead \in Nat
  /\ MaxReorgs \in Nat

VARIABLES
  \* the chain
  chain,     \* the canonical blocks 1, 2, ...
  reorgs,    \* how often blocks were replaced
  \* the ledger
  final,     \* Minted, Burned, Balances and Events, the finalised aggregates
  pending,   \* the unfinalised window: the record of each block with an event
  lastSeen,  \* the highest block represented
  baseline,  \* SyncIncremental has established a starting point
  ckpt,      \* finalizedBlock and finalizedHash
  \* the running sync
  pc,        \* where it is
  headNum,   \* the head it read
  \* history
  result,    \* how the last sync ended: "none", "ok" or "error"
  fresh,     \* no reorg since that sync read the head
  deep       \* a reorg replaced final blocks: "no", "between" syncs or "during" the merge

chainVars  == <<chain, reorgs>>
ledgerVars == <<final, pending, lastSeen, baseline, ckpt>>
vars == <<chainVars, ledgerVars, pc, headNum, result, fresh, deep>>

Blocks == [hash: Nat, event: BlockEvents]
Aggregates == [minted: Nat, burned: Nat, balances: [Accounts -> Int], events: Nat]
Records == [hash: Nat, event: Events]

TypeOK ==
  /\ chain \in Seq(Blocks)
  /\ reorgs \in Nat
  /\ final \in Aggregates
  /\ pending \in [DOMAIN pending -> Records]
  /\ DOMAIN pending \subseteq 1..lastSeen
  /\ lastSeen \in Nat
  /\ baseline \in BOOLEAN
  /\ ckpt \in [block: Nat \cup {-1}, hash: Nat]
  /\ pc \in {"idle", "rewind", "append", "merge", "checkpoint"}
  /\ headNum \in Nat
  /\ result \in {"none", "ok", "error"}
  /\ fresh \in BOOLEAN
  /\ deep \in {"no", "between", "during"}

Empty == [minted |-> 0, burned |-> 0, balances |-> [a \in Accounts |-> 0], events |-> 0]

Init ==
  /\ chain = <<>>
  /\ reorgs = 0
  /\ final = Empty
  /\ pending = <<>>
  /\ lastSeen = 0
  /\ baseline = FALSE
  /\ ckpt = [block |-> -1, hash |-> 0]
  /\ pc = "idle"
  /\ headNum = 0
  /\ result = "none"
  /\ fresh = TRUE
  /\ deep = "no"
----------------------------------------------------------------------------
(* The aggregates.                                                         *)

\* Mutant: the sign of a mint is lost.
applyTransfer_NegatesMint(g, ev) ==
  [g EXCEPT !.minted = @ - (IF ev.from = Zero THEN ev.value ELSE 0), !.events = @ + 1]

\* applyTransfer and the event count that goes with it.
applyTransfer(g, ev) ==
  [minted   |-> g.minted + (IF ev.from = Zero THEN ev.value ELSE 0),
   burned   |-> g.burned + (IF ev.to = Zero THEN ev.value ELSE 0),
   balances |-> [a \in Accounts |-> g.balances[a]
                   - (IF ev.from = a THEN ev.value ELSE 0)
                   + (IF ev.to = a THEN ev.value ELSE 0)],
   events   |-> g.events + 1]

\* The transfers of a run of block records, each adding what it adds to none.
applyAll(g, records) ==
  LET effect == [n \in DOMAIN records |-> applyTransfer(Empty, records[n].event)]
      Total(f) == Sum(f, DOMAIN records)
  IN [minted   |-> g.minted + Total([n \in DOMAIN records |-> effect[n].minted]),
      burned   |-> g.burned + Total([n \in DOMAIN records |-> effect[n].burned]),
      balances |-> [a \in Accounts |->
                      g.balances[a] + Total([n \in DOMAIN records |-> effect[n].balances[a]])],
      events   |-> g.events + Total([n \in DOMAIN records |-> effect[n].events])]

\* Ledger.Snapshot: the window overlaid on the finalised aggregates.
Snapshot == applyAll(final, pending)
----------------------------------------------------------------------------
(* The chain (external: a node that serves headers and logs).              *)

canonHash(n) == IF n = 0 THEN 0 ELSE chain[n].hash

\* The blocks up to n with an event, and the sum of their values where asked.
EventBlocks(c, n) == {i \in 1..n : c[i].event # NoEvent}
SumOver(c, S) == Sum([i \in DOMAIN c |-> c[i].event.value], S)

\* What the token holds once the first n blocks of c are executed.
OnChain(c, n) ==
  LET From(a) == {i \in EventBlocks(c, n) : c[i].event.from = a}
      To(a)   == {i \in EventBlocks(c, n) : c[i].event.to = a}
  IN [minted   |-> SumOver(c, From(Zero)),
      burned   |-> SumOver(c, To(Zero)),
      balances |-> [a \in Accounts |-> SumOver(c, To(a)) - SumOver(c, From(a))],
      events   |-> Cardinality(EventBlocks(c, n))]

\* The token reverts a transfer that its sender cannot cover.
Executable(c) ==
  \A n \in DOMAIN c, a \in Accounts : OnChain(c, n).balances[a] >= 0

NewBlock(ev) ==
  /\ Len(chain) < MaxHead
  /\ chain' = Append(chain, [hash |-> reorgs, event |-> ev])
  /\ Executable(chain')
  /\ UNCHANGED <<reorgs, ledgerVars, pc, headNum, result, fresh, deep>>

\* The blocks above k are replaced by as many others.
Reorg(k) ==
  /\ reorgs < MaxReorgs
  /\ k < Len(chain)
  /\ pc = "append" => "torn" \in Faults
  /\ reorgs' = reorgs + 1
  /\ \E evs \in [1..(Len(chain) - k) -> BlockEvents] :
       /\ chain' = [n \in 1..Len(chain) |->
                      IF n <= k THEN chain[n] ELSE [hash |-> reorgs + 1, event |-> evs[n - k]]]
       /\ Executable(chain')
  /\ fresh' = FALSE
  /\ deep' = IF k < Len(chain) - FinalityDepth \/ k < ckpt.block
             THEN (IF pc \in {"idle", "rewind"} /\ deep # "during" THEN "between" ELSE "during")
             ELSE deep
  /\ UNCHANGED <<ledgerVars, pc, headNum, result>>
----------------------------------------------------------------------------
(* SyncIncremental.                                                        *)

\* SyncIncremental returns an error; what it did so far stays.
Abort == pc' = "idle" /\ result' = "error"

\* A header or log read fails.  After the merge that leaves the old
\* checkpoint although the blocks up to the target are merged.
CallFails ==
  /\ pc \in {"rewind", "append", "checkpoint"}
  /\ (IF pc = "checkpoint" THEN "checkpoint" ELSE "rpc") \in Faults
  /\ Abort
  /\ UNCHANGED <<chainVars, ledgerVars, headNum, fresh, deep>>

ReadHead ==
  /\ pc = "idle"
  /\ headNum' = Len(chain)
  /\ fresh' = TRUE
  /\ pc' = "rewind"
  /\ UNCHANGED <<chainVars, ledgerVars, result, deep>>

finalizedBlock == IF ckpt.block = -1 THEN 0 ELSE ckpt.block

\* The newest block of the window, else the checkpoint.
trustedHead(window) == IF DOMAIN window = {} THEN finalizedBlock ELSE Max(DOMAIN window)

\* rewindReorg, one header read: the newest pending block is canonical and
\* ends the walk, or is dropped.
RewindPending ==
  /\ pc = "rewind"
  /\ DOMAIN pending # {}
  /\ LET top == Max(DOMAIN pending) IN
     \/ /\ canonHash(top) = pending[top].hash
        /\ pc' = "append"
        /\ UNCHANGED <<pending, lastSeen>>
     \/ /\ canonHash(top) # pending[top].hash
        /\ pending' = Restrict(pending, DOMAIN pending \ {top})
        /\ lastSeen' = trustedHead(pending')
        /\ UNCHANGED pc
  /\ UNCHANGED <<chainVars, final, baseline, ckpt, headNum, result, fresh, deep>>

\* Mutant: the finality checkpoint is not compared.
CheckpointHolds_Unchecked == TRUE

CheckpointHolds == ckpt.block # -1 => canonHash(ckpt.block) = ckpt.hash

\* rewindReorg with an empty window: the checkpoint must still be canonical.
RewindToCheckpoint ==
  /\ pc = "rewind"
  /\ DOMAIN pending = {}
  /\ \/ /\ CheckpointHolds
        /\ lastSeen' = trustedHead(pending)
        /\ pc' = "append"
        /\ UNCHANGED result
     \/ /\ ~CheckpointHolds
        /\ Abort
        /\ UNCHANGED lastSeen
  /\ UNCHANGED <<chainVars, final, pending, baseline, ckpt, headNum, fresh, deep>>

\* appendEvent for the blocks from..to that carry an event.
appendRange(from, to) ==
  [n \in DOMAIN pending \cup {m \in from..to : chain[m].event # NoEvent} |->
     IF n \in DOMAIN pending THEN pending[n] ELSE chain[n]]

\* Mutant: a block is skipped between two syncs.
from_SkipsBlock == IF baseline THEN lastSeen + 2 ELSE 1

\* Block 0 carries no event: reading starts at 1 at the latest.
from == IF baseline THEN lastSeen + 1 ELSE 1

\* FilterLogs and the window; a node reads all logs at one chain state.
AppendRange ==
  /\ pc = "append"
  /\ pending' = IF from <= headNum THEN appendRange(from, headNum) ELSE pending
  /\ lastSeen' = headNum
  /\ baseline' = TRUE
  /\ pc' = "merge"
  /\ UNCHANGED <<chainVars, final, ckpt, headNum, result, fresh, deep>>

\* Mutant: one block too many is treated as final.
finalizedTarget_Shallow == IF headNum < FinalityDepth THEN 0 ELSE headNum - FinalityDepth + 1

finalizedTarget == IF headNum < FinalityDepth THEN 0 ELSE headNum - FinalityDepth

\* mergeFinalized up to the checkpoint's header read.
MergeFinalized ==
  /\ pc = "merge"
  /\ LET target == finalizedTarget
         merged == {n \in DOMAIN pending : n <= target}
     IN /\ final' = applyAll(final, Restrict(pending, merged))
        /\ pending' = Restrict(pending, DOMAIN pending \ merged)
        /\ IF target > ckpt.block
           THEN pc' = "checkpoint" /\ UNCHANGED result
           ELSE pc' = "idle" /\ result' = "ok"
  /\ UNCHANGED <<chainVars, lastSeen, baseline, ckpt, headNum, fresh, deep>>

\* The checkpoint moves to target's canonical hash.
MoveCheckpoint ==
  /\ pc = "checkpoint"
  /\ ckpt' = [block |-> finalizedTarget, hash |-> canonHash(finalizedTarget)]
  /\ pc' = "idle"
  /\ result' = "ok"
  /\ UNCHANGED <<chainVars, final, pending, lastSeen, baseline, headNum, fresh, deep>>

SyncStep ==
  \/ ReadHead \/ RewindPending \/ RewindToCheckpoint \/ AppendRange \/ MergeFinalized
  \/ MoveCheckpoint

Next ==
  \/ \E ev \in BlockEvents : NewBlock(ev)
  \/ \E k \in 0..MaxHead : Reorg(k)
  \/ SyncStep
  \/ CallFails

Spec == Init /\ [][Next]_vars

\* A live indexer syncs again and again, and no call fails for ever.
Fairness ==
  \A where \in {"idle", "rewind", "append", "merge", "checkpoint"} :
    SF_vars(pc = where /\ SyncStep)

FairSpec == Spec /\ Fairness
----------------------------------------------------------------------------
(* Properties.                                                             *)

\* A sync that returns no error, with no reorg since it read the head, leaves
\* a view equal to the token's state at that head, however many blocks were
\* replaced before it, unless a reorg past the finality depth struck while a
\* sync was running: "the same converge to the chain rule holds through a
\* reorg" (README.md:219, incremental.go:97-123).
SnapshotIsChain ==
  result = "ok" /\ pc = "idle" /\ fresh /\ deep # "during"
    => Snapshot = OnChain(chain, headNum)

\* What was merged into the aggregates stays true of the chain as long as no
\* reorg reaches past the finality depth: the merge never takes a block that a
\* shallower reorg can still replace (incremental.go:163-187).
FinalIsCanonical ==
  deep = "no" /\ pc # "checkpoint" => final = OnChain(chain, finalizedBlock)

\* The view comes back to the chain again and again, whatever reorgs and
\* failed calls happened on the way, as long as no reorg reached past the
\* finality depth (ledger.go:4-5).
Converges == []<>(deep # "no" \/ Snapshot = OnChain(chain, Len(chain)))
=============================================================================
