--------------------------- MODULE Ledger_proofs ---------------------------
(***************************************************************************)
(* Theorems about module Ledger, for every value of its constants.         *)
(***************************************************************************)
EXTENDS Ledger, Sums_proofs

\* What one event adds to empty aggregates.
LEMMA EventEffect ==
  ASSUME NEW ev \in Events
  PROVE  /\ ev.value \in Nat
         /\ applyTransfer(Empty, ev).minted = (IF ev.from = Zero THEN ev.value ELSE 0)
         /\ applyTransfer(Empty, ev).burned = (IF ev.to = Zero THEN ev.value ELSE 0)
         /\ \A a \in Accounts : applyTransfer(Empty, ev).balances[a] =
              (IF ev.to = a THEN ev.value ELSE 0) - (IF ev.from = a THEN ev.value ELSE 0)
         /\ applyTransfer(Empty, ev).events = 1
<1>1. ev.value \in Nat
  BY EventAssumption
<1> QED
  BY <1>1 DEF applyTransfer, Empty

\* Aggregates stay aggregates when a window is added to them.
LEMMA ApplyAllType ==
  ASSUME NEW g \in Aggregates, NEW w, IsFiniteSet(DOMAIN w),
         \A n \in DOMAIN w : w[n].event \in Events
  PROVE  applyAll(g, w) \in Aggregates
<1> DEFINE D == DOMAIN w
           effect == [n \in D |-> applyTransfer(Empty, w[n].event)]
           minted == [n \in D |-> effect[n].minted]
           burned == [n \in D |-> effect[n].burned]
           moved(a) == [n \in D |-> effect[n].balances[a]]
           count == [n \in D |-> effect[n].events]
<1>1. \A n \in D : minted[n] \in Nat /\ burned[n] \in Nat /\ count[n] \in Nat
  BY EventEffect
<1>2. \A a \in Accounts : \A n \in D : moved(a)[n] \in Int
  BY EventEffect
<1>3. applyAll(g, w) = [minted   |-> g.minted + Sum(minted, D),
                        burned   |-> g.burned + Sum(burned, D),
                        balances |-> [a \in Accounts |-> g.balances[a] + Sum(moved(a), D)],
                        events   |-> g.events + Sum(count, D)]
  BY DEF applyAll
<1> HIDE DEF D, effect, minted, burned, moved, count
<1>4. IsFiniteSet(D)
  BY DEF D
<1>5. Sum(minted, D) \in Nat /\ Sum(burned, D) \in Nat /\ Sum(count, D) \in Nat
  BY <1>1, <1>4, SumNat
<1>6. \A a \in Accounts : Sum(moved(a), D) \in Int
  BY <1>2, <1>4, SumInt
<1> QED
  BY <1>3, <1>5, <1>6 DEF Aggregates

\* How far the ledger has read, against the chain and the head it read.
StageInv ==
  /\ headNum <= Len(chain) /\ lastSeen <= Len(chain) /\ ckpt.block <= Len(chain)
  /\ pc # "idle" => lastSeen <= headNum /\ ckpt.block <= headNum

\* The window is finite and its newest block the largest.
LEMMA Window ==
  ASSUME TypeOK
  PROVE  /\ IsFiniteSet(DOMAIN pending) /\ DOMAIN pending \subseteq Nat
         /\ \A S \in SUBSET DOMAIN pending :
              /\ IsFiniteSet(S)
              /\ S # {} => Max(S) \in S /\ \A y \in S : y <= Max(S)
<1>1. lastSeen \in Nat /\ DOMAIN pending \subseteq 1..lastSeen
  BY DEF TypeOK
<1>2. IsFiniteSet(1..lastSeen)
  BY <1>1, FS_Interval
<1>3. IsFiniteSet(DOMAIN pending) /\ DOMAIN pending \subseteq Nat
  BY <1>1, <1>2, FS_Subset
<1> QED
  BY <1>3, FS_Subset, MaxIsLargest

\* The hash of a block of the chain is a number.
LEMMA HashType ==
  ASSUME TypeOK, NEW n \in 0..Len(chain)
  PROVE  canonHash(n) \in Nat
<1>1. CASE n = 0
  BY <1>1 DEF canonHash
<1>2. CASE n # 0
  <2>1. n \in 1..Len(chain)
    BY <1>2 DEF TypeOK
  <2>2. chain[n] \in Blocks
    BY <2>1 DEF TypeOK
  <2> QED
    BY <1>2, <2>2 DEF canonHash, Blocks
<1> QED
  BY <1>1, <1>2

\* What a reorg and a new block leave of the chain.
LEMMA ReorgChain ==
  ASSUME TypeOK, NEW k \in 0..MaxHead, Reorg(k)
  PROVE  /\ chain' \in Seq(Blocks) /\ Len(chain') = Len(chain) /\ reorgs' = reorgs + 1
         /\ k < Len(chain)
         /\ \A i \in 1..Len(chain) : IF i <= k THEN chain'[i] = chain[i]
                                                ELSE chain'[i].hash = reorgs + 1
<1>0. chain \in Seq(Blocks) /\ reorgs \in Nat /\ k \in Nat /\ Len(chain) \in Nat /\ k < Len(chain)
  BY DEF TypeOK, Reorg
<1>1. PICK evs \in [1..(Len(chain) - k) -> BlockEvents] :
        chain' = [n \in 1..Len(chain) |->
                    IF n <= k THEN chain[n] ELSE [hash |-> reorgs + 1, event |-> evs[n - k]]]
  BY DEF Reorg
<1>2. \A n \in 1..Len(chain) : n > k => [hash |-> reorgs + 1, event |-> evs[n - k]] \in Blocks
  <2> SUFFICES ASSUME NEW n \in 1..Len(chain), n > k
               PROVE  [hash |-> reorgs + 1, event |-> evs[n - k]] \in Blocks
    OBVIOUS
  <2>1. n - k \in 1..(Len(chain) - k)
    BY <1>0
  <2> QED
    BY <1>0, <2>1 DEF Blocks
<1>3. \A n \in 1..Len(chain) : n <= k => chain[n] \in Blocks
  BY <1>0
<1>4. chain' \in [1..Len(chain) -> Blocks]
  BY <1>0, <1>1, <1>2, <1>3
<1>5. chain' \in Seq(Blocks) /\ Len(chain') = Len(chain)
  BY <1>0, <1>4
<1> QED
  BY <1>0, <1>1, <1>5 DEF Reorg

\* A new block goes on top.
LEMMA NewBlockChain ==
  ASSUME TypeOK, NEW ev \in BlockEvents, NewBlock(ev)
  PROVE  /\ chain' \in Seq(Blocks) /\ Len(chain') = Len(chain) + 1 /\ reorgs' = reorgs
         /\ \A i \in 1..Len(chain) : chain'[i] = chain[i]
         /\ chain'[Len(chain) + 1] = [hash |-> reorgs, event |-> ev]
<1>1. chain \in Seq(Blocks) /\ [hash |-> reorgs, event |-> ev] \in Blocks
  BY DEF TypeOK, Blocks
<1>2. chain' = Append(chain, [hash |-> reorgs, event |-> ev]) /\ reorgs' = reorgs
  BY DEF NewBlock
<1> QED
  BY <1>1, <1>2

\* Types and stages hold together.
LEMMA LedgerReachable == Spec => [](TypeOK /\ StageInv)
<1>1. Init => TypeOK /\ StageInv
  <2> SUFFICES ASSUME Init PROVE TypeOK /\ StageInv
    OBVIOUS
  <2>1. DOMAIN pending = {} /\ pending \in [DOMAIN pending -> Records]
    BY DEF Init
  <2>2. final \in Aggregates
    BY DEF Init, Empty, Aggregates
  <2>3. chain \in Seq(Blocks) /\ Len(chain) = 0
    BY DEF Init
  <2>4. ckpt \in [block : Nat \cup {-1}, hash : Nat] /\ ckpt.block = -1
    BY DEF Init
  <2>5. StageInv
    BY <2>3, <2>4 DEF Init, StageInv
  <2> QED
    BY <2>1, <2>2, <2>3, <2>4, <2>5 DEF Init, TypeOK
<1>2. TypeOK /\ StageInv /\ [Next]_vars => TypeOK' /\ StageInv'
  <2> SUFFICES ASSUME TypeOK, StageInv, [Next]_vars PROVE TypeOK' /\ StageInv'
    OBVIOUS
  <2> USE DEF chainVars, ledgerVars
  <2>0. /\ Len(chain) \in Nat /\ headNum \in Nat /\ lastSeen \in Nat
        /\ ckpt.block \in Nat \cup {-1} /\ finalizedBlock \in Nat
        /\ finalizedBlock = ckpt.block \/ finalizedBlock = 0
    BY DEF TypeOK, finalizedBlock
  <2>1. ASSUME NEW ev \in BlockEvents, NewBlock(ev) PROVE TypeOK' /\ StageInv'
    <3>1. /\ chain' \in Seq(Blocks) /\ Len(chain') = Len(chain) + 1
      BY <2>1, NewBlockChain
    <3>2. UNCHANGED <<reorgs, final, pending, lastSeen, baseline, ckpt, pc, headNum, result, fresh,
                     deep>>
      BY <2>1 DEF NewBlock
    <3> QED
      BY <2>0, <3>1, <3>2 DEF TypeOK, StageInv
  <2>2. ASSUME NEW k \in 0..MaxHead, Reorg(k) PROVE TypeOK' /\ StageInv'
    <3>1. chain' \in Seq(Blocks) /\ Len(chain') = Len(chain) /\ reorgs' = reorgs + 1
      BY <2>2, ReorgChain
    <3>2. /\ UNCHANGED <<final, pending, lastSeen, baseline, ckpt, pc, headNum, result>>
          /\ fresh' = FALSE
      BY <2>2 DEF Reorg
    <3>3. deep' \in {deep, "between", "during"}
      BY <2>2 DEF Reorg
    <3>4. reorgs + 1 \in Nat
      BY DEF TypeOK
    <3>5. StageInv'
      BY <2>0, <3>1, <3>2 DEF StageInv
    <3>6. fresh' \in BOOLEAN /\ deep' \in {"no", "between", "during"}
      BY <3>2, <3>3 DEF TypeOK
    <3> QED
      BY <3>1, <3>2, <3>4, <3>5, <3>6 DEF TypeOK
  <2>3. CASE ReadHead
    BY <2>0, <2>3 DEF ReadHead, TypeOK, StageInv
  <2>4. CASE RewindPending
    <3> DEFINE top == Max(DOMAIN pending)
               rest == DOMAIN pending \ {top}
    <3>1. CASE UNCHANGED <<pending, lastSeen>>
      BY <2>4, <3>1 DEF RewindPending, TypeOK, StageInv
    <3>2. CASE pending' = Restrict(pending, rest) /\ lastSeen' = trustedHead(pending') /\ pc' = pc
      <4>1. pending' \in [rest -> Records] /\ DOMAIN pending' = rest
        BY <3>2 DEF Restrict, TypeOK
      <4>2. CASE rest = {}
        <5>1. lastSeen' = finalizedBlock
          BY <3>2, <4>1, <4>2 DEF trustedHead
        <5> QED
          BY <2>0, <2>4, <4>1, <4>2, <5>1 DEF RewindPending, TypeOK, StageInv
      <4>3. CASE rest # {}
        <5>1. lastSeen' = Max(rest)
          BY <3>2, <4>1, <4>3 DEF trustedHead
        <5>2. rest \subseteq DOMAIN pending
          OBVIOUS
        <5> HIDE DEF rest
        <5>3. Max(rest) \in rest /\ \A y \in rest : y <= Max(rest)
          BY <4>3, <5>2, Window
        <5>4. Max(rest) \in 1..lastSeen /\ rest \subseteq 1..Max(rest)
          BY <2>0, <5>2, <5>3 DEF TypeOK
        <5> QED
          BY <2>0, <2>4, <4>1, <5>1, <5>4 DEF RewindPending, TypeOK, StageInv
      <4> QED
        BY <4>2, <4>3
    <3> QED
      BY <2>4, <3>1, <3>2 DEF RewindPending
  <2>5. CASE RewindToCheckpoint
    <3>1. lastSeen' \in {lastSeen, finalizedBlock}
      BY <2>5 DEF RewindToCheckpoint, trustedHead
    <3>2. pc' \in {"append", "idle"} /\ result' \in {"none", "ok", "error"}
      BY <2>5 DEF RewindToCheckpoint, Abort, TypeOK
    <3> QED
      BY <2>0, <2>5, <3>1, <3>2 DEF RewindToCheckpoint, TypeOK, StageInv
  <2>6. CASE AppendRange
    <3>1. lastSeen <= headNum /\ lastSeen' = headNum /\ headNum <= Len(chain)
      BY <2>6 DEF AppendRange, StageInv
    <3>2. pending' \in [DOMAIN pending' -> Records] /\ DOMAIN pending' \subseteq 1..headNum
      <4>1. CASE pending' = pending
        BY <2>0, <3>1, <4>1 DEF TypeOK
      <4>2. CASE pending' = appendRange(from, headNum)
        <5> DEFINE new == {m \in from..headNum : chain[m].event # NoEvent}
        <5>1. from \in Nat /\ from >= 1
          BY <2>0 DEF from
        <5>2. \A m \in new : m \in 1..headNum /\ chain[m] \in Records
          <6> SUFFICES ASSUME NEW m \in new PROVE m \in 1..headNum /\ chain[m] \in Records
            OBVIOUS
          <6>1. m \in 1..headNum /\ m \in 1..Len(chain)
            BY <2>0, <3>1, <5>1
          <6>2. chain[m] \in Blocks
            BY <6>1 DEF TypeOK
          <6> QED
            BY <6>1, <6>2, EventAssumption DEF Blocks, Records
        <5>3. pending' = [n \in DOMAIN pending \cup new |->
                            IF n \in DOMAIN pending THEN pending[n] ELSE chain[n]]
          BY <4>2 DEF appendRange
        <5>4. \A n \in DOMAIN pending : n \in 1..headNum /\ pending[n] \in Records
          BY <2>0, <3>1 DEF TypeOK
        <5> HIDE DEF new
        <5> QED
          BY <5>2, <5>3, <5>4
      <4> QED
        BY <2>6, <4>1, <4>2 DEF AppendRange
    <3> QED
      BY <2>0, <2>6, <3>1, <3>2 DEF AppendRange, TypeOK, StageInv
  <2>7. CASE MergeFinalized
    <3> DEFINE merged == {n \in DOMAIN pending : n <= finalizedTarget}
               kept == DOMAIN pending \ merged
    <3>1. final' = applyAll(final, Restrict(pending, merged)) /\ pending' = Restrict(pending, kept)
      BY <2>7 DEF MergeFinalized
    <3>2. final' \in Aggregates
      <4>1. DOMAIN Restrict(pending, merged) = merged /\ IsFiniteSet(merged)
        BY Window DEF Restrict
      <4>2. \A n \in merged : Restrict(pending, merged)[n].event \in Events
        BY DEF Restrict, TypeOK, Records
      <4> HIDE DEF merged
      <4> QED
        BY <3>1, <4>1, <4>2, ApplyAllType DEF TypeOK
    <3>3. pending' \in [DOMAIN pending' -> Records] /\ DOMAIN pending' \subseteq 1..lastSeen
      BY <3>1 DEF Restrict, TypeOK
    <3>4. pc' \in {"checkpoint", "idle"} /\ result' \in {result, "ok"}
      BY <2>7 DEF MergeFinalized
    <3> QED
      BY <2>7, <3>2, <3>3, <3>4 DEF MergeFinalized, TypeOK, StageInv
  <2>8. CASE MoveCheckpoint
    <3>1. finalizedTarget \in 0..headNum /\ headNum <= Len(chain)
      BY <2>0, BoundAssumption DEF finalizedTarget, StageInv
    <3>2. finalizedTarget \in 0..Len(chain)
      BY <2>0, <3>1
    <3>3. canonHash(finalizedTarget) \in Nat
      BY <3>2, HashType
    <3> QED
      BY <2>0, <2>8, <3>1, <3>2, <3>3 DEF MoveCheckpoint, TypeOK, StageInv
  <2>9. CASE CallFails
    BY <2>9 DEF CallFails, Abort, TypeOK, StageInv
  <2>10. CASE UNCHANGED vars
    BY <2>10 DEF vars, TypeOK, StageInv
  <2> QED
    BY <2>1, <2>2, <2>3, <2>4, <2>5, <2>6, <2>7, <2>8, <2>9, <2>10 DEF Next, SyncStep
<1> QED
  BY <1>1, <1>2, PTL DEF Spec

\* Every reachable state is well typed: the aggregates are what sums of
\* transfers can be, and every read starts behind the window.
THEOREM LedgerTypeOK == Spec => []TypeOK
  BY LedgerReachable, PTL
----------------------------------------------------------------------------
\* Every block carries a transfer, as long as the missed reorg is out of play.
AllBlocksMatter == NoEvent \notin BlockEvents

\* The block up to which the aggregates were merged.
merged == IF pc = "checkpoint" THEN finalizedTarget ELSE finalizedBlock

\* The window holds exactly the blocks read and not merged, and the ledger's
\* hashes are of blocks mined so far.
WindowInv ==
  /\ DOMAIN pending = (merged + 1)..lastSeen
  /\ merged <= lastSeen /\ lastSeen <= headNum
  /\ ckpt.block <= finalizedTarget
  /\ ~baseline => lastSeen = 0
  /\ pc \in {"merge", "checkpoint"} \/ (pc = "idle" /\ result = "ok") => lastSeen = headNum
  /\ \A i \in DOMAIN chain : chain[i].hash <= reorgs /\ chain[i].event \in Events
  /\ \A n \in DOMAIN pending : pending[n].hash <= reorgs
  /\ ckpt.hash <= reorgs

\* The aggregates are those of the chain.
FinalOk == final = OnChain(chain, merged)

\* So are the blocks of the window, up to n.
Canonical(n) == FinalOk /\ \A m \in (merged + 1)..n : chain[m] = pending[m]

\* A hash that still matches vouches for all below it, and the rest of the sync
\* only relies on blocks such a hash vouched for or no reorg may replace.
AgreeInv ==
  deep # "during" =>
    /\ \A n \in DOMAIN pending : chain[n].hash = pending[n].hash => Canonical(n)
    /\ pc # "checkpoint" /\ CheckpointHolds => FinalOk
    /\ pc = "append" => Canonical(lastSeen)
    /\ pc = "merge" => FinalOk /\ \A m \in (merged + 1)..lastSeen :
                                     m <= finalizedTarget => chain[m] = pending[m]
    /\ pc = "checkpoint" => FinalOk
    /\ fresh /\ (pc \in {"merge", "checkpoint"} \/ (pc = "idle" /\ result = "ok"))
         => Canonical(lastSeen)
    /\ deep = "no" => FinalOk

\* T is a choice of events, U the part of it outside S, and f the values of the
\* rest, or 0 for what is not chosen.
Splits(c, T, U, S, f) ==
  /\ T \subseteq DOMAIN c /\ U \subseteq T /\ IsFiniteSet(T) /\ IsFiniteSet(S)
  /\ S \cap U = {} /\ T \ U \subseteq S
  /\ \A i \in T : c[i].event.value \in Nat
  /\ \A i \in S \cap T : f[i] = c[i].event.value
  /\ \A i \in S \ T : f[i] = 0

\* Then the values of T are those of U and what f adds up to.
LEMMA SumSplit ==
  ASSUME NEW c, NEW T, NEW U, NEW S, NEW f, Splits(c, T, U, S, f)
  PROVE  /\ SumOver(c, T) = SumOver(c, U) + Sum(f, S)
         /\ SumOver(c, U) \in Nat /\ Sum(f, S) \in Nat
<1>0. /\ T \subseteq DOMAIN c /\ U \subseteq T /\ IsFiniteSet(T) /\ IsFiniteSet(S)
      /\ S \cap U = {} /\ T \ U \subseteq S
      /\ \A i \in T : c[i].event.value \in Nat
      /\ \A i \in S \cap T : f[i] = c[i].event.value
      /\ \A i \in S \ T : f[i] = 0
  BY DEF Splits
<1> DEFINE v == [i \in DOMAIN c |-> c[i].event.value]
           W == T \ U
<1>1. \A i \in T : v[i] = c[i].event.value /\ v[i] \in Nat
  BY <1>0
<1>2. /\ IsFiniteSet(U) /\ IsFiniteSet(W) /\ T = U \cup W /\ U \cap W = {}
      /\ W \in SUBSET S /\ W \subseteq T /\ \A i \in S \ W : i \in S \ T
  BY <1>0, FS_Subset
<1>3. SumOver(c, T) = Sum(v, T) /\ SumOver(c, U) = Sum(v, U)
  BY DEF SumOver
<1> HIDE DEF v, W
<1>4. Sum(v, T) = Sum(v, U) + Sum(v, W)
  <2>1. \A i \in U \cup W : v[i] \in Int
    BY <1>1, <1>2
  <2> QED
    BY <1>2, <2>1, SumUnion
<1>5. Sum(f, S) = Sum(v, W)
  <2>1. \A i \in W : v[i] \in Int /\ f[i] = v[i]
    BY <1>0, <1>1, <1>2
  <2>2. \A i \in S \ W : f[i] = 0
    BY <1>0, <1>2
  <2> QED
    BY <1>0, <1>2, <2>1, <2>2, SumFilter, SMTT(30)
<1>6. Sum(v, U) \in Nat /\ Sum(v, W) \in Nat
  <2>1. (\A i \in U : v[i] \in Nat) /\ (\A i \in W : v[i] \in Nat)
    BY <1>1, <1>2
  <2> QED
    BY <1>2, <2>1, SumNat
<1> QED
  BY <1>3, <1>4, <1>5, <1>6

\* Merging the blocks b + 1 to t of a chain turns what the token held at b into
\* what it holds at t.
LEMMA ApplyIsChain ==
  ASSUME NEW c \in Seq(Blocks), NEW b \in Nat, NEW t \in Nat, b <= t, t <= Len(c),
         \A i \in 1..t : c[i].event \in Events,
         NEW w, DOMAIN w = (b + 1)..t, \A i \in (b + 1)..t : w[i] = c[i]
  PROVE  applyAll(OnChain(c, b), w) = OnChain(c, t)
<1> DEFINE D == (b + 1)..t
           E(n) == EventBlocks(c, n)
           From(n, a) == {i \in E(n) : c[i].event.from = a}
           To(n, a) == {i \in E(n) : c[i].event.to = a}
           effect == [i \in D |-> applyTransfer(Empty, w[i].event)]
           minted == [i \in D |-> effect[i].minted]
           burned == [i \in D |-> effect[i].burned]
           moved(a) == [i \in D |-> effect[i].balances[a]]
           count == [i \in D |-> effect[i].events]
           sent(a) == [i \in D |-> IF i \in From(t, a) THEN c[i].event.value ELSE 0]
           got(a) == [i \in D |-> IF i \in To(t, a) THEN c[i].event.value ELSE 0]
<1>1. \A i \in 1..t : c[i].event \in Events /\ c[i].event # NoEvent
  BY EventAssumption
<1>2. E(t) = 1..t /\ E(b) = 1..b
  BY <1>1 DEF EventBlocks
<1>3. \A a \in Accounts \cup {Zero} :
        /\ From(t, a) \in SUBSET (1..t) /\ From(b, a) = From(t, a) \cap (1..b)
        /\ To(t, a) \in SUBSET (1..t) /\ To(b, a) = To(t, a) \cap (1..b)
  BY <1>2
<1>3a. \A T \in SUBSET (1..t) :
         /\ T \in SUBSET DOMAIN c /\ T \cap (1..b) \in SUBSET T /\ IsFiniteSet(T)
         /\ D \cap (T \cap (1..b)) = {} /\ T \ (T \cap (1..b)) \subseteq D
         /\ \A i \in T : c[i].event.value \in Nat
  <2>1. IsFiniteSet(1..t) /\ 1..t \subseteq DOMAIN c
    BY FS_Interval
  <2>2. \A i \in 1..t : (i \in D <=> i \notin 1..b) /\ c[i].event.value \in Nat
    BY <1>1, EventAssumption
  <2> HIDE DEF D
  <2> QED
    BY <2>1, <2>2, FS_Subset
<1>4. (\A i \in D : w[i].event = c[i].event /\ i \in 1..t) /\ IsFiniteSet(D)
  <2>1. IsFiniteSet(D)
    BY FS_Interval
  <2> QED
    BY <2>1
<1>5. \A i \in D :
        /\ minted[i] = (IF i \in From(t, Zero) THEN c[i].event.value ELSE 0)
        /\ burned[i] = (IF i \in To(t, Zero) THEN c[i].event.value ELSE 0)
        /\ count[i] = 1
        /\ \A a \in Accounts : moved(a)[i] = got(a)[i] - sent(a)[i]
  BY <1>1, <1>2, <1>4, EventEffect
<1>5a. \A a \in Accounts : \A i \in D :
        /\ sent(a)[i] = (IF i \in From(t, a) THEN c[i].event.value ELSE 0)
        /\ got(a)[i] = (IF i \in To(t, a) THEN c[i].event.value ELSE 0)
        /\ sent(a)[i] \in Nat /\ got(a)[i] \in Nat /\ moved(a)[i] \in Int
        /\ got(a)[i] = moved(a)[i] + sent(a)[i]
  <2>1. \A i \in D : c[i].event.value \in Nat
    BY <1>1, <1>4, EventAssumption
  <2> QED
    BY <1>5, <2>1
<1>6. applyAll(OnChain(c, b), w) =
        [minted   |-> OnChain(c, b).minted + Sum(minted, D),
         burned   |-> OnChain(c, b).burned + Sum(burned, D),
         balances |-> [a \in Accounts |-> OnChain(c, b).balances[a] + Sum(moved(a), D)],
         events   |-> OnChain(c, b).events + Sum(count, D)]
  BY DEF applyAll
<1>7. \A n \in {b, t} : OnChain(c, n) =
        [minted   |-> SumOver(c, From(n, Zero)),
         burned   |-> SumOver(c, To(n, Zero)),
         balances |-> [a \in Accounts |-> SumOver(c, To(n, a)) - SumOver(c, From(n, a))],
         events   |-> Cardinality(E(n))]
  BY DEF OnChain
<1>8. ASSUME NEW T \in SUBSET (1..t), NEW U, U = T \cap (1..b), NEW f,
             \A i \in D \cap T : f[i] = c[i].event.value, \A i \in D \ T : f[i] = 0
      PROVE  /\ SumOver(c, T) = SumOver(c, U) + Sum(f, D)
             /\ SumOver(c, U) \in Nat /\ Sum(f, D) \in Nat
  <2> HIDE DEF D
  <2>1. Splits(c, T, U, D, f)
    BY <1>3a, <1>4, <1>8 DEF Splits
  <2> QED
    BY <2>1, SumSplit
<1> HIDE DEF E, From, To, effect, minted, burned, moved, count, sent, got, D
<1>9. /\ SumOver(c, From(t, Zero)) = SumOver(c, From(b, Zero)) + Sum(minted, D)
      /\ SumOver(c, To(t, Zero)) = SumOver(c, To(b, Zero)) + Sum(burned, D)
  <2>1. /\ \A i \in D \cap From(t, Zero) : minted[i] = c[i].event.value
        /\ \A i \in D \ From(t, Zero) : minted[i] = 0
        /\ \A i \in D \cap To(t, Zero) : burned[i] = c[i].event.value
        /\ \A i \in D \ To(t, Zero) : burned[i] = 0
    BY <1>5
  <2> QED
    BY <1>3, <1>8, <2>1
<1>10. ASSUME NEW a \in Accounts
       PROVE  SumOver(c, To(t, a)) - SumOver(c, From(t, a)) =
                (SumOver(c, To(b, a)) - SumOver(c, From(b, a))) + Sum(moved(a), D)
  <2>1. /\ SumOver(c, To(t, a)) = SumOver(c, To(b, a)) + Sum(got(a), D)
        /\ SumOver(c, To(b, a)) \in Nat /\ Sum(got(a), D) \in Nat
    <3>1. /\ \A i \in D \cap To(t, a) : got(a)[i] = c[i].event.value
          /\ \A i \in D \ To(t, a) : got(a)[i] = 0
      BY <1>5a
    <3>2. /\ To(t, a) \in SUBSET (1..t) /\ To(b, a) = To(t, a) \cap (1..b)
      BY <1>3
    <3>3. Splits(c, To(t, a), To(b, a), D, got(a))
      BY <1>3a, <1>4, <3>1, <3>2 DEF Splits
    <3> QED
      BY <3>3, SumSplit
  <2>2. /\ SumOver(c, From(t, a)) = SumOver(c, From(b, a)) + Sum(sent(a), D)
        /\ SumOver(c, From(b, a)) \in Nat /\ Sum(sent(a), D) \in Nat
    <3>1. /\ \A i \in D \cap From(t, a) : sent(a)[i] = c[i].event.value
          /\ \A i \in D \ From(t, a) : sent(a)[i] = 0
      BY <1>5a
    <3>2. /\ From(t, a) \in SUBSET (1..t) /\ From(b, a) = From(t, a) \cap (1..b)
      BY <1>3
    <3>3. Splits(c, From(t, a), From(b, a), D, sent(a))
      BY <1>3a, <1>4, <3>1, <3>2 DEF Splits
    <3> QED
      BY <3>3, SumSplit
  <2>3. \A i \in D : /\ moved(a)[i] \in Int /\ sent(a)[i] \in Int
                     /\ got(a)[i] = moved(a)[i] + sent(a)[i]
    BY <1>5a
  <2>4. Sum(got(a), D) = Sum(moved(a), D) + Sum(sent(a), D) /\ Sum(moved(a), D) \in Int
    BY <1>4, <2>3, SumPlus, SumInt
  <2> QED
    BY <2>1, <2>2, <2>4
<1>11. Cardinality(E(t)) = Cardinality(E(b)) + Sum(count, D)
  <2>1. IsFiniteSet(D) /\ Cardinality(D) = t - b /\ Cardinality(1..t) = t /\ Cardinality(1..b) = b
    <3> USE DEF D
    <3>1. \A k, n \in Int : IsFiniteSet(k..n) /\ Cardinality(k..n) = IF k > n THEN 0 ELSE n - k + 1
      BY FS_Interval
    <3>2. IsFiniteSet(D) /\ Cardinality(D) = t - b
      <4>1. Cardinality(D) = IF b + 1 > t THEN 0 ELSE t - (b + 1) + 1
        BY <3>1
      <4>2. IsFiniteSet(D)
        BY <3>1
      <4> HIDE DEF D
      <4> QED
        BY <4>1, <4>2
    <3>3. Cardinality(1..t) = t
      BY <3>1
    <3>4. Cardinality(1..b) = b
      BY <3>1
    <3> QED
      BY <3>2, <3>3, <3>4
  <2>2. Sum(count, D) = Cardinality(D)
    BY <1>5, <2>1, SumOnes
  <2> QED
    BY <1>2, <2>1, <2>2
<1>12. [a \in Accounts |-> OnChain(c, b).balances[a] + Sum(moved(a), D)] =
         [a \in Accounts |-> SumOver(c, To(t, a)) - SumOver(c, From(t, a))]
  BY <1>7, <1>10
<1> QED
  BY <1>6, <1>7, <1>9, <1>11, <1>12

\* Nothing has happened at the start of any chain.
LEMMA NothingYet ==
  ASSUME NEW c
  PROVE  OnChain(c, 0) = Empty
<1>1. EventBlocks(c, 0) = {}
  BY DEF EventBlocks
<1>2. SumOver(c, {}) = 0 /\ Cardinality({}) = 0
  BY SumEmpty, FS_EmptySet DEF SumOver
<1>3. \A a : {i \in EventBlocks(c, 0) : c[i].event.from = a} = {}
             /\ {i \in EventBlocks(c, 0) : c[i].event.to = a} = {}
  BY <1>1
<1> QED
  BY <1>1, <1>2, <1>3 DEF OnChain, Empty

\* What the token held at a block depends on the blocks up to it.
LEMMA SamePrefix ==
  ASSUME NEW c \in Seq(Blocks), NEW d \in Seq(Blocks), NEW n \in Nat,
         n <= Len(c), n <= Len(d), \A i \in 1..n : c[i] = d[i],
         \A i \in 1..n : c[i].event \in Events
  PROVE  OnChain(c, n) = OnChain(d, n)
<1>1. EventBlocks(c, n) = EventBlocks(d, n)
  BY DEF EventBlocks
<1>2. IsFiniteSet(1..n) /\ 1..n \subseteq DOMAIN c /\ 1..n \subseteq DOMAIN d
  <2>1. IsFiniteSet(1..n)
    BY FS_Interval
  <2>2. DOMAIN c = 1..Len(c) /\ DOMAIN d = 1..Len(d) /\ Len(c) \in Nat /\ Len(d) \in Nat
    OBVIOUS
  <2> QED
    BY <2>1, <2>2
<1>3. \A S \in SUBSET (1..n) : SumOver(c, S) = SumOver(d, S)
  <2> SUFFICES ASSUME NEW S \in SUBSET (1..n) PROVE SumOver(c, S) = SumOver(d, S)
    OBVIOUS
  <2> DEFINE f == [i \in DOMAIN c |-> c[i].event.value]
             g == [i \in DOMAIN d |-> d[i].event.value]
  <2>1. IsFiniteSet(S)
    BY <1>2, FS_Subset
  <2>2. ASSUME NEW i \in S PROVE f[i] \in Int /\ f[i] = g[i]
    <3>1. i \in 1..n /\ i \in DOMAIN c /\ i \in DOMAIN d
      BY <1>2
    <3>2. f[i] = c[i].event.value /\ g[i] = d[i].event.value
      BY <3>1
    <3>3. c[i] = d[i] /\ c[i].event \in Events
      BY <3>1
    <3>4. c[i].event.value \in Nat
      BY <3>3, EventAssumption
    <3> QED
      BY <3>2, <3>3, <3>4
  <2> HIDE DEF f, g
  <2>3. Sum(f, S) = Sum(g, S)
    BY <2>1, <2>2, SumCongruence
  <2> QED
    BY <2>3 DEF SumOver, f, g
<1>4. \A a : /\ {i \in EventBlocks(c, n) : c[i].event.from = a} \in SUBSET (1..n)
             /\ {i \in EventBlocks(c, n) : c[i].event.to = a} \in SUBSET (1..n)
             /\ {i \in EventBlocks(c, n) : c[i].event.from = a} =
                  {i \in EventBlocks(d, n) : d[i].event.from = a}
             /\ {i \in EventBlocks(c, n) : c[i].event.to = a} =
                  {i \in EventBlocks(d, n) : d[i].event.to = a}
  BY <1>1 DEF EventBlocks
<1> QED
  BY <1>1, <1>3, <1>4 DEF OnChain
----------------------------------------------------------------------------
\* The numbers the invariants compare.
LEMMA Numbers ==
  ASSUME TypeOK
  PROVE  /\ Len(chain) \in Nat /\ headNum \in Nat /\ lastSeen \in Nat /\ reorgs \in Nat
         /\ ckpt.block \in Nat \cup {-1} /\ ckpt.hash \in Nat /\ finalizedBlock \in Nat
         /\ finalizedBlock = (IF ckpt.block = -1 THEN 0 ELSE ckpt.block)
         /\ finalizedTarget \in Nat /\ finalizedTarget <= headNum
         /\ finalizedTarget = 0 \/ finalizedTarget = headNum - FinalityDepth
         /\ FinalityDepth \in Nat /\ FinalityDepth > 0 /\ merged \in Nat
         /\ DOMAIN chain = 1..Len(chain)
<1>1. /\ Len(chain) \in Nat /\ headNum \in Nat /\ lastSeen \in Nat /\ reorgs \in Nat
      /\ ckpt.block \in Nat \cup {-1} /\ ckpt.hash \in Nat /\ DOMAIN chain = 1..Len(chain)
  BY DEF TypeOK
<1>2. /\ finalizedBlock \in Nat
      /\ finalizedBlock = (IF ckpt.block = -1 THEN 0 ELSE ckpt.block)
  BY <1>1 DEF finalizedBlock
<1>3. /\ finalizedTarget \in Nat /\ finalizedTarget <= headNum
      /\ finalizedTarget = 0 \/ finalizedTarget = headNum - FinalityDepth
      /\ FinalityDepth \in Nat /\ FinalityDepth > 0
  BY <1>1, BoundAssumption DEF finalizedTarget
<1> QED
  BY <1>1, <1>2, <1>3 DEF merged

\* The newest block of a window without gaps is the last one read.
LEMMA NewestIsLastSeen ==
  ASSUME TypeOK, DOMAIN pending = (merged + 1)..lastSeen, DOMAIN pending # {}
  PROVE  /\ Max(DOMAIN pending) = lastSeen
         /\ LET rest == DOMAIN pending \ {lastSeen} IN
              /\ rest = (merged + 1)..(lastSeen - 1)
              /\ rest # {} => Max(rest) = lastSeen - 1
              /\ rest = {} => lastSeen = merged + 1
<1> DEFINE rest == DOMAIN pending \ {lastSeen}
<1>1. merged \in Nat /\ lastSeen \in Nat /\ lastSeen \in DOMAIN pending
  BY Numbers
<1>2. rest = (merged + 1)..(lastSeen - 1)
  BY <1>1
<1>3. \A S \in SUBSET DOMAIN pending : S # {} => Max(S) \in S /\ \A y \in S : y <= Max(S)
  BY Window
<1>4. Max(DOMAIN pending) = lastSeen
  <2>1. Max(DOMAIN pending) \in DOMAIN pending /\ lastSeen <= Max(DOMAIN pending)
    BY <1>1, <1>3
  <2> QED
    BY <1>1, <2>1
<1>5. ASSUME rest # {} PROVE Max(rest) = lastSeen - 1
  <2>1. rest \in SUBSET DOMAIN pending /\ lastSeen - 1 \in rest
    BY <1>1, <1>2, <1>5
  <2>2. Max(rest) \in rest /\ lastSeen - 1 <= Max(rest)
    BY <1>3, <1>5, <2>1
  <2> HIDE DEF rest
  <2> QED
    BY <1>1, <1>2, <2>2
<1>6. rest = {} => lastSeen = merged + 1
  BY <1>1
<1> QED
  BY <1>2, <1>4, <1>5, <1>6

\* WindowInv is inductive while a failing call ends the sync before the merge.
LEMMA LedgerWindow ==
  ASSUME Faults \subseteq {"rpc"}, AllBlocksMatter
  PROVE  Spec => []WindowInv
<1>1. Init => WindowInv
  <2> SUFFICES ASSUME Init PROVE WindowInv
    OBVIOUS
  <2>1. chain = <<>> /\ DOMAIN pending = {} /\ lastSeen = 0 /\ headNum = 0 /\ pc = "idle"
    BY DEF Init
  <2>2. ckpt.block = -1 /\ ckpt.hash = 0 /\ reorgs = 0
    BY DEF Init
  <2>3. finalizedBlock = 0 /\ finalizedTarget = 0
    BY <2>1, <2>2, BoundAssumption DEF finalizedBlock, finalizedTarget
  <2>4. merged = 0 /\ DOMAIN chain = {}
    BY <2>1, <2>3 DEF merged
  <2> QED
    BY <2>1, <2>2, <2>3, <2>4 DEF WindowInv
<1>2. TypeOK /\ StageInv /\ TypeOK' /\ StageInv' /\ WindowInv /\ [Next]_vars => WindowInv'
  <2> SUFFICES ASSUME TypeOK, StageInv, TypeOK', StageInv', WindowInv, [Next]_vars
               PROVE  WindowInv'
    OBVIOUS
  <2> USE DEF chainVars, ledgerVars
  <2>0. /\ Len(chain) \in Nat /\ headNum \in Nat /\ lastSeen \in Nat /\ reorgs \in Nat
        /\ ckpt.block \in Nat \cup {-1} /\ ckpt.hash \in Nat /\ finalizedBlock \in Nat
        /\ finalizedBlock = (IF ckpt.block = -1 THEN 0 ELSE ckpt.block)
        /\ finalizedTarget \in Nat /\ finalizedTarget <= headNum
        /\ merged \in Nat /\ DOMAIN chain = 1..Len(chain)
    BY Numbers
  <2>w. /\ DOMAIN pending = (merged + 1)..lastSeen
        /\ merged <= lastSeen /\ lastSeen <= headNum
        /\ ckpt.block <= finalizedTarget
        /\ ~baseline => lastSeen = 0
        /\ pc \in {"merge", "checkpoint"} \/ (pc = "idle" /\ result = "ok") => lastSeen = headNum
        /\ \A i \in DOMAIN chain : chain[i].hash <= reorgs /\ chain[i].event \in Events
        /\ \A n \in DOMAIN pending : pending[n].hash <= reorgs
        /\ ckpt.hash <= reorgs
    BY DEF WindowInv
  <2>v. \A b : b \in Blocks => b.hash \in Nat /\ b.event \in Events
    BY EventAssumption DEF Blocks, AllBlocksMatter
  <2>p. \A n \in DOMAIN pending : pending[n].hash \in Nat
    BY DEF TypeOK, Records
  <2>1. ASSUME NEW ev \in BlockEvents, NewBlock(ev) PROVE WindowInv'
    <3>1. /\ Len(chain') = Len(chain) + 1 /\ DOMAIN chain' = 1..(Len(chain) + 1)
          /\ \A i \in 1..Len(chain) : chain'[i] = chain[i]
          /\ chain'[Len(chain) + 1] = [hash |-> reorgs, event |-> ev]
      BY <2>1, NewBlockChain
    <3>2. UNCHANGED <<reorgs, final, pending, lastSeen, baseline, ckpt, pc, headNum, result>>
      BY <2>1 DEF NewBlock
    <3>3. UNCHANGED <<merged, finalizedTarget>>
      BY <3>2 DEF merged, finalizedBlock, finalizedTarget
    <3>4. \A i \in DOMAIN chain' : chain'[i].hash <= reorgs /\ chain'[i].event \in Events
      <4>1. ev \in Events
        BY EventAssumption DEF AllBlocksMatter
      <4>2. \A i \in DOMAIN chain' : i \in 1..Len(chain) \/ i = Len(chain) + 1
        BY <2>0, <3>1
      <4> QED
        BY <2>0, <2>w, <3>1, <4>1, <4>2
    <3> QED
      BY <2>w, <3>2, <3>3, <3>4 DEF WindowInv
  <2>2. ASSUME NEW k \in 0..MaxHead, Reorg(k) PROVE WindowInv'
    <3>1. /\ chain' \in Seq(Blocks) /\ Len(chain') = Len(chain) /\ reorgs' = reorgs + 1
          /\ \A i \in 1..Len(chain) : IF i <= k THEN chain'[i] = chain[i]
                                                 ELSE chain'[i].hash = reorgs + 1
      BY <2>2, ReorgChain
    <3>2. UNCHANGED <<final, pending, lastSeen, baseline, ckpt, pc, headNum, result>>
      BY <2>2 DEF Reorg
    <3>3. UNCHANGED <<merged, finalizedTarget>>
      BY <3>2 DEF merged, finalizedBlock, finalizedTarget
    <3>4. \A i \in DOMAIN chain' : chain'[i].hash <= reorgs' /\ chain'[i].event \in Events
      <4> SUFFICES ASSUME NEW i \in 1..Len(chain)
                   PROVE  chain'[i].hash <= reorgs + 1 /\ chain'[i].event \in Events
        BY <3>1
      <4>1. chain'[i] \in Blocks /\ chain[i] \in Blocks
        BY <3>1 DEF TypeOK
      <4>2. chain[i].hash <= reorgs /\ chain[i].hash \in Nat
        BY <2>0, <2>v, <2>w, <4>1
      <4> QED
        BY <2>0, <2>v, <3>1, <4>1, <4>2
    <3>5. /\ \A n \in DOMAIN pending : pending[n].hash <= reorgs + 1
          /\ ckpt.hash <= reorgs + 1
      BY <2>0, <2>p, <2>w
    <3> QED
      BY <2>w, <3>1, <3>2, <3>3, <3>4, <3>5 DEF WindowInv
  <2>3. CASE ReadHead
    <3>1. /\ headNum' = Len(chain) /\ pc = "idle" /\ pc' = "rewind"
          /\ UNCHANGED <<chain, reorgs, final, pending, lastSeen, baseline, ckpt>>
      BY <2>3 DEF ReadHead
    <3>2. merged' = merged
      BY <3>1 DEF merged, finalizedBlock
    <3>3. lastSeen <= headNum' /\ ckpt.block <= finalizedTarget'
      BY <2>0, <2>w, <3>1, BoundAssumption DEF StageInv, finalizedTarget
    <3> QED
      BY <2>w, <3>1, <3>2, <3>3 DEF WindowInv
  <2>4. CASE RewindPending
    <3> DEFINE top == Max(DOMAIN pending)
               rest == DOMAIN pending \ {lastSeen}
    <3>1. /\ pc = "rewind" /\ pc' \in {"rewind", "append"} /\ DOMAIN pending # {}
          /\ UNCHANGED <<chain, reorgs, final, baseline, ckpt, headNum>>
      BY <2>4 DEF RewindPending
    <3>2. UNCHANGED <<merged, finalizedTarget, finalizedBlock>> /\ merged = finalizedBlock
      BY <3>1 DEF merged, finalizedBlock, finalizedTarget
    <3>3. /\ top = lastSeen /\ rest = (merged + 1)..(lastSeen - 1)
          /\ rest # {} => Max(rest) = lastSeen - 1
          /\ rest = {} => lastSeen = merged + 1
      BY <2>w, <3>1, NewestIsLastSeen
    <3>4. CASE UNCHANGED <<pending, lastSeen>>
      BY <2>w, <3>1, <3>2, <3>4 DEF WindowInv
    <3>5. CASE pending' = Restrict(pending, rest) /\ lastSeen' = trustedHead(pending')
      <4>1. /\ DOMAIN pending' = rest
            /\ \A n \in rest : pending'[n] = pending[n] /\ n \in DOMAIN pending
        BY <3>5 DEF Restrict
      <4>2. lastSeen' = lastSeen - 1
        <5>1. lastSeen' = IF rest = {} THEN finalizedBlock ELSE Max(rest)
          BY <3>2, <3>5, <4>1 DEF trustedHead
        <5> HIDE DEF rest
        <5> QED
          BY <2>0, <3>2, <3>3, <5>1
      <4>3. merged < lastSeen
        BY <2>0, <2>w, <3>1
      <4> HIDE DEF rest
      <4> QED
        BY <2>0, <2>w, <3>1, <3>2, <3>3, <4>1, <4>2, <4>3 DEF WindowInv
    <3> QED
      BY <2>4, <3>3, <3>4, <3>5 DEF RewindPending
  <2>5. CASE RewindToCheckpoint
    <3>1. /\ pc = "rewind" /\ DOMAIN pending = {}
          /\ UNCHANGED <<chain, reorgs, final, pending, baseline, ckpt, headNum>>
          /\ lastSeen' \in {lastSeen, finalizedBlock}
          /\ pc' = "append" \/ (pc' = "idle" /\ result' = "error")
      BY <2>5 DEF RewindToCheckpoint, trustedHead, Abort
    <3>2. UNCHANGED <<merged, finalizedTarget>> /\ merged = finalizedBlock
      BY <3>1 DEF merged, finalizedBlock, finalizedTarget
    <3>3. merged = lastSeen
      BY <2>0, <2>w, <3>1
    <3> QED
      BY <2>0, <2>w, <3>1, <3>2, <3>3 DEF WindowInv
  <2>6. CASE AppendRange
    <3>1. /\ pc = "append" /\ pc' = "merge" /\ lastSeen' = headNum /\ baseline'
          /\ pending' = IF from <= headNum THEN appendRange(from, headNum) ELSE pending
          /\ UNCHANGED <<chain, reorgs, final, ckpt, headNum>>
      BY <2>6 DEF AppendRange
    <3>2. UNCHANGED <<merged, finalizedTarget>>
      BY <3>1 DEF merged, finalizedBlock, finalizedTarget
    <3>3. from = lastSeen + 1
      BY <2>0, <2>w DEF from, TypeOK
    <3>4. \A m \in from..headNum : m \in DOMAIN chain /\ chain[m].event # NoEvent
      BY <2>0, <2>w, <3>3, EventAssumption DEF StageInv
    <3>5. /\ DOMAIN pending' = (merged + 1)..headNum
          /\ \A n \in DOMAIN pending' : pending'[n].hash <= reorgs
      <4>1. CASE from <= headNum
        <5>1. DOMAIN pending' = DOMAIN pending \cup (from..headNum)
          BY <3>1, <3>4, <4>1 DEF appendRange
        <5>2. \A n \in DOMAIN pending' :
                pending'[n] = IF n \in DOMAIN pending THEN pending[n] ELSE chain[n]
          BY <3>1, <4>1 DEF appendRange
        <5>3. DOMAIN pending \cup (from..headNum) = (merged + 1)..headNum
          BY <2>0, <2>w, <3>3
        <5> QED
          BY <2>w, <3>4, <5>1, <5>2, <5>3
      <4>2. CASE ~(from <= headNum)
        BY <2>0, <2>w, <3>1, <3>3, <4>2
      <4> QED
        BY <4>1, <4>2
    <3> QED
      BY <2>0, <2>w, <3>1, <3>2, <3>5 DEF WindowInv
  <2>7. CASE MergeFinalized
    <3> DEFINE taken == {n \in DOMAIN pending : n <= finalizedTarget}
    <3>1. /\ pc = "merge" /\ pending' = Restrict(pending, DOMAIN pending \ taken)
          /\ IF finalizedTarget > ckpt.block THEN pc' = "checkpoint"
                                              ELSE pc' = "idle" /\ result' = "ok"
          /\ UNCHANGED <<chain, reorgs, lastSeen, baseline, ckpt, headNum>>
      BY <2>7 DEF MergeFinalized
    <3>2. UNCHANGED <<finalizedTarget, finalizedBlock>> /\ merged = finalizedBlock
      BY <3>1 DEF merged, finalizedBlock, finalizedTarget
    <3>3. merged' = finalizedTarget /\ merged <= finalizedTarget
      <4>1. CASE finalizedTarget > ckpt.block
        BY <2>0, <3>1, <3>2, <4>1 DEF merged
      <4>2. CASE ~(finalizedTarget > ckpt.block)
        <5>1. finalizedBlock = finalizedTarget
          BY <2>0, <2>w, <4>2
        <5>2. pc' = "idle"
          BY <3>1, <4>2
        <5> QED
          BY <2>0, <3>2, <5>1, <5>2 DEF merged
      <4> QED
        BY <4>1, <4>2
    <3>4. /\ DOMAIN pending' = DOMAIN pending \ taken
          /\ \A n \in DOMAIN pending' : n \in DOMAIN pending /\ pending'[n] = pending[n]
      BY <3>1 DEF Restrict
    <3>5. DOMAIN pending \ taken = (finalizedTarget + 1)..lastSeen
      BY <2>0, <2>w, <3>3
    <3>6. lastSeen = headNum
      BY <2>w, <3>1
    <3> HIDE DEF taken
    <3> QED
      BY <2>0, <2>w, <3>1, <3>2, <3>3, <3>4, <3>5, <3>6 DEF WindowInv
  <2>8. CASE MoveCheckpoint
    <3>1. /\ pc = "checkpoint" /\ pc' = "idle"
          /\ ckpt' = [block |-> finalizedTarget, hash |-> canonHash(finalizedTarget)]
          /\ UNCHANGED <<chain, reorgs, final, pending, lastSeen, baseline, headNum>>
      BY <2>8 DEF MoveCheckpoint
    <3>2. /\ merged = finalizedTarget /\ finalizedTarget' = finalizedTarget
          /\ merged' = finalizedTarget
      BY <2>0, <3>1 DEF merged, finalizedBlock, finalizedTarget
    <3>3. canonHash(finalizedTarget) <= reorgs
      <4>1. finalizedTarget = 0 \/ finalizedTarget \in DOMAIN chain
        BY <2>0 DEF StageInv
      <4> QED
        BY <2>0, <2>w, <4>1 DEF canonHash
    <3> QED
      BY <2>0, <2>w, <3>1, <3>2, <3>3 DEF WindowInv
  <2>9. CASE CallFails
    <3>1. pc \in {"rewind", "append"} /\ pc' = "idle" /\ result' = "error"
      BY <2>9 DEF CallFails, Abort
    <3>2. UNCHANGED <<chain, reorgs, final, pending, lastSeen, baseline, ckpt, headNum>>
      BY <2>9 DEF CallFails
    <3>3. UNCHANGED <<merged, finalizedTarget>>
      BY <3>1, <3>2 DEF merged, finalizedBlock, finalizedTarget
    <3> QED
      BY <2>w, <3>1, <3>2, <3>3 DEF WindowInv
  <2>10. CASE UNCHANGED vars
    <3>1. UNCHANGED <<merged, finalizedTarget>>
      BY <2>10 DEF vars, merged, finalizedBlock, finalizedTarget
    <3> QED
      BY <2>w, <2>10, <3>1 DEF vars, WindowInv
  <2> QED
    BY <2>1, <2>2, <2>3, <2>4, <2>5, <2>6, <2>7, <2>8, <2>9, <2>10 DEF Next, SyncStep
<1> QED
  BY <1>1, <1>2, LedgerReachable, PTL DEF Spec

\* Blocks that stay the same leave the aggregates as canonical as they were.
LEMMA FinalKept ==
  ASSUME TypeOK, TypeOK', WindowInv, WindowInv', UNCHANGED <<final, merged>>,
         merged <= Len(chain), merged <= Len(chain'), \A i \in 1..merged : chain'[i] = chain[i]
  PROVE  FinalOk' <=> FinalOk
<1>1. chain \in Seq(Blocks) /\ chain' \in Seq(Blocks) /\ merged \in Nat
  BY Numbers DEF TypeOK
<1>2. \A i \in 1..merged : chain[i].event \in Events
  BY <1>1, Numbers DEF WindowInv
<1>3. OnChain(chain, merged) = OnChain(chain', merged)
  BY <1>1, <1>2, SamePrefix
<1> QED
  BY <1>3 DEF FinalOk

\* Merging the canonical blocks up to t takes the aggregates to t.
LEMMA MergeIsChain ==
  ASSUME TypeOK, WindowInv, FinalOk, NEW t \in Nat, merged <= t, t <= lastSeen,
         t <= Len(chain), \A m \in (merged + 1)..t : chain[m] = pending[m]
  PROVE  applyAll(final, Restrict(pending, {n \in DOMAIN pending : n <= t})) = OnChain(chain, t)
<1> DEFINE w == Restrict(pending, {n \in DOMAIN pending : n <= t})
<1>1. chain \in Seq(Blocks) /\ merged \in Nat /\ lastSeen \in Nat /\ DOMAIN chain = 1..Len(chain)
  BY Numbers DEF TypeOK
<1>2. DOMAIN pending = (merged + 1)..lastSeen /\ \A i \in DOMAIN chain : chain[i].event \in Events
  BY DEF WindowInv
<1>3. {n \in DOMAIN pending : n <= t} = (merged + 1)..t
  BY <1>1, <1>2
<1>4. DOMAIN w = (merged + 1)..t /\ \A i \in (merged + 1)..t : w[i] = chain[i]
  BY <1>3 DEF Restrict
<1>5. \A i \in 1..t : chain[i].event \in Events
  <2>1. Len(chain) \in Nat
    BY Numbers
  <2> QED
    BY <1>1, <1>2, <2>1
<1> HIDE DEF w
<1>6. applyAll(OnChain(chain, merged), w) = OnChain(chain, t)
  BY <1>1, <1>4, <1>5, ApplyIsChain
<1> QED
  BY <1>6 DEF FinalOk, w

\* AgreeInv is inductive too: a reorg either changes a hash the ledger holds or
\* only blocks above every one it relies on.
LEMMA LedgerAgreement ==
  ASSUME Faults \subseteq {"rpc"}, AllBlocksMatter
  PROVE  Spec => []AgreeInv
<1>1. Init => AgreeInv
  <2> SUFFICES ASSUME Init PROVE AgreeInv
    OBVIOUS
  <2>1. DOMAIN pending = {} /\ pc = "idle" /\ result = "none" /\ final = Empty
    BY DEF Init
  <2>2. merged = 0
    BY <2>1 DEF Init, merged, finalizedBlock
  <2>3. FinalOk
    BY <2>1, <2>2, NothingYet DEF FinalOk
  <2> QED
    BY <2>1, <2>3 DEF AgreeInv
<1>2. TypeOK /\ StageInv /\ WindowInv /\ TypeOK' /\ WindowInv' /\ AgreeInv /\ [Next]_vars
        => AgreeInv'
  <2> SUFFICES ASSUME TypeOK, StageInv, WindowInv, TypeOK', WindowInv', AgreeInv, [Next]_vars
               PROVE  AgreeInv'
    OBVIOUS
  <2> USE DEF chainVars, ledgerVars
  <2>0. /\ Len(chain) \in Nat /\ headNum \in Nat /\ lastSeen \in Nat /\ reorgs \in Nat
        /\ ckpt.block \in Nat \cup {-1} /\ ckpt.hash \in Nat /\ finalizedBlock \in Nat
        /\ finalizedBlock = (IF ckpt.block = -1 THEN 0 ELSE ckpt.block)
        /\ finalizedTarget \in Nat /\ finalizedTarget <= headNum
        /\ finalizedTarget = 0 \/ finalizedTarget = headNum - FinalityDepth
        /\ FinalityDepth \in Nat /\ FinalityDepth > 0
        /\ merged \in Nat /\ DOMAIN chain = 1..Len(chain)
    BY Numbers
  <2>w. /\ DOMAIN pending = (merged + 1)..lastSeen
        /\ merged <= lastSeen /\ lastSeen <= headNum
        /\ ckpt.block <= finalizedTarget
        /\ ~baseline => lastSeen = 0
        /\ pc \in {"merge", "checkpoint"} \/ (pc = "idle" /\ result = "ok") => lastSeen = headNum
        /\ \A n \in DOMAIN pending : pending[n].hash <= reorgs
        /\ ckpt.hash <= reorgs
    BY DEF WindowInv
  <2>s. headNum <= Len(chain) /\ lastSeen <= Len(chain) /\ merged <= Len(chain)
    BY <2>0, <2>w DEF StageInv
  <2>a. deep # "during" =>
          /\ \A n \in DOMAIN pending : chain[n].hash = pending[n].hash =>
               FinalOk /\ \A m \in (merged + 1)..n : chain[m] = pending[m]
          /\ pc # "checkpoint" /\ CheckpointHolds => FinalOk
          /\ pc = "append" => FinalOk /\ \A m \in (merged + 1)..lastSeen : chain[m] = pending[m]
          /\ pc = "merge" => FinalOk /\ \A m \in (merged + 1)..lastSeen :
                                           m <= finalizedTarget => chain[m] = pending[m]
          /\ pc = "checkpoint" => FinalOk
          /\ fresh /\ (pc \in {"merge", "checkpoint"} \/ (pc = "idle" /\ result = "ok"))
               => FinalOk /\ \A m \in (merged + 1)..lastSeen : chain[m] = pending[m]
          /\ deep = "no" => FinalOk
    BY DEF AgreeInv, Canonical
  <2> SUFFICES ASSUME deep' # "during" PROVE AgreeInv'
    BY DEF AgreeInv
  <2>1. ASSUME NEW ev \in BlockEvents, NewBlock(ev) PROVE AgreeInv'
    <3>1. /\ Len(chain') = Len(chain) + 1
          /\ \A i \in 1..Len(chain) : chain'[i] = chain[i]
      BY <2>1, NewBlockChain
    <3>2. UNCHANGED <<reorgs, final, pending, lastSeen, baseline, ckpt, pc, headNum, result, fresh,
                     deep>>
      BY <2>1 DEF NewBlock
    <3>3. UNCHANGED <<merged, finalizedTarget>>
      BY <3>2 DEF merged, finalizedBlock, finalizedTarget
    <3>4. FinalOk' <=> FinalOk
      BY <2>0, <2>s, <3>1, <3>2, <3>3, FinalKept
    <3>5. \A m \in (merged + 1)..lastSeen : chain'[m] = chain[m]
      BY <2>0, <2>s, <3>1
    <3>6. CheckpointHolds' <=> CheckpointHolds
      <4>1. ckpt.block # -1 => canonHash(ckpt.block)' = canonHash(ckpt.block)
        BY <2>0, <3>1, <3>2 DEF StageInv, canonHash
      <4> QED
        BY <3>2, <4>1 DEF CheckpointHolds
    <3>7. \A n \in DOMAIN pending : \A m \in (merged + 1)..n : m \in (merged + 1)..lastSeen
      BY <2>0, <2>w
    <3>8. \A n \in DOMAIN pending : n \in (merged + 1)..lastSeen
      BY <2>w
    <3> QED
      BY <2>a, <3>2, <3>3, <3>4, <3>5, <3>6, <3>7, <3>8 DEF AgreeInv, Canonical
  <2>2. ASSUME NEW k \in 0..MaxHead, Reorg(k) PROVE AgreeInv'
    <3>1. /\ chain' \in Seq(Blocks) /\ Len(chain') = Len(chain) /\ k < Len(chain)
          /\ \A i \in 1..Len(chain) : IF i <= k THEN chain'[i] = chain[i]
                                                 ELSE chain'[i].hash = reorgs + 1
      BY <2>2, ReorgChain
    <3>2. /\ UNCHANGED <<final, pending, lastSeen, baseline, ckpt, pc, headNum, result>>
          /\ ~fresh' /\ pc # "append"
      BY <2>2 DEF Reorg
    <3>3. UNCHANGED <<merged, finalizedTarget>>
      BY <3>2 DEF merged, finalizedBlock, finalizedTarget
    <3>4. deep # "during"
      BY <2>2 DEF Reorg
    <3>5. k \in Nat
      BY BoundAssumption
    <3>6. deep' = "no" \/ pc \in {"merge", "checkpoint"} =>
            k >= Len(chain) - FinalityDepth /\ k >= ckpt.block /\ deep' = deep
      <4>1. deep' = IF k < Len(chain) - FinalityDepth \/ k < ckpt.block
                    THEN (IF pc \in {"idle", "rewind"} /\ deep # "during"
                          THEN "between" ELSE "during")
                    ELSE deep
        BY <2>2 DEF Reorg
      <4> QED
        BY <2>0, <3>5, <4>1
    <3>7. \A n \in 1..Len(chain) : n <= k => \A i \in 1..n : chain'[i] = chain[i]
      BY <2>0, <3>1, <3>5
    <3>8. merged <= k => (FinalOk' <=> FinalOk)
      BY <2>0, <2>s, <3>1, <3>2, <3>3, <3>5, FinalKept
    <3>9. finalizedBlock <= k => (CheckpointHolds' <=> CheckpointHolds)
      <4>1. ASSUME finalizedBlock <= k, ckpt.block # -1
            PROVE  canonHash(ckpt.block)' = canonHash(ckpt.block)
        BY <2>0, <3>1, <3>2, <3>5, <4>1 DEF StageInv, canonHash
      <4> QED
        BY <3>2, <4>1 DEF CheckpointHolds
    <3>10. ASSUME NEW n \in DOMAIN pending, chain'[n].hash = pending[n].hash
           PROVE  FinalOk' /\ \A m \in (merged + 1)..n : chain'[m] = pending[m]
      <4>1. n \in 1..Len(chain) /\ n > merged
        BY <2>0, <2>w, <2>s
      <4>2. pending[n].hash <= reorgs /\ pending[n].hash \in Nat
        BY <2>w DEF TypeOK, Records
      <4>3. n <= k
        BY <2>0, <3>1, <3>10, <4>1, <4>2
      <4>4. FinalOk /\ \A m \in (merged + 1)..n : chain[m] = pending[m]
        BY <2>a, <3>1, <3>4, <3>10, <4>1, <4>3
      <4>5. \A m \in (merged + 1)..n : chain'[m] = chain[m]
        BY <2>0, <3>7, <4>1, <4>3
      <4>6. merged <= k
        BY <2>0, <3>5, <4>1, <4>3
      <4> QED
        BY <3>8, <4>4, <4>5, <4>6
    <3>11. pc # "checkpoint" /\ CheckpointHolds' => FinalOk'
      <4> SUFFICES ASSUME pc # "checkpoint", CheckpointHolds' PROVE FinalOk'
        OBVIOUS
      <4>1. merged = finalizedBlock
        BY DEF merged
      <4>2. finalizedBlock <= k
        <5>1. CASE finalizedBlock = 0
          BY <3>5, <5>1
        <5>2. CASE finalizedBlock # 0
          <6>1. ckpt.block \in 1..Len(chain)
            BY <2>0, <2>s, <4>1, <5>2
          <6>2. chain'[ckpt.block].hash = ckpt.hash
            BY <3>2, <6>1 DEF CheckpointHolds, canonHash
          <6> QED
            BY <2>0, <2>w, <3>1, <3>5, <6>1, <6>2
        <5> QED
          BY <5>1, <5>2
      <4> QED
        BY <2>a, <3>4, <3>8, <3>9, <4>1, <4>2
    <3>12. ASSUME deep' = "no" \/ pc \in {"merge", "checkpoint"}
           PROVE  /\ FinalOk'
                  /\ pc = "merge" => \A m \in (merged + 1)..lastSeen :
                                        m <= finalizedTarget => chain'[m] = pending[m]
      <4>1. k >= Len(chain) - FinalityDepth /\ k >= ckpt.block /\ deep' = deep
        BY <3>6, <3>12
      <4>2. finalizedTarget <= k /\ finalizedBlock <= k
        BY <2>0, <2>s, <3>5, <4>1
      <4>3. merged <= k
        BY <4>2 DEF merged
      <4>4. FinalOk
        BY <2>a, <3>4, <3>12, <4>1
      <4>5. \A m \in (merged + 1)..lastSeen : m <= finalizedTarget => chain'[m] = chain[m]
        BY <2>0, <2>s, <3>1, <3>5, <4>2
      <4> QED
        BY <2>a, <3>4, <3>8, <4>3, <4>4, <4>5
    <3> QED
      BY <3>2, <3>3, <3>10, <3>11, <3>12 DEF AgreeInv, Canonical
  <2>3. CASE ReadHead
    <3>1. /\ pc = "idle" /\ pc' = "rewind"
          /\ UNCHANGED <<chain, reorgs, final, pending, lastSeen, baseline, ckpt, deep>>
      BY <2>3 DEF ReadHead
    <3>2. merged' = merged
      BY <3>1 DEF merged, finalizedBlock
    <3>3. (FinalOk' <=> FinalOk) /\ (CheckpointHolds' <=> CheckpointHolds)
      BY <3>1, <3>2 DEF FinalOk, CheckpointHolds, canonHash
    <3> QED
      BY <2>a, <3>1, <3>2, <3>3 DEF AgreeInv, Canonical
  <2>4. CASE RewindPending
    <3> DEFINE rest == DOMAIN pending \ {lastSeen}
    <3>1. /\ pc = "rewind" /\ DOMAIN pending # {}
          /\ UNCHANGED <<chain, reorgs, final, baseline, ckpt, headNum, result, fresh, deep>>
      BY <2>4 DEF RewindPending
    <3>2. /\ Max(DOMAIN pending) = lastSeen
          /\ lastSeen \in DOMAIN pending /\ lastSeen \in 1..Len(chain)
      BY <2>0, <2>s, <2>w, <3>1, NewestIsLastSeen
    <3>3. CASE canonHash(lastSeen) = pending[lastSeen].hash /\ pc' = "append"
               /\ UNCHANGED <<pending, lastSeen>>
      <4>1. merged' = merged
        BY <3>1, <3>3 DEF merged, finalizedBlock
      <4>2. (FinalOk' <=> FinalOk) /\ (CheckpointHolds' <=> CheckpointHolds)
        BY <3>1, <3>3, <4>1 DEF FinalOk, CheckpointHolds, canonHash
      <4>3. chain[lastSeen].hash = pending[lastSeen].hash
        BY <3>2, <3>3 DEF canonHash
      <4> QED
        BY <2>a, <3>1, <3>2, <3>3, <4>1, <4>2, <4>3 DEF AgreeInv, Canonical
    <3>4. CASE pending' = Restrict(pending, rest) /\ pc' = pc
      <4>1. merged' = merged
        BY <3>1, <3>4 DEF merged, finalizedBlock
      <4>2. (FinalOk' <=> FinalOk) /\ (CheckpointHolds' <=> CheckpointHolds)
        BY <3>1, <4>1 DEF FinalOk, CheckpointHolds, canonHash
      <4>3. DOMAIN pending' = rest /\ \A n \in rest : pending'[n] = pending[n]
        BY <3>4 DEF Restrict
      <4>4. \A n \in rest : n \in DOMAIN pending /\ \A m \in (merged + 1)..n : m \in rest
        BY <2>0, <2>w
      <4> HIDE DEF rest
      <4> QED
        BY <2>a, <3>1, <3>4, <4>1, <4>2, <4>3, <4>4 DEF AgreeInv, Canonical
    <3> QED
      BY <2>4, <3>2, <3>3, <3>4 DEF RewindPending
  <2>5. CASE RewindToCheckpoint
    <3>1. /\ pc = "rewind" /\ DOMAIN pending = {}
          /\ UNCHANGED <<chain, reorgs, final, pending, baseline, ckpt, headNum, fresh, deep>>
      BY <2>5 DEF RewindToCheckpoint
    <3>2. \/ CheckpointHolds /\ pc' = "append" /\ lastSeen' = finalizedBlock
          \/ pc' = "idle" /\ result' = "error"
      BY <2>5 DEF RewindToCheckpoint, trustedHead, Abort
    <3>3. merged' = merged /\ merged = finalizedBlock
      BY <3>1, <3>2 DEF merged, finalizedBlock
    <3>4. (FinalOk' <=> FinalOk) /\ (CheckpointHolds' <=> CheckpointHolds)
      BY <3>1, <3>3 DEF FinalOk, CheckpointHolds, canonHash
    <3>5. (merged + 1)..finalizedBlock = {}
      BY <2>0, <3>3
    <3> QED
      BY <2>a, <3>1, <3>2, <3>3, <3>4, <3>5 DEF AgreeInv, Canonical
  <2>6. CASE AppendRange
    <3>1. /\ pc = "append" /\ pc' = "merge" /\ lastSeen' = headNum
          /\ pending' = IF from <= headNum THEN appendRange(from, headNum) ELSE pending
          /\ UNCHANGED <<chain, reorgs, final, ckpt, headNum, result, fresh, deep>>
      BY <2>6 DEF AppendRange
    <3>2. merged' = merged /\ finalizedTarget' = finalizedTarget
      BY <3>1 DEF merged, finalizedBlock, finalizedTarget
    <3>3. FinalOk'
      BY <2>a, <3>1, <3>2 DEF FinalOk
    <3>4. DOMAIN pending' = (merged + 1)..headNum
      BY <3>1, <3>2 DEF WindowInv
    <3>5. \A m \in (merged + 1)..headNum : chain'[m] = pending'[m]
      <4>1. \A m \in DOMAIN pending : chain[m] = pending[m]
        BY <2>a, <2>w, <3>1
      <4>2. CASE from <= headNum
        <5>1. \A m \in DOMAIN pending' :
                pending'[m] = IF m \in DOMAIN pending THEN pending[m] ELSE chain[m]
          BY <3>1, <4>2 DEF appendRange
        <5> QED
          BY <3>1, <3>4, <4>1, <5>1
      <4>3. CASE ~(from <= headNum)
        BY <3>1, <3>4, <4>1, <4>3
      <4> QED
        BY <4>2, <4>3
    <3>6. \A n \in DOMAIN pending' : \A m \in (merged + 1)..n : m \in (merged + 1)..headNum
      BY <2>0, <3>4
    <3> QED
      BY <3>1, <3>2, <3>3, <3>5, <3>6 DEF AgreeInv, Canonical
  <2>7. CASE MergeFinalized
    <3> DEFINE t == finalizedTarget
               taken == {n \in DOMAIN pending : n <= t}
    <3>1. /\ pc = "merge" /\ final' = applyAll(final, Restrict(pending, taken))
          /\ pending' = Restrict(pending, DOMAIN pending \ taken)
          /\ IF t > ckpt.block THEN pc' = "checkpoint" /\ result' = result
                                ELSE pc' = "idle" /\ result' = "ok"
          /\ UNCHANGED <<chain, reorgs, lastSeen, baseline, ckpt, headNum, fresh, deep>>
      BY <2>7 DEF MergeFinalized
    <3>2. UNCHANGED <<finalizedTarget, finalizedBlock>> /\ merged = finalizedBlock
      BY <3>1 DEF merged, finalizedBlock, finalizedTarget
    <3>3. merged' = t /\ merged <= t
      <4>1. CASE t > ckpt.block
        BY <2>0, <3>1, <3>2, <4>1 DEF merged
      <4>2. CASE ~(t > ckpt.block)
        <5>1. finalizedBlock = t
          BY <2>0, <2>w, <4>2
        <5>2. pc' = "idle"
          BY <3>1, <4>2
        <5> QED
          BY <2>0, <3>2, <5>1, <5>2 DEF merged
      <4> QED
        BY <4>1, <4>2
    <3>4. t <= lastSeen /\ t <= Len(chain) /\ t \in Nat
      BY <2>0, <2>s, <2>w, <3>1
    <3>5. FinalOk /\ \A m \in (merged + 1)..lastSeen : m <= t => chain[m] = pending[m]
      BY <2>a, <3>1
    <3>6. FinalOk'
      <4>1. \A m \in (merged + 1)..t : chain[m] = pending[m]
        BY <2>0, <3>4, <3>5
      <4>2. final' = OnChain(chain, t)
        BY <3>1, <3>3, <3>4, <3>5, <4>1, MergeIsChain
      <4> QED
        BY <3>1, <3>3, <4>2 DEF FinalOk
    <3>7. /\ DOMAIN pending' = (t + 1)..lastSeen
          /\ \A n \in DOMAIN pending' : n \in DOMAIN pending /\ pending'[n] = pending[n]
      <4>1. DOMAIN pending' = DOMAIN pending \ taken
        BY <3>1 DEF Restrict
      <4>2. DOMAIN pending \ taken = (t + 1)..lastSeen
        BY <2>0, <2>w, <3>3
      <4> QED
        BY <3>1, <4>1, <4>2 DEF Restrict
    <3>8. \A n \in DOMAIN pending' : \A m \in (t + 1)..n :
            m \in DOMAIN pending' /\ m \in (merged + 1)..n
      BY <2>0, <3>3, <3>4, <3>7
    <3>9. \A m \in (t + 1)..lastSeen : m \in DOMAIN pending' /\ m \in (merged + 1)..lastSeen
      BY <2>0, <3>3, <3>4, <3>7
    <3>10. ASSUME NEW n \in DOMAIN pending', chain[n].hash = pending'[n].hash
           PROVE  \A m \in (t + 1)..n : chain[m] = pending'[m]
      BY <2>a, <3>1, <3>7, <3>8, <3>10
    <3>11. fresh => \A m \in (t + 1)..lastSeen : chain[m] = pending'[m]
      BY <2>a, <3>1, <3>7, <3>9
    <3> HIDE DEF t, taken
    <3> QED
      BY <3>1, <3>3, <3>6, <3>10, <3>11 DEF AgreeInv, Canonical
  <2>8. CASE MoveCheckpoint
    <3>1. /\ pc = "checkpoint" /\ pc' = "idle" /\ result' = "ok"
          /\ ckpt' = [block |-> finalizedTarget, hash |-> canonHash(finalizedTarget)]
          /\ UNCHANGED <<chain, reorgs, final, pending, lastSeen, baseline, headNum, fresh, deep>>
      BY <2>8 DEF MoveCheckpoint
    <3>2. merged' = merged
      BY <2>0, <3>1 DEF merged, finalizedBlock
    <3>3. FinalOk' <=> FinalOk
      BY <3>1, <3>2 DEF FinalOk
    <3> QED
      BY <2>a, <3>1, <3>2, <3>3 DEF AgreeInv, Canonical
  <2>9. CASE CallFails
    <3>1. pc \in {"rewind", "append"} /\ pc' = "idle" /\ result' = "error"
      BY <2>9 DEF CallFails, Abort
    <3>2. UNCHANGED <<chain, reorgs, final, pending, lastSeen, baseline, ckpt, headNum, deep>>
      BY <2>9 DEF CallFails
    <3>3. merged' = merged
      BY <3>1, <3>2 DEF merged, finalizedBlock
    <3>4. (FinalOk' <=> FinalOk) /\ (CheckpointHolds' <=> CheckpointHolds)
      BY <3>2, <3>3 DEF FinalOk, CheckpointHolds, canonHash
    <3> QED
      BY <2>a, <3>1, <3>2, <3>3, <3>4 DEF AgreeInv, Canonical
  <2>10. CASE UNCHANGED vars
    <3>1. UNCHANGED <<merged, finalizedTarget>>
      BY <2>10 DEF vars, merged, finalizedBlock, finalizedTarget
    <3>2. (FinalOk' <=> FinalOk) /\ (CheckpointHolds' <=> CheckpointHolds)
      BY <2>10, <3>1 DEF vars, FinalOk, CheckpointHolds, canonHash
    <3> QED
      BY <2>a, <2>10, <3>1, <3>2 DEF vars, AgreeInv, Canonical
  <2> QED
    BY <2>1, <2>2, <2>3, <2>4, <2>5, <2>6, <2>7, <2>8, <2>9, <2>10 DEF Next, SyncStep
<1> QED
  BY <1>1, <1>2, LedgerReachable, LedgerWindow, PTL DEF Spec

\* Whatever the reorgs, as long as none reaches past the finality depth: what
\* was merged into the aggregates is what the token held at the checkpoint.
\* The hypotheses are those of run Ledger: every block carries a transfer
\* (LedgerMissedReorg shows what the others cost), no reorg strikes between the
\* last hash check and the log read, and no call fails after the merge.
THEOREM LedgerFinalIsCanonical ==
  ASSUME Faults \subseteq {"rpc"}, AllBlocksMatter
  PROVE  Spec => []FinalIsCanonical
<1>1. AgreeInv => FinalIsCanonical
  BY DEF AgreeInv, FinalIsCanonical, FinalOk, merged
<1> QED
  BY <1>1, LedgerAgreement, PTL

\* Under the same hypotheses a sync that ends well, with no reorg since it read
\* the head, leaves the view that the token's own state is, even after a reorg
\* past the finality depth that struck between two syncs.
THEOREM LedgerSnapshotIsChain ==
  ASSUME Faults \subseteq {"rpc"}, AllBlocksMatter
  PROVE  Spec => []SnapshotIsChain
<1>1. TypeOK /\ StageInv /\ WindowInv /\ AgreeInv => SnapshotIsChain
  <2> SUFFICES ASSUME TypeOK, StageInv, WindowInv, AgreeInv,
                      result = "ok", pc = "idle", fresh, deep # "during"
               PROVE  Snapshot = OnChain(chain, headNum)
    BY DEF SnapshotIsChain
  <2>1. FinalOk /\ \A m \in (merged + 1)..lastSeen : chain[m] = pending[m]
    BY DEF AgreeInv, Canonical
  <2>2. /\ lastSeen = headNum /\ merged <= headNum /\ headNum <= Len(chain) /\ headNum \in Nat
        /\ DOMAIN pending = (merged + 1)..headNum /\ merged \in Nat
    BY Numbers DEF WindowInv, StageInv
  <2>3. applyAll(final, Restrict(pending, {n \in DOMAIN pending : n <= headNum}))
          = OnChain(chain, headNum)
    BY <2>1, <2>2, MergeIsChain
  <2>4. {n \in DOMAIN pending : n <= headNum} = DOMAIN pending
    BY <2>2
  <2>5. Restrict(pending, DOMAIN pending) = pending
    BY DEF Restrict, TypeOK
  <2> QED
    BY <2>3, <2>4, <2>5 DEF Snapshot
<1> QED
  BY <1>1, LedgerReachable, LedgerWindow, LedgerAgreement, PTL
=============================================================================
