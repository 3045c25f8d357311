--------------------------- MODULE Issuer_proofs ---------------------------
(***************************************************************************)
(* Theorems about module Issuer, for every value of its constants.         *)
(***************************************************************************)
EXTENDS Issuer, Sums_proofs, SequenceTheorems

\* The transactions of the commands.
Txs == [kind: {"mint", "collect", "burn"}, op: OpSet]

\* A transaction as a command submits it: a collect or a burn is of a redeem.
SentFor(t) == t.kind \in {"collect", "burn"} => t.op.kind = "redeem"

\* What a redemption redeems is the value of its request.
Priced(o) == o.kind = "redeem" => o.amount = Value[o.request]

\* Where command c may be, given what it was asked to do.
StageOf(c) ==
  /\ pc[c] = "idle" <=> op[c] = Idle
  /\ pc[c] = "idle" => seen[c] = 0
  /\ tx[c] # "none" <=> pc[c] = "wait"
  /\ pc[c] = "wait" => op[c].kind \in {"mint", "redeem"}
  /\ pc[c] = "check" => op[c].kind = "mint"
  /\ pc[c] = "append" => op[c].kind # "mint"
  /\ pc[c] \in {"collect", "burn"} => op[c].kind = "redeem" /\ seen[c] = 0
  /\ pc[c] \in {"open", "append"} => op[c].kind # "reconcile"
  /\ pc[c] = "open" /\ op[c].kind = "redeem" => seen[c] = 1
  /\ pc[c] \in {"sync", "compare", "verdict"} <=> op[c].kind = "reconcile"
  /\ op[c].kind = "redeem" => seen[c] \in {0, 1}
  /\ Priced(op[c])
CommandStage == \A c \in Commands : StageOf(c)

\* The transactions of killed commands are as those submitted them.
OrphanStage ==
  /\ orphans \in Seq(Txs)
  /\ \A i \in DOMAIN orphans : SentFor(orphans[i]) /\ Priced(orphans[i].op)
StageInv == CommandStage /\ OrphanStage

\* Command c redeems r, and its collection of r's tokens was executed.
Collected(c, r) ==
  /\ op[c].kind = "redeem" /\ op[c].request = r
  /\ \/ pc[c] \in {"burn", "open", "append"}
     \/ pc[c] = "wait" /\ (seen[c] = 1 \/ tx[c] = "ok")

\* Command c redeems r, and its burn was executed.
Burned(c, r) ==
  /\ op[c].kind = "redeem" /\ op[c].request = r
  /\ \/ pc[c] \in {"open", "append"}
     \/ pc[c] = "wait" /\ seen[c] = 1 /\ tx[c] = "ok"

\* The i-th orphan burns the tokens of r.
BurnsOf(i, r) == orphans[i].kind = "burn" /\ orphans[i].op.request = r

\* At most one party may still burn and record r: a command that collected it,
\* or the burn of one that was killed.
OneRedeemer(r) ==
  /\ \A c, d \in Commands : Collected(c, r) /\ Collected(d, r) => c = d
  /\ \A i, j \in DOMAIN orphans : BurnsOf(i, r) /\ BurnsOf(j, r) => i = j
  /\ \A c \in Commands, i \in DOMAIN orphans : ~(Collected(c, r) /\ BurnsOf(i, r))

\* What that party has done so far about r.
RedeemOf(r) ==
  /\ OneRedeemer(r)
  /\ r \notin used =>
       /\ burned[r] = 0 /\ entered[r] = 0
       /\ \A c \in Commands : ~Collected(c, r)
       /\ \A i \in DOMAIN orphans : ~BurnsOf(i, r)
  /\ \A c \in Commands :
       /\ Collected(c, r) => entered[r] = 0
       /\ Collected(c, r) /\ ~Burned(c, r) => burned[r] = 0
       /\ Burned(c, r) => burned[r] = Value[r]
  /\ \A i \in DOMAIN orphans : BurnsOf(i, r) => burned[r] = 0 /\ entered[r] = 0
  /\ burned[r] \in {0, Value[r]}
  /\ entered[r] <= 1
  /\ entered[r] = 1 => burned[r] = Value[r]
RedeemInv == \A r \in Requests : RedeemOf(r)

\* Until commands overlap there is one at a time, and no transaction without
\* its command.
AloneInv ==
  ~crossed =>
    /\ \A c, d \in Commands : pc[c] # "idle" /\ pc[d] # "idle" => c = d
    /\ orphans = <<>>

\* What a command that runs alone knows is still so.
FreshInv ==
  ~crossed => \A c \in Commands :
    pc[c] \in {"check", "append"} => cached[c] = Total(file) /\ offset[c] = EndOf(file)

\* A chain that agreed has only burned since, but for a mint that came late.
ReconcileInv ==
  \A c \in Commands : pc[c] = "verdict" /\ agrees[c] /\ ~late[c] => supply <= seen[c]

\* What backs the supply: the reserve, and the deposits that were lost from it.
Backing == Total(file) + lost

\* The supply is within the reserve with what is on its way: a mint of c that
\* was submitted, a burn of c whose withdrawal is not recorded yet.
BackedOf(c) ==
  /\ op[c].kind # "reserve-sub"
  /\ op[c].kind = "mint" /\ tx[c] = "pending" => supply + op[c].amount <= Backing
  /\ op[c].kind = "redeem" /\ Burned(c, op[c].request) => supply + op[c].amount <= Backing
BackedInv ==
  ~crossed /\ ~drawn => supply <= Backing /\ \A c \in Commands : BackedOf(c)

\* What one step of Next may be: used to split every invariance proof.
LEMMA NextCases ==
  ASSUME [Next]_vars
  PROVE  \/ \E c \in Commands : StartMove(c)
         \/ \E c \in Commands : StartRedeem(c)
         \/ \E c \in Commands : StartReconcile(c)
         \/ \E c \in Commands : OpenReserve(c)
         \/ \E c \in Commands : AppendReserve(c)
         \/ \E c \in Commands : CheckMint(c)
         \/ \E c \in Commands : MintReceipt(c)
         \/ \E c \in Commands : Collect(c)
         \/ \E c \in Commands : RedeemReceipt(c)
         \/ \E c \in Commands : Burn(c)
         \/ \E c \in Commands : SyncLedger(c)
         \/ \E c \in Commands : CompareChain(c)
         \/ \E c \in Commands : ReportVerdict(c)
         \/ \E c \in Commands : MineTx(c)
         \/ \E c \in Commands : Kill(c)
         \/ MineOrphan
         \/ UNCHANGED vars
  BY DEF Next

\* The parameters, one by one.
LEMMA Parameters ==
  /\ Value \in [Requests -> Nat] /\ Amounts \subseteq Nat \ {0} /\ Ops \subseteq Kinds
  /\ MaxStarts \in Nat
  BY IssuerAssumption

\* What an operation carries.
LEMMA OpFields ==
  /\ \A o \in OpSet : o.amount \in Nat
                      /\ o.kind \in Kinds \cup {"none"}
                      /\ (o.kind = "redeem" => o.request \in Requests)
                      /\ (o.kind = "none" <=> o = Idle)
  /\ Idle \in OpSet /\ Idle.kind = "none"
  /\ [kind |-> "reconcile", amount |-> 0] \in OpSet
  /\ \A k \in {"mint", "reserve-add", "reserve-sub"}, v \in Nat :
       [kind |-> k, amount |-> v] \in OpSet
  /\ \A r \in Requests, v \in Nat : [kind |-> "redeem", amount |-> v, request |-> r] \in OpSet
  BY DEF OpSet, Idle, Kinds

\* The movements of a file are finitely many numbers.
LEMMA MovementsFinite ==
  ASSUME NEW lines \in Seq(Lines)
  PROVE  /\ IsFiniteSet(Movements(lines)) /\ Cardinality(Movements(lines)) \in Nat
         /\ \A i \in Movements(lines) : lines[i].amount \in Int
         /\ Total(lines) \in Int
<1>1. IsFiniteSet(1 .. Len(lines))
  BY FS_Interval
<1>2. Movements(lines) \subseteq 1 .. Len(lines)
  BY DEF Movements
<1>3. IsFiniteSet(Movements(lines))
  BY <1>1, <1>2, FS_Subset
<1>4. Cardinality(Movements(lines)) \in Nat
  BY <1>3, FS_CardinalityType
<1>5. \A i \in Movements(lines) : lines[i].amount \in Int
  <2> TAKE i \in Movements(lines)
  <2>1. lines[i] \in Lines
    BY <1>2
  <2> QED
    BY <2>1 DEF Lines
<1>6. Total(lines) \in Int
  BY <1>3, <1>5, SumInt DEF Total, Movements
<1> QED
  BY <1>3, <1>4, <1>5, <1>6

\* A write leaves a file.
LEMMA WriteType ==
  ASSUME NEW lines \in Seq(Lines), NEW at \in [line: Nat, behind: BOOLEAN], NEW l \in Lines
  PROVE  Write(lines, at, l) \in Seq(Lines)
<1>1. \A old \in Lines : Glued(old, l) \in Lines /\ Over(old, l) \in Lines
  BY DEF Glued, Over, Line, Lines
<1>2. ASSUME NEW i, NEW x, i \in DOMAIN lines => x \in Lines
      PROVE  [lines EXCEPT ![i] = x] \in Seq(Lines)
  <2>1. CASE i \in 1 .. Len(lines)
    BY <1>2, <2>1, ExceptSeq
  <2>2. CASE i \notin 1 .. Len(lines)
    <3>1. [lines EXCEPT ![i] = x] = lines
      BY <2>2
    <3> QED
      BY <3>1
  <2> QED
    BY <2>1, <2>2
<1>3. Append(lines, l) \in Seq(Lines)
  OBVIOUS
<1>4. \A i \in DOMAIN lines : lines[i] \in Lines
  OBVIOUS
<1>5. CASE at.behind
  BY <1>1, <1>2, <1>4, <1>5 DEF Write
<1>6. CASE ~at.behind /\ at.line < Len(lines)
  BY <1>1, <1>2, <1>4, <1>6 DEF Write
<1> QED
  BY <1>3, <1>5, <1>6 DEF Write

\* The parts of the typing invariant.
CommandsOK ==
  /\ pc \in [Commands -> PCs]
  /\ op \in [Commands -> OpSet]
  /\ cached \in [Commands -> Int]
  /\ offset \in [Commands -> [line: Nat, behind: BOOLEAN]]
  /\ seen \in [Commands -> Int]
  /\ agrees \in [Commands -> BOOLEAN]
  /\ late \in [Commands -> BOOLEAN]
  /\ tx \in [Commands -> {"none", "pending", "ok", "reverted"}]
FileOK == file \in Seq(Lines)
OrphansOK == orphans \in Seq(Txs)
ChainOK ==
  /\ supply \in Nat /\ holder \in Nat /\ issuer \in Nat /\ supply = holder + issuer
  /\ used \subseteq Requests /\ burned \in [Requests -> Nat]
HistoryOK ==
  /\ starts \in Nat /\ lost \in Nat
  /\ entered \in [Requests -> Nat]
FlagsOK == crossed \in BOOLEAN /\ drawn \in BOOLEAN

\* They make it up.
LEMMA TypeParts ==
  TypeOK <=> CommandsOK /\ FileOK /\ OrphansOK /\ ChainOK /\ HistoryOK /\ FlagsOK
  BY Zenon DEF TypeOK, CommandsOK, FileOK, OrphansOK, ChainOK, HistoryOK, FlagsOK, Txs

\* The typing invariant as it is inductive.
TypedInv == TypeOK /\ StageInv

\* Only a block changes the token.
LEMMA ChainFrame ==
  ASSUME [Next]_vars
  PROVE  \/ UNCHANGED <<supply, holder, issuer, used, burned>>
         \/ \E c \in Commands : MineTx(c)
         \/ MineOrphan
  BY NextCases DEF vars, chainVars, historyVars, Start, AppendReserve, Burn, CheckMint, Collect,
     CompareChain, Kill, MintReceipt, OpenReserve, RedeemReceipt, ReportVerdict, StartMove,
     StartReconcile, StartRedeem, SyncLedger

\* Only a write changes the file.
LEMMA FileFrame ==
  ASSUME [Next]_vars
  PROVE  \/ UNCHANGED file
         \/ \E c \in Commands : AppendReserve(c)
         \/ \E c \in Commands : Kill(c)
  BY NextCases DEF vars, chainVars, historyVars, Start, Burn, CheckMint, Collect, CompareChain,
     MineOrphan, MineTx, MintReceipt, OpenReserve, RedeemReceipt, ReportVerdict, StartMove,
     StartReconcile, StartRedeem, SyncLedger

\* An exit leaves the command well typed.
LEMMA ExitType == ASSUME CommandsOK, NEW c \in Commands, Exit(c) PROVE CommandsOK'
<1>1. Start0 \in [line: Nat, behind: BOOLEAN]
  BY DEF Start0
<1> QED
  BY <1>1, OpFields DEF Exit, CommandsOK, PCs

\* The transaction of a waiting command.
LEMMA TxOfType ==
  ASSUME TypeOK, StageInv, NEW c \in Commands, tx[c] # "none"
  PROVE  TxOf(c) \in Txs /\ SentFor(TxOf(c)) /\ TxOf(c).op = op[c]
<1>1. op[c] \in OpSet /\ op[c].kind \in {"mint", "redeem"}
  BY TypeParts DEF CommandsOK, StageInv, CommandStage, StageOf
<1> QED
  BY <1>1 DEF TxOf, Txs, SentFor

\* The transaction taken next.
LEMMA HeadType ==
  ASSUME TypeOK, StageInv, orphans # <<>>
  PROVE  Head(orphans) \in Txs /\ Head(orphans) = orphans[1] /\ SentFor(Head(orphans))
<1>1. orphans \in Seq(Txs)
  BY DEF TypeOK, Txs
<1>2. Len(orphans) > 0 /\ 1 \in DOMAIN orphans
  BY <1>1
<1> QED
  BY <1>1, <1>2 DEF StageInv, OrphanStage

\* A transaction that executes leaves the token well typed.
LEMMA ExecuteType ==
  ASSUME ChainOK, NEW t \in Txs, SentFor(t), Executes(t), Execute(t)
  PROVE  ChainOK'
<1>1. t.op \in OpSet /\ t.op.amount \in Nat /\ t.kind \in {"mint", "collect", "burn"}
  BY OpFields DEF Txs
<1>2. t.kind # "mint" => t.op.request \in Requests
  BY <1>1, OpFields DEF SentFor
<1>3. CASE t.kind = "mint"
  BY <1>1, <1>3 DEF Execute, ChainOK
<1>4. CASE t.kind = "collect"
  BY <1>1, <1>2, <1>4 DEF Execute, Executes, Collectable, ChainOK
<1>5. CASE t.kind = "burn"
  BY <1>1, <1>2, <1>5 DEF Execute, Executes, ChainOK
<1> QED
  BY <1>1, <1>3, <1>4, <1>5

\* A step keeps the commands well typed.
LEMMA CommandsStep ==
  ASSUME TypeOK, StageInv, [Next]_vars
  PROVE  CommandsOK'
<1> USE DEF chainVars, historyVars
<1> USE DEF PCs
<1>1. ASSUME NEW c \in Commands, StartMove(c) PROVE CommandsOK'
  BY <1>1, TypeParts, ExitType, Parameters, OpFields DEF StartMove, Start, Goto, CommandsOK
<1>2. ASSUME NEW c \in Commands, StartRedeem(c) PROVE CommandsOK'
  BY <1>2, TypeParts, ExitType, Parameters, OpFields DEF StartRedeem, Start, Goto, CommandsOK
<1>3. ASSUME NEW c \in Commands, StartReconcile(c) PROVE CommandsOK'
  BY <1>3, TypeParts, ExitType, Parameters, OpFields DEF StartReconcile, Start, Goto, CommandsOK
<1>4. ASSUME NEW c \in Commands, OpenReserve(c) PROVE CommandsOK'
  <2>1. Total(file) \in Int /\ Len(file) \in Nat
    BY TypeParts, MovementsFinite DEF FileOK
  <2>2. EndOf(file) \in [line: Nat, behind: BOOLEAN]
    BY <2>1 DEF EndOf
  <2> QED
    BY <1>4, <2>1, <2>2, TypeParts DEF OpenReserve, Goto, CommandsOK
<1>5. ASSUME NEW c \in Commands, AppendReserve(c) PROVE CommandsOK'
  BY <1>5, TypeParts, ExitType, Parameters, OpFields DEF AppendReserve
<1>6. ASSUME NEW c \in Commands, CheckMint(c) PROVE CommandsOK'
  BY <1>6, TypeParts, ExitType, Parameters, OpFields DEF CheckMint, Goto, CommandsOK
<1>7. ASSUME NEW c \in Commands, MintReceipt(c) PROVE CommandsOK'
  BY <1>7, TypeParts, ExitType, Parameters, OpFields DEF MintReceipt
<1>8. ASSUME NEW c \in Commands, Collect(c) PROVE CommandsOK'
  BY <1>8, TypeParts, ExitType, Parameters, OpFields DEF Collect, Goto, CommandsOK
<1>9. ASSUME NEW c \in Commands, RedeemReceipt(c) PROVE CommandsOK'
  BY <1>9, TypeParts, ExitType, Parameters, OpFields DEF RedeemReceipt, Succeeded, Goto,
     CommandsOK
<1>10. ASSUME NEW c \in Commands, Burn(c) PROVE CommandsOK'
  <2>1. CASE Exit(c)
    BY <2>1, TypeParts, ExitType
  <2>2. CASE ~Exit(c)
    <3>1. /\ pc' = [pc EXCEPT ![c] = "wait"] /\ seen' = [seen EXCEPT ![c] = 1]
          /\ tx' = [tx EXCEPT ![c] = "pending"]
          /\ UNCHANGED <<op, cached, offset, agrees, late>>
      BY <1>10, <2>2 DEF Burn, Goto
    <3>2. CommandsOK
      BY TypeParts
    <3> QED
      BY <3>1, <3>2 DEF CommandsOK
  <2> QED
    BY <2>1, <2>2
<1>11. ASSUME NEW c \in Commands, SyncLedger(c) PROVE CommandsOK'
  <2>1. CommandsOK /\ supply \in Int
    BY TypeParts DEF ChainOK
  <2> QED
    BY <1>11, <2>1 DEF SyncLedger, Goto, CommandsOK
<1>12. ASSUME NEW c \in Commands, CompareChain(c) PROVE CommandsOK'
  BY <1>12, TypeParts, ExitType, Parameters, OpFields DEF CompareChain, Goto, CommandsOK
<1>13. ASSUME NEW c \in Commands, ReportVerdict(c) PROVE CommandsOK'
  BY <1>13, TypeParts, ExitType, Parameters, OpFields DEF ReportVerdict
<1>14. ASSUME NEW c \in Commands, MineTx(c) PROVE CommandsOK'
  BY <1>14, TypeParts, ExitType, Parameters, OpFields DEF MineTx, processVars, Execute,
     Unexecuted,
     CommandsOK
<1>15. ASSUME NEW c \in Commands, Kill(c) PROVE CommandsOK'
  BY <1>15, TypeParts, ExitType, Parameters, OpFields DEF Kill
<1>16. ASSUME MineOrphan PROVE CommandsOK'
  BY <1>16, TypeParts, ExitType, Parameters, OpFields DEF MineOrphan, Execute, Unexecuted,
     commandVars, processVars, CommandsOK
<1>17. ASSUME UNCHANGED vars PROVE CommandsOK'
  BY <1>17, TypeParts, ExitType, Parameters, OpFields DEF vars, commandVars, processVars,
     CommandsOK
<1> QED
  BY <1>1, <1>2, <1>3, <1>4, <1>5, <1>6, <1>7, <1>8, <1>9, <1>10, <1>11, <1>12, <1>13, <1>14,
     <1>15, <1>16, <1>17, NextCases

\* A step leaves a file.
LEMMA FileStep == ASSUME TypeOK, StageInv, [Next]_vars PROVE FileOK'
<1> USE TypeParts
<1>1. ASSUME NEW c \in Commands, pc[c] # "idle"
      PROVE  /\ CutLines(c) \subseteq Lines
             /\ offset[c] \in [line: Nat, behind: BOOLEAN]
  <2>1. op[c].amount \in Nat
    BY OpFields DEF CommandsOK
  <2> QED
    BY <2>1 DEF CutLines, Line, Lines, Movement, CommandsOK
<1>2. CASE UNCHANGED file
  BY <1>2 DEF FileOK
<1>3. ASSUME NEW c \in Commands, AppendReserve(c) PROVE FileOK'
  BY <1>1, <1>3, WriteType DEF AppendReserve, Written, CutLines, FileOK
<1>4. ASSUME NEW c \in Commands, Kill(c) PROVE FileOK'
  BY <1>1, <1>4, WriteType DEF Kill, Written, FileOK
<1> QED
  BY <1>2, <1>3, <1>4, FileFrame

\* A step leaves a token.
LEMMA ChainStep == ASSUME TypeOK, StageInv, [Next]_vars PROVE ChainOK'
<1> USE TypeParts
<1>1. CASE UNCHANGED <<supply, holder, issuer, used, burned>>
  BY <1>1 DEF ChainOK
<1>2. ASSUME NEW c \in Commands, MineTx(c) PROVE ChainOK'
  <2>1. CASE Executes(TxOf(c)) /\ Execute(TxOf(c))
    BY <1>2, <2>1, TxOfType, ExecuteType DEF MineTx
  <2>2. CASE Unexecuted
    BY <2>2 DEF Unexecuted, ChainOK
  <2> QED
    BY <1>2, <2>1, <2>2 DEF MineTx
<1>3. ASSUME MineOrphan PROVE ChainOK'
  <2>1. CASE Executes(Head(orphans)) /\ Execute(Head(orphans))
    BY <1>3, <2>1, HeadType, ExecuteType DEF MineOrphan
  <2>2. CASE Unexecuted
    BY <2>2 DEF Unexecuted, ChainOK
  <2> QED
    BY <1>3, <2>1, <2>2 DEF MineOrphan
<1> QED
  BY <1>1, <1>2, <1>3, ChainFrame

\* A step leaves a queue of transactions, each as its command submitted it.
LEMMA OrphansStep ==
  ASSUME TypeOK, StageInv, [Next]_vars
  PROVE  OrphanStage'
<1> USE DEF chainVars, historyVars
<1>1. ASSUME NEW c \in Commands, StartMove(c) PROVE OrphanStage'
  BY <1>1, TypeParts DEF StageInv, StartMove, Start, OrphanStage
<1>2. ASSUME NEW c \in Commands, StartRedeem(c) PROVE OrphanStage'
  BY <1>2, TypeParts DEF StageInv, StartRedeem, Start, OrphanStage
<1>3. ASSUME NEW c \in Commands, StartReconcile(c) PROVE OrphanStage'
  BY <1>3, TypeParts DEF StageInv, StartReconcile, Start, OrphanStage
<1>4. ASSUME NEW c \in Commands, OpenReserve(c) PROVE OrphanStage'
  BY <1>4, TypeParts DEF StageInv, OpenReserve, OrphanStage
<1>5. ASSUME NEW c \in Commands, AppendReserve(c) PROVE OrphanStage'
  BY <1>5, TypeParts DEF StageInv, AppendReserve, OrphanStage
<1>6. ASSUME NEW c \in Commands, CheckMint(c) PROVE OrphanStage'
  BY <1>6, TypeParts DEF StageInv, CheckMint, OrphanStage
<1>7. ASSUME NEW c \in Commands, MintReceipt(c) PROVE OrphanStage'
  BY <1>7, TypeParts DEF StageInv, MintReceipt, OrphanStage
<1>8. ASSUME NEW c \in Commands, Collect(c) PROVE OrphanStage'
  BY <1>8, TypeParts DEF StageInv, Collect, OrphanStage
<1>9. ASSUME NEW c \in Commands, RedeemReceipt(c) PROVE OrphanStage'
  BY <1>9, TypeParts DEF StageInv, RedeemReceipt, Succeeded, OrphanStage
<1>10. ASSUME NEW c \in Commands, Burn(c) PROVE OrphanStage'
  BY <1>10, TypeParts DEF StageInv, Burn, OrphanStage
<1>11. ASSUME NEW c \in Commands, SyncLedger(c) PROVE OrphanStage'
  BY <1>11, TypeParts DEF StageInv, SyncLedger, OrphanStage
<1>12. ASSUME NEW c \in Commands, CompareChain(c) PROVE OrphanStage'
  BY <1>12, TypeParts DEF StageInv, CompareChain, OrphanStage
<1>13. ASSUME NEW c \in Commands, ReportVerdict(c) PROVE OrphanStage'
  BY <1>13, TypeParts DEF StageInv, ReportVerdict, OrphanStage
<1>14. ASSUME NEW c \in Commands, MineTx(c) PROVE OrphanStage'
  BY <1>14, TypeParts DEF StageInv, MineTx, processVars, Execute, Unexecuted, OrphanStage
<1>15. ASSUME NEW c \in Commands, Kill(c) PROVE OrphanStage'
  <2>1. CASE tx[c] = "pending"
    <3>1. TxOf(c) \in Txs /\ SentFor(TxOf(c)) /\ TxOf(c).op = op[c] /\ Priced(op[c])
      BY <2>1, TxOfType DEF StageInv, CommandStage, StageOf
    <3>2. orphans \in Seq(Txs) /\ orphans' = Append(orphans, TxOf(c))
      BY <1>15, <2>1 DEF Kill, StageInv, OrphanStage
    <3>3. /\ orphans' \in Seq(Txs) /\ Len(orphans') = Len(orphans) + 1
          /\ \A i \in 1 .. Len(orphans) : orphans'[i] = orphans[i]
          /\ orphans'[Len(orphans) + 1] = TxOf(c)
      BY <3>1, <3>2, AppendProperties
    <3> QED
      BY <3>1, <3>2, <3>3 DEF StageInv, OrphanStage
  <2>2. CASE tx[c] # "pending"
    BY <1>15, <2>2 DEF Kill, StageInv, OrphanStage
  <2> QED
    BY <2>1, <2>2
<1>16. ASSUME MineOrphan PROVE OrphanStage'
  <2>1. orphans \in Seq(Txs) /\ orphans # <<>> /\ orphans' = Tail(orphans)
    BY <1>16 DEF MineOrphan, StageInv, OrphanStage
  <2>2. \A i \in 1 .. Len(Tail(orphans)) :
           i + 1 \in 1 .. Len(orphans) /\ Tail(orphans)[i] = orphans[i + 1]
    BY <2>1
  <2>3. DOMAIN Tail(orphans) = 1 .. Len(Tail(orphans)) /\ DOMAIN orphans = 1 .. Len(orphans)
    BY <2>1
  <2> QED
    BY <2>1, <2>2, <2>3 DEF StageInv, OrphanStage
<1>17. ASSUME UNCHANGED vars PROVE OrphanStage'
  BY <1>17, TypeParts DEF StageInv, vars, commandVars, processVars, OrphanStage
<1> QED
  BY <1>1, <1>2, <1>3, <1>4, <1>5, <1>6, <1>7, <1>8, <1>9, <1>10, <1>11, <1>12, <1>13, <1>14,
     <1>15, <1>16, <1>17, NextCases

\* A write keeps the counters.
LEMMA WrittenHistory ==
  ASSUME TypeOK, NEW c \in Commands, NEW l, Written(c, l), starts' = starts
  PROVE  HistoryOK'
<1>1. CommandsOK /\ HistoryOK /\ file \in Seq(Lines)
  BY TypeParts DEF FileOK
<1>2. RunOver(c) \in Nat
  BY <1>1, MovementsFinite DEF RunOver
<1>3. entered' \in [Requests -> Nat]
  <2>1. op[c].kind = "redeem" => op[c].request \in Requests
    BY <1>1, OpFields DEF CommandsOK
  <2> QED
    BY <1>1, <2>1 DEF Written, HistoryOK
<1> QED
  BY <1>1, <1>2, <1>3 DEF Written, HistoryOK

\* A step keeps the counters.
LEMMA HistoryStep ==
  ASSUME TypeOK, StageInv, [Next]_vars
  PROVE  HistoryOK'
<1> USE DEF chainVars, historyVars
<1>1. ASSUME NEW c \in Commands, StartMove(c) PROVE HistoryOK'
  BY <1>1, TypeParts DEF StartMove, Start, HistoryOK
<1>2. ASSUME NEW c \in Commands, StartRedeem(c) PROVE HistoryOK'
  BY <1>2, TypeParts DEF StartRedeem, Start, HistoryOK
<1>3. ASSUME NEW c \in Commands, StartReconcile(c) PROVE HistoryOK'
  BY <1>3, TypeParts DEF StartReconcile, Start, HistoryOK
<1>4. ASSUME NEW c \in Commands, OpenReserve(c) PROVE HistoryOK'
  BY <1>4, TypeParts DEF OpenReserve, HistoryOK
<1>5. ASSUME NEW c \in Commands, AppendReserve(c) PROVE HistoryOK'
  BY <1>5, WrittenHistory DEF AppendReserve
<1>6. ASSUME NEW c \in Commands, CheckMint(c) PROVE HistoryOK'
  BY <1>6, TypeParts DEF CheckMint, HistoryOK
<1>7. ASSUME NEW c \in Commands, MintReceipt(c) PROVE HistoryOK'
  BY <1>7, TypeParts DEF MintReceipt, HistoryOK
<1>8. ASSUME NEW c \in Commands, Collect(c) PROVE HistoryOK'
  BY <1>8, TypeParts DEF Collect, HistoryOK
<1>9. ASSUME NEW c \in Commands, RedeemReceipt(c) PROVE HistoryOK'
  BY <1>9, TypeParts DEF RedeemReceipt, Succeeded, HistoryOK
<1>10. ASSUME NEW c \in Commands, Burn(c) PROVE HistoryOK'
  BY <1>10, TypeParts DEF Burn, HistoryOK
<1>11. ASSUME NEW c \in Commands, SyncLedger(c) PROVE HistoryOK'
  BY <1>11, TypeParts DEF SyncLedger, HistoryOK
<1>12. ASSUME NEW c \in Commands, CompareChain(c) PROVE HistoryOK'
  BY <1>12, TypeParts DEF CompareChain, HistoryOK
<1>13. ASSUME NEW c \in Commands, ReportVerdict(c) PROVE HistoryOK'
  BY <1>13, TypeParts DEF ReportVerdict, HistoryOK
<1>14. ASSUME NEW c \in Commands, MineTx(c) PROVE HistoryOK'
  BY <1>14, TypeParts DEF MineTx, processVars, Execute, Unexecuted, HistoryOK
<1>15. ASSUME NEW c \in Commands, Kill(c) PROVE HistoryOK'
  <2>1. starts' = starts /\ HistoryOK
    BY <1>15, TypeParts DEF Kill
  <2>2. CASE UNCHANGED <<entered, lost>>
    BY <2>1, <2>2 DEF HistoryOK
  <2>3. CASE \E line \in CutLines(c) : Written(c, line)
    BY <2>1, <2>3, WrittenHistory
  <2> QED
    BY <1>15, <2>2, <2>3 DEF Kill
<1>16. ASSUME MineOrphan PROVE HistoryOK'
  BY <1>16, TypeParts DEF MineOrphan, Execute, Unexecuted, commandVars, processVars, HistoryOK
<1>17. ASSUME UNCHANGED vars PROVE HistoryOK'
  BY <1>17, TypeParts DEF vars, commandVars, processVars, HistoryOK
<1> QED
  BY <1>1, <1>2, <1>3, <1>4, <1>5, <1>6, <1>7, <1>8, <1>9, <1>10, <1>11, <1>12, <1>13, <1>14,
     <1>15, <1>16, <1>17, NextCases

\* A step keeps the flags.
LEMMA FlagsStep ==
  ASSUME TypeOK, StageInv, [Next]_vars
  PROVE  FlagsOK'
<1> USE DEF chainVars, historyVars
<1>1. ASSUME NEW c \in Commands, StartMove(c) PROVE FlagsOK'
  BY <1>1, TypeParts DEF StartMove, Start, FlagsOK
<1>2. ASSUME NEW c \in Commands, StartRedeem(c) PROVE FlagsOK'
  BY <1>2, TypeParts DEF StartRedeem, Start, FlagsOK
<1>3. ASSUME NEW c \in Commands, StartReconcile(c) PROVE FlagsOK'
  BY <1>3, TypeParts DEF StartReconcile, Start, FlagsOK
<1>4. ASSUME NEW c \in Commands, OpenReserve(c) PROVE FlagsOK'
  BY <1>4, TypeParts DEF OpenReserve, FlagsOK
<1>5. ASSUME NEW c \in Commands, AppendReserve(c) PROVE FlagsOK'
  BY <1>5, TypeParts DEF AppendReserve, FlagsOK
<1>6. ASSUME NEW c \in Commands, CheckMint(c) PROVE FlagsOK'
  BY <1>6, TypeParts DEF CheckMint, FlagsOK
<1>7. ASSUME NEW c \in Commands, MintReceipt(c) PROVE FlagsOK'
  BY <1>7, TypeParts DEF MintReceipt, FlagsOK
<1>8. ASSUME NEW c \in Commands, Collect(c) PROVE FlagsOK'
  BY <1>8, TypeParts DEF Collect, FlagsOK
<1>9. ASSUME NEW c \in Commands, RedeemReceipt(c) PROVE FlagsOK'
  BY <1>9, TypeParts DEF RedeemReceipt, Succeeded, FlagsOK
<1>10. ASSUME NEW c \in Commands, Burn(c) PROVE FlagsOK'
  BY <1>10, TypeParts DEF Burn, FlagsOK
<1>11. ASSUME NEW c \in Commands, SyncLedger(c) PROVE FlagsOK'
  BY <1>11, TypeParts DEF SyncLedger, FlagsOK
<1>12. ASSUME NEW c \in Commands, CompareChain(c) PROVE FlagsOK'
  BY <1>12, TypeParts DEF CompareChain, FlagsOK
<1>13. ASSUME NEW c \in Commands, ReportVerdict(c) PROVE FlagsOK'
  BY <1>13, TypeParts DEF ReportVerdict, FlagsOK
<1>14. ASSUME NEW c \in Commands, MineTx(c) PROVE FlagsOK'
  BY <1>14, TypeParts DEF MineTx, processVars, Execute, Unexecuted, FlagsOK
<1>15. ASSUME NEW c \in Commands, Kill(c) PROVE FlagsOK'
  BY <1>15, TypeParts DEF Kill, FlagsOK
<1>16. ASSUME MineOrphan PROVE FlagsOK'
  BY <1>16, TypeParts DEF MineOrphan, Execute, Unexecuted, commandVars, processVars, FlagsOK
<1>17. ASSUME UNCHANGED vars PROVE FlagsOK'
  BY <1>17, TypeParts DEF vars, commandVars, processVars, FlagsOK
<1> QED
  BY <1>1, <1>2, <1>3, <1>4, <1>5, <1>6, <1>7, <1>8, <1>9, <1>10, <1>11, <1>12, <1>13, <1>14,
     <1>15, <1>16, <1>17, NextCases

\* A step keeps every command at a stage of its operation.
LEMMA StageStep ==
  ASSUME TypeOK, StageInv, [Next]_vars
  PROVE  CommandStage'
<1> USE DEF chainVars, historyVars
<1>1. ASSUME NEW c \in Commands, StartMove(c) PROVE CommandStage'
  BY <1>1, Parameters, OpFields, TypeParts DEF StartMove, Start, Goto, CommandStage, StageOf,
     CommandsOK, StageInv, Priced
<1>2. ASSUME NEW c \in Commands, StartRedeem(c) PROVE CommandStage'
  BY <1>2, Parameters, OpFields, TypeParts DEF StartRedeem, Start, Goto, CommandStage, StageOf,
     CommandsOK, StageInv, Priced
<1>3. ASSUME NEW c \in Commands, StartReconcile(c) PROVE CommandStage'
  BY <1>3, Parameters, OpFields, TypeParts DEF StartReconcile, Start, Goto, CommandStage,
     StageOf, CommandsOK, StageInv, Priced
<1>4. ASSUME NEW c \in Commands, OpenReserve(c) PROVE CommandStage'
  BY <1>4, Parameters, OpFields, TypeParts DEF OpenReserve, Goto, CommandStage, StageOf,
     StageInv, Priced
<1>5. ASSUME NEW c \in Commands, AppendReserve(c) PROVE CommandStage'
  BY <1>5, Parameters, OpFields, TypeParts DEF AppendReserve, Exit, CommandStage, StageOf,
     CommandsOK, StageInv, Priced
<1>6. ASSUME NEW c \in Commands, CheckMint(c) PROVE CommandStage'
  BY <1>6, Parameters, OpFields, TypeParts DEF CheckMint, Goto, Exit, CommandStage, StageOf,
     CommandsOK, StageInv, Priced
<1>7. ASSUME NEW c \in Commands, MintReceipt(c) PROVE CommandStage'
  BY <1>7, Parameters, OpFields, TypeParts DEF MintReceipt, Exit, CommandStage, StageOf,
     CommandsOK, StageInv, Priced
<1>8. ASSUME NEW c \in Commands, Collect(c) PROVE CommandStage'
  BY <1>8, Parameters, OpFields, TypeParts DEF Collect, Goto, Exit, CommandStage, StageOf,
     CommandsOK, StageInv, Priced
<1>9. ASSUME NEW c \in Commands, RedeemReceipt(c) PROVE CommandStage'
  BY <1>9, Parameters, OpFields, TypeParts DEF RedeemReceipt, Succeeded, Goto, Exit,
     CommandStage, StageOf, CommandsOK, StageInv, Priced
<1>10. ASSUME NEW c \in Commands, Burn(c) PROVE CommandStage'
  BY <1>10, Parameters, OpFields, TypeParts DEF Burn, Goto, Exit, CommandStage, StageOf,
     CommandsOK, StageInv, Priced
<1>11. ASSUME NEW c \in Commands, SyncLedger(c) PROVE CommandStage'
  BY <1>11, Parameters, OpFields, TypeParts DEF SyncLedger, Goto, CommandStage, StageOf,
     StageInv, Priced
<1>12. ASSUME NEW c \in Commands, CompareChain(c) PROVE CommandStage'
  BY <1>12, Parameters, OpFields, TypeParts DEF CompareChain, Goto, Exit, CommandStage, StageOf,
     CommandsOK, StageInv, Priced
<1>13. ASSUME NEW c \in Commands, ReportVerdict(c) PROVE CommandStage'
  BY <1>13, Parameters, OpFields, TypeParts DEF ReportVerdict, Exit, CommandStage, StageOf,
     CommandsOK, StageInv, Priced
<1>14. ASSUME NEW c \in Commands, MineTx(c) PROVE CommandStage'
  BY <1>14, Parameters, OpFields, TypeParts DEF MineTx, processVars, Execute, Unexecuted,
     CommandStage,
     StageOf, CommandsOK, StageInv, Priced
<1>15. ASSUME NEW c \in Commands, Kill(c) PROVE CommandStage'
  BY <1>15, Parameters, OpFields, TypeParts DEF Kill, Exit, CommandStage, StageOf, CommandsOK,
     StageInv, Priced
<1>16. ASSUME MineOrphan PROVE CommandStage'
  BY <1>16, Parameters, OpFields, TypeParts DEF MineOrphan, Execute, Unexecuted, commandVars,
     processVars,
     CommandStage, StageOf, StageInv, Priced
<1>17. ASSUME UNCHANGED vars PROVE CommandStage'
  BY <1>17, Parameters, OpFields, TypeParts DEF vars, commandVars, processVars, CommandStage,
     StageOf,
     StageInv, Priced
<1> QED
  BY <1>1, <1>2, <1>3, <1>4, <1>5, <1>6, <1>7, <1>8, <1>9, <1>10, <1>11, <1>12, <1>13, <1>14,
     <1>15, <1>16, <1>17, NextCases

\* Every reachable state is well typed.
LEMMA IssuerTyped == Spec => []TypedInv
<1>1. Init => TypedInv
  <2> SUFFICES ASSUME Init PROVE TypedInv
    OBVIOUS
  <2>1. TypeOK
    <3>1. CommandsOK
      BY OpFields DEF Init, CommandsOK, PCs, Start0
    <3>2. file \in Seq(Lines) /\ orphans \in Seq(Txs)
      BY DEF Init
    <3>3. ChainOK /\ HistoryOK
      BY DEF Init, ChainOK, HistoryOK
    <3>4. FlagsOK
      BY DEF Init, FlagsOK
    <3> QED
      BY <3>1, <3>2, <3>3, <3>4, TypeParts DEF FileOK, OrphansOK
  <2>2. StageInv
    BY OpFields DEF Init, StageInv, CommandStage, OrphanStage, StageOf, Priced
  <2> QED
    BY <2>1, <2>2 DEF TypedInv
<1>2. TypedInv /\ [Next]_vars => TypedInv'
  <2> SUFFICES ASSUME TypeOK, StageInv, [Next]_vars PROVE TypedInv'
    BY DEF TypedInv
  <2>1. CommandsOK' /\ FileOK' /\ ChainOK' /\ HistoryOK' /\ FlagsOK' /\ StageInv'
    BY CommandsStep, FileStep, ChainStep, OrphansStep, HistoryStep, FlagsStep, StageStep
       DEF StageInv
  <2>2. OrphansOK'
    BY <2>1 DEF StageInv, OrphanStage, OrphansOK
  <2>3. TypeOK'
    BY <2>1, <2>2, TypeParts, PTL
  <2> QED
    BY <2>1, <2>3 DEF TypedInv
<1> QED
  BY <1>1, <1>2, PTL DEF Spec

\* Every reachable state is well typed (the variables of cmd/issuer and of the
\* reserve file), and the token's balances add up to its supply.
THEOREM IssuerTypeOK == Spec => []TypeOK
  BY IssuerTyped, PTL DEF TypedInv

\* The step moves no redemption forward: what was collected and burned stays so.
Quiet ==
  /\ UNCHANGED <<used, burned, entered, orphans>>
  /\ \A c \in Commands, r \in Requests :
       Collected(c, r)' => Collected(c, r) /\ (Burned(c, r)' <=> Burned(c, r))

\* All steps but a block, a record and a kill are quiet.
LEMMA QuietSteps ==
  ASSUME TypedInv, [Next]_vars
  PROVE  \/ Quiet
         \/ \E c \in Commands : AppendReserve(c) \/ MineTx(c) \/ Kill(c)
         \/ MineOrphan
<1> USE DEF TypedInv, StageInv, CommandStage, chainVars, historyVars
<1>0. CommandsOK
  BY TypeParts
<1>1. ASSUME NEW c \in Commands, StartMove(c) PROVE Quiet
  BY <1>0, <1>1, OpFields DEF StartMove, Start, Goto, CommandsOK, Quiet, Collected, Burned
<1>2. ASSUME NEW c \in Commands, StartRedeem(c) PROVE Quiet
  BY <1>0, <1>2, OpFields DEF StartRedeem, Start, Goto, Quiet, Collected, Burned
<1>3. ASSUME NEW c \in Commands, StartReconcile(c) PROVE Quiet
  BY <1>0, <1>3, OpFields DEF StartReconcile, Start, Goto, Quiet, Collected, Burned
<1>4. ASSUME NEW c \in Commands, OpenReserve(c) PROVE Quiet
  BY <1>0, <1>4, OpFields DEF OpenReserve, Goto, Quiet, Collected, Burned
<1>5. ASSUME NEW c \in Commands, CheckMint(c) PROVE Quiet
  BY <1>0, <1>5, OpFields DEF CheckMint, Goto, Exit, CommandsOK, StageOf, Quiet, Collected,
     Burned
<1>6. ASSUME NEW c \in Commands, MintReceipt(c) PROVE Quiet
  BY <1>0, <1>6, OpFields DEF MintReceipt, Exit, Quiet, Collected, Burned
<1>7. ASSUME NEW c \in Commands, Collect(c) PROVE Quiet
  BY <1>0, <1>7, OpFields DEF Collect, Goto, Exit, CommandsOK, StageOf, Quiet, Collected, Burned
<1>8. ASSUME NEW c \in Commands, RedeemReceipt(c) PROVE Quiet
  BY <1>0, <1>8, OpFields DEF RedeemReceipt, Succeeded, Goto, Exit, CommandsOK, StageOf, Quiet,
     Collected, Burned
<1>9. ASSUME NEW c \in Commands, Burn(c) PROVE Quiet
  <2>1. pc[c] = "burn" /\ UNCHANGED <<used, burned, entered, orphans>>
    BY <1>9 DEF Burn
  <2>2. CASE Exit(c)
    BY <1>0, <2>1, <2>2, OpFields DEF Exit, CommandsOK, Quiet, Collected, Burned
  <2>3. CASE ~Exit(c)
    <3>1. /\ op' = op /\ pc' = [pc EXCEPT ![c] = "wait"] /\ seen' = [seen EXCEPT ![c] = 1]
          /\ tx' = [tx EXCEPT ![c] = "pending"]
      BY <1>9, <2>3 DEF Burn, Goto
    <3> QED
      BY <1>0, <2>1, <3>1, OpFields DEF CommandsOK, Quiet, Collected, Burned
  <2> QED
    BY <2>2, <2>3
<1>10. ASSUME NEW c \in Commands, SyncLedger(c) PROVE Quiet
  BY <1>0, <1>10, OpFields DEF SyncLedger, Goto, Quiet, Collected, Burned
<1>11. ASSUME NEW c \in Commands, CompareChain(c) PROVE Quiet
  <2>1. pc[c] = "compare" /\ UNCHANGED <<used, burned, entered, orphans>>
    BY <1>11 DEF CompareChain
  <2>2. CASE Exit(c)
    BY <1>0, <2>1, <2>2, OpFields DEF Exit, CommandsOK, Quiet, Collected, Burned
  <2>3. CASE ~Exit(c)
    <3>1. pc' = [pc EXCEPT ![c] = "verdict"] /\ UNCHANGED <<op, seen, tx>>
      BY <1>11, <2>3 DEF CompareChain, Goto
    <3> QED
      BY <1>0, <2>1, <3>1, OpFields DEF CommandsOK, Quiet, Collected, Burned
  <2> QED
    BY <2>2, <2>3
<1>12. ASSUME NEW c \in Commands, ReportVerdict(c) PROVE Quiet
  BY <1>0, <1>12, OpFields DEF ReportVerdict, Exit, Quiet, Collected, Burned
<1>13. ASSUME UNCHANGED vars PROVE Quiet
  BY <1>0, <1>13, OpFields DEF vars, commandVars, processVars, Quiet, Collected, Burned
<1> QED
  BY <1>1, <1>2, <1>3, <1>4, <1>5, <1>6, <1>7, <1>8, <1>9, <1>10, <1>11, <1>12, <1>13, NextCases

\* A quiet step keeps the state of every redemption.
LEMMA QuietRedeems ==
  ASSUME NEW r \in Requests, RedeemOf(r), Quiet
  PROVE  RedeemOf(r)'
<1>1. \A c \in Commands : Collected(c, r)' => Collected(c, r) /\ (Burned(c, r)' <=> Burned(c, r))
  BY DEF Quiet
<1>2. \A c \in Commands : Burned(c, r)' => Collected(c, r)'
  BY DEF Burned, Collected
<1>3. OneRedeemer(r)'
  BY <1>1 DEF RedeemOf, OneRedeemer, BurnsOf, Quiet
<1> QED
  BY <1>1, <1>2, <1>3 DEF RedeemOf, Quiet, BurnsOf

\* Recording the withdrawal ends the redemption.
LEMMA RedeemsRecord ==
  ASSUME TypedInv, NEW c \in Commands, pc[c] = "append", Exit(c),
         UNCHANGED <<used, burned, orphans>>,
         entered' = IF op[c].kind = "redeem"
                    THEN [entered EXCEPT ![op[c].request] = @ + 1] ELSE entered,
         NEW r \in Requests, RedeemOf(r)
  PROVE  RedeemOf(r)'
<1>1. CommandsOK /\ HistoryOK /\ StageOf(c) /\ pc[c] = "append"
  BY TypeParts DEF TypedInv, StageInv, CommandStage
<1>2. /\ UNCHANGED <<used, burned, orphans>>
      /\ pc' = [pc EXCEPT ![c] = "idle"] /\ op' = [op EXCEPT ![c] = Idle]
      /\ seen' = [seen EXCEPT ![c] = 0] /\ tx' = [tx EXCEPT ![c] = "none"]
      /\ entered' = IF op[c].kind = "redeem"
                    THEN [entered EXCEPT ![op[c].request] = @ + 1] ELSE entered
  BY DEF Exit
<1>3. \A d \in Commands : /\ Collected(d, r)' => d # c /\ Collected(d, r)
                          /\ d # c => (Burned(d, r)' <=> Burned(d, r))
                          /\ Burned(d, r)' => Collected(d, r)'
  BY <1>1, <1>2, OpFields DEF Collected, Burned, CommandsOK
<1>4. CASE op[c].kind = "redeem" /\ op[c].request = r
  <2>1. Burned(c, r) /\ Collected(c, r)
    BY <1>1, <1>4 DEF Burned, Collected
  <2>2. entered[r] = 0 /\ burned[r] = Value[r] /\ entered'[r] = 1
    BY <1>1, <1>2, <1>4, <2>1 DEF RedeemOf, HistoryOK
  <2>3. /\ \A d \in Commands : ~Collected(d, r)'
        /\ \A i \in DOMAIN orphans : ~BurnsOf(i, r)
        /\ r \in used
    BY <1>3, <2>1 DEF RedeemOf, OneRedeemer
  <2>4. \A i \in DOMAIN orphans' : ~BurnsOf(i, r)'
    BY <1>2, <2>3 DEF BurnsOf
  <2>5. OneRedeemer(r)'
    BY <2>3, <2>4 DEF OneRedeemer
  <2> QED
    BY <1>2, <1>3, <2>2, <2>3, <2>4, <2>5 DEF RedeemOf
<1>5. CASE ~(op[c].kind = "redeem" /\ op[c].request = r)
  <2>1. entered'[r] = entered[r]
    BY <1>1, <1>2, <1>5 DEF HistoryOK
  <2>2. OneRedeemer(r)'
    BY <1>2, <1>3 DEF RedeemOf, OneRedeemer, BurnsOf
  <2> QED
    BY <1>2, <1>3, <2>1, <2>2 DEF RedeemOf, BurnsOf
<1> QED
  BY <1>4, <1>5

\* A block that takes the transaction of a command moves its redemption on.
LEMMA RedeemsMined ==
  ASSUME TypedInv, NEW c \in Commands, MineTx(c), NEW r \in Requests, RedeemOf(r)
  PROVE  RedeemOf(r)'
<1>1. CommandsOK /\ ChainOK /\ HistoryOK /\ StageOf(c) /\ pc[c] = "wait" /\ tx[c] = "pending"
  BY TypeParts DEF TypedInv, StageInv, CommandStage, StageOf, MineTx
<1>2. /\ UNCHANGED <<pc, op, seen, orphans, entered>>
      /\ \A d \in Commands : d # c => tx'[d] = tx[d]
      /\ tx'[c] \in {"ok", "reverted"}
  BY <1>1 DEF MineTx, processVars, CommandsOK
<1>3. \A d \in Commands :
        /\ d # c => (Collected(d, r)' <=> Collected(d, r)) /\ (Burned(d, r)' <=> Burned(d, r))
        /\ Burned(d, r)' => Collected(d, r)'
  BY <1>2 DEF Collected, Burned
<1>4. \A i \in DOMAIN orphans : BurnsOf(i, r)' <=> BurnsOf(i, r)
  BY <1>2 DEF BurnsOf
<1>5. CASE tx'[c] = "reverted" /\ UNCHANGED <<used, burned>>
  <2>1. (Collected(c, r)' <=> Collected(c, r)) /\ (Burned(c, r)' <=> Burned(c, r))
    BY <1>1, <1>2, <1>5 DEF Collected, Burned
  <2>2. OneRedeemer(r)'
    BY <1>2, <1>3, <1>4, <2>1 DEF RedeemOf, OneRedeemer
  <2> QED
    BY <1>2, <1>3, <1>4, <1>5, <2>1, <2>2 DEF RedeemOf
<1>6. CASE Executes(TxOf(c)) /\ Execute(TxOf(c)) /\ tx'[c] = "ok"
  <2>1. CASE ~(op[c].kind = "redeem" /\ op[c].request = r)
    <3>1. ~Collected(c, r)' /\ ~Collected(c, r) /\ ~Burned(c, r)' /\ ~Burned(c, r)
      BY <1>2, <2>1 DEF Collected, Burned
    <3>2. burned'[r] = burned[r] /\ (r \in used' <=> r \in used)
      BY <1>1, <1>6, <2>1 DEF Execute, TxOf, ChainOK, StageOf
    <3>3. OneRedeemer(r)'
      BY <1>2, <1>3, <1>4, <3>1 DEF RedeemOf, OneRedeemer
    <3> QED
      BY <1>2, <1>3, <1>4, <3>1, <3>2, <3>3 DEF RedeemOf
  <2>2. CASE op[c].kind = "redeem" /\ op[c].request = r /\ seen[c] = 0
    <3>1. TxOf(c).kind = "collect" /\ TxOf(c).op = op[c]
      BY <2>2 DEF TxOf
    <3>2. r \notin used /\ used' = used \cup {r} /\ burned' = burned
      BY <1>6, <2>2, <3>1 DEF Executes, Execute, Collectable
    <3>3. Collected(c, r)' /\ ~Burned(c, r)'
      BY <1>1, <1>2, <1>6, <2>2 DEF Collected, Burned
    <3>4. /\ \A d \in Commands : d # c => ~Collected(d, r)' /\ ~Burned(d, r)'
          /\ \A i \in DOMAIN orphans : ~BurnsOf(i, r)'
          /\ burned[r] = 0 /\ entered[r] = 0
      BY <1>3, <1>4, <3>2 DEF RedeemOf
    <3>5. OneRedeemer(r)'
      BY <1>2, <3>4 DEF OneRedeemer
    <3> QED
      BY <1>2, <3>2, <3>3, <3>4, <3>5 DEF RedeemOf
  <2>3. CASE op[c].kind = "redeem" /\ op[c].request = r /\ seen[c] = 1
    <3>1. TxOf(c).kind = "burn" /\ TxOf(c).op = op[c]
      BY <2>3 DEF TxOf
    <3>2. Collected(c, r) /\ ~Burned(c, r) /\ Collected(c, r)' /\ Burned(c, r)'
      BY <1>1, <1>2, <1>6, <2>3 DEF Collected, Burned
    <3>3. used' = used /\ burned[r] = 0 /\ entered[r] = 0 /\ r \in used
      BY <1>6, <3>1, <3>2 DEF Execute, RedeemOf
    <3>4. burned'[r] = Value[r]
      <4>1. op[c].amount = Value[r] /\ Value[r] \in Nat
        BY <1>1, <2>3, Parameters DEF StageOf, Priced
      <4>2. burned'[r] = burned[r] + op[c].amount
        BY <1>1, <1>6, <2>3, <3>1 DEF Execute, ChainOK
      <4> QED
        BY <3>3, <4>1, <4>2
    <3>5. /\ \A d \in Commands : d # c => ~Collected(d, r)' /\ ~Burned(d, r)'
          /\ \A i \in DOMAIN orphans : ~BurnsOf(i, r)'
      BY <1>3, <1>4, <3>2 DEF RedeemOf, OneRedeemer
    <3>6. OneRedeemer(r)'
      BY <1>2, <3>5 DEF OneRedeemer
    <3> QED
      BY <1>2, <3>2, <3>3, <3>4, <3>5, <3>6 DEF RedeemOf
  <2> QED
    BY <1>1, <2>1, <2>2, <2>3 DEF StageOf
<1> QED
  BY <1>1, <1>5, <1>6 DEF MineTx, Unexecuted, CommandsOK

\* A kill that wrote nothing leaves what the command began to the transaction it
\* left behind.
LEMMA RedeemsKilled ==
  ASSUME TypedInv, NEW c \in Commands, Kill(c), entered' = entered,
         NEW r \in Requests, RedeemOf(r)
  PROVE  RedeemOf(r)'
<1>1. CommandsOK /\ StageOf(c) /\ orphans \in Seq(Txs)
  BY TypeParts DEF TypedInv, StageInv, CommandStage, OrphanStage
<1>2. /\ UNCHANGED <<used, burned, entered>>
      /\ pc' = [pc EXCEPT ![c] = "idle"] /\ op' = [op EXCEPT ![c] = Idle]
      /\ seen' = [seen EXCEPT ![c] = 0] /\ tx' = [tx EXCEPT ![c] = "none"]
  BY DEF Kill, Exit
<1>3. \A d \in Commands : /\ Collected(d, r)' => d # c /\ Collected(d, r)
                          /\ d # c => (Burned(d, r)' <=> Burned(d, r))
                          /\ Burned(d, r)' => Collected(d, r)'
  BY <1>1, <1>2, OpFields DEF Collected, Burned, CommandsOK
<1>4. CASE tx[c] # "pending"
  <2>1. orphans' = orphans
    BY <1>4 DEF Kill
  <2>2. OneRedeemer(r)'
    BY <1>3, <2>1 DEF RedeemOf, OneRedeemer, BurnsOf
  <2> QED
    BY <1>2, <1>3, <2>1, <2>2 DEF RedeemOf, BurnsOf
<1>5. CASE tx[c] = "pending"
  <2>0. PICK n \in Nat : n = Len(orphans) + 1
    BY <1>1
  <2>1. TxOf(c) \in Txs /\ orphans' = Append(orphans, TxOf(c))
    BY <1>5, TxOfType DEF Kill, TypedInv
  <2>2. /\ DOMAIN orphans = 1 .. Len(orphans) /\ DOMAIN orphans' = DOMAIN orphans \cup {n}
        /\ n \notin DOMAIN orphans /\ orphans'[n] = TxOf(c)
        /\ \A i \in DOMAIN orphans : orphans'[i] = orphans[i]
    BY <1>1, <2>0, <2>1
  <2>3. \A i \in DOMAIN orphans : BurnsOf(i, r)' <=> BurnsOf(i, r)
    BY <2>2 DEF BurnsOf
  <2>4. CASE BurnsOf(n, r)'
    <3>1. op[c].kind = "redeem" /\ op[c].request = r /\ seen[c] # 0 /\ pc[c] = "wait"
      BY <1>1, <1>5, <2>2, <2>4 DEF BurnsOf, TxOf, StageOf
    <3>2. Collected(c, r) /\ ~Burned(c, r)
      BY <1>1, <1>5, <3>1 DEF Collected, Burned, StageOf
    <3>3. /\ \A d \in Commands : ~Collected(d, r)' /\ ~Burned(d, r)'
          /\ \A i \in DOMAIN orphans : ~BurnsOf(i, r)'
          /\ r \in used /\ burned[r] = 0 /\ entered[r] = 0
      BY <1>3, <2>3, <3>2 DEF RedeemOf, OneRedeemer
    <3>4. OneRedeemer(r)'
      BY <2>2, <3>3 DEF OneRedeemer
    <3> QED
      BY <1>2, <2>2, <3>3, <3>4 DEF RedeemOf
  <2>5. CASE ~BurnsOf(n, r)'
    <3>1. \A i \in DOMAIN orphans' : BurnsOf(i, r)' => i \in DOMAIN orphans /\ BurnsOf(i, r)
      BY <2>2, <2>3, <2>5
    <3>2. OneRedeemer(r)'
      BY <1>3, <3>1 DEF RedeemOf, OneRedeemer
    <3> QED
      BY <1>2, <1>3, <3>1, <3>2 DEF RedeemOf
  <2> QED
    BY <2>4, <2>5
<1> QED
  BY <1>4, <1>5

\* So does a block that takes the transaction of a killed command.
LEMMA RedeemsOrphan ==
  ASSUME TypedInv, MineOrphan, NEW r \in Requests, RedeemOf(r)
  PROVE  RedeemOf(r)'
<1> DEFINE t == orphans[1]
<1>1. /\ ChainOK /\ orphans \in Seq(Txs) /\ orphans # <<>> /\ Head(orphans) = t
      /\ t \in Txs /\ SentFor(t) /\ Priced(t.op)
  <2>1. TypeOK /\ StageInv /\ orphans # <<>>
    BY DEF TypedInv, MineOrphan
  <2>2. orphans \in Seq(Txs) /\ 1 \in DOMAIN orphans
    BY <2>1 DEF StageInv, OrphanStage
  <2> QED
    BY <2>1, <2>2, TypeParts, HeadType DEF StageInv, OrphanStage
<1>2. /\ UNCHANGED <<pc, op, seen, tx, entered>> /\ orphans' = Tail(orphans)
  BY DEF MineOrphan, commandVars, processVars
<1>3. /\ 1 \in DOMAIN orphans
      /\ \A i \in DOMAIN orphans' : i + 1 \in DOMAIN orphans /\ i + 1 # 1
                                    /\ orphans'[i] = orphans[i + 1]
      /\ \A i, j \in DOMAIN orphans' : i + 1 = j + 1 => i = j
  BY <1>1, <1>2
<1>4. \A i \in DOMAIN orphans' : BurnsOf(i, r)' => i + 1 \in DOMAIN orphans /\ BurnsOf(i + 1, r)
  BY <1>3 DEF BurnsOf
<1>5. \A d \in Commands :
        (Collected(d, r)' <=> Collected(d, r)) /\ (Burned(d, r)' <=> Burned(d, r))
  BY <1>2 DEF Collected, Burned
<1>6. \A d \in Commands : Burned(d, r) => Collected(d, r)
  BY DEF Burned, Collected
<1>7. OneRedeemer(r)'
  BY <1>3, <1>4, <1>5 DEF RedeemOf, OneRedeemer
<1>8. CASE burned'[r] = burned[r] /\ (r \in used' <=> r \in used)
  BY <1>2, <1>4, <1>5, <1>7, <1>8 DEF RedeemOf
<1>9. CASE ~(burned'[r] = burned[r] /\ (r \in used' <=> r \in used))
  <2>1. Executes(t) /\ Execute(t) /\ t.kind # "mint" /\ t.op.request = r
    BY <1>1, <1>9 DEF MineOrphan, Unexecuted, Execute, ChainOK, Txs
  <2>2. CASE t.kind = "collect"
    <3>1. r \notin used /\ used' = used \cup {r} /\ burned' = burned
      BY <2>1, <2>2 DEF Executes, Execute, Collectable
    <3>2. /\ \A d \in Commands : ~Collected(d, r) /\ ~Burned(d, r)
          /\ \A i \in DOMAIN orphans' : ~BurnsOf(i, r)'
      BY <1>4, <1>6, <3>1 DEF RedeemOf
    <3> QED
      BY <1>2, <1>5, <1>7, <3>1, <3>2 DEF RedeemOf
  <2>3. CASE t.kind = "burn"
    <3>1. BurnsOf(1, r)
      BY <2>1, <2>3 DEF BurnsOf
    <3>2. used' = used /\ burned[r] = 0 /\ entered[r] = 0 /\ r \in used
      BY <1>3, <2>1, <2>3, <3>1 DEF Execute, RedeemOf
    <3>3. burned'[r] = Value[r]
      <4>1. t.op.amount = Value[r] /\ Value[r] \in Nat
        BY <1>1, <2>1, <2>3, Parameters DEF SentFor, Priced
      <4>2. burned'[r] = burned[r] + t.op.amount
        BY <1>1, <2>1, <2>3 DEF Execute, ChainOK
      <4> QED
        BY <3>2, <4>1, <4>2
    <3>4. /\ \A d \in Commands : ~Collected(d, r) /\ ~Burned(d, r)
          /\ \A i \in DOMAIN orphans' : ~BurnsOf(i, r)'
      BY <1>3, <1>4, <1>6, <3>1 DEF RedeemOf, OneRedeemer
    <3> QED
      BY <1>2, <1>5, <1>7, <3>2, <3>3, <3>4 DEF RedeemOf
  <2> QED
    BY <1>1, <2>1, <2>2, <2>3 DEF Txs
<1> QED
  BY <1>8, <1>9

\* The state of every redemption is as RedeemInv says.
LEMMA IssuerRedeems == Spec => []RedeemInv
<1>1. Init => RedeemInv
  BY Parameters, OpFields DEF Init, RedeemInv, RedeemOf, OneRedeemer, Collected, Burned, BurnsOf
<1>2. TypedInv /\ RedeemInv /\ [Next]_vars => RedeemInv'
  <2> SUFFICES ASSUME TypedInv, RedeemInv, [Next]_vars, NEW r \in Requests PROVE RedeemOf(r)'
    BY DEF RedeemInv
  <2>1. RedeemOf(r)
    BY DEF RedeemInv
  <2>2. ASSUME NEW c \in Commands, AppendReserve(c) PROVE RedeemOf(r)'
    <3>1. Line("move", Movement(c)).kind # "torn"
      BY DEF Line
    <3> QED
      BY <2>1, <2>2, <3>1, RedeemsRecord DEF AppendReserve, Written, chainVars
  <2>3. ASSUME NEW c \in Commands, Kill(c) PROVE RedeemOf(r)'
    <3>1. CASE entered' = entered
      BY <2>1, <2>3, <3>1, RedeemsKilled
    <3>2. CASE entered' # entered
      <4>1. pc[c] = "append" /\ entered' = IF op[c].kind = "redeem"
                    THEN [entered EXCEPT ![op[c].request] = @ + 1] ELSE entered
        BY <2>3, <3>2 DEF Kill, Written
      <4>2. tx[c] = "none"
        BY <4>1, TypeParts DEF TypedInv, StageInv, CommandStage, StageOf, CommandsOK
      <4>3. Exit(c) /\ UNCHANGED <<used, burned, orphans>>
        BY <2>3, <4>2 DEF Kill
      <4> QED
        BY <2>1, <4>1, <4>3, RedeemsRecord
    <3> QED
      BY <3>1, <3>2
  <2> QED
    BY <2>1, <2>2, <2>3, QuietSteps, QuietRedeems, RedeemsMined, RedeemsOrphan
<1> QED
  BY <1>1, <1>2, IssuerTyped, PTL DEF Spec

\* However many redeem commands run for a request and wherever they are killed,
\* it is burned and recorded at most once, and recorded only if it was burned
\* (runRedeem, main.go:573-599).
THEOREM IssuerRedeemOnce == Spec => []RedeemOnce
<1>1. TypedInv /\ RedeemInv => RedeemOnce
  <2> SUFFICES ASSUME TypedInv, RedeemInv, NEW r \in Requests
               PROVE  /\ burned[r] \in {0, Value[r]}
                      /\ burned[r] > 0 => r \in used
                      /\ entered[r] <= 1
                      /\ entered[r] = 1 => burned[r] = Value[r]
    BY DEF RedeemOnce
  <2> QED
    BY DEF RedeemInv, RedeemOf
<1> QED
  BY <1>1, IssuerTyped, IssuerRedeems, PTL

\* The end of a file.
LEMMA EndOfFields ==
  ASSUME NEW lines
  PROVE  /\ EndOf(lines).line = Len(lines)
         /\ EndOf(lines).behind <=> (lines # <<>> /\ ~Ended(lines[Len(lines)]))
  BY Zenon DEF EndOf

\* It is a place in the file.
LEMMA EndType == ASSUME NEW lines \in Seq(Lines) PROVE EndOf(lines) \in [line: Nat, behind: BOOLEAN]
<1>1. Len(lines) \in Nat
  OBVIOUS
<1> QED
  BY <1>1 DEF EndOf

\* What the last line of a file adds to its total.
LastAmount(lines) ==
  IF lines[Len(lines)].kind = "unended" THEN lines[Len(lines)].amount ELSE 0

\* A write that runs on from the last line takes that line out of the total.
LEMMA WriteBehind ==
  ASSUME NEW lines \in Seq(Lines), NEW l \in Lines, EndOf(lines).behind,
         NEW w, w = Write(lines, EndOf(lines), l)
  PROVE  Total(w) = Total(lines) - LastAmount(lines) /\ LastAmount(lines) \in Int
<1> DEFINE n == Len(lines)
           x == Glued(lines[n], l)
           f == [i \in DOMAIN w |-> w[i].amount]
           g == [i \in DOMAIN lines |-> lines[i].amount]
<1>1. n \in Nat /\ DOMAIN lines = 1 .. n
  OBVIOUS
<1>2. EndOf(lines).line = n /\ lines # <<>> /\ ~Ended(lines[n])
  BY EndOfFields
<1>3. n # 0 /\ n \in 1 .. n /\ lines[n] \in Lines
  BY <1>1, <1>2
<1>4. x \in Lines /\ x.kind \in {"garbled", "torn"}
  BY DEF Glued, Line, Lines
<1>5. w = [lines EXCEPT ![n] = x]
  BY <1>2 DEF Write
<1> HIDE DEF x
<1>6. w \in Seq(Lines) /\ Len(w) = n /\ \A i \in 1 .. n : w[i] = IF i = n THEN x ELSE lines[i]
  BY <1>3, <1>4, <1>5, ExceptSeq
<1>7. DOMAIN w = 1 .. n
  BY <1>6
<1>8. Movements(w) = Movements(lines) \ {n}
  BY <1>1, <1>3, <1>4, <1>6, <1>7 DEF Movements
<1>9. /\ IsFiniteSet(Movements(lines)) /\ IsFiniteSet(Movements(lines) \ {n})
      /\ \A i \in Movements(lines) : lines[i].amount \in Int
      /\ Total(lines) \in Int
  BY MovementsFinite, FS_RemoveElement
<1>10. n \in Movements(lines) <=> lines[n].kind = "unended"
  BY <1>1, <1>2, <1>3 DEF Movements, Ended
<1>11. lines[n].amount \in Int
  BY <1>3 DEF Lines
<1>12. \A i \in Movements(lines) : g[i] \in Int
  BY <1>1, <1>9 DEF Movements
<1>13. \A i \in Movements(lines) \ {n} : g[i] \in Int /\ g[i] = f[i]
  BY <1>1, <1>6, <1>7, <1>9 DEF Movements
<1>14. g[n] = lines[n].amount
  BY <1>1, <1>3
<1>15. Total(w) = Sum(f, Movements(w)) /\ Total(lines) = Sum(g, Movements(lines))
  BY DEF Total
<1> HIDE DEF f, g, n
<1>16. Sum(g, Movements(lines) \ {n}) = Sum(f, Movements(w))
  BY <1>8, <1>9, <1>13, SumCongruence
<1>17. Sum(g, Movements(lines) \ {n}) \in Int
  BY <1>9, <1>13, SumInt
<1>18. CASE lines[n].kind = "unended"
  <2>1. Sum(g, Movements(lines)) = g[n] + Sum(g, Movements(lines) \ {n})
    BY <1>9, <1>10, <1>12, <1>18, SumRemove
  <2> QED
    BY <1>11, <1>14, <1>15, <1>16, <1>17, <1>18, <2>1 DEF LastAmount, n
<1>19. CASE lines[n].kind # "unended"
  <2>1. Movements(lines) \ {n} = Movements(lines)
    BY <1>10, <1>19
  <2>2. Sum(g, Movements(lines)) = Sum(f, Movements(w))
    BY <1>16, <2>1
  <2>3. LastAmount(lines) = 0
    BY <1>19 DEF LastAmount, n
  <2>4. Total(w) = Total(lines) /\ Total(lines) \in Int
    BY <1>9, <1>15, <2>2
  <2> QED
    BY <2>3, <2>4
<1> QED
  BY <1>18, <1>19

\* A write at the end of a file whose lines all end adds what it writes.
LEMMA WriteNext ==
  ASSUME NEW lines \in Seq(Lines), NEW l \in Lines, l.kind # "garbled", ~EndOf(lines).behind,
         NEW w, w = Write(lines, EndOf(lines), l)
  PROVE  Total(w) = Total(lines) + (IF l.kind = "torn" THEN 0 ELSE l.amount)
<1> DEFINE n == Len(lines) + 1
           f == [i \in DOMAIN w |-> w[i].amount]
           g == [i \in DOMAIN lines |-> lines[i].amount]
<1>1. Len(lines) \in Nat /\ DOMAIN lines = 1 .. Len(lines)
  OBVIOUS
<1>2. EndOf(lines).line = Len(lines)
  BY EndOfFields
<1>3. w = Append(lines, l)
  <2>1. ~(EndOf(lines).line < Len(lines))
    BY <1>1, <1>2
  <2> QED
    BY <2>1 DEF Write
<1>4. /\ w \in Seq(Lines) /\ Len(w) = n /\ DOMAIN w = 1 .. n /\ n \in 1 .. n
      /\ \A i \in 1 .. Len(lines) : w[i] = lines[i]
      /\ w[n] = l /\ n \notin DOMAIN lines /\ 1 .. n = DOMAIN lines \cup {n}
  BY <1>1, <1>3, AppendProperties
<1>5. l.kind \in {"move", "unended", "torn"} /\ l.amount \in Int
  BY DEF Lines
<1>6. Movements(w) = IF l.kind = "torn" THEN Movements(lines) ELSE Movements(lines) \cup {n}
  BY <1>1, <1>4, <1>5 DEF Movements
<1>7. n \notin Movements(lines)
  BY <1>4 DEF Movements
<1>8. /\ IsFiniteSet(Movements(lines)) /\ \A i \in Movements(lines) : lines[i].amount \in Int
      /\ Total(lines) \in Int
  BY MovementsFinite
<1>9. \A i \in Movements(lines) : g[i] \in Int /\ g[i] = f[i] /\ f[i] \in Int
  BY <1>1, <1>4, <1>8 DEF Movements
<1>10. f[n] = l.amount
  BY <1>4
<1>11. Total(w) = Sum(f, Movements(w)) /\ Total(lines) = Sum(g, Movements(lines))
  BY DEF Total
<1> HIDE DEF f, g, n
<1>12. Sum(g, Movements(lines)) = Sum(f, Movements(lines))
  BY <1>8, <1>9, SumCongruence
<1>13. Sum(f, Movements(lines) \cup {n}) = f[n] + Sum(f, Movements(lines))
  BY <1>5, <1>7, <1>8, <1>9, <1>10, SumAdd
<1>14. CASE l.kind = "torn"
  BY <1>6, <1>8, <1>11, <1>12, <1>14
<1>15. CASE l.kind # "torn"
  BY <1>5, <1>6, <1>8, <1>10, <1>11, <1>12, <1>13, <1>15
<1> QED
  BY <1>14, <1>15

\* A command that is not idle goes on or ends.
LEMMA AloneGoesOn ==
  ASSUME AloneInv, NEW c \in Commands, pc[c] # "idle",
         \A d \in Commands : d # c => pc'[d] = pc[d], UNCHANGED <<orphans, crossed>>
  PROVE  AloneInv'
  BY DEF AloneInv

\* A command starts.
LEMMA AloneStarts ==
  ASSUME AloneInv, CommandsOK, NEW c \in Commands, NEW o, Start(c, o)
  PROVE  /\ AloneInv'
         /\ ~crossed' => ~crossed /\ \A d \in Commands : pc[d] = "idle"
         /\ pc'[c] \in {"open", "collect", "sync"}
         /\ \A d \in Commands : d # c => pc'[d] = pc[d]
<1>1. \A d \in Commands : d # c => pc'[d] = pc[d]
  BY DEF Start, Goto
<1>2. ~crossed' => ~crossed /\ \A d \in Commands : pc[d] = "idle"
  BY DEF Start
<1>3. pc'[c] \in {"open", "collect", "sync"}
  BY DEF Start, Goto, CommandsOK
<1>4. orphans' = orphans
  BY DEF Start, chainVars
<1> QED
  BY <1>1, <1>2, <1>3, <1>4 DEF AloneInv

\* Either way of leaving a state touches one command.
LEMMA OneMoves ==
  ASSUME CommandsOK, NEW c \in Commands,
         Exit(c) \/ \E where : Goto(c, where)
  PROVE  \A d \in Commands : d # c => pc'[d] = pc[d]
  BY DEF CommandsOK, Exit, Goto

\* Until commands overlap they run one at a time.
LEMMA IssuerAlone == Spec => []AloneInv
<1>1. Init => AloneInv
  BY DEF Init, AloneInv
<1>2. TypedInv /\ AloneInv /\ [Next]_vars => AloneInv'
  <2> SUFFICES ASSUME TypedInv, AloneInv, [Next]_vars PROVE AloneInv'
    OBVIOUS
  <2> USE DEF chainVars, historyVars
  <2>0. CommandsOK /\ CommandStage
    BY TypeParts DEF TypedInv, StageInv
  <2> USE <2>0
  <2>1. ASSUME NEW c \in Commands, StartMove(c) PROVE AloneInv'
    BY <2>1, AloneStarts DEF StartMove
  <2>2. ASSUME NEW c \in Commands, StartRedeem(c) PROVE AloneInv'
    BY <2>2, AloneStarts DEF StartRedeem
  <2>3. ASSUME NEW c \in Commands, StartReconcile(c) PROVE AloneInv'
    BY <2>3, AloneStarts DEF StartReconcile
  <2>4. ASSUME NEW c \in Commands, OpenReserve(c) PROVE AloneInv'
    BY <2>4 DEF OpenReserve, Goto, AloneInv
  <2>5. ASSUME NEW c \in Commands, AppendReserve(c) PROVE AloneInv'
    BY <2>5 DEF AppendReserve, Exit, AloneInv
  <2>6. ASSUME NEW c \in Commands, CheckMint(c) PROVE AloneInv'
    BY <2>6, OneMoves, AloneGoesOn DEF CheckMint
  <2>7. ASSUME NEW c \in Commands, MintReceipt(c) PROVE AloneInv'
    BY <2>7 DEF MintReceipt, Exit, AloneInv
  <2>8. ASSUME NEW c \in Commands, Collect(c) PROVE AloneInv'
    BY <2>8, OneMoves, AloneGoesOn DEF Collect
  <2>9. ASSUME NEW c \in Commands, RedeemReceipt(c) PROVE AloneInv'
    BY <2>9, OneMoves, AloneGoesOn DEF RedeemReceipt
  <2>10. ASSUME NEW c \in Commands, Burn(c) PROVE AloneInv'
    BY <2>10, OneMoves, AloneGoesOn DEF Burn
  <2>11. ASSUME NEW c \in Commands, SyncLedger(c) PROVE AloneInv'
    BY <2>11 DEF SyncLedger, Goto, AloneInv
  <2>12. ASSUME NEW c \in Commands, CompareChain(c) PROVE AloneInv'
    BY <2>12, OneMoves, AloneGoesOn DEF CompareChain
  <2>13. ASSUME NEW c \in Commands, ReportVerdict(c) PROVE AloneInv'
    BY <2>13 DEF ReportVerdict, Exit, AloneInv, CommandsOK
  <2>14. ASSUME NEW c \in Commands, MineTx(c) PROVE AloneInv'
    BY <2>14 DEF MineTx, processVars, Execute, Unexecuted, AloneInv
  <2>15. ASSUME NEW c \in Commands, Kill(c) PROVE AloneInv'
    BY <2>15 DEF Kill, Exit, AloneInv, CommandsOK
  <2>16. ASSUME MineOrphan PROVE AloneInv'
    BY <2>16 DEF MineOrphan, Execute, Unexecuted, commandVars, processVars, AloneInv
  <2>17. ASSUME UNCHANGED vars PROVE AloneInv'
    BY <2>17 DEF vars, commandVars, processVars, AloneInv
  <2> QED
    BY <2>1, <2>2, <2>3, <2>4, <2>5, <2>6, <2>7, <2>8, <2>9, <2>10, <2>11, <2>12, <2>13, <2>14,
       <2>15, <2>16, <2>17, NextCases
<1> QED
  BY <1>1, <1>2, IssuerTyped, PTL DEF Spec

\* What a command that runs alone knows stays so.
LEMMA IssuerFresh == Spec => []FreshInv
<1>1. Init => FreshInv
  BY DEF Init, FreshInv
<1>2. TypedInv /\ AloneInv /\ FreshInv /\ [Next]_vars => FreshInv'
  <2> SUFFICES ASSUME TypedInv, AloneInv, FreshInv, [Next]_vars PROVE FreshInv'
    OBVIOUS
  <2> USE DEF chainVars, historyVars
  <2>0. CommandsOK /\ CommandStage
    BY TypeParts DEF TypedInv, StageInv
  <2> USE <2>0
  <2>1. ASSUME NEW c \in Commands, StartMove(c) PROVE FreshInv'
    <3>1. PICK o : Start(c, o)
      BY <2>1 DEF StartMove
    <3>2. UNCHANGED <<cached, offset, seen, agrees, file, supply>>
      BY <3>1 DEF Start
    <3> QED
      BY <3>1, <3>2, AloneStarts DEF FreshInv
  <2>2. ASSUME NEW c \in Commands, StartRedeem(c) PROVE FreshInv'
    <3>1. PICK o : Start(c, o)
      BY <2>2 DEF StartRedeem
    <3>2. UNCHANGED <<cached, offset, seen, agrees, file, supply>>
      BY <3>1 DEF Start
    <3> QED
      BY <3>1, <3>2, AloneStarts DEF FreshInv
  <2>3. ASSUME NEW c \in Commands, StartReconcile(c) PROVE FreshInv'
    <3>1. PICK o : Start(c, o)
      BY <2>3 DEF StartReconcile
    <3>2. UNCHANGED <<cached, offset, seen, agrees, file, supply>>
      BY <3>1 DEF Start
    <3> QED
      BY <3>1, <3>2, AloneStarts DEF FreshInv
  <2>4. ASSUME NEW c \in Commands, OpenReserve(c) PROVE FreshInv'
    BY <2>4 DEF OpenReserve, Goto, FreshInv, CommandsOK
  <2>5. ASSUME NEW c \in Commands, AppendReserve(c) PROVE FreshInv'
    BY <2>5 DEF AppendReserve, Exit, FreshInv, AloneInv, CommandsOK
  <2>6. ASSUME NEW c \in Commands, CheckMint(c) PROVE FreshInv'
    BY <2>6 DEF CheckMint, Goto, Exit, FreshInv, CommandsOK
  <2>7. ASSUME NEW c \in Commands, MintReceipt(c) PROVE FreshInv'
    BY <2>7 DEF MintReceipt, Exit, FreshInv
  <2>8. ASSUME NEW c \in Commands, Collect(c) PROVE FreshInv'
    BY <2>8 DEF Collect, Goto, Exit, FreshInv, CommandsOK
  <2>9. ASSUME NEW c \in Commands, RedeemReceipt(c) PROVE FreshInv'
    BY <2>9 DEF RedeemReceipt, Succeeded, Goto, Exit, FreshInv, CommandsOK
  <2>10. ASSUME NEW c \in Commands, Burn(c) PROVE FreshInv'
    BY <2>10 DEF Burn, Goto, Exit, FreshInv, CommandsOK
  <2>11. ASSUME NEW c \in Commands, SyncLedger(c) PROVE FreshInv'
    BY <2>11 DEF SyncLedger, Goto, FreshInv, CommandsOK
  <2>12. ASSUME NEW c \in Commands, CompareChain(c) PROVE FreshInv'
    BY <2>12 DEF CompareChain, Goto, Exit, FreshInv, CommandsOK
  <2>13. ASSUME NEW c \in Commands, ReportVerdict(c) PROVE FreshInv'
    BY <2>13 DEF ReportVerdict, Exit, FreshInv, CommandsOK
  <2>14. ASSUME NEW c \in Commands, MineTx(c) PROVE FreshInv'
    BY <2>14 DEF MineTx, processVars, Execute, Unexecuted, FreshInv, AloneInv, CommandStage,
       StageOf
  <2>15. ASSUME NEW c \in Commands, Kill(c) PROVE FreshInv'
    BY <2>15 DEF Kill, Exit, FreshInv, AloneInv, CommandsOK
  <2>16. ASSUME MineOrphan PROVE FreshInv'
    BY <2>16 DEF MineOrphan, Execute, Unexecuted, commandVars, processVars, FreshInv, AloneInv
  <2>17. ASSUME UNCHANGED vars PROVE FreshInv'
    BY <2>17 DEF vars, commandVars, processVars, FreshInv
  <2> QED
    BY <2>1, <2>2, <2>3, <2>4, <2>5, <2>6, <2>7, <2>8, <2>9, <2>10, <2>11, <2>12, <2>13, <2>14,
       <2>15, <2>16, <2>17, NextCases
<1> QED
  BY <1>1, <1>2, IssuerTyped, IssuerAlone, PTL DEF Spec

\* The write of a command that runs alone goes to the end of the file, whole or
\* cut: what it destroys of the reserve is counted as lost.
LEMMA AloneWrites ==
  ASSUME TypedInv, FreshInv, NEW c \in Commands, pc[c] = "append", ~crossed,
         NEW l \in CutLines(c), Written(c, l)
  PROVE  /\ Backing \in Int /\ Backing' \in Int /\ Movement(c) \in Int
         /\ EndOf(file).behind \/ l.kind = "torn" => Backing' >= Backing
         /\ ~(EndOf(file).behind \/ l.kind = "torn") => Backing' = Backing + Movement(c)
<1>1. CommandsOK /\ file \in Seq(Lines) /\ lost \in Nat
  BY TypeParts DEF TypedInv, FileOK, HistoryOK
<1>2. op[c].amount \in Nat
  BY <1>1, OpFields DEF CommandsOK
<1>3. Movement(c) \in Int
  BY <1>2 DEF Movement
<1>4. /\ l \in Lines /\ l.kind \in {"torn", "unended", "move"}
      /\ l.kind # "torn" => l.amount = Movement(c)
  BY <1>3 DEF CutLines, Line, Lines
<1>5. Total(file) \in Int
  BY <1>1, MovementsFinite
<1>6. offset[c] = EndOf(file)
  BY DEF FreshInv
<1>7. file' = Write(file, EndOf(file), l) /\ lost' = lost + RunOver(c)
  BY <1>6 DEF Written
<1>8. CASE EndOf(file).behind
  <2>1. Total(file') = Total(file) - LastAmount(file) /\ LastAmount(file) \in Int
    BY <1>1, <1>4, <1>7, <1>8, WriteBehind
  <2>2. RunOver(c) = IF LastAmount(file) > 0 THEN LastAmount(file) ELSE 0
    <3>1. /\ offset[c].behind /\ offset[c].line = Len(file)
          /\ file # <<>> /\ ~Ended(file[Len(file)])
      BY <1>6, <1>8, EndOfFields
    <3>2. Len(file) \in Movements(file) <=> file[Len(file)].kind = "unended"
      BY <1>1, <3>1 DEF Movements, Ended
    <3> QED
      BY <3>1, <3>2 DEF RunOver, LastAmount
  <2> QED
    BY <1>1, <1>3, <1>5, <1>7, <1>8, <2>1, <2>2 DEF Backing
<1>9. CASE ~EndOf(file).behind
  <2>1. Total(file') = Total(file) + (IF l.kind = "torn" THEN 0 ELSE l.amount)
    BY <1>1, <1>4, <1>7, <1>9, WriteNext
  <2>2. RunOver(c) = 0
    BY <1>6, <1>9 DEF RunOver
  <2> QED
    BY <1>1, <1>3, <1>4, <1>5, <1>7, <1>9, <2>1, <2>2 DEF Backing
<1> QED
  BY <1>8, <1>9

\* A step that mines nothing and is not about c keeps what reconcile c knows.
LEMMA ReconcileKept ==
  ASSUME ReconcileInv, UNCHANGED <<supply, late>>,
         \A c \in Commands : pc'[c] = "verdict" =>
           pc[c] = "verdict" /\ agrees'[c] = agrees[c] /\ seen'[c] = seen[c]
  PROVE  ReconcileInv'
  BY DEF ReconcileInv

\* So does the end of a command.
LEMMA ReconcileExit ==
  ASSUME TypedInv, ReconcileInv, NEW c \in Commands, Exit(c), supply' = supply
  PROVE  ReconcileInv'
<1>1. CommandsOK
  BY TypeParts DEF TypedInv
<1>2. pc'[c] = "idle"
  BY <1>1 DEF Exit, CommandsOK
<1>3. \A d \in Commands : d # c => pc'[d] = pc[d] /\ agrees'[d] = agrees[d]
                                   /\ late'[d] = late[d] /\ seen'[d] = seen[d]
  BY <1>1 DEF Exit, CommandsOK
<1> QED
  BY <1>2, <1>3 DEF ReconcileInv

\* A transaction that is mined raises the supply only by a mint, which is late.
LEMMA ReconcileMined ==
  ASSUME TypedInv, ReconcileInv, NEW t \in Txs, Execute(t), UNCHANGED processVars
  PROVE  ReconcileInv'
<1>1. supply \in Nat /\ t.op.amount \in Nat /\ t.kind \in {"mint", "collect", "burn"}
  BY TypeParts, OpFields DEF TypedInv, ChainOK, Txs
<1>2. \A c \in Commands : seen[c] \in Int
  BY TypeParts DEF TypedInv, CommandsOK
<1>3. UNCHANGED <<pc, agrees, seen>>
  BY DEF processVars
<1>4. \A c \in Commands : late'[c] = (late[c] \/ (t.kind = "mint" /\ pc[c] = "verdict"))
  BY DEF Execute
<1>5. CASE t.kind = "mint"
  BY <1>3, <1>4, <1>5 DEF ReconcileInv
<1>6. CASE t.kind # "mint"
  <2>1. supply' \in Int /\ supply' <= supply
    BY <1>1, <1>6 DEF Execute
  <2> SUFFICES ASSUME NEW c \in Commands, pc'[c] = "verdict", agrees'[c], ~late'[c]
               PROVE  supply' <= seen'[c]
    BY DEF ReconcileInv
  <2>2. pc[c] = "verdict" /\ agrees[c] /\ ~late[c]
    BY <1>3, <1>4
  <2>3. supply <= seen[c]
    BY <2>2 DEF ReconcileInv
  <2> QED
    BY <1>1, <1>2, <1>3, <2>1, <2>3
<1> QED
  BY <1>5, <1>6

\* What a reconcile saw still covers the supply, unless a mint came late.
LEMMA IssuerReconcile == Spec => []ReconcileInv
<1>1. Init => ReconcileInv
  BY DEF Init, ReconcileInv
<1>2. TypedInv /\ ReconcileInv /\ [Next]_vars => ReconcileInv'
  <2> SUFFICES ASSUME TypedInv, ReconcileInv, [Next]_vars PROVE ReconcileInv'
    OBVIOUS
  <2> USE DEF chainVars, historyVars
  <2>0. CommandsOK
    BY TypeParts DEF TypedInv
  <2>1. ASSUME NEW c \in Commands, NEW o, Start(c, o) PROVE ReconcileInv'
    BY <2>0, <2>1, ReconcileKept DEF Start, Goto, CommandsOK
  <2>2. ASSUME NEW c \in Commands, StartMove(c) \/ StartRedeem(c) \/ StartReconcile(c)
        PROVE  ReconcileInv'
    BY <2>1, <2>2 DEF StartMove, StartRedeem, StartReconcile
  <2>3. ASSUME NEW c \in Commands, OpenReserve(c) PROVE ReconcileInv'
    BY <2>0, <2>3, ReconcileKept DEF OpenReserve, Goto, CommandsOK
  <2>4. ASSUME NEW c \in Commands, AppendReserve(c) PROVE ReconcileInv'
    BY <2>4, ReconcileExit DEF AppendReserve
  <2>5. ASSUME NEW c \in Commands, CheckMint(c) PROVE ReconcileInv'
    <3>1. CASE Exit(c)
      BY <2>5, <3>1, ReconcileExit DEF CheckMint
    <3>2. CASE ~Exit(c)
      BY <2>0, <2>5, <3>2, ReconcileKept DEF CheckMint, Goto, CommandsOK
    <3> QED
      BY <3>1, <3>2
  <2>6. ASSUME NEW c \in Commands, MintReceipt(c) PROVE ReconcileInv'
    BY <2>6, ReconcileExit DEF MintReceipt
  <2>7. ASSUME NEW c \in Commands, Collect(c) PROVE ReconcileInv'
    <3>1. CASE Exit(c)
      BY <2>7, <3>1, ReconcileExit DEF Collect
    <3>2. CASE ~Exit(c)
      BY <2>0, <2>7, <3>2, ReconcileKept DEF Collect, Goto, CommandsOK
    <3> QED
      BY <3>1, <3>2
  <2>8. ASSUME NEW c \in Commands, RedeemReceipt(c) PROVE ReconcileInv'
    <3>1. CASE Exit(c)
      BY <2>8, <3>1, ReconcileExit DEF RedeemReceipt
    <3>2. CASE ~Exit(c)
      BY <2>0, <2>8, <3>2, ReconcileKept DEF RedeemReceipt, Goto, CommandsOK
    <3> QED
      BY <3>1, <3>2
  <2>9. ASSUME NEW c \in Commands, Burn(c) PROVE ReconcileInv'
    <3>1. CASE Exit(c)
      BY <2>9, <3>1, ReconcileExit DEF Burn
    <3>2. CASE ~Exit(c)
      BY <2>0, <2>9, <3>2, ReconcileKept DEF Burn, Goto, CommandsOK
    <3> QED
      BY <3>1, <3>2
  <2>10. ASSUME NEW c \in Commands, SyncLedger(c) PROVE ReconcileInv'
    BY <2>0, <2>10, ReconcileKept DEF SyncLedger, Goto, CommandsOK
  <2>11. ASSUME NEW c \in Commands, CompareChain(c) PROVE ReconcileInv'
    <3>1. CASE Exit(c)
      BY <2>11, <3>1, ReconcileExit DEF CompareChain
    <3>2. CASE ~Exit(c)
      <4>1. /\ agrees' = [agrees EXCEPT ![c] = (seen[c] = supply)]
            /\ UNCHANGED <<seen, late, supply>> /\ supply \in Nat
            /\ \A d \in Commands : d # c => pc'[d] = pc[d]
        <5>1. CommandsOK /\ supply \in Nat
          BY TypeParts DEF TypedInv, ChainOK
        <5>2. /\ agrees' = [agrees EXCEPT ![c] = (seen[c] = supply)]
              /\ UNCHANGED <<seen, late, supply>> /\ Goto(c, "verdict")
          BY <2>11, <3>2 DEF CompareChain
        <5> QED
          BY <5>1, <5>2, OneMoves
      <4>2. /\ agrees'[c] <=> seen[c] = supply
            /\ \A d \in Commands : d # c => agrees'[d] = agrees[d]
        BY <2>0, <4>1 DEF CommandsOK
      <4> QED
        BY <4>1, <4>2 DEF ReconcileInv
    <3> QED
      BY <3>1, <3>2
  <2>12. ASSUME NEW c \in Commands, ReportVerdict(c) PROVE ReconcileInv'
    BY <2>12, ReconcileExit DEF ReportVerdict
  <2>13. ASSUME NEW c \in Commands, MineTx(c) PROVE ReconcileInv'
    <3>1. UNCHANGED processVars /\ tx[c] = "pending"
      BY <2>13 DEF MineTx
    <3>2. CASE Execute(TxOf(c))
      BY <3>1, <3>2, TxOfType, ReconcileMined DEF TypedInv
    <3>3. CASE Unexecuted
      BY <3>1, <3>3, ReconcileKept DEF Unexecuted, processVars
    <3> QED
      BY <2>13, <3>2, <3>3 DEF MineTx
  <2>14. ASSUME NEW c \in Commands, Kill(c) PROVE ReconcileInv'
    BY <2>14, ReconcileExit DEF Kill
  <2>15. ASSUME MineOrphan PROVE ReconcileInv'
    <3>1. UNCHANGED processVars /\ orphans # <<>>
      BY <2>15 DEF MineOrphan
    <3>2. CASE Execute(Head(orphans))
      BY <3>1, <3>2, HeadType, ReconcileMined DEF TypedInv
    <3>3. CASE Unexecuted
      BY <3>1, <3>3, ReconcileKept DEF Unexecuted, processVars
    <3> QED
      BY <2>15, <3>2, <3>3 DEF MineOrphan
  <2>16. ASSUME UNCHANGED vars PROVE ReconcileInv'
    BY <2>16, ReconcileKept DEF vars, commandVars, processVars
  <2> QED
    BY <2>2, <2>3, <2>4, <2>5, <2>6, <2>7, <2>8, <2>9, <2>10, <2>11, <2>12, <2>13, <2>14, <2>15,
       <2>16, NextCases
<1> QED
  BY <1>1, <1>2, IssuerTyped, PTL DEF Spec

\* A reconcile that passes is right about the supply of that moment, however
\* other commands overlap with its reads, unless a mint is mined between the
\* comparison with the chain and the verdict (runReconcile, main.go:440-468).
THEOREM IssuerReconcileSound == Spec => []ReconcileSound
<1>1. TypedInv /\ ReconcileInv => ReconcileSound
  <2> SUFFICES ASSUME TypedInv, ReconcileInv, NEW c \in Commands,
                      pc[c] = "verdict", Verdict(c), ~late[c]
               PROVE  supply <= Total(file)
    BY DEF ReconcileSound
  <2>1. supply <= seen[c] /\ seen[c] <= Total(file)
    BY DEF ReconcileInv, Verdict
  <2>2. supply \in Nat /\ seen[c] \in Int /\ Total(file) \in Int
    BY TypeParts, MovementsFinite DEF TypedInv, ChainOK, CommandsOK, FileOK
  <2> QED
    BY <2>1, <2>2
<1> QED
  BY <1>1, IssuerTyped, IssuerReconcile, PTL

\* It is enough to look at the command that takes the step.
LEMMA BackedStep ==
  ASSUME CommandsOK, CommandStage, NEW c \in Commands,
         \A d \in Commands : d # c => op'[d] = op[d],
         ~crossed' /\ ~drawn' =>
           /\ \A d \in Commands : d # c => pc[d] = "idle"
           /\ supply' <= Backing' /\ BackedOf(c)'
  PROVE  BackedInv'
<1>1. \A d \in Commands : d # c /\ pc[d] = "idle" => op'[d].kind = "none"
  BY OpFields DEF CommandStage, StageOf
<1>2. ~crossed' /\ ~drawn' => \A d \in Commands : BackedOf(d)'
  BY <1>1 DEF BackedOf
<1> QED
  BY <1>2 DEF BackedInv

\* Nothing is on its way for a command that ended.
LEMMA BackedExit ==
  ASSUME CommandsOK, NEW c \in Commands, Exit(c)
  PROVE  BackedOf(c)' /\ \A d \in Commands : d # c => op'[d] = op[d]
<1>1. op'[c] = Idle /\ \A d \in Commands : d # c => op'[d] = op[d]
  BY DEF Exit, CommandsOK
<1> QED
  BY <1>1, OpFields DEF BackedOf

\* A write of a command that runs alone, whole or cut, keeps the supply backed.
LEMMA BackedWrite ==
  ASSUME TypedInv, FreshInv, BackedInv, NEW c \in Commands, pc[c] = "append",
         ~crossed, ~drawn, supply' = supply, NEW l \in CutLines(c), Written(c, l)
  PROVE  supply' <= Backing'
<1>1. /\ supply \in Nat /\ op[c].amount \in Nat /\ op[c].kind \in Kinds
      /\ op[c].kind # "mint" /\ op[c].kind # "reconcile"
  BY TypeParts, OpFields DEF TypedInv, CommandsOK, ChainOK, StageInv, CommandStage, StageOf
<1>2. supply <= Backing /\ BackedOf(c)
  BY DEF BackedInv
<1>3. /\ Backing \in Int /\ Backing' \in Int
      /\ Backing' >= Backing \/ Backing' = Backing + Movement(c)
  BY AloneWrites
<1>4. CASE op[c].kind = "reserve-add"
  BY <1>1, <1>2, <1>3, <1>4 DEF Movement
<1>5. CASE op[c].kind = "redeem"
  <2>1. supply + op[c].amount <= Backing
    BY <1>2, <1>5 DEF BackedOf, Burned
  <2> QED
    BY <1>1, <1>2, <1>3, <1>5, <2>1 DEF Movement
<1> QED
  BY <1>1, <1>2, <1>4, <1>5 DEF BackedOf, Kinds

\* The supply is within the reserve with what is on its way.
LEMMA IssuerBacked == Spec => []BackedInv
<1>1. Init => BackedInv
  <2> SUFFICES ASSUME Init PROVE BackedInv
    OBVIOUS
  <2>1. supply = 0 /\ file = <<>> /\ lost = 0 /\ \A c \in Commands : op[c] = Idle
    BY DEF Init
  <2>2. Movements(file) = {} /\ Total(file) = 0
    BY <2>1, SumEmpty DEF Movements, Total
  <2> QED
    BY <2>1, <2>2, OpFields DEF BackedInv, BackedOf, Backing
<1>2. TypedInv /\ AloneInv /\ FreshInv /\ BackedInv /\ [Next]_vars => BackedInv'
  <2> SUFFICES ASSUME TypedInv, AloneInv, FreshInv, BackedInv, [Next]_vars PROVE BackedInv'
    OBVIOUS
  <2> USE DEF chainVars, historyVars
  <2>0. /\ CommandsOK /\ CommandStage /\ FlagsOK /\ supply \in Nat
        /\ Total(file) \in Int /\ lost \in Nat
        /\ \A d \in Commands : op[d].amount \in Nat
    BY TypeParts, MovementsFinite, OpFields DEF TypedInv, StageInv, CommandsOK, ChainOK, FileOK,
       HistoryOK
  <2> USE <2>0, OpFields DEF BackedOf, Backing
  <2>1. ASSUME NEW c \in Commands, StartMove(c) PROVE BackedInv'
    <3>1. PICK o : Start(c, o)
      BY <2>1 DEF StartMove
    <3>2. UNCHANGED <<supply, file, lost, tx>> /\ op' = [op EXCEPT ![c] = o]
          /\ drawn' = (drawn \/ o.kind = "reserve-sub")
      BY <3>1 DEF Start, chainVars
    <3>3. /\ ~crossed' => ~crossed /\ \A d \in Commands : pc[d] = "idle"
          /\ pc'[c] \in {"open", "collect", "sync"}
      BY <3>1, AloneStarts
    <3>4. pc[c] = "idle" /\ tx[c] = "none"
      BY <3>1 DEF Start, CommandStage, StageOf
    <3>5. ~drawn' => BackedOf(c)'
      <4>1. op'[c] = o /\ tx'[c] = "none"
        BY <3>2, <3>4 DEF CommandsOK
      <4>2. o.kind = "redeem" => pc'[c] = "collect"
        BY <3>1 DEF Start, Goto, CommandsOK
      <4> QED
        BY <3>2, <4>1, <4>2 DEF BackedOf, Burned
    <3>6. ~drawn' => ~drawn
      BY <3>2
    <3>7. ~crossed /\ ~drawn => supply <= Backing
      BY DEF BackedInv
    <3>8. \A d \in Commands : d # c => op'[d] = op[d]
      BY <3>2 DEF CommandsOK
    <3> QED
      BY <3>2, <3>3, <3>5, <3>6, <3>7, <3>8, BackedStep
  <2>2. ASSUME NEW c \in Commands, StartRedeem(c) PROVE BackedInv'
    <3>1. PICK o : Start(c, o)
      BY <2>2 DEF StartRedeem
    <3>2. UNCHANGED <<supply, file, lost, tx>> /\ op' = [op EXCEPT ![c] = o]
          /\ drawn' = (drawn \/ o.kind = "reserve-sub")
      BY <3>1 DEF Start, chainVars
    <3>3. /\ ~crossed' => ~crossed /\ \A d \in Commands : pc[d] = "idle"
          /\ pc'[c] \in {"open", "collect", "sync"}
      BY <3>1, AloneStarts
    <3>4. pc[c] = "idle" /\ tx[c] = "none"
      BY <3>1 DEF Start, CommandStage, StageOf
    <3>5. ~drawn' => BackedOf(c)'
      <4>1. op'[c] = o /\ tx'[c] = "none"
        BY <3>2, <3>4 DEF CommandsOK
      <4>2. o.kind = "redeem" => pc'[c] = "collect"
        BY <3>1 DEF Start, Goto, CommandsOK
      <4> QED
        BY <3>2, <4>1, <4>2 DEF BackedOf, Burned
    <3>6. ~drawn' => ~drawn
      BY <3>2
    <3>7. ~crossed /\ ~drawn => supply <= Backing
      BY DEF BackedInv
    <3>8. \A d \in Commands : d # c => op'[d] = op[d]
      BY <3>2 DEF CommandsOK
    <3> QED
      BY <3>2, <3>3, <3>5, <3>6, <3>7, <3>8, BackedStep
  <2>3. ASSUME NEW c \in Commands, StartReconcile(c) PROVE BackedInv'
    <3>1. PICK o : Start(c, o)
      BY <2>3 DEF StartReconcile
    <3>2. UNCHANGED <<supply, file, lost, tx>> /\ op' = [op EXCEPT ![c] = o]
          /\ drawn' = (drawn \/ o.kind = "reserve-sub")
      BY <3>1 DEF Start, chainVars
    <3>3. /\ ~crossed' => ~crossed /\ \A d \in Commands : pc[d] = "idle"
          /\ pc'[c] \in {"open", "collect", "sync"}
      BY <3>1, AloneStarts
    <3>4. pc[c] = "idle" /\ tx[c] = "none"
      BY <3>1 DEF Start, CommandStage, StageOf
    <3>5. ~drawn' => BackedOf(c)'
      <4>1. op'[c] = o /\ tx'[c] = "none"
        BY <3>2, <3>4 DEF CommandsOK
      <4>2. o.kind = "redeem" => pc'[c] = "collect"
        BY <3>1 DEF Start, Goto, CommandsOK
      <4> QED
        BY <3>2, <4>1, <4>2 DEF BackedOf, Burned
    <3>6. ~drawn' => ~drawn
      BY <3>2
    <3>7. ~crossed /\ ~drawn => supply <= Backing
      BY DEF BackedInv
    <3>8. \A d \in Commands : d # c => op'[d] = op[d]
      BY <3>2 DEF CommandsOK
    <3> QED
      BY <3>2, <3>3, <3>5, <3>6, <3>7, <3>8, BackedStep
  <2>4. ASSUME NEW c \in Commands, OpenReserve(c) PROVE BackedInv'
    BY <2>4 DEF OpenReserve, Goto, BackedInv, Burned
  <2>5. ASSUME NEW c \in Commands, AppendReserve(c) PROVE BackedInv'
    <3>1. /\ pc[c] = "append" /\ Exit(c) /\ UNCHANGED <<supply, crossed, drawn>>
          /\ Line("move", Movement(c)) \in CutLines(c) /\ Written(c, Line("move", Movement(c)))
      BY <2>5 DEF AppendReserve, CutLines
    <3>2. ~crossed => \A d \in Commands : d # c => pc[d] = "idle"
      BY <3>1 DEF AloneInv
    <3>3. ~crossed /\ ~drawn => supply' <= Backing'
      BY <3>1, BackedWrite
    <3> QED
      BY <3>1, <3>2, <3>3, BackedExit, BackedStep
  <2>6. ASSUME NEW c \in Commands, CheckMint(c) PROVE BackedInv'
    <3>1. pc[c] = "check" /\ UNCHANGED <<supply, file, lost, crossed, drawn>>
      BY <2>6 DEF CheckMint
    <3>2. ~crossed => \A d \in Commands : d # c => pc[d] = "idle"
      BY <3>1 DEF AloneInv
    <3>3. ~crossed /\ ~drawn => supply' <= Backing'
      BY <3>1 DEF BackedInv
    <3>4. CASE Exit(c)
      BY <3>1, <3>2, <3>3, <3>4, BackedExit, BackedStep
    <3>5. CASE ~Exit(c)
      <4>1. /\ op' = op /\ pc' = [pc EXCEPT ![c] = "wait"] /\ tx' = [tx EXCEPT ![c] = "pending"]
            /\ WithinReserve(c)
        BY <2>6, <3>5 DEF CheckMint, Goto
      <4>2. pc'[c] = "wait" /\ tx'[c] = "pending"
        BY <4>1 DEF CommandsOK
      <4>3. ~crossed /\ ~drawn => BackedOf(c)'
        <5>1. op[c].kind = "mint" /\ (~crossed => cached[c] = Total(file))
          BY <3>1 DEF CommandStage, StageOf, FreshInv
        <5> QED
          BY <3>1, <4>1, <5>1 DEF BackedOf, WithinReserve
      <4> QED
        BY <3>1, <3>2, <3>3, <4>1, <4>3, BackedStep
    <3> QED
      BY <3>4, <3>5
  <2>7. ASSUME NEW c \in Commands, MintReceipt(c) PROVE BackedInv'
    BY <2>7 DEF MintReceipt, Exit, BackedInv, Burned
  <2>8. ASSUME NEW c \in Commands, Collect(c) PROVE BackedInv'
    <3>1. pc[c] = "collect" /\ UNCHANGED <<supply, file, lost, crossed, drawn>>
      BY <2>8 DEF Collect
    <3>2. ~crossed => \A d \in Commands : d # c => pc[d] = "idle"
      BY <3>1 DEF AloneInv
    <3>3. ~crossed /\ ~drawn => supply' <= Backing'
      BY <3>1 DEF BackedInv
    <3>4. CASE Exit(c)
      BY <3>1, <3>2, <3>3, <3>4, BackedExit, BackedStep
    <3>5. CASE ~Exit(c)
      <4>1. /\ op' = op /\ pc' = [pc EXCEPT ![c] = "wait"] /\ tx' = [tx EXCEPT ![c] = "pending"]
        BY <2>8, <3>5 DEF Collect, Goto
      <4>2. pc'[c] = "wait" /\ tx'[c] = "pending"
        BY <4>1 DEF CommandsOK
      <4>3. ~crossed /\ ~drawn => BackedOf(c)'
        <5>1. op[c].kind = "redeem" /\ BackedInv
          BY <3>1 DEF CommandStage, StageOf
        <5> QED
          BY <4>1, <4>2, <5>1 DEF BackedInv, BackedOf, Burned
      <4> QED
        BY <3>1, <3>2, <3>3, <4>1, <4>3, BackedStep
    <3> QED
      BY <3>4, <3>5
  <2>9. ASSUME NEW c \in Commands, RedeemReceipt(c) PROVE BackedInv'
    BY <2>9 DEF RedeemReceipt, Succeeded, Goto, Exit, BackedInv, CommandStage, StageOf,
       CommandsOK, Burned
  <2>10. ASSUME NEW c \in Commands, Burn(c) PROVE BackedInv'
    <3>1. pc[c] = "burn" /\ UNCHANGED <<supply, file, lost, crossed, drawn>>
      BY <2>10 DEF Burn
    <3>2. ~crossed => \A d \in Commands : d # c => pc[d] = "idle"
      BY <3>1 DEF AloneInv
    <3>3. ~crossed /\ ~drawn => supply' <= Backing'
      BY <3>1 DEF BackedInv
    <3>4. CASE Exit(c)
      BY <3>1, <3>2, <3>3, <3>4, BackedExit, BackedStep
    <3>5. CASE ~Exit(c)
      <4>1. /\ op' = op /\ pc' = [pc EXCEPT ![c] = "wait"] /\ tx' = [tx EXCEPT ![c] = "pending"]
        BY <2>10, <3>5 DEF Burn, Goto
      <4>2. pc'[c] = "wait" /\ tx'[c] = "pending"
        BY <4>1 DEF CommandsOK
      <4>3. ~crossed /\ ~drawn => BackedOf(c)'
        <5>1. op[c].kind = "redeem" /\ BackedInv
          BY <3>1 DEF CommandStage, StageOf
        <5> QED
          BY <4>1, <4>2, <5>1 DEF BackedInv, BackedOf, Burned
      <4> QED
        BY <3>1, <3>2, <3>3, <4>1, <4>3, BackedStep
    <3> QED
      BY <3>4, <3>5
  <2>11. ASSUME NEW c \in Commands, SyncLedger(c) PROVE BackedInv'
    BY <2>11 DEF SyncLedger, Goto, BackedInv, Burned
  <2>12. ASSUME NEW c \in Commands, CompareChain(c) PROVE BackedInv'
    <3>1. pc[c] = "compare" /\ UNCHANGED <<supply, file, lost, crossed, drawn>>
      BY <2>12 DEF CompareChain
    <3>2. ~crossed => \A d \in Commands : d # c => pc[d] = "idle"
      BY <3>1 DEF AloneInv
    <3>3. ~crossed /\ ~drawn => supply' <= Backing'
      BY <3>1 DEF BackedInv
    <3>4. CASE Exit(c)
      BY <3>1, <3>2, <3>3, <3>4, BackedExit, BackedStep
    <3>5. CASE ~Exit(c)
      <4>1. pc' = [pc EXCEPT ![c] = "verdict"] /\ UNCHANGED <<op, tx, seen>>
        BY <2>12, <3>5 DEF CompareChain, Goto
      <4>2. op[c].kind = "reconcile"
        BY <3>1 DEF CommandStage, StageOf
      <4>3. BackedOf(c)'
        BY <4>1, <4>2 DEF BackedOf
      <4> QED
        BY <3>1, <3>2, <3>3, <4>1, <4>3, BackedStep
    <3> QED
      BY <3>4, <3>5
  <2>13. ASSUME NEW c \in Commands, ReportVerdict(c) PROVE BackedInv'
    BY <2>13 DEF ReportVerdict, Exit, BackedInv, Burned
  <2>14. ASSUME NEW c \in Commands, MineTx(c) PROVE BackedInv'
    <3>1. /\ tx[c] = "pending" /\ pc[c] = "wait" /\ op[c].kind \in {"mint", "redeem"}
          /\ op[c].amount \in Nat /\ (op[c].kind = "redeem" => seen[c] \in {0, 1})
          /\ UNCHANGED <<pc, op, seen, file, lost, crossed, drawn>>
          /\ tx'[c] \in {"ok", "reverted"}
      BY <2>14 DEF MineTx, processVars, CommandStage, StageOf, CommandsOK
    <3>2. ~crossed => \A d \in Commands : d # c => pc[d] = "idle"
      BY <3>1 DEF AloneInv
    <3>3. CASE Unexecuted /\ tx'[c] = "reverted"
      <4>1. ~crossed /\ ~drawn => supply' <= Backing' /\ BackedOf(c)'
        BY <3>1, <3>3 DEF Unexecuted, BackedInv, BackedOf, Burned
      <4> QED
        BY <3>1, <3>2, <4>1, BackedStep
    <3>4. CASE Execute(TxOf(c)) /\ tx'[c] = "ok"
      <4>1. TxOf(c).op = op[c] /\ TxOf(c).kind =
              (IF op[c].kind = "mint" THEN "mint" ELSE IF seen[c] = 0 THEN "collect" ELSE "burn")
        BY DEF TxOf
      <4>2. supply' = supply + (IF op[c].kind = "mint" THEN op[c].amount
                                ELSE IF seen[c] = 0 THEN 0 ELSE -op[c].amount)
        BY <3>4, <4>1 DEF Execute
      <4>3. ~crossed /\ ~drawn => supply <= Backing /\ BackedOf(c)
        BY DEF BackedInv
      <4>4. ~crossed /\ ~drawn => supply' <= Backing
        BY <3>1, <4>2, <4>3 DEF BackedOf
      <4>5. ~crossed /\ ~drawn => BackedOf(c)'
        BY <3>1, <3>4, <4>2, <4>3, <4>4 DEF BackedOf, Burned
      <4> QED
        BY <3>1, <3>2, <4>4, <4>5, BackedStep
    <3> QED
      BY <2>14, <3>1, <3>3, <3>4 DEF MineTx, CommandsOK
  <2>15. ASSUME NEW c \in Commands, Kill(c) PROVE BackedInv'
    <3>1. /\ pc[c] # "idle" /\ Exit(c) /\ UNCHANGED <<supply, drawn>> /\ (~crossed' => ~crossed)
      BY <2>15 DEF Kill
    <3>2. ~crossed => \A d \in Commands : d # c => pc[d] = "idle"
      BY <3>1 DEF AloneInv
    <3>3. ~crossed /\ ~drawn => supply' <= Backing'
      <4>1. CASE UNCHANGED <<file, lost>>
        BY <3>1, <4>1 DEF BackedInv
      <4>2. CASE pc[c] = "append" /\ \E line \in CutLines(c) : Written(c, line)
        BY <3>1, <4>2, BackedWrite
      <4> QED
        BY <2>15, <4>1, <4>2 DEF Kill
    <3> QED
      BY <3>1, <3>2, <3>3, BackedExit, BackedStep
  <2>16. ASSUME MineOrphan PROVE BackedInv'
    BY <2>16 DEF MineOrphan, Execute, Unexecuted, commandVars, processVars, BackedInv, AloneInv
  <2>17. ASSUME UNCHANGED vars PROVE BackedInv'
    BY <2>17 DEF vars, commandVars, processVars, BackedInv, Burned
  <2> QED
    BY <2>1, <2>2, <2>3, <2>4, <2>5, <2>6, <2>7, <2>8, <2>9, <2>10, <2>11, <2>12, <2>13, <2>14,
       <2>15, <2>16, <2>17, NextCases
<1> QED
  BY <1>1, <1>2, IssuerTyped, IssuerAlone, IssuerFresh, PTL DEF Spec

\* Commands run one after another, without a withdrawal by hand, keep the supply
\* within the reserve file and the deposits lost from it, at every step, through
\* reverted transactions and writes cut anywhere (runMint, main.go:385-399;
\* runRedeem, main.go:573-599; Append, reserve.go:90-107).
THEOREM IssuerSupplyBacked == Spec => []SupplyBacked
<1>1. BackedInv => SupplyBacked
  BY DEF BackedInv, SupplyBacked, Backing
<1> QED
  BY <1>1, IssuerBacked, PTL
=============================================================================
