------------------------------- MODULE Issuer -------------------------------
(***************************************************************************)
(* The issuer's commands on the token supply and the reserve:              *)
(* cmd/issuer/main.go with the append-only file of reserve/reserve.go.     *)
(*                                                                         *)
(* A command is a process of its own; nothing locks the reserve file or    *)
(* the chain between two of them.  Its steps end where it leaves the       *)
(* process: the file is opened and replayed, a transaction is submitted,   *)
(* its receipt arrives, a line is written.  The command line, keys, off-   *)
(* chain signature checks and printing are left out; --reserve is given.   *)
(*                                                                         *)
(* A line of the reserve file is a "move", "unended" (a movement that      *)
(* parses but has no newline yet), "torn" (cut before that: it neither     *)
(* parses nor ends) or "garbled" (it ends, but replay cannot parse it).    *)
(* The file is opened without O_APPEND: a command writes where the file    *)
(* ended when it was opened.  Lines count as equally long, so a write of   *)
(* overlapping commands replaces whole lines.                              *)
(***************************************************************************)
EXTENDS Integers, FiniteSets, Sequences, Sums

CONSTANTS
  Commands,  \* command processes that may run at a time
  Requests,  \* signed redemption requests
  Value,     \* Value[r]: the amount request r redeems
  Amounts,   \* the amounts of a mint, a deposit or a withdrawal
  Ops,       \* which commands are run, see Kinds
  Faults,    \* "rpc": a call fails; "revert": a transaction reverts;
             \* "crash": a command is killed, or dies of a failed write
  MaxStarts  \* bound on the commands that are started

Kinds == {"mint", "reserve-add", "reserve-sub", "redeem", "reconcile"}

ASSUME IssuerAssumption ==
  /\ Value \in [Requests -> Nat]
  /\ Amounts \subseteq Nat \ {0}
  /\ Ops \subseteq Kinds
  /\ Faults \subseteq {"rpc", "revert", "crash"}
  /\ MaxStarts \in Nat

VARIABLES
  \* the command processes
  pc,        \* where each command is
  op,        \* what it was asked to do: a kind, an amount, a request
  cached,    \* reserve.Ledger.total as replayed at Open
  offset,    \* where it writes: the lines at Open, and whether the last has no end
  seen,      \* the ledger supply a reconcile computed; 1 in step 2 of a redeem
  agrees,    \* whether the chain agreed with that ledger
  late,      \* history: a mint was mined since the chain agreed
  tx,        \* the transaction it waits for
  \* durable
  file,      \* the lines of the reserve file
  \* the chain
  supply,    \* totalSupply
  holder,    \* the holders' balance
  issuer,    \* the issuer's balance
  used,      \* redemption requests whose nonce is used
  orphans,   \* pending transactions whose command was killed
  \* history
  starts,    \* commands started
  burned,    \* burned[r]: what the redemption of r burned
  entered,   \* entered[r]: withdrawal lines written for r
  lost,      \* deposits on unended lines that a later write ran on from
  crossed,   \* commands overlapped, or one died with a transaction out
  drawn      \* the reserve was withdrawn by hand

processVars == <<pc, op, cached, offset, seen, agrees>>
commandVars == <<processVars, tx, late>>
chainVars   == <<supply, holder, issuer, used, orphans>>
historyVars == <<starts, burned, entered, lost, crossed, drawn>>
vars == <<commandVars, file, chainVars, historyVars>>

Idle == [kind |-> "none", amount |-> 0]
OpSet == [kind: {"mint", "reserve-add", "reserve-sub"}, amount: Nat]
           \cup [kind: {"redeem"}, amount: Nat, request: Requests]
           \cup {[kind |-> "reconcile", amount |-> 0], Idle}

PCs == {"idle", "open", "check", "collect", "burn", "wait", "append", "sync", "compare", "verdict"}

Line(kind, amount) == [kind |-> kind, amount |-> amount]
Lines == [kind: {"move", "unended", "torn", "garbled"}, amount: Int]
Start0 == [line |-> 0, behind |-> FALSE]

TypeOK ==
  /\ pc \in [Commands -> PCs]
  /\ op \in [Commands -> OpSet]
  /\ cached \in [Commands -> Int]
  /\ offset \in [Commands -> [line: Nat, behind: BOOLEAN]]
  /\ seen \in [Commands -> Int]
  /\ agrees \in [Commands -> BOOLEAN]
  /\ late \in [Commands -> BOOLEAN]
  /\ tx \in [Commands -> {"none", "pending", "ok", "reverted"}]
  /\ file \in Seq(Lines)
  /\ supply \in Nat
  /\ holder \in Nat
  /\ issuer \in Nat
  /\ used \subseteq Requests
  /\ orphans \in Seq([kind: {"mint", "collect", "burn"}, op: OpSet])
  /\ starts \in Nat
  /\ burned \in [Requests -> Nat]
  /\ entered \in [Requests -> Nat]
  /\ lost \in Nat
  /\ crossed \in BOOLEAN
  /\ drawn \in BOOLEAN
  /\ supply = holder + issuer

Init ==
  /\ pc = [c \in Commands |-> "idle"]
  /\ op = [c \in Commands |-> Idle]
  /\ cached = [c \in Commands |-> 0]
  /\ offset = [c \in Commands |-> Start0]
  /\ seen = [c \in Commands |-> 0]
  /\ agrees = [c \in Commands |-> FALSE]
  /\ late = [c \in Commands |-> FALSE]
  /\ tx = [c \in Commands |-> "none"]
  /\ file = <<>>
  /\ supply = 0
  /\ holder = 0
  /\ issuer = 0
  /\ used = {}
  /\ orphans = <<>>
  /\ starts = 0
  /\ burned = [r \in Requests |-> 0]
  /\ entered = [r \in Requests |-> 0]
  /\ lost = 0
  /\ crossed = FALSE
  /\ drawn = FALSE
----------------------------------------------------------------------------
(* The reserve file.                                                       *)

\* The lines that parse: Scanner returns a last line without its newline, too.
Movements(lines) == {i \in DOMAIN lines : lines[i].kind \in {"move", "unended"}}

\* Ledger.replay: the sum of the lines that parse.
Total(lines) == Sum([i \in DOMAIN lines |-> lines[i].amount], Movements(lines))

Ended(line) == line.kind \in {"move", "garbled"}

\* Seek(0, io.SeekEnd).
EndOf(lines) ==
  [line |-> Len(lines), behind |-> lines # <<>> /\ ~Ended(lines[Len(lines)])]

\* A line that runs on: two records, or the part of one and another, do not parse.
Glued(old, line) ==
  Line(IF Ended(old) \/ Ended(line) THEN "garbled" ELSE "torn", 0)

\* A line over another: what the write does not reach keeps its end.
Over(old, line) ==
  CASE line.kind = "unended" /\ Ended(old) -> Line("move", line.amount)
    [] line.kind = "torn" /\ Ended(old)    -> Line("garbled", 0)
    [] OTHER                               -> line

\* A write runs on from an unfinished line, replaces the line at its offset, or
\* grows the file.
Write(lines, at, line) ==
  IF at.behind
  THEN [lines EXCEPT ![at.line] = Glued(@, line)]
  ELSE IF at.line < Len(lines)
       THEN [lines EXCEPT ![at.line + 1] = Over(@, line)]
       ELSE Append(lines, line)
----------------------------------------------------------------------------
(* Starting and ending a command.                                          *)

Goto(c, where) == pc' = [pc EXCEPT ![c] = where]

\* The process exits.
Exit(c) ==
  /\ pc' = [pc EXCEPT ![c] = "idle"]
  /\ op' = [op EXCEPT ![c] = Idle]
  /\ cached' = [cached EXCEPT ![c] = 0]
  /\ offset' = [offset EXCEPT ![c] = Start0]
  /\ seen' = [seen EXCEPT ![c] = 0]
  /\ agrees' = [agrees EXCEPT ![c] = FALSE]
  /\ late' = [late EXCEPT ![c] = FALSE]
  /\ tx' = [tx EXCEPT ![c] = "none"]

Start(c, o) ==
  /\ pc[c] = "idle"
  /\ starts < MaxStarts
  /\ starts' = starts + 1
  /\ op' = [op EXCEPT ![c] = o]
  /\ Goto(c, CASE o.kind = "redeem"    -> "collect"
               [] o.kind = "reconcile" -> "sync"
               [] OTHER                -> "open")
  /\ crossed' = (crossed \/ \E d \in Commands : pc[d] # "idle")
  /\ drawn' = (drawn \/ o.kind = "reserve-sub")
  /\ UNCHANGED <<cached, offset, seen, agrees, late, tx, file, chainVars, burned, entered,
                 lost>>

StartMove(c) ==
  \E kind \in Ops \cap {"mint", "reserve-add", "reserve-sub"}, v \in Amounts :
    Start(c, [kind |-> kind, amount |-> v])

StartRedeem(c) ==
  /\ "redeem" \in Ops
  /\ \E r \in Requests : Start(c, [kind |-> "redeem", amount |-> Value[r], request |-> r])

StartReconcile(c) ==
  "reconcile" \in Ops /\ Start(c, [kind |-> "reconcile", amount |-> 0])

\* reserve.Open: the total and the end of the file as they are now.
OpenReserve(c) ==
  /\ pc[c] = "open"
  /\ cached' = [cached EXCEPT ![c] = Total(file)]
  /\ offset' = [offset EXCEPT ![c] = EndOf(file)]
  /\ Goto(c, IF op[c].kind = "mint" THEN "check" ELSE "append")
  /\ UNCHANGED <<op, seen, agrees, late, tx, file, chainVars, historyVars>>

\* The signed movement a command records.
Movement(c) == IF op[c].kind = "reserve-add" THEN op[c].amount ELSE -op[c].amount

\* The deposit that a write of command c destroys: its line parses, has no
\* newline, and will not parse once the write ran on from it.
RunOver(c) ==
  LET at == offset[c].line IN
  IF offset[c].behind /\ at \in Movements(file) /\ ~Ended(file[at]) /\ file[at].amount > 0
  THEN file[at].amount
  ELSE 0

\* Ledger.Append's write reaches the file as the given line.
Written(c, line) ==
  /\ file' = Write(file, offset[c], line)
  /\ lost' = lost + RunOver(c)
  /\ entered' = IF op[c].kind = "redeem" /\ line.kind # "torn"
                THEN [entered EXCEPT ![op[c].request] = @ + 1]
                ELSE entered

\* Ledger.Append, written and fsynced; then the command reports success.
AppendReserve(c) ==
  /\ pc[c] = "append"
  /\ Written(c, Line("move", Movement(c)))
  /\ Exit(c)
  /\ UNCHANGED <<chainVars, starts, burned, crossed, drawn>>
----------------------------------------------------------------------------
(* mint.                                                                   *)

\* Mutant: the amount to mint is left out of the comparison.
WithinReserve_BeforeMint(c) == supply <= cached[c]

\* supply + value must not exceed the total read at Open.
WithinReserve(c) == supply + op[c].amount <= cached[c]

\* TotalSupply, the comparison and the submission of mint().
CheckMint(c) ==
  /\ pc[c] = "check"
  /\ \/ /\ WithinReserve(c)
        /\ tx' = [tx EXCEPT ![c] = "pending"]
        /\ Goto(c, "wait")
        /\ UNCHANGED <<op, cached, offset, seen, agrees, late>>
     \/ /\ WithinReserve(c) => "rpc" \in Faults
        /\ Exit(c)
  /\ UNCHANGED <<file, chainVars, historyVars>>

\* WaitMined returned: runMint does not look at the receipt's status.
MintReceipt(c) ==
  /\ pc[c] = "wait"
  /\ op[c].kind = "mint"
  /\ tx[c] \in {"ok", "reverted"}
  /\ Exit(c)
  /\ UNCHANGED <<file, chainVars, historyVars>>
----------------------------------------------------------------------------
(* redeem: collect, burn, record the withdrawal.                           *)

\* Mutant: the balance is not looked at.
Collectable_NoBalance(o) == o.request \notin used

\* The token accepts a request once, from a balance that covers it.
Collectable(o) == o.request \notin used /\ holder >= o.amount

\* Step 1: receiveWithAuthorization.  Gas estimation fails on a used request
\* or on a balance that does not cover it.
Collect(c) ==
  /\ pc[c] = "collect"
  /\ \/ /\ Collectable(op[c])
        /\ tx' = [tx EXCEPT ![c] = "pending"]
        /\ Goto(c, "wait")
        /\ UNCHANGED <<op, cached, offset, seen, agrees, late>>
     \/ /\ Collectable(op[c]) => "rpc" \in Faults
        /\ Exit(c)
  /\ UNCHANGED <<file, chainVars, historyVars>>

\* Mutant: the receipt's status is not looked at.
Succeeded_Ignored(c) == TRUE

Succeeded(c) == tx[c] = "ok"

\* The receipt of step 1 or, once seen is set, of step 2.
RedeemReceipt(c) ==
  /\ pc[c] = "wait"
  /\ op[c].kind = "redeem"
  /\ tx[c] \in {"ok", "reverted"}
  /\ \/ /\ Succeeded(c)
        /\ Goto(c, IF seen[c] = 0 THEN "burn" ELSE "open")
        /\ tx' = [tx EXCEPT ![c] = "none"]
        /\ UNCHANGED <<op, cached, offset, seen, agrees, late>>
     \/ /\ ~Succeeded(c)
        /\ Exit(c)
  /\ UNCHANGED <<file, chainVars, historyVars>>

\* Step 2: burn the collected tokens.
Burn(c) ==
  /\ pc[c] = "burn"
  /\ \/ /\ issuer >= op[c].amount
        /\ seen' = [seen EXCEPT ![c] = 1]
        /\ tx' = [tx EXCEPT ![c] = "pending"]
        /\ Goto(c, "wait")
        /\ UNCHANGED <<op, cached, offset, agrees, late>>
     \/ /\ issuer >= op[c].amount => "rpc" \in Faults
        /\ Exit(c)
  /\ UNCHANGED <<file, chainVars, historyVars>>
----------------------------------------------------------------------------
(* reconcile.                                                              *)

\* Ledger.Sync: module Ledger shows that folding all Transfer events gives
\* the supply of the chain they are read from.
SyncLedger(c) ==
  /\ pc[c] = "sync"
  /\ seen' = [seen EXCEPT ![c] = supply]
  /\ Goto(c, "compare")
  /\ UNCHANGED <<op, cached, offset, agrees, late, tx, file, chainVars, historyVars>>

\* Reconcile's reads of totalSupply and of every balance.  A failed read ends
\* the command before the reserve is looked at.
CompareChain(c) ==
  /\ pc[c] = "compare"
  /\ \/ /\ agrees' = [agrees EXCEPT ![c] = seen[c] = supply]
        /\ Goto(c, "verdict")
        /\ UNCHANGED <<op, cached, offset, seen, late, tx>>
     \/ /\ "rpc" \in Faults
        /\ Exit(c)
  /\ UNCHANGED <<file, chainVars, historyVars>>

\* Mutant: a ledger that does not match the chain is reported, but passes.
Verdict_LedgerOnly(c) == seen[c] <= Total(file)

\* The ledger matches the chain and its supply is within the reserve.
Verdict(c) == agrees[c] /\ seen[c] <= Total(file)

\* reserve.Open for the fourth check, then the exit code, which is Verdict(c).
ReportVerdict(c) ==
  /\ pc[c] = "verdict"
  /\ Exit(c)
  /\ UNCHANGED <<file, chainVars, historyVars>>
----------------------------------------------------------------------------
(* The chain, and the end of a killed command.                             *)

\* The transaction a command waits for.
TxOf(c) ==
  [kind |-> IF op[c].kind = "mint" THEN "mint"
            ELSE IF seen[c] = 0 THEN "collect" ELSE "burn",
   op   |-> op[c]]

Executes(t) ==
  CASE t.kind = "mint"    -> TRUE
    [] t.kind = "collect" -> Collectable(t.op)
    [] t.kind = "burn"    -> issuer >= t.op.amount

\* The transaction's effect on the token.
Execute(t) ==
  /\ supply' = supply + (CASE t.kind = "mint" -> t.op.amount
                           [] t.kind = "collect" -> 0
                           [] t.kind = "burn" -> -t.op.amount)
  /\ holder' = holder + (CASE t.kind = "mint" -> t.op.amount
                           [] t.kind = "collect" -> -t.op.amount
                           [] t.kind = "burn" -> 0)
  /\ issuer' = supply' - holder'
  /\ used' = IF t.kind = "collect" THEN used \cup {t.op.request} ELSE used
  /\ burned' = IF t.kind = "burn"
               THEN [burned EXCEPT ![t.op.request] = @ + t.op.amount]
               ELSE burned
  /\ late' = [c \in Commands |-> late[c] \/ (t.kind = "mint" /\ pc[c] = "verdict")]

Unexecuted == UNCHANGED <<supply, holder, issuer, used, burned, late>>

\* A block takes the transaction a command waits for.
MineTx(c) ==
  /\ tx[c] = "pending"
  /\ \/ Executes(TxOf(c)) /\ Execute(TxOf(c)) /\ tx' = [tx EXCEPT ![c] = "ok"]
     \/ /\ Executes(TxOf(c)) => "revert" \in Faults
        /\ Unexecuted
        /\ tx' = [tx EXCEPT ![c] = "reverted"]
  /\ UNCHANGED <<processVars, file, orphans, starts, entered, lost, crossed, drawn>>

\* A block takes the transaction of a command that was killed.
MineOrphan ==
  /\ orphans # <<>>
  /\ IF Executes(Head(orphans)) THEN Execute(Head(orphans)) ELSE Unexecuted
  /\ orphans' = Tail(orphans)
  /\ UNCHANGED <<processVars, tx, file, starts, entered, lost, crossed, drawn>>

\* How far the write of a command that dies in Append may have got.
CutLines(c) == {Line("torn", 0), Line("unended", Movement(c)), Line("move", Movement(c))}

\* A command is killed, or its write fails.  Its transaction stays pending; its
\* write is missing, cut short, or complete without its report.
Kill(c) ==
  /\ "crash" \in Faults
  /\ pc[c] # "idle"
  /\ orphans' = IF tx[c] = "pending" THEN Append(orphans, TxOf(c)) ELSE orphans
  /\ crossed' = (crossed \/ tx[c] = "pending")
  /\ \/ UNCHANGED <<file, entered, lost>>
     \/ pc[c] = "append" /\ \E line \in CutLines(c) : Written(c, line)
  /\ Exit(c)
  /\ UNCHANGED <<supply, holder, issuer, used, starts, burned, drawn>>

Next ==
  \/ \E c \in Commands :
       \/ StartMove(c) \/ StartRedeem(c) \/ StartReconcile(c)
       \/ OpenReserve(c) \/ AppendReserve(c)
       \/ CheckMint(c) \/ MintReceipt(c)
       \/ Collect(c) \/ RedeemReceipt(c) \/ Burn(c)
       \/ SyncLedger(c) \/ CompareChain(c) \/ ReportVerdict(c)
       \/ MineTx(c) \/ Kill(c)
  \/ MineOrphan

Spec == Init /\ [][Next]_vars
----------------------------------------------------------------------------
(* Properties.                                                             *)

\* Commands run one after another keep the supply within the reserve file
\* (runMint, main.go:385-399), at every step of a redemption (burn before
\* withdrawal), after a reverted transaction and behind a torn line, but for the
\* deposits of lost.  A deposit cut right before its newline is counted by the
\* replay a mint relies on (reserve.go:59-74), and the next write runs on from it
\* and makes it unreadable (reserve.go:98-99), whatever reserve.go:50-52 says of
\* earlier lines.
SupplyBacked ==
  (~crossed /\ ~drawn) => supply <= Total(file) + lost

\* A request is redeemed once, however many redeem commands run for it and
\* wherever they are killed (runRedeem, main.go:573-599): what it burned is
\* its value or nothing, its tokens were collected first, and a withdrawal is
\* written at most once, reported or not, for what was burned.
RedeemOnce ==
  \A r \in Requests :
    /\ burned[r] \in {0, Value[r]}
    /\ burned[r] > 0 => r \in used
    /\ entered[r] <= 1
    /\ entered[r] = 1 => burned[r] = Value[r]

\* A reconcile that passes is right about the supply of this moment, not of the
\* one it was read at, however mints, redemptions and withdrawals overlap with
\* its three reads, unless a mint is mined between the last two
\* (runReconcile, main.go:440-468).
ReconcileSound ==
  \A c \in Commands :
    pc[c] = "verdict" /\ Verdict(c) /\ ~late[c] => supply <= Total(file)
=============================================================================
