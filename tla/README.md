# A TLA+ verification of stablecoin-x402-gateway

This directory models the payment system of the repository in TLA+, checks the
models with TLC on small instances, and proves theorems about them with TLAPS.
`PROJECT.json` lists the components, runs, mutants, findings, hazards and
theorems, and maps every definition to the source lines it stands for.

## 1. The system

An *agent* asks a *gateway* for a resource over HTTP. The gateway answers 402
with its price; the agent retries with a signed EIP-3009 authorization; the
gateway has a *facilitator* verify it, runs an accept *policy*, has the
facilitator settle it on chain, journals it, and hands over the resource (or an
asset) with a signed *receipt*. An agent that calls often opens a *session*: one
authorization for a budget, drawn down by many requests and settled once. A
*delegator* bounds an agent with a signed mandate, answers the gateway's asks
with confirmations and revokes; an *auditor* checks receipts offline. An *outbox*
publishes the journal. An *issuer* mints and redeems the token against a reserve
file, and a *ledger* reconstructs balances from chain events.

| Component | State | Operations | Talks to |
|---|---|---|---|
| Gateway (`x402/gateway.go`) | in-flight map of deferred payments, settlement mirror | `Middleware`, `verifyAndSettle`, `settle`, `beginDeferred`, `resumeDeferred`, `deliver`, `refund`, `RevokeMandate`, `AttachJournal` | policy, facilitator, journal, chain |
| Sessions (`session.go`) | stored sessions with metered use and a mutex each | `openSession`, `handleSession`, `settleSession` | gateway, policy, facilitator, refunder, journal |
| Mandate policy (`policy_mandate.go`, `history.go`) | per mandate: reservations by nonce, dated spends; revocation set; ask and confirmation counts | `Decide`, `Settled`, `reserve`, `commit`, `release`, `prune`, `restore`, `confirmationApproves` | called by the gateway before and after settlement |
| Other policies (`policy*.go`, `grant*.go`) | none | `Chain.Decide`: first non-approval wins; `decisionTable.match` | called by the gateway and the agent |
| Facilitator (`facilitator_*.go`) | none | `Verify`, `Settle` (submit, wait with a timeout) | chain |
| Delivery (`delivery.go`) | none | `Deliver`, `Refund` (submit, wait with no timeout) | chain |
| Journal (`journal.go`) | append-only file, index, published set | `Open`/`replay`, `Append`, `MarkPublished`, `Unpublished` | gateway, outbox |
| Outbox and sink (`outbox.go`, `sink_kafka.go`) | position in the current pass | `Run`, `drain`, `Publish` | journal, broker |
| Agent (`agent.go`, `cmd/agent`) | last payment, session id | `Get`, `Retry`, `OpenSession`, `SessionGet`, `CloseSession` | gateway |
| Delegator (`cmd/delegator`) | files it wrote | `sign`, `confirm`, `revoke` | agent, gateway |
| Audit (`cmd/audit`, `receipt.go`) | none | checks of a receipt against a mandate, the journal and the chain | journal, chain |
| Ledger (`ledger/`) | finalised aggregates, window of recent blocks, checkpoint | `Sync`, `SyncIncremental`, `Snapshot`, `Reconcile` | chain |
| Reserve and issuer (`reserve/`, `cmd/issuer`) | reserve file | deposit, withdraw, mint, redeem, reconcile | chain, ledger |
| Contracts (`contracts/`) | balances, used nonces, freezes, allowances, mandates, eligibility | token, asset, DvP, delegated spend, registries | each other |

What is hard here: every request is a goroutine, and between its steps (lookup,
verification, decision, submission, wait, journal, commit, delivery) other
requests, revocations, restarts, timeouts and reorgs happen; a chain call may
take effect although it reports an error; the process may die between two
durable writes, or inside one; the issuer's commands are processes that share a
file without a lock; a sync reads a chain that is reorganised while it reads; an
ask, its confirmation, the payment and its audit are written by four programs
that must agree about one payment.

What makes the parts correct: nobody is told of a settlement that is not durable
and on chain; a payment has one outcome; a mandate's limits hold for what
settles on chain, over restarts too; a revocation holds once acknowledged;
nothing settled disappears without a record; a session serves no more than it
can collect and returns the rest; a confirmation clears one payment and nothing
else; the audit passes what the mandate covers and nothing else; the journal
loses nothing it acknowledged and the outbox sends everything, in order; the
ledger equals the chain after a sync; the supply stays within the reserve.

## 2. Modules

| Module | Models |
|---|---|
| `Payment` | abstract: the life of a payment as the gateway promises it |
| `Gateway` | request handlers, mandate policy with unlimited windows, facilitator, deferral, delivery, refund, revocation, restart, and the chain they see; implements `Payment` |
| `MandateAccounts` | one mandate's sliding windows with time, pruning and restore |
| `Journal` | the journal file under failing and interrupted writes, and the outbox |
| `Session` | payment sessions: metering under a mutex, settlement, refund, restart |
| `Purchase` | agent, delegator, policy chain, confirmations, receipts and audit composed |
| `Ledger` | the incremental sync against a reorganising chain |
| `Issuer` | the issuer's commands, the reserve file and the token supply |
| `MCGateway`, `MCMandateAccounts`, `MCSession`, `MCPurchase`, `MCLedger`, `MCIssuer` | instances for TLC |
| `Sums` | the sum of a function over a finite set |
| `Gateway_proofs`, `MandateAccounts_proofs`, `Journal_proofs`, `Session_proofs`, `Purchase_proofs`, `Ledger_proofs`, `Issuer_proofs` | theorems |
| `Sums_proofs` | lemmas about sums, cited by the others |

### Gateway and Payment

A handler `h` is one goroutine. `pc[h]` is where it is: a step ends where the
code leaves the process (facilitator or node call, fsync) or releases a lock.
`Receive` is the decoding, the in-flight lookup and the resource binding;
`Verify`, `Decide`, `Submit`, `SettleTimeout`, `SettleReceipt`,
`JournalSettlement`, `CommitSettlement` follow `verifyAndSettle` and `settle`;
`BeginDeferred`, `ResumeDeferred`, `Deliver`, `Refund`, `Respond` the rest;
`Revoke` and `RecordRevocation` are the two halves of `RevokeMandate`;
`Restart` is a crash followed by `AttachJournal` and `restoreAccounting`.
`Mine`, `MineOrphan`, `NewBlock` and `Reorg` are the chain, `Lapse` is the clock
passing a `validBefore`.

`Faults` names the failures that may happen (see `FaultKinds`): a call that fails
before it has an effect, a revert, a wait that gives up on a transaction that is
mined all the same, a failing journal, an unreadable receipt, delivery and refund
transfers that fail or whose wait fails, and crashes. Every property says under
which of them it holds, and is checked in a run whose failures are among those:
`GatewayFaults` has all of them, `GatewayCrash` all but a failing journal, an
unreadable receipt and a failing delivery wait, `GatewayLimits` all but timeouts,
crashes, a failing journal and failing transfer waits. No single run has every
combination a property allows; the theorems do. `SingleFlight` says whether an
agent may have two requests for one payment open.

`Payment` has five actions, `Pay`, `Record`, `Deliver`, `Refund` and `Tell`, and
knows nothing of handlers, policies, deferral or crashes. `Gateway` maps onto it
by forgetting them: what is paid is what the chain executed, what is recorded is
the settlement entries of the journal. Every other step is a stutter. The
mapping holds for single-flight agents, without reorgs, while delivery learns
the outcome of its transaction.

Abstractions. A payment is its nonce, and nonces are unique among payers, as the
agent's random salt makes them. Signatures verify exactly when genuine. The
single checks of `Verify` are "the nonce is unused" or a refusal for any other
reason. The accept table answers anything in `TableActions`. Decision entries
with `settled=false` and receipt entries are left out: the gateway does not read
them back. An ask reserves nothing, so it is a refusal here, and the confirmed
retry is a payload of its own; `Purchase` has both. A retry of a deferred payment
is a payload of its own as well, whose `value` need not be the `Amount` that was
signed: `Verify` compares the two, but a retry is resumed before it is verified.

### MandateAccounts

Time is in ticks, `Second` of which make one second. `reserve`, `commit`,
`release`, `prune`, `windowDur`, `maxWindow` are the code's; `recordDecision`
dates the journal entry by the second, as `time.Now().Unix()` does, and
`Restart` restores the spends from it. `windowDur` keeps the wrap of
`time.Duration`. The history variables `unpruned` and `paid` exist for the
properties only.

### Journal

The file is a sequence of lines, each a record or garbage, ended by a newline or
not. A write that fails or is interrupted leaves nothing, part of its line, all
but the newline, or all of it (`WriteErrors`, `CrashCuts`); the next write
continues an unfinished line, which then no longer parses. `Scan`, `Publish`,
`PublishFails` and `MarkPublished` are the outbox's pass, which holds no lock
between them. `Crash` is `Open` on what the crash left behind.

### Session

Handlers as in `Gateway`; `lock[i]` is the mutex of session `i`, held from the
settled check of `handleSession` to the answer. `OpenSession`, `Verify` and
`OpenHeld` are `openSession`; `Refuse`, `Draw` and `BeginSettle` what
`handleSession` does once it has the mutex; `Submit` to `SettleDone` are
`settleSession` with the facilitator's `Settle`, and `SettleFailed` each of its
error returns. A request that is served with no call in between is one step. The
clock of an authorization has three phases: far from `validBefore`, inside
`sessionMargin`, past it. `broken` collects the authorizations whose settlement
outcome the gateway could not record, so that the properties can say what holds
otherwise. A restart forgets every session: they are in memory only.

### Purchase

Composes what passes between the parties. A run of the agent goes through `Get` or
`Retry` (the grant table, `buildPayment`, `boundNonce`), `Verify`, `Decide`,
`Settle`, `Commit`; `Decide` runs the registries, the mandate policy, the accept
table and the confirmation history in the chain's order. `SignMandate`, `Confirm`
and `Revoke` are the delegator; confirmations and revocations may be signed by any
key, and a confirmation attached to any payment. `revoked` is the gateway's
memory, one entry per mandate and key, `journaled` its journal, one entry per
mandate whoever signed it, and `withdrawn` what was revoked in fact. `Reprice` is
a gateway restarted with another price. `auditMandate`, `auditRevocation`,
`WithinScope` and `auditOnChain` are operators over receipts, journal and chain:
the audit keeps no state and may be run at any time, so its properties are
invariants over all receipts and all mandate files. `doubled` records that two
requests with one nonce were in flight. Failures inside a settlement are left to
`Gateway`, windows to `MandateAccounts`.

### Ledger

Every RPC of `SyncIncremental` is a step: `ReadHead`, one `RewindPending` per
header read, `RewindToCheckpoint`, `AppendRange` (all logs at one chain state),
`MergeFinalized`, `MoveCheckpoint`; `CallFails` ends a sync with an error and
leaves what it did. `NewBlock` and `Reorg` are the chain. `OnChain` is the
reference, the sums over all transfers that a full `Sync` computes. A block
carries at most one transfer, and its hash is the number of reorgs before it.
The window, a slice in block order in the code, is a function of the block
number: every read starts behind the window, so `appendEvent` opens a record of
its own for each event.

### Issuer

A command is a process: `OpenReserve` replays the file and remembers its total
and its end; `CheckMint`, `Collect`, `Burn` submit; `MintReceipt`,
`RedeemReceipt` wait; `AppendReserve` writes at the remembered offset;
`SyncLedger`, `CompareChain`, `ReportVerdict` are reconcile. `Kill` ends a
command anywhere, with its transaction pending too, and anywhere inside its
write: a line of the file is a movement, one without its newline (`unended`), part
of one (`torn`) or two that ran together (`garbled`). Replay counts the first two,
and a write goes on from a line without its end. `crossed` records that commands
overlapped or that one died with a transaction out, `drawn` that the reserve was
withdrawn by hand, `lost` the deposits whose unended line a later write made
unreadable, `late` a mint mined between the last two reads of a reconcile. What
reverts and what a transaction does is `contracts/KRWTestStablecoin.sol`.

## 3. Runs

Passing runs:

| Run | Shows | Bounds |
|---|---|---|
| `GatewayFaults` | answers are durable, reservations are owned, every request is answered or waits in a transfer without a deadline: all failures, duplicates | 2 handlers, 1 deferrable payment, 1 block |
| `GatewayCrash` | told payments stay counted, revocations hold, delivery at the confirm depth, `Payment` is implemented: crashes, timeouts, failing transfers | 2 handlers, 2 payments, budget for one, 2 blocks |
| `GatewayLimits` | on-chain spending stays within budget and count; settled payments are counted; none is lost silently: confirmations, a refusing table, one reorg | 2 handlers, 2 payments in 5 forms |
| `MandateAccounts` | pruning is invisible; budget and count hold in every window | 4 payments, windows of 2 s and 3 s, 2 ticks per second, 4 s |
| `Journal` | at-least-once, in order, bounded loss, eventually sent | 3 entries, 2 failed or cut writes |
| `Session` | metering, refund, durable and square answers, no silent charge, the budget of a mandate, every request is answered or behind a refund: all failures, expiry, 1 restart | 2 handlers, 2 sessions of one mandate whose budget holds one, one of two requests and a remainder |
| `Ledger` | a sync without error equals the full rescan, final blocks are final, the view comes back to the chain: failing calls, a reorg of any depth | 3 blocks, 4 kinds of transfer, finality depth 2, 1 reorg |
| `Issuer` | supply within the reserve and the lost deposits, one redemption per request, a passing reconcile is right: failing calls, reverts, kills | 2 commands at a time, 6 in all, 2 requests |
| `Purchase` | a confirmation clears its payment and waives limits only; the audit is sound and complete: price changes, expiry, confirmations and revocations by two keys | 2 runs, 2 mandates, 2 resources, 2 prices, 2 confirmations, 1 revoked mandate, 1 signature by another key, clock up to 2 s |

Two handlers are enough for every race the gateway has: no step waits for more
than one other request, and behind the mutex of a session it is enough that one
waits for the one that settles. Two payments are enough for the budget, which
holds one of them. With two payments neither the count cap nor the per-payment cap
binds in `GatewayLimits`; `MandateAccounts` checks the count and `Purchase` the
cap. `MaxHead` bounds the chain and needs to pass `ConfirmDepth`, or the finality
depth, by one block so that a depth off by one shows. `MaxFaults` bounds failed
writes and crashes in `Journal`; two are needed for a cut line to be continued and
then replayed. Two sends in `Purchase` are an ask and its resend, or a resend at
another price, and two confirmations are the delegator's and another key's, or
those of two asks; with a clock up to 2 a payment lapses before the mandate, and a
confirmation with it or after it. Six commands in `Issuer` are deposit, mint, redeem, and three more that race, repeat, or write behind a cut line and
mint against what was read from it.

Runs that refute a sentence of the repository (each is a finding in
`PROJECT.json`):

| Run | What happens |
|---|---|
| `GatewayDoubleDelivery` | two concurrent retries of a deferred payment both deliver |
| `LedgerMissedReorg` | a reorg replaces blocks without transfers by blocks with some; no stored hash changes and the sync never reads them |
| `JournalGluedLine` | a crash tears the last line; the next entry is written behind it, acknowledged, and lost at the following replay, although earlier lines are said to be whole and only the torn one dropped |

## 4. What the models showed to be needed

Each property above states the conditions it holds under. These are the
conditions that are not obvious from the code, with the line that makes each
necessary.

Gateway:

- Duplicate requests for one nonce share a reservation, so the loser's release
  uncounts the winner (`policy_mandate.go:429-436`); `SettledIsCounted` and
  `UnapprovedWithinMandate` need one request per nonce in flight.
- A settlement whose wait times out is released although its transaction may be
  mined (`gateway.go:589`): budgets are kept only while settle learns its outcome.
- A crash between the settlement entry and the settled decision keeps the
  payment and loses its spend (`gateway.go:618-629`): only payments that were
  *told* stay counted.
- A revocation's journal id leaves out the signer (`gateway.go:490`) and
  `Journal.Append` ignores a known id: after another key's revocation of the same
  mandate id the delegator's own is not written, and a restart forgets it. A
  revocation whose journal write fails is acknowledged all the same.
- `stageOf` compares heights only (`gateway.go:792`): after a reorg the chain may
  regrow past a dropped settlement's height and the payment is delivered unpaid.
  An unreadable receipt makes `submittedBlock` 0 and the payment confirmed at
  once (`gateway.go:818`).
- A retry of a deferred payment is resumed before it is verified
  (`gateway.go:338-341`), and the policy reads the amount the retry states
  (`gateway.go:653-673`, `policy_mandate.go:137`): one that states less than
  `DeferAbove` is delivered at once. `DeliveredDeep` holds for agents whose retries
  state what they signed, as `Agent.Retry` does by sending the same payload.
- A table behind the mandate policy that refuses leaks the reservation until a
  restart; a delivery whose wait fails is refunded although it went through.

Journal: replay neither truncates nor ends a torn final line (`journal.go:141`),
so the next entry is written onto it and lost at the following replay
(`JournalGluedLine`). A line cut right before its newline is read and
acknowledged by that replay and lost together with the next one: at most two
acknowledged entries per cut write, which is what `LossIsBounded` says.

Sessions: a close drops the session even when its settlement fails
(`session.go:163-169`), so a timeout may charge the whole budget with no refund
and no record; a session's outstanding refund is recorded with the whole budget
instead of the unused part (`session.go:213-215, 236`, `gateway.go:747-766`), so
`ToldIsSquare` can only say that *at least* the unused part is on record;
`openSession` does not look whether an authorization has a session already, so two
opens meter one budget twice, and the three metering properties are stated for one
open per authorization (`SingleOpen`); session settlements write no decision
entry, so a restart forgets what they spent of their mandate.

Ledger: besides the missed reorg above, a reorg between the last hash check and
the log read leaves a window of two chains (`"torn"`), a failure of the last
header read leaves merged blocks above the checkpoint (`"checkpoint"`), and a
reorg past the finality depth that strikes during a sync may be merged before it
is noticed. The `Ledger` run excludes these three.

Issuer: the reserve file is written as the journal is. A deposit cut right before
its newline is counted by the replay (`reserve.go:59-74`), a mint may rely on it,
and the next write runs on from it and makes both unreadable (`reserve.go:98-99`),
whatever `reserve.go:50-52` says of earlier lines: deposit 2 killed before its
newline, mint 2, deposit 2 leave a supply of 2 and a total of 0. `SupplyBacked`
therefore adds `lost`, which counts exactly those deposits. Mint compares and then
mints, with nothing between two issuers (`cmd/issuer/main.go:385-402`), and does
not look at the receipt's status; the reserve file is opened without `O_APPEND`
(`reserve.go:38`), so an overlapping command overwrites the other's line;
`reserve-sub` is not compared with the supply; a redeem killed between collect and
burn cannot be run again.

Purchase: a confirmation does not clear an ask of the accept *table*, which then
asks for ever; a journaled revocation by another key keeps the delegator's own out
of the journal, so a restart lets the mandate pass again, and
`ConfirmedIsEntitled` and `AuditSound` except such a mandate (`Overtaken`); only a
cleared cap, never a cleared budget, counts as a confirmation; the ask count never
reaches the agent's own table; a confirmed payment above the cap never passes the
audit, although the comment of `WithinScope` promises "the same verdict"
(`mandate.go:293-296`); the audit takes any key's revocation for the delegator's
(`main.go:137`); a payment approved before a revocation fails the audit when its
receipt is issued a second after it.

## 5. Fairness

`Gateway!FairSpec`: weak fairness of each handler's steps, because the Go
scheduler runs every runnable goroutine, node and facilitator calls return, and
`LocalFacilitator.Settle` bounds its wait. Nothing is assumed of agents, of
mining, or of the waits in `Deliver` and `Refund`, which have no deadline.

`Session!FairSpec`: the same, and strong fairness of the step that takes a
session's mutex: Go's mutex hands itself to a waiter that has waited long
enough. The refund's wait has no deadline and holds the mutex, so it is not
assumed to end, and `RequestsFinish` excepts requests behind one.

`Journal!FairSpec`: weak fairness of the outbox's scan and marker (the goroutine
and its ticker), strong fairness of a successful publish (the broker does not
refuse for ever). Appends and crashes are not fair.

`Ledger!FairSpec`: strong fairness of the sync's step at each of its places: a
live indexer syncs again and again, and no call fails for ever. Blocks and
reorgs are not fair.

## 6. Proofs

Every safety invariant, the action property and the refinement that the passing
runs check are theorems too, for every value of the constants: any number of
handlers, payments, mandates, entries, blocks, commands and failures. The runs
show that the models behave and that the hypotheses can be met; each inductive
invariant was model-checked before it was proved.

The assumptions on constants are the named `ASSUME`s of the modules. Most give
types. Beyond that: prices and reserve movements are positive, a second has at
least one tick, `FinalityDepth` is positive, as `NewChain` sees to, the
authorizations of `Session` are finitely many, and the clock of `MandateAccounts`
runs for less than a quarter of the range of `time.Duration` (146 years). Bounds
such as `MaxHead`, `MaxReorgs`, `MaxStarts` and `MaxFaults` are any numbers: a
theorem that does not fix one covers every number of reorgs, commands or
failures. In the other modules finiteness is proved, not assumed: what a run has
journaled, spent or started is finite in every reachable state.

Each theorem comes from an inductive invariant, with one step per action of the
next-state relation and below it one step per conjunct the action can disturb.

### Sums

`Sum(f, S)` is `MapThenSumSet`, a fold by a function that `CHOOSE` picks.
`Sums_proofs` shows that such a function exists and is unique on every finite
set (`SumFnExists`, `SumFnUnique`), from which any element may be taken out first
(`SumRemove`). Induction runs over a *set of sets* rather than a predicate:
`SubsetInduction` says that a collection which contains a set whenever it
contains the set less any one element contains every subset of a finite set. The
other lemmas (order, union, image, filter, pointwise sum, counting) follow by it.

### Gateway_proofs

- `GatewayTypeOK`.
- `RevokedNeverSettles`: while the journal works and only delegators revoke. The
  invariant adds that an acknowledged revocation is in memory *and* in the
  journal, which a restart needs.
- `ReservationsAreOwned`: inductive as it stands.
- `AnswersAreDurable`: without reorgs. `DurableInv` says where in a handler's
  run its payment must already be on chain and in the journal, parked payments
  included.
- `OneOutcomePerPayment`: single-flight, no reorgs. `OutcomeInv`: a payment
  still to be delivered, by a handler or from the in-flight map, is untouched.
- `GatewayImplementsPayment`: the same, and delivery learns its outcome. Each
  action is matched with `Pay`, `Record`, `Deliver`, `Refund`, `Tell` or a stutter;
  that the guards of the abstract action hold is `DurableInv` and `OutcomeInv`.
- `DeferredIsDeliveredDeep`: without reorgs, while the receipt can be read and
  retries state the signed value (`StatesDeferral`). `DeepInv` follows the
  settlement height from the receipt to the in-flight map.
- `EverySettlementCounts`: single-flight, any number of reorgs. `CountedInv`
  ties each transaction in the mempool to a reservation or a spend.
- `SettlementsStayWithinLimits`: the same hypotheses. What is reserved or
  committed never exceeds the limits; by `CountedInv` it contains what is on
  chain, and a sum over a part is at most the sum over the whole.
- `RestartsKeepToldSpends`: single-flight, no reorgs, a working journal.
  `RestoreInv`: what was told is a spend and a restart would restore it.
- `NothingIsLost`: inductive as it stands.

### MandateAccounts_proofs

- `AccountsTypeOK`; `PruningIsInvisible` from `MaxWindowIsWidest` and an invariant
  relating both spend sets, for all windows.
- `BudgetHoldsInEveryWindow`, `RateHoldsInEveryWindow`: for windows that fit
  `time.Duration` (`Fits`). The invariant says of every period of the window's
  length that what was paid in it, what is spent in it and what is reserved fit
  the limit together; `DatedInv` bounds how far the journal's date, rounded down
  to the second, lies from the payment's own, which is why the property speaks
  of a window less one second.

### Journal_proofs

- `JournalTypeOK`; `AtLeastOnce` and `InJournalOrder` from `OutboxInv` (what
  precedes an entry to do was sent or is to do as well).
- `WholeWritesSurvive`: the torn tail is the only way to lose an entry.
- `CutWritesCostTwo`: `LossInv` counts, per unfinished write, the entry it cut
  and the one appended onto it.

### Session_proofs

- `SessionTypeOK`, `SessionToldIsDurable`, `SessionNoSilentCharge`,
  `SessionMandateBudgetHolds`: no hypotheses. The last one's invariant counts a
  transaction that is still out against the budget its session reserved.
- `SessionServedIsCovered`, `SessionSellerKeepsServed`, `SessionToldIsSquare`: for
  agents that open one session per authorization (`SingleOpen`). They rest on the
  mutex, `SessionMutexHeld`: whoever meters or settles a session holds its lock.

### Purchase_proofs

- `PurchaseTypeOK`, with `PayInv` about the payload an agent holds.
- `PurchaseConfirmationClears`: from `RevokeInv`, which relates what was revoked
  in fact to the gateway's memory and to its journal, with the mandates another
  key has overtaken.
- `PurchaseConfirmedIsEntitled`, `PurchaseAuditComplete`, `PurchaseAuditSound`: from
  `RevokeInv` and `EntitledInv`, which ties every settlement to the mandate, agent
  and resource it was decided for and every receipt to its settlement.
- `PurchaseUnapprovedWithinMandate`: the account holds every settlement counted
  against the budget, until two requests with one nonce were in flight.

### Ledger_proofs

- `LedgerTypeOK`: with `StageInv`, how far the ledger has read against the chain.
- `LedgerFinalIsCanonical`, `LedgerSnapshotIsChain`: where every block carries a
  transfer (`AllBlocksMatter`; the run `LedgerMissedReorg` shows that it is
  needed) and `Faults` is at most `"rpc"`. `WindowInv` says that the window is
  exactly the blocks read and not merged, with no gap. `AgreeInv` is the argument:
  a hash of the window that still matches vouches for every block below it, and
  from then on a sync relies only on blocks which that hash vouched for or which
  no reorg within the finality depth replaces. `ApplyIsChain` is the arithmetic:
  adding the window's transfers to what the token held at one block gives what it
  holds at a later one, account by account.

### Issuer_proofs

No hypotheses; where commands must not overlap the property itself says so.

- `IssuerTypeOK`, with the balances that add up to the supply; `StageInv` says what
  a command has out at each of its places.
- `IssuerRedeemOnce`: `RedeemInv` follows one request over its commands, its
  transactions, those of killed commands, and the line it is written on.
- `IssuerSupplyBacked`: `BackedInv` bounds the supply, with what a mint or a burn
  has out, by the total of the file and `lost`. A write may take away a deposit
  that was counted, and then `lost` grows by just that much.
- `IssuerReconcileSound`: `ReconcileInv` says that from the moment ledger and chain
  agreed the supply can only have fallen, unless a mint came late.

### Only model-checked

The liveness properties (`HandlersFinish`, `EventuallySent`, `RequestsFinish`,
`Converges`): fairness is stated with `ENABLED`, which the prover does not handle.
`DeliverOnce` for agents that are not single-flight, `SnapshotIsChain` with
blocks that carry nothing and `AckedSurvives` with cut writes are false, and the
three violation runs show how.

## 7. Plan

1. Theorems of what the properties leave out: `DeliveredDeep` and `PaymentLife` up
   to the first reorg instead of without reorgs; `FinalIsCanonical` with a failing
   last header read, where the merged blocks lie above the checkpoint.
2. An abstract session (charged once, refunded once, then told) that `Session`
   implements, as `Gateway` implements `Payment`.
3. `DelegatedSpend` compared with the mandate policy, and `DvP` with the asset
   and the registries.

## 8. Not modelled

Cryptography, encodings, contract bindings, metrics and logging, the simulator,
the demos, the conformance and measuring tools (see `components` in
`PROJECT.json`). The remote facilitator is an HTTP hop without state; it fails as
a call that fails before any effect or as a timeout. The contracts other than the
token run each operation in one transaction and have tests of their own.
Deployment commands, registration, discovery and the read-only endpoints are
single calls that no other step depends on.
