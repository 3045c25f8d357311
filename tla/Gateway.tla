------------------------------ MODULE Gateway ------------------------------
(***************************************************************************)
(* The payment gateway of x402/gateway.go with the mandate policy of       *)
(* x402/policy_mandate.go and the local facilitator of                     *)
(* x402/facilitator_local.go.                                              *)
(*                                                                         *)
(* Each handler is one goroutine of net/http running Gateway.Middleware on *)
(* one request.  Its steps are separated at the points where the code      *)
(* leaves the process (facilitator RPC, chain wait, journal fsync) or      *)
(* releases a lock, so every interleaving of two requests is a behaviour.  *)
(*                                                                         *)
(* A nonce stands for the payment: for its reservation, its spend, its     *)
(* settlement entry (the code's id is the transaction hash) and its        *)
(* decision entry.  A nonce can only settle twice after a reorg took its   *)
(* first settlement back, and then the model counts one spend where the    *)
(* code counts two: it accepts more.                                       *)
(*                                                                         *)
(* Left out: decision entries with settled=false, receipt entries, metrics *)
(* and logging (nothing in the gateway reads them back), the policies that *)
(* keep no state beyond what the accept table stands for, and the window   *)
(* arithmetic of the mandate accounts, which module MandateAccounts models *)
(* (here every window is the code's allTime).  A decision of ask is a      *)
(* refusal: nothing is reserved, and the confirmed retry is a payload of   *)
(* its own.  A failed Append leaves no entry; module Journal models the    *)
(* append that fails after its line reached the file.                      *)
(***************************************************************************)
EXTENDS Integers, FiniteSets, Sums

CONSTANTS
  Handlers,             \* request slots of the HTTP server
  Nonces,               \* EIP-3009 authorization nonces, one per payment
  Mandates,             \* mandate ids
  Payloads,             \* the X-PAYMENT payloads agents can send
  Amount,               \* Amount[n]: the value the payer signed for nonce n
  Budget,               \* Budget[m]: cumulative budget, 0 means no limit
  MaxAmountPerPayment,  \* per-payment cap of a mandate, 0 means no limit
  MaxPaymentsPerWindow, \* payment-count cap of a mandate, 0 means no limit
  DeferAbove,           \* MandatePolicy.DeferAbove, 0 disables deferral
  ConfirmDepth,         \* Gateway.ConfirmDepth
  TableActions,         \* what the accept table after the mandate policy may answer
  HasDeliverer,         \* Gateway.Deliverer # nil
  HasRefunder,          \* Gateway.Refunder # nil
  Signers,              \* who signs revocations: the delegator, others, or both
  SingleFlight,         \* agents never have two requests for one nonce open
  Faults,               \* the failures that may happen, see FaultKinds
  MaxHead,              \* bound on the chain height
  MaxReorgs,            \* bound on the reorgs, 0 for a chain that never rewinds
  None                  \* no payload

FaultKinds == { "rpc",          \* a facilitator or node call fails before any effect
                "revert",       \* a settlement transaction reverts although its nonce is fresh
                "timeout",      \* WaitMined gives up while the settlement may still be mined
                "journal",      \* Journal.Append fails (disk full, I/O error)
                "receipt",      \* submittedBlock cannot read the settlement receipt
                "deliver",      \* the asset transfer fails
                "deliver_wait", \* the asset transfer is mined but waiting for it fails
                "refund",       \* the refund transfer fails
                "refund_wait",  \* the refund is mined but waiting for it fails
                "crash" }       \* the gateway process dies and is restarted

Actions == {"approve", "defer", "refuse"}

ASSUME PayloadAssumption ==
  /\ Payloads \subseteq [nonce: Nonces, value: Nat, mandate: Mandates, confirmed: BOOLEAN,
                          bound: BOOLEAN]
  /\ None \notin Payloads

ASSUME LimitAssumption ==
  /\ Amount \in [Nonces -> Nat]
  /\ Budget \in [Mandates -> Nat]
  /\ MaxAmountPerPayment \in [Mandates -> Nat]
  /\ MaxPaymentsPerWindow \in [Mandates -> Nat]
  /\ DeferAbove \in Nat
  /\ ConfirmDepth \in Nat
  /\ MaxHead \in Nat
  /\ MaxReorgs \in Nat

ASSUME ConfigAssumption ==
  /\ TableActions \subseteq Actions
  /\ TableActions # {}
  /\ HasDeliverer \in BOOLEAN
  /\ HasRefunder \in BOOLEAN
  /\ SingleFlight \in BOOLEAN
  /\ Signers \subseteq {"delegator", "other"}
  /\ Faults \subseteq FaultKinds

VARIABLES
  \* the request handlers
  pc,        \* where each handler is
  pay,       \* the payload it works on
  act,       \* the accept decision it carries to settlement
  block,     \* the submittedBlock of the in-flight entry it resumes
  late,      \* history: the request came after its mandate's revocation was acknowledged
  \* gateway memory
  reserved,  \* mandateAccount.reserved, per mandate
  spends,    \* mandateAccount.spends, per mandate
  revoked,   \* mandateRevocations.set
  revoking,  \* revocations whose RevokeMandate call has not yet journaled them
  inflight,  \* keys of Gateway.inflight
  submitted, \* deferredSettlement.submittedBlock
  settlements, \* Gateway.Settlements
  \* durable
  journal,   \* the journal, one set of entry ids per kind
  \* the chain
  head,      \* height of the newest block
  reorgs,    \* how often blocks were replaced
  tx,        \* the settlement transaction of each handler
  orphans,   \* transactions still in the mempool that no handler waits for
  paidBy,    \* paidBy[n]: the payload whose settlement used nonce n
  minedAt,   \* the block of that settlement
  lapsed,    \* mandates past validBefore, nonces whose confirmation is past validBefore
  \* what the outside saw
  delivered, \* how often the payer was given the goods for a nonce
  refunded,  \* how often the payer got the money back
  told,      \* nonces for which an answer reporting a settlement went out
  acked      \* mandates whose delegator's revocation was acknowledged

handlerVars == <<pc, pay, act, block, late>>
accountVars == <<reserved, spends>>
revokeVars  == <<revoked, revoking, acked>>
parkVars    == <<inflight, submitted>>
chainVars   == <<head, reorgs, tx, orphans, paidBy, minedAt, lapsed>>
goodsVars   == <<delivered, refunded>>

vars == <<handlerVars, accountVars, revokeVars, parkVars, settlements, journal,
          chainVars, goodsVars, told>>

PCs == {"idle", "verify", "decide", "submit", "wait", "journal", "commit",
        "park", "resume", "deliver", "refund", "respond"}

\* The handler runs between its reservation and the end of settle().
Settling == {"submit", "wait", "journal", "commit"}

\* A verified revocation: the set is keyed by the recovered signer and the
\* mandate id.
Revocations == [mandate: Mandates, signer: Signers]

TypeOK ==
  /\ pc \in [Handlers -> PCs]
  /\ pay \in [Handlers -> Payloads \cup {None}]
  /\ act \in [Handlers -> Actions]
  /\ block \in [Handlers -> Nat]
  /\ late \in [Handlers -> BOOLEAN]
  /\ reserved \in [Mandates -> SUBSET Nonces]
  /\ spends \in [Mandates -> SUBSET Nonces]
  /\ revoked \subseteq Revocations
  /\ revoking \subseteq Revocations
  /\ inflight \subseteq Nonces
  /\ submitted \in [Nonces -> Nat]
  /\ settlements \subseteq Nonces
  /\ journal \in [settlement: SUBSET Nonces, decision: SUBSET Payloads,
                  revocation: SUBSET Revocations, refund: SUBSET Nonces,
                  refund_pending: SUBSET Nonces]
  /\ head \in Nat
  /\ reorgs \in Nat
  /\ tx \in [Handlers -> {"none", "pending", "mined", "reverted"}]
  /\ orphans \subseteq Payloads
  /\ paidBy \in [Nonces -> Payloads \cup {None}]
  /\ minedAt \in [Nonces -> Nat]
  /\ lapsed \subseteq Mandates \cup Nonces
  /\ delivered \in [Nonces -> Nat]
  /\ refunded \in [Nonces -> Nat]
  /\ told \subseteq Nonces
  /\ acked \subseteq Mandates
  /\ \A h \in Handlers :
       /\ pc[h] # "idle" => pay[h] \in Payloads
       /\ tx[h] # "none" <=> pc[h] = "wait"

Init ==
  /\ pc = [h \in Handlers |-> "idle"]
  /\ pay = [h \in Handlers |-> None]
  /\ act = [h \in Handlers |-> "refuse"]
  /\ block = [h \in Handlers |-> 0]
  /\ late = [h \in Handlers |-> FALSE]
  /\ reserved = [m \in Mandates |-> {}]
  /\ spends = [m \in Mandates |-> {}]
  /\ revoked = {}
  /\ revoking = {}
  /\ inflight = {}
  /\ submitted = [n \in Nonces |-> 0]
  /\ settlements = {}
  /\ journal = [settlement |-> {}, decision |-> {}, revocation |-> {},
                refund |-> {}, refund_pending |-> {}]
  /\ head = 0
  /\ reorgs = 0
  /\ tx = [h \in Handlers |-> "none"]
  /\ orphans = {}
  /\ paidBy = [n \in Nonces |-> None]
  /\ minedAt = [n \in Nonces |-> 0]
  /\ lapsed = {}
  /\ delivered = [n \in Nonces |-> 0]
  /\ refunded = [n \in Nonces |-> 0]
  /\ told = {}
  /\ acked = {}
----------------------------------------------------------------------------
(* Steps every handler shares.                                             *)

nonce(h) == pay[h].nonce
mandate(h) == pay[h].mandate

Goto(h, where) == pc' = [pc EXCEPT ![h] = where]

\* The response is written and the goroutine ends.
Finish(h) ==
  /\ pc' = [pc EXCEPT ![h] = "idle"]
  /\ pay' = [pay EXCEPT ![h] = None]
  /\ act' = [act EXCEPT ![h] = "refuse"]
  /\ block' = [block EXCEPT ![h] = 0]
  /\ late' = [late EXCEPT ![h] = FALSE]

\* Journal.Append is idempotent by entry id, so a set per kind is the index.
Appended(kind, entry) == [journal EXCEPT ![kind] = @ \cup {entry}]

\* The settled decision entry, whose id is the nonce.
SettledDecision(p) ==
  IF \E q \in journal.decision : q.nonce = p.nonce
  THEN journal
  ELSE Appended("decision", p)

\* The revocation entry, whose id is the mandate's and leaves out the signer.
RevocationEntry(r) ==
  IF \E q \in journal.revocation : q.mandate = r.mandate
  THEN journal
  ELSE Appended("revocation", r)

\* An append whose error is only logged.
Logged(appended) ==
  \/ journal' = appended
  \/ "journal" \in Faults /\ journal' = journal
----------------------------------------------------------------------------
(* The mandate policy.                                                     *)

SumOf(S) == Sum(Amount, S)

\* The policy reads the amount from the payload at hand.  Verify has compared
\* it with the signature, except on a retry that resumes a settled payment.
paymentAmount(p) == p.value

confirmationApproves(p) == p.confirmed /\ p.nonce \notin lapsed

\* Mutant: the budget counts committed spends only.
reserve_IgnoresReservations(p) ==
  LET m == p.mandate
  IN \/ Budget[m] = 0
     \/ confirmationApproves(p)
     \/ SumOf(spends[m]) + paymentAmount(p) <= Budget[m]

\* mandateAccounts.reserve: does the payment fit the budget and the rate?
reserve(p) ==
  LET m == p.mandate
      used  == SumOf(spends[m]) + SumOf(reserved[m]) + paymentAmount(p)
      count == Cardinality(spends[m]) + Cardinality(reserved[m]) + 1
  IN /\ \/ confirmationApproves(p)
        \/ Budget[m] = 0
        \/ used <= Budget[m]
     /\ \/ MaxPaymentsPerWindow[m] = 0
        \/ count <= MaxPaymentsPerWindow[m]

\* Mutant: the revocation set is not consulted.
Entitled_IgnoresRevocation(p) ==
  LET m == p.mandate
  IN m \notin lapsed /\ (MaxAmountPerPayment[m] = 0 \/ paymentAmount(p) <= MaxAmountPerPayment[m])

\* The checks of MandatePolicy.Decide that come before the accounting.
Entitled(p) ==
  LET m == p.mandate
  IN /\ m \notin lapsed
     /\ [mandate |-> m, signer |-> "delegator"] \notin revoked
     /\ \/ MaxAmountPerPayment[m] = 0
        \/ paymentAmount(p) <= MaxAmountPerPayment[m]
        \/ confirmationApproves(p)

Deferrable(amount) == DeferAbove > 0 /\ amount >= DeferAbove

\* MandatePolicy.Decide once the accounting passed or was skipped, followed
\* by the accept table; Chain.Decide returns the first non-approval.
ChainDecision(p, confirmed, table) ==
  IF Deferrable(paymentAmount(p)) /\ ~confirmed THEN "defer" ELSE table

\* Mutant: a failed settlement keeps its reservation.
release_Forgets(h) == UNCHANGED accountVars

\* mandateAccounts.release, through notify(false) in settle.
release(h) ==
  /\ reserved' = [reserved EXCEPT ![mandate(h)] = @ \ {nonce(h)}]
  /\ UNCHANGED spends

\* Mutant: the reservation is dropped and no spend recorded.
commit_Drops(h) == release(h)

\* mandateAccounts.commit, through notify(true): a missing reservation
\* commits nothing.
commit(h) ==
  IF nonce(h) \in reserved[mandate(h)]
  THEN /\ reserved' = [reserved EXCEPT ![mandate(h)] = @ \ {nonce(h)}]
       /\ spends' = [spends EXCEPT ![mandate(h)] = @ \cup {nonce(h)}]
  ELSE UNCHANGED accountVars
----------------------------------------------------------------------------
(* Middleware and verifyAndSettle.                                         *)

\* checkResourceBinding: a confirmed payment is bound by its confirmation.
checkResourceBinding(p) == p.confirmed \/ p.bound

\* A request with a payment arrives: the header is decoded and the in-flight
\* map is looked up.  An unbound fresh payment is refused with no effect.
Receive(h, p) ==
  /\ pc[h] = "idle"
  /\ SingleFlight => \A g \in Handlers : pc[g] # "idle" => nonce(g) # p.nonce
  /\ \/ /\ p.nonce \in inflight
        /\ Goto(h, "resume")
        /\ block' = [block EXCEPT ![h] = submitted[p.nonce]]
     \/ /\ p.nonce \notin inflight
        /\ checkResourceBinding(p)
        /\ Goto(h, "verify")
        /\ UNCHANGED block
  /\ pay' = [pay EXCEPT ![h] = p]
  /\ late' = [late EXCEPT ![h] = p.mandate \in acked]
  /\ UNCHANGED <<act, accountVars, revokeVars, parkVars, settlements, journal,
                 chainVars, goodsVars, told>>

\* Facilitator.Verify.  Only a fresh nonce with the signed value can verify;
\* balance, freeze, signature and validity window may refuse it as well.  AlwaysVerify, first
\* in the policy chain, turns an invalid result into a refusal.
Verify(h) ==
  /\ pc[h] = "verify"
  /\ \/ /\ paidBy[nonce(h)] = None
        /\ pay[h].value = Amount[nonce(h)]
        /\ Goto(h, "decide")
        /\ UNCHANGED <<pay, act, block, late>>
     \/ Finish(h)
  /\ UNCHANGED <<accountVars, revokeVars, parkVars, settlements, journal,
                 chainVars, goodsVars, told>>

\* Policy.Decide before settlement.  A payment that passes the accounting is
\* reserved whatever the table behind it answers.
Decide(h) ==
  /\ pc[h] = "decide"
  /\ LET p == pay[h] IN
     \/ /\ ~(Entitled(p) /\ reserve(p))
        /\ Finish(h)
        /\ UNCHANGED accountVars
     \/ \E table \in TableActions :
          /\ Entitled(p) /\ reserve(p)
          /\ reserved' = [reserved EXCEPT ![p.mandate] = @ \cup {p.nonce}]
          /\ UNCHANGED spends
          /\ LET d == ChainDecision(p, FALSE, table)
             IN IF d = "refuse"
                THEN Finish(h)
                ELSE /\ Goto(h, "submit")
                     /\ act' = [act EXCEPT ![h] = d]
                     /\ UNCHANGED <<pay, block, late>>
  /\ UNCHANGED <<revokeVars, parkVars, settlements, journal, chainVars,
                 goodsVars, told>>
----------------------------------------------------------------------------
(* settle: Facilitator.Settle, the journal, the settlers.                  *)

\* Settle signs and submits the transaction.  Gas estimation fails on a used
\* nonce; the node may refuse the call.
Submit(h) ==
  /\ pc[h] = "submit"
  /\ \/ /\ tx' = [tx EXCEPT ![h] = "pending"]
        /\ Goto(h, "wait")
        /\ UNCHANGED <<pay, act, block, late, accountVars>>
     \/ /\ paidBy[nonce(h)] # None \/ "rpc" \in Faults
        /\ release(h)
        /\ Finish(h)
        /\ UNCHANGED tx
  /\ UNCHANGED <<revokeVars, parkVars, settlements, journal, head, reorgs, orphans,
                 paidBy, minedAt, lapsed, goodsVars, told>>

\* Mutant: WaitMined without a deadline.
SettleTimeout_Never(h) == FALSE

\* WaitMined fails (timeout, or the request context is cancelled): settle
\* reports an error although the transaction may be mined, or is mined later.
SettleTimeout(h) ==
  /\ pc[h] = "wait"
  /\ "timeout" \in Faults
  /\ orphans' = IF tx[h] = "pending" THEN orphans \cup {pay[h]} ELSE orphans
  /\ tx' = [tx EXCEPT ![h] = "none"]
  /\ release(h)
  /\ Finish(h)
  /\ UNCHANGED <<revokeVars, parkVars, settlements, journal, head, reorgs, paidBy,
                 minedAt, lapsed, goodsVars, told>>

\* WaitMined returns the receipt.
SettleReceipt(h) ==
  /\ pc[h] = "wait"
  /\ \/ /\ tx[h] = "mined"
        /\ Goto(h, "journal")
        /\ UNCHANGED <<pay, act, block, late, accountVars>>
     \/ /\ tx[h] = "reverted"
        /\ release(h)
        /\ Finish(h)
  /\ tx' = [tx EXCEPT ![h] = "none"]
  /\ UNCHANGED <<revokeVars, parkVars, settlements, journal, head, reorgs, orphans,
                 paidBy, minedAt, lapsed, goodsVars, told>>

\* Mutant: an error of the append is only logged.
JournalSettlement_LogsError(h) ==
  /\ pc[h] = "journal"
  /\ Logged(Appended("settlement", nonce(h)))
  /\ Goto(h, "commit")
  /\ UNCHANGED <<pay, act, block, late, accountVars, revokeVars, parkVars, settlements,
                 chainVars, goodsVars, told>>

\* The settlement entry is made durable before anyone is told; a failed
\* append answers settlement_error and drops the reservation.
JournalSettlement(h) ==
  /\ pc[h] = "journal"
  /\ \/ /\ journal' = Appended("settlement", nonce(h))
        /\ Goto(h, "commit")
        /\ UNCHANGED <<pay, act, block, late, accountVars>>
     \/ /\ "journal" \in Faults
        /\ release(h)
        /\ Finish(h)
        /\ UNCHANGED journal
  /\ UNCHANGED <<revokeVars, parkVars, settlements, chainVars, goodsVars, told>>

\* notify(true), the in-memory mirror, and the settled decision entry.
CommitSettlement(h) ==
  /\ pc[h] = "commit"
  /\ commit(h)
  /\ settlements' = settlements \cup {nonce(h)}
  /\ Logged(SettledDecision(pay[h]))
  /\ Goto(h, IF act[h] = "defer" THEN "park" ELSE "deliver")
  /\ UNCHANGED <<pay, act, block, late, revokeVars, parkVars, chainVars,
                 goodsVars, told>>
----------------------------------------------------------------------------
(* Deferral, delivery and refund.                                          *)

\* Mutant: the entry stays in the in-flight map.
inflightRemove_Skipped(n) == inflight

inflightPut(n) == inflight \cup {n}
inflightRemove(n) == inflight \ {n}

\* beginDeferred: park the settlement and answer payment_deferred.
BeginDeferred(h) ==
  /\ pc[h] = "park"
  /\ inflight' = inflightPut(nonce(h))
  /\ \E b \in {minedAt[nonce(h)]} \cup (IF "receipt" \in Faults THEN {0} ELSE {}) :
       submitted' = [submitted EXCEPT ![nonce(h)] = b]
  /\ told' = told \cup {nonce(h)}
  /\ Finish(h)
  /\ UNCHANGED <<accountVars, revokeVars, settlements, journal, chainVars, goodsVars>>

\* Mutant: off by one block.
Confirmed_Early(h) == head - block[h] + 1 >= ConfirmDepth

\* stageOf compares heights only: a settlement above the head is an error,
\* one at least ConfirmDepth below it is confirmed.
RolledBack(h) == head < block[h]
Confirmed(h) == head - block[h] >= ConfirmDepth

\* resumeDeferred: the policy is run again at the settlement's stage, without
\* accounting, on the payload of the retry, which nothing has verified; on
\* approval the in-flight entry goes before delivery.
ResumeDeferred(h) ==
  /\ pc[h] = "resume"
  /\ \/ /\ ~RolledBack(h)
        /\ Entitled(pay[h])
        /\ \E table \in TableActions : ChainDecision(pay[h], Confirmed(h), table) = "approve"
        /\ inflight' = inflightRemove(nonce(h))
        /\ Goto(h, "deliver")
        /\ UNCHANGED <<pay, act, block, late>>
     \/ /\ \/ "rpc" \in Faults
           \/ RolledBack(h)
           \/ ~Entitled(pay[h])
           \/ \E table \in TableActions : ChainDecision(pay[h], Confirmed(h), table) # "approve"
        /\ Finish(h)
        /\ UNCHANGED inflight
  /\ UNCHANGED <<accountVars, revokeVars, submitted, settlements, journal,
                 chainVars, goodsVars, told>>

Count(counter, h) == [counter EXCEPT ![nonce(h)] = @ + 1]

\* deliver: the asset transfer, or without a Deliverer the resource itself.
Deliver(h) ==
  /\ pc[h] = "deliver"
  /\ \/ /\ delivered' = Count(delivered, h)
        /\ Goto(h, "respond")
     \/ /\ HasDeliverer /\ "deliver" \in Faults
        /\ UNCHANGED delivered
        /\ Goto(h, "refund")
     \/ /\ HasDeliverer /\ "deliver_wait" \in Faults
        /\ delivered' = Count(delivered, h)
        /\ Goto(h, "refund")
  /\ UNCHANGED <<pay, act, block, late, accountVars, revokeVars, parkVars,
                 settlements, journal, chainVars, refunded, told>>

\* Mutant: a failed refund leaves no record.
Refund_Silent(h) ==
  /\ pc[h] = "refund"
  /\ \/ /\ HasRefunder
        /\ refunded' = Count(refunded, h)
        /\ Logged(Appended("refund", nonce(h)))
     \/ /\ "refund" \in Faults
        /\ UNCHANGED <<refunded, journal>>
  /\ told' = told \cup {nonce(h)}
  /\ Finish(h)
  /\ UNCHANGED <<accountVars, revokeVars, parkVars, settlements, chainVars, delivered>>

\* refund: transfer the payment back, or journal it as outstanding, and
\* answer delivery_failed.
Refund(h) ==
  /\ pc[h] = "refund"
  /\ \/ /\ HasRefunder
        /\ refunded' = Count(refunded, h)
        /\ Logged(Appended("refund", nonce(h)))
     \/ /\ HasRefunder /\ "refund_wait" \in Faults
        /\ refunded' = Count(refunded, h)
        /\ Logged(Appended("refund_pending", nonce(h)))
     \/ /\ ~HasRefunder \/ "refund" \in Faults
        /\ UNCHANGED refunded
        /\ Logged(Appended("refund_pending", nonce(h)))
  /\ told' = told \cup {nonce(h)}
  /\ Finish(h)
  /\ UNCHANGED <<accountVars, revokeVars, parkVars, settlements, chainVars, delivered>>

\* The rest of Middleware: the settlement response goes out with the resource.
Respond(h) ==
  /\ pc[h] = "respond"
  /\ told' = told \cup {nonce(h)}
  /\ Finish(h)
  /\ UNCHANGED <<accountVars, revokeVars, parkVars, settlements, journal,
                 chainVars, goodsVars>>
----------------------------------------------------------------------------
(* Revocation, restart.                                                    *)

\* RevokeMandate, up to the in-memory set.
Revoke(r) ==
  /\ r \notin revoking
  /\ revoked' = revoked \cup {r}
  /\ revoking' = revoking \cup {r}
  /\ UNCHANGED <<handlerVars, accountVars, acked, parkVars, settlements, journal,
                 chainVars, goodsVars, told>>

\* recordRevocation and the 204 answer of revokeHandler.
RecordRevocation(r) ==
  /\ r \in revoking
  /\ Logged(RevocationEntry(r))
  /\ revoking' = revoking \ {r}
  /\ acked' = IF r.signer = "delegator" THEN acked \cup {r.mandate} ELSE acked
  /\ UNCHANGED <<handlerVars, accountVars, revoked, parkVars, settlements,
                 chainVars, goodsVars, told>>

\* Mutant: nothing is rebuilt.
RestoredSpends_Empty(m) == {}

\* AttachJournal: the settlement entries the journal yields.
RestoredSettlements == journal.settlement

\* restoreAccounting: the committed spends the journal yields for a mandate.
RestoredSpends(m) == {p.nonce : p \in {q \in journal.decision : q.mandate = m}}

\* The process dies and is started again: AttachJournal and restoreAccounting
\* rebuild the mirror, the accounts and the revocations; the rest is lost.
Restart ==
  /\ "crash" \in Faults
  /\ pc' = [h \in Handlers |-> "idle"]
  /\ pay' = [h \in Handlers |-> None]
  /\ act' = [h \in Handlers |-> "refuse"]
  /\ block' = [h \in Handlers |-> 0]
  /\ late' = [h \in Handlers |-> FALSE]
  /\ reserved' = [m \in Mandates |-> {}]
  /\ spends' = [m \in Mandates |-> RestoredSpends(m)]
  /\ revoked' = journal.revocation
  /\ revoking' = {}
  /\ inflight' = {}
  /\ settlements' = RestoredSettlements
  /\ tx' = [h \in Handlers |-> "none"]
  /\ orphans' = orphans \cup {pay[h] : h \in {g \in Handlers : tx[g] = "pending"}}
  /\ UNCHANGED <<submitted, journal, head, reorgs, paidBy, minedAt, lapsed, goodsVars,
                 told, acked>>
----------------------------------------------------------------------------
(* The chain and the clock (external: the token contract uses a nonce once, *)
(* see KRWTestStablecoin._settleAuthorization).                            *)

\* A block includes a settlement transaction of payload p.
Include(p) ==
  /\ paidBy' = [paidBy EXCEPT ![p.nonce] = p]
  /\ minedAt' = [minedAt EXCEPT ![p.nonce] = head]

\* The transaction handler h waits for is mined.
Mine(h) ==
  /\ tx[h] = "pending"
  /\ \/ /\ paidBy[nonce(h)] = None
        /\ Include(pay[h])
        /\ tx' = [tx EXCEPT ![h] = "mined"]
     \/ /\ paidBy[nonce(h)] # None \/ "revert" \in Faults
        /\ tx' = [tx EXCEPT ![h] = "reverted"]
        /\ UNCHANGED <<paidBy, minedAt>>
  /\ UNCHANGED <<handlerVars, accountVars, revokeVars, parkVars, settlements,
                 journal, head, reorgs, orphans, lapsed, goodsVars, told>>

\* A transaction nobody waits for any more is mined.
MineOrphan(p) ==
  /\ p \in orphans
  /\ orphans' = orphans \ {p}
  /\ IF paidBy[p.nonce] = None THEN Include(p) ELSE UNCHANGED <<paidBy, minedAt>>
  /\ UNCHANGED <<handlerVars, accountVars, revokeVars, parkVars, settlements,
                 journal, head, reorgs, tx, lapsed, goodsVars, told>>

NewBlock ==
  /\ head < MaxHead
  /\ head' = head + 1
  /\ UNCHANGED <<handlerVars, accountVars, revokeVars, parkVars, settlements, journal,
                 reorgs, tx, orphans, paidBy, minedAt, lapsed, goodsVars, told>>

\* The blocks above k are replaced: their settlements return to the mempool.
Reorg(k) ==
  /\ reorgs < MaxReorgs
  /\ k < head
  /\ LET dropped == {n \in Nonces : paidBy[n] # None /\ minedAt[n] > k}
         waited  == {h \in Handlers : tx[h] = "mined" /\ nonce(h) \in dropped}
     IN /\ paidBy' = [n \in Nonces |-> IF n \in dropped THEN None ELSE paidBy[n]]
        /\ minedAt' = [n \in Nonces |-> IF n \in dropped THEN 0 ELSE minedAt[n]]
        /\ tx' = [h \in Handlers |-> IF h \in waited THEN "pending" ELSE tx[h]]
        /\ orphans' = orphans \cup {paidBy[n] : n \in dropped \ {nonce(h) : h \in waited}}
  /\ head' = k
  /\ reorgs' = reorgs + 1
  /\ UNCHANGED <<handlerVars, accountVars, revokeVars, parkVars, settlements,
                 journal, lapsed, goodsVars, told>>

\* Time passes a mandate's validBefore, or that of a payment's confirmation.
Lapse(x) ==
  /\ x \notin lapsed
  /\ x \in Nonces => \E p \in Payloads : p.nonce = x /\ p.confirmed
  /\ lapsed' = lapsed \cup {x}
  /\ UNCHANGED <<handlerVars, accountVars, revokeVars, parkVars, settlements, journal,
                 head, reorgs, tx, orphans, paidBy, minedAt, goodsVars, told>>
----------------------------------------------------------------------------
HandlerStep(h) ==
  \/ Verify(h) \/ Decide(h) \/ Submit(h) \/ SettleTimeout(h) \/ SettleReceipt(h)
  \/ JournalSettlement(h) \/ CommitSettlement(h) \/ BeginDeferred(h)
  \/ ResumeDeferred(h) \/ Deliver(h) \/ Refund(h) \/ Respond(h)

Next ==
  \/ \E h \in Handlers :
       \/ \E p \in Payloads : Receive(h, p)
       \/ HandlerStep(h)
       \/ Mine(h)
  \/ \E r \in Revocations : Revoke(r) \/ RecordRevocation(r)
  \/ \E p \in Payloads : MineOrphan(p)
  \/ \E x \in Mandates \cup Nonces : Lapse(x)
  \/ \E k \in 0 .. MaxHead : Reorg(k)
  \/ NewBlock
  \/ Restart

Spec == Init /\ [][Next]_vars

\* Deliverer.Deliver and Refunder.Refund wait for their transaction with no
\* deadline of their own.
WaitsForChain(h) ==
  \/ pc[h] = "deliver" /\ HasDeliverer
  \/ pc[h] = "refund" /\ HasRefunder

\* The Go scheduler runs every runnable goroutine, a node or facilitator call
\* returns, and the wait in Settle is bounded by LocalFacilitator.Timeout.
\* Nothing is assumed of agents, of mining, or of the waits above.
FairSpec == Spec /\ \A h \in Handlers : WF_vars(~WaitsForChain(h) /\ HandlerStep(h))
----------------------------------------------------------------------------
(* Properties.  Each comment names the failures under which it holds.      *)

\* Any answer that reports a settlement (success, payment_deferred,
\* delivery_failed) is about a payment that is on chain and already in the
\* journal.  Holds for every failure but a reorg, crashes and duplicate
\* requests included.
ToldIsDurable == \A n \in told : n \in journal.settlement /\ paidBy[n] # None

\* A reservation against a mandate is held by a handler that is still settling
\* that payment, so no request that ended keeps budget.  Holds for every
\* failure and for duplicates, when no policy after the mandate policy refuses.
NoLeakedReservation ==
  \A m \in Mandates : \A n \in reserved[m] :
    \E h \in Handlers : pc[h] \in Settling /\ nonce(h) = n /\ mandate(h) = m

\* The goods are handed over only for a payment that is on chain.  Holds
\* without reorgs.
DeliveredIsPaid == \A h \in Handlers : pc[h] = "deliver" => paidBy[nonce(h)] # None

\* Every payment on chain is counted against the mandate it was accepted
\* under.  Holds for single-flight agents while settle learns the outcome of
\* its transaction and the journal works.
SettledIsCounted ==
  \A n \in Nonces : paidBy[n] # None =>
    n \in reserved[paidBy[n].mandate] \cup spends[paidBy[n].mandate]

\* The unconfirmed payments settled on chain under a mandate stay within its
\* budget, and all of them within its payment count.  Same conditions.
LimitsRespected ==
  \A m \in Mandates :
    LET paid == {n \in Nonces : paidBy[n] # None /\ paidBy[n].mandate = m}
    IN /\ Budget[m] > 0 => SumOf({n \in paid : ~paidBy[n].confirmed}) <= Budget[m]
       /\ MaxPaymentsPerWindow[m] > 0 => Cardinality(paid) <= MaxPaymentsPerWindow[m]

\* A payment whose settlement the agent was told of is a committed spend, also
\* after any number of restarts.  Holds for single-flight agents while the
\* journal works.
ToldIsCounted == \A n \in told : n \in spends[paidBy[n].mandate]

\* A request that arrives after the revocation of its mandate was acknowledged
\* never reaches settlement or delivery, also across restarts.  Holds while
\* the journal works and nobody else signs a revocation of that mandate.
RevocationHolds == \A h \in Handlers : late[h] => pc[h] \in {"verify", "decide", "resume"}

\* A payment whose signed value is deferred is handed over only at the confirm
\* depth (policy_mandate.go:178, gateway.go:653-673).  Holds without reorgs,
\* while the settlement receipt can be read and every retry states the value
\* that was signed: a retry is not verified again, so one that states less
\* than DeferAbove is handed over at once.
DeliveredDeep ==
  \A n \in Nonces :
    delivered[n] > 0 /\ Deferrable(Amount[n]) => head - minedAt[n] >= ConfirmDepth

\* The goods for one payment are handed over at most once.  Holds for
\* single-flight agents.
DeliverOnce == \A n \in Nonces : delivered[n] <= 1

\* A payment is delivered or refunded, not both, and neither twice.  Holds for
\* single-flight agents while delivery learns the outcome of its transaction.
OneOutcome == \A n \in Nonces : delivered[n] + refunded[n] <= 1

\* Every journaled settlement is delivered, parked, refunded, recorded as owed,
\* or still being worked on.  Holds without crashes while the journal works.
NoSilentLoss ==
  \A n \in journal.settlement :
    \/ delivered[n] > 0
    \/ n \in inflight \cup journal.refund \cup journal.refund_pending
    \/ \E h \in Handlers : pc[h] \in {"commit", "park", "deliver", "refund"} /\ nonce(h) = n

\* The gateway implements the life of a payment that module Payment states:
\* settle journals before it answers (gateway.go:593-622), and no order of
\* retries, deferral, delivery, refund, crash and restart hands the goods over
\* or the money back twice.  Holds for single-flight agents on a chain without
\* reorgs, while delivery learns the outcome of its transaction.
Life == INSTANCE Payment WITH
  paid     <- {n \in Nonces : paidBy[n] # None},
  recorded <- journal.settlement

PaymentLife == Life!Spec

\* Every request is answered whatever the chain does, or has got as far as an
\* asset or refund transfer whose wait has no deadline.
HandlersFinish ==
  \A h \in Handlers : pc[h] # "idle" ~> (pc[h] = "idle" \/ WaitsForChain(h))
=============================================================================
