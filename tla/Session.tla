------------------------------ MODULE Session ------------------------------
(***************************************************************************)
(* Payment sessions, x402/session.go: one authorization for a whole        *)
(* budget, drawn down by many requests and settled once, at close, when    *)
(* the budget runs out or when the authorization is about to expire.  The  *)
(* unused budget is refunded after the settlement.                         *)
(*                                                                         *)
(* A handler is one goroutine running Gateway.Middleware.  The mutex of a  *)
(* session is held from the settled check to the answer, through the chain *)
(* and the journal; everything between two of those is one step.           *)
(*                                                                         *)
(* The clock of an authorization has three phases: far from validBefore,   *)
(* within sessionMargin of it, and past it.  All sessions run under one    *)
(* mandate with a cumulative budget.  attachSessions always supplies a     *)
(* refunder, so the refusal of a gateway without one does not arise.       *)
(***************************************************************************)
EXTENDS Integers, FiniteSets, Sums

CONSTANTS
  Handlers,      \* request slots of the HTTP server
  Ids,           \* session ids, as many as sessions are ever opened
  Auths,         \* the full-budget authorizations agents sign
  Value,         \* Value[a]: the signed value, the session's budget
  Price,         \* Gateway.Price, drawn by every request
  BudgetAmount,  \* the mandate's cumulative budget, 0 means no limit
  TableActions,  \* what the accept table after the mandate policy may answer
  SingleOpen,    \* an agent opens at most one session with an authorization
  Faults,        \* the failures that may happen, see FaultKinds
  Expiring,      \* the authorizations whose validBefore is reached
  MaxRestarts,   \* bound on the restarts
  None           \* no session, no authorization, no lock holder

FaultKinds == { "rpc",         \* a facilitator call fails before any effect
                "revert",      \* the transaction reverts: the payer's funds are gone or frozen
                "timeout",     \* WaitMined gives up while the settlement may still be mined
                "journal",     \* Journal.Append fails
                "refund",      \* the refund transfer fails
                "refund_wait", \* the refund is mined but waiting for it fails
                "crash" }      \* the gateway process dies and is restarted

ASSUME ValueAssumption ==
  /\ Value \in [Auths -> Nat]
  /\ Price \in Nat \ {0}
  /\ BudgetAmount \in Nat
  /\ IsFiniteSet(Auths)

ASSUME ConfigAssumption ==
  /\ TableActions \subseteq {"approve", "refuse"}
  /\ SingleOpen \in BOOLEAN
  /\ Faults \subseteq FaultKinds
  /\ Expiring \subseteq Auths
  /\ MaxRestarts \in Nat
  /\ None \notin Ids \cup Auths \cup Handlers

VARIABLES
  \* the request handlers
  pc,        \* where each handler is
  req,       \* the authorization of an open, the session id otherwise
  closing,   \* the request carries X-PAYMENT-SESSION-CLOSE
  tx,        \* the settlement transaction it waits for
  \* gateway memory
  store,     \* keys of sessionStore.sessions
  auth,      \* paymentSession.payload of each session
  spent,     \* paymentSession.spent
  settled,   \* paymentSession.settled
  lock,      \* the holder of paymentSession.mu
  reserved,  \* mandateAccount.reserved
  spends,    \* mandateAccount.spends
  mirror,    \* Gateway.Settlements
  \* durable
  journal,   \* settlement, refund and refund_pending entries
  \* the chain and the clock
  paid,      \* authorizations whose nonce is used: the budget was transferred
  orphans,   \* pending settlements no handler waits for
  refunded,  \* what the refunder transferred back, per authorization
  phase,     \* "far", "near" or "past" the validBefore of an authorization
  \* what the outside saw
  opened,    \* authorizations sent in an open request
  served,    \* requests served per session
  told,      \* authorizations the answer reported as settled and closed
  broken,    \* authorizations whose settlement outcome the gateway did not record
  restarts   \* how often the gateway was restarted

requestVars == <<pc, req, closing>>
sessionVars == <<store, auth, spent, settled>>
accountVars == <<reserved, spends>>
chainVars   == <<paid, orphans, refunded, phase>>
outsideVars == <<opened, served, told, broken, restarts>>

vars == <<requestVars, tx, sessionVars, lock, accountVars, mirror, journal,
          chainVars, outsideVars>>

PCs == {"idle", "verify", "decide", "lock", "submit", "wait", "journal", "commit", "refund", "done"}

\* The handler is inside settleSession.
Settling == {"submit", "wait", "journal", "commit", "refund", "done"}

Entries == [auth: Auths, amount: Nat]

TypeOK ==
  /\ pc \in [Handlers -> PCs]
  /\ req \in [Handlers -> Auths \cup Ids \cup {None}]
  /\ closing \in [Handlers -> BOOLEAN]
  /\ tx \in [Handlers -> {"none", "pending", "mined", "reverted"}]
  /\ store \subseteq Ids
  /\ auth \in [Ids -> Auths \cup {None}]
  /\ spent \in [Ids -> Nat]
  /\ settled \in [Ids -> BOOLEAN]
  /\ lock \in [Ids -> Handlers \cup {None}]
  /\ reserved \subseteq Auths
  /\ spends \subseteq Auths
  /\ mirror \subseteq Auths
  /\ journal \in [settlement: SUBSET Auths, refund: SUBSET Entries,
                  refund_pending: SUBSET Entries]
  /\ paid \subseteq Auths
  /\ orphans \subseteq Auths
  /\ refunded \in [Auths -> Nat]
  /\ phase \in [Auths -> {"far", "near", "past"}]
  /\ opened \subseteq Auths
  /\ served \in [Ids -> Nat]
  /\ told \subseteq Auths
  /\ broken \subseteq Auths
  /\ restarts \in Nat
  /\ \A h \in Handlers :
       /\ pc[h] \in {"verify", "decide"} => req[h] \in Auths
       /\ pc[h] \in {"lock"} \cup Settling => req[h] \in Ids /\ auth[req[h]] \in Auths
       /\ tx[h] # "none" <=> pc[h] = "wait"
  /\ \A i \in store : auth[i] \in Auths

Init ==
  /\ pc = [h \in Handlers |-> "idle"]
  /\ req = [h \in Handlers |-> None]
  /\ closing = [h \in Handlers |-> FALSE]
  /\ tx = [h \in Handlers |-> "none"]
  /\ store = {}
  /\ auth = [i \in Ids |-> None]
  /\ spent = [i \in Ids |-> 0]
  /\ settled = [i \in Ids |-> FALSE]
  /\ lock = [i \in Ids |-> None]
  /\ reserved = {}
  /\ spends = {}
  /\ mirror = {}
  /\ journal = [settlement |-> {}, refund |-> {}, refund_pending |-> {}]
  /\ paid = {}
  /\ orphans = {}
  /\ refunded = [a \in Auths |-> 0]
  /\ phase = [a \in Auths |-> "far"]
  /\ opened = {}
  /\ served = [i \in Ids |-> 0]
  /\ told = {}
  /\ broken = {}
  /\ restarts = 0
----------------------------------------------------------------------------
(* Steps the handlers share.                                               *)

Goto(h, where) == pc' = [pc EXCEPT ![h] = where]

\* The response is written and the goroutine ends.
Finish(h) ==
  /\ pc' = [pc EXCEPT ![h] = "idle"]
  /\ req' = [req EXCEPT ![h] = None]
  /\ closing' = [closing EXCEPT ![h] = FALSE]

\* The deferred sess.mu.Unlock of handleSession.
Unlock(h) == lock' = [lock EXCEPT ![req[h]] = None]

\* The authorization of the session handler h works on.
held(h) == auth[req[h]]

unused(i) == Value[auth[i]] - spent[i]

SumOf(S) == Sum(Value, S)

Logged(appended) ==
  \/ journal' = appended
  \/ "journal" \in Faults /\ journal' = journal
----------------------------------------------------------------------------
(* openSession.                                                            *)

\* buildSessionOpen: every open signs an authorization of its own, with a nonce
\* drawn for it and bound to the resource.
buildSessionOpen(a) == a \notin opened

\* Agent.OpenSession: a signed full-budget authorization with session.open
\* reaches openSession.  A client other than Agent may send one twice.
OpenSession(h, a) ==
  /\ pc[h] = "idle"
  /\ SingleOpen => buildSessionOpen(a)
  /\ Goto(h, "verify")
  /\ req' = [req EXCEPT ![h] = a]
  /\ opened' = opened \cup {a}
  /\ UNCHANGED <<closing, tx, sessionVars, lock, accountVars, mirror, journal,
                 chainVars, served, told, broken, restarts>>

\* Facilitator.Verify: a fresh nonce, a value of at least one price and some
\* seconds of validity; balance, freeze and signature may refuse it as well.
Verify(h) ==
  /\ pc[h] = "verify"
  /\ \/ /\ req[h] \notin paid
        /\ Value[req[h]] >= Price
        /\ phase[req[h]] # "past"
        /\ Goto(h, "decide")
        /\ UNCHANGED <<req, closing>>
     \/ Finish(h)
  /\ UNCHANGED <<tx, sessionVars, lock, accountVars, mirror, journal, chainVars,
                 outsideVars>>

\* mandateAccounts.reserve: the whole session budget is the amount.
reserve(a) ==
  BudgetAmount = 0 \/ SumOf(spends) + SumOf(reserved) + Value[a] <= BudgetAmount

\* Policy.Decide, then the session is stored with the first request drawn,
\* and that request is served.  Any answer but approve refuses; a
\* reservation the table refuses is not released.
OpenHeld(h) ==
  /\ pc[h] = "decide"
  /\ Finish(h)
  /\ LET a == req[h] IN
     \/ /\ ~reserve(a)
        /\ UNCHANGED <<sessionVars, reserved, served>>
     \/ /\ reserve(a)
        /\ reserved' = reserved \cup {a}
        /\ \/ /\ "refuse" \in TableActions
              /\ UNCHANGED <<sessionVars, served>>
           \/ /\ "approve" \in TableActions
              /\ \E i \in Ids :
                   /\ auth[i] = None
                   /\ store' = store \cup {i}
                   /\ auth' = [auth EXCEPT ![i] = a]
                   /\ spent' = [spent EXCEPT ![i] = Price]
                   /\ settled' = [settled EXCEPT ![i] = FALSE]
                   /\ served' = [served EXCEPT ![i] = @ + 1]
  /\ UNCHANGED <<tx, lock, spends, mirror, journal, chainVars, opened, told, broken,
                 restarts>>
----------------------------------------------------------------------------
(* handleSession.                                                          *)

\* Mutant: an id the store does not know is not refused.
SessionRequest_UnknownId(h, i, close) ==
  /\ pc[h] = "idle"
  /\ Goto(h, "lock")
  /\ req' = [req EXCEPT ![h] = i]
  /\ closing' = [closing EXCEPT ![h] = close]
  /\ UNCHANGED <<tx, sessionVars, lock, accountVars, mirror, journal, chainVars,
                 outsideVars>>

\* Agent.SessionGet and CloseSession: a request that carries only the id of a
\* stored session.  An unknown id is refused with no effect.
SessionRequest(h, i, close) ==
  /\ pc[h] = "idle"
  /\ i \in store
  /\ Goto(h, "lock")
  /\ req' = [req EXCEPT ![h] = i]
  /\ closing' = [closing EXCEPT ![h] = close]
  /\ UNCHANGED <<tx, sessionVars, lock, accountVars, mirror, journal, chainVars,
                 outsideVars>>

\* Mutant: the session's mutex is not taken.
CanLock_NoMutex(i) == TRUE

CanLock(i) == lock[i] = None

\* The settled check after sess.mu.Lock: the session was settled while this
\* request waited for the mutex.
AlreadySettled(i) == settled[i]

Refuse(h) ==
  /\ pc[h] = "lock"
  /\ CanLock(req[h])
  /\ AlreadySettled(req[h])
  /\ Finish(h)
  /\ UNCHANGED <<tx, sessionVars, lock, accountVars, mirror, journal, chainVars,
                 outsideVars>>

\* Mutant: the session is closed once nothing at all is left.
MustSettle_OffByOne(i) == phase[auth[i]] # "far" \/ unused(i) <= 0

\* expiringSoon, or the remainder does not cover another request.
MustSettle(i) == phase[auth[i]] # "far" \/ unused(i) < Price

\* The price is drawn and the request served, the mutex held throughout.
Draw(h) ==
  /\ pc[h] = "lock"
  /\ CanLock(req[h])
  /\ ~AlreadySettled(req[h])
  /\ ~closing[h]
  /\ ~MustSettle(req[h])
  /\ spent' = [spent EXCEPT ![req[h]] = @ + Price]
  /\ served' = [served EXCEPT ![req[h]] = @ + 1]
  /\ Finish(h)
  /\ UNCHANGED <<tx, store, auth, settled, lock, accountVars, mirror, journal, chainVars,
                 opened, told, broken, restarts>>

BeginSettle(h) ==
  /\ pc[h] = "lock"
  /\ CanLock(req[h])
  /\ ~AlreadySettled(req[h])
  /\ closing[h] \/ MustSettle(req[h])
  /\ lock' = [lock EXCEPT ![req[h]] = h]
  /\ Goto(h, "submit")
  /\ UNCHANGED <<req, closing, tx, sessionVars, accountVars, mirror, journal, chainVars,
                 outsideVars>>
----------------------------------------------------------------------------
(* settleSession.                                                          *)

\* Mutant: an early return that leaves the mutex locked.
SettleFailed_KeepsLock(h) ==
  /\ store' = IF closing[h] THEN store \ {req[h]} ELSE store
  /\ UNCHANGED lock
  /\ Finish(h)

\* settleSession returned an error.  A close drops the session all the same;
\* otherwise it stays, unsettled, for the next request.
SettleFailed(h) ==
  /\ store' = IF closing[h] THEN store \ {req[h]} ELSE store
  /\ Unlock(h)
  /\ Finish(h)

\* Settle submits transferWithAuthorization.  Gas estimation fails on a used
\* or expired authorization; the node may refuse the call.
Submit(h) ==
  /\ pc[h] = "submit"
  /\ \/ /\ tx' = [tx EXCEPT ![h] = "pending"]
        /\ Goto(h, "wait")
        /\ UNCHANGED <<req, closing, store, lock>>
     \/ /\ \/ held(h) \in paid
           \/ phase[held(h)] = "past"
           \/ "rpc" \in Faults
        /\ SettleFailed(h)
        /\ UNCHANGED tx
  /\ UNCHANGED <<auth, spent, settled, accountVars, mirror, journal, chainVars,
                 outsideVars>>

\* WaitMined gives up or the request context ends; the transaction stays out.
SettleTimeout(h) ==
  /\ pc[h] = "wait"
  /\ "timeout" \in Faults
  /\ orphans' = IF tx[h] = "pending" THEN orphans \cup {held(h)} ELSE orphans
  /\ broken' = broken \cup {held(h)}
  /\ tx' = [tx EXCEPT ![h] = "none"]
  /\ SettleFailed(h)
  /\ UNCHANGED <<auth, spent, settled, accountVars, mirror, journal, paid,
                 refunded, phase, opened, served, told, restarts>>

\* Mutant: a transaction that is not mined yet counts as failed.
SettleReceipt_NoWait(h) ==
  /\ pc[h] = "wait"
  /\ tx[h] = "pending"
  /\ orphans' = orphans \cup {held(h)}
  /\ tx' = [tx EXCEPT ![h] = "none"]
  /\ SettleFailed(h)
  /\ UNCHANGED <<auth, spent, settled, accountVars, mirror, journal, paid, refunded, phase,
                 outsideVars>>

\* WaitMined returns the receipt.
SettleReceipt(h) ==
  /\ pc[h] = "wait"
  /\ \/ /\ tx[h] = "mined"
        /\ Goto(h, "journal")
        /\ UNCHANGED <<req, closing, store, lock>>
     \/ /\ tx[h] = "reverted"
        /\ SettleFailed(h)
  /\ tx' = [tx EXCEPT ![h] = "none"]
  /\ UNCHANGED <<auth, spent, settled, accountVars, mirror, journal, chainVars,
                 outsideVars>>

\* Mutant: an error of the append is only logged.
JournalSettlement_LogsError(h) ==
  /\ pc[h] = "journal"
  /\ Logged([journal EXCEPT !.settlement = @ \cup {held(h)}])
  /\ Goto(h, "commit")
  /\ UNCHANGED <<req, closing, tx, sessionVars, lock, accountVars, mirror, chainVars,
                 outsideVars>>

\* The settlement entry; a failed append ends the settlement before the
\* refund, and no later try passes Submit.
JournalSettlement(h) ==
  /\ pc[h] = "journal"
  /\ \/ /\ journal' = [journal EXCEPT !.settlement = @ \cup {held(h)}]
        /\ Goto(h, "commit")
        /\ UNCHANGED <<req, closing, store, lock, broken>>
     \/ /\ "journal" \in Faults
        /\ broken' = broken \cup {held(h)}
        /\ SettleFailed(h)
        /\ UNCHANGED journal
  /\ UNCHANGED <<tx, auth, spent, settled, accountVars, mirror, chainVars, opened, served,
                 told, restarts>>

\* Mutant: the reservation is dropped and no spend recorded.
commit_Drops(a) == reserved' = reserved \ {a} /\ UNCHANGED spends

\* mandateAccounts.commit, through Settled(pc, true).
commit(a) ==
  IF a \in reserved
  THEN reserved' = reserved \ {a} /\ spends' = spends \cup {a}
  ELSE UNCHANGED accountVars

\* The mirror and the settlers; with nothing unused the session is done.
CommitSettlement(h) ==
  /\ pc[h] = "commit"
  /\ mirror' = mirror \cup {held(h)}
  /\ commit(held(h))
  /\ Goto(h, IF unused(req[h]) > 0 THEN "refund" ELSE "done")
  /\ UNCHANGED <<req, closing, tx, sessionVars, lock, journal, chainVars, outsideVars>>

\* Mutant: the entry names what was drawn.
PendingEntry_Spent(i) == [auth |-> auth[i], amount |-> spent[i]]

\* journalRefundPending(record): the record of the settlement, whose amount
\* is the whole budget.
PendingEntry(i) == [auth |-> auth[i], amount |-> Value[auth[i]]]

RefundEntry(i) == [auth |-> auth[i], amount |-> unused(i)]

\* journalRefundPending; its error is only logged.
Outstanding(i) ==
  \/ /\ journal' = [journal EXCEPT !.refund_pending = @ \cup {PendingEntry(i)}]
     /\ UNCHANGED broken
  \/ /\ "journal" \in Faults
     /\ broken' = broken \cup {auth[i]}
     /\ UNCHANGED journal

\* The refund of the unused budget, or its outstanding entry.
RefundUnused(h) ==
  /\ pc[h] = "refund"
  /\ LET i == req[h]
         sent == refunded' = [refunded EXCEPT ![held(h)] = @ + unused(i)]
     IN \/ /\ sent
           /\ Logged([journal EXCEPT !.refund = @ \cup {RefundEntry(i)}])
           /\ UNCHANGED broken
        \/ /\ "refund_wait" \in Faults
           /\ sent
           /\ Outstanding(i)
        \/ /\ "refund" \in Faults
           /\ UNCHANGED refunded
           /\ Outstanding(i)
  /\ Goto(h, "done")
  /\ UNCHANGED <<req, closing, tx, sessionVars, lock, accountVars, mirror, paid, orphans,
                 phase, opened, served, told, restarts>>

\* settleSession returned a record: the session is marked and dropped, and
\* the answer says so (200 to a close, session_exhausted otherwise).
SettleDone(h) ==
  /\ pc[h] = "done"
  /\ settled' = [settled EXCEPT ![req[h]] = TRUE]
  /\ store' = store \ {req[h]}
  /\ told' = told \cup {held(h)}
  /\ Unlock(h)
  /\ Finish(h)
  /\ UNCHANGED <<tx, auth, spent, accountVars, mirror, journal, chainVars, opened, served,
                 broken, restarts>>
----------------------------------------------------------------------------
(* Restart, the chain and the clock.                                       *)

\* The process dies and is started again.  The journal gives the mirror back;
\* sessions are in memory only, and a session settlement writes no decision
\* entry to restore a spend from.
Restart ==
  /\ "crash" \in Faults
  /\ restarts < MaxRestarts
  /\ pc' = [h \in Handlers |-> "idle"]
  /\ req' = [h \in Handlers |-> None]
  /\ closing' = [h \in Handlers |-> FALSE]
  /\ tx' = [h \in Handlers |-> "none"]
  /\ orphans' = orphans \cup {held(h) : h \in {g \in Handlers : tx[g] = "pending"}}
  /\ broken' = broken \cup {held(h) : h \in {g \in Handlers : pc[g] \in Settling}}
  /\ store' = {}
  /\ lock' = [i \in Ids |-> None]
  /\ reserved' = {}
  /\ spends' = {}
  /\ mirror' = journal.settlement
  /\ restarts' = restarts + 1
  /\ UNCHANGED <<auth, spent, settled, journal, paid, refunded, phase, opened, served, told>>

\* A pending settlement is mined; the token uses a nonce once and never after
\* validBefore.
Mine(h) ==
  /\ tx[h] = "pending"
  /\ \/ /\ held(h) \notin paid
        /\ phase[held(h)] # "past"
        /\ paid' = paid \cup {held(h)}
        /\ tx' = [tx EXCEPT ![h] = "mined"]
     \/ /\ held(h) \in paid \/ phase[held(h)] = "past" \/ "revert" \in Faults
        /\ tx' = [tx EXCEPT ![h] = "reverted"]
        /\ UNCHANGED paid
  /\ UNCHANGED <<requestVars, sessionVars, lock, accountVars, mirror, journal, orphans,
                 refunded, phase, outsideVars>>

MineOrphan(a) ==
  /\ a \in orphans
  /\ orphans' = orphans \ {a}
  /\ paid' = IF phase[a] # "past" THEN paid \cup {a} ELSE paid
  /\ UNCHANGED <<requestVars, tx, sessionVars, lock, accountVars, mirror, journal,
                 refunded, phase, outsideVars>>

\* Time passes for an authorization: the margin begins, then it expires.
Tick(a) ==
  /\ a \in Expiring
  /\ phase[a] # "past"
  /\ phase' = [phase EXCEPT ![a] = IF @ = "far" THEN "near" ELSE "past"]
  /\ UNCHANGED <<requestVars, tx, sessionVars, lock, accountVars, mirror, journal, paid,
                 orphans, refunded, outsideVars>>

\* settleSession, one disjunct per step.
SettleStep(h) ==
  \/ Submit(h) \/ SettleTimeout(h) \/ SettleReceipt(h) \/ JournalSettlement(h)
  \/ CommitSettlement(h) \/ RefundUnused(h) \/ SettleDone(h)

\* handleSession once it has the mutex.
LockedStep(h) == Refuse(h) \/ Draw(h) \/ BeginSettle(h)

Next ==
  \/ \E h \in Handlers :
       \/ \E a \in Auths : OpenSession(h, a)
       \/ Verify(h)
       \/ OpenHeld(h)
       \/ \E i \in Ids, close \in BOOLEAN : SessionRequest(h, i, close)
       \/ LockedStep(h)
       \/ SettleStep(h)
       \/ Mine(h)
  \/ Restart
  \/ \E a \in Auths : MineOrphan(a) \/ Tick(a)

Spec == Init /\ [][Next]_vars

\* Every goroutine runs on, the wait of Settle has a deadline, and a Go mutex
\* hands itself to a goroutine that has waited long enough (starvation mode).
\* The wait of Refund has no deadline and is not assumed to end.
Fairness ==
  \A h \in Handlers :
    /\ WF_vars(Verify(h) \/ OpenHeld(h) \/ (SettleStep(h) /\ pc[h] # "refund"))
    /\ SF_vars(LockedStep(h))

FairSpec == Spec /\ Fairness
----------------------------------------------------------------------------
(* Properties.                                                             *)

\* What requests were served under a.
ServedFor(a) == Sum([i \in Ids |-> Price * served[i]], {i \in Ids : auth[i] = a})

\* However requests of one session interleave, what is served under an
\* authorization never exceeds the value it can be settled for
\* (session.go:174-191).
ServedIsCovered == \A a \in Auths : ServedFor(a) <= Value[a]

\* The payer of a session never gets back more than the unused budget: the
\* seller keeps what was served, and no interleaving of two closing requests
\* refunds twice (session.go:231-240).
SellerKeepsServed ==
  \A a \in Auths : refunded[a] > 0 => refunded[a] <= Value[a] - ServedFor(a)

\* An answer that a session is settled and closed goes out only for a budget
\* that was transferred and whose entry is in the journal, and stays true
\* over restarts (session.go:213-226).
ToldIsDurable == told \subseteq paid \cap journal.settlement

\* Once a payer was told, exactly what was not served was sent back, or an
\* outstanding entry covers it, unless the append of that entry failed
\* (session.go:231-240).  Covers, not equals: the entry carries the amount of the
\* settlement record, the whole budget (session.go:213-215, 236), and so claims
\* what was served as well.  Whoever pays it out must not take it literally.
ToldIsSquare ==
  \A a \in told \ broken :
    \/ refunded[a] = Value[a] - ServedFor(a)
    \/ \E e \in journal.refund_pending : e.auth = a /\ e.amount >= Value[a] - ServedFor(a)

\* A budget that was transferred is held by a session still in settlement, or
\* was reported as settled, or the wait, the journal or the process failed
\* under it: no other path charges a payer and keeps silent.
NoSilentCharge ==
  \A a \in paid :
    \/ a \in told
    \/ a \in broken
    \/ \E h \in Handlers : pc[h] \in Settling /\ held(h) = a

\* Until a restart, the sessions of a mandate are never charged more than its
\* budget, whatever fails in between: a session's reservation outlives its
\* failed settlement, whose transaction may still be mined (session.go:115-122,
\* policy_mandate.go:386-411).
MandateBudgetHolds ==
  BudgetAmount > 0 /\ restarts = 0 => SumOf(paid) <= BudgetAmount

\* Every request is answered, those that wait for a session another request is
\* settling included, unless a session's refund never returns: it holds the
\* mutex through a wait without a deadline (session.go:155-156, 231-234).
RequestsFinish ==
  \A h \in Handlers :
    pc[h] # "idle" ~> (pc[h] = "idle" \/ \E g \in Handlers : pc[g] = "refund")
=============================================================================
