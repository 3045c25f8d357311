------------------------------ MODULE Purchase ------------------------------
(***************************************************************************)
(* A purchase across its five parties: the agent that pays                 *)
(* (x402/agent.go, cmd/agent), the delegator that signs mandates, answers  *)
(* asks and revokes (cmd/delegator), the gateway's policy chain            *)
(* (policy_*.go, confirmation.go, history.go), the receipts it signs       *)
(* (receipt.go) and the auditor that reads them (cmd/audit).               *)
(*                                                                         *)
(* What the gateway does between a decision and its answer is kept to the  *)
(* steps the other parties can see; timeouts, deferral, delivery, crashes  *)
(* and the journal are the subject of module Gateway, windows and rates of *)
(* module MandateAccounts.  The chain of this module is final.  Time is    *)
(* counted in seconds of which only the order matters.  A signature is the *)
(* name of the key that made it; a nonce and the transaction that spends   *)
(* it are one number.  Every payment carries a mandate: the policy rejects *)
(* one without.                                                            *)
(***************************************************************************)
EXTENDS Integers, FiniteSets, FiniteSetsExt, Functions, Sums

CONSTANTS
  Runs,         \* agent get processes of one wallet
  Resources,    \* the URLs on sale
  Prices,       \* the prices the seller may set
  InitPrice,    \* InitPrice[u]: the price of u at the start
  Mandates,     \* mandate ids
  Terms,        \* Terms[m]: what mandate m grants, see TermSet
  Signers,      \* keys that sign confirmations and revocations
  GrantTable,   \* the agent's decision table
  AcceptTable,  \* the gateway's decision table
  AskOnExceed,  \* the gateway asks instead of rejecting
  PayFor,       \* validity of an authorization
  ConfirmFor,   \* validity of a confirmation
  MandateFor,   \* validity of a mandate
  MaxTime,      \* bound on the clock
  MaxNonces,    \* bound on the payments that are signed afresh
  MaxSends,     \* bound on the payments that are sent
  MaxConfirms,  \* bound on the confirmations
  MaxRevokes,   \* bound on the mandates that are revoked
  MaxForeign,   \* bound on what other keys than the delegator's sign
  MaxReprices   \* bound on the changes of a price

None == 0 - 1  \* an absent bound of a rule

\* A mandate's agent flag says whether it names this wallet.
TermSet == [agent: BOOLEAN, resources: SUBSET Resources, cap: Nat, budget: Nat]

\* A rule with its bounds, and its outcome.
Rule == [amountMin: Nat \cup {None}, amountMax: Nat \cup {None}, asksMax: Nat \cup {None},
         then: STRING]

\* loadTable: a table has a default and at least one rule.
WellFormed(table, outcomes) ==
  /\ table.default \in outcomes
  /\ table.rules # <<>>
  /\ \A i \in DOMAIN table.rules : table.rules[i].then \in outcomes

ASSUME PurchaseAssumption ==
  /\ InitPrice \in [Resources -> Prices]
  /\ Prices \subseteq Nat \ {0}
  /\ Terms \in [Mandates -> TermSet]
  /\ "delegator" \in Signers
  /\ WellFormed(GrantTable, {"pay", "ask", "refuse"})
  /\ WellFormed(AcceptTable, {"approve", "reject", "ask", "require-bond"})
  /\ AskOnExceed \in BOOLEAN
  /\ {PayFor, ConfirmFor, MandateFor, MaxTime} \subseteq Nat \ {0}
  /\ {MaxNonces, MaxSends, MaxConfirms, MaxRevokes, MaxForeign, MaxReprices} \subseteq Nat

VARIABLES
  now,        \* the clock
  \* the agent
  pc,         \* where the payment of each run is
  pay,        \* the payload it sent last
  nonces,     \* nonces drawn so far
  sends,      \* payments sent so far
  \* the delegator
  expires,    \* expires[m]: validBefore of a signed mandate, 0 before
  asks,       \* the asks the agent was given
  confs,      \* the confirmations that were signed
  \* the gateway
  price,      \* price[u]
  reprices,   \* restarts with another price
  revoked,    \* mandateRevocations.set: those of the delegator's key
  reserved,   \* reserved[m]: in-flight payments, nonce and amount
  spends,     \* spends[m]: committed payments, nonce and amount
  history,    \* ConfirmationHistory of the delegator
  journaled,  \* revocation entries of the journal, one per mandate id
  receipts,   \* receipts issued
  \* the chain
  settled,    \* executed authorizations
  \* history
  withdrawn,  \* mandates their delegator revoked
  doubled,    \* two requests with one nonce were in flight
  decided     \* decided[r]: the payment was entitled when it was approved

agentVars     == <<pc, pay, nonces, sends>>
delegatorVars == <<expires, asks, confs>>
accountVars   == <<reserved, spends>>
revokeVars    == <<revoked, journaled, withdrawn>>
vars == <<now, agentVars, delegatorVars, price, reprices, accountVars, revokeVars, history,
          receipts, settled, doubled, decided>>

PCs == {"idle", "sent", "decide", "settle", "commit"}
Registries == {"identity", "eligibility"}
NonceSet == 1..MaxNonces
Ask == [mandate: Mandates, nonce: NonceSet, amount: Prices, resource: Resources]
Confirmation == [ask: Ask, signer: Signers, until: Nat]
Payload == [resource: Resources, mandate: Mandates, amount: Prices,
            nonce: NonceSet, until: Nat, conf: SUBSET Confirmation]
Spend == [nonce: NonceSet, amount: Prices]
Receipt == [resource: Resources, mandate: Mandates, amount: Prices, nonce: NonceSet,
            issuedAt: Nat]
Settlement == [resource: Resources, mandate: Mandates, amount: Prices, nonce: NonceSet,
               entitled: BOOLEAN]
NoPayload == [conf |-> {}]

TypeOK ==
  /\ now \in 1..MaxTime
  /\ pc \in [Runs -> PCs]
  /\ pay \in [Runs -> Payload \cup {NoPayload}]
  /\ \A r \in Runs : pc[r] # "idle" => pay[r] \in Payload
  /\ nonces \in 0..MaxNonces
  /\ sends \in 0..MaxSends
  /\ expires \in [Mandates -> Nat]
  /\ asks \subseteq Ask
  /\ confs \subseteq Confirmation
  /\ price \in [Resources -> Prices]
  /\ reprices \in 0..MaxReprices
  /\ revoked \subseteq Mandates
  /\ reserved \in [Mandates -> SUBSET Spend]
  /\ spends \in [Mandates -> SUBSET Spend]
  /\ history \in [asks: Nat, confirmations: Nat, failures: Nat]
  /\ journaled \subseteq [mandate: Mandates, signer: Signers, at: Nat]
  /\ receipts \subseteq Receipt
  /\ settled \subseteq Settlement
  /\ withdrawn \subseteq Mandates
  /\ doubled \in BOOLEAN
  /\ decided \in [Runs -> BOOLEAN]

NoHistory == [asks |-> 0, confirmations |-> 0, failures |-> 0]

Init ==
  /\ now = 1
  /\ pc = [r \in Runs |-> "idle"]
  /\ pay = [r \in Runs |-> NoPayload]
  /\ nonces = 0
  /\ sends = 0
  /\ expires = [m \in Mandates |-> 0]
  /\ asks = {}
  /\ confs = {}
  /\ price = InitPrice
  /\ reprices = 0
  /\ revoked = {}
  /\ reserved = [m \in Mandates |-> {}]
  /\ spends = [m \in Mandates |-> {}]
  /\ history = NoHistory
  /\ journaled = {}
  /\ receipts = {}
  /\ settled = {}
  /\ withdrawn = {}
  /\ doubled = FALSE
  /\ decided = [r \in Runs |-> FALSE]
----------------------------------------------------------------------------
(* Decision tables, shared by the agent and the gateway.                   *)

\* compiledRule.matches: every bound that is present holds.  Stage and risk
\* are at their defaults before settlement and are left out.
matches(rule, amount, asked) ==
  /\ rule.amountMin # None => amount >= rule.amountMin
  /\ rule.amountMax # None => amount <= rule.amountMax
  /\ rule.asksMax # None => asked <= rule.asksMax

\* decisionTable.match: the first rule that matches, or the default.
match(table, amount, asked) ==
  LET hits == {i \in DOMAIN table.rules : matches(table.rules[i], amount, asked)} IN
    IF hits = {} THEN table.default ELSE table.rules[Min(hits)].then
----------------------------------------------------------------------------
(* The agent.                                                              *)

\* Agent.Get passes no ask count to its grant policy.
Grant(amount) == match(GrantTable, amount, 0)

\* Mutant: a fresh nonce although a confirmation is attached.
boundNonce_Fresh(conf) == nonces + 1

\* boundNonce: the confirmed nonce, or a fresh one.
boundNonce(conf) == IF conf = {} THEN nonces + 1 ELSE (CHOOSE c \in conf : TRUE).ask.nonce

\* buildPayment: the payload the agent signs for the price it was quoted.
buildPayment(u, m, conf) ==
  [resource |-> u, mandate |-> m, amount |-> price[u], nonce |-> boundNonce(conf),
   until |-> now + PayFor, conf |-> conf]

\* Another request with this nonce is in flight.
Twin(r, n) == \E q \in Runs \ {r} : pc[q] # "idle" /\ pay[q].nonce = n

Send(r, p) ==
  /\ sends < MaxSends
  /\ sends' = sends + 1
  /\ pc' = [pc EXCEPT ![r] = "sent"]
  /\ pay' = [pay EXCEPT ![r] = p]
  /\ doubled' = (doubled \/ Twin(r, p.nonce))

\* Agent.Get: the terms of the 402, the grant, a signature, the paid request.
Get(r) ==
  /\ pc[r] = "idle"
  /\ \E u \in Resources, conf \in {{}} \cup {{c} : c \in confs},
        m \in {k \in Mandates : expires[k] > 0} :
       LET p == buildPayment(u, m, conf) IN
         /\ Grant(price[u]) # "refuse"
         /\ p.nonce <= MaxNonces
         /\ nonces' = IF p.nonce > nonces THEN p.nonce ELSE nonces
         /\ Send(r, p)
  /\ UNCHANGED <<now, delegatorVars, price, reprices, accountVars, revokeVars, history,
                 receipts, settled, decided>>

\* Agent.Retry: the last payment again, unchanged.
Retry(r) ==
  /\ pc[r] = "idle"
  /\ pay[r] # NoPayload
  /\ Send(r, pay[r])
  /\ UNCHANGED <<now, nonces, delegatorVars, price, reprices, accountVars, revokeVars, history,
                 receipts, settled, decided>>
----------------------------------------------------------------------------
(* The delegator.                                                          *)

\* runSign, with a fresh id.
SignMandate(m) ==
  /\ expires[m] = 0
  /\ expires' = [expires EXCEPT ![m] = now + MandateFor]
  /\ UNCHANGED <<now, agentVars, asks, confs, price, reprices, accountVars, revokeVars, history,
                 receipts, settled, doubled, decided>>

\* A key that may still sign: the delegator's, or another within the bound.
MaySign(s) ==
  \/ s = "delegator"
  \/ Cardinality({x \in confs : x.signer # "delegator"})
       + Cardinality({x \in journaled : x.signer # "delegator"}) < MaxForeign

\* runConfirm: a confirmation repeats the ask it answers.
Confirm(a, s) ==
  /\ Cardinality(confs) < MaxConfirms
  /\ MaySign(s)
  /\ confs' = confs \cup {[ask |-> a, signer |-> s, until |-> now + ConfirmFor]}
  /\ UNCHANGED <<now, agentVars, expires, asks, price, reprices, accountVars, revokeVars,
                 history, receipts, settled, doubled, decided>>

\* runRevoke and RevokeMandate, by any key.  The set is keyed by the signer and
\* the id, and the policy asks for the delegator's; the journal keys its entry by
\* the id alone and keeps the first.
Revoke(m, s) ==
  /\ expires[m] > 0
  /\ MaySign(s)
  /\ IF s = "delegator"
     THEN revoked' = revoked \cup {m} /\ withdrawn' = withdrawn \cup {m}
     ELSE UNCHANGED <<revoked, withdrawn>>
  /\ \/ /\ \E e \in journaled : e.mandate = m
        /\ UNCHANGED journaled
     \/ /\ \A e \in journaled : e.mandate # m
        /\ Cardinality(journaled) < MaxRevokes
        /\ journaled' = journaled \cup {[mandate |-> m, signer |-> s, at |-> now]}
  /\ UNCHANGED <<now, agentVars, delegatorVars, price, reprices, accountVars, history, receipts,
                 settled, doubled, decided>>
----------------------------------------------------------------------------
(* The gateway's policy chain.                                             *)

AmountOf(S) == Sum([x \in S |-> x.amount], S)

\* Mutant: the amount of the confirmation is not compared.
confirmationApproves_AnyAmount(p) ==
  \E c \in p.conf :
    /\ c.signer = "delegator"
    /\ c.ask.mandate = p.mandate
    /\ c.ask.nonce = p.nonce
    /\ c.ask.resource = p.resource
    /\ now < c.until

\* confirmationApproves: signed by the delegator for exactly this payment, and
\* still valid.
confirmationApproves(p) ==
  \E c \in p.conf :
    /\ c.signer = "delegator"
    /\ c.ask = [mandate |-> p.mandate, nonce |-> p.nonce, amount |-> p.amount,
                resource |-> p.resource]
    /\ now < c.until

\* Mutant: a confirmed payment is let through before the mandate is examined.
Entitled_RescuedByConfirmation(p) ==
  /\ Terms[p.mandate].agent
  /\ p.resource \in Terms[p.mandate].resources
  /\ confirmationApproves(p) \/ (now < expires[p.mandate] /\ p.mandate \notin revoked)

\* MandatePolicy.Decide up to the limits: what a confirmation cannot waive.
Entitled(p) ==
  /\ Terms[p.mandate].agent
  /\ now < expires[p.mandate]
  /\ p.mandate \notin revoked
  /\ p.resource \in Terms[p.mandate].resources

\* The per-payment cap; zero is no cap.
OverCap(p) == Terms[p.mandate].cap > 0 /\ p.amount > Terms[p.mandate].cap

\* mandateAccounts.reserve: committed and reserved amounts against the budget.
OverBudget(p) ==
  /\ Terms[p.mandate].budget > 0
  /\ AmountOf(spends[p.mandate]) + AmountOf(reserved[p.mandate]) + p.amount
       > Terms[p.mandate].budget

\* MandatePolicy.Decide.
MandateDecision(p) ==
  IF ~Entitled(p) THEN "reject"
  ELSE IF (OverCap(p) \/ OverBudget(p)) /\ ~confirmationApproves(p)
       THEN IF AskOnExceed THEN "ask" ELSE "reject"
       ELSE "approve"

\* Chain.Decide: the identity and eligibility policies on the lookups that
\* answered yes, the mandate policy, then the accept table with the ask count
\* read by enrich.
ChainDecision(p, listed) ==
  IF listed # Registries THEN "reject"
  ELSE IF MandateDecision(p) # "approve" THEN MandateDecision(p)
       ELSE match(AcceptTable, p.amount, history.asks)

\* Mutant: a confirmation that does not match takes the ask back.
Counted_TakesBack(p, listed) ==
  IF listed # Registries \/ ~Entitled(p) THEN history
  ELSE IF (OverCap(p) \/ OverBudget(p)) /\ ~confirmationApproves(p)
       THEN [history EXCEPT !.asks = IF p.conf # {} THEN @ - 1 ELSE @ + 1]
       ELSE history

\* overLimit and recordConfirmation: what the decision counts.  Only a cleared
\* cap is counted as a confirmation.
Counted(p, listed) ==
  IF listed # Registries \/ ~Entitled(p) THEN history
  ELSE IF (OverCap(p) \/ OverBudget(p)) /\ ~confirmationApproves(p)
       THEN IF ~AskOnExceed THEN history
            ELSE IF p.conf # {} THEN [history EXCEPT !.failures = @ + 1]
            ELSE [history EXCEPT !.asks = @ + 1]
       ELSE IF OverCap(p) THEN [history EXCEPT !.confirmations = @ + 1] ELSE history

\* reserve and release, keyed by the nonce.
reserve(p) == [reserved EXCEPT ![p.mandate] =
                 {x \in @ : x.nonce # p.nonce} \cup {[nonce |-> p.nonce, amount |-> p.amount]}]
release(p) == [reserved EXCEPT ![p.mandate] = {x \in @ : x.nonce # p.nonce}]

\* askFromContext.
askFromContext(p) ==
  [mandate |-> p.mandate, nonce |-> p.nonce, amount |-> p.amount, resource |-> p.resource]
----------------------------------------------------------------------------
(* A paid request at the gateway.                                          *)

Goto(r, where) == pc' = [pc EXCEPT ![r] = where]

Executed(n) == \E s \in settled : s.nonce = n

\* What the parties have done so far authorizes the payment: the mandate is
\* signed for this wallet and this resource, not lapsed and not revoked.
Authorized(p) ==
  /\ Terms[p.mandate].agent /\ p.resource \in Terms[p.mandate].resources
  /\ now < expires[p.mandate]
  /\ p.mandate \notin withdrawn

\* Facilitator.Verify.  A call that fails ends the request as well.
Verify(r) ==
  /\ pc[r] = "sent"
  /\ \/ /\ pay[r].amount >= price[pay[r].resource]
        /\ now < pay[r].until
        /\ ~Executed(pay[r].nonce)
        /\ Goto(r, "decide")
     \/ Goto(r, "idle")
  /\ UNCHANGED <<now, pay, nonces, sends, delegatorVars, price, reprices, accountVars,
                 revokeVars, history, receipts, settled, doubled, decided>>

\* The decision.  MandatePolicy has reserved the amount before the table is
\* asked; an ask is handed to the agent, who exits with it.  A registry that
\* cannot be read says no.
DecideListed(r, listed) ==
  /\ pc[r] = "decide"
  /\ history' = Counted(pay[r], listed)
  /\ decided' = [decided EXCEPT ![r] = Authorized(pay[r]) /\ listed = Registries]
  /\ reserved' = IF listed = Registries /\ MandateDecision(pay[r]) = "approve"
                 THEN reserve(pay[r]) ELSE reserved
  /\ Goto(r, IF ChainDecision(pay[r], listed) = "approve" THEN "settle" ELSE "idle")
  /\ asks' = IF ChainDecision(pay[r], listed) = "ask"
             THEN asks \cup {askFromContext(pay[r])} ELSE asks
  /\ UNCHANGED <<now, pay, nonces, sends, expires, confs, price, reprices, spends, revokeVars,
                 receipts, settled, doubled>>

Decide(r) == \E listed \in SUBSET Registries : DecideListed(r, listed)

\* Facilitator.Settle.  A failed settlement releases the reservation.
Settle(r) ==
  /\ pc[r] = "settle"
  /\ \/ /\ ~Executed(pay[r].nonce)
        /\ now < pay[r].until
        /\ settled' = settled \cup
             {[resource |-> pay[r].resource, mandate |-> pay[r].mandate,
               amount |-> pay[r].amount, nonce |-> pay[r].nonce,
               entitled |-> decided[r]]}
        /\ Goto(r, "commit")
        /\ UNCHANGED reserved
     \/ /\ reserved' = release(pay[r])
        /\ Goto(r, "idle")
        /\ UNCHANGED settled
  /\ UNCHANGED <<now, pay, nonces, sends, delegatorVars, price, reprices, spends, revokeVars,
                 history, receipts, doubled, decided>>

\* issueReceipt: what was settled, and the clock.
issueReceipt(p) ==
  [resource |-> p.resource, mandate |-> p.mandate, amount |-> p.amount, nonce |-> p.nonce,
   issuedAt |-> now]

\* Settled(true) turns the reservation into a spend, if it is still there; the
\* response carries the receipt.
Commit(r) ==
  /\ pc[r] = "commit"
  /\ spends' = [spends EXCEPT ![pay[r].mandate] =
                  @ \cup {x \in reserved[pay[r].mandate] : x.nonce = pay[r].nonce}]
  /\ reserved' = release(pay[r])
  /\ receipts' = receipts \cup {issueReceipt(pay[r])}
  /\ Goto(r, "idle")
  /\ UNCHANGED <<now, pay, nonces, sends, delegatorVars, price, reprices, revokeVars, history,
                 settled, doubled, decided>>

\* The seller restarts the gateway with another price once its requests are
\* done: accounts and revocations come from the journal, the history is lost.
Reprice(u, v) ==
  /\ reprices < MaxReprices
  /\ v # price[u]
  /\ \A r \in Runs : pc[r] \in {"idle", "sent"}
  /\ reprices' = reprices + 1
  /\ price' = [price EXCEPT ![u] = v]
  /\ history' = NoHistory
  /\ reserved' = [m \in Mandates |-> {}]
  /\ revoked' = {m \in Mandates : \E e \in journaled : e.mandate = m /\ e.signer = "delegator"}
  /\ UNCHANGED <<now, agentVars, delegatorVars, spends, journaled, receipts, settled,
                 withdrawn, doubled, decided>>

Tick ==
  /\ now < MaxTime
  /\ now' = now + 1
  /\ UNCHANGED <<agentVars, delegatorVars, price, reprices, accountVars, revokeVars, history,
                 receipts, settled, doubled, decided>>
----------------------------------------------------------------------------
(* The audit of a receipt against a mandate file.                          *)

\* Mutant: a revocation in the second of the receipt counts as earlier.
auditRevocation_SameSecond(rc) ==
  \A e \in journaled : e.mandate = rc.mandate => e.at > rc.issuedAt

\* No revocation was journaled before the receipt was issued, whoever signed it.
auditRevocation(rc) ==
  \A e \in journaled : e.mandate = rc.mandate => e.at >= rc.issuedAt

\* Mutant: the cap is not part of the scope.
WithinScope_NoCap(m, rc) == rc.resource \in Terms[m].resources

\* Mandate.WithinScope: resources and the per-payment cap.
WithinScope(m, rc) ==
  /\ rc.resource \in Terms[m].resources
  /\ Terms[m].cap > 0 => rc.amount <= Terms[m].cap

\* auditMandate: the file is the mandate the receipt names, for this payer.
auditMandate(m, rc) ==
  /\ expires[m] > 0
  /\ m = rc.mandate
  /\ Terms[m].agent
  /\ auditRevocation(rc)
  /\ WithinScope(m, rc)

\* auditOnChain: the settlement transferred the amount.
auditOnChain(rc) == \E s \in settled : s.nonce = rc.nonce /\ s.amount = rc.amount

AuditPasses(m, rc) == auditMandate(m, rc) /\ auditOnChain(rc)
----------------------------------------------------------------------------
Next ==
  \/ \E r \in Runs : Get(r) \/ Retry(r) \/ Verify(r) \/ Decide(r) \/ Settle(r) \/ Commit(r)
  \/ \E m \in Mandates : SignMandate(m) \/ \E s \in Signers : Revoke(m, s)
  \/ \E a \in asks, s \in Signers : Confirm(a, s)
  \/ \E u \in Resources, v \in Prices : Reprice(u, v)
  \/ Tick

Spec == Init /\ [][Next]_vars
----------------------------------------------------------------------------
(* Properties.                                                             *)

\* The delegator signed a confirmation of exactly this settlement.
Approved(s) ==
  \E c \in confs :
    /\ c.signer = "delegator"
    /\ c.ask = [mandate |-> s.mandate, nonce |-> s.nonce, amount |-> s.amount,
                resource |-> s.resource]

Unapproved(m) == {s \in settled : s.mandate = m /\ ~Approved(s)}

\* What is settled without the delegator's word on that very payment stays
\* within the mandate's cap and budget (policy_mandate.go:148-173), whatever
\* confirmations of other payments, amounts or resources were attached, and
\* although prices change between the ask and the resend.  It needs one request
\* per nonce in flight: a second one that fails releases the first one's
\* reservation (policy_mandate.go:430-436).
UnapprovedWithinMandate ==
  ~doubled =>
    \A m \in Mandates :
      /\ Terms[m].cap > 0 => \A s \in Unapproved(m) : s.amount <= Terms[m].cap
      /\ Terms[m].budget > 0 => AmountOf(Unapproved(m)) <= Terms[m].budget

\* A confirmation clears the ask it answers: while it is valid, the mandate
\* stands and the price is still the one asked about, the payment the agent
\* builds with it (agent.go:414-440) is approved.  Ask, confirmation, payload
\* and check are written in four places (gateway.go:857-868, cmd/delegator
\* main.go:161-225, agent.go:356-409, policy_mandate.go:209-243).
ConfirmationClears ==
  \A c \in confs :
    LET p == buildPayment(c.ask.resource, c.ask.mandate, {c}) IN
      (/\ c.signer = "delegator" /\ now < c.until
       /\ price[c.ask.resource] = c.ask.amount
       /\ Authorized(p)
       /\ match(AcceptTable, p.amount, history.asks) = "approve")
      => ChainDecision(p, Registries) = "approve"

\* Another key's revocation has the journal entry of this mandate, so that its
\* delegator's is lost in a restart (gateway.go:485-500, 989-998).
Overtaken(m) == \E e \in journaled : e.mandate = m /\ e.signer # "delegator"

\* No settlement, confirmed or not, was approved for a lapsed or revoked
\* mandate, another agent, a resource outside it or an unlisted payer: a
\* confirmation waives limits only (policy_mandate.go:142-145).  Restarts keep
\* the revocations, but for a mandate that is overtaken.
ConfirmedIsEntitled == \A s \in settled : s.entitled \/ Overtaken(s.mandate)

\* Every receipt of a payment within the cap passes the audit from the moment
\* it is issued, unless a revocation of its mandate, by any key, was journaled in
\* an earlier second; that the payment was approved before the revocation does
\* not save it (cmd/audit main.go:127-146).  A confirmed payment over the cap
\* never passes.
AuditComplete ==
  \A rc \in receipts :
    (/\ Terms[rc.mandate].cap > 0 => rc.amount <= Terms[rc.mandate].cap
     /\ \A e \in journaled : e.mandate = rc.mandate => e.at >= rc.issuedAt)
    => AuditPasses(rc.mandate, rc)

\* A receipt that passes the audit with some mandate file (cmd/audit
\* main.go:99-125) is of a settlement under that mandate, of its amount and
\* resource, within its cap, entitled when the gateway approved it unless the
\* mandate is overtaken.
AuditSound ==
  \A rc \in receipts, m \in Mandates :
    AuditPasses(m, rc) =>
      \E s \in settled :
        /\ s.nonce = rc.nonce /\ s.amount = rc.amount
        /\ s.mandate = m /\ s.resource = rc.resource
        /\ Terms[m].cap > 0 => s.amount <= Terms[m].cap
        /\ s.entitled \/ Overtaken(m)
=============================================================================
