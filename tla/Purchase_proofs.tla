-------------------------- MODULE Purchase_proofs --------------------------
(***************************************************************************)
(* Theorems about module Purchase, for every value of its constants.       *)
(***************************************************************************)
EXTENDS Purchase, Sums_proofs

\* What a run sent last carries confirmations that were signed.
PayInv == \A r \in Runs : pay[r].conf \subseteq confs

\* The gateway knows of every mandate its delegator revoked, over restarts too,
\* unless another key's entry took its place in the journal.
RevokeInv ==
  /\ revoked \subseteq withdrawn
  /\ \A e \in journaled : e.signer = "delegator" => e.mandate \in withdrawn
  /\ \A m \in withdrawn :
       /\ \E e \in journaled : e.mandate = m
       /\ m \in revoked \/ Overtaken(m)

\* The parts of Entitled that stay true: the mandate is signed, and covers the
\* wallet and the resource.
Covered(p) ==
  /\ Terms[p.mandate].agent
  /\ p.resource \in Terms[p.mandate].resources
  /\ expires[p.mandate] > 0

\* s is the settlement of payment p.
Settles(s, p) ==
  /\ s.nonce = p.nonce /\ s.amount = p.amount
  /\ s.mandate = p.mandate /\ s.resource = p.resource

\* A payment that is being settled was entitled when it was approved, or its
\* mandate is overtaken, and every receipt is of a settlement.
EntitledInv ==
  /\ \A r \in Runs : pc[r] = "settle" => decided[r] \/ Overtaken(pay[r].mandate)
  /\ \A r \in Runs : pc[r] \in {"settle", "commit"} => Covered(pay[r])
  /\ \A s \in settled : s.entitled \/ Overtaken(s.mandate)
  /\ \A r \in Runs : pc[r] = "commit" => \E s \in settled : Settles(s, pay[r])
  /\ \A rc \in receipts : Covered(rc) /\ \E s \in settled : Settles(s, rc)

\* How the account lists a payment.
Entry(p) == [nonce |-> p.nonce, amount |-> p.amount]

\* The runs whose approved payment under m is not settled yet, without the
\* delegator's word on it.
Pending(m) == {r \in Runs : pc[r] = "settle" /\ pay[r].mandate = m /\ ~Approved(pay[r])}

\* What the gateway let through under m without the delegator's word.
Through(m) == {Entry(s) : s \in Unapproved(m)} \cup {Entry(pay[r]) : r \in Pending(m)}

\* One request per nonce, and a settlement per nonce.
NonceInv ==
  /\ \A s, t \in settled : s.nonce = t.nonce => s = t
  /\ ~doubled =>
       /\ \A q, r \in Runs : pc[q] # "idle" /\ pc[r] # "idle" /\ pay[q].nonce = pay[r].nonce => q = r
       /\ \A r \in Runs : pc[r] \in {"decide", "settle"} => ~Executed(pay[r].nonce)

\* The account holds every settlement and every payment about to be settled.
AccountInv ==
  ~doubled =>
    /\ \A r \in Runs : pc[r] = "settle" => Entry(pay[r]) \in reserved[pay[r].mandate]
    /\ \A s \in settled :
         \/ Entry(s) \in spends[s.mandate]
         \/ /\ Entry(s) \in reserved[s.mandate]
            /\ \E r \in Runs : pc[r] = "commit" /\ Settles(s, pay[r])

\* What was let through is within the cap.
CapInv ==
  \A m \in Mandates : Terms[m].cap > 0 =>
    /\ \A s \in Unapproved(m) : s.amount <= Terms[m].cap
    /\ \A r \in Pending(m) : pay[r].amount <= Terms[m].cap

\* What was let through is within the budget.
BudgetInv ==
  ~doubled => \A m \in Mandates : Terms[m].budget > 0 => AmountOf(Through(m)) <= Terms[m].budget

\* The sets whose amounts are added up are finite.
FiniteInv ==
  /\ IsFiniteSet(settled)
  /\ \A m \in Mandates : IsFiniteSet(spends[m]) /\ IsFiniteSet(reserved[m])

\* What one step of Next may be: used to split every invariance proof.
LEMMA NextCases ==
  ASSUME [Next]_vars
  PROVE  \/ \E r \in Runs : Get(r)
         \/ \E r \in Runs : Retry(r)
         \/ \E r \in Runs : Verify(r)
         \/ \E r \in Runs, listed \in SUBSET Registries : DecideListed(r, listed)
         \/ \E r \in Runs : Settle(r)
         \/ \E r \in Runs : Commit(r)
         \/ \E m \in Mandates : SignMandate(m)
         \/ \E m \in Mandates, s \in Signers : Revoke(m, s)
         \/ \E a \in asks, s \in Signers : Confirm(a, s)
         \/ \E u \in Resources, v \in Prices : Reprice(u, v)
         \/ Tick
         \/ UNCHANGED vars
  BY DEF Next, Decide

\* The nonce of a payment that carries a confirmation is the confirmed one.
LEMMA BoundNonce ==
  /\ boundNonce({}) = nonces + 1
  /\ \A c : boundNonce({c}) = c.ask.nonce
<1>1. boundNonce({}) = nonces + 1
  BY DEF boundNonce
<1>2. ASSUME NEW c PROVE boundNonce({c}) = c.ask.nonce
  <2>1. {c} # {} /\ (CHOOSE d \in {c} : TRUE) = c
    BY Zenon
  <2> QED
    BY <2>1 DEF boundNonce
<1> QED
  BY <1>1, <1>2

\* The parameters, one by one.
LEMMA Parameters ==
  /\ PayFor \in Nat \ {0} /\ ConfirmFor \in Nat \ {0} /\ MandateFor \in Nat \ {0}
  /\ MaxTime \in Nat \ {0} /\ MaxNonces \in Nat /\ MaxSends \in Nat /\ MaxReprices \in Nat
  /\ Prices \subseteq Nat \ {0} /\ InitPrice \in [Resources -> Prices]
  /\ Terms \in [Mandates -> TermSet]
  BY PurchaseAssumption

\* What the gateway counts is a history.
LEMMA CountedType ==
  ASSUME history \in [asks: Nat, confirmations: Nat, failures: Nat], NEW p, NEW listed
  PROVE  Counted(p, listed) \in [asks: Nat, confirmations: Nat, failures: Nat]
  BY DEF Counted

\* The typing invariant as it is inductive.
TypedInv == TypeOK /\ PayInv

\* Every reachable state is well typed.
LEMMA PurchaseTyped == Spec => []TypedInv
<1>1. Init => TypedInv
  <2> SUFFICES ASSUME Init PROVE TypedInv
    OBVIOUS
  <2>1. NoHistory \in [asks: Nat, confirmations: Nat, failures: Nat]
    BY DEF NoHistory
  <2>2. PayInv
    BY DEF Init, PayInv, NoPayload
  <2>3. TypeOK
    <3>1. now \in 1..MaxTime /\ nonces \in 0..MaxNonces /\ sends \in 0..MaxSends
          /\ reprices \in 0..MaxReprices
      BY Parameters DEF Init
    <3> QED
      BY <2>1, <3>1, Parameters DEF Init, TypeOK, PCs
  <2> QED
    BY <2>2, <2>3 DEF TypedInv
<1>2. TypedInv /\ [Next]_vars => TypedInv'
  <2> SUFFICES ASSUME TypedInv, [Next]_vars PROVE TypedInv'
    OBVIOUS
  <2> USE Parameters DEF agentVars, delegatorVars, accountVars, revokeVars
  <2> USE DEF TypedInv, PCs, Spend
  <2>1. ASSUME NEW r \in Runs, Get(r) PROVE TypedInv'
    <3>1. PICK u \in Resources, conf \in {{}} \cup {{c} : c \in confs}, m \in Mandates :
             /\ buildPayment(u, m, conf).nonce <= MaxNonces
             /\ nonces' = IF buildPayment(u, m, conf).nonce > nonces
                          THEN buildPayment(u, m, conf).nonce ELSE nonces
             /\ Send(r, buildPayment(u, m, conf))
      BY <2>1 DEF Get
    <3> DEFINE p == buildPayment(u, m, conf)
    <3>2. conf \subseteq confs /\ conf \in SUBSET Confirmation
      BY DEF TypeOK
    <3>3. boundNonce(conf) \in Nat \ {0} /\ p.nonce = boundNonce(conf)
      <4>1. \A c \in confs : c.ask.nonce \in Nat \ {0}
        BY DEF TypeOK, Confirmation, Ask, NonceSet
      <4>2. nonces + 1 \in Nat \ {0}
        BY DEF TypeOK
      <4> QED
        BY <4>1, <4>2, BoundNonce DEF buildPayment
    <3>4. p \in Payload /\ p.conf \subseteq confs
      BY <3>1, <3>2, <3>3 DEF buildPayment, Payload, NonceSet, TypeOK
    <3>5. nonces' \in 0..MaxNonces
      BY <3>1, <3>3 DEF TypeOK
    <3> HIDE DEF p
    <3>6. Send(r, p) /\ UNCHANGED confs
      BY <2>1, <3>1 DEF Get, p
    <3>7. PayInv'
      BY <3>4, <3>6 DEF Send, PayInv, TypeOK
    <3>8. TypeOK'
      <4>1. sends' \in 0..MaxSends /\ doubled' \in BOOLEAN
        BY <3>6 DEF Send, Twin, TypeOK
      <4>2. /\ pc' \in [Runs -> PCs] /\ pay' \in [Runs -> Payload \cup {NoPayload}]
            /\ \A q \in Runs : pc'[q] # "idle" => pay'[q] \in Payload
        BY <3>4, <3>6 DEF Send, TypeOK, PayInv
      <4> QED
        BY <2>1, <3>5, <4>1, <4>2 DEF Get, TypeOK
    <3> QED
      BY <3>7, <3>8
  <2>2. ASSUME NEW r \in Runs, Retry(r) PROVE TypedInv'
    BY <2>2 DEF Retry, Send, TypeOK, PayInv
  <2>3. ASSUME NEW r \in Runs, Verify(r) PROVE TypedInv'
    BY <2>3 DEF Verify, Goto, TypeOK, PayInv
  <2>4. ASSUME NEW r \in Runs, NEW listed \in SUBSET Registries, DecideListed(r, listed)
        PROVE  TypedInv'
    <3>1. pay[r] \in Payload
      BY <2>4 DEF DecideListed, TypeOK
    <3>2. Counted(pay[r], listed) \in [asks: Nat, confirmations: Nat, failures: Nat]
      BY CountedType DEF TypeOK
    <3>3. reserve(pay[r]) \in [Mandates -> SUBSET Spend]
      BY <3>1 DEF reserve, Payload, TypeOK
    <3>4. askFromContext(pay[r]) \in Ask
      BY <3>1 DEF askFromContext, Ask, Payload
    <3>5. (Authorized(pay[r]) /\ listed = Registries) \in BOOLEAN
      BY DEF Authorized
    <3>6. PayInv'
      BY <2>4 DEF DecideListed, PayInv
    <3>7. TypeOK'
      BY <2>4, <3>2, <3>3, <3>4, <3>5 DEF DecideListed, Goto, TypeOK
    <3> QED
      BY <3>6, <3>7
  <2>5. ASSUME NEW r \in Runs, Settle(r) PROVE TypedInv'
    <3>1. pay[r] \in Payload
      BY <2>5 DEF Settle, TypeOK
    <3>2. release(pay[r]) \in [Mandates -> SUBSET Spend]
      BY <3>1 DEF release, Payload, TypeOK
    <3>3. [resource |-> pay[r].resource, mandate |-> pay[r].mandate, amount |-> pay[r].amount,
           nonce |-> pay[r].nonce, entitled |-> decided[r]] \in Settlement
      BY <3>1 DEF Settlement, Payload, TypeOK
    <3> QED
      BY <2>5, <3>2, <3>3 DEF Settle, Goto, TypeOK, PayInv
  <2>6. ASSUME NEW r \in Runs, Commit(r) PROVE TypedInv'
    <3>1. pay[r] \in Payload
      BY <2>6 DEF Commit, TypeOK
    <3>2. release(pay[r]) \in [Mandates -> SUBSET Spend]
      BY <3>1 DEF release, Payload, TypeOK
    <3>3. issueReceipt(pay[r]) \in Receipt
      BY <3>1 DEF issueReceipt, Receipt, Payload, TypeOK
    <3>4. spends' \in [Mandates -> SUBSET Spend]
      BY <2>6, <3>1 DEF Commit, Payload, TypeOK
    <3> QED
      BY <2>6, <3>2, <3>3, <3>4 DEF Commit, Goto, TypeOK, PayInv
  <2>7. ASSUME NEW m \in Mandates, SignMandate(m) PROVE TypedInv'
    BY <2>7 DEF SignMandate, TypeOK, PayInv
  <2>8. ASSUME NEW m \in Mandates, NEW s \in Signers, Revoke(m, s) PROVE TypedInv'
    BY <2>8 DEF Revoke, TypeOK, PayInv
  <2>9. ASSUME NEW a \in asks, NEW s \in Signers, Confirm(a, s) PROVE TypedInv'
    <3>1. [ask |-> a, signer |-> s, until |-> now + ConfirmFor] \in Confirmation
      BY DEF Confirmation, TypeOK
    <3> QED
      BY <2>9, <3>1 DEF Confirm, TypeOK, PayInv
  <2>10. ASSUME NEW u \in Resources, NEW v \in Prices, Reprice(u, v) PROVE TypedInv'
    <3>1. NoHistory \in [asks: Nat, confirmations: Nat, failures: Nat]
      BY DEF NoHistory
    <3>2. revoked' \subseteq Mandates
      BY <2>10 DEF Reprice, TypeOK
    <3> QED
      BY <2>10, <3>1, <3>2 DEF Reprice, TypeOK, PayInv
  <2>11. ASSUME Tick PROVE TypedInv'
    BY <2>11 DEF Tick, TypeOK, PayInv
  <2>12. ASSUME UNCHANGED vars PROVE TypedInv'
    BY <2>12 DEF vars, TypeOK, PayInv
  <2> QED
    BY <2>1, <2>2, <2>3, <2>4, <2>5, <2>6, <2>7, <2>8, <2>9, <2>10, <2>11, <2>12, NextCases
<1> QED
  BY <1>1, <1>2, PTL DEF Spec

\* Every reachable state is well typed.
THEOREM PurchaseTypeOK == Spec => []TypeOK
  BY PurchaseTyped, PTL DEF TypedInv

\* The revocations the policy reads are the delegator's, over restarts too.
LEMMA PurchaseRevokeInv == Spec => []RevokeInv
<1>1. Init => RevokeInv
  BY DEF Init, RevokeInv
<1>2. TypeOK /\ RevokeInv /\ [Next]_vars => RevokeInv'
  <2> SUFFICES ASSUME TypeOK, RevokeInv, [Next]_vars PROVE RevokeInv'
    OBVIOUS
  <2> USE PurchaseAssumption DEF agentVars, delegatorVars, accountVars, revokeVars
  <2>1. ASSUME NEW r \in Runs, Get(r) PROVE RevokeInv'
    BY <2>1 DEF Get, Send, RevokeInv, Overtaken
  <2>2. ASSUME NEW r \in Runs, Retry(r) PROVE RevokeInv'
    BY <2>2 DEF Retry, Send, RevokeInv, Overtaken
  <2>3. ASSUME NEW r \in Runs, Verify(r) PROVE RevokeInv'
    BY <2>3 DEF Verify, Goto, RevokeInv, Overtaken
  <2>4. ASSUME NEW r \in Runs, NEW listed \in SUBSET Registries, DecideListed(r, listed)
        PROVE  RevokeInv'
    BY <2>4 DEF DecideListed, Goto, RevokeInv, Overtaken
  <2>5. ASSUME NEW r \in Runs, Settle(r) PROVE RevokeInv'
    BY <2>5 DEF Settle, Goto, RevokeInv, Overtaken
  <2>6. ASSUME NEW r \in Runs, Commit(r) PROVE RevokeInv'
    BY <2>6 DEF Commit, Goto, RevokeInv, Overtaken
  <2>7. ASSUME NEW m \in Mandates, SignMandate(m) PROVE RevokeInv'
    BY <2>7 DEF SignMandate, RevokeInv, Overtaken
  <2>8. ASSUME NEW m \in Mandates, NEW s \in Signers, Revoke(m, s) PROVE RevokeInv'
    <3>1. /\ journaled \subseteq journaled'
          /\ \E e \in journaled' : e.mandate = m
          /\ \A e \in journaled' \ journaled : e.mandate = m /\ e.signer = s
      <4> DEFINE x == [mandate |-> m, signer |-> s, at |-> now]
      <4>1. x.mandate = m /\ x.signer = s
        OBVIOUS
      <4>2. \/ (\E e \in journaled : e.mandate = m) /\ UNCHANGED journaled
            \/ journaled' = journaled \cup {x}
        BY <2>8 DEF Revoke
      <4> HIDE DEF x
      <4> QED
        BY <4>1, <4>2
    <3>2. \/ s = "delegator" /\ revoked' = revoked \cup {m} /\ withdrawn' = withdrawn \cup {m}
          \/ s # "delegator" /\ UNCHANGED <<revoked, withdrawn>>
      BY <2>8 DEF Revoke
    <3> QED
      BY <3>1, <3>2 DEF RevokeInv, Overtaken
  <2>9. ASSUME NEW a \in asks, NEW s \in Signers, Confirm(a, s) PROVE RevokeInv'
    BY <2>9 DEF Confirm, RevokeInv, Overtaken
  <2>10. ASSUME NEW u \in Resources, NEW v \in Prices, Reprice(u, v) PROVE RevokeInv'
    <3>1. /\ UNCHANGED <<journaled, withdrawn>>
          /\ revoked' = {m \in Mandates :
                           \E e \in journaled : e.mandate = m /\ e.signer = "delegator"}
      BY <2>10 DEF Reprice
    <3>2. withdrawn \subseteq Mandates
      BY DEF TypeOK
    <3> QED
      BY <3>1, <3>2 DEF RevokeInv, Overtaken
  <2>11. ASSUME Tick PROVE RevokeInv'
    BY <2>11 DEF Tick, RevokeInv, Overtaken
  <2>12. ASSUME UNCHANGED vars PROVE RevokeInv'
    BY <2>12 DEF vars, RevokeInv, Overtaken
  <2> QED
    BY <2>1, <2>2, <2>3, <2>4, <2>5, <2>6, <2>7, <2>8, <2>9, <2>10, <2>11, <2>12, NextCases
<1> QED
  BY <1>1, <1>2, PurchaseTypeOK, PTL DEF Spec

\* A payment the chain approves is entitled, on every party's view, unless its
\* mandate is overtaken.
LEMMA ApprovedIsEntitled ==
  ASSUME RevokeInv, NEW p, NEW listed, ChainDecision(p, listed) = "approve"
  PROVE  Entitled(p) /\ listed = Registries /\ (Authorized(p) \/ Overtaken(p.mandate))
<1>1. listed = Registries /\ MandateDecision(p) = "approve"
  BY DEF ChainDecision
<1>2. Entitled(p)
  BY <1>1 DEF MandateDecision
<1> QED
  BY <1>1, <1>2 DEF Entitled, Authorized, RevokeInv

\* What is settled was entitled, and what has a receipt was settled.
LEMMA PurchaseEntitledInv == Spec => []EntitledInv
<1>1. Init => EntitledInv
  BY DEF Init, EntitledInv
<1>2. TypeOK /\ TypeOK' /\ RevokeInv /\ EntitledInv /\ [Next]_vars => EntitledInv'
  <2> SUFFICES ASSUME TypeOK, TypeOK', RevokeInv, EntitledInv, [Next]_vars PROVE EntitledInv'
    OBVIOUS
  <2> USE PurchaseAssumption DEF agentVars, delegatorVars, accountVars, revokeVars
  <2>1. ASSUME NEW r \in Runs, Get(r) PROVE EntitledInv'
    BY <2>1 DEF Get, Send, EntitledInv, TypeOK, Covered, Settles, Overtaken
  <2>2. ASSUME NEW r \in Runs, Retry(r) PROVE EntitledInv'
    BY <2>2 DEF Retry, Send, EntitledInv, TypeOK, Covered, Settles, Overtaken
  <2>3. ASSUME NEW r \in Runs, Verify(r) PROVE EntitledInv'
    BY <2>3 DEF Verify, Goto, EntitledInv, TypeOK, Covered, Settles, Overtaken
  <2>4. ASSUME NEW r \in Runs, NEW listed \in SUBSET Registries, DecideListed(r, listed)
        PROVE  EntitledInv'
    <3>1. /\ pay[r] \in Payload /\ pc[r] = "decide" /\ pay[r].mandate \in Mandates
          /\ UNCHANGED <<now, pay, expires, settled, receipts, journaled>>
      BY <2>4 DEF DecideListed, TypeOK, Payload
    <3>2. /\ \A p : Covered(p)' <=> Covered(p)
          /\ \A m : Overtaken(m)' <=> Overtaken(m)
      BY <3>1 DEF Covered, Overtaken
    <3>3. pc' = [pc EXCEPT ![r] = IF ChainDecision(pay[r], listed) = "approve" THEN "settle" ELSE "idle"]
      BY <2>4 DEF DecideListed, Goto
    <3>4. decided' = [decided EXCEPT ![r] = Authorized(pay[r]) /\ listed = Registries]
      BY <2>4 DEF DecideListed
    <3>5. pc'[r] = "settle" => (decided'[r] \/ Overtaken(pay[r].mandate)) /\ Covered(pay[r])
      <4> SUFFICES ASSUME pc'[r] = "settle" PROVE (decided'[r] \/ Overtaken(pay[r].mandate)) /\ Covered(pay[r])
        OBVIOUS
      <4>1. ChainDecision(pay[r], listed) = "approve"
        BY <3>3 DEF TypeOK
      <4>2. /\ Entitled(pay[r]) /\ listed = Registries
            /\ Authorized(pay[r]) \/ Overtaken(pay[r].mandate)
        BY <4>1, ApprovedIsEntitled
      <4>3. decided'[r] \/ Overtaken(pay[r].mandate)
        BY <3>4, <4>2 DEF TypeOK
      <4>4. now \in Nat \ {0} /\ expires[pay[r].mandate] \in Nat
        BY <3>1 DEF TypeOK
      <4>5. Covered(pay[r])
        BY <4>2, <4>4 DEF Entitled, Covered
      <4> QED
        BY <4>3, <4>5
    <3>6. pc'[r] # "commit" /\ \A q \in Runs : q # r => pc'[q] = pc[q] /\ decided'[q] = decided[q]
      BY <3>3, <3>4 DEF TypeOK
    <3> HIDE DEF Covered, Settles, Overtaken
    <3> QED
      BY <3>1, <3>2, <3>5, <3>6 DEF EntitledInv
  <2>5. ASSUME NEW r \in Runs, Settle(r) PROVE EntitledInv'
    <3> DEFINE s == [resource |-> pay[r].resource, mandate |-> pay[r].mandate,
                     amount |-> pay[r].amount, nonce |-> pay[r].nonce, entitled |-> decided[r]]
    <3>1. pc[r] = "settle" /\ UNCHANGED <<pay, expires, receipts, decided, journaled>>
      BY <2>5 DEF Settle
    <3>2. /\ \A p : Covered(p)' <=> Covered(p)
          /\ \A m : Overtaken(m)' <=> Overtaken(m)
      BY <3>1 DEF Covered, Overtaken
    <3>3. Settles(s, pay[r]) /\ (s.entitled \/ Overtaken(s.mandate))
      BY <3>1 DEF Settles, EntitledInv
    <3>4. \/ settled' = settled \cup {s} /\ pc' = [pc EXCEPT ![r] = "commit"]
          \/ settled' = settled /\ pc' = [pc EXCEPT ![r] = "idle"]
      BY <2>5 DEF Settle, Goto
    <3> HIDE DEF s
    <3> QED
      BY <3>1, <3>2, <3>3, <3>4 DEF EntitledInv, TypeOK
  <2>6. ASSUME NEW r \in Runs, Commit(r) PROVE EntitledInv'
    <3> DEFINE rc == issueReceipt(pay[r])
    <3>1. pc[r] = "commit" /\ UNCHANGED <<pay, expires, settled, decided, journaled>>
      BY <2>6 DEF Commit
    <3>2. /\ \A p : Covered(p)' <=> Covered(p)
          /\ \A m : Overtaken(m)' <=> Overtaken(m)
      BY <3>1 DEF Covered, Overtaken
    <3>3. Covered(rc) /\ \E s \in settled : Settles(s, rc)
      BY <3>1 DEF EntitledInv, Covered, Settles, issueReceipt
    <3>4. receipts' = receipts \cup {rc} /\ pc' = [pc EXCEPT ![r] = "idle"]
      BY <2>6 DEF Commit, Goto
    <3> HIDE DEF rc
    <3> QED
      BY <3>1, <3>2, <3>3, <3>4 DEF EntitledInv, TypeOK
  <2>7. ASSUME NEW m \in Mandates, SignMandate(m) PROVE EntitledInv'
    BY <2>7 DEF SignMandate, EntitledInv, TypeOK, Covered, Settles, Overtaken
  <2>8. ASSUME NEW m \in Mandates, NEW s \in Signers, Revoke(m, s) PROVE EntitledInv'
    BY <2>8 DEF Revoke, EntitledInv, TypeOK, Covered, Settles, Overtaken
  <2>9. ASSUME NEW a \in asks, NEW s \in Signers, Confirm(a, s) PROVE EntitledInv'
    BY <2>9 DEF Confirm, EntitledInv, TypeOK, Covered, Settles, Overtaken
  <2>10. ASSUME NEW u \in Resources, NEW v \in Prices, Reprice(u, v) PROVE EntitledInv'
    BY <2>10 DEF Reprice, EntitledInv, TypeOK, Covered, Settles, Overtaken
  <2>11. ASSUME Tick PROVE EntitledInv'
    BY <2>11 DEF Tick, EntitledInv, TypeOK, Covered, Settles, Overtaken
  <2>12. ASSUME UNCHANGED vars PROVE EntitledInv'
    BY <2>12 DEF vars, EntitledInv, TypeOK, Covered, Settles, Overtaken
  <2> QED
    BY <2>1, <2>2, <2>3, <2>4, <2>5, <2>6, <2>7, <2>8, <2>9, <2>10, <2>11, <2>12, NextCases
<1> QED
  BY <1>1, <1>2, PurchaseTypeOK, PurchaseRevokeInv, PTL DEF Spec

\* ConfirmedIsEntitled: a confirmation waives limits only; whatever is settled
\* was approved for a standing mandate, its agent and its resource, and a
\* listed payer (policy_mandate.go:142-145), unless the mandate is overtaken.
THEOREM PurchaseConfirmedIsEntitled == Spec => []ConfirmedIsEntitled
  BY PurchaseEntitledInv, PTL DEF EntitledInv, ConfirmedIsEntitled

\* ConfirmationClears: the payment an agent builds with a valid confirmation
\* of the current price is approved (agent.go:356-440, policy_mandate.go:209-243).
THEOREM PurchaseConfirmationClears == Spec => []ConfirmationClears
<1>1. TypeOK /\ RevokeInv => ConfirmationClears
  <2> SUFFICES ASSUME TypeOK, RevokeInv, NEW c \in confs
               PROVE  LET p == buildPayment(c.ask.resource, c.ask.mandate, {c}) IN
                        (/\ c.signer = "delegator" /\ now < c.until
                         /\ price[c.ask.resource] = c.ask.amount
                         /\ Authorized(p)
                         /\ match(AcceptTable, p.amount, history.asks) = "approve")
                        => ChainDecision(p, Registries) = "approve"
    BY DEF ConfirmationClears
  <2> DEFINE p == buildPayment(c.ask.resource, c.ask.mandate, {c})
  <2> SUFFICES ASSUME c.signer = "delegator", now < c.until,
                      price[c.ask.resource] = c.ask.amount, Authorized(p),
                      match(AcceptTable, p.amount, history.asks) = "approve"
               PROVE  ChainDecision(p, Registries) = "approve"
    OBVIOUS
  <2>1. /\ p.resource = c.ask.resource /\ p.mandate = c.ask.mandate /\ p.amount = c.ask.amount
        /\ p.nonce = c.ask.nonce /\ p.conf = {c}
    BY BoundNonce DEF buildPayment
  <2>2. c.ask \in Ask
    BY DEF TypeOK, Confirmation
  <2> HIDE DEF p
  <2>3. c.ask = [mandate |-> p.mandate, nonce |-> p.nonce, amount |-> p.amount,
                 resource |-> p.resource]
    BY <2>1, <2>2 DEF Ask
  <2>4. confirmationApproves(p)
    BY <2>1, <2>3 DEF confirmationApproves
  <2>5. Entitled(p)
    BY DEF Authorized, Entitled, RevokeInv
  <2>6. MandateDecision(p) = "approve"
    BY <2>4, <2>5 DEF MandateDecision
  <2> QED
    BY <2>6 DEF ChainDecision
<1> QED
  BY <1>1, PurchaseTypeOK, PurchaseRevokeInv, PTL

\* AuditComplete: a receipt within the cap passes the audit unless some key's
\* revocation of its mandate is of an earlier second (cmd/audit main.go:127-146).
THEOREM PurchaseAuditComplete == Spec => []AuditComplete
<1>1. EntitledInv => AuditComplete
  BY DEF EntitledInv, Covered, Settles, AuditComplete, AuditPasses, auditMandate,
     auditRevocation, WithinScope, auditOnChain
<1> QED
  BY <1>1, PurchaseEntitledInv, PTL

\* AuditSound: a receipt that passes is of a settlement under that mandate, of its
\* amount and resource, within its cap, and entitled unless the mandate is
\* overtaken (cmd/audit main.go:99-125).
THEOREM PurchaseAuditSound == Spec => []AuditSound
<1>1. EntitledInv => AuditSound
  BY DEF EntitledInv, Settles, AuditSound, AuditPasses, auditMandate, WithinScope
<1> QED
  BY <1>1, PurchaseEntitledInv, PTL

\* An amount, as the sum of one function over a larger set.
LEMMA AmountWithin ==
  ASSUME NEW T, NEW S \in SUBSET T, IsFiniteSet(T), \A x \in T : x.amount \in Nat
  PROVE  AmountOf(S) = Sum([x \in T |-> x.amount], S) /\ IsFiniteSet(S)
<1>1. IsFiniteSet(S)
  BY FS_Subset
<1> DEFINE f == [x \in S |-> x.amount]
           g == [x \in T |-> x.amount]
<1>2. \A x \in S : f[x] \in Int /\ f[x] = g[x]
  OBVIOUS
<1> HIDE DEF f, g
<1>3. Sum(f, S) = Sum(g, S)
  BY <1>1, <1>2, SumCongruence
<1> QED
  BY <1>1, <1>3 DEF AmountOf, f, g

\* A part of the payments amounts to no more than all of them.
LEMMA AmountOrder ==
  ASSUME NEW T, NEW S \in SUBSET T, IsFiniteSet(T), \A x \in T : x.amount \in Nat
  PROVE  AmountOf(S) \in Nat /\ AmountOf(T) \in Nat /\ AmountOf(S) <= AmountOf(T)
<1> DEFINE g == [x \in T |-> x.amount]
<1>1. AmountOf(S) = Sum(g, S) /\ AmountOf(T) = Sum(g, T) /\ IsFiniteSet(S)
  BY AmountWithin
<1>2. \A x \in T : g[x] \in Nat
  OBVIOUS
<1> HIDE DEF g
<1>3. Sum(g, S) \in Nat /\ Sum(g, T) \in Nat /\ Sum(g, S) <= Sum(g, T)
  BY <1>1, <1>2, SumNat, SumSubset
<1> QED
  BY <1>1, <1>3

\* Two sets of payments together amount to no more than the two amounts.
LEMMA AmountUnion ==
  ASSUME NEW S, NEW T, IsFiniteSet(S), IsFiniteSet(T), \A x \in S \cup T : x.amount \in Nat
  PROVE  AmountOf(S \cup T) <= AmountOf(S) + AmountOf(T)
<1> DEFINE g == [x \in S \cup T |-> x.amount]
<1>1. IsFiniteSet(S \cup T)
  BY FS_Union
<1>2. /\ AmountOf(S) = Sum(g, S) /\ AmountOf(T) = Sum(g, T)
      /\ AmountOf(S \cup T) = Sum(g, S \cup T)
  BY <1>1, AmountWithin
<1>3. \A x \in S \cup T : g[x] \in Nat
  OBVIOUS
<1> HIDE DEF g
<1>4. Sum(g, S \cup T) <= Sum(g, S) + Sum(g, T)
  BY <1>3, SumUnionBound
<1> QED
  BY <1>2, <1>4

\* One more payment adds at most its amount.
LEMMA AmountAdd ==
  ASSUME NEW S, IsFiniteSet(S), NEW y, \A x \in S \cup {y} : x.amount \in Nat
  PROVE  AmountOf(S \cup {y}) <= AmountOf(S) + y.amount
<1> DEFINE g == [x \in S \cup {y} |-> x.amount]
<1>1. IsFiniteSet(S \cup {y})
  BY FS_AddElement
<1>2. AmountOf(S) = Sum(g, S) /\ AmountOf(S \cup {y}) = Sum(g, S \cup {y})
  BY <1>1, AmountWithin
<1>3. g[y] = y.amount /\ \A x \in S \cup {y} : g[x] \in Nat
  OBVIOUS
<1> HIDE DEF g
<1>4. Sum(g, S \cup {y}) <= Sum(g, S) + g[y]
  BY <1>3, SumAddBound
<1> QED
  BY <1>2, <1>3, <1>4

\* Taking entries out of a finite account, or adding one, leaves it finite.
LEMMA FiniteAccount ==
  ASSUME TypeOK, FiniteInv, NEW p, p.mandate \in Mandates
  PROVE  \A m \in Mandates : IsFiniteSet(reserve(p)[m]) /\ IsFiniteSet(release(p)[m])
<1> TAKE m \in Mandates
<1>1. CASE m # p.mandate
  <2>1. reserve(p)[m] = reserved[m] /\ release(p)[m] = reserved[m]
    BY <1>1 DEF reserve, release, TypeOK
  <2> QED
    BY <2>1 DEF FiniteInv
<1>2. CASE m = p.mandate
  <2> DEFINE S == {x \in reserved[m] : x.nonce # p.nonce}
             y == [nonce |-> p.nonce, amount |-> p.amount]
  <2>1. reserve(p)[m] = S \cup {y} /\ release(p)[m] = S
    BY <1>2 DEF reserve, release, TypeOK
  <2> HIDE DEF y
  <2>2. IsFiniteSet(S)
    BY FS_Subset DEF FiniteInv
  <2>3. IsFiniteSet(S \cup {y})
    BY <2>2, FS_AddElement
  <2> QED
    BY <2>1, <2>2, <2>3
<1> QED
  BY <1>1, <1>2

\* The sets whose amounts are added up are finite.
LEMMA PurchaseFiniteInv == Spec => []FiniteInv
<1>1. Init => FiniteInv
  BY FS_EmptySet DEF Init, FiniteInv
<1>2. TypeOK /\ FiniteInv /\ [Next]_vars => FiniteInv'
  <2> SUFFICES ASSUME TypeOK, FiniteInv, [Next]_vars PROVE FiniteInv'
    OBVIOUS
  <2> USE PurchaseAssumption DEF agentVars, delegatorVars, accountVars, revokeVars
  <2>1. ASSUME NEW r \in Runs, Get(r) PROVE FiniteInv'
    BY <2>1 DEF Get, Send, FiniteInv, TypeOK
  <2>2. ASSUME NEW r \in Runs, Retry(r) PROVE FiniteInv'
    BY <2>2 DEF Retry, Send, FiniteInv, TypeOK
  <2>3. ASSUME NEW r \in Runs, Verify(r) PROVE FiniteInv'
    BY <2>3 DEF Verify, Goto, FiniteInv, TypeOK
  <2>4. ASSUME NEW r \in Runs, NEW listed \in SUBSET Registries, DecideListed(r, listed)
        PROVE  FiniteInv'
    <3>1. pay[r].mandate \in Mandates
      BY <2>4 DEF DecideListed, TypeOK, Payload
    <3>2. UNCHANGED <<settled, spends>> /\ (reserved' = reserved \/ reserved' = reserve(pay[r]))
      BY <2>4 DEF DecideListed
    <3> QED
      BY <3>1, <3>2, FiniteAccount DEF FiniteInv
  <2>5. ASSUME NEW r \in Runs, Settle(r) PROVE FiniteInv'
    <3>1. pay[r].mandate \in Mandates
      BY <2>5 DEF Settle, TypeOK, Payload
    <3>2. /\ settled' = settled \/ \E s : settled' = settled \cup {s}
          /\ reserved' = reserved \/ reserved' = release(pay[r])
          /\ UNCHANGED spends
      BY <2>5 DEF Settle
    <3>3. IsFiniteSet(settled')
      BY <3>2, FS_AddElement DEF FiniteInv
    <3> QED
      BY <3>1, <3>2, <3>3, FiniteAccount DEF FiniteInv
  <2>6. ASSUME NEW r \in Runs, Commit(r) PROVE FiniteInv'
    <3> DEFINE T == {x \in reserved[pay[r].mandate] : x.nonce = pay[r].nonce}
    <3>1. pay[r].mandate \in Mandates
      BY <2>6 DEF Commit, TypeOK, Payload
    <3>2. /\ UNCHANGED settled /\ reserved' = release(pay[r])
          /\ spends' = [spends EXCEPT ![pay[r].mandate] = @ \cup T]
      BY <2>6 DEF Commit
    <3>3. IsFiniteSet(T)
      BY <3>1, FS_Subset DEF FiniteInv
    <3> HIDE DEF T
    <3>4. ASSUME NEW m \in Mandates PROVE IsFiniteSet(spends'[m])
      <4>1. spends'[m] = spends[m] \/ spends'[m] = spends[m] \cup T
        BY <3>1, <3>2 DEF TypeOK
      <4>2. IsFiniteSet(spends[m]) /\ IsFiniteSet(spends[m] \cup T)
        BY <3>3, FS_Union DEF FiniteInv
      <4> QED
        BY <4>1, <4>2
    <3> QED
      BY <3>1, <3>2, <3>4, FiniteAccount DEF FiniteInv
  <2>7. ASSUME NEW m \in Mandates, SignMandate(m) PROVE FiniteInv'
    BY <2>7 DEF SignMandate, FiniteInv, TypeOK
  <2>8. ASSUME NEW m \in Mandates, NEW s \in Signers, Revoke(m, s) PROVE FiniteInv'
    BY <2>8 DEF Revoke, FiniteInv, TypeOK
  <2>9. ASSUME NEW a \in asks, NEW s \in Signers, Confirm(a, s) PROVE FiniteInv'
    BY <2>9 DEF Confirm, FiniteInv, TypeOK
  <2>10. ASSUME NEW u \in Resources, NEW v \in Prices, Reprice(u, v) PROVE FiniteInv'
    <3>1. UNCHANGED <<settled, spends>> /\ \A m \in Mandates : reserved'[m] = {}
      BY <2>10 DEF Reprice
    <3> QED
      BY <3>1, FS_EmptySet DEF FiniteInv
  <2>11. ASSUME Tick PROVE FiniteInv'
    BY <2>11 DEF Tick, FiniteInv, TypeOK
  <2>12. ASSUME UNCHANGED vars PROVE FiniteInv'
    BY <2>12 DEF vars, FiniteInv, TypeOK
  <2> QED
    BY <2>1, <2>2, <2>3, <2>4, <2>5, <2>6, <2>7, <2>8, <2>9, <2>10, <2>11, <2>12, NextCases
<1> QED
  BY <1>1, <1>2, PurchaseTypeOK, PTL DEF Spec

\* A nonce is executed once, and while requests do not share nonces, what is
\* about to be settled was not executed.
LEMMA PurchaseNonceInv == Spec => []NonceInv
<1>1. Init => NonceInv
  BY DEF Init, NonceInv
<1>2. TypeOK /\ TypeOK' /\ NonceInv /\ [Next]_vars => NonceInv'
  <2> SUFFICES ASSUME TypeOK, TypeOK', NonceInv, [Next]_vars PROVE NonceInv'
    OBVIOUS
  <2> USE PurchaseAssumption DEF agentVars, delegatorVars, accountVars, revokeVars
  <2>1. ASSUME NEW r \in Runs, Get(r) PROVE NonceInv'
    <3>1. PICK p : Send(r, p)
      BY <2>1 DEF Get
    <3>2. UNCHANGED settled
      BY <2>1 DEF Get
    <3>3. /\ pc'[r] = "sent" /\ pay'[r] = p
          /\ \A q \in Runs \ {r} : pc'[q] = pc[q] /\ pay'[q] = pay[q]
      BY <3>1 DEF Send, TypeOK
    <3>4. ~doubled' => ~doubled /\ \A q \in Runs \ {r} : pc[q] # "idle" => pay[q].nonce # p.nonce
      BY <3>1 DEF Send, Twin
    <3> QED
      BY <3>2, <3>3, <3>4 DEF NonceInv, Executed
  <2>2. ASSUME NEW r \in Runs, Retry(r) PROVE NonceInv'
    BY <2>2 DEF Retry, Send, Twin, NonceInv, TypeOK, Executed
  <2>3. ASSUME NEW r \in Runs, Verify(r) PROVE NonceInv'
    BY <2>3 DEF Verify, Goto, NonceInv, TypeOK, Executed
  <2>4. ASSUME NEW r \in Runs, NEW listed \in SUBSET Registries, DecideListed(r, listed)
        PROVE  NonceInv'
    BY <2>4 DEF DecideListed, Goto, NonceInv, TypeOK, Executed
  <2>5. ASSUME NEW r \in Runs, Settle(r) PROVE NonceInv'
    BY <2>5 DEF Settle, Goto, release, NonceInv, TypeOK, Executed
  <2>6. ASSUME NEW r \in Runs, Commit(r) PROVE NonceInv'
    BY <2>6 DEF Commit, Goto, release, NonceInv, TypeOK, Executed
  <2>7. ASSUME NEW m \in Mandates, SignMandate(m) PROVE NonceInv'
    BY <2>7 DEF SignMandate, NonceInv, TypeOK, Executed
  <2>8. ASSUME NEW m \in Mandates, NEW s \in Signers, Revoke(m, s) PROVE NonceInv'
    BY <2>8 DEF Revoke, NonceInv, TypeOK, Executed
  <2>9. ASSUME NEW a \in asks, NEW s \in Signers, Confirm(a, s) PROVE NonceInv'
    BY <2>9 DEF Confirm, NonceInv, TypeOK, Executed
  <2>10. ASSUME NEW u \in Resources, NEW v \in Prices, Reprice(u, v) PROVE NonceInv'
    BY <2>10 DEF Reprice, NonceInv, TypeOK, Executed
  <2>11. ASSUME Tick PROVE NonceInv'
    BY <2>11 DEF Tick, NonceInv, TypeOK, Executed
  <2>12. ASSUME UNCHANGED vars PROVE NonceInv'
    BY <2>12 DEF vars, NonceInv, TypeOK, Executed
  <2> QED
    BY <2>1, <2>2, <2>3, <2>4, <2>5, <2>6, <2>7, <2>8, <2>9, <2>10, <2>11, <2>12, NextCases
<1> QED
  BY <1>1, <1>2, PurchaseTypeOK, PTL DEF Spec

\* A step that leaves the account alone and neither begins nor ends a
\* settlement keeps AccountInv.
LEMMA AccountFrame ==
  ASSUME AccountInv, ~doubled' => ~doubled, UNCHANGED <<reserved, spends, settled>>,
         \A q \in Runs :
           /\ pc'[q] = "settle" => pc[q] = "settle" /\ pay'[q] = pay[q]
           /\ pc[q] = "commit" => pc'[q] = "commit" /\ pay'[q] = pay[q]
  PROVE  AccountInv'
  BY DEF AccountInv

\* A step of a run that is deciding or failing keeps what the others hold.
LEMMA AccountOthers ==
  ASSUME TypeOK, NonceInv, AccountInv, NEW r \in Runs, pc[r] \in {"decide", "settle"},
         UNCHANGED <<pay, settled, spends, doubled>>,
         \A q \in Runs \ {r} : pc'[q] = pc[q],
         pc'[r] = "settle" => Entry(pay[r]) \in reserved'[pay[r].mandate],
         \A m \in Mandates : \A x \in reserved[m] : x.nonce # pay[r].nonce => x \in reserved'[m]
  PROVE  AccountInv'
<1> SUFFICES ASSUME ~doubled PROVE AccountInv'
  BY DEF AccountInv
<1>1. ASSUME NEW q \in Runs, pc'[q] = "settle" PROVE Entry(pay[q]) \in reserved'[pay[q].mandate]
  <2>1. CASE q = r
    BY <1>1, <2>1
  <2>2. CASE q # r
    <3>1. pc[q] = "settle" /\ pay[q].nonce # pay[r].nonce
      BY <1>1, <2>2 DEF NonceInv
    <3>2. pay[q].mandate \in Mandates /\ Entry(pay[q]).nonce # pay[r].nonce
      BY <3>1 DEF TypeOK, Payload, Entry
    <3> QED
      BY <3>1, <3>2 DEF AccountInv
  <2> QED
    BY <2>1, <2>2
<1>2. ASSUME NEW s \in settled, Entry(s) \notin spends[s.mandate]
      PROVE  /\ Entry(s) \in reserved'[s.mandate]
             /\ \E q \in Runs : pc'[q] = "commit" /\ Settles(s, pay[q])
  <2>1. PICK q \in Runs : pc[q] = "commit" /\ Settles(s, pay[q])
    BY <1>2 DEF AccountInv
  <2>2. Entry(s) \in reserved[s.mandate] /\ s.mandate \in Mandates
    BY <1>2 DEF AccountInv, TypeOK, Settlement
  <2>3. Entry(s).nonce # pay[r].nonce
    BY DEF NonceInv, Executed, Entry
  <2>4. q # r
    BY <2>1
  <2> QED
    BY <2>1, <2>2, <2>3, <2>4
<1> QED
  BY <1>1, <1>2 DEF AccountInv

\* While requests do not share nonces, the account holds what was and what is
\* about to be settled.
LEMMA PurchaseAccountInv == Spec => []AccountInv
<1>1. Init => AccountInv
  BY DEF Init, AccountInv
<1>2. TypeOK /\ TypeOK' /\ NonceInv /\ NonceInv' /\ AccountInv /\ [Next]_vars => AccountInv'
  <2> SUFFICES ASSUME TypeOK, TypeOK', NonceInv, NonceInv', AccountInv, [Next]_vars
               PROVE  AccountInv'
    OBVIOUS
  <2> USE PurchaseAssumption DEF agentVars, delegatorVars, accountVars, revokeVars
  <2>1. ASSUME NEW r \in Runs, Get(r) PROVE AccountInv'
    <3>1. /\ pc[r] = "idle" /\ UNCHANGED <<reserved, spends, settled>>
          /\ \E p : Send(r, p)
      BY <2>1 DEF Get
    <3> QED
      BY <3>1, AccountFrame DEF Send, TypeOK
  <2>2. ASSUME NEW r \in Runs, Retry(r) PROVE AccountInv'
    <3>1. /\ pc[r] = "idle" /\ UNCHANGED <<reserved, spends, settled>>
          /\ Send(r, pay[r])
      BY <2>2 DEF Retry
    <3> QED
      BY <3>1, AccountFrame DEF Send, TypeOK
  <2>3. ASSUME NEW r \in Runs, Verify(r) PROVE AccountInv'
    BY <2>3, AccountFrame DEF Verify, Goto, TypeOK
  <2>4. ASSUME NEW r \in Runs, NEW listed \in SUBSET Registries, DecideListed(r, listed)
        PROVE  AccountInv'
    <3>1. /\ pc[r] = "decide" /\ UNCHANGED <<pay, settled, spends, doubled>>
          /\ \A q \in Runs \ {r} : pc'[q] = pc[q]
      BY <2>4 DEF DecideListed, Goto, TypeOK
    <3>2. pay[r].mandate \in Mandates
      BY <3>1 DEF TypeOK, Payload
    <3>3. reserved' = reserved \/ reserved' = reserve(pay[r])
      BY <2>4 DEF DecideListed
    <3>4. \A m \in Mandates : \A x \in reserved[m] : x.nonce # pay[r].nonce => x \in reserved'[m]
      BY <3>2, <3>3 DEF reserve, TypeOK
    <3>5. ASSUME pc'[r] = "settle" PROVE Entry(pay[r]) \in reserved'[pay[r].mandate]
      <4>1. listed = Registries /\ MandateDecision(pay[r]) = "approve"
        BY <2>4, <3>5 DEF DecideListed, Goto, ChainDecision, TypeOK
      <4>2. reserved' = reserve(pay[r])
        BY <2>4, <4>1 DEF DecideListed
      <4> QED
        BY <3>2, <4>2 DEF reserve, Entry, TypeOK
    <3> QED
      BY <3>1, <3>4, <3>5, AccountOthers
  <2>5. ASSUME NEW r \in Runs, Settle(r) PROVE AccountInv'
    <3>1. /\ pc[r] = "settle" /\ UNCHANGED <<pay, spends, doubled>>
          /\ \A q \in Runs \ {r} : pc'[q] = pc[q]
      BY <2>5 DEF Settle, Goto, TypeOK
    <3>2. pay[r].mandate \in Mandates
      BY <3>1 DEF TypeOK, Payload
    <3>3. CASE reserved' = release(pay[r]) /\ pc' = [pc EXCEPT ![r] = "idle"] /\ UNCHANGED settled
      <4>1. \A m \in Mandates : \A x \in reserved[m] : x.nonce # pay[r].nonce => x \in reserved'[m]
        BY <3>2, <3>3 DEF release, TypeOK
      <4>2. pc'[r] # "settle"
        BY <3>3 DEF TypeOK
      <4> QED
        BY <3>1, <3>3, <4>1, <4>2, AccountOthers
    <3>4. ASSUME NEW s, settled' = settled \cup {s}, Settles(s, pay[r]), UNCHANGED reserved,
                 pc' = [pc EXCEPT ![r] = "commit"]
          PROVE  AccountInv'
      <4> SUFFICES ASSUME ~doubled PROVE AccountInv'
        BY <3>1 DEF AccountInv
      <4>1. Entry(s) \in reserved[s.mandate]
        BY <3>1, <3>4 DEF AccountInv, Settles, Entry
      <4>2. pc'[r] = "commit"
        BY <3>4 DEF TypeOK
      <4>3. \A q \in Runs : pc[q] = "commit" => pc'[q] = "commit"
        BY <3>1, <4>2
      <4>4. \A q \in Runs : pc'[q] = "settle" => pc[q] = "settle"
        BY <3>1, <4>2
      <4> QED
        BY <3>1, <3>4, <4>1, <4>2, <4>3, <4>4 DEF AccountInv
    <3> DEFINE s == [resource |-> pay[r].resource, mandate |-> pay[r].mandate,
                     amount |-> pay[r].amount, nonce |-> pay[r].nonce, entitled |-> decided[r]]
    <3>5. Settles(s, pay[r])
      BY DEF Settles
    <3> QED
      BY <2>5, <3>3, <3>4, <3>5 DEF Settle, Goto
  <2>6. ASSUME NEW r \in Runs, Commit(r) PROVE AccountInv'
    <3> DEFINE m == pay[r].mandate
               n == pay[r].nonce
               T == {x \in reserved[m] : x.nonce = n}
    <3>1. /\ pc[r] = "commit" /\ UNCHANGED <<pay, settled, doubled>>
          /\ pc' = [pc EXCEPT ![r] = "idle"]
          /\ spends' = [spends EXCEPT ![m] = @ \cup T]
          /\ reserved' = [reserved EXCEPT ![m] = {x \in @ : x.nonce # n}]
      BY <2>6 DEF Commit, Goto, release
    <3>2. m \in Mandates
      BY <3>1 DEF TypeOK, Payload
    <3>3. \A q \in Runs \ {r} : pc'[q] = pc[q]
      BY <3>1 DEF TypeOK
    <3>4. /\ \A k \in Mandates : spends[k] \subseteq spends'[k]
          /\ \A k \in Mandates : \A x \in reserved[k] : x.nonce # n => x \in reserved'[k]
          /\ \A x \in reserved[m] : x.nonce = n => x \in spends'[m]
      BY <3>1, <3>2 DEF TypeOK
    <3> SUFFICES ASSUME ~doubled PROVE AccountInv'
      BY <3>1 DEF AccountInv
    <3>5. ASSUME NEW q \in Runs, pc'[q] = "settle"
          PROVE  Entry(pay[q]) \in reserved'[pay[q].mandate]
      <4>1. q # r /\ pc[q] = "settle"
        BY <3>1, <3>3, <3>5 DEF TypeOK
      <4>2. Entry(pay[q]).nonce # n /\ pay[q].mandate \in Mandates
        BY <3>1, <4>1 DEF NonceInv, TypeOK, Payload, Entry
      <4> QED
        BY <3>4, <4>1, <4>2 DEF AccountInv
    <3>6. ASSUME NEW s \in settled, Entry(s) \notin spends'[s.mandate]
          PROVE  /\ Entry(s) \in reserved'[s.mandate]
                 /\ \E q \in Runs : pc'[q] = "commit" /\ Settles(s, pay[q])
      <4>1. s.mandate \in Mandates
        BY DEF TypeOK, Settlement
      <4>2. Entry(s) \in reserved[s.mandate]
        BY <3>4, <3>6, <4>1 DEF AccountInv
      <4>3. PICK q \in Runs : pc[q] = "commit" /\ Settles(s, pay[q])
        BY <3>4, <3>6, <4>1 DEF AccountInv
      <4>4. q # r
        BY <3>4, <3>6, <4>2, <4>3 DEF Settles, Entry
      <4>5. Entry(s).nonce # n
        BY <3>1, <4>3, <4>4 DEF NonceInv, Settles, Entry
      <4> QED
        BY <3>3, <3>4, <4>1, <4>2, <4>3, <4>4, <4>5
    <3> HIDE DEF T, n, m
    <3> QED
      BY <3>1, <3>5, <3>6 DEF AccountInv
  <2>7. ASSUME NEW m \in Mandates, SignMandate(m) PROVE AccountInv'
    BY <2>7 DEF SignMandate, AccountInv, TypeOK
  <2>8. ASSUME NEW m \in Mandates, NEW s \in Signers, Revoke(m, s) PROVE AccountInv'
    BY <2>8 DEF Revoke, AccountInv, TypeOK
  <2>9. ASSUME NEW a \in asks, NEW s \in Signers, Confirm(a, s) PROVE AccountInv'
    BY <2>9 DEF Confirm, AccountInv, TypeOK
  <2>10. ASSUME NEW u \in Resources, NEW v \in Prices, Reprice(u, v) PROVE AccountInv'
    BY <2>10 DEF Reprice, AccountInv, TypeOK
  <2>11. ASSUME Tick PROVE AccountInv'
    BY <2>11 DEF Tick, AccountInv, TypeOK
  <2>12. ASSUME UNCHANGED vars PROVE AccountInv'
    BY <2>12 DEF vars, AccountInv, TypeOK
  <2> QED
    BY <2>1, <2>2, <2>3, <2>4, <2>5, <2>6, <2>7, <2>8, <2>9, <2>10, <2>11, <2>12, NextCases
<1> QED
  BY <1>1, <1>2, PurchaseTypeOK, PurchaseNonceInv, PTL DEF Spec

\* The delegator's word on a payment is a signed confirmation: what is approved
\* without it passed the cap and the budget.
LEMMA UnapprovedWithin ==
  ASSUME PayInv, NEW r \in Runs, NEW listed, ChainDecision(pay[r], listed) = "approve",
         ~Approved(pay[r])
  PROVE  ~OverCap(pay[r]) /\ ~OverBudget(pay[r])
<1>1. ~confirmationApproves(pay[r])
  BY DEF confirmationApproves, Approved, PayInv
<1>2. MandateDecision(pay[r]) = "approve"
  BY DEF ChainDecision
<1> QED
  BY <1>1, <1>2 DEF MandateDecision

\* Approval depends on the four fields only.
LEMMA ApprovedFields ==
  ASSUME NEW s, NEW p, Settles(s, p)
  PROVE  Approved(s) <=> Approved(p)
  BY DEF Approved

\* An approval is never taken back.
LEMMA ApprovedStays ==
  ASSUME NEW s, Approved(s), confs \subseteq confs'
  PROVE  Approved(s)'
  BY DEF Approved

\* The step settles nothing, approves nothing and takes no confirmation back.
Quiet ==
  /\ confs \subseteq confs' /\ UNCHANGED settled
  /\ \A q \in Runs : pc'[q] = "settle" => pc[q] = "settle" /\ pay'[q] = pay[q]
  /\ ~doubled' => ~doubled

\* All steps but a decision and a settlement are quiet.
LEMMA QuietSteps ==
  ASSUME TypeOK, [Next]_vars
  PROVE  \/ Quiet
         \/ \E r \in Runs, listed \in SUBSET Registries : DecideListed(r, listed)
         \/ \E r \in Runs : Settle(r)
<1>1. ASSUME NEW r \in Runs, Get(r) PROVE Quiet
  BY <1>1 DEF Get, Send, TypeOK, Quiet, agentVars, delegatorVars
<1>2. ASSUME NEW r \in Runs, Retry(r) PROVE Quiet
  BY <1>2 DEF Retry, Send, TypeOK, Quiet, agentVars, delegatorVars
<1>3. ASSUME NEW r \in Runs, Verify(r) PROVE Quiet
  BY <1>3 DEF Verify, Goto, TypeOK, Quiet, agentVars, delegatorVars
<1>4. ASSUME NEW r \in Runs, Commit(r) PROVE Quiet
  BY <1>4 DEF Commit, Goto, TypeOK, Quiet, agentVars, delegatorVars
<1>5. ASSUME NEW m \in Mandates, SignMandate(m) PROVE Quiet
  BY <1>5 DEF SignMandate, TypeOK, Quiet, agentVars, delegatorVars
<1>6. ASSUME NEW m \in Mandates, NEW s \in Signers, Revoke(m, s) PROVE Quiet
  BY <1>6 DEF Revoke, TypeOK, Quiet, agentVars, delegatorVars
<1>7. ASSUME NEW a \in asks, NEW s \in Signers, Confirm(a, s) PROVE Quiet
  BY <1>7 DEF Confirm, TypeOK, Quiet, agentVars, delegatorVars
<1>8. ASSUME NEW u \in Resources, NEW v \in Prices, Reprice(u, v) PROVE Quiet
  BY <1>8 DEF Reprice, TypeOK, Quiet, agentVars, delegatorVars
<1>9. ASSUME Tick PROVE Quiet
  BY <1>9 DEF Tick, TypeOK, Quiet, agentVars, delegatorVars
<1>10. ASSUME UNCHANGED vars PROVE Quiet
  BY <1>10 DEF vars, TypeOK, Quiet, agentVars, delegatorVars
<1> QED
  BY <1>1, <1>2, <1>3, <1>4, <1>5, <1>6, <1>7, <1>8, <1>9, <1>10, NextCases

\* A quiet step lets nothing more through.
LEMMA ThroughFrame ==
  ASSUME Quiet, NEW m
  PROVE  /\ Unapproved(m)' \subseteq Unapproved(m)
         /\ \A q \in Pending(m)' : q \in Pending(m) /\ pay'[q] = pay[q]
         /\ Through(m)' \subseteq Through(m)
<1>1. Unapproved(m)' \subseteq Unapproved(m)
  BY ApprovedStays DEF Quiet, Unapproved
<1>2. \A q \in Pending(m)' : q \in Pending(m) /\ pay'[q] = pay[q]
  BY ApprovedStays DEF Quiet, Pending
<1> QED
  BY <1>1, <1>2 DEF Through

\* What was let through is in the account.
LEMMA ThroughHeld ==
  ASSUME TypeOK, AccountInv, FiniteInv, ~doubled, NEW m \in Mandates
  PROVE  /\ Through(m) \subseteq spends[m] \cup reserved[m]
         /\ IsFiniteSet(spends[m] \cup reserved[m])
         /\ \A x \in spends[m] \cup reserved[m] : x.amount \in Nat
<1>1. \A s \in Unapproved(m) : Entry(s) \in spends[m] \cup reserved[m]
  BY DEF AccountInv, Unapproved
<1>2. \A r \in Pending(m) : Entry(pay[r]) \in spends[m] \cup reserved[m]
  BY DEF AccountInv, Pending
<1>3. IsFiniteSet(spends[m] \cup reserved[m])
  BY FS_Union DEF FiniteInv
<1>4. \A x \in spends[m] \cup reserved[m] : x.amount \in Nat
  <2>1. spends[m] \cup reserved[m] \subseteq Spend
    BY DEF TypeOK
  <2>2. \A x \in Spend : x.amount \in Nat
    BY Parameters DEF Spend
  <2> QED
    BY <2>1, <2>2
<1> QED
  BY <1>1, <1>2, <1>3, <1>4 DEF Through

\* A settlement is let through already as the payment it executes.
LEMMA SettleMoves ==
  ASSUME TypeOK, NEW r \in Runs, Settle(r), NEW m
  PROVE  /\ \A s \in Unapproved(m)' :
              s \in Unapproved(m) \/ \E q \in Pending(m) : s.amount = pay[q].amount
         /\ \A q \in Pending(m)' : q \in Pending(m) /\ pay'[q] = pay[q]
         /\ Through(m)' \subseteq Through(m)
<1> DEFINE s == [resource |-> pay[r].resource, mandate |-> pay[r].mandate,
                 amount |-> pay[r].amount, nonce |-> pay[r].nonce, entitled |-> decided[r]]
<1>1. /\ pc[r] = "settle" /\ UNCHANGED <<pay, confs>>
      /\ settled' \subseteq settled \cup {s}
      /\ \A q \in Runs : pc'[q] = "settle" => pc[q] = "settle"
  BY DEF Settle, Goto, TypeOK, delegatorVars
<1>2. \A x : Approved(x)' <=> Approved(x)
  BY <1>1 DEF Approved
<1>3. Settles(s, pay[r]) /\ Entry(s) = Entry(pay[r])
  BY DEF Settles, Entry
<1> HIDE DEF s
<1>4. s.mandate = m /\ ~Approved(s) => r \in Pending(m)
  BY <1>1, <1>3, ApprovedFields DEF Pending, Settles
<1>5. \A x \in Unapproved(m)' : x \in Unapproved(m) \/ (x = s /\ r \in Pending(m))
  BY <1>1, <1>2, <1>4 DEF Unapproved
<1>6. \A q \in Pending(m)' : q \in Pending(m) /\ pay'[q] = pay[q]
  BY <1>1, <1>2 DEF Pending
<1>7. Through(m)' \subseteq Through(m)
  BY <1>3, <1>5, <1>6 DEF Through
<1> QED
  BY <1>3, <1>5, <1>6, <1>7 DEF Settles

\* Letting less through keeps the budget.
LEMMA BudgetShrinks ==
  ASSUME TypeOK, AccountInv, FiniteInv, BudgetInv, ~doubled' => ~doubled,
         \A m \in Mandates : Through(m)' \subseteq Through(m)
  PROVE  BudgetInv'
<1> SUFFICES ASSUME ~doubled', NEW m \in Mandates, Terms[m].budget > 0
             PROVE  AmountOf(Through(m)') <= Terms[m].budget
  BY DEF BudgetInv, AmountOf
<1>1. IsFiniteSet(Through(m)) /\ \A x \in Through(m) : x.amount \in Nat
  BY ThroughHeld, FS_Subset
<1>2. /\ AmountOf(Through(m)') \in Nat /\ AmountOf(Through(m)) \in Nat
      /\ AmountOf(Through(m)') <= AmountOf(Through(m))
  BY <1>1, AmountOrder
<1>3. AmountOf(Through(m)) <= Terms[m].budget
  BY DEF BudgetInv
<1>4. Terms[m].budget \in Nat
  BY Parameters DEF TermSet
<1> QED
  BY <1>2, <1>3, <1>4

\* What is let through without the delegator's word is within the cap.
LEMMA PurchaseCapInv == Spec => []CapInv
<1>1. Init => CapInv
  BY DEF Init, CapInv, Unapproved, Pending
<1>2. TypedInv /\ CapInv /\ [Next]_vars => CapInv'
  <2> SUFFICES ASSUME TypedInv, CapInv, [Next]_vars, NEW m \in Mandates, Terms[m].cap > 0
               PROVE  /\ \A s \in Unapproved(m)' : s.amount <= Terms[m].cap
                      /\ \A r \in Pending(m)' : pay'[r].amount <= Terms[m].cap
    BY DEF CapInv
  <2> TypeOK /\ PayInv
    BY DEF TypedInv
  <2>1. CASE Quiet
    BY <2>1, ThroughFrame DEF CapInv
  <2>2. ASSUME NEW r \in Runs, NEW listed, DecideListed(r, listed)
        PROVE  /\ \A s \in Unapproved(m)' : s.amount <= Terms[m].cap
               /\ \A q \in Pending(m)' : pay'[q].amount <= Terms[m].cap
    <3>1. UNCHANGED <<pay, settled, confs>> /\ pc[r] = "decide"
      BY <2>2 DEF DecideListed
    <3>2. \A s : Approved(s)' <=> Approved(s)
      BY <3>1 DEF Approved
    <3>3. pc' = [pc EXCEPT ![r] = IF ChainDecision(pay[r], listed) = "approve" THEN "settle" ELSE "idle"]
      BY <2>2 DEF DecideListed, Goto
    <3>4. \A q \in Pending(m)' : q = r \/ q \in Pending(m)
      BY <3>1, <3>2, <3>3 DEF Pending, TypeOK
    <3>5. ASSUME r \in Pending(m)' PROVE pay[r].amount <= Terms[m].cap
      <4>1. ~Approved(pay[r]) /\ pay[r].mandate = m /\ ChainDecision(pay[r], listed) = "approve"
        BY <3>1, <3>2, <3>3, <3>5 DEF Pending, TypeOK
      <4>2. ~OverCap(pay[r])
        BY <4>1, UnapprovedWithin
      <4>3. pay[r].amount \in Nat /\ Terms[m].cap \in Nat
        BY <3>1, Parameters DEF TypeOK, Payload, TermSet
      <4> QED
        BY <4>1, <4>2, <4>3 DEF OverCap
    <3>6. Unapproved(m)' = Unapproved(m)
      BY <3>1, <3>2 DEF Unapproved
    <3> QED
      BY <3>1, <3>4, <3>5, <3>6 DEF CapInv
  <2>3. ASSUME NEW r \in Runs, Settle(r)
        PROVE  /\ \A s \in Unapproved(m)' : s.amount <= Terms[m].cap
               /\ \A q \in Pending(m)' : pay'[q].amount <= Terms[m].cap
    BY <2>3, SettleMoves DEF CapInv
  <2> QED
    BY <2>1, <2>2, <2>3, QuietSteps
<1> QED
  BY <1>1, <1>2, PurchaseTyped, PTL DEF Spec

\* While requests do not share nonces, what is let through without the
\* delegator's word is within the budget.
LEMMA PurchaseBudgetInv == Spec => []BudgetInv
<1>1. Init => BudgetInv
  <2> SUFFICES ASSUME Init, NEW m \in Mandates, Terms[m].budget > 0
               PROVE  AmountOf(Through(m)) <= Terms[m].budget
    BY DEF BudgetInv
  <2>1. Through(m) = {}
    BY DEF Init, Through, Unapproved, Pending
  <2>2. AmountOf({}) = 0
    BY SumEmpty DEF AmountOf
  <2> QED
    BY <2>1, <2>2, Parameters DEF TermSet
<1>2. /\ TypedInv /\ NonceInv /\ AccountInv /\ FiniteInv /\ BudgetInv /\ [Next]_vars
      => BudgetInv'
  <2> SUFFICES ASSUME TypedInv, NonceInv, AccountInv, FiniteInv, BudgetInv, [Next]_vars
               PROVE  BudgetInv'
    OBVIOUS
  <2> TypeOK /\ PayInv
    BY DEF TypedInv
  <2>1. CASE Quiet
    <3>1. (~doubled' => ~doubled) /\ \A m \in Mandates : Through(m)' \subseteq Through(m)
      BY <2>1, ThroughFrame DEF Quiet
    <3> QED
      BY <3>1, BudgetShrinks
  <2>2. ASSUME NEW r \in Runs, NEW listed, DecideListed(r, listed) PROVE BudgetInv'
    <3> DEFINE p == pay[r]
               e == Entry(pay[r])
    <3>1. UNCHANGED <<pay, settled, confs, doubled>> /\ pc[r] = "decide"
      BY <2>2 DEF DecideListed
    <3>2. \A s : Approved(s)' <=> Approved(s)
      BY <3>1 DEF Approved
    <3>3. pc' = [pc EXCEPT ![r] = IF ChainDecision(p, listed) = "approve" THEN "settle" ELSE "idle"]
      BY <2>2 DEF DecideListed, Goto
    <3>4. \A m : /\ Unapproved(m)' = Unapproved(m)
                 /\ \A q \in Pending(m)' : q = r \/ q \in Pending(m)
                 /\ r \in Pending(m)' => /\ ~Approved(p) /\ p.mandate = m
                                         /\ ChainDecision(p, listed) = "approve"
      BY <3>1, <3>2, <3>3 DEF Unapproved, Pending, TypeOK
    <3>5. \A m : Through(m)' \subseteq Through(m) \cup IF r \in Pending(m)' THEN {e} ELSE {}
      BY <3>1, <3>4 DEF Through
    <3> SUFFICES ASSUME ~doubled, NEW m \in Mandates, Terms[m].budget > 0
                 PROVE  AmountOf(Through(m)') <= Terms[m].budget
      BY <3>1 DEF BudgetInv, AmountOf
    <3> DEFINE A == AmountOf(spends[m])
               B == AmountOf(reserved[m])
    <3>6. p.amount \in Nat /\ Terms[m].budget \in Nat /\ e.amount = p.amount
      BY <3>1, Parameters DEF TypeOK, Payload, TermSet, Entry
    <3>7. /\ Through(m) \subseteq spends[m] \cup reserved[m]
          /\ IsFiniteSet(spends[m] \cup reserved[m])
          /\ \A x \in spends[m] \cup reserved[m] : x.amount \in Nat
      BY ThroughHeld
    <3>8. IsFiniteSet(Through(m)) /\ \A x \in Through(m) : x.amount \in Nat
      BY <3>7, FS_Subset
    <3>9. CASE r \notin Pending(m)'
      <4>1. Through(m)' \in SUBSET Through(m)
        BY <3>5, <3>9
      <4>2. /\ AmountOf(Through(m)') \in Nat /\ AmountOf(Through(m)) \in Nat
            /\ AmountOf(Through(m)') <= AmountOf(Through(m))
        BY <3>8, <4>1, AmountOrder
      <4>3. AmountOf(Through(m)) <= Terms[m].budget
        BY DEF BudgetInv
      <4> QED
        BY <3>6, <4>2, <4>3
    <3>10. CASE r \in Pending(m)'
      <4>1. ~OverBudget(p) /\ p.mandate = m
        BY <3>4, <3>10, UnapprovedWithin
      <4>2. A \in Nat /\ B \in Nat
        BY AmountOrder, <3>7, FS_Subset
      <4>3. A + B + p.amount <= Terms[m].budget
        BY <3>6, <4>1, <4>2 DEF OverBudget
      <4> HIDE DEF e
      <4>4. Through(m)' \in SUBSET (Through(m) \cup {e})
        BY <3>5, <3>10
      <4>5. IsFiniteSet(Through(m) \cup {e}) /\ \A x \in Through(m) \cup {e} : x.amount \in Nat
        BY <3>6, <3>8, FS_AddElement
      <4>6. /\ AmountOf(Through(m)') \in Nat /\ AmountOf(Through(m) \cup {e}) \in Nat
            /\ AmountOf(Through(m)') <= AmountOf(Through(m) \cup {e})
        BY <4>4, <4>5, AmountOrder
      <4>7. AmountOf(Through(m) \cup {e}) <= AmountOf(Through(m)) + e.amount
        BY <3>8, <4>5, AmountAdd
      <4>8. /\ AmountOf(Through(m)) \in Nat /\ AmountOf(spends[m] \cup reserved[m]) \in Nat
            /\ AmountOf(Through(m)) <= AmountOf(spends[m] \cup reserved[m])
        BY <3>7, AmountOrder
      <4>9. AmountOf(spends[m] \cup reserved[m]) <= A + B
        BY <3>7, AmountUnion DEF FiniteInv
      <4> HIDE DEF A, B, p
      <4> QED
        BY <3>6, <4>2, <4>3, <4>6, <4>7, <4>8, <4>9
    <3> QED
      BY <3>9, <3>10
  <2>3. ASSUME NEW r \in Runs, Settle(r) PROVE BudgetInv'
    <3>1. UNCHANGED doubled
      BY <2>3 DEF Settle
    <3> QED
      BY <2>3, <3>1, SettleMoves, BudgetShrinks
  <2> QED
    BY <2>1, <2>2, <2>3, QuietSteps
<1> QED
  BY <1>1, <1>2, PurchaseTyped, PurchaseNonceInv, PurchaseAccountInv, PurchaseFiniteInv,
     PTL DEF Spec

\* UnapprovedWithinMandate: what is settled without the delegator's word on that
\* very payment stays within the mandate's cap and budget, whatever
\* confirmations are attached and although prices change
\* (policy_mandate.go:148-173).
THEOREM PurchaseUnapprovedWithinMandate == Spec => []UnapprovedWithinMandate
<1>1. /\ TypeOK /\ NonceInv /\ AccountInv /\ FiniteInv /\ CapInv /\ BudgetInv
      => UnapprovedWithinMandate
  <2> SUFFICES ASSUME TypeOK, NonceInv, AccountInv, FiniteInv, CapInv, BudgetInv, ~doubled,
                      NEW m \in Mandates, Terms[m].budget > 0
               PROVE  AmountOf(Unapproved(m)) <= Terms[m].budget
    BY DEF UnapprovedWithinMandate, CapInv
  <2> DEFINE U == Unapproved(m)
             E == {Entry(s) : s \in U}
             f == [s \in U |-> s.amount]
             g == [x \in E |-> x.amount]
             h == [s \in U |-> Entry(s)]
  <2>1. IsFiniteSet(U) /\ \A s \in U : s \in settled /\ s.amount \in Nat
    <3>1. U \subseteq settled
      BY DEF Unapproved
    <3> QED
      <4>1. IsFiniteSet(U)
        BY <3>1, FS_Subset DEF FiniteInv
      <4>2. \A s \in settled : s.amount \in Nat
        BY Parameters DEF TypeOK, Settlement
      <4> QED
        BY <3>1, <4>1, <4>2
  <2>2. E = {h[s] : s \in U}
    OBVIOUS
  <2>3. \A s, t \in U : h[s] = h[t] => s = t
    <3> SUFFICES ASSUME NEW s \in U, NEW t \in U, Entry(s) = Entry(t) PROVE s = t
      OBVIOUS
    <3>1. Entry(s).nonce = s.nonce /\ Entry(t).nonce = t.nonce
      BY DEF Entry
    <3> QED
      BY <2>1, <3>1 DEF NonceInv
  <2>4. \A s \in U : f[s] \in Int /\ f[s] = g[h[s]]
    <3> TAKE s \in U
    <3>1. h[s] = Entry(s) /\ Entry(s).amount = s.amount /\ Entry(s) \in E
      BY DEF Entry
    <3> QED
      BY <2>1, <3>1
  <2>5. AmountOf(U) = Sum(f, U) /\ AmountOf(E) = Sum(g, E)
    BY DEF AmountOf
  <2>6. E \in SUBSET Through(m)
    BY DEF Through
  <2> HIDE DEF f, g, h, E
  <2>7. AmountOf(U) = AmountOf(E)
    BY <2>1, <2>2, <2>3, <2>4, <2>5, SumImage
  <2>8. IsFiniteSet(Through(m)) /\ \A x \in Through(m) : x.amount \in Nat
    BY ThroughHeld, FS_Subset
  <2>9. /\ AmountOf(E) \in Nat /\ AmountOf(Through(m)) \in Nat
        /\ AmountOf(E) <= AmountOf(Through(m))
    BY <2>6, <2>8, AmountOrder
  <2>10. AmountOf(Through(m)) <= Terms[m].budget /\ Terms[m].budget \in Nat
    BY Parameters DEF BudgetInv, TermSet
  <2> QED
    BY <2>7, <2>9, <2>10
<1> QED
  BY <1>1, PurchaseTypeOK, PurchaseNonceInv, PurchaseAccountInv, PurchaseFiniteInv,
     PurchaseCapInv, PurchaseBudgetInv, PTL
=============================================================================
