--------------------------- MODULE Gateway_proofs ---------------------------
(***************************************************************************)
(* Theorems about module Gateway, for every value of its constants.        *)
(***************************************************************************)
EXTENDS Gateway, Sums_proofs

\* What one step of Next may be: used to split every invariance proof.
LEMMA NextCases ==
  ASSUME [Next]_vars
  PROVE  \/ \E h \in Handlers : \E p \in Payloads : Receive(h, p)
         \/ \E h \in Handlers : HandlerStep(h)
         \/ \E h \in Handlers : Mine(h)
         \/ \E r \in Revocations : Revoke(r)
         \/ \E r \in Revocations : RecordRevocation(r)
         \/ \E p \in Payloads : MineOrphan(p)
         \/ \E x \in Mandates \cup Nonces : Lapse(x)
         \/ \E k \in 0 .. MaxHead : Reorg(k)
         \/ NewBlock
         \/ Restart
         \/ UNCHANGED vars
  BY DEF Next

\* A payload names a nonce and a mandate.
LEMMA PayloadFields ==
  ASSUME NEW p \in Payloads
  PROVE  p.nonce \in Nonces /\ p.mandate \in Mandates
  BY PayloadAssumption

\* A chain that never rewinds has no Reorg step.
LEMMA NeverReorgs ==
  ASSUME TypeOK, MaxReorgs = 0, NEW k, Reorg(k)
  PROVE  FALSE
<1>1. reorgs \in Nat /\ reorgs < 0
  BY DEF TypeOK, Reorg
<1> QED
  BY <1>1

Journals == [settlement: SUBSET Nonces, decision: SUBSET Payloads,
             revocation: SUBSET Revocations, refund: SUBSET Nonces,
             refund_pending: SUBSET Nonces]

\* Appending an entry keeps the journal well formed.
LEMMA AppendNonce ==
  ASSUME journal \in Journals, NEW n \in Nonces,
         NEW kind \in {"settlement", "refund", "refund_pending"}
  PROVE  Appended(kind, n) \in Journals
  BY DEF Journals, Appended

LEMMA AppendRevocation ==
  ASSUME journal \in Journals, NEW r \in Revocations
  PROVE  RevocationEntry(r) \in Journals
  BY DEF Journals, Appended, RevocationEntry

LEMMA AppendDecision ==
  ASSUME journal \in Journals, NEW p \in Payloads
  PROVE  SettledDecision(p) \in Journals
  BY DEF Journals, Appended, SettledDecision

\* Every reachable state is well typed.
THEOREM GatewayTypeOK == Spec => []TypeOK
<1>1. Init => TypeOK
  BY LimitAssumption DEF Init, TypeOK, PCs, Actions
<1>2. TypeOK /\ [Next]_vars => TypeOK'
  <2> SUFFICES ASSUME TypeOK, [Next]_vars PROVE TypeOK'
    OBVIOUS
  <2> USE LimitAssumption, ConfigAssumption DEF PCs, Actions, Journals, handlerVars, accountVars,
          revokeVars, parkVars, chainVars, goodsVars
  <2>1. ASSUME NEW h \in Handlers, NEW p \in Payloads, Receive(h, p) PROVE TypeOK'
    <3>1. p.nonce \in Nonces /\ p.mandate \in Mandates
      BY PayloadFields
    <3>2. CASE Goto(h, "resume") /\ block' = [block EXCEPT ![h] = submitted[p.nonce]]
      BY <2>1, <3>1, <3>2 DEF TypeOK, Receive, Goto
    <3>3. CASE Goto(h, "verify") /\ UNCHANGED block
      BY <2>1, <3>1, <3>3 DEF TypeOK, Receive, Goto
    <3> QED
      BY <2>1, <3>2, <3>3 DEF Receive
  <2>2. ASSUME NEW h \in Handlers, Verify(h) PROVE TypeOK'
    <3>1. pay[h] \in Payloads /\ nonce(h) \in Nonces /\ mandate(h) \in Mandates
      BY <2>2, PayloadFields DEF TypeOK, Verify, nonce, mandate
    <3>2. CASE Goto(h, "decide") /\ UNCHANGED <<pay, act, block, late>>
      BY <2>2, <3>1, <3>2 DEF TypeOK, Verify, Goto, Finish
    <3>3. CASE Finish(h)
      BY <2>2, <3>1, <3>3 DEF TypeOK, Verify, Goto, Finish
    <3> QED
      BY <2>2, <3>2, <3>3, Zenon DEF Verify
  <2>3. ASSUME NEW h \in Handlers, Decide(h) PROVE TypeOK'
    <3>1. pay[h] \in Payloads /\ nonce(h) \in Nonces /\ mandate(h) \in Mandates
      BY <2>3, PayloadFields DEF TypeOK, Decide, nonce, mandate
    <3>2. CASE Finish(h) /\ UNCHANGED accountVars
      BY <2>3, <3>1, <3>2 DEF TypeOK, Decide, Goto, Finish, nonce, mandate
    <3>3. CASE Finish(h) /\ reserved' = [reserved EXCEPT ![pay[h].mandate] = @ \cup {pay[h].nonce}] /\ UNCHANGED spends
      BY <2>3, <3>1, <3>3 DEF TypeOK, Decide, Goto, Finish, nonce, mandate
    <3>4. CASE /\ Goto(h, "submit") /\ UNCHANGED <<pay, block, late, spends>>
               /\ \E d \in Actions : act' = [act EXCEPT ![h] = d]
               /\ reserved' = [reserved EXCEPT ![pay[h].mandate] = @ \cup {pay[h].nonce}]
      BY <2>3, <3>1, <3>4 DEF TypeOK, Decide, Goto, Finish, nonce, mandate
    <3> QED
      BY <2>3, <3>2, <3>3, <3>4 DEF Decide, ChainDecision
  <2>4. ASSUME NEW h \in Handlers, Submit(h) PROVE TypeOK'
    <3>1. pay[h] \in Payloads /\ nonce(h) \in Nonces /\ mandate(h) \in Mandates
      BY <2>4, PayloadFields DEF TypeOK, Submit, nonce, mandate
    <3>2. CASE Goto(h, "wait") /\ UNCHANGED <<pay, act, block, late, accountVars>> /\ tx' = [tx EXCEPT ![h] = "pending"]
      BY <2>4, <3>1, <3>2 DEF TypeOK, Submit, Goto, Finish, release
    <3>3. CASE Finish(h) /\ release(h) /\ UNCHANGED tx
      BY <2>4, <3>1, <3>3 DEF TypeOK, Submit, Goto, Finish, release
    <3> QED
      BY <2>4, <3>2, <3>3 DEF Submit
  <2>5. ASSUME NEW h \in Handlers, SettleTimeout(h) PROVE TypeOK'
    <3>1. pay[h] \in Payloads /\ nonce(h) \in Nonces /\ mandate(h) \in Mandates
      BY <2>5, PayloadFields DEF TypeOK, SettleTimeout, nonce, mandate
    <3>2. QED
      BY <2>5, <3>1 DEF TypeOK, SettleTimeout, Finish, release, nonce, mandate
  <2>6. ASSUME NEW h \in Handlers, SettleReceipt(h) PROVE TypeOK'
    <3>1. pay[h] \in Payloads /\ nonce(h) \in Nonces /\ mandate(h) \in Mandates
      BY <2>6, PayloadFields DEF TypeOK, SettleReceipt, nonce, mandate
    <3>2. CASE Goto(h, "journal") /\ UNCHANGED <<pay, act, block, late, accountVars>>
      BY <2>6, <3>1, <3>2 DEF TypeOK, SettleReceipt, Goto, Finish, release
    <3>3. CASE Finish(h) /\ release(h)
      BY <2>6, <3>1, <3>3 DEF TypeOK, SettleReceipt, Goto, Finish, release
    <3> QED
      BY <2>6, <3>2, <3>3 DEF SettleReceipt
  <2>7. ASSUME NEW h \in Handlers, JournalSettlement(h) PROVE TypeOK'
    <3>1. pay[h] \in Payloads /\ nonce(h) \in Nonces /\ mandate(h) \in Mandates
      BY <2>7, PayloadFields DEF TypeOK, JournalSettlement, nonce, mandate
    <3>2. CASE /\ Goto(h, "commit") /\ UNCHANGED <<pay, act, block, late, accountVars>>
               /\ journal' = Appended("settlement", nonce(h))
      BY <2>7, <3>1, <3>2, AppendNonce DEF TypeOK, JournalSettlement, Goto, Finish, release
    <3>3. CASE Finish(h) /\ release(h) /\ UNCHANGED journal
      BY <2>7, <3>1, <3>3, AppendNonce DEF TypeOK, JournalSettlement, Goto, Finish, release
    <3> QED
      BY <2>7, <3>2, <3>3 DEF JournalSettlement
  <2>8. ASSUME NEW h \in Handlers, CommitSettlement(h) PROVE TypeOK'
    <3>1. pay[h] \in Payloads /\ nonce(h) \in Nonces /\ mandate(h) \in Mandates
      BY <2>8, PayloadFields DEF TypeOK, CommitSettlement, nonce, mandate
    <3>2. QED
      <4>1. journal' \in Journals
        BY <2>8, <3>1, AppendDecision DEF TypeOK, CommitSettlement, Logged
      <4>2. reserved' \in [Mandates -> SUBSET Nonces] /\ spends' \in [Mandates -> SUBSET Nonces]
        <5>1. CASE UNCHANGED accountVars
          BY <5>1 DEF TypeOK
        <5>2. CASE /\ reserved' = [reserved EXCEPT ![mandate(h)] = @ \ {nonce(h)}]
                   /\ spends' = [spends EXCEPT ![mandate(h)] = @ \cup {nonce(h)}]
          BY <3>1, <5>2 DEF TypeOK
        <5> QED
          BY <2>8, <5>1, <5>2 DEF CommitSettlement, commit
      <4> QED
        BY <2>8, <3>1, <4>1, <4>2 DEF TypeOK, CommitSettlement, Goto, nonce
  <2>9. ASSUME NEW h \in Handlers, BeginDeferred(h) PROVE TypeOK'
    <3>1. pay[h] \in Payloads /\ nonce(h) \in Nonces /\ mandate(h) \in Mandates
      BY <2>9, PayloadFields DEF TypeOK, BeginDeferred, nonce, mandate
    <3>2. QED
      BY <2>9, <3>1 DEF TypeOK, BeginDeferred, Finish, inflightPut, nonce
  <2>10. ASSUME NEW h \in Handlers, ResumeDeferred(h) PROVE TypeOK'
    <3>1. pay[h] \in Payloads /\ nonce(h) \in Nonces /\ mandate(h) \in Mandates
      BY <2>10, PayloadFields DEF TypeOK, ResumeDeferred, nonce, mandate
    <3>2. CASE Goto(h, "deliver") /\ UNCHANGED <<pay, act, block, late>> /\ inflight' = inflightRemove(nonce(h))
      BY <2>10, <3>1, <3>2 DEF TypeOK, ResumeDeferred, Goto, Finish, inflightRemove
    <3>3. CASE Finish(h) /\ UNCHANGED inflight
      BY <2>10, <3>1, <3>3 DEF TypeOK, ResumeDeferred, Goto, Finish, inflightRemove
    <3> QED
      BY <2>10, <3>2, <3>3 DEF ResumeDeferred
  <2>11. ASSUME NEW h \in Handlers, Deliver(h) PROVE TypeOK'
    <3>1. pay[h] \in Payloads /\ nonce(h) \in Nonces /\ mandate(h) \in Mandates
      BY <2>11, PayloadFields DEF TypeOK, Deliver, nonce, mandate
    <3>2. QED
      <4>1. delivered' \in [Nonces -> Nat]
        BY <2>11, <3>1 DEF TypeOK, Deliver, Count
      <4>2. PICK where \in {"respond", "refund"} : Goto(h, where)
        BY <2>11 DEF Deliver
      <4> QED
        BY <2>11, <3>1, <4>1, <4>2 DEF TypeOK, Deliver, Goto
  <2>12. ASSUME NEW h \in Handlers, Refund(h) PROVE TypeOK'
    <3>1. pay[h] \in Payloads /\ nonce(h) \in Nonces /\ mandate(h) \in Mandates
      BY <2>12, PayloadFields DEF TypeOK, Refund, nonce, mandate
    <3>2. CASE /\ Finish(h) /\ (journal' = Appended("refund", nonce(h)) \/ UNCHANGED journal)
               /\ refunded' = Count(refunded, h)
      BY <2>12, <3>1, <3>2, AppendNonce DEF TypeOK, Refund, Finish, Count
    <3>3. CASE /\ Finish(h) /\ (journal' = Appended("refund_pending", nonce(h)) \/ UNCHANGED journal)
               /\ (refunded' = Count(refunded, h) \/ UNCHANGED refunded)
      <4>1. journal' \in Journals
        BY <3>1, <3>3, AppendNonce DEF TypeOK
      <4>2. refunded' \in [Nonces -> Nat]
        BY <3>1, <3>3 DEF TypeOK, Count
      <4> QED
        BY <2>12, <3>1, <3>3, <4>1, <4>2 DEF TypeOK, Refund, Finish
    <3> QED
      BY <2>12, <3>2, <3>3 DEF Refund, Logged
  <2>13. ASSUME NEW h \in Handlers, Respond(h) PROVE TypeOK'
    <3>1. pay[h] \in Payloads /\ nonce(h) \in Nonces /\ mandate(h) \in Mandates
      BY <2>13, PayloadFields DEF TypeOK, Respond, nonce, mandate
    <3>2. QED
      BY <2>13, <3>1 DEF TypeOK, Respond, Finish, nonce
  <2>14. ASSUME NEW h \in Handlers, Mine(h) PROVE TypeOK'
    <3>1. pay[h] \in Payloads /\ nonce(h) \in Nonces /\ mandate(h) \in Mandates
      BY <2>14, PayloadFields DEF TypeOK, Mine, nonce, mandate
    <3>2. QED
      <4>1. paidBy' \in [Nonces -> Payloads \cup {None}] /\ minedAt' \in [Nonces -> Nat]
        BY <2>14, <3>1 DEF TypeOK, Mine, Include
      <4>2. PICK outcome \in {"mined", "reverted"} : tx' = [tx EXCEPT ![h] = outcome]
        BY <2>14 DEF Mine
      <4> QED
        BY <2>14, <3>1, <4>1, <4>2 DEF TypeOK, Mine
  <2>15. ASSUME NEW r \in Revocations, Revoke(r) PROVE TypeOK'
    BY <2>15, PayloadFields DEF TypeOK, Revoke
  <2>16. ASSUME NEW r \in Revocations, RecordRevocation(r) PROVE TypeOK'
    <3>1. journal' \in Journals
      BY <2>16, AppendRevocation DEF TypeOK, RecordRevocation, Logged
    <3>2. r.mandate \in Mandates
      BY DEF Revocations
    <3> QED
      BY <2>16, <3>1, <3>2 DEF TypeOK, RecordRevocation
  <2>17. ASSUME NEW p \in Payloads, MineOrphan(p) PROVE TypeOK'
    BY <2>17, PayloadFields DEF TypeOK, MineOrphan, Include
  <2>18. ASSUME NEW x \in Mandates \cup Nonces, Lapse(x) PROVE TypeOK'
    BY <2>18, PayloadFields DEF TypeOK, Lapse
  <2>19. ASSUME NEW k \in 0 .. MaxHead, Reorg(k) PROVE TypeOK'
    BY <2>19, PayloadFields DEF TypeOK, Reorg, nonce
  <2>20. ASSUME NewBlock PROVE TypeOK'
    BY <2>20, PayloadFields DEF TypeOK, NewBlock
  <2>21. ASSUME Restart PROVE TypeOK'
    BY <2>21, PayloadFields DEF TypeOK, Restart, RestoredSpends, RestoredSettlements
  <2>22. ASSUME UNCHANGED vars PROVE TypeOK'
    BY <2>22, PayloadFields DEF TypeOK, vars
  <2> QED
    BY <2>1, <2>2, <2>3, <2>4, <2>5, <2>6, <2>7, <2>8, <2>9, <2>10, <2>11, <2>12, <2>13, <2>14,
       <2>15, <2>16, <2>17, <2>18, <2>19, <2>20, <2>21, <2>22, NextCases DEF HandlerStep
<1>3. QED
  BY <1>1, <1>2, PTL DEF Spec

----------------------------------------------------------------------------
(* Revocation.                                                             *)

\* Appending to another kind leaves the revocation entries alone.
LEMMA AppendKeepsRevocation ==
  ASSUME journal \in Journals, NEW n, NEW kind \in {"settlement", "refund", "refund_pending"}
  PROVE  /\ Appended(kind, n).revocation = journal.revocation
         /\ SettledDecision(n).revocation = journal.revocation
  BY DEF Journals, Appended, SettledDecision

\* The inductive strengthening: an acknowledged revocation is both in memory
\* and in the journal, and a late request carries an acknowledged mandate.
RevocationInv ==
  /\ revoking \subseteq revoked
  /\ \A m \in acked : [mandate |-> m, signer |-> "delegator"] \in revoked \cap journal.revocation
  /\ \A h \in Handlers : late[h] =>
       pay[h].mandate \in acked /\ pc[h] \in {"verify", "decide", "resume"}

\* While the journal works and only delegators revoke, a request that arrives
\* after its mandate's revocation was acknowledged never reaches settlement or delivery, whatever
\* else fails and however often the gateway restarts.
THEOREM RevokedNeverSettles ==
  ASSUME "journal" \notin Faults, "other" \notin Signers
  PROVE  Spec => []RevocationHolds
<1>1. Init => RevocationInv
  BY DEF Init, RevocationInv
<1>2. TypeOK /\ RevocationInv /\ [Next]_vars => RevocationInv'
  <2> SUFFICES ASSUME TypeOK, RevocationInv, [Next]_vars PROVE RevocationInv'
    OBVIOUS
  <2>0. journal \in Journals /\ pay \in [Handlers -> Payloads \cup {None}]
        /\ late \in [Handlers -> BOOLEAN] /\ pc \in [Handlers -> PCs]
    BY DEF TypeOK, Journals
  <2> USE DEF handlerVars, accountVars, revokeVars, parkVars, chainVars, goodsVars
  <2>1. ASSUME NEW h \in Handlers, NEW p \in Payloads, Receive(h, p) PROVE RevocationInv'
    BY <2>1, <2>0 DEF RevocationInv, Receive, Goto
  <2>2. ASSUME NEW h \in Handlers, Verify(h) PROVE RevocationInv'
    BY <2>2, <2>0 DEF RevocationInv, Verify, Goto, Finish
  <2>3. ASSUME NEW h \in Handlers, Decide(h) PROVE RevocationInv'
    BY <2>3, <2>0 DEF RevocationInv, Decide, Goto, Finish, Entitled
  <2>4. ASSUME NEW h \in Handlers, Submit(h) PROVE RevocationInv'
    BY <2>4, <2>0 DEF RevocationInv, Submit, Goto, Finish, release
  <2>5. ASSUME NEW h \in Handlers, SettleTimeout(h) PROVE RevocationInv'
    BY <2>5, <2>0 DEF RevocationInv, SettleTimeout, Finish, release
  <2>6. ASSUME NEW h \in Handlers, SettleReceipt(h) PROVE RevocationInv'
    BY <2>6, <2>0 DEF RevocationInv, SettleReceipt, Goto, Finish, release
  <2>7. ASSUME NEW h \in Handlers, JournalSettlement(h) PROVE RevocationInv'
    BY <2>7, <2>0, AppendKeepsRevocation DEF RevocationInv, JournalSettlement, Goto, Finish,
       release
  <2>8. ASSUME NEW h \in Handlers, CommitSettlement(h) PROVE RevocationInv'
    BY <2>8, <2>0, AppendKeepsRevocation DEF RevocationInv, CommitSettlement, Goto, commit,
       Logged
  <2>9. ASSUME NEW h \in Handlers, BeginDeferred(h) PROVE RevocationInv'
    BY <2>9, <2>0 DEF RevocationInv, BeginDeferred, Finish, inflightPut
  <2>10. ASSUME NEW h \in Handlers, ResumeDeferred(h) PROVE RevocationInv'
    BY <2>10, <2>0 DEF RevocationInv, ResumeDeferred, Goto, Finish, inflightRemove, Entitled
  <2>11. ASSUME NEW h \in Handlers, Deliver(h) PROVE RevocationInv'
    BY <2>11, <2>0 DEF RevocationInv, Deliver, Goto, Count
  <2>12. ASSUME NEW h \in Handlers, Refund(h) PROVE RevocationInv'
    BY <2>12, <2>0, AppendKeepsRevocation DEF RevocationInv, Refund, Finish, Logged, Count
  <2>13. ASSUME NEW h \in Handlers, Respond(h) PROVE RevocationInv'
    BY <2>13, <2>0 DEF RevocationInv, Respond, Finish
  <2>14. ASSUME NEW h \in Handlers, Mine(h) PROVE RevocationInv'
    BY <2>14, <2>0 DEF RevocationInv, Mine, Include
  <2>15. ASSUME NEW r \in Revocations, Revoke(r) PROVE RevocationInv'
    BY <2>15, <2>0 DEF RevocationInv, Revoke
  <2>16. ASSUME NEW r \in Revocations, RecordRevocation(r) PROVE RevocationInv'
    <3>1. r = [mandate |-> r.mandate, signer |-> "delegator"] /\ r.mandate \in Mandates
      BY ConfigAssumption DEF Revocations
    <3>2. \A q \in journal.revocation : q.mandate = r.mandate => q = r
      <4>1. \A q \in journal.revocation : q \in Revocations
        BY <2>0 DEF Journals
      <4>2. \A q \in Revocations : q = [mandate |-> q.mandate, signer |-> "delegator"]
        <5>1. Signers \subseteq {"delegator"}
          BY ConfigAssumption
        <5>2. \A q \in Revocations : q = [mandate |-> q.mandate, signer |-> q.signer] /\ q.signer \in Signers
          BY DEF Revocations
        <5> QED
          BY <5>1, <5>2
      <4> QED
        BY <3>1, <4>1, <4>2
    <3>3. journal' = RevocationEntry(r)
      BY <2>16 DEF RecordRevocation, Logged
    <3>4. journal.revocation \cup {r} = journal'.revocation
      BY <2>0, <3>2, <3>3 DEF RevocationEntry, Appended, Journals
    <3> QED
      BY <2>16, <2>0, <3>1, <3>4 DEF RevocationInv, RecordRevocation
  <2>17. ASSUME NEW p \in Payloads, MineOrphan(p) PROVE RevocationInv'
    BY <2>17, <2>0 DEF RevocationInv, MineOrphan, Include
  <2>18. ASSUME NEW x \in Mandates \cup Nonces, Lapse(x) PROVE RevocationInv'
    BY <2>18, <2>0 DEF RevocationInv, Lapse
  <2>19. ASSUME NEW k \in 0 .. MaxHead, Reorg(k) PROVE RevocationInv'
    BY <2>19, <2>0 DEF RevocationInv, Reorg
  <2>20. ASSUME NewBlock PROVE RevocationInv'
    BY <2>20, <2>0 DEF RevocationInv, NewBlock
  <2>21. ASSUME Restart PROVE RevocationInv'
    BY <2>21, <2>0 DEF RevocationInv, Restart, RestoredSpends, RestoredSettlements
  <2>22. ASSUME UNCHANGED vars PROVE RevocationInv'
    BY <2>22, <2>0 DEF RevocationInv, vars
  <2> QED
    BY <2>1, <2>2, <2>3, <2>4, <2>5, <2>6, <2>7, <2>8, <2>9, <2>10, <2>11, <2>12, <2>13, <2>14,
       <2>15, <2>16, <2>17, <2>18, <2>19, <2>20, <2>21, <2>22, NextCases DEF HandlerStep
<1>3. RevocationInv => RevocationHolds
  BY DEF RevocationInv, RevocationHolds
<1> QED
  BY <1>1, <1>2, <1>3, GatewayTypeOK, PTL DEF Spec

----------------------------------------------------------------------------
(* Reservations.                                                           *)

\* When no policy stacked after the mandate policy refuses, every reservation
\* belongs to a handler that is still settling that payment: whatever fails,
\* and with any number of duplicate requests, no answered request keeps budget.
THEOREM ReservationsAreOwned ==
  ASSUME "refuse" \notin TableActions
  PROVE  Spec => []NoLeakedReservation
<1>1. Init => NoLeakedReservation
  BY DEF Init, NoLeakedReservation
<1>2. TypeOK /\ NoLeakedReservation /\ [Next]_vars => NoLeakedReservation'
  <2> SUFFICES ASSUME TypeOK, NoLeakedReservation, [Next]_vars PROVE NoLeakedReservation'
    OBVIOUS
  <2>0. /\ pay \in [Handlers -> Payloads \cup {None}]
        /\ pc \in [Handlers -> PCs]
        /\ reserved \in [Mandates -> SUBSET Nonces]
    BY DEF TypeOK
  <2> USE DEF handlerVars, accountVars, revokeVars, parkVars, chainVars, goodsVars, nonce, mandate, Settling
  <2>1. ASSUME NEW h \in Handlers, NEW p \in Payloads, Receive(h, p) PROVE NoLeakedReservation'
    BY <2>1, <2>0 DEF NoLeakedReservation, Receive, Goto
  <2>2. ASSUME NEW h \in Handlers, Verify(h) PROVE NoLeakedReservation'
    BY <2>2, <2>0 DEF NoLeakedReservation, Verify, Goto, Finish
  <2>3. ASSUME NEW h \in Handlers, Decide(h) PROVE NoLeakedReservation'
    BY <2>3, <2>0 DEF NoLeakedReservation, Decide, Goto, Finish, ChainDecision, TypeOK
  <2>4. ASSUME NEW h \in Handlers, Submit(h) PROVE NoLeakedReservation'
    BY <2>4, <2>0 DEF NoLeakedReservation, Submit, Goto, Finish, release
  <2>5. ASSUME NEW h \in Handlers, SettleTimeout(h) PROVE NoLeakedReservation'
    BY <2>5, <2>0 DEF NoLeakedReservation, SettleTimeout, Finish, release
  <2>6. ASSUME NEW h \in Handlers, SettleReceipt(h) PROVE NoLeakedReservation'
    BY <2>6, <2>0 DEF NoLeakedReservation, SettleReceipt, Goto, Finish, release
  <2>7. ASSUME NEW h \in Handlers, JournalSettlement(h) PROVE NoLeakedReservation'
    BY <2>7, <2>0 DEF NoLeakedReservation, JournalSettlement, Goto, Finish, release
  <2>8. ASSUME NEW h \in Handlers, CommitSettlement(h) PROVE NoLeakedReservation'
    BY <2>8, <2>0 DEF NoLeakedReservation, CommitSettlement, Goto, commit, Logged
  <2>9. ASSUME NEW h \in Handlers, BeginDeferred(h) PROVE NoLeakedReservation'
    BY <2>9, <2>0 DEF NoLeakedReservation, BeginDeferred, Finish, inflightPut
  <2>10. ASSUME NEW h \in Handlers, ResumeDeferred(h) PROVE NoLeakedReservation'
    BY <2>10, <2>0 DEF NoLeakedReservation, ResumeDeferred, Goto, Finish, inflightRemove
  <2>11. ASSUME NEW h \in Handlers, Deliver(h) PROVE NoLeakedReservation'
    BY <2>11, <2>0 DEF NoLeakedReservation, Deliver, Goto, Count
  <2>12. ASSUME NEW h \in Handlers, Refund(h) PROVE NoLeakedReservation'
    BY <2>12, <2>0 DEF NoLeakedReservation, Refund, Finish, Logged, Count
  <2>13. ASSUME NEW h \in Handlers, Respond(h) PROVE NoLeakedReservation'
    BY <2>13, <2>0 DEF NoLeakedReservation, Respond, Finish
  <2>14. ASSUME NEW h \in Handlers, Mine(h) PROVE NoLeakedReservation'
    BY <2>14, <2>0 DEF NoLeakedReservation, Mine, Include
  <2>15. ASSUME NEW r \in Revocations, Revoke(r) PROVE NoLeakedReservation'
    BY <2>15, <2>0 DEF NoLeakedReservation, Revoke
  <2>16. ASSUME NEW r \in Revocations, RecordRevocation(r) PROVE NoLeakedReservation'
    BY <2>16, <2>0 DEF NoLeakedReservation, RecordRevocation, Logged
  <2>17. ASSUME NEW p \in Payloads, MineOrphan(p) PROVE NoLeakedReservation'
    BY <2>17, <2>0 DEF NoLeakedReservation, MineOrphan, Include
  <2>18. ASSUME NEW x \in Mandates \cup Nonces, Lapse(x) PROVE NoLeakedReservation'
    BY <2>18, <2>0 DEF NoLeakedReservation, Lapse
  <2>19. ASSUME NEW k \in 0 .. MaxHead, Reorg(k) PROVE NoLeakedReservation'
    BY <2>19, <2>0 DEF NoLeakedReservation, Reorg
  <2>20. ASSUME NewBlock PROVE NoLeakedReservation'
    BY <2>20, <2>0 DEF NoLeakedReservation, NewBlock
  <2>21. ASSUME Restart PROVE NoLeakedReservation'
    BY <2>21, <2>0 DEF NoLeakedReservation, Restart, RestoredSpends, RestoredSettlements
  <2>22. ASSUME UNCHANGED vars PROVE NoLeakedReservation'
    BY <2>22, <2>0 DEF NoLeakedReservation, vars
  <2> QED
    BY <2>1, <2>2, <2>3, <2>4, <2>5, <2>6, <2>7, <2>8, <2>9, <2>10, <2>11, <2>12, <2>13, <2>14,
       <2>15, <2>16, <2>17, <2>18, <2>19, <2>20, <2>21, <2>22, NextCases DEF HandlerStep
<1> QED
  BY <1>1, <1>2, GatewayTypeOK, PTL DEF Spec

----------------------------------------------------------------------------
(* Durability.                                                             *)

\* The settlement entries only grow, and only by settlement appends.
LEMMA AppendKeepsSettlement ==
  ASSUME journal \in Journals, NEW n
  PROVE  /\ Appended("settlement", n).settlement = journal.settlement \cup {n}
         /\ Appended("refund", n).settlement = journal.settlement
         /\ Appended("refund_pending", n).settlement = journal.settlement
         /\ RevocationEntry(n).settlement = journal.settlement
         /\ SettledDecision(n).settlement = journal.settlement
  BY DEF Journals, Appended, SettledDecision, RevocationEntry

\* A settlement on chain and in the journal.
Durable(n) == n \in journal.settlement /\ paidBy[n] # None

\* The inductive strengthening: everything a later answer can report rests on
\* a durable settlement, from the moment the handler leaves the journal write.
DurableInv ==
  /\ \A n \in told \cup inflight : Durable(n)
  /\ \A h \in Handlers :
       /\ pc[h] \in {"commit", "park", "resume", "deliver", "refund", "respond"} => Durable(nonce(h))
       /\ pc[h] = "journal" \/ tx[h] = "mined" => paidBy[nonce(h)] # None

\* The strengthening is an invariant on a chain that does not rewind.
LEMMA DurableInvariant ==
  ASSUME MaxReorgs = 0
  PROVE  Spec => []DurableInv
<1>1. Init => DurableInv
  BY DEF Init, DurableInv
<1>2. TypeOK /\ DurableInv /\ [Next]_vars => DurableInv'
  <2> SUFFICES ASSUME TypeOK, DurableInv, [Next]_vars PROVE DurableInv'
    OBVIOUS
  <2>0. /\ journal \in Journals
        /\ pay \in [Handlers -> Payloads \cup {None}]
        /\ pc \in [Handlers -> PCs]
        /\ tx \in [Handlers -> {"none", "pending", "mined", "reverted"}]
        /\ paidBy \in [Nonces -> Payloads \cup {None}]
        /\ \A h \in Handlers : /\ pc[h] # "idle" => pay[h] \in Payloads
                               /\ tx[h] # "none" <=> pc[h] = "wait"
    BY DEF TypeOK, Journals
  <2> USE DEF handlerVars, accountVars, revokeVars, parkVars, chainVars, goodsVars, nonce, Durable
  <2>1. ASSUME NEW h \in Handlers, NEW p \in Payloads, Receive(h, p) PROVE DurableInv'
    BY <2>1, <2>0 DEF DurableInv, Receive, Goto
  <2>2. ASSUME NEW h \in Handlers, Verify(h) PROVE DurableInv'
    BY <2>2, <2>0 DEF DurableInv, Verify, Goto, Finish
  <2>3. ASSUME NEW h \in Handlers, Decide(h) PROVE DurableInv'
    <3>1. CASE Finish(h)
      BY <2>3, <3>1, <2>0 DEF DurableInv, Decide, Finish
    <3>2. CASE Goto(h, "submit") /\ UNCHANGED pay
      BY <2>3, <3>2, <2>0 DEF DurableInv, Decide, Goto
    <3> QED
      BY <2>3, <3>1, <3>2, Zenon DEF Decide
  <2>4. ASSUME NEW h \in Handlers, Submit(h) PROVE DurableInv'
    BY <2>4, <2>0 DEF DurableInv, Submit, Goto, Finish, release
  <2>5. ASSUME NEW h \in Handlers, SettleTimeout(h) PROVE DurableInv'
    BY <2>5, <2>0 DEF DurableInv, SettleTimeout, Finish, release
  <2>6. ASSUME NEW h \in Handlers, SettleReceipt(h) PROVE DurableInv'
    BY <2>6, <2>0 DEF DurableInv, SettleReceipt, Goto, Finish, release
  <2>7. ASSUME NEW h \in Handlers, JournalSettlement(h) PROVE DurableInv'
    BY <2>7, <2>0, AppendKeepsSettlement DEF DurableInv, JournalSettlement, Goto, Finish,
       release
  <2>8. ASSUME NEW h \in Handlers, CommitSettlement(h) PROVE DurableInv'
    BY <2>8, <2>0, AppendKeepsSettlement DEF DurableInv, CommitSettlement, Goto, commit, Logged
  <2>9. ASSUME NEW h \in Handlers, BeginDeferred(h) PROVE DurableInv'
    BY <2>9, <2>0 DEF DurableInv, BeginDeferred, Finish, inflightPut
  <2>10. ASSUME NEW h \in Handlers, ResumeDeferred(h) PROVE DurableInv'
    BY <2>10, <2>0 DEF DurableInv, ResumeDeferred, Goto, Finish, inflightRemove
  <2>11. ASSUME NEW h \in Handlers, Deliver(h) PROVE DurableInv'
    BY <2>11, <2>0 DEF DurableInv, Deliver, Goto, Count
  <2>12. ASSUME NEW h \in Handlers, Refund(h) PROVE DurableInv'
    BY <2>12, <2>0, AppendKeepsSettlement DEF DurableInv, Refund, Finish, Logged, Count
  <2>13. ASSUME NEW h \in Handlers, Respond(h) PROVE DurableInv'
    BY <2>13, <2>0 DEF DurableInv, Respond, Finish
  <2>14. ASSUME NEW h \in Handlers, Mine(h) PROVE DurableInv'
    <3>1. pay[h] \in Payloads /\ nonce(h) \in Nonces
      BY <2>14, <2>0, PayloadFields DEF Mine
    <3>2. /\ \A n \in Nonces : paidBy[n] # None => paidBy'[n] # None
          /\ tx'[h] = "mined" => paidBy'[nonce(h)] # None
          /\ \A g \in Handlers : g # h => tx'[g] = tx[g]
      BY <2>14, <3>1, <2>0, PayloadAssumption DEF Mine, Include
    <3> QED
      BY <2>14, <3>2, <2>0, PayloadFields DEF DurableInv, Mine, Journals
  <2>15. ASSUME NEW r \in Revocations, Revoke(r) PROVE DurableInv'
    BY <2>15, <2>0 DEF DurableInv, Revoke
  <2>16. ASSUME NEW r \in Revocations, RecordRevocation(r) PROVE DurableInv'
    BY <2>16, <2>0, AppendKeepsSettlement DEF DurableInv, RecordRevocation, Logged
  <2>17. ASSUME NEW p \in Payloads, MineOrphan(p) PROVE DurableInv'
    <3>1. \A n \in Nonces : paidBy[n] # None => paidBy'[n] # None
      BY <2>17, <2>0, PayloadFields, PayloadAssumption DEF MineOrphan, Include
    <3> QED
      BY <2>17, <3>1, <2>0, PayloadFields DEF DurableInv, MineOrphan, Journals
  <2>18. ASSUME NEW x \in Mandates \cup Nonces, Lapse(x) PROVE DurableInv'
    BY <2>18, <2>0 DEF DurableInv, Lapse
  <2>19. ASSUME NEW k \in 0 .. MaxHead, Reorg(k) PROVE DurableInv'
    BY <2>19, NeverReorgs
  <2>20. ASSUME NewBlock PROVE DurableInv'
    BY <2>20, <2>0 DEF DurableInv, NewBlock
  <2>21. ASSUME Restart PROVE DurableInv'
    BY <2>21, <2>0 DEF DurableInv, Restart, RestoredSpends, RestoredSettlements
  <2>22. ASSUME UNCHANGED vars PROVE DurableInv'
    BY <2>22, <2>0 DEF DurableInv, vars
  <2> QED
    BY <2>1, <2>2, <2>3, <2>4, <2>5, <2>6, <2>7, <2>8, <2>9, <2>10, <2>11, <2>12, <2>13, <2>14,
       <2>15, <2>16, <2>17, <2>18, <2>19, <2>20, <2>21, <2>22, NextCases DEF HandlerStep
<1> QED
  BY <1>1, <1>2, GatewayTypeOK, PTL DEF Spec

\* On a chain that does not rewind, every answer that reports a settlement, and
\* every delivery, is about a payment that is on chain and journaled: whatever
\* fails, with duplicate requests and any number of restarts.
THEOREM AnswersAreDurable ==
  ASSUME MaxReorgs = 0
  PROVE  Spec => [](ToldIsDurable /\ DeliveredIsPaid)
<1>1. DurableInv => ToldIsDurable /\ DeliveredIsPaid
  BY DEF DurableInv, Durable, ToldIsDurable, DeliveredIsPaid, nonce
<1> QED
  BY <1>1, DurableInvariant, PTL

----------------------------------------------------------------------------
(* One outcome per payment.                                                *)

Untouched(n) == delivered[n] = 0 /\ refunded[n] = 0

\* The inductive strengthening: a payment has one open request at most; parked
\* or not yet delivered it is untouched; at the refund step only the money is.
OutcomeInv ==
  /\ \A g, h \in Handlers :
       pc[g] # "idle" /\ pc[h] # "idle" /\ nonce(g) = nonce(h) => g = h
  /\ \A n \in inflight :
       /\ Untouched(n)
       /\ \A h \in Handlers : pc[h] # "idle" /\ nonce(h) = n => pc[h] = "resume"
  /\ \A h \in Handlers :
       /\ pc[h] = "resume" => nonce(h) \in inflight
       /\ pc[h] \in {"journal", "commit", "park", "deliver"} \/ tx[h] = "mined" => Untouched(nonce(h))
       /\ pc[h] = "refund" => /\ refunded[nonce(h)] = 0
                              /\ "deliver_wait" \notin Faults => delivered[nonce(h)] = 0
  /\ \A n \in Nonces :
       /\ paidBy[n] = None => Untouched(n)
       /\ delivered[n] <= 1
       /\ "deliver_wait" \notin Faults => delivered[n] + refunded[n] <= 1

\* The strengthening is an invariant for agents with one open request per
\* payment, on a chain that does not rewind.
LEMMA OutcomeInvariant ==
  ASSUME SingleFlight, MaxReorgs = 0
  PROVE  Spec => []OutcomeInv
<1>1. Init => OutcomeInv
  BY DEF Init, OutcomeInv, Untouched
<1>2. TypeOK /\ DurableInv /\ OutcomeInv /\ [Next]_vars => OutcomeInv'
  <2> SUFFICES ASSUME TypeOK, DurableInv, OutcomeInv, [Next]_vars PROVE OutcomeInv'
    OBVIOUS
  <2>0. /\ pay \in [Handlers -> Payloads \cup {None}]
        /\ pc \in [Handlers -> PCs]
        /\ tx \in [Handlers -> {"none", "pending", "mined", "reverted"}]
        /\ paidBy \in [Nonces -> Payloads \cup {None}]
        /\ inflight \subseteq Nonces
        /\ delivered \in [Nonces -> Nat]
        /\ refunded \in [Nonces -> Nat]
        /\ \A h \in Handlers : /\ pc[h] # "idle" => pay[h] \in Payloads /\ nonce(h) \in Nonces
                               /\ tx[h] # "none" <=> pc[h] = "wait"
    BY PayloadFields DEF TypeOK, nonce
  <2> USE DEF handlerVars, accountVars, revokeVars, parkVars, chainVars, goodsVars, nonce, Untouched
  <2>1. ASSUME NEW h \in Handlers, NEW p \in Payloads, Receive(h, p) PROVE OutcomeInv'
    BY <2>1, <2>0, PayloadFields DEF OutcomeInv, Receive, Goto
  <2>2. ASSUME NEW h \in Handlers, Verify(h) PROVE OutcomeInv'
    <3>1. CASE Finish(h)
      BY <2>2, <3>1, <2>0 DEF OutcomeInv, Verify, Finish
    <3>2. CASE Goto(h, "decide") /\ UNCHANGED pay
      BY <2>2, <3>2, <2>0 DEF OutcomeInv, Verify, Goto
    <3> QED
      BY <2>2, <3>1, <3>2 DEF Verify
  <2>3. ASSUME NEW h \in Handlers, Decide(h) PROVE OutcomeInv'
    <3>1. CASE Finish(h)
      BY <2>3, <3>1, <2>0 DEF OutcomeInv, Decide, Finish
    <3>2. CASE Goto(h, "submit") /\ UNCHANGED pay
      BY <2>3, <3>2, <2>0 DEF OutcomeInv, Decide, Goto
    <3> QED
      BY <2>3, <3>1, <3>2, Zenon DEF Decide
  <2>4. ASSUME NEW h \in Handlers, Submit(h) PROVE OutcomeInv'
    <3>1. CASE Finish(h) /\ UNCHANGED tx
      BY <2>4, <3>1, <2>0 DEF OutcomeInv, Submit, Finish
    <3>2. CASE Goto(h, "wait") /\ tx' = [tx EXCEPT ![h] = "pending"] /\ UNCHANGED pay
      BY <2>4, <3>2, <2>0 DEF OutcomeInv, Submit, Goto
    <3> QED
      BY <2>4, <3>1, <3>2 DEF Submit
  <2>5. ASSUME NEW h \in Handlers, SettleTimeout(h) PROVE OutcomeInv'
    BY <2>5, <2>0 DEF OutcomeInv, SettleTimeout, Finish, release
  <2>6. ASSUME NEW h \in Handlers, SettleReceipt(h) PROVE OutcomeInv'
    BY <2>6, <2>0 DEF OutcomeInv, SettleReceipt, Goto, Finish, release
  <2>7. ASSUME NEW h \in Handlers, JournalSettlement(h) PROVE OutcomeInv'
    BY <2>7, <2>0 DEF OutcomeInv, JournalSettlement, Goto, Finish, release
  <2>8. ASSUME NEW h \in Handlers, CommitSettlement(h) PROVE OutcomeInv'
    BY <2>8, <2>0 DEF OutcomeInv, CommitSettlement, Goto, commit, Logged
  <2>9. ASSUME NEW h \in Handlers, BeginDeferred(h) PROVE OutcomeInv'
    BY <2>9, <2>0 DEF OutcomeInv, BeginDeferred, Finish, inflightPut
  <2>10. ASSUME NEW h \in Handlers, ResumeDeferred(h) PROVE OutcomeInv'
    <3>1. CASE Finish(h) /\ UNCHANGED inflight
      BY <2>10, <3>1, <2>0 DEF OutcomeInv, ResumeDeferred, Finish
    <3>2. CASE Goto(h, "deliver") /\ inflight' = inflightRemove(nonce(h)) /\ UNCHANGED pay
      BY <2>10, <3>2, <2>0 DEF OutcomeInv, ResumeDeferred, Goto, inflightRemove
    <3> QED
      BY <2>10, <3>1, <3>2, Zenon DEF ResumeDeferred
  <2>11. ASSUME NEW h \in Handlers, Deliver(h) PROVE OutcomeInv'
    BY <2>11, <2>0 DEF OutcomeInv, Deliver, Goto, Count, DurableInv, Durable
  <2>12. ASSUME NEW h \in Handlers, Refund(h) PROVE OutcomeInv'
    BY <2>12, <2>0 DEF OutcomeInv, Refund, Finish, Logged, Count, DurableInv, Durable
  <2>13. ASSUME NEW h \in Handlers, Respond(h) PROVE OutcomeInv'
    BY <2>13, <2>0 DEF OutcomeInv, Respond, Finish
  <2>14. ASSUME NEW h \in Handlers, Mine(h) PROVE OutcomeInv'
    BY <2>14, <2>0, PayloadFields, PayloadAssumption DEF OutcomeInv, Mine, Include
  <2>15. ASSUME NEW r \in Revocations, Revoke(r) PROVE OutcomeInv'
    BY <2>15, <2>0 DEF OutcomeInv, Revoke
  <2>16. ASSUME NEW r \in Revocations, RecordRevocation(r) PROVE OutcomeInv'
    BY <2>16, <2>0 DEF OutcomeInv, RecordRevocation, Logged
  <2>17. ASSUME NEW p \in Payloads, MineOrphan(p) PROVE OutcomeInv'
    BY <2>17, <2>0, PayloadFields, PayloadAssumption DEF OutcomeInv, MineOrphan, Include
  <2>18. ASSUME NEW x \in Mandates \cup Nonces, Lapse(x) PROVE OutcomeInv'
    BY <2>18, <2>0 DEF OutcomeInv, Lapse
  <2>19. ASSUME NEW k \in 0 .. MaxHead, Reorg(k) PROVE OutcomeInv'
    BY <2>19, NeverReorgs
  <2>20. ASSUME NewBlock PROVE OutcomeInv'
    BY <2>20, <2>0 DEF OutcomeInv, NewBlock
  <2>21. ASSUME Restart PROVE OutcomeInv'
    BY <2>21, <2>0 DEF OutcomeInv, Restart, RestoredSpends, RestoredSettlements
  <2>22. ASSUME UNCHANGED vars PROVE OutcomeInv'
    BY <2>22, <2>0 DEF OutcomeInv, vars
  <2> QED
    BY <2>1, <2>2, <2>3, <2>4, <2>5, <2>6, <2>7, <2>8, <2>9, <2>10, <2>11, <2>12, <2>13, <2>14,
       <2>15, <2>16, <2>17, <2>18, <2>19, <2>20, <2>21, <2>22, NextCases DEF HandlerStep
<1> QED
  BY <1>1, <1>2, GatewayTypeOK, DurableInvariant, PTL DEF Spec

\* For agents with one open request per payment, on a chain that does not
\* rewind, the goods are handed over at most once, across retries, deferrals
\* and restarts; when delivery learns its outcome, never beside a refund.
THEOREM OneOutcomePerPayment ==
  ASSUME SingleFlight, MaxReorgs = 0
  PROVE  Spec => [](DeliverOnce /\ ("deliver_wait" \notin Faults => OneOutcome))
<1>1. OutcomeInv => DeliverOnce /\ ("deliver_wait" \notin Faults => OneOutcome)
  BY DEF OutcomeInv, DeliverOnce, OneOutcome
<1> QED
  BY <1>1, OutcomeInvariant, PTL

----------------------------------------------------------------------------
(* The life of a payment.                                                  *)

\* A step that touches nothing the abstract specification sees.
LEMMA Stutters ==
  ASSUME UNCHANGED <<paidBy, delivered, refunded, told>>,
         journal'.settlement = journal.settlement
  PROVE  UNCHANGED Life!vars
  BY DEF Life!vars

\* Including a settlement is the payment of its nonce.
LEMMA IncludePays ==
  ASSUME TypeOK, NEW p \in Payloads, paidBy[p.nonce] = None, Include(p),
         UNCHANGED <<journal, delivered, refunded, told>>
  PROVE  Life!Next
<1>1. p.nonce \in Nonces /\ p # None /\ paidBy \in [Nonces -> Payloads \cup {None}]
  BY PayloadFields, PayloadAssumption DEF TypeOK
<1>2. {n \in Nonces : paidBy'[n] # None} = {n \in Nonces : paidBy[n] # None} \cup {p.nonce}
  BY <1>1 DEF Include
<1>3. p.nonce \notin {n \in Nonces : paidBy[n] # None}
  OBVIOUS
<1> QED
  BY <1>1, <1>2, <1>3 DEF Life!Next, Life!Pay

\* For agents with one open request per payment, on a chain that does not
\* rewind, while delivery learns its outcome, the gateway implements the life of
\* a payment (settle, deliver, refund: gateway.go:577-728): executed once, journaled before it
\* is answered, delivered or refunded at most once and only then told.
THEOREM GatewayImplementsPayment ==
  ASSUME SingleFlight, MaxReorgs = 0, "deliver_wait" \notin Faults
  PROVE  Spec => PaymentLife
<1>1. Init => Life!Init
  BY DEF Init, Life!Init
<1>2. TypeOK /\ DurableInv /\ OutcomeInv /\ [Next]_vars => [Life!Next]_(Life!vars)
  <2> SUFFICES ASSUME TypeOK, DurableInv, OutcomeInv, [Next]_vars PROVE [Life!Next]_(Life!vars)
    OBVIOUS
  <2>0. /\ journal \in Journals
        /\ delivered \in [Nonces -> Nat]
        /\ refunded \in [Nonces -> Nat]
        /\ \A h \in Handlers : /\ pc[h] # "idle" => pay[h] \in Payloads /\ nonce(h) \in Nonces
                               /\ tx[h] # "none" <=> pc[h] = "wait"
    BY PayloadFields DEF TypeOK, Journals, nonce
  <2> USE DEF handlerVars, accountVars, revokeVars, parkVars, chainVars, goodsVars, nonce
  <2>1. ASSUME NEW h \in Handlers, NEW p \in Payloads, Receive(h, p)
        PROVE  [Life!Next]_(Life!vars)
    BY <2>1, Stutters DEF Receive
  <2>2. ASSUME NEW h \in Handlers, Verify(h) PROVE [Life!Next]_(Life!vars)
    BY <2>2, Stutters DEF Verify
  <2>3. ASSUME NEW h \in Handlers, Decide(h) PROVE [Life!Next]_(Life!vars)
    BY <2>3, Stutters DEF Decide
  <2>4. ASSUME NEW h \in Handlers, Submit(h) PROVE [Life!Next]_(Life!vars)
    BY <2>4, Stutters DEF Submit
  <2>5. ASSUME NEW h \in Handlers, SettleTimeout(h) PROVE [Life!Next]_(Life!vars)
    BY <2>5, Stutters DEF SettleTimeout
  <2>6. ASSUME NEW h \in Handlers, SettleReceipt(h) PROVE [Life!Next]_(Life!vars)
    BY <2>6, Stutters DEF SettleReceipt
  <2>7. ASSUME NEW h \in Handlers, JournalSettlement(h) PROVE [Life!Next]_(Life!vars)
    <3>1. CASE journal' = Appended("settlement", nonce(h))
      <4>1. UNCHANGED <<paidBy, delivered, refunded, told>>
        BY <2>7 DEF JournalSettlement
      <4>2. journal'.settlement = journal.settlement \cup {nonce(h)}
        BY <3>1, <2>0, AppendKeepsSettlement
      <4>3. nonce(h) \in Nonces /\ paidBy[nonce(h)] # None
        BY <2>7, <2>0 DEF JournalSettlement, DurableInv
      <4>4. CASE nonce(h) \in journal.settlement
        <5>1. journal'.settlement = journal.settlement
          BY <4>2, <4>4
        <5> QED
          BY <4>1, <5>1, Stutters
      <4>5. CASE nonce(h) \notin journal.settlement
        BY <4>1, <4>2, <4>3, <4>5 DEF Life!Next, Life!Record
      <4> QED
        BY <4>4, <4>5
    <3>2. CASE UNCHANGED journal
      BY <2>7, <3>2, Stutters DEF JournalSettlement
    <3> QED
      BY <2>7, <3>1, <3>2 DEF JournalSettlement
  <2>8. ASSUME NEW h \in Handlers, CommitSettlement(h) PROVE [Life!Next]_(Life!vars)
    BY <2>8, <2>0, AppendKeepsSettlement, Stutters DEF CommitSettlement, Logged
  <2>9. ASSUME NEW h \in Handlers, BeginDeferred(h) PROVE [Life!Next]_(Life!vars)
    <3>1. nonce(h) \in Nonces /\ nonce(h) \in journal.settlement
      BY <2>9, <2>0 DEF BeginDeferred, DurableInv, Durable
    <3> QED
      BY <2>9, <3>1 DEF BeginDeferred, Life!Next, Life!Tell
  <2>10. ASSUME NEW h \in Handlers, ResumeDeferred(h) PROVE [Life!Next]_(Life!vars)
    BY <2>10, Stutters DEF ResumeDeferred
  <2>11. ASSUME NEW h \in Handlers, Deliver(h) PROVE [Life!Next]_(Life!vars)
    <3>1. UNCHANGED <<paidBy, journal, refunded, told>>
      BY <2>11 DEF Deliver
    <3>2. CASE delivered' = Count(delivered, h)
      <4>1. /\ nonce(h) \in Nonces /\ nonce(h) \in journal.settlement
            /\ delivered[nonce(h)] = 0 /\ refunded[nonce(h)] = 0
        BY <2>11, <2>0 DEF Deliver, DurableInv, Durable, OutcomeInv, Untouched
      <4>2. delivered' = [delivered EXCEPT ![nonce(h)] = 1]
        BY <3>2, <4>1, <2>0 DEF Count
      <4>3. Life!Deliver(nonce(h))
        BY <3>1, <4>1, <4>2 DEF Life!Deliver, Life!Untouched
      <4> QED
        BY <4>1, <4>3 DEF Life!Next
    <3>3. CASE UNCHANGED delivered
      BY <3>1, <3>3, Stutters
    <3> QED
      BY <2>11, <3>2, <3>3 DEF Deliver
  <2>12. ASSUME NEW h \in Handlers, Refund(h) PROVE [Life!Next]_(Life!vars)
    <3>1. /\ UNCHANGED <<paidBy, delivered>> /\ told' = told \cup {nonce(h)}
          /\ journal'.settlement = journal.settlement
      BY <2>12, <2>0, AppendKeepsSettlement DEF Refund, Logged
    <3>2. /\ nonce(h) \in Nonces /\ nonce(h) \in journal.settlement
          /\ delivered[nonce(h)] = 0 /\ refunded[nonce(h)] = 0
      BY <2>12, <2>0 DEF Refund, DurableInv, Durable, OutcomeInv
    <3>3. CASE refunded' = Count(refunded, h)
      <4>1. refunded' = [refunded EXCEPT ![nonce(h)] = 1]
        BY <3>2, <3>3, <2>0 DEF Count
      <4>2. Life!Refund(nonce(h))
        BY <3>1, <3>2, <4>1 DEF Life!Refund, Life!Untouched
      <4> QED
        BY <3>2, <4>2 DEF Life!Next
    <3>4. CASE UNCHANGED refunded
      BY <3>1, <3>2, <3>4 DEF Life!Next, Life!Tell
    <3> QED
      BY <2>12, <3>3, <3>4 DEF Refund
  <2>13. ASSUME NEW h \in Handlers, Respond(h) PROVE [Life!Next]_(Life!vars)
    <3>1. nonce(h) \in Nonces /\ nonce(h) \in journal.settlement
      BY <2>13, <2>0 DEF Respond, DurableInv, Durable
    <3> QED
      BY <2>13, <3>1 DEF Respond, Life!Next, Life!Tell
  <2>14. ASSUME NEW h \in Handlers, Mine(h) PROVE [Life!Next]_(Life!vars)
    <3>1. UNCHANGED <<journal, delivered, refunded, told>>
      BY <2>14 DEF Mine
    <3>2. CASE UNCHANGED paidBy
      BY <3>1, <3>2, Stutters
    <3>3. CASE paidBy[nonce(h)] = None /\ Include(pay[h])
      <4>1. pay[h] \in Payloads
        BY <2>14, <2>0 DEF Mine
      <4> QED
        BY <3>1, <3>3, <4>1, IncludePays
    <3> QED
      BY <2>14, <3>2, <3>3 DEF Mine
  <2>15. ASSUME NEW r \in Revocations, Revoke(r) PROVE [Life!Next]_(Life!vars)
    BY <2>15, Stutters DEF Revoke
  <2>16. ASSUME NEW r \in Revocations, RecordRevocation(r) PROVE [Life!Next]_(Life!vars)
    BY <2>16, <2>0, AppendKeepsSettlement, Stutters DEF RecordRevocation, Logged
  <2>17. ASSUME NEW p \in Payloads, MineOrphan(p) PROVE [Life!Next]_(Life!vars)
    <3>1. UNCHANGED <<journal, delivered, refunded, told>>
      BY <2>17 DEF MineOrphan
    <3> QED
      BY <2>17, <3>1, Stutters, IncludePays DEF MineOrphan
  <2>18. ASSUME NEW x \in Mandates \cup Nonces, Lapse(x) PROVE [Life!Next]_(Life!vars)
    BY <2>18, Stutters DEF Lapse
  <2>19. ASSUME NEW k \in 0 .. MaxHead, Reorg(k) PROVE [Life!Next]_(Life!vars)
    BY <2>19, NeverReorgs
  <2>20. ASSUME NewBlock PROVE [Life!Next]_(Life!vars)
    BY <2>20, Stutters DEF NewBlock
  <2>21. ASSUME Restart PROVE [Life!Next]_(Life!vars)
    BY <2>21, Stutters DEF Restart
  <2>22. ASSUME UNCHANGED vars PROVE [Life!Next]_(Life!vars)
    BY <2>22, Stutters DEF vars
  <2> QED
    BY <2>1, <2>2, <2>3, <2>4, <2>5, <2>6, <2>7, <2>8, <2>9, <2>10, <2>11, <2>12, <2>13, <2>14,
       <2>15, <2>16, <2>17, <2>18, <2>19, <2>20, <2>21, <2>22, NextCases DEF HandlerStep
<1> QED
  BY <1>1, <1>2, GatewayTypeOK, DurableInvariant, OutcomeInvariant, PTL DEF Spec, PaymentLife,
     Life!Spec

----------------------------------------------------------------------------
(* The confirm depth.                                                      *)

\* The settlement of n is at the confirm depth.
Deep(n) == head - minedAt[n] >= ConfirmDepth

\* The inductive strengthening: a parked entry and the request that resumes it
\* know the block of the settlement, and only a payment that need not be deferred
\* goes to delivery from the settlement.
DeepInv ==
  /\ \A n \in inflight : submitted[n] = minedAt[n]
  /\ \A h \in Handlers :
       /\ pc[h] = "resume" => block[h] = minedAt[nonce(h)]
       /\ pc[h] \in Settling /\ Deferrable(Amount[nonce(h)]) => act[h] = "defer"
       /\ pc[h] = "deliver" /\ Deferrable(Amount[nonce(h)]) => Deep(nonce(h))
  /\ \A n \in Nonces :
       delivered[n] > 0 => paidBy[n] # None /\ (Deferrable(Amount[n]) => Deep(n))

\* No payload states less than DeferAbove for a payment that was signed for more.
StatesDeferral == \A p \in Payloads : Deferrable(Amount[p.nonce]) => Deferrable(p.value)

\* On a chain that does not rewind, while the settlement receipt can be read and
\* no retry states a value below DeferAbove for a payment signed for more, a
\* payment large enough to be deferred is handed over only at the confirm depth,
\* with duplicate requests and restarts.  The condition on retries is needed:
\* resumeDeferred gives the policy a payload nobody verified (gateway.go:338-341,
\* 653-673).
THEOREM DeferredIsDeliveredDeep ==
  ASSUME MaxReorgs = 0, "receipt" \notin Faults, StatesDeferral
  PROVE  Spec => []DeliveredDeep
<1>1. Init => DeepInv
  BY DEF Init, DeepInv, Settling
<1>2. TypeOK /\ DurableInv /\ DeepInv /\ [Next]_vars => DeepInv'
  <2> SUFFICES ASSUME TypeOK, DurableInv, DeepInv, [Next]_vars PROVE DeepInv'
    OBVIOUS
  <2>0. /\ pay \in [Handlers -> Payloads \cup {None}]
        /\ pc \in [Handlers -> PCs]
        /\ act \in [Handlers -> Actions] /\ block \in [Handlers -> Nat]
        /\ tx \in [Handlers -> {"none", "pending", "mined", "reverted"}]
        /\ paidBy \in [Nonces -> Payloads \cup {None}] /\ minedAt \in [Nonces -> Nat]
        /\ inflight \subseteq Nonces /\ submitted \in [Nonces -> Nat]
        /\ delivered \in [Nonces -> Nat] /\ head \in Nat /\ ConfirmDepth \in Nat
        /\ \A h \in Handlers : /\ pc[h] # "idle" => pay[h] \in Payloads /\ nonce(h) \in Nonces
                               /\ tx[h] # "none" <=> pc[h] = "wait"
    BY PayloadFields, LimitAssumption DEF TypeOK, nonce
  <2> USE DEF handlerVars, accountVars, revokeVars, parkVars, chainVars, goodsVars, nonce, Settling
  <2>1. ASSUME NEW h \in Handlers, NEW p \in Payloads, Receive(h, p) PROVE DeepInv'
    BY <2>1, <2>0 DEF Receive, Goto, DeepInv, Deep
  <2>2. ASSUME NEW h \in Handlers, Verify(h) PROVE DeepInv'
    BY <2>2, <2>0 DEF Verify, Goto, Finish, DeepInv, Deep
  <2>3. ASSUME NEW h \in Handlers, Decide(h) PROVE DeepInv'
    <3>1. CASE Finish(h)
      BY <2>3, <3>1, <2>0 DEF Decide, Finish, DeepInv, Deep
    <3>2. CASE ~Finish(h)
      <4>1. PICK table \in TableActions :
              /\ Goto(h, "submit")
              /\ act' = [act EXCEPT ![h] = ChainDecision(pay[h], FALSE, table)]
        BY <2>3, <3>2, Zenon DEF Decide
      <4>2. UNCHANGED <<pay, block, inflight, submitted, minedAt, paidBy, head, delivered>>
        BY <2>3, <3>2 DEF Decide
      <4>3. Deferrable(Amount[nonce(h)]) => act'[h] = "defer"
        <5>1. pay[h] \in Payloads /\ act'[h] = ChainDecision(pay[h], FALSE, table)
          BY <2>3, <4>1, <2>0 DEF Decide
        <5> QED
          BY <5>1 DEF ChainDecision, paymentAmount, StatesDeferral
      <4> QED
        BY <4>1, <4>2, <4>3, <2>0 DEF Goto, DeepInv, Deep
    <3> QED
      BY <3>1, <3>2
  <2>4. ASSUME NEW h \in Handlers, Submit(h) PROVE DeepInv'
    BY <2>4, <2>0 DEF Submit, Goto, Finish, DeepInv, Deep
  <2>5. ASSUME NEW h \in Handlers, SettleTimeout(h) PROVE DeepInv'
    BY <2>5, <2>0 DEF SettleTimeout, Finish, DeepInv, Deep
  <2>6. ASSUME NEW h \in Handlers, SettleReceipt(h) PROVE DeepInv'
    BY <2>6, <2>0 DEF SettleReceipt, Goto, Finish, DeepInv, Deep
  <2>7. ASSUME NEW h \in Handlers, JournalSettlement(h) PROVE DeepInv'
    BY <2>7, <2>0 DEF JournalSettlement, Goto, Finish, DeepInv, Deep
  <2>8. ASSUME NEW h \in Handlers, CommitSettlement(h) PROVE DeepInv'
    BY <2>8, <2>0 DEF CommitSettlement, Goto, DeepInv, Deep
  <2>9. ASSUME NEW h \in Handlers, BeginDeferred(h) PROVE DeepInv'
    BY <2>9, <2>0 DEF BeginDeferred, Finish, inflightPut, DeepInv, Deep
  <2>10. ASSUME NEW h \in Handlers, ResumeDeferred(h) PROVE DeepInv'
    <3>1. CASE Finish(h)
      BY <2>10, <3>1, <2>0 DEF ResumeDeferred, Finish, inflightRemove, DeepInv, Deep
    <3>2. CASE ~Finish(h)
      <4>1. /\ Goto(h, "deliver") /\ inflight' \subseteq inflight /\ pc[h] = "resume"
            /\ UNCHANGED <<pay, act, block, submitted, minedAt, paidBy, head, delivered>>
        BY <2>10, <3>2 DEF ResumeDeferred, inflightRemove
      <4>2. Deferrable(Amount[nonce(h)]) => Confirmed(h)
        <5>1. \E table \in TableActions : ChainDecision(pay[h], Confirmed(h), table) = "approve"
          BY <2>10, <3>2 DEF ResumeDeferred
        <5>2. pay[h] \in Payloads
          BY <4>1, <2>0
        <5> QED
          BY <5>1, <5>2 DEF ChainDecision, paymentAmount, StatesDeferral
      <4>3. Deferrable(Amount[nonce(h)]) => Deep(nonce(h))
        BY <4>1, <4>2, <2>0 DEF Confirmed, DeepInv, Deep
      <4> QED
        BY <4>1, <4>3, <2>0 DEF Goto, DeepInv, Deep
    <3> QED
      BY <3>1, <3>2
  <2>11. ASSUME NEW h \in Handlers, Deliver(h) PROVE DeepInv'
    <3>1. paidBy[nonce(h)] # None /\ pc[h] = "deliver"
      BY <2>11 DEF Deliver, DurableInv, Durable
    <3>2. /\ UNCHANGED <<pay, act, block, inflight, submitted, minedAt, paidBy, head>>
          /\ \A n \in Nonces : n # nonce(h) => delivered'[n] = delivered[n]
          /\ \A g \in Handlers : g # h => pc'[g] = pc[g]
          /\ pc'[h] \in {"respond", "refund"}
      BY <2>11, <2>0 DEF Deliver, Goto, Count
    <3> QED
      BY <3>1, <3>2, <2>0 DEF DeepInv, Deep
  <2>12. ASSUME NEW h \in Handlers, Refund(h) PROVE DeepInv'
    BY <2>12, <2>0 DEF Refund, Finish, DeepInv, Deep
  <2>13. ASSUME NEW h \in Handlers, Respond(h) PROVE DeepInv'
    BY <2>13, <2>0 DEF Respond, Finish, DeepInv, Deep
  <2>14. ASSUME NEW h \in Handlers, Mine(h) PROVE DeepInv'
    <3>1. \A n \in Nonces : paidBy[n] # None => paidBy'[n] # None /\ minedAt'[n] = minedAt[n]
      BY <2>14, <2>0, PayloadFields, PayloadAssumption DEF Mine, Include
    <3>2. \A g \in Handlers : pc[g] \in {"resume", "deliver"} => paidBy[nonce(g)] # None
      BY DEF DurableInv, Durable
    <3>3. \A n \in inflight : paidBy[n] # None
      BY DEF DurableInv, Durable
    <3>4. UNCHANGED <<pc, pay, act, block, inflight, submitted, head, delivered>>
      BY <2>14 DEF Mine
    <3> QED
      BY <3>1, <3>2, <3>3, <3>4, <2>0 DEF DeepInv, Deep
  <2>15. ASSUME NEW r \in Revocations, Revoke(r) PROVE DeepInv'
    BY <2>15, <2>0 DEF Revoke, DeepInv, Deep
  <2>16. ASSUME NEW r \in Revocations, RecordRevocation(r) PROVE DeepInv'
    BY <2>16, <2>0 DEF RecordRevocation, DeepInv, Deep
  <2>17. ASSUME NEW p \in Payloads, MineOrphan(p) PROVE DeepInv'
    <3>1. \A n \in Nonces : paidBy[n] # None => paidBy'[n] # None /\ minedAt'[n] = minedAt[n]
      BY <2>17, <2>0, PayloadFields, PayloadAssumption DEF MineOrphan, Include
    <3>2. \A g \in Handlers : pc[g] \in {"resume", "deliver"} => paidBy[nonce(g)] # None
      BY DEF DurableInv, Durable
    <3>3. \A n \in inflight : paidBy[n] # None
      BY DEF DurableInv, Durable
    <3>4. UNCHANGED <<pc, pay, act, block, inflight, submitted, head, delivered>>
      BY <2>17 DEF MineOrphan
    <3> QED
      BY <3>1, <3>2, <3>3, <3>4, <2>0 DEF DeepInv, Deep
  <2>18. ASSUME NEW x \in Mandates \cup Nonces, Lapse(x) PROVE DeepInv'
    BY <2>18, <2>0 DEF Lapse, DeepInv, Deep
  <2>19. ASSUME NEW k \in 0 .. MaxHead, Reorg(k) PROVE DeepInv'
    BY <2>19, NeverReorgs
  <2>20. ASSUME NewBlock PROVE DeepInv'
    BY <2>20, <2>0 DEF NewBlock, DeepInv, Deep
  <2>21. ASSUME Restart PROVE DeepInv'
    BY <2>21, <2>0 DEF Restart, DeepInv, Deep
  <2>22. ASSUME UNCHANGED vars PROVE DeepInv'
    BY <2>22, <2>0 DEF vars, DeepInv, Deep
  <2> QED
    BY <2>1, <2>2, <2>3, <2>4, <2>5, <2>6, <2>7, <2>8, <2>9, <2>10, <2>11, <2>12, <2>13, <2>14,
       <2>15, <2>16, <2>17, <2>18, <2>19, <2>20, <2>21, <2>22, NextCases DEF HandlerStep
<1>3. DeepInv => DeliveredDeep
  BY DEF DeepInv, Deep, DeliveredDeep
<1> QED
  BY <1>1, <1>2, <1>3, GatewayTypeOK, DurableInvariant, PTL DEF Spec

----------------------------------------------------------------------------
(* The accounting.                                                         *)

\* A payment has one open request at most.
SingleRequest ==
  \A g, h \in Handlers : pc[g] # "idle" /\ pc[h] # "idle" /\ nonce(g) = nonce(h) => g = h

\* A handler holds its reservation until settle() ends.
HoldsReservation ==
  \A h \in Handlers : pc[h] \in Settling => nonce(h) \in reserved[mandate(h)]

\* h knows that p settled and has not yet committed it.
Committing(h, p) == pay[h] = p /\ pc[h] \in {"journal", "commit"}

\* p's settlement is a committed spend, or a handler is about to commit it.
Accounted(p) ==
  \/ p.nonce \in spends[p.mandate]
  \/ \E h \in Handlers : Committing(h, p) \/ (pay[h] = p /\ tx[h] = "mined")

\* The inductive strengthening: it also covers transactions a reorg returned to
\* the mempool, which may be mined again.
CountedInv ==
  /\ SingleRequest
  /\ HoldsReservation
  /\ \A p \in orphans : p.nonce \in spends[p.mandate] \/ \E h \in Handlers : Committing(h, p)
  /\ \A n \in Nonces : paidBy[n] # None => paidBy[n].nonce = n /\ Accounted(paidBy[n])

\* The strengthening is an invariant for agents with one open request per
\* payment, while the gateway stays up, the journal works and settle learns its
\* outcome.
LEMMA CountedInvariant ==
  ASSUME SingleFlight, Faults \cap {"timeout", "journal", "crash"} = {}
  PROVE  Spec => []CountedInv
<1>1. Init => CountedInv
  BY DEF Init, CountedInv, SingleRequest, HoldsReservation, Settling
<1>2. TypeOK /\ CountedInv /\ [Next]_vars => CountedInv'
  <2> SUFFICES ASSUME TypeOK, CountedInv, [Next]_vars PROVE CountedInv'
    OBVIOUS
  <2>0. /\ pay \in [Handlers -> Payloads \cup {None}]
        /\ pc \in [Handlers -> PCs]
        /\ act \in [Handlers -> Actions]
        /\ tx \in [Handlers -> {"none", "pending", "mined", "reverted"}]
        /\ paidBy \in [Nonces -> Payloads \cup {None}]
        /\ reserved \in [Mandates -> SUBSET Nonces]
        /\ spends \in [Mandates -> SUBSET Nonces]
        /\ orphans \subseteq Payloads
        /\ inflight \subseteq Nonces /\ told \subseteq Nonces
        /\ journal \in Journals
        /\ \A h \in Handlers :
             /\ pc[h] # "idle" => pay[h] \in Payloads /\ pay[h].nonce \in Nonces /\ pay[h].mandate \in Mandates
             /\ tx[h] # "none" <=> pc[h] = "wait"
    BY PayloadFields DEF TypeOK, Journals
  <2> USE DEF handlerVars, accountVars, revokeVars, parkVars, chainVars, goodsVars, nonce, mandate, Settling
  <2> USE DEF SingleRequest, HoldsReservation, Accounted, Committing
  <2>1. ASSUME NEW h \in Handlers, NEW p \in Payloads, Receive(h, p) PROVE CountedInv'
    BY <2>1, <2>0, PayloadFields DEF CountedInv, Receive, Goto
  <2>2. ASSUME NEW h \in Handlers, Verify(h) PROVE CountedInv'
    <3>1. CASE Finish(h)
      BY <2>2, <3>1, <2>0 DEF CountedInv, Verify, Finish
    <3>2. CASE Goto(h, "decide") /\ UNCHANGED pay
      BY <2>2, <3>2, <2>0 DEF CountedInv, Verify, Goto
    <3> QED
      BY <2>2, <3>1, <3>2, Zenon DEF Verify
  <2>3. ASSUME NEW h \in Handlers, Decide(h) PROVE CountedInv'
    <3>1. CASE Finish(h) /\ UNCHANGED accountVars
      BY <2>3, <3>1, <2>0 DEF CountedInv, Decide, Finish
    <3>2. CASE /\ Finish(h) /\ UNCHANGED spends
               /\ reserved' = [reserved EXCEPT ![pay[h].mandate] = @ \cup {pay[h].nonce}]
      BY <2>3, <3>2, <2>0 DEF CountedInv, Decide, Finish
    <3>3. CASE /\ Goto(h, "submit") /\ UNCHANGED <<pay, spends>>
               /\ reserved' = [reserved EXCEPT ![pay[h].mandate] = @ \cup {pay[h].nonce}]
      BY <2>3, <3>3, <2>0 DEF CountedInv, Decide, Goto
    <3> QED
      BY <2>3, <3>1, <3>2, <3>3, Zenon DEF Decide
  <2>4. ASSUME NEW h \in Handlers, Submit(h) PROVE CountedInv'
    <3>1. CASE Finish(h) /\ release(h) /\ UNCHANGED tx
      BY <2>4, <3>1, <2>0 DEF CountedInv, Submit, Finish, release
    <3>2. CASE Goto(h, "wait") /\ UNCHANGED <<pay, accountVars>> /\ tx' = [tx EXCEPT ![h] = "pending"]
      BY <2>4, <3>2, <2>0 DEF CountedInv, Submit, Goto
    <3> QED
      BY <2>4, <3>1, <3>2, Zenon DEF Submit
  <2>5. ASSUME NEW h \in Handlers, SettleTimeout(h) PROVE CountedInv'
    BY <2>5, <2>0 DEF CountedInv, SettleTimeout, Finish, release
  <2>6. ASSUME NEW h \in Handlers, SettleReceipt(h) PROVE CountedInv'
    <3>1. CASE tx[h] = "reverted" /\ Finish(h) /\ release(h)
      BY <2>6, <3>1, <2>0 DEF CountedInv, SettleReceipt, Finish, release
    <3>2. CASE tx[h] = "mined" /\ Goto(h, "journal") /\ UNCHANGED <<pay, accountVars>>
      BY <2>6, <3>2, <2>0 DEF CountedInv, SettleReceipt, Goto
    <3> QED
      BY <2>6, <3>1, <3>2, Zenon DEF SettleReceipt
  <2>7. ASSUME NEW h \in Handlers, JournalSettlement(h) PROVE CountedInv'
    BY <2>7, <2>0 DEF CountedInv, JournalSettlement, Goto, Finish, release
  <2>8. ASSUME NEW h \in Handlers, CommitSettlement(h) PROVE CountedInv'
    <3>1. /\ reserved' = [reserved EXCEPT ![mandate(h)] = @ \ {nonce(h)}]
          /\ spends' = [spends EXCEPT ![mandate(h)] = @ \cup {nonce(h)}]
      BY <2>8, <2>0 DEF CountedInv, CommitSettlement, commit
    <3>2. pc' = [pc EXCEPT ![h] = IF act[h] = "defer" THEN "park" ELSE "deliver"] /\ UNCHANGED pay
      BY <2>8 DEF CommitSettlement, Goto
    <3>3. SingleRequest' /\ HoldsReservation'
      BY <2>8, <3>1, <3>2, <2>0 DEF CountedInv, CommitSettlement
    <3>4. ASSUME NEW p \in Payloads, Accounted(p) PROVE Accounted(p)'
      BY <2>8, <3>1, <3>2, <3>4, <2>0, PayloadFields DEF CommitSettlement
    <3>5. ASSUME NEW p \in Payloads, NEW g \in Handlers, Committing(g, p)
          PROVE  p.nonce \in spends'[p.mandate] \/ Committing(g, p)'
      BY <2>8, <3>1, <3>2, <3>5, <2>0, PayloadFields DEF CommitSettlement
    <3>6. \A p \in Payloads : p.nonce \in spends[p.mandate] => p.nonce \in spends'[p.mandate]
      BY <3>1, <2>0, PayloadFields
    <3> QED
      BY <2>8, <3>3, <3>4, <3>5, <3>6, <2>0 DEF CountedInv, CommitSettlement
  <2>9. ASSUME NEW h \in Handlers, BeginDeferred(h) PROVE CountedInv'
    BY <2>9, <2>0 DEF CountedInv, BeginDeferred, Finish, inflightPut
  <2>10. ASSUME NEW h \in Handlers, ResumeDeferred(h) PROVE CountedInv'
    BY <2>10, <2>0 DEF CountedInv, ResumeDeferred, Goto, Finish, inflightRemove
  <2>11. ASSUME NEW h \in Handlers, Deliver(h) PROVE CountedInv'
    BY <2>11, <2>0 DEF CountedInv, Deliver, Goto, Count
  <2>12. ASSUME NEW h \in Handlers, Refund(h) PROVE CountedInv'
    BY <2>12, <2>0 DEF CountedInv, Refund, Finish, Logged, Count
  <2>13. ASSUME NEW h \in Handlers, Respond(h) PROVE CountedInv'
    BY <2>13, <2>0 DEF CountedInv, Respond, Finish
  <2>14. ASSUME NEW h \in Handlers, Mine(h) PROVE CountedInv'
    BY <2>14, <2>0, PayloadFields, PayloadAssumption DEF CountedInv, Mine, Include
  <2>15. ASSUME NEW r \in Revocations, Revoke(r) PROVE CountedInv'
    BY <2>15, <2>0 DEF CountedInv, Revoke
  <2>16. ASSUME NEW r \in Revocations, RecordRevocation(r) PROVE CountedInv'
    BY <2>16, <2>0 DEF CountedInv, RecordRevocation, Logged
  <2>17. ASSUME NEW p \in Payloads, MineOrphan(p) PROVE CountedInv'
    BY <2>17, <2>0, PayloadFields, PayloadAssumption DEF CountedInv, MineOrphan, Include
  <2>18. ASSUME NEW x \in Mandates \cup Nonces, Lapse(x) PROVE CountedInv'
    BY <2>18, <2>0 DEF CountedInv, Lapse
  <2>19. ASSUME NEW k \in 0 .. MaxHead, Reorg(k) PROVE CountedInv'
    <3>1. UNCHANGED <<pc, pay, reserved, spends>>
      BY <2>19 DEF Reorg
    <3>2. /\ \A n \in Nonces : paidBy'[n] # None =>
               /\ paidBy'[n] = paidBy[n]
               /\ ~\E h \in Handlers : tx[h] = "mined" /\ nonce(h) = n /\ tx'[h] # "mined"
          /\ \A p \in orphans' \ orphans : \E n \in Nonces :
               /\ p = paidBy[n] /\ paidBy[n] # None
               /\ ~\E h \in Handlers : tx[h] = "mined" /\ nonce(h) = n
          /\ \A h \in Handlers : tx'[h] # tx[h] => tx[h] = "mined"
      BY <2>19, <2>0 DEF Reorg
    <3> QED
      BY <3>1, <3>2, <2>0 DEF CountedInv
  <2>20. ASSUME NewBlock PROVE CountedInv'
    BY <2>20, <2>0 DEF CountedInv, NewBlock
  <2>21. ASSUME Restart PROVE CountedInv'
    BY <2>21, <2>0 DEF CountedInv, Restart, RestoredSpends, RestoredSettlements
  <2>22. ASSUME UNCHANGED vars PROVE CountedInv'
    BY <2>22, <2>0 DEF CountedInv, vars
  <2> QED
    BY <2>1, <2>2, <2>3, <2>4, <2>5, <2>6, <2>7, <2>8, <2>9, <2>10, <2>11, <2>12, <2>13, <2>14,
       <2>15, <2>16, <2>17, <2>18, <2>19, <2>20, <2>21, <2>22, NextCases DEF HandlerStep
<1> QED
  BY <1>1, <1>2, GatewayTypeOK, PTL DEF Spec

\* For agents with one open request per payment, while the gateway stays up, the
\* journal works and settle learns its outcome, every payment on chain counts
\* against its mandate: also across any number of reorgs.
THEOREM EverySettlementCounts ==
  ASSUME SingleFlight, Faults \cap {"timeout", "journal", "crash"} = {}
  PROVE  Spec => []SettledIsCounted
<1>1. TypeOK /\ CountedInv => SettledIsCounted
  BY DEF TypeOK, CountedInv, HoldsReservation, Accounted, Committing, Settling,
     SettledIsCounted, nonce, mandate
<1> QED
  BY <1>1, CountedInvariant, GatewayTypeOK, PTL

----------------------------------------------------------------------------
(* The limits of a mandate.                                                *)

\* The accounts hold finitely many payments.
FinitelyMany == \A m \in Mandates : IsFiniteSet(spends[m]) /\ IsFiniteSet(reserved[m])

\* Payload p is on chain, is being settled, or may still be mined.
Live(p) ==
  \/ \E h \in Handlers : pc[h] \in Settling /\ pay[h] = p
  \/ paidBy[p.nonce] = p
  \/ p \in orphans

\* The nonces that are live under m, and those without a confirmation.
LiveUnder(m) == {n \in Nonces : \E p \in Payloads : p.nonce = n /\ p.mandate = m /\ Live(p)}
Unconfirmed(m) ==
  {n \in Nonces : \E p \in Payloads : p.nonce = n /\ p.mandate = m /\ Live(p) /\ ~p.confirmed}

\* The inductive strengthening: the limits hold for all that may still settle.
LimitInv ==
  \A m \in Mandates :
    /\ Budget[m] > 0 => SumOf(Unconfirmed(m)) <= Budget[m]
    /\ MaxPaymentsPerWindow[m] > 0 => Cardinality(LiveUnder(m)) <= MaxPaymentsPerWindow[m]

\* Releasing a reservation leaves fewer.
LEMMA Releases ==
  ASSUME TypeOK, FinitelyMany, NEW h \in Handlers, release(h)
  PROVE  FinitelyMany'
  BY FS_Subset DEF TypeOK, FinitelyMany, release

\* The accounts grow by one payment at a time.
LEMMA FinitelyManyInvariant ==
  ASSUME Faults \cap {"timeout", "journal", "crash"} = {}
  PROVE  Spec => []FinitelyMany
<1>1. Init => FinitelyMany
  BY FS_EmptySet DEF Init, FinitelyMany
<1>2. TypeOK /\ FinitelyMany /\ [Next]_vars => FinitelyMany'
  <2> SUFFICES ASSUME TypeOK, FinitelyMany, [Next]_vars PROVE FinitelyMany'
    OBVIOUS
  <2>0. reserved \in [Mandates -> SUBSET Nonces] /\ spends \in [Mandates -> SUBSET Nonces]
    BY DEF TypeOK
  <2> USE DEF handlerVars, accountVars, revokeVars, parkVars, chainVars, goodsVars
  <2>1. ASSUME NEW h \in Handlers, NEW p \in Payloads, Receive(h, p) PROVE FinitelyMany'
    BY <2>1 DEF Receive, Goto, FinitelyMany
  <2>2. ASSUME NEW h \in Handlers, Verify(h) PROVE FinitelyMany'
    BY <2>2 DEF Verify, Goto, Finish, FinitelyMany
  <2>3. ASSUME NEW h \in Handlers, Decide(h) PROVE FinitelyMany'
    <3>1. CASE UNCHANGED accountVars
      BY <3>1 DEF FinitelyMany
    <3>2. CASE ~UNCHANGED accountVars
      <4>1. /\ reserved' = [reserved EXCEPT ![mandate(h)] = @ \cup {nonce(h)}]
            /\ UNCHANGED spends
        BY <2>3, <3>2, Zenon DEF Decide, nonce, mandate
      <4> QED
        BY <4>1, <2>0, FS_AddElement DEF FinitelyMany
    <3> QED
      BY <3>1, <3>2
  <2>4. ASSUME NEW h \in Handlers, Submit(h) PROVE FinitelyMany'
    <3>1. CASE UNCHANGED accountVars
      BY <3>1 DEF FinitelyMany
    <3>2. CASE release(h)
      BY <3>2, Releases DEF FinitelyMany
    <3> QED
      BY <2>4, <3>1, <3>2 DEF Submit
  <2>5. ASSUME NEW h \in Handlers, SettleTimeout(h) PROVE FinitelyMany'
    <3>1. CASE UNCHANGED accountVars
      BY <3>1 DEF FinitelyMany
    <3>2. CASE release(h)
      BY <3>2, Releases DEF FinitelyMany
    <3> QED
      BY <2>5, <3>1, <3>2 DEF SettleTimeout
  <2>6. ASSUME NEW h \in Handlers, SettleReceipt(h) PROVE FinitelyMany'
    <3>1. CASE UNCHANGED accountVars
      BY <3>1 DEF FinitelyMany
    <3>2. CASE release(h)
      BY <3>2, Releases DEF FinitelyMany
    <3> QED
      BY <2>6, <3>1, <3>2 DEF SettleReceipt
  <2>7. ASSUME NEW h \in Handlers, JournalSettlement(h) PROVE FinitelyMany'
    <3>1. CASE UNCHANGED accountVars
      BY <3>1 DEF FinitelyMany
    <3>2. CASE release(h)
      BY <3>2, Releases DEF FinitelyMany
    <3> QED
      BY <2>7, <3>1, <3>2 DEF JournalSettlement
  <2>8. ASSUME NEW h \in Handlers, CommitSettlement(h) PROVE FinitelyMany'
    <3>1. CASE UNCHANGED accountVars
      BY <3>1 DEF FinitelyMany
    <3>2. CASE ~UNCHANGED accountVars
      <4>1. /\ reserved' = [reserved EXCEPT ![mandate(h)] = @ \ {nonce(h)}]
            /\ spends' = [spends EXCEPT ![mandate(h)] = @ \cup {nonce(h)}]
        BY <2>8, <3>2 DEF CommitSettlement, commit
      <4> QED
        BY <4>1, <2>0, FS_AddElement, FS_RemoveElement DEF FinitelyMany
    <3> QED
      BY <3>1, <3>2
  <2>9. ASSUME NEW h \in Handlers, BeginDeferred(h) PROVE FinitelyMany'
    BY <2>9 DEF BeginDeferred, Finish, inflightPut, FinitelyMany
  <2>10. ASSUME NEW h \in Handlers, ResumeDeferred(h) PROVE FinitelyMany'
    BY <2>10 DEF ResumeDeferred, Goto, Finish, inflightRemove, FinitelyMany
  <2>11. ASSUME NEW h \in Handlers, Deliver(h) PROVE FinitelyMany'
    BY <2>11 DEF Deliver, Goto, Count, FinitelyMany
  <2>12. ASSUME NEW h \in Handlers, Refund(h) PROVE FinitelyMany'
    BY <2>12 DEF Refund, Finish, FinitelyMany
  <2>13. ASSUME NEW h \in Handlers, Respond(h) PROVE FinitelyMany'
    BY <2>13 DEF Respond, Finish, FinitelyMany
  <2>14. ASSUME NEW h \in Handlers, Mine(h) PROVE FinitelyMany'
    BY <2>14 DEF Mine, Include, FinitelyMany
  <2>15. ASSUME NEW r \in Revocations, Revoke(r) PROVE FinitelyMany'
    BY <2>15 DEF Revoke, FinitelyMany
  <2>16. ASSUME NEW r \in Revocations, RecordRevocation(r) PROVE FinitelyMany'
    BY <2>16 DEF RecordRevocation, FinitelyMany
  <2>17. ASSUME NEW p \in Payloads, MineOrphan(p) PROVE FinitelyMany'
    BY <2>17 DEF MineOrphan, Include, FinitelyMany
  <2>18. ASSUME NEW x \in Mandates \cup Nonces, Lapse(x) PROVE FinitelyMany'
    BY <2>18 DEF Lapse, FinitelyMany
  <2>19. ASSUME NEW k \in 0 .. MaxHead, Reorg(k) PROVE FinitelyMany'
    BY <2>19 DEF Reorg, FinitelyMany
  <2>20. ASSUME NewBlock PROVE FinitelyMany'
    BY <2>20 DEF NewBlock, FinitelyMany
  <2>21. ASSUME Restart PROVE FinitelyMany'
    BY <2>21 DEF Restart
  <2>22. ASSUME UNCHANGED vars PROVE FinitelyMany'
    BY <2>22 DEF vars, FinitelyMany
  <2> QED
    BY <2>1, <2>2, <2>3, <2>4, <2>5, <2>6, <2>7, <2>8, <2>9, <2>10, <2>11, <2>12, <2>13, <2>14,
       <2>15, <2>16, <2>17, <2>18, <2>19, <2>20, <2>21, <2>22, NextCases DEF HandlerStep
<1> QED
  BY <1>1, <1>2, GatewayTypeOK, PTL DEF Spec

\* What is live is counted against its mandate.
LEMMA LiveIsCounted ==
  ASSUME TypeOK, CountedInv, NEW p \in Payloads, Live(p)
  PROVE  p.nonce \in spends[p.mandate] \cup reserved[p.mandate]
<1>1. p.nonce \in Nonces /\ p # None
  BY PayloadFields, PayloadAssumption
<1>2. \A h \in Handlers : pc[h] \in Settling /\ pay[h] = p => p.nonce \in reserved[p.mandate]
  BY DEF CountedInv, HoldsReservation, nonce, mandate
<1>3. \A h \in Handlers : Committing(h, p) \/ (pay[h] = p /\ tx[h] = "mined") =>
        pc[h] \in Settling /\ pay[h] = p
  BY DEF TypeOK, Committing, Settling
<1>4. CASE paidBy[p.nonce] = p
  BY <1>1, <1>2, <1>3, <1>4 DEF CountedInv, Accounted
<1>5. CASE p \in orphans
  BY <1>2, <1>3, <1>5 DEF CountedInv
<1> QED
  BY <1>2, <1>4, <1>5 DEF Live

\* Only an accept decision makes a payload live.
LEMMA LiveSteps ==
  ASSUME Faults \cap {"timeout", "journal", "crash"} = {}, TypeOK, CountedInv, [Next]_vars
  PROVE  \/ \A q \in Payloads : Live(q)' => Live(q)
         \/ \E h \in Handlers : /\ pc[h] = "decide" /\ reserve(pay[h])
                                /\ \A q \in Payloads : Live(q)' => Live(q) \/ q = pay[h]
<1>0. /\ pay \in [Handlers -> Payloads \cup {None}]
      /\ pc \in [Handlers -> PCs]
      /\ tx \in [Handlers -> {"none", "pending", "mined", "reverted"}]
      /\ paidBy \in [Nonces -> Payloads \cup {None}]
      /\ orphans \subseteq Payloads
      /\ \A h \in Handlers : /\ pc[h] # "idle" => pay[h] \in Payloads /\ nonce(h) \in Nonces
                             /\ tx[h] # "none" <=> pc[h] = "wait"
  BY PayloadFields DEF TypeOK, nonce
<1> USE DEF handlerVars, accountVars, revokeVars, parkVars, chainVars, goodsVars, nonce, Settling
<1>1. ASSUME NEW h \in Handlers, NEW p \in Payloads, Receive(h, p)
      PROVE  \A q \in Payloads : Live(q)' => Live(q)
  BY <1>1, <1>0 DEF Receive, Goto, Live
<1>2. ASSUME NEW h \in Handlers, Verify(h) PROVE \A q \in Payloads : Live(q)' => Live(q)
  BY <1>2, <1>0 DEF Verify, Goto, Finish, Live
<1>3. ASSUME NEW h \in Handlers, Submit(h) PROVE \A q \in Payloads : Live(q)' => Live(q)
  BY <1>3, <1>0 DEF Submit, Goto, Finish, Live
<1>4. ASSUME NEW h \in Handlers, SettleTimeout(h) PROVE \A q \in Payloads : Live(q)' => Live(q)
  BY <1>4 DEF SettleTimeout
<1>5. ASSUME NEW h \in Handlers, SettleReceipt(h) PROVE \A q \in Payloads : Live(q)' => Live(q)
  BY <1>5, <1>0 DEF SettleReceipt, Goto, Finish, Live
<1>6. ASSUME NEW h \in Handlers, JournalSettlement(h)
      PROVE  \A q \in Payloads : Live(q)' => Live(q)
  BY <1>6, <1>0 DEF JournalSettlement, Goto, Finish, Live
<1>7. ASSUME NEW h \in Handlers, CommitSettlement(h)
      PROVE  \A q \in Payloads : Live(q)' => Live(q)
  BY <1>7, <1>0 DEF CommitSettlement, Goto, Live
<1>8. ASSUME NEW h \in Handlers, BeginDeferred(h) PROVE \A q \in Payloads : Live(q)' => Live(q)
  BY <1>8, <1>0 DEF BeginDeferred, Finish, inflightPut, Live
<1>9. ASSUME NEW h \in Handlers, ResumeDeferred(h) PROVE \A q \in Payloads : Live(q)' => Live(q)
  BY <1>9, <1>0 DEF ResumeDeferred, Goto, Finish, inflightRemove, Live
<1>10. ASSUME NEW h \in Handlers, Deliver(h) PROVE \A q \in Payloads : Live(q)' => Live(q)
  BY <1>10, <1>0 DEF Deliver, Goto, Count, Live
<1>11. ASSUME NEW h \in Handlers, Refund(h) PROVE \A q \in Payloads : Live(q)' => Live(q)
  BY <1>11, <1>0 DEF Refund, Finish, Live
<1>12. ASSUME NEW h \in Handlers, Respond(h) PROVE \A q \in Payloads : Live(q)' => Live(q)
  BY <1>12, <1>0 DEF Respond, Finish, Live
<1>13. ASSUME NEW h \in Handlers, Mine(h) PROVE \A q \in Payloads : Live(q)' => Live(q)
  BY <1>13, <1>0, PayloadFields DEF Mine, Include, Live
<1>14. ASSUME NEW r \in Revocations, Revoke(r) PROVE \A q \in Payloads : Live(q)' => Live(q)
  BY <1>14, <1>0 DEF Revoke, Live
<1>15. ASSUME NEW r \in Revocations, RecordRevocation(r)
       PROVE  \A q \in Payloads : Live(q)' => Live(q)
  BY <1>15, <1>0 DEF RecordRevocation, Live
<1>16. ASSUME NEW p \in Payloads, MineOrphan(p) PROVE \A q \in Payloads : Live(q)' => Live(q)
  BY <1>16, <1>0, PayloadFields DEF MineOrphan, Include, Live
<1>17. ASSUME NEW x \in Mandates \cup Nonces, Lapse(x)
       PROVE  \A q \in Payloads : Live(q)' => Live(q)
  BY <1>17, <1>0 DEF Lapse, Live
<1>18. ASSUME NEW k \in 0 .. MaxHead, Reorg(k) PROVE \A q \in Payloads : Live(q)' => Live(q)
  <2>1. UNCHANGED <<pc, pay>>
    BY <1>18 DEF Reorg
  <2>2. \A n \in Nonces : paidBy'[n] \in {paidBy[n], None}
    BY <1>18, <1>0 DEF Reorg
  <2>3. \A q \in orphans' : q \in orphans \/ \E n \in Nonces : paidBy[n] # None /\ q = paidBy[n]
    BY <1>18, Zenon DEF Reorg
  <2>4. \A q \in orphans' : q \in orphans \/ paidBy[q.nonce] = q
    BY <2>3 DEF CountedInv
  <2> QED
    BY <2>1, <2>2, <2>4, PayloadFields, PayloadAssumption DEF Live
<1>19. ASSUME NewBlock PROVE \A q \in Payloads : Live(q)' => Live(q)
  BY <1>19, <1>0 DEF NewBlock, Live
<1>20. ASSUME Restart PROVE \A q \in Payloads : Live(q)' => Live(q)
  BY <1>20 DEF Restart
<1>21. ASSUME UNCHANGED vars PROVE \A q \in Payloads : Live(q)' => Live(q)
  BY <1>21, <1>0 DEF vars, Live
<1>22. ASSUME NEW h \in Handlers, Decide(h)
       PROVE  \/ \A q \in Payloads : Live(q)' => Live(q)
              \/ /\ pc[h] = "decide" /\ reserve(pay[h])
                 /\ \A q \in Payloads : Live(q)' => Live(q) \/ q = pay[h]
  <2>1. CASE Finish(h)
    BY <1>22, <2>1, <1>0 DEF Decide, Finish, Live
  <2>2. CASE ~Finish(h)
    <3>1. reserve(pay[h]) /\ Goto(h, "submit") /\ UNCHANGED pay
      BY <1>22, <2>2, Zenon DEF Decide
    <3>2. UNCHANGED <<paidBy, orphans>> /\ pc[h] = "decide"
      BY <1>22 DEF Decide
    <3> QED
      BY <3>1, <3>2, <1>0 DEF Goto, Live
  <2> QED
    BY <2>1, <2>2
<1> QED
  BY <1>1, <1>2, <1>3, <1>4, <1>5, <1>6, <1>7, <1>8, <1>9, <1>10, <1>11, <1>12, <1>13, <1>14,
     <1>15, <1>16, <1>17, <1>18, <1>19, <1>20, <1>21, <1>22, NextCases DEF HandlerStep

\* While fewer payloads are live the limits hold.
LEMMA FewerKeepLimits ==
  ASSUME TypeOK, FinitelyMany, CountedInv, LimitInv, NEW m \in Mandates
  PROVE  /\ IsFiniteSet(LiveUnder(m)) /\ Unconfirmed(m) \subseteq LiveUnder(m)
         /\ LiveUnder(m) \subseteq spends[m] \cup reserved[m]
         /\ \A S \in SUBSET Unconfirmed(m) : Budget[m] > 0 => SumOf(S) <= Budget[m]
         /\ \A S \in SUBSET LiveUnder(m) :
              MaxPaymentsPerWindow[m] > 0 => Cardinality(S) <= MaxPaymentsPerWindow[m]
<1>1. LiveUnder(m) \subseteq spends[m] \cup reserved[m]
  BY LiveIsCounted DEF LiveUnder
<1>2. IsFiniteSet(spends[m] \cup reserved[m])
  BY FS_Union DEF FinitelyMany
<1>3. IsFiniteSet(LiveUnder(m))
  BY <1>1, <1>2, FS_Subset
<1>4. Unconfirmed(m) \subseteq LiveUnder(m)
  BY DEF Unconfirmed, LiveUnder
<1>5. IsFiniteSet(Unconfirmed(m)) /\ \A n \in Unconfirmed(m) : Amount[n] \in Nat
  BY <1>3, <1>4, FS_Subset, LimitAssumption DEF Unconfirmed
<1>6. ASSUME NEW S \in SUBSET Unconfirmed(m), Budget[m] > 0 PROVE SumOf(S) <= Budget[m]
  <2>1. Sum(Amount, S) <= Sum(Amount, Unconfirmed(m))
    BY <1>5, SumSubset
  <2>2. Sum(Amount, Unconfirmed(m)) <= Budget[m] /\ Budget[m] \in Nat
    BY <1>6, LimitAssumption DEF LimitInv, SumOf
  <2>3. Sum(Amount, S) \in Nat /\ Sum(Amount, Unconfirmed(m)) \in Nat
    <3>1. IsFiniteSet(S)
      BY <1>5, FS_Subset
    <3> QED
      BY <1>5, <3>1, SumNat
  <2> QED
    BY <2>1, <2>2, <2>3 DEF SumOf
<1>7. ASSUME NEW S \in SUBSET LiveUnder(m), MaxPaymentsPerWindow[m] > 0
      PROVE  Cardinality(S) <= MaxPaymentsPerWindow[m]
  <2>1. IsFiniteSet(S) /\ Cardinality(S) <= Cardinality(LiveUnder(m))
    BY <1>3, FS_Subset
  <2>2. Cardinality(S) \in Nat /\ Cardinality(LiveUnder(m)) \in Nat
    BY <1>3, <2>1, FS_CardinalityType
  <2>3. Cardinality(LiveUnder(m)) <= MaxPaymentsPerWindow[m] /\ MaxPaymentsPerWindow[m] \in Nat
    BY <1>7, LimitAssumption DEF LimitInv
  <2> QED
    BY <2>1, <2>2, <2>3
<1> QED
  BY <1>1, <1>3, <1>4, <1>6, <1>7

\* The policy decides before settlement on the value that was signed.
VerifiedValue == \A h \in Handlers : pc[h] = "decide" => pay[h].value = Amount[pay[h].nonce]

\* Only Verify leads to the policy.
LEMMA DecidedIsVerified == Spec => []VerifiedValue
<1>1. Init => VerifiedValue
  BY DEF Init, VerifiedValue
<1>2. TypeOK /\ VerifiedValue /\ [Next]_vars => VerifiedValue'
  <2> SUFFICES ASSUME TypeOK, VerifiedValue, [Next]_vars PROVE VerifiedValue'
    OBVIOUS
  <2>0. pay \in [Handlers -> Payloads \cup {None}] /\ pc \in [Handlers -> PCs]
    BY DEF TypeOK
  <2> USE DEF handlerVars, Goto, Finish, VerifiedValue
  <2>1. ASSUME NEW h \in Handlers, NEW p \in Payloads, Receive(h, p) PROVE VerifiedValue'
    BY <2>1, <2>0 DEF Receive
  <2>2. ASSUME NEW h \in Handlers, Verify(h) PROVE VerifiedValue'
    BY <2>2, <2>0 DEF Verify, nonce
  <2>3. ASSUME NEW h \in Handlers, Decide(h) PROVE VerifiedValue'
    BY <2>3, <2>0 DEF Decide
  <2>4. ASSUME NEW h \in Handlers, HandlerStep(h), ~Verify(h), ~Decide(h) PROVE VerifiedValue'
    BY <2>4, <2>0 DEF HandlerStep, Submit, SettleTimeout, SettleReceipt, JournalSettlement,
       CommitSettlement, BeginDeferred, ResumeDeferred, Deliver, Refund, Respond
  <2>5. ASSUME UNCHANGED handlerVars PROVE VerifiedValue'
    BY <2>5
  <2>6. ASSUME Restart PROVE VerifiedValue'
    BY <2>6 DEF Restart
  <2>7. ASSUME NEW h \in Handlers, Mine(h) PROVE UNCHANGED handlerVars
    BY <2>7 DEF Mine
  <2>8. ASSUME NEW r \in Revocations, Revoke(r) \/ RecordRevocation(r)
        PROVE  UNCHANGED handlerVars
    BY <2>8 DEF Revoke, RecordRevocation
  <2>9. ASSUME \/ \E p \in Payloads : MineOrphan(p)
               \/ \E x \in Mandates \cup Nonces : Lapse(x)
               \/ \E k \in 0 .. MaxHead : Reorg(k)
               \/ NewBlock
               \/ UNCHANGED vars
        PROVE  UNCHANGED handlerVars
    BY <2>9 DEF MineOrphan, Lapse, Reorg, NewBlock, vars
  <2> QED
    BY <2>1, <2>2, <2>3, <2>4, <2>5, <2>6, <2>7, <2>8, <2>9 DEF Next
<1> QED
  BY <1>1, <1>2, GatewayTypeOK, PTL DEF Spec

\* A payment that reserve lets through fits beside all that is counted.
LEMMA ReservedFits ==
  ASSUME TypeOK, FinitelyMany, NEW p \in Payloads, reserve(p), p.value = Amount[p.nonce],
         NEW m, m = p.mandate,
         NEW S \in SUBSET (spends[m] \cup reserved[m] \cup {p.nonce})
  PROVE  /\ Budget[m] > 0 /\ ~p.confirmed => SumOf(S) <= Budget[m]
         /\ MaxPaymentsPerWindow[m] > 0 => Cardinality(S) <= MaxPaymentsPerWindow[m]
<1> DEFINE A == spends[m]
           B == reserved[m]
           n == p.nonce
<1>1. n \in Nonces /\ m \in Mandates /\ A \subseteq Nonces /\ B \subseteq Nonces
  BY PayloadFields DEF TypeOK
<1>2. IsFiniteSet(A) /\ IsFiniteSet(B)
  BY <1>1 DEF FinitelyMany
<1>3. IsFiniteSet(A \cup B) /\ IsFiniteSet(A \cup B \cup {n}) /\ IsFiniteSet(S)
  <2>1. IsFiniteSet(A \cup B)
    BY <1>2, FS_Union
  <2>2. IsFiniteSet(A \cup B \cup {n})
    BY <2>1, FS_AddElement
  <2> QED
    BY <2>1, <2>2, FS_Subset
<1>4. /\ \A x \in Nonces : Amount[x] \in Nat
      /\ Budget[m] \in Nat /\ MaxPaymentsPerWindow[m] \in Nat
  BY <1>1, LimitAssumption
<1>5. ASSUME Budget[m] > 0, ~p.confirmed PROVE SumOf(S) <= Budget[m]
  <2>1. Sum(Amount, A) + Sum(Amount, B) + Amount[n] <= Budget[m]
    BY <1>4, <1>5 DEF reserve, confirmationApproves, SumOf, paymentAmount
  <2> HIDE DEF A, B, n
  <2>2. Sum(Amount, A \cup B) <= Sum(Amount, A) + Sum(Amount, B)
    BY <1>1, <1>2, <1>4, SumUnionBound
  <2>3. Sum(Amount, A \cup B \cup {n}) <= Sum(Amount, A \cup B) + Amount[n]
    BY <1>1, <1>3, <1>4, SumAddBound
  <2>4. Sum(Amount, S) <= Sum(Amount, A \cup B \cup {n})
    BY <1>1, <1>3, <1>4, SumSubset DEF A, B, n
  <2>5. /\ Sum(Amount, A) \in Nat /\ Sum(Amount, B) \in Nat /\ Sum(Amount, A \cup B) \in Nat
        /\ Sum(Amount, A \cup B \cup {n}) \in Nat /\ Amount[n] \in Nat
    BY <1>1, <1>2, <1>3, <1>4, SumNat
  <2>6. Sum(Amount, S) \in Nat
    <3>1. \A x \in S : Amount[x] \in Nat
      BY <1>1, <1>4 DEF A, B, n
    <3> QED
      BY <1>3, <3>1, SumNat
  <2> QED
    BY <1>4, <2>1, <2>2, <2>3, <2>4, <2>5, <2>6 DEF SumOf
<1>6. ASSUME MaxPaymentsPerWindow[m] > 0 PROVE Cardinality(S) <= MaxPaymentsPerWindow[m]
  <2>1. Cardinality(A) + Cardinality(B) + 1 <= MaxPaymentsPerWindow[m]
    BY <1>4, <1>6 DEF reserve
  <2> HIDE DEF A, B, n
  <2>2. Cardinality(A) \in Nat /\ Cardinality(B) \in Nat /\ Cardinality(A \cup B) \in Nat
    BY <1>2, <1>3, FS_CardinalityType
  <2>3. Cardinality(A \cup B) <= Cardinality(A) + Cardinality(B)
    <3>1. Cardinality(A \cup B) = Cardinality(A) + Cardinality(B) - Cardinality(A \cap B)
      BY <1>2, FS_Union
    <3>2. Cardinality(A \cap B) \in Nat
      BY <1>2, FS_Subset, FS_CardinalityType
    <3> QED
      BY <2>2, <3>1, <3>2
  <2>4. Cardinality(A \cup B \cup {n}) <= Cardinality(A \cup B) + 1
    <3> DEFINE C == A \cup B
    <3>1. IsFiniteSet(C) /\ Cardinality(C) \in Nat
      BY <1>3, <2>2
    <3> HIDE DEF C
    <3>2. Cardinality(C \cup {n}) = IF n \in C THEN Cardinality(C) ELSE Cardinality(C) + 1
      BY <3>1, FS_AddElement
    <3>3. Cardinality(C \cup {n}) <= Cardinality(C) + 1
      BY <3>1, <3>2
    <3> QED
      BY <3>3 DEF C
  <2>5. Cardinality(S) <= Cardinality(A \cup B \cup {n})
    BY <1>3, FS_Subset DEF A, B, n
  <2>6. Cardinality(S) \in Nat /\ Cardinality(A \cup B \cup {n}) \in Nat
    BY <1>3, FS_CardinalityType
  <2> QED
    BY <1>4, <2>1, <2>2, <2>3, <2>4, <2>5, <2>6
<1> QED
  BY <1>5, <1>6

\* For agents with one open request per payment, while the gateway stays up, the
\* journal works and settle learns its outcome, the payments on chain stay within
\* the budget and the count of their mandate, across reorgs and with any number
\* of requests in flight (mandateAccounts.reserve, policy_mandate.go).
THEOREM SettlementsStayWithinLimits ==
  ASSUME SingleFlight, Faults \cap {"timeout", "journal", "crash"} = {}
  PROVE  Spec => []LimitsRespected
<1>1. Init => LimitInv
  <2> SUFFICES ASSUME Init, NEW m \in Mandates
               PROVE  LiveUnder(m) = {} /\ Unconfirmed(m) = {}
    BY SumEmpty, FS_EmptySet, LimitAssumption DEF LimitInv, SumOf
  <2>1. \A p \in Payloads : ~Live(p)
    BY PayloadFields, PayloadAssumption DEF Init, Live, Settling
  <2> QED
    BY <2>1 DEF LiveUnder, Unconfirmed
<1>2. /\ TypeOK /\ FinitelyMany /\ VerifiedValue /\ CountedInv /\ LimitInv
      /\ [Next]_vars
      => LimitInv'
  <2> SUFFICES ASSUME TypeOK, FinitelyMany, VerifiedValue, CountedInv, LimitInv, [Next]_vars,
                      NEW m \in Mandates
               PROVE  /\ Budget[m] > 0 => SumOf(Unconfirmed(m)') <= Budget[m]
                      /\ MaxPaymentsPerWindow[m] > 0 =>
                           Cardinality(LiveUnder(m)') <= MaxPaymentsPerWindow[m]
    BY DEF LimitInv, SumOf
  <2>1. CASE LiveUnder(m)' \subseteq LiveUnder(m) /\ Unconfirmed(m)' \subseteq Unconfirmed(m)
    BY <2>1, FewerKeepLimits
  <2>2. CASE ~(LiveUnder(m)' \subseteq LiveUnder(m) /\ Unconfirmed(m)' \subseteq Unconfirmed(m))
    <3>1. PICK h \in Handlers : /\ pc[h] = "decide" /\ reserve(pay[h])
                                /\ \A q \in Payloads : Live(q)' => Live(q) \/ q = pay[h]
      BY <2>2, LiveSteps DEF LiveUnder, Unconfirmed
    <3> DEFINE p == pay[h]
    <3>2. p \in Payloads
      BY <3>1 DEF TypeOK
    <3>3. p.mandate = m
      BY <2>2, <3>1 DEF LiveUnder, Unconfirmed
    <3>4. /\ LiveUnder(m)' \subseteq LiveUnder(m) \cup {p.nonce}
          /\ Unconfirmed(m)' \subseteq LiveUnder(m)'
          /\ p.confirmed => Unconfirmed(m)' \subseteq Unconfirmed(m)
      BY <3>1 DEF LiveUnder, Unconfirmed
    <3>5. LiveUnder(m) \subseteq spends[m] \cup reserved[m]
      BY FewerKeepLimits
    <3>6. /\ LiveUnder(m)' \in SUBSET (spends[m] \cup reserved[m] \cup {p.nonce})
          /\ Unconfirmed(m)' \in SUBSET (spends[m] \cup reserved[m] \cup {p.nonce})
      BY <3>4, <3>5
    <3>7. reserve(p) /\ p.value = Amount[p.nonce]
      BY <3>1 DEF VerifiedValue
    <3> HIDE DEF p
    <3>8. /\ Budget[m] > 0 /\ ~p.confirmed => SumOf(Unconfirmed(m)') <= Budget[m]
          /\ MaxPaymentsPerWindow[m] > 0 => Cardinality(LiveUnder(m)') <= MaxPaymentsPerWindow[m]
      BY <3>2, <3>3, <3>6, <3>7, ReservedFits
    <3>9. p.confirmed /\ Budget[m] > 0 => SumOf(Unconfirmed(m)') <= Budget[m]
      BY <3>4, FewerKeepLimits
    <3> QED
      BY <3>8, <3>9
  <2> QED
    BY <2>1, <2>2
<1>3. TypeOK /\ FinitelyMany /\ CountedInv /\ LimitInv => LimitsRespected
  <2> SUFFICES ASSUME TypeOK, FinitelyMany, CountedInv, LimitInv, NEW m \in Mandates,
                      NEW paid, paid = {n \in Nonces : paidBy[n] # None /\ paidBy[n].mandate = m}
               PROVE  /\ Budget[m] > 0 => SumOf({n \in paid : ~paidBy[n].confirmed}) <= Budget[m]
                      /\ MaxPaymentsPerWindow[m] > 0 =>
                           Cardinality(paid) <= MaxPaymentsPerWindow[m]
    BY DEF LimitsRespected
  <2>1. \A n \in paid : paidBy[n] \in Payloads /\ paidBy[n].nonce = n /\ Live(paidBy[n])
    BY DEF TypeOK, CountedInv, Live
  <2>2. paid \subseteq LiveUnder(m) /\ {n \in paid : ~paidBy[n].confirmed} \subseteq Unconfirmed(m)
    BY <2>1 DEF LiveUnder, Unconfirmed
  <2> QED
    BY <2>2, FewerKeepLimits
<1> QED
  BY <1>1, <1>2, <1>3, GatewayTypeOK, FinitelyManyInvariant, DecidedIsVerified, CountedInvariant,
     PTL DEF Spec

----------------------------------------------------------------------------
(* The accounting across restarts.                                         *)

\* The decision entries grow by the settled payment, and only by it.
LEMMA AppendKeepsDecision ==
  ASSUME journal \in Journals, NEW n
  PROVE  /\ Appended("settlement", n).decision = journal.decision
         /\ Appended("refund", n).decision = journal.decision
         /\ Appended("refund_pending", n).decision = journal.decision
         /\ RevocationEntry(n).decision = journal.decision
         /\ Appended("decision", n).decision = journal.decision \cup {n}
  BY DEF Journals, Appended, RevocationEntry

\* The settlement of n is a committed spend that a restart would restore.
Kept(n) ==
  /\ paidBy[n] # None
  /\ paidBy[n] \in journal.decision
  /\ n \in spends[paidBy[n].mandate]

\* The inductive strengthening: the journal holds decisions of on-chain
\* payments only, so the idempotent append never keeps another payload's entry.
RestoreInv ==
  /\ SingleRequest
  /\ HoldsReservation
  /\ \A n \in Nonces : paidBy[n] # None => paidBy[n].nonce = n
  /\ \A q \in journal.decision : paidBy[q.nonce] = q
  /\ \A n \in told \cup inflight : Kept(n)
  /\ \A h \in Handlers :
       /\ pc[h] \in {"park", "resume", "deliver", "refund", "respond"} => Kept(nonce(h))
       /\ pc[h] \in {"journal", "commit"} \/ tx[h] = "mined" => paidBy[nonce(h)] = pay[h]

\* For agents with one open request per payment, while the journal works and
\* the chain does not rewind, a settlement an agent was told of counts against
\* its mandate, after timeouts and any number of crashes and restarts.
THEOREM RestartsKeepToldSpends ==
  ASSUME SingleFlight, MaxReorgs = 0, "journal" \notin Faults
  PROVE  Spec => []ToldIsCounted
<1>1. Init => RestoreInv
  BY DEF Init, RestoreInv, SingleRequest, HoldsReservation, Settling
<1>2. TypeOK /\ RestoreInv /\ [Next]_vars => RestoreInv'
  <2> SUFFICES ASSUME TypeOK, RestoreInv, [Next]_vars PROVE RestoreInv'
    OBVIOUS
  <2>0. /\ pay \in [Handlers -> Payloads \cup {None}]
        /\ pc \in [Handlers -> PCs]
        /\ act \in [Handlers -> Actions]
        /\ tx \in [Handlers -> {"none", "pending", "mined", "reverted"}]
        /\ paidBy \in [Nonces -> Payloads \cup {None}]
        /\ reserved \in [Mandates -> SUBSET Nonces]
        /\ spends \in [Mandates -> SUBSET Nonces]
        /\ orphans \subseteq Payloads
        /\ inflight \subseteq Nonces /\ told \subseteq Nonces
        /\ journal \in Journals
        /\ \A h \in Handlers :
             /\ pc[h] # "idle" => pay[h] \in Payloads /\ pay[h].nonce \in Nonces /\ pay[h].mandate \in Mandates
             /\ tx[h] # "none" <=> pc[h] = "wait"
    BY PayloadFields DEF TypeOK, Journals
  <2> USE DEF handlerVars, accountVars, revokeVars, parkVars, chainVars, goodsVars, nonce, mandate, Settling
  <2>d. journal.decision \subseteq Payloads
    BY <2>0 DEF Journals
  <2> USE DEF SingleRequest, HoldsReservation, Kept
  <2>1. ASSUME NEW h \in Handlers, NEW p \in Payloads, Receive(h, p) PROVE RestoreInv'
    BY <2>1, <2>0, <2>d, PayloadFields DEF RestoreInv, Receive, Goto
  <2>2. ASSUME NEW h \in Handlers, Verify(h) PROVE RestoreInv'
    <3>1. CASE Finish(h)
      BY <2>2, <3>1, <2>0, <2>d DEF RestoreInv, Verify, Finish
    <3>2. CASE Goto(h, "decide") /\ UNCHANGED pay
      BY <2>2, <3>2, <2>0, <2>d DEF RestoreInv, Verify, Goto
    <3> QED
      BY <2>2, <3>1, <3>2, Zenon DEF Verify
  <2>3. ASSUME NEW h \in Handlers, Decide(h) PROVE RestoreInv'
    <3>1. CASE Finish(h) /\ UNCHANGED accountVars
      BY <2>3, <3>1, <2>0 DEF RestoreInv, Decide, Finish
    <3>2. CASE /\ Finish(h) /\ UNCHANGED spends
               /\ reserved' = [reserved EXCEPT ![pay[h].mandate] = @ \cup {pay[h].nonce}]
      BY <2>3, <3>2, <2>0 DEF RestoreInv, Decide, Finish
    <3>3. CASE /\ Goto(h, "submit") /\ UNCHANGED <<pay, spends>>
               /\ reserved' = [reserved EXCEPT ![pay[h].mandate] = @ \cup {pay[h].nonce}]
      BY <2>3, <3>3, <2>0 DEF RestoreInv, Decide, Goto
    <3> QED
      BY <2>3, <3>1, <3>2, <3>3, Zenon DEF Decide
  <2>4. ASSUME NEW h \in Handlers, Submit(h) PROVE RestoreInv'
    BY <2>4, <2>0, <2>d DEF RestoreInv, Submit, Goto, Finish, release
  <2>5. ASSUME NEW h \in Handlers, SettleTimeout(h) PROVE RestoreInv'
    BY <2>5, <2>0, <2>d DEF RestoreInv, SettleTimeout, Finish, release
  <2>6. ASSUME NEW h \in Handlers, SettleReceipt(h) PROVE RestoreInv'
    <3>1. CASE tx[h] = "reverted" /\ Finish(h) /\ release(h)
      BY <2>6, <3>1, <2>0, <2>d DEF RestoreInv, SettleReceipt, Finish, release
    <3>2. CASE tx[h] = "mined" /\ Goto(h, "journal") /\ UNCHANGED <<pay, accountVars>>
      BY <2>6, <3>2, <2>0, <2>d DEF RestoreInv, SettleReceipt, Goto
    <3> QED
      BY <2>6, <3>1, <3>2, Zenon DEF SettleReceipt
  <2>7. ASSUME NEW h \in Handlers, JournalSettlement(h) PROVE RestoreInv'
    BY <2>7, <2>0, AppendKeepsDecision DEF RestoreInv, JournalSettlement, Goto, Finish, release
  <2>8. ASSUME NEW h \in Handlers, CommitSettlement(h) PROVE RestoreInv'
    <3>1. /\ reserved' = [reserved EXCEPT ![mandate(h)] = @ \ {nonce(h)}]
          /\ spends' = [spends EXCEPT ![mandate(h)] = @ \cup {nonce(h)}]
      BY <2>8, <2>0 DEF RestoreInv, CommitSettlement, commit
    <3>2. pc' = [pc EXCEPT ![h] = IF act[h] = "defer" THEN "park" ELSE "deliver"] /\ UNCHANGED pay
      BY <2>8 DEF CommitSettlement, Goto
    <3>3. SingleRequest' /\ HoldsReservation'
      BY <2>8, <3>1, <3>2, <2>0 DEF RestoreInv, CommitSettlement
    <3>4. journal'.decision = journal.decision \cup {pay[h]}
      BY <2>8, <2>0, <2>d, AppendKeepsDecision DEF RestoreInv, CommitSettlement, Logged,
         SettledDecision
    <3>5. paidBy[nonce(h)] = pay[h] /\ paidBy' = paidBy /\ pay[h] # None
      BY <2>8, <2>0, PayloadAssumption DEF RestoreInv, CommitSettlement
    <3>6. \A n \in Nonces : Kept(n) => Kept(n)'
      BY <3>1, <3>4, <3>5, <2>0, PayloadFields
    <3>7. Kept(nonce(h))'
      BY <2>8, <3>1, <3>4, <3>5, <2>0 DEF CommitSettlement
    <3> QED
      BY <2>8, <3>2, <3>3, <3>4, <3>5, <3>6, <3>7, <2>0, <2>d, PayloadFields DEF RestoreInv,
         CommitSettlement
  <2>9. ASSUME NEW h \in Handlers, BeginDeferred(h) PROVE RestoreInv'
    BY <2>9, <2>0, <2>d DEF RestoreInv, BeginDeferred, Finish, inflightPut
  <2>10. ASSUME NEW h \in Handlers, ResumeDeferred(h) PROVE RestoreInv'
    <3>1. CASE Finish(h)
      BY <2>10, <3>1, <2>0, <2>d DEF RestoreInv, ResumeDeferred, Finish, inflightRemove
    <3>2. CASE Goto(h, "deliver") /\ UNCHANGED pay
      BY <2>10, <3>2, <2>0, <2>d DEF RestoreInv, ResumeDeferred, Goto, inflightRemove
    <3> QED
      BY <2>10, <3>1, <3>2, Zenon DEF ResumeDeferred
  <2>11. ASSUME NEW h \in Handlers, Deliver(h) PROVE RestoreInv'
    BY <2>11, <2>0, <2>d DEF RestoreInv, Deliver, Goto, Count
  <2>12. ASSUME NEW h \in Handlers, Refund(h) PROVE RestoreInv'
    BY <2>12, <2>0, AppendKeepsDecision DEF RestoreInv, Refund, Finish, Logged, Count
  <2>13. ASSUME NEW h \in Handlers, Respond(h) PROVE RestoreInv'
    BY <2>13, <2>0, <2>d DEF RestoreInv, Respond, Finish
  <2>14. ASSUME NEW h \in Handlers, Mine(h) PROVE RestoreInv'
    BY <2>14, <2>0, <2>d, PayloadFields, PayloadAssumption DEF RestoreInv, Mine, Include
  <2>15. ASSUME NEW r \in Revocations, Revoke(r) PROVE RestoreInv'
    BY <2>15, <2>0, <2>d DEF RestoreInv, Revoke
  <2>16. ASSUME NEW r \in Revocations, RecordRevocation(r) PROVE RestoreInv'
    BY <2>16, <2>0, AppendKeepsDecision DEF RestoreInv, RecordRevocation, Logged
  <2>17. ASSUME NEW p \in Payloads, MineOrphan(p) PROVE RestoreInv'
    BY <2>17, <2>0, <2>d, PayloadFields, PayloadAssumption DEF RestoreInv, MineOrphan, Include
  <2>18. ASSUME NEW x \in Mandates \cup Nonces, Lapse(x) PROVE RestoreInv'
    BY <2>18, <2>0, <2>d DEF RestoreInv, Lapse
  <2>19. ASSUME NEW k \in 0 .. MaxHead, Reorg(k) PROVE RestoreInv'
    BY <2>19, NeverReorgs
  <2>20. ASSUME NewBlock PROVE RestoreInv'
    BY <2>20, <2>0, <2>d DEF RestoreInv, NewBlock
  <2>21. ASSUME Restart PROVE RestoreInv'
    BY <2>21, <2>0, <2>d, PayloadFields DEF RestoreInv, Restart, RestoredSpends,
       RestoredSettlements
  <2>22. ASSUME UNCHANGED vars PROVE RestoreInv'
    BY <2>22, <2>0, <2>d DEF RestoreInv, vars
  <2> QED
    BY <2>1, <2>2, <2>3, <2>4, <2>5, <2>6, <2>7, <2>8, <2>9, <2>10, <2>11, <2>12, <2>13, <2>14,
       <2>15, <2>16, <2>17, <2>18, <2>19, <2>20, <2>21, <2>22, NextCases DEF HandlerStep
<1>3. RestoreInv => ToldIsCounted
  BY DEF RestoreInv, Kept, ToldIsCounted
<1> QED
  BY <1>1, <1>2, <1>3, GatewayTypeOK, PTL DEF Spec

----------------------------------------------------------------------------
(* No silent loss.                                                         *)

\* The refund entries only grow, by refund appends.
LEMMA AppendRefund ==
  ASSUME journal \in Journals, NEW n
  PROVE  /\ Appended("settlement", n).refund = journal.refund
         /\ Appended("settlement", n).refund_pending = journal.refund_pending
         /\ Appended("refund", n).refund = journal.refund \cup {n}
         /\ Appended("refund", n).refund_pending = journal.refund_pending
         /\ Appended("refund_pending", n).refund = journal.refund
         /\ Appended("refund_pending", n).refund_pending = journal.refund_pending \cup {n}
         /\ RevocationEntry(n).refund = journal.refund
         /\ RevocationEntry(n).refund_pending = journal.refund_pending
         /\ SettledDecision(n).refund = journal.refund
         /\ SettledDecision(n).refund_pending = journal.refund_pending
  BY DEF Journals, Appended, SettledDecision, RevocationEntry

\* While the gateway stays up and its journal works, every journaled settlement
\* is delivered, parked, refunded, recorded as owed or still being worked on:
\* whatever else fails, with duplicate requests and across reorgs.
THEOREM NothingIsLost ==
  ASSUME Faults \cap {"journal", "crash"} = {}
  PROVE  Spec => []NoSilentLoss
<1>1. Init => NoSilentLoss
  BY DEF Init, NoSilentLoss
<1>2. TypeOK /\ NoSilentLoss /\ [Next]_vars => NoSilentLoss'
  <2> SUFFICES ASSUME TypeOK, NoSilentLoss, [Next]_vars PROVE NoSilentLoss'
    OBVIOUS
  <2>0. /\ pay \in [Handlers -> Payloads \cup {None}]
        /\ pc \in [Handlers -> PCs]
        /\ act \in [Handlers -> Actions]
        /\ delivered \in [Nonces -> Nat]
        /\ journal \in Journals /\ journal.settlement \subseteq Nonces
        /\ \A h \in Handlers : pc[h] # "idle" => pay[h].nonce \in Nonces
    BY PayloadFields DEF TypeOK, Journals
  <2> USE DEF handlerVars, accountVars, revokeVars, parkVars, chainVars, goodsVars, nonce
  <2>1. ASSUME NEW h \in Handlers, NEW p \in Payloads, Receive(h, p) PROVE NoSilentLoss'
    BY <2>1, <2>0 DEF NoSilentLoss, Receive, Goto
  <2>2. ASSUME NEW h \in Handlers, Verify(h) PROVE NoSilentLoss'
    BY <2>2, <2>0 DEF NoSilentLoss, Verify, Goto, Finish
  <2>3. ASSUME NEW h \in Handlers, Decide(h) PROVE NoSilentLoss'
    <3>1. CASE Finish(h)
      BY <2>3, <3>1, <2>0 DEF NoSilentLoss, Decide, Finish
    <3>2. CASE Goto(h, "submit") /\ UNCHANGED pay
      BY <2>3, <3>2, <2>0 DEF NoSilentLoss, Decide, Goto
    <3> QED
      BY <2>3, <3>1, <3>2, Zenon DEF Decide
  <2>4. ASSUME NEW h \in Handlers, Submit(h) PROVE NoSilentLoss'
    BY <2>4, <2>0 DEF NoSilentLoss, Submit, Goto, Finish, release
  <2>5. ASSUME NEW h \in Handlers, SettleTimeout(h) PROVE NoSilentLoss'
    BY <2>5, <2>0 DEF NoSilentLoss, SettleTimeout, Finish, release
  <2>6. ASSUME NEW h \in Handlers, SettleReceipt(h) PROVE NoSilentLoss'
    BY <2>6, <2>0 DEF NoSilentLoss, SettleReceipt, Goto, Finish, release
  <2>7. ASSUME NEW h \in Handlers, JournalSettlement(h) PROVE NoSilentLoss'
    BY <2>7, <2>0, AppendKeepsSettlement, AppendRefund DEF NoSilentLoss, JournalSettlement,
       Goto, Finish, release
  <2>8. ASSUME NEW h \in Handlers, CommitSettlement(h) PROVE NoSilentLoss'
    BY <2>8, <2>0, AppendKeepsSettlement, AppendRefund DEF NoSilentLoss, CommitSettlement, Goto,
       commit, Logged
  <2>9. ASSUME NEW h \in Handlers, BeginDeferred(h) PROVE NoSilentLoss'
    BY <2>9, <2>0 DEF NoSilentLoss, BeginDeferred, Finish, inflightPut
  <2>10. ASSUME NEW h \in Handlers, ResumeDeferred(h) PROVE NoSilentLoss'
    BY <2>10, <2>0 DEF NoSilentLoss, ResumeDeferred, Goto, Finish, inflightRemove
  <2>11. ASSUME NEW h \in Handlers, Deliver(h) PROVE NoSilentLoss'
    BY <2>11, <2>0 DEF NoSilentLoss, Deliver, Goto, Count
  <2>12. ASSUME NEW h \in Handlers, Refund(h) PROVE NoSilentLoss'
    BY <2>12, <2>0, AppendKeepsSettlement, AppendRefund DEF NoSilentLoss, Refund, Finish,
       Logged, Count
  <2>13. ASSUME NEW h \in Handlers, Respond(h) PROVE NoSilentLoss'
    BY <2>13, <2>0 DEF NoSilentLoss, Respond, Finish
  <2>14. ASSUME NEW h \in Handlers, Mine(h) PROVE NoSilentLoss'
    BY <2>14, <2>0 DEF NoSilentLoss, Mine, Include
  <2>15. ASSUME NEW r \in Revocations, Revoke(r) PROVE NoSilentLoss'
    BY <2>15, <2>0 DEF NoSilentLoss, Revoke
  <2>16. ASSUME NEW r \in Revocations, RecordRevocation(r) PROVE NoSilentLoss'
    BY <2>16, <2>0, AppendKeepsSettlement, AppendRefund DEF NoSilentLoss, RecordRevocation,
       Logged
  <2>17. ASSUME NEW p \in Payloads, MineOrphan(p) PROVE NoSilentLoss'
    BY <2>17, <2>0 DEF NoSilentLoss, MineOrphan, Include
  <2>18. ASSUME NEW x \in Mandates \cup Nonces, Lapse(x) PROVE NoSilentLoss'
    BY <2>18, <2>0 DEF NoSilentLoss, Lapse
  <2>19. ASSUME NEW k \in 0 .. MaxHead, Reorg(k) PROVE NoSilentLoss'
    BY <2>19, <2>0 DEF NoSilentLoss, Reorg
  <2>20. ASSUME NewBlock PROVE NoSilentLoss'
    BY <2>20, <2>0 DEF NoSilentLoss, NewBlock
  <2>21. ASSUME Restart PROVE NoSilentLoss'
    BY <2>21, <2>0 DEF NoSilentLoss, Restart, RestoredSpends, RestoredSettlements
  <2>22. ASSUME UNCHANGED vars PROVE NoSilentLoss'
    BY <2>22, <2>0 DEF NoSilentLoss, vars
  <2> QED
    BY <2>1, <2>2, <2>3, <2>4, <2>5, <2>6, <2>7, <2>8, <2>9, <2>10, <2>11, <2>12, <2>13, <2>14,
       <2>15, <2>16, <2>17, <2>18, <2>19, <2>20, <2>21, <2>22, NextCases DEF HandlerStep
<1> QED
  BY <1>1, <1>2, GatewayTypeOK, PTL DEF Spec
=============================================================================
