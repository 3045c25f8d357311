--------------------------- MODULE Session_proofs ---------------------------
(***************************************************************************)
(* Theorems about module Session, for every value of its constants.        *)
(***************************************************************************)
EXTENDS Session, Sums_proofs

\* The handler works on a session: its request carries the id of one.
AtSession == {"lock"} \cup Settling

\* Handler h saw the transfer of the session's budget succeed.
Charged(h) == pc[h] \in {"journal", "commit", "refund", "done"} \/ tx[h] = "mined"

\* A request is only drawn while the remainder covers the price, so spent
\* stays within the budget.
SpentFits ==
  /\ \A i \in Ids : auth[i] \in Auths => spent[i] <= Value[auth[i]]
  /\ \A h \in Handlers : pc[h] = "decide" => Value[req[h]] >= Price

\* The handler inside settleSession holds the session's mutex.
MutexHeld == \A h \in Handlers : pc[h] \in Settling => lock[req[h]] = h

\* What the handlers after the wait and after the append rely on.
ChargeInv ==
  /\ \A h \in Handlers : Charged(h) => held(h) \in paid
  /\ \A h \in Handlers : pc[h] \in {"commit", "refund", "done"} => held(h) \in journal.settlement

\* Who answers for each transferred budget.  A transaction left behind is on
\* the account of a failed wait or a crash.
SilentInv ==
  /\ orphans \subseteq broken
  /\ \A a \in paid :
       a \in told \/ a \in broken \/ \E h \in Handlers : Charged(h) /\ held(h) = a

\* An agent that signs an authorization per open has one session per
\* authorization, and spent is the price of what was served.
OneSession ==
  /\ \A i, j \in Ids : auth[i] \in Auths /\ auth[i] = auth[j] => i = j
  /\ \A i \in Ids : auth[i] \in Auths => auth[i] \in opened
  /\ \A h \in Handlers : pc[h] \in {"verify", "decide"} =>
       /\ req[h] \in opened
       /\ \A i \in Ids : auth[i] # req[h]
       /\ \A g \in Handlers : pc[g] \in {"verify", "decide"} /\ req[g] = req[h] => g = h
  /\ \A i \in Ids : IF auth[i] = None THEN served[i] = 0 ELSE spent[i] = Price * served[i]

\* No request of session i can draw or refund again.
Frozen(i) ==
  \/ settled[i]
  \/ \E h \in Handlers : pc[h] = "done" /\ req[h] = i
  \/ i \notin store /\ \A h \in Handlers : pc[h] \in AtSession => req[h] # i

\* A refund was the whole remainder of a session that draws no more.
RefundInv ==
  /\ \A i \in Ids : settled[i] => \A h \in Handlers : pc[h] \in Settling => req[h] # i
  /\ \A a \in Auths : refunded[a] # 0 =>
       \E i \in Ids : auth[i] = a /\ refunded[a] = Value[a] - spent[i] /\ Frozen(i)

\* The remainder of session i went back, or an entry covers it, or that entry failed.
Square(i) ==
  \/ refunded[auth[i]] = Value[auth[i]] - spent[i]
  \/ \E e \in journal.refund_pending :
       e.auth = auth[i] /\ e.amount >= Value[auth[i]] - spent[i]
  \/ auth[i] \in broken

\* The settlements that are done, and those that were reported, are square.
SquareInv ==
  /\ \A h \in Handlers : pc[h] = "done" => Square(req[h])
  /\ \A a \in told : \E i \in Ids : auth[i] = a /\ settled[i] /\ Square(i)

\* Until a restart the account holds what every session may be charged for.
AccountInv ==
  restarts = 0 =>
    /\ \A i \in Ids : auth[i] \in Auths => auth[i] \in spends \cup reserved
    /\ orphans \subseteq spends \cup reserved
    /\ paid \subseteq spends \cup reserved
    /\ BudgetAmount > 0 => SumOf(spends) + SumOf(reserved) <= BudgetAmount

\* What one step of Next may be: used to split every invariance proof.
LEMMA NextCases ==
  ASSUME [Next]_vars
  PROVE  \/ \E h \in Handlers, a \in Auths : OpenSession(h, a)
         \/ \E h \in Handlers : Verify(h)
         \/ \E h \in Handlers : OpenHeld(h)
         \/ \E h \in Handlers, i \in Ids, close \in BOOLEAN : SessionRequest(h, i, close)
         \/ \E h \in Handlers : Refuse(h)
         \/ \E h \in Handlers : Draw(h)
         \/ \E h \in Handlers : BeginSettle(h)
         \/ \E h \in Handlers : Submit(h)
         \/ \E h \in Handlers : SettleTimeout(h)
         \/ \E h \in Handlers : SettleReceipt(h)
         \/ \E h \in Handlers : JournalSettlement(h)
         \/ \E h \in Handlers : CommitSettlement(h)
         \/ \E h \in Handlers : RefundUnused(h)
         \/ \E h \in Handlers : SettleDone(h)
         \/ \E h \in Handlers : Mine(h)
         \/ Restart
         \/ \E a \in Auths : MineOrphan(a)
         \/ \E a \in Auths : Tick(a)
         \/ UNCHANGED vars
  BY DEF Next, LockedStep, SettleStep

\* The typing invariant as it is inductive.
TypedInv == TypeOK /\ SpentFits

\* Every reachable state is well typed, and spent stays within the budget.
LEMMA SessionTyped == Spec => []TypedInv
<1> USE DEF TypedInv
<1>1. Init => TypedInv
  BY ConfigAssumption DEF Init, TypeOK, SpentFits, PCs, Settling, Entries
<1>2. TypedInv /\ [Next]_vars => TypedInv'
  <2> SUFFICES ASSUME TypedInv, [Next]_vars PROVE TypedInv'
    OBVIOUS
  <2> USE ValueAssumption, ConfigAssumption DEF PCs, Settling, Entries, held, requestVars,
          sessionVars, accountVars, chainVars, outsideVars
  <2>1. ASSUME NEW h \in Handlers, NEW a \in Auths, OpenSession(h, a) PROVE TypedInv'
    BY <2>1 DEF OpenSession, Goto, TypeOK, SpentFits
  <2>2. ASSUME NEW h \in Handlers, Verify(h) PROVE TypedInv'
    <3>1. CASE Finish(h)
      BY <2>2, <3>1 DEF Verify, Finish, TypeOK, SpentFits
    <3>2. CASE Goto(h, "decide") /\ Value[req[h]] >= Price /\ UNCHANGED <<req, closing>>
      BY <2>2, <3>2 DEF Verify, Goto, TypeOK, SpentFits
    <3> QED
      BY <2>2, <3>1, <3>2 DEF Verify
  <2>3. ASSUME NEW h \in Handlers, OpenHeld(h) PROVE TypedInv'
    <3>1. CASE UNCHANGED <<sessionVars, served>>
      BY <2>3, <3>1 DEF OpenHeld, Finish, TypeOK, SpentFits
    <3>2. ASSUME NEW i \in Ids, auth[i] = None, store' = store \cup {i},
                 auth' = [auth EXCEPT ![i] = req[h]], spent' = [spent EXCEPT ![i] = Price],
                 settled' = [settled EXCEPT ![i] = FALSE],
                 served' = [served EXCEPT ![i] = @ + 1], reserved' = reserved \cup {req[h]}
          PROVE  TypedInv'
      <4>1. req[h] \in Auths /\ Value[req[h]] >= Price /\ req[h] # None
        BY <2>3 DEF OpenHeld, TypeOK, SpentFits
      <4>2. /\ Finish(h) /\ pc[h] = "decide"
            /\ UNCHANGED <<tx, lock, spends, mirror, journal, chainVars, opened, told, broken, restarts>>
        BY <2>3 DEF OpenHeld
      <4>3. TypeOK'
        BY <3>2, <4>1, <4>2 DEF Finish, TypeOK
      <4>4. SpentFits'
        BY <3>2, <4>1, <4>2 DEF Finish, TypeOK, SpentFits
      <4> QED
        BY <4>3, <4>4
    <3> QED
      BY <2>3, <3>1, <3>2 DEF OpenHeld
  <2>4. ASSUME NEW h \in Handlers, NEW i \in Ids, NEW close \in BOOLEAN,
               SessionRequest(h, i, close)
        PROVE  TypedInv'
    BY <2>4 DEF SessionRequest, Goto, TypeOK, SpentFits
  <2>5. ASSUME NEW h \in Handlers, Refuse(h) PROVE TypedInv'
    BY <2>5 DEF Refuse, Finish, TypeOK, SpentFits
  <2>6. ASSUME NEW h \in Handlers, Draw(h) PROVE TypedInv'
    BY <2>6 DEF Draw, Finish, MustSettle, AlreadySettled, CanLock, unused, TypeOK, SpentFits
  <2>7. ASSUME NEW h \in Handlers, BeginSettle(h) PROVE TypedInv'
    BY <2>7 DEF BeginSettle, Goto, TypeOK, SpentFits
  <2>8. ASSUME NEW h \in Handlers, Submit(h) PROVE TypedInv'
    <3>1. CASE SettleFailed(h)
      BY <2>8, <3>1 DEF Submit, SettleFailed, Unlock, Finish, TypeOK, SpentFits
    <3>2. CASE Goto(h, "wait") /\ tx' = [tx EXCEPT ![h] = "pending"] /\ UNCHANGED <<req, closing, store, lock>>
      BY <2>8, <3>2 DEF Submit, SettleFailed, Goto, TypeOK, SpentFits
    <3> QED
      BY <2>8, <3>1, <3>2 DEF Submit
  <2>9. ASSUME NEW h \in Handlers, SettleTimeout(h) PROVE TypedInv'
    BY <2>9 DEF SettleTimeout, SettleFailed, Unlock, Finish, TypeOK, SpentFits
  <2>10. ASSUME NEW h \in Handlers, SettleReceipt(h) PROVE TypedInv'
    <3>1. CASE SettleFailed(h)
      BY <2>10, <3>1 DEF SettleReceipt, SettleFailed, Unlock, Finish, TypeOK, SpentFits
    <3>2. CASE Goto(h, "journal") /\ UNCHANGED <<req, closing, store, lock>>
      BY <2>10, <3>2 DEF SettleReceipt, SettleFailed, Goto, TypeOK, SpentFits
    <3> QED
      BY <2>10, <3>1, <3>2 DEF SettleReceipt
  <2>11. ASSUME NEW h \in Handlers, JournalSettlement(h) PROVE TypedInv'
    <3>1. CASE SettleFailed(h)
      BY <2>11, <3>1 DEF JournalSettlement, SettleFailed, Unlock, Finish, TypeOK, SpentFits
    <3>2. CASE Goto(h, "commit") /\ UNCHANGED <<req, closing, store, lock, broken>>
      BY <2>11, <3>2 DEF JournalSettlement, SettleFailed, Goto, TypeOK, SpentFits
    <3> QED
      BY <2>11, <3>1, <3>2 DEF JournalSettlement
  <2>12. ASSUME NEW h \in Handlers, CommitSettlement(h) PROVE TypedInv'
    BY <2>12 DEF CommitSettlement, commit, Goto, TypeOK, SpentFits
  <2>13. ASSUME NEW h \in Handlers, RefundUnused(h) PROVE TypedInv'
    BY <2>13 DEF RefundUnused, Logged, Outstanding, RefundEntry, PendingEntry, unused, Goto,
       TypeOK, SpentFits
  <2>14. ASSUME NEW h \in Handlers, SettleDone(h) PROVE TypedInv'
    BY <2>14 DEF SettleDone, Unlock, Finish, TypeOK, SpentFits
  <2>15. ASSUME NEW h \in Handlers, Mine(h) PROVE TypedInv'
    BY <2>15 DEF Mine, TypeOK, SpentFits
  <2>16. ASSUME Restart PROVE TypedInv'
    BY <2>16 DEF Restart, TypeOK, SpentFits
  <2>17. ASSUME NEW a \in Auths, MineOrphan(a) PROVE TypedInv'
    BY <2>17 DEF MineOrphan, TypeOK, SpentFits
  <2>18. ASSUME NEW a \in Auths, Tick(a) PROVE TypedInv'
    BY <2>18 DEF Tick, TypeOK, SpentFits
  <2>19. ASSUME UNCHANGED vars PROVE TypedInv'
    BY <2>19 DEF vars, TypeOK, SpentFits
  <2> QED
    BY <2>1, <2>2, <2>3, <2>4, <2>5, <2>6, <2>7, <2>8, <2>9, <2>10, <2>11, <2>12, <2>13, <2>14,
       <2>15, <2>16, <2>17, <2>18, <2>19, NextCases
<1> QED
  BY <1>1, <1>2, PTL DEF Spec

\* Every reachable state is well typed.
THEOREM SessionTypeOK == Spec => []TypeOK
  BY SessionTyped, PTL DEF TypedInv

\* The settlement is answered only once the budget was transferred and the
\* entry appended.
DurableInv == ChargeInv /\ ToldIsDurable

\* ToldIsDurable: "settled and closed" is answered only for a transferred
\* budget whose entry is in the journal, over crashes and whatever fails
\* (session.go:213-226).
THEOREM SessionToldIsDurable == Spec => []ToldIsDurable
<1>1. Init => DurableInv
  BY DEF Init, DurableInv, ChargeInv, Charged, ToldIsDurable
<1>2. TypeOK /\ TypeOK' /\ DurableInv /\ [Next]_vars => DurableInv'
  <2> SUFFICES ASSUME TypeOK, TypeOK', DurableInv, [Next]_vars PROVE DurableInv'
    OBVIOUS
  <2> USE ConfigAssumption DEF Settling, Charged, held, requestVars, sessionVars, accountVars,
          chainVars, outsideVars
  <2>1. ASSUME NEW h \in Handlers, NEW a \in Auths, OpenSession(h, a) PROVE DurableInv'
    BY <2>1 DEF OpenSession, Goto, TypeOK, DurableInv, ChargeInv, ToldIsDurable
  <2>2. ASSUME NEW h \in Handlers, Verify(h) PROVE DurableInv'
    BY <2>2 DEF Verify, Goto, Finish, TypeOK, DurableInv, ChargeInv, ToldIsDurable
  <2>3. ASSUME NEW h \in Handlers, OpenHeld(h) PROVE DurableInv'
    BY <2>3 DEF OpenHeld, Finish, TypeOK, DurableInv, ChargeInv, ToldIsDurable
  <2>4. ASSUME NEW h \in Handlers, NEW i \in Ids, NEW close \in BOOLEAN,
               SessionRequest(h, i, close)
        PROVE  DurableInv'
    BY <2>4 DEF SessionRequest, Goto, TypeOK, DurableInv, ChargeInv, ToldIsDurable
  <2>5. ASSUME NEW h \in Handlers, Refuse(h) PROVE DurableInv'
    BY <2>5 DEF Refuse, Finish, TypeOK, DurableInv, ChargeInv, ToldIsDurable
  <2>6. ASSUME NEW h \in Handlers, Draw(h) PROVE DurableInv'
    BY <2>6 DEF Draw, Finish, TypeOK, DurableInv, ChargeInv, ToldIsDurable
  <2>7. ASSUME NEW h \in Handlers, BeginSettle(h) PROVE DurableInv'
    BY <2>7 DEF BeginSettle, Goto, TypeOK, DurableInv, ChargeInv, ToldIsDurable
  <2>8. ASSUME NEW h \in Handlers, Submit(h) PROVE DurableInv'
    BY <2>8 DEF Submit, SettleFailed, Goto, Finish, TypeOK, DurableInv, ChargeInv, ToldIsDurable
  <2>9. ASSUME NEW h \in Handlers, SettleTimeout(h) PROVE DurableInv'
    BY <2>9 DEF SettleTimeout, SettleFailed, Finish, TypeOK, DurableInv, ChargeInv,
       ToldIsDurable
  <2>10. ASSUME NEW h \in Handlers, SettleReceipt(h) PROVE DurableInv'
    BY <2>10 DEF SettleReceipt, SettleFailed, Goto, Finish, TypeOK, DurableInv, ChargeInv,
       ToldIsDurable
  <2>11. ASSUME NEW h \in Handlers, JournalSettlement(h) PROVE DurableInv'
    BY <2>11 DEF JournalSettlement, SettleFailed, Goto, Finish, TypeOK, DurableInv, ChargeInv,
       ToldIsDurable
  <2>12. ASSUME NEW h \in Handlers, CommitSettlement(h) PROVE DurableInv'
    BY <2>12 DEF CommitSettlement, Goto, TypeOK, DurableInv, ChargeInv, ToldIsDurable
  <2>13. ASSUME NEW h \in Handlers, RefundUnused(h) PROVE DurableInv'
    BY <2>13 DEF RefundUnused, Logged, Outstanding, RefundEntry, PendingEntry, unused, Goto,
       TypeOK, DurableInv, ChargeInv, ToldIsDurable
  <2>14. ASSUME NEW h \in Handlers, SettleDone(h) PROVE DurableInv'
    BY <2>14 DEF SettleDone, Finish, TypeOK, DurableInv, ChargeInv, ToldIsDurable
  <2>15. ASSUME NEW h \in Handlers, Mine(h) PROVE DurableInv'
    BY <2>15 DEF Mine, TypeOK, DurableInv, ChargeInv, ToldIsDurable
  <2>16. ASSUME Restart PROVE DurableInv'
    BY <2>16 DEF Restart, TypeOK, DurableInv, ChargeInv, ToldIsDurable
  <2>17. ASSUME NEW a \in Auths, MineOrphan(a) PROVE DurableInv'
    BY <2>17 DEF MineOrphan, TypeOK, DurableInv, ChargeInv, ToldIsDurable
  <2>18. ASSUME NEW a \in Auths, Tick(a) PROVE DurableInv'
    BY <2>18 DEF Tick, TypeOK, DurableInv, ChargeInv, ToldIsDurable
  <2>19. ASSUME UNCHANGED vars PROVE DurableInv'
    BY <2>19 DEF vars, TypeOK, DurableInv, ChargeInv, ToldIsDurable
  <2> QED
    BY <2>1, <2>2, <2>3, <2>4, <2>5, <2>6, <2>7, <2>8, <2>9, <2>10, <2>11, <2>12, <2>13, <2>14,
       <2>15, <2>16, <2>17, <2>18, <2>19, NextCases
<1> QED
  BY <1>1, <1>2, SessionTypeOK, PTL DEF Spec, DurableInv

\* NoSilentCharge: a transferred budget is in a settlement, was reported, or the
\* wait, the journal or the process failed under it.
THEOREM SessionNoSilentCharge == Spec => []NoSilentCharge
<1>1. Init => SilentInv
  BY DEF Init, SilentInv
<1>2. TypeOK /\ TypeOK' /\ SilentInv /\ [Next]_vars => SilentInv'
  <2> SUFFICES ASSUME TypeOK, TypeOK', SilentInv, [Next]_vars PROVE SilentInv'
    OBVIOUS
  <2> USE ConfigAssumption DEF Settling, Charged, held, requestVars, sessionVars, accountVars,
          chainVars, outsideVars
  <2>1. ASSUME NEW h \in Handlers, NEW a \in Auths, OpenSession(h, a) PROVE SilentInv'
    BY <2>1 DEF OpenSession, Goto, TypeOK, SilentInv
  <2>2. ASSUME NEW h \in Handlers, Verify(h) PROVE SilentInv'
    BY <2>2 DEF Verify, Goto, Finish, TypeOK, SilentInv
  <2>3. ASSUME NEW h \in Handlers, OpenHeld(h) PROVE SilentInv'
    BY <2>3 DEF OpenHeld, Finish, TypeOK, SilentInv
  <2>4. ASSUME NEW h \in Handlers, NEW i \in Ids, NEW close \in BOOLEAN,
               SessionRequest(h, i, close)
        PROVE  SilentInv'
    BY <2>4 DEF SessionRequest, Goto, TypeOK, SilentInv
  <2>5. ASSUME NEW h \in Handlers, Refuse(h) PROVE SilentInv'
    BY <2>5 DEF Refuse, Finish, TypeOK, SilentInv
  <2>6. ASSUME NEW h \in Handlers, Draw(h) PROVE SilentInv'
    BY <2>6 DEF Draw, Finish, TypeOK, SilentInv
  <2>7. ASSUME NEW h \in Handlers, BeginSettle(h) PROVE SilentInv'
    BY <2>7 DEF BeginSettle, Goto, TypeOK, SilentInv
  <2>8. ASSUME NEW h \in Handlers, Submit(h) PROVE SilentInv'
    BY <2>8 DEF Submit, SettleFailed, Goto, Finish, TypeOK, SilentInv
  <2>9. ASSUME NEW h \in Handlers, SettleTimeout(h) PROVE SilentInv'
    BY <2>9 DEF SettleTimeout, SettleFailed, Finish, TypeOK, SilentInv
  <2>10. ASSUME NEW h \in Handlers, SettleReceipt(h) PROVE SilentInv'
    BY <2>10 DEF SettleReceipt, SettleFailed, Goto, Finish, TypeOK, SilentInv
  <2>11. ASSUME NEW h \in Handlers, JournalSettlement(h) PROVE SilentInv'
    BY <2>11 DEF JournalSettlement, SettleFailed, Goto, Finish, TypeOK, SilentInv
  <2>12. ASSUME NEW h \in Handlers, CommitSettlement(h) PROVE SilentInv'
    BY <2>12 DEF CommitSettlement, Goto, TypeOK, SilentInv
  <2>13. ASSUME NEW h \in Handlers, RefundUnused(h) PROVE SilentInv'
    BY <2>13 DEF RefundUnused, Logged, Outstanding, RefundEntry, PendingEntry, unused, Goto,
       TypeOK, SilentInv
  <2>14. ASSUME NEW h \in Handlers, SettleDone(h) PROVE SilentInv'
    BY <2>14 DEF SettleDone, Finish, TypeOK, SilentInv
  <2>15. ASSUME NEW h \in Handlers, Mine(h) PROVE SilentInv'
    BY <2>15 DEF Mine, TypeOK, SilentInv
  <2>16. ASSUME Restart PROVE SilentInv'
    BY <2>16 DEF Restart, TypeOK, SilentInv
  <2>17. ASSUME NEW a \in Auths, MineOrphan(a) PROVE SilentInv'
    BY <2>17 DEF MineOrphan, TypeOK, SilentInv
  <2>18. ASSUME NEW a \in Auths, Tick(a) PROVE SilentInv'
    BY <2>18 DEF Tick, TypeOK, SilentInv
  <2>19. ASSUME UNCHANGED vars PROVE SilentInv'
    BY <2>19 DEF vars, TypeOK, SilentInv
  <2> QED
    BY <2>1, <2>2, <2>3, <2>4, <2>5, <2>6, <2>7, <2>8, <2>9, <2>10, <2>11, <2>12, <2>13, <2>14,
       <2>15, <2>16, <2>17, <2>18, <2>19, NextCases
<1>3. TypeOK /\ SilentInv => NoSilentCharge
  BY DEF TypeOK, SilentInv, NoSilentCharge, Charged, Settling
<1> QED
  BY <1>1, <1>2, <1>3, SessionTypeOK, PTL DEF Spec

\* One goroutine at a time is inside settleSession for a session
\* (session.go:155-156).
LEMMA SessionMutexHeld == Spec => []MutexHeld
<1>1. Init => MutexHeld
  BY DEF Init, MutexHeld, Settling
<1>2. TypeOK /\ TypeOK' /\ MutexHeld /\ [Next]_vars => MutexHeld'
  <2> SUFFICES ASSUME TypeOK, TypeOK', MutexHeld, [Next]_vars PROVE MutexHeld'
    OBVIOUS
  <2> USE ValueAssumption, ConfigAssumption DEF Settling, Charged, held, requestVars, sessionVars,
          accountVars, chainVars, outsideVars
  <2>1. ASSUME NEW h \in Handlers, NEW a \in Auths, OpenSession(h, a) PROVE MutexHeld'
    BY <2>1 DEF OpenSession, Goto, TypeOK, MutexHeld
  <2>2. ASSUME NEW h \in Handlers, Verify(h) PROVE MutexHeld'
    BY <2>2 DEF Verify, Goto, Finish, TypeOK, MutexHeld
  <2>3. ASSUME NEW h \in Handlers, OpenHeld(h) PROVE MutexHeld'
    BY <2>3 DEF OpenHeld, Finish, TypeOK, MutexHeld
  <2>4. ASSUME NEW h \in Handlers, NEW i \in Ids, NEW close \in BOOLEAN,
               SessionRequest(h, i, close)
        PROVE  MutexHeld'
    BY <2>4 DEF SessionRequest, Goto, TypeOK, MutexHeld
  <2>5. ASSUME NEW h \in Handlers, Refuse(h) PROVE MutexHeld'
    BY <2>5 DEF Refuse, Finish, TypeOK, MutexHeld
  <2>6. ASSUME NEW h \in Handlers, Draw(h) PROVE MutexHeld'
    BY <2>6 DEF Draw, Finish, TypeOK, MutexHeld
  <2>7. ASSUME NEW h \in Handlers, BeginSettle(h) PROVE MutexHeld'
    BY <2>7 DEF BeginSettle, Goto, CanLock, AlreadySettled, TypeOK, MutexHeld
  <2>8. ASSUME NEW h \in Handlers, Submit(h) PROVE MutexHeld'
    BY <2>8 DEF Submit, SettleFailed, Unlock, Goto, Finish, TypeOK, MutexHeld
  <2>9. ASSUME NEW h \in Handlers, SettleTimeout(h) PROVE MutexHeld'
    BY <2>9 DEF SettleTimeout, SettleFailed, Unlock, Finish, TypeOK, MutexHeld
  <2>10. ASSUME NEW h \in Handlers, SettleReceipt(h) PROVE MutexHeld'
    BY <2>10 DEF SettleReceipt, SettleFailed, Unlock, Goto, Finish, TypeOK, MutexHeld
  <2>11. ASSUME NEW h \in Handlers, JournalSettlement(h) PROVE MutexHeld'
    BY <2>11 DEF JournalSettlement, SettleFailed, Unlock, Goto, Finish, TypeOK, MutexHeld
  <2>12. ASSUME NEW h \in Handlers, CommitSettlement(h) PROVE MutexHeld'
    BY <2>12 DEF CommitSettlement, Goto, TypeOK, MutexHeld
  <2>13. ASSUME NEW h \in Handlers, RefundUnused(h) PROVE MutexHeld'
    BY <2>13 DEF RefundUnused, Goto, TypeOK, MutexHeld
  <2>14. ASSUME NEW h \in Handlers, SettleDone(h) PROVE MutexHeld'
    BY <2>14 DEF SettleDone, Unlock, Finish, TypeOK, MutexHeld
  <2>15. ASSUME NEW h \in Handlers, Mine(h) PROVE MutexHeld'
    BY <2>15 DEF Mine, TypeOK, MutexHeld
  <2>16. ASSUME Restart PROVE MutexHeld'
    BY <2>16 DEF Restart, TypeOK, MutexHeld
  <2>17. ASSUME NEW a \in Auths, MineOrphan(a) PROVE MutexHeld'
    BY <2>17 DEF MineOrphan, TypeOK, MutexHeld
  <2>18. ASSUME NEW a \in Auths, Tick(a) PROVE MutexHeld'
    BY <2>18 DEF Tick, TypeOK, MutexHeld
  <2>19. ASSUME UNCHANGED vars PROVE MutexHeld'
    BY <2>19 DEF vars, TypeOK, MutexHeld
  <2> QED
    BY <2>1, <2>2, <2>3, <2>4, <2>5, <2>6, <2>7, <2>8, <2>9, <2>10, <2>11, <2>12, <2>13, <2>14,
       <2>15, <2>16, <2>17, <2>18, <2>19, NextCases
<1> QED
  BY <1>1, <1>2, SessionTypeOK, PTL DEF Spec

\* With one authorization per open, no two sessions share one.
LEMMA SessionOneSession ==
  ASSUME SingleOpen
  PROVE  Spec => []OneSession
<1>1. Init => OneSession
  BY ConfigAssumption DEF Init, OneSession
<1>2. TypeOK /\ TypeOK' /\ OneSession /\ [Next]_vars => OneSession'
  <2> SUFFICES ASSUME TypeOK, TypeOK', OneSession, [Next]_vars PROVE OneSession'
    OBVIOUS
  <2> USE ValueAssumption, ConfigAssumption DEF Settling, Charged, held, requestVars, sessionVars,
          accountVars, chainVars, outsideVars
  <2>1. ASSUME NEW h \in Handlers, NEW a \in Auths, OpenSession(h, a) PROVE OneSession'
    BY <2>1 DEF OpenSession, buildSessionOpen, Goto, TypeOK, OneSession
  <2>2. ASSUME NEW h \in Handlers, Verify(h) PROVE OneSession'
    BY <2>2 DEF Verify, Goto, Finish, TypeOK, OneSession
  <2>3. ASSUME NEW h \in Handlers, OpenHeld(h) PROVE OneSession'
    <3>1. CASE UNCHANGED <<sessionVars, served>>
      BY <2>3, <3>1 DEF OpenHeld, Finish, TypeOK, OneSession
    <3>2. ASSUME NEW i \in Ids, auth[i] = None, auth' = [auth EXCEPT ![i] = req[h]],
                 spent' = [spent EXCEPT ![i] = Price], served' = [served EXCEPT ![i] = @ + 1]
          PROVE  OneSession'
      <4>1. req[h] \in Auths /\ req[h] # None /\ pc[h] = "decide" /\ Finish(h) /\ UNCHANGED opened
        BY <2>3 DEF OpenHeld, TypeOK
      <4>2. Price * (0 + 1) = Price
        OBVIOUS
      <4>3. \A j \in Ids : IF auth'[j] = None THEN served'[j] = 0 ELSE spent'[j] = Price * served'[j]
        BY <3>2, <4>1, <4>2 DEF TypeOK, OneSession
      <4> QED
        BY <3>2, <4>1, <4>3 DEF Finish, TypeOK, OneSession
    <3> QED
      BY <2>3, <3>1, <3>2 DEF OpenHeld
  <2>4. ASSUME NEW h \in Handlers, NEW i \in Ids, NEW close \in BOOLEAN,
               SessionRequest(h, i, close)
        PROVE  OneSession'
    BY <2>4 DEF SessionRequest, Goto, TypeOK, OneSession
  <2>5. ASSUME NEW h \in Handlers, Refuse(h) PROVE OneSession'
    BY <2>5 DEF Refuse, Finish, TypeOK, OneSession
  <2>6. ASSUME NEW h \in Handlers, Draw(h) PROVE OneSession'
    <3>1. \A n \in Nat : Price * (n + 1) = Price * n + Price
      OBVIOUS
    <3>2. req[h] \in Ids /\ auth[req[h]] \in Auths /\ auth[req[h]] # None
      BY <2>6 DEF Draw, TypeOK
    <3>3. \A j \in Ids : IF auth'[j] = None THEN served'[j] = 0 ELSE spent'[j] = Price * served'[j]
      <4> SUFFICES ASSUME NEW j \in Ids
                   PROVE  IF auth'[j] = None THEN served'[j] = 0 ELSE spent'[j] = Price * served'[j]
        OBVIOUS
      <4>1. auth' = auth /\ served[j] \in Nat /\ spent[j] \in Nat
        BY <2>6 DEF Draw, TypeOK
      <4>2. CASE j = req[h]
        <5>1. spent'[j] = spent[j] + Price /\ served'[j] = served[j] + 1
          BY <2>6, <4>2 DEF Draw, TypeOK
        <5>2. spent[j] = Price * served[j]
          BY <3>2, <4>2 DEF OneSession
        <5>3. Price * (served[j] + 1) = Price * served[j] + Price
          BY <3>1, <4>1
        <5> QED
          BY <3>2, <4>1, <4>2, <5>1, <5>2, <5>3
      <4>3. CASE j # req[h]
        BY <2>6, <4>1, <4>3 DEF Draw, TypeOK, OneSession
      <4> QED
        BY <4>2, <4>3
    <3> QED
      BY <2>6, <3>3 DEF Draw, Finish, TypeOK, OneSession
  <2>7. ASSUME NEW h \in Handlers, BeginSettle(h) PROVE OneSession'
    BY <2>7 DEF BeginSettle, Goto, TypeOK, OneSession
  <2>8. ASSUME NEW h \in Handlers, Submit(h) PROVE OneSession'
    BY <2>8 DEF Submit, SettleFailed, Goto, Finish, TypeOK, OneSession
  <2>9. ASSUME NEW h \in Handlers, SettleTimeout(h) PROVE OneSession'
    BY <2>9 DEF SettleTimeout, SettleFailed, Finish, TypeOK, OneSession
  <2>10. ASSUME NEW h \in Handlers, SettleReceipt(h) PROVE OneSession'
    BY <2>10 DEF SettleReceipt, SettleFailed, Goto, Finish, TypeOK, OneSession
  <2>11. ASSUME NEW h \in Handlers, JournalSettlement(h) PROVE OneSession'
    BY <2>11 DEF JournalSettlement, SettleFailed, Goto, Finish, TypeOK, OneSession
  <2>12. ASSUME NEW h \in Handlers, CommitSettlement(h) PROVE OneSession'
    BY <2>12 DEF CommitSettlement, Goto, TypeOK, OneSession
  <2>13. ASSUME NEW h \in Handlers, RefundUnused(h) PROVE OneSession'
    BY <2>13 DEF RefundUnused, Goto, TypeOK, OneSession
  <2>14. ASSUME NEW h \in Handlers, SettleDone(h) PROVE OneSession'
    BY <2>14 DEF SettleDone, Finish, TypeOK, OneSession
  <2>15. ASSUME NEW h \in Handlers, Mine(h) PROVE OneSession'
    BY <2>15 DEF Mine, TypeOK, OneSession
  <2>16. ASSUME Restart PROVE OneSession'
    BY <2>16 DEF Restart, TypeOK, OneSession
  <2>17. ASSUME NEW a \in Auths, MineOrphan(a) PROVE OneSession'
    BY <2>17 DEF MineOrphan, TypeOK, OneSession
  <2>18. ASSUME NEW a \in Auths, Tick(a) PROVE OneSession'
    BY <2>18 DEF Tick, TypeOK, OneSession
  <2>19. ASSUME UNCHANGED vars PROVE OneSession'
    BY <2>19 DEF vars, TypeOK, OneSession
  <2> QED
    BY <2>1, <2>2, <2>3, <2>4, <2>5, <2>6, <2>7, <2>8, <2>9, <2>10, <2>11, <2>12, <2>13, <2>14,
       <2>15, <2>16, <2>17, <2>18, <2>19, NextCases
<1> QED
  BY <1>1, <1>2, SessionTypeOK, PTL DEF Spec

\* What was served under the authorization of a session is what the session
\* counted.
LEMMA ServedForSession ==
  ASSUME TypeOK, OneSession, NEW i \in Ids, auth[i] \in Auths
  PROVE  ServedFor(auth[i]) = spent[i]
<1> DEFINE f == [j \in Ids |-> Price * served[j]]
<1>1. {j \in Ids : auth[j] = auth[i]} = {i}
  BY DEF OneSession
<1>2. auth[i] # None
  BY ConfigAssumption
<1>3. f[i] = spent[i] /\ f[i] \in Int
  BY <1>2 DEF OneSession, TypeOK
<1> HIDE DEF f
<1>4. Sum(f, {i}) = f[i]
  BY <1>3, SumSingleton
<1> QED
  BY <1>1, <1>3, <1>4 DEF ServedFor, f

\* Nothing is served under an authorization no session holds.
LEMMA ServedForNone ==
  ASSUME NEW a, \A i \in Ids : auth[i] # a
  PROVE  ServedFor(a) = 0
<1>1. {j \in Ids : auth[j] = a} = {}
  OBVIOUS
<1> QED
  BY <1>1, SumEmpty DEF ServedFor

\* ServedIsCovered: with one authorization per open, what is served never
\* exceeds the value the authorization can be settled for (session.go:174-191).
THEOREM SessionServedIsCovered ==
  ASSUME SingleOpen
  PROVE  Spec => []ServedIsCovered
<1>1. TypedInv /\ OneSession => ServedIsCovered
  <2> SUFFICES ASSUME TypedInv, OneSession, NEW a \in Auths PROVE ServedFor(a) <= Value[a]
    BY DEF ServedIsCovered
  <2>1. CASE \E i \in Ids : auth[i] = a
    BY <2>1, ServedForSession DEF TypedInv, SpentFits
  <2>2. CASE \A i \in Ids : auth[i] # a
    BY <2>2, ServedForNone, ValueAssumption
  <2> QED
    BY <2>1, <2>2
<1> QED
  BY <1>1, SessionTyped, SessionOneSession, PTL

\* While a settlement runs, nothing was refunded for its session yet.
LEMMA NothingRefunded ==
  ASSUME TypeOK, MutexHeld, OneSession, RefundInv, NEW h \in Handlers,
         pc[h] \in Settling, pc[h] # "done"
  PROVE  refunded[held(h)] = 0
<1> SUFFICES ASSUME refunded[held(h)] # 0 PROVE FALSE
  OBVIOUS
<1>1. req[h] \in Ids /\ held(h) \in Auths /\ pc[h] \in AtSession
  BY DEF TypeOK, held, AtSession
<1>2. PICK i \in Ids : auth[i] = held(h) /\ Frozen(i)
  BY <1>1 DEF RefundInv
<1>3. i = req[h]
  BY <1>1, <1>2 DEF OneSession, held
<1>4. ~settled[i]
  BY <1>3 DEF RefundInv
<1>5. ASSUME NEW g \in Handlers, pc[g] = "done", req[g] = i PROVE FALSE
  BY <1>3, <1>5 DEF MutexHeld, Settling
<1> QED
  BY <1>1, <1>2, <1>3, <1>4, <1>5 DEF Frozen

\* A refund was the whole remainder, sent once, of a session that draws no more.
LEMMA SessionRefundInv ==
  ASSUME SingleOpen
  PROVE  Spec => []RefundInv
<1>1. Init => RefundInv
  BY DEF Init, RefundInv
<1>2. TypeOK /\ TypeOK' /\ MutexHeld /\ OneSession /\ RefundInv /\ [Next]_vars => RefundInv'
  <2> SUFFICES ASSUME TypeOK, TypeOK', MutexHeld, OneSession, RefundInv, [Next]_vars
               PROVE  RefundInv'
    OBVIOUS
  <2> USE ValueAssumption, ConfigAssumption DEF Settling, Charged, held, requestVars, sessionVars,
          accountVars, chainVars, outsideVars
  <2>1. ASSUME NEW h \in Handlers, NEW a \in Auths, OpenSession(h, a) PROVE RefundInv'
    BY <2>1 DEF OpenSession, Goto, TypeOK, RefundInv, Frozen, AtSession
  <2>2. ASSUME NEW h \in Handlers, Verify(h) PROVE RefundInv'
    <3>1. CASE Finish(h)
      BY <2>2, <3>1 DEF Verify, Finish, TypeOK, RefundInv, Frozen, AtSession
    <3>2. CASE Goto(h, "decide") /\ UNCHANGED <<req, closing>>
      BY <2>2, <3>2 DEF Verify, Goto, TypeOK, RefundInv, Frozen, AtSession
    <3> QED
      BY <2>2, <3>1, <3>2 DEF Verify
  <2>3. ASSUME NEW h \in Handlers, OpenHeld(h) PROVE RefundInv'
    BY <2>3 DEF OpenHeld, Finish, TypeOK, RefundInv, Frozen, AtSession
  <2>4. ASSUME NEW h \in Handlers, NEW i \in Ids, NEW close \in BOOLEAN,
               SessionRequest(h, i, close)
        PROVE  RefundInv'
    BY <2>4 DEF SessionRequest, Goto, TypeOK, RefundInv, Frozen, AtSession
  <2>5. ASSUME NEW h \in Handlers, Refuse(h) PROVE RefundInv'
    BY <2>5 DEF Refuse, Finish, TypeOK, RefundInv, Frozen, AtSession
  <2>6. ASSUME NEW h \in Handlers, Draw(h) PROVE RefundInv'
    BY <2>6 DEF Draw, Finish, MustSettle, AlreadySettled, CanLock, unused, TypeOK, MutexHeld,
       OneSession, RefundInv, Frozen, AtSession
  <2>7. ASSUME NEW h \in Handlers, BeginSettle(h) PROVE RefundInv'
    BY <2>7 DEF BeginSettle, Goto, CanLock, AlreadySettled, TypeOK, RefundInv, Frozen, AtSession
  <2>8. ASSUME NEW h \in Handlers, Submit(h) PROVE RefundInv'
    <3>1. CASE SettleFailed(h)
      BY <2>8, <3>1 DEF Submit, SettleFailed, Finish, TypeOK, RefundInv, Frozen, AtSession
    <3>2. CASE Goto(h, "wait") /\ UNCHANGED <<req, closing, store, lock>>
      BY <2>8, <3>2 DEF Submit, Goto, TypeOK, RefundInv, Frozen, AtSession
    <3> QED
      BY <2>8, <3>1, <3>2 DEF Submit
  <2>9. ASSUME NEW h \in Handlers, SettleTimeout(h) PROVE RefundInv'
    BY <2>9 DEF SettleTimeout, SettleFailed, Finish, TypeOK, RefundInv, Frozen, AtSession
  <2>10. ASSUME NEW h \in Handlers, SettleReceipt(h) PROVE RefundInv'
    <3>1. CASE SettleFailed(h)
      BY <2>10, <3>1 DEF SettleReceipt, SettleFailed, Finish, TypeOK, RefundInv, Frozen,
         AtSession
    <3>2. CASE Goto(h, "journal") /\ UNCHANGED <<req, closing, store, lock>>
      BY <2>10, <3>2 DEF SettleReceipt, Goto, TypeOK, RefundInv, Frozen, AtSession
    <3> QED
      BY <2>10, <3>1, <3>2 DEF SettleReceipt
  <2>11. ASSUME NEW h \in Handlers, JournalSettlement(h) PROVE RefundInv'
    <3>1. CASE SettleFailed(h)
      BY <2>11, <3>1 DEF JournalSettlement, SettleFailed, Finish, TypeOK, RefundInv, Frozen,
         AtSession
    <3>2. CASE Goto(h, "commit") /\ UNCHANGED <<req, closing, store, lock, broken>>
      BY <2>11, <3>2 DEF JournalSettlement, Goto, TypeOK, RefundInv, Frozen, AtSession
    <3> QED
      BY <2>11, <3>1, <3>2 DEF JournalSettlement
  <2>12. ASSUME NEW h \in Handlers, CommitSettlement(h) PROVE RefundInv'
    BY <2>12 DEF CommitSettlement, Goto, TypeOK, RefundInv, Frozen, AtSession
  <2>13. ASSUME NEW h \in Handlers, RefundUnused(h) PROVE RefundInv'
    <3> DEFINE i == req[h]
    <3>1. /\ i \in Ids /\ auth[i] \in Auths /\ pc[h] = "refund" /\ Goto(h, "done")
          /\ UNCHANGED <<req, auth, spent, settled, store>>
      BY <2>13 DEF RefundUnused, TypeOK
    <3>2. refunded[auth[i]] = 0
      BY <3>1, NothingRefunded
    <3>3. UNCHANGED refunded \/ refunded' = [refunded EXCEPT ![auth[i]] = unused(i)]
      <4>1. Value[auth[i]] \in Nat /\ spent[i] \in Nat
        BY <3>1 DEF TypeOK
      <4> QED
        BY <2>13, <3>2, <4>1 DEF RefundUnused, unused
    <3>4. \A j \in Ids : settled'[j] => \A g \in Handlers : pc'[g] \in Settling => req'[g] # j
      BY <3>1 DEF Goto, RefundInv, TypeOK
    <3>5. \A j \in Ids : Frozen(j) => Frozen(j)'
      BY <3>1 DEF Goto, Frozen, AtSession, TypeOK
    <3>6. Frozen(i)'
      BY <3>1 DEF Goto, Frozen, TypeOK
    <3>7. CASE UNCHANGED refunded
      BY <3>1, <3>4, <3>5, <3>7 DEF RefundInv
    <3>8. CASE refunded' = [refunded EXCEPT ![auth[i]] = unused(i)]
      BY <3>1, <3>4, <3>5, <3>6, <3>8 DEF RefundInv, unused, TypeOK
    <3> QED
      BY <3>3, <3>7, <3>8
  <2>14. ASSUME NEW h \in Handlers, SettleDone(h) PROVE RefundInv'
    BY <2>14 DEF SettleDone, Finish, TypeOK, MutexHeld, OneSession, RefundInv, Frozen, AtSession
  <2>15. ASSUME NEW h \in Handlers, Mine(h) PROVE RefundInv'
    BY <2>15 DEF Mine, TypeOK, RefundInv, Frozen, AtSession
  <2>16. ASSUME Restart PROVE RefundInv'
    BY <2>16 DEF Restart, TypeOK, RefundInv, Frozen, AtSession
  <2>17. ASSUME NEW a \in Auths, MineOrphan(a) PROVE RefundInv'
    BY <2>17 DEF MineOrphan, TypeOK, RefundInv, Frozen, AtSession
  <2>18. ASSUME NEW a \in Auths, Tick(a) PROVE RefundInv'
    BY <2>18 DEF Tick, TypeOK, RefundInv, Frozen, AtSession
  <2>19. ASSUME UNCHANGED vars PROVE RefundInv'
    BY <2>19 DEF vars, TypeOK, RefundInv, Frozen, AtSession
  <2> QED
    BY <2>1, <2>2, <2>3, <2>4, <2>5, <2>6, <2>7, <2>8, <2>9, <2>10, <2>11, <2>12, <2>13, <2>14,
       <2>15, <2>16, <2>17, <2>18, <2>19, NextCases
<1> QED
  BY <1>1, <1>2, SessionTypeOK, SessionMutexHeld, SessionOneSession, PTL DEF Spec

\* SellerKeepsServed: no interleaving refunds twice or more than the remainder
\* (session.go:231-240).
THEOREM SessionSellerKeepsServed ==
  ASSUME SingleOpen
  PROVE  Spec => []SellerKeepsServed
<1>1. TypeOK /\ OneSession /\ RefundInv => SellerKeepsServed
  <2> SUFFICES ASSUME TypeOK, OneSession, RefundInv, NEW a \in Auths, refunded[a] > 0
               PROVE  refunded[a] <= Value[a] - ServedFor(a)
    BY DEF SellerKeepsServed
  <2>1. PICK i \in Ids : auth[i] = a /\ refunded[a] = Value[a] - spent[i]
    BY DEF RefundInv
  <2>2. ServedFor(a) = spent[i]
    BY <2>1, ServedForSession
  <2> QED
    BY <2>1, <2>2, ValueAssumption DEF TypeOK
<1> QED
  BY <1>1, SessionTypeOK, SessionOneSession, SessionRefundInv, PTL

\* A settlement that is done, or was reported, is square.
LEMMA SessionSquareInv ==
  ASSUME SingleOpen
  PROVE  Spec => []SquareInv
<1>1. Init => SquareInv
  BY DEF Init, SquareInv
<1>2. /\ TypedInv /\ TypeOK' /\ MutexHeld /\ OneSession /\ RefundInv /\ SquareInv
      /\ [Next]_vars
      => SquareInv'
  <2> SUFFICES ASSUME TypedInv, TypeOK', MutexHeld, OneSession, RefundInv, SquareInv, [Next]_vars
               PROVE  SquareInv'
    OBVIOUS
  <2> TypeOK /\ SpentFits
    BY DEF TypedInv
  <2> USE ValueAssumption, ConfigAssumption DEF Settling, Charged, held, requestVars, sessionVars,
          accountVars, chainVars, outsideVars
  <2>1. ASSUME NEW h \in Handlers, NEW a \in Auths, OpenSession(h, a) PROVE SquareInv'
    BY <2>1 DEF OpenSession, Goto, TypeOK, SquareInv, Square
  <2>2. ASSUME NEW h \in Handlers, Verify(h) PROVE SquareInv'
    BY <2>2 DEF Verify, Goto, Finish, TypeOK, SquareInv, Square
  <2>3. ASSUME NEW h \in Handlers, OpenHeld(h) PROVE SquareInv'
    <3>1. CASE UNCHANGED <<sessionVars, served>>
      BY <2>3, <3>1 DEF OpenHeld, Finish, TypeOK, SquareInv, Square
    <3>2. ASSUME NEW i \in Ids, auth[i] = None, auth' = [auth EXCEPT ![i] = req[h]],
                 spent' = [spent EXCEPT ![i] = Price], settled' = [settled EXCEPT ![i] = FALSE]
          PROVE  SquareInv'
      <4>1. \A j \in Ids : j # i /\ Square(j) => Square(j)'
        BY <2>3, <3>2 DEF OpenHeld, TypeOK, Square
      <4>2. \A g \in Handlers : pc'[g] = "done" => pc[g] = "done" /\ req'[g] = req[g] /\ req[g] # i
                                                   /\ req[g] \in Ids
        BY <2>3, <3>2 DEF OpenHeld, Finish, TypeOK
      <4>3. \A a \in told : \E j \in Ids : j # i /\ auth[j] = a /\ settled[j] /\ Square(j)
        BY <3>2 DEF TypeOK, SquareInv
      <4>4. \A j \in Ids : j # i => auth'[j] = auth[j] /\ settled'[j] = settled[j]
        BY <3>2 DEF TypeOK
      <4>5. told' = told
        BY <2>3 DEF OpenHeld
      <4> QED
        BY <4>1, <4>2, <4>3, <4>4, <4>5 DEF SquareInv
    <3> QED
      BY <2>3, <3>1, <3>2 DEF OpenHeld
  <2>4. ASSUME NEW h \in Handlers, NEW i \in Ids, NEW close \in BOOLEAN,
               SessionRequest(h, i, close)
        PROVE  SquareInv'
    BY <2>4 DEF SessionRequest, Goto, TypeOK, SquareInv, Square
  <2>5. ASSUME NEW h \in Handlers, Refuse(h) PROVE SquareInv'
    BY <2>5 DEF Refuse, Finish, TypeOK, SquareInv, Square
  <2>6. ASSUME NEW h \in Handlers, Draw(h) PROVE SquareInv'
    <3>1. /\ req[h] \in Ids /\ ~settled[req[h]] /\ lock[req[h]] = None
          /\ spent' = [spent EXCEPT ![req[h]] = @ + Price] /\ Finish(h)
          /\ UNCHANGED <<auth, settled, journal, refunded, told, broken>>
      BY <2>6 DEF Draw, AlreadySettled, CanLock, TypeOK
    <3>2. \A j \in Ids : j # req[h] /\ Square(j) => Square(j)'
      BY <3>1 DEF TypeOK, Square
    <3>3. \A g \in Handlers : pc'[g] = "done" => pc[g] = "done" /\ req'[g] = req[g] /\ req[g] \in Ids
                                                 /\ req[g] # req[h]
      BY <3>1 DEF Finish, TypeOK, MutexHeld
    <3> QED
      BY <3>1, <3>2, <3>3 DEF SquareInv
  <2>7. ASSUME NEW h \in Handlers, BeginSettle(h) PROVE SquareInv'
    BY <2>7 DEF BeginSettle, Goto, TypeOK, SquareInv, Square
  <2>8. ASSUME NEW h \in Handlers, Submit(h) PROVE SquareInv'
    BY <2>8 DEF Submit, SettleFailed, Goto, Finish, TypeOK, SquareInv, Square
  <2>9. ASSUME NEW h \in Handlers, SettleTimeout(h) PROVE SquareInv'
    <3>1. \A j \in Ids : Square(j) => Square(j)'
      BY <2>9 DEF SettleTimeout, TypeOK, Square
    <3>2. \A g \in Handlers : pc'[g] = "done" => pc[g] = "done" /\ req'[g] = req[g] /\ req[g] \in Ids
      BY <2>9 DEF SettleTimeout, SettleFailed, Finish, TypeOK
    <3> QED
      BY <2>9, <3>1, <3>2 DEF SettleTimeout, SquareInv
  <2>10. ASSUME NEW h \in Handlers, SettleReceipt(h) PROVE SquareInv'
    BY <2>10 DEF SettleReceipt, SettleFailed, Goto, Finish, TypeOK, SquareInv, Square
  <2>11. ASSUME NEW h \in Handlers, JournalSettlement(h) PROVE SquareInv'
    <3>1. \A j \in Ids : Square(j) => Square(j)'
      BY <2>11 DEF JournalSettlement, TypeOK, Square
    <3>2. \A g \in Handlers : pc'[g] = "done" => pc[g] = "done" /\ req'[g] = req[g] /\ req[g] \in Ids
      BY <2>11 DEF JournalSettlement, SettleFailed, Finish, Goto, TypeOK
    <3> QED
      BY <2>11, <3>1, <3>2 DEF JournalSettlement, SquareInv
  <2>12. ASSUME NEW h \in Handlers, CommitSettlement(h) PROVE SquareInv'
    <3> DEFINE i == req[h]
    <3>1. /\ pc[h] = "commit" /\ i \in Ids /\ auth[i] \in Auths
          /\ UNCHANGED <<req, auth, spent, settled, journal, refunded, told, broken>>
      BY <2>12 DEF CommitSettlement, TypeOK
    <3>2. refunded[auth[i]] = 0
      BY <3>1, NothingRefunded
    <3>3. pc'[h] = "done" => Square(i)
      <4>1. Value[auth[i]] \in Nat /\ spent[i] \in Nat /\ spent[i] <= Value[auth[i]]
        BY <3>1 DEF TypeOK, SpentFits
      <4>2. pc'[h] = "done" => ~(Value[auth[i]] - spent[i] > 0)
        BY <2>12, <3>1 DEF CommitSettlement, Goto, unused, TypeOK
      <4> QED
        BY <3>2, <4>1, <4>2 DEF Square
    <3>4. \A g \in Handlers : g # h => pc'[g] = pc[g]
      BY <2>12 DEF CommitSettlement, Goto, TypeOK
    <3>5. \A j \in Ids : Square(j) => Square(j)'
      BY <3>1 DEF Square
    <3>6. \A g \in Handlers : pc[g] = "done" => req[g] \in Ids
      BY DEF TypeOK
    <3> QED
      BY <3>1, <3>3, <3>4, <3>5, <3>6 DEF SquareInv
  <2>13. ASSUME NEW h \in Handlers, RefundUnused(h) PROVE SquareInv'
    <3> DEFINE i == req[h]
    <3>1. /\ pc[h] = "refund" /\ i \in Ids /\ auth[i] \in Auths /\ Goto(h, "done")
          /\ UNCHANGED <<req, auth, spent, settled, told>>
      BY <2>13 DEF RefundUnused, TypeOK
    <3>2. refunded[auth[i]] = 0
      BY <3>1, NothingRefunded
    <3>3. Square(i)'
      <4>1. Value[auth[i]] \in Nat /\ spent[i] \in Nat
        BY <3>1 DEF TypeOK
      <4>2. CASE refunded' = [refunded EXCEPT ![auth[i]] = @ + unused(i)]
        BY <3>1, <3>2, <4>1, <4>2 DEF Square, unused, TypeOK
      <4>3. CASE Outstanding(i)
        <5>1. CASE journal' = [journal EXCEPT !.refund_pending = @ \cup {PendingEntry(i)}]
          <6>1. /\ PendingEntry(i) \in journal'.refund_pending
                /\ PendingEntry(i).auth = auth'[i]
                /\ PendingEntry(i).amount >= Value[auth'[i]] - spent'[i]
            BY <3>1, <4>1, <5>1 DEF PendingEntry, TypeOK
          <6> QED
            BY <3>1, <6>1 DEF Square
        <5>2. CASE broken' = broken \cup {auth[i]}
          BY <3>1, <5>2 DEF Square
        <5> QED
          BY <4>3, <5>1, <5>2 DEF Outstanding
      <4> QED
        BY <2>13, <4>2, <4>3 DEF RefundUnused
    <3>4. \A j \in Ids : j # i /\ auth[j] \in Auths /\ Square(j) => Square(j)'
      <4> SUFFICES ASSUME NEW j \in Ids, j # i, auth[j] \in Auths, Square(j) PROVE Square(j)'
        OBVIOUS
      <4>1. auth[j] # auth[i]
        BY <3>1 DEF OneSession
      <4>2. refunded'[auth[j]] = refunded[auth[j]]
        BY <2>13, <4>1 DEF RefundUnused, TypeOK
      <4>3. broken \subseteq broken' /\ journal.refund_pending \subseteq journal'.refund_pending
        BY <2>13 DEF RefundUnused, Outstanding, Logged, TypeOK
      <4> QED
        BY <3>1, <4>2, <4>3 DEF Square
    <3>5. \A g \in Handlers : g # h => pc'[g] = pc[g] /\ (pc[g] = "done" =>
                                         req[g] # i /\ req[g] \in Ids /\ auth[req[g]] \in Auths)
      BY <3>1 DEF Goto, MutexHeld, TypeOK
    <3>6. \A a \in told : \E j \in Ids : j # i /\ auth[j] = a /\ a \in Auths /\ settled[j] /\ Square(j)
      BY <3>1 DEF RefundInv, SquareInv, TypeOK
    <3> QED
      BY <3>1, <3>3, <3>4, <3>5, <3>6 DEF SquareInv
  <2>14. ASSUME NEW h \in Handlers, SettleDone(h) PROVE SquareInv'
    BY <2>14 DEF SettleDone, Finish, TypeOK, SquareInv, Square
  <2>15. ASSUME NEW h \in Handlers, Mine(h) PROVE SquareInv'
    BY <2>15 DEF Mine, TypeOK, SquareInv, Square
  <2>16. ASSUME Restart PROVE SquareInv'
    BY <2>16 DEF Restart, TypeOK, SquareInv, Square
  <2>17. ASSUME NEW a \in Auths, MineOrphan(a) PROVE SquareInv'
    BY <2>17 DEF MineOrphan, TypeOK, SquareInv, Square
  <2>18. ASSUME NEW a \in Auths, Tick(a) PROVE SquareInv'
    BY <2>18 DEF Tick, TypeOK, SquareInv, Square
  <2>19. ASSUME UNCHANGED vars PROVE SquareInv'
    BY <2>19 DEF vars, TypeOK, SquareInv, Square
  <2> QED
    BY <2>1, <2>2, <2>3, <2>4, <2>5, <2>6, <2>7, <2>8, <2>9, <2>10, <2>11, <2>12, <2>13, <2>14,
       <2>15, <2>16, <2>17, <2>18, <2>19, NextCases
<1> QED
  BY <1>1, <1>2, SessionTyped, SessionTypeOK, SessionMutexHeld, SessionOneSession,
     SessionRefundInv, PTL DEF Spec

\* ToldIsSquare: a payer who was told the session is settled got exactly the
\* remainder back, or an outstanding entry claims at least the remainder, unless
\* the append of that entry failed (session.go:231-240).
THEOREM SessionToldIsSquare ==
  ASSUME SingleOpen
  PROVE  Spec => []ToldIsSquare
<1>1. TypeOK /\ OneSession /\ SquareInv => ToldIsSquare
  <2> SUFFICES ASSUME TypeOK, OneSession, SquareInv, NEW a \in told \ broken
               PROVE  \/ refunded[a] = Value[a] - ServedFor(a)
                      \/ \E e \in journal.refund_pending :
                           e.auth = a /\ e.amount >= Value[a] - ServedFor(a)
    BY DEF ToldIsSquare
  <2>1. PICK i \in Ids : auth[i] = a /\ Square(i)
    BY DEF SquareInv
  <2>2. a \in Auths
    BY DEF TypeOK
  <2>3. ServedFor(a) = spent[i]
    BY <2>1, <2>2, ServedForSession
  <2> QED
    BY <2>1, <2>3 DEF Square
<1> QED
  BY <1>1, SessionTypeOK, SessionOneSession, SessionSquareInv, PTL

\* The sums over sets of authorizations, and what reserve and commit do to them.
LEMMA AuthSums ==
  ASSUME NEW S \in SUBSET Auths
  PROVE  /\ IsFiniteSet(S) /\ SumOf(S) \in Nat
         /\ \A a \in Auths : SumOf(S \cup {a}) <= SumOf(S) + Value[a]
         /\ \A a \in S : SumOf(S) = Value[a] + SumOf(S \ {a})
         /\ \A T \in SUBSET S : SumOf(T) <= SumOf(S)
<1>1. IsFiniteSet(S) /\ \A a \in Auths : Value[a] \in Nat
  BY FS_Subset, ValueAssumption
<1>2. SumOf(S) \in Nat
  BY <1>1, SumNat DEF SumOf
<1>3. ASSUME NEW a \in Auths PROVE SumOf(S \cup {a}) <= SumOf(S) + Value[a]
  BY <1>1, SumAddBound DEF SumOf
<1>4. ASSUME NEW a \in S PROVE SumOf(S) = Value[a] + SumOf(S \ {a})
  BY <1>1, SumRemove DEF SumOf
<1>5. ASSUME NEW T \in SUBSET S PROVE SumOf(T) <= SumOf(S)
  BY <1>1, SumSubset DEF SumOf
<1> QED
  BY <1>1, <1>2, <1>3, <1>4, <1>5

\* Until a restart, what the account holds covers every session and stays
\* within the budget.
LEMMA SessionAccountInv == Spec => []AccountInv
<1>1. Init => AccountInv
  BY ValueAssumption, ConfigAssumption, SumEmpty DEF Init, AccountInv, SumOf
<1>2. TypeOK /\ TypeOK' /\ AccountInv /\ [Next]_vars => AccountInv'
  <2> SUFFICES ASSUME TypeOK, TypeOK', AccountInv, [Next]_vars PROVE AccountInv'
    OBVIOUS
  <2> USE ValueAssumption, ConfigAssumption DEF Settling, Charged, held, requestVars, sessionVars,
          accountVars, chainVars, outsideVars
  <2>1. ASSUME NEW h \in Handlers, NEW a \in Auths, OpenSession(h, a) PROVE AccountInv'
    BY <2>1 DEF OpenSession, Goto, TypeOK, AccountInv
  <2>2. ASSUME NEW h \in Handlers, Verify(h) PROVE AccountInv'
    BY <2>2 DEF Verify, Goto, Finish, TypeOK, AccountInv
  <2>3. ASSUME NEW h \in Handlers, OpenHeld(h) PROVE AccountInv'
    <3> DEFINE a == req[h]
    <3>1. /\ a \in Auths /\ UNCHANGED <<spends, orphans, paid, restarts>>
          /\ auth' = auth \/ \E i \in Ids : auth' = [auth EXCEPT ![i] = a]
      BY <2>3 DEF OpenHeld, TypeOK
    <3>2. CASE UNCHANGED <<auth, reserved>>
      BY <2>3, <3>1, <3>2 DEF AccountInv
    <3>3. CASE reserve(a) /\ reserved' = reserved \cup {a}
      <4>1. BudgetAmount > 0 => SumOf(spends) + SumOf(reserved) + Value[a] <= BudgetAmount
        BY <3>3 DEF reserve
      <4>2. SumOf(reserved \cup {a}) <= SumOf(reserved) + Value[a]
        BY <3>1, AuthSums DEF TypeOK
      <4>3. /\ SumOf(reserved) \in Nat /\ SumOf(reserved \cup {a}) \in Nat
            /\ SumOf(spends) \in Nat /\ Value[a] \in Nat
        BY <3>1, AuthSums DEF TypeOK
      <4>4. BudgetAmount > 0 => SumOf(spends) + SumOf(reserved \cup {a}) <= BudgetAmount
        BY <4>1, <4>2, <4>3
      <4>5. restarts = 0 => \A i \in Ids : auth'[i] \in Auths => auth'[i] \in spends \cup reserved \cup {a}
        BY <3>1 DEF AccountInv, TypeOK
      <4> QED
        BY <3>1, <3>3, <4>4, <4>5 DEF AccountInv
    <3> QED
      BY <2>3, <3>2, <3>3 DEF OpenHeld
  <2>4. ASSUME NEW h \in Handlers, NEW i \in Ids, NEW close \in BOOLEAN,
               SessionRequest(h, i, close)
        PROVE  AccountInv'
    BY <2>4 DEF SessionRequest, Goto, TypeOK, AccountInv
  <2>5. ASSUME NEW h \in Handlers, Refuse(h) PROVE AccountInv'
    BY <2>5 DEF Refuse, Finish, TypeOK, AccountInv
  <2>6. ASSUME NEW h \in Handlers, Draw(h) PROVE AccountInv'
    BY <2>6 DEF Draw, Finish, TypeOK, AccountInv
  <2>7. ASSUME NEW h \in Handlers, BeginSettle(h) PROVE AccountInv'
    BY <2>7 DEF BeginSettle, Goto, TypeOK, AccountInv
  <2>8. ASSUME NEW h \in Handlers, Submit(h) PROVE AccountInv'
    BY <2>8 DEF Submit, SettleFailed, Goto, Finish, TypeOK, AccountInv
  <2>9. ASSUME NEW h \in Handlers, SettleTimeout(h) PROVE AccountInv'
    BY <2>9 DEF SettleTimeout, SettleFailed, Finish, TypeOK, AccountInv
  <2>10. ASSUME NEW h \in Handlers, SettleReceipt(h) PROVE AccountInv'
    BY <2>10 DEF SettleReceipt, SettleFailed, Goto, Finish, TypeOK, AccountInv
  <2>11. ASSUME NEW h \in Handlers, JournalSettlement(h) PROVE AccountInv'
    BY <2>11 DEF JournalSettlement, SettleFailed, Goto, Finish, TypeOK, AccountInv
  <2>12. ASSUME NEW h \in Handlers, CommitSettlement(h) PROVE AccountInv'
    <3> DEFINE a == auth[req[h]]
    <3>1. a \in Auths /\ commit(a) /\ UNCHANGED <<auth, orphans, paid, restarts>>
      BY <2>12 DEF CommitSettlement, TypeOK
    <3>2. CASE a \notin reserved
      BY <3>1, <3>2 DEF commit, AccountInv
    <3>3. CASE a \in reserved
      <4>1. reserved' = reserved \ {a} /\ spends' = spends \cup {a}
        BY <3>1, <3>3 DEF commit
      <4>2. SumOf(spends \cup {a}) <= SumOf(spends) + Value[a]
        BY <3>1, AuthSums DEF TypeOK
      <4>3. SumOf(reserved) = Value[a] + SumOf(reserved \ {a})
        BY <3>3, AuthSums DEF TypeOK
      <4>4. /\ SumOf(reserved) \in Nat /\ SumOf(reserved \ {a}) \in Nat
            /\ SumOf(spends) \in Nat /\ SumOf(spends \cup {a}) \in Nat /\ Value[a] \in Nat
        BY <3>1, AuthSums DEF TypeOK
      <4>5. SumOf(spends \cup {a}) + SumOf(reserved \ {a}) <= SumOf(spends) + SumOf(reserved)
        BY <4>2, <4>3, <4>4
      <4>6. spends \cup reserved = spends' \cup reserved'
        BY <3>3, <4>1
      <4> QED
        BY <3>1, <4>1, <4>4, <4>5, <4>6 DEF AccountInv
    <3> QED
      BY <3>2, <3>3
  <2>13. ASSUME NEW h \in Handlers, RefundUnused(h) PROVE AccountInv'
    BY <2>13 DEF RefundUnused, Goto, TypeOK, AccountInv
  <2>14. ASSUME NEW h \in Handlers, SettleDone(h) PROVE AccountInv'
    BY <2>14 DEF SettleDone, Finish, TypeOK, AccountInv
  <2>15. ASSUME NEW h \in Handlers, Mine(h) PROVE AccountInv'
    BY <2>15 DEF Mine, TypeOK, AccountInv
  <2>16. ASSUME Restart PROVE AccountInv'
    BY <2>16 DEF Restart, TypeOK, AccountInv
  <2>17. ASSUME NEW a \in Auths, MineOrphan(a) PROVE AccountInv'
    BY <2>17 DEF MineOrphan, TypeOK, AccountInv
  <2>18. ASSUME NEW a \in Auths, Tick(a) PROVE AccountInv'
    BY <2>18 DEF Tick, TypeOK, AccountInv
  <2>19. ASSUME UNCHANGED vars PROVE AccountInv'
    BY <2>19 DEF vars, TypeOK, AccountInv
  <2> QED
    BY <2>1, <2>2, <2>3, <2>4, <2>5, <2>6, <2>7, <2>8, <2>9, <2>10, <2>11, <2>12, <2>13, <2>14,
       <2>15, <2>16, <2>17, <2>18, <2>19, NextCases
<1> QED
  BY <1>1, <1>2, SessionTypeOK, PTL DEF Spec

\* MandateBudgetHolds: until a restart, the sessions of a mandate are never
\* charged more than its budget, late transactions of failed settlements
\* included (session.go:115-122, policy_mandate.go:386-411).
THEOREM SessionMandateBudgetHolds == Spec => []MandateBudgetHolds
<1>1. TypeOK /\ AccountInv => MandateBudgetHolds
  <2> SUFFICES ASSUME TypeOK, AccountInv, BudgetAmount > 0, restarts = 0
               PROVE  SumOf(paid) <= BudgetAmount
    BY DEF MandateBudgetHolds
  <2>1. spends \cup reserved \in SUBSET Auths /\ paid \in SUBSET (spends \cup reserved)
    BY DEF TypeOK, AccountInv
  <2>2. SumOf(paid) <= SumOf(spends \cup reserved)
    BY <2>1, AuthSums
  <2>3. SumOf(spends \cup reserved) <= SumOf(spends) + SumOf(reserved)
    <3>1. IsFiniteSet(spends) /\ IsFiniteSet(reserved) /\ \A a \in spends \cup reserved : Value[a] \in Nat
      BY AuthSums, ValueAssumption DEF TypeOK
    <3> QED
      BY <3>1, SumUnionBound DEF SumOf
  <2>4. /\ SumOf(paid) \in Nat /\ SumOf(spends \cup reserved) \in Nat
        /\ SumOf(spends) \in Nat /\ SumOf(reserved) \in Nat /\ BudgetAmount \in Nat
    BY AuthSums, ValueAssumption DEF TypeOK
  <2> QED
    BY <2>2, <2>3, <2>4 DEF AccountInv
<1> QED
  BY <1>1, SessionTypeOK, SessionAccountInv, PTL
=============================================================================
