----------------------- MODULE MandateAccounts_proofs -----------------------
(***************************************************************************)
(* Theorems about module MandateAccounts, for every value of its constants.*)
(***************************************************************************)
EXTENDS MandateAccounts, Sums_proofs

\* A window is an integer number of ticks, also when the product wrapped.
LEMMA WindowIsInt ==
  ASSUME NEW seconds \in Nat
  PROVE  windowDur(seconds) \in Int
  BY AccountAssumption DEF windowDur, allTime

\* The pruning window is one of the two and as wide as both.
LEMMA MaxWindowIsWidest ==
  /\ maxWindow \in Int
  /\ windowDur(BudgetWindowSeconds) <= maxWindow
  /\ windowDur(RateWindowSeconds) <= maxWindow
  BY WindowIsInt, AccountAssumption DEF maxWindow

\* Every reachable state is well typed.
THEOREM AccountsTypeOK == Spec => []TypeOK
<1>1. Init => TypeOK
  BY DEF Init, TypeOK, Spend
<1>2. TypeOK /\ [Next]_vars => TypeOK'
  <2> SUFFICES ASSUME TypeOK, [Next]_vars PROVE TypeOK'
    OBVIOUS
  <2> USE AccountAssumption DEF TypeOK, Spend
  <2>1. ASSUME NEW n \in Nonces, reserve(n) PROVE TypeOK'
    BY <2>1 DEF reserve
  <2>2. ASSUME NEW n \in Nonces, commit(n) PROVE TypeOK'
    BY <2>2 DEF commit, prune, Within
  <2>3. ASSUME NEW n \in Nonces, release(n) PROVE TypeOK'
    BY <2>3 DEF release
  <2>4. ASSUME NEW s \in recording, recordDecision(s) PROVE TypeOK'
    <3>1. entryAt \in Nat
      BY DEF entryAt
    <3> QED
      BY <2>4, <3>1 DEF recordDecision
  <2>5. ASSUME Restart PROVE TypeOK'
    BY <2>5 DEF Restart, restored
  <2>6. ASSUME Tick PROVE TypeOK'
    BY <2>6 DEF Tick
  <2>7. ASSUME UNCHANGED vars PROVE TypeOK'
    BY <2>7 DEF vars
  <2> QED
    BY <2>1, <2>2, <2>3, <2>4, <2>5, <2>6, <2>7 DEF Next
<1> QED
  BY <1>1, <1>2, PTL DEF Spec

\* The inductive strengthening: no spend is dated in the future, so the cutoff
\* moves past it for good, and what prune dropped lies before the cutoff.
PruneInv ==
  /\ spends \subseteq unpruned
  /\ \A s \in unpruned \cup journal : s.at <= now
  /\ \A s \in unpruned : s.at >= now - maxWindow => s \in spends

\* Whatever the windows, also overflowing ones, and across restarts, reserve
\* sees through either window what it would see had nothing been pruned.
THEOREM PruningIsInvisible == Spec => []PruneIsInvisible
<1>1. Init => PruneInv
  BY DEF Init, PruneInv
<1>2. TypeOK /\ PruneInv /\ [Next]_vars => PruneInv'
  <2> SUFFICES ASSUME TypeOK, PruneInv, [Next]_vars PROVE PruneInv'
    OBVIOUS
  <2> USE MaxWindowIsWidest DEF TypeOK, Spend, PruneInv
  <2>1. ASSUME NEW n \in Nonces, reserve(n) PROVE PruneInv'
    BY <2>1 DEF reserve, maxWindow
  <2>2. ASSUME NEW n \in Nonces, commit(n) PROVE PruneInv'
    BY <2>2 DEF commit, prune, Within
  <2>3. ASSUME NEW n \in Nonces, release(n) PROVE PruneInv'
    BY <2>3 DEF release
  <2>4. ASSUME NEW s \in recording, recordDecision(s) PROVE PruneInv'
    <3>1. entryAt \in Nat /\ entryAt <= now
      BY AccountAssumption DEF entryAt
    <3> QED
      BY <2>4, <3>1 DEF recordDecision
  <2>5. ASSUME Restart PROVE PruneInv'
    BY <2>5 DEF Restart, restored
  <2>6. ASSUME Tick PROVE PruneInv'
    BY <2>6 DEF Tick
  <2>7. ASSUME UNCHANGED vars PROVE PruneInv'
    BY <2>7 DEF vars
  <2> QED
    BY <2>1, <2>2, <2>3, <2>4, <2>5, <2>6, <2>7 DEF Next
<1>3. TypeOK /\ PruneInv => PruneIsInvisible
  BY MaxWindowIsWidest, WindowIsInt, AccountAssumption
     DEF TypeOK, Spend, PruneInv, PruneIsInvisible, Within
<1> QED
  BY <1>1, <1>2, <1>3, AccountsTypeOK, PTL DEF Spec

\* Only so much was ever reserved, committed or recorded.
FinitelyMany ==
  IsFiniteSet(paid) /\ IsFiniteSet(spends) /\ IsFiniteSet(reserved) /\ IsFiniteSet(journal)

\* The account knows of every payment that is in the journal or about to be
\* written there, with a date at most the rounding of a second too early.
DatedInv ==
  /\ now <= MaxTime
  /\ \A s \in paid : s.at <= now /\ s.nonce \notin reserved
  /\ \A s, u \in paid : s.nonce = u.nonce => s = u
  /\ recording \subseteq paid \cap unpruned
  /\ \A e \in journal : \E s \in paid : s.nonce = e.nonce
  /\ \A e \in journal, s \in paid : s.nonce = e.nonce =>
       /\ e.at > s.at - Second
       /\ \E u \in unpruned : u.nonce = e.nonce /\ u.at > s.at - Second

\* The window is one that time.Duration can hold.
Fits(seconds) == seconds * Second < DurationModulus \div 2

\* The payments the budget is about, among those paid in the span up to t.
BudgetPaid(t) == {s \in PaidWithin(t, Covered(BudgetWindowSeconds)) : s.nonce \notin Confirmed}

\* The payments the rate limit is about.
RatePaid(t) == PaidWithin(t, Covered(RateWindowSeconds))

\* The strengthening of the budget: what is reserved counts with the span up
\* to now, whenever it will be committed.
BudgetInv ==
  BudgetAmount > 0 =>
    /\ SpentAmount(BudgetPaid(now)) + SumOf(reserved \ Confirmed) <= BudgetAmount
    /\ \A t \in 0 .. now : SpentAmount(BudgetPaid(t)) <= BudgetAmount

\* The same for the rate.
RateInv ==
  MaxPaymentsPerWindow > 0 =>
    /\ Cardinality(RatePaid(now)) + Cardinality(reserved) <= MaxPaymentsPerWindow
    /\ \A t \in 0 .. now : Cardinality(RatePaid(t)) <= MaxPaymentsPerWindow

\* The date of a journal entry is less than a second before the tick.
LEMMA EntryDate ==
  ASSUME now \in Nat
  PROVE  entryAt \in Nat /\ entryAt <= now /\ entryAt > now - Second
  BY AccountAssumption DEF entryAt

\* The sets that are counted are finite.
LEMMA AlwaysFinite == Spec => []FinitelyMany
<1>1. Init => FinitelyMany
  BY FS_EmptySet DEF Init, FinitelyMany
<1>2. FinitelyMany /\ [Next]_vars => FinitelyMany'
  <2> SUFFICES ASSUME FinitelyMany, [Next]_vars PROVE FinitelyMany'
    OBVIOUS
  <2> USE FS_AddElement, FS_RemoveElement DEF FinitelyMany
  <2>1. ASSUME NEW n \in Nonces, reserve(n) PROVE FinitelyMany'
    BY <2>1 DEF reserve
  <2>2. ASSUME NEW n \in Nonces, commit(n) PROVE FinitelyMany'
    <3>1. /\ reserved' = reserved \ {n} /\ UNCHANGED journal
          /\ paid' = paid \cup {[nonce |-> n, at |-> now]}
          /\ spends' \subseteq spends \cup {[nonce |-> n, at |-> now]}
      BY <2>2 DEF commit, prune, Within
    <3>2. IsFiniteSet(spends \cup {[nonce |-> n, at |-> now]})
      OBVIOUS
    <3>3. IsFiniteSet(spends')
      BY <3>1, <3>2, FS_Subset
    <3> QED
      BY <3>1, <3>3
  <2>3. ASSUME NEW n \in Nonces, release(n) PROVE FinitelyMany'
    BY <2>3 DEF release
  <2>4. ASSUME NEW s \in recording, recordDecision(s) PROVE FinitelyMany'
    BY <2>4 DEF recordDecision
  <2>5. ASSUME Restart PROVE FinitelyMany'
    BY <2>5, FS_EmptySet DEF Restart, restored
  <2>6. ASSUME Tick PROVE FinitelyMany'
    BY <2>6 DEF Tick
  <2>7. ASSUME UNCHANGED vars PROVE FinitelyMany'
    BY <2>7 DEF vars
  <2> QED
    BY <2>1, <2>2, <2>3, <2>4, <2>5, <2>6, <2>7 DEF Next
<1> QED
  BY <1>1, <1>2, PTL DEF Spec

\* The account keeps its dates, through rounding and restarts.
LEMMA AlwaysDated == Spec => []DatedInv
<1>1. Init => DatedInv
  BY AccountAssumption DEF Init, DatedInv
<1>2. TypeOK /\ DatedInv /\ [Next]_vars => DatedInv'
  <2> SUFFICES ASSUME TypeOK, DatedInv, [Next]_vars PROVE DatedInv'
    OBVIOUS
  <2> USE AccountAssumption DEF TypeOK, Spend
  <2>1. ASSUME NEW n \in Nonces, reserve(n) PROVE DatedInv'
    BY <2>1 DEF reserve, DatedInv
  <2>2. ASSUME NEW n \in Nonces, commit(n) PROVE DatedInv'
    <3> DEFINE s == [nonce |-> n, at |-> now]
    <3>1. /\ n \in reserved /\ reserved' = reserved \ {n} /\ paid' = paid \cup {s}
          /\ unpruned' = unpruned \cup {s} /\ recording' = recording \cup {s}
          /\ UNCHANGED <<now, journal>>
      BY <2>2 DEF commit
    <3>2. s.nonce = n /\ s.at = now /\ \A e \in journal : e.nonce # n
      BY <3>1 DEF DatedInv
    <3> HIDE DEF s
    <3> QED
      BY <3>1, <3>2 DEF DatedInv
  <2>3. ASSUME NEW n \in Nonces, release(n) PROVE DatedInv'
    BY <2>3 DEF release, DatedInv
  <2>4. ASSUME NEW s \in recording, recordDecision(s) PROVE DatedInv'
    <3> DEFINE e == [nonce |-> s.nonce, at |-> entryAt]
    <3>1. journal' = journal \cup {e} /\ recording' = recording \ {s}
          /\ UNCHANGED <<now, reserved, spends, unpruned, paid>>
      BY <2>4 DEF recordDecision
    <3>2. e.nonce = s.nonce /\ e.at \in Nat /\ e.at > now - Second
      BY EntryDate
    <3>3. s \in paid /\ s \in unpruned /\ s.at <= now
      BY DEF DatedInv
    <3> HIDE DEF e
    <3> QED
      BY <3>1, <3>2, <3>3 DEF DatedInv
  <2>5. ASSUME Restart PROVE DatedInv'
    BY <2>5 DEF Restart, restored, DatedInv
  <2>6. ASSUME Tick PROVE DatedInv'
    BY <2>6 DEF Tick, DatedInv
  <2>7. ASSUME UNCHANGED vars PROVE DatedInv'
    BY <2>7 DEF vars, DatedInv
  <2> QED
    BY <2>1, <2>2, <2>3, <2>4, <2>5, <2>6, <2>7 DEF Next
<1> QED
  BY <1>1, <1>2, AccountsTypeOK, PTL DEF Spec

\* A window that fits reaches a second further than what it covers.
LEMMA CoveredIsInWindow ==
  ASSUME NEW seconds \in Nat, Fits(seconds), NEW n \in Nat, n <= MaxTime,
         NEW paidAt \in Nat, n - Covered(seconds) <= paidAt,
         NEW x \in Nat, x > paidAt - Second
  PROVE  x >= n - windowDur(seconds)
<1>1. CASE seconds = 0
  BY <1>1, AccountAssumption DEF windowDur, allTime
<1>2. CASE seconds # 0
  <2> DEFINE half == DurationModulus \div 2
             w == seconds * Second
  <2>1. w \in Nat /\ half \in Nat /\ w < half /\ w + half < DurationModulus
    BY AccountAssumption DEF Fits
  <2>2. (w + half) % DurationModulus = w + half
    <3> HIDE DEF half, w
    <3>1. \A a, b \in Nat : a < b => a % b = a
      OBVIOUS
    <3> QED
      BY <2>1, <3>1, AccountAssumption
  <2>3. windowDur(seconds) = w
    BY <1>2, <2>1, <2>2 DEF windowDur
  <2>4. Covered(seconds) = w - Second
    BY <1>2, AccountAssumption DEF Covered
  <2> HIDE DEF w
  <2> QED
    BY <2>1, <2>3, <2>4, AccountAssumption
<1> QED
  BY <1>1, <1>2

\* Every payment of the covered span is a spend reserve sees.
LEMMA PaidIsSeen ==
  ASSUME TypeOK, DatedInv, PruneIsInvisible,
         NEW seconds \in {BudgetWindowSeconds, RateWindowSeconds}, Fits(seconds)
  PROVE  \A s \in PaidWithin(now, Covered(seconds)) :
           \E u \in Within(spends, windowDur(seconds)) : u.nonce = s.nonce
<1> SUFFICES ASSUME NEW s \in PaidWithin(now, Covered(seconds))
             PROVE  \E u \in Within(spends, windowDur(seconds)) : u.nonce = s.nonce
  OBVIOUS
<1>1. s \in paid /\ s.at \in Nat /\ now \in Nat /\ now <= MaxTime /\ now - Covered(seconds) <= s.at
  BY DEF PaidWithin, TypeOK, Spend, DatedInv
<1>2. \E u \in unpruned : u.nonce = s.nonce /\ u.at > s.at - Second
  <2>1. CASE s \in recording
    BY <2>1, <1>1, AccountAssumption DEF DatedInv
  <2>2. CASE \E e \in journal : e.nonce = s.nonce
    BY <2>2, <1>1 DEF DatedInv
  <2> QED
    BY <2>1, <2>2 DEF PaidWithin
<1>3. PICK u \in unpruned : u.nonce = s.nonce /\ u.at > s.at - Second
  BY <1>2
<1>4. u.at \in Nat
  BY DEF TypeOK, Spend
<1>5. u.at >= now - windowDur(seconds)
  BY <1>1, <1>3, <1>4, CoveredIsInWindow, AccountAssumption
<1>6. u \in Within(unpruned, windowDur(seconds))
  BY <1>5 DEF Within
<1> QED
  BY <1>3, <1>6 DEF PruneIsInvisible

\* A part of the spends amounts to no more than all of them.
LEMMA SpentOrder ==
  ASSUME NEW S \in SUBSET Spend, IsFiniteSet(S), NEW T \in SUBSET S
  PROVE  SpentAmount(T) <= SpentAmount(S) /\ SpentAmount(S) \in Nat /\ SpentAmount(T) \in Nat
<1>1. \A s \in S : [s2 \in Spend |-> Amount[s2.nonce]][s] \in Nat
  BY AccountAssumption DEF Spend
<1> QED
  BY <1>1, SumSubset, SumNat, FS_Subset DEF SpentAmount

\* The budget's payments amount to no more than what reserve counts.
LEMMA BudgetIsSeen ==
  ASSUME TypeOK, FinitelyMany, DatedInv, PruneIsInvisible, Fits(BudgetWindowSeconds)
  PROVE  SpentAmount(BudgetPaid(now)) <= committedAmount(windowDur(BudgetWindowSeconds))
<1> DEFINE W == Within(spends, windowDur(BudgetWindowSeconds))
           K == BudgetPaid(now)
           amount == [s \in Spend |-> Amount[s.nonce]]
           h == [s \in K |-> CHOOSE u \in W : u.nonce = s.nonce]
<1>1. /\ W \subseteq Spend /\ K \subseteq paid /\ K \subseteq Spend
      /\ IsFiniteSet(W) /\ IsFiniteSet(K)
  BY FS_Subset DEF TypeOK, FinitelyMany, Within, BudgetPaid, PaidWithin
<1>2. \A s \in K : \E u \in W : u.nonce = s.nonce
  BY PaidIsSeen DEF BudgetPaid
<1>3. \A s \in K : h[s] \in W /\ h[s].nonce = s.nonce
  BY <1>2
<1>4. \A s, u \in K : h[s] = h[u] => s = u
  BY <1>1, <1>3 DEF DatedInv
<1>5. \A s \in K : amount[s] \in Int /\ amount[s] = amount[h[s]]
  BY <1>1, <1>3, AccountAssumption DEF Spend
<1>6. Sum(amount, K) = Sum(amount, {h[s] : s \in K})
  <2> HIDE DEF K, W, amount, h
  <2> QED
    BY <1>1, <1>4, <1>5, SumImage
<1>7. {h[s] : s \in K} \subseteq W
  BY <1>3
<1> QED
  BY <1>1, <1>6, <1>7, SpentOrder DEF SpentAmount, committedAmount

\* Their number is no more than what reserve counts.
LEMMA RateIsSeen ==
  ASSUME TypeOK, FinitelyMany, DatedInv, PruneIsInvisible, Fits(RateWindowSeconds)
  PROVE  Cardinality(RatePaid(now)) <= committedCount(windowDur(RateWindowSeconds))
<1> DEFINE W == Within(spends, windowDur(RateWindowSeconds))
           K == RatePaid(now)
           h == [s \in K |-> CHOOSE u \in W : u.nonce = s.nonce]
<1>1. K \subseteq paid /\ IsFiniteSet(W) /\ IsFiniteSet(K)
  BY FS_Subset DEF FinitelyMany, Within, RatePaid, PaidWithin
<1>2. \A s \in K : \E u \in W : u.nonce = s.nonce
  BY PaidIsSeen DEF RatePaid
<1>3. \A s \in K : h[s] \in W /\ h[s].nonce = s.nonce
  BY <1>2
<1>4. h \in Injection(K, W)
  BY <1>1, <1>3 DEF DatedInv, Injection, IsInjective
<1> QED
  BY <1>1, <1>4, FS_Injection DEF committedCount

\* A step other than reserve and commit adds no payment to any span that has
\* ended, and the next tick's span holds no other payments than this one's.
LEMMA QuietSteps ==
  ASSUME TypeOK, DatedInv, NEW span \in Int,
         \/ \E n \in Nonces : release(n)
         \/ \E s \in recording : recordDecision(s)
         \/ Restart \/ Tick \/ UNCHANGED vars
  PROVE  /\ reserved' \subseteq reserved /\ now' \in {now, now + 1}
         /\ \A t \in 0 .. now' :
              PaidWithin(t, span)' \subseteq PaidWithin(IF t <= now THEN t ELSE now, span)
<1> USE DEF TypeOK, Spend
<1>1. ASSUME NEW n \in Nonces, release(n)
      PROVE  reserved' \subseteq reserved /\ UNCHANGED <<now, paid, recording, journal>>
  BY <1>1 DEF release
<1>2. ASSUME NEW s \in recording, recordDecision(s)
      PROVE  /\ reserved' \subseteq reserved /\ UNCHANGED <<now, paid>>
             /\ recording' \subseteq recording
             /\ \A e \in journal' : e \in journal \/ e.nonce = s.nonce
  BY <1>2 DEF recordDecision
<1>3. ASSUME Restart
      PROVE  reserved' \subseteq reserved /\ UNCHANGED <<now, paid, journal>> /\ recording' = {}
  BY <1>3 DEF Restart
<1>4. ASSUME Tick PROVE UNCHANGED <<reserved, paid, journal, recording>> /\ now' = now + 1
  BY <1>4 DEF Tick
<1>5. ASSUME UNCHANGED vars PROVE UNCHANGED <<reserved, now, paid, journal, recording>>
  BY <1>5 DEF vars
<1>6. CASE \E s \in recording : recordDecision(s)
  <2>1. PICK s \in recording : recordDecision(s)
    BY <1>6
  <2>2. \A u \in paid : u.nonce = s.nonce => u \in recording
    BY DEF DatedInv
  <2> QED
    BY <1>2, <2>1, <2>2 DEF PaidWithin
<1>7. CASE Tick
  BY <1>4, <1>7 DEF PaidWithin, DatedInv
<1>8. CASE Restart \/ UNCHANGED vars \/ \E n \in Nonces : release(n)
  BY <1>1, <1>3, <1>5, <1>8 DEF PaidWithin
<1> QED
  BY <1>6, <1>7, <1>8

\* reserve adds no payment.
LEMMA ReserveStep ==
  ASSUME NEW n \in Nonces, reserve(n), NEW span, NEW t
  PROVE  PaidWithin(t, span)' = PaidWithin(t, span)
  BY DEF reserve, PaidWithin

\* commit adds the reserved payment, to spans that end now.
LEMMA CommitStep ==
  ASSUME TypeOK, NEW n \in Nonces, commit(n), NEW span \in Int, NEW t \in 0 .. now
  PROVE  \/ PaidWithin(t, span)' \subseteq PaidWithin(t, span)
         \/ /\ t = now
            /\ PaidWithin(t, span)' \subseteq PaidWithin(t, span) \cup {[nonce |-> n, at |-> now]}
  BY DEF TypeOK, Spend, commit, PaidWithin

\* The spans are integers.
LEMMA CoveredIsInt == ASSUME NEW seconds \in Nat PROVE Covered(seconds) \in Int
  BY AccountAssumption DEF Covered, allTime

\* In every period of the budget window, less the second the journal rounds
\* away, the unconfirmed payments stay within the budget, for windows that fit
\* time.Duration: whatever reservations overlap, however late they commit and
\* however often the account is rebuilt (policy_mandate.go:369-427).
THEOREM BudgetHoldsInEveryWindow ==
  ASSUME Fits(BudgetWindowSeconds)
  PROVE  Spec => []BudgetInEveryWindow
<1> DEFINE span == Covered(BudgetWindowSeconds)
<1>0. span \in Int
  BY CoveredIsInt, AccountAssumption
<1>1. Init => BudgetInv
  <2> SUFFICES ASSUME Init PROVE BudgetInv
    OBVIOUS
  <2>1. (reserved \ Confirmed) = {} /\ \A t : BudgetPaid(t) = {}
    BY DEF Init, BudgetPaid, PaidWithin
  <2>2. SumOf({}) = 0 /\ SpentAmount({}) = 0
    BY SumEmpty DEF SumOf, SpentAmount
  <2> QED
    <3>1. SpentAmount(BudgetPaid(now)) = 0 /\ SumOf(reserved \ Confirmed) = 0
      BY <2>1, <2>2
    <3>2. \A t : SpentAmount(BudgetPaid(t)) = 0
      BY <2>1, <2>2
    <3> QED
      BY <3>1, <3>2, AccountAssumption DEF BudgetInv
<1>2. TypeOK /\ FinitelyMany /\ DatedInv /\ PruneIsInvisible /\ BudgetInv /\ [Next]_vars
        => BudgetInv'
  <2> SUFFICES ASSUME TypeOK, FinitelyMany, DatedInv, PruneIsInvisible, BudgetInv, [Next]_vars,
                      BudgetAmount > 0
               PROVE  /\ SpentAmount(BudgetPaid(now)') + SumOf(reserved' \ Confirmed) <= BudgetAmount
                      /\ \A t \in 0 .. now' : SpentAmount(BudgetPaid(t)') <= BudgetAmount
    BY DEF BudgetInv, SpentAmount, SumOf
  <2>0. /\ now \in Nat /\ reserved \subseteq Nonces /\ IsFiniteSet(reserved) /\ BudgetAmount \in Nat
        /\ \A t \in Nat : /\ BudgetPaid(t) \subseteq Spend /\ IsFiniteSet(BudgetPaid(t))
                          /\ SpentAmount(BudgetPaid(t)) \in Nat
    <3>1. \A t \in Nat : BudgetPaid(t) \subseteq Spend /\ IsFiniteSet(BudgetPaid(t))
      BY FS_Subset DEF TypeOK, FinitelyMany, BudgetPaid, PaidWithin
    <3> QED
      BY <3>1, SpentOrder, AccountAssumption DEF TypeOK, FinitelyMany
  <2>00. /\ IsFiniteSet(reserved \ Confirmed) /\ SumOf(reserved \ Confirmed) \in Nat
         /\ SumOf(reserved) \in Nat /\ SumOf(reserved \ Confirmed) <= SumOf(reserved)
    BY <2>0, FS_Subset, SumNat, SumSubset, AccountAssumption DEF SumOf
  <2>1. CASE \/ \E n \in Nonces : release(n)
             \/ \E s \in recording : recordDecision(s)
             \/ Restart \/ Tick \/ UNCHANGED vars
    <3>1. /\ reserved' \subseteq reserved /\ now' \in {now, now + 1}
          /\ \A t \in 0 .. now' :
               PaidWithin(t, span)' \subseteq PaidWithin(IF t <= now THEN t ELSE now, span)
      BY <2>1, <1>0, QuietSteps
    <3>2. \A t \in 0 .. now' : BudgetPaid(t)' \subseteq BudgetPaid(IF t <= now THEN t ELSE now)
      BY <3>1 DEF BudgetPaid
    <3>3. \A t \in 0 .. now' :
            /\ SpentAmount(BudgetPaid(t)') <= SpentAmount(BudgetPaid(IF t <= now THEN t ELSE now))
            /\ SpentAmount(BudgetPaid(t)') \in Nat
      BY <3>2, <2>0, SpentOrder
    <3>4. BudgetPaid(now)' \subseteq BudgetPaid(now)
      <4>1. PICK t \in Nat : t = now'
        BY <2>0, <3>1
      <4>2. BudgetPaid(now)' = BudgetPaid(t)'
        BY <4>1 DEF BudgetPaid, PaidWithin
      <4>3. t \in 0 .. now' /\ (t <= now => t = now)
        BY <4>1, <3>1, <2>0
      <4> QED
        BY <4>2, <4>3, <3>2
    <3>5. /\ SpentAmount(BudgetPaid(now)') <= SpentAmount(BudgetPaid(now))
          /\ SpentAmount(BudgetPaid(now)') \in Nat
      BY <3>4, <2>0, SpentOrder
    <3>6. reserved' \ Confirmed \subseteq reserved \ Confirmed
      BY <3>1
    <3>7. /\ SumOf(reserved' \ Confirmed) <= SumOf(reserved \ Confirmed)
          /\ SumOf(reserved' \ Confirmed) \in Nat
      BY <3>6, <2>0, <2>00, SumSubset, SumNat, FS_Subset, AccountAssumption DEF SumOf
    <3> QED
      BY <3>1, <3>3, <3>5, <3>7, <2>0, <2>00 DEF BudgetInv
  <2>2. ASSUME NEW n \in Nonces, reserve(n) PROVE
           /\ SpentAmount(BudgetPaid(now)') + SumOf(reserved' \ Confirmed) <= BudgetAmount
           /\ \A t \in 0 .. now' : SpentAmount(BudgetPaid(t)') <= BudgetAmount
    <3>1. UNCHANGED now /\ reserved' = reserved \cup {n} /\ ~OverBudget(n)
      BY <2>2 DEF reserve
    <3>2. BudgetPaid(now)' = BudgetPaid(now) /\ \A t : BudgetPaid(t)' = BudgetPaid(t)
      BY <2>2 DEF reserve, BudgetPaid, PaidWithin
    <3>3. CASE n \in Confirmed
      <4>1. reserved' \ Confirmed = reserved \ Confirmed
        BY <3>1, <3>3
      <4> QED
        BY <3>1, <3>2, <4>1 DEF BudgetInv
    <3>4. CASE n \notin Confirmed
      <4>1. reserved' \ Confirmed = (reserved \ Confirmed) \cup {n}
        BY <3>1, <3>4
      <4>2. SumOf(reserved' \ Confirmed) <= SumOf(reserved \ Confirmed) + Amount[n]
        BY <4>1, <2>0, <2>00, SumAddBound, AccountAssumption DEF SumOf
      <4>3. SumOf(reserved' \ Confirmed) \in Nat
        BY <4>1, <2>0, <2>00, FS_AddElement, SumNat, AccountAssumption DEF SumOf
      <4>4. committedAmount(windowDur(BudgetWindowSeconds)) + SumOf(reserved) + Amount[n]
              <= BudgetAmount
        <5>1. committedAmount(windowDur(BudgetWindowSeconds)) \in Nat
          BY SpentOrder, FS_Subset DEF committedAmount, Within, TypeOK, FinitelyMany
        <5> QED
          BY <5>1, <3>1, <3>4, <2>0, <2>00, AccountAssumption DEF OverBudget, reservedAmount
      <4>5. committedAmount(windowDur(BudgetWindowSeconds)) \in Nat
        BY SpentOrder, FS_Subset DEF committedAmount, Within, TypeOK, FinitelyMany
      <4>6. Amount[n] \in Nat /\ SpentAmount(BudgetPaid(now)) \in Nat
        BY <2>0, AccountAssumption
      <4>7. SpentAmount(BudgetPaid(now)) <= committedAmount(windowDur(BudgetWindowSeconds))
        BY BudgetIsSeen
      <4>8. SpentAmount(BudgetPaid(now)) + SumOf(reserved' \ Confirmed) <= BudgetAmount
        BY <4>2, <4>3, <4>4, <4>5, <4>6, <4>7, <2>0, <2>00
      <4> QED
        BY <4>8, <3>1, <3>2 DEF BudgetInv
    <3> QED
      BY <3>3, <3>4
  <2>3. ASSUME NEW n \in Nonces, commit(n) PROVE
           /\ SpentAmount(BudgetPaid(now)') + SumOf(reserved' \ Confirmed) <= BudgetAmount
           /\ \A t \in 0 .. now' : SpentAmount(BudgetPaid(t)') <= BudgetAmount
    <3> DEFINE s == [nonce |-> n, at |-> now]
    <3>1. UNCHANGED now /\ n \in reserved /\ reserved' = reserved \ {n}
      BY <2>3 DEF commit
    <3>2. \A t \in 0 .. now : \/ PaidWithin(t, span)' \subseteq PaidWithin(t, span)
                              \/ t = now /\ PaidWithin(t, span)' \subseteq PaidWithin(t, span) \cup {s}
      BY <2>3, <1>0, CommitStep
    <3>3. \A t \in 0 .. now : t # now => BudgetPaid(t)' \subseteq BudgetPaid(t)
      BY <3>2 DEF BudgetPaid
    <3>4. BudgetPaid(now)' \subseteq BudgetPaid(now) \cup (IF n \in Confirmed THEN {} ELSE {s})
      <4>1. PICK t \in Nat : t = now
        BY <2>0
      <4>2. BudgetPaid(now)' = BudgetPaid(t)' /\ BudgetPaid(now) = BudgetPaid(t)
        BY <4>1, <3>1 DEF BudgetPaid, PaidWithin
      <4>3. BudgetPaid(t)' \subseteq BudgetPaid(t) \cup {s}
        BY <3>2, <4>1 DEF BudgetPaid
      <4>4. n \in Confirmed => s \notin BudgetPaid(t)'
        BY DEF BudgetPaid
      <4> QED
        BY <4>2, <4>3, <4>4
    <3>5. SpentAmount(BudgetPaid(now)') + SumOf(reserved' \ Confirmed) <= BudgetAmount
          /\ SpentAmount(BudgetPaid(now)') \in Nat /\ SumOf(reserved' \ Confirmed) \in Nat
      <4>1. CASE n \in Confirmed
        <5>1. /\ SpentAmount(BudgetPaid(now)') <= SpentAmount(BudgetPaid(now))
              /\ SpentAmount(BudgetPaid(now)') \in Nat
          BY <3>4, <4>1, <2>0, SpentOrder
        <5>2. reserved' \ Confirmed = reserved \ Confirmed
          BY <3>1, <4>1
        <5>3. SpentAmount(BudgetPaid(now)) + SumOf(reserved \ Confirmed) <= BudgetAmount
          BY DEF BudgetInv
        <5>4. SpentAmount(BudgetPaid(now)) \in Nat /\ BudgetAmount \in Nat
          BY <2>0
        <5> QED
          BY <5>1, <5>2, <5>3, <5>4, <2>00
      <4>2. CASE n \notin Confirmed
        <5>1. BudgetPaid(now) \cup {s} \subseteq Spend /\ IsFiniteSet(BudgetPaid(now) \cup {s})
          <6>1. s \in Spend
            BY <2>0 DEF Spend
          <6>2. BudgetPaid(now) \subseteq Spend /\ IsFiniteSet(BudgetPaid(now))
            BY <2>0
          <6> HIDE DEF s
          <6> QED
            BY <6>1, <6>2, FS_AddElement
        <5>2. BudgetPaid(now)' \subseteq BudgetPaid(now) \cup {s}
          BY <3>4, <4>2
        <5>3. /\ SpentAmount(BudgetPaid(now)') <= SpentAmount(BudgetPaid(now) \cup {s})
              /\ SpentAmount(BudgetPaid(now)') \in Nat /\ SpentAmount(BudgetPaid(now) \cup {s}) \in Nat
          BY <5>1, <5>2, SpentOrder
        <5>4. SpentAmount(BudgetPaid(now) \cup {s}) <= SpentAmount(BudgetPaid(now)) + Amount[n]
          <6> DEFINE amount == [x \in Spend |-> Amount[x.nonce]]
          <6>1. s \in Spend /\ amount[s] = Amount[n] /\ \A x \in Spend : amount[x] \in Nat
            BY <2>0, AccountAssumption DEF Spend
          <6>2. \A x \in BudgetPaid(now) \cup {s} : amount[x] \in Nat
            BY <5>1, <6>1
          <6> HIDE DEF amount, s
          <6>3. Sum(amount, BudgetPaid(now) \cup {s}) <= Sum(amount, BudgetPaid(now)) + amount[s]
            BY <6>2, <2>0, SumAddBound
          <6> QED
            BY <6>1, <6>3 DEF SpentAmount, amount
        <5>5. SumOf(reserved \ Confirmed) = Amount[n] + SumOf((reserved \ Confirmed) \ {n})
          BY <3>1, <4>2, <2>0, <2>00, SumRemove, AccountAssumption DEF SumOf
        <5>6. reserved' \ Confirmed = (reserved \ Confirmed) \ {n}
          BY <3>1
        <5>7. SumOf(reserved' \ Confirmed) \in Nat
          BY <5>6, <2>0, <2>00, FS_RemoveElement, SumNat, AccountAssumption DEF SumOf
        <5>8. Amount[n] \in Nat
          BY AccountAssumption
        <5>9. SpentAmount(BudgetPaid(now)) + SumOf(reserved \ Confirmed) <= BudgetAmount
          BY DEF BudgetInv
        <5>10. SumOf(reserved \ Confirmed) = Amount[n] + SumOf(reserved' \ Confirmed)
          BY <5>5, <5>6
        <5>11. SpentAmount(BudgetPaid(now)) \in Nat /\ BudgetAmount \in Nat
          BY <2>0
        <5> QED
          BY <5>3, <5>4, <5>7, <5>8, <5>9, <5>10, <5>11
      <4> QED
        BY <4>1, <4>2
    <3>6. ASSUME NEW t \in 0 .. now' PROVE SpentAmount(BudgetPaid(t)') <= BudgetAmount
      <4>1. CASE t = now
        <5>1. BudgetPaid(now)' = BudgetPaid(t)'
          BY <4>1, <3>1 DEF BudgetPaid, PaidWithin
        <5> QED
          BY <5>1, <3>5, <2>0
      <4>2. CASE t # now
        <5>1. BudgetPaid(t)' \subseteq BudgetPaid(t) /\ t \in Nat /\ t \in 0 .. now
          BY <4>2, <3>1, <3>3, <2>0
        <5>2. /\ SpentAmount(BudgetPaid(t)') <= SpentAmount(BudgetPaid(t))
              /\ SpentAmount(BudgetPaid(t)') \in Nat
          BY <5>1, <2>0, SpentOrder
        <5> QED
          BY <5>1, <5>2, <2>0 DEF BudgetInv
      <4> QED
        BY <4>1, <4>2
    <3> QED
      BY <3>5, <3>6
  <2> QED
    BY <2>1, <2>2, <2>3 DEF Next
<1>3. BudgetInv => BudgetInEveryWindow
  BY DEF BudgetInv, BudgetInEveryWindow, BudgetPaid
<1> QED
  BY <1>1, <1>2, <1>3, AccountsTypeOK, AlwaysFinite, AlwaysDated, PruningIsInvisible,
     PTL DEF Spec

\* The same for the number of payments, confirmed ones included.
THEOREM RateHoldsInEveryWindow ==
  ASSUME Fits(RateWindowSeconds)
  PROVE  Spec => []RateInEveryWindow
<1> DEFINE span == Covered(RateWindowSeconds)
<1>0. span \in Int
  BY CoveredIsInt, AccountAssumption
<1>1. Init => RateInv
  <2> SUFFICES ASSUME Init PROVE RateInv
    OBVIOUS
  <2>1. reserved = {} /\ \A t : RatePaid(t) = {}
    BY DEF Init, RatePaid, PaidWithin
  <2>2. Cardinality(RatePaid(now)) = 0 /\ Cardinality(reserved) = 0
    BY <2>1, FS_EmptySet
  <2>3. \A t : Cardinality(RatePaid(t)) = 0
    BY <2>1, FS_EmptySet
  <2> QED
    BY <2>2, <2>3, AccountAssumption DEF RateInv
<1>2. TypeOK /\ FinitelyMany /\ DatedInv /\ PruneIsInvisible /\ RateInv /\ [Next]_vars
        => RateInv'
  <2> DEFINE Goal == /\ Cardinality(RatePaid(now)') + Cardinality(reserved') <= MaxPaymentsPerWindow
                     /\ \A t \in 0 .. now' : Cardinality(RatePaid(t)') <= MaxPaymentsPerWindow
  <2> SUFFICES ASSUME TypeOK, FinitelyMany, DatedInv, PruneIsInvisible, RateInv, [Next]_vars,
                      MaxPaymentsPerWindow > 0
               PROVE  Goal
    BY DEF RateInv
  <2>0. /\ now \in Nat /\ IsFiniteSet(reserved) /\ MaxPaymentsPerWindow \in Nat
        /\ Cardinality(reserved) \in Nat
        /\ \A t \in Nat : IsFiniteSet(RatePaid(t)) /\ Cardinality(RatePaid(t)) \in Nat
    <3>1. \A t \in Nat : IsFiniteSet(RatePaid(t))
      BY FS_Subset DEF FinitelyMany, RatePaid, PaidWithin
    <3> QED
      BY <3>1, FS_CardinalityType, AccountAssumption DEF TypeOK, FinitelyMany
  <2>00. /\ Cardinality(RatePaid(now)) + Cardinality(reserved) <= MaxPaymentsPerWindow
         /\ \A t \in 0 .. now : Cardinality(RatePaid(t)) <= MaxPaymentsPerWindow
    BY DEF RateInv
  <2>1. CASE \/ \E n \in Nonces : release(n)
             \/ \E s \in recording : recordDecision(s)
             \/ Restart \/ Tick \/ UNCHANGED vars
    <3>1. /\ reserved' \subseteq reserved /\ now' \in {now, now + 1}
          /\ \A t \in 0 .. now' :
               RatePaid(t)' \subseteq RatePaid(IF t <= now THEN t ELSE now)
      BY <2>1, <1>0, QuietSteps DEF RatePaid
    <3>2. \A t \in 0 .. now' :
            /\ Cardinality(RatePaid(t)') <= Cardinality(RatePaid(IF t <= now THEN t ELSE now))
            /\ Cardinality(RatePaid(t)') \in Nat
      <4> SUFFICES ASSUME NEW t \in 0 .. now'
                   PROVE  /\ Cardinality(RatePaid(t)') <= Cardinality(RatePaid(IF t <= now THEN t ELSE now))
                          /\ Cardinality(RatePaid(t)') \in Nat
        OBVIOUS
      <4> DEFINE K == RatePaid(IF t <= now THEN t ELSE now)
      <4>1. RatePaid(t)' \subseteq K
        BY <3>1
      <4>2. IsFiniteSet(K)
        BY <2>0
      <4> HIDE DEF K
      <4>3. IsFiniteSet(RatePaid(t)') /\ Cardinality(RatePaid(t)') <= Cardinality(K)
        BY <4>1, <4>2, FS_Subset
      <4> QED
        BY <4>3, FS_CardinalityType DEF K
    <3>3. RatePaid(now)' \subseteq RatePaid(now)
      <4>1. PICK t \in Nat : t = now'
        BY <2>0, <3>1
      <4>2. RatePaid(now)' = RatePaid(t)'
        BY <4>1 DEF RatePaid, PaidWithin
      <4>3. t \in 0 .. now' /\ (t <= now => t = now)
        BY <4>1, <3>1, <2>0
      <4> QED
        BY <4>2, <4>3, <3>1
    <3>4. /\ Cardinality(RatePaid(now)') <= Cardinality(RatePaid(now))
          /\ Cardinality(RatePaid(now)') \in Nat
      BY <3>3, <2>0, FS_Subset, FS_CardinalityType
    <3>5. Cardinality(reserved') <= Cardinality(reserved) /\ Cardinality(reserved') \in Nat
      BY <3>1, <2>0, FS_Subset, FS_CardinalityType
    <3> QED
      BY <3>1, <3>2, <3>4, <3>5, <2>0, <2>00
  <2>2. ASSUME NEW n \in Nonces, reserve(n) PROVE Goal
    <3>1. UNCHANGED now /\ reserved' = reserved \cup {n} /\ ~OverRate(n)
      BY <2>2 DEF reserve
    <3>2. RatePaid(now)' = RatePaid(now) /\ \A t : RatePaid(t)' = RatePaid(t)
      BY <2>2 DEF reserve, RatePaid, PaidWithin
    <3>3. Cardinality(reserved') <= Cardinality(reserved) + 1 /\ Cardinality(reserved') \in Nat
      <4>1. /\ IsFiniteSet(reserved')
            /\ \/ Cardinality(reserved') = Cardinality(reserved)
               \/ Cardinality(reserved') = Cardinality(reserved) + 1
        BY <3>1, <2>0, FS_AddElement
      <4> QED
        BY <4>1, <2>0
    <3>4. committedCount(windowDur(RateWindowSeconds)) \in Nat
      BY FS_Subset, FS_CardinalityType DEF committedCount, Within, FinitelyMany
    <3>5. committedCount(windowDur(RateWindowSeconds)) + Cardinality(reserved) + 1 <= MaxPaymentsPerWindow
      BY <3>1, <3>4, <2>0 DEF OverRate
    <3>6. Cardinality(RatePaid(now)) <= committedCount(windowDur(RateWindowSeconds))
      BY RateIsSeen
    <3>7. Cardinality(RatePaid(now)) + Cardinality(reserved') <= MaxPaymentsPerWindow
      BY <3>3, <3>4, <3>5, <3>6, <2>0
    <3> QED
      BY <3>1, <3>2, <3>7, <2>00
  <2>3. ASSUME NEW n \in Nonces, commit(n) PROVE Goal
    <3> DEFINE s == [nonce |-> n, at |-> now]
    <3>1. UNCHANGED now /\ n \in reserved /\ reserved' = reserved \ {n}
      BY <2>3 DEF commit
    <3>2. \A t \in 0 .. now : \/ RatePaid(t)' \subseteq RatePaid(t)
                              \/ t = now /\ RatePaid(t)' \subseteq RatePaid(t) \cup {s}
      BY <2>3, <1>0, CommitStep DEF RatePaid
    <3>3. RatePaid(now)' \subseteq RatePaid(now) \cup {s}
      <4>1. PICK t \in Nat : t = now
        BY <2>0
      <4>2. RatePaid(now)' = RatePaid(t)' /\ RatePaid(now) = RatePaid(t)
        BY <4>1, <3>1 DEF RatePaid, PaidWithin
      <4> QED
        BY <3>2, <4>1, <4>2
    <3>4. /\ Cardinality(RatePaid(now)') <= Cardinality(RatePaid(now)) + 1
          /\ Cardinality(RatePaid(now)') \in Nat
      <4>1. IsFiniteSet(RatePaid(now)) /\ Cardinality(RatePaid(now)) \in Nat
        BY <2>0
      <4> HIDE DEF s
      <4>2. /\ IsFiniteSet(RatePaid(now) \cup {s})
            /\ Cardinality(RatePaid(now) \cup {s}) <= Cardinality(RatePaid(now)) + 1
        <5>1. /\ IsFiniteSet(RatePaid(now) \cup {s})
              /\ \/ Cardinality(RatePaid(now) \cup {s}) = Cardinality(RatePaid(now))
                 \/ Cardinality(RatePaid(now) \cup {s}) = Cardinality(RatePaid(now)) + 1
          BY <4>1, FS_AddElement
        <5> QED
          BY <4>1, <5>1
      <4>3. Cardinality(RatePaid(now) \cup {s}) \in Nat
        BY <4>2, FS_CardinalityType
      <4> QED
        BY <3>3, <4>1, <4>2, <4>3, FS_Subset, FS_CardinalityType
    <3>5. Cardinality(reserved') = Cardinality(reserved) - 1
      BY <3>1, <2>0, FS_RemoveElement
    <3>6. Cardinality(RatePaid(now)') + Cardinality(reserved') <= MaxPaymentsPerWindow
          /\ Cardinality(RatePaid(now)') <= MaxPaymentsPerWindow
      <4>1. Cardinality(reserved') \in Nat
        BY <3>1, <2>0, FS_RemoveElement, FS_CardinalityType
      <4> QED
        BY <3>4, <3>5, <4>1, <2>0, <2>00
    <3>7. ASSUME NEW t \in 0 .. now' PROVE Cardinality(RatePaid(t)') <= MaxPaymentsPerWindow
      <4>1. CASE t = now
        <5>1. RatePaid(now)' = RatePaid(t)'
          BY <4>1, <3>1 DEF RatePaid, PaidWithin
        <5> QED
          BY <5>1, <3>6
      <4>2. CASE t # now
        <5>1. RatePaid(t)' \subseteq RatePaid(t) /\ t \in Nat /\ t \in 0 .. now
          BY <4>2, <3>1, <3>2, <2>0
        <5>2. /\ Cardinality(RatePaid(t)') <= Cardinality(RatePaid(t))
              /\ Cardinality(RatePaid(t)') \in Nat
          BY <5>1, <2>0, FS_Subset, FS_CardinalityType
        <5> QED
          BY <5>1, <5>2, <2>0, <2>00
      <4> QED
        BY <4>1, <4>2
    <3> QED
      BY <3>6, <3>7
  <2> QED
    BY <2>1, <2>2, <2>3 DEF Next
<1>3. RateInv => RateInEveryWindow
  BY DEF RateInv, RateInEveryWindow, RatePaid
<1> QED
  BY <1>1, <1>2, <1>3, AccountsTypeOK, AlwaysFinite, AlwaysDated, PruningIsInvisible,
     PTL DEF Spec
=============================================================================
