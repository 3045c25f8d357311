-------------------------- MODULE MandateAccounts --------------------------
(***************************************************************************)
(* The sliding windows of one mandate account: mandateAccounts of          *)
(* x402/policy_mandate.go, with the journal entries it is restored from.   *)
(*                                                                         *)
(* Module Gateway runs the same account inside the whole request handling, *)
(* with unlimited windows.  Here the calls come in any order the gateway   *)
(* can make them and time advances between any two of them.  Time is       *)
(* counted in ticks, Second of which make the second the journal keeps.    *)
(***************************************************************************)
EXTENDS Integers, FiniteSets, Sums

CONSTANTS
  Nonces,               \* payment nonces
  Amount,               \* Amount[n]: the value of payment n
  Confirmed,            \* payments with a valid confirmation (skipBudget)
  BudgetAmount,         \* 0 means no limit
  BudgetWindowSeconds,  \* 0 means no window
  MaxPaymentsPerWindow, \* 0 means no limit
  RateWindowSeconds,    \* 0 means no window
  Second,               \* ticks per second
  DurationModulus,      \* time.Duration holds ticks modulo this (2^64 in Go)
  MaxTime               \* bound on the clock

ASSUME AccountAssumption ==
  /\ Amount \in [Nonces -> Nat]
  /\ Confirmed \subseteq Nonces
  /\ BudgetAmount \in Nat /\ BudgetWindowSeconds \in Nat
  /\ MaxPaymentsPerWindow \in Nat /\ RateWindowSeconds \in Nat
  /\ Second \in Nat \ {0}
  /\ MaxTime \in Nat
  /\ DurationModulus \in Nat
  /\ MaxTime < DurationModulus \div 4

VARIABLES
  now,       \* the clock
  reserved,  \* mandateAccount.reserved: nonces of payments being settled
  spends,    \* mandateAccount.spends
  recording, \* committed payments whose settled decision is not journaled yet
  journal,   \* settled decision entries: nonce and second
  unpruned,  \* history: spends as it would be had prune never run
  paid       \* history: when each payment was committed

vars == <<now, reserved, spends, recording, journal, unpruned, paid>>

Spend == [nonce: Nonces, at: Nat]

TypeOK ==
  /\ now \in Nat
  /\ reserved \subseteq Nonces
  /\ spends \subseteq Spend
  /\ recording \subseteq Spend
  /\ journal \subseteq Spend
  /\ unpruned \subseteq Spend
  /\ paid \subseteq Spend

Init ==
  /\ now = 0
  /\ reserved = {}
  /\ spends = {}
  /\ recording = {}
  /\ journal = {}
  /\ unpruned = {}
  /\ paid = {}
----------------------------------------------------------------------------
\* time.Duration(1) << 62: the window of a limit that names none.
allTime == DurationModulus \div 4

\* time.Duration(seconds) * time.Second, a signed multiplication that wraps.
windowDur(seconds) ==
  IF seconds = 0
  THEN allTime
  ELSE LET half == DurationModulus \div 2
       IN ((seconds * Second + half) % DurationModulus) - half

\* Mutant: the narrower window.
maxWindow_Narrow ==
  LET b == windowDur(BudgetWindowSeconds)
      r == windowDur(RateWindowSeconds)
  IN IF b > r THEN r ELSE b

maxWindow ==
  LET b == windowDur(BudgetWindowSeconds)
      r == windowDur(RateWindowSeconds)
  IN IF b > r THEN b ELSE r

\* The spends not before the cutoff now - window.
Within(S, window) == {s \in S : s.at >= now - window}

SumOf(S) == Sum(Amount, S)

\* A spend is one list element; its amount is that of its nonce.
SpentAmount(S) == Sum([s \in Spend |-> Amount[s.nonce]], S)

committedAmount(window) == SpentAmount(Within(spends, window))
committedCount(window) == Cardinality(Within(spends, window))

\* Mutant: in-flight payments are not counted.
reservedAmount_Zero == 0

reservedAmount == SumOf(reserved)

OverBudget(n) ==
  /\ n \notin Confirmed
  /\ BudgetAmount > 0
  /\ committedAmount(windowDur(BudgetWindowSeconds)) + reservedAmount + Amount[n] > BudgetAmount

\* Mutant: the payment being reserved is not counted.
OverRate_OffByOne(n) ==
  /\ MaxPaymentsPerWindow > 0
  /\ committedCount(windowDur(RateWindowSeconds)) + Cardinality(reserved) > MaxPaymentsPerWindow

OverRate(n) ==
  /\ MaxPaymentsPerWindow > 0
  /\ committedCount(windowDur(RateWindowSeconds)) + Cardinality(reserved) + 1 > MaxPaymentsPerWindow
----------------------------------------------------------------------------
\* reserve that fits; one that does not changes nothing.  The token accepts a
\* nonce once, so a committed payment does not come back.
reserve(n) ==
  /\ \A s \in paid : s.nonce # n
  /\ ~OverBudget(n)
  /\ ~OverRate(n)
  /\ reserved' = reserved \cup {n}
  /\ UNCHANGED <<now, spends, recording, journal, unpruned, paid>>

\* prune drops what no window can reach any more.
prune(S) == Within(S, maxWindow)

\* commit turns the reservation into a spend dated now.
commit(n) ==
  /\ n \in reserved
  /\ reserved' = reserved \ {n}
  /\ LET s == [nonce |-> n, at |-> now]
     IN /\ spends' = prune(spends \cup {s})
        /\ unpruned' = unpruned \cup {s}
        /\ recording' = recording \cup {s}
        /\ paid' = paid \cup {s}
  /\ UNCHANGED <<now, journal>>

release(n) ==
  /\ n \in reserved
  /\ reserved' = reserved \ {n}
  /\ UNCHANGED <<now, spends, recording, journal, unpruned, paid>>

\* JournalEntry.At is time.Now().Unix(): the second the tick lies in.
entryAt == (now \div Second) * Second

\* recordDecision(settled), which settle calls after commit.
recordDecision(s) ==
  /\ s \in recording
  /\ recording' = recording \ {s}
  /\ journal' = journal \cup {[nonce |-> s.nonce, at |-> entryAt]}
  /\ UNCHANGED <<now, reserved, spends, unpruned, paid>>

\* RestoreSpend for every settled decision entry, without pruning.
restored == journal

\* The process restarts: restoreAccounting replays the journal.
Restart ==
  /\ reserved' = {}
  /\ spends' = restored
  /\ unpruned' = restored
  /\ recording' = {}
  /\ UNCHANGED <<now, journal, paid>>

Tick ==
  /\ now < MaxTime
  /\ now' = now + 1
  /\ UNCHANGED <<reserved, spends, recording, journal, unpruned, paid>>

Next ==
  \/ \E n \in Nonces : reserve(n) \/ commit(n) \/ release(n)
  \/ \E s \in recording : recordDecision(s)
  \/ Restart
  \/ Tick

Spec == Init /\ [][Next]_vars
----------------------------------------------------------------------------
\* prune is invisible: whatever window a later reserve looks through, it sees
\* the same spends as if nothing had ever been dropped.
PruneIsInvisible ==
  \A seconds \in {BudgetWindowSeconds, RateWindowSeconds} :
    Within(spends, windowDur(seconds)) = Within(unpruned, windowDur(seconds))

\* The payments committed within span ticks ending at time t, but for those a
\* crash caught between commit and their journal entry.
PaidWithin(t, span) ==
  {s \in paid : /\ t - span <= s.at /\ s.at <= t
                /\ s \in recording \/ \E e \in journal : e.nonce = s.nonce}

\* The restored dates are whole seconds, so a span this much shorter than the
\* window is covered even when the account was rebuilt from the journal.
Covered(seconds) ==
  IF seconds = 0 THEN allTime ELSE (seconds - 1) * Second

\* In every period of the budget window, less the second the journal rounds
\* away, the unconfirmed payments stay within the budget: across interleaved
\* reservations, late commits and restarts.  Holds for windows that fit
\* time.Duration.
BudgetInEveryWindow ==
  BudgetAmount > 0 => \A t \in 0 .. now :
    SpentAmount({s \in PaidWithin(t, Covered(BudgetWindowSeconds)) : s.nonce \notin Confirmed}) <= BudgetAmount

\* The same for the number of payments, which a confirmation does not waive.
RateInEveryWindow ==
  MaxPaymentsPerWindow > 0 => \A t \in 0 .. now :
    Cardinality(PaidWithin(t, Covered(RateWindowSeconds))) <= MaxPaymentsPerWindow
=============================================================================
