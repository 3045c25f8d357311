--------------------------- MODULE Journal_proofs ---------------------------
(***************************************************************************)
(* Theorems about module Journal, for every value of its constants.        *)
(***************************************************************************)
EXTENDS Journal, FiniteSetTheorems, TLAPS

\* A record is not garbage.
LEMMA RecordShapes ==
  /\ \A id \in Ids : Entry(id) \in Records /\ Marker(id) \in Records
  /\ \A rec \in Records \cup {Garbage} : rec.kind \in {"entry", "published", "garbage"}
  /\ Garbage.kind = "garbage"
  /\ \A id \in Ids : Entry(id).kind = "entry" /\ Entry(id).id = id
  /\ \A id \in Ids : Marker(id).kind = "published" /\ Marker(id).id = id
  BY DEF Entry, Marker, Records, Garbage

\* What adding a line does to the file: the last line may turn into garbage.
LEMMA AddLineLines ==
  ASSUME file \in Seq(Lines), NEW rec \in Records \cup {Garbage}, NEW e \in BOOLEAN
  PROVE  /\ AddLine(rec, e) \in Seq(Lines)
         /\ \A i \in DOMAIN AddLine(rec, e) :
              \/ i \in DOMAIN file /\ AddLine(rec, e)[i] = file[i]
              \/ AddLine(rec, e)[i].rec \in {rec, Garbage}
<1>1. CASE file # <<>> /\ ~file[Len(file)].ended
  <2>1. Len(file) \in 1 .. Len(file)
    BY <1>1
  <2>2. [rec |-> Garbage, ended |-> e] \in Lines
    BY DEF Lines
  <2> QED
    BY <1>1, <2>1, <2>2 DEF AddLine
<1>2. CASE ~(file # <<>> /\ ~file[Len(file)].ended)
  <2>1. [rec |-> rec, ended |-> e] \in Lines
    BY DEF Lines
  <2> QED
    BY <1>2, <2>1 DEF AddLine
<1> QED
  BY <1>1, <1>2

Outcomes == WriteFaults \cup {"ok"}

\* A write keeps the file well formed and can only add its own record.
LEMMA WriteLines ==
  ASSUME file \in Seq(Lines), NEW rec \in Records, NEW outcome \in Outcomes
  PROVE  /\ writeLine(rec, outcome) \in Seq(Lines)
         /\ \A i \in DOMAIN writeLine(rec, outcome) :
              \/ i \in DOMAIN file /\ writeLine(rec, outcome)[i] = file[i]
              \/ writeLine(rec, outcome)[i].rec \in {rec, Garbage}
<1>1. CASE outcome \in {"ok", "sync"}
  <2>1. writeLine(rec, outcome) = AddLine(rec, TRUE)
    BY <1>1 DEF writeLine
  <2> QED
    BY <2>1, AddLineLines
<1>2. CASE outcome = "unended"
  <2>1. writeLine(rec, outcome) = AddLine(rec, FALSE)
    BY <1>2 DEF writeLine
  <2> QED
    BY <2>1, AddLineLines
<1>3. CASE outcome = "torn"
  <2>1. writeLine(rec, outcome) = AddLine(Garbage, FALSE)
    BY <1>3 DEF writeLine
  <2> QED
    BY <2>1, AddLineLines
<1>4. CASE outcome = "none"
  <2>1. writeLine(rec, outcome) = file
    BY <1>4 DEF writeLine
  <2> QED
    BY <2>1
<1> QED
  BY <1>1, <1>2, <1>3, <1>4 DEF Outcomes, WriteFaults

\* The marked ids of a file are ids.
LEMMA MarkedAreIds ==
  ASSUME NEW f \in Seq(Lines)
  PROVE  MarkedOnDisk(f) \subseteq Ids
<1>1. ASSUME NEW i \in DOMAIN f, f[i].rec.kind = "published" PROVE f[i].rec.id \in Ids
  <2>1. f[i] \in Lines
    OBVIOUS
  <2>2. f[i].rec \in Records \cup {Garbage}
    BY <2>1 DEF Lines
  <2>3. f[i].rec \in Records
    BY <1>1, <2>2, RecordShapes
  <2> QED
    BY <2>3 DEF Records
<1> QED
  BY <1>1 DEF MarkedOnDisk

\* Writing an entry marks nothing, writing a marker marks at most its id.
LEMMA WriteMarks ==
  ASSUME file \in Seq(Lines), NEW outcome \in Outcomes, NEW id \in Ids
  PROVE  /\ MarkedOnDisk(writeLine(Entry(id), outcome)) \subseteq MarkedOnDisk(file)
         /\ MarkedOnDisk(writeLine(Marker(id), outcome)) \subseteq MarkedOnDisk(file) \cup {id}
<1>1. ASSUME NEW rec \in Records, NEW x \in MarkedOnDisk(writeLine(rec, outcome))
      PROVE  x \in MarkedOnDisk(file) \/ (rec.kind = "published" /\ x = rec.id)
  <2> DEFINE g == writeLine(rec, outcome)
  <2>1. PICK i \in DOMAIN g : g[i].rec.kind = "published" /\ x = g[i].rec.id
    BY <1>1 DEF MarkedOnDisk
  <2>2. CASE i \in DOMAIN file /\ g[i] = file[i]
    BY <2>1, <2>2 DEF MarkedOnDisk
  <2>3. CASE g[i].rec \in {rec, Garbage}
    BY <2>1, <2>3, RecordShapes
  <2> QED
    BY <2>2, <2>3, WriteLines
<1> QED
  BY <1>1, RecordShapes

\* A failing write is a write.
LEMMA FailedIsWrite ==
  ASSUME NEW rec, FailedWrite(rec)
  PROVE  /\ \E outcome \in Outcomes : file' = writeLine(rec, outcome)
         /\ TypeOK => faults' \in Nat /\ cuts' \in Nat
  BY JournalAssumption DEF FailedWrite, Outcomes, Cut, TypeOK

\* A crash leaves the file as it was or as an interrupted write left it.
LEMMA CrashOpens ==
  ASSUME TypeOK, Crash
  PROVE  /\ \/ file' = file
            \/ \E outcome \in Outcomes : \E id \in Ids : file' = writeLine(Entry(id), outcome)
            \/ \E outcome \in Outcomes : current \in Ids /\ file' = writeLine(Marker(current), outcome)
         /\ index' \in [Ids -> Nat] /\ size' \in Nat /\ \A id \in Ids : index'[id] <= size'
         /\ published' = MarkedOnDisk(file') /\ Stop
         /\ faults' \in Nat /\ cuts' \in Nat
         /\ UNCHANGED <<sent, acked>>
<1>1. ASSUME NEW f, f \in Seq(Lines), Open(f)
      PROVE  /\ file' = f
             /\ index' \in [Ids -> Nat] /\ size' \in Nat /\ \A id \in Ids : index'[id] <= size'
             /\ published' = MarkedOnDisk(file') /\ Stop
  BY <1>1 DEF Open
<1>2. CASE Open(file) /\ cuts' = cuts
  BY <1>1, <1>2 DEF Crash, TypeOK
<1>3. CASE \E rec \in Writing, outcome \in CrashCuts :
             Open(writeLine(rec, outcome)) /\ cuts' = cuts + Cut(outcome)
  <2>1. PICK rec \in Writing, outcome \in CrashCuts :
               Open(writeLine(rec, outcome)) /\ cuts' = cuts + Cut(outcome)
    BY <1>3
  <2>2. outcome \in Outcomes /\ cuts' \in Nat
    BY <2>1, JournalAssumption DEF Outcomes, TypeOK, Cut
  <2>3. \/ \E id \in Ids : rec = Entry(id)
        \/ current \in Ids /\ rec = Marker(current)
    BY <2>1 DEF Writing, TypeOK
  <2>4. writeLine(rec, outcome) \in Seq(Lines)
    BY <2>2, <2>3, WriteLines, RecordShapes DEF TypeOK
  <2> QED
    BY <1>1, <2>1, <2>2, <2>3, <2>4 DEF Crash, TypeOK
<1> QED
  BY <1>2, <1>3 DEF Crash

\* Every reachable state is well typed.
THEOREM JournalTypeOK == Spec => []TypeOK
<1>1. Init => TypeOK
  BY JournalAssumption DEF Init, TypeOK
<1>2. TypeOK /\ [Next]_vars => TypeOK'
  <2> SUFFICES ASSUME TypeOK, [Next]_vars PROVE TypeOK'
    OBVIOUS
  <2> USE JournalAssumption DEF memoryVars, outboxVars, faultVars
  <2>0. file \in Seq(Lines) /\ "ok" \in Outcomes
    BY DEF TypeOK, Outcomes
  <2>1. ASSUME NEW id \in Ids, AppendEntry(id) PROVE TypeOK'
    <3>1. Entry(id) \in Records
      BY RecordShapes
    <3>2. \/ UNCHANGED <<file, faultVars>>
          \/ file' = writeLine(Entry(id), "ok") /\ UNCHANGED faultVars
          \/ FailedWrite(Entry(id))
      BY <2>1 DEF AppendEntry
    <3>3. file' \in Seq(Lines)
      BY <2>0, <3>1, <3>2, WriteLines, FailedIsWrite
    <3>4. faults' \in Nat /\ cuts' \in Nat
      BY <3>2, FailedIsWrite DEF TypeOK
    <3> QED
      <4>1. index' \in [Ids -> Nat] /\ size' \in Nat
        BY <2>1 DEF AppendEntry, TypeOK, record
      <4>2. acked' \subseteq Ids
        BY <2>1 DEF AppendEntry, TypeOK
      <4> QED
        BY <2>1, <3>3, <3>4, <4>1, <4>2 DEF AppendEntry, TypeOK
  <2>2. ASSUME Scan PROVE TypeOK'
    BY <2>2 DEF Scan, TypeOK, Index
  <2>3. ASSUME Publish PROVE TypeOK'
    BY <2>3 DEF Publish, TypeOK
  <2>4. ASSUME PublishFails PROVE TypeOK'
    BY <2>4 DEF PublishFails, Stop, TypeOK
  <2>5. ASSUME MarkPublished PROVE TypeOK'
    <3>1. current \in Ids
      BY <2>5 DEF MarkPublished, TypeOK
    <3>2. \/ file' = writeLine(Marker(current), "ok") /\ UNCHANGED faultVars
          \/ FailedWrite(Marker(current))
      BY <2>5 DEF MarkPublished
    <3>3. Marker(current) \in Records
      BY <3>1, RecordShapes
    <3>4. file' \in Seq(Lines)
      BY <2>0, <3>2, <3>3, WriteLines, FailedIsWrite
    <3>5. faults' \in Nat /\ cuts' \in Nat
      BY <3>2, FailedIsWrite DEF TypeOK
    <3> QED
      BY <2>5, <3>1, <3>4, <3>5 DEF MarkPublished, Advance, Stop, TypeOK
  <2>6. ASSUME Crash PROVE TypeOK'
    <3>1. file' \in Seq(Lines)
      BY <2>6, <2>0, CrashOpens, WriteLines, RecordShapes
    <3> QED
      BY <2>6, <3>1, CrashOpens, MarkedAreIds DEF Stop, TypeOK
  <2>7. ASSUME UNCHANGED vars PROVE TypeOK'
    BY <2>7 DEF vars, TypeOK
  <2> QED
    BY <2>1, <2>2, <2>3, <2>4, <2>5, <2>6, <2>7 DEF Next
<1> QED
  BY <1>1, <1>2, PTL DEF Spec

\* The inductive strengthening for the outbox: what drain is marking was sent,
\* and everything the journal holds before an entry still to do was sent or is
\* still to do as well.
OutboxInv ==
  /\ PublishedWasSent
  /\ current # None => current \in sent
  /\ todo \subseteq Index
  /\ \A x \in Ids : index[x] <= size
  /\ \A id \in todo : \A x \in Index : index[x] < index[id] => x \in todo \cup sent

LEMMA OutboxInvariant == Spec => []OutboxInv
<1>1. Init => OutboxInv
  BY DEF Init, OutboxInv, PublishedWasSent, MarkedOnDisk
<1>2. TypeOK /\ OutboxInv /\ [Next]_vars => OutboxInv'
  <2> SUFFICES ASSUME TypeOK, OutboxInv, [Next]_vars PROVE OutboxInv'
    OBVIOUS
  <2> USE JournalAssumption DEF memoryVars, outboxVars, faultVars
  <2>0. file \in Seq(Lines) /\ "ok" \in Outcomes
    BY DEF TypeOK, Outcomes
  <2>1. ASSUME NEW id \in Ids, AppendEntry(id) PROVE OutboxInv'
    <3>1. MarkedOnDisk(file') \subseteq MarkedOnDisk(file)
      BY <2>1, <2>0, WriteMarks, FailedIsWrite DEF AppendEntry
    <3>2. PublishedWasSent'
      BY <2>1, <3>1 DEF AppendEntry, OutboxInv, PublishedWasSent
    <3>3. CASE UNCHANGED <<index, size>>
      BY <2>1, <3>2, <3>3 DEF AppendEntry, OutboxInv, Index
    <3>4. CASE id \notin Index /\ record(id)
      BY <2>1, <3>2, <3>4 DEF AppendEntry, OutboxInv, Index, record, TypeOK
    <3> QED
      BY <2>1, <3>3, <3>4 DEF AppendEntry
  <2>2. ASSUME Scan PROVE OutboxInv'
    BY <2>2 DEF Scan, OutboxInv, PublishedWasSent, Index
  <2>3. ASSUME Publish PROVE OutboxInv'
    BY <2>3 DEF Publish, OutboxInv, PublishedWasSent, Index
  <2>4. ASSUME PublishFails PROVE OutboxInv'
    BY <2>4 DEF PublishFails, Stop, OutboxInv, PublishedWasSent, Index
  <2>5. ASSUME MarkPublished PROVE OutboxInv'
    <3>1. current \in Ids
      BY <2>5 DEF MarkPublished, TypeOK
    <3>2. MarkedOnDisk(file') \subseteq MarkedOnDisk(file) \cup {current}
      BY <2>5, <2>0, <3>1, WriteMarks, FailedIsWrite DEF MarkPublished
    <3> QED
      BY <2>5, <3>1, <3>2 DEF MarkPublished, Advance, Stop, OutboxInv, PublishedWasSent, Index
  <2>6. ASSUME Crash PROVE OutboxInv'
    <3>1. MarkedOnDisk(file') \subseteq MarkedOnDisk(file) \cup ({current} \ {None})
      BY <2>6, <2>0, CrashOpens, WriteMarks
    <3> QED
      BY <2>6, <3>1, CrashOpens DEF Stop, OutboxInv, PublishedWasSent, Index
  <2>7. ASSUME UNCHANGED vars PROVE OutboxInv'
    BY <2>7 DEF vars, OutboxInv, PublishedWasSent, Index
  <2> QED
    BY <2>1, <2>2, <2>3, <2>4, <2>5, <2>6, <2>7 DEF Next
<1> QED
  BY <1>1, <1>2, JournalTypeOK, PTL DEF Spec

\* Delivery is at least once: an entry marked published, in memory or on disk,
\* has reached the sink, whatever write fails and wherever a crash lands.
THEOREM AtLeastOnce == Spec => []PublishedWasSent
<1>1. OutboxInv => PublishedWasSent
  BY DEF OutboxInv
<1> QED
  BY <1>1, OutboxInvariant, PTL

\* Delivery is in journal order: drain never skips ahead of an entry that was
\* not sent, across refusals, lost acknowledgements, cut writes and crashes.
THEOREM InJournalOrder == Spec => SentInOrder
<1> DEFINE Ordered == \A id \in sent' \ sent : \A x \in Index : index[x] < index[id] => x \in sent
<1>1. TypeOK /\ OutboxInv /\ [Next]_vars => [Ordered]_vars
  <2> SUFFICES ASSUME TypeOK, OutboxInv, Next PROVE Ordered
    OBVIOUS
  <2> USE DEF memoryVars, outboxVars, faultVars
  <2>1. ASSUME NEW id \in todo, First(id), sent' \subseteq sent \cup {id} PROVE Ordered
    BY <2>1 DEF First, OutboxInv, TypeOK, Index
  <2>2. CASE Publish \/ PublishFails
    BY <2>1, <2>2 DEF Publish, PublishFails
  <2>3. CASE sent' = sent
    BY <2>3
  <2> QED
    BY <2>2, <2>3, CrashOpens DEF Next, AppendEntry, Scan, MarkPublished
<1> QED
  BY <1>1, JournalTypeOK, OutboxInvariant, PTL DEF Spec, SentInOrder
----------------------------------------------------------------------------
\* No write is cut short: it leaves a whole line or nothing.
WholeWrites == WriteErrors \cup CrashCuts \subseteq {"none", "sync"}

\* The inductive strengthening for durability: every line is ended, so none is
\* ever continued, and memory holds nothing the file does not.
WholeInv ==
  /\ \A i \in DOMAIN file : file[i].ended
  /\ Index \subseteq OnDisk(file)
  /\ acked \subseteq Index

\* A whole write keeps the entries of the file and adds its own.
LEMMA WholeWriteKeeps ==
  ASSUME file \in Seq(Lines), \A i \in DOMAIN file : file[i].ended,
         NEW rec \in Records, NEW outcome \in {"ok", "sync", "none"}
  PROVE  /\ \A i \in DOMAIN writeLine(rec, outcome) : writeLine(rec, outcome)[i].ended
         /\ OnDisk(file) \subseteq OnDisk(writeLine(rec, outcome))
         /\ outcome = "ok" /\ rec.kind = "entry" => rec.id \in OnDisk(writeLine(rec, outcome))
<1> DEFINE g == Append(file, [rec |-> rec, ended |-> TRUE])
<1>1. CASE outcome = "none"
  BY <1>1 DEF writeLine
<1>2. CASE outcome \in {"ok", "sync"}
  <2>1. AddLine(rec, TRUE) = g
    <3>1. file # <<>> => Len(file) \in DOMAIN file
      OBVIOUS
    <3> QED
      BY <3>1 DEF AddLine
  <2>2. writeLine(rec, outcome) = g
    BY <1>2, <2>1 DEF writeLine
  <2>3. /\ DOMAIN g = 1 .. Len(file) + 1
        /\ \A i \in DOMAIN file : i \in DOMAIN g /\ g[i] = file[i]
        /\ g[Len(file) + 1] = [rec |-> rec, ended |-> TRUE]
    OBVIOUS
  <2>4. \A i \in DOMAIN g : i \in DOMAIN file \/ i = Len(file) + 1
    BY <2>3
  <2>5. \A i \in DOMAIN g : g[i].ended
    BY <2>3, <2>4
  <2>6. OnDisk(file) \subseteq OnDisk(g)
    BY <2>3 DEF OnDisk
  <2>7. Len(file) + 1 \in DOMAIN g /\ g[Len(file) + 1].rec = rec
    BY <2>3
  <2>8. rec.kind = "entry" => rec.id \in OnDisk(g)
    BY <2>7 DEF OnDisk
  <2> HIDE DEF g
  <2> QED
    BY <2>2, <2>5, <2>6, <2>8
<1> QED
  BY <1>1, <1>2

\* replay holds exactly the entries of the file.
LEMMA ReplayedIsOnDisk ==
  ASSUME NEW f \in Seq(Lines), NEW ix \in [Ids -> Nat], Replayed(ix, f)
  PROVE  \A id \in Ids : ix[id] > 0 <=> id \in OnDisk(f)
<1> SUFFICES ASSUME NEW id \in Ids PROVE ix[id] > 0 <=> id \in OnDisk(f)
  OBVIOUS
<1>1. CASE ix[id] = 0 /\ id \notin OnDisk(f)
  BY <1>1
<1>2. CASE ix[id] # 0 \/ id \in OnDisk(f)
  <2>1. ix[id] \in DOMAIN f /\ f[ix[id]].rec = Entry(id)
    BY <1>2 DEF Replayed
  <2>2. f[ix[id]].rec.kind = "entry" /\ f[ix[id]].rec.id = id
    BY <2>1, RecordShapes
  <2>3. id \in OnDisk(f)
    BY <2>1, <2>2 DEF OnDisk
  <2>4. ix[id] # 0
    BY <2>1
  <2> QED
    BY <2>3, <2>4
<1> QED
  BY <1>1, <1>2

\* When no write is cut short, what Append acknowledged outlives every crash
\* and every failed fsync: the torn tail is the only way to lose an entry.
THEOREM WholeWritesSurvive == WholeWrites => (Spec => []AckedSurvives)
<1> SUFFICES ASSUME WholeWrites PROVE Spec => []AckedSurvives
  OBVIOUS
<1>1. Init => WholeInv
  BY DEF Init, WholeInv, Index, OnDisk
<1>2. TypeOK /\ WholeInv /\ [Next]_vars => WholeInv'
  <2> SUFFICES ASSUME TypeOK, WholeInv, [Next]_vars PROVE WholeInv'
    OBVIOUS
  <2> USE DEF memoryVars, outboxVars, faultVars
  <2>0. file \in Seq(Lines) /\ \A i \in DOMAIN file : file[i].ended
    BY DEF TypeOK, WholeInv
  <2>a. ASSUME NEW rec \in Records, FailedWrite(rec), UNCHANGED <<index, acked>> PROVE WholeInv'
    <3>1. PICK outcome \in WriteErrors : file' = writeLine(rec, outcome)
      BY <2>a DEF FailedWrite
    <3>2. outcome \in {"ok", "sync", "none"}
      BY DEF WholeWrites
    <3> QED
      BY <2>0, <2>a, <3>1, <3>2, WholeWriteKeeps DEF WholeInv, Index
  <2>b. ASSUME UNCHANGED <<file, index, acked>> PROVE WholeInv'
    BY <2>b DEF WholeInv, Index
  <2>1. ASSUME NEW id \in Ids, AppendEntry(id) PROVE WholeInv'
    <3>0. Entry(id) \in Records /\ Entry(id).kind = "entry" /\ Entry(id).id = id
      BY RecordShapes
    <3>1. CASE id \in Index /\ acked' = acked \cup {id} /\ UNCHANGED <<file, index>>
      BY <3>1 DEF WholeInv, Index
    <3>2. CASE file' = writeLine(Entry(id), "ok") /\ record(id) /\ acked' = acked \cup {id}
      <4>1. /\ \A i \in DOMAIN file' : file'[i].ended
            /\ OnDisk(file) \cup {id} \subseteq OnDisk(file')
        BY <2>0, <3>0, <3>2, WholeWriteKeeps
      <4>2. Index' = Index \cup {id}
        BY <3>2 DEF record, Index, TypeOK
      <4> QED
        BY <3>2, <4>1, <4>2 DEF WholeInv
    <3>3. CASE FailedWrite(Entry(id)) /\ UNCHANGED <<index, acked>>
      BY <2>a, <3>0, <3>3
    <3> QED
      BY <2>1, <3>1, <3>2, <3>3 DEF AppendEntry
  <2>2. CASE MarkPublished
    <3>1. current \in Ids /\ UNCHANGED <<index, acked>>
      BY <2>2 DEF MarkPublished, TypeOK
    <3>2. Marker(current) \in Records
      BY <3>1, RecordShapes
    <3>3. CASE file' = writeLine(Marker(current), "ok")
      BY <2>0, <3>1, <3>2, <3>3, WholeWriteKeeps DEF WholeInv, Index
    <3>4. CASE FailedWrite(Marker(current))
      BY <2>a, <3>1, <3>2, <3>4
    <3> QED
      BY <2>2, <3>3, <3>4 DEF MarkPublished
  <2>3. CASE Crash
    <3>1. ASSUME NEW f, f \in Seq(Lines), Open(f), \A i \in DOMAIN f : f[i].ended,
                 OnDisk(file) \subseteq OnDisk(f), acked' = acked
          PROVE  WholeInv'
      <4>1. PICK ix \in [Ids -> 0 .. Len(f)] : Replayed(ix, f) /\ index' = ix
        BY <3>1 DEF Open
      <4>2. ix \in [Ids -> Nat]
        BY <3>1, <4>1
      <4>3. Index' = {id \in Ids : id \in OnDisk(f)}
        BY <3>1, <4>1, <4>2, ReplayedIsOnDisk DEF Index
      <4> QED
        BY <3>1, <4>3 DEF Open, WholeInv, TypeOK
    <3>2. CASE Open(file)
      BY <2>0, <2>3, <3>1, <3>2 DEF Crash
    <3>3. CASE \E rec \in Writing, outcome \in CrashCuts : Open(writeLine(rec, outcome))
      <4>1. PICK rec \in Writing, outcome \in CrashCuts : Open(writeLine(rec, outcome))
        BY <3>3
      <4>2. rec \in Records
        BY RecordShapes DEF Writing, TypeOK
      <4>3. outcome \in {"ok", "sync", "none"} /\ outcome \in Outcomes
        BY DEF WholeWrites, Outcomes, WriteFaults
      <4>4. writeLine(rec, outcome) \in Seq(Lines)
        BY <2>0, <4>2, <4>3, WriteLines
      <4> QED
        BY <2>0, <2>3, <3>1, <4>1, <4>2, <4>3, <4>4, WholeWriteKeeps DEF Crash
    <3> QED
      BY <2>3, <3>2, <3>3 DEF Crash
  <2>4. CASE Scan \/ Publish \/ PublishFails \/ UNCHANGED vars
    BY <2>4, <2>b DEF Scan, Publish, PublishFails, vars
  <2> QED
    BY <2>1, <2>2, <2>3, <2>4 DEF Next
<1>3. WholeInv => AckedSurvives
  BY DEF WholeInv, AckedSurvives
<1> QED
  BY <1>1, <1>2, <1>3, JournalTypeOK, PTL DEF Spec
----------------------------------------------------------------------------
\* The file ends with a line that the next write will continue.
Unended(f) == f # <<>> /\ ~f[Len(f)].ended

\* What memory or a caller holds for journaled and a restart would not find.
Lost == (acked \cup Index) \ (OnDisk(file) \cap Index)

\* The inductive strengthening: an unfinished line may still cost its own
\* record and the one written after it.
LossInv ==
  /\ IsFiniteSet(Lost)
  /\ Cardinality(Lost) + (IF Unended(file) THEN 2 ELSE 0) <= 2 * cuts

\* What adding a line does to the entries of the file: a continued last line
\* costs the entry it held, and the added record with it.
LEMMA AddLineLoses ==
  ASSUME file \in Seq(Lines), NEW rec \in Records \cup {Garbage}, NEW e \in BOOLEAN
  PROVE  /\ Unended(AddLine(rec, e)) <=> ~e
         /\ ~Unended(file) => OnDisk(file) \subseteq OnDisk(AddLine(rec, e))
         /\ \E y : OnDisk(file) \subseteq OnDisk(AddLine(rec, e)) \cup {y}
         /\ ~Unended(file) /\ rec.kind = "entry" => rec.id \in OnDisk(AddLine(rec, e))
<1>1. CASE Unended(file)
  <2> DEFINE g == [file EXCEPT ![Len(file)] = [rec |-> Garbage, ended |-> e]]
             y == file[Len(file)].rec.id
  <2>1. AddLine(rec, e) = g
    BY <1>1 DEF AddLine, Unended
  <2>2. Len(file) \in DOMAIN file /\ Len(g) = Len(file) /\ DOMAIN g = DOMAIN file
    BY <1>1 DEF Unended
  <2>3. g[Len(file)] = [rec |-> Garbage, ended |-> e]
    BY <2>2
  <2>4. \A i \in DOMAIN file : i # Len(file) => g[i] = file[i]
    OBVIOUS
  <2>5. g # <<>>
    BY <2>2
  <2>6. Unended(g) <=> ~e
    BY <2>2, <2>3, <2>5 DEF Unended
  <2>7. OnDisk(file) \subseteq OnDisk(g) \cup {y}
    <3> HIDE DEF g
    <3> QED
      BY <2>2, <2>4 DEF OnDisk
  <2> HIDE DEF g, y
  <2> QED
    BY <1>1, <2>1, <2>6, <2>7
<1>2. CASE ~Unended(file)
  <2> DEFINE g == Append(file, [rec |-> rec, ended |-> e])
  <2>1. AddLine(rec, e) = g
    BY <1>2 DEF AddLine, Unended
  <2>2. /\ DOMAIN g = 1 .. Len(file) + 1 /\ Len(g) = Len(file) + 1
        /\ \A i \in DOMAIN file : i \in DOMAIN g /\ g[i] = file[i]
        /\ g[Len(file) + 1] = [rec |-> rec, ended |-> e]
    OBVIOUS
  <2>3. Len(file) + 1 \in DOMAIN g /\ g[Len(g)].ended = e /\ g[Len(file) + 1].rec = rec
    <3>1. Len(file) \in Nat
      OBVIOUS
    <3> HIDE DEF g
    <3> QED
      BY <2>2, <3>1
  <2>7. g # <<>>
    OBVIOUS
  <2> HIDE DEF g
  <2>4. Unended(g) <=> ~e
    BY <2>3, <2>7 DEF Unended
  <2>5. OnDisk(file) \subseteq OnDisk(g)
    BY <2>2 DEF OnDisk
  <2>6. rec.kind = "entry" => rec.id \in OnDisk(g)
    BY <2>3 DEF OnDisk
  <2> QED
    BY <1>2, <2>1, <2>4, <2>5, <2>6
<1> QED
  BY <1>1, <1>2

\* The same for a write, by how far it got.
LEMMA WriteLoses ==
  ASSUME file \in Seq(Lines), NEW rec \in Records, NEW outcome \in Outcomes
  PROVE  /\ outcome = "none" => writeLine(rec, outcome) = file
         /\ outcome # "none" =>
              (Unended(writeLine(rec, outcome)) <=> outcome \in {"torn", "unended"})
         /\ ~Unended(file) => OnDisk(file) \subseteq OnDisk(writeLine(rec, outcome))
         /\ \E y : OnDisk(file) \subseteq OnDisk(writeLine(rec, outcome)) \cup {y}
         /\ ~Unended(file) /\ outcome = "ok" /\ rec.kind = "entry" =>
              rec.id \in OnDisk(writeLine(rec, outcome))
<1>1. CASE outcome \in {"ok", "sync"}
  <2>1. writeLine(rec, outcome) = AddLine(rec, TRUE)
    BY <1>1 DEF writeLine
  <2> QED
    BY <1>1, <2>1, AddLineLoses
<1>2. CASE outcome = "unended"
  <2>1. writeLine(rec, outcome) = AddLine(rec, FALSE)
    BY <1>2 DEF writeLine
  <2> QED
    BY <1>2, <2>1, AddLineLoses
<1>3. CASE outcome = "torn"
  <2>1. writeLine(rec, outcome) = AddLine(Garbage, FALSE)
    BY <1>3 DEF writeLine
  <2> QED
    BY <1>3, <2>1, AddLineLoses
<1>4. CASE outcome = "none"
  <2>1. writeLine(rec, outcome) = file
    BY <1>4 DEF writeLine
  <2> QED
    BY <1>4, <2>1
<1> QED
  BY <1>1, <1>2, <1>3, <1>4 DEF Outcomes, WriteFaults

\* A part of a set and one more element is at most one larger.
LEMMA OneMore ==
  ASSUME NEW S, IsFiniteSet(S), NEW y, NEW T, T \subseteq S \cup {y}
  PROVE  /\ IsFiniteSet(T) /\ Cardinality(T) \in Nat /\ Cardinality(S) \in Nat
         /\ Cardinality(T) <= Cardinality(S) + 1
<1>1. Cardinality(S) \in Nat /\ IsFiniteSet(S \cup {y})
  BY FS_CardinalityType, FS_AddElement
<1>2. \/ Cardinality(S \cup {y}) = Cardinality(S)
      \/ Cardinality(S \cup {y}) = Cardinality(S) + 1
  BY FS_AddElement
<1>3. IsFiniteSet(T) /\ Cardinality(T) <= Cardinality(S \cup {y})
  BY <1>1, FS_Subset
<1>4. Cardinality(T) \in Nat
  BY <1>3, FS_CardinalityType
<1> QED
  BY <1>1, <1>2, <1>3, <1>4

\* What a write may cost keeps the bound: nothing when it starts a line, else
\* the continued record and, if it succeeds, its own.
LEMMA WriteKeepsBound ==
  ASSUME TypeOK, LossInv, NEW rec \in Records, NEW outcome \in Outcomes,
         file' = writeLine(rec, outcome), cuts' = cuts + Cut(outcome),
         \/ outcome = "none" /\ Lost' \subseteq Lost
         \/ ~Unended(file) /\ Lost' \subseteq Lost
         \/ Unended(file) /\ outcome # "none" /\ \E y : Lost' \subseteq Lost \cup {y}
         \/ Unended(file) /\ outcome = "ok" /\ \E y, z : Lost' \subseteq (Lost \cup {y}) \cup {z}
  PROVE  LossInv'
<1>0. file \in Seq(Lines) /\ cuts \in Nat /\ IsFiniteSet(Lost) /\ Cardinality(Lost) \in Nat
  BY FS_CardinalityType DEF TypeOK, LossInv
<1>1. ASSUME Lost' \subseteq Lost
      PROVE  IsFiniteSet(Lost') /\ Cardinality(Lost') \in Nat /\ Cardinality(Lost') <= Cardinality(Lost)
  BY <1>0, <1>1, FS_Subset, FS_CardinalityType
<1>2. CASE outcome = "none" /\ Lost' \subseteq Lost
  <2>1. file' = file /\ cuts' = cuts
    BY <1>0, <1>2, WriteLoses DEF Cut
  <2> QED
    BY <1>0, <1>1, <1>2, <2>1 DEF LossInv
<1>3. CASE outcome # "none"
  <2>1. Unended(file') <=> outcome \in {"torn", "unended"}
    BY <1>0, <1>3, WriteLoses
  <2>2. (IF Unended(file') THEN 2 ELSE 0) = 2 * Cut(outcome) /\ Cut(outcome) \in {0, 1}
    BY <2>1 DEF Cut
  <2>3. CASE ~Unended(file) /\ Lost' \subseteq Lost
    <3>1. Cardinality(Lost) <= 2 * cuts
      BY <1>0, <2>3 DEF LossInv
    <3> QED
      BY <1>0, <1>1, <2>2, <2>3, <3>1 DEF LossInv, Unended
  <2>4. CASE Unended(file)
    <3>1. Cardinality(Lost) + 2 <= 2 * cuts
      BY <2>4 DEF LossInv
    <3>2. CASE \E y : Lost' \subseteq Lost \cup {y}
      <4>1. IsFiniteSet(Lost') /\ Cardinality(Lost') \in Nat /\ Cardinality(Lost') <= Cardinality(Lost) + 1
        BY <1>0, <3>2, OneMore
      <4> QED
        BY <1>0, <2>2, <3>1, <4>1 DEF LossInv, Unended
    <3>3. CASE outcome = "ok" /\ \E y, z : Lost' \subseteq (Lost \cup {y}) \cup {z}
      <4>1. PICK y, z : Lost' \subseteq (Lost \cup {y}) \cup {z}
        BY <3>3
      <4>2. /\ IsFiniteSet(Lost \cup {y}) /\ Cardinality(Lost \cup {y}) \in Nat
            /\ Cardinality(Lost \cup {y}) <= Cardinality(Lost) + 1
        BY <1>0, OneMore
      <4>3. /\ IsFiniteSet(Lost') /\ Cardinality(Lost') \in Nat
            /\ Cardinality(Lost') <= Cardinality(Lost \cup {y}) + 1
        <5> DEFINE S == Lost \cup {y}
        <5>1. IsFiniteSet(S) /\ Lost' \subseteq S \cup {z}
          BY <4>1, <4>2
        <5> HIDE DEF S
        <5>2. /\ IsFiniteSet(Lost') /\ Cardinality(Lost') \in Nat
              /\ Cardinality(Lost') <= Cardinality(S) + 1
          BY <5>1, OneMore
        <5> QED
          BY <5>2 DEF S
      <4>4. Cut(outcome) = 0
        BY <3>3 DEF Cut
      <4> QED
        BY <1>0, <2>2, <3>1, <4>2, <4>3, <4>4 DEF LossInv, Unended
    <3> QED
      BY <2>4, <3>2, <3>3, <1>3
  <2> QED
    BY <1>3, <2>3, <2>4
<1> QED
  BY <1>2, <1>3

\* Records that are acknowledged twice, a file that is not written, and memory
\* that stays cost nothing.
LEMMA StayKeepsBound ==
  ASSUME TypeOK, LossInv, UNCHANGED <<file, cuts>>, Lost' \subseteq Lost
  PROVE  LossInv'
<1>1. IsFiniteSet(Lost) /\ IsFiniteSet(Lost') /\ Cardinality(Lost') <= Cardinality(Lost)
  BY FS_Subset DEF LossInv
<1>2. Cardinality(Lost) \in Nat /\ Cardinality(Lost') \in Nat
  BY <1>1, FS_CardinalityType
<1>3. Unended(file') <=> Unended(file)
  BY DEF Unended
<1>4. (IF Unended(file') THEN 2 ELSE 0) = (IF Unended(file) THEN 2 ELSE 0)
  BY <1>3
<1>5. Cardinality(Lost') + (IF Unended(file') THEN 2 ELSE 0) <= 2 * cuts
  BY <1>1, <1>2, <1>4 DEF LossInv, TypeOK
<1> QED
  BY <1>1, <1>5 DEF LossInv, Unended

\* An unfinished write costs at most two acknowledged entries, in whatever
\* order writes fail, the process crashes and appends are retried
\* (journal.go:106-229).
THEOREM CutWritesCostTwo == Spec => []LossIsBounded
<1>1. Init => LossInv
  <2> SUFFICES ASSUME Init PROVE LossInv
    OBVIOUS
  <2>1. Lost = {} /\ cuts = 0 /\ ~Unended(file)
    BY DEF Init, Lost, Index, Unended
  <2> QED
    BY <2>1, FS_EmptySet DEF LossInv
<1>2. TypeOK /\ LossInv /\ [Next]_vars => LossInv'
  <2> SUFFICES ASSUME TypeOK, LossInv, [Next]_vars PROVE LossInv'
    OBVIOUS
  <2> USE DEF memoryVars, outboxVars, faultVars
  <2>0. file \in Seq(Lines) /\ cuts \in Nat /\ "ok" \in Outcomes /\ acked \subseteq Ids
        /\ WriteErrors \subseteq Outcomes /\ CrashCuts \subseteq Outcomes /\ Cut("ok") = 0
    BY JournalAssumption DEF TypeOK, Outcomes, Cut
  \* A write that changes neither memory nor what was acknowledged.
  <2>1. ASSUME NEW rec \in Records, NEW outcome \in Outcomes, file' = writeLine(rec, outcome),
               cuts' = cuts + Cut(outcome), UNCHANGED <<index, acked>>
        PROVE  LossInv'
    <3>1. PICK y : OnDisk(file) \subseteq OnDisk(file') \cup {y}
      BY <2>0, <2>1, WriteLoses
    <3>2. Index' = Index
      BY <2>1 DEF Index
    <3>3. outcome = "none" => file' = file
      BY <2>0, <2>1, WriteLoses
    <3>4. ~Unended(file) => OnDisk(file) \subseteq OnDisk(file')
      BY <2>0, <2>1, WriteLoses
    <3>5. /\ outcome = "none" => Lost' \subseteq Lost
          /\ ~Unended(file) => Lost' \subseteq Lost
          /\ Lost' \subseteq Lost \cup {y}
      BY <2>1, <3>1, <3>2, <3>3, <3>4 DEF Lost
    <3> QED
      BY <2>1, <3>5, WriteKeepsBound
  <2>2. ASSUME NEW rec \in Records, FailedWrite(rec), UNCHANGED <<index, acked>> PROVE LossInv'
    BY <2>0, <2>1, <2>2 DEF FailedWrite
  <2>3. ASSUME NEW id \in Ids, AppendEntry(id) PROVE LossInv'
    <3>0. Entry(id) \in Records /\ Entry(id).kind = "entry" /\ Entry(id).id = id
      BY RecordShapes
    <3>1. CASE id \in Index /\ acked' = acked \cup {id} /\ UNCHANGED <<file, index, faultVars>>
      <4>1. Lost' \subseteq Lost
        BY <3>1 DEF Lost, Index
      <4> QED
        BY <3>1, <4>1, StayKeepsBound
    <3>2. CASE file' = writeLine(Entry(id), "ok") /\ record(id) /\ acked' = acked \cup {id}
               /\ UNCHANGED faultVars
      <4>1. Index' = Index \cup {id}
        BY <3>2 DEF record, Index, TypeOK
      <4>2. PICK y : OnDisk(file) \subseteq OnDisk(file') \cup {y}
        BY <2>0, <3>0, <3>2, WriteLoses
      <4>3. ~Unended(file) => OnDisk(file) \cup {id} \subseteq OnDisk(file')
        BY <2>0, <3>0, <3>2, WriteLoses
      <4>4. /\ ~Unended(file) => Lost' \subseteq Lost
            /\ Lost' \subseteq (Lost \cup {y}) \cup {id}
        BY <3>2, <4>1, <4>2, <4>3 DEF Lost
      <4>5. cuts' = cuts + Cut("ok")
        BY <2>0, <3>2
      <4> QED
        BY <2>0, <3>0, <3>2, <4>4, <4>5, WriteKeepsBound
    <3>3. CASE FailedWrite(Entry(id)) /\ UNCHANGED <<index, acked>>
      BY <2>2, <3>0, <3>3
    <3> QED
      BY <2>3, <3>1, <3>2, <3>3 DEF AppendEntry
  <2>4. CASE MarkPublished
    <3>1. current \in Ids /\ UNCHANGED <<index, acked>>
      BY <2>4 DEF MarkPublished, TypeOK
    <3>2. Marker(current) \in Records
      BY <3>1, RecordShapes
    <3>3. CASE file' = writeLine(Marker(current), "ok") /\ UNCHANGED faultVars
      <4>1. cuts' = cuts + Cut("ok")
        BY <2>0, <3>3
      <4> QED
        BY <2>0, <2>1, <3>1, <3>2, <3>3, <4>1
    <3>4. CASE FailedWrite(Marker(current))
      BY <2>2, <3>1, <3>2, <3>4
    <3> QED
      BY <2>4, <3>3, <3>4 DEF MarkPublished
  <2>5. CASE Crash
    <3>1. ASSUME NEW f, f \in Seq(Lines), Open(f), NEW K,
                 OnDisk(file) \subseteq OnDisk(f) \cup K, acked' = acked
          PROVE  file' = f /\ Lost' \subseteq Lost \cup K
      <4>1. PICK ix \in [Ids -> 0 .. Len(f)] : Replayed(ix, f) /\ index' = ix
        BY <3>1 DEF Open
      <4>2. ix \in [Ids -> Nat]
        BY <3>1, <4>1
      <4>3. Index' = {id \in Ids : id \in OnDisk(f)}
        BY <3>1, <4>1, <4>2, ReplayedIsOnDisk DEF Index
      <4> QED
        BY <2>0, <3>1, <4>3 DEF Open, Lost
    <3>2. CASE Open(file) /\ cuts' = cuts
      <4>1. file' = file /\ Lost' \subseteq Lost \cup {}
        BY <2>0, <2>5, <3>1, <3>2 DEF Crash
      <4> QED
        BY <3>2, <4>1, StayKeepsBound
    <3>3. CASE \E rec \in Writing, outcome \in CrashCuts :
                 Open(writeLine(rec, outcome)) /\ cuts' = cuts + Cut(outcome)
      <4>1. PICK rec \in Writing, outcome \in CrashCuts :
                   Open(writeLine(rec, outcome)) /\ cuts' = cuts + Cut(outcome)
        BY <3>3
      <4>2. rec \in Records /\ outcome \in Outcomes /\ acked' = acked
        BY <2>0, <2>5, RecordShapes DEF Writing, TypeOK, Crash
      <4>3. writeLine(rec, outcome) \in Seq(Lines)
        BY <2>0, <4>2, WriteLines
      <4>4. PICK y : OnDisk(file) \subseteq OnDisk(writeLine(rec, outcome)) \cup {y}
        BY <2>0, <4>2, WriteLoses
      <4>5. file' = writeLine(rec, outcome) /\ Lost' \subseteq Lost \cup {y}
        BY <3>1, <4>1, <4>2, <4>3, <4>4
      <4>6. outcome = "none" \/ ~Unended(file) =>
              OnDisk(file) \subseteq OnDisk(writeLine(rec, outcome)) \cup {}
        BY <2>0, <4>2, WriteLoses
      <4>7. outcome = "none" \/ ~Unended(file) => Lost' \subseteq Lost
        BY <3>1, <4>1, <4>2, <4>3, <4>6
      <4> QED
        BY <4>1, <4>2, <4>5, <4>7, WriteKeepsBound
    <3> QED
      BY <2>5, <3>2, <3>3 DEF Crash
  <2>6. CASE Scan \/ Publish \/ PublishFails \/ UNCHANGED vars
    <3>1. UNCHANGED <<file, cuts, index, acked>>
      BY <2>6 DEF Scan, Publish, PublishFails, vars
    <3>2. Lost' = Lost
      BY <3>1 DEF Lost, Index
    <3> QED
      BY <3>1, <3>2, StayKeepsBound
  <2> QED
    BY <2>3, <2>4, <2>5, <2>6 DEF Next
<1>3. TypeOK /\ LossInv => LossIsBounded
  <2> SUFFICES ASSUME TypeOK, LossInv PROVE LossIsBounded
    OBVIOUS
  <2>1. acked \ (OnDisk(file) \cap Index) \subseteq Lost
    BY DEF Lost
  <2>2. IsFiniteSet(Lost) /\ IsFiniteSet(acked \ (OnDisk(file) \cap Index))
        /\ Cardinality(acked \ (OnDisk(file) \cap Index)) <= Cardinality(Lost)
    BY <2>1, FS_Subset DEF LossInv
  <2>3. Cardinality(Lost) \in Nat /\ Cardinality(acked \ (OnDisk(file) \cap Index)) \in Nat
    BY <2>2, FS_CardinalityType
  <2>4. Cardinality(Lost) <= 2 * cuts
    BY <2>3 DEF LossInv, TypeOK
  <2> QED
    BY <2>2, <2>3, <2>4 DEF LossIsBounded, TypeOK
<1> QED
  BY <1>1, <1>2, <1>3, JournalTypeOK, PTL DEF Spec
=============================================================================
