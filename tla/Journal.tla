------------------------------ MODULE Journal ------------------------------
(***************************************************************************)
(* The settlement journal of x402/journal.go and the outbox of             *)
(* x402/outbox.go that publishes its entries through a Sink.               *)
(*                                                                         *)
(* The file is a sequence of lines.  A write normally adds one line; one   *)
(* that a crash or an I/O error cuts short leaves its last line without a  *)
(* newline, and the next write continues that line.  Every method holds    *)
(* Journal.mu, so a call is one step; the outbox releases the lock between *)
(* its scan, its publish and its marker.                                   *)
(***************************************************************************)
EXTENDS Integers, Sequences, FiniteSets

CONSTANTS
  Ids,         \* entry ids
  WriteErrors, \* how far a write that returns an error may have got
  CrashCuts,   \* how far a write that a crash interrupts may have got
  MaxFaults,   \* bound on failed writes and crashes
  None         \* no entry

WriteFaults == { "none",     \* no byte reaches the file
                 "torn",     \* part of the line does
                 "unended",  \* all of it but the newline
                 "sync" }    \* the whole line, but fsync reports an error

ASSUME JournalAssumption ==
  /\ WriteErrors \subseteq WriteFaults
  /\ CrashCuts \subseteq WriteFaults
  /\ MaxFaults \in Nat
  /\ None \notin Ids

VARIABLES
  file,      \* the lines on disk
  index,     \* index[id]: where Journal.entries holds the entry, 0 if it does not
  size,      \* the last position Journal.entries uses
  published, \* Journal.published
  todo,      \* what drain has left of its Unpublished() list
  current,   \* the entry drain is working on
  step,      \* where drain is
  sent,      \* entries the sink has received
  acked,     \* entries whose Append returned nil
  faults,    \* failed writes and crashes so far
  cuts       \* history: writes that left a line without its newline

memoryVars == <<index, size, published>>
outboxVars == <<todo, current, step>>
faultVars  == <<faults, cuts>>

vars == <<file, memoryVars, outboxVars, sent, acked, faultVars>>

Records == [kind: {"entry", "published"}, id: Ids]
Garbage == [kind |-> "garbage"]
Lines == [rec: Records \cup {Garbage}, ended: BOOLEAN]

TypeOK ==
  /\ file \in Seq(Lines)
  /\ index \in [Ids -> Nat]
  /\ size \in Nat
  /\ published \subseteq Ids
  /\ todo \subseteq Ids
  /\ current \in Ids \cup {None}
  /\ step \in {"scan", "publish", "mark"}
  /\ sent \subseteq Ids
  /\ acked \subseteq Ids
  /\ faults \in Nat
  /\ cuts \in Nat
  /\ step = "mark" <=> current # None

Init ==
  /\ file = <<>>
  /\ index = [id \in Ids |-> 0]
  /\ size = 0
  /\ published = {}
  /\ todo = {}
  /\ current = None
  /\ step = "scan"
  /\ sent = {}
  /\ acked = {}
  /\ faults = 0
  /\ cuts = 0
----------------------------------------------------------------------------
(* The file.                                                               *)

Entry(id) == [kind |-> "entry", id |-> id]
Marker(id) == [kind |-> "published", id |-> id]

\* A line added to the file: on an unfinished line it makes one that no longer
\* parses.
AddLine(rec, ended) ==
  IF file # <<>> /\ ~file[Len(file)].ended
  THEN [file EXCEPT ![Len(file)] = [rec |-> Garbage, ended |-> ended]]
  ELSE Append(file, [rec |-> rec, ended |-> ended])

\* writeLine: the file after a write with the given outcome.
writeLine(rec, outcome) ==
  CASE outcome \in {"ok", "sync"} -> AddLine(rec, TRUE)
    [] outcome = "unended"        -> AddLine(rec, FALSE)
    [] outcome = "torn"           -> AddLine(Garbage, FALSE)
    [] outcome = "none"           -> file

\* Does the write leave its line without a newline?
Cut(outcome) == IF outcome \in {"torn", "unended"} THEN 1 ELSE 0

\* A write that reports an error.
FailedWrite(rec) ==
  \E outcome \in WriteErrors :
    /\ faults < MaxFaults
    /\ faults' = faults + 1
    /\ cuts' = cuts + Cut(outcome)
    /\ file' = writeLine(rec, outcome)

Index == {id \in Ids : index[id] > 0}

OnDisk(f) == {f[i].rec.id : i \in {j \in DOMAIN f : f[j].rec.kind = "entry"}}

\* Mutant: an entry line counts as a marker.
MarkedOnDisk_Loose(f) == {f[i].rec.id : i \in {j \in DOMAIN f : f[j].rec # Garbage}}

MarkedOnDisk(f) == {f[i].rec.id : i \in {j \in DOMAIN f : f[j].rec.kind = "published"}}

\* replay: the entries of the file in the order of their first line; a line
\* that does not parse is skipped and a duplicate id ignored.  Line numbers
\* stand for the positions: they order the entries alike.
Replayed(ix, f) ==
  \A id \in Ids :
    \/ ix[id] = 0 /\ id \notin OnDisk(f)
    \/ /\ ix[id] \in DOMAIN f
       /\ f[ix[id]].rec = Entry(id)
       /\ \A i \in DOMAIN f : f[i].rec = Entry(id) => ix[id] <= i
----------------------------------------------------------------------------
(* The gateway's side.                                                     *)

\* record: the entry goes behind all others.
record(id) ==
  /\ index' = [index EXCEPT ![id] = size + 1]
  /\ size' = size + 1

\* Mutant: recorded and acknowledged whatever the write returned.
AppendEntry_IgnoresError(id) ==
  /\ id \notin Index
  /\ \/ file' = writeLine(Entry(id), "ok") /\ UNCHANGED faultVars
     \/ FailedWrite(Entry(id))
  /\ record(id)
  /\ acked' = acked \cup {id}
  /\ UNCHANGED <<published, outboxVars, sent>>

\* Append: idempotent by id; recorded only once the line is synced.
AppendEntry(id) ==
  /\ \/ /\ id \in Index
        /\ acked' = acked \cup {id}
        /\ UNCHANGED <<file, index, size, faultVars>>
     \/ /\ id \notin Index
        /\ file' = writeLine(Entry(id), "ok")
        /\ record(id)
        /\ acked' = acked \cup {id}
        /\ UNCHANGED faultVars
     \/ /\ id \notin Index
        /\ FailedWrite(Entry(id))
        /\ UNCHANGED <<index, size, acked>>
  /\ UNCHANGED <<published, outboxVars, sent>>
----------------------------------------------------------------------------
(* The outbox.                                                             *)

\* A tick of Run: drain lists the unpublished entries.
Scan ==
  /\ step = "scan"
  /\ Index \ published # {}
  /\ todo' = Index \ published
  /\ step' = "publish"
  /\ UNCHANGED <<file, memoryVars, current, sent, acked, faultVars>>

\* drain takes its list in journal order.
First(id) == id \in todo /\ \A x \in todo : index[id] <= index[x]

\* Sink.Publish of the next entry is acknowledged.
Publish ==
  /\ step = "publish"
  /\ \E id \in todo :
       /\ First(id)
       /\ sent' = sent \cup {id}
       /\ current' = id
  /\ step' = "mark"
  /\ UNCHANGED <<file, memoryVars, todo, acked, faultVars>>

\* Mutant: the pass is cleared but not ended.
Stop_Hangs == todo' = {} /\ current' = None /\ step' = step

\* drain ends its pass.
Stop == todo' = {} /\ current' = None /\ step' = "scan"

\* drain goes on with the rest of its list.
Advance(id) ==
  /\ todo' = todo \ {id}
  /\ current' = None
  /\ step' = IF todo = {id} THEN "scan" ELSE "publish"

\* Mutant: drain skips an entry the sink refused.
PublishFails_Skips ==
  /\ step = "publish"
  /\ \E id \in todo : First(id) /\ Advance(id) /\ sent' \in {sent, sent \cup {id}}
  /\ UNCHANGED <<file, memoryVars, acked, faultVars>>

\* Sink.Publish fails, before or after the broker took the record; drain leaves
\* the rest for the next tick.
PublishFails ==
  /\ step = "publish"
  /\ \E id \in todo : First(id) /\ sent' \in {sent, sent \cup {id}}
  /\ Stop
  /\ UNCHANGED <<file, memoryVars, acked, faultVars>>

\* MarkPublished of the entry just sent.
MarkPublished ==
  /\ step = "mark"
  /\ \/ /\ file' = writeLine(Marker(current), "ok")
        /\ published' = published \cup {current}
        /\ Advance(current)
        /\ UNCHANGED faultVars
     \/ /\ FailedWrite(Marker(current))
        /\ Stop
        /\ UNCHANGED published
  /\ UNCHANGED <<index, size, sent, acked>>
----------------------------------------------------------------------------
\* Open on the file f.
Open(f) ==
  /\ file' = f
  /\ \E ix \in [Ids -> 0 .. Len(f)] : Replayed(ix, f) /\ index' = ix
  /\ size' = Len(f)
  /\ published' = MarkedOnDisk(f)
  /\ Stop

\* What a writer may be writing when the process dies.
Writing == {Entry(id) : id \in Ids \ Index} \cup {Marker(id) : id \in {current} \ {None}}

\* The process dies, possibly within a write, and is started again.
Crash ==
  /\ faults < MaxFaults
  /\ faults' = faults + 1
  /\ \/ Open(file) /\ cuts' = cuts
     \/ \E rec \in Writing, outcome \in CrashCuts :
          /\ Open(writeLine(rec, outcome))
          /\ cuts' = cuts + Cut(outcome)
  /\ UNCHANGED <<sent, acked>>

Next ==
  \/ \E id \in Ids : AppendEntry(id)
  \/ Scan \/ Publish \/ PublishFails \/ MarkPublished
  \/ Crash

Spec == Init /\ [][Next]_vars

\* The outbox goroutine is scheduled, its ticker fires, and the sink does not
\* refuse for ever.
FairSpec == Spec /\ WF_vars(Scan) /\ WF_vars(MarkPublished) /\ SF_vars(Publish)
----------------------------------------------------------------------------
\* An entry marked published, in memory or on disk, has reached the sink:
\* whatever write fails and wherever a crash lands.
PublishedWasSent == published \cup MarkedOnDisk(file) \subseteq sent

\* The entry of an acknowledged Append is a whole line of the file for good: a
\* crash damages only the line being written.  So say journal.go:68-70 and
\* 106-109 and docs/design/records.md:23.  The code does not keep it: Append
\* writes on behind an unfinished line, and acknowledges a line that will not
\* parse (journal.go:222-235); the run JournalGluedLine shows it.
AckedSurvives == acked \subseteq OnDisk(file) /\ acked \subseteq Index

\* What the code does keep: a write cut short costs at most the record it
\* continued and the record written after it, acknowledged or not.
LossIsBounded == Cardinality(acked \ (OnDisk(file) \cap Index)) <= 2 * cuts

\* drain never skips ahead: an entry is first sent when every entry before it
\* in the journal has been sent, whatever was refused, lost or repeated before.
SentInOrder ==
  [][\A id \in sent' \ sent : \A x \in Index : index[x] < index[id] => x \in sent]_vars

\* Every journaled entry is eventually sent, unless a later write destroys it.
EventuallySent == \A id \in Ids : id \in Index ~> (id \in sent \/ id \notin Index)
=============================================================================
