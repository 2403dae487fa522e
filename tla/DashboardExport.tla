-------------------------- MODULE DashboardExport --------------------------
(***************************************************************************)
(* The dashboard connector: a durable journal of the configured objects    *)
(* and of WAF detections (dashboard_connector_store.go), the plane that    *)
(* feeds detections to it (dashboard_connector_export.go), and the pages   *)
(* readers follow it by (dashboard_connector_http.go).                     *)
(*                                                                         *)
(* One state kind stands for ASSET, POLICY and HEALTH, which share the     *)
(* code; the time a record carries is part of its content.  A step is one  *)
(* critical section of the store; a request is several.  Days may pass     *)
(* between two steps, so a cursor, a snapshot and the first rows of a      *)
(* journal may have expired at any of them; detections, kept thirty times  *)
(* longer than a cursor, do not expire here.  Tokens, quotas and payloads  *)
(* are left out.  Crashes are of the process: the file keeps its last      *)
(* rename.                                                                 *)
(***************************************************************************)
EXTENDS Naturals, FiniteSetsExt, SequencesExt

CONSTANTS Items, Contents, Absent,   \* configured objects
          Readers, Noted,            \* reader principals, matches
          PageSize, SnapshotMax, DetectionMaxRows, ExportQueue,
          MaxSeq, MaxFails           \* bounds

ASSUME DashboardAssumption ==
  /\ Absent \notin Contents \cup [content : Contents, seq : Nat] /\ IsFiniteSet(Items)
  /\ {PageSize, SnapshotMax, DetectionMaxRows, ExportQueue} \subseteq Nat \ {0}

VARIABLES
  process,    \* up, draining, down
  memory, stored, latch,           \* the store, its file, writeFailed
  configured,    \* what rt.cfg and the mtime of its file make of each item
  fails,
  reading, seen, cursor, held,     \* of each reader: step, runtime read, cursor, what it knows
  log,                             \* every row given a sequence number, in order
  noted, backlog, hand, drops      \* matches; queue; one to be marked; dropped, unreported

storeVars == <<memory, stored, latch, fails>>
readerVars == <<reading, seen, cursor, held>>
planeVars == <<noted, backlog, hand, drops>>
dashboardVars == <<process, storeVars, configured, readerVars, log, planeVars>>

NoItems == [i \in Items |-> Absent]
Start == [mode |-> "none"]
EmptyStore == [seq |-> 0, current |-> NoItems, journal |-> <<>>, snapshots |-> {},
               detections |-> {}, gap |-> FALSE, clean |-> FALSE]

DashboardInit ==
  /\ process = "up" /\ memory = EmptyStore /\ stored = EmptyStore /\ latch = FALSE
  /\ configured \in [Items -> Contents \cup {Absent}] /\ fails = 0 /\ log = <<>>
  /\ reading = [r \in Readers |-> "idle"] /\ seen = [r \in Readers |-> NoItems]
  /\ cursor = [r \in Readers |-> Start] /\ held = [r \in Readers |-> NoItems]
  /\ noted = {} /\ backlog = <<>> /\ hand = FALSE /\ drops = 0

-----------------------------------------------------------------------------
(* The store.                                                              *)

(* The rows that turn what the store exports into what is configured.      *)
Rows(m, want) ==
  LET differ == {i \in Items : IF m.current[i] = Absent THEN want[i] # Absent
                               ELSE want[i] # m.current[i].content}
      order == SetToSeq({i \in differ : want[i] # Absent})
                 \o SetToSeq({i \in differ : want[i] = Absent})
  IN [j \in DOMAIN order |-> [seq |-> m.seq + j, item |-> order[j], content |-> want[order[j]]]]

Exported(row) == IF row.content = Absent THEN Absent ELSE [content |-> row.content, seq |-> row.seq]

(* The last row about an item says what it is.                             *)
About(rows, i) == {j \in DOMAIN rows : rows[j].item = i}
Latest(rows, i) == rows[Max(About(rows, i))]

Exports(current, rows) ==
  [i \in Items |-> IF About(rows, i) = {} THEN current[i] ELSE Exported(Latest(rows, i))]

Sync(m, rows) ==
  [seq |-> m.seq + Len(rows), current |-> Exports(m.current, rows), journal |-> m.journal \o rows,
   snapshots |-> m.snapshots, detections |-> m.detections, gap |-> m.gap, clean |-> m.clean]

(* Expired snapshots, and the old rows the journal begins with, go.        *)
CutAt(m, kept, n) ==
  [seq |-> m.seq, current |-> m.current, journal |-> SubSeq(m.journal, n + 1, Len(m.journal)),
   snapshots |-> kept, detections |-> m.detections, gap |-> m.gap, clean |-> m.clean]

Cleanups(m) == {CutAt(m, kept, n) : kept \in SUBSET m.snapshots, n \in 0..Len(m.journal)}

(* Mutated form: readers are not refused.                                  *)
NoLatch(m) == /\ memory' = m /\ latch' = FALSE
              /\ \/ stored' = m /\ UNCHANGED fails
                 \/ fails < MaxFails /\ fails' = fails + 1 /\ UNCHANGED stored

(* A failed write leaves the file, and refuses readers until one succeeds. *)
Persist(m) ==
  /\ memory' = m
  /\ \/ stored' = m /\ latch' = FALSE /\ UNCHANGED fails
     \/ fails < MaxFails /\ fails' = fails + 1 /\ latch' = TRUE /\ UNCHANGED stored

PersistIfChanged(m) == IF m # memory \/ latch THEN Persist(m) ELSE UNCHANGED storeVars

-----------------------------------------------------------------------------
Configures == /\ process = "up"
              /\ configured' \in [Items -> Contents \cup {Absent}] \ {configured}
              /\ UNCHANGED <<process, storeVars, readerVars, log, planeVars>>

-----------------------------------------------------------------------------
(* A page request: syncNativeState reads the runtime and brings the store  *)
(* up to it; page answers.  An error, or an answer that does not arrive,   *)
(* leaves the reader where it was.                                         *)
Ends(r) == reading' = [reading EXCEPT ![r] = "idle"]
ReaderKeeps == UNCHANGED <<process, configured, planeVars>>

ReadRuntime(r) ==
  /\ process = "up" /\ reading[r] = "idle"
  /\ reading' = [reading EXCEPT ![r] = "sync"] /\ seen' = [seen EXCEPT ![r] = configured]
  /\ UNCHANGED <<storeVars, cursor, held, log>> /\ ReaderKeeps

SyncNativeState(r) ==
  LET rows == Rows(memory, seen[r]) IN
  /\ reading[r] = "sync" /\ memory.seq + Len(rows) <= MaxSeq
  /\ \E m \in Cleanups(Sync(memory, rows)) : PersistIfChanged(m)
  /\ log' = log \o rows
  /\ reading' = [reading EXCEPT ![r] = IF latch' THEN "idle" ELSE "page"]
  /\ seen' = [seen EXCEPT ![r] = NoItems]
  /\ UNCHANGED <<cursor, held>> /\ ReaderKeeps

(* What a reader that applies rows in order knows after them.              *)
Applied(known, rows) ==
  [i \in Items |-> IF About(rows, i) = {} THEN known[i] ELSE Latest(rows, i).content]

Incremental(mark) == [mode |-> "incremental", mark |-> mark]

Arrives(r, next, known) ==
  \/ cursor' = [cursor EXCEPT ![r] = next] /\ held' = [held EXCEPT ![r] = known]
  \/ UNCHANGED <<cursor, held>>

(* RESET_REQUIRED: the reader begins again with a snapshot.                *)
Resets(r) == cursor' = [cursor EXCEPT ![r] = Start] /\ UNCHANGED held

SnapshotPage(r, s, offset, known) ==
  LET end == Min({offset + PageSize, Len(s.rows)})
      next == IF end < Len(s.rows)
                THEN [mode |-> "snapshot", of |-> s, offset |-> end]
                ELSE Incremental(s.mark)
  IN Arrives(r, next, Applied(known, SubSeq(s.rows, offset + 1, end)))

Refused == latch /\ UNCHANGED <<storeVars, cursor, held>>

(* As many rows are up to the j-th as j says.                              *)
RowRank(rows, row) == Cardinality({x \in rows : x.seq <= row.seq})
InOrder(rows) == [j \in 1..Cardinality(rows) |-> CHOOSE row \in rows : RowRank(rows, row) = j]

LiveRows(m) == {[seq |-> m.current[i].seq, item |-> i, content |-> m.current[i].content] :
              i \in {j \in Items : m.current[j] # Absent}}

NewSnapshot(r, m) ==
  LET s == [mark |-> m.seq, rows |-> InOrder(LiveRows(m))]
  IN /\ cursor[r] = Start /\ ~latch
     /\ IF Cardinality(m.snapshots) >= SnapshotMax
          THEN memory' = m /\ UNCHANGED <<stored, latch, fails, cursor, held>>
          ELSE /\ Persist([m EXCEPT !.snapshots = @ \cup {s}])
               /\ IF latch' THEN UNCHANGED <<cursor, held>> ELSE SnapshotPage(r, s, 0, NoItems)

Expired(r) == cursor[r] # Start /\ Resets(r) /\ UNCHANGED storeVars

NextSnapshotPage(r) ==
  /\ cursor[r].mode = "snapshot" /\ ~latch
  /\ LET s == cursor[r].of IN
       \/ s \in memory.snapshots /\ SnapshotPage(r, s, cursor[r].offset, held[r])
          /\ UNCHANGED storeVars
       \/ Resets(r) /\ PersistIfChanged([memory EXCEPT !.snapshots = @ \ {s}])

(* Whether rows after mark are gone from the journal.                      *)
TooOld(journal, mark) == journal # <<>> /\ mark + 1 < journal[1].seq

(* Sequence numbers ascend.                                                *)
RowsAfter(journal, mark) ==
  LET later == {j \in DOMAIN journal : journal[j].seq > mark}
  IN  IF later = {} THEN <<>> ELSE SubSeq(journal, Min(later), Len(journal))

JournalPage(r, m) ==
  LET mark == cursor[r].mark
      rows == RowsAfter(m.journal, mark)
      page == SubSeq(rows, 1, Min({PageSize, Len(rows)}))
  IN /\ cursor[r].mode = "incremental" /\ ~latch
     /\ PersistIfChanged(m)
     /\ IF latch' \/ page = <<>> THEN UNCHANGED <<cursor, held>>
        ELSE IF TooOld(m.journal, mark) THEN Resets(r)
        ELSE Arrives(r, Incremental(Last(page).seq), Applied(held[r], page))

Page(r) ==
  /\ reading[r] = "page" /\ Ends(r)
  /\ \/ Expired(r) \/ Refused \/ NextSnapshotPage(r)
     \/ \E m \in Cleanups(memory) : NewSnapshot(r, m) \/ JournalPage(r, m)
  /\ UNCHANGED <<seen, log>> /\ ReaderKeeps

-----------------------------------------------------------------------------
(* Detections.                                                             *)
PlaneKeeps == UNCHANGED <<configured, readerVars, log>>

NoteWAFMatch(x) ==
  /\ process = "up" /\ x \notin noted /\ noted' = noted \cup {x}
  /\ IF Len(backlog) < ExportQueue THEN backlog' = Append(backlog, x) /\ UNCHANGED drops
     ELSE drops' = drops + 1 /\ UNCHANGED backlog
  /\ UNCHANGED <<process, hand, storeVars>> /\ PlaneKeeps

(* The worker, while the plane runs and while it drains.                   *)
AppendDetection ==
  /\ process # "down" /\ backlog # <<>> /\ ~hand /\ backlog' = Tail(backlog)
  /\ \E m \in Cleanups(memory) :
       IF Cardinality(m.detections) >= DetectionMaxRows
         THEN memory' = m /\ hand' = TRUE /\ UNCHANGED <<stored, latch, fails>>
         ELSE Persist([m EXCEPT !.detections = @ \cup {Head(backlog)}]) /\ hand' = latch'
  /\ UNCHANGED <<process, noted, drops>> /\ PlaneKeeps

MarkDetectionDrop == Persist([memory EXCEPT !.gap = TRUE])

MarksFailure == /\ process # "down" /\ hand /\ hand' = FALSE /\ MarkDetectionDrop
                /\ UNCHANGED <<process, noted, backlog, drops>> /\ PlaneKeeps

FlushDrops == /\ process = "up" \/ (process = "draining" /\ backlog = <<>>)
              /\ ~hand /\ drops > 0 /\ drops' = 0 /\ MarkDetectionDrop
              /\ UNCHANGED <<process, noted, backlog, hand>> /\ PlaneKeeps

-----------------------------------------------------------------------------
(* Shutdown, crash and boot.  The reader and the listeners are down when   *)
(* the plane stops accepting, within the limit of main's shutdown.         *)
StopExport == /\ process = "up" /\ \A r \in Readers : reading[r] = "idle"
              /\ process' = "draining"
              /\ UNCHANGED <<storeVars, planeVars>> /\ PlaneKeeps

(* Mutated form: the state is closed while the worker drains.              *)
AtOnce == TRUE

Drained == backlog = <<>> /\ ~hand /\ drops = 0

CloseClean == /\ process = "draining" /\ Drained /\ process' = "down"
              /\ Persist([memory EXCEPT !.clean = TRUE])
              /\ UNCHANGED planeVars /\ PlaneKeeps

Dies == /\ process # "down" /\ process' = "down"
        /\ reading' = [r \in Readers |-> "idle"] /\ seen' = [r \in Readers |-> NoItems]
        /\ UNCHANGED <<storeVars, planeVars, configured, cursor, held, log>>

(* A file that was not closed cleanly may have lost detections.            *)
Reopened(m) ==
  [seq |-> m.seq, current |-> m.current, journal |-> m.journal, snapshots |-> m.snapshots,
   detections |-> m.detections, gap |-> m.gap \/ ~m.clean, clean |-> FALSE]

(* Rows the file does not have are forgotten, and so are their numbers.    *)
Boots ==
  /\ process = "down"
  /\ \E m \in Cleanups(Reopened(stored)) : Persist(m)
  /\ process' = IF latch' THEN "down" ELSE "up"
  /\ log' = SubSeq(log, 1, stored.seq)
  /\ configured' \in [Items -> Contents \cup {Absent}]
  /\ backlog' = <<>> /\ hand' = FALSE /\ drops' = 0 /\ UNCHANGED <<noted, reading, seen, cursor, held>>

DashboardNext ==
  \/ Configures
  \/ \E r \in Readers : ReadRuntime(r) \/ SyncNativeState(r) \/ Page(r)
  \/ \E x \in Noted : NoteWAFMatch(x)
  \/ AppendDetection \/ MarksFailure \/ FlushDrops
  \/ StopExport \/ CloseClean \/ Dies \/ Boots

DashboardSpec == DashboardInit /\ [][DashboardNext]_dashboardVars

-----------------------------------------------------------------------------
(* A reader that follows the pages holds, at its watermark, exactly what   *)
(* the rows up to it make: no page skips or repeats a row that matters,    *)
(* although the journal is cut, answers are lost, writes fail and a crash  *)
(* gives sequence numbers out again ("durable-state write failure latches  *)
(* fail-closed", DASHBOARD_CONNECTOR_R3.md).                               *)
MirrorIsExact ==
  \A r \in Readers : cursor[r].mode = "incremental" =>
    cursor[r].mark <= Len(log) /\ held[r] = Applied(NoItems, SubSeq(log, 1, cursor[r].mark))

(* A detection that is neither queued nor in the journal, whether the      *)
(* queue was full, the write failed or the process died with it, is known  *)
(* by the coverage GAP once the plane has reported its drops; a clean      *)
(* shutdown hides none ("Queue/persistence/capacity loss marks coverage    *)
(* GAP").                                                                  *)
LossIsMarked ==
  process = "up" /\ ~hand /\ drops = 0 =>
    memory.gap \/ noted \subseteq memory.detections \cup Range(backlog)

(* The inductive invariant: what is neither stored nor queued is in the    *)
(* worker's hand, counted as a drop or marked; a file is clean only while  *)
(* the process is down, and then it has, or marks, everything; and only    *)
(* a process that is up has readers at work.                               *)
IsStore(m) ==
  /\ m = [seq |-> m.seq, current |-> m.current, journal |-> m.journal, snapshots |-> m.snapshots,
          detections |-> m.detections, gap |-> m.gap, clean |-> m.clean]
  /\ m.gap \in BOOLEAN /\ m.clean \in BOOLEAN

DashboardTypeOK ==
  /\ process \in {"up", "draining", "down"} /\ IsStore(memory) /\ IsStore(stored) /\ latch \in BOOLEAN
  /\ reading \in [Readers -> {"idle", "sync", "page"}]
  /\ noted \subseteq Noted /\ backlog \in Seq(Noted) /\ hand \in BOOLEAN /\ drops \in Nat

ReadersInv == process # "up" => \A r \in Readers : reading[r] = "idle"

Accounted == memory.gap \/ hand \/ drops > 0 \/ noted \subseteq memory.detections \cup Range(backlog)

LossInv ==
  /\ process # "down" => ~memory.clean /\ ~stored.clean /\ Accounted
  /\ stored.clean => stored.gap \/ noted \subseteq stored.detections

DashboardIInv == DashboardTypeOK /\ ReadersInv /\ LossInv

(* The inductive invariant of the mirror.  A store, in memory or in the    *)
(* file, is what the log up to its sequence number makes, its journal an   *)
(* end of that, and its snapshots what earlier parts make; a reader has    *)
(* what the part behind its cursor makes, and has nothing of what the file *)
(* may yet lose.                                                           *)
Row == [seq : Nat, item : Items, content : Contents \cup {Absent}]
Upto(l, n) == SubSeq(l, 1, n)

SnapshotOf(s, l, n) ==
  /\ s.mark \in 0..n /\ s.rows \in Seq(Row)
  /\ Applied(NoItems, s.rows) = Applied(NoItems, Upto(l, s.mark))

StoreOf(m, l) ==
  /\ m.seq \in 0..Len(l) /\ m.current = Exports(NoItems, Upto(l, m.seq))
  /\ \E k \in 0..m.seq : m.journal = SubSeq(l, k + 1, m.seq)
  /\ \A s \in m.snapshots : SnapshotOf(s, l, m.seq)

CursorOf(c, known, l, n) ==
  \/ c = Start
  \/ /\ c.mode = "incremental" /\ c = Incremental(c.mark)
     /\ c.mark \in 0..n /\ known = Applied(NoItems, Upto(l, c.mark))
  \/ /\ c.mode = "snapshot" /\ c = [mode |-> "snapshot", of |-> c.of, offset |-> c.offset]
     /\ SnapshotOf(c.of, l, n) /\ c.offset \in 0..Len(c.of.rows)
     /\ known = Applied(NoItems, Upto(c.of.rows, c.offset))

LogOf(l, n) == l \in Seq(Row) /\ Len(l) = n /\ \A j \in 1..Len(l) : l[j].seq = j

MirrorInv ==
  /\ configured \in [Items -> Contents \cup {Absent}] /\ seen \in [Readers -> [Items -> Contents \cup {Absent}]]
  /\ LogOf(log, memory.seq) /\ StoreOf(memory, log) /\ StoreOf(stored, log)
  /\ ~latch => stored.seq = memory.seq
  /\ DOMAIN cursor = Readers /\ DOMAIN held = Readers
  /\ \A r \in Readers : CursorOf(cursor[r], held[r], log, stored.seq)
=============================================================================
