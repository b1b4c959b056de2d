-------------------------- MODULE WebStoresProofs --------------------------
(***************************************************************************)
(* Proofs about WebStores, for any number of conversations, scans, delete  *)
(* requests, save requests, base URLs and keys.                            *)
(***************************************************************************)
EXTENDS WebStores, FiniteSetTheorems, TLAPS

-----------------------------------------------------------------------------
(***************************************************************************)
(* The inductive invariant of the index                                    *)
(***************************************************************************)
Full == [data |-> "full", meta |-> "full"]

\* A running scan belongs to a terminal, is in no plot and no row yet, and has
\* its data before its metadata.
ScanInv ==
    scan # 0 => /\ terminal.session # None /\ terminal.next \in Sweeps
                /\ scan \notin stored
                /\ \A p \in pipe : p.scan # scan
                /\ file[scan].meta # "none" => file[scan].data = "full"

\* A plot on its way has both files and was never stored; two plots are of two
\* scans.
PipeInv ==
    /\ \A p \in pipe : p.scan \notin stored /\ file[p.scan] = Full
    /\ \A p, q \in pipe : p.scan = q.scan => p = q

\* What is indexed or being deleted was stored; ids are handed out in order; the
\* data file of a stored scan is whole or gone.
RowInv ==
    /\ \A r \in rows : r.scan \in stored /\ r.id <= Cardinality(stored)
    /\ erased \subseteq stored
    /\ \A n \in stored : file[n].data \in {"none", "full"}

\* A deletion has announced its scan, has removed the files it is past, and
\* while its snapshot is current its row is in the table.
DelInv ==
    \A d \in Deleters : del[d] # Idle =>
        /\ del[d].row.scan \in erased
        /\ ~del[d].stale => del[d].row \in rows
        /\ del[d].phase \in {"meta", "row"} => file[del[d].row.scan].data = "none"
        /\ del[d].phase = "row" => file[del[d].row.scan].meta = "none"

\* The types of the index and of the provider configuration.
CaptureTypes ==
    /\ kept \subseteq Conversations
    /\ terminal \in [session : Conversations \cup {None}, next : 1..(MaxRequests + 1)]
    /\ scan \in Scans \cup {0}
    /\ file \in [Scans -> Files]
    /\ pipe \subseteq Plots
    /\ rows \subseteq Rows
    /\ \A r, t \in rows : r # t => r.id # t.id /\ <<r.session, r.sweep>> # <<t.session, t.sweep>>
    /\ del \in [Deleters -> Deletion]
    /\ stored \subseteq Scans
    /\ erased \subseteq Scans

ProviderTypes ==
    /\ handle \in BOOLEAN
    /\ provider \in Configs \cup {None}
    /\ save \in [Savers -> Configs \cup {None}]
    /\ query \in Configs \cup {None}
    /\ entered \subseteq Configs

CaptureInv == CaptureTypes /\ ScanInv /\ PipeInv /\ RowInv /\ DelInv /\ IndexedFilesKept

ProviderInv == ProviderTypes /\ KeyStaysHome

IInv == CaptureInv /\ ProviderInv

-----------------------------------------------------------------------------
(***************************************************************************)
(* Scans                                                                   *)
(***************************************************************************)
\* A stored scan is no scan number 0, and a size is a size.
LEMMA ScanNumbers == Scans \subseteq Nat \ {0} /\ 0 \notin Scans
  BY WebStoresAssumption DEF Scans

\* Two files that are there, or gone, are Full or NoFiles.
LEMMA FilePair ==
    ASSUME NEW f \in Files
    PROVE  /\ f.data = "full" /\ f.meta = "full" => f = Full
           /\ f.data = "none" /\ f.meta = "none" => f = NoFiles
  BY DEF Files, Full, NoFiles

\* A step that touches only the files of a scan that is not stored keeps what is
\* known of the rows and of the deletions.
LEMMA StoredFilesKept ==
    ASSUME CaptureInv, UNCHANGED <<rows, del, stored, erased>>,
           \A n \in stored : file'[n] = file[n]
    PROVE  RowInv' /\ DelInv' /\ IndexedFilesKept'
  <1>1. RowInv'
    BY DEF CaptureInv, RowInv
  <1>2. DelInv'
    BY DEF CaptureInv, DelInv, RowInv
  <1>3. IndexedFilesKept'
    BY DEF CaptureInv, IndexedFilesKept, RowInv
  <1>4. QED
    BY <1>1, <1>2, <1>3

\* Terminals that start and end, and conversations that are evicted, leave the
\* index and its files alone.
LEMMA TerminalStep ==
    ASSUME CaptureInv,
           EndTerminal \/ \E c \in Conversations : StartTerminal(c) \/ Evict(c)
    PROVE  CaptureInv'
  <1>1. UNCHANGED <<file, pipe, rows, del, stored, erased>> /\ scan' \in {0, scan}
    BY DEF EndTerminal, StartTerminal, Evict
  <1>2. CaptureTypes'
    <2>1. 1 \in 1..(MaxRequests + 1)
      BY WebStoresAssumption
    <2>2. /\ kept' \subseteq Conversations
          /\ terminal' \in [session : Conversations \cup {None}, next : 1..(MaxRequests + 1)]
      BY <2>1 DEF EndTerminal, StartTerminal, Evict, CaptureInv, CaptureTypes
    <2>3. QED
      BY <1>1, <2>2 DEF CaptureInv, CaptureTypes
  <1>3. ScanInv'
    BY <1>1 DEF EndTerminal, StartTerminal, Evict, Running, CaptureInv, ScanInv, CaptureTypes
  <1>4. PipeInv'
    BY <1>1 DEF CaptureInv, PipeInv
  <1>5. QED
    BY <1>1, <1>2, <1>3, <1>4, StoredFilesKept DEF CaptureInv

\* The terminal's next request.
LEMMA NextRequest ==
    ASSUME CaptureInv, scan # 0, terminal' = [terminal EXCEPT !.next = @ + 1]
    PROVE  terminal' \in [session : Conversations \cup {None}, next : 1..(MaxRequests + 1)]
  BY WebStoresAssumption DEF CaptureInv, CaptureTypes, ScanInv, Sweeps

\* Running, failing and completing a scan touches the files of that scan only,
\* and the plot it prints is of a scan that was never stored.
LEMMA ScanStep ==
    ASSUME CaptureInv,
           \/ \E n \in Scans : StartScan(n)
           \/ ScanFails \/ WriteMeta \/ \E plotted \in BOOLEAN : FinishScan(plotted)
    PROVE  CaptureInv'
  <1> USE ScanNumbers
  <1>1. UNCHANGED <<kept, rows, del, stored, erased>>
    BY DEF StartScan, ScanFails, WriteMeta, FinishScan
  <1>2. ASSUME NEW n \in Scans, StartScan(n) PROVE CaptureInv'
    <2>1. n \notin stored /\ file[n] = NoFiles /\ n \in n..MaxScans
      BY <1>2, WebStoresAssumption DEF StartScan, Fresh, Unused, Scans
    <2>2. \A p \in pipe : p.scan # n
      BY <2>1 DEF CaptureInv, PipeInv, Full, NoFiles
    <2>3. /\ file' \in [Scans -> Files] /\ UNCHANGED <<terminal, pipe>> /\ scan' = n
          /\ terminal.session # None /\ terminal.next \in Sweeps
      BY <1>2 DEF StartScan, Running, CaptureInv, CaptureTypes, Files, Sizes
    <2>4. \A m \in Scans \ {n} : file'[m] = file[m]
      BY <1>2 DEF StartScan, CaptureInv, CaptureTypes
    <2>5. CaptureTypes' /\ ScanInv'
      <3>1. file'[n].meta = "none"
        BY <1>2, <2>1 DEF StartScan, NoFiles, CaptureInv, CaptureTypes, Files
      <3>2. QED
        BY <1>1, <2>1, <2>2, <2>3, <3>1 DEF CaptureInv, CaptureTypes, ScanInv
    <2>6. PipeInv'
      BY <1>1, <2>2, <2>3, <2>4 DEF CaptureInv, PipeInv, CaptureTypes, Plots
    <2>7. QED
      BY <1>1, <2>1, <2>4, <2>5, <2>6, StoredFilesKept DEF CaptureInv, CaptureTypes
  <1>3. ASSUME ScanFails \/ WriteMeta \/ \E plotted \in BOOLEAN : FinishScan(plotted)
        PROVE  CaptureInv'
    <2>1. /\ scan \in Scans /\ scan \notin stored
          /\ \A p \in pipe : p.scan # scan
          /\ terminal.session \in Conversations /\ terminal.next \in Sweeps
      BY <1>3 DEF ScanFails, WriteMeta, FinishScan, CaptureInv, CaptureTypes, ScanInv
    <2>2. \A m \in Scans \ {scan} : file'[m] = file[m]
      BY <1>3 DEF ScanFails, WriteMeta, FinishScan, CaptureInv, CaptureTypes
    <2>3. file' \in [Scans -> Files]
      <3>1. CASE ScanFails
        BY <3>1 DEF ScanFails, NoFiles, Files, Sizes, CaptureInv, CaptureTypes
      <3>2. CASE WriteMeta
        BY <3>2 DEF WriteMeta, Files, Sizes, CaptureInv, CaptureTypes
      <3>3. ASSUME NEW plotted \in BOOLEAN, FinishScan(plotted) PROVE file' \in [Scans -> Files]
        BY <3>3 DEF FinishScan, Files, Sizes, CaptureInv, CaptureTypes
      <3>4. QED
        BY <1>3, <3>1, <3>2, <3>3
    <2>4. CASE ScanFails \/ WriteMeta
      <3>1. pipe' = pipe /\ (scan' = 0 \/ (scan' = scan /\ terminal' = terminal))
        BY <2>4 DEF ScanFails, WriteMeta
      <3>2. terminal' \in [session : Conversations \cup {None}, next : 1..(MaxRequests + 1)]
        BY <2>4, NextRequest DEF ScanFails, WriteMeta, CaptureInv, CaptureTypes
      <3>3. CaptureTypes' /\ ScanInv'
        <4>1. CaptureTypes'
          BY <1>1, <2>1, <2>3, <3>1, <3>2 DEF CaptureInv, CaptureTypes
        <4>2. scan' # 0 => file'[scan].data = "full"
          BY <2>1, <2>4 DEF ScanFails, WriteMeta, CaptureInv, CaptureTypes
        <4>3. QED
          BY <1>1, <3>1, <4>1, <4>2 DEF CaptureInv, ScanInv
      <3>4. PipeInv'
        BY <1>1, <2>1, <2>2, <3>1 DEF CaptureInv, PipeInv, CaptureTypes, Plots
      <3>5. QED
        BY <1>1, <2>1, <2>2, <3>3, <3>4, StoredFilesKept DEF CaptureInv, CaptureTypes
    <2>5. ASSUME NEW plotted \in BOOLEAN, FinishScan(plotted) PROVE CaptureInv'
      <3> DEFINE plot == [session |-> terminal.session, sweep |-> terminal.next, scan |-> scan]
      <3>1. scan' = 0 /\ pipe' \in {pipe, pipe \cup {plot}}
        BY <2>5 DEF FinishScan
      <3>2. terminal' \in [session : Conversations \cup {None}, next : 1..(MaxRequests + 1)]
        BY <2>5, NextRequest DEF FinishScan
      <3>3. plot \in Plots
        BY <2>1 DEF Plots
      <3>4. file'[scan] = Full
        <4>1. file'[scan].meta = "full" /\ file'[scan].data = file[scan].data
          BY <2>1, <2>5 DEF FinishScan, CaptureInv, CaptureTypes, Files
        <4>2. file[scan].data = "full"
          BY <2>5 DEF FinishScan, CaptureInv, ScanInv
        <4>3. QED
          BY <2>1, <2>3, <4>1, <4>2, FilePair
      <3>5. CaptureTypes'
        BY <1>1, <2>3, <3>1, <3>2, <3>3 DEF CaptureInv, CaptureTypes
      <3>6. ScanInv'
        BY <3>1 DEF ScanInv
      <3>7. PipeInv'
        <4>1. \A p \in pipe : p.scan \notin stored' /\ file'[p.scan] = Full
          BY <1>1, <2>1, <2>2 DEF CaptureInv, PipeInv, CaptureTypes, Plots
        <4>2. CASE pipe' = pipe
          BY <4>1, <4>2 DEF CaptureInv, PipeInv
        <4>3. CASE pipe' = pipe \cup {plot}
          BY <1>1, <2>1, <3>4, <4>1, <4>3 DEF CaptureInv, PipeInv
        <4>4. QED
          BY <3>1, <4>2, <4>3
      <3>8. QED
        BY <1>1, <2>1, <2>2, <3>5, <3>6, <3>7, StoredFilesKept DEF CaptureInv, CaptureTypes
    <2>6. QED
      BY <1>3, <2>4, <2>5
  <1>4. QED
    BY <1>2, <1>3
-----------------------------------------------------------------------------
(***************************************************************************)
(* The index                                                               *)
(***************************************************************************)
\* The ids handed out so far, and the next one, are scan numbers.
LEMMA NextId ==
    ASSUME CaptureInv, NEW p \in pipe
    PROVE  /\ Cardinality(stored) \in Nat
           /\ Cardinality(stored \cup {p.scan}) = Cardinality(stored) + 1
           /\ Cardinality(stored) + 1 \in Scans
  <1>1. IsFiniteSet(Scans) /\ Cardinality(Scans) = MaxScans
    <2>1. MaxScans > 0
      BY WebStoresAssumption DEF CaptureInv, CaptureTypes, Plots, Scans
    <2>2. QED
      BY <2>1, FS_Interval, WebStoresAssumption DEF Scans
  <1>2. IsFiniteSet(stored) /\ p.scan \in Scans \ stored
    BY <1>1, FS_Subset DEF CaptureInv, CaptureTypes, PipeInv, Plots
  <1>3. Cardinality(stored) \in Nat
    BY <1>2, FS_CardinalityType
  <1>4. Cardinality(stored \cup {p.scan}) = Cardinality(stored) + 1
    BY <1>2, FS_AddElement
  <1>5. stored \cup {p.scan} \in SUBSET Scans
    BY <1>2 DEF CaptureInv, CaptureTypes
  <1>6. Cardinality(stored \cup {p.scan}) <= MaxScans
    BY <1>1, <1>5, FS_Subset
  <1>7. QED
    BY <1>3, <1>4, <1>6, WebStoresAssumption DEF Scans

\* The row that a plot is given keeps ids and (session, sweep) pairs unique:
\* either the pair is new and so is the id, or both are those of one row.
LEMMA RowIdUnique ==
    ASSUME CaptureInv, NEW p \in pipe
    PROVE  /\ RowId(p) \in Scans
           /\ RowId(p) <= Cardinality(stored) + 1
           /\ \A r \in rows : r.id = RowId(p) <=> r.session = p.session /\ r.sweep = p.sweep
  <1> DEFINE same == {r \in rows : r.session = p.session /\ r.sweep = p.sweep}
  <1>1. /\ Cardinality(stored) \in Nat /\ Cardinality(stored) + 1 \in Scans
        /\ \A r \in rows : /\ r.id \in Scans /\ r.id \in Nat
                           /\ r.id <= Cardinality(stored)
    <2>1. \A r \in rows : r.id \in Scans
      BY DEF CaptureInv, CaptureTypes, Rows
    <2>2. QED
      BY <2>1, NextId, ScanNumbers DEF CaptureInv, RowInv
  <1>2. CASE same = {}
    <2>1. RowId(p) = Cardinality(stored) + 1
      BY <1>2 DEF RowId
    <2>2. \A r \in rows : r.id # Cardinality(stored) + 1
      BY <1>1
    <2>3. \A r \in rows : ~(r.session = p.session /\ r.sweep = p.sweep)
      BY <1>2
    <2>4. QED
      BY <1>1, <2>1, <2>2, <2>3
  <1>3. CASE same # {}
    <2>1. PICK t \in same : RowId(p) = t.id
      BY <1>3 DEF RowId
    <2>2. t \in rows /\ t.session = p.session /\ t.sweep = p.sweep
      BY <2>1
    <2>3. \A r \in rows : r.id = t.id <=> r.session = p.session /\ r.sweep = p.sweep
      BY <2>2 DEF CaptureInv, CaptureTypes
    <2>4. t.id \in Scans /\ t.id <= Cardinality(stored) + 1
      BY <1>1, <2>2
    <2>5. QED
      BY <2>1, <2>3, <2>4
  <1>4. QED
    BY <1>2, <1>3

\* Deletions with an old snapshot: the same rows and phases, and none current.
LEMMA WrittenDeletions ==
    ASSUME NEW dels \in [Deleters -> Deletion]
    PROVE  /\ Written(dels) \in [Deleters -> Deletion]
           /\ \A d \in Deleters :
                /\ Written(dels)[d] = Idle <=> dels[d] = Idle
                /\ dels[d] # Idle => /\ Written(dels)[d].stale
                                     /\ Written(dels)[d].row = dels[d].row
                                     /\ Written(dels)[d].phase = dels[d].phase
  <1>1. \A x \in Deletion : x # Idle =>
            /\ [x EXCEPT !.stale = TRUE] \in Deletion
            /\ [x EXCEPT !.stale = TRUE].row = x.row
            /\ [x EXCEPT !.stale = TRUE].phase = x.phase
            /\ [x EXCEPT !.stale = TRUE].stale
            /\ [x EXCEPT !.stale = TRUE] # Idle
    BY DEF Deletion, Idle
  <1>2. Idle \in Deletion
    BY DEF Deletion
  <1>3. QED
    BY <1>1, <1>2 DEF Written
\* Storing or dropping a plot keeps the index consistent
\* (record_process_output, persist_capture_result).
LEMMA RecordStep ==
    ASSUME CaptureInv, NEW p \in pipe, RecordPlot(p)
    PROVE  CaptureInv'
  <1> DEFINE new == [id |-> RowId(p), session |-> p.session, sweep |-> p.sweep,
                     scan |-> p.scan]
  <1>1. UNCHANGED <<kept, terminal, scan, file, erased>> /\ pipe' = pipe \ {p}
    BY DEF RecordPlot
  <1>2. /\ p.scan \in Scans \ stored /\ file[p.scan] = Full /\ p.scan # scan
        /\ p \in Plots /\ \A q \in pipe \ {p} : q.scan # p.scan
    BY ScanNumbers DEF CaptureInv, CaptureTypes, PipeInv, ScanInv, Plots
  <1>3. CASE UNCHANGED <<rows, del, stored>>
    <2>1. CaptureTypes'
      BY <1>1, <1>3 DEF CaptureInv, CaptureTypes
    <2>2. ScanInv' /\ PipeInv'
      BY <1>1, <1>3 DEF CaptureInv, ScanInv, PipeInv
    <2>3. QED
      BY <1>1, <1>3, <2>1, <2>2, StoredFilesKept DEF CaptureInv
  <1>4. CASE persist_capture_result(p)
    <2>1. /\ rows' = {r \in rows : r.id # RowId(p)} \cup {new}
          /\ del' = Written(del) /\ stored' = stored \cup {p.scan}
      BY <1>4 DEF persist_capture_result
    <2>2. new \in Rows
      BY <1>2, RowIdUnique DEF Rows, Plots
    <2>3. \A r, t \in rows' : r # t => /\ r.id # t.id
                                       /\ <<r.session, r.sweep>> # <<t.session, t.sweep>>
      <3>1. \A r \in rows : r.id # RowId(p) =>
                 <<r.session, r.sweep>> # <<new.session, new.sweep>>
        BY RowIdUnique
      <3>2. QED
        BY <2>1, <3>1 DEF CaptureInv, CaptureTypes
    <2>4. del' \in [Deleters -> Deletion]
      BY <2>1, WrittenDeletions DEF CaptureInv, CaptureTypes
    <2>5. CaptureTypes'
      <3>1. rows' \subseteq Rows /\ stored' \subseteq Scans
        BY <1>2, <2>1, <2>2 DEF CaptureInv, CaptureTypes
      <3>2. QED
        BY <1>1, <2>3, <2>4, <3>1 DEF CaptureInv, CaptureTypes
    <2>6. ScanInv' /\ PipeInv'
      BY <1>1, <1>2, <2>1 DEF CaptureInv, ScanInv, PipeInv
    <2>7. RowInv'
      <3>1. Cardinality(stored)' = Cardinality(stored) + 1 /\ Cardinality(stored) \in Nat
        BY <2>1, NextId
      <3>2. \A r \in rows : r.id <= Cardinality(stored) + 1
        <4>1. \A r \in rows : r.id \in Nat
          BY ScanNumbers DEF CaptureInv, CaptureTypes, Rows
        <4>2. QED
          BY <3>1, <4>1 DEF CaptureInv, RowInv
      <3>3. new.id <= Cardinality(stored) + 1 /\ new.scan \in stored'
        BY <2>1, RowIdUnique
      <3>4. \A r \in rows' : r.scan \in stored' /\ r.id <= Cardinality(stored)'
        BY <2>1, <3>1, <3>2, <3>3 DEF CaptureInv, RowInv
      <3>5. erased' \subseteq stored' /\ \A n \in stored' : file'[n].data \in {"none", "full"}
        BY <1>1, <1>2, <2>1 DEF CaptureInv, RowInv, Full
      <3>6. QED
        BY <3>4, <3>5 DEF RowInv
    <2>8. DelInv'
      BY <1>1, <2>1, WrittenDeletions DEF CaptureInv, CaptureTypes, DelInv
    <2>9. IndexedFilesKept'
      <3>1. file'[new.scan] = Full
        BY <1>1, <1>2
      <3>2. QED
        BY <1>1, <2>1, <3>1 DEF CaptureInv, IndexedFilesKept, Full
    <2>10. QED
      BY <2>5, <2>6, <2>7, <2>8, <2>9 DEF CaptureInv
  <1>5. QED
    BY <1>3, <1>4 DEF RecordPlot

-----------------------------------------------------------------------------
(***************************************************************************)
(* Deletions                                                               *)
(***************************************************************************)
\* A deletion that is under way has a phase, a row and a snapshot.
LEMMA Deleting ==
    ASSUME CaptureInv, NEW d \in Deleters, del[d] # Idle
    PROVE  /\ del[d] \in [phase : {"data", "meta", "row"}, row : Rows, stale : BOOLEAN]
           /\ del[d].row \in Rows /\ del[d].row.scan \in Scans /\ del[d].row.scan \in stored
  <1>1. del[d] \in [phase : {"data", "meta", "row"}, row : Rows, stale : BOOLEAN]
    BY DEF CaptureInv, CaptureTypes, Deletion
  <1>2. del[d].row \in Rows
    BY <1>1
  <1>3. del[d].row.scan \in stored
    BY DEF CaptureInv, DelInv, RowInv
  <1>4. QED
    BY <1>1, <1>2, <1>3 DEF Rows

\* Removing a file keeps the other one, and the files of every other scan.
LEMMA RemovedFile ==
    ASSUME CaptureInv, NEW d \in Deleters, RemoveFile(d)
    PROVE  /\ file' \in [Scans -> Files]
           /\ \A n \in Scans \ {del[d].row.scan} : file'[n] = file[n]
           /\ \A n \in Scans : /\ file[n].data = "none" => file'[n].data = "none"
                               /\ file[n].meta = "none" => file'[n].meta = "none"
                               /\ file'[n].data \in {file[n].data, "none"}
           /\ del[d].phase = "data" => file'[del[d].row.scan].data = "none"
           /\ del[d].phase = "meta" => file'[del[d].row.scan].meta = "none"
  <1> DEFINE n == del[d].row.scan
  <1>1. del[d] # Idle
    BY DEF RemoveFile, Idle
  <1>2. n \in Scans /\ file \in [Scans -> Files]
    BY <1>1, Deleting DEF CaptureInv, CaptureTypes
  <1> HIDE DEF n
  <1>3. CASE del[d].phase = "data"
    <2>1. file' = [file EXCEPT ![n].data = "none"]
      BY <1>3 DEF RemoveFile, Dataset, n
    <2>2. QED
      BY <1>2, <1>3, <2>1 DEF Files, Sizes, n
  <1>4. CASE del[d].phase = "meta"
    <2>1. file' = [file EXCEPT ![n].meta = "none"]
      BY <1>4 DEF RemoveFile, Dataset, n
    <2>2. QED
      BY <1>2, <1>4, <2>1 DEF Files, Sizes, n
  <1>5. QED
    BY <1>3, <1>4 DEF RemoveFile

\* Every step of a deletion keeps the index consistent: what it removes was
\* announced, and its row stays in the table until its files are gone.
LEMMA DeleteStep ==
    ASSUME CaptureInv, NEW d \in Deleters,
           \/ \E r \in rows : SelectRow(d, r)
           \/ RemoveFile(d) \/ DeleteRow(d) \/ DeleteFails(d)
    PROVE  CaptureInv'
  <1> Idle \in Deletion
    BY DEF Deletion
  <1>1. UNCHANGED <<kept, terminal, scan, pipe, stored>>
    BY DEF SelectRow, RemoveFile, DeleteRow, DeleteFails
  <1>2. ASSUME NEW r \in rows, SelectRow(d, r) PROVE CaptureInv'
    <2> DEFINE x == [phase |-> "data", row |-> r, stale |-> FALSE]
    <2>1. UNCHANGED <<file, rows>> /\ erased' = erased \cup {r.scan}
          /\ del' = [del EXCEPT ![d] = x]
      BY <1>2 DEF SelectRow
    <2>2. r \in Rows /\ r.scan \in Scans /\ r.scan \in stored
      BY DEF CaptureInv, CaptureTypes, RowInv, Rows
    <2>3. x \in Deletion
      BY <2>2 DEF Deletion
    <2>4. CaptureTypes'
      BY <1>1, <2>1, <2>2, <2>3 DEF CaptureInv, CaptureTypes
    <2>5. ScanInv' /\ PipeInv' /\ RowInv' /\ IndexedFilesKept'
      BY <1>1, <2>1, <2>2 DEF CaptureInv, ScanInv, PipeInv, RowInv, IndexedFilesKept
    <2>6. DelInv'
      BY <2>1 DEF CaptureInv, CaptureTypes, DelInv
    <2>7. QED
      BY <2>4, <2>5, <2>6 DEF CaptureInv
  <1>3. CASE RemoveFile(d)
    <2> DEFINE n == del[d].row.scan
    <2>1. UNCHANGED <<rows, erased>>
      BY <1>3 DEF RemoveFile
    <2>2. del[d] # Idle
      BY <1>3 DEF RemoveFile, Idle
    <2>3. /\ del[d] \in [phase : {"data", "meta", "row"}, row : Rows, stale : BOOLEAN]
          /\ n \in stored /\ n \in erased
      BY <2>2, Deleting DEF CaptureInv, DelInv
    <2>4. /\ del'[d] \in [phase : {"data", "meta", "row"}, row : Rows, stale : BOOLEAN]
          /\ del'[d].row = del[d].row /\ del'[d].stale = del[d].stale
          /\ del'[d].phase = IF del[d].phase = "data" THEN "meta" ELSE "row"
          /\ \A e \in Deleters \ {d} : del'[e] = del[e]
          /\ del' \in [Deleters -> Deletion]
      BY <1>3, <2>3 DEF RemoveFile, CaptureInv, CaptureTypes, Deletion
    <2>5. CaptureTypes'
      BY <1>1, <1>3, <2>1, <2>4, RemovedFile DEF CaptureInv, CaptureTypes
    <2>6. ScanInv' /\ PipeInv'
      <3>1. scan # 0 => file'[scan] = file[scan]
        BY <1>3, <2>3, RemovedFile DEF CaptureInv, CaptureTypes, ScanInv
      <3>2. \A q \in pipe : file'[q.scan] = file[q.scan]
        BY <1>3, <2>3, RemovedFile DEF CaptureInv, CaptureTypes, PipeInv, Plots
      <3>3. QED
        BY <1>1, <3>1, <3>2 DEF CaptureInv, ScanInv, PipeInv
    <2>7. RowInv'
      BY <1>1, <1>3, <2>1, RemovedFile DEF CaptureInv, CaptureTypes, RowInv
    <2>8. IndexedFilesKept'
      BY <1>3, <2>1, <2>3, RemovedFile DEF CaptureInv, CaptureTypes, RowInv, IndexedFilesKept
    <2>9. DelInv'
      <3>1. ASSUME NEW e \in Deleters, del'[e] # Idle
            PROVE  /\ del'[e].row.scan \in erased'
                   /\ ~del'[e].stale => del'[e].row \in rows'
                   /\ del'[e].phase \in {"meta", "row"} => file'[del'[e].row.scan].data = "none"
                   /\ del'[e].phase = "row" => file'[del'[e].row.scan].meta = "none"
        <4>1. del[e] # Idle
          BY <2>2, <2>4, <3>1
        <4>2. del[e].row.scan \in Scans
          BY <4>1, Deleting
        <4>3. CASE e # d
          BY <1>3, <2>1, <2>4, <4>1, <4>2, <4>3, RemovedFile DEF CaptureInv, DelInv
        <4>4. CASE e = d
          <5>1. del[d].phase \in {"data", "meta"}
            BY <1>3 DEF RemoveFile
          <5>2. QED
            BY <1>3, <2>1, <2>2, <2>4, <4>2, <4>4, <5>1, RemovedFile DEF CaptureInv, DelInv
        <4>5. QED
          BY <4>3, <4>4
      <3>2. QED
        BY <3>1 DEF DelInv
    <2>10. QED
      BY <2>5, <2>6, <2>7, <2>8, <2>9 DEF CaptureInv
  <1>4. CASE DeleteRow(d)
    <2> DEFINE dels == [del EXCEPT ![d] = Idle]
    <2>1. UNCHANGED <<file, erased>> /\ rows' \subseteq rows /\ del' = Written(dels)
      BY <1>4 DEF DeleteRow
    <2>2. dels \in [Deleters -> Deletion]
      BY DEF CaptureInv, CaptureTypes
    <2>3. CaptureTypes'
      BY <1>1, <2>1, <2>2, WrittenDeletions DEF CaptureInv, CaptureTypes
    <2>4. ScanInv' /\ PipeInv' /\ RowInv' /\ IndexedFilesKept'
      BY <1>1, <2>1 DEF CaptureInv, ScanInv, PipeInv, RowInv, IndexedFilesKept
    <2>5. \A e \in Deleters : dels[e] = IF e = d THEN Idle ELSE del[e]
      BY DEF CaptureInv, CaptureTypes
    <2> HIDE DEF dels
    <2>6. DelInv'
      BY <2>1, <2>2, <2>5, WrittenDeletions DEF CaptureInv, DelInv
    <2>7. QED
      BY <2>3, <2>4, <2>6 DEF CaptureInv
  <1>5. CASE DeleteFails(d)
    <2>1. UNCHANGED <<file, erased, rows>> /\ del' = [del EXCEPT ![d] = Idle]
      BY <1>5 DEF DeleteFails
    <2>2. CaptureTypes'
      BY <1>1, <2>1 DEF CaptureInv, CaptureTypes
    <2>3. ScanInv' /\ PipeInv' /\ RowInv' /\ IndexedFilesKept'
      BY <1>1, <2>1 DEF CaptureInv, ScanInv, PipeInv, RowInv, IndexedFilesKept
    <2>4. DelInv'
      BY <2>1 DEF CaptureInv, CaptureTypes, DelInv
    <2>5. QED
      BY <2>2, <2>3, <2>4 DEF CaptureInv
  <1>6. QED
    BY <1>2, <1>3, <1>4, <1>5
\* A crash of the service leaves the files and the rows, and forgets the rest.
LEMMA CrashStep ==
    ASSUME CaptureInv, Crash
    PROVE  CaptureInv'
  <1>1. /\ UNCHANGED <<kept, file, rows, stored, erased>>
        /\ terminal' = [session |-> None, next |-> 1] /\ scan' = 0 /\ pipe' = {}
        /\ del' = [d \in Deleters |-> Idle]
    BY DEF Crash
  <1>2. CaptureTypes'
    BY <1>1, WebStoresAssumption DEF CaptureInv, CaptureTypes, Deletion
  <1>3. ScanInv' /\ PipeInv' /\ RowInv' /\ DelInv' /\ IndexedFilesKept'
    BY <1>1 DEF CaptureInv, ScanInv, PipeInv, RowInv, DelInv, IndexedFilesKept
  <1>4. QED
    BY <1>2, <1>3 DEF CaptureInv

\* A step that leaves the index alone.
LEMMA CaptureStutter ==
    ASSUME CaptureInv, UNCHANGED captures
    PROVE  CaptureInv'
  BY DEF captures, CaptureInv, CaptureTypes, ScanInv, PipeInv, RowInv, DelInv,
     IndexedFilesKept

-----------------------------------------------------------------------------
(***************************************************************************)
(* The provider configuration                                              *)
(***************************************************************************)
\* The key a request goes on with was typed for its URL, now or earlier.
LEMMA ChosenEntered ==
    ASSUME ProviderInv, NEW url \in Urls, NEW typed \in Keys \cup {None},
           typed = None => Reusable(url), Typed(url, typed)
    PROVE  /\ Chosen(url, typed) \in Configs
           /\ Chosen(url, typed) \in entered'
           /\ entered \subseteq entered' /\ entered' \subseteq Configs
  <1>1. CASE typed = None
    <2>1. provider \in Configs /\ provider.url = url /\ provider \in entered
      BY <1>1 DEF ProviderInv, ProviderTypes, KeyStaysHome, Reusable
    <2>2. Chosen(url, typed) = provider
      BY <1>1, <2>1 DEF Chosen, Configs
    <2>3. QED
      BY <1>1, <2>1, <2>2 DEF Typed, ProviderInv, ProviderTypes
  <1>2. CASE typed # None
    <2>1. Chosen(url, typed) = [url |-> url, key |-> typed]
      BY <1>2 DEF Chosen
    <2>2. QED
      BY <1>2, <2>1 DEF Typed, Configs, ProviderInv, ProviderTypes
  <1>3. QED
    BY <1>1, <1>2

\* Saves, deletions and queries keep every key with its URL.
LEMMA ProviderStep ==
    ASSUME ProviderInv, ProviderNext \/ Crash \/ UNCHANGED providers
    PROVE  ProviderInv'
  <1> USE DEF ProviderInv, ProviderTypes, KeyStaysHome
  <1>1. ASSUME NEW url \in Urls, NEW typed \in Keys \cup {None}, NEW w \in Savers,
               save_provider_config(w, url, typed)
        PROVE  ProviderInv'
    <2>1. Chosen(url, typed) \in Configs /\ Chosen(url, typed) \in entered'
          /\ entered \subseteq entered' /\ entered' \subseteq Configs
      BY <1>1, ChosenEntered DEF save_provider_config
    <2>2. QED
      BY <1>1, <2>1 DEF save_provider_config
  <1>2. ASSUME NEW url \in Urls, NEW typed \in Keys \cup {None},
               discover_provider_models(url, typed)
        PROVE  ProviderInv'
    <2>1. Chosen(url, typed) \in Configs /\ Chosen(url, typed) \in entered'
          /\ entered \subseteq entered' /\ entered' \subseteq Configs
      BY <1>2, ChosenEntered DEF discover_provider_models
    <2>2. QED
      BY <1>2, <2>1 DEF discover_provider_models
  <1>3. ASSUME NEW w \in Savers, SaveEnds(w) PROVE ProviderInv'
    BY <1>3 DEF SaveEnds
  <1>4. CASE HandleChanges \/ delete_provider_config \/ QueryEnds
    BY <1>4 DEF HandleChanges, delete_provider_config, QueryEnds
  <1>5. CASE Crash
    BY <1>5 DEF Crash
  <1>6. CASE UNCHANGED providers
    BY <1>6 DEF providers
  <1>7. QED
    BY <1>1, <1>2, <1>3, <1>4, <1>5, <1>6 DEF ProviderNext

-----------------------------------------------------------------------------
(***************************************************************************)
(* The theorems                                                            *)
(***************************************************************************)
\* The steps of the index leave the provider configuration alone, and the
\* other way round.
LEMMA Separate ==
    /\ CaptureNext => UNCHANGED providers
    /\ ProviderNext => UNCHANGED captures
  <1>1. CaptureNext => UNCHANGED providers
    BY DEF CaptureNext, StartTerminal, Evict, EndTerminal, StartScan, ScanFails, WriteMeta,
       FinishScan, RecordPlot, SelectRow, RemoveFile, DeleteRow, DeleteFails
  <1>2. ProviderNext => UNCHANGED captures
    BY DEF ProviderNext, save_provider_config, discover_provider_models, SaveEnds,
       HandleChanges, delete_provider_config, QueryEnds
  <1>3. QED
    BY <1>1, <1>2

\* Every step keeps the invariant of the index and of the configuration.
LEMMA InvStep ==
    ASSUME IInv, [Next]_vars
    PROVE  IInv'
  <1>1. CASE CaptureNext
    <2>1. CaptureInv'
      BY <1>1, TerminalStep, ScanStep, RecordStep, DeleteStep DEF CaptureNext, IInv
    <2>2. QED
      BY <1>1, <2>1, Separate, ProviderStep DEF IInv
  <1>2. CASE ProviderNext
    BY <1>2, Separate, CaptureStutter, ProviderStep DEF IInv
  <1>3. CASE Crash
    BY <1>3, CrashStep, ProviderStep DEF IInv
  <1>4. CASE UNCHANGED vars
    BY <1>4, CaptureStutter, ProviderStep DEF IInv, vars
  <1>5. QED
    BY <1>1, <1>2, <1>3, <1>4 DEF Next

\* The inductive invariant of the web console's stores: the scans, the plots on
\* their way, the rows, the deletions under way, and the keys.
THEOREM Inductive == Spec => []IInv
  <1>1. Init => IInv
    <2> SUFFICES ASSUME Init PROVE IInv
      OBVIOUS
    <2>1. CaptureTypes
      BY WebStoresAssumption DEF Init, CaptureTypes, Deletion, Files, NoFiles, Sizes
    <2>2. ScanInv /\ PipeInv /\ RowInv /\ DelInv /\ IndexedFilesKept
      BY DEF Init, ScanInv, PipeInv, RowInv, DelInv, IndexedFilesKept
    <2>3. ProviderInv
      BY DEF Init, ProviderInv, ProviderTypes, KeyStaysHome
    <2>4. QED
      BY <2>1, <2>2, <2>3 DEF IInv, CaptureInv
  <1>2. IInv /\ [Next]_vars => IInv'
    BY InvStep
  <1>3. QED
    BY <1>1, <1>2, PTL DEF Spec

\* The index is sound whatever deletions, recordings, evictions and crashes
\* interleave: one row per id and per scan of a terminal; the files of a row
\* that nobody deletes are there; a broken-off deletion can be repeated.
THEOREM IndexSound == Spec => []StoresInv
  <1>1. IInv => StoresInv
    <2> SUFFICES ASSUME IInv PROVE StoresInv
      OBVIOUS
    <2>1. TypeOK
      BY DEF IInv, CaptureInv, CaptureTypes, ProviderInv, ProviderTypes, TypeOK
    <2>2. StaysDeletable
      BY DEF IInv, CaptureInv, RowInv, StaysDeletable, MayDelete, validate_managed_dataset
    <2>3. QED
      BY <2>1, <2>2 DEF IInv, CaptureInv, StoresInv
  <1>2. QED
    BY <1>1, Inductive, PTL

\* An API key goes only where it was typed for (reuse_saved_provider_key,
\* discover_provider_models), however saves, deletions and queries interleave.
THEOREM KeysStayHome == Spec => []KeyStaysHome
  <1>1. IInv => KeyStaysHome
    BY DEF IInv, ProviderInv
  <1>2. QED
    BY <1>1, Inductive, PTL

\* A result leaves the index only with its files: delete_capture_result commits
\* only while the row it has read is the row it deletes.
THEOREM DeletionComplete == Spec => DeletedWithFiles
  <1> DEFINE A == \A r \in rows : (\A t \in rows' : t.id # r.id) => file'[r.scan] = NoFiles
  <1>1. IInv /\ [Next]_vars => A
    <2> SUFFICES ASSUME IInv, [Next]_vars, NEW r \in rows, \A t \in rows' : t.id # r.id
                 PROVE  file'[r.scan] = NoFiles
      OBVIOUS
    <2>1. rows' # rows
      OBVIOUS
    <2>2. ASSUME NEW p \in pipe, RecordPlot(p) PROVE FALSE
      <3>1. persist_capture_result(p)
        BY <2>1, <2>2 DEF RecordPlot
      <3> DEFINE new == [id |-> RowId(p), session |-> p.session, sweep |-> p.sweep,
                         scan |-> p.scan]
      <3>2. new \in rows' /\ new.id = RowId(p)
        BY <3>1 DEF persist_capture_result
      <3>3. r.id # RowId(p) => r \in rows'
        BY <3>1 DEF persist_capture_result
      <3>4. QED
        BY <3>2, <3>3
    <2>3. ASSUME NEW d \in Deleters, DeleteRow(d) PROVE file'[r.scan] = NoFiles
      <3>1. r.id = del[d].row.id /\ file' = file /\ del[d].phase = "row" /\ ~del[d].stale
        BY <2>3 DEF DeleteRow, MayCommit
      <3>2. del[d] # Idle
        BY <3>1 DEF Idle
      <3>3. /\ del[d].row \in rows
            /\ file[del[d].row.scan].data = "none" /\ file[del[d].row.scan].meta = "none"
        BY <3>1, <3>2 DEF IInv, CaptureInv, DelInv
      <3>4. del[d].row = r
        BY <3>1, <3>3 DEF IInv, CaptureInv, CaptureTypes
      <3>5. file[r.scan] \in Files
        BY DEF IInv, CaptureInv, CaptureTypes, Rows
      <3>6. QED
        BY <3>1, <3>3, <3>4, <3>5, FilePair
    <2>4. (\E p \in pipe : RecordPlot(p)) \/ (\E d \in Deleters : DeleteRow(d))
      BY <2>1 DEF Next, CaptureNext, ProviderNext, StartTerminal, Evict, EndTerminal,
         StartScan, ScanFails, WriteMeta, FinishScan, SelectRow, RemoveFile, DeleteFails,
         save_provider_config, discover_provider_models, SaveEnds, HandleChanges,
         delete_provider_config, QueryEnds, Crash, captures, vars
    <2>5. QED
      BY <2>2, <2>3, <2>4
  <1>2. QED
    BY <1>1, Inductive, PTL DEF Spec, DeletedWithFiles

=============================================================================
