----------------------------- MODULE WebStores -----------------------------
(***************************************************************************)
(* What the web console keeps besides its conversations: the index of      *)
(* capture results (SQLite), the SigMF files the index names, and the      *)
(* provider configuration with its API key (web-console/src/main.rs).      *)
(*                                                                         *)
(* The terminal of a conversation writes a pair of files per scan and      *)
(* prints a SweepPlot line; a reader of the console stores the plot; the   *)
(* operator deletes results.  HTTP handlers take no common lock and run on *)
(* several threads, so the steps of two deletions, of a deletion and the   *)
(* recording of a plot, and of two saves interleave.                       *)
(*                                                                         *)
(* A scan is a number: its files carry the nanosecond they were created in *)
(* and create_new refuses a name that exists.  How a scan is carried out   *)
(* is in module Controller, which terminal runs when in module WebConsole. *)
(***************************************************************************)
EXTENDS Naturals, FiniteSets

CONSTANTS
    Conversations,
    MaxScans,      \* bound: scans that are ever started
    MaxRequests,   \* bound: plan requests of one terminal
    Deleters,      \* delete requests served at one time
    Savers,        \* save requests served at one time
    Urls, Keys,    \* base URLs and API keys
    None

ASSUME WebStoresAssumption ==
    /\ MaxScans \in Nat /\ MaxRequests \in Nat
    /\ None \notin Conversations \cup Urls \cup Keys

VARIABLES
    kept,      \* the conversations that exist
    terminal,  \* the terminal process: its conversation and its next request id
    scan,      \* the scan it runs, or 0
    file,      \* the SigMF files of every scan: "none", "part" or "full"
    pipe,      \* SweepPlot lines that are printed and not yet read
    rows,      \* the table capture_results
    del,       \* delete_capture_result, per request
    handle,    \* Inner.runtime is Some; module WebConsole says when
    provider,  \* provider.json, or None
    save,      \* save_provider_config, per request
    query,     \* the model query in flight, or None
    stored,    \* history: scans whose plot was stored
    erased,    \* history: scans whose deletion the operator has begun
    entered    \* history: the keys that were typed for a URL

captures == <<kept, terminal, scan, file, pipe, rows, del, stored, erased>>
providers == <<handle, provider, save, query, entered>>
vars == <<captures, providers>>

-----------------------------------------------------------------------------
Scans == 1..MaxScans
Sweeps == 1..MaxRequests
Sizes == {"none", "part", "full"}
Files == [data : Sizes, meta : Sizes]
NoFiles == [data |-> "none", meta |-> "none"]

Plots == [session : Conversations, sweep : Sweeps, scan : Scans]
Rows == [id : Scans, session : Conversations, sweep : Sweeps, scan : Scans]

Idle == [phase |-> "idle"]
Deletion == [phase : {"data", "meta", "row"}, row : Rows, stale : BOOLEAN] \cup {Idle}

Configs == [url : Urls, key : Keys]

TypeOK ==
    /\ kept \subseteq Conversations
    /\ terminal \in [session : Conversations \cup {None}, next : 1..(MaxRequests + 1)]
    /\ scan \in Scans \cup {0}
    /\ file \in [Scans -> Files]
    /\ pipe \subseteq Plots
    /\ rows \subseteq Rows
    /\ \A r, t \in rows : r # t => r.id # t.id /\ <<r.session, r.sweep>> # <<t.session, t.sweep>>
    /\ del \in [Deleters -> Deletion]
    /\ handle \in BOOLEAN
    /\ provider \in Configs \cup {None}
    /\ save \in [Savers -> Configs \cup {None}]
    /\ query \in Configs \cup {None}
    /\ stored \subseteq Scans
    /\ erased \subseteq Scans
    /\ entered \subseteq Configs

-----------------------------------------------------------------------------
(* The terminal *)

Running == terminal.session # None

\* Every terminal counts its requests from the template's id.
StartTerminal(c) ==
    /\ ~Running
    /\ c \in kept
    /\ terminal' = [session |-> c, next |-> 1]
    /\ UNCHANGED <<kept, scan, file, pipe, rows, del, stored, erased, providers>>

\* The terminal quits or is killed; a scan that is interrupted leaves what it
\* has written.
EndTerminal ==
    /\ Running
    /\ terminal' = [session |-> None, next |-> 1]
    /\ scan' = 0
    /\ UNCHANGED <<kept, file, pipe, rows, del, stored, erased, providers>>

\* The scan n left nothing behind.
Unused(n) == file[n] = NoFiles /\ n \notin stored \cup erased

\* n is the number of the scan that is started next: the first of those after
\* the last one that left something.
Fresh(n) == /\ \A m \in n..MaxScans : Unused(m)
            /\ n > 1 => ~Unused(n - 1)

StartScan(n) ==
    /\ Running
    /\ scan = 0
    /\ terminal.next \in Sweeps
    /\ Fresh(n)
    /\ scan' = n
    /\ file' = [file EXCEPT ![n].data = "part"]
    /\ UNCHANGED <<kept, terminal, pipe, rows, del, stored, erased, providers>>

\* A failed or cancelled scan: the writer is dropped uncommitted.
ScanFails ==
    /\ scan # 0
    /\ file' = [file EXCEPT ![scan] = NoFiles]
    /\ scan' = 0
    /\ terminal' = [terminal EXCEPT !.next = @ + 1]
    /\ UNCHANGED <<kept, pipe, rows, del, stored, erased, providers>>

WriteMeta ==
    /\ scan # 0
    /\ file[scan].meta = "none"
    /\ file' = [file EXCEPT ![scan] = [data |-> "full", meta |-> "part"]]
    /\ UNCHANGED <<kept, terminal, scan, pipe, rows, del, stored, erased, providers>>

\* emit_sweep_plot: an inspection, and a scan that completed under a stop or
\* before a failed health check, prints no plot.
FinishScan(plotted) ==
    /\ scan # 0
    /\ file[scan].meta = "part"
    /\ file' = [file EXCEPT ![scan].meta = "full"]
    /\ pipe' = IF plotted
               THEN pipe \cup {[session |-> terminal.session, sweep |-> terminal.next,
                                scan |-> scan]}
               ELSE pipe
    /\ scan' = 0
    /\ terminal' = [terminal EXCEPT !.next = @ + 1]
    /\ UNCHANGED <<kept, rows, del, stored, erased, providers>>

-----------------------------------------------------------------------------
(* The index *)

\* require_files: a plot is stored only with both of its files; a deletion
\* also accepts what an earlier one has left.
validate_managed_dataset(n, require_files) ==
    /\ file[n].data \in {"none", "full"}
    /\ require_files => file[n].data = "full" /\ file[n].meta = "full"

\* Every open transaction that has read the table has an old snapshot now.
Written(dels) ==
    [d \in Deleters |-> IF dels[d] = Idle THEN Idle ELSE [dels[d] EXCEPT !.stale = TRUE]]

\* Mutant: a plain INSERT.
RowId_new(plot) == Cardinality(stored) + 1

RowId(plot) ==
    LET same == {r \in rows : r.session = plot.session /\ r.sweep = plot.sweep}
    IN  IF same = {} THEN Cardinality(stored) + 1 ELSE (CHOOSE r \in same : TRUE).id

\* INSERT ... ON CONFLICT(session_id, sweep_id) DO UPDATE
persist_capture_result(plot) ==
    /\ rows' = {r \in rows : r.id # RowId(plot)} \cup
               {[id |-> RowId(plot), session |-> plot.session, sweep |-> plot.sweep,
                 scan |-> plot.scan]}
    /\ del' = Written(del)
    /\ stored' = stored \cup {plot.scan}

\* record_process_output of a SweepPlot line: dropped when the conversation is
\* gone, refused when the plot is not valid or the database fails.  Two
\* terminals have two readers, so the order is left open.
RecordPlot(plot) ==
    /\ pipe' = pipe \ {plot}
    /\ \/ /\ plot.session \in kept
          /\ validate_managed_dataset(plot.scan, TRUE)
          /\ persist_capture_result(plot)
       \/ UNCHANGED <<rows, del, stored>>
    /\ UNCHANGED <<kept, terminal, scan, file, erased, providers>>

\* create_session evicts a conversation; its results stay.
Evict(c) ==
    /\ c \in kept
    /\ c # terminal.session
    /\ kept' = kept \ {c}
    /\ UNCHANGED <<terminal, scan, file, pipe, rows, del, stored, erased, providers>>

-----------------------------------------------------------------------------
(* delete_capture_result: SELECT, the two files, DELETE and commit *)

\* Mutant: both files are required.
MayDelete_whole(r) == validate_managed_dataset(r.scan, TRUE)

MayDelete(r) == validate_managed_dataset(r.scan, FALSE)

SelectRow(d, r) ==
    /\ del[d] = Idle
    /\ r \in rows
    /\ MayDelete(r)
    /\ del' = [del EXCEPT ![d] = [phase |-> "data", row |-> r, stale |-> FALSE]]
    /\ erased' = erased \cup {r.scan}
    /\ UNCHANGED <<kept, terminal, scan, file, pipe, rows, stored, providers>>

\* Mutant: the payload is read again for every file.
Dataset_again(d) ==
    LET same == {r \in rows : r.id = del[d].row.id}
    IN  IF same = {} THEN del[d].row.scan ELSE (CHOOSE r \in same : TRUE).scan

Dataset(d) == del[d].row.scan

\* delete_managed_dataset
RemoveFile(d) ==
    /\ del[d].phase \in {"data", "meta"}
    /\ file' = [file EXCEPT ![Dataset(d)][del[d].phase] = "none"]
    /\ del' = [del EXCEPT ![d].phase = IF @ = "data" THEN "meta" ELSE "row"]
    /\ UNCHANGED <<kept, terminal, scan, pipe, rows, stored, erased, providers>>

\* Mutant: without a transaction the row is deleted whatever it names by now.
MayCommit_anyway(d) == TRUE

\* A deferred transaction cannot write on an old snapshot (SQLITE_BUSY).
MayCommit(d) == ~del[d].stale

DeleteRow(d) ==
    /\ del[d].phase = "row"
    /\ MayCommit(d)
    /\ rows' = {r \in rows : r.id # del[d].row.id}
    /\ del' = Written([del EXCEPT ![d] = Idle])
    /\ UNCHANGED <<kept, terminal, scan, file, pipe, stored, erased, providers>>

\* Any step of a deletion can fail; what it has removed stays removed.
DeleteFails(d) ==
    /\ del[d] # Idle
    /\ del' = [del EXCEPT ![d] = Idle]
    /\ UNCHANGED <<kept, terminal, scan, file, pipe, rows, stored, erased, providers>>

-----------------------------------------------------------------------------
(* The provider configuration *)

\* Mutant: the saved key is used for whatever URL is asked for.
Reusable_any(url) == provider # None

\* reuse_saved_provider_key and discover_provider_models
Reusable(url) == provider # None /\ provider.url = url

\* The key that a request goes on with: the typed one, or the saved one.
Chosen(url, typed) ==
    [url |-> url, key |-> IF typed = None THEN provider.key ELSE typed]

Typed(url, typed) ==
    entered' = IF typed = None THEN entered ELSE entered \cup {[url |-> url, key |-> typed]}

save_provider_config(w, url, typed) ==
    /\ save[w] = None
    /\ typed = None => Reusable(url)
    /\ save' = [save EXCEPT ![w] = Chosen(url, typed)]
    /\ Typed(url, typed)
    /\ UNCHANGED <<captures, handle, provider, query>>

\* persist_provider_config: the file is replaced by a rename, or the save fails.
SaveEnds(w) ==
    /\ save[w] # None
    /\ provider' \in {provider, save[w]}
    /\ save' = [save EXCEPT ![w] = None]
    /\ UNCHANGED <<captures, handle, query, entered>>

delete_provider_config ==
    /\ ~handle
    /\ provider' = None
    /\ UNCHANGED <<captures, handle, save, query, entered>>

HandleChanges ==
    /\ handle' = ~handle
    /\ UNCHANGED <<captures, provider, save, query, entered>>

\* model_query_gate.try_lock
discover_provider_models(url, typed) ==
    /\ query = None
    /\ typed = None => Reusable(url)
    /\ query' = Chosen(url, typed)
    /\ Typed(url, typed)
    /\ UNCHANGED <<captures, handle, provider, save>>

\* fetch_provider_models returns, fails or times out.
QueryEnds ==
    /\ query # None
    /\ query' = None
    /\ UNCHANGED <<captures, handle, provider, save, entered>>

-----------------------------------------------------------------------------
\* The service dies with its terminal, its requests and its readers.
Crash ==
    /\ terminal' = [session |-> None, next |-> 1]
    /\ scan' = 0
    /\ pipe' = {}
    /\ del' = [d \in Deleters |-> Idle]
    /\ save' = [w \in Savers |-> None]
    /\ query' = None
    /\ handle' = FALSE
    /\ UNCHANGED <<kept, file, rows, provider, stored, erased, entered>>

Init ==
    /\ kept = Conversations
    /\ terminal = [session |-> None, next |-> 1]
    /\ scan = 0
    /\ file = [n \in Scans |-> NoFiles]
    /\ pipe = {}
    /\ rows = {}
    /\ del = [d \in Deleters |-> Idle]
    /\ handle = FALSE
    /\ provider = None
    /\ save = [w \in Savers |-> None]
    /\ query = None
    /\ stored = {}
    /\ erased = {}
    /\ entered = {}

CaptureNext ==
    \/ \E c \in Conversations : StartTerminal(c) \/ Evict(c)
    \/ \E n \in Scans : StartScan(n)
    \/ EndTerminal \/ ScanFails \/ WriteMeta
    \/ \E plotted \in BOOLEAN : FinishScan(plotted)
    \/ \E plot \in pipe : RecordPlot(plot)
    \/ \E d \in Deleters :
        \/ \E r \in rows : SelectRow(d, r)
        \/ RemoveFile(d) \/ DeleteRow(d) \/ DeleteFails(d)

ProviderNext ==
    \/ \E url \in Urls, typed \in Keys \cup {None} :
        \/ \E w \in Savers : save_provider_config(w, url, typed)
        \/ discover_provider_models(url, typed)
    \/ \E w \in Savers : SaveEnds(w)
    \/ HandleChanges \/ delete_provider_config \/ QueryEnds

Next == CaptureNext \/ ProviderNext \/ Crash

Spec == Init /\ [][Next]_vars

-----------------------------------------------------------------------------
(* The files of an indexed result are there until the operator deletes     *)
(* that result: no deletion of another one, no retry and no recording      *)
(* beside a deletion takes them away.                                      *)
IndexedFilesKept ==
    \A r \in rows : r.scan \notin erased => file[r.scan] = [data |-> "full", meta |-> "full"]

(* A result leaves the index only when its files are gone, also when its   *)
(* row was given to a later scan while the deletion removed the files it   *)
(* had read: otherwise files stay that nothing names.                      *)
DeletedWithFiles ==
    [][\A r \in rows : (\A t \in rows' : t.id # r.id) => file'[r.scan] = NoFiles]_vars

(* A deletion that failed or was interrupted between the two files can be  *)
(* repeated: every result in the index is accepted by the next request.    *)
StaysDeletable == \A r \in rows : MayDelete(r)

(* One row per scan of a terminal, each with its files or with a deletion  *)
(* of them that can be completed.                                          *)
StoresInv == TypeOK /\ IndexedFilesKept /\ StaysDeletable

(* An API key that was not typed again is stored with, and sent to, only   *)
(* the base URL it was entered for, however saves, deletions and queries   *)
(* interleave.                                                             *)
KeyStaysHome ==
    {provider, query} \cup {save[w] : w \in Savers} \subseteq entered \cup {None}

(* A scan whose result was stored stays in the index, and so can be shown  *)
(* and deleted, until the operator deletes it.                             *)
StoredStaysIndexed ==
    \A n \in stored : n \in erased \/ \E r \in rows : r.scan = n

=============================================================================
