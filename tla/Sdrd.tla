-------------------------------- MODULE Sdrd --------------------------------
(***************************************************************************)
(* The P201 receive-radio daemon (sdr-system/sdrd): the accept loop and    *)
(* its one client worker (main.c), the per-connection session state        *)
(* machine (sdrd.c) and the IIO adapter that owns the AD9361 receive       *)
(* settings, the capture buffer and the transient capture files            *)
(* (sdrd_iio.c).                                                           *)
(*                                                                         *)
(* Two threads matter.  The acceptor reads the first line of every         *)
(* connection itself; it executes CANCEL_SESSION on the spot and hands any *)
(* other connection to a detached worker, one at a time.  The worker owns  *)
(* the radio.  They share the runtime (worker_active, active_generation,   *)
(* under runtime.mutex) and the adapter's cancellation state               *)
(* (cancel_requested, capture_active, buffer, under cancel_mutex).  A step *)
(* below is the code between two accesses to that shared state.            *)
(***************************************************************************)
EXTENDS Naturals

CONSTANTS
    Conns,            \* connection slots: sockets and worker threads
    Gens,             \* session generations a client may name (never 0)
    Features,         \* feature ids: one capture directory each
    Settings,         \* abstract values of a radio attribute
    ManualModes,      \* the settings whose gain mode is "manual"
    Home,             \* the setting the radio holds when the daemon starts
    Agc,              \* the hardware gain while the gain mode is automatic
    ReuseConnection,  \* whether a client starts several sessions per connection
    FailAt,           \* how many attribute writes may precede a failure
    MaxSequence       \* bound: captures per daemon run (adapter->sequence)

ASSUME ConstantsAssumption ==
    /\ 0 \notin Conns
    /\ Gens \subseteq Nat \ {0}
    /\ ManualModes \subseteq Settings
    /\ Home \in Settings
    /\ Agc \notin Settings
    /\ ReuseConnection \in BOOLEAN
    /\ FailAt \subseteq 0..6
    /\ MaxSequence \in Nat

VARIABLES
    \* main.c: the accept loop, runtime and signal flag
    acceptor, cancelGen, worker_active, active_generation, stop_requested,
    \* main.c/sdrd.c: one worker per connection and its session
    pc, req, why, reply, session,
    \* sdrd_iio.c: the adapter
    buffer, capture_active, cancel_requested, sequence, files,
    \* the AD9361 receive attributes, and whether a restore ever failed
    radio, restore_failed

serverVars  == <<acceptor, cancelGen, worker_active, active_generation, stop_requested>>
workerVars  == <<pc, req, why, reply, session>>
adapterVars == <<buffer, capture_active, cancel_requested, sequence, files>>
radioVars   == <<radio, restore_failed>>
vars == <<serverVars, workerVars, adapterVars, radioVars>>

-----------------------------------------------------------------------------
(***************************************************************************)
(* Radio attributes, in the order apply_profile and restore write them:    *)
(* sampling_frequency, rf_bandwidth, gain_control_mode, hardwaregain,      *)
(* frequency (LO), scan mask.                                              *)
(***************************************************************************)
Attrs        == 1..6
GainMode     == 3
HardwareGain == 4
AllWritten   == 6

RadioStates == [Attrs -> Settings \cup {Agc}]

\* A requested profile: every attribute at the setting p.
Profile(p) == [a \in Attrs |-> p]

\* The hardware gain is written only in manual mode; otherwise the AD9361's
\* own gain control drives it.
Baseline == [Profile(Home) EXCEPT ![HardwareGain] =
                IF Home \in ManualModes THEN Home ELSE Agc]

\* A zeroed sdrd_radio_state_t.
NoState == [a \in Attrs |-> Agc]

\* The radio after the first k attribute writes of target t (the rest failed).
Written(t, k) ==
    [a \in Attrs |->
        IF a = HardwareGain
        THEN IF k < GainMode THEN radio[a]
             ELSE IF t[GainMode] \notin ManualModes THEN Agc
             ELSE IF k >= a THEN t[a] ELSE radio[a]
        ELSE IF a <= k THEN t[a] ELSE radio[a]]

-----------------------------------------------------------------------------
(***************************************************************************)
(* Types                                                                   *)
(***************************************************************************)
Captures  == {"CAPTURE_IQ", "CAPTURE_IQ_INLINE", "CAPTURE_POWER"}

\* <data root>/<feature>/capture-<generation>-<sequence>.ci16, the command that
\* wrote it, and whether it holds every requested sample.
Files == [feature: Features, generation: Gens, sequence: 1..MaxSequence,
          command: {"CAPTURE_IQ", "CAPTURE_IQ_INLINE"}, complete: BOOLEAN]

\* The request a worker is executing: a capture command and its directory.
NoReq    == [cmd |-> "none", feature |-> "none"]
Requests == [cmd: Captures, feature: Features] \cup {NoReq}

\* sdrd_session_t (current_state and last_request_id have no effect here).
Sessions == [generation: Gens \cup {0}, active: BOOLEAN, profile_applied: BOOLEAN,
             restore_required: BOOLEAN, faulted: BOOLEAN, saved: RadioStates]

sdrd_session_init ==
    [generation |-> 0, active |-> FALSE, profile_applied |-> FALSE,
     restore_required |-> FALSE, faulted |-> FALSE, saved |-> NoState]

Replies == {"none", "info", "owned", "applied", "captured", "inline", "power",
            "stopped", "closing", "stop_or_restore_failed", "failed_restored",
            "failed_restore_fault", "adapter_contract_violation"}

TypeOK ==
    /\ acceptor \in {"top", "accept", "reading", "cancel", "drain", "exited"}
    /\ cancelGen \in Gens \cup {0}
    /\ worker_active \in BOOLEAN
    /\ active_generation \in Gens \cup {0}
    /\ stop_requested \in BOOLEAN
    /\ pc \in [Conns -> {"free", "recv", "publish", "check", "refill", "transfer",
                         "close", "reply", "clear", "release"}]
    /\ req \in [Conns -> Requests]
    /\ why \in [Conns -> {"none", "stop", "quit", "failed", "contract", "exit"}]
    /\ reply \in [Conns -> Replies]
    /\ session \in [Conns -> Sessions]
    /\ buffer \in {"none", "live", "cancelled"}
    /\ capture_active \in BOOLEAN
    /\ cancel_requested \in Gens \cup {0}
    /\ sequence \in 0..MaxSequence
    /\ files \subseteq Files
    /\ radio \in RadioStates
    /\ restore_failed \in BOOLEAN

-----------------------------------------------------------------------------
Init ==
    /\ acceptor = "top"
    /\ cancelGen = 0
    /\ worker_active = FALSE
    /\ active_generation = 0
    /\ stop_requested = FALSE
    /\ pc = [c \in Conns |-> "free"]
    /\ req = [c \in Conns |-> NoReq]
    /\ why = [c \in Conns |-> "none"]
    /\ reply = [c \in Conns |-> "none"]
    /\ session = [c \in Conns |-> sdrd_session_init]
    /\ buffer = "none"
    /\ capture_active = FALSE
    /\ cancel_requested = 0
    /\ sequence = 0
    /\ files = {}
    /\ radio = Baseline
    /\ restore_failed = FALSE

-----------------------------------------------------------------------------
(***************************************************************************)
(* The accept loop (run_server) and the CANCEL_SESSION client it serves.   *)
(* While the acceptor is in "cancel" it holds runtime.mutex.               *)
(***************************************************************************)
RuntimeMutexFree == acceptor # "cancel"

\* while (stop_requested == 0): the signal flag is read here and nowhere else.
AcceptorTop ==
    /\ acceptor = "top"
    /\ acceptor' = IF stop_requested THEN "drain" ELSE "accept"
    /\ UNCHANGED <<cancelGen, worker_active, active_generation, stop_requested,
                   workerVars, adapterVars, radioVars>>

\* accept() returns a client, or fails with something other than EINTR.
Accept ==
    /\ acceptor = "accept"
    /\ acceptor' \in {"reading", "drain"}
    /\ UNCHANGED <<cancelGen, worker_active, active_generation, stop_requested,
                   workerVars, adapterVars, radioVars>>

\* The first line never comes (timeout, EOF, too long), or is a CANCEL_SESSION
\* that does not parse: the connection is closed.
FirstLineRefused ==
    /\ acceptor = "reading"
    /\ acceptor' = "top"
    /\ UNCHANGED <<cancelGen, worker_active, active_generation, stop_requested,
                   workerVars, adapterVars, radioVars>>

\* handle_cancel_client: compare the generation under runtime.mutex, and keep
\* the mutex for the adapter call when it matches.
CancelCheck(g) ==
    /\ acceptor = "reading"
    /\ IF active_generation = g
       THEN acceptor' = "cancel" /\ cancelGen' = g
       ELSE acceptor' = "top" /\ UNCHANGED cancelGen
    /\ UNCHANGED <<worker_active, active_generation, stop_requested,
                   workerVars, adapterVars, radioVars>>

\* adapter_cancel, under cancel_mutex: latch, and wake a running refill.  The
\* latch remembers which generation's CANCEL_SESSION set it.
CancelLatch ==
    /\ acceptor = "cancel"
    /\ cancel_requested' = cancelGen
    /\ buffer' = IF capture_active /\ buffer # "none" THEN "cancelled" ELSE buffer
    /\ acceptor' = "top"
    /\ cancelGen' = 0
    /\ UNCHANGED <<worker_active, active_generation, stop_requested, workerVars,
                   capture_active, sequence, files, radioVars>>

\* Mutant: the accept loop does not look at worker_active.
WorkerSlotFree_unchecked == TRUE
WorkerSlotFree == ~worker_active

\* A second ordinary client is answered "server_busy".
ServerBusy ==
    /\ acceptor = "reading"
    /\ ~WorkerSlotFree
    /\ acceptor' = "top"
    /\ UNCHANGED <<cancelGen, worker_active, active_generation, stop_requested,
                   workerVars, adapterVars, radioVars>>

\* Mutant: the worker loop runs on after a stop signal.
LoopTop_deaf(c) == "recv"
\* serve_client's while (stop_requested == 0).
LoopTop(c) == IF stop_requested THEN "close" ELSE "recv"

\* A detached worker takes the connection, with a fresh session on its stack.
Spawn(c) ==
    /\ acceptor = "reading"
    /\ WorkerSlotFree
    /\ pc[c] = "free"
    /\ worker_active' = TRUE
    /\ acceptor' = "top"
    /\ pc' = [pc EXCEPT ![c] = LoopTop(c)]
    /\ why' = [why EXCEPT ![c] = IF LoopTop(c) = "close" THEN "exit" ELSE "none"]
    /\ session' = [session EXCEPT ![c] = sdrd_session_init]
    /\ UNCHANGED <<cancelGen, active_generation, stop_requested, req, reply,
                   adapterVars, radioVars>>

\* calloc or pthread_create fails: worker_active goes back to 0.
SpawnFails ==
    /\ acceptor = "reading"
    /\ WorkerSlotFree
    /\ worker_active' = FALSE
    /\ acceptor' = "top"
    /\ UNCHANGED <<cancelGen, active_generation, stop_requested,
                   workerVars, adapterVars, radioVars>>

\* SIGTERM or SIGINT.  A blocked accept() returns EINTR; a signal that lands
\* between the loop test and accept() leaves the acceptor blocked.
StopSignal ==
    /\ ~stop_requested
    /\ stop_requested' = TRUE
    /\ acceptor' \in (IF acceptor = "accept" THEN {"accept", "top"} ELSE {acceptor})
    /\ UNCHANGED <<cancelGen, worker_active, active_generation,
                   workerVars, adapterVars, radioVars>>

\* Mutant: run_server returns without waiting for the worker.
WorkerGone_unchecked == TRUE
\* wait_for_worker.
WorkerGone == ~worker_active

\* run_server returns and main destroys the adapter.
Exit ==
    /\ acceptor = "drain"
    /\ WorkerGone
    /\ acceptor' = "exited"
    /\ buffer' = "none"
    /\ UNCHANGED <<cancelGen, worker_active, active_generation, stop_requested,
                   workerVars, capture_active, cancel_requested, sequence, files,
                   radioVars>>

-----------------------------------------------------------------------------
(***************************************************************************)
(* The worker: serve_client's loop around sdrd_handle_request.             *)
(***************************************************************************)
\* Worker c goes on at label l.
Goto(c, l) == pc' = [pc EXCEPT ![c] = l]

\* Worker c answers r.
Answer(c, r) == Goto(c, "reply") /\ reply' = [reply EXCEPT ![c] = r]

\* Worker c calls sdrd_session_close for reason w.
CallClose(c, w) == Goto(c, "close") /\ why' = [why EXCEPT ![c] = w]

Owns(c) == session[c].active

\* receive_line fails: EOF, reset, timeout, or a line that is too long.
ReadFails(c) ==
    /\ pc[c] = "recv"
    /\ CallClose(c, "exit")
    /\ UNCHANGED <<serverVars, req, reply, session, adapterVars, radioVars>>

\* Every request that changes nothing: HELLO, CAPABILITIES, HEALTH and
\* EXECUTION_STATUS, and whatever is refused (malformed, replayed request id,
\* stale generation, out of bounds, retired or unknown command).
Inform(c) ==
    /\ pc[c] = "recv"
    /\ Answer(c, "info")
    /\ UNCHANGED <<serverVars, req, why, session, adapterVars, radioVars>>

\* Mutant: handle_start_session forgets the restore_fault check.
MayStart_faulted(s) == ~s.active
MayStart(s) == ~s.faulted /\ ~s.active

\* The clients of this repository open a connection per session.
StartRequested(c) == ReuseConnection \/ session[c].generation = 0

\* Mutant: restoration is not armed by START_SESSION.
Owned_unarmed(g) ==
    [generation |-> g, active |-> TRUE, profile_applied |-> FALSE,
     restore_required |-> FALSE, faulted |-> FALSE, saved |-> radio]
Owned(g) ==
    [generation |-> g, active |-> TRUE, profile_applied |-> FALSE,
     restore_required |-> TRUE, faulted |-> FALSE, saved |-> radio]

\* START_SESSION: snapshot, then begin_session clears the cancel latch.  The
\* session exists before the runtime learns its generation (Publish).
StartSession(c, g) ==
    /\ pc[c] = "recv"
    /\ MayStart(session[c])
    /\ StartRequested(c)
    /\ buffer = "none"
    /\ session' = [session EXCEPT ![c] = Owned(g)]
    /\ cancel_requested' = 0
    /\ capture_active' = FALSE
    /\ Goto(c, "publish")
    /\ UNCHANGED <<serverVars, req, why, reply, buffer, sequence, files, radioVars>>

\* The snapshot fails (an attribute read, or a buffer that still exists).
SnapshotFails(c) ==
    /\ pc[c] = "recv"
    /\ StartRequested(c)
    /\ MayStart(session[c])
    /\ session' = [session EXCEPT ![c].saved = NoState]
    /\ Answer(c, "info")
    /\ UNCHANGED <<serverVars, req, why, adapterVars, radioVars>>

\* serve_client copies the generation of an "owned" response to the runtime.
Publish(c) ==
    /\ pc[c] = "publish"
    /\ RuntimeMutexFree
    /\ active_generation' = session[c].generation
    /\ Answer(c, "owned")
    /\ UNCHANGED <<acceptor, cancelGen, worker_active, stop_requested, req, why,
                   session, adapterVars, radioVars>>

\* APPLY_PROFILE: drop the buffer, write every attribute, read them back.
ApplyProfile(c, p) ==
    /\ pc[c] = "recv"
    /\ Owns(c)
    /\ buffer' = "none"
    /\ radio' = Written(Profile(p), AllWritten)
    /\ session' = [session EXCEPT ![c].profile_applied = TRUE]
    /\ Answer(c, "applied")
    /\ UNCHANGED <<serverVars, req, why, capture_active, cancel_requested, sequence,
                   files, restore_failed>>

\* A write fails after k of them, or the settle or the read-back does (k = 6).
ApplyFails(c, p, k) ==
    /\ pc[c] = "recv"
    /\ Owns(c)
    /\ buffer' = "none"
    /\ radio' = Written(Profile(p), k)
    /\ CallClose(c, "failed")
    /\ UNCHANGED <<serverVars, req, reply, session, capture_active, cancel_requested,
                   sequence, files, restore_failed>>

-----------------------------------------------------------------------------
(***************************************************************************)
(* Captures: adapter_capture_iq and adapter_capture_power.                 *)
(***************************************************************************)
MayCapture(c) ==
    /\ pc[c] = "recv"
    /\ Owns(c)
    /\ session[c].profile_applied

\* Mutant: the file takes the number before sequence is incremented.
CaptureFile_preincrement(c, r, n, done) ==
    [feature |-> r.feature, generation |-> session[c].generation, sequence |-> n - 1,
     command |-> r.cmd, complete |-> done]
\* The file of capture number n of worker c's session.
CaptureFile(c, r, n, done) ==
    [feature |-> r.feature, generation |-> session[c].generation, sequence |-> n,
     command |-> r.cmd, complete |-> done]

\* The file of the capture that worker c is running, partial or complete.
OwnFiles(c) == {CaptureFile(c, req[c], sequence, done) : done \in BOOLEAN}

\* Next sequence number, O_EXCL file (not for CAPTURE_POWER), buffer.
OpenCapture(c, cmd, f) ==
    /\ MayCapture(c)
    /\ sequence < MaxSequence
    /\ sequence' = sequence + 1
    /\ req' = [req EXCEPT ![c] = [cmd |-> cmd, feature |-> f]]
    /\ files' = IF cmd = "CAPTURE_POWER" THEN files
                ELSE files \cup {CaptureFile(c, [cmd |-> cmd, feature |-> f],
                                             sequence + 1, FALSE)}
    /\ buffer' = IF buffer = "none" THEN "live" ELSE buffer
    /\ Goto(c, "check")
    /\ UNCHANGED <<serverVars, why, reply, session, capture_active, cancel_requested,
                   radioVars>>

\* No directory, no space, no file or no buffer: nothing is left behind.
OpenFails(c) ==
    /\ MayCapture(c)
    /\ sequence < MaxSequence
    /\ sequence' \in {sequence, sequence + 1}
    /\ CallClose(c, "failed")
    /\ UNCHANGED <<serverVars, req, reply, session, buffer, capture_active,
                   cancel_requested, files, radioVars>>

\* Mutant: only a cancel that found a running capture is honoured.
CancelPending_running == buffer = "cancelled"
CancelPending == cancel_requested # 0

\* Under cancel_mutex: a latched cancel refuses the capture, else it runs.
BeginCapture(c) ==
    /\ pc[c] = "check"
    /\ ~CancelPending
    /\ capture_active' = TRUE
    /\ Goto(c, "refill")
    /\ UNCHANGED <<serverVars, req, why, reply, session, buffer, cancel_requested,
                   sequence, files, radioVars>>

\* Mutant: the capture returns with capture_active still set.
CaptureOver_failed == capture_active
\* Both exits of the refill loop clear capture_active under cancel_mutex.
CaptureOver == FALSE

\* Mutant: the partial file is not unlinked.
Unlinked_kept(c) == files
\* unlink of worker c's capture file.
Unlinked(c) == files \ OwnFiles(c)

\* The "failed" exit: unlink the partial file; the handler closes the session.
AbandonCapture(c) ==
    /\ files' = Unlinked(c)
    /\ capture_active' = CaptureOver
    /\ req' = [req EXCEPT ![c] = NoReq]
    /\ CallClose(c, "failed")
    /\ UNCHANGED <<serverVars, reply, session, buffer, cancel_requested, sequence,
                   radioVars>>

CaptureRefused(c) ==
    /\ pc[c] = "check"
    /\ CancelPending
    /\ AbandonCapture(c)

\* Mutant: no timeout is set on the IIO context.
RefillReturns_cancelOnly == buffer = "cancelled"
\* buffer_refill returns: data, a cancelled buffer, or the context timeout.
RefillReturns == TRUE

\* The refill, a file write or the deadline fails.
CaptureFails(c) ==
    /\ pc[c] = "refill"
    /\ RefillReturns
    /\ AbandonCapture(c)

\* All samples are in.  A cancel that arrives after the last refill is too late.
CaptureDone(c) ==
    /\ pc[c] = "refill"
    /\ RefillReturns
    /\ capture_active' = CaptureOver
    /\ CASE req[c].cmd = "CAPTURE_IQ_INLINE" ->
              Goto(c, "transfer") /\ UNCHANGED <<req, reply>>
         [] req[c].cmd = "CAPTURE_IQ" ->
              Answer(c, "captured") /\ req' = [req EXCEPT ![c] = NoReq]
         [] req[c].cmd = "CAPTURE_POWER" ->
              Answer(c, "power") /\ req' = [req EXCEPT ![c] = NoReq]
    /\ files' = IF req[c].cmd = "CAPTURE_POWER" THEN files
                ELSE Unlinked(c) \cup {CaptureFile(c, req[c], sequence, TRUE)}
    /\ UNCHANGED <<serverVars, why, session, buffer, cancel_requested, sequence,
                   radioVars>>

\* An inline capture with a short refill or a changed scan mask: the handler
\* closes the session and leaves the file.
ContractViolation(c) ==
    /\ pc[c] = "transfer"
    /\ CallClose(c, "contract")
    /\ req' = [req EXCEPT ![c] = NoReq]
    /\ UNCHANGED <<serverVars, reply, session, adapterVars, radioVars>>

\* The other files in the directory of worker c's capture.
Siblings(c) == {f \in files \ OwnFiles(c) : f.feature = req[c].feature}

\* Encode the file into the response, unlink it, remove its directory.
TransferInline(c) ==
    /\ pc[c] = "transfer"
    /\ Siblings(c) = {}
    /\ files' = Unlinked(c)
    /\ req' = [req EXCEPT ![c] = NoReq]
    /\ Answer(c, "inline")
    /\ UNCHANGED <<serverVars, why, session, buffer, capture_active, cancel_requested,
                   sequence, radioVars>>

\* Reading the file back fails, or rmdir finds another file in the directory.
TransferFails(c) ==
    /\ pc[c] = "transfer"
    /\ files' = Unlinked(c)
    /\ req' = [req EXCEPT ![c] = NoReq]
    /\ CallClose(c, "failed")
    /\ UNCHANGED <<serverVars, reply, session, buffer, capture_active, cancel_requested,
                   sequence, radioVars>>

-----------------------------------------------------------------------------
(***************************************************************************)
(* Closing a session, answering, and the end of a worker.                  *)
(***************************************************************************)
StopSession(c) ==
    /\ pc[c] = "recv"
    /\ Owns(c)
    /\ CallClose(c, "stop")
    /\ UNCHANGED <<serverVars, req, reply, session, adapterVars, radioVars>>

Quit(c) ==
    /\ pc[c] = "recv"
    /\ CallClose(c, "quit")
    /\ UNCHANGED <<serverVars, req, reply, session, adapterVars, radioVars>>

\* Mutant: the reply does not look at the result of sdrd_session_close.
ClosedReply_optimistic(w, restored) ==
    CASE w = "stop"     -> "stopped"
      [] w = "quit"     -> "closing"
      [] w = "failed"   -> "failed_restored"
      [] w = "contract" -> "adapter_contract_violation"
      [] OTHER          -> "none"
\* What the caller of sdrd_session_close answers.
ClosedReply(w, restored) ==
    CASE w = "stop"     -> IF restored THEN "stopped" ELSE "stop_or_restore_failed"
      [] w = "quit"     -> IF restored THEN "closing" ELSE "stop_or_restore_failed"
      [] w = "failed"   -> IF restored THEN "failed_restored" ELSE "failed_restore_fault"
      [] w = "contract" -> "adapter_contract_violation"
      [] OTHER          -> "none"

\* The return from sdrd_session_close to its caller.
Closed(c, restored) ==
    /\ pc' = [pc EXCEPT ![c] = IF why[c] = "exit" THEN "clear" ELSE "reply"]
    /\ reply' = [reply EXCEPT ![c] = ClosedReply(why[c], restored)]
    /\ why' = [why EXCEPT ![c] = "none"]

\* The session after its restore, and after a restore that failed: that one is
\* still owed.
GivenBack(s) == [s EXCEPT !.active = FALSE, !.profile_applied = FALSE,
                          !.restore_required = FALSE]
Faulted(s)   == [s EXCEPT !.active = FALSE, !.profile_applied = FALSE,
                          !.faulted = TRUE]

NothingToClose(s) == ~s.active /\ ~s.restore_required

\* sdrd_session_close with nothing owned and nothing owed.
CloseNothing(c) ==
    /\ pc[c] = "close"
    /\ NothingToClose(session[c])
    /\ Closed(c, TRUE)
    /\ UNCHANGED <<serverVars, req, session, adapterVars, radioVars>>

\* Stop (destroy the buffer) and restore every attribute of the snapshot.
CloseRestored(c) ==
    /\ pc[c] = "close"
    /\ ~NothingToClose(session[c])
    /\ buffer' = "none"
    /\ radio' = IF session[c].restore_required
                THEN Written(session[c].saved, AllWritten) ELSE radio
    /\ session' = [session EXCEPT ![c] = GivenBack(session[c])]
    /\ Closed(c, TRUE)
    /\ UNCHANGED <<serverVars, req, capture_active, cancel_requested, sequence, files,
                   restore_failed>>

\* The restore fails after k attribute writes.
CloseFaulted(c, k) ==
    /\ pc[c] = "close"
    /\ session[c].restore_required
    /\ buffer' = "none"
    /\ radio' = Written(session[c].saved, k)
    /\ session' = [session EXCEPT ![c] = Faulted(session[c])]
    /\ restore_failed' = TRUE
    /\ Closed(c, FALSE)
    /\ UNCHANGED <<serverVars, req, capture_active, cancel_requested, sequence, files>>

\* send_all succeeds: leave after "closing", else back to the loop's test.
\* It has no timeout, so with a client that stays and does not read the worker
\* may never come so far: Fairness does not ask for this step.
SendReply(c) ==
    /\ pc[c] = "reply"
    /\ IF reply[c] = "closing" \/ LoopTop(c) = "close"
       THEN CallClose(c, "exit")
       ELSE Goto(c, "recv") /\ UNCHANGED why
    /\ reply' = [reply EXCEPT ![c] = "none"]
    /\ UNCHANGED <<serverVars, req, session, adapterVars, radioVars>>

\* The client is gone when the response is sent.
SendFails(c) ==
    /\ pc[c] = "reply"
    /\ CallClose(c, "exit")
    /\ reply' = [reply EXCEPT ![c] = "none"]
    /\ UNCHANGED <<serverVars, req, session, adapterVars, radioVars>>

\* Mutant: the generation outlives its connection.
ForgottenGeneration_kept == active_generation
ForgottenGeneration == 0

\* serve_client forgets the generation after the session is closed.
ClearGeneration(c) ==
    /\ pc[c] = "clear"
    /\ RuntimeMutexFree
    /\ active_generation' = ForgottenGeneration
    /\ Goto(c, "release")
    /\ UNCHANGED <<acceptor, cancelGen, worker_active, stop_requested, req, why, reply,
                   session, adapterVars, radioVars>>

\* client_worker frees the worker slot and ends.
Release(c) ==
    /\ pc[c] = "release"
    /\ RuntimeMutexFree
    /\ active_generation' = ForgottenGeneration
    /\ worker_active' = FALSE
    /\ Goto(c, "free")
    /\ session' = [session EXCEPT ![c] = sdrd_session_init]
    /\ UNCHANGED <<acceptor, cancelGen, stop_requested, req, why, reply, adapterVars,
                   radioVars>>

-----------------------------------------------------------------------------
\* The acceptor thread's own steps (a client decides whether Accept happens).
AcceptorStep ==
    \/ AcceptorTop
    \/ FirstLineRefused
    \/ \E g \in Gens : CancelCheck(g)
    \/ CancelLatch
    \/ ServerBusy
    \/ \E c \in Conns : Spawn(c)
    \/ SpawnFails
    \/ Exit

\* What a worker does when a request or a read error reaches it.
Receive(c) ==
    \/ ReadFails(c)
    \/ Inform(c)
    \/ \E g \in Gens : StartSession(c, g)
    \/ SnapshotFails(c)
    \/ \E p \in Settings : ApplyProfile(c, p)
    \/ \E p \in Settings, k \in FailAt : ApplyFails(c, p, k)
    \/ \E cmd \in Captures, f \in Features : OpenCapture(c, cmd, f)
    \/ OpenFails(c)
    \/ StopSession(c)
    \/ Quit(c)

\* What a worker does inside a handler and on its way out.
Proceed(c) ==
    \/ Publish(c)
    \/ BeginCapture(c)
    \/ CaptureRefused(c)
    \/ CaptureFails(c)
    \/ CaptureDone(c)
    \/ ContractViolation(c)
    \/ TransferInline(c)
    \/ TransferFails(c)
    \/ CloseNothing(c)
    \/ CloseRestored(c)
    \/ \E k \in FailAt \ {AllWritten} : CloseFaulted(c, k)
    \/ SendReply(c)
    \/ SendFails(c)
    \/ ClearGeneration(c)
    \/ Release(c)

WorkerStep(c) == Receive(c) \/ Proceed(c)

\* The daemon has exited.
Stopped == acceptor = "exited" /\ UNCHANGED vars

Next ==
    \/ AcceptorStep
    \/ Accept
    \/ StopSignal
    \/ \E c \in Conns : WorkerStep(c)
    \/ Stopped

Spec == Init /\ [][Next]_vars

\* A worker in send_all, the only place where a client can keep a thread: no
\* SO_SNDTIMEO is set, and a reply may be larger than the socket's buffer.
Sending(c) == pc[c] = "reply"

\* Both threads run; receive_line always returns (SO_RCVTIMEO is set on every
\* client socket) and so does a refill (the IIO context has a timeout).  The
\* acceptor's own replies are one short line on a new socket, which its buffer
\* takes.  pthread_mutex_lock returns although cancel clients keep taking
\* runtime.mutex: strong fairness.  Nothing is assumed of clients, not even
\* that they read: a send need not end.
Fairness ==
    /\ WF_vars(AcceptorStep)
    /\ \A c \in Conns : /\ WF_vars(~Sending(c) /\ WorkerStep(c))
                       /\ SF_vars(Publish(c) \/ ClearGeneration(c) \/ Release(c))

FairSpec == Spec /\ Fairness

-----------------------------------------------------------------------------
(***************************************************************************)
(* Safety                                                                  *)
(***************************************************************************)
\* One worker at a time: the accept loop (main.c) never lets two connections
\* reach the radio, although workers are detached and end on their own.
OneWorker ==
    \A c, d \in Conns : pc[c] # "free" /\ pc[d] # "free" => c = d

\* A capture that is running has a buffer, so the buffer that adapter_cancel
\* cancels from the acceptor thread has not been destroyed by the worker, and
\* only a worker inside the refill loop leaves capture_active set.
CancelSeesLiveBuffer ==
    capture_active => buffer # "none" /\ \E c \in Conns : pc[c] = "refill"

\* No lost cancel: whenever the latch is set while a capture is running, the
\* capture's buffer has been cancelled.  A cancel that comes before
\* capture_active is set must therefore have refused the capture.
CancelReachesRefill ==
    capture_active /\ cancel_requested # 0 => buffer = "cancelled"

\* A latched cancel names the session it stops, in every session that is owned
\* (SDRD_CONTROL_PLANE_DESIGN.md: a second connection may issue only a
\* generation-correlated CANCEL_SESSION).
CancelCorrelated ==
    \A c \in Conns : Owns(c) /\ cancel_requested # 0
                        => cancel_requested = session[c].generation

\* Unless a restore failed, the radio is in the state the daemon found it in,
\* or some connection still has the original snapshot and owes its restore.
RestorationOwed ==
    ~restore_failed =>
        \/ radio = Baseline
        \/ \E c \in Conns : session[c].restore_required /\ session[c].saved = Baseline

\* "stopped" and "..._failed_restored" are true when they are sent: the radio
\* holds the session's snapshot, no capture runs and no partial file is left.
RepliesTruthful ==
    \A c \in Conns : reply[c] \in {"stopped", "failed_restored"} =>
        /\ radio = session[c].saved
        /\ buffer = "none"
        /\ ~capture_active
        /\ \A f \in files : f.complete

\* Partial capture files exist only while their capture runs.
NoPartialFiles ==
    \A f \in files : ~f.complete =>
        \E c \in Conns : pc[c] \in {"check", "refill"} /\ f \in OwnFiles(c)

\* main destroys the adapter (buffer, IIO context, library) only after the last
\* worker has ended.
NoUseAfterExit ==
    acceptor = "exited" => \A c \in Conns : pc[c] = "free"

\* A failed restore prevents new ownership: an owned session has the radio's
\* original state as its snapshot (SDRD_CONTROL_PLANE_DESIGN.md, "Restore
\* failure faults the session and prevents new ownership").
FaultBlocksOwnership ==
    \A c \in Conns : Owns(c) => session[c].saved = Baseline

\* CAPTURE_IQ_INLINE files are transient: none outlives its request (sdrd
\* README, "immediately removes the P201 temporary file").
InlineFilesTransient ==
    \A f \in files : f.command = "CAPTURE_IQ_INLINE" =>
        \E c \in Conns : /\ pc[c] \in {"check", "refill", "transfer"}
                         /\ f \in OwnFiles(c)

\* While a restore is owed, no step replaces the snapshot it will write back.
SnapshotKept ==
    [][\A c \in Conns :
          session[c].restore_required /\ session'[c].restore_required
             => session'[c].saved = session[c].saved]_vars

-----------------------------------------------------------------------------
(***************************************************************************)
(* Liveness                                                                *)
(***************************************************************************)
\* Every request is answered or its connection ends, whatever the acceptor and
\* its cancel clients do meanwhile; only a client that never takes the reply
\* to its own request keeps the worker (serve_client, send_all).
RequestAnswered ==
    \A c \in Conns : pc[c] \notin {"free", "recv"} ~>
                        (pc[c] \in {"free", "recv"} \/ []Sending(c))

\* After SIGTERM every worker ends, with its session closed, and the daemon
\* exits unless the signal fell between the loop test and accept(), or the
\* client of the last worker never takes its reply (wait_for_worker).
Shutdown ==
    stop_requested ~>
        \/ /\ \A c \in Conns : pc[c] = "free"
           /\ acceptor \in {"exited", "accept"}
        \/ \E c \in Conns : []Sending(c)

-----------------------------------------------------------------------------
(***************************************************************************)
(* The inductive invariant behind the safety properties (SdrdProofs).      *)
(***************************************************************************)
\* A worker exists only while the slot is taken, alone, and never after exit;
\* a slot without a worker has no session.
SlotInv ==
    /\ OneWorker
    /\ \A c \in Conns : pc[c] # "free" => worker_active
    /\ acceptor = "exited" => ~worker_active
    /\ \A c \in Conns : pc[c] = "free" => session[c] = sdrd_session_init

\* capture_active is set exactly while a worker is in the refill loop, and the
\* buffer exists from the opening of a capture on.
CaptureInv ==
    /\ capture_active <=> \E c \in Conns : pc[c] = "refill"
    /\ \A c \in Conns : pc[c] \in {"check", "refill"} => buffer # "none"
    /\ CancelReachesRefill

\* Inside a handler of an owned session, and on the way to close one, the
\* session is owned; a capture knows its request and has a number; an owned
\* session has a generation and owes a restore; a restore that is owed without
\* ownership has failed; a worker leaves the loop only after closing.
SessionInv ==
    \A c \in Conns :
        /\ pc[c] \in {"publish", "check", "refill", "transfer"} => Owns(c)
        /\ pc[c] \in {"check", "refill", "transfer"} => req[c] # NoReq /\ sequence # 0
        /\ Owns(c) => session[c].generation # 0
        /\ pc[c] = "close" /\ why[c] \notin {"quit", "exit"} => Owns(c)
        /\ Owns(c) => session[c].restore_required
        /\ session[c].faulted => restore_failed
        /\ session[c].restore_required /\ ~Owns(c) => session[c].faulted
        /\ pc[c] \in {"clear", "release"} => ~Owns(c)

\* In automatic gain mode the hardware gain is the AGC's.
GainConsistent(r) == r[GainMode] \in ManualModes \/ r[HardwareGain] = Agc

\* While no restore has failed, every owed restore leads home, and with
\* nothing owed the radio is at home.
RadioInv ==
    /\ GainConsistent(radio)
    /\ \A c \in Conns : session[c].restore_required => GainConsistent(session[c].saved)
    /\ ~restore_failed =>
         /\ \A c \in Conns : session[c].restore_required => session[c].saved = Baseline
         /\ (\A c \in Conns : ~session[c].restore_required) => radio = Baseline

IInv == TypeOK /\ SlotInv /\ CaptureInv /\ SessionInv /\ RadioInv

-----------------------------------------------------------------------------
(***************************************************************************)
(* Refinement: the daemon implements RxOwnership.                          *)
(***************************************************************************)
\* The connection that owns the radio; 0 stands for nobody.
Owner == IF \E c \in Conns : Owns(c) THEN CHOOSE c \in Conns : Owns(c) ELSE 0

Place == IF restore_failed THEN "lost"
         ELSE IF radio = Baseline THEN "home" ELSE "tuned"

RxO == INSTANCE RxOwnership WITH
           Clients <- Conns, Nobody <- 0, owner <- Owner, place <- Place,
           cancelled <- (cancel_requested # 0), capturing <- capture_active

\* Every step of the daemon is an ownership step or leaves ownership alone.
ImplementsOwnership == RxO!Spec

=============================================================================
