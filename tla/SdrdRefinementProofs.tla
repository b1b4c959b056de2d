------------------------ MODULE SdrdRefinementProofs ------------------------
(***************************************************************************)
(* What the clients of sdrd are shown: its files, its replies, whom a      *)
(* cancel stops, and the ownership of the radio that RxOwnership promises. *)
(* The proofs rest on the inductive invariant of SdrdProofs.               *)
(***************************************************************************)
EXTENDS SdrdProofs

-----------------------------------------------------------------------------
(***************************************************************************)
(* Capture files                                                           *)
(***************************************************************************)
\* While worker c exists, a partial file is that of its running capture.
LEMMA PartialIsOwn ==
    ASSUME IInv, NoPartialFiles, NEW c \in Conns, WorkerStep(c),
           NEW f \in files, ~f.complete
    PROVE  pc[c] \in {"check", "refill"} /\ f \in OwnFiles(c)
  BY Alone DEF NoPartialFiles

\* The files of a worker's capture stay the same while the capture runs.
LEMMA OwnFilesKept ==
    ASSUME NEW c \in Conns, UNCHANGED <<req, sequence, session>>
    PROVE  OwnFiles(c)' = OwnFiles(c)
  BY DEF OwnFiles, CaptureFile

\* A worker step leaves no partial file behind: adapter_capture_iq unlinks
\* its own on every exit that does not complete it.
LEMMA FilesWorker ==
    ASSUME IInv, NoPartialFiles, NEW c \in Conns, WorkerStep(c)
    PROVE  NoPartialFiles'
  <1> SUFFICES ASSUME NEW f \in files', ~f.complete
               PROVE  pc'[c] \in {"check", "refill"} /\ f \in OwnFiles(c)'
    BY DEF NoPartialFiles
  <1> pc \in [Conns -> {"free", "recv", "publish", "check", "refill", "transfer",
                        "close", "reply", "clear", "release"}]
    BY DEF IInv, TypeOK
  <1>1. CASE files' \subseteq files /\ pc[c] \notin {"check", "refill"}
    BY <1>1, PartialIsOwn
  <1>2. ASSUME NEW cmd \in Captures, NEW g \in Features, OpenCapture(c, cmd, g)
        PROVE  pc'[c] \in {"check", "refill"} /\ f \in OwnFiles(c)'
    <2>1. f \notin files
      BY <1>2, PartialIsOwn DEF OpenCapture, MayCapture
    <2>2. f = CaptureFile(c, [cmd |-> cmd, feature |-> g], sequence + 1, FALSE)
      BY <1>2, <2>1 DEF OpenCapture
    <2>3. /\ pc'[c] = "check" /\ session' = session /\ sequence' = sequence + 1
          /\ req'[c] = [cmd |-> cmd, feature |-> g]
      BY <1>2 DEF OpenCapture, Goto, IInv, TypeOK
    <2>4. QED
      BY <2>2, <2>3 DEF OwnFiles, CaptureFile
  <1>3. CASE BeginCapture(c)
    <2>1. f \in OwnFiles(c)
      BY <1>3, PartialIsOwn DEF BeginCapture
    <2>2. pc'[c] = "refill"
      BY <1>3 DEF BeginCapture, Goto
    <2>3. QED
      BY <1>3, <2>1, <2>2, OwnFilesKept DEF BeginCapture
  <1>4. CASE CaptureRefused(c) \/ CaptureFails(c)
    BY <1>4, PartialIsOwn DEF CaptureRefused, CaptureFails, AbandonCapture, Unlinked
  <1>5. CASE CaptureDone(c)
    <2>1. req[c].cmd \in Captures
      BY <1>5, CaptureRequest DEF CaptureDone, IInv
    <2>2. CASE req[c].cmd = "CAPTURE_POWER"
      <3>1. f \in files /\ f \in OwnFiles(c)
        BY <1>5, <2>2, PartialIsOwn DEF CaptureDone
      <3>2. f.command = "CAPTURE_POWER"
        BY <2>2, <3>1 DEF OwnFiles, CaptureFile
      <3>3. f.command \in {"CAPTURE_IQ", "CAPTURE_IQ_INLINE"}
        BY <3>1 DEF IInv, TypeOK, Files
      <3>4. QED
        BY <3>2, <3>3
    <2>3. CASE req[c].cmd # "CAPTURE_POWER"
      <3>1. f \in Unlinked(c) \/ f = CaptureFile(c, req[c], sequence, TRUE)
        BY <1>5, <2>3 DEF CaptureDone
      <3>2. QED
        BY <3>1, PartialIsOwn DEF Unlinked, CaptureFile
    <2>4. QED
      BY <2>2, <2>3
  <1>6. CASE TransferInline(c) \/ TransferFails(c)
    BY <1>6, <1>1 DEF TransferInline, TransferFails, Unlinked
  <1>7. \/ files' \subseteq files /\ pc[c] \notin {"check", "refill"}
        \/ \E cmd \in Captures, g \in Features : OpenCapture(c, cmd, g)
        \/ BeginCapture(c) \/ CaptureRefused(c) \/ CaptureFails(c) \/ CaptureDone(c)
        \/ TransferInline(c) \/ TransferFails(c)
    BY DEF WorkerStep, Receive, Proceed, ReadFails, Inform, StartSession, SnapshotFails,
       ApplyProfile, ApplyFails, OpenFails, MayCapture, StopSession, Quit, Publish,
       ContractViolation, CloseNothing, CloseRestored, CloseFaulted, SendReply, SendFails,
       ClearGeneration, Release, adapterVars
  <1>8. QED
    BY <1>1, <1>2, <1>3, <1>4, <1>5, <1>6, <1>7

\* The steps of the acceptor, accept() and a signal that start no worker.
AcceptorSteps ==
    \/ AcceptorTop \/ Accept \/ FirstLineRefused \/ ServerBusy \/ SpawnFails \/ StopSignal
    \/ Exit \/ Stopped \/ CancelLatch
    \/ \E g \in Gens : CancelCheck(g)

\* They leave the workers, the files and the radio alone.
LEMMA AcceptorFrame ==
    ASSUME AcceptorSteps
    PROVE  UNCHANGED <<pc, req, why, reply, session, capture_active, sequence, files, radio,
                       restore_failed>>
  BY DEF AcceptorSteps, AcceptorTop, Accept, FirstLineRefused, ServerBusy, SpawnFails,
     StopSignal, Exit, Stopped, CancelLatch, CancelCheck, vars, workerVars, adapterVars,
     radioVars

\* Every step is a worker's, the start of a worker, or one of these.
LEMMA Steps ==
    Next => (\E c \in Conns : WorkerStep(c) \/ Spawn(c)) \/ AcceptorSteps
  BY DEF Next, AcceptorStep, AcceptorSteps

\* A connection that is handed to a worker has a session that nobody uses.
LEMMA SpawnFrame ==
    ASSUME IInv, NEW c \in Conns, Spawn(c)
    PROVE  /\ \A d \in Conns : pc[d] = "free" /\ session[d] = sdrd_session_init
           /\ pc'[c] \in {"recv", "close"}
           /\ \A d \in Conns \ {c} : pc'[d] = "free"
           /\ UNCHANGED <<req, reply, session, buffer, capture_active, cancel_requested,
                          sequence, files, radio, restore_failed, active_generation>>
           /\ acceptor' # "cancel"
  <1>1. pc[c] = "free" /\ session[c] = sdrd_session_init /\ session' = session
    BY DEF Spawn, IInv, TypeOK, SlotInv
  <1>2. QED
    BY <1>1 DEF Spawn, WorkerSlotFree, IInv, TypeOK, SlotInv, LoopTop, adapterVars, radioVars

\* Every step keeps partial files to running captures.
LEMMA FilesStep ==
    ASSUME IInv, NoPartialFiles, Next
    PROVE  NoPartialFiles'
  <1>1. ASSUME NEW c \in Conns, WorkerStep(c) PROVE NoPartialFiles'
    BY <1>1, FilesWorker
  <1>2. ASSUME NEW c \in Conns, Spawn(c) PROVE NoPartialFiles'
    BY <1>2, SpawnFrame DEF NoPartialFiles
  <1>3. CASE AcceptorSteps
    BY <1>3, AcceptorFrame, OwnFilesKept DEF NoPartialFiles
  <1>4. QED
    BY <1>1, <1>2, <1>3, Steps

\* Partial capture files exist only while their capture runs, in every daemon
\* run: each failing exit of adapter_capture_iq unlinks what it has written.
THEOREM PartialFilesRemoved == Spec => []NoPartialFiles
  <1>1. Init => NoPartialFiles
    BY DEF Init, NoPartialFiles
  <1>2. IInv /\ NoPartialFiles /\ [Next]_vars => NoPartialFiles'
    <2>1. ASSUME NoPartialFiles, UNCHANGED vars PROVE NoPartialFiles'
      BY <2>1, OwnFilesKept
         DEF NoPartialFiles, vars, serverVars, workerVars, adapterVars, radioVars
    <2>2. QED
      BY <2>1, FilesStep
  <1>3. QED
    BY <1>1, <1>2, Inductive, PTL DEF Spec

-----------------------------------------------------------------------------
(***************************************************************************)
(* Replies                                                                 *)
(***************************************************************************)
\* A reply exists between the handler that wrote it and send_all.
ReplyInv == \A c \in Conns : reply[c] # "none" => pc[c] = "reply"

\* What RepliesTruthful says of worker c.
Truthful(c) ==
    reply[c] \in {"stopped", "failed_restored"} =>
        /\ radio = session[c].saved
        /\ buffer = "none"
        /\ ~capture_active
        /\ \A f \in files : f.complete

\* A worker that has nothing to answer, and one whose reply is another one.
LEMMA OtherReply ==
    ASSUME NEW c \in Conns, reply'[c] \notin {"stopped", "failed_restored"}
    PROVE  Truthful(c)'
  BY DEF Truthful

\* A worker step answers "stopped" and "..._failed_restored" only after
\* sdrd_session_close has written the snapshot back.
LEMMA RepliesWorker ==
    ASSUME IInv, NoPartialFiles, ReplyInv, NEW c \in Conns, WorkerStep(c)
    PROVE  Truthful(c)' /\ (reply'[c] # "none" => pc'[c] = "reply")
  <1> DEFINE Goal == Truthful(c)' /\ (reply'[c] # "none" => pc'[c] = "reply")
  <1> /\ pc \in [Conns -> {"free", "recv", "publish", "check", "refill", "transfer",
                        "close", "reply", "clear", "release"}]
      /\ reply \in [Conns -> Replies] /\ why \in [Conns -> {"none", "stop", "quit", "failed", "contract", "exit"}]
      /\ session \in [Conns -> Sessions] /\ radio \in RadioStates
      /\ (reply[c] # "none" => pc[c] = "reply")
    BY DEF IInv, TypeOK, ReplyInv
  <1>1. ASSUME reply' = reply, pc[c] # "reply" PROVE Goal
    BY <1>1, OtherReply
  <1>2. ASSUME NEW a \in {"info", "owned", "applied", "captured", "inline", "power"},
               Answer(c, a)
        PROVE  Goal
    BY <1>2, OtherReply DEF Answer, Goto
  <1>3. CASE CloseNothing(c)
    <2>1. why[c] \in {"none", "quit", "exit"} \/ Owns(c)
      BY <1>3 DEF CloseNothing, IInv, SessionInv
    <2>2. why[c] \in {"none", "quit", "exit"}
      BY <1>3, <2>1 DEF CloseNothing, NothingToClose, Owns
    <2>3. reply'[c] \in {"none", "closing"} /\ (reply'[c] = "closing" => pc'[c] = "reply")
      BY <1>3, <2>2 DEF CloseNothing, Closed, ClosedReply
    <2>4. QED
      BY <2>3, OtherReply
  <1>4. CASE CloseRestored(c)
    <2>1. session[c].restore_required
      BY <1>4 DEF CloseRestored, NothingToClose, IInv, SessionInv, Owns
    <2>2. GainConsistent(session[c].saved) /\ session[c].saved \in RadioStates
      BY <2>1 DEF IInv, RadioInv, Sessions
    <2>3. radio' = session[c].saved
      BY <1>4, <2>1, <2>2, WrittenAll DEF CloseRestored
    <2>4. session'[c].saved = session[c].saved
      BY <1>4, ClosedSession DEF CloseRestored
    <2>5. buffer' = "none" /\ capture_active' = capture_active /\ files' = files
      BY <1>4 DEF CloseRestored
    <2>6. ~capture_active
      BY <1>4, Alone DEF IInv, CaptureInv, CloseRestored
    <2>7. \A f \in files : f.complete
      BY <1>4, PartialIsOwn DEF CloseRestored
    <2>8. reply'[c] # "none" => pc'[c] = "reply"
      BY <1>4 DEF CloseRestored, Closed, ClosedReply
    <2>9. QED
      BY <2>3, <2>4, <2>5, <2>6, <2>7, <2>8 DEF Truthful
  <1>5. ASSUME NEW k \in FailAt \ {AllWritten}, CloseFaulted(c, k) PROVE Goal
    <2>1. /\ reply'[c] \in {"none", "stop_or_restore_failed", "failed_restore_fault",
                            "adapter_contract_violation"}
          /\ reply'[c] # "none" => pc'[c] = "reply"
      BY <1>5 DEF CloseFaulted, Closed, ClosedReply
    <2>2. QED
      BY <2>1, OtherReply
  <1>6. CASE SendReply(c) \/ SendFails(c)
    <2>1. reply'[c] = "none"
      BY <1>6 DEF SendReply, SendFails
    <2>2. QED
      BY <2>1, OtherReply
  <1>7. CASE CaptureDone(c)
    <2>1. req[c].cmd \in Captures
      BY <1>7, CaptureRequest DEF CaptureDone, IInv
    <2>2. reply' = reply \/ Answer(c, "captured") \/ Answer(c, "power")
      BY <1>7, <2>1 DEF CaptureDone, Captures
    <2>3. QED
      BY <1>1, <1>2, <1>7, <2>2 DEF CaptureDone
  <1>8. \/ reply' = reply /\ pc[c] # "reply"
        \/ \E a \in {"info", "owned", "applied", "captured", "inline", "power"} : Answer(c, a)
        \/ CloseNothing(c) \/ CloseRestored(c) \/ SendReply(c) \/ SendFails(c)
        \/ \E k \in FailAt \ {AllWritten} : CloseFaulted(c, k)
        \/ CaptureDone(c)
    BY DEF WorkerStep, Receive, Proceed, ReadFails, Inform, StartSession, SnapshotFails,
       ApplyProfile, ApplyFails, OpenCapture, OpenFails, MayCapture, StopSession, Quit,
       Publish, BeginCapture, CaptureRefused, CaptureFails, AbandonCapture,
       ContractViolation, TransferInline, TransferFails, ClearGeneration, Release
  <1>9. QED
    BY <1>1, <1>2, <1>3, <1>4, <1>5, <1>6, <1>7, <1>8

\* A worker writes no reply but its own.
LEMMA ReplyFrame ==
    ASSUME IInv, NEW c \in Conns, WorkerStep(c), NEW d \in Conns \ {c}
    PROVE  reply'[d] = reply[d]
  <1> reply \in [Conns -> Replies]
    BY DEF IInv, TypeOK
  <1>1. CASE reply' = reply \/ \E a : reply' = [reply EXCEPT ![c] = a]
    BY <1>1
  <1>2. CASE CaptureDone(c)
    <2>1. req[c].cmd \in Captures
      BY <1>2, CaptureRequest DEF CaptureDone, IInv
    <2>2. QED
      BY <1>1, <1>2, <2>1 DEF CaptureDone, Captures, Answer
  <1>3. \/ reply' = reply \/ \E a : reply' = [reply EXCEPT ![c] = a]
        \/ CaptureDone(c)
    BY DEF WorkerStep, Receive, Proceed, ReadFails, Inform, StartSession, SnapshotFails,
       ApplyProfile, ApplyFails, OpenCapture, OpenFails, StopSession, Quit,
       Publish, BeginCapture, CaptureRefused, CaptureFails, AbandonCapture,
       ContractViolation, TransferInline, TransferFails, ClearGeneration, Release,
       CloseNothing, CloseRestored, CloseFaulted, Closed, SendReply, SendFails, Answer
  <1>4. QED
    BY <1>1, <1>2, <1>3

\* Every step keeps the replies true until they are sent: while one waits, the
\* radio, the buffer and the files belong to the worker that wrote it.
LEMMA RepliesStep ==
    ASSUME IInv, NoPartialFiles, ReplyInv, RepliesTruthful, Next
    PROVE  ReplyInv' /\ RepliesTruthful'
  <1>1. ASSUME NEW c \in Conns, WorkerStep(c) PROVE ReplyInv' /\ RepliesTruthful'
    <2>1. \A d \in Conns \ {c} : reply'[d] = "none"
      BY <1>1, ReplyFrame, Alone DEF ReplyInv
    <2>2. QED
      BY <1>1, <2>1, RepliesWorker DEF ReplyInv, RepliesTruthful, Truthful
  <1>2. ASSUME NEW c \in Conns, Spawn(c) PROVE ReplyInv' /\ RepliesTruthful'
    BY <1>2, SpawnFrame DEF ReplyInv, RepliesTruthful
  <1>3. CASE AcceptorSteps
    <2>1. buffer = "none" /\ ~capture_active => buffer' = "none"
      BY <1>3 DEF AcceptorSteps, AcceptorTop, Accept, FirstLineRefused, ServerBusy,
         SpawnFails, StopSignal, Exit, Stopped, CancelLatch, CancelCheck, vars, adapterVars
    <2>2. QED
      BY <1>3, <2>1, AcceptorFrame DEF ReplyInv, RepliesTruthful
  <1>4. QED
    BY <1>1, <1>2, <1>3, Steps

\* "stopped" and "..._failed_restored" are true when they are sent, whatever
\* the acceptor and its cancel clients do meanwhile.
THEOREM RepliesAreTrue == Spec => []RepliesTruthful
  <1>1. Init => ReplyInv /\ RepliesTruthful
    BY DEF Init, ReplyInv, RepliesTruthful
  <1>2. IInv /\ NoPartialFiles /\ ReplyInv /\ RepliesTruthful /\ [Next]_vars
            => ReplyInv' /\ RepliesTruthful'
    <2>1. ASSUME ReplyInv, RepliesTruthful, UNCHANGED vars
          PROVE  ReplyInv' /\ RepliesTruthful'
      BY <2>1 DEF ReplyInv, RepliesTruthful, vars, workerVars, adapterVars, radioVars
    <2>2. QED
      BY <2>1, RepliesStep
  <1>3. QED
    BY <1>1, <1>2, Inductive, PartialFilesRemoved, PTL DEF Spec

-----------------------------------------------------------------------------
(***************************************************************************)
(* Whom a cancel stops                                                     *)
(***************************************************************************)
\* The acceptor holds runtime.mutex for a cancel of the published generation,
\* and the published generation is the worker's own.
CancelInv ==
    /\ acceptor = "cancel" => cancelGen # 0
    /\ ~ReuseConnection =>
         /\ acceptor = "cancel" => cancelGen = active_generation
         /\ (\A c \in Conns : pc[c] = "free") => active_generation = 0
         /\ \A c \in Conns : pc[c] # "free" /\ active_generation # 0
                                => active_generation = session[c].generation
         /\ CancelCorrelated

\* The generation of a session changes only by START_SESSION, which a client
\* of one session per connection sends to a fresh session, and when the worker
\* ends.
LEMMA GenerationKept ==
    ASSUME IInv, NEW c \in Conns, WorkerStep(c)
    PROVE  \/ session'[c].generation = session[c].generation
           \/ \E g \in Gens : StartSession(c, g)
           \/ Release(c)
  <1> session \in [Conns -> Sessions] /\ session[c] \in Sessions
    BY DEF IInv, TypeOK
  <1>1. CASE SnapshotFails(c)
    BY <1>1 DEF SnapshotFails, Sessions
  <1>2. ASSUME NEW p \in Settings, ApplyProfile(c, p)
        PROVE  session'[c].generation = session[c].generation
    BY <1>2 DEF ApplyProfile, Sessions
  <1>3. CASE CloseRestored(c) \/ \E k \in FailAt \ {AllWritten} : CloseFaulted(c, k)
    <2>1. session'[c] = GivenBack(session[c]) \/ session'[c] = Faulted(session[c])
      BY <1>3 DEF CloseRestored, CloseFaulted
    <2>2. QED
      BY <2>1, ClosedSession
  <1>4. \/ session' = session
        \/ \E g \in Gens : StartSession(c, g)
        \/ SnapshotFails(c)
        \/ \E p \in Settings : ApplyProfile(c, p)
        \/ CloseRestored(c)
        \/ \E k \in FailAt \ {AllWritten} : CloseFaulted(c, k)
        \/ Release(c)
    BY DEF WorkerStep, Receive, Proceed, ReadFails, Inform, ApplyFails, OpenCapture,
       OpenFails, StopSession, Quit, Publish, BeginCapture, CaptureRefused,
       AbandonCapture, CaptureFails, CaptureDone, ContractViolation, TransferInline,
       TransferFails, CloseNothing, SendReply, SendFails, ClearGeneration
  <1>5. QED
    BY <1>1, <1>2, <1>3, <1>4

\* Worker c touches the published generation in three places, with
\* runtime.mutex, and the latch in one.
CancelMoves(c) ==
    /\ acceptor' = acceptor /\ cancelGen' = cancelGen
    /\ \/ active_generation' = active_generation
       \/ RuntimeMutexFree /\ active_generation' = session[c].generation /\ session' = session
       \/ RuntimeMutexFree /\ active_generation' = 0
    /\ cancel_requested' \in {cancel_requested, 0}
    /\ Release(c) => active_generation' = 0
    /\ pc'[c] = "free" => Release(c)
    /\ Owns(c)' => Owns(c) \/ cancel_requested' = 0

\* Every worker step keeps to these moves.
LEMMA CancelFrame ==
    ASSUME IInv, NEW c \in Conns, WorkerStep(c)
    PROVE  CancelMoves(c)
  <1> /\ session \in [Conns -> Sessions] /\ session[c] \in Sessions
      /\ pc \in [Conns -> {"free", "recv", "publish", "check", "refill", "transfer",
                        "close", "reply", "clear", "release"}]
    BY DEF IInv, TypeOK
  <1> USE DEF CancelMoves, serverVars, adapterVars, Goto, Answer, CallClose, Owns
  <1>1. CASE Receive(c)
    <2>1. ASSUME NEW g \in Gens, StartSession(c, g) PROVE CancelMoves(c)
      BY <2>1 DEF StartSession, Release
    <2>2. CASE SnapshotFails(c)
      BY <2>2 DEF SnapshotFails, Release, Sessions
    <2>3. ASSUME NEW p \in Settings, ApplyProfile(c, p) PROVE CancelMoves(c)
      BY <2>3 DEF ApplyProfile, Release, Sessions
    <2>4. ASSUME \/ ReadFails(c) \/ Inform(c) \/ OpenFails(c) \/ StopSession(c) \/ Quit(c)
                 \/ \E p \in Settings, k \in FailAt : ApplyFails(c, p, k)
                 \/ \E cmd \in Captures, f \in Features : OpenCapture(c, cmd, f)
          PROVE  CancelMoves(c)
      BY <2>4 DEF ReadFails, Inform, OpenFails, StopSession, Quit, ApplyFails, OpenCapture,
         MayCapture, Release
    <2>5. QED
      BY <1>1, <2>1, <2>2, <2>3, <2>4 DEF Receive
  <1>2. CASE Proceed(c)
    <2>1. CASE Publish(c)
      BY <2>1 DEF Publish, Release
    <2>2. CASE CaptureDone(c)
      <3>1. req[c].cmd \in Captures
        BY <2>2, CaptureRequest DEF CaptureDone, IInv
      <3>2. QED
        BY <2>2, <3>1 DEF CaptureDone, Captures, Release
    <2>3. CASE CloseRestored(c)
      BY <2>3, ClosedSession DEF CloseRestored, Closed, Release
    <2>4. ASSUME NEW k \in FailAt \ {AllWritten}, CloseFaulted(c, k) PROVE CancelMoves(c)
      BY <2>4, ClosedSession DEF CloseFaulted, Closed, Release
    <2>5. CASE ClearGeneration(c)
      BY <2>5 DEF ClearGeneration, ForgottenGeneration, Release
    <2>6. CASE Release(c)
      BY <2>6 DEF Release, ForgottenGeneration, sdrd_session_init
    <2>7. CASE CloseNothing(c)
      BY <2>7 DEF CloseNothing, Closed, Release
    <2>8. CASE BeginCapture(c) \/ CaptureRefused(c) \/ CaptureFails(c)
      BY <2>8 DEF BeginCapture, CaptureRefused, CaptureFails, AbandonCapture, Release
    <2>9. CASE ContractViolation(c) \/ TransferInline(c) \/ TransferFails(c)
      BY <2>9 DEF ContractViolation, TransferInline, TransferFails, Release
    <2>10. CASE SendReply(c) \/ SendFails(c)
      BY <2>10 DEF SendReply, SendFails, LoopTop, Release
    <2>11. QED
      BY <1>2, <2>1, <2>2, <2>3, <2>4, <2>5, <2>6, <2>7, <2>8, <2>9, <2>10 DEF Proceed
  <1>3. QED
    BY <1>1, <1>2 DEF WorkerStep

\* Every step keeps the cancel with the session it names.
LEMMA CancelStep ==
    ASSUME IInv, CancelInv, Next
    PROVE  CancelInv'
  <1>1. ASSUME NEW c \in Conns, WorkerStep(c) PROVE CancelInv'
    <2> CancelMoves(c) /\ pc[c] # "free" /\ session[c] \in Sessions /\ 0 \notin Gens
      BY <1>1, CancelFrame, WorkerFrame, ConstantsAssumption DEF IInv, TypeOK, Framed
    <2> SUFFICES ASSUME ~ReuseConnection
                 PROVE  /\ acceptor' = "cancel" => cancelGen' = active_generation'
                        /\ (\A d \in Conns : pc'[d] = "free") => active_generation' = 0
                        /\ \A d \in Conns : pc'[d] # "free" /\ active_generation' # 0
                              => active_generation' = session'[d].generation
                        /\ CancelCorrelated'
      BY DEF CancelInv, CancelMoves
    <2>1. acceptor' = "cancel" => cancelGen' = active_generation'
      BY DEF CancelInv, CancelMoves, RuntimeMutexFree
    <2>2. (\A d \in Conns : pc'[d] = "free") => active_generation' = 0
      BY DEF CancelMoves
    <2>3. ASSUME NEW g \in Gens, StartSession(c, g) PROVE active_generation' = 0
      <3>1. session[c].generation = 0 /\ active_generation' = active_generation
        BY <2>3 DEF StartSession, StartRequested, serverVars
      <3>2. QED
        BY <3>1 DEF CancelInv
    <2>4. pc'[c] # "free" /\ active_generation' # 0 => active_generation' = session'[c].generation
      <3>1. CASE session'[c].generation = session[c].generation
        BY <3>1 DEF CancelInv, CancelMoves
      <3>2. QED
        BY <1>1, <2>3, <3>1, GenerationKept DEF CancelMoves
    <2>5. Owns(c)' /\ cancel_requested' # 0 => cancel_requested' = session'[c].generation
      <3>1. ASSUME NEW g \in Gens, StartSession(c, g) PROVE cancel_requested' = 0
        BY <3>1 DEF StartSession
      <3>2. ASSUME Release(c) PROVE ~Owns(c)'
        BY <3>2 DEF Release, Owns, IInv, TypeOK, sdrd_session_init
      <3>3. CASE session'[c].generation = session[c].generation
        BY <3>3 DEF CancelInv, CancelCorrelated, CancelMoves
      <3>4. QED
        BY <1>1, <3>1, <3>2, <3>3, GenerationKept
    <2>6. \A d \in Conns \ {c} : ~Owns(d)' /\ pc'[d] = "free"
      BY <1>1, Alone DEF Owns, sdrd_session_init
    <2>7. CancelCorrelated'
      BY <2>5, <2>6 DEF CancelCorrelated
    <2>8. QED
      BY <2>1, <2>2, <2>4, <2>6, <2>7
  <1>2. ASSUME NEW c \in Conns, Spawn(c) PROVE CancelInv'
    BY <1>2, SpawnFrame DEF CancelInv, CancelCorrelated, Owns, sdrd_session_init
  <1>3. CASE CancelLatch
    <2>1. UNCHANGED <<pc, session, active_generation>> /\ acceptor' = "top"
          /\ cancel_requested' = cancelGen /\ acceptor = "cancel"
      BY <1>3, AcceptorFrame DEF CancelLatch, AcceptorSteps
    <2>2. \A d \in Conns : Owns(d) => pc[d] # "free"
      BY DEF IInv, SlotInv, Owns, sdrd_session_init
    <2>3. QED
      BY <2>1, <2>2 DEF CancelInv, CancelCorrelated, Owns
  <1>4. ASSUME NEW g \in Gens, CancelCheck(g) PROVE CancelInv'
    <2>1. UNCHANGED <<pc, session, active_generation, cancel_requested>>
          /\ (acceptor' = "cancel" => cancelGen' = g /\ g = active_generation)
      BY <1>4, AcceptorFrame DEF CancelCheck, AcceptorSteps, adapterVars
    <2>2. QED
      BY <2>1, ConstantsAssumption DEF CancelInv, CancelCorrelated, Owns
  <1>5. CASE AcceptorSteps /\ ~CancelLatch /\ ~\E g \in Gens : CancelCheck(g)
    <2>1. /\ UNCHANGED <<pc, session, active_generation, cancel_requested, cancelGen>>
          /\ acceptor' = "cancel" => acceptor = "cancel"
      BY <1>5, AcceptorFrame
         DEF AcceptorSteps, AcceptorTop, Accept, FirstLineRefused, ServerBusy,
             SpawnFails, StopSignal, Exit, Stopped, vars, serverVars, adapterVars
    <2>2. QED
      BY <2>1 DEF CancelInv, CancelCorrelated, Owns
  <1>6. QED
    BY <1>1, <1>2, <1>3, <1>4, <1>5, Steps

\* The cancel latch and the published generation, for every client.
LEMMA CancelInductive == Spec => []CancelInv
  <1>1. Init => CancelInv
    BY DEF Init, CancelInv, CancelCorrelated, Owns, sdrd_session_init
  <1>2. IInv /\ CancelInv /\ [Next]_vars => CancelInv'
    <2>1. ASSUME CancelInv, UNCHANGED vars PROVE CancelInv'
      BY <2>1 DEF CancelInv, CancelCorrelated, Owns, vars, serverVars, workerVars, adapterVars
    <2>2. QED
      BY <2>1, CancelStep
  <1>3. QED
    BY <1>1, <1>2, Inductive, PTL DEF Spec

\* With one session per connection, as the clients of this repository use it, a
\* latched CANCEL_SESSION names the session that is owned: no late or early
\* cancel of handle_cancel_client reaches another one.
THEOREM CancelNamesOwner ==
    ASSUME ReuseConnection = FALSE
    PROVE  Spec => []CancelCorrelated
  <1>1. CancelInv => CancelCorrelated
    BY DEF CancelInv
  <1>2. QED
    BY <1>1, CancelInductive, PTL

-----------------------------------------------------------------------------
(***************************************************************************)
(* The daemon implements RxOwnership                                       *)
(***************************************************************************)
\* While no other connection owns the radio, the owner is c or nobody.
LEMMA OwnerAlone ==
    ASSUME NEW c \in Conns
    PROVE  /\ (\A d \in Conns \ {c} : ~Owns(d)) => Owner = IF Owns(c) THEN c ELSE 0
           /\ (\A d \in Conns \ {c} : ~Owns(d)') => Owner' = IF Owns(c)' THEN c ELSE 0
  <1>1. ASSUME \A d \in Conns \ {c} : ~Owns(d) PROVE Owner = IF Owns(c) THEN c ELSE 0
    BY <1>1 DEF Owner
  <1>2. ASSUME \A d \in Conns \ {c} : ~Owns(d)' PROVE Owner' = IF Owns(c)' THEN c ELSE 0
    BY <1>2 DEF Owner
  <1>3. QED
    BY <1>1, <1>2

\* A step that neither starts nor ends an ownership leaves the owner alone.
LEMMA OwnerKept ==
    ASSUME session' = session
    PROVE  Owner' = Owner
  BY DEF Owner, Owns

\* What RxOwnership sees of the daemon stays the same.
Unseen == /\ Owner' = Owner /\ Place' = Place /\ capture_active' = capture_active
          /\ (cancel_requested # 0)' = (cancel_requested # 0)

\* A worker step is a step of RxOwnership or hidden from it.
LEMMA OwnershipWorker ==
    ASSUME IInv, NEW c \in Conns, WorkerStep(c)
    PROVE  RxO!Next \/ Unseen
  <1> /\ session \in [Conns -> Sessions] /\ session[c] \in Sessions
      /\ radio \in RadioStates /\ restore_failed \in BOOLEAN /\ capture_active \in BOOLEAN
      /\ c # 0
    BY ConstantsAssumption DEF IInv, TypeOK
  <1>1. /\ Owner = IF Owns(c) THEN c ELSE 0
        /\ Owner' = IF Owns(c)' THEN c ELSE 0
    BY Alone, OwnerAlone DEF Owns, sdrd_session_init
  <1>2. capture_active = (pc[c] = "refill")
    BY Alone DEF IInv, CaptureInv
  <1>3. ASSUME NEW g \in Gens, StartSession(c, g) PROVE RxO!Acquire(c)
    <2>1. ~Owns(c) /\ Owns(c)' /\ cancel_requested' = 0 /\ UNCHANGED <<radio, restore_failed>>
          /\ capture_active' = FALSE /\ capture_active = FALSE
      BY <1>2, <1>3 DEF StartSession, MayStart, Owns, Owned, radioVars
    <2>2. QED
      BY <1>1, <2>1 DEF RxO!Acquire, Place
  <1>4. ASSUME \/ \E p \in Settings : ApplyProfile(c, p)
               \/ \E p \in Settings, k \in FailAt : ApplyFails(c, p, k)
        PROVE  RxO!Tune
    <2>1. /\ Owns(c) /\ Owns(c)' /\ capture_active' = capture_active /\ ~capture_active
          /\ UNCHANGED <<cancel_requested, restore_failed>>
      BY <1>2, <1>4 DEF ApplyProfile, ApplyFails, Owns, Sessions
    <2>2. Place' = IF restore_failed THEN "lost" ELSE IF radio' = Baseline THEN "home" ELSE "tuned"
      BY <2>1 DEF Place, Baseline, Profile, Attrs
    <2>3. \E p \in {"home", "tuned"} : Place' = RxO!Move(p)
      BY <2>2 DEF RxO!Move, Place
    <2>4. QED
      BY <1>1, <2>1, <2>3 DEF RxO!Tune
  <1>5. CASE BeginCapture(c)
    <2>1. /\ session' = session /\ UNCHANGED <<radio, restore_failed, cancel_requested>>
          /\ capture_active' = TRUE /\ cancel_requested = 0 /\ ~capture_active /\ Owns(c)
      BY <1>2, <1>5 DEF BeginCapture, CancelPending, radioVars, IInv, SessionInv
    <2>2. QED
      BY <1>1, <2>1, OwnerKept DEF RxO!BeginCapture, Place, RxO!Next
  <1>6. CASE CaptureFails(c) \/ CaptureDone(c)
    <2>1. /\ session' = session /\ UNCHANGED <<radio, restore_failed, cancel_requested>>
          /\ capture_active' = FALSE /\ capture_active = TRUE
      BY <1>2, <1>6 DEF CaptureFails, CaptureDone, AbandonCapture, CaptureOver, radioVars
    <2>2. QED
      BY <2>1, OwnerKept DEF RxO!EndCapture, Place, RxO!Next
  <1>7. CASE CloseRestored(c) \/ \E k \in FailAt \ {AllWritten} : CloseFaulted(c, k)
    <2>1. ~Owns(c)' /\ ~capture_active /\ UNCHANGED <<capture_active, cancel_requested>>
      <3>1. session'[c] = GivenBack(session[c]) \/ session'[c] = Faulted(session[c])
        BY <1>7 DEF CloseRestored, CloseFaulted
      <3>2. pc[c] = "close" /\ UNCHANGED <<capture_active, cancel_requested>>
        BY <1>7 DEF CloseRestored, CloseFaulted
      <3>3. ~Owns(c)'
        BY <3>1, ClosedSession DEF Owns
      <3>4. ~capture_active
        BY <1>2, <3>2
      <3>5. QED
        BY <3>2, <3>3, <3>4
    <2>2. session[c].restore_required /\ (~Owns(c) => restore_failed)
      BY <1>7 DEF CloseRestored, CloseFaulted, NothingToClose, IInv, SessionInv, Owns
    <2>3. \/ restore_failed'
          \/ ~restore_failed /\ ~restore_failed' /\ radio' = Baseline
      <3>1. CASE CloseRestored(c)
        <4>1. radio' = session[c].saved
          BY <2>2, <3>1, WrittenAll DEF CloseRestored, IInv, RadioInv, Sessions
        <4>2. QED
          BY <2>2, <3>1, <4>1 DEF CloseRestored, IInv, RadioInv
      <3>2. QED
        BY <1>7, <3>1 DEF CloseFaulted
    <2>4. restore_failed => restore_failed'
      BY <1>7 DEF CloseRestored, CloseFaulted
    <2>5. Place' = IF restore_failed' THEN "lost" ELSE "home"
      BY <2>3 DEF Place, Baseline, Profile, Attrs
    <2>6. CASE Owns(c)
      <3>1. \E p \in {"home", "lost"} : Place' = RxO!Move(p)
        BY <2>4, <2>5 DEF RxO!Move, Place
      <3>2. QED
        BY <1>1, <2>1, <2>6, <3>1 DEF RxO!Release, RxO!Next
    <2>7. CASE ~Owns(c)
      BY <1>1, <2>1, <2>2, <2>4, <2>5, <2>7 DEF Unseen, Place
    <2>8. QED
      BY <2>6, <2>7
  <1>8. CASE SnapshotFails(c)
    <2>1. ~Owns(c) /\ ~Owns(c)'
      BY <1>8 DEF SnapshotFails, MayStart, Owns, Sessions
    <2>2. QED
      BY <1>1, <1>8, <2>1 DEF SnapshotFails, Unseen, Place, adapterVars, radioVars
  <1>9. CASE Release(c)
    <2>1. ~Owns(c) /\ ~Owns(c)'
      BY <1>9 DEF Release, Owns, sdrd_session_init, IInv, SessionInv
    <2>2. QED
      BY <1>1, <1>9, <2>1 DEF Release, Unseen, Place, adapterVars, radioVars
  <1>10. CASE CaptureRefused(c)
    BY <1>2, <1>10, OwnerKept
       DEF CaptureRefused, AbandonCapture, CaptureOver, Unseen, Place, radioVars
  <1>11. CASE UNCHANGED <<session, radio, restore_failed, capture_active, cancel_requested>>
    BY <1>11, OwnerKept DEF Unseen, Place
  <1>12. \/ UNCHANGED <<session, radio, restore_failed, capture_active, cancel_requested>>
         \/ \E g \in Gens : StartSession(c, g)
         \/ \E p \in Settings : ApplyProfile(c, p)
         \/ \E p \in Settings, k \in FailAt : ApplyFails(c, p, k)
         \/ BeginCapture(c) \/ CaptureFails(c) \/ CaptureDone(c) \/ CloseRestored(c)
         \/ \E k \in FailAt \ {AllWritten} : CloseFaulted(c, k)
         \/ SnapshotFails(c) \/ Release(c) \/ CaptureRefused(c)
    BY DEF WorkerStep, Receive, Proceed, ReadFails, Inform, OpenCapture, OpenFails,
       StopSession, Quit, Publish, ContractViolation, TransferInline, TransferFails,
       CloseNothing, SendReply, SendFails, ClearGeneration, adapterVars, radioVars
  <1>13. QED
    BY <1>3, <1>4, <1>5, <1>6, <1>7, <1>8, <1>9, <1>10, <1>11, <1>12 DEF RxO!Next

\* Every step is a step of RxOwnership or hidden from it; the acceptor's
\* CancelLatch is its Cancel.
LEMMA OwnershipStep ==
    ASSUME IInv, CancelInv, Next
    PROVE  RxO!Next \/ Unseen
  <1>1. ASSUME NEW c \in Conns, WorkerStep(c) PROVE RxO!Next \/ Unseen
    BY <1>1, OwnershipWorker
  <1>2. ASSUME NEW c \in Conns, Spawn(c) PROVE Unseen
    BY <1>2, SpawnFrame, OwnerKept DEF Unseen, Place
  <1>3. CASE CancelLatch
    <2>1. AcceptorSteps /\ cancel_requested' # 0
      BY <1>3 DEF AcceptorSteps, CancelLatch, CancelInv
    <2>2. QED
      BY <2>1, AcceptorFrame, OwnerKept DEF RxO!Cancel, RxO!Next, Place
  <1>4. CASE AcceptorSteps /\ ~CancelLatch
    <2>1. cancel_requested' = cancel_requested
      BY <1>4 DEF AcceptorSteps, AcceptorTop, Accept, FirstLineRefused, ServerBusy,
         SpawnFails, StopSignal, Exit, Stopped, CancelCheck, vars, adapterVars
    <2>2. QED
      BY <1>4, <2>1, AcceptorFrame, OwnerKept DEF Unseen, Place
  <1>5. QED
    BY <1>1, <1>2, <1>3, <1>4, Steps

\* sdrd implements RxOwnership: with its threads, its cancel latch and its
\* failing hardware it never shows more than one owner, a radio moved under a
\* capture or without an owner, a capture begun by a cancelled owner, or a
\* radio given back away from home without the loss being remembered.
THEOREM OwnershipImplemented == Spec => ImplementsOwnership
  <1>1. Init => RxO!Init
    BY DEF Init, RxO!Init, Owner, Owns, Place, sdrd_session_init
  <1>2. IInv /\ CancelInv /\ [Next]_vars => [RxO!Next]_(RxO!vars)
    <2>1. ASSUME UNCHANGED vars PROVE Unseen
      BY <2>1, OwnerKept DEF Unseen, Place, vars, workerVars, adapterVars, radioVars
    <2>2. Unseen => UNCHANGED RxO!vars
      BY DEF Unseen, RxO!vars
    <2>3. QED
      BY <2>1, <2>2, OwnershipStep
  <1>3. QED
    BY <1>1, <1>2, Inductive, CancelInductive, PTL DEF Spec, ImplementsOwnership, RxO!Spec

=============================================================================
