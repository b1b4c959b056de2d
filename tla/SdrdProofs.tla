----------------------------- MODULE SdrdProofs -----------------------------
(***************************************************************************)
(* Proofs about Sdrd, for every set of connections, generations, features  *)
(* and settings and every capture bound.                                   *)
(***************************************************************************)
EXTENDS Sdrd, TLAPS

-----------------------------------------------------------------------------
(***************************************************************************)
(* Radio states                                                            *)
(***************************************************************************)
\* Attribute writes of a radio state, complete or not, give a radio state.
LEMMA WrittenType ==
    ASSUME radio \in RadioStates, NEW t \in RadioStates, NEW k
    PROVE  Written(t, k) \in RadioStates
  BY DEF Written, RadioStates, Attrs, HardwareGain, GainMode

\* The radio's home state, a requested profile and a zeroed state are states.
LEMMA StatesType ==
    /\ Baseline \in RadioStates
    /\ NoState \in RadioStates
    /\ \A p \in Settings : Profile(p) \in RadioStates
  BY ConstantsAssumption
     DEF Baseline, NoState, Profile, RadioStates, Attrs, HardwareGain

-----------------------------------------------------------------------------
(***************************************************************************)
(* Type correctness                                                        *)
(***************************************************************************)
\* A fresh session has its type.
LEMMA FreshSession == sdrd_session_init \in Sessions
  BY StatesType DEF Sessions, sdrd_session_init

\* No request is a request.
LEMMA NoRequest == NoReq \in Requests
  BY DEF Requests

\* Closing a session, restored or faulted, leaves a session with the same
\* generation and snapshot.
LEMMA ClosedSession ==
    ASSUME NEW s \in Sessions
    PROVE  /\ GivenBack(s) \in Sessions
           /\ Faulted(s) \in Sessions
           /\ GivenBack(s).saved = s.saved /\ Faulted(s).saved = s.saved
           /\ GivenBack(s).generation = s.generation
           /\ Faulted(s).generation = s.generation
           /\ ~GivenBack(s).active /\ ~Faulted(s).active
           /\ ~GivenBack(s).restore_required
           /\ Faulted(s).restore_required = s.restore_required
           /\ GivenBack(s).faulted = s.faulted /\ Faulted(s).faulted
  BY DEF Sessions, GivenBack, Faulted

\* A session stays one when its profile is marked applied or its snapshot fails.
LEMMA EditedSession ==
    ASSUME NEW s \in Sessions
    PROVE  /\ [s EXCEPT !.profile_applied = TRUE] \in Sessions
           /\ [s EXCEPT !.saved = NoState] \in Sessions
  BY StatesType DEF Sessions

\* Initially every variable has its type.
LEMMA InitType == Init => TypeOK
  <1> SUFFICES ASSUME Init PROVE TypeOK
    OBVIOUS
  <1>1. session \in [Conns -> Sessions]
    BY FreshSession DEF Init
  <1>2. req \in [Conns -> Requests]
    BY DEF Init, Requests
  <1>3. reply \in [Conns -> Replies]
    BY DEF Init, Replies
  <1>4. radio \in RadioStates /\ files \subseteq Files
    BY StatesType DEF Init
  <1>5. sequence \in 0..MaxSequence
    BY ConstantsAssumption DEF Init
  <1>6. QED
    BY <1>1, <1>2, <1>3, <1>4, <1>5 DEF Init, TypeOK

\* A step of run_server, accept() or a signal keeps the types.
LEMMA AcceptorType == TypeOK /\ (AcceptorStep \/ Accept \/ StopSignal) => TypeOK'
  <1> SUFFICES ASSUME TypeOK, AcceptorStep \/ Accept \/ StopSignal
               PROVE  TypeOK'
    OBVIOUS
  <1> USE DEF TypeOK, workerVars, adapterVars, radioVars
  <1>1. CASE AcceptorTop  BY <1>1 DEF AcceptorTop
  <1>2. CASE Accept  BY <1>2 DEF Accept
  <1>3. CASE FirstLineRefused  BY <1>3 DEF FirstLineRefused
  <1>4. ASSUME NEW g \in Gens, CancelCheck(g) PROVE TypeOK'
    BY <1>4 DEF CancelCheck
  <1>5. CASE CancelLatch  BY <1>5 DEF CancelLatch
  <1>6. CASE ServerBusy  BY <1>6 DEF ServerBusy
  <1>7. ASSUME NEW c \in Conns, Spawn(c) PROVE TypeOK'
    BY <1>7, FreshSession DEF Spawn, LoopTop
  <1>8. CASE SpawnFails  BY <1>8 DEF SpawnFails
  <1>9. CASE Exit  BY <1>9 DEF Exit
  <1>10. CASE StopSignal  BY <1>10 DEF StopSignal
  <1>11. QED
    BY <1>1, <1>2, <1>3, <1>4, <1>5, <1>6, <1>7, <1>8, <1>9, <1>10 DEF AcceptorStep

\* The types of a worker's control state.
ControlTypes ==
    /\ pc \in [Conns -> {"free", "recv", "publish", "check", "refill", "transfer",
                         "close", "reply", "clear", "release"}]
    /\ why \in [Conns -> {"none", "stop", "quit", "failed", "contract", "exit"}]
    /\ reply \in [Conns -> Replies]

\* Going on at a label, answering and calling sdrd_session_close keep them.
LEMMA ControlSteps ==
    ASSUME TypeOK, NEW c \in Conns,
           \/ /\ \E l \in {"recv", "publish", "check", "refill", "transfer", "release", "free"} :
                   Goto(c, l)
              /\ UNCHANGED <<why, reply>>
           \/ (\E a \in Replies : Answer(c, a)) /\ UNCHANGED why
           \/ (\E w \in {"stop", "quit", "failed", "contract", "exit"} : CallClose(c, w))
              /\ UNCHANGED reply
    PROVE  ControlTypes'
  BY DEF TypeOK, ControlTypes, Goto, Answer, CallClose, Replies

\* The return from sdrd_session_close keeps the types of the control state.
LEMMA ClosedType ==
    ASSUME TypeOK, NEW c \in Conns,
           CloseNothing(c) \/ CloseRestored(c) \/ \E k \in FailAt : CloseFaulted(c, k)
    PROVE  ControlTypes'
  <1>1. CASE Closed(c, TRUE)
    BY <1>1 DEF TypeOK, ControlTypes, Closed, ClosedReply, Replies
  <1>2. CASE Closed(c, FALSE)
    BY <1>2 DEF TypeOK, ControlTypes, Closed, ClosedReply, Replies
  <1>3. QED  BY <1>1, <1>2 DEF CloseNothing, CloseRestored, CloseFaulted

\* A capture in progress knows its command, its directory and its number.
LEMMA CaptureRequest ==
    ASSUME TypeOK, SessionInv, NEW c \in Conns, pc[c] \in {"check", "refill", "transfer"}
    PROVE  /\ req[c].cmd \in Captures /\ req[c].feature \in Features
           /\ session[c].generation \in Gens /\ sequence \in 1..MaxSequence
  BY ConstantsAssumption DEF TypeOK, SessionInv, Requests, Sessions

\* Every worker step keeps the types of the control state.
LEMMA ControlWorker ==
    ASSUME TypeOK, SessionInv, NEW c \in Conns, WorkerStep(c)
    PROVE  ControlTypes'
  <1>1. CASE Receive(c)
    BY <1>1, ControlSteps
       DEF Receive, ReadFails, Inform, StartSession, SnapshotFails, ApplyProfile, ApplyFails,
           OpenCapture, OpenFails, StopSession, Quit, Replies, adapterVars
  <1>2. CASE Publish(c) \/ BeginCapture(c)
    BY <1>2, ControlSteps DEF Publish, BeginCapture, Replies
  <1>3. CASE CaptureRefused(c) \/ CaptureFails(c) \/ ContractViolation(c)
    BY <1>3, ControlSteps
       DEF CaptureRefused, CaptureFails, AbandonCapture, ContractViolation
  <1>4. CASE CaptureDone(c)
    <2>1. req[c].cmd \in Captures
      BY <1>4, CaptureRequest DEF CaptureDone
    <2>2. (Goto(c, "transfer") /\ UNCHANGED reply) \/ Answer(c, "captured") \/ Answer(c, "power")
      BY <1>4, <2>1 DEF CaptureDone, Captures
    <2>3. QED
      BY <1>4, <2>2, ControlSteps DEF CaptureDone, Replies
  <1>5. CASE TransferInline(c) \/ TransferFails(c)
    BY <1>5, ControlSteps DEF TransferInline, TransferFails, Replies
  <1>6. CASE CloseNothing(c) \/ CloseRestored(c) \/ \E k \in FailAt \ {AllWritten} : CloseFaulted(c, k)
    BY <1>6, ClosedType
  <1>7. CASE SendReply(c) \/ SendFails(c)
    <2>1. reply' \in [Conns -> Replies]
      BY <1>7 DEF SendReply, SendFails, TypeOK, Replies
    <2>2. CallClose(c, "exit") \/ (Goto(c, "recv") /\ UNCHANGED why)
      BY <1>7 DEF SendReply, SendFails
    <2>3. QED
      BY <2>1, <2>2 DEF Goto, CallClose, TypeOK, ControlTypes
  <1>8. CASE ClearGeneration(c) \/ Release(c)
    BY <1>8, ControlSteps DEF ClearGeneration, Release
  <1>9. QED
    BY <1>1, <1>2, <1>3, <1>4, <1>5, <1>6, <1>7, <1>8 DEF WorkerStep, Proceed

\* A request that reaches sdrd_handle_request keeps the types.
LEMMA ReceiveType ==
    ASSUME TypeOK, SessionInv, NEW c \in Conns, Receive(c)
    PROVE  TypeOK'
  <1>0. ControlTypes'
    BY ControlWorker DEF WorkerStep
  <1> USE <1>0 DEF TypeOK, ControlTypes, serverVars, adapterVars, radioVars
  <1>1. CASE ReadFails(c)  BY <1>1 DEF ReadFails
  <1>2. CASE Inform(c)  BY <1>2 DEF Inform
  <1>3. ASSUME NEW g \in Gens, StartSession(c, g) PROVE TypeOK'
    BY <1>3 DEF StartSession, Owned, Sessions
  <1>4. CASE SnapshotFails(c)
    <2>1. session' \in [Conns -> Sessions]
      BY <1>4, EditedSession DEF SnapshotFails
    <2>2. QED  BY <1>4, <2>1 DEF SnapshotFails
  <1>5. ASSUME NEW p \in Settings, ApplyProfile(c, p) PROVE TypeOK'
    <2>1. radio' \in RadioStates
      BY <1>5, StatesType, WrittenType DEF ApplyProfile
    <2>2. session' \in [Conns -> Sessions]
      BY <1>5, EditedSession DEF ApplyProfile
    <2>3. QED
      BY <1>5, <2>1, <2>2 DEF ApplyProfile
  <1>6. ASSUME NEW p \in Settings, NEW k \in FailAt, ApplyFails(c, p, k) PROVE TypeOK'
    <2>1. radio' \in RadioStates
      BY <1>6, StatesType, WrittenType DEF ApplyFails
    <2>2. QED
      BY <1>6, <2>1 DEF ApplyFails
  <1>7. ASSUME NEW cmd \in Captures, NEW f \in Features, OpenCapture(c, cmd, f)
        PROVE  TypeOK'
    <2>1. sequence + 1 \in 1..MaxSequence /\ sequence' \in 0..MaxSequence
      BY <1>7, ConstantsAssumption DEF OpenCapture
    <2>2. req' \in [Conns -> Requests]
      BY <1>7 DEF OpenCapture, Requests
    <2>3. session[c].generation \in Gens
      BY <1>7 DEF OpenCapture, MayCapture, SessionInv, Sessions
    <2>4. cmd # "CAPTURE_POWER" =>
             CaptureFile(c, [cmd |-> cmd, feature |-> f], sequence + 1, FALSE) \in Files
      BY <2>1, <2>3 DEF CaptureFile, Captures, Files
    <2>5. files' \subseteq Files
      BY <1>7, <2>4 DEF OpenCapture
    <2>6. /\ buffer' \in {"none", "live", "cancelled"}
          /\ UNCHANGED <<serverVars, session, capture_active, cancel_requested, radioVars>>
      BY <1>7 DEF OpenCapture
    <2>7. QED
      BY <2>1, <2>2, <2>5, <2>6
  <1>8. CASE OpenFails(c)  BY <1>8, ConstantsAssumption DEF OpenFails
  <1>9. CASE StopSession(c)  BY <1>9 DEF StopSession
  <1>10. CASE Quit(c)  BY <1>10 DEF Quit
  <1>11. QED
    BY <1>1, <1>2, <1>3, <1>4, <1>5, <1>6, <1>7, <1>8, <1>9, <1>10 DEF Receive

\* A step inside a handler, or on a worker's way out, keeps the types.
LEMMA ProceedType ==
    ASSUME TypeOK, SessionInv, NEW c \in Conns, Proceed(c)
    PROVE  TypeOK'
  <1>0. ControlTypes'
    BY ControlWorker DEF WorkerStep
  <1> USE <1>0 DEF TypeOK, ControlTypes, serverVars, adapterVars, radioVars
  <1>1. CASE Publish(c)  BY <1>1 DEF Publish, Sessions
  <1>2. CASE BeginCapture(c)  BY <1>2 DEF BeginCapture
  <1>3. CASE CaptureRefused(c)
    <2>1. files' \subseteq Files /\ req' \in [Conns -> Requests]
      BY <1>3, NoRequest DEF CaptureRefused, AbandonCapture, Unlinked
    <2>2. /\ capture_active' = FALSE
          /\ UNCHANGED <<serverVars, session, buffer, cancel_requested, sequence, radioVars>>
      BY <1>3 DEF CaptureRefused, AbandonCapture, CaptureOver
    <2>3. QED  BY <2>1, <2>2
  <1>4. CASE CaptureFails(c)
    <2>1. files' \subseteq Files /\ req' \in [Conns -> Requests]
      BY <1>4, NoRequest DEF CaptureFails, AbandonCapture, Unlinked
    <2>2. /\ capture_active' = FALSE
          /\ UNCHANGED <<serverVars, session, buffer, cancel_requested, sequence, radioVars>>
      BY <1>4 DEF CaptureFails, AbandonCapture, CaptureOver
    <2>3. QED  BY <2>1, <2>2
  <1>5. CASE CaptureDone(c)
    <2>1. /\ req[c].cmd \in Captures /\ req[c].feature \in Features
          /\ session[c].generation \in Gens /\ sequence \in 1..MaxSequence
      BY <1>5, CaptureRequest DEF CaptureDone
    <2>2. req[c].cmd # "CAPTURE_POWER" => CaptureFile(c, req[c], sequence, TRUE) \in Files
      BY <2>1 DEF CaptureFile, Captures, Files
    <2>3. files' \subseteq Files
      BY <1>5, <2>2 DEF CaptureDone, Unlinked
    <2>4. req' \in [Conns -> Requests]
      BY <1>5, <2>1, NoRequest DEF CaptureDone, Captures
    <2>5. /\ capture_active' = FALSE
          /\ UNCHANGED <<serverVars, session, buffer, cancel_requested, sequence, radioVars>>
      BY <1>5 DEF CaptureDone, CaptureOver
    <2>6. QED  BY <2>3, <2>4, <2>5
  <1>6. CASE ContractViolation(c)  BY <1>6, NoRequest DEF ContractViolation
  <1>7. CASE TransferInline(c)  BY <1>7, NoRequest DEF TransferInline, Unlinked
  <1>8. CASE TransferFails(c)  BY <1>8, NoRequest DEF TransferFails, Unlinked
  <1>9. CASE CloseNothing(c)  BY <1>9 DEF CloseNothing
  <1>10. CASE CloseRestored(c)
    <2>1. radio' \in RadioStates
      BY <1>10, WrittenType DEF Sessions, CloseRestored
    <2>2. session' \in [Conns -> Sessions]
      BY <1>10, ClosedSession DEF CloseRestored
    <2>3. QED
      BY <1>10, <2>1, <2>2 DEF CloseRestored
  <1>11. ASSUME NEW k \in FailAt \ {AllWritten}, CloseFaulted(c, k) PROVE TypeOK'
    <2>1. radio' \in RadioStates
      BY <1>11, WrittenType DEF Sessions, CloseFaulted
    <2>2. session' \in [Conns -> Sessions]
      BY <1>11, ClosedSession DEF CloseFaulted
    <2>3. QED
      BY <1>11, <2>1, <2>2 DEF CloseFaulted
  <1>12. CASE SendReply(c)  BY <1>12 DEF SendReply
  <1>13. CASE SendFails(c)  BY <1>13 DEF SendFails
  <1>14. CASE ClearGeneration(c)  BY <1>14 DEF ClearGeneration, ForgottenGeneration
  <1>15. CASE Release(c)  BY <1>15, FreshSession DEF Release, ForgottenGeneration
  <1>16. QED
    BY <1>1, <1>2, <1>3, <1>4, <1>5, <1>6, <1>7, <1>8, <1>9, <1>10, <1>11, <1>12,
       <1>13, <1>14, <1>15 DEF Proceed

-----------------------------------------------------------------------------
(***************************************************************************)
(* The worker slot                                                         *)
(***************************************************************************)
\* What a step of worker c leaves alone: every other worker, the acceptor, and
\* the slot until the worker ends.
Framed(c) ==
    /\ pc[c] # "free"
    /\ \A d \in Conns \ {c} : /\ pc'[d] = pc[d]
                              /\ why'[d] = why[d]
                              /\ req'[d] = req[d]
                              /\ session'[d] = session[d]
    /\ acceptor' = acceptor
    /\ \/ pc'[c] # "free" /\ worker_active' = worker_active
       \/ pc'[c] = "free" /\ worker_active' = FALSE /\ session'[c] = sdrd_session_init

\* Every worker step is framed.
LEMMA WorkerFrame ==
    ASSUME TypeOK, SessionInv, NEW c \in Conns, WorkerStep(c)
    PROVE  Framed(c)
  <1> USE DEF TypeOK, Framed, serverVars, Goto, Answer, CallClose
  <1>1. CASE Receive(c)
    <2>1. CASE ReadFails(c)  BY <2>1 DEF ReadFails
    <2>2. CASE Inform(c)  BY <2>2 DEF Inform
    <2>3. ASSUME NEW g \in Gens, StartSession(c, g)
          PROVE  Framed(c)
      BY <2>3 DEF StartSession
    <2>4. CASE SnapshotFails(c)  BY <2>4 DEF SnapshotFails
    <2>5. ASSUME NEW p \in Settings, ApplyProfile(c, p)
          PROVE  Framed(c)
      BY <2>5 DEF ApplyProfile
    <2>6. ASSUME NEW p \in Settings, NEW k \in FailAt, ApplyFails(c, p, k)
          PROVE  Framed(c)
      BY <2>6 DEF ApplyFails
    <2>7. ASSUME NEW cmd \in Captures, NEW f \in Features, OpenCapture(c, cmd, f)
          PROVE  Framed(c)
      BY <2>7 DEF OpenCapture, MayCapture
    <2>8. CASE OpenFails(c)  BY <2>8 DEF OpenFails, MayCapture
    <2>9. CASE StopSession(c)  BY <2>9 DEF StopSession
    <2>10. CASE Quit(c)  BY <2>10 DEF Quit
    <2>11. QED
      BY <1>1, <2>1, <2>2, <2>3, <2>4, <2>5, <2>6, <2>7, <2>8, <2>9, <2>10 DEF
         Receive
  <1>2. CASE Proceed(c)
    <2>1. CASE Publish(c)  BY <2>1 DEF Publish
    <2>2. CASE BeginCapture(c)  BY <2>2 DEF BeginCapture
    <2>3. CASE CaptureRefused(c)  BY <2>3 DEF CaptureRefused, AbandonCapture
    <2>4. CASE CaptureFails(c)  BY <2>4 DEF CaptureFails, AbandonCapture
    <2>5. CASE CaptureDone(c)
      <3>1. req[c].cmd \in Captures
        BY <2>5, CaptureRequest DEF CaptureDone
      <3>2. QED
        BY <2>5, <3>1 DEF CaptureDone, Captures
    <2>6. CASE ContractViolation(c)  BY <2>6 DEF ContractViolation
    <2>7. CASE TransferInline(c)  BY <2>7 DEF TransferInline
    <2>8. CASE TransferFails(c)  BY <2>8 DEF TransferFails
    <2>9. CASE CloseNothing(c)  BY <2>9 DEF CloseNothing, Closed
    <2>10. CASE CloseRestored(c)  BY <2>10 DEF CloseRestored, Closed
    <2>11. ASSUME NEW k \in FailAt \ {AllWritten}, CloseFaulted(c, k)
           PROVE  Framed(c)
      BY <2>11 DEF CloseFaulted, Closed
    <2>12. CASE SendReply(c)  BY <2>12 DEF SendReply, LoopTop
    <2>13. CASE SendFails(c)  BY <2>13 DEF SendFails
    <2>14. CASE ClearGeneration(c)  BY <2>14 DEF ClearGeneration
    <2>15. CASE Release(c)  BY <2>15 DEF Release
    <2>16. QED
      BY <1>2, <2>1, <2>2, <2>3, <2>4, <2>5, <2>6, <2>7, <2>8, <2>9, <2>10, <2>11,
         <2>12, <2>13, <2>14, <2>15 DEF Proceed
  <1>3. QED  BY <1>1, <1>2 DEF WorkerStep

\* The acceptor hands a connection to a worker only through a free slot, and
\* the daemon exits only when the slot is free again.
LEMMA SlotStep ==
    ASSUME IInv, Next
    PROVE  SlotInv'
  <1> USE DEF IInv, SlotInv, OneWorker
  <1>1. ASSUME NEW c \in Conns, WorkerStep(c) PROVE SlotInv'
    BY <1>1, WorkerFrame DEF Framed
  <1>2. ASSUME NEW c \in Conns, Spawn(c) PROVE SlotInv'
    BY <1>2 DEF Spawn, WorkerSlotFree, LoopTop, TypeOK
  <1>3. CASE Exit
    BY <1>3 DEF Exit, WorkerGone, workerVars
  <1>4. CASE \/ AcceptorTop \/ Accept \/ FirstLineRefused \/ CancelLatch
             \/ ServerBusy \/ SpawnFails \/ StopSignal \/ Stopped
             \/ \E g \in Gens : CancelCheck(g)
    BY <1>4 DEF AcceptorTop, Accept, FirstLineRefused, CancelLatch, ServerBusy,
       SpawnFails,
       WorkerSlotFree, StopSignal, Stopped, CancelCheck, workerVars, vars, serverVars
  <1>5. QED
    BY <1>1, <1>2, <1>3, <1>4 DEF Next, AcceptorStep

-----------------------------------------------------------------------------
(***************************************************************************)
(* Captures and cancellation                                               *)
(***************************************************************************)
\* CaptureInv as it reads for worker c, the only one.
CaptureLocal(c) ==
    /\ capture_active <=> pc[c] = "refill"
    /\ pc[c] \in {"check", "refill"} => buffer # "none"
    /\ CancelReachesRefill

\* A worker keeps the capture flags in step with its own place.
LEMMA CaptureWorker ==
    ASSUME IInv, NEW c \in Conns, WorkerStep(c), CaptureLocal(c)
    PROVE  CaptureLocal(c)'
  <1> USE DEF IInv, TypeOK, CaptureLocal, CancelReachesRefill, adapterVars, Goto, Answer,
          CallClose
  <1>1. CASE Receive(c)
    <2>1. CASE ReadFails(c)  BY <2>1 DEF ReadFails
    <2>2. CASE Inform(c)  BY <2>2 DEF Inform
    <2>3. ASSUME NEW g \in Gens, StartSession(c, g)
          PROVE  CaptureLocal(c)'
      BY <2>3 DEF StartSession
    <2>4. CASE SnapshotFails(c)  BY <2>4 DEF SnapshotFails
    <2>5. ASSUME NEW p \in Settings, ApplyProfile(c, p)
          PROVE  CaptureLocal(c)'
      BY <2>5 DEF ApplyProfile
    <2>6. ASSUME NEW p \in Settings, NEW k \in FailAt, ApplyFails(c, p, k)
          PROVE  CaptureLocal(c)'
      BY <2>6 DEF ApplyFails
    <2>7. ASSUME NEW cmd \in Captures, NEW f \in Features, OpenCapture(c, cmd, f)
          PROVE  CaptureLocal(c)'
      BY <2>7 DEF OpenCapture, MayCapture
    <2>8. CASE OpenFails(c)  BY <2>8 DEF OpenFails, MayCapture
    <2>9. CASE StopSession(c)  BY <2>9 DEF StopSession
    <2>10. CASE Quit(c)  BY <2>10 DEF Quit
    <2>11. QED
      BY <1>1, <2>1, <2>2, <2>3, <2>4, <2>5, <2>6, <2>7, <2>8, <2>9, <2>10 DEF
         Receive
  <1>2. CASE Proceed(c)
    <2>1. CASE Publish(c)  BY <2>1 DEF Publish
    <2>2. CASE BeginCapture(c)  BY <2>2 DEF BeginCapture, CancelPending
    <2>3. CASE CaptureRefused(c)  BY <2>3 DEF CaptureRefused, AbandonCapture, CaptureOver
    <2>4. CASE CaptureFails(c)  BY <2>4 DEF CaptureFails, AbandonCapture, CaptureOver
    <2>5. CASE CaptureDone(c)
      <3>1. req[c].cmd \in Captures
        BY <2>5, CaptureRequest DEF CaptureDone
      <3>2. QED
        BY <2>5, <3>1 DEF CaptureDone, Captures, CaptureOver
    <2>6. CASE ContractViolation(c)  BY <2>6 DEF ContractViolation
    <2>7. CASE TransferInline(c)  BY <2>7 DEF TransferInline
    <2>8. CASE TransferFails(c)  BY <2>8 DEF TransferFails
    <2>9. CASE CloseNothing(c)  BY <2>9 DEF CloseNothing, Closed
    <2>10. CASE CloseRestored(c)  BY <2>10 DEF CloseRestored, Closed
    <2>11. ASSUME NEW k \in FailAt \ {AllWritten}, CloseFaulted(c, k)
           PROVE  CaptureLocal(c)'
      BY <2>11 DEF CloseFaulted, Closed
    <2>12. CASE SendReply(c)  BY <2>12 DEF SendReply, LoopTop
    <2>13. CASE SendFails(c)  BY <2>13 DEF SendFails
    <2>14. CASE ClearGeneration(c)  BY <2>14 DEF ClearGeneration
    <2>15. CASE Release(c)  BY <2>15 DEF Release
    <2>16. QED
      BY <1>2, <2>1, <2>2, <2>3, <2>4, <2>5, <2>6, <2>7, <2>8, <2>9, <2>10, <2>11,
         <2>12, <2>13, <2>14, <2>15 DEF Proceed
  <1>3. QED  BY <1>1, <1>2 DEF WorkerStep

\* While worker c exists every other slot is free.
LEMMA Alone ==
    ASSUME IInv, NEW c \in Conns, WorkerStep(c), NEW d \in Conns \ {c}
    PROVE  /\ pc[d] = "free" /\ pc'[d] = "free"
           /\ session[d] = sdrd_session_init /\ session'[d] = sdrd_session_init
  BY WorkerFrame DEF IInv, SlotInv, OneWorker, Framed

\* Every step keeps capture_active, the buffer and the cancel latch consistent.
LEMMA CaptureStep ==
    ASSUME IInv, Next
    PROVE  CaptureInv'
  <1> USE DEF CaptureInv, CancelReachesRefill
  <1>1. ASSUME NEW c \in Conns, WorkerStep(c) PROVE CaptureInv'
    <2>1. CaptureLocal(c)
      BY <1>1, Alone DEF IInv, CaptureLocal
    <2>2. CaptureLocal(c)'
      BY <1>1, <2>1, CaptureWorker
    <2>3. QED
      BY <1>1, <2>2, Alone DEF CaptureLocal
  <1>2. ASSUME NEW c \in Conns, Spawn(c) PROVE CaptureInv'
    BY <1>2 DEF IInv, TypeOK, Spawn, LoopTop, adapterVars
  <1>3. CASE Exit
    BY <1>3 DEF IInv, TypeOK, SlotInv, Exit, WorkerGone, workerVars
  <1>4. CASE CancelLatch
    BY <1>4 DEF IInv, CancelLatch, workerVars
  <1>5. CASE \/ AcceptorTop \/ Accept \/ FirstLineRefused \/ ServerBusy
             \/ SpawnFails \/ StopSignal \/ Stopped \/ \E g \in Gens : CancelCheck(g)
    BY <1>5 DEF IInv, workerVars, adapterVars, serverVars,
       AcceptorTop, Accept, FirstLineRefused, ServerBusy, SpawnFails, StopSignal,
       Stopped, CancelCheck, vars
  <1>6. QED
    BY <1>1, <1>2, <1>3, <1>4, <1>5 DEF Next, AcceptorStep

-----------------------------------------------------------------------------
(***************************************************************************)
(* Sessions                                                                *)
(***************************************************************************)
\* SessionInv as it reads for connection c.
SessionLocal(c) ==
    /\ pc[c] \in {"publish", "check", "refill", "transfer"} => Owns(c)
    /\ pc[c] \in {"check", "refill", "transfer"} => req[c] # NoReq /\ sequence # 0
    /\ Owns(c) => session[c].generation # 0
    /\ pc[c] = "close" /\ why[c] \notin {"quit", "exit"} => Owns(c)
    /\ Owns(c) => session[c].restore_required
    /\ session[c].faulted => restore_failed
    /\ session[c].restore_required /\ ~Owns(c) => session[c].faulted
    /\ pc[c] \in {"clear", "release"} => ~Owns(c)

\* A free slot satisfies it.
LEMMA FreeSlot ==
    ASSUME NEW d \in Conns
    PROVE  /\ pc[d] = "free" /\ session[d] = sdrd_session_init => SessionLocal(d)
           /\ pc'[d] = "free" /\ session'[d] = sdrd_session_init => SessionLocal(d)'
  BY DEF SessionLocal, Owns, sdrd_session_init

\* A worker step keeps what is known of its own session.
LEMMA SessionWorker ==
    ASSUME IInv, NEW c \in Conns, WorkerStep(c), SessionLocal(c)
    PROVE  SessionLocal(c)'
  <1> session[c] \in Sessions
    BY DEF IInv, TypeOK
  <1> USE DEF IInv, TypeOK, SessionLocal, Owns, adapterVars, radioVars, Goto, Answer, CallClose
  <1>1. CASE Receive(c)
    <2>1. CASE ReadFails(c)  BY <2>1 DEF ReadFails
    <2>2. CASE Inform(c)  BY <2>2 DEF Inform
    <2>3. ASSUME NEW g \in Gens, StartSession(c, g)
          PROVE  SessionLocal(c)'
      BY <2>3, ConstantsAssumption DEF StartSession, Owned
    <2>4. CASE SnapshotFails(c)  BY <2>4 DEF SnapshotFails
    <2>5. ASSUME NEW p \in Settings, ApplyProfile(c, p)
          PROVE  SessionLocal(c)'
      BY <2>5 DEF ApplyProfile
    <2>6. ASSUME NEW p \in Settings, NEW k \in FailAt, ApplyFails(c, p, k)
          PROVE  SessionLocal(c)'
      BY <2>6 DEF ApplyFails
    <2>7. ASSUME NEW cmd \in Captures, NEW f \in Features, OpenCapture(c, cmd, f)
          PROVE  SessionLocal(c)'
      BY <2>7 DEF OpenCapture, MayCapture, NoReq, Captures
    <2>8. CASE OpenFails(c)  BY <2>8 DEF OpenFails, MayCapture
    <2>9. CASE StopSession(c)  BY <2>9 DEF StopSession
    <2>10. CASE Quit(c)  BY <2>10 DEF Quit
    <2>11. QED
      BY <1>1, <2>1, <2>2, <2>3, <2>4, <2>5, <2>6, <2>7, <2>8, <2>9, <2>10 DEF
         Receive
  <1>2. CASE Proceed(c)
    <2>1. CASE Publish(c)  BY <2>1 DEF Publish
    <2>2. CASE BeginCapture(c)  BY <2>2 DEF BeginCapture
    <2>3. CASE CaptureRefused(c)  BY <2>3 DEF CaptureRefused, AbandonCapture
    <2>4. CASE CaptureFails(c)  BY <2>4 DEF CaptureFails, AbandonCapture
    <2>5. CASE CaptureDone(c)
      <3>1. req[c].cmd \in Captures
        BY <2>5, CaptureRequest DEF CaptureDone
      <3>2. QED
        BY <2>5, <3>1 DEF CaptureDone, Captures
    <2>6. CASE ContractViolation(c)  BY <2>6 DEF ContractViolation
    <2>7. CASE TransferInline(c)  BY <2>7 DEF TransferInline
    <2>8. CASE TransferFails(c)  BY <2>8 DEF TransferFails
    <2>9. CASE CloseNothing(c)  BY <2>9 DEF CloseNothing, Closed, NothingToClose
    <2>10. CASE CloseRestored(c)  BY <2>10, ClosedSession DEF CloseRestored, Closed
    <2>11. ASSUME NEW k \in FailAt \ {AllWritten}, CloseFaulted(c, k)
           PROVE  SessionLocal(c)'
      BY <2>11, ClosedSession DEF CloseFaulted, Closed
    <2>12. CASE SendReply(c)  BY <2>12 DEF SendReply, LoopTop
    <2>13. CASE SendFails(c)  BY <2>13 DEF SendFails
    <2>14. CASE ClearGeneration(c)  BY <2>14 DEF ClearGeneration
    <2>15. CASE Release(c)  BY <2>15 DEF Release, sdrd_session_init
    <2>16. QED
      BY <1>2, <2>1, <2>2, <2>3, <2>4, <2>5, <2>6, <2>7, <2>8, <2>9, <2>10, <2>11,
         <2>12, <2>13, <2>14, <2>15 DEF Proceed
  <1>3. QED  BY <1>1, <1>2 DEF WorkerStep

\* Every step keeps what is known of every session.
LEMMA SessionStep ==
    ASSUME IInv, Next
    PROVE  SessionInv'
  <1>0. \A c \in Conns : SessionLocal(c)
    BY DEF IInv, SessionInv, SessionLocal
  <1>1. ASSUME NEW c \in Conns, WorkerStep(c) PROVE \A d \in Conns : SessionLocal(d)'
    BY <1>0, <1>1, SessionWorker, Alone, FreeSlot
  <1>2. ASSUME NEW c \in Conns, Spawn(c) PROVE \A d \in Conns : SessionLocal(d)'
    BY <1>0, <1>2 DEF IInv, TypeOK, Spawn, LoopTop, adapterVars, radioVars, SessionLocal,
       Owns, sdrd_session_init
  <1>3. ASSUME \/ CancelLatch \/ Exit
               \/ AcceptorTop \/ Accept \/ FirstLineRefused \/ ServerBusy
               \/ SpawnFails \/ StopSignal \/ Stopped \/ \E g \in Gens : CancelCheck(g)
        PROVE  \A d \in Conns : SessionLocal(d)'
    <2>1. UNCHANGED <<workerVars, radioVars, sequence>>
      BY <1>3 DEF adapterVars, CancelLatch, Exit,
         AcceptorTop, Accept, FirstLineRefused, ServerBusy, SpawnFails, StopSignal,
       Stopped, CancelCheck, vars
    <2>2. QED
      BY <1>0, <2>1 DEF SessionLocal, Owns, workerVars, radioVars
  <1>4. \A c \in Conns : SessionLocal(c)'
    BY <1>1, <1>2, <1>3 DEF Next, AcceptorStep
  <1>5. QED
    BY <1>4 DEF SessionInv, SessionLocal

-----------------------------------------------------------------------------
(***************************************************************************)
(* The radio                                                               *)
(***************************************************************************)
\* Writing all attributes of a state the radio can be in reaches that state, and
\* a write that stops half-way leaves gain mode and gain consistent.
LEMMA WrittenAll ==
    ASSUME radio \in RadioStates, NEW t \in RadioStates, GainConsistent(t)
    PROVE  Written(t, AllWritten) = t
  BY DEF Written, AllWritten, RadioStates, Attrs, HardwareGain, GainMode, GainConsistent

\* Gain mode and gain stay consistent after k writes of any target.
LEMMA WrittenGain ==
    ASSUME radio \in RadioStates, GainConsistent(radio), NEW t \in RadioStates, NEW k \in 0..6
    PROVE  GainConsistent(Written(t, k))
  BY DEF Written, Attrs, HardwareGain, GainMode, GainConsistent

\* RadioInv as it reads for worker c, the only one.
RadioLocal(c) ==
    /\ GainConsistent(radio)
    /\ session[c].restore_required => GainConsistent(session[c].saved)
    /\ ~restore_failed =>
         IF session[c].restore_required THEN session[c].saved = Baseline
         ELSE radio = Baseline

\* A worker step keeps its own way home.
LEMMA RadioWorker ==
    ASSUME IInv, NEW c \in Conns, WorkerStep(c), RadioLocal(c)
    PROVE  RadioLocal(c)'
  <1> DEFINE s == session[c]
  <1> /\ s \in Sessions /\ radio \in RadioStates /\ restore_failed \in BOOLEAN
      /\ session \in [Conns -> Sessions] /\ s.saved \in RadioStates
    BY DEF IInv, TypeOK, Sessions
  <1> SessionLocal(c)
    BY DEF IInv, SessionInv, SessionLocal
  <1>1. ASSUME NEW g \in Gens, StartSession(c, g) PROVE RadioLocal(c)'
    BY <1>1 DEF StartSession, MayStart, Owned, Owns, SessionLocal, RadioLocal,
       GainConsistent,
       radioVars
  <1>2. CASE SnapshotFails(c)
    BY <1>2 DEF SnapshotFails, MayStart, Owns, SessionLocal, RadioLocal,
       GainConsistent, radioVars, Sessions
  <1>3. ASSUME NEW p \in Settings, ApplyProfile(c, p) PROVE RadioLocal(c)'
    <2>1. GainConsistent(radio')
      BY <1>3, WrittenGain, StatesType DEF ApplyProfile, AllWritten, RadioLocal
    <2>2. QED
      BY <1>3, <2>1 DEF ApplyProfile, Owns, SessionLocal, RadioLocal,
         GainConsistent, Sessions
  <1>4. ASSUME NEW p \in Settings, NEW k \in FailAt, ApplyFails(c, p, k) PROVE RadioLocal(c)'
    <2>1. GainConsistent(radio')
      BY <1>4, WrittenGain, StatesType, ConstantsAssumption DEF ApplyFails, RadioLocal
    <2>2. QED
      BY <1>4, <2>1 DEF ApplyFails, Owns, SessionLocal, RadioLocal, GainConsistent
  <1>5. CASE CloseRestored(c)
    <2>1. s.restore_required
      BY <1>5 DEF CloseRestored, NothingToClose, Owns, SessionLocal
    <2>2. radio' = s.saved /\ session'[c] = GivenBack(s) /\ restore_failed' = restore_failed
      BY <1>5, <2>1, WrittenAll DEF CloseRestored, RadioLocal
    <2>3. QED
      BY <2>1, <2>2, ClosedSession DEF RadioLocal, GainConsistent
  <1>6. ASSUME NEW k \in FailAt \ {AllWritten}, CloseFaulted(c, k) PROVE RadioLocal(c)'
    <2>1. GainConsistent(radio')
      BY <1>6, WrittenGain, ConstantsAssumption DEF CloseFaulted, RadioLocal
    <2>2. session'[c] = Faulted(s) /\ restore_failed'
      BY <1>6 DEF CloseFaulted
    <2>3. QED
      BY <1>6, <2>1, <2>2, ClosedSession DEF CloseFaulted, RadioLocal, GainConsistent
  <1>7. CASE Release(c)
    BY <1>7 DEF Release, sdrd_session_init, Owns, SessionLocal, RadioLocal,
       GainConsistent,
       radioVars
  <1>8. ASSUME UNCHANGED <<session, radioVars>> PROVE RadioLocal(c)'
    BY <1>8 DEF RadioLocal, GainConsistent, radioVars
  <1>9. \/ UNCHANGED <<session, radioVars>>
        \/ \E g \in Gens : StartSession(c, g)
        \/ SnapshotFails(c)
        \/ \E p \in Settings : ApplyProfile(c, p)
        \/ \E p \in Settings, k \in FailAt : ApplyFails(c, p, k)
        \/ CloseRestored(c)
        \/ \E k \in FailAt \ {AllWritten} : CloseFaulted(c, k)
        \/ Release(c)
    BY DEF WorkerStep, Receive, Proceed, ReadFails, Inform, OpenCapture, OpenFails,
       StopSession, Quit, Publish, BeginCapture, CaptureRefused, AbandonCapture, CaptureFails,
       CaptureDone, ContractViolation, TransferInline, TransferFails, CloseNothing, SendReply,
       SendFails, ClearGeneration
  <1>10. QED
    BY <1>1, <1>2, <1>3, <1>4, <1>5, <1>6, <1>7, <1>8, <1>9

\* Every step keeps the radio at home or its way home owed.
LEMMA RadioStep ==
    ASSUME IInv, Next
    PROVE  RadioInv'
  <1>1. ASSUME NEW c \in Conns, WorkerStep(c) PROVE RadioInv'
    <2>1. RadioLocal(c)
      BY <1>1, Alone DEF IInv, TypeOK, RadioInv, RadioLocal, sdrd_session_init
    <2>2. RadioLocal(c)'
      BY <1>1, <2>1, RadioWorker
    <2>3. QED
      BY <1>1, <2>2, Alone DEF RadioInv, RadioLocal, sdrd_session_init
  <1>2. ASSUME NEW c \in Conns, Spawn(c) PROVE UNCHANGED <<session, radioVars>>
    BY <1>2 DEF IInv, TypeOK, SlotInv, Spawn, radioVars
  <1>3. ASSUME \/ CancelLatch \/ Exit
               \/ AcceptorTop \/ Accept \/ FirstLineRefused \/ ServerBusy
               \/ SpawnFails \/ StopSignal \/ Stopped \/ \E g \in Gens : CancelCheck(g)
        PROVE  UNCHANGED <<session, radioVars>>
    BY <1>3 DEF workerVars, radioVars, CancelLatch, Exit,
       AcceptorTop, Accept, FirstLineRefused, ServerBusy, SpawnFails, StopSignal,
       Stopped, CancelCheck, vars
  <1>4. ASSUME UNCHANGED <<session, radioVars>> PROVE RadioInv'
    BY <1>4 DEF IInv, RadioInv, GainConsistent, radioVars
  <1>5. QED
    BY <1>1, <1>2, <1>3, <1>4 DEF Next, AcceptorStep

-----------------------------------------------------------------------------
(***************************************************************************)
(* The theorems                                                            *)
(***************************************************************************)
\* The daemon starts in the inductive invariant.
LEMMA InitInv == Init => IInv
  <1> SUFFICES ASSUME Init PROVE IInv
    OBVIOUS
  <1>1. TypeOK
    BY InitType
  <1>2. SlotInv
    BY DEF Init, SlotInv, OneWorker
  <1>3. CaptureInv
    BY DEF Init, CaptureInv, CancelReachesRefill
  <1>4. SessionInv
    BY DEF Init, SessionInv, Owns, sdrd_session_init
  <1>5. RadioInv
    BY DEF Init, RadioInv, GainConsistent, Baseline, Profile, Attrs, HardwareGain,
       GainMode,
       sdrd_session_init
  <1>6. QED
    BY <1>1, <1>2, <1>3, <1>4, <1>5 DEF IInv

\* Every step keeps the types.
LEMMA TypeStep ==
    ASSUME IInv, Next
    PROVE  TypeOK'
  <1>1. ASSUME NEW c \in Conns, WorkerStep(c) PROVE TypeOK'
    BY <1>1, ReceiveType, ProceedType DEF IInv, WorkerStep
  <1>2. CASE AcceptorStep \/ Accept \/ StopSignal
    BY <1>2, AcceptorType DEF IInv
  <1>3. CASE Stopped
    BY <1>3 DEF IInv, TypeOK, Stopped, vars, serverVars, workerVars, adapterVars,
       radioVars
  <1>4. QED
    BY <1>1, <1>2, <1>3 DEF Next

\* A stuttering step keeps the inductive invariant.
LEMMA StutterInv == IInv /\ UNCHANGED vars => IInv'
  <1> SUFFICES ASSUME IInv, UNCHANGED vars PROVE IInv'
    OBVIOUS
  <1> USE DEF vars, serverVars, workerVars, adapterVars, radioVars
  <1>1. TypeOK'  BY DEF IInv, TypeOK
  <1>2. SlotInv'  BY DEF IInv, SlotInv, OneWorker
  <1>3. CaptureInv'  BY DEF IInv, CaptureInv, CancelReachesRefill
  <1>4. SessionInv'  BY DEF IInv, SessionInv, Owns
  <1>5. RadioInv'  BY DEF IInv, RadioInv, GainConsistent
  <1>6. QED  BY <1>1, <1>2, <1>3, <1>4, <1>5 DEF IInv

\* The inductive invariant of the daemon: types, the worker slot, the capture
\* flags, the sessions and the radio (main.c, sdrd.c, sdrd_iio.c together).
THEOREM Inductive == Spec => []IInv
  <1>1. IInv /\ [Next]_vars => IInv'
    <2>1. ASSUME IInv, Next PROVE IInv'
      BY <2>1, TypeStep, SlotStep, CaptureStep, SessionStep, RadioStep DEF IInv
    <2>2. QED
      BY <2>1, StutterInv
  <1>2. QED
    BY <1>1, InitInv, PTL DEF Spec

\* Every variable keeps its type.
THEOREM TypeCorrect == Spec => []TypeOK
  <1>1. IInv => TypeOK  BY DEF IInv
  <1>2. QED  BY <1>1, Inductive, PTL

\* No two connections reach the radio: the worker slot of run_server is
\* exclusive, whatever the number of clients.
THEOREM SingleWorker == Spec => []OneWorker
  <1>1. IInv => OneWorker  BY DEF IInv, SlotInv
  <1>2. QED  BY <1>1, Inductive, PTL

\* The adapter is destroyed only after the last worker has ended.
THEOREM AdapterOutlivesWorkers == Spec => []NoUseAfterExit
  <1>1. IInv => NoUseAfterExit  BY DEF IInv, TypeOK, SlotInv, NoUseAfterExit
  <1>2. QED  BY <1>1, Inductive, PTL

\* adapter_cancel never touches a destroyed buffer, and capture_active is set
\* only inside the refill loop.
THEOREM CancelIsSafe == Spec => []CancelSeesLiveBuffer
  <1>1. IInv => CancelSeesLiveBuffer  BY DEF IInv, CaptureInv, CancelSeesLiveBuffer
  <1>2. QED  BY <1>1, Inductive, PTL

\* A cancel that is latched while a capture runs has cancelled its buffer: none
\* is lost between the check of the latch and the refill.
THEOREM CancelIsNotLost == Spec => []CancelReachesRefill
  <1>1. IInv => CancelReachesRefill  BY DEF IInv, CaptureInv
  <1>2. QED  BY <1>1, Inductive, PTL

\* Unless a restore failed, the radio is home or its way home is still owed.
THEOREM RadioComesHome == Spec => []RestorationOwed
  <1>1. IInv => RestorationOwed
    BY DEF IInv, TypeOK, RadioInv, RestorationOwed
  <1>2. QED  BY <1>1, Inductive, PTL

\* No step replaces a snapshot whose restore is owed: START_SESSION is refused
\* by a faulted or active session, and closing keeps the snapshot.
THEOREM SnapshotSurvives == Spec => SnapshotKept
  <1> DEFINE Kept(c) == session[c].restore_required /\ session'[c].restore_required
                           => session'[c].saved = session[c].saved
  <1>1. ASSUME IInv, Next, NEW d \in Conns PROVE Kept(d)
    <2> /\ session \in [Conns -> Sessions] /\ session[d] \in Sessions
        /\ SessionLocal(d)
      BY <1>1 DEF IInv, TypeOK, SessionInv, SessionLocal
    <2>1. ASSUME NEW c \in Conns, WorkerStep(c), c # d PROVE Kept(d)
      BY <1>1, <2>1, WorkerFrame DEF IInv, Framed
    <2>2. ASSUME WorkerStep(d) PROVE Kept(d)
      <3>1. ASSUME NEW g \in Gens, StartSession(d, g) PROVE Kept(d)
        BY <3>1 DEF StartSession, MayStart, SessionLocal, Owns
      <3>2. CASE SnapshotFails(d)
        BY <3>2 DEF SnapshotFails, MayStart, SessionLocal, Owns
      <3>3. ASSUME NEW p \in Settings, ApplyProfile(d, p) PROVE Kept(d)
        BY <3>3 DEF ApplyProfile, Sessions
      <3>4. CASE CloseRestored(d) \/ \E k \in FailAt \ {AllWritten} : CloseFaulted(d, k)
        <4>1. session'[d] = GivenBack(session[d]) \/ session'[d] = Faulted(session[d])
          BY <3>4 DEF CloseRestored, CloseFaulted
        <4>2. QED
          BY <4>1, ClosedSession
      <3>5. CASE Release(d)
        BY <3>5 DEF Release, sdrd_session_init
      <3>6. ASSUME UNCHANGED session PROVE Kept(d)
        BY <3>6
      <3>7. \/ UNCHANGED session
            \/ \E g \in Gens : StartSession(d, g)
            \/ SnapshotFails(d)
            \/ \E p \in Settings : ApplyProfile(d, p)
            \/ CloseRestored(d)
            \/ \E k \in FailAt \ {AllWritten} : CloseFaulted(d, k)
            \/ Release(d)
        BY <2>2 DEF WorkerStep, Receive, Proceed, ReadFails, Inform, ApplyFails,
           OpenCapture,
           OpenFails, StopSession, Quit, Publish, BeginCapture, CaptureRefused,
           AbandonCapture, CaptureFails, CaptureDone, ContractViolation, TransferInline,
           TransferFails, CloseNothing, SendReply, SendFails, ClearGeneration
      <3>8. QED
        BY <3>1, <3>2, <3>3, <3>4, <3>5, <3>6, <3>7
    <2>3. ASSUME NEW c \in Conns, Spawn(c) PROVE Kept(d)
      BY <2>3 DEF Spawn, sdrd_session_init
    <2>4. ASSUME \/ CancelLatch \/ Exit
                 \/ AcceptorTop \/ Accept \/ FirstLineRefused \/ ServerBusy
                 \/ SpawnFails \/ StopSignal \/ Stopped \/ \E g \in Gens : CancelCheck(g)
          PROVE  Kept(d)
      BY <2>4 DEF workerVars, CancelLatch, Exit, AcceptorTop, Accept, FirstLineRefused,
         ServerBusy, SpawnFails, StopSignal, Stopped, CancelCheck, vars
    <2>5. QED
      BY <1>1, <2>1, <2>2, <2>3, <2>4 DEF Next, AcceptorStep
  <1>2. IInv /\ [Next]_vars => [\A c \in Conns : Kept(c)]_vars
    BY <1>1
  <1>3. QED
    BY <1>2, Inductive, PTL DEF Spec, SnapshotKept

=============================================================================
