------------------------ MODULE PlannerWorkerProofs ------------------------
(***************************************************************************)
(* Proofs about PlannerWorker, for any number of session connections,      *)
(* one-shot requests and planning contexts, and any queue limit.           *)
(***************************************************************************)
EXTENDS PlannerWorker, TLAPS

\* A session connection is not a one-shot connection, and None is neither.
LEMMA Disjoint ==
    /\ \A r \in Runtimes : r \in Owners /\ r \notin Shots /\ r # None
    /\ \A s \in Shots : s \in Owners /\ s \notin Runtimes /\ s # None
    /\ \A o \in Owners : o # None
  BY WorkerAssumption DEF Owners

-----------------------------------------------------------------------------
(***************************************************************************)
(* Type correctness                                                        *)
(***************************************************************************)
\* Initially every variable has its type.
LEMMA InitType == Init => TypeOK
  BY WorkerAssumption DEF Init, TypeOK, Owners, Fates

\* Giving a fate to requests keeps the fates typed.
LEMMA SettledType ==
    ASSUME TypeOK, NEW qs, NEW f \in Fates, Settled(qs, f)
    PROVE  fate' \in [Requests -> Fates]
  BY DEF TypeOK, Settled

\* A step of the one-shot planner (handleFrame) keeps the types.
LEMMA ShotType ==
    ASSUME TypeOK, NEW s \in Shots, ShotStep(s)
    PROVE  TypeOK'
  <1> USE Disjoint DEF TypeOK, leaseVars, runVars, runtimeVars
  <1>1. CASE ShotBegins(s)  BY <1>1 DEF ShotBegins, Acquire
  <1>2. CASE ShotRefused(s)  BY <1>2 DEF ShotRefused
  <1>3. CASE ShotTimeout(s)  BY <1>3 DEF ShotTimeout
  <1>4. CASE ShotEnds(s)  BY <1>4 DEF ShotEnds, Release
  <1>5. QED  BY <1>1, <1>2, <1>3, <1>4 DEF ShotStep

\* A runtime that is reset keeps its types.
LEMMA ResetType ==
    ASSUME TypeOK, NEW r \in Runtimes, Reset(r)
    PROVE  /\ agent' \in [Runtimes -> BOOLEAN] /\ stale' \in [Runtimes -> BOOLEAN]
           /\ current' \in [Runtimes -> Requests \cup {None}]
           /\ submitted' \in [Runtimes -> Requests \cup {None}]
           /\ pending' \in [Runtimes -> SUBSET Requests]
           /\ inbox' \in [Runtimes -> SUBSET Requests]
           /\ queued' \in [Runtimes -> 0..MaxQueue]
           /\ fate' \in [Requests -> Fates]
  BY SettledType, WorkerAssumption DEF TypeOK, Reset, Fates

\* Connecting, disconnecting and disposing (session-server) keep the types.
LEMMA ConnectionType ==
    ASSUME TypeOK, NEW r \in Runtimes, Connect(r) \/ Disconnect(r) \/ Dispose(r)
    PROVE  TypeOK'
  <1> USE Disjoint DEF TypeOK, leaseVars, runVars, runtimeVars
  <1>1. CASE Connect(r)  BY <1>1 DEF Connect
  <1>2. CASE Disconnect(r)  BY <1>2, WorkerAssumption DEF Disconnect, DisposeAborts, Inferring
  <1>3. CASE Dispose(r)
    <2>1. Reset(r)
      BY <1>3 DEF Dispose
    <2>2. lease' \in Owners \cup {None} /\ released' \in [Owners -> BOOLEAN]
      <3>1. Release(r) \/ UNCHANGED leaseVars
        BY <1>3 DEF Dispose
      <3>2. QED  BY <3>1 DEF Release
    <2>3. /\ socket' \in [Owners -> {"new", "open", "draining", "gone"}]
          /\ releaseRun' \in [Runtimes -> BOOLEAN] /\ active' \in [Runtimes -> BOOLEAN]
          /\ UNCHANGED <<runVars, context>>
      BY <1>3 DEF Dispose
    <2>4. QED
      BY <2>1, <2>2, <2>3, ResetType
  <1>4. QED  BY <1>1, <1>2, <1>3

\* A session command (SessionRuntime.dispatch) keeps the types.
LEMMA CommandType ==
    ASSUME TypeOK, NEW r \in Runtimes, Command(r)
    PROVE  TypeOK'
  <1> USE Disjoint DEF TypeOK, leaseVars, runVars
  <1>1. CASE OpenSession(r)  BY <1>1 DEF OpenSession
  <1>2. ASSUME NEW q \in Requests, Prompt(r, q) PROVE TypeOK'
    BY <1>2 DEF Prompt, Acquire, Fates
  <1>3. ASSUME NEW q \in Requests, Queue(r, q) PROVE TypeOK'
    <2>1. queued[r] + 1 \in 0..MaxQueue
      BY <1>3, WorkerAssumption DEF Queue, QueueFull
    <2>2. QED
      BY <1>3, <2>1 DEF Queue, QueuedPending, Fates
  <1>4. CASE PromptBusy(r)  BY <1>4 DEF PromptBusy
  <1>5. CASE Abort(r)
    <2>1. fate' \in [Requests -> Fates]
      BY <1>5, SettledType DEF Abort, Fates
    <2>2. QED
      BY <1>5, <2>1, WorkerAssumption DEF Abort, Inferring
  <1>6. CASE ClearQueue(r)
    <2>1. fate' \in [Requests -> Fates]
      BY <1>6, SettledType DEF ClearQueue, Fates
    <2>2. QED
      BY <1>6, <2>1, WorkerAssumption DEF ClearQueue, StillPending
  <1>7. CASE CloseSession(r)
    <2>1. Reset(r) /\ UNCHANGED <<leaseVars, runVars, socket, releaseRun, active, context>>
      BY <1>7 DEF CloseSession
    <2>2. QED
      BY <2>1, ResetType
  <1>8. QED  BY <1>1, <1>2, <1>3, <1>4, <1>5, <1>6, <1>7 DEF Command

\* An agent event or the end of a run keeps the types.
LEMMA RunType ==
    ASSUME TypeOK, NEW r \in Runtimes, RunStep(r)
    PROVE  TypeOK'
  <1> USE Disjoint DEF TypeOK, leaseVars, runVars
  <1>1. CASE TurnStart(r)  BY <1>1 DEF TurnStart
  <1>2. ASSUME NEW q \in Requests, NextMessage(r, q) PROVE TypeOK'
    BY <1>2 DEF NextMessage
  <1>3. CASE SubmitPlan(r)
    <2>1. \A f : Replied(f) \in Fates
      BY DEF Replied, Fates
    <2>2. QED
      BY <1>3, <2>1 DEF SubmitPlan
  <1>4. CASE AgentEnd(r)  BY <1>4, WorkerAssumption DEF AgentEnd
  <1>5. CASE Settle(r)
    <2>1. fate' \in [Requests -> Fates]
      BY <1>5, SettledType DEF Settle, Fates
    <2>2. CASE stale[r]
      BY <1>5, <2>1, <2>2 DEF Settle, SettleReleases, Release
    <2>3. CASE ~stale[r]
      <3>1. queued' \in [Runtimes -> 0..MaxQueue]
        BY <1>5, <2>3, WorkerAssumption DEF Settle
      <3>2. QED
        BY <1>5, <2>1, <2>3, <3>1 DEF Settle, SettleReleases, Release
    <2>4. QED  BY <2>2, <2>3
  <1>6. QED  BY <1>1, <1>2, <1>3, <1>4, <1>5 DEF RunStep

\* Every step keeps the types.
LEMMA TypeStep ==
    ASSUME TypeOK, Next
    PROVE  TypeOK'
  <1>1. CASE Finished
    BY <1>1 DEF Finished, vars, leaseVars, runVars, runtimeVars, TypeOK
  <1>2. QED
    BY <1>1, ShotType, ConnectionType, CommandType, RunType DEF Next

-----------------------------------------------------------------------------
(***************************************************************************)
(* The lease                                                               *)
(***************************************************************************)
\* Acquiring and releasing keep the lease consistent, and other steps that
\* neither begin a run nor settle one do too.
LEMMA LeaseStep ==
    ASSUME IInv, Next
    PROVE  LeaseInv'
  <1> USE Disjoint DEF IInv, TypeOK, LeaseInv, LeaseAccounted, Inferring
  <1>1. ASSUME NEW o \in Owners, Acquire(o) PROVE LeaseInv'
    BY <1>1 DEF Acquire, LeaseFree
  <1>2. ASSUME NEW o \in Owners, Release(o), phase' = [phase EXCEPT ![o] = "idle"]
        PROVE  LeaseInv'
    BY <1>2 DEF Release
  <1>3. ASSUME NEW o \in Owners, Release(o), ~Inferring(o), UNCHANGED phase
        PROVE  LeaseInv'
    BY <1>3 DEF Release
  <1>4. ASSUME NEW o \in Owners, phase[o] # "idle", UNCHANGED leaseVars,
               \/ UNCHANGED phase
               \/ phase' = [phase EXCEPT ![o] = "ended"]
               \/ phase[o] = "called" /\ phase' = [phase EXCEPT ![o] = "running"]
        PROVE  LeaseInv'
    BY <1>4 DEF leaseVars
  <1>5. ASSUME UNCHANGED <<leaseVars, phase>> PROVE LeaseInv'
    BY <1>5 DEF leaseVars
  <1>6. ASSUME NEW s \in Shots, ShotStep(s) PROVE LeaseInv'
    <2>1. CASE ShotBegins(s)  BY <1>1, <2>1 DEF ShotBegins
    <2>2. CASE ShotEnds(s)  BY <1>2, <2>2 DEF ShotEnds
    <2>3. CASE ShotRefused(s) \/ ShotTimeout(s)
      BY <1>5, <2>3 DEF ShotRefused, ShotTimeout, runVars
    <2>4. QED  BY <1>6, <2>1, <2>2, <2>3 DEF ShotStep
  <1>7. ASSUME NEW r \in Runtimes, Command(r) PROVE LeaseInv'
    <2>1. ASSUME NEW q \in Requests, Prompt(r, q) PROVE LeaseInv'
      BY <1>1, <2>1 DEF Prompt
    <2>2. CASE \/ OpenSession(r) \/ PromptBusy(r) \/ Abort(r) \/ ClearQueue(r)
               \/ CloseSession(r) \/ \E q \in Requests : Queue(r, q)
      BY <1>5, <2>2 DEF OpenSession, PromptBusy, Abort, ClearQueue, CloseSession, Queue,
         runVars
    <2>3. QED  BY <1>7, <2>1, <2>2 DEF Command
  <1>8. ASSUME NEW r \in Runtimes, Connect(r) \/ Disconnect(r) \/ Dispose(r)
        PROVE  LeaseInv'
    <2>1. CASE Connect(r) \/ Disconnect(r)
      BY <1>5, <2>1 DEF Connect, Disconnect, runVars
    <2>2. CASE Dispose(r)
      <3>1. ~Inferring(r) /\ UNCHANGED phase /\ (Release(r) \/ UNCHANGED leaseVars)
        BY <2>2 DEF Dispose, AgentIdle, runVars
      <3>2. QED  BY <1>3, <1>5, <3>1
    <2>3. QED  BY <1>8, <2>1, <2>2
  <1>9. ASSUME NEW r \in Runtimes, RunStep(r) PROVE LeaseInv'
    <2>1. CASE TurnStart(r)  BY <1>4, <2>1 DEF TurnStart
    <2>2. CASE AgentEnd(r)  BY <1>4, <2>2 DEF AgentEnd
    <2>3. CASE Settle(r)  BY <1>2, <2>3 DEF Settle, SettleReleases
    <2>4. CASE SubmitPlan(r) \/ \E q \in Requests : NextMessage(r, q)
      BY <1>5, <2>4 DEF SubmitPlan, NextMessage, runVars
    <2>5. QED  BY <1>9, <2>1, <2>2, <2>3, <2>4 DEF RunStep
  <1>10. CASE Finished
    BY <1>5, <1>10 DEF Finished, vars, runVars
  <1>11. QED
    BY <1>6, <1>7, <1>8, <1>9, <1>10 DEF Next

-----------------------------------------------------------------------------
(***************************************************************************)
(* Runs and requests                                                       *)
(***************************************************************************)
\* A step of the runtime of connection r.
RuntimeStep(r) == Connect(r) \/ Disconnect(r) \/ Dispose(r) \/ Command(r) \/ RunStep(r)

\* RunInv as it reads for runtime r.
RunLocal(r) ==
    /\ Inferring(r) => active[r]
    /\ active[r] => phase[r] # "idle" /\ ~stale[r]
    /\ phase[r] # "idle" /\ ~stale[r] => agent[r] /\ ~released[r]

\* A step of runtime r keeps what is known of its own run.
LEMMA RunOwn ==
    ASSUME IInv, NEW r \in Runtimes, RuntimeStep(r)
    PROVE  RunLocal(r)'
  <1> RunLocal(r)
    BY DEF IInv, RunInv, RunLocal
  <1> USE Disjoint DEF IInv, TypeOK, RunLocal, Inferring, leaseVars, runVars, runtimeVars,
          Commanded
  <1>1. CASE Connect(r)  BY <1>1 DEF Connect
  <1>2. CASE Disconnect(r)  BY <1>2 DEF Disconnect
  <1>3. CASE Dispose(r)  BY <1>3 DEF Dispose, AgentIdle, Reset, Release
  <1>4. CASE OpenSession(r)  BY <1>4 DEF OpenSession
  <1>5. ASSUME NEW q \in Requests, Prompt(r, q) PROVE RunLocal(r)'
    BY <1>5 DEF Prompt, Acquire
  <1>6. ASSUME NEW q \in Requests, Queue(r, q) PROVE RunLocal(r)'
    BY <1>6 DEF Queue
  <1>7. CASE PromptBusy(r)  BY <1>7 DEF PromptBusy
  <1>8. CASE Abort(r)  BY <1>8 DEF Abort
  <1>9. CASE ClearQueue(r)  BY <1>9 DEF ClearQueue
  <1>10. CASE CloseSession(r)  BY <1>10 DEF CloseSession, Reset
  <1>11. CASE TurnStart(r)  BY <1>11 DEF TurnStart
  <1>12. ASSUME NEW q \in Requests, NextMessage(r, q) PROVE RunLocal(r)'
    BY <1>12 DEF NextMessage
  <1>13. CASE SubmitPlan(r)  BY <1>13 DEF SubmitPlan
  <1>14. CASE AgentEnd(r)  BY <1>14 DEF AgentEnd
  <1>15. CASE Settle(r)  BY <1>15 DEF Settle, SettleReleases, Release
  <1>16. QED
    BY <1>1, <1>2, <1>3, <1>4, <1>5, <1>6, <1>7, <1>8,
       <1>9, <1>10, <1>11, <1>12, <1>13, <1>14, <1>15 DEF RuntimeStep, Command, RunStep

\* What a step leaves alone in runtime r.
Untouched(r) ==
    /\ phase'[r] = phase[r] /\ released'[r] = released[r] /\ stale'[r] = stale[r]
    /\ active'[r] = active[r] /\ agent'[r] = agent[r] /\ pending'[r] = pending[r]

\* The step of one runtime touches the run and the fields of no other, and a
\* one-shot step touches those of none.
LEMMA OtherRuntime ==
    ASSUME IInv, NEW r \in Runtimes, NEW o \in Owners \ {r},
           \/ o \in Runtimes /\ RuntimeStep(o)
           \/ o \in Shots /\ ShotStep(o)
    PROVE  Untouched(r)
  <1> USE Disjoint DEF IInv, TypeOK, Untouched, leaseVars, runVars, runtimeVars, Acquire,
          Release
  <1>1. CASE o \in Shots /\ ShotStep(o)
    BY <1>1 DEF ShotStep, ShotBegins, ShotRefused, ShotTimeout, ShotEnds
  <1>2. CASE o \in Runtimes /\ RuntimeStep(o)
    <2>1. CASE Connect(o)  BY <2>1 DEF Connect
    <2>2. CASE Disconnect(o)  BY <2>2 DEF Disconnect
    <2>3. CASE Dispose(o)  BY <2>3 DEF Dispose, AgentIdle, Reset, Release
    <2>4. CASE OpenSession(o)  BY <2>4 DEF OpenSession
    <2>5. ASSUME NEW q \in Requests, Prompt(o, q) PROVE Untouched(r)
      BY <2>5 DEF Prompt, Acquire
    <2>6. ASSUME NEW q \in Requests, Queue(o, q) PROVE Untouched(r)
      BY <2>6 DEF Queue
    <2>7. CASE PromptBusy(o)  BY <2>7 DEF PromptBusy
    <2>8. CASE Abort(o)  BY <2>8 DEF Abort
    <2>9. CASE ClearQueue(o)  BY <2>9 DEF ClearQueue
    <2>10. CASE CloseSession(o)  BY <2>10 DEF CloseSession, Reset
    <2>11. CASE TurnStart(o)  BY <2>11 DEF TurnStart
    <2>12. ASSUME NEW q \in Requests, NextMessage(o, q) PROVE Untouched(r)
      BY <2>12 DEF NextMessage
    <2>13. CASE SubmitPlan(o)  BY <2>13 DEF SubmitPlan
    <2>14. CASE AgentEnd(o)  BY <2>14 DEF AgentEnd
    <2>15. CASE Settle(o)  BY <2>15 DEF Settle, SettleReleases, Release
    <2>16. QED
      BY <1>2, <2>1, <2>2, <2>3, <2>4, <2>5, <2>6, <2>7, <2>8,
         <2>9, <2>10, <2>11, <2>12, <2>13, <2>14, <2>15 DEF RuntimeStep, Command, RunStep
  <1>3. QED  BY <1>1, <1>2

\* Every step keeps what is known of every run.
LEMMA RunInvStep ==
    ASSUME IInv, Next
    PROVE  RunInv'
  <1> SUFFICES ASSUME NEW r \in Runtimes PROVE RunLocal(r)'
    BY DEF RunInv, RunLocal
  <1>1. RunLocal(r)
    BY DEF IInv, RunInv, RunLocal
  <1>2. ASSUME Untouched(r) PROVE RunLocal(r)'
    BY <1>1, <1>2 DEF Untouched, RunLocal, Inferring
  <1>3. CASE Finished
    BY <1>1, <1>3 DEF Finished, vars, leaseVars, runVars, runtimeVars, RunLocal, Inferring
  <1>4. CASE RuntimeStep(r)
    BY <1>4, RunOwn
  <1>5. CASE \/ \E o \in Runtimes \ {r} : RuntimeStep(o)
             \/ \E s \in Shots : ShotStep(s)
    BY <1>2, <1>5, OtherRuntime, Disjoint
  <1>6. QED
    BY <1>3, <1>4, <1>5 DEF Next, RuntimeStep

\* Request q waits in runtime r, whose run will account for it.
WaitsIn(q, r) == q \in pending[r] /\ phase[r] # "idle" /\ ~stale[r]

\* A step of runtime r keeps the requests that wait in it, unless it decides
\* their fate, and the request it accepts waits in it.
LEMMA WaitingOwn ==
    ASSUME IInv, NEW r \in Runtimes, RuntimeStep(r), NEW w \in Requests,
           fate'[w] = "waiting", fate[w] = "waiting" => WaitsIn(w, r)
    PROVE  WaitsIn(w, r)'
  <1> RunLocal(r)
    BY DEF IInv, RunInv, RunLocal
  <1> USE Disjoint DEF IInv, TypeOK, LeaseInv, LeaseAccounted, RunLocal, WaitsIn, Inferring,
          Settled, leaseVars, runVars, runtimeVars, Commanded
  <1>1. CASE Connect(r)  BY <1>1 DEF Connect
  <1>2. CASE Disconnect(r)  BY <1>2 DEF Disconnect
  <1>3. CASE Dispose(r)  BY <1>3 DEF Dispose, AgentIdle, Reset, Release
  <1>4. CASE OpenSession(r)  BY <1>4 DEF OpenSession
  <1>5. ASSUME NEW q \in Requests, Prompt(r, q) PROVE WaitsIn(w, r)'
    BY <1>5 DEF Prompt, Acquire, LeaseFree
  <1>6. ASSUME NEW q \in Requests, Queue(r, q) PROVE WaitsIn(w, r)'
    BY <1>6 DEF Queue, QueuedPending
  <1>7. CASE PromptBusy(r)  BY <1>7 DEF PromptBusy
  <1>8. CASE Abort(r)  BY <1>8 DEF Abort
  <1>9. CASE ClearQueue(r)  BY <1>9 DEF ClearQueue
  <1>10. CASE CloseSession(r)  BY <1>10 DEF CloseSession, Reset
  <1>11. CASE TurnStart(r)  BY <1>11 DEF TurnStart
  <1>12. ASSUME NEW q \in Requests, NextMessage(r, q) PROVE WaitsIn(w, r)'
    BY <1>12 DEF NextMessage
  <1>13. CASE SubmitPlan(r)  BY <1>13 DEF SubmitPlan, Replied, Fates
  <1>14. CASE AgentEnd(r)  BY <1>14 DEF AgentEnd
  <1>15. CASE Settle(r)  BY <1>15 DEF Settle, SettleReleases, Release, Unplanned
  <1>16. QED
    BY <1>1, <1>2, <1>3, <1>4, <1>5, <1>6, <1>7, <1>8,
       <1>9, <1>10, <1>11, <1>12, <1>13, <1>14, <1>15 DEF RuntimeStep, Command, RunStep

\* Every step keeps every waiting request with a run that will report it.
LEMMA RequestStep ==
    ASSUME IInv, Next
    PROVE  RequestAccounted'
  <1> SUFFICES ASSUME NEW w \in Requests, fate'[w] = "waiting"
               PROVE  \E r \in Runtimes : WaitsIn(w, r)'
    BY DEF RequestAccounted, WaitsIn
  <1>1. fate[w] = "waiting" => \E r \in Runtimes : WaitsIn(w, r)
    BY DEF IInv, RequestAccounted, WaitsIn
  <1>2. ASSUME NEW r \in Runtimes, WaitsIn(w, r), Untouched(r) PROVE WaitsIn(w, r)'
    BY <1>2 DEF WaitsIn, Untouched
  <1>3. CASE Finished
    BY <1>1, <1>3 DEF Finished, vars, runVars, runtimeVars, WaitsIn
  <1>4. ASSUME NEW s \in Shots, ShotStep(s) PROVE \E r \in Runtimes : WaitsIn(w, r)'
    <2>1. fate[w] = "waiting"
      BY <1>4 DEF ShotStep, ShotBegins, ShotRefused, ShotTimeout, ShotEnds
    <2>2. QED
      BY <1>1, <1>2, <1>4, <2>1, OtherRuntime, Disjoint
  <1>5. ASSUME NEW o \in Runtimes, RuntimeStep(o) PROVE \E r \in Runtimes : WaitsIn(w, r)'
    <2>1. CASE fate[w] = "waiting" => WaitsIn(w, o)
      BY <1>5, <2>1, WaitingOwn
    <2>2. CASE fate[w] = "waiting" /\ ~WaitsIn(w, o)
      BY <1>1, <1>2, <1>5, <2>2, OtherRuntime, Disjoint
    <2>3. QED  BY <2>1, <2>2
  <1>6. QED
    BY <1>3, <1>4, <1>5 DEF Next, RuntimeStep

-----------------------------------------------------------------------------
(***************************************************************************)
(* One plan per planning context                                           *)
(***************************************************************************)
\* Request q may still be answered by a plan, in time or late.
Open(q) == fate[q] \in {"waiting", "reported", "withdrawn"}

\* Runtime r may still submit a plan for q: q is the context of a prompt that
\* has not begun, a queued context, or the current one without a plan.
Begins(r, q)   == phase[r] = "called" /\ context[r] = q
Answering(r, q) == phase[r] = "running" /\ current[r] = q /\ submitted[r] # q
Holds(r, q)    == Begins(r, q) \/ q \in inbox[r] \/ Answering(r, q)

\* What runtime r may still answer is open, and queued apart from the rest.
PlanLocal(r) ==
    /\ phase[r] = "called" => context[r] \in Requests
    /\ phase[r] = "running" => current[r] \in Requests
    /\ \A q \in Requests : Holds(r, q) => Open(q)
    /\ \A q \in inbox[r] : ~Begins(r, q) /\ ~Answering(r, q)

\* No request is with two runtimes, and none has had two plans.
PlanInv ==
    /\ \A r \in Runtimes : PlanLocal(r)
    /\ \A r, s \in Runtimes, q \in Requests : Holds(r, q) /\ Holds(s, q) => r = s
    /\ OnePlan

\* What a step of runtime r may do to request q: it comes to hold only what it
\* held or what the client has just sent, and the request keeps its fate, stays
\* open, is accepted, or gets its plan.
Lawful(r, q) ==
    /\ Holds(r, q)' => \/ Holds(r, q) /\ Open(q)'
                       \/ fate[q] = "unused" /\ fate'[q] = "waiting"
    /\ \/ fate'[q] = fate[q]
       \/ Open(q) /\ Open(q)'
       \/ fate[q] = "unused" /\ fate'[q] = "waiting"
       \/ Answering(r, q) /\ fate'[q] \in {"planned", "late"}

\* What is left of PlanLocal for a runtime.
PlanShape(r) ==
    /\ phase[r] = "called" => context[r] \in Requests
    /\ phase[r] = "running" => current[r] \in Requests
    /\ \A q \in inbox[r] : ~Begins(r, q) /\ ~Answering(r, q)

\* Requests that leave the queue keep their fate or stay open.
LEMMA SettledOpen ==
    ASSUME TypeOK, NEW qs, NEW f \in {"withdrawn", "reported"}, Settled(qs, f),
           NEW q \in Requests
    PROVE  fate'[q] = fate[q] \/ (Open(q) /\ Open(q)')
  <1>1. fate'[q] = IF q \in qs /\ fate[q] = "waiting" THEN f ELSE fate[q]
    BY DEF Settled
  <1>2. QED
    BY <1>1 DEF Open

\* Every step of runtime r is lawful for every request (session-runtime.ts: one
\* plan per context, whether prompted, steered or queued).
LEMMA PlanOwn ==
    ASSUME IInv, NEW r \in Runtimes, PlanLocal(r), RuntimeStep(r)
    PROVE  PlanShape(r)' /\ \A q \in Requests : Lawful(r, q)
  <1> DEFINE Goal == PlanShape(r)' /\ \A q \in Requests : Lawful(r, q)
  <1> USE Disjoint DEF IInv, TypeOK, PlanLocal, PlanShape, Lawful, Holds, Begins, Answering,
          leaseVars, runVars, runtimeVars
  <1>1. CASE Connect(r)  BY <1>1 DEF Connect, Open
  <1>2. CASE Disconnect(r)  BY <1>2 DEF Disconnect, Open
  <1>3. CASE Dispose(r)
    BY <1>3, SettledOpen DEF Dispose, AgentIdle, Inferring, Reset
  <1>4. CASE OpenSession(r)  BY <1>4 DEF OpenSession, Open
  <1>5. ASSUME NEW q \in Requests, Prompt(r, q) PROVE Goal
    <2>1. ~Inferring(r)
      BY <1>5 DEF Prompt, Acquire, LeaseFree, LeaseInv, LeaseAccounted
    <2>2. QED
      BY <1>5, <2>1 DEF Prompt, Acquire, Inferring, Open
  <1>6. ASSUME NEW q \in Requests, Queue(r, q) PROVE Goal
    BY <1>6 DEF Queue, Open
  <1>7. CASE PromptBusy(r)  BY <1>7 DEF PromptBusy, Open
  <1>8. CASE Abort(r)  BY <1>8, SettledOpen DEF Abort, Open
  <1>9. CASE ClearQueue(r)  BY <1>9, SettledOpen DEF ClearQueue, Open
  <1>10. CASE CloseSession(r)
    <2>1. ~Inferring(r)
      BY <1>10 DEF CloseSession, RunInv
    <2>2. QED
      BY <1>10, <2>1, SettledOpen DEF CloseSession, Reset, Inferring
  <1>11. CASE TurnStart(r)  BY <1>11, WorkerAssumption DEF TurnStart, Open
  <1>12. ASSUME NEW q \in Requests, NextMessage(r, q) PROVE Goal
    BY <1>12, WorkerAssumption DEF NextMessage, Open
  <1>13. CASE SubmitPlan(r)
    <2>1. current[r] \in Requests /\ Answering(r, current[r]) /\ Open(current[r])
      BY <1>13 DEF SubmitPlan, MaySubmit
    <2>2. fate'[current[r]] \in {"planned", "late"}
      BY <1>13, <2>1 DEF SubmitPlan, Replied, Open
    <2>3. \A q \in Requests \ {current[r]} : fate'[q] = fate[q]
      BY <1>13 DEF SubmitPlan
    <2>4. QED
      BY <1>13, <2>1, <2>2, <2>3 DEF SubmitPlan, Open
  <1>14. CASE AgentEnd(r)  BY <1>14 DEF AgentEnd, Open
  <1>15. CASE Settle(r)
    <2>1. \A q \in Requests : fate'[q] = fate[q] \/ (Open(q) /\ Open(q)')
      BY <1>15, SettledOpen DEF Settle
    <2>2. QED
      BY <1>15, <2>1 DEF Settle, Open
  <1>16. QED
    BY <1>1, <1>2, <1>3, <1>4, <1>5, <1>6, <1>7, <1>8,
       <1>9, <1>10, <1>11, <1>12, <1>13, <1>14, <1>15 DEF RuntimeStep, Command, RunStep

\* A step of another connection leaves alone what runtime r may still answer.
LEMMA PlanOther ==
    ASSUME IInv, NEW r \in Runtimes, NEW o \in Owners \ {r},
           \/ o \in Runtimes /\ RuntimeStep(o)
           \/ o \in Shots /\ ShotStep(o) /\ fate' = fate
    PROVE  /\ context'[r] = context[r] /\ current'[r] = current[r]
           /\ submitted'[r] = submitted[r] /\ inbox'[r] = inbox[r] /\ phase'[r] = phase[r]
  <1>1. phase'[r] = phase[r]
    BY OtherRuntime DEF Untouched
  <1> USE Disjoint DEF IInv, TypeOK, runtimeVars
  <1>2. CASE o \in Shots
    BY <1>1, <1>2 DEF ShotStep, ShotBegins, ShotRefused, ShotTimeout, ShotEnds
  <1>3. CASE o \in Runtimes
    <2>1. CASE Command(o)
      BY <1>1, <2>1 DEF Command, OpenSession, Prompt, Queue, PromptBusy, Abort, ClearQueue,
         CloseSession, Reset
    <2>2. CASE RunStep(o)
      BY <1>1, <2>2 DEF RunStep, TurnStart, NextMessage, SubmitPlan, AgentEnd, Settle
    <2>3. CASE Connect(o) \/ Disconnect(o) \/ Dispose(o)
      BY <1>1, <2>3 DEF Connect, Disconnect, Dispose, Reset
    <2>4. QED
      BY <1>3, <2>1, <2>2, <2>3 DEF RuntimeStep
  <1>4. QED
    BY <1>2, <1>3

\* Every step keeps each open request with one runtime, in one place.
LEMMA PlanStep ==
    ASSUME IInv, PlanInv, Next
    PROVE  PlanInv'
  <1>1. ASSUME NEW o \in Runtimes, RuntimeStep(o) PROVE PlanInv'
    <2>1. PlanShape(o)' /\ \A q \in Requests : Lawful(o, q)
      BY <1>1, PlanOwn DEF PlanInv
    <2>2. \A r \in Runtimes \ {o} :
             (PlanShape(r)' <=> PlanShape(r)) /\ \A q : Holds(r, q)' <=> Holds(r, q)
      BY <1>1, PlanOther, Disjoint DEF PlanShape, Holds, Begins, Answering
    <2>3. \A q \in Requests, r \in Runtimes \ {o} : Holds(r, q) => Open(q) /\ Open(q)'
      BY <2>1 DEF Lawful, PlanInv, PlanLocal, Holds, Open
    <2>4. \A q \in Requests, r \in Runtimes : Holds(r, q)' => Open(q)'
      BY <2>1, <2>2, <2>3 DEF Lawful, Open
    <2>5. \A r \in Runtimes : PlanShape(r)'
      BY <2>1, <2>2 DEF PlanInv, PlanLocal, PlanShape
    <2>6. \A r, s \in Runtimes, q \in Requests : Holds(r, q)' /\ Holds(s, q)' => r = s
      <3>1. \A r \in Runtimes \ {o}, q \in Requests : ~(Holds(r, q)' /\ Holds(o, q)')
        BY <2>1, <2>2, <2>3 DEF Lawful, PlanInv, Open
      <3>2. QED
        BY <2>2, <3>1 DEF PlanInv
    <2>7. OnePlan'
      BY <2>1 DEF Lawful, PlanInv, OnePlan, Open
    <2>8. QED
      BY <2>4, <2>5, <2>6, <2>7 DEF PlanInv, PlanLocal, PlanShape
  <1>2. ASSUME UNCHANGED <<fate>>,
               \A r \in Runtimes : /\ context'[r] = context[r] /\ current'[r] = current[r]
                                   /\ submitted'[r] = submitted[r]
                                   /\ inbox'[r] = inbox[r] /\ phase'[r] = phase[r]
        PROVE  PlanInv'
    BY <1>2 DEF PlanInv, PlanLocal, Holds, Begins, Answering, Open, OnePlan
  <1>3. ASSUME NEW s \in Shots, ShotStep(s) PROVE PlanInv'
    <2>1. fate' = fate
      BY <1>3 DEF ShotStep, ShotBegins, ShotRefused, ShotTimeout, ShotEnds
    <2>2. QED
      BY <1>2, <1>3, <2>1, PlanOther, Disjoint
  <1>4. CASE Finished
    BY <1>2, <1>4 DEF Finished, vars, runVars, runtimeVars
  <1>5. QED
    BY <1>1, <1>3, <1>4 DEF Next, RuntimeStep

-----------------------------------------------------------------------------
(***************************************************************************)
(* The theorems                                                            *)
(***************************************************************************)
\* The inductive invariant of the planner worker: types, the run lease, the
\* runs and the requests that wait for a plan.
THEOREM Inductive == Spec => []IInv
  <1>1. Init => IInv
    <2> SUFFICES ASSUME Init PROVE IInv
      OBVIOUS
    <2>1. TypeOK
      BY InitType
    <2>2. LeaseInv /\ RunInv /\ RequestAccounted
      BY Disjoint DEF Init, LeaseInv, LeaseAccounted, RunInv, RequestAccounted, Inferring
    <2>3. QED  BY <2>1, <2>2 DEF IInv
  <1>2. IInv /\ [Next]_vars => IInv'
    <2>1. ASSUME IInv, Next PROVE IInv'
      BY <2>1, TypeStep, LeaseStep, RunInvStep, RequestStep DEF IInv
    <2>2. ASSUME IInv, UNCHANGED vars PROVE IInv'
      BY <2>2 DEF IInv, TypeOK, LeaseInv, LeaseAccounted, RunInv, RequestAccounted,
         Inferring, vars, leaseVars, runVars, runtimeVars
    <2>3. QED  BY <2>1, <2>2
  <1>3. QED
    BY <1>1, <1>2, PTL DEF Spec

\* Every variable keeps its type.
THEOREM TypeCorrect == Spec => []TypeOK
  <1>1. IInv => TypeOK  BY DEF IInv
  <1>2. QED  BY <1>1, Inductive, PTL

\* One inference at a time, whatever sessions are opened, aborted, dropped and
\* reopened and whatever one-shot requests come meanwhile.
THEOREM Serialized == Spec => []OneInference
  <1>1. IInv => OneInference
    BY DEF IInv, LeaseInv, LeaseAccounted, OneInference
  <1>2. QED  BY <1>1, Inductive, PTL

\* The lease has an owner that will give it back, and release never throws.
THEOREM LeaseSound == Spec => []LeaseAccounted
  <1>1. IInv => LeaseAccounted  BY DEF IInv, LeaseInv
  <1>2. QED  BY <1>1, Inductive, PTL

\* No accepted request is dropped without a plan, a report or a withdrawal.
THEOREM NoRequestLost == Spec => []RequestAccounted
  <1>1. IInv => RequestAccounted  BY DEF IInv
  <1>2. QED  BY <1>1, Inductive, PTL

\* A planning context gets at most one plan, whatever is steered, queued,
\* aborted, disposed of and reopened while it is open.
THEOREM OnePlanEach == Spec => []OnePlan
  <1>1. Init => PlanInv
    BY WorkerAssumption, Disjoint
       DEF Init, PlanInv, PlanLocal, Holds, Begins, Answering, Open, OnePlan
  <1>2. IInv /\ PlanInv /\ [Next]_vars => PlanInv'
    <2>1. ASSUME PlanInv, UNCHANGED vars PROVE PlanInv'
      BY <2>1 DEF PlanInv, PlanLocal, Holds, Begins, Answering, Open, OnePlan, vars, runVars,
         runtimeVars
    <2>2. QED
      BY <2>1, PlanStep
  <1>3. PlanInv => OnePlan
    BY DEF PlanInv
  <1>4. QED
    BY <1>1, <1>2, <1>3, Inductive, PTL DEF Spec

=============================================================================
