--------------------------- MODULE PlannerWorker ---------------------------
(***************************************************************************)
(* The planner worker (raspberry-pi/sdr-agent/planner-worker): one Node    *)
(* process that serves one-shot planning requests (main.mjs) and one       *)
(* interactive session at a time (session-server.mjs, session-runtime.mjs) *)
(* and lets a single inference run through (run-lease.mjs).                *)
(*                                                                         *)
(* A step is one socket event, one agent event or one settled promise with *)
(* the microtasks that follow it.  The Pi Agent is an external library:    *)
(* what it does between its calls and its events is left open.  It keeps   *)
(* its own queue of messages, which outlives a run.                        *)
(***************************************************************************)
EXTENDS Naturals, FiniteSets

CONSTANTS
    Runtimes,   \* session connections, each with its SessionRuntime
    Shots,      \* one-shot planning connections
    Requests,   \* planning request ids; a client uses each one once
    MaxQueue,   \* MAX_SESSION_QUEUE
    None        \* undefined

ASSUME WorkerAssumption ==
    /\ Runtimes \cap Shots = {}
    /\ None \notin Runtimes \cup Shots \cup Requests
    /\ MaxQueue \in Nat

Owners == Runtimes \cup Shots

VARIABLES
    lease,       \* RunLease.owner
    released,    \* per owner: its release function has been called
    phase,       \* per owner: its agent run
    aborted,     \* per owner: agent.abort() has been called on that run
    socket,      \* per connection
    agent,       \* per runtime: this.agent is defined
    stale,       \* per runtime: the run belongs to an agent since closed
    releaseRun,  \* per runtime: this.releaseRun is the run's release function
    active, queued, current, submitted, pending,  \* the runtime's other fields
    context,     \* per runtime: the context of the run's prompt
    inbox,       \* per runtime: the agent's steering and follow-up queues
    fate         \* per request: what became of it, as the client sees it

leaseVars   == <<lease, released>>
runVars     == <<phase, aborted>>
runtimeVars == <<agent, stale, releaseRun, active, queued, current, submitted,
                 pending, context, inbox>>
vars == <<leaseVars, runVars, socket, runtimeVars, fate>>

\* An agent is computing, from the call of agent.prompt to its last event.
Inferring(o) == phase[o] \in {"called", "running"}

Fates == {"unused", "waiting", "planned", "reported", "withdrawn", "late",
          "replanned"}

TypeOK ==
    /\ lease \in Owners \cup {None}
    /\ released \in [Owners -> BOOLEAN]
    /\ phase \in [Owners -> {"idle", "called", "running", "ended"}]
    /\ aborted \in [Owners -> BOOLEAN]
    /\ socket \in [Owners -> {"new", "open", "draining", "gone"}]
    /\ agent \in [Runtimes -> BOOLEAN]
    /\ stale \in [Runtimes -> BOOLEAN]
    /\ releaseRun \in [Runtimes -> BOOLEAN]
    /\ active \in [Runtimes -> BOOLEAN]
    /\ queued \in [Runtimes -> 0..MaxQueue]
    /\ current \in [Runtimes -> Requests \cup {None}]
    /\ submitted \in [Runtimes -> Requests \cup {None}]
    /\ pending \in [Runtimes -> SUBSET Requests]
    /\ context \in [Runtimes -> Requests \cup {None}]
    /\ inbox \in [Runtimes -> SUBSET Requests]
    /\ fate \in [Requests -> Fates]

Init ==
    /\ lease = None
    /\ released = [o \in Owners |-> TRUE]
    /\ phase = [o \in Owners |-> "idle"]
    /\ aborted = [o \in Owners |-> FALSE]
    /\ socket = [o \in Owners |-> "new"]
    /\ agent = [r \in Runtimes |-> FALSE]
    /\ stale = [r \in Runtimes |-> FALSE]
    /\ releaseRun = [r \in Runtimes |-> FALSE]
    /\ active = [r \in Runtimes |-> FALSE]
    /\ queued = [r \in Runtimes |-> 0]
    /\ current = [r \in Runtimes |-> None]
    /\ submitted = [r \in Runtimes |-> None]
    /\ pending = [r \in Runtimes |-> {}]
    /\ context = [r \in Runtimes |-> None]
    /\ inbox = [r \in Runtimes |-> {}]
    /\ fate = [q \in Requests |-> "unused"]

-----------------------------------------------------------------------------
(***************************************************************************)
(* RunLease                                                                *)
(***************************************************************************)
\* Mutant: acquire does not look at the owner.
LeaseFree_unchecked == TRUE
LeaseFree == lease = None

\* acquire succeeds, and o's run begins.
Acquire(o) ==
    /\ LeaseFree
    /\ lease' = o
    /\ released' = [released EXCEPT ![o] = FALSE]
    /\ phase' = [phase EXCEPT ![o] = "called"]
    /\ aborted' = [aborted EXCEPT ![o] = FALSE]

\* The release function of o's run: idempotent, and it throws when the lease
\* has another owner.
Release(o) ==
    /\ released' = [released EXCEPT ![o] = TRUE]
    /\ lease' = IF ~released[o] /\ lease = o THEN None ELSE lease

-----------------------------------------------------------------------------
(***************************************************************************)
(* The one-shot planner (handleFrame)                                      *)
(***************************************************************************)
ShotBegins(s) ==
    /\ socket[s] = "new"
    /\ Acquire(s)
    /\ socket' = [socket EXCEPT ![s] = "open"]
    /\ UNCHANGED <<runtimeVars, fate>>

\* "planner is busy", a frame that does not parse, or no agent (the lease is
\* acquired and released again): an error response.
ShotRefused(s) ==
    /\ socket[s] = "new"
    /\ socket' = [socket EXCEPT ![s] = "gone"]
    /\ UNCHANGED <<leaseVars, runVars, runtimeVars, fate>>

\* Mutant: the timer is never armed.
ShotExpires_never(s) == FALSE
\* setTimeout(config.requestTimeoutMs) may fire.
ShotExpires(s) == Inferring(s) /\ ~aborted[s]

ShotTimeout(s) ==
    /\ ShotExpires(s)
    /\ aborted' = [aborted EXCEPT ![s] = TRUE]
    /\ UNCHANGED <<leaseVars, phase, socket, runtimeVars, fate>>

\* prompt resolves or rejects; the finally block releases, then the plan or an
\* error is answered.
ShotEnds(s) ==
    /\ Inferring(s)
    /\ phase' = [phase EXCEPT ![s] = "idle"]
    /\ Release(s)
    /\ socket' = [socket EXCEPT ![s] = "gone"]
    /\ UNCHANGED <<aborted, runtimeVars, fate>>

-----------------------------------------------------------------------------
(***************************************************************************)
(* The session server and the commands of SessionRuntime.dispatch.  A      *)
(* refused command changes nothing, but for a prompt without lease.        *)
(***************************************************************************)
\* A second connection is told "interactive session is busy".
Connect(r) ==
    /\ socket[r] = "new"
    /\ \A s \in Runtimes : socket[s] # "open"
    /\ socket' = [socket EXCEPT ![r] = "open"]
    /\ UNCHANGED <<leaseVars, runVars, runtimeVars, fate>>

Commanded(r) == socket[r] = "open" /\ agent[r]

\* The client's requests qs leave the queue with fate f.
Settled(qs, f) ==
    fate' = [q \in Requests |-> IF q \in qs /\ fate[q] = "waiting" THEN f ELSE fate[q]]

OpenSession(r) ==
    /\ socket[r] = "open"
    /\ ~agent[r]
    /\ agent' = [agent EXCEPT ![r] = TRUE]
    /\ inbox' = [inbox EXCEPT ![r] = {}]
    /\ pending' = [pending EXCEPT ![r] = {}]
    /\ UNCHANGED <<leaseVars, runVars, socket, stale, releaseRun, active, queued, current,
                   submitted, context, fate>>

Prompt(r, q) ==
    /\ Commanded(r)
    /\ ~active[r]
    /\ fate[q] = "unused"
    /\ Acquire(r)
    /\ releaseRun' = [releaseRun EXCEPT ![r] = TRUE]
    /\ stale' = [stale EXCEPT ![r] = FALSE]
    /\ pending' = [pending EXCEPT ![r] = {q}]
    /\ context' = [context EXCEPT ![r] = q]
    /\ active' = [active EXCEPT ![r] = TRUE]
    /\ fate' = [fate EXCEPT ![q] = "waiting"]
    /\ UNCHANGED <<socket, agent, queued, current, submitted, inbox>>

\* The lease is taken: this.releaseRun is overwritten all the same.
PromptBusy(r) ==
    /\ Commanded(r)
    /\ ~active[r]
    /\ ~LeaseFree
    /\ releaseRun' = [releaseRun EXCEPT ![r] = FALSE]
    /\ UNCHANGED <<leaseVars, runVars, socket, agent, stale, active, queued, current,
                   submitted, pending, context, inbox, fate>>

\* Mutant: the limit is one too large.
QueueFull_offByOne(r) == queued[r] > MaxQueue
QueueFull(r) == queued[r] >= MaxQueue

\* Mutant: a queued request is not remembered as one that owes a plan.
QueuedPending_forgotten(r, q) == pending[r]
QueuedPending(r, q) == pending[r] \cup {q}

\* steer and follow_up: the message goes to the agent's queue.
Queue(r, q) ==
    /\ Commanded(r)
    /\ active[r]
    /\ ~QueueFull(r)
    /\ fate[q] = "unused"
    /\ inbox' = [inbox EXCEPT ![r] = @ \cup {q}]
    /\ pending' = [pending EXCEPT ![r] = QueuedPending(r, q)]
    /\ queued' = [queued EXCEPT ![r] = @ + 1]
    /\ fate' = [fate EXCEPT ![q] = "waiting"]
    /\ UNCHANGED <<leaseVars, runVars, socket, agent, stale, releaseRun, active, current,
                   submitted, context>>

Abort(r) ==
    /\ Commanded(r)
    /\ inbox' = [inbox EXCEPT ![r] = {}]
    /\ queued' = [queued EXCEPT ![r] = 0]
    /\ pending' = [pending EXCEPT ![r] = {}]
    /\ aborted' = [aborted EXCEPT ![r] = Inferring(r) \/ @]
    /\ Settled(pending[r], "withdrawn")
    /\ UNCHANGED <<leaseVars, phase, socket, agent, stale, releaseRun, active, current,
                   submitted, context>>

\* clear_queue: only the current context, without a plan yet, stays pending.
StillPending(r) == {q \in {current[r]} : q # None /\ submitted[r] # q}

ClearQueue(r) ==
    /\ Commanded(r)
    /\ inbox' = [inbox EXCEPT ![r] = {}]
    /\ queued' = [queued EXCEPT ![r] = 0]
    /\ pending' = [pending EXCEPT ![r] = StillPending(r)]
    /\ Settled(pending[r] \ StillPending(r), "withdrawn")
    /\ UNCHANGED <<leaseVars, runVars, socket, agent, stale, releaseRun, active, current,
                   submitted, context>>

\* What close_session and dispose leave of a runtime.  A run that has not
\* settled yet sees that its agent is gone.
Reset(r) ==
    /\ agent' = [agent EXCEPT ![r] = FALSE]
    /\ stale' = [stale EXCEPT ![r] = TRUE]
    /\ current' = [current EXCEPT ![r] = None]
    /\ submitted' = [submitted EXCEPT ![r] = None]
    /\ pending' = [pending EXCEPT ![r] = {}]
    /\ inbox' = [inbox EXCEPT ![r] = {}]
    /\ queued' = [queued EXCEPT ![r] = 0]
    /\ Settled(pending[r], "withdrawn")

CloseSession(r) ==
    /\ Commanded(r)
    /\ ~active[r]
    /\ Reset(r)
    /\ UNCHANGED <<leaseVars, runVars, socket, releaseRun, active, context>>

\* Mutant: dispose waits for the run without aborting it.
DisposeAborts_not(r) == aborted[r]
DisposeAborts(r) == Inferring(r) \/ aborted[r]

\* The socket closes and dispose begins; the next client may connect at once.
Disconnect(r) ==
    /\ socket[r] = "open"
    /\ socket' = [socket EXCEPT ![r] = IF agent[r] THEN "draining" ELSE "gone"]
    /\ aborted' = [aborted EXCEPT ![r] = IF agent[r] THEN DisposeAborts(r) ELSE @]
    /\ inbox' = [inbox EXCEPT ![r] = {}]
    /\ queued' = [queued EXCEPT ![r] = 0]
    /\ UNCHANGED <<leaseVars, phase, agent, stale, releaseRun, active, current, submitted,
                   pending, context, fate>>

\* agent.waitForIdle() has resolved.
AgentIdle(r) == ~Inferring(r)

Dispose(r) ==
    /\ socket[r] = "draining"
    /\ AgentIdle(r)
    /\ socket' = [socket EXCEPT ![r] = "gone"]
    /\ IF releaseRun[r] THEN Release(r) ELSE UNCHANGED leaseVars
    /\ releaseRun' = [releaseRun EXCEPT ![r] = FALSE]
    /\ active' = [active EXCEPT ![r] = FALSE]
    /\ Reset(r)
    /\ UNCHANGED <<runVars, context>>

-----------------------------------------------------------------------------
(***************************************************************************)
(* The agent's run: its events, and the promise chain of #runPrompt.       *)
(***************************************************************************)
\* agent_start, and message_start for the prompt's own context.
TurnStart(r) ==
    /\ phase[r] = "called"
    /\ phase' = [phase EXCEPT ![r] = "running"]
    /\ active' = [active EXCEPT ![r] = TRUE]
    /\ current' = [current EXCEPT ![r] = context[r]]
    /\ submitted' = [submitted EXCEPT ![r] = None]
    /\ UNCHANGED <<leaseVars, aborted, socket, agent, stale, releaseRun, queued, pending,
                   context, inbox, fate>>

\* message_start for a queued context q.
NextMessage(r, q) ==
    /\ phase[r] = "running"
    /\ ~aborted[r]
    /\ q \in inbox[r]
    /\ inbox' = [inbox EXCEPT ![r] = @ \ {q}]
    /\ current' = [current EXCEPT ![r] = q]
    /\ submitted' = [submitted EXCEPT ![r] = None]
    /\ UNCHANGED <<leaseVars, runVars, socket, agent, stale, releaseRun, active, queued,
                   pending, context, fate>>

\* Mutant: a context may submit several plans.
MaySubmit_again(r) == TRUE
MaySubmit(r) == submitted[r] # current[r]

\* The fate of a request of fate f when its plan is proposed.
Replied(f) == CASE f = "waiting" -> "planned"
                [] f \in {"reported", "withdrawn"} -> "late"
                [] OTHER -> "replanned"

\* The submit_plan tool: plan_proposed for the current context.
SubmitPlan(r) ==
    /\ phase[r] = "running"
    /\ MaySubmit(r)
    /\ submitted' = [submitted EXCEPT ![r] = current[r]]
    /\ pending' = [pending EXCEPT ![r] = @ \ {current[r]}]
    /\ fate' = [fate EXCEPT ![current[r]] = Replied(@)]
    /\ UNCHANGED <<leaseVars, runVars, socket, agent, stale, releaseRun, active, queued,
                   current, context, inbox>>

\* The agent_end event.  What is still in the agent's queue stays there.
AgentEnd(r) ==
    /\ phase[r] = "running"
    /\ phase' = [phase EXCEPT ![r] = "ended"]
    /\ active' = [active EXCEPT ![r] = FALSE]
    /\ queued' = [queued EXCEPT ![r] = 0]
    /\ UNCHANGED <<leaseVars, aborted, socket, agent, stale, releaseRun, current,
                   submitted, pending, context, inbox, fate>>

\* The requests that agent_error names, or stands for, when the run settles.
Unplanned(r) == IF stale[r] THEN {} ELSE pending[r]

\* Mutant: the lease of a closed session is not given back.
SettleReleases_current(r) == IF stale[r] THEN UNCHANGED leaseVars ELSE Release(r)
SettleReleases(r) == Release(r)

\* agent.prompt resolves after agent_end, or rejects at any time: agent_error,
\* then the finally block.
Settle(r) ==
    /\ phase[r] # "idle"
    /\ phase' = [phase EXCEPT ![r] = "idle"]
    /\ SettleReleases(r)
    /\ releaseRun' = [releaseRun EXCEPT ![r] = FALSE]
    /\ Settled(Unplanned(r), "reported")
    /\ IF stale[r] THEN UNCHANGED <<active, queued, pending>>
       ELSE /\ active' = [active EXCEPT ![r] = FALSE]
            /\ queued' = IF active[r] THEN [queued EXCEPT ![r] = 0] ELSE queued
            /\ pending' = [pending EXCEPT ![r] = {}]
    /\ UNCHANGED <<aborted, socket, agent, stale, current, submitted, context, inbox>>

-----------------------------------------------------------------------------
ShotStep(s) == ShotBegins(s) \/ ShotRefused(s) \/ ShotTimeout(s) \/ ShotEnds(s)

Command(r) ==
    \/ OpenSession(r)
    \/ \E q \in Requests : Prompt(r, q) \/ Queue(r, q)
    \/ PromptBusy(r)
    \/ Abort(r)
    \/ ClearQueue(r)
    \/ CloseSession(r)

RunStep(r) ==
    \/ TurnStart(r)
    \/ \E q \in Requests : NextMessage(r, q)
    \/ SubmitPlan(r)
    \/ AgentEnd(r)
    \/ Settle(r)

\* Every connection of the instance has been served.
Finished == (\A o \in Owners : socket[o] = "gone" /\ phase[o] = "idle") /\ UNCHANGED vars

Next ==
    \/ \E s \in Shots : ShotStep(s)
    \/ \E r \in Runtimes : Connect(r) \/ Command(r) \/ Disconnect(r) \/ Dispose(r)
    \/ \E r \in Runtimes : RunStep(r)
    \/ Finished

Spec == Init /\ [][Next]_vars

\* The event loop runs what is ready: timers fire, an aborted run comes to its
\* end, a promise that can settle does.  A run that nobody aborts may stream
\* for ever, and nothing is assumed of clients.
Fairness ==
    /\ \A s \in Shots : WF_vars(ShotTimeout(s)) /\ WF_vars(aborted[s] /\ ShotEnds(s))
    /\ \A r \in Runtimes :
         /\ WF_vars(aborted[r] /\ (TurnStart(r) \/ AgentEnd(r)))
         /\ WF_vars(phase[r] = "ended" /\ Settle(r))
         /\ WF_vars(Dispose(r))

FairSpec == Spec /\ Fairness

-----------------------------------------------------------------------------
(***************************************************************************)
(* Properties                                                              *)
(***************************************************************************)
\* One inference at a time across the one-shot planner, the session and a
\* session that is still being disposed of (one global run lease).
OneInference ==
    \A o, p \in Owners : Inferring(o) /\ Inferring(p) => o = p

\* The lease is never leaked: its owner has a run that has not settled and will
\* give it back; and release never finds a foreign owner (the "run lease
\* ownership mismatch" error of RunLease cannot be thrown).
LeaseAccounted ==
    /\ lease # None => phase[lease] # "idle" /\ ~released[lease]
    /\ \A o \in Owners : ~released[o] => lease = o

\* No request is lost: one that waits for its plan belongs to a run that has not
\* settled, and that run will name it in agent_error if no plan comes.
RequestAccounted ==
    \A q \in Requests : fate[q] = "waiting" =>
        \E r \in Runtimes : q \in pending[r] /\ phase[r] # "idle" /\ ~stale[r]

\* "only one plan may be submitted per planning context", whatever is steered,
\* aborted and reopened meanwhile.
OnePlan == \A q \in Requests : fate[q] # "replanned"

\* The steering and follow-up queue is bounded (SDR_AGENT_PROJECT_CHECKLIST.md,
\* "Bound the interactive steering/follow-up queue to four messages").
QueueBounded == \A r \in Runtimes : Cardinality(inbox[r]) <= MaxQueue

\* The lease comes back: a one-shot run ends, by its timer if need be, and a
\* client that disconnects, whatever its session was doing, leaves no run.
LeaseComesBack ==
    /\ \A s \in Shots : lease = s ~> lease # s
    /\ \A r \in Runtimes : socket[r] = "draining" ~> socket[r] = "gone" /\ lease # r

-----------------------------------------------------------------------------
(***************************************************************************)
(* The inductive invariant behind them (PlannerWorkerProofs).              *)
(***************************************************************************)
\* A run that computes has not released; who has not released owns the lease.
LeaseInv ==
    /\ LeaseAccounted
    /\ \A o \in Owners : Inferring(o) => ~released[o]

\* A runtime is active from the prompt to the agent's last event, and as long as
\* its run has neither settled nor lost its session it keeps the lease.
RunInv ==
    \A r \in Runtimes :
        /\ Inferring(r) => active[r]
        /\ active[r] => phase[r] # "idle" /\ ~stale[r]
        /\ phase[r] # "idle" /\ ~stale[r] => agent[r] /\ ~released[r]

IInv == TypeOK /\ LeaseInv /\ RunInv /\ RequestAccounted

=============================================================================
