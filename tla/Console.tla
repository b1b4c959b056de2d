------------------------------ MODULE Console ------------------------------
(***************************************************************************)
(* The terminal console (controller/src/bin/sdr-agent.rs) with its cruise  *)
(* control (autonomy.rs): one main loop between an operator's terminal, a  *)
(* planner session on a Unix socket and at most two hardware threads.      *)
(*                                                                         *)
(* The ConsoleApp object is the record app, and a method that the code     *)
(* calls from several handlers is an operator from record to record.  A    *)
(* method that fails sets app.exit: every caller passes the error on with  *)
(* "?" and the process ends.  A step of the loop is atomic but for the two *)
(* commands of renew and the one of status, which wait for their response  *)
(* and handle the frames that come before it.                              *)
(*                                                                         *)
(* The planner worker is the console's view of PlannerWorker: it answers   *)
(* commands in order, and its run proposes plans and ends when it likes.   *)
(***************************************************************************)
EXTENDS Naturals, Sequences

CONSTANTS
    MaxRequests,   \* bound: request ids a console uses
    MaxLines,      \* bound: lines the operator types
    InputLimit,    \* TERMINAL_INPUT_QUEUE_LIMIT
    QueueLimit,    \* MAX_SESSION_QUEUE of the worker
    MaxSteps,      \* --steps of a cruise
    Budget,        \* --mib of a cruise
    AutoBytes,     \* limits.auto_approve_iq_bytes
    SweepBytes,    \* maximum_bytes of a survey or an inspection
    RetryLimit,    \* AUTO_RETRY_LIMIT
    Proposals,     \* what the model may propose: records [action, bytes]
    Inputs         \* the lines the operator may type, other than /stop

AllInputs == {"text", "follow-up", "approve", "reject", "manual", "auto", "pause",
              "resume", "status", "quit"}
Executable == {"capture", "survey", "inspect"}
Actions == Executable \cup {"hold", "recognize", "invalid"}

ASSUME ConsoleAssumption ==
    /\ {MaxRequests, MaxLines, InputLimit, QueueLimit, MaxSteps, Budget, AutoBytes,
        SweepBytes, RetryLimit} \subseteq Nat \ {0}
    /\ Proposals \subseteq [action : Actions, bytes : Nat]
    /\ Inputs \subseteq AllInputs

VARIABLES
    app,       \* the ConsoleApp
    pc,        \* where the main loop is
    call,      \* the session command that command() waits for
    lines,     \* the terminal input queue
    stop,      \* priority_stop
    typed,     \* lines typed so far
    frames,    \* from the worker to the console
    worker     \* the session runtime

vars == <<app, pc, call, lines, stop, typed, frames, worker>>

-----------------------------------------------------------------------------
Ids == 1..MaxRequests
\* Every renewal is asked for by a line or ends a cruise that a line began.
Generations == 1..(2 * MaxLines + 1)
States == {"idle", "surveying", "inspecting", "holding", "faulted"}

Commands == [kind : {"open", "close", "state", "prompt", "queue", "abort"},
             gen : Generations, id : Ids \cup {0}]
Plans == [id : Ids, gen : Generations, action : Actions, bytes : Nat]
NoPlan == [id |-> 0, gen |-> 0, action |-> "none", bytes |-> 0]
NoWork == [kind |-> "none", id |-> 0, gen |-> 0, bytes |-> 0, result |-> "none"]
Work(kinds) == [kind : kinds, id : Ids \cup {0}, gen : Generations, bytes : Nat,
                result : {"running", "done", "failed"}]
Frames == [type : {"response"}, cmd : Commands, ok : BOOLEAN]
            \cup [type : {"plan"}, plan : Plans]
            \cup [type : {"end"}, gen : Generations]

\* Why the process ended.
Exits == {"no", "quit", "renew refused", "close refused", "open refused",
          "unknown response", "stale response", "unknown request", "policy",
          "plan pending", "step active", "sweep plan", "candidate", "request"}

TypeOK ==
    /\ app.gen \in Generations
    /\ app.next \in 1..(MaxRequests + 1)
    /\ app.state \in States
    /\ {app.cycle, app.seen, app.deferred, app.due, app.expired} \subseteq BOOLEAN
    /\ app.requests \subseteq [id : Ids, gen : Generations, faulted : BOOLEAN]
    /\ app.pending \in Plans \cup {NoPlan}
    /\ app.commands \subseteq Commands
    /\ app.execution \in Work({"capture"}) \cup {NoWork}
    /\ app.sweep \in Work({"initial", "survey", "inspect"}) \cup {NoWork}
    /\ app.cruise \in [auto : BOOLEAN, active : BOOLEAN, steps : 0..MaxSteps, used : Nat,
                       sdr : 0..RetryLimit, planner : 0..RetryLimit]
    /\ app.wire \in Seq(Commands)
    /\ app.want \in {"no", "idle", "holding"}
    /\ app.exit \in Exits
    /\ pc \in {"top", "frames", "auto", "input", "await", "clear", "closing", "closed", "gone"}
    /\ call \in [cmd : Commands, state : States, effect : {"none", "manual", "cruise"},
                 then : {"top", "auto", "input", "clear", "closed"}]
    /\ lines \in Seq(AllInputs) /\ Len(lines) <= InputLimit
    /\ stop \in BOOLEAN
    /\ typed \in 0..MaxLines
    /\ frames \in Seq(Frames)
    /\ worker \in [open : Generations \cup {0}, active : BOOLEAN, current : Ids \cup {0},
                   submitted : BOOLEAN, aborted : BOOLEAN, inbox : SUBSET Ids, queued : 0..QueueLimit]

-----------------------------------------------------------------------------
(***************************************************************************)
(* CruiseControl                                                           *)
(***************************************************************************)
CruiseDefault == [auto |-> FALSE, active |-> FALSE, steps |-> 0, used |-> 0,
                  sdr |-> 0, planner |-> 0]
CruiseStart == [CruiseDefault EXCEPT !.auto = TRUE, !.active = TRUE]
CruiseStop(c) == [c EXCEPT !.active = FALSE]
SwitchToStepApproval(c) == [c EXCEPT !.auto = FALSE, !.active = FALSE]

\* Mutant: one failure too many.
Exhausted_late(n) == n > RetryLimit
Exhausted(n) == n >= RetryLimit

RecordSdrUnavailable(c) ==
    [c EXCEPT !.sdr = @ + 1, !.active = @ /\ ~Exhausted(c.sdr + 1)]

RecordPlannerMissing(c) ==
    [c EXCEPT !.planner = @ + 1, !.active = @ /\ ~Exhausted(c.planner + 1)]

RecordExecution(c, bytes) ==
    [c EXCEPT !.steps = @ + 1, !.used = @ + bytes,
              !.active = c.steps + 1 < MaxSteps /\ c.used + bytes < Budget]

RemainingBytes(c) == IF c.used < Budget THEN Budget - c.used ELSE 0

-----------------------------------------------------------------------------
(***************************************************************************)
(* ConsoleApp: the methods, as operators on the record.                    *)
(***************************************************************************)
Fail(a, why) == [a EXCEPT !.exit = why]

HardwareActive(a) == a.execution # NoWork \/ a.sweep # NoWork
Busy(a) == HardwareActive(a) \/ a.cycle

Cmd(kind, gen, id) == [kind |-> kind, gen |-> gen, id |-> id]

\* send_session_command
Write(a, c) == [a EXCEPT !.wire = Append(@, c)]

\* ... and the insertion into pending_session_commands.
Send(a, kind, id) ==
    LET c == Cmd(kind, a.gen, id)
    IN  [Write(a, c) EXCEPT !.commands = @ \cup {c}]

\* A request built from the template; ids beyond the bound are not used.
NewRequest(a) == [id |-> a.next, gen |-> a.gen, faulted |-> a.state = "faulted"]

\* valid: validate_request accepts the template with the instruction.
Submit(a, valid) ==
    IF Busy(a) \/ a.next > MaxRequests THEN a
    ELSE IF ~valid THEN Fail(a, "request")
    ELSE LET b == [a EXCEPT !.next = @ + 1, !.requests = @ \cup {NewRequest(a)},
                            !.cycle = TRUE, !.seen = FALSE]
         IN  Send(b, "prompt", a.next)

MayQueue(a) == a.cycle /\ ~a.deferred /\ ~HardwareActive(a)

QueueModelInput(a, valid) ==
    IF ~MayQueue(a) \/ a.next > MaxRequests THEN a
    ELSE IF ~valid THEN Fail(a, "request")
    ELSE Send([a EXCEPT !.next = @ + 1, !.requests = @ \cup {NewRequest(a)}], "queue", a.next)

\* An abort is not answered yet.
AbortPending(a) == \E c \in a.commands : c.kind = "abort"

RequestAgentAbort(a) == IF AbortPending(a) THEN a ELSE Send(a, "abort", 0)

\* The executor is taken while an execution is active.
StartExecution(a, p) ==
    IF a.execution # NoWork
    THEN [a EXCEPT !.cruise = CruiseStop(@)]
    ELSE [a EXCEPT !.execution = [kind |-> "capture", id |-> p.id, gen |-> p.gen,
                                  bytes |-> p.bytes, result |-> "running"]]

OverBudget(c) == c.active /\ SweepBytes > RemainingBytes(c)

\* start_planned_survey and start_candidate_inspection.  sdr is what the world
\* says: "sick", refresh_sdr_health fails; "refused", it succeeds and the sweep
\* engine's validate_plan, or the inspection's report, fails; or "healthy".
StartSweep(a, p, sdr) ==
    CASE HardwareActive(a) -> Fail(a, "step active")
      [] ~HardwareActive(a) /\ sdr = "sick" ->
            IF a.cruise.active
            THEN [a EXCEPT !.cruise = RecordSdrUnavailable(@), !.due = FALSE]
            ELSE a
      [] ~HardwareActive(a) /\ sdr = "refused" -> Fail(a, "sweep plan")
      [] OTHER ->
            IF OverBudget(a.cruise) THEN [a EXCEPT !.cruise = CruiseStop(@)]
            ELSE [a EXCEPT
                    !.sweep = [kind |-> p.action, id |-> p.id, gen |-> p.gen,
                               bytes |-> SweepBytes, result |-> "running"],
                    !.state = IF p.action = "survey" THEN "surveying" ELSE "inspecting"]

Start(a, p, sdr) ==
    IF p.action = "capture" THEN StartExecution(a, p) ELSE StartSweep(a, p, sdr)

Approve(a, sdr) ==
    IF HardwareActive(a) \/ a.pending = NoPlan THEN a
    ELSE Start([a EXCEPT !.pending = NoPlan], a.pending, sdr)

Reject(a) == [a EXCEPT !.pending = NoPlan]

\* A completed step of a cruise is counted and the next one asked for at once.
Completed(a, bytes) ==
    IF a.cruise.active
    THEN [a EXCEPT !.cruise = RecordExecution(@, bytes), !.due = TRUE]
    ELSE a

PollExecution(a, sdr) ==
    LET b == [a EXCEPT !.execution = NoWork]
    IN  CASE a.execution.result \in {"none", "running"} -> a
          [] a.execution.result = "done" -> Completed(b, a.execution.bytes)
          [] a.execution.result = "failed" ->
                IF a.cruise.active /\ sdr = "sick"
                THEN [b EXCEPT !.cruise = RecordSdrUnavailable(@), !.due = FALSE]
                ELSE [b EXCEPT !.cruise = CruiseStop(@), !.state = "faulted"]

\* The report of an inspection is lost when its candidate is no longer there.
PollSweep(a, sdr) ==
    LET b == [a EXCEPT !.sweep = NoWork]
        w == a.sweep
    IN  CASE w.result \in {"none", "running"} -> a
          [] w.result = "done" /\ sdr = "sick" ->
                [b EXCEPT !.state = "faulted", !.cruise = CruiseStop(@)]
          [] w.result = "done" /\ sdr = "refused" /\ w.kind = "inspect" ->
                Fail([b EXCEPT !.state = "idle"], "candidate")
          [] w.result = "failed" ->
                [b EXCEPT !.state = "holding",
                          !.cruise = IF w.kind = "initial" THEN @ ELSE CruiseStop(@)]
          [] OTHER -> IF w.kind = "initial" THEN [b EXCEPT !.state = "idle"]
                      ELSE Completed([b EXCEPT !.state = "idle"], w.bytes)

\* renew(Holding), as the last call of a method.
Renewed(a) == IF a.exit = "no" THEN [a EXCEPT !.want = "holding"] ELSE a

\* cancelled says whether SDRD accepted CANCEL_SESSION; the thread is then
\* joined.  stop_sweep:
StopSweep(a, cancelled, sdr) ==
    CASE cancelled -> Renewed([a EXCEPT !.sweep = NoWork])
      [] ~cancelled /\ a.sweep.result # "running" -> Renewed(PollSweep(a, sdr))
      [] OTHER -> a

StopExecution(a, cancelled, sdr) ==
    CASE cancelled ->
            LET b == [a EXCEPT !.execution = NoWork]
            IN  IF a.cycle THEN [b EXCEPT !.deferred = TRUE] ELSE Renewed(b)
      [] ~cancelled /\ a.execution.result # "running" -> Renewed(PollExecution(a, sdr))
      [] OTHER -> a

Stop(a, cancelled, sdr) ==
    LET b == [a EXCEPT !.cruise = CruiseStop(@)]
        c == IF b.cycle THEN [RequestAgentAbort(b) EXCEPT !.deferred = TRUE] ELSE b
    IN  CASE c.sweep # NoWork -> StopSweep(c, cancelled, sdr)
          [] c.sweep = NoWork /\ c.execution # NoWork -> StopExecution(c, cancelled, sdr)
          [] OTHER -> IF c.cycle THEN c ELSE Renewed([c EXCEPT !.deferred = FALSE])

EnableStepApproval(a, cancelled, sdr) ==
    CASE ~a.cruise.auto /\ ~a.cruise.active -> a
      [] (a.cruise.auto \/ a.cruise.active) /\ Busy(a) -> Stop(a, cancelled, sdr)
      [] OTHER -> [a EXCEPT !.cruise = SwitchToStepApproval(@), !.want = "idle"]

StartAuto(a) == IF Busy(a) \/ a.pending # NoPlan THEN a ELSE [a EXCEPT !.want = "idle"]

\* Mutant: the duration is looked at between two steps only.
Expired_idle(a) == a.expired /\ ~Busy(a)
\* check_duration
Expired(a) == a.expired

\* advance_auto: the next step of an active cruise.  With sdr = "refused" the
\* radio is healthy and validate_request refuses the step.
AdvanceAuto(a, cancelled, sdr) ==
    CASE ~a.cruise.active -> a
      [] a.cruise.active /\ Expired(a) ->
            LET b == [a EXCEPT !.cruise = CruiseStop(@)]
            IN  IF Busy(a) THEN Stop(b, cancelled, sdr) ELSE b
      [] a.cruise.active /\ ~Expired(a) /\ (Busy(a) \/ a.pending # NoPlan \/ ~a.due) -> a
      [] OTHER ->
            IF sdr = "sick"
            THEN [a EXCEPT !.cruise = RecordSdrUnavailable(@), !.due = FALSE]
            ELSE Submit([a EXCEPT !.cruise.sdr = 0], sdr # "refused")

-----------------------------------------------------------------------------
(***************************************************************************)
(* handle_frame                                                            *)
(***************************************************************************)
\* The prompt was refused, or the run ended without a plan.
NoNextStep(a) ==
    IF a.cruise.active
    THEN [a EXCEPT !.cruise = RecordPlannerMissing(@), !.due = FALSE]
    ELSE a

\* handle_session_response
HandleResponse(a, f) ==
    LET c == f.cmd
        b == [a EXCEPT !.commands = @ \ {c}]
        forgotten == [b EXCEPT !.requests = {q \in @ : q.id # c.id}]
    IN  CASE c \notin a.commands ->
                IF c.gen = a.gen THEN Fail(a, "unknown response") ELSE a
          [] c \in a.commands /\ c.gen # a.gen -> forgotten
          [] c \in a.commands /\ c.gen = a.gen /\ ~f.ok /\ c.kind = "prompt" ->
                NoNextStep([forgotten EXCEPT !.cycle = FALSE, !.seen = FALSE])
          [] c \in a.commands /\ c.gen = a.gen /\ ~f.ok /\ c.kind = "queue" -> forgotten
          [] OTHER -> b

\* ControllerPolicy.validate_response, with the request as it was submitted.
Valid(p, q) == p.action # "invalid" /\ (q.faulted => p.action = "hold")

\* Mutant: a cruise takes what only an operator may approve.
ApprovalRequired_never(p) == FALSE
ApprovalRequired(p) == p.action = "capture" /\ p.bytes > AutoBytes

\* What an active cruise does with a plan.
Cruise(a, p, sdr) ==
    CASE ApprovalRequired(p) -> [a EXCEPT !.pending = p, !.cruise = CruiseStop(@)]
      [] ~ApprovalRequired(p) /\ p.action \in Executable -> Start(a, p, sdr)
      [] OTHER -> [a EXCEPT !.cruise = CruiseStop(@)]

\* plan_proposed.  An executable plan ends the rest of the model's run.
HandlePlan(a, p, sdr) ==
    LET b == [a EXCEPT !.seen = TRUE, !.cruise.planner = 0]
        c == CASE a.cruise.active /\ a.cruise.auto -> Cruise(b, p, sdr)
               [] ~a.cruise.auto /\ p.action \in Executable ->
                    IF a.pending = NoPlan THEN [b EXCEPT !.pending = p]
                    ELSE Fail(b, "plan pending")
               [] OTHER -> b
    IN  CASE p.gen # a.gen -> a
          [] p.gen = a.gen /\ ~\E q \in a.requests : q.id = p.id -> Fail(a, "unknown request")
          [] p.gen = a.gen /\ \E q \in a.requests : q.id = p.id /\ ~Valid(p, q) ->
                Fail(a, "policy")
          [] OTHER -> IF c.exit = "no" /\ c.cycle /\ p.action \in Executable
                      THEN RequestAgentAbort(c)
                      ELSE c

\* Mutant: a run that ends without a plan is not over.
HandleEnd_unseen(a, gen) ==
    IF gen # a.gen \/ ~a.seen THEN a
    ELSE [a EXCEPT !.cycle = FALSE, !.requests = {}, !.seen = FALSE]
\* agent_end
HandleEnd(a, gen) ==
    LET b == [a EXCEPT !.cycle = FALSE, !.requests = {}]
    IN  IF gen # a.gen THEN a
        ELSE [(IF a.seen THEN b ELSE NoNextStep(b)) EXCEPT !.seen = FALSE]

HandleFrame(a, f, sdr) ==
    CASE f.type = "response" -> HandleResponse(a, f)
      [] f.type = "plan" -> HandlePlan(a, f.plan, sdr)
      [] f.type = "end" -> HandleEnd(a, f.gen)

-----------------------------------------------------------------------------
(***************************************************************************)
(* The main loop                                                           *)
(***************************************************************************)
Sdr == {"healthy", "sick", "refused"}

NoCall == [cmd |-> Cmd("open", 1, 0), state |-> "idle", effect |-> "none", then |-> "top"]

\* Connected, open_session answered; an initial survey may have been started.
Init ==
    /\ \E w \in {NoWork, [kind |-> "initial", id |-> 0, gen |-> 1, bytes |-> SweepBytes,
                         result |-> "running"]} :
         app = [gen |-> 1, next |-> 1, state |-> IF w = NoWork THEN "idle" ELSE "surveying",
                cycle |-> FALSE, seen |-> FALSE, deferred |-> FALSE, due |-> TRUE,
                expired |-> FALSE, requests |-> {}, pending |-> NoPlan, commands |-> {},
                execution |-> NoWork, sweep |-> w, cruise |-> CruiseDefault,
                wire |-> <<>>, want |-> "no", exit |-> "no"]
    /\ pc = "top"
    /\ call = NoCall
    /\ lines = <<>>
    /\ stop = FALSE
    /\ typed = 0
    /\ frames = <<>>
    /\ worker = [open |-> 1, active |-> FALSE, current |-> 0, submitted |-> FALSE,
                 aborted |-> FALSE, inbox |-> {}, queued |-> 0]

\* What follows a renewal: switch_to_step_approval, or CruiseControl::start.
Effect(a, effect) ==
    CASE effect = "manual" -> [a EXCEPT !.cruise = SwitchToStepApproval(@)]
      [] effect = "cruise" -> [a EXCEPT !.cruise = CruiseStart, !.due = TRUE, !.expired = FALSE]
      [] OTHER -> a

\* Mutant: only a hardware step keeps the session from being renewed.
RenewRefused_planning(a) == HardwareActive(a)
\* Mutant: a sweep does not.
RenewRefused_sweeping(a) == a.execution # NoWork \/ a.cycle
RenewRefused(a) == Busy(a)

\* A handler has returned a: the process ends, the renewal that a asks for
\* begins with close_session, or the loop goes on at pc next.
Returns(a, effect, next) ==
    CASE a.exit # "no" -> app' = a /\ pc' = "gone" /\ UNCHANGED call
      [] a.exit = "no" /\ a.want # "no" /\ RenewRefused(a) ->
            app' = Fail(a, "renew refused") /\ pc' = "gone" /\ UNCHANGED call
      [] a.exit = "no" /\ a.want # "no" /\ ~RenewRefused(a) ->
            LET c == Cmd("close", a.gen, 0)
            IN  /\ app' = [Write(a, c) EXCEPT !.want = "no"]
                /\ pc' = "await"
                /\ call' = [cmd |-> c, state |-> a.want, effect |-> effect, then |-> next]
      [] OTHER ->
            /\ app' = IF effect = "manual" THEN Effect(a, effect) ELSE a
            /\ pc' = next
            /\ UNCHANGED call

\* The top of the loop: a raised priority_stop empties the queue and stops.
Top ==
    /\ pc = "top"
    /\ IF stop
       THEN /\ lines' = <<>>
            /\ \E ok \in BOOLEAN, sdr \in Sdr : Returns(Stop(app, ok, sdr), "none", "clear")
       ELSE /\ pc' = "frames"
            /\ UNCHANGED <<app, call, lines>>
    /\ UNCHANGED <<stop, typed, frames, worker>>

\* priority_stop.store(false) after stop has returned.
ClearStop ==
    /\ pc = "clear"
    /\ stop' = FALSE
    /\ pc' = "frames"
    /\ UNCHANGED <<app, call, lines, typed, frames, worker>>

\* poll and command: the next frame, unless command() waits for it.
ReadFrame ==
    /\ pc \in {"frames", "await", "closing"}
    /\ frames # <<>>
    /\ ~(pc = "await" /\ Head(frames).type = "response" /\ Head(frames).cmd = call.cmd)
    /\ \E sdr \in Sdr : Returns(HandleFrame(app, Head(frames), sdr), "none", pc)
    /\ frames' = Tail(frames)
    /\ UNCHANGED <<lines, stop, typed, worker>>

\* renew, between its two commands.
Renew(a, state) ==
    [a EXCEPT !.gen = @ + 1, !.state = state, !.pending = NoPlan, !.requests = {},
              !.commands = {}, !.seen = FALSE]

\* command() returns: the second half of renew, its end, or the end of status.
CommandReturns ==
    /\ pc = "await"
    /\ frames # <<>>
    /\ Head(frames).type = "response"
    /\ Head(frames).cmd = call.cmd
    /\ frames' = Tail(frames)
    /\ LET k == call.cmd.kind
           opened == Cmd("open", app.gen + 1, 0)
       IN  CASE call.cmd.gen # app.gen ->
                    app' = Fail(app, "stale response") /\ pc' = "gone" /\ UNCHANGED call
             [] call.cmd.gen = app.gen /\ ~Head(frames).ok ->
                    /\ app' = Fail(app, IF k = "close" THEN "close refused" ELSE "open refused")
                    /\ pc' = "gone"
                    /\ UNCHANGED call
             [] call.cmd.gen = app.gen /\ Head(frames).ok /\ k = "close" ->
                    /\ app' = Write(Renew(app, call.state), opened)
                    /\ call' = [call EXCEPT !.cmd = opened]
                    /\ UNCHANGED pc
             [] OTHER ->
                    /\ app' = Effect(app, call.effect)
                    /\ pc' = call.then
                    /\ call' = NoCall
    /\ UNCHANGED <<lines, stop, typed, worker>>

\* The rest of poll: both hardware threads, each with the health check of its
\* own, then the deferred renewal.
Polled(a, executionSdr, sweepSdr) ==
    LET b == PollExecution(a, executionSdr)
        c == PollSweep(b, sweepSdr)
    IN  IF c.exit = "no" /\ ~Busy(c) /\ c.deferred
        THEN [c EXCEPT !.deferred = FALSE, !.want = "holding"]
        ELSE c

Poll ==
    /\ pc = "frames"
    /\ frames = <<>>
    /\ \E sdr1, sdr2 \in Sdr : Returns(Polled(app, sdr1, sdr2), "none", "auto")
    /\ UNCHANGED <<lines, stop, typed, frames, worker>>

AutoStep ==
    /\ pc = "auto"
    /\ \E ok \in BOOLEAN, sdr \in Sdr : Returns(AdvanceAuto(app, ok, sdr), "none", "input")
    /\ UNCHANGED <<lines, stop, typed, frames, worker>>

\* recv_timeout times out.
NoInput ==
    /\ pc = "input"
    /\ lines = <<>>
    /\ pc' = "top"
    /\ UNCHANGED <<app, call, lines, stop, typed, frames, worker>>

-----------------------------------------------------------------------------
(***************************************************************************)
(* handle_input, one action per command.  A line that only prints has no   *)
(* action.                                                                 *)
(***************************************************************************)
Line(l) ==
    /\ pc = "input"
    /\ lines # <<>>
    /\ Head(lines) = l
    /\ lines' = Tail(lines)
    /\ UNCHANGED <<stop, typed, frames, worker>>

\* Plain text steers a run that streams, and prompts otherwise.
TextLine ==
    /\ Line("text")
    /\ \E valid \in BOOLEAN :
         Returns(IF app.cycle THEN QueueModelInput(app, valid) ELSE Submit(app, valid),
                 "none", "top")

FollowUpLine ==
    /\ Line("follow-up")
    /\ \E valid \in BOOLEAN : Returns(QueueModelInput(app, valid), "none", "top")
ApproveLine == Line("approve") /\ \E sdr \in Sdr : Returns(Approve(app, sdr), "none", "top")
RejectLine == Line("reject") /\ Returns(Reject(app), "none", "top")

ManualLine ==
    /\ Line("manual")
    /\ \E ok \in BOOLEAN, sdr \in Sdr :
         Returns(EnableStepApproval(app, ok, sdr), "manual", "top")

PauseLine ==
    /\ Line("pause")
    /\ \E ok \in BOOLEAN, sdr \in Sdr : Returns(Stop(app, ok, sdr), "none", "top")

ResumeLine == Line("resume") /\ Returns([app EXCEPT !.want = "idle"], "none", "top")

AutoLine == Line("auto") /\ Returns(StartAuto(app), "cruise", "top")

StatusLine ==
    /\ Line("status")
    /\ LET c == Cmd("state", app.gen, 0)
       IN  /\ app' = Write(app, c)
           /\ call' = [NoCall EXCEPT !.cmd = c]
    /\ pc' = "await"

\* /quit and the end of the input: close.
QuitLine ==
    /\ Line("quit")
    /\ \E ok \in BOOLEAN, sdr \in Sdr :
         Returns(IF Busy(app) THEN Stop(app, ok, sdr) ELSE app, "none", "closed")

\* The two seconds that close gives a run to end.
CloseWaits ==
    /\ pc = "closed"
    /\ app.cycle
    /\ pc' = "closing"
    /\ UNCHANGED <<app, call, lines, stop, typed, frames, worker>>

ClosePolls ==
    /\ pc = "closing"
    /\ frames = <<>>
    /\ \E sdr1, sdr2 \in Sdr : Returns(Polled(app, sdr1, sdr2), "none", "closed")
    /\ UNCHANGED <<lines, stop, typed, frames, worker>>

Quit ==
    /\ pc = "closed"
    /\ app' = Fail(app, "quit")
    /\ pc' = "gone"
    /\ UNCHANGED <<call, lines, stop, typed, frames, worker>>

-----------------------------------------------------------------------------
(***************************************************************************)
(* The terminal thread: a line is refused while a stop is in progress or   *)
(* the queue is full, but for /stop.                                       *)
(***************************************************************************)
\* Mutant: a stop in progress does not close the queue.
MayEnqueue_always == Len(lines) < InputLimit
MayEnqueue == ~stop /\ Len(lines) < InputLimit

Type(l) ==
    /\ pc # "gone"
    /\ typed < MaxLines
    /\ MayEnqueue
    /\ lines' = Append(lines, l)
    /\ typed' = typed + 1
    /\ UNCHANGED <<app, pc, call, stop, frames, worker>>

TypeStop ==
    /\ pc # "gone"
    /\ typed < MaxLines
    /\ stop' = TRUE
    /\ typed' = typed + 1
    /\ UNCHANGED <<app, pc, call, lines, frames, worker>>

-----------------------------------------------------------------------------
(***************************************************************************)
(* Clocks and hardware threads                                             *)
(***************************************************************************)
\* next_auto_attempt passes.
RetryDue ==
    /\ pc # "gone"
    /\ app.cruise.active /\ ~app.due
    /\ app' = [app EXCEPT !.due = TRUE]
    /\ UNCHANGED <<pc, call, lines, stop, typed, frames, worker>>

\* The cruise has lasted max_duration.
DurationExpires ==
    /\ pc # "gone"
    /\ app.cruise.active /\ ~app.expired
    /\ app' = [app EXCEPT !.expired = TRUE]
    /\ UNCHANGED <<pc, call, lines, stop, typed, frames, worker>>

ExecutionEnds(r) ==
    /\ pc # "gone"
    /\ app.execution.result = "running"
    /\ app' = [app EXCEPT !.execution.result = r]
    /\ UNCHANGED <<pc, call, lines, stop, typed, frames, worker>>

SweepEnds(r) ==
    /\ pc # "gone"
    /\ app.sweep.result = "running"
    /\ app' = [app EXCEPT !.sweep.result = r]
    /\ UNCHANGED <<pc, call, lines, stop, typed, frames, worker>>

-----------------------------------------------------------------------------
(***************************************************************************)
(* The planner worker                                                      *)
(***************************************************************************)
\* A command is carried out when it is for the open session and, by kind:
Accepts(w, c) ==
    CASE c.kind = "open" -> w.open = 0
      [] c.kind \in {"state", "abort"} -> w.open = c.gen
      [] c.kind \in {"prompt", "close"} -> w.open = c.gen /\ ~w.active
      [] c.kind = "queue" -> w.open = c.gen /\ w.active /\ w.queued < QueueLimit

Performed(w, c) ==
    CASE c.kind = "open" -> [w EXCEPT !.open = c.gen, !.inbox = {}]
      [] c.kind = "prompt" -> [w EXCEPT !.active = TRUE, !.current = c.id, !.submitted = FALSE,
                                         !.aborted = FALSE]
      [] c.kind = "queue" -> [w EXCEPT !.inbox = @ \cup {c.id}, !.queued = @ + 1]
      [] c.kind = "abort" -> [w EXCEPT !.inbox = {}, !.queued = 0, !.aborted = w.active]
      [] c.kind = "close" -> [w EXCEPT !.open = 0, !.current = 0, !.inbox = {}, !.queued = 0]
      [] OTHER -> w

\* The worker answers the next command; a prompt may find the lease taken, and
\* open_session may find no usable provider.
WorkerAnswers ==
    /\ pc # "gone"
    /\ app.wire # <<>>
    /\ LET c == Head(app.wire)
       IN  \E ok \in IF ~Accepts(worker, c) THEN {FALSE}
                      ELSE IF c.kind \in {"prompt", "open"} THEN BOOLEAN ELSE {TRUE} :
             /\ worker' = IF ok THEN Performed(worker, c) ELSE worker
             /\ frames' = Append(frames, [type |-> "response", cmd |-> c, ok |-> ok])
    /\ app' = [app EXCEPT !.wire = Tail(@)]
    /\ UNCHANGED <<pc, call, lines, stop, typed>>

\* The run goes on with a queued message.
WorkerTakes(q) ==
    /\ pc # "gone"
    /\ worker.active /\ ~worker.aborted
    /\ q \in worker.inbox
    /\ worker' = [worker EXCEPT !.inbox = @ \ {q}, !.current = q, !.submitted = FALSE]
    /\ UNCHANGED <<app, pc, call, lines, stop, typed, frames>>

WorkerProposes(p) ==
    /\ pc # "gone"
    /\ worker.active
    /\ ~worker.submitted
    /\ worker' = [worker EXCEPT !.submitted = TRUE]
    /\ frames' = Append(frames, [type |-> "plan",
                    plan |-> [id |-> worker.current, gen |-> worker.open,
                              action |-> p.action, bytes |-> p.bytes]])
    /\ UNCHANGED <<app, pc, call, lines, stop, typed>>

\* agent_end, of a run that is done, failed or was aborted; the agent keeps
\* what is left in its queue.
WorkerEnds ==
    /\ pc # "gone"
    /\ worker.active
    /\ worker' = [worker EXCEPT !.active = FALSE, !.queued = 0]
    /\ frames' = Append(frames, [type |-> "end", gen |-> worker.open])
    /\ UNCHANGED <<app, pc, call, lines, stop, typed>>

-----------------------------------------------------------------------------
HandleInput ==
    \/ TextLine \/ FollowUpLine \/ ApproveLine \/ RejectLine \/ ManualLine
    \/ PauseLine \/ ResumeLine \/ AutoLine \/ StatusLine \/ QuitLine

ConsoleStep ==
    \/ Top \/ ClearStop \/ ReadFrame \/ CommandReturns \/ Poll \/ AutoStep
    \/ NoInput \/ HandleInput
    \/ CloseWaits \/ ClosePolls \/ Quit

Hardware == \E r \in {"done", "failed"} : ExecutionEnds(r) \/ SweepEnds(r)

Worker ==
    \/ WorkerAnswers
    \/ \E q \in Ids : WorkerTakes(q)
    \/ \E p \in Proposals : WorkerProposes(p)
    \/ WorkerEnds

Gone == pc = "gone" /\ UNCHANGED vars

Next ==
    \/ ConsoleStep
    \/ Hardware
    \/ Worker
    \/ RetryDue \/ DurationExpires
    \/ (\E l \in Inputs : Type(l)) \/ TypeStop
    \/ Gone

Spec == Init /\ [][Next]_vars

\* The console's loop and the worker's event loop run, clocks go on, hardware
\* threads end (their sockets have timeouts), and an aborted run ends.  A run
\* that is not aborted may stream for ever, and nobody has to type.
Fairness ==
    /\ WF_vars(ConsoleStep)
    /\ WF_vars(WorkerAnswers)
    /\ WF_vars(worker.aborted /\ WorkerEnds)
    /\ WF_vars(\E r \in {"done", "failed"} : ExecutionEnds(r))
    /\ WF_vars(\E r \in {"done", "failed"} : SweepEnds(r))
    /\ WF_vars(DurationExpires)

FairSpec == Spec /\ Fairness

-----------------------------------------------------------------------------
(***************************************************************************)
(* Properties                                                              *)
(***************************************************************************)
\* Whatever runs, waits for approval or may still be planned belongs to the
\* session generation that /stop would cancel: renew never leaves a hardware
\* thread, a plan, a request or an unanswered command of an older one behind.
CurrentGeneration ==
    pc # "gone" =>
        /\ \A w \in {app.execution, app.sweep} : w # NoWork => w.gen = app.gen
        /\ app.pending # NoPlan => app.pending.gen = app.gen
        /\ \A q \in app.requests : q.gen = app.gen
        /\ \A c \in app.commands : c.gen = app.gen

\* Console and worker keep to their protocol in every interleaving: no response
\* without its command, no response of a stale generation, and the console
\* never closes a session in which the worker is still running.
ProtocolHolds ==
    app.exit \notin {"unknown response", "stale response", "close refused"}

\* Step s of work, execution or sweep, starts.
Starts(w, s) == w = NoWork /\ s # NoWork

Approving(s) ==
    /\ pc = "input" /\ lines # <<>> /\ Head(lines) = "approve"
    /\ s.id = app.pending.id

\* The radio is used for a plan the operator has just approved, or by an active
\* cruise: then a capture is below the approval threshold, and a sweep fits in
\* what is left of the byte budget (start_execution, start_planned_survey).
NothingUnapproved ==
    [][/\ Starts(app.execution, app'.execution) =>
            \/ Approving(app'.execution)
            \/ app.cruise.active /\ app'.execution.bytes <= AutoBytes
       /\ Starts(app.sweep, app'.sweep) =>
            \/ Approving(app'.sweep)
            \/ app.cruise.active /\ app.cruise.used + app'.sweep.bytes <= Budget]_vars

\* When a /stop has been carried out no line typed before it, or while it was
\* carried out, is left to be executed.
StopDiscards ==
    pc = "clear" \/ (pc = "await" /\ call.then = "clear") => lines = <<>>

\* What no step of console, worker or hardware thread may break: nothing of a
\* closed generation is left anywhere, and the protocol between them holds.
ConsoleInv == TypeOK /\ CurrentGeneration /\ ProtocolHolds /\ StopDiscards

\* A stop that has to wait for the model's run is completed: if every run ends,
\* the generation is renewed (deferred_renew) after the run and the hardware,
\* whichever ends last.
DeferredRenewal ==
    []<>~worker.active => (app.deferred ~> ~app.deferred \/ pc = "gone")

\* A cruise ends, by its duration if nothing else ends it, even if the model
\* streams for ever.
CruiseEnds == app.cruise.active ~> ~app.cruise.active \/ pc = "gone"

(***************************************************************************)
(* What the documentation says and the code does not do.                   *)
(***************************************************************************)
\* "An executable proposal still aborts remaining model input so queued text
\* cannot cross an approval or execution gate": the plan of a queued message
\* never starts hardware next to the plan before it.
ExecutionGate == app.execution = NoWork \/ app.sweep = NoWork

\* "/stop ... then advances session generation": a stop never ends the console
\* with an error from renew.  (/resume in an active step does, too.)
StopRenews == app.exit # "renew refused"

\* "/stop cancels the model ... without waiting for another model turn": a run
\* that a stop waits for ends, even if the model would stream for ever.
StopCancelsModel == (app.deferred /\ worker.active) ~> (~worker.active \/ pc = "gone")

\* "... so stale plans cannot execute": while a stop waits for agent_end no
\* plan is started.
StopInvalidates ==
    [][app.deferred /\ ~HardwareActive(app) => ~HardwareActive(app')]_vars

\* "An execution failure advances the session generation and puts the terminal
\* into faulted state so the stale approval cannot be retried": what was
\* planned before a failure is not started after it.
FaultLocks ==
    [][app.state = "faulted" /\ ~HardwareActive(app) => ~HardwareActive(app')]_vars

\* "cumulative IQ bytes no greater than" the budget of the cruise.
ByteBudget == app.cruise.used <= Budget

=============================================================================
