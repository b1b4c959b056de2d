----------------------------- MODULE Controller -----------------------------
(***************************************************************************)
(* One hardware action of the Raspberry Pi controller, from the planning   *)
(* request to the report: the one-shot runner (controller/src/runner.rs)   *)
(* with its audit log, the capture client (execution.rs), the sweep client *)
(* (sweep.rs) and the observer (sdr.rs).  The console's thread runs the    *)
(* same two clients without the audit log and with a SigMF directory.      *)
(*                                                                         *)
(* sdrd is modelled by what module RxOwnership says of it, with its        *)
(* connection: one client at a time is served, every other one is answered *)
(* server_busy, and the thread that served a client is busy until it has   *)
(* seen the connection close and has given the radio back.                 *)
(***************************************************************************)
EXTENDS Survey

CONSTANTS
    Observations,      \* the observations a request file may hold
    Healths,           \* what HEALTH and CAPABILITIES may say
    Proposals,         \* the actions the planner may propose
    Orders,            \* the actions the console starts its thread for
    InitialStep,       \* 8 MHz, the largest step of a conversation's survey
    Powers, Drifts,    \* bounds: powers of a point; errors of the tuner
    Elapsed,           \* the time an inspection takes
    sweep_point_timeout_ms,  \* --sweep-point-timeout-ms of the runner
    MAX_BUSY_RETRIES         \* 20

\* What a request file decodes to.
Observation ==
    [age : Nat,
     candidates : Seq([id : Nat, center : Nat, bandwidth : Nat, peak : Int, snr : Int, age : Nat]),
     sweep : Seq(Nat)]

\* Frequencies, rates and times are unsigned, and main refuses a timeout the
\* engine would refuse.  The agent's own rate, of which InitialStep is four
\* fifths, is one the radio has.
ASSUME ControllerAssumption ==
    /\ Observations \subseteq Observation
    /\ Drifts \subseteq Int /\ Powers \subseteq Int
    /\ {Elapsed, MAX_BUSY_RETRIES, InitialStep} \subseteq Nat
    /\ sweep_point_timeout_ms \in 1..MAX_POINT_TIMEOUT_MS
    /\ \A a \in Proposals \cup Orders :
           /\ a.kind = "survey" =>
                  {a.start, a.stop, a.step, a.rate, a.bandwidth, a.dwell} \subseteq Nat
           /\ a.kind = "inspect" => {a.center, a.rate, a.bandwidth, a.dwell} \subseteq Nat
    /\ InitialStep % 4 = 0
    /\ (InitialStep \div 4) * 5 \in MinRate..MaxRate
    /\ (InitialStep \div 4) * 5 \in MinBandwidth..MaxBandwidth

VARIABLES
    caller,     \* "runner" or "worker", the console's thread
    approval,   \* ApprovalMode of the runner
    obs,        \* the observation of the request, then the next one
    health,     \* the radio's health in that observation
    action,     \* the proposed action
    auth,       \* ExecutionAuthorization: "none", "automatic" or "operator"
    pc,         \* where the process is
    log,        \* the phases in the audit log
    outcome,    \* how the process ended
    error,      \* where the process met an error, and which
    plan,       \* the ValidatedSweepPlan of a survey or an inspection
    points,     \* the points of the sweep
    file,       \* its SigMF pair: "none", "part" or "full"
    tries,      \* attempts of observe_after_worker_release
    worker,     \* sdrd: whom its worker thread serves
    open,       \* the connection of this process is open
    owner,      \* sdrd: who owns the radio
    place       \* the radio: "home", "tuned" or "lost"

sdrd == <<worker, open, owner, place>>
request == <<caller, approval, obs, health, action, auth>>
sweep == <<plan, points, file, tries>>
vars == <<request, pc, log, outcome, error, sweep, sdrd>>

-----------------------------------------------------------------------------
Executable == {"survey", "inspect", "capture"}
Nothing == [kind |-> "none"]
NoPlan == [centers |-> <<>>]
Final == {"awaiting_approval", "planned_only", "execution_observation"}
Failures == {"observation_failed", "request_rejected", "planning_failed", "validation_failed",
             "authorization_rejected", "execution_failed"}
Phases == Final \cup Failures
              \cup {"input_observation", "planner_proposal", "validated_plan", "authorized"}
Client == {"engine", "connect", "start", "work", "stop", "quit", "abort", "finish", "report",
           "settle", "observe_after"}

Clients == {"us", "other"}
IsSweep == action.kind \in {"survey", "inspect"}
Offline == [online |-> FALSE, retune |-> FALSE, capture |-> FALSE, recognizer |-> FALSE,
            faulted |-> FALSE]

TypeOK ==
    /\ caller \in {"runner", "worker"}
    /\ approval \in {"pending", "automatic", "operator"}
    /\ health \in Healths \cup {Offline}
    /\ action \in Proposals \cup Orders \cup {Nothing}
    /\ auth \in {"none", "automatic", "operator"}
    /\ pc \in Phases \cup Client \cup {"observe", "validate", "plan", "check", "approve", "end"}
    /\ log \in Seq(Phases)
    /\ outcome \in Final \cup {"none", "failed", "crashed"}
    /\ (pc = "end") = (outcome # "none")
    /\ error \in ({"observe", "plan"} \cup Client) \X {"server_busy", "other"} \cup {<<>>}
    /\ Len(plan.centers) <= MAX_POINTS
    /\ Len(points) <= Len(plan.centers)
    /\ file \in {"none", "part", "full"}
    /\ tries \in 0..MAX_BUSY_RETRIES
    /\ worker \in Clients \cup {"none"}
    /\ open => worker = "us"
    /\ owner \in {worker, "none"}
    /\ place \in {"home", "tuned", "lost"}

-----------------------------------------------------------------------------
(* sdrd.                                                                   *)

\* As in RxOwnership: a failed restore is never forgotten.
Move(p) == IF place = "lost" THEN "lost" ELSE p

\* Mutant: the buffer is destroyed and the attributes stay as they are.
Restored_not(restored) == IF restored THEN place ELSE "lost"
Restored(restored) == Move(IF restored THEN "home" ELSE "lost")

\* The session is closed: the snapshot is restored, or the radio refuses.
GiveBack(restored) ==
    /\ owner' = "none"
    /\ place' = Restored(restored)

Unserved(c) == IF worker = "none" THEN c ELSE worker

\* Mutant: the thread is free before it has closed the session.
Release_early ==
    /\ worker # "none"
    /\ ~open
    /\ worker' = "none"
    /\ UNCHANGED <<request, pc, log, outcome, error, sweep, open, owner, place>>

\* serve_client ends: the session is closed, then worker_active is cleared.
\* A restore that failed for a client before this one is module Sdrd's.
Release ==
    /\ worker # "none"
    /\ ~open
    /\ IF owner = "none"
       THEN UNCHANGED <<owner, place>>
       ELSE \E restored \in BOOLEAN : (owner = "other" => restored) /\ GiveBack(restored)
    /\ worker' = "none"
    /\ UNCHANGED <<request, pc, log, outcome, error, sweep, open>>

-----------------------------------------------------------------------------
(* The runner up to the authorization.                                     *)

Goto(p) == pc' = p /\ UNCHANGED <<outcome, error>>
Failing(p, e) == pc' = p /\ error' = <<pc, e>> /\ UNCHANGED outcome

\* JsonlAuditAdapter::append and what the run does after it.  Only the
\* audit of a refused authorization may fail unnoticed.
Then ==
    CASE pc = "input_observation" -> "validate"
      [] pc = "planner_proposal"  -> "check"
      [] pc = "validated_plan"    -> "approve"
      [] pc = "authorized"        -> "engine"
      [] OTHER                    -> "end"

Audit ==
    /\ pc \in Phases
    /\ \/ /\ log' = Append(log, pc)
          /\ pc' = Then
          /\ outcome' = CASE pc \in Final    -> pc
                          [] pc \in Failures -> "failed"
                          [] OTHER           -> outcome
       \/ /\ pc' = "end"
          /\ outcome' = "failed"
          /\ UNCHANGED log
    /\ UNCHANGED <<request, error, sweep, sdrd>>

\* SdrdAdapter::observe: a connection of its own, closed after QUIT.
Observe ==
    /\ pc = "observe"
    /\ \/ /\ worker = "none"
          /\ worker' = "us"
          /\ \E h \in Healths : health' = h
          /\ obs' = [obs EXCEPT !.age = 0]
          /\ Goto("input_observation")
       \/ /\ worker # "none"
          /\ Failing("observation_failed", "server_busy")
          /\ UNCHANGED <<worker, health, obs>>
       \/ /\ \E c \in {"us", "none"} : worker' = Unserved(c)
          /\ Failing("observation_failed", "other")
          /\ UNCHANGED <<health, obs>>
    /\ UNCHANGED <<caller, approval, action, auth, log, sweep, open, owner, place>>

Validate ==
    /\ pc = "validate"
    /\ Goto(IF validate_request(obs) THEN "plan" ELSE "request_rejected")
    /\ UNCHANGED <<request, log, sweep, sdrd>>

\* UnixPlannerAdapter::plan fails or returns a frame that decodes.
Plan ==
    /\ pc = "plan"
    /\ \/ /\ action' \in Proposals
          /\ Goto("planner_proposal")
       \/ /\ Failing("planning_failed", "other")
          /\ UNCHANGED action
    /\ UNCHANGED <<caller, approval, obs, health, auth, log, sweep, sdrd>>

\* A reply of another request or session, or without an action, is refused.
Check ==
    /\ pc = "check"
    /\ \E current \in BOOLEAN :
           Goto(IF current /\ validate_action(obs, health, action)
                THEN "validated_plan" ELSE "validation_failed")
    /\ UNCHANGED <<request, log, sweep, sdrd>>

\* Mutant: every authorization is made the way the operator's is.
Authorization_operator == "operator"
Authorization ==
    CASE approval = "operator"    -> "operator"
      [] approval_required(action) -> "none"
      [] OTHER                    -> "automatic"

Approve ==
    /\ pc = "approve"
    /\ IF approval_required(action) /\ approval = "pending"
       THEN Goto("awaiting_approval") /\ UNCHANGED auth
       ELSE IF action.kind \notin Executable
       THEN Goto("planned_only") /\ UNCHANGED auth
       ELSE /\ auth' = Authorization
            /\ Goto(IF auth' = "none" THEN "authorization_rejected" ELSE "authorized")
    /\ UNCHANGED <<caller, approval, obs, health, action, log, sweep, sdrd>>

-----------------------------------------------------------------------------
(* The clients of sdrd.                                                    *)

\* The runner audits the failure, the thread returns it.
Fail(e) ==
    /\ error' = <<pc, e>>
    /\ IF caller = "runner" THEN pc' = "execution_failed" /\ UNCHANGED outcome
                            ELSE pc' = "end" /\ outcome' = "failed"

Succeed ==
    /\ UNCHANGED error
    /\ IF caller = "runner" THEN pc' = "execution_observation" /\ UNCHANGED outcome
                            ELSE pc' = "end" /\ outcome' = "execution_observation"

\* The points are of no use to a client that gives up.
GiveUp == Goto("abort") /\ points' = <<>>

\* The runner has an option for it, the console's thread a constant.
PointTimeout ==
    IF caller = "runner" THEN sweep_point_timeout_ms ELSE SURVEY_POINT_TIMEOUT_MS

\* SweepEngine::run validates the plan, SdrdActionAdapter::execute the
\* authorization.
Engine ==
    /\ pc = "engine"
    /\ IF IsSweep
       THEN LET proposed == SweepPlan(action, PointTimeout)
            IN  IF validate_plan(proposed) THEN plan' = proposed /\ Goto("connect")
                                           ELSE Fail("other") /\ UNCHANGED plan
       ELSE /\ IF approval_required(action) => auth = "operator" THEN Goto("connect")
                                                                 ELSE Fail("other")
            /\ UNCHANGED plan
    /\ UNCHANGED <<request, log, points, file, tries, sdrd>>

\* Connect, HELLO, CAPABILITIES.  An endpoint that is not the expected one
\* is left with QUIT or by closing the connection.
Connect ==
    /\ pc = "connect"
    /\ \/ /\ worker = "none"
          /\ worker' = "us"
          /\ open' = TRUE
          /\ Goto("start")
       \/ /\ worker # "none"
          /\ Fail("server_busy")
          /\ UNCHANGED <<worker, open>>
       \/ /\ \E c \in {"us", "none"} : worker' = Unserved(c)
          /\ Fail("other")
          /\ UNCHANGED open
    /\ UNCHANGED <<request, log, sweep, owner, place>>

\* START_SESSION, and SigmfWriter::create when there is a directory.
\* Whatever fails, sdrd may have started the session.
Start ==
    /\ pc = "start"
    /\ \/ /\ owner' = "us"
          /\ file' = IF caller = "worker" /\ IsSweep THEN "part" ELSE "none"
          /\ Goto("work")
       \/ /\ owner' \in {"us", "none"}
          /\ Goto("abort")
          /\ UNCHANGED file
    /\ UNCHANGED <<request, log, plan, points, tries, worker, open, place>>

Readback(actual, center) == Distance(actual, center) <= Tolerance

\* APPLY_PROFILE, the settle time, CAPTURE_IQ_INLINE and the power of the
\* samples: one point, with the frequency the tuner reads back.
Point ==
    /\ pc = "work" /\ IsSweep
    /\ LET center == plan.centers[Len(points) + 1]
       IN  \E drift \in Drifts, power \in Powers :
               IF Readback(center + drift, center)
               THEN /\ points' = Append(points, [center |-> center, actual |-> center + drift,
                                                 power |-> power])
                    /\ Goto(IF Len(points) + 1 = Len(plan.centers) THEN "stop" ELSE "work")
               ELSE GiveUp
    /\ place' = Move("tuned")
    /\ UNCHANGED <<request, log, plan, file, tries, worker, open, owner>>

\* APPLY_PROFILE, CAPTURE_IQ and EXECUTION_STATUS.
Capture ==
    /\ pc = "work" /\ action.kind = "capture"
    /\ place' = Move("tuned")
    /\ Goto("stop")
    /\ UNCHANGED <<request, log, sweep, worker, open, owner>>

\* A request times out, is refused or answers out of its contract.  sdrd
\* closes the session itself after a failed apply or capture.
WorkFails ==
    /\ pc = "work"
    /\ GiveUp
    /\ \/ \E restored \in BOOLEAN : GiveBack(restored)
       \/ place' \in {place, Move("tuned")} /\ UNCHANGED owner
    /\ UNCHANGED <<request, log, plan, file, tries, worker, open>>

\* Mutant: any reply to STOP_SESSION will do.
StopConfirmed_replied(restored, replied) == replied
StopConfirmed(restored, replied) == restored /\ replied

\* STOP_SESSION: the reply may be an error, or lost on the way.
Stop ==
    /\ pc = "stop"
    /\ \E restored, replied \in BOOLEAN :
           /\ GiveBack(restored)
           /\ IF StopConfirmed(restored, replied) THEN Goto("quit") /\ UNCHANGED points
                                                ELSE GiveUp
    /\ UNCHANGED <<request, log, plan, file, tries, worker, open>>

\* The STOP_SESSION is lost and changes nothing.
StopLost ==
    /\ pc = "stop"
    /\ GiveUp
    /\ UNCHANGED <<request, log, plan, file, tries, sdrd>>

Quit ==
    /\ pc = "quit"
    /\ \/ /\ Goto(IF IsSweep THEN "finish" ELSE "settle")
          /\ open' = FALSE
          /\ UNCHANGED points
       \/ GiveUp /\ UNCHANGED open
    /\ UNCHANGED <<request, log, plan, file, tries, worker, owner, place>>

\* Mutant: the writer is leaked, or believes it has committed.
Dropped_kept == file
Dropped == IF file = "full" THEN "full" ELSE "none"

\* Mutant: the connection is kept for another attempt.
Hangup_not == open
Hangup == FALSE

\* The writer is dropped, then STOP_SESSION if the session was started, then
\* QUIT; their replies are not looked at.  The connection closes.
Abort ==
    /\ pc = "abort"
    /\ file' = Dropped
    /\ open' = Hangup
    /\ \/ owner = "us" /\ \E restored \in BOOLEAN : GiveBack(restored)
       \/ UNCHANGED <<owner, place>>
    /\ Fail("other")
    /\ UNCHANGED <<request, log, plan, points, tries, worker>>

\* SigmfWriter::finish, after the radio is given back.
Finish ==
    /\ pc = "finish"
    /\ \/ /\ file' = IF file = "part" THEN "full" ELSE "none"
          /\ Goto("report")
          /\ UNCHANGED points
       \/ /\ file = "part"
          /\ GiveUp
          /\ UNCHANGED file
    /\ UNCHANGED <<request, log, plan, tries, sdrd>>

\* The adapter has checked everything but the order of the sequence numbers.
ReportPoints ==
    /\ pc = "report"
    /\ \E ordered \in BOOLEAN :
           IF validate_points(plan, points, ordered)
           THEN IF caller = "runner" THEN Goto("observe_after") ELSE Succeed
           ELSE Fail("other")
    /\ UNCHANGED <<request, log, sweep, sdrd>>

\* Mutant: one attempt less.
MayRetry_less == tries + 1 < MAX_BUSY_RETRIES
MayRetry == tries < MAX_BUSY_RETRIES

\* observe_after_worker_release, for a capture: ten milliseconds a retry.  sdrd
\* may be busy with the last connection for longer than all of them: nothing
\* bounds the time its thread takes to end.
Settle ==
    /\ pc = "settle"
    /\ \/ /\ worker = "none"
          /\ worker' = "us"
          /\ \E h \in Healths : IF h.online THEN health' = h /\ Succeed
                                            ELSE Fail("other") /\ UNCHANGED health
          /\ UNCHANGED tries
       \/ /\ worker # "none"
          /\ IF MayRetry THEN tries' = tries + 1 /\ UNCHANGED <<pc, outcome, error>>
                         ELSE Fail("server_busy") /\ UNCHANGED tries
          /\ UNCHANGED <<worker, health>>
       \/ /\ \E c \in {"us", "none"} : worker' = Unserved(c)
          /\ Fail("other")
          /\ UNCHANGED <<health, tries>>
    /\ UNCHANGED <<caller, approval, obs, action, auth, log, plan, points, file,
                   open, owner, place>>

NextObservation ==
    IF action.kind = "survey"
    THEN planner_observation(Report(plan, points), 0)
    ELSE planner_inspection_observation(Report(plan, points), obs, action.candidate, Elapsed)

\* execute_sweep observes once, right after the QUIT of the sweep.
ObserveAfter ==
    /\ pc = "observe_after"
    /\ \/ /\ worker = "none"
          /\ worker' = "us"
          /\ \E h \in Healths :
                 IF h.online THEN health' = h /\ obs' = NextObservation /\ Succeed
                             ELSE Fail("other") /\ UNCHANGED <<health, obs>>
       \/ /\ worker # "none"
          /\ Fail("server_busy")
          /\ UNCHANGED <<worker, health, obs>>
       \/ /\ \E c \in {"us", "none"} : worker' = Unserved(c)
          /\ Fail("other")
          /\ UNCHANGED <<health, obs>>
    /\ UNCHANGED <<caller, approval, action, auth, log, sweep, open, owner, place>>

\* The process is killed: nothing of it runs, its socket closes.
Crash ==
    /\ pc # "end"
    /\ pc' = "end"
    /\ outcome' = "crashed"
    /\ open' = FALSE
    /\ points' = <<>>
    /\ UNCHANGED <<request, log, error, plan, file, tries, worker, owner, place>>

-----------------------------------------------------------------------------
\* The console starts its thread for an action its policy accepted, and for
\* the survey of a new conversation, which the web console has validated.
Ordered(a) ==
    \/ validate_request(obs) /\ \E h \in Healths : validate_action(obs, h, a)
    \/ a.kind = "survey" /\ a.bandwidth = a.rate /\ a.rate * 4 = InitialStep * 5
           /\ validate_initial_survey(a, InitialStep)

\* A client that has gone before may still be served when the process starts.
Init ==
    /\ caller \in {"runner", "worker"}
    /\ obs \in Observations
    /\ health = Offline
    /\ IF caller = "runner"
       THEN /\ pc = "observe"
            /\ approval \in {"pending", "automatic", "operator"}
            /\ action = Nothing
            /\ auth = "none"
       ELSE /\ pc = "engine"
            /\ approval = "pending"
            /\ action \in {a \in Orders : Ordered(a)}
            /\ auth = IF approval_required(action) THEN "operator" ELSE "automatic"
    /\ log = <<>>
    /\ outcome = "none"
    /\ error = <<>>
    /\ plan = NoPlan
    /\ points = <<>>
    /\ file = "none"
    /\ tries = 0
    /\ worker \in {"none", "other"}
    /\ open = FALSE
    /\ owner \in {worker, "none"}
    /\ place \in IF owner = "other" THEN {"home", "tuned"} ELSE {"home"}

Runner == Audit \/ Observe \/ Validate \/ Plan \/ Check \/ Approve

Execution ==
    \/ Engine \/ Connect \/ Start \/ Point \/ Capture \/ WorkFails \/ Stop \/ StopLost \/ Quit
    \/ Abort \/ Finish \/ ReportPoints \/ Settle \/ ObserveAfter

Next == Runner \/ Execution \/ Crash \/ Release

Spec == Init /\ [][Next]_vars

\* Every request has a socket timeout, and sdrd sees every close.
FairSpec == Spec /\ WF_vars(Runner \/ Execution) /\ WF_vars(Release)

-----------------------------------------------------------------------------
(* What is checked.                                                        *)

\* The radio is taken for a run only after its plan and its authorization
\* are in the audit log, in this order, and a plan that needs the
\* operator's approval only with it (runner.rs run_once, execution.rs
\* validate_authorization).
AuditBeforeAction ==
    caller = "runner" /\ owner = "us" =>
        /\ IsPrefix(<<"input_observation", "planner_proposal", "validated_plan", "authorized">>, log)
        /\ approval_required(action) => approval = "operator"

\* A run that reports Executed has given the radio back at home, and no
\* reply of sdrd that was lost or that said otherwise is passed over
\* (run_sdrd_points and execute_capture, the STOP_SESSION reply).
ExecutedMeansRestored ==
    outcome = "execution_observation" => owner # "us" /\ place = "home"

\* A capture is reported as failed because sdrd is busy only after every retry,
\* and never with the radio still away from home or its own: what is late then
\* is the end of sdrd's thread (observe_after_worker_release).  The same cannot
\* be said of a sweep: execute_sweep asks once.
BusyIsRetried ==
    error = <<"settle", "server_busy">> =>
        tries = MAX_BUSY_RETRIES /\ owner # "us" /\ place = "home"

\* How a run ends is what happened: success only with the radio given back
\* at home, and a busy sdrd only after it was asked again and again.
OutcomeTrue == TypeOK /\ ExecutedMeansRestored /\ BusyIsRetried

\* A process that was not killed leaves a whole SigMF pair or nothing, the
\* pair only once the radio is given back at home, and a sweep the console
\* can show has it (SigmfWriter, run_sdrd_points).
DatasetMatches ==
    /\ pc = "end" /\ outcome # "crashed" => file # "part"
    /\ file = "full" => owner # "us" /\ place = "home"
    /\ caller = "worker" /\ IsSweep /\ outcome = "execution_observation" => file = "full"

\* The engine refuses a survey that the policy or the web console accepted
\* for two reasons only, its dwell and the time of all its points, the second
\* only when the runner's timeout of a point is longer than the one they count
\* with; and it never refuses an inspection.  All three count the same points
\* (validate_action, validate_initial_survey, validate_plan).
PolicyWithinEngine ==
    pc = "engine" /\ IsSweep =>
        LET proposed == SweepPlan(action, PointTimeout)
            time == (action.dwell + PointTimeout) * Len(proposed.centers)
        IN  /\ validate_plan(proposed) <=>
                   action.dwell <= MAX_SETTLE_MS /\ time <= MAX_DURATION_MS
            /\ PointTimeout <= SURVEY_POINT_TIMEOUT_MS => time <= MAX_DURATION_MS
            /\ action.kind = "survey" => Len(proposed.centers) = point_count(action)
            /\ action.kind = "inspect" => validate_plan(proposed)

Complete(kind) == pc = "report" /\ action.kind = kind

\* Every frequency of a finished survey lies in the window of one of its
\* points, whatever the tuner read back (expand_centers, the 80 per cent
\* step of validate_plan, the tolerance of run_sdrd_points).
SurveyCovers ==
    Complete("survey") =>
        \A f \in action.start..action.stop :
            \E i \in DOMAIN points : 2 * Distance(points[i].actual, f) <= action.bandwidth

\* The candidates are the first MAX_CANDIDATES of the maximal runs of points
\* above the floor, each with a strongest point of its run, and fewer than
\* half of the points are above it (median_power_dbfs, merge_candidates).
\* Its band holds the windows of its run: exactly when the read-backs ascend,
\* else up to their errors, for its ends are those of the outer points.
CandidatesRight ==
    Complete("survey") =>
        LET report == Report(plan, points)
            active == Active(points, report.noise)
            runs == Runs(points, active)
            edge == plan.bandwidth \div 2
            error_hz == IF Ascending([i \in DOMAIN points |-> points[i].actual])
                        THEN 0 ELSE 2 * Tolerance
        IN  /\ 2 * Cardinality(active) < Len(points)
            /\ Len(report.candidates) = Min({Cardinality(runs), MAX_CANDIDATES})
            /\ \A n \in DOMAIN report.candidates :
                   LET c == report.candidates[n]
                       run == {points[i] : i \in Nth(runs, n)[1]..Nth(runs, n)[2]}
                   IN  /\ c.count = Cardinality(run)
                       /\ \E q \in run : q.actual = c.center /\ q.power = c.peak
                       /\ \A q \in run :
                              /\ q.power <= c.peak
                              /\ c.start <= Max({q.actual - edge, 0}) + error_hz
                              /\ q.actual + edge <= c.stop + error_hz

\* With limits that are valid, unless the tuner read back a centre outside the
\* band or not above the one before, the web console stores the plot of a
\* survey, and the policy refuses the next request for one reason only: its
\* bandwidth limit is below the window the planner is shown, and a candidate
\* is wider than it (validate_sweep_plot, planner_observation,
\* validate_request).  After an inspection the inspected candidate is valid.
ReportUsable ==
    /\ Complete("survey") =>
           LET report == Report(plan, points)
               next == planner_observation(report, 0)
           IN  validate_limits /\ Ascending(next.sweep)
                   /\ (\A i \in DOMAIN points : Frequency(points[i].actual))
                   => /\ validate_sweep_plot(report)
                      /\ validate_request(next) <=>
                             \/ MAX_PLANNER_CANDIDATE_BANDWIDTH_HZ <= Limits.max_bandwidth_hz
                             \/ \A n \in DOMAIN report.candidates :
                                    report.candidates[n].bandwidth <= Limits.max_bandwidth_hz
    /\ Complete("inspect") /\ Known(obs, action.candidate) /\ Frequency(points[1].actual) =>
           LET next == planner_inspection_observation(Report(plan, points), obs,
                                                      action.candidate, Elapsed)
           IN  validate_candidate(find_candidate(next, action.candidate))

\* What this module lets sdrd do is what RxOwnership, which sdrd implements,
\* promises of it.
Radio == INSTANCE RxOwnership WITH Nobody <- "none", cancelled <- FALSE, capturing <- FALSE
RadioAsPromised == [][Radio!Next]_(Radio!vars)

\* However a run ends, killed or not, it ends, and sdrd is then free and the
\* radio without an owner.
EndsReleased ==
    (pc # "end") ~> (pc = "end" /\ owner = "none" /\ worker = "none")

=============================================================================
