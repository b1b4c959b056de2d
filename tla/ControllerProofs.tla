-------------------------- MODULE ControllerProofs --------------------------
(***************************************************************************)
(* Proofs about module Controller, for every set of proposals, orders,     *)
(* observations and health, every limit of the policy and every retry      *)
(* count.                                                                  *)
(*                                                                         *)
(* The properties speak of a few places of the run (the radio is owned,    *)
(* the run has ended, the survey is complete); the invariant says what     *)
(* holds at every place before them: where the connection is open and the  *)
(* radio owned, what the SigMF pair and the audit log are, what the policy *)
(* has accepted, which points of which plan have been taken, and what the  *)
(* report is made from.                                                    *)
(***************************************************************************)
EXTENDS Controller, SurveyProofs, SequenceTheorems

-----------------------------------------------------------------------------
(* The inductive invariant.                                                *)

Points == [center : Int, actual : Int, power : Int]

\* The places before the authorization is in the audit log.
Observing == {"observe", "input_observation", "observation_failed"}
Planning == {"validate", "request_rejected", "plan", "planner_proposal", "planning_failed"}
Checking == {"check", "validation_failed", "validated_plan"}
Approving == {"approve", "awaiting_approval", "planned_only", "authorization_rejected",
              "authorized"}
Before == Observing \cup Planning \cup Checking \cup Approving
Executing == Client \cup {"execution_observation", "execution_failed"}

\* Types, with the sequences as sequences.
Types ==
    /\ caller \in {"runner", "worker"}
    /\ approval \in {"pending", "automatic", "operator"}
    /\ health \in Healths \cup {Offline}
    /\ action \in Proposals \cup Orders \cup {Nothing}
    /\ auth \in {"none", "automatic", "operator"}
    /\ pc \in Before \cup Executing \cup {"end"}
    /\ log \in Seq(Phases)
    /\ outcome \in Final \cup {"none", "failed", "crashed"}
    /\ error \in ({"observe", "plan"} \cup Client) \X {"server_busy", "other"} \cup {<<>>}
    /\ points \in Seq(Points)
    /\ file \in {"none", "part", "full"}
    /\ tries \in 0..MAX_BUSY_RETRIES
    /\ worker \in Clients \cup {"none"}
    /\ owner \in Clients \cup {"none"}
    /\ place \in {"home", "tuned", "lost"}

\* Where a run can be, and what has not happened yet there.
Flow ==
    /\ (pc = "end") <=> (outcome # "none")
    /\ pc \in Before \cup {"execution_observation", "execution_failed", "observe_after"} =>
           caller = "runner"
    /\ pc \in {"finish", "report", "observe_after"} => IsSweep
    /\ pc = "settle" => ~IsSweep
    /\ pc \in Client => action \in Proposals \cup Orders
    /\ pc \in Before \cup {"engine"} => plan = NoPlan
    /\ pc \in Before \cup {"engine", "connect", "start"} => points = <<>> /\ file = "none"

\* The connection, the owner and the radio.
RadioInv ==
    /\ open => worker = "us"
    /\ owner \in {worker, "none"}
    /\ pc \in {"start", "work", "stop", "quit"} => open
    /\ pc \in {"work", "stop"} => owner = "us"
    /\ owner = "us" => \/ pc \in {"work", "stop", "abort", "execution_failed"}
                       \/ outcome \in {"failed", "crashed"}
    /\ pc = "abort" /\ owner = "us" => open
    /\ place = "lost" => pc \in {"abort", "execution_failed"} \/ outcome \in {"failed", "crashed"}
    /\ owner = "none" /\ place # "lost" => place = "home"
    /\ pc \in {"start", "work", "stop", "quit", "abort", "finish", "report", "settle",
               "observe_after", "execution_observation"} => worker # "other"
    /\ outcome = "execution_observation" => worker # "other"

\* Where the SigMF pair is partial, and where it is whole.
FileInv ==
    /\ file = "part" => pc \in {"work", "stop", "quit", "finish", "abort"} \/ outcome = "crashed"
    /\ file = "full" =>
           /\ owner = "none" /\ place = "home" /\ worker # "other"
           /\ pc \in {"report", "observe_after", "execution_observation", "execution_failed", "end"}
    /\ file # "none" => IsSweep
    /\ caller = "worker" /\ IsSweep =>
           /\ pc \in {"work", "stop", "quit", "finish"} => file = "part"
           /\ pc = "report" \/ outcome = "execution_observation" => file = "full"

Authorized == <<"input_observation", "planner_proposal", "validated_plan", "authorized">>

\* The audit log at every place of a run, and what the approval was.
AuditInv ==
    caller = "runner" =>
        /\ pc \in Observing => log = <<>>
        /\ pc \in Planning => log = <<"input_observation">>
        /\ pc \in Checking => log = <<"input_observation", "planner_proposal">>
        /\ pc \in Approving => log = <<"input_observation", "planner_proposal", "validated_plan">>
        /\ pc \in Executing => log = Authorized
        /\ owner = "us" => \/ log = Authorized
                           \/ \E p \in Phases : log = Append(Authorized, p)
        /\ pc \in {"authorized"} \cup Executing \/ owner = "us" =>
               (approval_required(action) => approval = "operator")

\* What the policy has accepted, for which health.
PolicyInv ==
    /\ pc \in {"input_observation"} \cup Planning \cup Checking \cup Approving => health \in Healths
    /\ pc \in {"plan", "planner_proposal", "planning_failed"} \cup Checking \cup Approving =>
           validate_request(obs)
    /\ pc \in {"planner_proposal"} \cup Checking \cup Approving => action \in Proposals
    /\ pc \in {"validated_plan"} \cup Approving => validate_action(obs, health, action)
    /\ pc = "authorized" => action.kind \in Executable
    /\ pc = "engine" => Ordered(action)

\* The plan that was validated and the points that were taken of it.
PointsInv ==
    /\ \/ plan = NoPlan
       \/ /\ action \in Proposals \cup Orders /\ IsSweep
          /\ plan = SweepPlan(action, PointTimeout) /\ validate_plan(plan)
    /\ pc \in Client \ {"engine"} /\ IsSweep => plan # NoPlan
    /\ pc = "work" /\ IsSweep => Len(points) < Len(plan.centers)
    /\ pc \in {"stop", "quit", "finish", "report"} /\ IsSweep => Len(points) = Len(plan.centers)
    /\ Len(points) <= Len(plan.centers)
    /\ \A i \in DOMAIN points : Distance(points[i].actual, plan.centers[i]) <= Tolerance

\* What a report is made from: the observation of the request until it is
\* replaced, the profile of an inspection and the centres of the points.
ReportInv ==
    /\ pc \in Before \cup Client => obs \in Observation
    /\ plan # NoPlan /\ action.kind = "inspect" => validate_radio_profile(action)
    /\ \A i \in DOMAIN points : points[i].center = plan.centers[i]

\* A capture that failed for a busy sdrd has made every attempt, and has
\* nothing left to do with the radio.
BusyInv ==
    error = <<"settle", "server_busy">> =>
        /\ pc \in {"execution_failed", "end"} /\ tries = MAX_BUSY_RETRIES
        /\ owner = "none" /\ place = "home"

IInv ==
    /\ Types /\ Flow /\ RadioInv /\ FileInv
    /\ AuditInv /\ PolicyInv /\ PointsInv /\ ReportInv /\ BusyInv

-----------------------------------------------------------------------------
(* Lemmas.                                                                 *)

\* The constants as the provers need them.
LEMMA Constants ==
    /\ MAX_POINTS \in Nat \ {0} /\ Tolerance \in Nat
    /\ MAX_BUSY_RETRIES \in Nat
  BY SurveyAssumption, ControllerAssumption

\* Either caller has a timeout the engine takes.
LEMMA TimeoutOfPoint == PointTimeout \in 1..MAX_POINT_TIMEOUT_MS
  BY SurveyAssumption, ControllerAssumption DEF PointTimeout

\* A plan of an action, once validated, has a sequence of centres, and that
\* of a survey runs from the start of its band to the end.
LEMMA PlanOf ==
    ASSUME NEW a \in Proposals \cup Orders, a.kind \in {"survey", "inspect"},
           NEW timeout,
           validate_plan(SweepPlan(a, timeout))
    PROVE  /\ SweepPlan(a, timeout).centers \in Seq(Int)
           /\ Len(SweepPlan(a, timeout).centers) \in 1..MAX_POINTS
           /\ SweepPlan(a, timeout).bandwidth = a.bandwidth
           /\ a.kind = "survey" =>
                  /\ SweepPlan(a, timeout).centers[1] = a.start
                  /\ SweepPlan(a, timeout).centers[Len(SweepPlan(a, timeout).centers)] = a.stop
<1>1. Len(SweepPlan(a, timeout).centers) \in 1..MAX_POINTS
  BY DEF validate_plan
<1>2. SweepPlan(a, timeout).bandwidth = a.bandwidth
  BY DEF SweepPlan
<1>3. CASE a.kind = "survey"
  <2>1. a.start \in Nat /\ a.stop \in Nat /\ a.step \in Nat
    BY <1>3, ControllerAssumption
  <2>2. SweepPlan(a, timeout).centers = expand_centers(a.start, a.stop, a.step)
    BY <1>3 DEF SweepPlan
  <2>3. SweepPlan(a, timeout).centers # <<>>
    BY <1>1, Constants
  <2> DEFINE c == SweepPlan(a, timeout).centers
  <2>4. c = expand_centers(a.start, a.stop, a.step) /\ c # <<>>
    BY <2>2, <2>3
  <2> HIDE DEF c
  <2>5. c \in Seq(Int)
    BY <2>1, <2>4, CentersAreSequence
  <2>6. ASSUME NEW x \in Nat, NEW y \in Nat, NEW z \in Nat, c = expand_centers(x, y, z)
        PROVE  c[1] = x /\ c[Len(c)] = y
    <3>1. LET s == expand_centers(x, y, z) IN s # <<>> => s[1] = x /\ s[Len(s)] = y
      BY CentersAreSequence
    <3> QED BY <2>4, <2>6, <3>1
  <2>7. c[1] = a.start /\ c[Len(c)] = a.stop
    BY <2>1, <2>4, <2>6
  <2> QED BY <1>1, <1>2, <2>5, <2>7 DEF c
<1>4. CASE a.kind = "inspect"
  <2>1. a.center \in Nat
    BY <1>4, ControllerAssumption
  <2>2. SweepPlan(a, timeout).centers = <<a.center>>
    BY <1>4 DEF SweepPlan
  <2> QED BY <1>1, <1>2, <1>4, <2>1, <2>2
<1> QED BY <1>3, <1>4

\* The authorized run's log begins as it must, and one more entry does not
\* change that.
LEMMA PrefixOfLog ==
    /\ IsPrefix(Authorized, Authorized)
    /\ \A p \in Phases : IsPrefix(Authorized, Append(Authorized, p))
<1>1. Authorized \in Seq(Phases) /\ Len(Authorized) = 4
  BY DEF Authorized, Phases
<1>2. IsPrefix(Authorized, Authorized)
  BY <1>1 DEF IsPrefix
<1>3. ASSUME NEW p \in Phases
      PROVE  IsPrefix(Authorized, Append(Authorized, p))
  <2>1. Len(Append(Authorized, p)) = 5
    BY DEF Authorized
  <2>2. \A i \in 1..4 : Append(Authorized, p)[i] = Authorized[i]
    BY <1>1, <1>3 DEF Authorized
  <2> QED BY <1>1, <2>1, <2>2 DEF IsPrefix
<1> QED BY <1>2, <1>3

\* What the constants' assumptions say of an action at the engine: the
\* engine's verdict is the policy's, the dwell and a longer timeout excepted.
LEMMA EngineVerdict ==
    ASSUME Ordered(action), action \in Proposals \cup Orders, IsSweep
    PROVE  LET proposed == SweepPlan(action, PointTimeout)
               time == (action.dwell + PointTimeout) * Len(proposed.centers)
           IN  /\ validate_plan(proposed) <=>
                      action.dwell <= MAX_SETTLE_MS /\ time <= MAX_DURATION_MS
               /\ PointTimeout <= SURVEY_POINT_TIMEOUT_MS => time <= MAX_DURATION_MS
               /\ action.kind = "survey" => Len(proposed.centers) = point_count(action)
               /\ action.kind = "inspect" => validate_plan(proposed)
<1>1. CASE action.kind = "survey"
  <2>1. {action.start, action.stop, action.step, action.rate, action.bandwidth, action.dwell}
            \subseteq Nat
    BY <1>1, ControllerAssumption
  <2>2. CASE validate_request(obs) /\ \E h \in Healths : validate_action(obs, h, action)
    <3>1. validate_limits /\ validate_survey(action)
      BY <1>1, <2>2 DEF validate_request, validate_action
    <3> QED BY <1>1, <2>1, <3>1, TimeoutOfPoint, PolicySurvey DEF Refusable
  <2>3. CASE /\ action.bandwidth = action.rate /\ action.rate * 4 = InitialStep * 5
             /\ validate_initial_survey(action, InitialStep)
    <3>1. /\ InitialStep \in Nat /\ InitialStep % 4 = 0
          /\ (InitialStep \div 4) * 5 \in MinRate..MaxRate
          /\ (InitialStep \div 4) * 5 \in MinBandwidth..MaxBandwidth
      BY ControllerAssumption
    <3> QED BY <1>1, <2>1, <2>3, <3>1, TimeoutOfPoint, InitialSurvey DEF Refusable
  <2> QED BY <2>2, <2>3 DEF Ordered
<1>2. CASE action.kind = "inspect"
  <2>1. {action.center, action.rate, action.bandwidth, action.dwell} \subseteq Nat
    BY <1>2, ControllerAssumption
  <2>2. validate_request(obs) /\ \E h \in Healths : validate_action(obs, h, action)
    BY <1>2 DEF Ordered
  <2>3. validate_limits /\ validate_inspect(obs, action)
    BY <1>2, <2>2 DEF validate_request, validate_action
  <2> QED BY <1>2, <2>1, <2>3, TimeoutOfPoint, PolicyInspection
<1> QED BY <1>1, <1>2 DEF IsSweep

\* The centre of the next point is a number.
LEMMA PlanCenter ==
    ASSUME IInv, pc = "work", IsSweep
    PROVE  /\ plan # NoPlan /\ action \in Proposals \cup Orders
           /\ plan = SweepPlan(action, PointTimeout) /\ validate_plan(plan)
           /\ plan.centers \in Seq(Int)
           /\ Len(points) \in Nat /\ Len(points) + 1 \in 1..Len(plan.centers)
           /\ plan.centers[Len(points) + 1] \in Int
<1>1. plan # NoPlan
  BY DEF IInv, PointsInv, Client
<1>2. /\ action \in Proposals \cup Orders /\ plan = SweepPlan(action, PointTimeout) /\ validate_plan(plan)
      /\ Len(points) < Len(plan.centers)
  BY <1>1 DEF IInv, PointsInv
<1>3. plan.centers \in Seq(Int)
  BY <1>2, PlanOf DEF IsSweep
<1>4. Len(points) \in Nat
  BY DEF IInv, Types
<1> QED BY <1>1, <1>2, <1>3, <1>4

\* A client that gives up has no points.
LEMMA NoPoints == <<>> \in Seq(Points)
  OBVIOUS

\* Where an audited phase leads, and how a run ends that is audited.
LEMMA AuditStep ==
    ASSUME Audit
    PROVE  /\ pc \in Phases
           /\ UNCHANGED <<request, error, sweep, sdrd>>
           /\ \/ /\ log' = Append(log, pc)
                 /\ pc = "input_observation" => pc' = "validate" /\ outcome' = outcome
                 /\ pc = "planner_proposal" => pc' = "check" /\ outcome' = outcome
                 /\ pc = "validated_plan" => pc' = "approve" /\ outcome' = outcome
                 /\ pc = "authorized" => pc' = "engine" /\ outcome' = outcome
                 /\ pc \in Final => pc' = "end" /\ outcome' = pc
                 /\ pc \in Failures => pc' = "end" /\ outcome' = "failed"
              \/ /\ pc' = "end"
                 /\ outcome' = "failed"
                 /\ UNCHANGED log
<1>1. /\ pc = "input_observation" => Then = "validate" /\ pc \notin Final \cup Failures
      /\ pc = "planner_proposal" => Then = "check" /\ pc \notin Final \cup Failures
      /\ pc = "validated_plan" => Then = "approve" /\ pc \notin Final \cup Failures
      /\ pc = "authorized" => Then = "engine" /\ pc \notin Final \cup Failures
      /\ pc \in Final => Then = "end" /\ pc \notin Failures
      /\ pc \in Failures => Then = "end" /\ pc \notin Final
  BY Zenon DEF Then, Final, Failures
<1> DEFINE ended == CASE pc \in Final -> pc [] pc \in Failures -> "failed" [] OTHER -> outcome
<1>2. /\ pc \notin Final \cup Failures => ended = outcome
      /\ pc \in Final /\ pc \notin Failures => ended = pc
      /\ pc \in Failures /\ pc \notin Final => ended = "failed"
  BY Zenon
<1>3. /\ pc \in Phases
      /\ UNCHANGED <<request, error, sweep, sdrd>>
      /\ \/ log' = Append(log, pc) /\ pc' = Then /\ outcome' = ended
         \/ pc' = "end" /\ outcome' = "failed" /\ UNCHANGED log
  BY DEF Audit
<1> HIDE DEF ended
<1> QED BY <1>1, <1>2, <1>3

-----------------------------------------------------------------------------
(* The steps.                                                              *)

\* Every step keeps the types.
LEMMA TypesStep == IInv /\ [Next]_vars => Types'
<1> SUFFICES ASSUME IInv, [Next]_vars PROVE Types'
  OBVIOUS
<1> USE DEF IInv
<1> USE Constants DEF request, sweep, sdrd, Goto, Failing, Fail, Succeed, GiveUp, GiveBack,
          Restored, Move, Unserved, Phases, Final, Failures, Client, Clients, Before, Observing,
          Planning, Checking, Approving, Executing
<1> USE DEF Types, Flow
<1>1. CASE Audit
  <2>1. pc \in Phases
    BY <1>1, AuditStep
  <2>2. log' \in Seq(Phases)
    <3>1. log' = log \/ log' = Append(log, pc)
      BY <1>1, AuditStep
    <3> QED BY <2>1, <3>1
  <2>3. /\ UNCHANGED <<request, error, sweep, sdrd>>
        /\ pc' \in {"validate", "check", "approve", "engine", "end"}
        /\ outcome' \in Final \cup {"none", "failed", "crashed"}
    BY <1>1, AuditStep
  <2> QED BY <2>2, <2>3
<1>2. CASE Observe
  BY <1>2 DEF Observe
<1>3. CASE Validate
  BY <1>3 DEF Validate
<1>4. CASE Plan
  BY <1>4 DEF Plan
<1>5. CASE Check
  BY <1>5 DEF Check
<1>6. CASE Approve
  BY <1>6 DEF Approve, Authorization
<1>7. CASE Engine
  BY <1>7 DEF Engine
<1>8. CASE Connect
  BY <1>8 DEF Connect
<1>9. CASE Start
  BY <1>9 DEF Start
<1>10. CASE Point
  <2>1. points' \in Seq(Points)
    <3>1. CASE points' = <<>>
      BY <3>1, NoPoints
    <3>2. CASE points' # <<>>
      <4>1. PICK drift \in Drifts, power \in Powers :
                points' = Append(points, [center |-> plan.centers[Len(points) + 1],
                                          actual |-> plan.centers[Len(points) + 1] + drift,
                                          power |-> power])
        BY <1>10, <3>2 DEF Point
      <4>2. plan.centers[Len(points) + 1] \in Int
        BY <1>10, PlanCenter DEF Point, RadioInv
      <4> DEFINE c == plan.centers[Len(points) + 1]
                 point == [center |-> c, actual |-> c + drift, power |-> power]
      <4>3. drift \in Int /\ power \in Int
        BY ControllerAssumption
      <4>4. c \in Int /\ c + drift \in Int
        BY <4>2, <4>3
      <4> HIDE DEF c
      <4>5. point \in Points
        BY <4>3, <4>4 DEF Points
      <4>6. points' = Append(points, point)
        BY <4>1 DEF c
      <4> HIDE DEF point
      <4> QED BY <4>5, <4>6
    <3> QED BY <3>1, <3>2
  <2> QED BY <1>10, <2>1 DEF Point
<1>11. CASE Capture
  BY <1>11 DEF Capture
<1>12. CASE WorkFails
  BY <1>12 DEF WorkFails
<1>13. CASE Stop
  <2>1. points' = points \/ points' = <<>>
    BY <1>13 DEF Stop
  <2>2. points' \in Seq(Points)
    BY <2>1, NoPoints
  <2> QED BY <1>13, <2>2 DEF Stop, StopConfirmed
<1>14. CASE StopLost
  BY <1>14 DEF StopLost
<1>15. CASE Quit
  <2>1. points' = points \/ points' = <<>>
    BY <1>15 DEF Quit
  <2>2. points' \in Seq(Points)
    BY <2>1, NoPoints
  <2> QED BY <1>15, <2>2 DEF Quit
<1>16. CASE Abort
  BY <1>16 DEF Abort, Dropped, Hangup
<1>17. CASE Finish
  <2>1. points' = points \/ points' = <<>>
    BY <1>17 DEF Finish
  <2>2. points' \in Seq(Points)
    BY <2>1, NoPoints
  <2> QED BY <1>17, <2>2 DEF Finish
<1>18. CASE ReportPoints
  BY <1>18 DEF ReportPoints
<1>19. CASE Settle
  BY <1>19 DEF Settle, MayRetry
<1>20. CASE ObserveAfter
  BY <1>20 DEF ObserveAfter
<1>21. CASE Crash
  BY <1>21 DEF Crash
<1>22. CASE Release
  BY <1>22 DEF Release
<1>23. CASE UNCHANGED vars
  BY <1>23 DEF vars
<1> QED BY <1>1, <1>2, <1>3, <1>4, <1>5, <1>6, <1>7, <1>8, <1>9, <1>10, <1>11, <1>12, <1>13,
       <1>14, <1>15, <1>16, <1>17, <1>18, <1>19, <1>20, <1>21, <1>22, <1>23 DEF Next, Runner,
       Execution

\* Every step keeps the order of the places.
LEMMA FlowStep == IInv /\ [Next]_vars => Flow'
<1> SUFFICES ASSUME IInv, [Next]_vars PROVE Flow'
  OBVIOUS
<1> USE DEF IInv, Types, Flow, IsSweep
<1> USE Constants DEF request, sweep, sdrd, Goto, Failing, Fail, Succeed, GiveUp, GiveBack,
          Restored, Move, Unserved, Phases, Final, Failures, Client, Clients, Before, Observing,
          Planning, Checking, Approving, Executing
<1>1. CASE Audit
  <2>1. UNCHANGED <<request, error, sweep, sdrd>>
    BY <1>1, AuditStep
  <2>2. outcome = "none"
    BY <1>1, AuditStep
  <2>3. CASE pc \in {"input_observation", "planner_proposal", "validated_plan", "authorized"}
    <3>1. \/ pc' \in {"validate", "check", "approve", "engine"} /\ outcome' = outcome
          \/ pc' = "end" /\ outcome' = "failed"
      BY <1>1, <2>3, AuditStep
    <3>2. pc' = "engine" => pc = "authorized"
      BY <1>1, <2>3, AuditStep
    <3> QED BY <2>1, <2>2, <2>3, <3>1, <3>2 DEF PolicyInv
  <2>4. CASE pc \in Final
    <3>1. pc' = "end" /\ outcome' \in {pc, "failed"}
      BY <1>1, <2>4, AuditStep
    <3>2. place # "lost" /\ owner # "us"
      BY <2>2, <2>4 DEF RadioInv
    <3>3. outcome' = "execution_observation" => worker # "other"
      BY <2>4, <3>1 DEF RadioInv
    <3> QED BY <2>1, <2>2, <2>4, <3>1, <3>2, <3>3
  <2>5. CASE pc \in Failures
    <3>1. pc' = "end" /\ outcome' = "failed"
      BY <1>1, <2>5, AuditStep
    <3> QED BY <2>1, <2>2, <2>5, <3>1
  <2> QED BY <1>1, <2>3, <2>4, <2>5, AuditStep
<1>2. CASE Observe
  BY <1>2 DEF Observe
<1>3. CASE Validate
  BY <1>3 DEF Validate
<1>4. CASE Plan
  BY <1>4 DEF Plan
<1>5. CASE Check
  BY <1>5 DEF Check
<1>6. CASE Approve
  BY <1>6 DEF Approve, Authorization
<1>7. CASE Engine
  BY <1>7 DEF Engine
<1>8. CASE Connect
  BY <1>8 DEF Connect
<1>9. CASE Start
  BY <1>9 DEF Start
<1>10. CASE Point
  BY <1>10 DEF Point
<1>11. CASE Capture
  BY <1>11 DEF Capture
<1>12. CASE WorkFails
  BY <1>12 DEF WorkFails
<1>13. CASE Stop
  BY <1>13 DEF Stop, StopConfirmed
<1>14. CASE StopLost
  BY <1>14 DEF StopLost
<1>15. CASE Quit
  BY <1>15 DEF Quit
<1>16. CASE Abort
  BY <1>16 DEF Abort, Dropped, Hangup
<1>17. CASE Finish
  BY <1>17 DEF Finish
<1>18. CASE ReportPoints
  BY <1>18 DEF ReportPoints
<1>19. CASE Settle
  BY <1>19 DEF Settle, MayRetry
<1>20. CASE ObserveAfter
  BY <1>20 DEF ObserveAfter
<1>21. CASE Crash
  BY <1>21 DEF Crash
<1>22. CASE Release
  BY <1>22 DEF Release
<1>23. CASE UNCHANGED vars
  BY <1>23 DEF vars
<1> QED BY <1>1, <1>2, <1>3, <1>4, <1>5, <1>6, <1>7, <1>8, <1>9, <1>10, <1>11, <1>12, <1>13,
       <1>14, <1>15, <1>16, <1>17, <1>18, <1>19, <1>20, <1>21, <1>22, <1>23 DEF Next, Runner,
       Execution

\* Every step keeps the connection, the owner and the radio in accord.
LEMMA RadioStep == IInv /\ [Next]_vars => RadioInv'
<1> SUFFICES ASSUME IInv, [Next]_vars PROVE RadioInv'
  OBVIOUS
<1> USE DEF IInv, Types, Flow, RadioInv
<1> USE Constants DEF request, sweep, sdrd, Goto, Failing, Fail, Succeed, GiveUp, GiveBack,
          Restored, Move, Unserved, Phases, Final, Failures, Client, Clients, Before, Observing,
          Planning, Checking, Approving, Executing
<1>1. CASE Audit
  <2>1. UNCHANGED <<request, error, sweep, sdrd>>
    BY <1>1, AuditStep
  <2>2. outcome = "none"
    BY <1>1, AuditStep
  <2>3. CASE pc \in {"input_observation", "planner_proposal", "validated_plan", "authorized"}
    <3>1. \/ pc' \in {"validate", "check", "approve", "engine"} /\ outcome' = outcome
          \/ pc' = "end" /\ outcome' = "failed"
      BY <1>1, <2>3, AuditStep
    <3>2. pc' = "engine" => pc = "authorized"
      BY <1>1, <2>3, AuditStep
    <3> QED BY <2>1, <2>2, <2>3, <3>1, <3>2
  <2>4. CASE pc \in Final
    <3>1. pc' = "end" /\ outcome' \in {pc, "failed"}
      BY <1>1, <2>4, AuditStep
    <3>2. place # "lost" /\ owner # "us"
      BY <2>2, <2>4 DEF RadioInv
    <3>3. outcome' = "execution_observation" => worker # "other"
      BY <2>4, <3>1 DEF RadioInv
    <3> QED BY <2>1, <2>2, <2>4, <3>1, <3>2, <3>3
  <2>5. CASE pc \in Failures
    <3>1. pc' = "end" /\ outcome' = "failed"
      BY <1>1, <2>5, AuditStep
    <3> QED BY <2>1, <2>2, <2>5, <3>1
  <2> QED BY <1>1, <2>3, <2>4, <2>5, AuditStep
<1>2. CASE Observe
  BY <1>2 DEF Observe
<1>3. CASE Validate
  BY <1>3 DEF Validate
<1>4. CASE Plan
  BY <1>4 DEF Plan
<1>5. CASE Check
  BY <1>5 DEF Check
<1>6. CASE Approve
  BY <1>6 DEF Approve, Authorization
<1>7. CASE Engine
  BY <1>7 DEF Engine
<1>8. CASE Connect
  BY <1>8 DEF Connect
<1>9. CASE Start
  BY <1>9 DEF Start
<1>10. CASE Point
  BY <1>10 DEF Point
<1>11. CASE Capture
  BY <1>11 DEF Capture
<1>12. CASE WorkFails
  BY <1>12 DEF WorkFails
<1>13. CASE Stop
  BY <1>13 DEF Stop, StopConfirmed
<1>14. CASE StopLost
  BY <1>14 DEF StopLost
<1>15. CASE Quit
  BY <1>15 DEF Quit
<1>16. CASE Abort
  BY <1>16 DEF Abort, Dropped, Hangup
<1>17. CASE Finish
  BY <1>17 DEF Finish
<1>18. CASE ReportPoints
  <2>1. /\ pc = "report"
        /\ UNCHANGED <<request, log, sweep, sdrd>>
        /\ \/ /\ caller = "runner" /\ outcome' = outcome
              /\ pc' \in {"observe_after", "execution_failed"}
           \/ /\ caller = "worker" /\ pc' = "end"
              /\ outcome' \in {"failed", "execution_observation"}
    BY <1>18 DEF ReportPoints
  <2>2. place # "lost" /\ owner # "us" /\ worker # "other" /\ outcome = "none"
    BY <2>1
  <2> QED BY <2>1, <2>2
<1>19. CASE Settle
  BY <1>19 DEF Settle, MayRetry
<1>20. CASE ObserveAfter
  BY <1>20 DEF ObserveAfter
<1>21. CASE Crash
  BY <1>21 DEF Crash
<1>22. CASE Release
  BY <1>22 DEF Release
<1>23. CASE UNCHANGED vars
  BY <1>23 DEF vars
<1> QED BY <1>1, <1>2, <1>3, <1>4, <1>5, <1>6, <1>7, <1>8, <1>9, <1>10, <1>11, <1>12, <1>13,
       <1>14, <1>15, <1>16, <1>17, <1>18, <1>19, <1>20, <1>21, <1>22, <1>23 DEF Next, Runner,
       Execution

\* Every step keeps the SigMF pair partial or whole where it has to be.
LEMMA FileStep == IInv /\ [Next]_vars => FileInv'
<1> SUFFICES ASSUME IInv, [Next]_vars PROVE FileInv'
  OBVIOUS
<1> USE DEF IInv, Types, Flow, RadioInv, FileInv, IsSweep
<1> USE Constants DEF request, sweep, sdrd, Goto, Failing, Fail, Succeed, GiveUp, GiveBack,
          Restored, Move, Unserved, Phases, Final, Failures, Client, Clients, Before, Observing,
          Planning, Checking, Approving, Executing
<1>1. CASE Audit
  BY <1>1, AuditStep
<1>2. CASE Observe
  BY <1>2 DEF Observe
<1>3. CASE Validate
  BY <1>3 DEF Validate
<1>4. CASE Plan
  BY <1>4 DEF Plan
<1>5. CASE Check
  BY <1>5 DEF Check
<1>6. CASE Approve
  BY <1>6 DEF Approve, Authorization
<1>7. CASE Engine
  BY <1>7 DEF Engine
<1>8. CASE Connect
  BY <1>8 DEF Connect
<1>9. CASE Start
  BY <1>9 DEF Start
<1>10. CASE Point
  BY <1>10 DEF Point
<1>11. CASE Capture
  BY <1>11 DEF Capture
<1>12. CASE WorkFails
  BY <1>12 DEF WorkFails
<1>13. CASE Stop
  BY <1>13 DEF Stop, StopConfirmed
<1>14. CASE StopLost
  BY <1>14 DEF StopLost
<1>15. CASE Quit
  <2>1. /\ pc = "quit" /\ UNCHANGED <<request, file, worker, owner, place, outcome>>
        /\ pc' = "abort" \/ (IsSweep /\ pc' = "finish") \/ (~IsSweep /\ pc' = "settle")
    BY <1>15 DEF Quit
  <2>2. file # "full" /\ outcome = "none"
    BY <2>1
  <2> QED BY <2>1, <2>2
<1>16. CASE Abort
  BY <1>16 DEF Abort, Dropped, Hangup
<1>17. CASE Finish
  <2>1. /\ pc = "finish" /\ UNCHANGED <<request, worker, owner, place, outcome>>
        /\ \/ pc' = "report" /\ file' = IF file = "part" THEN "full" ELSE "none"
           \/ pc' = "abort" /\ file' = file
    BY <1>17 DEF Finish
  <2>2. outcome = "none" /\ worker # "other" /\ owner # "us" /\ place # "lost"
    BY <2>1
  <2>3. owner = "none" /\ place = "home"
    BY <2>2
  <2> QED BY <2>1, <2>2, <2>3
<1>18. CASE ReportPoints
  BY <1>18 DEF ReportPoints
<1>19. CASE Settle
  BY <1>19 DEF Settle, MayRetry
<1>20. CASE ObserveAfter
  BY <1>20 DEF ObserveAfter
<1>21. CASE Crash
  BY <1>21 DEF Crash
<1>22. CASE Release
  BY <1>22 DEF Release
<1>23. CASE UNCHANGED vars
  BY <1>23 DEF vars
<1> QED BY <1>1, <1>2, <1>3, <1>4, <1>5, <1>6, <1>7, <1>8, <1>9, <1>10, <1>11, <1>12, <1>13,
       <1>14, <1>15, <1>16, <1>17, <1>18, <1>19, <1>20, <1>21, <1>22, <1>23 DEF Next, Runner,
       Execution

\* Appending to a short tuple.
LEMMA Appended ==
    ASSUME NEW S, NEW a \in S, NEW b \in S, NEW c \in S, NEW d \in S
    PROVE  /\ Append(<<a>>, b) = <<a, b>>
           /\ Append(<<a, b>>, c) = <<a, b, c>>
           /\ Append(<<a, b, c>>, d) = <<a, b, c, d>>
<1>1. {<<a>>, <<a, b>>, <<a, b, c>>, <<a, b, c, d>>} \subseteq Seq(S)
  OBVIOUS
<1>2. Append(<<a>>, b) = <<a, b>>
  <2>1. Append(<<a>>, b) \in Seq(S) /\ Len(Append(<<a>>, b)) = 2
    BY <1>1, AppendProperties
  <2>2. \A i \in 1..2 : Append(<<a>>, b)[i] = <<a, b>>[i]
    OBVIOUS
  <2> QED BY <1>1, <2>1, <2>2, SeqEqual
<1>3. Append(<<a, b>>, c) = <<a, b, c>>
  <2>1. Append(<<a, b>>, c) \in Seq(S) /\ Len(Append(<<a, b>>, c)) = 3
    BY <1>1, AppendProperties
  <2>2. \A i \in 1..3 : Append(<<a, b>>, c)[i] = <<a, b, c>>[i]
    OBVIOUS
  <2> QED BY <1>1, <2>1, <2>2, SeqEqual
<1>4. Append(<<a, b, c>>, d) = <<a, b, c, d>>
  <2>1. Append(<<a, b, c>>, d) \in Seq(S) /\ Len(Append(<<a, b, c>>, d)) = 4
    BY <1>1, AppendProperties
  <2>2. \A i \in 1..4 : Append(<<a, b, c>>, d)[i] = <<a, b, c, d>>[i]
    OBVIOUS
  <2> QED BY <1>1, <2>1, <2>2, SeqEqual
<1> QED BY <1>2, <1>3, <1>4

\* The audit log of a run, phase by phase.
LEMMA LogGrows ==
    /\ Append(<<>>, "input_observation") = <<"input_observation">>
    /\ Append(<<"input_observation">>, "planner_proposal") =
           <<"input_observation", "planner_proposal">>
    /\ Append(<<"input_observation", "planner_proposal">>, "validated_plan") =
           <<"input_observation", "planner_proposal", "validated_plan">>
    /\ Append(<<"input_observation", "planner_proposal", "validated_plan">>, "authorized") =
           Authorized
<1>1. Append(<<>>, "input_observation") = <<"input_observation">>
  OBVIOUS
<1>2. {"input_observation", "planner_proposal", "validated_plan", "authorized"} \subseteq Phases
  BY DEF Phases
<1>3. /\ "input_observation" \in Phases /\ "planner_proposal" \in Phases
      /\ "validated_plan" \in Phases /\ "authorized" \in Phases
  BY <1>2
<1> HIDE DEF Phases
<1> QED BY <1>1, <1>3, Appended DEF Authorized

\* Every step keeps the audit log in accord with the place of the run.
LEMMA AuditLogStep == IInv /\ [Next]_vars => AuditInv'
<1> SUFFICES ASSUME IInv, [Next]_vars PROVE AuditInv'
  OBVIOUS
<1> USE DEF IInv, Types, Flow, RadioInv, AuditInv
<1> USE Constants DEF request, sweep, sdrd, Goto, Failing, Fail, Succeed, GiveUp, GiveBack,
          Restored, Move, Unserved, Phases, Final, Failures, Client, Clients, Before, Observing,
          Planning, Checking, Approving, Executing
<1>1. CASE Audit
  <2>1. UNCHANGED <<request, error, sweep, sdrd>>
    BY <1>1, AuditStep
  <2>2. outcome = "none" /\ pc \in Phases /\ caller = "runner"
    BY <1>1, AuditStep
  <2>3. CASE pc' = "end"
    <3>1. owner = "us" => pc = "execution_failed"
      BY <2>2
    <3>2. log' = log \/ log' = Append(log, pc)
      BY <1>1, AuditStep
    <3>3. owner = "us" => \/ log' = Authorized
                         \/ \E q \in Phases : log' = Append(Authorized, q)
      BY <2>2, <3>1, <3>2
    <3> QED BY <2>1, <2>2, <2>3, <3>1, <3>3
  <2>4. CASE pc' # "end"
    <3>1. /\ log' = Append(log, pc)
          /\ owner # "us"
          /\ \/ pc = "input_observation" /\ pc' = "validate"
             \/ pc = "planner_proposal" /\ pc' = "check"
             \/ pc = "validated_plan" /\ pc' = "approve"
             \/ pc = "authorized" /\ pc' = "engine"
      BY <1>1, <2>2, <2>4, AuditStep
    <3>2. CASE pc = "input_observation" /\ pc' = "validate"
      <4>1. log' = <<"input_observation">>
        BY <2>2, <3>1, <3>2
      <4> QED BY <2>1, <2>2, <3>1, <3>2, <4>1
    <3>3. CASE pc = "planner_proposal" /\ pc' = "check"
      <4>1. log' = <<"input_observation", "planner_proposal">>
        BY <2>2, <3>1, <3>3, LogGrows
      <4> QED BY <2>1, <2>2, <3>1, <3>3, <4>1
    <3>4. CASE pc = "validated_plan" /\ pc' = "approve"
      <4>1. log' = <<"input_observation", "planner_proposal", "validated_plan">>
        BY <2>2, <3>1, <3>4, LogGrows
      <4> QED BY <2>1, <2>2, <3>1, <3>4, <4>1
    <3>5. CASE pc = "authorized" /\ pc' = "engine"
      <4>1. log' = Authorized
        BY <2>2, <3>1, <3>5, LogGrows
      <4> QED BY <2>1, <2>2, <3>1, <3>5, <4>1
    <3> QED BY <3>1, <3>2, <3>3, <3>4, <3>5
  <2> QED BY <2>3, <2>4
<1>2. CASE Observe
  BY <1>2 DEF Observe
<1>3. CASE Validate
  BY <1>3 DEF Validate
<1>4. CASE Plan
  BY <1>4 DEF Plan
<1>5. CASE Check
  BY <1>5 DEF Check
<1>6. CASE Approve
  <2>1. Authorization # "none" => (approval_required(action) => approval = "operator")
    BY Zenon DEF Authorization
  <2> HIDE DEF Authorization
  <2> QED BY <1>6, <2>1 DEF Approve
<1>7. CASE Engine
  BY <1>7 DEF Engine
<1>8. CASE Connect
  BY <1>8 DEF Connect
<1>9. CASE Start
  BY <1>9 DEF Start
<1>10. CASE Point
  BY <1>10 DEF Point
<1>11. CASE Capture
  BY <1>11 DEF Capture
<1>12. CASE WorkFails
  BY <1>12 DEF WorkFails
<1>13. CASE Stop
  BY <1>13 DEF Stop, StopConfirmed
<1>14. CASE StopLost
  BY <1>14 DEF StopLost
<1>15. CASE Quit
  BY <1>15 DEF Quit
<1>16. CASE Abort
  BY <1>16 DEF Abort, Dropped, Hangup
<1>17. CASE Finish
  BY <1>17 DEF Finish
<1>18. CASE ReportPoints
  BY <1>18 DEF ReportPoints
<1>19. CASE Settle
  BY <1>19 DEF Settle, MayRetry
<1>20. CASE ObserveAfter
  BY <1>20 DEF ObserveAfter
<1>21. CASE Crash
  BY <1>21 DEF Crash
<1>22. CASE Release
  BY <1>22 DEF Release
<1>23. CASE UNCHANGED vars
  BY <1>23 DEF vars
<1> QED BY <1>1, <1>2, <1>3, <1>4, <1>5, <1>6, <1>7, <1>8, <1>9, <1>10, <1>11, <1>12, <1>13,
       <1>14, <1>15, <1>16, <1>17, <1>18, <1>19, <1>20, <1>21, <1>22, <1>23 DEF Next, Runner,
       Execution

\* Every step keeps what the policy has accepted.
LEMMA PolicyStep == IInv /\ [Next]_vars => PolicyInv'
<1> SUFFICES ASSUME IInv, [Next]_vars PROVE PolicyInv'
  OBVIOUS
<1> USE DEF IInv, Types, Flow, PolicyInv
<1> USE Constants DEF request, sweep, sdrd, Goto, Failing, Fail, Succeed, GiveUp, GiveBack,
          Restored, Move, Unserved, Phases, Final, Failures, Client, Clients, Before, Observing,
          Planning, Checking, Approving, Executing
<1>1. CASE Audit
  <2>1. UNCHANGED <<request, error, sweep, sdrd>>
    BY <1>1, AuditStep
  <2>2. \/ pc' = "end"
        \/ pc = "input_observation" /\ pc' = "validate"
        \/ pc = "planner_proposal" /\ pc' = "check"
        \/ pc = "validated_plan" /\ pc' = "approve"
        \/ pc = "authorized" /\ pc' = "engine"
    BY <1>1, AuditStep
  <2>3. pc = "authorized" => Ordered(action)
    BY DEF Ordered
  <2>4. pc = "authorized" => Ordered(action)'
    BY <2>1, <2>3 DEF Ordered
  <2> QED BY <2>1, <2>2, <2>4
<1>2. CASE Observe
  BY <1>2 DEF Observe
<1>3. CASE Validate
  BY <1>3 DEF Validate
<1>4. CASE Plan
  BY <1>4 DEF Plan
<1>5. CASE Check
  BY <1>5 DEF Check
<1>6. CASE Approve
  BY <1>6 DEF Approve, Authorization
<1>7. CASE Engine
  BY <1>7 DEF Engine
<1>8. CASE Connect
  BY <1>8 DEF Connect
<1>9. CASE Start
  BY <1>9 DEF Start
<1>10. CASE Point
  BY <1>10 DEF Point
<1>11. CASE Capture
  BY <1>11 DEF Capture
<1>12. CASE WorkFails
  BY <1>12 DEF WorkFails
<1>13. CASE Stop
  BY <1>13 DEF Stop, StopConfirmed
<1>14. CASE StopLost
  BY <1>14 DEF StopLost
<1>15. CASE Quit
  BY <1>15 DEF Quit
<1>16. CASE Abort
  BY <1>16 DEF Abort, Dropped, Hangup
<1>17. CASE Finish
  BY <1>17 DEF Finish
<1>18. CASE ReportPoints
  BY <1>18 DEF ReportPoints
<1>19. CASE Settle
  BY <1>19 DEF Settle, MayRetry
<1>20. CASE ObserveAfter
  BY <1>20 DEF ObserveAfter
<1>21. CASE Crash
  BY <1>21 DEF Crash
<1>22. CASE Release
  <2>1. UNCHANGED <<pc, caller, obs, health, action>>
    BY <1>22 DEF Release
  <2>2. Ordered(action) => Ordered(action)'
    BY <2>1 DEF Ordered
  <2> QED BY <2>1, <2>2
<1>23. CASE UNCHANGED vars
  <2>1. UNCHANGED <<pc, caller, obs, health, action>>
    BY <1>23 DEF vars
  <2>2. Ordered(action) => Ordered(action)'
    BY <2>1 DEF Ordered
  <2> QED BY <2>1, <2>2
<1> QED BY <1>1, <1>2, <1>3, <1>4, <1>5, <1>6, <1>7, <1>8, <1>9, <1>10, <1>11, <1>12, <1>13,
       <1>14, <1>15, <1>16, <1>17, <1>18, <1>19, <1>20, <1>21, <1>22, <1>23 DEF Next, Runner,
       Execution

\* Every step keeps the points in accord with the plan.
LEMMA PointsStep == IInv /\ [Next]_vars => PointsInv'
<1> SUFFICES ASSUME IInv, [Next]_vars PROVE PointsInv'
  OBVIOUS
<1> USE DEF IInv, Types, Flow, PointsInv, IsSweep, NoPlan, PointTimeout
<1> USE Constants DEF request, sweep, sdrd, Goto, Failing, Fail, Succeed, GiveUp, GiveBack,
          Restored, Move, Unserved, Phases, Final, Failures, Client, Clients, Before, Observing,
          Planning, Checking, Approving, Executing
<1>1. CASE Audit
  BY <1>1, AuditStep
<1>2. CASE Observe
  BY <1>2 DEF Observe
<1>3. CASE Validate
  BY <1>3 DEF Validate
<1>4. CASE Plan
  BY <1>4 DEF Plan
<1>5. CASE Check
  BY <1>5 DEF Check
<1>6. CASE Approve
  BY <1>6 DEF Approve, Authorization
<1>7. CASE Engine
  <2>1. /\ pc = "engine" /\ points = <<>> /\ plan = NoPlan
        /\ action \in Proposals \cup Orders
        /\ UNCHANGED <<request, points>>
        /\ \/ plan' = NoPlan /\ (pc' # "connect" \/ ~IsSweep)
           \/ IsSweep /\ plan' = SweepPlan(action, PointTimeout) /\ validate_plan(plan')
        /\ pc' \in {"connect", "execution_failed", "end"}
    BY <1>7 DEF Engine
  <2>2. points' = <<>> /\ IsSweep' = IsSweep
    BY <2>1
  <2>3. CASE plan' = NoPlan /\ (pc' # "connect" \/ ~IsSweep)
    BY <2>1, <2>2, <2>3
  <2>4. CASE IsSweep /\ plan' = SweepPlan(action, PointTimeout) /\ validate_plan(plan')
    <3>1. plan'.centers \in Seq(Int) /\ Len(plan'.centers) \in 1..MAX_POINTS
      BY <2>1, <2>4, PlanOf
    <3>2. plan' # NoPlan
      BY <3>1
    <3> QED BY <2>1, <2>2, <2>4, <3>1, <3>2
  <2> QED BY <2>1, <2>3, <2>4
<1>8. CASE Connect
  BY <1>8 DEF Connect
<1>9. CASE Start
  <2>1. /\ pc = "start" /\ points = <<>> /\ UNCHANGED <<request, plan, points>>
        /\ pc' \in {"work", "abort"}
    BY <1>9 DEF Start
  <2>2. IsSweep => Len(plan.centers) \in 1..MAX_POINTS
    BY <2>1, PlanOf
  <2> QED BY <2>1, <2>2
<1>10. CASE Point
  <2>1. pc = "work" /\ IsSweep /\ UNCHANGED <<request, plan>>
    BY <1>10 DEF Point
  <2>2. /\ plan # NoPlan /\ Len(points) \in Nat
        /\ Len(points) + 1 \in 1..Len(plan.centers) /\ plan.centers \in Seq(Int)
    BY <2>1, PlanCenter
  <2>3. CASE pc' = "abort" /\ points' = <<>>
    BY <2>1, <2>2, <2>3
  <2>4. CASE \E drift \in Drifts, power \in Powers :
                 LET center == plan.centers[Len(points) + 1]
                 IN  /\ Readback(center + drift, center)
                     /\ points' = Append(points, [center |-> center, actual |-> center + drift,
                                                   power |-> power])
                     /\ pc' = IF Len(points) + 1 = Len(plan.centers) THEN "stop" ELSE "work"
    <3> DEFINE center == plan.centers[Len(points) + 1]
    <3>1. PICK drift \in Drifts, power \in Powers :
              /\ Readback(center + drift, center)
              /\ points' = Append(points, [center |-> center, actual |-> center + drift,
                                            power |-> power])
              /\ pc' = IF Len(points) + 1 = Len(plan.centers) THEN "stop" ELSE "work"
      BY <2>4
    <3> DEFINE point == [center |-> center, actual |-> center + drift, power |-> power]
    <3>2. Distance(point.actual, center) <= Tolerance
      BY <3>1 DEF Readback
    <3>3. points' = Append(points, point)
      BY <3>1
    <3> HIDE DEF point
    <3>4. /\ Len(points') = Len(points) + 1
          /\ DOMAIN points' = 1..(Len(points) + 1)
          /\ points'[Len(points) + 1] = point
          /\ \A i \in 1..Len(points) : points'[i] = points[i]
      BY <2>2, <3>3
    <3>5. DOMAIN points = 1..Len(points)
      OBVIOUS
    <3>6. \A i \in DOMAIN points' : Distance(points'[i].actual, plan.centers[i]) <= Tolerance
      <4> TAKE i \in DOMAIN points'
      <4>1. i = Len(points) + 1 \/ i \in 1..Len(points)
        BY <2>2, <3>4
      <4> QED BY <3>2, <3>4, <3>5, <4>1
    <3>7. pc' = "stop" => Len(points') = Len(plan.centers)
      BY <3>1, <3>4
    <3>8. pc' = "work" => Len(points') < Len(plan.centers)
      BY <2>2, <3>1, <3>4
    <3>9. pc' \in {"stop", "work"} /\ Len(points') <= Len(plan.centers)
      BY <2>2, <3>1, <3>4
    <3> QED BY <2>1, <2>2, <3>6, <3>7, <3>8, <3>9
  <2> QED BY <1>10, <2>3, <2>4 DEF Point
<1>11. CASE Capture
  BY <1>11 DEF Capture
<1>12. CASE WorkFails
  BY <1>12 DEF WorkFails
<1>13. CASE Stop
  BY <1>13 DEF Stop, StopConfirmed
<1>14. CASE StopLost
  BY <1>14 DEF StopLost
<1>15. CASE Quit
  BY <1>15 DEF Quit
<1>16. CASE Abort
  BY <1>16 DEF Abort, Dropped, Hangup
<1>17. CASE Finish
  BY <1>17 DEF Finish
<1>18. CASE ReportPoints
  BY <1>18 DEF ReportPoints
<1>19. CASE Settle
  BY <1>19 DEF Settle, MayRetry
<1>20. CASE ObserveAfter
  BY <1>20 DEF ObserveAfter
<1>21. CASE Crash
  BY <1>21 DEF Crash
<1>22. CASE Release
  BY <1>22 DEF Release
<1>23. CASE UNCHANGED vars
  BY <1>23 DEF vars
<1> QED BY <1>1, <1>2, <1>3, <1>4, <1>5, <1>6, <1>7, <1>8, <1>9, <1>10, <1>11, <1>12, <1>13,
       <1>14, <1>15, <1>16, <1>17, <1>18, <1>19, <1>20, <1>21, <1>22, <1>23 DEF Next, Runner,
       Execution

\* An inspection at the engine has a profile the policy accepted.
LEMMA InspectionProfile ==
    ASSUME Ordered(action), action.kind = "inspect"
    PROVE  validate_radio_profile(action)
<1>1. \E h \in Healths : validate_action(obs, h, action)
  BY DEF Ordered
<1>2. validate_inspect(obs, action)
  BY <1>1 DEF validate_action
<1> QED BY <1>2 DEF validate_inspect

\* Every step keeps what the report is made from.
LEMMA ReportStep == IInv /\ [Next]_vars => ReportInv'
<1> SUFFICES ASSUME IInv, [Next]_vars PROVE ReportInv'
  OBVIOUS
<1> USE DEF IInv, Types, Flow, ReportInv, IsSweep
<1> USE Constants DEF request, sweep, sdrd, Goto, Failing, Fail, Succeed, GiveUp, GiveBack,
          Restored, Move, Unserved, Phases, Final, Failures, Client, Clients, Before, Observing,
          Planning, Checking, Approving, Executing
<1>0. ASSUME UNCHANGED <<obs, action, plan>>, points' = points \/ points' = <<>>,
             pc' \in Before \cup Client => pc \in Before \cup Client
      PROVE  ReportInv'
  <2>1. validate_radio_profile(action) => validate_radio_profile(action)'
    BY <1>0 DEF validate_radio_profile
  <2>2. DOMAIN <<>> = {}
    OBVIOUS
  <2> QED BY <1>0, <2>1, <2>2
<1>1. CASE Audit
  BY <1>0, <1>1, AuditStep
<1>2. CASE Observe
  <2>1. /\ UNCHANGED <<action, plan, points>> /\ pc = "observe"
        /\ obs' = obs \/ obs' = [obs EXCEPT !.age = 0]
    BY <1>2 DEF Observe
  <2>2. obs' \in Observation
    <3> DEFINE Listed == Seq([id : Nat, center : Nat, bandwidth : Nat, peak : Int, snr : Int,
                              age : Nat])
    <3>1. Observation = [age : Nat, candidates : Listed, sweep : Seq(Nat)] /\ obs \in Observation
      BY <2>1 DEF Observation
    <3> HIDE DEF Listed
    <3> QED BY <2>1, <3>1
  <2>3. plan' = NoPlan
    BY <2>1
  <2> QED BY <2>1, <2>2, <2>3
<1>3. CASE Validate
  BY <1>0, <1>3 DEF Validate
<1>4. CASE Plan
  <2>1. UNCHANGED <<obs, plan, points>> /\ pc = "plan"
    BY <1>4 DEF Plan
  <2> QED BY <2>1
<1>5. CASE Check
  BY <1>0, <1>5 DEF Check
<1>6. CASE Approve
  BY <1>0, <1>6 DEF Approve, Authorization
<1>7. CASE Engine
  <2>1. UNCHANGED <<obs, action, points>> /\ pc = "engine" /\ points = <<>>
    BY <1>7 DEF Engine
  <2>2. action.kind = "inspect" => validate_radio_profile(action)'
    BY <2>1, InspectionProfile DEF PolicyInv, validate_radio_profile
  <2> QED BY <2>1, <2>2
<1>8. CASE Connect
  BY <1>0, <1>8 DEF Connect
<1>9. CASE Start
  BY <1>0, <1>9 DEF Start
<1>10. CASE Point
  <2>1. pc = "work" /\ IsSweep /\ UNCHANGED <<obs, action, plan>>
    BY <1>10 DEF Point
  <2>2. CASE points' = <<>>
    BY <1>0, <2>1, <2>2
  <2>3. CASE points' # <<>>
    <3>1. PICK drift \in Drifts, power \in Powers :
              points' = Append(points, [center |-> plan.centers[Len(points) + 1],
                                        actual |-> plan.centers[Len(points) + 1] + drift,
                                        power |-> power])
      BY <1>10, <2>3 DEF Point
    <3> DEFINE point == [center |-> plan.centers[Len(points) + 1],
                         actual |-> plan.centers[Len(points) + 1] + drift, power |-> power]
    <3>2. point.center = plan.centers[Len(points) + 1] /\ points' = Append(points, point)
      BY <3>1
    <3> HIDE DEF point
    <3>3. /\ Len(points) \in Nat /\ DOMAIN points = 1..Len(points)
          /\ DOMAIN points' = 1..(Len(points) + 1)
          /\ points'[Len(points) + 1] = point
          /\ \A i \in 1..Len(points) : points'[i] = points[i]
      BY <3>2
    <3>4. \A i \in DOMAIN points' : points'[i].center = plan.centers[i]
      <4> TAKE i \in DOMAIN points'
      <4>1. i = Len(points) + 1 \/ i \in 1..Len(points)
        BY <3>3
      <4> QED BY <3>2, <3>3, <4>1
    <3> QED BY <2>1, <3>4 DEF validate_radio_profile
  <2> QED BY <2>2, <2>3
<1>11. CASE Capture
  BY <1>0, <1>11 DEF Capture
<1>12. CASE WorkFails
  BY <1>0, <1>12 DEF WorkFails
<1>13. CASE Stop
  BY <1>0, <1>13 DEF Stop, StopConfirmed
<1>14. CASE StopLost
  BY <1>0, <1>14 DEF StopLost
<1>15. CASE Quit
  BY <1>0, <1>15 DEF Quit
<1>16. CASE Abort
  BY <1>0, <1>16 DEF Abort
<1>17. CASE Finish
  BY <1>0, <1>17 DEF Finish
<1>18. CASE ReportPoints
  BY <1>0, <1>18 DEF ReportPoints
<1>19. CASE Settle
  BY <1>0, <1>19 DEF Settle
<1>20. CASE ObserveAfter
  <2>1. /\ UNCHANGED <<action, plan, points>> /\ pc = "observe_after"
        /\ pc' \in {"execution_observation", "execution_failed", "end"}
    BY <1>20 DEF ObserveAfter
  <2> QED BY <2>1 DEF validate_radio_profile
<1>21. CASE Crash
  BY <1>0, <1>21 DEF Crash
<1>22. CASE Release
  BY <1>0, <1>22 DEF Release
<1>23. CASE UNCHANGED vars
  BY <1>0, <1>23 DEF vars
<1> QED BY <1>1, <1>2, <1>3, <1>4, <1>5, <1>6, <1>7, <1>8, <1>9, <1>10, <1>11, <1>12, <1>13,
       <1>14, <1>15, <1>16, <1>17, <1>18, <1>19, <1>20, <1>21, <1>22, <1>23 DEF Next, Runner,
       Execution

\* A capture gives up on a busy sdrd with the radio already given back.
LEMMA BusyStep == IInv /\ [Next]_vars => BusyInv'
<1> SUFFICES ASSUME IInv, [Next]_vars PROVE BusyInv'
  OBVIOUS
<1> USE DEF IInv, Types, BusyInv
<1> USE Constants DEF request, sweep, sdrd, Goto, Failing, Fail, Succeed, GiveUp, GiveBack,
          Restored, Move, Unserved, Phases, Final, Failures, Client, Clients, Before, Observing,
          Planning, Checking, Approving, Executing
<1>1. CASE Audit
  BY <1>1, AuditStep
<1>2. CASE Observe
  BY <1>2 DEF Observe
<1>3. CASE Validate
  BY <1>3 DEF Validate
<1>4. CASE Plan
  BY <1>4 DEF Plan
<1>5. CASE Check
  BY <1>5 DEF Check
<1>6. CASE Approve
  BY <1>6 DEF Approve, Authorization
<1>7. CASE Engine
  BY <1>7 DEF Engine
<1>8. CASE Connect
  BY <1>8 DEF Connect
<1>9. CASE Start
  BY <1>9 DEF Start
<1>10. CASE Point
  BY <1>10 DEF Point
<1>11. CASE Capture
  BY <1>11 DEF Capture
<1>12. CASE WorkFails
  BY <1>12 DEF WorkFails
<1>13. CASE Stop
  BY <1>13 DEF Stop, StopConfirmed
<1>14. CASE StopLost
  BY <1>14 DEF StopLost
<1>15. CASE Quit
  BY <1>15 DEF Quit
<1>16. CASE Abort
  BY <1>16 DEF Abort, Dropped, Hangup
<1>17. CASE Finish
  BY <1>17 DEF Finish
<1>18. CASE ReportPoints
  BY <1>18 DEF ReportPoints
<1>19. CASE Settle
  BY <1>19 DEF Settle, MayRetry, RadioInv, Flow
<1>20. CASE ObserveAfter
  BY <1>20 DEF ObserveAfter
<1>21. CASE Crash
  BY <1>21 DEF Crash
<1>22. CASE Release
  BY <1>22 DEF Release
<1>23. CASE UNCHANGED vars
  BY <1>23 DEF vars
<1> QED BY <1>1, <1>2, <1>3, <1>4, <1>5, <1>6, <1>7, <1>8, <1>9, <1>10, <1>11, <1>12, <1>13,
       <1>14, <1>15, <1>16, <1>17, <1>18, <1>19, <1>20, <1>21, <1>22, <1>23 DEF Next, Runner,
       Execution

\* The process starts with the invariant.
LEMMA InitInv == Init => IInv
<1> SUFFICES ASSUME Init PROVE IInv
  OBVIOUS
<1> USE Constants DEF Init
<1>1. Types
  <2>1. points \in Seq(Points) /\ log \in Seq(Phases)
    OBVIOUS
  <2> QED BY <2>1 DEF Types, Before, Observing, Executing, Client, Clients, Final
<1>2. Flow
  BY DEF Flow, IsSweep, Before, Observing, Planning, Checking, Approving, Client
<1>3. RadioInv
  BY DEF RadioInv
<1>4. FileInv
  BY DEF FileInv
<1>5. AuditInv
  BY DEF AuditInv, Observing, Planning, Checking, Approving, Executing, Client
<1>6. PolicyInv
  BY DEF PolicyInv, Observing, Planning, Checking, Approving
<1>7. PointsInv
  <2>1. plan = NoPlan /\ points = <<>> /\ pc \in {"observe", "engine"}
    OBVIOUS
  <2>2. Len(points) = 0 /\ Len(plan.centers) = 0 /\ DOMAIN points = {}
    BY <2>1 DEF NoPlan
  <2> QED BY <2>1, <2>2 DEF PointsInv, Client
<1>8. ReportInv
  <2>1. obs \in Observation /\ plan = NoPlan /\ DOMAIN points = {}
    BY ControllerAssumption
  <2> QED BY <2>1 DEF ReportInv
<1>9. BusyInv
  BY DEF BusyInv
<1> QED BY <1>1, <1>2, <1>3, <1>4, <1>5, <1>6, <1>7, <1>8, <1>9 DEF IInv

\* Every step is one that RxOwnership allows, or changes nothing it sees.
LEMMA PromiseStep == IInv /\ [Next]_vars => [Radio!Next]_(Radio!vars)
<1> SUFFICES ASSUME IInv, [Next]_vars PROVE [Radio!Next]_(Radio!vars)
  OBVIOUS
<1> USE DEF IInv, Types, Flow, RadioInv
<1> USE Constants DEF request, sweep, sdrd, Goto, Failing, Fail, Succeed, GiveUp, GiveBack,
          Restored, Move, Unserved, Phases, Final, Failures, Client, Clients, Before, Observing,
          Planning, Checking, Approving, Executing
<1> USE DEF Radio!Next, Radio!Acquire, Radio!Tune, Radio!Release, Radio!Move, Radio!vars
<1>1. CASE Audit
  BY <1>1, AuditStep
<1>2. CASE Observe
  BY <1>2 DEF Observe
<1>3. CASE Validate
  BY <1>3 DEF Validate
<1>4. CASE Plan
  BY <1>4 DEF Plan
<1>5. CASE Check
  BY <1>5 DEF Check
<1>6. CASE Approve
  BY <1>6 DEF Approve, Authorization
<1>7. CASE Engine
  BY <1>7 DEF Engine
<1>8. CASE Connect
  BY <1>8 DEF Connect
<1>9. CASE Start
  BY <1>9 DEF Start
<1>10. CASE Point
  BY <1>10 DEF Point
<1>11. CASE Capture
  BY <1>11 DEF Capture
<1>12. CASE WorkFails
  BY <1>12 DEF WorkFails
<1>13. CASE Stop
  BY <1>13 DEF Stop, StopConfirmed
<1>14. CASE StopLost
  BY <1>14 DEF StopLost
<1>15. CASE Quit
  BY <1>15 DEF Quit
<1>16. CASE Abort
  BY <1>16 DEF Abort, Dropped, Hangup
<1>17. CASE Finish
  BY <1>17 DEF Finish
<1>18. CASE ReportPoints
  BY <1>18 DEF ReportPoints
<1>19. CASE Settle
  BY <1>19 DEF Settle, MayRetry
<1>20. CASE ObserveAfter
  BY <1>20 DEF ObserveAfter
<1>21. CASE Crash
  BY <1>21 DEF Crash
<1>22. CASE Release
  BY <1>22 DEF Release
<1>23. CASE UNCHANGED vars
  BY <1>23 DEF vars
<1> QED BY <1>1, <1>2, <1>3, <1>4, <1>5, <1>6, <1>7, <1>8, <1>9, <1>10, <1>11, <1>12, <1>13,
       <1>14, <1>15, <1>16, <1>17, <1>18, <1>19, <1>20, <1>21, <1>22, <1>23 DEF Next, Runner,
       Execution

-----------------------------------------------------------------------------
(* The theorems.                                                           *)

\* The invariant holds throughout.
THEOREM Inductive == Spec => []IInv
<1>1. IInv /\ [Next]_vars => IInv'
  BY TypesStep, FlowStep, RadioStep, FileStep, AuditLogStep, PolicyStep, PointsStep,
     ReportStep, BusyStep
     DEF IInv
<1> QED BY InitInv, <1>1, PTL DEF Spec

\* run_once takes the radio only when the plan and its authorization are in
\* the audit log, and with the operator's approval where it is required.
THEOREM AuditedBeforeAction == Spec => []AuditBeforeAction
<1>1. IInv => AuditBeforeAction
  BY PrefixOfLog DEF IInv, AuditInv, AuditBeforeAction, Authorized
<1> QED BY Inductive, <1>1, PTL

\* execute_capture and run_sdrd_points report success only with the radio
\* given back at home; observe_after_worker_release gives up on a busy sdrd
\* only after its last retry, with the radio given back at home as well.
THEOREM OutcomesTrue == Spec => []OutcomeTrue
<1>1. IInv => OutcomeTrue
  <2> SUFFICES ASSUME IInv PROVE OutcomeTrue
    OBVIOUS
  <2>1. Len(plan.centers) <= MAX_POINTS
    <3>1. CASE plan = NoPlan
      <4>1. Len(plan.centers) = 0
        BY <3>1 DEF NoPlan
      <4> QED BY <4>1, Constants
    <3>2. CASE plan # NoPlan
      <4>1. validate_plan(plan)
        BY <3>2 DEF IInv, PointsInv
      <4> QED BY <4>1, Constants DEF validate_plan
    <3> QED BY <3>1, <3>2
  <2>2. TypeOK
    BY <2>1 DEF IInv, Types, Flow, RadioInv, PointsInv, TypeOK, Before, Executing, Observing,
                Planning, Checking, Approving, Phases, Final, Failures
  <2>3. ExecutedMeansRestored
    BY DEF IInv, Types, Flow, RadioInv, ExecutedMeansRestored, Clients
  <2>4. BusyIsRetried
    BY DEF IInv, BusyInv, BusyIsRetried
  <2> QED BY <2>2, <2>3, <2>4 DEF OutcomeTrue
<1> QED BY Inductive, <1>1, PTL

\* run_sdrd_points leaves no half of a SigMF pair unless it is killed, a whole
\* one only with the radio given back at home, and always one for a sweep the
\* console reports as done.  A sweep that fails after finish keeps its pair.
THEOREM DatasetSound == Spec => []DatasetMatches
<1>1. IInv => DatasetMatches
  BY DEF IInv, Flow, FileInv, DatasetMatches
<1> QED BY Inductive, <1>1, PTL

\* validate_plan refuses what validate_action or validate_initial_survey
\* accepted for its dwell, or for a timeout longer than theirs, only.
THEOREM PolicyAgrees == Spec => []PolicyWithinEngine
<1>1. IInv => PolicyWithinEngine
  <2> SUFFICES ASSUME IInv, pc = "engine", IsSweep PROVE PolicyWithinEngine
    BY DEF PolicyWithinEngine
  <2>1. Ordered(action) /\ action \in Proposals \cup Orders
    BY DEF IInv, Flow, PolicyInv, Client
  <2> QED BY <2>1, EngineVerdict DEF PolicyWithinEngine
<1> QED BY Inductive, <1>1, PTL

\* A finished survey has a point whose window holds it for every frequency
\* of the band.
THEOREM BandCovered == Spec => []SurveyCovers
<1>1. IInv => SurveyCovers
  <2> SUFFICES ASSUME IInv, pc = "report", action.kind = "survey",
                      NEW f \in action.start..action.stop
               PROVE  \E i \in DOMAIN points : 2 * Distance(points[i].actual, f) <= action.bandwidth
    BY DEF SurveyCovers, Complete
  <2> DEFINE actual == [i \in DOMAIN points |-> points[i].actual]
  <2>1. IsSweep
    BY DEF IsSweep
  <2>2. /\ action \in Proposals \cup Orders /\ plan = SweepPlan(action, PointTimeout) /\ validate_plan(plan)
        /\ Len(points) = Len(plan.centers)
        /\ \A i \in DOMAIN points : Distance(points[i].actual, plan.centers[i]) <= Tolerance
    BY <2>1 DEF IInv, PointsInv, Client
  <2>3. /\ plan.centers \in Seq(Int) /\ plan.bandwidth = action.bandwidth
        /\ plan.centers[1] = action.start /\ plan.centers[Len(plan.centers)] = action.stop
    BY <2>1, <2>2, PlanOf DEF IsSweep
  <2>4. DOMAIN points = 1..Len(plan.centers) /\ \A i \in DOMAIN points : points[i].actual \in Int
    <3>1. points \in Seq(Points)
      BY DEF IInv, Types
    <3>2. \A i \in DOMAIN points : points[i] \in Points
      BY <3>1
    <3> QED BY <2>2, <3>1, <3>2 DEF Points
  <2>5. \A i \in 1..Len(plan.centers) :
            actual[i] \in Int /\ Distance(actual[i], plan.centers[i]) <= Tolerance
    BY <2>2, <2>4
  <2>6. f \in plan.centers[1]..plan.centers[Len(plan.centers)]
    BY <2>3
  <2> HIDE DEF actual
  <2>7. \E i \in 1..Len(plan.centers) : 2 * Distance(actual[i], f) <= plan.bandwidth
    BY <2>2, <2>3, <2>5, <2>6, WindowsCover
  <2> QED BY <2>3, <2>4, <2>7 DEF actual
<1> QED BY Inductive, <1>1, PTL

\* The points of a finished sweep are those of its plan, in its order.
LEMMA SweepTaken ==
    ASSUME IInv, pc = "report", IsSweep
    PROVE  /\ Taken(plan, points)
           /\ action \in Proposals \cup Orders /\ plan.bandwidth = action.bandwidth
<1>1. /\ plan # NoPlan /\ action \in Proposals \cup Orders
      /\ plan = SweepPlan(action, PointTimeout) /\ validate_plan(plan) /\ Len(points) = Len(plan.centers)
      /\ \A i \in DOMAIN points : Distance(points[i].actual, plan.centers[i]) <= Tolerance
  BY DEF IInv, PointsInv, Client
<1>2. /\ plan.centers \in Seq(Int) /\ Len(plan.centers) \in 1..MAX_POINTS
      /\ plan.bandwidth = action.bandwidth
  BY <1>1, PlanOf DEF IsSweep
<1>3. \A i \in DOMAIN points : points[i].center = plan.centers[i]
  BY DEF IInv, ReportInv
<1>4. /\ Len(points) \in Nat /\ DOMAIN points = 1..Len(points)
      /\ \A i \in 1..Len(points) :
             points[i].power \in Int /\ points[i].actual \in Int /\ points[i].center \in Int
  <2>1. points \in Seq(Points)
    BY DEF IInv, Types
  <2>2. \A i \in 1..Len(points) : points[i] \in Points
    BY <2>1
  <2> QED BY <2>1, <2>2 DEF Points
<1>5. \A i, j \in 1..Len(points) : i < j => points[i].center < points[j].center
  <2> DEFINE centers == plan.centers
             N == Len(points)
  <2>1. /\ Len(centers) = N /\ N \in Nat /\ Ascending(centers)
        /\ \A i \in 1..N : centers[i] \in Int
    BY <1>1, <1>2, <1>4 DEF validate_plan
  <2> HIDE DEF centers, N
  <2>2. \A i, j \in 1..N : i < j => centers[i] < centers[j]
    BY <2>1, AscendingPairs
  <2> QED BY <1>3, <1>4, <2>2 DEF centers, N
<1>6. plan.bandwidth \in MinBandwidth..MaxBandwidth
  BY <1>1 DEF validate_plan
<1>7. \A i \in 1..Len(points) : Distance(points[i].actual, points[i].center) <= Tolerance
  BY <1>1, <1>3, <1>4
<1>8. Taken(plan, points)
  BY <1>1, <1>2, <1>4, <1>5, <1>6, <1>7, Zenon DEF Taken
<1> QED BY <1>1, <1>2, <1>8

\* merge_candidates of any survey: its candidates are the first maximal runs
\* of points above the median's floor, each with the band of its run.
THEOREM CandidatesAreRuns == Spec => []CandidatesRight
<1>1. IInv => CandidatesRight
  <2> SUFFICES ASSUME IInv, Complete("survey") PROVE CandidatesRight
    BY DEF CandidatesRight
  <2>1. Taken(plan, points)
    BY SweepTaken DEF Complete, IsSweep
  <2> QED BY <2>1, CandidatesSound, Zenon DEF CandidatesRight
<1> QED BY Inductive, <1>1, PTL

\* The web console stores the plot of a survey within the limits, and the
\* policy refuses the request made of it exactly when its bandwidth limit is
\* below the planner's window and below the width of a candidate; an inspected
\* candidate is one the policy accepts.
THEOREM ReportsUsable == Spec => []ReportUsable
<1>1. ASSUME IInv, Complete("survey"), validate_limits,
             Ascending(planner_observation(Report(plan, points), 0).sweep),
             \A i \in DOMAIN points : Frequency(points[i].actual)
      PROVE  /\ validate_sweep_plot(Report(plan, points))
             /\ validate_request(planner_observation(Report(plan, points), 0)) <=>
                    \/ MAX_PLANNER_CANDIDATE_BANDWIDTH_HZ <= Limits.max_bandwidth_hz
                    \/ \A n \in DOMAIN Report(plan, points).candidates :
                           Report(plan, points).candidates[n].bandwidth
                               <= Limits.max_bandwidth_hz
  <2>1. Taken(plan, points)
    BY <1>1, SweepTaken DEF Complete, IsSweep
  <2>2. /\ validate_sweep_plot(Report(plan, points))
        /\ validate_request(planner_observation(Report(plan, points), 0)) <=>
               \A n \in DOMAIN Report(plan, points).candidates :
                   Shown(Report(plan, points).candidates[n])
    BY <1>1, <2>1, PlotUsable, Zenon
  <2> QED BY <2>2, Zenon DEF Shown
<1>2. ASSUME IInv, Complete("inspect"), Known(obs, action.candidate),
             Frequency(points[1].actual)
      PROVE  validate_candidate(find_candidate(
                 planner_inspection_observation(Report(plan, points), obs, action.candidate,
                                                Elapsed),
                 action.candidate))
  <2>1. pc = "report" /\ IsSweep /\ action.kind = "inspect"
    BY <1>2 DEF Complete, IsSweep
  <2>2. plan # NoPlan /\ obs \in Observation
    BY <1>2, <2>1 DEF IInv, PointsInv, ReportInv, Client
  <2>3. validate_radio_profile(action) /\ plan.bandwidth = action.bandwidth
    BY <1>2, <2>1, <2>2, SweepTaken DEF IInv, ReportInv
  <2>4. MinBandwidth \in Nat /\ MinBandwidth >= 1 /\ Limits.max_bandwidth_hz \in Nat
    <3>1. MinBandwidth \in Nat /\ Tolerance \in Nat /\ Tolerance # 0
      BY SurveyAssumption
    <3>2. MinBandwidth >= 10 * Tolerance /\ Limits.max_bandwidth_hz \in Nat
      BY SurveyAssumption
    <3> QED BY <3>1, <3>2
  <2>5. plan.bandwidth \in 1..Limits.max_bandwidth_hz
    BY <2>3, <2>4 DEF validate_radio_profile
  <2>6. Elapsed \in Nat
    BY ControllerAssumption
  <2> QED BY <1>2, <2>2, <2>5, <2>6, InspectionUsable, Zenon DEF Observation
<1>3. IInv => ReportUsable
  BY <1>1, <1>2, Zenon DEF ReportUsable
<1> QED BY Inductive, <1>3, PTL

\* What the clients see sdrd do is what RxOwnership promises of it.
THEOREM RadioRespected == Spec => RadioAsPromised
<1> QED BY Inductive, PromiseStep, PTL DEF Spec, RadioAsPromised

=============================================================================
