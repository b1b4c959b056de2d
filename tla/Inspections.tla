---------------------------- MODULE Inspections -----------------------------
(***************************************************************************)
(* The observation the console carries from one planning turn to the next  *)
(* (controller/src/bin/sdr-agent.rs submit and poll_sweep): a survey       *)
(* replaces it, an inspection updates the candidate it looked at and makes *)
(* the others older, and the policy validates it at the next submit, whose *)
(* error ends the console.  Everything else of a turn is in modules        *)
(* Console and Controller.                                                 *)
(***************************************************************************)
EXTENDS Survey

CONSTANTS
    Reports,   \* what a survey may report
    Elapsed,   \* how long an inspection may take, in ms
    MaxTurns   \* bound: planning turns

VARIABLES
    observation,  \* template.observation
    turn,         \* "idle", "planned" or "ended"
    turns         \* planning turns so far

vars == <<observation, turn, turns>>

Init ==
    /\ \E report \in Reports : observation = planner_observation(report, 0)
    /\ turn = "idle"
    /\ turns = 0

\* refresh_sdr_health sets the age of the observation, not of its
\* candidates; an observation the policy refuses ends the console.
submit ==
    /\ turn = "idle"
    /\ turns < MaxTurns
    /\ observation' = [observation EXCEPT !.age = 0]
    /\ turn' = IF validate_request(observation') THEN "planned" ELSE "ended"
    /\ turns' = turns + 1

\* poll_sweep after a survey.
Surveyed ==
    /\ turn = "planned"
    /\ \E report \in Reports : observation' = planner_observation(report, 0)
    /\ turn' = "idle"
    /\ UNCHANGED turns

\* poll_sweep after the inspection of a candidate, at its centre.
Inspected ==
    /\ turn = "planned"
    /\ \E n \in DOMAIN observation.candidates, elapsed \in Elapsed :
           LET c == observation.candidates[n]
               report == [plan |-> [bandwidth |-> c.bandwidth],
                          points |-> <<[actual |-> c.center, power |-> c.peak]>>]
           IN  observation' =
                   planner_inspection_observation(report, observation, c.id, elapsed)
    /\ turn' = "idle"
    /\ UNCHANGED turns

Next == submit \/ Surveyed \/ Inspected

Spec == Init /\ [][Next]_vars

-----------------------------------------------------------------------------
\* "This compact observation is available to the next real Planner turn"
\* (docs/SDR_AGENT_CANDIDATE_INSPECTION_VALIDATION_2026-09-01.md): whatever
\* is surveyed and inspected, the next submit is not refused.
ObservationUsable == turn # "ended"

=============================================================================
