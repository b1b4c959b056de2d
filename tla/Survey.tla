------------------------------- MODULE Survey -------------------------------
(***************************************************************************)
(* The arithmetic of a survey: the centre frequencies a band is expanded   *)
(* to, the limits the policy, the sweep engine and the web console each    *)
(* put on a survey, the candidates merged from its points, and the         *)
(* observation the next planning request carries (controller/src/sweep.rs, *)
(* policy.rs, web-console/src/main.rs).                                    *)
(*                                                                         *)
(* Frequencies, powers and times are integers in units of the instance.    *)
(* Labels, gains and finiteness of the floats are not modelled: the code   *)
(* builds the labels itself, and every power is a finite dBFS value.       *)
(***************************************************************************)
EXTENDS Integers, Sequences, FiniteSets, SequencesExt, FiniteSetsExt

CONSTANTS
    MinHz, MaxHz,          \* the radio: 70 MHz to 6 GHz
    MinBandwidth, MaxBandwidth,  \* 200 kHz to 56 MHz
    MinRate, MaxRate,      \* 2.1 MS/s to 30.72 MS/s
    Limits,                \* SafetyLimits of the request
    Tolerance,             \* 2 Hz: how far the tuner may read back
    Threshold,             \* detection_threshold_db, 12 dB
    MAX_POINTS,            \* 768, the same in all three places
    MAX_CANDIDATES,        \* 32
    MAX_DURATION_MS,       \* 300 s, the same in all three places
    MAX_SETTLE_MS,         \* 1 s: the engine's settle, an inspection's dwell
    MAX_DWELL_MS,          \* 60 s: the largest limit a request may set
    MAX_POINT_TIMEOUT_MS,  \* 5 s: the engine's largest timeout of a point
    SURVEY_POINT_TIMEOUT_MS,            \* 250 ms: the policy's and the console's
    SURVEY_FRAME_BYTES,                 \* 4096 samples of 4 bytes
    MAX_PLANNER_CANDIDATE_BANDWIDTH_HZ  \* 10 MHz

\* The fields of a SafetyLimits are u64.  The last three lines are what the
\* code leaves to its constants: the policy's timeout is one the engine takes,
\* one point is never over the time of a survey, and a window dwarfs the
\* read-back error.
ASSUME SurveyAssumption ==
    /\ {MinHz, MaxHz, MinBandwidth, MaxBandwidth, MinRate, MaxRate} \subseteq Nat
    /\ MAX_DWELL_MS \in Nat
    /\ {Tolerance, MAX_PLANNER_CANDIDATE_BANDWIDTH_HZ} \subseteq Nat \ {0}
    /\ {MAX_POINTS, MAX_CANDIDATES, MAX_DURATION_MS, MAX_SETTLE_MS} \subseteq Nat \ {0}
    /\ {Threshold, MAX_POINT_TIMEOUT_MS, SURVEY_FRAME_BYTES} \subseteq Nat \ {0}
    /\ Limits \in [min_freq_hz : Nat, max_freq_hz : Nat, max_span_hz : Nat,
                   max_bandwidth_hz : Nat, max_dwell_ms : Nat, max_iq_samples : Nat,
                   max_iq_bytes : Nat, auto_approve_iq_bytes : Nat,
                   max_observation_age_ms : Nat]
    /\ SURVEY_POINT_TIMEOUT_MS \in 1..MAX_POINT_TIMEOUT_MS
    /\ MAX_SETTLE_MS + MAX_POINT_TIMEOUT_MS <= MAX_DURATION_MS
    /\ MinBandwidth >= 10 * Tolerance

Distance(a, b) == IF a < b THEN b - a ELSE a - b

\* The least n with nothing left over, `(a + b - 1) / b`.
CeilDiv(a, b) == (a + b - 1) \div b

-----------------------------------------------------------------------------
(* The sweep engine's plan.                                                *)

\* Mutant: the loop ends before a step that would pass the end of the band.
expand_centers_short(start, stop, step) ==
    IF start > stop \/ step = 0 \/ (stop - start) \div step > MAX_POINTS
    THEN <<>>
    ELSE [i \in 1..((stop - start) \div step + 1) |-> start + (i - 1) * step]
\* Refusals are the empty sequence.  The loop gives up after it has pushed
\* MAX_POINTS + 1 centres, unless the last of them is the end of the band.
expand_centers(start, stop, step) ==
    LET center[i \in 0..MAX_POINTS] ==
            IF i = 0 THEN start ELSE Min({center[i - 1] + step, stop})
        ends == {i \in 0..MAX_POINTS : center[i] = stop}
    IN  IF start > stop \/ step = 0 \/ ends = {}
        THEN <<>>
        ELSE [i \in 1..(Min(ends) + 1) |-> center[i - 1]]

Ascending(s) == \A i \in 1..(Len(s) - 1) : s[i] < s[i + 1]

\* A plan is [centers, rate, bandwidth, settle, timeout].
validate_plan(p) ==
    /\ Len(p.centers) \in 1..MAX_POINTS
    /\ Ascending(p.centers)
    /\ \A i \in DOMAIN p.centers : p.centers[i] \in MinHz..MaxHz
    /\ p.rate \in MinRate..MaxRate
    /\ p.bandwidth \in MinBandwidth..MaxBandwidth
    /\ p.bandwidth <= p.rate
    /\ \A i \in 1..(Len(p.centers) - 1) :
           p.centers[i + 1] - p.centers[i] <= (p.bandwidth * 4) \div 5
    /\ p.settle <= MAX_SETTLE_MS
    /\ p.timeout \in 1..MAX_POINT_TIMEOUT_MS
    /\ (p.settle + p.timeout) * Len(p.centers) <= MAX_DURATION_MS

\* What the runner and the console make of an action the policy accepted, each
\* with its own timeout of a point.
SweepPlan(a, point_timeout_ms) ==
    [centers   |-> IF a.kind = "survey" THEN expand_centers(a.start, a.stop, a.step)
                                        ELSE <<a.center>>,
     rate      |-> a.rate,
     bandwidth |-> a.bandwidth,
     settle    |-> a.dwell,
     timeout   |-> point_timeout_ms]

-----------------------------------------------------------------------------
(* The result: points [center, actual, power].                             *)

\* ordered: the sequence numbers of the captures increase.
validate_points(p, points, ordered) ==
    /\ Len(points) = Len(p.centers)
    /\ \A i \in DOMAIN points :
           /\ points[i].center = p.centers[i]
           /\ Distance(points[i].actual, p.centers[i]) <= Tolerance
    /\ ordered

\* The element at Len/2, counted from zero, of the sorted powers: the upper
\* of the two middle ones when their number is even.
median_power_dbfs(points) ==
    LET Below(x) == Cardinality({i \in DOMAIN points : points[i].power < x})
        UpTo(x)  == Cardinality({i \in DOMAIN points : points[i].power <= x})
        middle   == Len(points) \div 2
    IN  CHOOSE x \in {points[i].power : i \in DOMAIN points} :
            Below(x) <= middle /\ middle < UpTo(x)

Active(points, noise) == {i \in DOMAIN points : points[i].power >= noise + Threshold}

\* Mutant: a single point below the floor does not end a range.
ActiveRanges_bridged(points, noise) ==
    LET active == Active(points, noise)
        ranges[i \in 0..Len(points)] ==
            IF i = 0 THEN <<>>
            ELSE LET done == ranges[i - 1]
                 IN  IF i \notin active THEN done
                     ELSE IF {i - 1, i - 2} \cap active # {}
                     THEN [done EXCEPT ![Len(done)][2] = i]
                     ELSE Append(done, <<i, i>>)
    IN  ranges[Len(points)]
\* One pass over the points: extend the open range or begin another.
ActiveRanges(points, noise) ==
    LET active == Active(points, noise)
        ranges[i \in 0..Len(points)] ==
            IF i = 0 THEN <<>>
            ELSE LET done == ranges[i - 1]
                 IN  IF i \notin active THEN done
                     ELSE IF i - 1 \in active
                     THEN [done EXCEPT ![Len(done)][2] = i]
                     ELSE Append(done, <<i, i>>)
    IN  ranges[Len(points)]

\* What the pass should find: the maximal runs of active points, as first
\* and last index, and the n-th of them in order.
Runs(points, active) ==
    {r \in (DOMAIN points) \X (DOMAIN points) :
        /\ r[1] <= r[2] /\ r[1]..r[2] \subseteq active
        /\ r[1] - 1 \notin active /\ r[2] + 1 \notin active}
Nth(runs, n) == CHOOSE r \in runs : Cardinality({q \in runs : q[1] <= r[1]}) = n

\* max_by returns the last of equal maxima.
Peak(points, range) ==
    LET indices == range[1]..range[2]
    IN  Max({i \in indices : \A j \in indices : points[j].power <= points[i].power})

merge_candidates(p, points, noise) ==
    LET ranges == ActiveRanges(points, noise)
        edge   == p.bandwidth \div 2
        Candidate(n) ==
            LET range == ranges[n]
                peak  == points[Peak(points, range)]
                start == Max({points[range[1]].actual - edge, 0})
                stop  == points[range[2]].actual + edge
            IN  [id |-> n, start |-> start, stop |-> stop, center |-> peak.actual,
                 bandwidth |-> stop - start, peak |-> peak.power,
                 snr |-> peak.power - noise, count |-> range[2] - range[1] + 1]
    IN  [n \in 1..Min({Len(ranges), MAX_CANDIDATES}) |-> Candidate(n)]

\* SweepEngine::run after the backend returned its points.
Report(p, points) ==
    LET noise == median_power_dbfs(points)
    IN  [plan |-> p, points |-> points, noise |-> noise,
         candidates |-> merge_candidates(p, points, noise)]

-----------------------------------------------------------------------------
(* The observation of the next planning request.                           *)

\* Mutant: the whole run of points.
Window_whole(c) == c.bandwidth
\* What the planner is shown of a candidate, cut for the policy.
Window(c) == Min({c.bandwidth, MAX_PLANNER_CANDIDATE_BANDWIDTH_HZ})

\* age_ms is the caller's.
planner_observation(report, age) ==
    [age |-> age,
     candidates |->
         [n \in DOMAIN report.candidates |->
             LET c == report.candidates[n]
             IN  [id |-> c.id, center |-> c.center, peak |-> c.peak, snr |-> c.snr, age |-> age,
                  bandwidth |-> Window(c)]],
     sweep |-> [i \in DOMAIN report.points |-> report.points[i].actual]]

Known(obs, id) == \E n \in DOMAIN obs.candidates : obs.candidates[n].id = id

\* Of a report with one point, for a candidate that is known.  Every other
\* candidate keeps its place and grows older by the time of the inspection.
planner_inspection_observation(report, previous, id, elapsed) ==
    LET point == report.points[1]
        Aged(c) == [c EXCEPT !.age = @ + elapsed]
        Inspected(c) ==
            [c EXCEPT !.center = point.actual, !.bandwidth = report.plan.bandwidth,
                      !.peak = point.power, !.age = 0,
                      !.snr = Max({point.power - (c.peak - c.snr), 0})]
    IN  [previous EXCEPT
            !.age = 0,
            !.candidates = [n \in DOMAIN @ |-> IF @[n].id = id THEN Inspected(@[n])
                                                               ELSE Aged(@[n])]]

-----------------------------------------------------------------------------
(* The policy.                                                             *)

Frequency(f) == f \in Limits.min_freq_hz..Limits.max_freq_hz

validate_limits ==
    /\ MinHz <= Limits.min_freq_hz /\ Limits.min_freq_hz < Limits.max_freq_hz
    /\ Limits.max_freq_hz <= MaxHz
    /\ Limits.max_span_hz \in 1..(Limits.max_freq_hz - Limits.min_freq_hz)
    /\ Limits.max_bandwidth_hz \in MinBandwidth..MaxBandwidth
    /\ Limits.max_dwell_ms \in 1..MAX_DWELL_MS
    /\ Limits.max_iq_samples > 0 /\ Limits.max_iq_bytes > 0
    /\ Limits.auto_approve_iq_bytes <= Limits.max_iq_bytes
    /\ Limits.max_observation_age_ms > 0

validate_candidate(c) ==
    /\ Frequency(c.center)
    /\ c.bandwidth \in 1..Limits.max_bandwidth_hz
    /\ c.age <= Limits.max_observation_age_ms

validate_request(obs) ==
    /\ validate_limits
    /\ obs.age <= Limits.max_observation_age_ms
    /\ Len(obs.candidates) <= MAX_CANDIDATES
    /\ \A n \in DOMAIN obs.candidates : validate_candidate(obs.candidates[n])
    /\ \A m, n \in DOMAIN obs.candidates :
           obs.candidates[m].id = obs.candidates[n].id => m = n
    /\ Len(obs.sweep) <= MAX_POINTS
    /\ \A i \in DOMAIN obs.sweep : Frequency(obs.sweep[i])
    /\ Ascending(obs.sweep)

validate_radio_profile(a) ==
    /\ a.rate \in MinRate..MaxRate
    /\ a.bandwidth \in MinBandwidth..Limits.max_bandwidth_hz
    /\ a.bandwidth <= a.rate

\* Mutant: the end of the band is not counted when the steps do not meet it.
point_count_floor(a) == (a.stop - a.start) \div a.step + 1
point_count(a) == CeilDiv(a.stop - a.start, a.step) + 1

validate_survey(a) ==
    /\ Frequency(a.start) /\ Frequency(a.stop)
    /\ a.start < a.stop /\ a.stop - a.start <= Limits.max_span_hz
    /\ a.step \in 1..(a.stop - a.start)
    /\ validate_radio_profile(a)
    /\ a.step <= (a.bandwidth * 4) \div 5
    /\ a.dwell \in 1..Limits.max_dwell_ms
    /\ point_count(a) <= MAX_POINTS
    /\ point_count(a) * (a.dwell + SURVEY_POINT_TIMEOUT_MS) <= MAX_DURATION_MS
    /\ point_count(a) * SURVEY_FRAME_BYTES <= Limits.max_iq_bytes

find_candidate(obs, id) ==
    obs.candidates[Min({n \in DOMAIN obs.candidates : obs.candidates[n].id = id})]

validate_inspect(obs, a) ==
    /\ Known(obs, a.candidate)
    /\ Frequency(a.center)
    /\ validate_radio_profile(a)
    /\ LET c == find_candidate(obs, a.candidate)
       IN  Distance(a.center, c.center) <= Max({c.bandwidth, a.bandwidth})
    /\ a.dwell \in 1..Min({Limits.max_dwell_ms, MAX_SETTLE_MS})
    /\ SURVEY_FRAME_BYTES <= Limits.max_iq_bytes

validate_capture(obs, a) ==
    /\ Known(obs, a.candidate)
    /\ Frequency(a.center)
    /\ LET c == find_candidate(obs, a.candidate)
       IN  Distance(a.center, c.center) <= c.bandwidth
    /\ validate_radio_profile(a)
    /\ a.samples \in 1..Limits.max_iq_samples
    /\ a.samples * 4 <= Limits.max_iq_bytes

\* health is what the last observation of the radio found, with the state
\* of the request: [online, retune, capture, recognizer, faulted].
validate_action(obs, health, a) ==
    /\ health.faulted => a.kind \in {"hold", "stop"}
    /\ CASE a.kind \in {"hold", "stop"} -> TRUE
         [] a.kind = "survey"    -> health.online /\ health.retune /\ validate_survey(a)
         [] a.kind = "inspect"   -> health.online /\ health.retune /\ validate_inspect(obs, a)
         [] a.kind = "capture"   -> health.online /\ health.capture /\ validate_capture(obs, a)
         [] a.kind = "recognize" -> health.recognizer /\ Known(obs, a.candidate)

approval_required(a) ==
    a.kind = "capture" /\ a.samples * 4 > Limits.auto_approve_iq_bytes

-----------------------------------------------------------------------------
(* The web console.                                                        *)

\* The survey of a new conversation; its profile is the agent's own.
validate_initial_survey(s, maxStep) ==
    /\ {s.start, s.stop} \subseteq MinHz..MaxHz
    /\ s.start <= s.stop
    /\ s.step \in 1..maxStep
    /\ s.dwell <= MAX_SETTLE_MS
    /\ point_count(s) <= MAX_POINTS
    /\ point_count(s) * (s.dwell + SURVEY_POINT_TIMEOUT_MS) <= MAX_DURATION_MS

\* The SweepPlot line the agent prints for a report.
validate_sweep_plot(report) ==
    LET centers == [i \in DOMAIN report.points |-> report.points[i].actual]
    IN  /\ Len(centers) \in 1..MAX_POINTS
        /\ \A i \in DOMAIN centers : centers[i] \in MinHz..MaxHz
        /\ Ascending(centers)
        /\ Len(report.candidates) <= MAX_CANDIDATES
        /\ \A n \in DOMAIN report.candidates :
               LET c == report.candidates[n]
               IN  /\ c.start <= c.center /\ c.center <= c.stop
                   /\ c.stop - c.start = c.bandwidth
                   /\ c.stop <= MaxHz + MaxBandwidth
                   /\ c.count \in 1..Len(centers)
                   /\ c.snr >= 0

=============================================================================
