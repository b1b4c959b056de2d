---------------------------- MODULE MCController ----------------------------
(***************************************************************************)
(* A small instance of Controller.  One unit is about a megahertz, a       *)
(* survey has at most five points, and the planner proposes actions on     *)
(* both sides of every limit.                                              *)
(***************************************************************************)
EXTENDS Controller

MCLimits ==
    [min_freq_hz |-> 100, max_freq_hz |-> 140, max_span_hz |-> 32, max_bandwidth_hz |-> 12,
     max_dwell_ms |-> 5, max_iq_samples |-> 5, max_iq_bytes |-> 20,
     auto_approve_iq_bytes |-> 8, max_observation_age_ms |-> 2]

\* Valid limits below the planner's window.
MCNarrowLimits == [MCLimits EXCEPT !.max_bandwidth_hz = 10]

Survey(start, stop, step, dwell) ==
    [kind |-> "survey", start |-> start, stop |-> stop, step |-> step, rate |-> 10,
     bandwidth |-> 10, dwell |-> dwell]
Inspect(id, center, dwell) ==
    [kind |-> "inspect", candidate |-> id, center |-> center, rate |-> 12, bandwidth |-> 10,
     dwell |-> dwell]
IqCapture(id, center, samples) ==
    [kind |-> "capture", candidate |-> id, center |-> center, rate |-> 10, bandwidth |-> 10,
     samples |-> samples]

\* A survey of two points and of three, one of four that takes too long with
\* the runner's timeout, one point too many, a gap, a dwell over the engine's
\* limit and over the policy's.
MCProposals ==
    {Survey(100, 108, 8, 1), Survey(124, 140, 8, 1), Survey(100, 124, 8, 1),
     Survey(100, 131, 6, 1),
     Survey(100, 109, 9, 1), Survey(100, 108, 8, 4), Survey(100, 108, 8, 6),
     Inspect(1, 104, 3), Inspect(1, 104, 4), Inspect(2, 104, 1), Inspect(1, 130, 1),
     IqCapture(1, 104, 2), IqCapture(1, 104, 3), IqCapture(1, 104, 6),
     [kind |-> "hold"], [kind |-> "recognize", candidate |-> 1]}

\* Five points, the last step shorter; five points closer than the tuner's
\* error; one point at the end of the band, which only the web console lets
\* a survey have.
MCOrders ==
    {Survey(100, 131, 8, 1), Survey(104, 108, 1, 1),
     Survey(140, 140, 1, 0), Survey(100, 131, 8, 4), Inspect(1, 104, 3),
     IqCapture(1, 104, 2), IqCapture(1, 104, 3)}

Candidate(age) ==
    [id |-> 1, center |-> 104, bandwidth |-> 10, peak |-> 2, snr |-> 2, age |-> age]
MCObservations ==
    {[age |-> 1, candidates |-> <<Candidate(age)>>, sweep |-> <<100, 108>>] : age \in {2, 3}}

\* The extremes the sweep accepts, and one beyond them.
MCDrifts == {-1, 1, 2}

Health(online, able, faulted) ==
    [online |-> online, retune |-> able, capture |-> able, recognizer |-> TRUE,
     faulted |-> faulted]
MCHealths ==
    {Health(TRUE, TRUE, FALSE), Health(TRUE, FALSE, FALSE), Health(FALSE, TRUE, FALSE),
     Health(TRUE, TRUE, TRUE)}

=============================================================================
