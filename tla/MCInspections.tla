--------------------------- MODULE MCInspections ----------------------------
(***************************************************************************)
(* Inspections of two candidates.  One unit of time is 500 ms: an          *)
(* inspection takes up to its second of dwell, and the age limit is the    *)
(* 2000 ms of jetson-agx/sdrharness/config/request.json.                   *)
(***************************************************************************)
EXTENDS Inspections

MCLimits ==
    [min_freq_hz |-> 100, max_freq_hz |-> 140, max_span_hz |-> 32, max_bandwidth_hz |-> 12,
     max_dwell_ms |-> 10, max_iq_samples |-> 5, max_iq_bytes |-> 20,
     auto_approve_iq_bytes |-> 8, max_observation_age_ms |-> 4]

\* Five points, the second and the fifth of them above the floor.
MCReports ==
    LET p == [centers |-> [i \in 1..5 |-> 92 + 8 * i], rate |-> 10, bandwidth |-> 10,
              settle |-> 1, timeout |-> 1]
    IN  {Report(p, [i \in 1..5 |-> [center |-> p.centers[i], actual |-> p.centers[i],
                                    power |-> IF i \in {2, 5} THEN 2 ELSE 0]])}

=============================================================================
