------------------------------- MODULE MCSdrd -------------------------------
(* Small instances of Sdrd.  The setting h is manual, so restoring it writes  *)
(* the hardware gain back; a is automatic; connections are interchangeable.   *)
EXTENDS Sdrd, TLC

ConnSymmetry == Permutations(Conns)

=============================================================================
