-------------------------- MODULE MCUeMeasurements ---------------------------
(***************************************************************************)
(* Instances of UeMeasurements for TLC.  A time-to-trigger of 1 ends before   *)
(* the next measurement, one of 2 after it (256 ms, the default of the A3     *)
(* handover algorithm), one of 3 after the one that follows.                 *)
(***************************************************************************)
EXTENDS UeMeasurements

MCThreeCells == {1, 2, 3}

With(event, ttt, onLeave) ==
  [event |-> event, ttt |-> ttt, interval |-> 1, reportOnLeave |-> onLeave]

\* Event A5 with a short time-to-trigger only: see README.
MCConfigs ==
  {With(event, ttt, FALSE) : event \in {"A1", "A4"}, ttt \in {0, 1, 2}}
    \union {With("A3", ttt, TRUE) : ttt \in {0, 2}} \union {With("A2", 3, FALSE)}
    \union {With("A5", ttt, FALSE) : ttt \in {0, 1}}
MCSuperA3 == {With("A3", 2, FALSE)}
=============================================================================
