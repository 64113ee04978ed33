---------------------------- MODULE MCLteHandover ----------------------------
(***************************************************************************)
(* Instances of LteHandover for TLC.  Every name below is the value of a    *)
(* constant in one of the configurations.                                  *)
(***************************************************************************)
EXTENDS LteHandover

MCTwoCells   == {1, 2}
MCThreeCells == {1, 2, 3}
MCBoth       == {TRUE, FALSE}
MCAlways     == {TRUE}
MCNone       == {}

\* The states in which PrepareHandover does not abort, and those in which
\* ScheduleRrcConnectionReconfiguration does not.
MCHandoverIn == {"CONNECTED_NORMALLY", "CONNECTION_RECONFIGURATION", "HANDOVER_JOINING"}
MCReconfIn   == Waiting \union {"CONNECTED_NORMALLY"}
MCAllTimers  == Timers \union {"t300", "removal"}
MCNoRemoval  == Timers \union {"t300"}
MCJoining    == {"handoverJoining", "removal"}
MCConnected  == {"CONNECTED_NORMALLY"}
=============================================================================
