------------------------- MODULE MCDualConnectivity --------------------------
(***************************************************************************)
(* Instances of DualConnectivity for TLC.                                   *)
(***************************************************************************)
EXTENDS DualConnectivity

MCLte        == 9
MCTwoCells   == {1, 2}
MCOneOff     == {1}
MCNone       == {}
=============================================================================
