------------------------------ MODULE MCRlcUm --------------------------------
(***************************************************************************)
(* Instances of RlcUm for TLC.                                              *)
(***************************************************************************)
EXTENDS RlcUm

MCBothVariants == {"Um", "UmLowLat"}
MCMixedSdus    == <<2, 3, 1, 2, 1>>
MCSmallRooms   == {0, 1, 2}
=============================================================================
