------------------------------ MODULE MCRlcAm --------------------------------
(***************************************************************************)
(* Instances of RlcAm for TLC.                                              *)
(***************************************************************************)
EXTENDS RlcAm

MCEither     == BOOLEAN
MCAlways     == {TRUE}
MCTwoSdus    == <<2, 1>>
MCSmallRooms == {0, 1, 2}
MCNacks      == {1, 2}
MCOneNack    == {1}
MCOneRoom    == {1}
MCLongSdus   == <<2, 2>>

\* Bounds on the states that TLC goes on from, in run rlc_am.  At most three PDUs,
\* data and STATUS together, are in flight, and two while there is a segment
\* without data, which is tried out before the second SDU comes.
InFlight == Len(channel) + Len(statuses)
EmptySegment ==
  \/ \E i \in DOMAIN channel : channel[i].pdu.to = 0
  \/ \E sn \in DOMAIN tx.seg : tx.seg[sn] = 0
  \/ \E sn \in DOMAIN rx.buffer : rx.buffer[sn].size = 0
FewInFlight == InFlight <= 3 /\ (EmptySegment => offered < 2 /\ InFlight <= 2)
=============================================================================
