----------------------------- MODULE RlcService ------------------------------
(***************************************************************************)
(* What RLC promises to PDCP, whatever happens underneath.                   *)
(*                                                                         *)
(* accepted lists the SDUs taken into the transmission buffer, delivered     *)
(* those passed to the peer's PDCP.  Unacknowledged mode may skip SDUs but    *)
(* never repeats, reorders or corrupts one; acknowledged mode skips none.     *)
(***************************************************************************)
EXTENDS Naturals, Sequences

VARIABLES accepted, delivered

service == <<accepted, delivered>>

ServiceInit == accepted = <<>> /\ delivered = <<>>

\* SDUs are numbered in the order in which PDCP hands them over.
Accept ==
  /\ Len(accepted') = Len(accepted) + 1
  /\ SubSeq(accepted', 1, Len(accepted)) = accepted
  /\ \A i \in DOMAIN accepted : accepted[i] < accepted'[Len(accepted')]
  /\ delivered' = delivered

\* new extends delivered by later SDUs that were accepted
Extends(new) ==
  /\ Len(new) > Len(delivered)
  /\ SubSeq(new, 1, Len(delivered)) = delivered
  /\ \A i \in DOMAIN new : \E j \in DOMAIN accepted : new[i] = accepted[j]
  /\ \A i, j \in DOMAIN new : i < j => new[i] < new[j]

DeliverSome == Extends(delivered') /\ accepted' = accepted

\* the same without gaps
DeliverNext ==
  /\ \E n \in DOMAIN accepted :
       n > Len(delivered) /\ delivered' = SubSeq(accepted, 1, n)
  /\ accepted' = accepted

UnacknowledgedService == ServiceInit /\ [][Accept \/ DeliverSome]_service
AcknowledgedService   == ServiceInit /\ [][Accept \/ DeliverNext]_service
=============================================================================
