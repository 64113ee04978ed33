-------------------------------- MODULE UeRrc --------------------------------
(***************************************************************************)
(* The RRC of the UE (lte-ue-rrc.cc), with the NAS above it that retries a  *)
(* failed connection (epc-ue-nas.cc).  The UE starts camped: cell search    *)
(* and MIB/SIB1 reception come before the states modelled here.             *)
(***************************************************************************)
EXTENDS LteState

UeUnchanged == UNCHANGED <<ctx, lastRnti, removals, x2, x2u, s1up, s1down,
                           enbApp, epc, asked, fault>>

\* StartConnection: contention-based random access begins.
NotStarting(u) == [u EXCEPT !.pending = FALSE]                      \* faulty
Starting(u)    == [u EXCEPT !.pending = FALSE, !.state = "IDLE_RANDOM_ACCESS"]

\* SwitchToState(IDLE_WAIT_SIB2) and SwitchToState(IDLE_CAMPED_NORMALLY), with
\* the transitions these states take at once.
WaitingSib2(u) == LET w == [u EXCEPT !.state = "IDLE_WAIT_SIB2"] IN
                  IF u.sib2 THEN Starting(w) ELSE w
Camped(u)      == IF u.pending THEN WaitingSib2(u)
                  ELSE [u EXCEPT !.state = "IDLE_CAMPED_NORMALLY"]

\* A failed attempt: back to camped, and the NAS schedules another Connect.
Failed(u) == [Camped(u) EXCEPT !.retry = TRUE]

-----------------------------------------------------------------------------
\* EpcUeNas::DoNotifyConnectionFailed's event: LteUeRrc::DoConnect.
UeConnect ==
  /\ ue.retry
  /\ LET u == [ue EXCEPT !.retry = FALSE] IN
     ue' = IF u.state = "IDLE_CAMPED_NORMALLY"
           THEN WaitingSib2([u EXCEPT !.pending = TRUE])
           ELSE u
  /\ UNCHANGED <<dl, ul>> /\ UeUnchanged

\* The cell broadcasts SIB2 periodically; only a UE without it takes a step.
UeRecvSystemInformation ==
  /\ ~ue.sib2
  /\ LET u == [ue EXCEPT !.sib2 = TRUE] IN
     ue' = IF u.state = "IDLE_WAIT_SIB2" THEN Starting(u) ELSE u
  /\ UNCHANGED <<dl, ul>> /\ UeUnchanged

\* The state of a UE whose random access response carried RNTI r: it sends
\* RRC CONNECTION REQUEST and starts T300.
Connecting(u, r) == [u EXCEPT !.state = "IDLE_CONNECTING", !.rnti = r, !.t300 = TRUE]

\* DoNotifyRandomAccessFailed.  During a handover nothing follows it ("todo").
UeRandomAccessFailed ==
  /\ Lossy
  /\ \/ /\ ue.state = "IDLE_RANDOM_ACCESS"
        /\ ue' = Failed(ue)
     \/ /\ ue.state = "CONNECTED_HANDOVER" /\ ue.ra
        /\ ue' = [ue EXCEPT !.ra = FALSE]
  /\ UNCHANGED <<dl, ul>> /\ UeUnchanged

\* DoNotifyRandomAccessSuccessful in CONNECTED_HANDOVER.
UeHandoverAccess ==
  /\ ue.state = "CONNECTED_HANDOVER" /\ ue.ra
  /\ ue' = [ue EXCEPT !.state = "CONNECTED_NORMALLY", !.ra = FALSE]
  /\ ul' = Uplink(ul, Served, "RECONF_COMPLETE")
  /\ UNCHANGED dl /\ UeUnchanged

\* ConnectionTimeout (T300).
UeConnectionTimeout ==
  /\ ue.t300 /\ "t300" \in Expirable
  /\ ue' = Failed([ue EXCEPT !.t300 = FALSE, !.sib2 = FALSE])
  /\ UNCHANGED <<dl, ul>> /\ UeUnchanged

-----------------------------------------------------------------------------
\* The UE decodes only what is addressed to its cell and RNTI.
Heard(type) == ue.rnti # 0 /\ Pending(dl, Served, type)

UeRecvConnectionSetup ==
  /\ Heard("SETUP")
  /\ IF ue.state = "IDLE_CONNECTING"
     THEN /\ ue' = [ue EXCEPT !.state = "CONNECTED_NORMALLY", !.t300 = FALSE]
          /\ ul' = Uplink(ul, Served, "SETUP_COMPLETE")
          /\ dl' = Taken(dl, Served)
          /\ UeUnchanged
     ELSE Abort("ue: RRC CONNECTION SETUP unexpected")

UeRecvConnectionReject ==
  /\ Heard("REJECT")
  /\ ue' = Failed([ue EXCEPT !.t300 = FALSE, !.sib2 = FALSE])
  /\ dl' = Taken(dl, Served)
  /\ UNCHANGED ul /\ UeUnchanged

\* RRC CONNECTION RECONFIGURATION without mobility information.
UeRecvReconfiguration ==
  /\ Heard("RECONF")
  /\ IF ue.state = "CONNECTED_NORMALLY"
     THEN /\ ul' = Uplink(ul, Served, "RECONF_COMPLETE")
          /\ dl' = Taken(dl, Served)
          /\ UNCHANGED ue /\ UeUnchanged
     ELSE Abort("ue: RRC CONNECTION RECONFIGURATION unexpected")

\* The same message with mobility information: the MAC is reset, so nothing
\* that waits for the old cell is ever sent, and the UE moves.
UeRecvHandoverCommand ==
  /\ Heard("HO_COMMAND")
  /\ IF ue.state = "CONNECTED_NORMALLY"
     THEN LET m == Head(dl[Served]) IN
          /\ ue' = [ue EXCEPT !.state = "CONNECTED_HANDOVER", !.ra = TRUE,
                              !.cell = m.cell, !.rnti = m.rnti]
          /\ dl' = Taken(dl, Served)
          /\ ul' = [ul EXCEPT ![Served] = <<>>]
          /\ UeUnchanged
     ELSE Abort("ue: handover command unexpected")
=============================================================================
