-------------------------- MODULE DualConnectivity ---------------------------
(***************************************************************************)
(* The coordinator at the LTE cell, the mmWave cells and the UE composed    *)
(* over the LTE radio link and X2.                                          *)
(***************************************************************************)
EXTENDS McCoordinator, McSecondary

\* The UE has sent CONNECTION SETUP COMPLETED to the LTE cell.
McInit ==
  /\ co = [completed |-> FALSE, usingLte |-> FALSE, last |-> 0, event |-> NoEvent,
           best |-> FALSE, outage |-> FALSE, controlled |-> FALSE]
  /\ allowed = Cells
  /\ lte = [st |-> "CONNECTION_SETUP", bearer |-> FALSE, isMc |-> FALSE, pend |-> FALSE,
            available |-> FALSE, leg |-> "lte", cell |-> 0, rnti |-> 0]
  /\ mm = [k \in Ids |-> MmBlank]
  /\ newest = [c \in Cells |-> 0] /\ lastRnti = [c \in Cells |-> 0]
  /\ forward = [c \in Cells |-> 0]
  /\ ue = [st |-> "IDLE", id |-> NoId, known |-> NoId, leg |-> "lte", rlc |-> FALSE]
  /\ dl = <<>> /\ ul = <<Up("SETUP_COMPLETE", NoId)>>
  /\ x2 = <<>>
  /\ fault = "none"

AssociationUpdate ==
  \/ DetectOutage \/ FirstBestCell \/ CancelHandover
  \/ \E max \in allowed : \/ ConnectAfterOutage(max)
                          \/ ReturnToMmWave(max)
                          \/ ScheduleHandover(max)
                          \/ HandoverAtOnce(max)

McDownlinkStep == \/ UeRecvConnectToMmWave \/ UeRecvRrcConnectionReconfiguration
                  \/ UeRecvRrcConnectionSwitch
McUplinkStep   == \/ RecvRrcConnectionSetupCompleted
                  \/ RecvSecondaryCellInitialAccessSuccessful
                  \/ RecvRrcConnectionReconfigurationCompleted
McRadioStep    == \/ McDownlinkStep \/ McUplinkStep
                  \/ UeConnectSecondary \/ UeHandoverAccess

McContextStep(k) == UeRecvHandoverCommand(k) \/ RecvHandoverCompletedByUe(k)

McX2Step(i) ==
  /\ X2Next(i)
  /\ \/ RecvRlcSetupRequest(i) \/ RecvRlcSetupCompleted(i)
     \/ RecvConnectionSwitchToMmWave(i) \/ RecvMcHandoverRequest(i)
     \/ RecvHandoverRequest(i) \/ RecvHandoverRequestAck(i)
     \/ RecvSecondaryCellHandoverCompleted(i) \/ RecvUeContextRelease(i)

\* What comes from outside: bearers, the RIC, cells turned on and off.
McEnvironment == \/ Reconfigure
                 \/ \E c \in Cells : RicHandover(c) \/ TurnOff(c) \/ TurnOn(c)

McNext == /\ fault = "none"
          /\ \/ AssociationUpdate \/ PerformHandover
             \/ McRadioStep
             \/ \E k \in Ids : McContextStep(k)
             \/ \E i \in DOMAIN x2 : McX2Step(i)
             \/ SetupDataRadioBearer \/ McEnvironment

McSpec == McInit /\ [][McNext]_mcVars

\* Messages are delivered, scheduled handovers are due at some time, and the MME
\* sets the bearer up.  The SINRs, the RIC and the switches are free.
McFairness ==
  /\ WF_mcVars(fault = "none" /\ McDownlinkStep)
  /\ WF_mcVars(fault = "none" /\ McUplinkStep)
  /\ WF_mcVars(fault = "none" /\ UeConnectSecondary)
  /\ WF_mcVars(fault = "none" /\ UeHandoverAccess)
  /\ \A k \in Ids : WF_mcVars(fault = "none" /\ McContextStep(k))
  /\ WF_mcVars(fault = "none" /\ \E i \in DOMAIN x2 : McX2Step(i))
  /\ WF_mcVars(fault = "none" /\ SetupDataRadioBearer)

McFairSpec == McSpec /\ McFairness
-----------------------------------------------------------------------------
\* Every variable stays in its type.
McTypeOK ==
  /\ co \in Coordinator /\ allowed \subseteq Cells /\ lte \in LteContext
  /\ mm \in [Ids -> MmContext]
  /\ newest \in [Cells -> Rntis \union {0}] /\ lastRnti \in [Cells -> Rntis \union {0}]
  /\ forward \in [Cells -> Cells \union {0}]
  /\ ue \in Ue
  /\ dl \in Seq(DlMsg) /\ ul \in Seq(UlMsg) /\ x2 \in Seq(McX2Msg)

\* No assertion fails and no handler is called in a state it does not expect.
McNoAbort == fault = "none"

\* A scheduled handover starts in the cell that serves the UE, leads to another
\* one, and waits for no other handover: what PerformHandover relies on.
EventIsCurrent ==
  Scheduled => /\ co.event.source = co.last /\ co.event.target # co.last
               /\ co.completed /\ ~co.usingLte

\* The steps of a handover that wait to be taken.
Steps(types)  == {i \in DOMAIN x2 : x2[i].type \in types}
InState(s)    == {k \in Ids : mm[k].st = s}
HandoversNow  == Cardinality(Steps({"MC_HO_REQUEST", "HO_REQUEST", "HO_COMPLETED"}))
                 + Cardinality(InState("HANDOVER_JOINING"))

\* The flag m_mmWaveCellSetupCompleted is a lock: while it is FALSE exactly one
\* handover is going on somewhere, while it is TRUE none is.
OneHandover == HandoversNow = IF co.last # 0 /\ ~co.completed THEN 1 ELSE 0

\* Where the coordinator's downlink packets end up: X2-U forwards them from the
\* cell it sends them to.
Follow[n \in Nat] == IF n = 0 THEN lte.cell
                     ELSE LET c == Follow[n - 1] IN IF forward[c] = 0 THEN c ELSE forward[c]
DownlinkCell == Follow[Cardinality(Cells)]
HeadingTo(k) == ue.id = k \/ \E j \in Ids : mm[j].command = k

\* At every moment of a handover, downlink packets on the mmWave leg reach, without
\* going round in circles, a context with an RLC that the UE is at or told to go to.
McDownlinkEnds ==
  lte.leg = "mmwave" =>
    LET k == <<DownlinkCell, newest[DownlinkCell]>> IN
    forward[k[1]] = 0 /\ Exists(k) /\ mm[k].rlc /\ HeadingTo(k)

\* Nothing is in transit.
Quiet == /\ x2 = <<>> /\ dl = <<>> /\ ul = <<>> /\ ue.st = "CONNECTED_NORMALLY"
         /\ \A k \in Ids : mm[k].command = NoId /\ ~mm[k].answered

\* Between two handovers the coordinator, the UE, the cells and X2 agree about the
\* one context of the UE, and it is ready for the next handover.
Settled ==
  Quiet /\ co.completed =>
    LET k == <<co.last, newest[co.last]>> IN
    /\ ue.id = k /\ ue.known = k /\ <<lte.cell, lte.rnti>> = k
    /\ {j \in Ids : Exists(j)} = {k}
    /\ mm[k].st = "CONNECTED_NORMALLY" /\ mm[k].rlc /\ mm[k].request
    /\ \A c \in Cells : forward[c] = 0

\* The coordinator's record of the leg and the leg of its PDCP entity agree.
LegFollowsCoordinator == co.last # 0 => (lte.leg = "lte" <=> co.usingLte)

\* A UE that was told to connect gets its mmWave leg, and a handover that was
\* started completes: the lock is always released.
McSetupEnds  == ue.st = "CAMPED" ~> co.last # 0
HandoverEnds == co.last # 0 /\ ~co.completed ~> co.completed
=============================================================================
