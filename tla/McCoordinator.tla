---------------------------- MODULE McCoordinator ----------------------------
(***************************************************************************)
(* The decisions of the LTE eNB about the UE's mmWave cell and leg          *)
(* (TriggerUeAssociationUpdate, TttBasedHandover, PerformHandover, the      *)
(* commands of the RIC, cells turned off), and the UeManager of the UE at   *)
(* the LTE cell (lte-enb-rrc.cc).                                           *)
(*                                                                         *)
(* The SINRs are not state: an action takes place when some SINRs lead to   *)
(* it, for every best cell that is not barred.                              *)
(***************************************************************************)
EXTENDS McState

Scheduled == co.event # NoEvent
Room      == Len(dl) <= MaxQueue /\ Len(x2) <= MaxQueue

\* TriggerUeAssociationUpdate passes over a UE that the RIC controls.
Evaluated == ~co.controlled /\ Room

-----------------------------------------------------------------------------
\* UeManager::SendRrcConnectionSwitch: only a bearer with an mmWave leg is
\* switched.  (Without one the message to the UE is empty and left out.)
SendRrcConnectionSwitch(on) ==
  /\ lte' = IF lte.isMc THEN [lte EXCEPT !.leg = IF on THEN "mmwave" ELSE "lte"] ELSE lte
  /\ dl'  = IF lte.isMc THEN Append(dl, Switch(on)) ELSE dl
  /\ x2'  = IF lte.isMc /\ ~on THEN Append(x2, SwitchAtMmWave(lte)) ELSE x2

\* SendMcHandoverRequest: the UE's mmWave cell is asked to hand the UE over, and
\* no other handover is started until this one has completed.
HandoverUnmarked(c) == [c EXCEPT !.event = NoEvent]                  \* faulty
HandoverStarted(c)  == [c EXCEPT !.event = NoEvent, !.completed = FALSE]

\* PerformHandover of an event that starts at the UE's cell: the handover is
\* dropped when another one is going on.
PerformFrom(c, target) ==
  IF c.completed /\ c.last # target
  THEN /\ co' = HandoverStarted(c)
       /\ x2' = Append(x2, McHandoverRequest(c.last, target))
  ELSE /\ co' = [c EXCEPT !.event = NoEvent]
       /\ UNCHANGED x2

-----------------------------------------------------------------------------
\* TriggerUeAssociationUpdate, no cell good enough: the UE moves to LTE, and a
\* handover that was scheduled is cancelled.
EventSurvivesOutage(c) == [c EXCEPT !.usingLte = TRUE]               \* faulty
InOutage(c)            == [c EXCEPT !.usingLte = TRUE, !.event = NoEvent]
DetectOutage ==
  /\ Evaluated /\ ~co.usingLte
  /\ co' = InOutage(co)
  /\ SendRrcConnectionSwitch(FALSE)
  /\ UNCHANGED <<allowed, mm, newest, lastRnti, forward, ue, ul, fault>>

\* The same, with a cell that is good enough, before the UE has one.
FirstBestCell ==
  /\ Evaluated /\ ~co.best
  /\ co' = [co EXCEPT !.best = TRUE]
  /\ UNCHANGED <<allowed, lte, mm, newest, lastRnti, forward, ue, dl, ul, x2, fault>>

\* TttBasedHandover of a UE that is on LTE, best cell max: it connects for the
\* first time, goes back to its cell, or is handed over to another one.
ConnectAfterOutage(max) ==
  /\ Evaluated /\ co.usingLte /\ co.outage
  /\ co' = [co EXCEPT !.outage = FALSE]
  /\ dl' = Append(dl, ConnectToMmWave(max))
  /\ UNCHANGED <<allowed, lte, mm, newest, lastRnti, forward, ue, ul, x2, fault>>

ReturnToMmWave(max) ==
  /\ Evaluated /\ co.usingLte /\ ~co.outage /\ co.completed
  /\ IF co.last = max
     THEN /\ co' = [co EXCEPT !.usingLte = FALSE]
          /\ SendRrcConnectionSwitch(TRUE)
     ELSE /\ co' = HandoverStarted(co)
          /\ x2' = Append(x2, McHandoverRequest(co.last, max))
          /\ UNCHANGED <<lte, dl>>
  /\ UNCHANGED <<allowed, mm, newest, lastRnti, forward, ue, ul, fault>>

\* TttBasedHandover of a UE on mmWave.  A scheduled handover is dropped when the
\* UE's cell is the best again; a better cell than its target replaces the target
\* if the difference is large.  With the UE's cell in outage it happens now.
CancelHandover ==
  /\ Evaluated /\ ~co.usingLte /\ co.completed /\ Scheduled /\ co.last \in allowed
  /\ co' = [co EXCEPT !.event = NoEvent]
  /\ UNCHANGED <<allowed, lte, mm, newest, lastRnti, forward, ue, dl, ul, x2, fault>>

ScheduleHandover(max) ==
  /\ Evaluated /\ ~co.usingLte /\ co.completed /\ max # co.last
  /\ co.event.target # max
  /\ co' = [co EXCEPT !.event = [source |-> co.last, target |-> max]]
  /\ UNCHANGED <<allowed, lte, mm, newest, lastRnti, forward, ue, dl, ul, x2, fault>>

HandoverAtOnce(max) ==
  /\ Evaluated /\ ~co.usingLte /\ co.completed /\ max # co.last
  /\ PerformFrom(co, max)
  /\ UNCHANGED <<allowed, lte, mm, newest, lastRnti, forward, ue, dl, ul, fault>>

\* The time to trigger is over.
PerformHandover ==
  /\ Scheduled
  /\ IF co.event.source = co.last
     THEN /\ PerformFrom(co, co.event.target)
          /\ UNCHANGED <<allowed, lte, mm, newest, lastRnti, forward, ue, dl, ul, fault>>
     ELSE McAbort("The secondary cell to which the UE is attached has changed")

-----------------------------------------------------------------------------
\* TakeUeHoControl and PerformHandoverToTargetCell.  The command file names
\* another cell than the UE's (lte-enb-net-device.cc checks it); a handover that
\* is scheduled stays so.
RicHandover(c) ==
  /\ RicCommands /\ Room /\ c # lte.cell
  /\ RicRace \/ ~Scheduled
  /\ co' = [co EXCEPT !.controlled = TRUE, !.completed = FALSE]
  /\ x2' = IF co.completed THEN Append(x2, McHandoverRequest(co.last, c)) ELSE x2
  /\ UNCHANGED <<allowed, lte, mm, newest, lastRnti, forward, ue, dl, ul, fault>>

\* EvictUsersFromSecondaryCell with the cells ok: a UE in a barred cell leaves for
\* the best cell, whatever was scheduled and whoever controls it.  (The event is
\* due now: at most 24 UEs are evicted at a time.)
EvictUsers(ok) ==
  IF co.last = 0 \/ co.last \in ok
  THEN UNCHANGED <<co, x2>>
  ELSE \E max \in IF ok = {} THEN {0} ELSE ok : PerformFrom(co, max)

\* MmWaveEnbNetDevice::TurnOff and TurnSleep.
TurnOff(c) ==
  /\ c \in Barrable /\ c \in allowed /\ Room
  /\ allowed' = allowed \ {c}
  /\ EvictUsers(allowed')
  /\ UNCHANGED <<lte, mm, newest, lastRnti, forward, ue, dl, ul, fault>>

\* MmWaveEnbNetDevice::TurnOn, and es_actions_for_ns3.csv, which evicts too.
TurnOn(c) ==
  /\ c \notin allowed /\ Room
  /\ allowed' = allowed \union {c}
  /\ EvictUsers(allowed') \/ UNCHANGED <<co, x2>>
  /\ UNCHANGED <<lte, mm, newest, lastRnti, forward, ue, dl, ul, fault>>

-----------------------------------------------------------------------------
\* SwitchToState(CONNECTED_NORMALLY): a pending reconfiguration is sent at once.
Connected(l)   == [l EXCEPT !.st = IF l.pend THEN "CONNECTION_RECONFIGURATION"
                                             ELSE "CONNECTED_NORMALLY",
                            !.pend = FALSE]
ConnectedDl(l) == IF l.pend THEN <<Reconfiguration(l)>> ELSE <<>>

\* RecvRrcConnectionSetupCompleted: the UE is told to connect to the best cell, or
\* is remembered as having found all of them in outage.
RecvRrcConnectionSetupCompleted ==
  /\ UlArrived("SETUP_COMPLETE")
  /\ \E outage \in BOOLEAN, c \in Cells :
       /\ co' = IF co.best /\ outage THEN [co EXCEPT !.outage = TRUE, !.usingLte = TRUE]
                                     ELSE co
       /\ dl' = dl \o (IF co.best /\ ~outage THEN <<ConnectToMmWave(c)>> ELSE <<>>)
                   \o ConnectedDl(lte)
  /\ lte' = Connected(lte)
  /\ ul' = Tail(ul)
  /\ UNCHANGED <<allowed, mm, newest, lastRnti, forward, ue, x2, fault>>

\* ScheduleRrcConnectionReconfiguration, outside MC_CONNECTION_RECONFIGURATION.
Reconfigured(l) ==
  IF l.st = "CONNECTED_NORMALLY"
  THEN /\ lte' = [l EXCEPT !.st = "CONNECTION_RECONFIGURATION", !.pend = FALSE]
       /\ dl' = Append(dl, Reconfiguration(l))
  ELSE /\ lte' = [l EXCEPT !.pend = TRUE]
       /\ UNCHANGED dl

\* SetupDataRadioBearer, when the MME sets up the context.
SetupDataRadioBearer ==
  /\ ~lte.bearer
  /\ Reconfigured([lte EXCEPT !.bearer = TRUE])
  /\ UNCHANGED <<co, allowed, mm, newest, lastRnti, forward, ue, ul, x2, fault>>

\* Another reconfiguration (a dedicated bearer, a transmission mode), once the
\* bearer has its mmWave leg.
Reconfigure ==
  /\ lte.isMc /\ lte.st # "MC_CONNECTION_RECONFIGURATION" /\ ~lte.pend /\ Room
  /\ Reconfigured(lte)
  /\ UNCHANGED <<co, allowed, mm, newest, lastRnti, forward, ue, ul, x2, fault>>

\* RecvRrcSecondaryCellInitialAccessSuccessful for a context l that has its cell:
\* the remote RLC is asked for if there is a bearer without one.
RlcWanted(l, c) == l.bearer /\ (~l.isMc \/ c.last # l.cell)
NotAvailable(l, k) == [l EXCEPT !.cell = k[1], !.rnti = k[2]]        \* faulty
AtCell(l, k) == [l EXCEPT !.cell = k[1], !.rnti = k[2], !.available = @ \/ ~l.bearer]
RecvSecondaryCellInitialAccessSuccessful ==
  /\ UlArrived("SECONDARY_CONNECTED")
  /\ LET l == AtCell(lte, Head(ul).id)
     IN /\ lte' = l
        /\ x2' = IF RlcWanted(l, co) THEN Append(x2, RlcSetupRequest(l)) ELSE x2
  /\ ul' = Tail(ul)
  /\ UNCHANGED <<co, allowed, mm, newest, lastRnti, forward, ue, dl, fault>>

\* DoRecvRlcSetupCompleted, in any state: the bearer has a mmWave leg, and the UE
\* is told.
RecvRlcSetupCompleted(i) ==
  /\ x2[i].type = "RLC_COMPLETED"
  /\ LET l == [lte EXCEPT !.isMc = TRUE, !.pend = FALSE,
                          !.st = "MC_CONNECTION_RECONFIGURATION"]
     IN lte' = l /\ dl' = Append(dl, Reconfiguration(l))
  /\ x2' = X2Taken(i)
  /\ UNCHANGED <<co, allowed, mm, newest, lastRnti, forward, ue, ul, fault>>

\* What the coordinator records when cell c serves the UE.
StaysOnLte(co1, c)  == [co1 EXCEPT !.last = c, !.completed = TRUE]   \* faulty
StaysLocked(co1, c) == [co1 EXCEPT !.last = c, !.usingLte = FALSE]   \* faulty
ServedBy(co1, c)    == [co1 EXCEPT !.last = c, !.completed = TRUE, !.usingLte = FALSE]

\* RecvRrcConnectionReconfigurationCompleted of the LTE cell.  There is one LTE cell,
\* so its own handover, and with it m_queuedHandoverRequestCellId, is left out.
RecvRrcConnectionReconfigurationCompleted ==
  /\ UlArrived("RECONF_COMPLETE")
  /\ ul' = Tail(ul)
  /\ IF lte.st = "CONNECTED_NORMALLY"
     THEN UNCHANGED <<co, lte, dl, x2>>   \* ignored
     ELSE LET mc == lte.st = "MC_CONNECTION_RECONFIGURATION" /\ lte.isMc
              c  == IF mc THEN ServedBy(co, lte.cell) ELSE co
              l  == IF mc THEN [lte EXCEPT !.leg = "mmwave"] ELSE lte
          IN /\ co' = c
             /\ lte' = Connected(l)
             /\ dl' = dl \o ConnectedDl(l)
             /\ x2' = IF l.available /\ RlcWanted(l, c)
                      THEN Append(x2, RlcSetupRequest(l)) ELSE x2
  /\ UNCHANGED <<allowed, mm, newest, lastRnti, forward, ue, fault>>

\* RecvSecondaryCellHandoverCompleted: the handover is over; the cell the UE was
\* in may drop its context.
RecvSecondaryCellHandoverCompleted(i) ==
  /\ x2[i].type = "HO_COMPLETED"
  /\ LET m     == x2[i]
         moves == lte.bearer /\ (~lte.isMc \/ co.last # m.from)
     IN /\ lte' = [lte EXCEPT !.cell = m.from, !.rnti = m.new,
                              !.leg = IF moves THEN "mmwave" ELSE @]
        /\ co' = IF moves THEN ServedBy(co, m.from) ELSE co
        /\ x2' = X2Answered(i, McX2("CTX_RELEASE", Lte, lte.cell, 0, m.old, m.new, FALSE))
  /\ UNCHANGED <<allowed, mm, newest, lastRnti, forward, ue, dl, ul, fault>>
=============================================================================
