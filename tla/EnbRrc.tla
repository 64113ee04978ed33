------------------------------- MODULE EnbRrc -------------------------------
(***************************************************************************)
(* The RRC of the eNBs (lte-enb-rrc.cc): the handlers of LteEnbRrc and of   *)
(* the UeManager it keeps for every context, for a UE that is not in dual   *)
(* connectivity, on cells with one component carrier.  Every handler that   *)
(* the code ends with NS_ASSERT or NS_FATAL_ERROR in a wrong state ends     *)
(* with Abort here.                                                        *)
(***************************************************************************)
EXTENDS Epc

UeManagerNotFound == Abort("UE manager for RNTI not found")

\* The timer each waiting state runs under.
TimerState == [connectionRequest  |-> "INITIAL_RANDOM_ACCESS",
               connectionSetup    |-> "CONNECTION_SETUP",
               connectionRejected |-> "CONNECTION_REJECTED",
               handoverJoining    |-> "HANDOVER_JOINING",
               handoverLeaving    |-> "HANDOVER_LEAVING"]

\* AddUe: the RNTI a cell hands out next, and the context it creates.
NextRnti(c)      == lastRnti[c] + 1
CanAddUe(c)      == lastRnti[c] < MaxRnti               \* bound
NewContext(t)    == [Blank EXCEPT !.st = TimerState[t], !.timers = {t}]

\* The states in which ScheduleRrcConnectionReconfiguration waits.
Waiting == {"INITIAL_RANDOM_ACCESS", "CONNECTION_SETUP",
            "CONNECTION_RECONFIGURATION", "HANDOVER_PREPARATION",
            "HANDOVER_JOINING", "HANDOVER_LEAVING"}

\* SwitchToState(CONNECTED_NORMALLY): a reconfiguration that was pending is
\* sent at once.
Connected(c) ==
  IF c.pend THEN [c EXCEPT !.pend = FALSE, !.st = "CONNECTION_RECONFIGURATION"]
  ELSE [c EXCEPT !.st = "CONNECTED_NORMALLY"]
ReconfNotSent(q, k, c) == q                                         \* faulty
ConnectedDl(q, k, c) == IF c.pend THEN Sent(q, k, Rrc("RECONF")) ELSE q

\* ScheduleRrcConnectionReconfiguration sends the reconfiguration at once, or
\* leaves it pending; in the remaining states it must not be called.
SendsWhenLeaving(c) == c.st \in {"CONNECTED_NORMALLY", "HANDOVER_LEAVING"}  \* faulty
SendsNow(c)    == c.st = "CONNECTED_NORMALLY"
Schedulable(c) == SendsNow(c) \/ c.st \in Waiting

\* PrepareHandover in CONNECTED_NORMALLY.
HandoverPreparedLate(c, t) == [c EXCEPT !.target = t]               \* faulty
HandoverPrepared(c, t) == [c EXCEPT !.target = t, !.st = "HANDOVER_PREPARATION"]
HandoverRequestSwapped(k, c, t) ==                                  \* faulty
  X2("HO_REQUEST", EnbCell(k), t, 0, Rnti(k), c.drbs, c.teid)
HandoverRequest(k, c, t) ==
  X2("HO_REQUEST", EnbCell(k), t, Rnti(k), 0, c.drbs, c.teid)

-----------------------------------------------------------------------------
\* Faulty: DoDispose forgets m_x2uTeidInfoMap.
RemoveUeKeepsX2u(k, c) ==
  /\ ctx' = [ctx EXCEPT ![k] = Erased(c)]
  /\ dl' = [dl EXCEPT ![k] = <<>>]
  /\ ul' = [ul EXCEPT ![k] = <<>>]
  /\ enbApp' = [enbApp EXCEPT ![EnbCell(k)] = UeContextReleased(@, Rnti(k))]
  /\ UNCHANGED x2u

\* RemoveUe, with UeManager::DoDispose: context c at k, its messages, its entry
\* in the X2-U table (whoever made it) and its S1 context disappear; a removal
\* that is already scheduled and the timers of the context do not.
RemoveUe(k, c) ==
  /\ ctx' = [ctx EXCEPT ![k] = Erased(c)]
  /\ dl' = [dl EXCEPT ![k] = <<>>]
  /\ ul' = [ul EXCEPT ![k] = <<>>]
  /\ x2u' = IF c.drbs = {} THEN x2u ELSE [x2u EXCEPT ![EnbCell(k)][c.teid] = 0]
  /\ enbApp' = [enbApp EXCEPT ![EnbCell(k)] = UeContextReleased(@, Rnti(k))]

\* The timeout handlers assert that the context is there, in the state the timer
\* belongs to.
InTimerState(k, t) == ctx[k].st = TimerState[t]
WrongTimeout(k)    == IF Exists(k) THEN Abort("timeout in unexpected state")
                      ELSE UeManagerNotFound
NotStopped(c, t)   == c                                             \* faulty
Stopped(c, t)      == [c EXCEPT !.timers = @ \ {t}]

\* A context that enters the state timer t guards.
Waits(c, t)        == [c EXCEPT !.st = TimerState[t], !.timers = @ \union {t}]

\* ConnectionRequestTimeout, ConnectionSetupTimeout, ConnectionRejectedTimeout
\* and HandoverLeavingTimeout.
ContextTimeout(k, t) ==
  /\ t \in ctx[k].timers \ {"handoverJoining"} /\ t \in Expirable
  /\ IF InTimerState(k, t)
     THEN /\ RemoveUe(k, Stopped(ctx[k], t))
          /\ UNCHANGED <<ue, lastRnti, removals, x2, s1up, s1down, epc, asked,
                         fault>>
     ELSE WrongTimeout(k)

\* HandoverJoiningTimeout: the context lives for another 300 ms.
HandoverJoiningTimeout(k) ==
  /\ "handoverJoining" \in ctx[k].timers /\ "handoverJoining" \in Expirable
  /\ IF InTimerState(k, "handoverJoining")
     THEN /\ ctx' = [ctx EXCEPT ![k] = Stopped(@, "handoverJoining")]
          /\ removals' = removals \union {k}
          /\ UNCHANGED <<ue, lastRnti, dl, ul, x2, x2u, s1up, s1down, enbApp,
                         epc, asked, fault>>
     ELSE WrongTimeout(k)

\* The RemoveUe event that HandoverJoiningTimeout has scheduled.
ScheduledRemoval(k) ==
  /\ k \in removals /\ "removal" \in Expirable
  /\ IF Exists(k)
     THEN /\ RemoveUe(k, ctx[k])
          /\ removals' = removals \ {k}
          /\ UNCHANGED <<ue, lastRnti, x2, s1up, s1down, epc, asked, fault>>
     ELSE Abort("request to remove UE info with unknown rnti")

-----------------------------------------------------------------------------
\* Connection establishment.
RecvRrcConnectionRequest(k) ==
  /\ Arrived(k, "REQUEST")
  /\ IF ctx[k].st # "INITIAL_RANDOM_ACCESS"
     THEN Abort("RecvRrcConnectionRequest in unexpected state")
     ELSE \E admit \in Admission :
          LET c == EnbCell(k)
              t == IF admit THEN "connectionSetup" ELSE "connectionRejected" IN
          /\ ctx' = [ctx EXCEPT ![k] = Waits(Stopped(@, "connectionRequest"), t)]
          /\ dl' = Sent(dl, k, Rrc(IF admit THEN "SETUP" ELSE "REJECT"))
          /\ ul' = Taken(ul, k)
          /\ enbApp' = IF admit
                       THEN [enbApp EXCEPT ![c] = InitialUeRegistered(@, Rnti(k))]
                       ELSE enbApp
          /\ s1up' = IF admit THEN Sent(s1up, c, S1UpMsg("INITIAL_UE", 0)) ELSE s1up
          /\ UNCHANGED <<ue, lastRnti, removals, x2, x2u, s1down, epc, asked,
                         fault>>

RecvRrcConnectionSetupCompleted(k) ==
  /\ Arrived(k, "SETUP_COMPLETE")
  /\ IF ctx[k].st # "CONNECTION_SETUP"
     THEN Abort("RecvRrcConnectionSetupCompleted in unexpected state")
     ELSE LET c == Stopped(ctx[k], "connectionSetup") IN
          /\ ctx' = [ctx EXCEPT ![k] = Connected(c)]
          /\ dl' = ConnectedDl(dl, k, c)
          /\ ul' = Taken(ul, k)
          /\ UNCHANGED <<ue, lastRnti, removals, x2, x2u, s1up, s1down, enbApp,
                         epc, asked, fault>>

\* INITIAL CONTEXT SETUP REQUEST: EpcEnbApplication::DoInitialContextSetupRequest
\* calls DoDataRadioBearerSetupRequest for every bearer; the RRC numbers the
\* bearers itself and asserts that the MME gave them the same numbers.  (The
\* application learns the RNTI of a context that joins by handover only with its
\* path switch, so the context is never in HANDOVER_JOINING.)
RecvContextSetup(c) ==
  /\ Pending(s1down, c, "CTX_SETUP")
  /\ LET m == Head(s1down[c])
         k == <<c, enbApp[c].rnti>>
     IN
     IF \/ enbApp[c].rnti = 0
        \/ ~Exists(k)
     THEN UeManagerNotFound
     ELSE
     IF \/ ctx[k].drbs # {}
        \/ m.bearers # 1..Cardinality(m.bearers)
     THEN Abort("bearer ID mismatch")
     ELSE
     IF ~Schedulable(ctx[k])
     THEN Abort("ScheduleRrcConnectionReconfiguration in unexpected state")
     ELSE
     LET set  == [ctx[k] EXCEPT !.drbs = m.bearers, !.teid = m.teid, !.pend = TRUE]
         done == IF SendsNow(set)
                 THEN [Connected(set) EXCEPT !.pend = Cardinality(m.bearers) > 1]
                 ELSE set
     IN /\ ctx' = [ctx EXCEPT ![k] = done]
        /\ dl' = IF SendsNow(set) THEN ConnectedDl(dl, k, set) ELSE dl
        /\ enbApp' = [enbApp EXCEPT ![c] = Routed(@, Rnti(k), m.teid)]
        /\ s1down' = Taken(s1down, c)
        /\ UNCHANGED <<ue, lastRnti, removals, ul, x2, x2u, s1up, epc, asked,
                       fault>>

-----------------------------------------------------------------------------
\* Reconfiguration.  The scheduler, the FFR algorithm or a new SRS period asks
\* for one at any time.
ScheduleRrcConnectionReconfiguration(k) ==
  /\ ctx[k].st \in ReconfIn /\ asked.reconfs < MaxReconfs
  /\ IF ~Schedulable(ctx[k])
     THEN Abort("ScheduleRrcConnectionReconfiguration in unexpected state")
     ELSE LET c == [ctx[k] EXCEPT !.pend = TRUE] IN
          /\ ctx' = [ctx EXCEPT ![k] = IF SendsNow(c) THEN Connected(c) ELSE c]
          /\ dl' = IF SendsNow(c) THEN ConnectedDl(dl, k, c) ELSE dl
          /\ asked' = [asked EXCEPT !.reconfs = @ + 1]
          /\ UNCHANGED <<ue, lastRnti, removals, ul, x2, x2u, s1up, s1down,
                         enbApp, epc, fault>>

\* DoSendReleaseDataRadioBearer: the reconfiguration goes out in any state, and
\* the state does not change.  The X2-U entry stays: all bearers share it, the
\* default one included (the code erases the one of the bearer).
ReleaseDataRadioBearer(k) ==
  /\ ctx[k].st \in ReleaseIn /\ asked.releases < MaxReleases
  /\ \E b \in ctx[k].drbs \ {1} :         \* the default bearer stays
       /\ ctx' = [ctx EXCEPT ![k].drbs = @ \ {b}]
       /\ s1up' = Sent(s1up, EnbCell(k), S1UpMsg("ERAB_RELEASE", b))
  /\ dl' = Sent(dl, k, Rrc("RECONF"))
  /\ asked' = [asked EXCEPT !.releases = @ + 1]
  /\ UNCHANGED <<ue, lastRnti, removals, ul, x2, x2u, s1down, enbApp, epc,
                 fault>>
=============================================================================
