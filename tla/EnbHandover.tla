----------------------------- MODULE EnbHandover -----------------------------
(***************************************************************************)
(* The X2-based handover in the RRC of the eNBs (lte-enb-rrc.cc): the       *)
(* handlers of the X2-AP messages, of the path switch, and of the RRC       *)
(* CONNECTION RECONFIGURATION COMPLETE that ends a handover as well as a    *)
(* reconfiguration.                                                        *)
(***************************************************************************)
EXTENDS EnbRrc

\* X2 message i has been taken, or has been answered with message r.
X2Taken(i)       == RemoveAt(x2, i)
X2Answered(i, r) == Append(X2Taken(i), r)

-----------------------------------------------------------------------------
\* SendHandoverRequest (a user or the helper, in any state) and, with only
\* CONNECTED_NORMALLY in HandoverIn, DoTriggerHandover (the algorithm).
SendHandoverRequest(k) ==
  /\ ctx[k].st \in HandoverIn /\ asked.handovers < MaxHandovers
  /\ EarlyHandover \/ ctx[k].drbs # {}
  /\ \E t \in Cells \ {EnbCell(k)} :
       CASE ctx[k].st = "CONNECTED_NORMALLY" ->
              /\ ctx' = [ctx EXCEPT ![k] = HandoverPrepared(@, t)]
              /\ x2' = Append(x2, HandoverRequest(k, ctx[k], t))
              /\ asked' = [asked EXCEPT !.handovers = @ + 1]
              /\ UNCHANGED <<ue, lastRnti, removals, dl, ul, x2u, s1up, s1down,
                             enbApp, epc, fault>>
         [] ctx[k].st \in {"CONNECTION_RECONFIGURATION", "HANDOVER_JOINING"} ->
              /\ ctx' = [ctx EXCEPT ![k].queued = t]
              /\ asked' = [asked EXCEPT !.handovers = @ + 1]
              /\ UNCHANGED <<ue, lastRnti, removals, dl, ul, x2, x2u, s1up,
                             s1down, enbApp, epc, fault>>
         [] OTHER -> Abort("PrepareHandover in unexpected state")

\* DoRecvHandoverRequest of the target cell.
RecvHandoverRequest(i) ==
  /\ x2[i].type = "HO_REQUEST" /\ CanAddUe(x2[i].to)
  /\ LET m == x2[i]
         b == m.to
         n == NextRnti(b)
         k == <<b, n>>
         new == [NewContext("handoverJoining") EXCEPT
                   !.source = m.from, !.sourceRnti = m.old, !.drbs = m.drbs,
                   !.teid = m.teid, !.pend = m.drbs # {}]
     IN \E admit \in Admission, preamble \in Preambles :
        CASE ~admit ->
               /\ x2' = X2Answered(i, X2("HO_FAILURE", m.to, m.from, m.old, 0, {}, 0))
               /\ UNCHANGED <<ue, ctx, lastRnti, removals, dl, ul, x2u, s1up,
                              s1down, enbApp, epc, asked, fault>>
          [] admit /\ ~preamble ->
               /\ RemoveUe(k, NewContext("handoverJoining"))
               /\ lastRnti' = [lastRnti EXCEPT ![b] = n]
               /\ x2' = X2Taken(i)
               /\ UNCHANGED <<ue, removals, s1up, s1down, epc, asked, fault>>
          [] admit /\ preamble ->
               IF m.drbs # 1..Cardinality(m.drbs)
               THEN Abort("bearer ID mismatch")
               ELSE
               IF m.drbs # {} /\ x2u[b][m.teid] # 0
               THEN Abort("overwriting a pre-existing entry in m_x2uTeidInfoMap")
               ELSE
               /\ ctx' = [ctx EXCEPT ![k] = new]
               /\ lastRnti' = [lastRnti EXCEPT ![b] = n]
               /\ x2u' = IF m.drbs = {} THEN x2u ELSE [x2u EXCEPT ![b][m.teid] = n]
               /\ x2' = X2Answered(i, X2("HO_ACK", m.to, m.from, m.old, n, m.drbs, m.teid))
               /\ UNCHANGED <<ue, removals, dl, ul, s1up, s1down, enbApp, epc,
                              asked, fault>>

\* The source's context once the handover command is on its way.
HandoverNotLeft(c)     == [c EXCEPT !.timers = @ \union {"handoverLeaving"}]  \* faulty
HandoverLeft(c) == [c EXCEPT !.st = "HANDOVER_LEAVING",
                             !.timers = @ \union {"handoverLeaving"}]

\* DoRecvHandoverRequestAck of the source cell: the state of the context is not
\* looked at.
RecvHandoverRequestAck(i) ==
  /\ x2[i].type = "HO_ACK"
  /\ LET m == x2[i]
         k == <<m.to, m.old>>
     IN
     IF ~Exists(k)
     THEN UeManagerNotFound
     ELSE
     IF Cardinality(m.drbs) # Cardinality(ctx[k].drbs)
     THEN Abort("not enough bearers in admittedBearers")
     ELSE
     /\ ctx' = [ctx EXCEPT ![k] = HandoverLeft(@)]
     /\ dl' = Sent(dl, k, HoCommand(m.from, m.new))
     /\ x2' = X2Answered(i, X2("SN_STATUS", m.to, m.from, m.old, m.new, {}, 0))
     /\ UNCHANGED <<ue, lastRnti, removals, ul, x2u, s1up, s1down, enbApp, epc,
                    asked, fault>>

\* DoRecvHandoverPreparationFailure.
RecvHandoverPreparationFailure(i) ==
  /\ x2[i].type = "HO_FAILURE"
  /\ LET k == <<x2[i].to, x2[i].old>>
         c == ctx[k]
     IN
     IF \/ c.st \notin {"HANDOVER_PREPARATION", "HANDOVER_LEAVING"}
        \/ c.target # x2[i].from
     THEN Abort("RecvHandoverPreparationFailure in unexpected state")
     ELSE
     LET back == c.st = "HANDOVER_PREPARATION" IN
     /\ ctx' = [ctx EXCEPT ![k] = IF back THEN Connected(c) ELSE c]
     /\ dl' = IF back THEN ConnectedDl(dl, k, c) ELSE dl
     /\ x2' = X2Taken(i)
     /\ UNCHANGED <<ue, lastRnti, removals, ul, x2u, s1up, s1down, enbApp, epc,
                    asked, fault>>

\* DoRecvSnStatusTransfer: the context must exist; its PDCP status is not set.
RecvSnStatusTransfer(i) ==
  /\ x2[i].type = "SN_STATUS"
  /\ IF Exists(<<x2[i].to, x2[i].new>>)
     THEN /\ x2' = X2Taken(i)
          /\ UNCHANGED <<ue, ctx, lastRnti, removals, dl, ul, x2u, s1up, s1down,
                         enbApp, epc, asked, fault>>
     ELSE UeManagerNotFound

-----------------------------------------------------------------------------
\* RecvRrcConnectionReconfigurationCompleted: the end of a reconfiguration, and
\* then of the wait of a queued handover; m_queuedHandoverRequestCellId keeps
\* its value.
Reconfigured(k) ==
  LET c    == Connected(ctx[k])
      next == c.queued # 0 /\ c.st = "CONNECTED_NORMALLY"
  IN /\ ctx' = [ctx EXCEPT ![k] = IF next THEN HandoverPrepared(c, c.queued) ELSE c]
     /\ dl' = ConnectedDl(dl, k, ctx[k])
     /\ x2' = IF next THEN Append(x2, HandoverRequest(k, c, c.queued)) ELSE x2
     /\ UNCHANGED <<s1up, enbApp>>

\* The same message in HANDOVER_JOINING: EpcEnbApplication::DoPathSwitchRequest.
Joined(k) ==
  LET c == ctx[k] IN
  /\ ctx' = [ctx EXCEPT ![k] = [Stopped(c, "handoverJoining") EXCEPT
                                  !.st = "HANDOVER_PATH_SWITCH"]]
  /\ enbApp' = [enbApp EXCEPT ![EnbCell(k)] = PathSwitched(@, Rnti(k), c.drbs, c.teid)]
  /\ s1up' = Sent(s1up, EnbCell(k), S1UpMsg("PATH_SWITCH", 0))
  /\ UNCHANGED <<dl, x2>>

RecvRrcConnectionReconfigurationCompleted(k) ==
  /\ Arrived(k, "RECONF_COMPLETE")
  /\ IF ctx[k].st \in {"CONNECTION_RECONFIGURATION", "CONNECTED_NORMALLY",
                       "HANDOVER_LEAVING", "HANDOVER_JOINING"}
     THEN /\ CASE ctx[k].st = "CONNECTION_RECONFIGURATION" -> Reconfigured(k)
               [] ctx[k].st = "HANDOVER_JOINING" -> Joined(k)
               [] OTHER -> UNCHANGED <<ctx, dl, x2, s1up, enbApp>>
          /\ ul' = Taken(ul, k)
          /\ UNCHANGED <<ue, lastRnti, removals, x2u, s1down, epc, asked, fault>>
     ELSE Abort("RecvRrcConnectionReconfigurationCompleted in unexpected state")

\* PATH SWITCH REQUEST ACKNOWLEDGE: EpcEnbApplication finds the RNTI, and
\* SendUeContextRelease tells the source cell before the state changes.
RecvPathSwitchAck(c) ==
  /\ Pending(s1down, c, "PATH_SWITCH_ACK")
  /\ LET k == <<c, enbApp[c].rnti>> IN
     IF enbApp[c].rnti = 0 \/ ~Exists(k)
     THEN UeManagerNotFound
     ELSE
     IF ctx[k].st # "HANDOVER_PATH_SWITCH"
     THEN Abort("SendUeContextRelease in unexpected state")
     ELSE
     /\ x2' = Append(x2, X2("CTX_RELEASE", c, ctx[k].source, ctx[k].sourceRnti,
                            Rnti(k), {}, 0))
     /\ ctx' = [ctx EXCEPT ![k] = Connected(@)]
     /\ dl' = ConnectedDl(dl, k, ctx[k])
     /\ s1down' = Taken(s1down, c)
     /\ UNCHANGED <<ue, lastRnti, removals, ul, x2u, s1up, enbApp, epc, asked,
                    fault>>

\* DoRecvUeContextRelease of the source cell.
RecvUeContextRelease(i) ==
  /\ x2[i].type = "CTX_RELEASE"
  /\ LET k == <<x2[i].to, x2[i].old>> IN
     IF ctx[k].st # "HANDOVER_LEAVING"
     THEN Abort("RecvUeContextRelease in unexpected state")
     ELSE /\ RemoveUe(k, Stopped(ctx[k], "handoverLeaving"))
          /\ x2' = X2Taken(i)
          /\ UNCHANGED <<ue, lastRnti, removals, s1up, s1down, epc, asked,
                         fault>>
=============================================================================
