----------------------------- MODULE McSecondary -----------------------------
(***************************************************************************)
(* The UE and its contexts at the mmWave cells: the connection of the       *)
(* secondary RRC, the remote RLC, and the handover between mmWave cells     *)
(* (lte-ue-rrc.cc, epc-ue-nas.cc, lte-enb-rrc.cc, epc-x2.cc).               *)
(***************************************************************************)
EXTENDS McState

\* DoRecvRrcConnectToMmWave and EpcUeNas::DoNotifyConnectToMmWave: the secondary
\* RRC camps on the cell and connects.
UeRecvConnectToMmWave ==
  /\ DlArrived("CONNECT")
  /\ ue' = [ue EXCEPT !.st = "CAMPED", !.id = <<Head(dl).cell, 0>>]
  /\ dl' = Tail(dl)
  /\ UNCHANGED <<co, allowed, lte, mm, newest, lastRnti, forward, ul, x2, fault>>

\* AddUe: the first RNTI after the last one that has no context.
NextRntiUnwrapped(c) == lastRnti[c] + 1                              \* faulty
NextRnti(c) ==
  LET free == {r \in Rntis : mm[<<c, r>>].st = "NONE"}
      dist(r) == (r - lastRnti[c] - 1) % NRntis
  IN CHOOSE r \in free : \A s \in free : dist(r) <= dist(s)
CanAddUe(c) == \E r \in Rntis : mm[<<c, r>>].st = "NONE"

\* The secondary RRC connects (random access and set-up in one step; no other
\* procedure can touch the context before), and the primary one tells the LTE eNB.
UeConnectSecondary ==
  /\ ue.st = "CAMPED" /\ CanAddUe(ue.id[1])
  /\ LET c == ue.id[1]
         k == <<c, NextRnti(c)>>
     IN /\ mm' = [mm EXCEPT ![k] = [MmBlank EXCEPT !.st = "CONNECTED_NORMALLY"]]
        /\ newest' = [newest EXCEPT ![c] = k[2]]
        /\ lastRnti' = [lastRnti EXCEPT ![c] = k[2]]
        /\ ue' = [ue EXCEPT !.st = "CONNECTED_NORMALLY", !.id = k, !.known = k]
        /\ ul' = Append(ul, Up("SECONDARY_CONNECTED", k))
  /\ UNCHANGED <<co, allowed, lte, forward, dl, x2, fault>>

\* DoRecvRrcConnectionReconfiguration of the primary RRC: a bearer with a mmWave
\* leg gets its RLC, and uses that leg, each time.
UeRecvRrcConnectionReconfiguration ==
  /\ DlArrived("RECONF")
  /\ ue' = IF Head(dl).on THEN [ue EXCEPT !.rlc = TRUE, !.leg = "mmwave"] ELSE ue
  /\ dl' = Tail(dl)
  /\ ul' = Append(ul, Up("RECONF_COMPLETE", NoId))
  /\ UNCHANGED <<co, allowed, lte, mm, newest, lastRnti, forward, x2, fault>>

\* DoRecvRrcConnectionSwitch: m_rlcMap is used without a check.
UeRecvRrcConnectionSwitch ==
  /\ DlArrived("SWITCH")
  /\ IF Head(dl).on \/ ue.rlc
     THEN /\ ue' = [ue EXCEPT !.leg = IF Head(dl).on THEN "mmwave" ELSE "lte"]
          /\ dl' = Tail(dl)
          /\ UNCHANGED <<co, allowed, lte, mm, newest, lastRnti, forward, ul, x2, fault>>
     ELSE McAbort("m_rlcMap has no entry for the bearer")

\* The secondary RRC receives a handover command; DoNotifySecondaryCellHandover
\* of the primary one replaces the RLC, and leaves the leg of the PDCP alone.
UeRecvHandoverCommand(k) ==
  /\ Exists(k) /\ mm[k].command # NoId /\ ue.id = k /\ ue.st = "CONNECTED_NORMALLY"
  /\ LET new == mm[k].command IN
     IF k[2] # ue.known[2]
     THEN McAbort("Wrong RNTI! - unknown device")
     ELSE /\ ue' = [ue EXCEPT !.st = "CONNECTED_HANDOVER", !.id = new, !.known = new,
                              !.rlc = @ \/ mm[new].rlc]
          /\ mm' = [mm EXCEPT ![k].command = NoId]
          /\ UNCHANGED <<co, allowed, lte, newest, lastRnti, forward, dl, ul, x2, fault>>

\* DoNotifyRandomAccessSuccessful in the target cell.
UeHandoverAccess ==
  /\ ue.st = "CONNECTED_HANDOVER" /\ Exists(ue.id)
  /\ ue' = [ue EXCEPT !.st = "CONNECTED_NORMALLY"]
  /\ mm' = [mm EXCEPT ![ue.id].answered = TRUE]
  /\ UNCHANGED <<co, allowed, lte, newest, lastRnti, forward, dl, ul, x2, fault>>

-----------------------------------------------------------------------------
\* UeManager::RecvRlcSetupRequest: the context keeps the parameters for its next
\* handover, and sets up the RLC.
RlcHeld(m) == [m EXCEPT !.rlc = TRUE]                                \* faulty
RlcSet(m)  == [m EXCEPT !.rlc = TRUE, !.request = TRUE]

RecvRlcSetupRequest(i) ==
  /\ x2[i].type = "RLC_REQUEST"
  /\ LET k == <<x2[i].to, x2[i].new>> IN
     IF ~Exists(k)
     THEN UeManagerNotFound
     ELSE /\ mm' = [mm EXCEPT ![k] = RlcSet(@)]
          /\ x2' = IF mm[k].st = "HANDOVER_JOINING" THEN X2Taken(i)
                   ELSE X2Answered(i, McX2("RLC_COMPLETED", k[1], Lte, 0, 0, k[2], FALSE))
          /\ UNCHANGED <<co, allowed, lte, newest, lastRnti, forward, ue, dl, ul, fault>>

\* UeManager::RecvConnectionSwitchToMmWave, to LTE: the buffers go to the LTE cell.
RecvConnectionSwitchToMmWave(i) ==
  /\ x2[i].type = "SWITCH"
  /\ LET k == <<x2[i].to, x2[i].new>> IN
     IF ~Exists(k)
     THEN UeManagerNotFound
     ELSE
     IF ~mm[k].rlc
     THEN McAbort("drbid not found in m_rlcMap")
     ELSE /\ mm' = [mm EXCEPT ![k].target = Lte]
          /\ x2' = X2Taken(i)
          /\ UNCHANGED <<co, allowed, lte, newest, lastRnti, forward, ue, dl, ul, fault>>

-----------------------------------------------------------------------------
\* PrepareHandover of context k, connected: the request takes the parameters of
\* the RLC along and leaves none behind.
Prepared(m, target) ==
  [m EXCEPT !.st = "HANDOVER_PREPARATION", !.target = target, !.request = FALSE]
HandoverRequest(k, m, target) == McX2("HO_REQUEST", k[1], target, 0, k[2], 0, m.request)

\* DoRecvMcHandoverRequest and SendHandoverRequest: the context is the newest that
\* the cell has had for the UE.  The own cell and cell 0 are no peers on X2.
RecvMcHandoverRequest(i) ==
  /\ x2[i].type = "MC_HO_REQUEST"
  /\ LET c      == x2[i].to
         k      == <<c, newest[c]>>
         target == x2[i].target
     IN
     IF ~Exists(k)
     THEN UeManagerNotFound
     ELSE
     IF mm[k].st \notin {"CONNECTED_NORMALLY", "HANDOVER_JOINING"}
     THEN McAbort("PrepareHandover in unexpected state")
     ELSE
     IF mm[k].st = "CONNECTED_NORMALLY" /\ target \in {0, c}
     THEN McAbort("Missing infos for targetCellId")
     ELSE
     /\ IF mm[k].st = "CONNECTED_NORMALLY"
        THEN /\ mm' = [mm EXCEPT ![k] = Prepared(@, target)]
             /\ x2' = X2Answered(i, HandoverRequest(k, mm[k], target))
        ELSE /\ mm' = [mm EXCEPT ![k].queued = target]
             /\ x2' = X2Taken(i)
     /\ UNCHANGED <<co, allowed, lte, newest, lastRnti, forward, ue, dl, ul, fault>>

\* DoRecvHandoverRequest: a new context, with the RLC of the request.
JoiningWithoutRlc(m) == [MmBlank EXCEPT !.st = "HANDOVER_JOINING", !.source = m.from,
                                        !.sourceRnti = m.old]        \* faulty
Joining(m) ==
  LET new == [MmBlank EXCEPT !.st = "HANDOVER_JOINING", !.source = m.from,
                             !.sourceRnti = m.old]
  IN IF m.rlc THEN RlcSet(new) ELSE new

RecvHandoverRequest(i) ==
  /\ x2[i].type = "HO_REQUEST"
  /\ LET m == x2[i]
         r == NextRnti(m.to)
     IN
     IF ~CanAddUe(m.to)
     THEN McAbort("no more RNTIs available")
     ELSE /\ mm' = [mm EXCEPT ![<<m.to, r>>] = Joining(m)]
          /\ newest' = [newest EXCEPT ![m.to] = r]
          /\ lastRnti' = [lastRnti EXCEPT ![m.to] = r]
          /\ x2' = X2Answered(i, McX2("HO_ACK", m.to, m.from, 0, m.old, r, FALSE))
          /\ UNCHANGED <<co, allowed, lte, forward, ue, dl, ul, fault>>

\* RecvHandoverRequestAck: the command goes to the UE, and packets that still come
\* are forwarded to the target.
RecvHandoverRequestAck(i) ==
  /\ x2[i].type = "HO_ACK"
  /\ LET c == x2[i].to
         k == <<c, x2[i].old>>
     IN
     IF ~Exists(k)
     THEN UeManagerNotFound
     ELSE
     IF mm[k].rlc /\ forward[c] # 0
     THEN McAbort("TEID already in the map")
     ELSE /\ mm' = [mm EXCEPT ![k].st = "HANDOVER_LEAVING",
                              ![k].command = <<x2[i].from, x2[i].new>>]
          /\ forward' = IF mm[k].rlc THEN [forward EXCEPT ![c] = x2[i].from] ELSE forward
          /\ x2' = X2Taken(i)
          /\ UNCHANGED <<co, allowed, lte, newest, lastRnti, ue, dl, ul, fault>>

\* The target cell receives RECONFIGURATION COMPLETED: the coordinator is told,
\* and a handover that was postponed is prepared.
RecvHandoverCompletedByUe(k) ==
  /\ mm[k].answered
  /\ IF mm[k].st \in {"CONNECTED_NORMALLY", "HANDOVER_LEAVING"}   \* ignored
     THEN /\ mm' = [mm EXCEPT ![k].answered = FALSE]
          /\ UNCHANGED <<co, allowed, lte, newest, lastRnti, forward, ue, dl, ul, x2, fault>>
     ELSE
     IF mm[k].st # "HANDOVER_JOINING"
     THEN McAbort("RecvRrcConnectionReconfigurationCompleted in unexpected state")
     ELSE
     LET done == McX2("HO_COMPLETED", k[1], Lte, 0, mm[k].sourceRnti, k[2], FALSE)
         m    == [mm[k] EXCEPT !.st = "CONNECTED_NORMALLY", !.answered = FALSE]
     IN
     /\ IF m.queued # 0
        THEN /\ mm' = [mm EXCEPT ![k] = Prepared(m, m.queued)]
             /\ x2' = Append(Append(x2, done), HandoverRequest(k, m, m.queued))
        ELSE /\ mm' = [mm EXCEPT ![k] = m]
             /\ x2' = Append(x2, done)
     /\ UNCHANGED <<co, allowed, lte, newest, lastRnti, forward, ue, dl, ul, fault>>

\* DoRecvUeContextRelease: the context is removed, and no packet is forwarded.
RecvUeContextRelease(i) ==
  /\ x2[i].type = "CTX_RELEASE"
  /\ LET c == x2[i].to
         k == <<c, x2[i].old>>
     IN
     IF ~Exists(k)
     THEN UeManagerNotFound
     ELSE
     IF mm[k].st # "HANDOVER_LEAVING"
     THEN McAbort("RecvUeContextRelease in unexpected state")
     ELSE
     IF mm[k].rlc /\ forward[c] = 0
     THEN McAbort("TEID not in the map")
     ELSE /\ mm' = [mm EXCEPT ![k] = MmBlank]
          /\ forward' = IF mm[k].rlc THEN [forward EXCEPT ![c] = 0] ELSE forward
          /\ x2' = X2Taken(i)
          /\ UNCHANGED <<co, allowed, lte, newest, lastRnti, ue, dl, ul, fault>>
=============================================================================
