----------------------------- MODULE LteHandover -----------------------------
(***************************************************************************)
(* One UE, the eNBs it can be handed over between, and the EPC: the UE's    *)
(* RRC, the eNBs' RRC and the EPC composed over the radio, X2 and S1 links. *)
(* The other UEs of a cell appear as the choices of Admission and Preambles *)
(* and as the reconfigurations that the scheduler asks for.                 *)
(***************************************************************************)
EXTENDS UeRrc, EnbHandover

HomeCell == CHOOSE c \in Cells : TRUE
HomeId   == <<HomeCell, 1>>

NoTunnel == [rnti |-> 0, flow |-> [g \in Teids |-> 0], teid |-> [r \in Rntis |-> 0]]

\* The context of a UE that has attached: connected, every bearer set up.
Attached == [Blank EXCEPT !.st = "CONNECTED_NORMALLY", !.drbs = Bearers, !.teid = 1]

InitUe ==
  IF StartConnected
  THEN [state |-> "CONNECTED_NORMALLY", cell |-> HomeCell, rnti |-> 1, t300 |-> FALSE,
        pending |-> FALSE, sib2 |-> TRUE, ra |-> FALSE, retry |-> FALSE]
  ELSE [state |-> "IDLE_CAMPED_NORMALLY", cell |-> HomeCell, rnti |-> 0, t300 |-> FALSE,
        pending |-> FALSE, sib2 |-> FALSE, ra |-> FALSE, retry |-> TRUE]

\* The UE is attached at its home cell, or camped there and about to connect.
Init ==
  /\ ue = InitUe
  /\ ctx = [k \in Ids |-> IF StartConnected /\ k = HomeId THEN Attached ELSE Blank]
  /\ lastRnti = [c \in Cells |-> IF StartConnected /\ c = HomeCell THEN 1 ELSE 0]
  /\ removals = {}
  /\ dl = [k \in Ids |-> <<>>] /\ ul = [k \in Ids |-> <<>>]
  /\ x2 = <<>>
  /\ x2u = [c \in Cells |-> [g \in Teids |-> 0]]
  /\ s1up = [c \in Cells |-> <<>>] /\ s1down = [c \in Cells |-> <<>>]
  /\ enbApp = [c \in Cells |-> IF StartConnected /\ c = HomeCell
                               THEN Routed(InitialUeRegistered(NoTunnel, 1), 1, 1)
                               ELSE NoTunnel]
  /\ epc = [mme |-> IF StartConnected THEN HomeCell ELSE 0,
            sgw |-> IF StartConnected THEN HomeCell ELSE 0,
            teid |-> IF StartConnected THEN 1 ELSE 0, bearers |-> Bearers]
  /\ asked = [handovers |-> 0, reconfs |-> 0, releases |-> 0]
  /\ fault = "none"

-----------------------------------------------------------------------------
\* Contention-based random access: the MAC of the eNB allocates a context and
\* answers; DoNotifyRandomAccessSuccessful at the UE unless the answer is lost.
RandomAccess ==
  LET c == ue.cell
      k == <<c, NextRnti(c)>>
  IN /\ ue.state = "IDLE_RANDOM_ACCESS" /\ CanAddUe(c)
     /\ ctx' = [ctx EXCEPT ![k] = NewContext("connectionRequest")]
     /\ lastRnti' = [lastRnti EXCEPT ![c] = NextRnti(c)]
     /\ \E lost \in {FALSE, Lossy} :
          IF lost THEN UNCHANGED <<ue, ul>>
          ELSE /\ ue' = Connecting(ue, NextRnti(c))
               /\ ul' = Sent(ul, k, "REQUEST")
     /\ UNCHANGED <<removals, dl, x2, x2u, s1up, s1down, enbApp, epc, asked,
                    fault>>

\* SRB0 has no ARQ: its messages may get lost.
Srb0MessageLost(k) ==
  /\ Lossy
  /\ \/ /\ Pending(dl, k, "SETUP") \/ Pending(dl, k, "REJECT")
        /\ dl' = Taken(dl, k) /\ UNCHANGED ul
     \/ /\ Arrived(k, "REQUEST")
        /\ ul' = Taken(ul, k) /\ UNCHANGED dl
  /\ UNCHANGED <<ue, ctx, lastRnti, removals, x2, x2u, s1up, s1down, enbApp,
                 epc, asked, fault>>

UeStep == \/ UeConnect \/ UeRecvSystemInformation \/ RandomAccess
          \/ UeHandoverAccess \/ UeRecvConnectionSetup \/ UeRecvConnectionReject
          \/ UeRecvReconfiguration \/ UeRecvHandoverCommand

RrcStep(k) == \/ RecvRrcConnectionRequest(k)
              \/ RecvRrcConnectionSetupCompleted(k)
              \/ RecvRrcConnectionReconfigurationCompleted(k)

X2Step(i) == /\ X2Next(i)
             /\ \/ RecvHandoverRequest(i)
                \/ RecvHandoverRequestAck(i)
                \/ RecvHandoverPreparationFailure(i)
                \/ RecvSnStatusTransfer(i)
                \/ RecvUeContextRelease(i)

S1Step(c) == \/ MmeRecvInitialUe(c) \/ MmeRecvPathSwitch(c) \/ MmeRecvErabRelease(c)
             \/ RecvContextSetup(c) \/ RecvPathSwitchAck(c)

TimerStep(k) == \/ \E t \in Timers : ContextTimeout(k, t)
                \/ HandoverJoiningTimeout(k)
                \/ ScheduledRemoval(k)

\* What nobody has to do.
Environment == \/ UeRandomAccessFailed
               \/ \E k \in Ids : \/ Srb0MessageLost(k)
                                 \/ SendHandoverRequest(k)
                                 \/ ScheduleRrcConnectionReconfiguration(k)
                                 \/ ReleaseDataRadioBearer(k)

Next == /\ fault = "none"
        /\ \/ UeStep
           \/ UeConnectionTimeout
           \/ \E k \in Ids : RrcStep(k) \/ TimerStep(k)
           \/ \E i \in DOMAIN x2 : X2Step(i)
           \/ \E c \in Cells : S1Step(c)
           \/ Environment

Spec == Init /\ [][Next]_vars

\* The simulator runs every event that is scheduled: messages are delivered,
\* timers expire.  Nothing else is fair.
Fairness == /\ WF_vars(fault = "none" /\ UeStep)
            /\ WF_vars(fault = "none" /\ UeConnectionTimeout)
            /\ \A k \in Ids : /\ WF_vars(fault = "none" /\ RrcStep(k))
                              /\ WF_vars(fault = "none" /\ TimerStep(k))
            /\ \A l \in Cells \X Cells :
                 WF_vars(/\ fault = "none"
                         /\ \E i \in DOMAIN x2 : <<x2[i].from, x2[i].to>> = l /\ X2Step(i))
            /\ \A c \in Cells : WF_vars(fault = "none" /\ S1Step(c))

FairSpec == Spec /\ Fairness
-----------------------------------------------------------------------------
\* Every variable stays in its type.
TypeOK ==
  /\ ue \in Ue
  /\ ctx \in [Ids -> Context]
  /\ lastRnti \in [Cells -> 0..MaxRnti]
  /\ removals \subseteq Ids
  /\ dl \in [Ids -> Seq(RrcDown)]
  /\ ul \in [Ids -> Seq(RrcUp)]
  /\ x2 \in Seq(X2Msg)
  /\ x2u \in [Cells -> [Teids -> Rntis \union {0}]]
  /\ s1up \in [Cells -> Seq(S1Up)]
  /\ s1down \in [Cells -> Seq(S1Down)]
  /\ enbApp \in [Cells -> EnbApp]
  /\ epc \in EpcState
  /\ asked \in [handovers : Nat, reconfs : Nat, releases : Nat]

\* No assertion of the RRC fails and no handler is called in a state it does
\* not expect (every NS_ASSERT and NS_FATAL_ERROR the handlers can reach).
NoAbort == fault = "none"

\* A timer runs exactly while its context waits for what stops it, so that no
\* timeout handler can find the context gone or in another state; the one
\* exception is a joining context that HandoverJoiningTimeout has given up.
\* (The RemoveUe which that handler schedules breaks this when it removes a
\* context that has gone on in the meantime.)
Timed(c, givenUp) ==
  \A t \in Timers : /\ t \in c.timers => c.st = TimerState[t]
                    /\ c.st = TimerState[t] => t \in c.timers \/ givenUp
TimerDiscipline == \A k \in Ids : Timed(ctx[k], k \in removals)

\* The messages of a handover preparation, and the context that waits for it.
Asking(m) == m.type \in {"HO_REQUEST", "HO_ACK", "HO_FAILURE"}
Asker(m)  == <<IF m.type = "HO_REQUEST" THEN m.from ELSE m.to, m.old>>

\* The handlers of the answers look a context up without checking that it asked.
\* Still a context is in HANDOVER_PREPARATION as long as its request or the
\* answer is in transit, and never has two of them in transit.
OnePreparation ==
  \A i \in DOMAIN x2 : Asking(x2[i]) =>
    /\ ctx[Asker(x2[i])].st = "HANDOVER_PREPARATION"
    /\ \A j \in DOMAIN x2 :
         Asking(x2[j]) /\ Asker(x2[j]) = Asker(x2[i]) => j = i

\* The states in which an eNB takes itself for the serving eNB of the UE.
Serving == {"CONNECTED_NORMALLY", "CONNECTION_RECONFIGURATION",
            "HANDOVER_PREPARATION", "HANDOVER_PATH_SWITCH"}

\* At no time do two eNBs both take themselves for the serving one.
OneAnchor == Cardinality({k \in Ids : ctx[k].st \in Serving}) <= 1

\* Where a downlink packet of the UE ends up: the SGW's eNB, the RNTI its S1
\* application has for the tunnel, and one X2-U hop while that context leaves.
DownlinkEnd ==
  LET g == epc.teid
      k == <<epc.sgw, enbApp[epc.sgw].flow[g]>>
  IN IF Rnti(k) # 0 /\ ctx[k].st = "HANDOVER_LEAVING"
     THEN <<ctx[k].target, x2u[ctx[k].target][g]>> ELSE k

\* However a handover proceeds, downlink packets reach a context that queues
\* them for the UE: the context the UE is served by, or the one that the
\* handover command it has yet to receive sends it to.
DownlinkPath ==
  LET e == DownlinkEnd IN
  /\ e \in Ids /\ ctx[e].st \in Serving \union {"HANDOVER_JOINING"} /\ ctx[e].drbs # {}
  /\ \/ Served = e
     \/ ctx[Served].st = "HANDOVER_LEAVING" /\ HoCommand(e[1], e[2]) \in ToSet(dl[Served])

\* An eNB that has taken the UE over, and one the UE has not left yet, can send
\* its uplink packets to the tunnel.
UplinkPath ==
  \A k \in Ids : ctx[k].st \in Serving \union {"HANDOVER_LEAVING"} /\ ctx[k].drbs # {}
                 => enbApp[EnbCell(k)].teid[Rnti(k)] = ctx[k].teid

\* Whatever is removed and in whatever order, the routing tables of an eNB name
\* only contexts that exist and own the tunnel.
NoDanglingRoutes ==
  \A c \in Cells, g \in Teids :
    \A r \in {enbApp[c].flow[g], x2u[c][g]} \ {0} :
      Exists(<<c, r>>) /\ ctx[<<c, r>>].teid = g

\* A context that is leaving never serves the UE again: it is removed.
LeavingIsFinal ==
  [][\A k \in Ids : ctx[k].st = "HANDOVER_LEAVING"
                    => ctx'[k].st \in {"HANDOVER_LEAVING", "NONE"}]_vars

\* An eNB never drops the context it serves the UE with; it must leave first.
ServingContextKept ==
  [][\A k \in Ids : ctx[k].st \in Serving => ctx'[k].st # "NONE"]_vars

\* No context stays half-way: it ends up connected, or removed.
ContextsResolve ==
  \A k \in Ids : []<>(ctx[k].st \in {"NONE", "CONNECTED_NORMALLY"})

\* A UE that tries to connect ends up with a context that has its bearers.
UeGetsBearers ==
  ue.retry ~> /\ ue.state = "CONNECTED_NORMALLY"
              /\ ctx[Served].st = "CONNECTED_NORMALLY" /\ ctx[Served].drbs = Bearers

\* The handover of a UE that stays attached implements Mobility: the path is
\* switched after the UE has arrived and before the source forgets it, and no cell
\* is asked to make room, or takes over, twice.
CellsIn(states)  == {EnbCell(k) : k \in {i \in Ids : ctx[i].st \in states}}
Promise == INSTANCE Mobility WITH
  Home     <- HomeCell,
  anchor   <- IF CellsIn(Serving) = {} THEN 0 ELSE CHOOSE c \in CellsIn(Serving) : TRUE,
  prepared <- CellsIn({"HANDOVER_JOINING"}),
  leaving  <- CellsIn({"HANDOVER_LEAVING"}),
  path     <- epc.sgw
MakesBeforeBreaking == Promise!Spec
=============================================================================
