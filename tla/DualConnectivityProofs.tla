------------------------ MODULE DualConnectivityProofs -------------------------
(***************************************************************************)
(* Proofs about DualConnectivity for every value of its constants: any     *)
(* mmWave cells and RNTIs.  First the types, with X2 links of equal or of  *)
(* different delays and with or without commands of the RIC; then what the *)
(* lock, the handover and the forwarding of dual connectivity guarantee.   *)
(***************************************************************************)
EXTENDS DualConnectivity, SequenceTheorems, NatFacts

\* Messages name what their handlers need.
X2Named ==
  {m \in McX2Msg :
     /\ m.type \in {"RLC_REQUEST", "SWITCH"} => m.to \in Cells /\ m.new \in Rntis
     /\ m.type \in {"MC_HO_REQUEST", "CTX_RELEASE"} => m.to \in Cells
     /\ m.type = "HO_REQUEST" => m.from \in Cells /\ m.to \in Cells /\ m.old \in Rntis
     /\ m.type = "HO_ACK" => m.from \in Cells /\ m.to \in Cells
                             /\ m.old \in Rntis /\ m.new \in Rntis
     /\ m.type = "HO_COMPLETED" => m.from \in Cells /\ m.new \in Rntis}
DlNamed == {m \in DlMsg : m.type = "CONNECT" => m.cell \in Cells}
UlNamed == {m \in UlMsg : m.type = "SECONDARY_CONNECTED" => m.id \in Ids}
Named   == x2 \in Seq(X2Named) /\ dl \in Seq(DlNamed) /\ ul \in Seq(UlNamed)

\* The LTE cell sends nothing on X2 before it knows the UE's mmWave cell.
CellKnown ==
  /\ lte.cell # 0 <=> lte.rnti # 0
  /\ lte.cell = 0 => /\ x2 = <<>> /\ co.last = 0 /\ ~lte.isMc /\ ~lte.available
                     /\ ue.st # "CONNECTED_HANDOVER"
                     /\ \A k \in Ids : /\ mm[k].queued = 0 /\ ~mm[k].answered
                                       /\ mm[k].command = NoId

\* The UE camps on a cell, and a cell that has completed a set-up is known.
CellsNamed == /\ ue.st = "CAMPED" => ue.id[1] \in Cells
              /\ co.completed => co.last # 0

McTypeInv == McTypeOK /\ Named /\ CellKnown /\ CellsNamed

-----------------------------------------------------------------------------
(* Queues and messages.                                                    *)

\* A queue of messages without its i-th message is such a queue.
LEMMA TakenNamed ==
  ASSUME NEW S, NEW s \in Seq(S), NEW i \in DOMAIN s
  PROVE  RemoveAt(s, i) \in Seq(S)
<1>1. i \in 1..Len(s)
  OBVIOUS
<1>2. SubSeq(s, 1, i - 1) \in Seq(S) /\ SubSeq(s, i + 1, Len(s)) \in Seq(S)
  BY <1>1, SubSeqProperties
<1> QED
  BY <1>2, ConcatProperties DEF RemoveAt

\* Zero, which stands for "none", is no cell and no RNTI; the cells differ from
\* the LTE cell.
LEMMA McNotZero ==
  /\ 0 \notin Cells /\ 0 \notin Rntis /\ Lte \notin Cells /\ NoId \notin Ids
  /\ Cells \subseteq Nat /\ Rntis \subseteq Nat /\ Lte \in Nat
BY McCellsAssumption, McBoundsAssumption DEF Rntis, Ids, NoId

\* The cell and the RNTI of a context's name.
LEMMA McIdParts ==
  /\ \A k \in Ids : k[1] \in Cells /\ k[2] \in Rntis /\ k = <<k[1], k[2]>>
  /\ \A c \in Cells, r \in Rntis : <<c, r>> \in Ids /\ <<c, r>>[1] = c /\ <<c, r>>[2] = r
BY DEF Ids

\* The messages of X2, with what the constructor gives them.
LEMMA X2Made ==
  ASSUME NEW type \in X2Types, NEW from \in Cells \union {Lte}, NEW to \in Cells \union {Lte},
         NEW target \in Cells \union {0}, NEW old \in Rntis \union {0},
         NEW new \in Rntis \union {0}, NEW rlc \in BOOLEAN,
         type \in {"RLC_REQUEST", "SWITCH"} => to \in Cells /\ new \in Rntis,
         type \in {"MC_HO_REQUEST", "CTX_RELEASE"} => to \in Cells,
         type = "HO_REQUEST" => from \in Cells /\ to \in Cells /\ old \in Rntis,
         type = "HO_ACK" => from \in Cells /\ to \in Cells /\ old \in Rntis /\ new \in Rntis,
         type = "HO_COMPLETED" => from \in Cells /\ new \in Rntis
  PROVE  McX2(type, from, to, target, old, new, rlc) \in X2Named
BY DEF McX2, X2Named, McX2Msg

\* The messages of the coordinator to a mmWave cell.
LEMMA CoordinatorSends ==
  /\ \A l \in LteContext : l.cell # 0 /\ l.rnti # 0
       => RlcSetupRequest(l) \in X2Named /\ SwitchAtMmWave(l) \in X2Named
  /\ \A c \in Cells, t \in Cells \union {0} : McHandoverRequest(c, t) \in X2Named
<1>1. ASSUME NEW l \in LteContext, l.cell # 0 /\ l.rnti # 0
      PROVE  RlcSetupRequest(l) \in X2Named /\ SwitchAtMmWave(l) \in X2Named
  <2>1. l.cell \in Cells /\ l.rnti \in Rntis
    BY <1>1 DEF LteContext
  <2> QED
    BY <2>1, X2Made DEF RlcSetupRequest, SwitchAtMmWave, X2Types
<1>2. ASSUME NEW c \in Cells, NEW t \in Cells \union {0}
      PROVE  McHandoverRequest(c, t) \in X2Named
  BY X2Made DEF McHandoverRequest, X2Types
<1> QED
  BY <1>1, <1>2

\* The RRC messages.
LEMMA RrcMade ==
  /\ \A l \in LteContext : Reconfiguration(l) \in DlNamed
  /\ \A c \in Cells : ConnectToMmWave(c) \in DlNamed
  /\ \A on \in BOOLEAN : Switch(on) \in DlNamed
  /\ \A k \in Ids : Up("SECONDARY_CONNECTED", k) \in UlNamed
  /\ Up("RECONF_COMPLETE", NoId) \in UlNamed /\ Up("SETUP_COMPLETE", NoId) \in UlNamed
BY DEF Reconfiguration, ConnectToMmWave, Switch, Up, DlNamed, UlNamed, DlMsg, UlMsg, LteContext

\* Contexts.
LEMMA MmBlankType == MmBlank \in MmContext
BY McNotZero DEF MmBlank, MmContext, MmStates

\* AddUe takes an RNTI that has no context, if there is one.
LEMMA NextRntiFree ==
  ASSUME NEW c \in Cells, CanAddUe(c), mm \in [Ids -> MmContext],
         lastRnti \in [Cells -> Rntis \union {0}]
  PROVE  NextRnti(c) \in Rntis /\ mm[<<c, NextRnti(c)>>].st = "NONE"
<1> DEFINE free == {r \in Rntis : mm[<<c, r>>].st = "NONE"}
           dist(r) == (r - lastRnti[c] - 1) % NRntis
           S == {dist(r) : r \in free}
<1>1. S \subseteq Nat /\ S # {}
  <2>1. free # {}
    BY DEF CanAddUe
  <2>2. \A r \in free : dist(r) \in Nat
    BY McBoundsAssumption DEF Rntis
  <2> QED
    BY <2>1, <2>2
<1>2. PICK d \in S : \A e \in S : d <= e
  <2> HIDE DEF S
  <2> QED
    BY <1>1, NatLeast
<1>3. \E r \in free : \A s \in free : dist(r) <= dist(s)
  BY <1>2
<1>4. NextRnti(c) = CHOOSE r \in free : \A s \in free : dist(r) <= dist(s)
  BY DEF NextRnti
<1> HIDE DEF dist
<1> QED
  BY <1>3, <1>4

-----------------------------------------------------------------------------
(* The coordinator keeps the type invariant.                               *)

\* SendRrcConnectionSwitch, and an event that is dropped or starts a handover.
LEMMA SwitchType ==
  ASSUME McTypeInv, NEW on \in BOOLEAN, SendRrcConnectionSwitch(on)
  PROVE  /\ lte' \in LteContext /\ lte'.cell = lte.cell /\ lte'.rnti = lte.rnti
         /\ lte'.isMc = lte.isMc /\ lte'.available = lte.available
         /\ dl' \in Seq(DlNamed) /\ x2' \in Seq(X2Named)
         /\ lte.cell = 0 => x2' = x2
<1>1. lte \in LteContext /\ (lte.isMc => lte.cell # 0 /\ lte.rnti # 0)
  BY DEF McTypeInv, McTypeOK, CellKnown
<1>2. dl' \in Seq(DlNamed)
  BY RrcMade DEF SendRrcConnectionSwitch, McTypeInv, Named
<1>3. x2' \in Seq(X2Named)
  <2>1. lte.isMc => SwitchAtMmWave(lte) \in X2Named
    BY <1>1, CoordinatorSends
  <2>2. x2' = x2 \/ (lte.isMc /\ x2' = Append(x2, SwitchAtMmWave(lte)))
    BY DEF SendRrcConnectionSwitch
  <2> QED
    BY <2>1, <2>2 DEF McTypeInv, Named
<1>4. lte' \in LteContext
  BY <1>1 DEF SendRrcConnectionSwitch, LteContext
<1>5. /\ lte'.cell = lte.cell /\ lte'.rnti = lte.rnti
      /\ lte'.isMc = lte.isMc /\ lte'.available = lte.available
  BY <1>1 DEF SendRrcConnectionSwitch, LteContext
<1>6. lte.cell = 0 => x2' = x2
  BY <1>1 DEF SendRrcConnectionSwitch
<1> QED
  BY <1>2, <1>3, <1>4, <1>5, <1>6

\* What starting a handover leaves of the coordinator's record.
LEMMA StartedType ==
  ASSUME NEW c \in Coordinator
  PROVE  /\ HandoverStarted(c) \in Coordinator /\ HandoverStarted(c).last = c.last
         /\ ~HandoverStarted(c).completed /\ HandoverStarted(c).event = NoEvent
         /\ HandoverStarted(c).usingLte = c.usingLte
         /\ HandoverStarted(c).outage = c.outage
         /\ [c EXCEPT !.event = NoEvent] \in Coordinator
<1> DEFINE Event == [source : Cells \union {0}, target : Cells \union {0}]
<1>1. NoEvent \in Event
  BY DEF NoEvent
<1> HIDE DEF Event
<1>2. /\ HandoverStarted(c) = [c EXCEPT !.event = NoEvent, !.completed = FALSE]
      /\ Coordinator = [completed : BOOLEAN, usingLte : BOOLEAN, last : Cells \union {0},
                        event : Event, best : BOOLEAN, outage : BOOLEAN,
                        controlled : BOOLEAN]
  BY DEF HandoverStarted, Coordinator, Event
<1> QED
  BY <1>1, <1>2

\* Perform keeps the types.
LEMMA PerformType ==
  ASSUME McTypeInv, NEW t \in Cells \union {0}, PerformFrom(co, t)
  PROVE  /\ co' \in Coordinator /\ co'.last = co.last /\ (co'.completed => co.completed)
         /\ x2' \in Seq(X2Named) /\ (lte.cell = 0 => x2' = x2)
<1>1. co \in Coordinator /\ (co.completed => co.last # 0 /\ lte.cell # 0)
  BY DEF McTypeInv, McTypeOK, CellKnown, CellsNamed
<1>2. co' \in Coordinator /\ co'.last = co.last /\ (co'.completed => co.completed)
  <2>1. co' = HandoverStarted(co) \/ co' = [co EXCEPT !.event = NoEvent]
    BY DEF PerformFrom
  <2>2. /\ [co EXCEPT !.event = NoEvent].last = co.last
        /\ [co EXCEPT !.event = NoEvent].completed = co.completed
    BY <1>1 DEF Coordinator
  <2> QED
    BY <1>1, <2>1, <2>2, StartedType
<1>3. co.completed => McHandoverRequest(co.last, t) \in X2Named
  BY <1>1, CoordinatorSends DEF Coordinator
<1> QED
  BY SMTT(40), <1>1, <1>2, <1>3 DEF PerformFrom, McTypeInv, Named

\* What does not touch the contexts, the UE and the messages from it.
LEMMA CoordinatorStepType ==
  ASSUME McTypeInv, co' \in Coordinator, co'.completed => co'.last # 0, co'.last = co.last,
         lte' \in LteContext, lte'.cell = lte.cell, lte'.rnti = lte.rnti,
         lte'.isMc = lte.isMc, lte'.available = lte.available,
         allowed' \subseteq Cells, dl' \in Seq(DlNamed), x2' \in Seq(X2Named),
         lte.cell = 0 => x2' = x2, UNCHANGED <<mm, newest, lastRnti, forward, ue, ul>>
  PROVE  McTypeInv'
<1>1. dl' \in Seq(DlMsg) /\ x2' \in Seq(McX2Msg)
  BY SeqMonotonic DEF DlNamed, X2Named
<1> QED
  BY <1>1 DEF McTypeInv, McTypeOK, Named, CellKnown, CellsNamed

\* AssociationUpdate keeps the types.
LEMMA AssociationUpdateType == McTypeInv /\ AssociationUpdate => McTypeInv'
<1> SUFFICES ASSUME McTypeInv, AssociationUpdate PROVE McTypeInv'
  OBVIOUS
<1>0. /\ co \in Coordinator /\ lte \in LteContext /\ allowed \subseteq Cells
      /\ dl \in Seq(DlNamed) /\ x2 \in Seq(X2Named) /\ (co.completed => co.last # 0)
  BY DEF McTypeInv, McTypeOK, Named, CellsNamed
<1>1. CASE DetectOutage
  <2>1. co' \in Coordinator /\ co'.last = co.last /\ co'.completed = co.completed
    BY <1>0, <1>1 DEF DetectOutage, InOutage, Coordinator, NoEvent
  <2> QED
    BY <1>0, <1>1, <2>1, SwitchType, CoordinatorStepType DEF DetectOutage
<1>2. CASE FirstBestCell
  <2>1. co' \in Coordinator /\ co'.last = co.last /\ co'.completed = co.completed
    BY <1>0, <1>2 DEF FirstBestCell, Coordinator
  <2> QED
    BY <1>0, <1>2, <2>1, CoordinatorStepType DEF FirstBestCell
<1>3. CASE CancelHandover
  <2>1. co' \in Coordinator /\ co'.last = co.last /\ co'.completed = co.completed
    BY <1>0, <1>3 DEF CancelHandover, Coordinator, NoEvent
  <2> QED
    BY <1>0, <1>3, <2>1, CoordinatorStepType DEF CancelHandover
<1>4. ASSUME NEW max \in allowed, ConnectAfterOutage(max) PROVE McTypeInv'
  <2>1. co' \in Coordinator /\ co'.last = co.last /\ co'.completed = co.completed
    BY <1>0, <1>4 DEF ConnectAfterOutage, Coordinator
  <2>2. dl' \in Seq(DlNamed)
    BY <1>0, <1>4, RrcMade DEF ConnectAfterOutage
  <2> QED
    BY <1>0, <1>4, <2>1, <2>2, CoordinatorStepType DEF ConnectAfterOutage
<1>5. ASSUME NEW max \in allowed, ReturnToMmWave(max) PROVE McTypeInv'
  <2>1. CASE co.last = max
    <3>1. co' \in Coordinator /\ co'.last = co.last /\ co'.completed = co.completed
      BY <1>0, <1>5, <2>1 DEF ReturnToMmWave, Coordinator
    <3> QED
      BY <1>0, <1>5, <2>1, <3>1, SwitchType, CoordinatorStepType DEF ReturnToMmWave
  <2>2. CASE co.last # max
    <3>1. co' \in Coordinator /\ co'.last = co.last /\ ~co'.completed
      BY <1>0, <1>5, <2>2, StartedType DEF ReturnToMmWave
    <3>2. co.last \in Cells /\ lte.cell # 0
      <4>1. co.completed
        BY <1>5 DEF ReturnToMmWave
      <4>2. co.last # 0 /\ lte.cell # 0
        BY <1>0, <4>1 DEF McTypeInv, CellKnown
      <4> QED
        BY <1>0, <4>2 DEF Coordinator
    <3>3. McHandoverRequest(co.last, max) \in X2Named
      BY <1>0, <3>2, CoordinatorSends
    <3>4. x2' = Append(x2, McHandoverRequest(co.last, max))
      BY <1>5, <2>2 DEF ReturnToMmWave
    <3>5. x2' \in Seq(X2Named)
      BY <1>0, <3>3, <3>4
    <3> QED
      BY <1>0, <1>5, <2>2, <3>1, <3>2, <3>5, CoordinatorStepType DEF ReturnToMmWave
  <2> QED
    BY <2>1, <2>2
<1>6. ASSUME NEW max \in allowed, ScheduleHandover(max) PROVE McTypeInv'
  <2>1. co' \in Coordinator /\ co'.last = co.last /\ co'.completed = co.completed
    BY <1>0, <1>6 DEF ScheduleHandover, Coordinator
  <2> QED
    BY <1>0, <1>6, <2>1, CoordinatorStepType DEF ScheduleHandover
<1>7. ASSUME NEW max \in allowed, HandoverAtOnce(max) PROVE McTypeInv'
  BY <1>0, <1>7, PerformType, CoordinatorStepType DEF HandoverAtOnce
<1> QED
  BY <1>1, <1>2, <1>3, <1>4, <1>5, <1>6, <1>7 DEF AssociationUpdate

\* The end of the time to trigger; the RIC; cells turned off and on.
LEMMA PerformHandoverType == McTypeInv /\ PerformHandover => McTypeInv'
<1> SUFFICES ASSUME McTypeInv, PerformHandover PROVE McTypeInv'
  OBVIOUS
<1>0. /\ co \in Coordinator /\ lte \in LteContext /\ allowed \subseteq Cells
      /\ dl \in Seq(DlNamed) /\ x2 \in Seq(X2Named) /\ (co.completed => co.last # 0)
  BY DEF McTypeInv, McTypeOK, Named, CellsNamed
<1>1. CASE co.event.source = co.last
  <2>1. co.event.target \in Cells \union {0}
    BY <1>0 DEF Coordinator
  <2> QED
    BY <1>0, <1>1, <2>1, PerformType, CoordinatorStepType DEF PerformHandover
<1>2. CASE co.event.source # co.last
  BY <1>0, <1>2, CoordinatorStepType DEF PerformHandover, McAbort
<1> QED
  BY <1>1, <1>2

\* Evict keeps the types.
LEMMA EvictType ==
  ASSUME McTypeInv, NEW ok \in SUBSET Cells, EvictUsers(ok)
  PROVE  /\ co' \in Coordinator /\ co'.last = co.last /\ (co'.completed => co.completed)
         /\ x2' \in Seq(X2Named) /\ (lte.cell = 0 => x2' = x2)
<1>1. CASE co.last = 0 \/ co.last \in ok
  BY <1>1 DEF EvictUsers, McTypeInv, McTypeOK, Named
<1>2. CASE ~(co.last = 0 \/ co.last \in ok)
  <2>1. PICK max \in Cells \union {0} : PerformFrom(co, max)
    BY <1>2 DEF EvictUsers
  <2> QED
    BY <2>1, PerformType
<1> QED
  BY <1>1, <1>2

\* McEnvironment keeps the types.
LEMMA McEnvironmentType == McTypeInv /\ McEnvironment => McTypeInv'
<1> SUFFICES ASSUME McTypeInv, McEnvironment PROVE McTypeInv'
  OBVIOUS
<1>0. /\ co \in Coordinator /\ lte \in LteContext /\ allowed \subseteq Cells
      /\ dl \in Seq(DlNamed) /\ x2 \in Seq(X2Named) /\ (co.completed => co.last # 0)
  BY DEF McTypeInv, McTypeOK, Named, CellsNamed
<1>1. CASE Reconfigure
  <2>1. lte' \in LteContext /\ lte'.cell = lte.cell /\ lte'.rnti = lte.rnti
        /\ lte'.isMc = lte.isMc /\ lte'.available = lte.available
    BY <1>0, <1>1 DEF Reconfigure, Reconfigured, LteContext, LteStates
  <2>2. Reconfiguration(lte) \in DlNamed
    BY <1>0, RrcMade
  <2>3. dl' = dl \/ dl' = Append(dl, Reconfiguration(lte))
    BY <1>1 DEF Reconfigure, Reconfigured
  <2>4. dl' \in Seq(DlNamed)
    BY <1>0, <2>2, <2>3
  <2> QED
    BY <1>0, <1>1, <2>1, <2>4, CoordinatorStepType DEF Reconfigure
<1>2. ASSUME NEW c \in Cells, RicHandover(c) PROVE McTypeInv'
  <2>1. co' \in Coordinator /\ co'.last = co.last /\ ~co'.completed
    BY <1>0, <1>2 DEF RicHandover, Coordinator
  <2>2. co.completed => co.last \in Cells /\ lte.cell # 0
    <3>1. co.last # 0 => lte.cell # 0
      BY DEF McTypeInv, CellKnown
    <3>2. co.last \in Cells \union {0}
      BY <1>0 DEF Coordinator
    <3> QED
      BY <1>0, <3>1, <3>2
  <2>3. x2' \in Seq(X2Named)
    BY <1>0, <1>2, <2>2, CoordinatorSends DEF RicHandover
  <2> QED
    BY <1>0, <1>2, <2>1, <2>2, <2>3, CoordinatorStepType DEF RicHandover
<1>3. ASSUME NEW c \in Cells, TurnOff(c) PROVE McTypeInv'
  BY <1>0, <1>3, EvictType, CoordinatorStepType DEF TurnOff
<1>4. ASSUME NEW c \in Cells, TurnOn(c) PROVE McTypeInv'
  <2>1. allowed' \subseteq Cells
    BY <1>0, <1>4 DEF TurnOn
  <2>2. CASE EvictUsers(allowed')
    BY <1>0, <1>4, <2>1, <2>2, EvictType, CoordinatorStepType DEF TurnOn
  <2>3. CASE UNCHANGED <<co, x2>>
    BY <1>0, <1>4, <2>1, <2>3, CoordinatorStepType DEF TurnOn
  <2> QED
    BY <1>4, <2>2, <2>3 DEF TurnOn
<1> QED
  BY <1>1, <1>2, <1>3, <1>4 DEF McEnvironment

-----------------------------------------------------------------------------
(* The UE's context at the LTE cell keeps the type invariant.              *)

\* SwitchToState(CONNECTED_NORMALLY) and ScheduleRrcConnectionReconfiguration.
LEMMA McConnectedType ==
  ASSUME NEW l \in LteContext
  PROVE  /\ Connected(l) \in LteContext /\ ConnectedDl(l) \in Seq(DlNamed)
         /\ Connected(l).cell = l.cell /\ Connected(l).rnti = l.rnti
         /\ Connected(l).isMc = l.isMc /\ Connected(l).available = l.available
         /\ Connected(l).leg = l.leg /\ Connected(l).bearer = l.bearer
<1>1. Connected(l) \in LteContext
  BY DEF Connected, LteContext, LteStates
<1>2. Reconfiguration(l) \in DlNamed
  BY RrcMade
<1>3. ConnectedDl(l) \in Seq(DlNamed)
  BY <1>2 DEF ConnectedDl
<1> QED
  BY <1>1, <1>3 DEF Connected, LteContext

\* McReconfigured keeps the types.
LEMMA McReconfiguredType ==
  ASSUME NEW l \in LteContext, dl \in Seq(DlNamed), Reconfigured(l)
  PROVE  /\ lte' \in LteContext /\ dl' \in Seq(DlNamed)
         /\ lte'.cell = l.cell /\ lte'.rnti = l.rnti
         /\ lte'.isMc = l.isMc /\ lte'.available = l.available
         /\ lte'.leg = l.leg /\ lte'.bearer = l.bearer
<1>1. Reconfiguration(l) \in DlNamed
  BY RrcMade
<1>2. dl' = dl \/ dl' = Append(dl, Reconfiguration(l))
  BY DEF Reconfigured
<1>3. dl' \in Seq(DlNamed)
  BY <1>1, <1>2
<1>4. lte' \in LteContext
  BY DEF Reconfigured, LteContext, LteStates
<1> QED
  BY <1>3, <1>4 DEF Reconfigured, LteContext

\* SetupDataRadioBearer keeps the types.
LEMMA SetupDataRadioBearerType == McTypeInv /\ SetupDataRadioBearer => McTypeInv'
<1> SUFFICES ASSUME McTypeInv, SetupDataRadioBearer PROVE McTypeInv'
  OBVIOUS
<1>0. /\ co \in Coordinator /\ lte \in LteContext /\ allowed \subseteq Cells
      /\ dl \in Seq(DlNamed) /\ x2 \in Seq(X2Named) /\ (co.completed => co.last # 0)
  BY DEF McTypeInv, McTypeOK, Named, CellsNamed
<1> DEFINE l == [lte EXCEPT !.bearer = TRUE]
<1>1. /\ l \in LteContext /\ l.cell = lte.cell /\ l.rnti = lte.rnti
      /\ l.isMc = lte.isMc /\ l.available = lte.available
  BY <1>0 DEF LteContext
<1>2. Reconfigured(l) /\ UNCHANGED <<co, allowed, mm, newest, lastRnti, forward, ue, ul, x2>>
  BY DEF SetupDataRadioBearer
<1> HIDE DEF l
<1> QED
  BY <1>0, <1>1, <1>2, McReconfiguredType, CoordinatorStepType

\* McSetupCompleted keeps the types.
LEMMA McSetupCompletedType == McTypeInv /\ RecvRrcConnectionSetupCompleted => McTypeInv'
<1> SUFFICES ASSUME McTypeInv, RecvRrcConnectionSetupCompleted PROVE McTypeInv'
  OBVIOUS
<1>0. /\ co \in Coordinator /\ lte \in LteContext /\ dl \in Seq(DlNamed)
      /\ ul \in Seq(UlNamed) /\ ul # <<>>
  BY DEF McTypeInv, McTypeOK, Named, RecvRrcConnectionSetupCompleted, UlArrived
<1>1. PICK outage \in BOOLEAN, c \in Cells :
        /\ co' = IF co.best /\ outage THEN [co EXCEPT !.outage = TRUE, !.usingLte = TRUE]
                                     ELSE co
        /\ dl' = dl \o (IF co.best /\ ~outage THEN <<ConnectToMmWave(c)>> ELSE <<>>)
                   \o ConnectedDl(lte)
  BY DEF RecvRrcConnectionSetupCompleted
<1>2. co' \in Coordinator /\ co'.last = co.last /\ co'.completed = co.completed
  BY <1>0, <1>1 DEF Coordinator
<1>3. dl' \in Seq(DlNamed)
  <2> DEFINE a == IF co.best /\ ~outage THEN <<ConnectToMmWave(c)>> ELSE <<>>
             b == ConnectedDl(lte)
  <2>1. a \in Seq(DlNamed) /\ b \in Seq(DlNamed)
    BY <1>0, RrcMade, McConnectedType
  <2>2. dl' = (dl \o a) \o b
    BY <1>1
  <2> HIDE DEF a, b
  <2> QED
    BY <1>0, <2>1, <2>2
<1>4. dl' \in Seq(DlMsg) /\ ul' \in Seq(UlNamed) /\ ul' \in Seq(UlMsg)
  <2>1. ul' = Tail(ul)
    BY DEF RecvRrcConnectionSetupCompleted
  <2>2. ul' \in Seq(UlNamed)
    BY <1>0, <2>1
  <2> QED
    BY <1>3, <2>2, SeqMonotonic DEF DlNamed, UlNamed
<1>5. /\ lte' \in LteContext /\ lte'.cell = lte.cell /\ lte'.rnti = lte.rnti
      /\ lte'.isMc = lte.isMc /\ lte'.available = lte.available
  BY <1>0, McConnectedType DEF RecvRrcConnectionSetupCompleted
<1> QED
  BY <1>2, <1>3, <1>4, <1>5
  DEF RecvRrcConnectionSetupCompleted, McTypeInv, McTypeOK, Named, CellKnown, CellsNamed

\* AccessSuccessful keeps the types.
LEMMA AccessSuccessfulType ==
  McTypeInv /\ RecvSecondaryCellInitialAccessSuccessful => McTypeInv'
<1> SUFFICES ASSUME McTypeInv, RecvSecondaryCellInitialAccessSuccessful PROVE McTypeInv'
  OBVIOUS
<1> DEFINE k == Head(ul).id
           l == AtCell(lte, k)
<1>0. /\ lte \in LteContext /\ x2 \in Seq(X2Named) /\ ul \in Seq(UlNamed) /\ ul # <<>>
      /\ Head(ul).type = "SECONDARY_CONNECTED"
  BY DEF McTypeInv, McTypeOK, Named, RecvSecondaryCellInitialAccessSuccessful, UlArrived
<1>1. k \in Ids
  <2>1. Head(ul) \in UlNamed
    BY <1>0
  <2> QED
    BY <1>0, <2>1 DEF UlNamed
<1>2. l \in LteContext /\ l.cell # 0 /\ l.rnti # 0
  <2>1. k[1] \in Cells /\ k[2] \in Rntis /\ k[1] # 0 /\ k[2] # 0
    BY <1>1, McIdParts, McNotZero
  <2> HIDE DEF k
  <2> QED
    BY <1>0, <2>1 DEF AtCell, LteContext
<1>3. RlcSetupRequest(l) \in X2Named
  BY <1>2, CoordinatorSends
<1>4. lte' = l /\ (x2' = x2 \/ x2' = Append(x2, RlcSetupRequest(l))) /\ ul' = Tail(ul)
  BY DEF RecvSecondaryCellInitialAccessSuccessful
<1> HIDE DEF k, l
<1>5. x2' \in Seq(X2Named) /\ ul' \in Seq(UlNamed)
  BY SMTT(40), <1>0, <1>3, <1>4
<1>6. x2' \in Seq(McX2Msg) /\ ul' \in Seq(UlMsg)
  BY <1>5, SeqMonotonic DEF X2Named, UlNamed
<1> QED
  BY <1>2, <1>4, <1>5, <1>6
  DEF RecvSecondaryCellInitialAccessSuccessful, McTypeInv, McTypeOK, Named, CellKnown, CellsNamed

\* What the coordinator records when a cell serves the UE.
LEMMA ServedType ==
  ASSUME NEW c \in Coordinator, NEW cell \in Cells
  PROVE  /\ ServedBy(c, cell) \in Coordinator /\ ServedBy(c, cell).last = cell
         /\ ServedBy(c, cell).completed /\ ~ServedBy(c, cell).usingLte
         /\ ServedBy(c, cell).event = c.event /\ ServedBy(c, cell).outage = c.outage
BY DEF ServedBy, Coordinator

\* ReconfigurationCompleted keeps the types.
LEMMA ReconfigurationCompletedType ==
  McTypeInv /\ RecvRrcConnectionReconfigurationCompleted => McTypeInv'
<1> SUFFICES ASSUME McTypeInv, RecvRrcConnectionReconfigurationCompleted PROVE McTypeInv'
  OBVIOUS
<1>0. /\ lte \in LteContext /\ co \in Coordinator /\ dl \in Seq(DlNamed)
      /\ x2 \in Seq(X2Named) /\ ul \in Seq(UlNamed) /\ ul # <<>>
      /\ ul' = Tail(ul)
  BY DEF McTypeInv, McTypeOK, Named, RecvRrcConnectionReconfigurationCompleted, UlArrived
<1>1. ul' \in Seq(UlNamed) /\ ul' \in Seq(UlMsg)
  BY <1>0, SeqMonotonic DEF UlNamed
<1>2. CASE lte.st = "CONNECTED_NORMALLY"
  BY <1>1, <1>2
  DEF RecvRrcConnectionReconfigurationCompleted, McTypeInv, McTypeOK, Named, CellKnown,
      CellsNamed
<1>3. CASE lte.st # "CONNECTED_NORMALLY"
  <2> DEFINE mc == lte.st = "MC_CONNECTION_RECONFIGURATION" /\ lte.isMc
             c  == IF mc THEN ServedBy(co, lte.cell) ELSE co
             l  == IF mc THEN [lte EXCEPT !.leg = "mmwave"] ELSE lte
  <2>1. /\ co' = c /\ lte' = Connected(l) /\ dl' = dl \o ConnectedDl(l)
        /\ x2' = IF l.available /\ RlcWanted(l, c) THEN Append(x2, RlcSetupRequest(l)) ELSE x2
    BY <1>3 DEF RecvRrcConnectionReconfigurationCompleted
  <2>2. lte.isMc \/ lte.available \/ co.last # 0 => lte.cell \in Cells /\ lte.cell # 0 /\ lte.rnti # 0
    BY <1>0 DEF McTypeInv, CellKnown, LteContext
  <2>3. /\ c \in Coordinator /\ (c.completed => c.last # 0)
        /\ (lte.cell = 0 => c.last = 0)
    <3>1. CASE mc
      BY <1>0, <2>2, <3>1, ServedType
    <3>2. CASE ~mc
      BY <1>0, <2>2, <3>2 DEF McTypeInv, CellsNamed
    <3> HIDE DEF c, mc
    <3> QED
      BY <3>1, <3>2
  <2>4. /\ l \in LteContext /\ l.cell = lte.cell /\ l.rnti = lte.rnti
        /\ l.isMc = lte.isMc /\ l.available = lte.available
    BY <1>0 DEF LteContext
  <2> HIDE DEF c, l, mc
  <2>5. /\ lte' \in LteContext /\ lte'.cell = lte.cell /\ lte'.rnti = lte.rnti
        /\ lte'.isMc = lte.isMc /\ lte'.available = lte.available
    BY <2>1, <2>4, McConnectedType
  <2>6. dl' \in Seq(DlNamed) /\ dl' \in Seq(DlMsg)
    <3>1. dl' \in Seq(DlNamed)
      <4>1. ConnectedDl(l) \in Seq(DlNamed)
        BY <2>4, McConnectedType
      <4> QED
        BY <1>0, <2>1, <4>1
    <3> QED
      BY <3>1, SeqMonotonic DEF DlNamed
  <2>7. x2' \in Seq(X2Named) /\ x2' \in Seq(McX2Msg) /\ (lte.cell = 0 => x2' = x2)
    <3>1. CASE lte.available
      <4>1. RlcSetupRequest(l) \in X2Named
        BY <2>2, <2>4, <3>1, CoordinatorSends
      <4>2. x2' \in Seq(X2Named)
        BY <1>0, <2>1, <4>1
      <4> QED
        BY <2>2, <3>1, <4>2, SeqMonotonic DEF X2Named
    <3>2. CASE ~lte.available
      BY <1>0, <2>1, <2>4, <3>2, SeqMonotonic DEF X2Named
    <3> QED
      BY <3>1, <3>2
  <2> QED
    BY <1>1, <2>1, <2>3, <2>5, <2>6, <2>7
    DEF RecvRrcConnectionReconfigurationCompleted, McTypeInv, McTypeOK, Named, CellKnown,
        CellsNamed
<1> QED
  BY <1>2, <1>3

\* RlcSetupCompleted keeps the types.
LEMMA RlcSetupCompletedType ==
  ASSUME McTypeInv, NEW i \in DOMAIN x2, RecvRlcSetupCompleted(i)
  PROVE  McTypeInv'
<1> DEFINE l == [lte EXCEPT !.isMc = TRUE, !.pend = FALSE,
                            !.st = "MC_CONNECTION_RECONFIGURATION"]
<1>0. /\ lte \in LteContext /\ dl \in Seq(DlNamed) /\ x2 \in Seq(X2Named)
  BY DEF McTypeInv, McTypeOK, Named
<1>1. lte.cell # 0
  BY <1>0 DEF McTypeInv, CellKnown
<1>2. l \in LteContext /\ l.cell = lte.cell /\ l.rnti = lte.rnti
  BY <1>0 DEF LteContext, LteStates
<1>3. Reconfiguration(l) \in DlNamed
  BY <1>2, RrcMade
<1>4. lte' = l /\ dl' = Append(dl, Reconfiguration(l)) /\ x2' = RemoveAt(x2, i)
  BY DEF RecvRlcSetupCompleted, X2Taken
<1> HIDE DEF l
<1>5. dl' \in Seq(DlNamed) /\ x2' \in Seq(X2Named)
  BY <1>0, <1>3, <1>4, TakenNamed
<1>6. dl' \in Seq(DlMsg) /\ x2' \in Seq(McX2Msg)
  BY <1>5, SeqMonotonic DEF DlNamed, X2Named
<1> QED
  BY <1>1, <1>2, <1>4, <1>5, <1>6
  DEF RecvRlcSetupCompleted, McTypeInv, McTypeOK, Named, CellKnown, CellsNamed

\* SecondaryHandoverCompleted keeps the types.
LEMMA SecondaryHandoverCompletedType ==
  ASSUME McTypeInv, NEW i \in DOMAIN x2, RecvSecondaryCellHandoverCompleted(i)
  PROVE  McTypeInv'
<1> DEFINE m == x2[i]
           moves == lte.bearer /\ (~lte.isMc \/ co.last # m.from)
           r == McX2("CTX_RELEASE", Lte, lte.cell, 0, m.old, m.new, FALSE)
<1>0. /\ lte \in LteContext /\ co \in Coordinator /\ x2 \in Seq(X2Named)
      /\ (co.completed => co.last # 0)
  BY DEF McTypeInv, McTypeOK, Named, CellsNamed
<1>1. /\ lte' = [lte EXCEPT !.cell = m.from, !.rnti = m.new,
                            !.leg = IF moves THEN "mmwave" ELSE @]
      /\ co' = IF moves THEN ServedBy(co, m.from) ELSE co
      /\ x2' = Append(RemoveAt(x2, i), r)
      /\ UNCHANGED <<allowed, mm, newest, lastRnti, forward, ue, dl, ul, fault>>
  BY DEF RecvSecondaryCellHandoverCompleted, X2Answered, X2Taken
<1>2. m \in X2Named /\ m.from \in Cells /\ m.new \in Rntis /\ m.old \in Rntis \union {0}
  BY <1>0 DEF RecvSecondaryCellHandoverCompleted, X2Named, McX2Msg
<1>3. lte.cell \in Cells
  BY <1>0 DEF McTypeInv, CellKnown, LteContext
<1>4. r \in X2Named
  BY <1>2, <1>3, X2Made DEF X2Types
<1>5. RemoveAt(x2, i) \in Seq(X2Named)
  BY <1>0, TakenNamed
<1> HIDE DEF r, m
<1>6. x2' \in Seq(X2Named) /\ x2' \in Seq(McX2Msg)
  BY <1>1, <1>4, <1>5, SeqMonotonic DEF X2Named
<1>7. co' \in Coordinator /\ (co'.completed => co'.last # 0)
  <2>1. m.from # 0
    BY <1>2, McNotZero
  <2> QED
    BY <1>0, <1>1, <1>2, <2>1, ServedType
<1>8. lte' \in LteContext /\ lte'.cell # 0 /\ lte'.rnti # 0
  <2>1. m.from # 0 /\ m.new # 0
    BY <1>2, McNotZero
  <2> HIDE DEF moves
  <2> QED
    BY <1>0, <1>1, <1>2, <2>1 DEF LteContext
<1> QED
  BY <1>1, <1>6, <1>7, <1>8 DEF McTypeInv, McTypeOK, Named, CellKnown, CellsNamed

-----------------------------------------------------------------------------
(* The UE and the mmWave cells keep the type invariant.                    *)

\* A program that stops leaves every other variable alone.
LEMMA McAbortType == \A where : McTypeInv /\ McAbort(where) => McTypeInv'
BY DEF McAbort, McTypeInv, McTypeOK, Named, CellKnown, CellsNamed

\* McDownlinkStep keeps the types.
LEMMA McDownlinkStepType == McTypeInv /\ McDownlinkStep => McTypeInv'
<1> SUFFICES ASSUME McTypeInv, McDownlinkStep PROVE McTypeInv'
  OBVIOUS
<1>0. ue \in Ue /\ dl \in Seq(DlNamed) /\ ul \in Seq(UlNamed)
  BY DEF McTypeInv, McTypeOK, Named
<1>1. dl # <<>> => Head(dl) \in DlNamed /\ Tail(dl) \in Seq(DlNamed) /\ Tail(dl) \in Seq(DlMsg)
  BY <1>0, SeqMonotonic DEF DlNamed
<1>2. CASE UeRecvConnectToMmWave
  <2>1. dl # <<>> /\ Head(dl).cell \in Cells
    BY <1>1, <1>2 DEF UeRecvConnectToMmWave, DlArrived, DlNamed
  <2>2. ue' \in Ue /\ ue'.id[1] \in Cells
    BY <1>0, <1>2, <2>1 DEF UeRecvConnectToMmWave, Ue
  <2> QED
    BY <1>1, <1>2, <2>1, <2>2
    DEF UeRecvConnectToMmWave, McTypeInv, McTypeOK, Named, CellKnown, CellsNamed
<1>3. CASE UeRecvRrcConnectionReconfiguration
  <2>1. dl # <<>> /\ dl' = Tail(dl) /\ ul' = Append(ul, Up("RECONF_COMPLETE", NoId))
    BY <1>3 DEF UeRecvRrcConnectionReconfiguration, DlArrived
  <2>2. ue' \in Ue /\ ue'.id = ue.id /\ ue'.st = ue.st
    BY <1>0, <1>3 DEF UeRecvRrcConnectionReconfiguration, Ue
  <2>3. ul' \in Seq(UlNamed) /\ ul' \in Seq(UlMsg)
    <3>1. ul' \in Seq(UlNamed)
      BY <1>0, <2>1, RrcMade
    <3> QED
      BY <3>1, SeqMonotonic DEF UlNamed
  <2> QED
    BY <1>1, <1>3, <2>1, <2>2, <2>3
    DEF UeRecvRrcConnectionReconfiguration, McTypeInv, McTypeOK, Named, CellKnown, CellsNamed
<1>4. CASE UeRecvRrcConnectionSwitch
  <2>1. CASE Head(dl).on \/ ue.rlc
    <3>1. ue' \in Ue /\ ue'.id = ue.id /\ ue'.st = ue.st
      BY <1>0, <1>4, <2>1 DEF UeRecvRrcConnectionSwitch, Ue
    <3> QED
      BY <1>1, <1>4, <2>1, <3>1
      DEF UeRecvRrcConnectionSwitch, DlArrived, McTypeInv, McTypeOK, Named, CellKnown, CellsNamed
  <2>2. CASE ~(Head(dl).on \/ ue.rlc)
    BY <1>4, <2>2, McAbortType DEF UeRecvRrcConnectionSwitch
  <2> QED
    BY <2>1, <2>2
<1> QED
  BY <1>2, <1>3, <1>4 DEF McDownlinkStep

\* A changed context, and nothing else but X2, the routes and the fault.
LEMMA ContextStepType ==
  ASSUME McTypeInv, NEW k \in Ids, NEW m \in MmContext, mm' = [mm EXCEPT ![k] = m],
         lte.cell = 0 => x2' = x2 /\ m.queued = 0 /\ ~m.answered /\ m.command = NoId,
         x2' \in Seq(X2Named), forward' \in [Cells -> Cells \union {0}],
         newest' \in [Cells -> Rntis \union {0}], lastRnti' \in [Cells -> Rntis \union {0}],
         UNCHANGED <<co, allowed, lte, ue, dl, ul>>
  PROVE  McTypeInv'
<1>1. mm' \in [Ids -> MmContext] /\ \A j \in Ids : mm'[j] = IF j = k THEN m ELSE mm[j]
  BY DEF McTypeInv, McTypeOK
<1>2. x2' \in Seq(McX2Msg)
  BY SeqMonotonic DEF X2Named
<1> QED
  BY <1>1, <1>2 DEF McTypeInv, McTypeOK, Named, CellKnown, CellsNamed

\* UeConnectSecondary keeps the types.
LEMMA UeConnectSecondaryType == McTypeInv /\ UeConnectSecondary => McTypeInv'
<1> SUFFICES ASSUME McTypeInv, UeConnectSecondary PROVE McTypeInv'
  OBVIOUS
<1> DEFINE c == ue.id[1]
           k == <<c, NextRnti(c)>>
           m == [MmBlank EXCEPT !.st = "CONNECTED_NORMALLY"]
<1>0. ue \in Ue /\ mm \in [Ids -> MmContext] /\ ul \in Seq(UlNamed) /\ c \in Cells /\ CanAddUe(c)
      /\ newest \in [Cells -> Rntis \union {0}] /\ lastRnti \in [Cells -> Rntis \union {0}]
  BY DEF McTypeInv, McTypeOK, Named, CellsNamed, UeConnectSecondary
<1>1. NextRnti(c) \in Rntis /\ k \in Ids
  BY <1>0, NextRntiFree, McIdParts
<1>2. m \in MmContext /\ m.queued = 0 /\ ~m.answered /\ m.command = NoId
  BY MmBlankType DEF MmContext, MmStates, MmBlank
<1>3. /\ mm' = [mm EXCEPT ![k] = m]
      /\ newest' = [newest EXCEPT ![c] = NextRnti(c)]
      /\ lastRnti' = [lastRnti EXCEPT ![c] = NextRnti(c)]
      /\ ue' = [ue EXCEPT !.st = "CONNECTED_NORMALLY", !.id = k, !.known = k]
      /\ ul' = Append(ul, Up("SECONDARY_CONNECTED", k))
      /\ UNCHANGED <<co, allowed, lte, forward, dl, x2, fault>>
  BY DEF UeConnectSecondary
<1> HIDE DEF k, m
<1>4. ue' \in Ue /\ ue'.st # "CAMPED"
  BY <1>0, <1>1, <1>3 DEF Ue
<1>5. ul' \in Seq(UlNamed) /\ ul' \in Seq(UlMsg)
  <2>1. ul' \in Seq(UlNamed)
    BY <1>0, <1>1, <1>3, RrcMade
  <2> QED
    BY <2>1, SeqMonotonic DEF UlNamed
<1>6. mm' \in [Ids -> MmContext] /\ \A j \in Ids : mm'[j] = m \/ mm'[j] = mm[j]
  BY <1>0, <1>2, <1>3
<1> HIDE DEF c
<1>7. newest' \in [Cells -> Rntis \union {0}] /\ lastRnti' \in [Cells -> Rntis \union {0}]
  BY <1>0, <1>1, <1>3
<1> QED
  BY <1>2, <1>3, <1>4, <1>5, <1>6, <1>7
  DEF McTypeInv, McTypeOK, Named, CellKnown, CellsNamed

\* UeHandoverAccess keeps the types.
LEMMA UeHandoverAccessType == McTypeInv /\ UeHandoverAccess => McTypeInv'
<1> SUFFICES ASSUME McTypeInv, UeHandoverAccess PROVE McTypeInv'
  OBVIOUS
<1>0. ue \in Ue /\ mm \in [Ids -> MmContext] /\ ue.id \in Ids
  BY DEF McTypeInv, McTypeOK, UeHandoverAccess, Exists
<1>1. ue' \in Ue /\ ue'.st = "CONNECTED_NORMALLY"
  BY <1>0 DEF UeHandoverAccess, Ue
<1> DEFINE c == [mm[ue.id] EXCEPT !.answered = TRUE]
<1>2. mm' \in [Ids -> MmContext]
  <2>0. mm[ue.id] \in MmContext
    BY <1>0
  <2>1. c \in MmContext
    BY <2>0 DEF MmContext
  <2>2. mm' = [mm EXCEPT ![ue.id] = c]
    BY DEF UeHandoverAccess
  <2> HIDE DEF c
  <2> QED
    BY <1>0, <2>1, <2>2
<1> HIDE DEF c
<1>3. lte.cell # 0
  BY DEF McTypeInv, CellKnown, UeHandoverAccess
<1> QED
  BY <1>1, <1>2, <1>3
  DEF UeHandoverAccess, McTypeInv, McTypeOK, Named, CellKnown, CellsNamed

\* UeRecvHandoverCommand keeps the types.
LEMMA UeRecvHandoverCommandType ==
  ASSUME McTypeInv, NEW k \in Ids, UeRecvHandoverCommand(k)
  PROVE  McTypeInv'
<1>0. /\ ue \in Ue /\ mm \in [Ids -> MmContext] /\ mm[k] \in MmContext
      /\ mm[k].command \in Ids
  BY DEF McTypeInv, McTypeOK, UeRecvHandoverCommand, MmContext
<1>1. CASE k[2] # ue.known[2]
  BY <1>1, McAbortType DEF UeRecvHandoverCommand
<1>2. CASE k[2] = ue.known[2]
  <2>1. mm[mm[k].command].rlc \in BOOLEAN
    BY <1>0 DEF MmContext
  <2>2. ue' \in Ue /\ ue'.st = "CONNECTED_HANDOVER"
    BY <1>0, <1>2, <2>1 DEF UeRecvHandoverCommand, Ue
  <2>3. mm' \in [Ids -> MmContext]
    BY <1>0, <1>2 DEF UeRecvHandoverCommand, MmContext
  <2>4. lte.cell # 0
    BY DEF McTypeInv, CellKnown, UeRecvHandoverCommand
  <2> QED
    BY <1>2, <2>2, <2>3, <2>4
    DEF UeRecvHandoverCommand, McTypeInv, McTypeOK, Named, CellKnown, CellsNamed
<1> QED
  BY <1>1, <1>2

\* RecvHandoverCompletedByUe keeps the types.
LEMMA RecvHandoverCompletedByUeType ==
  ASSUME McTypeInv, NEW k \in Ids, RecvHandoverCompletedByUe(k)
  PROVE  McTypeInv'
<1> DEFINE done == McX2("HO_COMPLETED", k[1], Lte, 0, mm[k].sourceRnti, k[2], FALSE)
           m    == [mm[k] EXCEPT !.st = "CONNECTED_NORMALLY", !.answered = FALSE]
<1>0. /\ mm \in [Ids -> MmContext] /\ mm[k] \in MmContext /\ x2 \in Seq(X2Named)
      /\ forward \in [Cells -> Cells \union {0}]
      /\ newest \in [Cells -> Rntis \union {0}] /\ lastRnti \in [Cells -> Rntis \union {0}]
      /\ lte.cell # 0
  BY DEF McTypeInv, McTypeOK, Named, CellKnown, RecvHandoverCompletedByUe
<1>1. CASE mm[k].st \notin {"CONNECTED_NORMALLY", "HANDOVER_LEAVING", "HANDOVER_JOINING"}
  BY <1>1, McAbortType DEF RecvHandoverCompletedByUe
<1>3. CASE mm[k].st \in {"CONNECTED_NORMALLY", "HANDOVER_LEAVING"}
  <2> DEFINE kept == [mm[k] EXCEPT !.answered = FALSE]
  <2>1. /\ mm' = [mm EXCEPT ![k] = kept]
        /\ UNCHANGED <<co, allowed, lte, newest, lastRnti, forward, ue, dl, ul, x2, fault>>
    BY <1>3 DEF RecvHandoverCompletedByUe
  <2>2. kept \in MmContext
    BY <1>0 DEF MmContext
  <2> HIDE DEF kept
  <2> QED
    BY <1>0, <2>1, <2>2, ContextStepType
<1>2. CASE mm[k].st = "HANDOVER_JOINING"
  <2>1. done \in X2Named
    <3>1. k[1] \in Cells /\ k[2] \in Rntis /\ mm[k].sourceRnti \in Rntis \union {0}
      BY <1>0, McIdParts DEF MmContext
    <3> QED
      BY <3>1, X2Made DEF X2Types
  <2>2. m \in MmContext
    BY <1>0 DEF MmContext, MmStates
  <2> HIDE DEF done
  <2>3. CASE m.queued # 0
    <3>1. /\ mm' = [mm EXCEPT ![k] = Prepared(m, m.queued)]
          /\ x2' = Append(Append(x2, done), HandoverRequest(k, m, m.queued))
          /\ UNCHANGED <<co, allowed, lte, newest, lastRnti, forward, ue, dl, ul, fault>>
      BY <1>2, <2>3 DEF RecvHandoverCompletedByUe, done
    <3> HIDE DEF m
    <3>2. Prepared(m, m.queued) \in MmContext
      BY <2>2 DEF Prepared, MmContext, MmStates
    <3>3. HandoverRequest(k, m, m.queued) \in X2Named
      <4>1. k[1] \in Cells /\ k[2] \in Rntis /\ m.queued \in Cells /\ m.request \in BOOLEAN
        BY <2>2, <2>3, McIdParts DEF MmContext
      <4> QED
        BY <4>1, X2Made DEF X2Types, HandoverRequest
    <3>4. x2' \in Seq(X2Named)
      BY <1>0, <2>1, <3>1, <3>3
    <3> QED
      BY <1>0, <3>1, <3>2, <3>4, ContextStepType
  <2>4. CASE m.queued = 0
    <3>1. /\ mm' = [mm EXCEPT ![k] = m] /\ x2' = Append(x2, done)
          /\ UNCHANGED <<co, allowed, lte, newest, lastRnti, forward, ue, dl, ul, fault>>
      BY <1>2, <2>4 DEF RecvHandoverCompletedByUe, done
    <3> HIDE DEF m
    <3>2. x2' \in Seq(X2Named)
      BY <1>0, <2>1, <3>1
    <3> QED
      BY <1>0, <2>2, <3>1, <3>2, ContextStepType
  <2> QED
    BY <2>3, <2>4
<1> QED
  BY <1>1, <1>2, <1>3

-----------------------------------------------------------------------------
(* The handlers of X2 messages keep the type invariant.                    *)

\* What an X2 handler finds: a message and the queue without it.
LEMMA X2Found ==
  ASSUME McTypeInv, NEW i \in DOMAIN x2
  PROVE  /\ x2[i] \in X2Named /\ x2[i] \in McX2Msg /\ X2Taken(i) \in Seq(X2Named)
         /\ \A m \in X2Named : X2Answered(i, m) \in Seq(X2Named)
         /\ x2 # <<>> /\ lte.cell # 0
         /\ mm \in [Ids -> MmContext] /\ \A k \in Ids : mm[k] \in MmContext
         /\ forward \in [Cells -> Cells \union {0}]
         /\ newest \in [Cells -> Rntis \union {0}] /\ lastRnti \in [Cells -> Rntis \union {0}]
<1>1. x2 \in Seq(X2Named)
  BY DEF McTypeInv, Named
<1>2. x2[i] \in X2Named /\ x2[i] \in McX2Msg /\ x2 # <<>>
  BY <1>1 DEF X2Named
<1>3. X2Taken(i) \in Seq(X2Named)
  BY <1>1, TakenNamed DEF X2Taken
<1>4. \A m \in X2Named : X2Answered(i, m) \in Seq(X2Named)
  BY <1>3 DEF X2Answered
<1> QED
  BY <1>2, <1>3, <1>4 DEF McTypeInv, McTypeOK, CellKnown

\* RlcRequest keeps the types.
LEMMA RlcRequestType ==
  ASSUME McTypeInv, NEW i \in DOMAIN x2, RecvRlcSetupRequest(i)
  PROVE  McTypeInv'
<1> DEFINE k == <<x2[i].to, x2[i].new>>
           done == McX2("RLC_COMPLETED", k[1], Lte, 0, 0, k[2], FALSE)
<1>1. CASE ~Exists(k)
  BY <1>1, McAbortType DEF RecvRlcSetupRequest, UeManagerNotFound
<1>2. CASE Exists(k)
  <2>1. k \in Ids /\ k[1] \in Cells /\ k[2] \in Rntis
    BY <1>2, McIdParts DEF Exists
  <2>2. done \in X2Named
    BY <2>1, X2Made DEF X2Types
  <2>3. RlcSet(mm[k]) \in MmContext
    BY <2>1, X2Found DEF RlcSet, MmContext
  <2>4. /\ mm' = [mm EXCEPT ![k] = RlcSet(mm[k])]
        /\ x2' = X2Taken(i) \/ x2' = X2Answered(i, done)
        /\ UNCHANGED <<co, allowed, lte, newest, lastRnti, forward, ue, dl, ul, fault>>
    BY <1>2 DEF RecvRlcSetupRequest
  <2> HIDE DEF k, done
  <2>5. x2' \in Seq(X2Named)
    BY <2>2, <2>4, X2Found
  <2> QED
    BY <2>1, <2>3, <2>4, <2>5, X2Found, ContextStepType
<1> QED
  BY <1>1, <1>2

\* ConnectionSwitch keeps the types.
LEMMA ConnectionSwitchType ==
  ASSUME McTypeInv, NEW i \in DOMAIN x2, RecvConnectionSwitchToMmWave(i)
  PROVE  McTypeInv'
<1> DEFINE k == <<x2[i].to, x2[i].new>>
           m == [mm[k] EXCEPT !.target = Lte]
<1>1. CASE ~Exists(k) \/ ~mm[k].rlc
  BY <1>1, McAbortType DEF RecvConnectionSwitchToMmWave, UeManagerNotFound
<1>2. CASE Exists(k) /\ mm[k].rlc
  <2>1. k \in Ids
    BY <1>2 DEF Exists
  <2>2. m \in MmContext
    BY ZenonT(40), <2>1, X2Found DEF MmContext
  <2>3. /\ mm' = [mm EXCEPT ![k] = m] /\ x2' = X2Taken(i)
        /\ UNCHANGED <<co, allowed, lte, newest, lastRnti, forward, ue, dl, ul, fault>>
    BY <1>2 DEF RecvConnectionSwitchToMmWave
  <2> HIDE DEF k, m
  <2> QED
    BY <2>1, <2>2, <2>3, X2Found, ContextStepType
<1> QED
  BY <1>1, <1>2

\* McHandoverRequest keeps the types.
LEMMA McHandoverRequestType ==
  ASSUME McTypeInv, NEW i \in DOMAIN x2, RecvMcHandoverRequest(i)
  PROVE  McTypeInv'
<1> DEFINE c == x2[i].to
           k == <<c, newest[c]>>
           target == x2[i].target
<1>1. CASE \/ ~Exists(k) \/ mm[k].st \notin {"CONNECTED_NORMALLY", "HANDOVER_JOINING"}
           \/ mm[k].st = "CONNECTED_NORMALLY" /\ target \in {0, c}
  BY <1>1, McAbortType DEF RecvMcHandoverRequest, UeManagerNotFound
<1>2. CASE ~(\/ ~Exists(k) \/ mm[k].st \notin {"CONNECTED_NORMALLY", "HANDOVER_JOINING"}
             \/ mm[k].st = "CONNECTED_NORMALLY" /\ target \in {0, c})
  <2>1. k \in Ids /\ k[1] \in Cells /\ k[2] \in Rntis /\ mm[k] \in MmContext
    BY <1>2, McIdParts, X2Found DEF Exists
  <2>2. target \in Cells \union {0} /\ x2[i].type = "MC_HO_REQUEST"
    BY X2Found DEF McX2Msg, RecvMcHandoverRequest
  <2>3. UNCHANGED <<co, allowed, lte, newest, lastRnti, forward, ue, dl, ul, fault>>
    BY <1>2 DEF RecvMcHandoverRequest
  <2>4. CASE mm[k].st = "CONNECTED_NORMALLY"
    <3>1. /\ mm' = [mm EXCEPT ![k] = Prepared(mm[k], target)]
          /\ x2' = X2Answered(i, HandoverRequest(k, mm[k], target))
      BY <1>2, <2>4 DEF RecvMcHandoverRequest
    <3>2. target \in Cells
      BY <1>2, <2>2, <2>4
    <3> HIDE DEF k, target
    <3>3. Prepared(mm[k], target) \in MmContext
      BY <2>1, <3>2 DEF Prepared, MmContext, MmStates
    <3>4. HandoverRequest(k, mm[k], target) \in X2Named
      <4>1. mm[k].request \in BOOLEAN
        BY <2>1 DEF MmContext
      <4> QED
        BY <2>1, <3>2, <4>1, X2Made DEF X2Types, HandoverRequest
    <3>5. x2' \in Seq(X2Named)
      BY <3>1, <3>4, X2Found
    <3> QED
      BY <2>1, <2>3, <3>1, <3>3, <3>5, X2Found, ContextStepType
  <2>5. CASE mm[k].st # "CONNECTED_NORMALLY"
    <3>1. mm' = [mm EXCEPT ![k].queued = target] /\ x2' = X2Taken(i)
      BY <1>2, <2>5 DEF RecvMcHandoverRequest
    <3> DEFINE m == [mm[k] EXCEPT !.queued = target]
    <3>2. m \in MmContext
      BY <2>1, <2>2 DEF MmContext
    <3>3. mm' = [mm EXCEPT ![k] = m]
      BY <3>1
    <3> HIDE DEF k, m, target
    <3> QED
      BY <2>1, <2>3, <3>1, <3>2, <3>3, X2Found, ContextStepType
  <2> QED
    BY <2>4, <2>5
<1> QED
  BY <1>1, <1>2

\* HandoverRequest keeps the types.
LEMMA HandoverRequestType ==
  ASSUME McTypeInv, NEW i \in DOMAIN x2, RecvHandoverRequest(i)
  PROVE  McTypeInv'
<1> DEFINE m == x2[i]
           r == NextRnti(m.to)
           k == <<m.to, r>>
           ack == McX2("HO_ACK", m.to, m.from, 0, m.old, r, FALSE)
<1>1. CASE ~CanAddUe(m.to)
  BY <1>1, McAbortType DEF RecvHandoverRequest
<1>2. CASE CanAddUe(m.to)
  <2>1. m.from \in Cells /\ m.to \in Cells /\ m.old \in Rntis /\ m.rlc \in BOOLEAN
    BY X2Found DEF RecvHandoverRequest, X2Named, McX2Msg
  <2>2. r \in Rntis /\ k \in Ids
    BY <1>2, <2>1, NextRntiFree, X2Found, McIdParts
  <2>3. ack \in X2Named
    BY <2>1, <2>2, X2Made DEF X2Types
  <2>4. Joining(m) \in MmContext
    <3> HIDE DEF m
    <3> QED
      BY <2>1, MmBlankType DEF Joining, RlcSet, MmContext, MmStates
  <2>5. /\ mm' = [mm EXCEPT ![k] = Joining(m)] /\ x2' = X2Answered(i, ack)
        /\ newest' = [newest EXCEPT ![m.to] = r] /\ lastRnti' = [lastRnti EXCEPT ![m.to] = r]
        /\ UNCHANGED <<co, allowed, lte, forward, ue, dl, ul, fault>>
    BY <1>2 DEF RecvHandoverRequest
  <2> HIDE DEF m, r, k, ack
  <2>6. x2' \in Seq(X2Named)
    BY <2>3, <2>5, X2Found
  <2>7. newest' \in [Cells -> Rntis \union {0}] /\ lastRnti' \in [Cells -> Rntis \union {0}]
    BY <2>1, <2>2, <2>5, X2Found
  <2> QED
    BY <2>2, <2>4, <2>5, <2>6, <2>7, X2Found, ContextStepType
<1> QED
  BY <1>1, <1>2

\* HandoverRequestAck keeps the types.
LEMMA HandoverRequestAckType ==
  ASSUME McTypeInv, NEW i \in DOMAIN x2, RecvHandoverRequestAck(i)
  PROVE  McTypeInv'
<1> DEFINE c == x2[i].to
           k == <<c, x2[i].old>>
           m == [mm[k] EXCEPT !.st = "HANDOVER_LEAVING",
                              !.command = <<x2[i].from, x2[i].new>>]
<1>1. CASE ~Exists(k) \/ (mm[k].rlc /\ forward[c] # 0)
  BY <1>1, McAbortType DEF RecvHandoverRequestAck, UeManagerNotFound
<1>2. CASE Exists(k) /\ ~(mm[k].rlc /\ forward[c] # 0)
  <2>1. k \in Ids /\ c \in Cells /\ mm[k] \in MmContext
    BY <1>2, McIdParts, X2Found DEF Exists
  <2>2. x2[i].from \in Cells /\ <<x2[i].from, x2[i].new>> \in Ids
    BY X2Found, McIdParts DEF RecvHandoverRequestAck, X2Named
  <2>3. m \in MmContext
    <3> DEFINE command == <<x2[i].from, x2[i].new>>
    <3> HIDE DEF command, k
    <3> QED
      BY <2>1, <2>2 DEF MmContext, MmStates, command
  <2>4. /\ mm' = [mm EXCEPT ![k] = m] /\ x2' = X2Taken(i)
        /\ forward' = IF mm[k].rlc THEN [forward EXCEPT ![c] = x2[i].from] ELSE forward
        /\ UNCHANGED <<co, allowed, lte, newest, lastRnti, ue, dl, ul, fault>>
    BY <1>2 DEF RecvHandoverRequestAck
  <2> HIDE DEF k, m, c
  <2>5. forward' \in [Cells -> Cells \union {0}]
    BY <2>1, <2>2, <2>4, X2Found
  <2> QED
    BY <2>1, <2>3, <2>4, <2>5, X2Found, ContextStepType
<1> QED
  BY <1>1, <1>2

\* ContextRelease keeps the types.
LEMMA ContextReleaseType ==
  ASSUME McTypeInv, NEW i \in DOMAIN x2, RecvUeContextRelease(i)
  PROVE  McTypeInv'
<1> DEFINE c == x2[i].to
           k == <<c, x2[i].old>>
<1>1. CASE \/ ~Exists(k) \/ mm[k].st # "HANDOVER_LEAVING" \/ (mm[k].rlc /\ forward[c] = 0)
  BY <1>1, McAbortType DEF RecvUeContextRelease, UeManagerNotFound
<1>2. CASE ~(\/ ~Exists(k) \/ mm[k].st # "HANDOVER_LEAVING" \/ (mm[k].rlc /\ forward[c] = 0))
  <2>1. k \in Ids /\ c \in Cells
    BY <1>2, McIdParts DEF Exists
  <2>2. /\ mm' = [mm EXCEPT ![k] = MmBlank] /\ x2' = X2Taken(i)
        /\ forward' = IF mm[k].rlc THEN [forward EXCEPT ![c] = 0] ELSE forward
        /\ UNCHANGED <<co, allowed, lte, newest, lastRnti, ue, dl, ul, fault>>
    BY <1>2 DEF RecvUeContextRelease
  <2> HIDE DEF k, c
  <2>3. forward' \in [Cells -> Cells \union {0}]
    BY <2>1, <2>2, X2Found
  <2> QED
    BY <2>1, <2>2, <2>3, MmBlankType, X2Found, ContextStepType
<1> QED
  BY <1>1, <1>2

-----------------------------------------------------------------------------
(* The type invariant.                                                     *)

\* The initial state is in its types.
LEMMA McInitType == McInit => McTypeInv
<1> SUFFICES ASSUME McInit PROVE McTypeInv
  OBVIOUS
<1>1. /\ co \in Coordinator /\ allowed \subseteq Cells /\ lte \in LteContext /\ ue \in Ue
  BY DEF McInit, Coordinator, NoEvent, LteContext, LteStates, Ue, NoId
<1>2. /\ mm \in [Ids -> MmContext] /\ newest \in [Cells -> Rntis \union {0}]
      /\ lastRnti \in [Cells -> Rntis \union {0}] /\ forward \in [Cells -> Cells \union {0}]
      /\ \A k \in Ids : mm[k].queued = 0 /\ ~mm[k].answered /\ mm[k].command = NoId
  <2>1. MmBlank.queued = 0 /\ ~MmBlank.answered /\ MmBlank.command = NoId
    BY DEF MmBlank
  <2> QED
    BY <2>1, MmBlankType DEF McInit
<1>3. x2 \in Seq(X2Named) /\ dl \in Seq(DlNamed) /\ ul \in Seq(UlNamed)
  BY RrcMade DEF McInit
<1>4. x2 \in Seq(McX2Msg) /\ dl \in Seq(DlMsg) /\ ul \in Seq(UlMsg)
  BY <1>3, SeqMonotonic DEF X2Named, DlNamed, UlNamed
<1>5. CellKnown
  BY <1>2 DEF McInit, CellKnown
<1>6. CellsNamed
  BY DEF McInit, CellsNamed
<1> QED
  BY <1>1, <1>2, <1>3, <1>4, <1>5, <1>6 DEF McTypeInv, McTypeOK, Named

\* Every step keeps the types: one step of the proof per action.
LEMMA McNextType == McTypeInv /\ [McNext]_mcVars => McTypeInv'
<1> SUFFICES ASSUME McTypeInv, [McNext]_mcVars PROVE McTypeInv'
  OBVIOUS
<1>1. CASE AssociationUpdate
  BY <1>1, AssociationUpdateType
<1>2. CASE PerformHandover
  BY <1>2, PerformHandoverType
<1>3. CASE McRadioStep
  BY <1>3, McDownlinkStepType, McSetupCompletedType, AccessSuccessfulType,
     ReconfigurationCompletedType, UeConnectSecondaryType, UeHandoverAccessType
  DEF McRadioStep, McUplinkStep
<1>4. ASSUME NEW k \in Ids, McContextStep(k) PROVE McTypeInv'
  BY <1>4, UeRecvHandoverCommandType, RecvHandoverCompletedByUeType DEF McContextStep
<1>5. ASSUME NEW i \in DOMAIN x2, McX2Step(i) PROVE McTypeInv'
  BY <1>5, RlcRequestType, RlcSetupCompletedType, ConnectionSwitchType, McHandoverRequestType,
     HandoverRequestType, HandoverRequestAckType, SecondaryHandoverCompletedType,
     ContextReleaseType DEF McX2Step
<1>6. CASE SetupDataRadioBearer
  BY <1>6, SetupDataRadioBearerType
<1>7. CASE McEnvironment
  BY <1>7, McEnvironmentType
<1>8. CASE UNCHANGED mcVars
  BY <1>8 DEF mcVars, McTypeInv, McTypeOK, Named, CellKnown, CellsNamed
<1> QED
  BY <1>1, <1>2, <1>3, <1>4, <1>5, <1>6, <1>7, <1>8 DEF McNext

\* Every variable stays in its type, and messages name the cells and RNTIs that
\* their handlers look up, whatever the delays of the X2 links and the commands
\* of the RIC are (LteEnbRrc, EpcX2 and LteUeRrc with the secondary cells).
THEOREM McTypeCorrect == McSpec => []McTypeInv
<1>1. McInit => McTypeInv
  BY McInitType
<1>2. McTypeInv /\ [McNext]_mcVars => McTypeInv'
  BY McNextType
<1> QED
  BY <1>1, <1>2, PTL DEF McSpec

\* Type correctness as run dual checks it: the first part of the above.
THEOREM McTypes == McSpec => []McTypeOK
<1>1. McTypeInv => McTypeOK
  BY DEF McTypeInv
<1> QED
  BY <1>1, McTypeCorrect, PTL

-----------------------------------------------------------------------------
(* What the lock, the handover and the forwarding guarantee.  The proofs     *)
(* assume that X2 messages arrive in the order of sending (Fifo: a SWITCH    *)
(* and a request to the same cell may not pass each other), that the RIC     *)
(* does not ask for a handover while a local one is scheduled (NoRace: the   *)
(* run ric_race shows what happens otherwise), and that some cell cannot be  *)
(* turned off (Refuge: an eviction must have a target).                      *)
(*                                                                           *)
(* The invariant tells the life of the UE as a sequence of phases: its       *)
(* set-up up to the mmWave leg, and then the phases of a handover.  Each     *)
(* phase says which message the next step waits for, which contexts there    *)
(* are, where the UE is and what X2-U forwards.                              *)

Fifo   == EqualDelays
NoRace == ~RicRace
Refuge == Barrable # Cells

-----------------------------------------------------------------------------
(* The parts of the phases.                                                *)

\* The context that serves the UE, as the LTE cell knows it.
Home == <<lte.cell, lte.rnti>>

\* A queue s with exactly the messages of M, once each, and SWITCHes.
Carries(s, M) ==
  /\ \A i \in DOMAIN s : s[i].type # "SWITCH" => s[i] \in M
  /\ \A m \in M : m.type # "SWITCH" /\ \E i \in DOMAIN s : s[i] = m
  /\ \A i, j \in DOMAIN s : s[i] = s[j] /\ s[i].type # "SWITCH" => i = j

\* The contexts that a release, and a SWITCH, are meant for.
Released(m) == <<m.to, m.old>>
Switched(m) == <<m.to, m.new>>

\* X2 carries the messages H of a handover, after the releases R of contexts that
\* the UE has left.  What is sent after a release is not for the released context.
Queue(q, home, H, R) ==
  /\ Carries(q, H \union R)
  /\ \A m \in H : m.type \notin {"SWITCH", "CTX_RELEASE"}
  /\ \A m \in R : m.type = "CTX_RELEASE"
  /\ \A m, n \in R : m = n
  /\ \A i \in DOMAIN q : q[i].type = "SWITCH"
                         => Switched(q[i]) = home \/ \E m \in R : Switched(q[i]) = Released(m)
  /\ \A i, j \in DOMAIN q : i < j /\ q[j].type = "CTX_RELEASE" => q[i].type = "SWITCH"
  /\ \A i, j \in DOMAIN q : i < j /\ q[i].type = "CTX_RELEASE" /\ q[j].type = "SWITCH"
                            => Switched(q[j]) = home

\* Context k has its RLC and is not the target of a handover.
Holds(k, st, request, command) ==
  /\ k \in Ids
  /\ mm[k].st = st /\ mm[k].rlc /\ mm[k].request = request /\ mm[k].command = command
  /\ ~mm[k].answered /\ mm[k].queued = 0
UeAt(k)  == ue.st = "CONNECTED_NORMALLY" /\ ue.id = k /\ ue.known = k
Newest(k) == newest[k[1]] = k[2]

\* The context that the target cell has made for the UE.
Target(k, st, answered) ==
  /\ k \in Ids /\ k[1] # lte.cell /\ Newest(k)
  /\ mm[k].st = st /\ mm[k].rlc /\ mm[k].request /\ mm[k].command = NoId
  /\ mm[k].queued = 0 /\ mm[k].answered = answered
  /\ st = "HANDOVER_JOINING" => mm[k].sourceRnti = lte.rnti

NoForward  == \A c \in Cells : forward[c] = 0
Forward(k) == \A c \in Cells : forward[c] = IF c = lte.cell THEN k[1] ELSE 0

-----------------------------------------------------------------------------
(* The phases once the UE has its mmWave leg.                              *)

\* The UE is at its cell, and of what it has left at most one context waits for
\* its release.
AtHome(R) ==
  /\ Holds(Home, "CONNECTED_NORMALLY", TRUE, NoId) /\ UeAt(Home) /\ Newest(Home)
  /\ \A m \in R : /\ Holds(Released(m), "HANDOVER_LEAVING", FALSE, NoId)
                  /\ m.to \in Cells /\ m.to # lte.cell /\ forward[m.to] # 0
  /\ \A k \in Ids : k = Home \/ (\E m \in R : k = Released(m)) \/ mm[k] = MmBlank
  /\ \A c \in Cells : forward[c] = 0 \/ \E m \in R : m.to = c

Resting(R) == Queue(x2, Home, {}, R) /\ AtHome(R)

\* SendMcHandoverRequest, DoRecvMcHandoverRequest, DoRecvHandoverRequest,
\* RecvHandoverRequestAck,
Ordered(R, t) ==
  /\ t \in Cells \ {lte.cell}
  /\ Queue(x2, Home, {McHandoverRequest(lte.cell, t)}, R) /\ AtHome(R)
Requested(t) ==
  /\ t \in Cells \ {lte.cell}
  /\ Queue(x2, Home, {McX2("HO_REQUEST", lte.cell, t, 0, lte.rnti, 0, TRUE)}, {})
  /\ Holds(Home, "HANDOVER_PREPARATION", FALSE, NoId) /\ UeAt(Home) /\ Newest(Home)
  /\ \A k \in Ids : k = Home \/ mm[k] = MmBlank
  /\ NoForward
Acknowledged(k) ==
  /\ Queue(x2, Home, {McX2("HO_ACK", k[1], lte.cell, 0, lte.rnti, k[2], FALSE)}, {})
  /\ Holds(Home, "HANDOVER_PREPARATION", FALSE, NoId) /\ UeAt(Home) /\ Newest(Home)
  /\ Target(k, "HANDOVER_JOINING", FALSE)
  /\ \A j \in Ids : j = Home \/ j = k \/ mm[j] = MmBlank
  /\ NoForward
Commanded(k) ==
  /\ Queue(x2, Home, {}, {})
  /\ Holds(Home, "HANDOVER_LEAVING", FALSE, k) /\ UeAt(Home)
  /\ Target(k, "HANDOVER_JOINING", FALSE)
  /\ \A j \in Ids : j = Home \/ j = k \/ mm[j] = MmBlank
  /\ Forward(k)

\* the UE's handover, and the completion in the target cell.
Away(k, ueState, st, answered) ==
  /\ Holds(Home, "HANDOVER_LEAVING", FALSE, NoId)
  /\ ue.st = ueState /\ ue.id = k /\ ue.known = k
  /\ Target(k, st, answered)
  /\ \A j \in Ids : j = Home \/ j = k \/ mm[j] = MmBlank
  /\ Forward(k)
Accessing(k) == /\ Queue(x2, Home, {}, {})
                /\ Away(k, "CONNECTED_HANDOVER", "HANDOVER_JOINING", FALSE)
Answered(k)  == /\ Queue(x2, Home, {}, {})
                /\ Away(k, "CONNECTED_NORMALLY", "HANDOVER_JOINING", TRUE)
Reported(k)  ==
  /\ Queue(x2, Home, {McX2("HO_COMPLETED", k[1], Lte, 0, lte.rnti, k[2], FALSE)}, {})
  /\ Away(k, "CONNECTED_NORMALLY", "CONNECTED_NORMALLY", FALSE)

Releases(q) == {{}} \union {{q[i]} : i \in DOMAIN q}
Unlocked == \E R \in Releases(x2) : Resting(R)
Locked   == \/ \E R \in Releases(x2), t \in Cells : Ordered(R, t)
            \/ \E t \in Cells : Requested(t)
            \/ \E k \in Ids : \/ Acknowledged(k) \/ Commanded(k) \/ Accessing(k)
                              \/ Answered(k) \/ Reported(k)

\* The LTE radio link: a SWITCH to LTE finds the RLC of the UE.
RlcFirst(q, rlc) ==
  /\ \A i \in DOMAIN q : q[i].type = "SWITCH" /\ ~q[i].on =>
       rlc \/ \E j \in 1..(i - 1) : q[j].type = "RECONF" /\ q[j].on
  /\ rlc \/ \E j \in DOMAIN q : q[j].type = "RECONF" /\ q[j].on
Linked ==
  /\ lte.isMc /\ lte.bearer /\ Home \in Ids /\ ~co.outage
  /\ \A i \in DOMAIN dl : dl[i].type \in {"RECONF", "SWITCH"}
  /\ \A i \in DOMAIN ul : ul[i].type = "RECONF_COMPLETE"
  /\ RlcFirst(dl, ue.rlc)

Serving == /\ co.last # 0 /\ co.last = lte.cell /\ Linked
           /\ lte.st \in {"CONNECTED_NORMALLY", "CONNECTION_RECONFIGURATION"}
           /\ IF co.completed THEN Unlocked ELSE Locked

\* The mmWave leg is being added.
Activating == /\ co.last = 0 /\ ~co.completed /\ Linked /\ lte.leg = "lte"
              /\ lte.st = "MC_CONNECTION_RECONFIGURATION"
              /\ Resting({})

-----------------------------------------------------------------------------
(* The phases before.                                                      *)

Has(s, type) == \E i \in DOMAIN s : s[i].type = type
Once(s)      == \A i, j \in DOMAIN s : s[i].type = s[j].type => i = j

\* The one reconfiguration that the bearer needs.
BearerSetup ==
  /\ ~(Has(dl, "RECONF") /\ Has(ul, "RECONF_COMPLETE"))
  /\ lte.st \in {"CONNECTION_SETUP", "CONNECTED_NORMALLY", "CONNECTION_RECONFIGURATION"}
  /\ lte.st = "CONNECTION_SETUP" <=> Has(ul, "SETUP_COMPLETE")
  /\ lte.st = "CONNECTION_RECONFIGURATION" <=> Has(dl, "RECONF") \/ Has(ul, "RECONF_COMPLETE")
  /\ lte.st = "CONNECTION_RECONFIGURATION" => lte.bearer
  /\ lte.pend <=> lte.bearer /\ lte.st = "CONNECTION_SETUP"

NoContext == \A k \in Ids : mm[k] = MmBlank
Nowhere   == ~lte.available /\ lte.cell = 0 /\ x2 = <<>>
Pending(connect, connected, setup) ==
  /\ Has(dl, "CONNECT") = connect /\ Has(ul, "SECONDARY_CONNECTED") = connected
  /\ Has(ul, "SETUP_COMPLETE") = setup
First(k, rlc) ==
  /\ k \in Ids /\ UeAt(k) /\ Newest(k)
  /\ mm[k] = [MmBlank EXCEPT !.st = "CONNECTED_NORMALLY", !.rlc = rlc, !.request = rlc]
  /\ \A j \in Ids : j = k \/ mm[j] = MmBlank

Seeking   == /\ Nowhere /\ NoContext /\ ue.st = "IDLE"
             /\ \E setup \in BOOLEAN : Pending(FALSE, FALSE, setup) /\ (setup => ~co.outage)
Told      == /\ Nowhere /\ NoContext /\ ue.st = "IDLE" /\ ~co.outage
             /\ Pending(TRUE, FALSE, FALSE)
Camping   == /\ Nowhere /\ NoContext /\ ue.st = "CAMPED" /\ ~co.outage
             /\ Pending(FALSE, FALSE, FALSE)
Announced == Nowhere /\ First(ue.id, FALSE) /\ ~co.outage /\ Pending(FALSE, TRUE, FALSE)

\* The bearer waits for its reconfiguration, or the RLC has been asked for.
Known(rlc)  == ~co.outage /\ Pending(FALSE, FALSE, FALSE) /\ First(Home, rlc)
NotYetAsked == /\ Known(FALSE) /\ lte.available /\ x2 = <<>>
               /\ lte.bearer => lte.st = "CONNECTION_RECONFIGURATION"
Asking      == lte.bearer /\ (lte.available => lte.st = "CONNECTED_NORMALLY")
RlcAsked    == Known(FALSE) /\ Asking /\ x2 = <<RlcSetupRequest(lte)>>
RlcAnswered == /\ Known(TRUE) /\ Asking
               /\ x2 = <<McX2("RLC_COMPLETED", lte.cell, Lte, 0, 0, lte.rnti, FALSE)>>

Setup ==
  /\ co.last = 0 /\ ~co.completed /\ ~lte.isMc /\ lte.leg = "lte"
  /\ Once(dl) /\ Once(ul)
  /\ \A i \in DOMAIN dl : dl[i].type # "SWITCH"
  /\ \A i \in DOMAIN ul : ul[i].type = "SECONDARY_CONNECTED" => ul[i].id = ue.id
  /\ Has(ul, "SETUP_COMPLETE") => dl = <<>> /\ Len(ul) = 1
  /\ BearerSetup /\ NoForward
  /\ \/ Seeking \/ Told \/ Camping \/ Announced
     \/ NotYetAsked \/ RlcAsked \/ RlcAnswered

-----------------------------------------------------------------------------
Life  == Setup \/ Activating \/ Serving
McInv == /\ McNoAbort /\ Cells \ Barrable \subseteq allowed
         /\ EventIsCurrent /\ (Scheduled => co.event.target # 0)
         /\ LegFollowsCoordinator
         /\ Life
IInv  == McTypeInv /\ McInv

-----------------------------------------------------------------------------
(* X2 as one queue.                                                        *)

\* Between links of equal delay messages arrive in the order of sending.
LEMMA HeadNext ==
  ASSUME Fifo, NEW S, x2 \in Seq(S), NEW i \in DOMAIN x2, X2Next(i)
  PROVE  i = 1 /\ x2 # <<>> /\ x2[i] = Head(x2) /\ X2Taken(i) = Tail(x2)
<1>1. i \in 1..Len(x2) /\ Len(x2) \in Nat
  OBVIOUS
<1>2. i = 1
  <2>1. \A j \in 1..(i - 1) : FALSE
    BY DEF X2Next, Fifo
  <2> QED
    BY <1>1, <2>1
<1>3. SubSeq(x2, 1, 0) = <<>> /\ SubSeq(x2, 2, Len(x2)) = Tail(x2)
  BY <1>1, SubSeqEmpty, TailIsSubSeq
<1>4. Tail(x2) \in Seq(S)
  BY <1>1, <1>2
<1>5. X2Taken(1) = <<>> \o Tail(x2)
  BY <1>3 DEF X2Taken, RemoveAt
<1> QED
  BY <1>1, <1>2, <1>4, <1>5, ConcatEmptySeq

\* The elements of a queue with a message more, and with one less.
LEMMA AppendParts ==
  ASSUME NEW S, NEW q \in Seq(S), NEW m \in S
  PROVE  /\ Append(q, m) \in Seq(S) /\ DOMAIN Append(q, m) = DOMAIN q \union {Len(q) + 1}
         /\ Len(q) \in Nat /\ DOMAIN q = 1..Len(q)
         /\ \A i \in DOMAIN q : Append(q, m)[i] = q[i] /\ i \in Nat /\ i <= Len(q)
         /\ Append(q, m)[Len(q) + 1] = m
OBVIOUS

\* What taking the head off a sequence leaves, entry by entry.
LEMMA TailParts ==
  ASSUME NEW S, NEW q \in Seq(S), q # <<>>
  PROVE  /\ Tail(q) \in Seq(S) /\ Head(q) \in S /\ Head(q) = q[1] /\ 1 \in DOMAIN q
         /\ DOMAIN q \subseteq Nat \ {0}
         /\ \A i \in DOMAIN Tail(q) : i \in Nat \ {0} /\ i + 1 \in DOMAIN q /\ Tail(q)[i] = q[i + 1]
         /\ \A i \in DOMAIN q : i = 1 \/ (i - 1 \in DOMAIN Tail(q) /\ Tail(q)[i - 1] = q[i])
OBVIOUS

\* SWITCH is sent to the serving context,
LEMMA QueueSwitch ==
  ASSUME NEW S, NEW q \in Seq(S), NEW home, NEW H, NEW R, NEW m \in S,
         Queue(q, home, H, R), m.type = "SWITCH", Switched(m) = home
  PROVE  Queue(Append(q, m), home, H, R)
<1> DEFINE p == Append(q, m)
           n == Len(q) + 1
<1>1. /\ DOMAIN p = DOMAIN q \union {n} /\ p[n] = m /\ \A i \in DOMAIN q : p[i] = q[i] /\ i < n
      /\ n \in Nat /\ DOMAIN q \subseteq Nat
  BY AppendParts
<1> HIDE DEF p, n
<1>2. Carries(p, H \union R)
  BY <1>1 DEF Queue, Carries
<1>3. \A i \in DOMAIN p : p[i].type = "SWITCH"
           => Switched(p[i]) = home \/ \E r \in R : Switched(p[i]) = Released(r)
  BY <1>1 DEF Queue
<1>4. \A i, j \in DOMAIN p : i < j /\ p[j].type = "CTX_RELEASE" => p[i].type = "SWITCH"
  BY <1>1 DEF Queue
<1>5. \A i, j \in DOMAIN p : i < j /\ p[i].type = "CTX_RELEASE" /\ p[j].type = "SWITCH"
                            => Switched(p[j]) = home
  BY <1>1 DEF Queue
<1> QED
  BY <1>2, <1>3, <1>4, <1>5 DEF Queue, p

\* a message of a handover when there is none,
LEMMA QueueMessage ==
  ASSUME NEW S, NEW q \in Seq(S), NEW home, NEW R, NEW m \in S,
         Queue(q, home, {}, R), m.type \notin {"SWITCH", "CTX_RELEASE"}
  PROVE  Queue(Append(q, m), home, {m}, R)
<1> DEFINE p == Append(q, m)
           n == Len(q) + 1
<1>1. /\ DOMAIN p = DOMAIN q \union {n} /\ p[n] = m /\ \A i \in DOMAIN q : p[i] = q[i] /\ i < n
      /\ n \in Nat /\ DOMAIN q \subseteq Nat
  BY AppendParts
<1>0. m \notin R /\ \A i \in DOMAIN q : q[i] # m
  BY DEF Queue, Carries
<1> HIDE DEF p, n
<1>2. Carries(p, {m} \union R)
  <2>1. \A i \in DOMAIN p : p[i].type # "SWITCH" => p[i] \in {m} \union R
    BY <1>1 DEF Queue, Carries
  <2>2. \A r \in {m} \union R : r.type # "SWITCH" /\ \E i \in DOMAIN p : p[i] = r
    BY <1>1 DEF Queue, Carries
  <2>3. \A i, j \in DOMAIN p : p[i] = p[j] /\ p[i].type # "SWITCH" => i = j
    BY <1>0, <1>1 DEF Queue, Carries
  <2> QED
    BY <2>1, <2>2, <2>3 DEF Carries
<1>3. \A i \in DOMAIN p : p[i].type = "SWITCH"
           => Switched(p[i]) = home \/ \E r \in R : Switched(p[i]) = Released(r)
  BY <1>1 DEF Queue
<1>4. \A i, j \in DOMAIN p : i < j /\ p[j].type = "CTX_RELEASE" => p[i].type = "SWITCH"
  BY <1>1 DEF Queue
<1>5. \A i, j \in DOMAIN p : i < j /\ p[i].type = "CTX_RELEASE" /\ p[j].type = "SWITCH"
                            => Switched(p[j]) = home
  BY <1>1 DEF Queue
<1> QED
  BY <1>2, <1>3, <1>4, <1>5 DEF Queue, p

\* and a release when there is nothing but SWITCHes: another context serves now.
LEMMA QueueRelease ==
  ASSUME NEW S, NEW q \in Seq(S), NEW home, NEW next, NEW m \in S,
         Queue(q, home, {}, {}), m.type = "CTX_RELEASE", Released(m) = home
  PROVE  Queue(Append(q, m), next, {}, {m})
<1> DEFINE p == Append(q, m)
           n == Len(q) + 1
<1>1. /\ DOMAIN p = DOMAIN q \union {n} /\ p[n] = m /\ \A i \in DOMAIN q : p[i] = q[i] /\ i < n
      /\ n \in Nat /\ DOMAIN q \subseteq Nat
  BY AppendParts
<1>0. \A i \in DOMAIN q : q[i].type = "SWITCH" /\ Switched(q[i]) = home
  BY DEF Queue, Carries
<1> HIDE DEF p, n
<1>2. Carries(p, {m})
  BY <1>0, <1>1 DEF Carries
<1>3. \A i \in DOMAIN p : p[i].type = "SWITCH" => Switched(p[i]) = Released(m)
  BY <1>0, <1>1
<1>4. \A i, j \in DOMAIN p : i < j /\ p[j].type = "CTX_RELEASE" => p[i].type = "SWITCH"
  BY <1>0, <1>1
<1>5. \A i, j \in DOMAIN p : ~(i < j /\ p[i].type = "CTX_RELEASE" /\ p[j].type = "SWITCH")
  BY <1>0, <1>1
<1> QED
  BY <1>2, <1>3, <1>4, <1>5 DEF Queue, p

\* What is received first: a SWITCH,
LEMMA QueueTakeSwitch ==
  ASSUME NEW S, NEW q \in Seq(S), NEW home, NEW H, NEW R,
         Queue(q, home, H, R), q # <<>>, Head(q).type = "SWITCH"
  PROVE  /\ Switched(Head(q)) = home \/ \E m \in R : Switched(Head(q)) = Released(m)
         /\ Queue(Tail(q), home, H, R)
<1> DEFINE p == Tail(q)
           h == Head(q)
<1>1. /\ h = q[1] /\ 1 \in DOMAIN q /\ DOMAIN q \subseteq Nat \ {0}
      /\ \A i \in DOMAIN p : i \in Nat \ {0} /\ i + 1 \in DOMAIN q /\ p[i] = q[i + 1]
      /\ \A i \in DOMAIN q : i = 1 \/ (i - 1 \in DOMAIN p /\ p[i - 1] = q[i])
  BY TailParts
<1> HIDE DEF p, h
<1>2. h.type = "SWITCH"
  BY DEF h
<1>3. Switched(h) = home \/ \E m \in R : Switched(h) = Released(m)
  BY <1>1, <1>2 DEF Queue
<1>4. Carries(p, H \union R)
  <2>1. \A i \in DOMAIN p : p[i].type # "SWITCH" => p[i] \in H \union R
    BY <1>1 DEF Queue, Carries
  <2>2. \A r \in H \union R : r.type # "SWITCH" /\ \E i \in DOMAIN p : p[i] = r
    BY <1>1, <1>2 DEF Queue, Carries
  <2>3. \A i, j \in DOMAIN p : p[i] = p[j] /\ p[i].type # "SWITCH" => i = j
    BY <1>1 DEF Queue, Carries
  <2> QED
    BY <2>1, <2>2, <2>3 DEF Carries
<1>5. \A i \in DOMAIN p : p[i].type = "SWITCH"
           => Switched(p[i]) = home \/ \E r \in R : Switched(p[i]) = Released(r)
  BY <1>1 DEF Queue
<1>6. \A i, j \in DOMAIN p : i < j /\ p[j].type = "CTX_RELEASE" => p[i].type = "SWITCH"
  BY <1>1 DEF Queue
<1>7. \A i, j \in DOMAIN p : i < j /\ p[i].type = "CTX_RELEASE" /\ p[j].type = "SWITCH"
                            => Switched(p[j]) = home
  BY <1>1 DEF Queue
<1> QED
  BY <1>3, <1>4, <1>5, <1>6, <1>7 DEF Queue, p, h

\* a release, behind which no SWITCH is for the released context,
LEMMA QueueTakeRelease ==
  ASSUME NEW S, NEW q \in Seq(S), NEW home, NEW H, NEW R,
         Queue(q, home, H, R), q # <<>>, Head(q).type = "CTX_RELEASE"
  PROVE  R = {Head(q)} /\ Queue(Tail(q), home, H, {})
<1> DEFINE p == Tail(q)
           h == Head(q)
<1>1. /\ h = q[1] /\ 1 \in DOMAIN q /\ DOMAIN q \subseteq Nat \ {0}
      /\ \A i \in DOMAIN p : i \in Nat \ {0} /\ i + 1 \in DOMAIN q /\ p[i] = q[i + 1]
      /\ \A i \in DOMAIN q : i = 1 \/ (i - 1 \in DOMAIN p /\ p[i - 1] = q[i])
  BY TailParts
<1>2. h.type = "CTX_RELEASE"
  OBVIOUS
<1> HIDE DEF p, h
<1>3. h \in R /\ h \notin H /\ \A m \in R : m = h
  BY <1>1, <1>2 DEF Queue, Carries
<1>8. \A i \in DOMAIN p : p[i] # h
  BY <1>1, <1>2 DEF Queue, Carries
<1>4. Carries(p, H)
  <2>1. \A i \in DOMAIN p : p[i].type # "SWITCH" => p[i] \in H
    BY <1>1, <1>3, <1>8 DEF Queue, Carries
  <2>2. ASSUME NEW r \in H PROVE r.type # "SWITCH" /\ \E i \in DOMAIN p : p[i] = r
    <3>1. r.type # "SWITCH" /\ r # h
      BY <1>3 DEF Queue
    <3>2. PICK i \in DOMAIN q : q[i] = r
      BY DEF Queue, Carries
    <3>3. i - 1 \in DOMAIN p /\ p[i - 1] = r
      BY <1>1, <3>1, <3>2
    <3> QED
      BY <3>1, <3>3
  <2>3. \A i, j \in DOMAIN p : p[i] = p[j] /\ p[i].type # "SWITCH" => i = j
    BY <1>1 DEF Queue, Carries
  <2> QED
    BY <2>1, <2>2, <2>3 DEF Carries
<1>5. \A i \in DOMAIN p : p[i].type = "SWITCH" => Switched(p[i]) = home
  <2> SUFFICES ASSUME NEW i \in DOMAIN p, p[i].type = "SWITCH" PROVE Switched(p[i]) = home
    OBVIOUS
  <2>1. i + 1 \in DOMAIN q /\ q[i + 1] = p[i] /\ 1 < i + 1
    BY <1>1
  <2> QED
    BY <1>1, <1>2, <2>1 DEF Queue
<1>6. \A i \in DOMAIN p : p[i].type # "CTX_RELEASE"
  BY <1>1, <1>3, <1>4, <1>8 DEF Carries, Queue
<1> QED
  BY <1>3, <1>4, <1>5, <1>6 DEF Queue, p, h

\* and a message of the handover, before which every release has arrived.
LEMMA QueueTakeMessage ==
  ASSUME NEW S, NEW q \in Seq(S), NEW home, NEW H, NEW R,
         Queue(q, home, H, R), q # <<>>, Head(q).type \notin {"SWITCH", "CTX_RELEASE"}
  PROVE  /\ Head(q) \in H /\ R = {}
         /\ H = {Head(q)} => Queue(Tail(q), home, {}, {})
<1> DEFINE p == Tail(q)
           h == Head(q)
<1>1. /\ h = q[1] /\ 1 \in DOMAIN q /\ DOMAIN q \subseteq Nat \ {0}
      /\ \A i \in DOMAIN p : i \in Nat \ {0} /\ i + 1 \in DOMAIN q /\ p[i] = q[i + 1]
      /\ \A i \in DOMAIN q : i = 1 \/ (i - 1 \in DOMAIN p /\ p[i - 1] = q[i])
  BY TailParts
<1>2. h.type \notin {"SWITCH", "CTX_RELEASE"}
  OBVIOUS
<1> HIDE DEF p, h
<1>3. h \in H
  BY <1>1, <1>2 DEF Queue, Carries
<1>4. R = {}
  <2> SUFFICES ASSUME NEW r \in R PROVE FALSE
    OBVIOUS
  <2>1. PICK i \in DOMAIN q : q[i] = r
    BY DEF Queue, Carries
  <2>2. r.type = "CTX_RELEASE"
    BY DEF Queue
  <2>3. i # 1 /\ 1 < i
    BY <1>1, <1>2, <2>1, <2>2
  <2> QED
    BY <1>1, <1>2, <2>1, <2>2, <2>3 DEF Queue
<1>5. ASSUME H = {h} PROVE Queue(p, home, {}, {})
  <2>1. \A i \in DOMAIN p : p[i] # h
    BY <1>1, <1>2 DEF Queue, Carries
  <2>2. \A i \in DOMAIN p : p[i].type = "SWITCH"
    BY <1>1, <1>4, <1>5, <2>1 DEF Queue, Carries
  <2>3. \A i \in DOMAIN p : Switched(p[i]) = home
    BY <1>1, <1>4, <2>2 DEF Queue
  <2> QED
    BY <2>2, <2>3 DEF Queue, Carries
<1> QED
  BY <1>3, <1>4, <1>5 DEF p, h

\* The pending release is in the queue; an empty queue carries nothing.
LEMMA ReleasesKept ==
  ASSUME NEW q, NEW home, NEW H, NEW R, Queue(q, home, H, R)
  PROVE  R \in Releases(q)
<1>1. CASE R = {}
  BY <1>1 DEF Releases
<1>2. CASE R # {}
  <2>1. PICK m \in R : R = {m}
    BY <1>2 DEF Queue
  <2>2. PICK i \in DOMAIN q : q[i] = m
    BY DEF Queue, Carries
  <2> QED
    BY <2>1, <2>2 DEF Releases
<1> QED
  BY <1>1, <1>2

\* An empty queue carries nothing.
LEMMA EmptyQueue == \A home : Queue(<<>>, home, {}, {})
BY DEF Queue, Carries

-----------------------------------------------------------------------------
(* Steps within a phase.                                                   *)

\* No context changes in what the phases say of it.
SameContexts ==
  \A k \in Ids : /\ mm[k] = MmBlank => mm'[k] = MmBlank
                 /\ mm'[k].st = mm[k].st /\ mm'[k].rlc = mm[k].rlc
                 /\ mm'[k].request = mm[k].request /\ mm'[k].command = mm[k].command
                 /\ mm'[k].answered = mm[k].answered /\ mm'[k].queued = mm[k].queued
                 /\ mm'[k].sourceRnti = mm[k].sourceRnti
SameUe       == ue'.st = ue.st /\ ue'.id = ue.id /\ ue'.known = ue.known
SameHome     == lte'.cell = lte.cell /\ lte'.rnti = lte.rnti
QueueKept    == \A H, R : Queue(x2, Home, H, R) => Queue(x2', Home, H, R)
Within       == /\ SameContexts /\ SameUe /\ SameHome /\ QueueKept
                /\ UNCHANGED <<newest, forward>>

\* The serving context is the same while the coordinator's record names it.
LEMMA HomeKept == SameHome => Home' = Home
BY DEF SameHome, Home

\* Within a phase, what a context holds, what a target is in, where the UE is
\* at home or away, all stay as they are.
LEMMA HoldsKept ==
  ASSUME Within, NEW k, NEW st, NEW request, NEW command, Holds(k, st, request, command)
  PROVE  Holds(k, st, request, command)'
BY DEF Within, SameContexts, Holds

\* The same of the context that the UE is handed over to.
LEMMA TargetKept ==
  ASSUME Within, NEW k, NEW st, NEW answered, Target(k, st, answered)
  PROVE  Target(k, st, answered)'
BY DEF Within, SameContexts, SameHome, Target, Newest

\* The same of a UE at its serving cell.
LEMMA AtHomeKept ==
  ASSUME Within, NEW R, AtHome(R)
  PROVE  AtHome(R)'
<1>1. Home' = Home /\ lte'.cell = lte.cell
  BY HomeKept DEF Within, SameHome
<1>2. Holds(Home, "CONNECTED_NORMALLY", TRUE, NoId)'
  BY <1>1, HoldsKept DEF AtHome
<1>3. UeAt(Home)' /\ Newest(Home)'
  BY <1>1 DEF AtHome, UeAt, Newest, Within, SameUe
<1>4. \A m \in R : Holds(Released(m), "HANDOVER_LEAVING", FALSE, NoId)'
  BY HoldsKept DEF AtHome, Released
<1>5. \A m \in R : m.to \in Cells /\ m.to # lte'.cell /\ forward'[m.to] # 0
  BY <1>1 DEF AtHome, Within
<1>6. \A k \in Ids : k = Home \/ (\E m \in R : k = Released(m)) \/ mm'[k] = MmBlank
  BY DEF AtHome, Within, SameContexts
<1>7. \A c \in Cells : forward'[c] = 0 \/ \E m \in R : m.to = c
  BY DEF AtHome, Within
<1> QED
  BY <1>1, <1>2, <1>3, <1>4, <1>5, <1>6, <1>7 DEF AtHome, Released

\* The same of a UE on its way to the target.
LEMMA AwayKept ==
  ASSUME Within, NEW k, NEW s, NEW st, NEW answered, Away(k, s, st, answered)
  PROVE  Away(k, s, st, answered)'
<1>1. Home' = Home /\ lte'.cell = lte.cell
  BY HomeKept DEF Within, SameHome
<1>2. Holds(Home, "HANDOVER_LEAVING", FALSE, NoId)' /\ Target(k, st, answered)'
  BY <1>1, HoldsKept, TargetKept DEF Away
<1>3. \A j \in Ids : j = Home \/ j = k \/ mm'[j] = MmBlank
  BY DEF Away, Within, SameContexts
<1>4. Forward(k)' /\ ue'.st = s /\ ue'.id = k /\ ue'.known = k
  BY <1>1 DEF Away, Within, SameUe, Forward
<1> QED
  BY <1>1, <1>2, <1>3, <1>4 DEF Away

\* The handover stays in its phase.
LEMMA PhaseKept ==
  ASSUME Within
  PROVE  /\ Resting({}) => Resting({})'
         /\ (Unlocked => Unlocked') /\ (Locked => Locked')
<1>1. Home' = Home /\ lte'.cell = lte.cell /\ lte'.rnti = lte.rnti
  BY HomeKept DEF Within, SameHome
<1>2. \A H, R : Queue(x2, Home, H, R) => Queue(x2', Home', H, R)
  BY <1>1 DEF Within, QueueKept
<1>3. ASSUME NEW R, Resting(R) PROVE Resting(R)' /\ R \in Releases(x2')
  <2>1. Queue(x2', Home', {}, R) /\ AtHome(R)'
    BY <1>2, <1>3, AtHomeKept DEF Resting
  <2>2. R \in Releases(x2')
    BY <2>1, ReleasesKept
  <2> QED
    BY <2>1, <2>2 DEF Resting
<1>4. ASSUME NEW R, NEW t, Ordered(R, t) PROVE Ordered(R, t)' /\ R \in Releases(x2')
  <2> DEFINE H == {McHandoverRequest(lte.cell, t)}
  <2>1. Queue(x2, Home, H, R) /\ AtHome(R)
    BY <1>4 DEF Ordered
  <2>2. H' = H
    BY <1>1
  <2> HIDE DEF H
  <2>3. Queue(x2', Home', H, R) /\ AtHome(R)'
    BY <1>2, <2>1, <2>2, AtHomeKept
  <2>4. R \in Releases(x2')
    BY <2>3, ReleasesKept
  <2> QED
    BY <1>1, <1>4, <2>3, <2>4 DEF Ordered, H
<1>5. ASSUME NEW t, Requested(t) PROVE Requested(t)'
  <2>1. Queue(x2, Home, {McX2("HO_REQUEST", lte.cell, t, 0, lte.rnti, 0, TRUE)}, {})'
    BY <1>1, <1>2, <1>5 DEF Requested
  <2>2. Holds(Home, "HANDOVER_PREPARATION", FALSE, NoId)'
    BY <1>1, <1>5, HoldsKept DEF Requested
  <2> QED
    BY <1>1, <1>5, <2>1, <2>2
    DEF Requested, UeAt, Newest, Within, SameUe, SameContexts, NoForward
<1>6. ASSUME NEW k, Acknowledged(k) PROVE Acknowledged(k)'
  <2>1. Queue(x2, Home, {McX2("HO_ACK", k[1], lte.cell, 0, lte.rnti, k[2], FALSE)}, {})'
    BY <1>1, <1>2, <1>6 DEF Acknowledged
  <2>2. Holds(Home, "HANDOVER_PREPARATION", FALSE, NoId)' /\ Target(k, "HANDOVER_JOINING", FALSE)'
    BY <1>1, <1>6, HoldsKept, TargetKept DEF Acknowledged
  <2> QED
    BY <1>1, <1>6, <2>1, <2>2
    DEF Acknowledged, UeAt, Newest, Within, SameUe, SameContexts, NoForward
<1>7. ASSUME NEW k, Commanded(k) PROVE Commanded(k)'
  <2>1. Queue(x2, Home, {}, {})'
    BY <1>2, <1>7 DEF Commanded
  <2>2. Holds(Home, "HANDOVER_LEAVING", FALSE, k)' /\ Target(k, "HANDOVER_JOINING", FALSE)'
    BY <1>1, <1>7, HoldsKept, TargetKept DEF Commanded
  <2> QED
    BY <1>1, <1>7, <2>1, <2>2
    DEF Commanded, UeAt, Within, SameUe, SameContexts, Forward
<1>8. ASSUME NEW k PROVE (Accessing(k) => Accessing(k)') /\ (Answered(k) => Answered(k)')
  BY <1>2, AwayKept DEF Accessing, Answered
<1>9. ASSUME NEW k, Reported(k) PROVE Reported(k)'
  <2>1. Queue(x2, Home, {McX2("HO_COMPLETED", k[1], Lte, 0, lte.rnti, k[2], FALSE)}, {})'
    BY <1>1, <1>2, <1>9 DEF Reported
  <2> QED
    BY <1>9, <2>1, AwayKept DEF Reported
<1>10. Resting({}) => Resting({})'
  BY <1>3
<1>11. Unlocked => Unlocked'
  BY <1>3 DEF Unlocked
<1>12. Locked => Locked'
  BY <1>4, <1>5, <1>6, <1>7, <1>8, <1>9 DEF Locked
<1> QED
  BY <1>10, <1>11, <1>12

-----------------------------------------------------------------------------
(* The LTE radio link once the UE has its mmWave leg.                      *)

\* A message sent after the one that adds the secondary bearer comes after it.
LEMMA RlcFirstAppend ==
  ASSUME NEW S, NEW q \in Seq(S), NEW rlc \in BOOLEAN, NEW m \in S, RlcFirst(q, rlc)
  PROVE  RlcFirst(Append(q, m), rlc)
<1> DEFINE p == Append(q, m)
           n == Len(q) + 1
<1>1. /\ DOMAIN p = DOMAIN q \union {n} /\ p[n] = m /\ \A i \in DOMAIN q : p[i] = q[i] /\ i < n
      /\ n \in Nat /\ DOMAIN q = 1..(n - 1)
  BY AppendParts
<1> HIDE DEF p, n
<1>2. rlc \/ \E j \in DOMAIN q : p[j].type = "RECONF" /\ p[j].on
  BY <1>1 DEF RlcFirst
<1>3. ASSUME NEW i \in DOMAIN p, p[i].type = "SWITCH", ~p[i].on, ~rlc
      PROVE  \E j \in 1..(i - 1) : p[j].type = "RECONF" /\ p[j].on
  <2>1. CASE i = n
    BY <1>1, <1>2, <1>3, <2>1
  <2>2. CASE i # n
    <3>1. i \in DOMAIN q
      BY <1>1, <2>2
    <3>2. PICK j \in 1..(i - 1) : q[j].type = "RECONF" /\ q[j].on
      BY <1>1, <1>3, <3>1 DEF RlcFirst
    <3>3. j \in DOMAIN q
      BY <1>1, <3>1
    <3> QED
      BY <1>1, <3>2, <3>3
  <2> QED
    BY <2>1, <2>2
<1> QED
  BY <1>1, <1>2, <1>3 DEF RlcFirst, p

\* Once the UE has taken that message, the rest of the queue needs none.
LEMMA RlcFirstTail ==
  ASSUME NEW S, NEW q \in Seq(S), NEW rlc \in BOOLEAN, NEW next \in BOOLEAN, q # <<>>,
         RlcFirst(q, rlc), rlc => next, Head(q).type = "RECONF" /\ Head(q).on => next
  PROVE  RlcFirst(Tail(q), next)
<1> DEFINE p == Tail(q)
           h == Head(q)
<1>1. /\ h = q[1] /\ 1 \in DOMAIN q /\ DOMAIN q \subseteq Nat \ {0}
      /\ \A i \in DOMAIN p : i \in Nat \ {0} /\ i + 1 \in DOMAIN q /\ p[i] = q[i + 1]
      /\ \A i \in DOMAIN q : i = 1 \/ (i - 1 \in DOMAIN p /\ p[i - 1] = q[i])
  BY TailParts
<1>2. ASSUME ~next PROVE ~rlc /\ ~(h.type = "RECONF" /\ h.on)
  BY <1>2
<1> HIDE DEF p, h
<1>3. ASSUME ~next PROVE \E j \in DOMAIN p : p[j].type = "RECONF" /\ p[j].on
  <2>1. PICK j \in DOMAIN q : q[j].type = "RECONF" /\ q[j].on
    BY <1>2, <1>3 DEF RlcFirst
  <2>2. j # 1
    BY <1>1, <1>2, <1>3, <2>1
  <2> QED
    BY <1>1, <2>1, <2>2
<1>4. ASSUME NEW i \in DOMAIN p, p[i].type = "SWITCH", ~p[i].on, ~next
      PROVE  \E j \in 1..(i - 1) : p[j].type = "RECONF" /\ p[j].on
  <2>1. i + 1 \in DOMAIN q /\ q[i + 1] = p[i]
    BY <1>1
  <2>2. PICK j \in 1..i : q[j].type = "RECONF" /\ q[j].on
    BY <1>1, <1>2, <1>4, <2>1 DEF RlcFirst
  <2>3. j # 1
    BY <1>1, <1>2, <1>4, <2>2
  <2>4. DOMAIN q = 1..Len(q) /\ Len(q) \in Nat
    OBVIOUS
  <2>5. j \in DOMAIN q /\ j - 1 \in 1..(i - 1)
    BY <1>1, <2>1, <2>2, <2>3, <2>4
  <2> QED
    BY <1>1, <2>2, <2>3, <2>5
<1> QED
  BY <1>3, <1>4 DEF RlcFirst, p

\* A step of one of the phases with the mmWave leg.
LEMMA LinkedKept ==
  ASSUME Activating \/ Serving, Within, Linked', co'.last = co.last,
         co'.completed = co.completed,
         Activating => lte'.leg = "lte" /\ lte'.st = lte.st,
         Serving => lte'.st \in {"CONNECTED_NORMALLY", "CONNECTION_RECONFIGURATION"}
  PROVE  Activating' \/ Serving'
<1>1. CASE Activating
  BY <1>1, PhaseKept DEF Activating
<1>2. CASE Serving
  <2>1. lte'.cell = lte.cell
    BY DEF Within, SameHome
  <2> QED
    BY <1>2, <2>1, PhaseKept DEF Serving
<1> QED
  BY <1>1, <1>2

\* A step that touches neither contexts nor UE nor X2 stays within its phase.
LEMMA Unmoved ==
  ASSUME UNCHANGED <<mm, newest, forward, ue, x2>>, SameHome
  PROVE  Within
<1>1. Home' = Home
  BY HomeKept
<1> QED
  BY <1>1 DEF Within, SameContexts, SameUe, QueueKept

\* Only the coordinator's record changes, and not in what the phases say of it.
LEMMA LifeFrame ==
  ASSUME Life, UNCHANGED <<lte, mm, newest, forward, ue, dl, ul, x2>>,
         co'.last = co.last, co'.completed = co.completed, co'.outage = co.outage
  PROVE  Life'
<1>1. CASE Setup
  <2>1. \A k, rlc : First(k, rlc) => First(k, rlc)'
    BY DEF First, UeAt, Newest
  <2>2. \A a, b, c : Pending(a, b, c) => Pending(a, b, c)'
    BY DEF Pending, Has
  <2>3. (Nowhere => Nowhere') /\ (NoContext => NoContext') /\ Home' = Home
    BY DEF Nowhere, NoContext, Home
  <2>4. (Seeking => Seeking') /\ (Told => Told') /\ (Camping => Camping')
    BY <2>2, <2>3 DEF Seeking, Told, Camping
  <2>5. (Announced => Announced') /\ (NotYetAsked => NotYetAsked')
    BY <2>1, <2>2, <2>3 DEF Announced, NotYetAsked, Known
  <2>6. (RlcAsked => RlcAsked') /\ (RlcAnswered => RlcAnswered')
    BY <2>1, <2>2, <2>3 DEF RlcAsked, RlcAnswered, Known, Asking
  <2>7. BearerSetup' /\ NoForward'
    BY <1>1 DEF Setup, BearerSetup, NoForward, Has
  <2> QED
    BY <1>1, <2>4, <2>5, <2>6, <2>7 DEF Life, Setup, Once, Has
<1>2. CASE Activating \/ Serving
  <2>1. Linked'
    BY <1>2 DEF Activating, Serving, Linked, Home
  <2>2. Within
    BY Unmoved DEF SameHome
  <2> QED
    BY <1>2, <2>1, <2>2, LinkedKept DEF Life, Activating, Serving
<1> QED
  BY <1>1, <1>2 DEF Life

\* SendRrcConnectionSwitch at any time (on the mmWave leg only when it is used).
LEMMA SwitchLife ==
  ASSUME McTypeInv, Life, NEW on \in BOOLEAN, SendRrcConnectionSwitch(on),
         UNCHANGED <<mm, newest, forward, ue, ul>>,
         co'.last = co.last, co'.completed = co.completed, co'.outage = co.outage,
         on => co.completed
  PROVE  Life'
<1>0. lte \in LteContext /\ dl \in Seq(DlNamed) /\ x2 \in Seq(X2Named) /\ ue.rlc \in BOOLEAN
  BY DEF McTypeInv, McTypeOK, Named, Ue
<1>1. CASE ~lte.isMc
  <2>1. UNCHANGED <<lte, dl, x2>>
    BY <1>1 DEF SendRrcConnectionSwitch
  <2> QED
    BY <2>1, LifeFrame
<1>2. CASE lte.isMc
  <2>1. Activating \/ Serving
    BY <1>2 DEF Life, Setup
  <2>2. /\ lte' = [lte EXCEPT !.leg = IF on THEN "mmwave" ELSE "lte"]
        /\ dl' = Append(dl, Switch(on))
        /\ x2' = IF ~on THEN Append(x2, SwitchAtMmWave(lte)) ELSE x2
    BY <1>2 DEF SendRrcConnectionSwitch
  <2>3. /\ SameHome /\ lte'.isMc /\ lte'.bearer = lte.bearer /\ lte'.st = lte.st
        /\ lte'.leg = IF on THEN "mmwave" ELSE "lte"
    BY <1>0, <1>2, <2>2 DEF LteContext, SameHome
  <2>4. Switch(on) \in DlNamed /\ Switch(on).type = "SWITCH"
    BY RrcMade DEF Switch
  <2>5. Linked'
    <3>1. Linked
      BY <2>1 DEF Activating, Serving
    <3>2. \A i \in DOMAIN dl' : dl'[i].type \in {"RECONF", "SWITCH"}
      BY <1>0, <2>2, <2>4, <3>1, AppendParts DEF Linked
    <3>3. RlcFirst(dl', ue.rlc)
      BY <1>0, <2>2, <2>4, <3>1, RlcFirstAppend DEF Linked
    <3> QED
      BY <2>3, <3>1, <3>2, <3>3, HomeKept DEF Linked
  <2>6. SwitchAtMmWave(lte) \in X2Named
    BY <1>0, <1>2, CoordinatorSends DEF McTypeInv, CellKnown
  <2>7. QueueKept
    <3>1. SwitchAtMmWave(lte).type = "SWITCH" /\ Switched(SwitchAtMmWave(lte)) = Home
      BY DEF SwitchAtMmWave, McX2, Switched, Home
    <3>2. \A H, R : Queue(x2, Home, H, R) => Queue(Append(x2, SwitchAtMmWave(lte)), Home, H, R)
      BY <1>0, <2>6, <3>1, QueueSwitch
    <3> QED
      BY <2>2, <3>2 DEF QueueKept
  <2>8. Within
    BY <2>3, <2>7 DEF Within, SameContexts, SameUe
  <2>9. Activating => ~on
    BY DEF Activating
  <2> QED
    BY <2>1, <2>3, <2>5, <2>8, <2>9, LinkedKept DEF Life, Serving
<1> QED
  BY <1>1, <1>2

\* SendMcHandoverRequest: the lock is taken, and a request is on its way.
LEMMA StartLife ==
  ASSUME McTypeInv, Life, co.completed, NEW t \in Cells, t # co.last,
         x2' = Append(x2, McHandoverRequest(co.last, t)),
         co'.last = co.last, ~co'.completed, co'.outage = co.outage,
         UNCHANGED <<lte, mm, newest, forward, ue, dl, ul>>
  PROVE  Life'
<1>1. Serving
  BY DEF Life, Setup, Activating
<1>2. PICK R : Resting(R)
  BY <1>1 DEF Serving, Unlocked
<1> DEFINE m == McHandoverRequest(lte.cell, t)
<1>3. m \in X2Named /\ x2 \in Seq(X2Named)
  <2>1. lte.cell \in Cells
    BY <1>1, McIdParts DEF Serving, Linked, Home
  <2> QED
    BY <2>1, CoordinatorSends DEF McTypeInv, Named
<1>4. m.type \notin {"SWITCH", "CTX_RELEASE"}
  BY DEF McHandoverRequest, McX2
<1>5. x2' = Append(x2, m)
  BY <1>1 DEF Serving
<1>6. Queue(x2', Home, {m}, R) /\ Home' = Home
  BY <1>2, <1>3, <1>4, <1>5, QueueMessage DEF Resting, Home
<1>7. AtHome(R)'
  BY <1>2, <1>6 DEF Resting, AtHome, Holds, UeAt, Newest
<1>8. Ordered(R, t)' /\ R \in Releases(x2')
  <2>1. t \in Cells \ {lte.cell}
    BY <1>1 DEF Serving
  <2> QED
    BY <1>6, <1>7, <2>1, ReleasesKept DEF Ordered
<1>9. Linked'
  BY <1>1 DEF Serving, Linked, Home
<1> HIDE DEF m
<1> QED
  BY <1>1, <1>8, <1>9 DEF Life, Serving, Locked

-----------------------------------------------------------------------------
(* The decisions of the coordinator.                                       *)

\* The parts of the invariant that the decisions are about.
Decided == /\ EventIsCurrent /\ (Scheduled => co.event.target # 0)
           /\ LegFollowsCoordinator

\* The types that the following proofs use most.
LEMMA Typed ==
  ASSUME McTypeInv
  PROVE  /\ co \in Coordinator /\ lte \in LteContext /\ ue \in Ue /\ allowed \subseteq Cells
         /\ mm \in [Ids -> MmContext] /\ \A k \in Ids : mm[k] \in MmContext
         /\ forward \in [Cells -> Cells \union {0}]
         /\ newest \in [Cells -> Rntis \union {0}] /\ lastRnti \in [Cells -> Rntis \union {0}]
         /\ dl \in Seq(DlNamed) /\ ul \in Seq(UlNamed) /\ x2 \in Seq(X2Named)
BY DEF McTypeInv, McTypeOK, Named

\* A handover is only scheduled, and the leg only recorded, in the last phases.
LEMMA WhenServed ==
  ASSUME Life
  PROVE  /\ co.last # 0 => Serving /\ lte.isMc
         /\ co.completed => Serving
BY DEF Life, Setup, Activating, Serving, Linked

\* PerformHandover: the event is over, and the UE may be handed over.
LEMMA PerformKeeps ==
  ASSUME IInv, NEW t \in Cells, PerformFrom(co, t),
         UNCHANGED <<lte, mm, newest, forward, ue, dl, ul>>
  PROVE  Life' /\ Decided'
<1>0. co \in Coordinator
  BY Typed DEF IInv
<1>1. CASE co.completed /\ co.last # t
  <2>1. co' = HandoverStarted(co) /\ x2' = Append(x2, McHandoverRequest(co.last, t))
    BY <1>1 DEF PerformFrom
  <2>2. /\ co'.last = co.last /\ ~co'.completed /\ co'.event = NoEvent
        /\ co'.usingLte = co.usingLte /\ co'.outage = co.outage
    BY <1>0, <2>1, StartedType
  <2>3. Life'
    BY <1>1, <2>1, <2>2, StartLife DEF IInv, McInv
  <2> QED
    BY <2>2, <2>3 DEF Decided, EventIsCurrent, Scheduled, LegFollowsCoordinator, IInv, McInv
<1>2. CASE ~(co.completed /\ co.last # t)
  <2>1. co' = [co EXCEPT !.event = NoEvent] /\ x2' = x2
    BY <1>2 DEF PerformFrom
  <2>2. /\ co'.last = co.last /\ co'.completed = co.completed /\ co'.event = NoEvent
        /\ co'.usingLte = co.usingLte /\ co'.outage = co.outage
    BY <1>0, <2>1 DEF Coordinator
  <2>3. Life'
    BY <2>1, <2>2, LifeFrame DEF IInv, McInv
  <2> QED
    BY <2>2, <2>3 DEF Decided, EventIsCurrent, Scheduled, LegFollowsCoordinator, IInv, McInv
<1> QED
  BY <1>1, <1>2

\* The UE is told to connect for the first time.
LEMMA HasAppend ==
  ASSUME NEW S, NEW q \in Seq(S), NEW m \in S
  PROVE  \A type : Has(Append(q, m), type) <=> Has(q, type) \/ m.type = type
<1> DEFINE p == Append(q, m)
           n == Len(q) + 1
<1>1. /\ DOMAIN p = DOMAIN q \union {n} /\ p[n] = m /\ \A i \in DOMAIN q : p[i] = q[i]
  BY AppendParts
<1> HIDE DEF p, n
<1> QED
  BY <1>1 DEF Has, p

\* A kind of message that is not under way may be sent and is there once.
LEMMA OnceAppend ==
  ASSUME NEW S, NEW q \in Seq(S), NEW m \in S, Once(q), ~Has(q, m.type)
  PROVE  Once(Append(q, m))
<1> DEFINE p == Append(q, m)
           n == Len(q) + 1
<1>1. /\ DOMAIN p = DOMAIN q \union {n} /\ p[n] = m /\ \A i \in DOMAIN q : p[i] = q[i]
  BY AppendParts
<1> HIDE DEF p, n
<1> QED
  BY <1>1 DEF Has, Once, p

\* Taking the head leaves the kinds of the others, once each.
LEMMA OnceTail ==
  ASSUME NEW S, NEW q \in Seq(S), q # <<>>, Once(q)
  PROVE  /\ Once(Tail(q)) /\ Has(q, Head(q).type)
         /\ \A type : Has(Tail(q), type) <=> Has(q, type) /\ Head(q).type # type
<1> DEFINE p == Tail(q)
           h == Head(q)
<1>1. /\ h = q[1] /\ 1 \in DOMAIN q /\ DOMAIN q \subseteq Nat \ {0}
      /\ \A i \in DOMAIN p : i \in Nat \ {0} /\ i + 1 \in DOMAIN q /\ p[i] = q[i + 1]
      /\ \A i \in DOMAIN q : i = 1 \/ (i - 1 \in DOMAIN p /\ p[i - 1] = q[i])
  BY TailParts
<1> HIDE DEF p, h
<1>2. Once(p)
  BY <1>1 DEF Once
<1>3. Has(q, h.type)
  BY <1>1 DEF Has
<1>4. ASSUME NEW type PROVE Has(p, type) <=> Has(q, type) /\ h.type # type
  <2>1. ASSUME Has(p, type) PROVE Has(q, type) /\ h.type # type
    <3>1. PICK i \in DOMAIN p : p[i].type = type
      BY <2>1 DEF Has
    <3>2. i + 1 \in DOMAIN q /\ q[i + 1].type = type /\ i + 1 # 1
      BY <1>1, <3>1
    <3> QED
      BY <1>1, <3>2 DEF Has, Once
  <2>2. ASSUME Has(q, type), h.type # type PROVE Has(p, type)
    <3>1. PICK i \in DOMAIN q : q[i].type = type
      BY <2>2 DEF Has
    <3> QED
      BY <1>1, <2>2, <3>1 DEF Has
  <2> QED
    BY <2>1, <2>2
<1> QED
  BY <1>2, <1>3, <1>4 DEF p, h

\* The command to connect after an outage keeps the life of the UE.
LEMMA ConnectKeeps ==
  ASSUME IInv, NEW max \in allowed, ConnectAfterOutage(max)
  PROVE  Life' /\ Decided'
<1>0. co \in Coordinator /\ dl \in Seq(DlNamed) /\ max \in Cells
  BY Typed DEF IInv
<1>1. Setup /\ Seeking /\ ~Has(ul, "SETUP_COMPLETE")
  <2>1. Setup
    BY DEF IInv, McInv, Life, Activating, Serving, Linked, ConnectAfterOutage
  <2>2. Seeking
    BY <2>1 DEF Setup, Told, Camping, Announced, NotYetAsked, RlcAsked, RlcAnswered, Known,
       ConnectAfterOutage
  <2> QED
    BY <2>1, <2>2 DEF Seeking, Pending, ConnectAfterOutage
<1>2. /\ co' = [co EXCEPT !.outage = FALSE] /\ dl' = Append(dl, ConnectToMmWave(max))
      /\ UNCHANGED <<allowed, lte, mm, newest, lastRnti, forward, ue, ul, x2, fault>>
  BY DEF ConnectAfterOutage
<1>3. /\ co'.last = co.last /\ co'.completed = co.completed /\ ~co'.outage
      /\ co'.event = co.event /\ co'.usingLte = co.usingLte
  BY <1>0, <1>2 DEF Coordinator
<1>4. ConnectToMmWave(max) \in DlNamed /\ ConnectToMmWave(max).type = "CONNECT"
  BY <1>0, RrcMade DEF ConnectToMmWave
<1>5. ~Has(dl, "CONNECT") /\ Once(dl) /\ \A i \in DOMAIN dl : dl[i].type # "SWITCH"
  BY <1>1 DEF Setup, Seeking, Pending
<1>6. Once(dl') /\ \A type : Has(dl', type) <=> Has(dl, type) \/ type = "CONNECT"
  BY <1>0, <1>2, <1>4, <1>5, OnceAppend, HasAppend
<1>7. \A i \in DOMAIN dl' : dl'[i].type # "SWITCH"
  BY <1>0, <1>2, <1>4, <1>5, AppendParts
<1>8. Told'
  BY <1>1, <1>2, <1>3, <1>6 DEF Seeking, Told, Nowhere, NoContext, Pending, Has
<1>9. Setup'
  <2>1. BearerSetup'
    BY <1>1, <1>2, <1>6 DEF Setup, BearerSetup, Has
  <2> QED
    BY <1>1, <1>2, <1>3, <1>6, <1>7, <1>8, <2>1 DEF Setup, NoForward, Once, Has
<1> QED
  BY <1>2, <1>3, <1>9
  DEF Life, Decided, EventIsCurrent, Scheduled, LegFollowsCoordinator, IInv, McInv

\* Switching back to the mmWave leg keeps it, whichever way it goes.
LEMMA ReturnKeeps ==
  ASSUME IInv, NEW max \in allowed, ReturnToMmWave(max)
  PROVE  Life' /\ Decided'
<1>0. co \in Coordinator /\ lte \in LteContext /\ max \in Cells
  BY Typed DEF IInv
<1>1. Serving /\ lte.isMc /\ co.event = NoEvent /\ co.completed /\ co.usingLte
  BY WhenServed
  DEF ReturnToMmWave, IInv, McInv, EventIsCurrent, Scheduled, Serving, Linked
<1>2. CASE co.last = max
  <2>1. co' = [co EXCEPT !.usingLte = FALSE] /\ SendRrcConnectionSwitch(TRUE)
        /\ UNCHANGED <<allowed, mm, newest, lastRnti, forward, ue, ul, fault>>
    BY <1>2 DEF ReturnToMmWave
  <2>2. /\ co'.last = co.last /\ co'.completed = co.completed /\ co'.outage = co.outage
        /\ co'.event = co.event /\ ~co'.usingLte
    BY <1>0, <2>1 DEF Coordinator
  <2>3. Life'
    BY <1>1, <2>1, <2>2, SwitchLife DEF IInv, McInv
  <2>4. lte'.leg = "mmwave"
    BY <1>0, <1>1, <2>1 DEF SendRrcConnectionSwitch, LteContext
  <2> QED
    BY <1>1, <2>2, <2>3, <2>4 DEF Decided, EventIsCurrent, Scheduled, LegFollowsCoordinator
<1>3. CASE co.last # max
  <2>1. /\ co' = HandoverStarted(co) /\ x2' = Append(x2, McHandoverRequest(co.last, max))
        /\ UNCHANGED <<lte, dl>>
        /\ UNCHANGED <<allowed, mm, newest, lastRnti, forward, ue, ul, fault>>
    BY <1>3 DEF ReturnToMmWave
  <2>2. /\ co'.last = co.last /\ ~co'.completed /\ co'.event = NoEvent
        /\ co'.usingLte = co.usingLte /\ co'.outage = co.outage
    BY <1>0, <2>1, StartedType
  <2>3. Life'
    BY <1>0, <1>1, <1>3, <2>1, <2>2, StartLife DEF IInv, McInv
  <2> QED
    BY <2>1, <2>2, <2>3 DEF Decided, EventIsCurrent, Scheduled, LegFollowsCoordinator, IInv, McInv
<1> QED
  BY <1>2, <1>3

\* Every branch of the coordinator's decision keeps it.
LEMMA AssociationUpdateKeeps ==
  ASSUME IInv, AssociationUpdate
  PROVE  Life' /\ Decided' /\ fault' = fault /\ allowed' = allowed
<1>0. co \in Coordinator /\ lte \in LteContext /\ allowed \subseteq Cells
  BY Typed DEF IInv
<1>1. CASE DetectOutage
  <2>1. co' = InOutage(co) /\ SendRrcConnectionSwitch(FALSE)
        /\ UNCHANGED <<allowed, mm, newest, lastRnti, forward, ue, ul, fault>>
    BY <1>1 DEF DetectOutage
  <2>2. /\ co'.last = co.last /\ co'.completed = co.completed /\ co'.outage = co.outage
        /\ co'.event = NoEvent /\ co'.usingLte
    BY <1>0, <2>1 DEF InOutage, Coordinator
  <2>3. Life'
    BY <2>1, <2>2, SwitchLife DEF IInv, McInv
  <2>4. co.last # 0 => lte'.leg = "lte"
    <3>1. co.last # 0 => lte.isMc
      BY WhenServed DEF IInv, McInv
    <3> QED
      BY <1>0, <2>1, <3>1 DEF SendRrcConnectionSwitch, LteContext
  <2> QED
    BY <2>1, <2>2, <2>3, <2>4 DEF Decided, EventIsCurrent, Scheduled, LegFollowsCoordinator
<1>2. CASE FirstBestCell
  <2>1. co' = [co EXCEPT !.best = TRUE]
        /\ UNCHANGED <<allowed, lte, mm, newest, lastRnti, forward, ue, dl, ul, x2, fault>>
    BY <1>2 DEF FirstBestCell
  <2>2. /\ co'.last = co.last /\ co'.completed = co.completed /\ co'.outage = co.outage
        /\ co'.event = co.event /\ co'.usingLte = co.usingLte
    BY <1>0, <2>1 DEF Coordinator
  <2>3. Life'
    BY <2>1, <2>2, LifeFrame DEF IInv, McInv
  <2> QED
    BY <2>1, <2>2, <2>3
    DEF Decided, EventIsCurrent, Scheduled, LegFollowsCoordinator, IInv, McInv
<1>3. CASE CancelHandover
  <2>1. co' = [co EXCEPT !.event = NoEvent]
        /\ UNCHANGED <<allowed, lte, mm, newest, lastRnti, forward, ue, dl, ul, x2, fault>>
    BY <1>3 DEF CancelHandover
  <2>2. /\ co'.last = co.last /\ co'.completed = co.completed /\ co'.outage = co.outage
        /\ co'.event = NoEvent /\ co'.usingLte = co.usingLte
    BY <1>0, <2>1 DEF Coordinator
  <2>3. Life'
    BY <2>1, <2>2, LifeFrame DEF IInv, McInv
  <2> QED
    BY <2>1, <2>2, <2>3
    DEF Decided, EventIsCurrent, Scheduled, LegFollowsCoordinator, IInv, McInv
<1>4. ASSUME NEW max \in allowed, ConnectAfterOutage(max)
      PROVE  Life' /\ Decided' /\ fault' = fault /\ allowed' = allowed
  BY <1>4, ConnectKeeps DEF ConnectAfterOutage
<1>5. ASSUME NEW max \in allowed, ReturnToMmWave(max)
      PROVE  Life' /\ Decided' /\ fault' = fault /\ allowed' = allowed
  BY <1>5, ReturnKeeps DEF ReturnToMmWave
<1>6. ASSUME NEW max \in allowed, ScheduleHandover(max)
      PROVE  Life' /\ Decided' /\ fault' = fault /\ allowed' = allowed
  <2>1. /\ co' = [co EXCEPT !.event = [source |-> co.last, target |-> max]]
        /\ UNCHANGED <<allowed, lte, mm, newest, lastRnti, forward, ue, dl, ul, x2, fault>>
        /\ ~co.usingLte /\ co.completed /\ max # co.last
    BY <1>6 DEF ScheduleHandover
  <2>2. /\ co'.last = co.last /\ co'.completed = co.completed /\ co'.outage = co.outage
        /\ co'.event.source = co.last /\ co'.event.target = max
        /\ co'.usingLte = co.usingLte
    BY <1>0, <2>1 DEF Coordinator
  <2>3. Life'
    BY <2>1, <2>2, LifeFrame DEF IInv, McInv
  <2>4. max # 0
    BY <1>0, McNotZero
  <2> QED
    BY <2>1, <2>2, <2>3, <2>4
    DEF Decided, EventIsCurrent, Scheduled, LegFollowsCoordinator, IInv, McInv
<1>7. ASSUME NEW max \in allowed, HandoverAtOnce(max)
      PROVE  Life' /\ Decided' /\ fault' = fault /\ allowed' = allowed
  BY <1>0, <1>7, PerformKeeps DEF HandoverAtOnce
<1> QED
  BY <1>1, <1>2, <1>3, <1>4, <1>5, <1>6, <1>7 DEF AssociationUpdate

\* The end of the time to trigger finds the UE where it was.
LEMMA PerformHandoverKeeps ==
  ASSUME IInv, PerformHandover
  PROVE  Life' /\ Decided' /\ fault' = fault /\ allowed' = allowed
<1>1. co.event.source = co.last /\ co.event.target \in Cells
  <2>1. co.event.target \in Cells \union {0}
    BY Typed DEF IInv, Coordinator
  <2> QED
    BY <2>1 DEF PerformHandover, IInv, McInv, EventIsCurrent
<1> QED
  BY <1>1, PerformKeeps DEF PerformHandover

\* The RIC, without a handover that is scheduled.
LEMMA RicKeeps ==
  ASSUME NoRace, IInv, NEW c \in Cells, RicHandover(c)
  PROVE  Life' /\ Decided' /\ fault' = fault /\ allowed' = allowed
<1>0. co \in Coordinator
  BY Typed DEF IInv
<1>1. /\ co' = [co EXCEPT !.controlled = TRUE, !.completed = FALSE]
      /\ x2' = IF co.completed THEN Append(x2, McHandoverRequest(co.last, c)) ELSE x2
      /\ UNCHANGED <<allowed, lte, mm, newest, lastRnti, forward, ue, dl, ul, fault>>
      /\ c # lte.cell /\ co.event = NoEvent
  BY DEF RicHandover, NoRace, Scheduled
<1>2. /\ co'.last = co.last /\ ~co'.completed /\ co'.outage = co.outage
      /\ co'.event = NoEvent /\ co'.usingLte = co.usingLte
  BY <1>0, <1>1 DEF Coordinator
<1>3. Life'
  <2>1. CASE co.completed
    <3>1. c # co.last
      BY <1>1, <2>1, WhenServed DEF IInv, McInv, Serving
    <3> QED
      BY <1>1, <1>2, <2>1, <3>1, StartLife DEF IInv, McInv
  <2>2. CASE ~co.completed
    <3>1. co'.completed = co.completed
      BY <1>0, <1>1, <2>2 DEF Coordinator
    <3> QED
      BY <1>1, <1>2, <2>2, <3>1, LifeFrame DEF IInv, McInv
  <2> QED
    BY <2>1, <2>2
<1> QED
  BY <1>1, <1>2, <1>3
  DEF Decided, EventIsCurrent, Scheduled, LegFollowsCoordinator, IInv, McInv

\* Cells are turned off and on: there is always one that a UE can be moved to.
LEMMA EvictKeeps ==
  ASSUME IInv, NEW ok \in SUBSET Cells, ok # {}, EvictUsers(ok),
         UNCHANGED <<lte, mm, newest, forward, ue, dl, ul>>
  PROVE  Life' /\ Decided'
<1>1. CASE co.last = 0 \/ co.last \in ok
  <2>1. UNCHANGED <<co, x2>>
    BY <1>1 DEF EvictUsers
  <2>2. Life'
    BY <2>1, LifeFrame DEF IInv, McInv
  <2> QED
    BY <2>1, <2>2 DEF Decided, EventIsCurrent, Scheduled, LegFollowsCoordinator, IInv, McInv
<1>2. CASE ~(co.last = 0 \/ co.last \in ok)
  <2>1. PICK max \in ok : PerformFrom(co, max)
    BY <1>2 DEF EvictUsers
  <2> QED
    BY <2>1, PerformKeeps
<1> QED
  BY <1>1, <1>2

\* So do the commands of the RIC, as long as one cell may not be barred.
LEMMA BarredKeeps ==
  ASSUME Refuge, IInv, NEW c \in Cells, TurnOff(c) \/ TurnOn(c)
  PROVE  Life' /\ Decided' /\ fault' = fault /\ Cells \ Barrable \subseteq allowed'
<1>0. allowed \subseteq Cells /\ Cells \ Barrable \subseteq allowed
  BY Typed DEF IInv, McInv
<1>1. /\ allowed' \in SUBSET Cells /\ Cells \ Barrable \subseteq allowed' /\ fault' = fault
      /\ UNCHANGED <<lte, mm, newest, forward, ue, dl, ul>>
      /\ EvictUsers(allowed') \/ UNCHANGED <<co, x2>>
  BY <1>0 DEF TurnOff, TurnOn
<1>2. allowed' # {}
  BY <1>1, McOptionsAssumption DEF Refuge
<1>3. CASE EvictUsers(allowed')
  BY <1>1, <1>2, <1>3, EvictKeeps
<1>4. CASE UNCHANGED <<co, x2>>
  <2>1. Life'
    BY <1>1, <1>4, LifeFrame DEF IInv, McInv
  <2> QED
    BY <1>1, <1>4, <2>1
    DEF Decided, EventIsCurrent, Scheduled, LegFollowsCoordinator, IInv, McInv
<1> QED
  BY <1>1, <1>3, <1>4

-----------------------------------------------------------------------------
(* The handover.                                                           *)

\* Steps of the handover leave the coordinator's decisions and the radio alone.
LEMMA LinkedFrame ==
  ASSUME Linked, UNCHANGED <<co, lte, dl, ul>>, ue'.rlc = ue.rlc
  PROVE  Linked'
BY DEF Linked, Home

\* A phase follows another one.
LEMMA LockedNext ==
  ASSUME Serving, ~co.completed, Locked', UNCHANGED <<co, lte, dl, ul>>,
         ue'.rlc = ue.rlc \/ ue'.rlc
  PROVE  Life'
<1>1. Linked'
  BY DEF Serving, Linked, Home, RlcFirst
<1> QED
  BY <1>1 DEF Life, Serving

\* Between links of equal delay an X2 handler finds the first message.
LEMMA X2Head ==
  ASSUME Fifo, McTypeInv, NEW i \in DOMAIN x2, X2Next(i)
  PROVE  /\ x2 # <<>> /\ x2[i] = Head(x2) /\ x2[i] \in X2Named
         /\ X2Taken(i) = Tail(x2) /\ Tail(x2) \in Seq(X2Named) /\ x2 \in Seq(X2Named)
         /\ \A m : X2Answered(i, m) = Append(Tail(x2), m)
BY HeadNext, TailParts, Typed DEF X2Answered

\* With the mmWave leg, the first message of X2 tells the phase.
LEMMA PhaseOfSwitch ==
  ASSUME Activating \/ Serving, x2 \in Seq(X2Named), x2 # <<>>, Head(x2).type = "SWITCH"
  PROVE  /\ Switched(Head(x2)) \in Ids /\ mm[Switched(Head(x2))].st # "NONE"
         /\ mm[Switched(Head(x2))].rlc
<1> DEFINE k == Switched(Head(x2))
           ready == k \in Ids /\ mm[k].st # "NONE" /\ mm[k].rlc
<1>1. \A R, H : AtHome(R) /\ Queue(x2, Home, H, R) => ready
  <2> SUFFICES ASSUME NEW R, NEW H, AtHome(R), Queue(x2, Home, H, R) PROVE ready
    OBVIOUS
  <2>1. k = Home \/ \E m \in R : k = Released(m)
    BY QueueTakeSwitch, Zenon
  <2>2. Holds(Home, "CONNECTED_NORMALLY", TRUE, NoId)
        /\ \A m \in R : Holds(Released(m), "HANDOVER_LEAVING", FALSE, NoId)
    BY DEF AtHome
  <2> HIDE DEF k
  <2> QED
    BY <2>1, <2>2 DEF Holds
<1>2. \A H, st, command : /\ Queue(x2, Home, H, {}) /\ st # "NONE"
                          /\ Holds(Home, st, FALSE, command)
                          => ready
  <2> SUFFICES ASSUME NEW H, NEW st, NEW command, Queue(x2, Home, H, {}), st # "NONE",
                      Holds(Home, st, FALSE, command)
               PROVE  ready
    OBVIOUS
  <2>1. \A R : Queue(x2, Home, H, R) => k = Home \/ \E m \in R : k = Released(m)
    BY QueueTakeSwitch, Zenon
  <2> HIDE DEF k
  <2>2. k = Home
    <3>1. \A R : Queue(x2, Home, H, R) /\ R = {} => k = Home
      BY <2>1
    <3> QED
      BY <3>1, Zenon
  <2> HIDE DEF k
  <2> QED
    BY <2>2 DEF Holds
<1>0. "HANDOVER_PREPARATION" # "NONE" /\ "HANDOVER_LEAVING" # "NONE"
  OBVIOUS
<1> HIDE DEF ready
<1>3. ASSUME Activating PROVE ready
  BY <1>1, <1>3, Zenon DEF Activating, Resting
<1>4. ASSUME Serving PROVE ready
  <2>1. ASSUME Unlocked PROVE ready
    BY <1>1, <2>1, Zenon DEF Unlocked, Resting
  <2>2. \A R, t : Ordered(R, t) => ready
    BY <1>1, Zenon DEF Ordered
  <2>3. \A t : Requested(t) => ready
    BY <1>0, <1>2, Zenon DEF Requested
  <2>4. \A j : Acknowledged(j) => ready
    BY <1>0, <1>2, Zenon DEF Acknowledged
  <2>5. \A j : Commanded(j) => ready
    BY <1>0, <1>2, Zenon DEF Commanded
  <2>6. \A j : Accessing(j) \/ Answered(j) \/ Reported(j) => ready
    BY <1>0, <1>2, Zenon DEF Accessing, Answered, Reported, Away
  <2>7. Unlocked \/ Locked
    BY <1>4 DEF Serving
  <2> QED
    BY <2>1, <2>2, <2>3, <2>4, <2>5, <2>6, <2>7, Zenon DEF Locked
<1> QED
  BY <1>3, <1>4 DEF k, ready

\* A UE CONTEXT RELEASE finds the UE settled at its new cell.
LEMMA PhaseOfRelease ==
  ASSUME Activating \/ Serving, x2 \in Seq(X2Named), x2 # <<>>, Head(x2).type = "CTX_RELEASE"
  PROVE  /\ Serving /\ AtHome({Head(x2)})
         /\ IF co.completed THEN Queue(Tail(x2), Home, {}, {})
            ELSE \E t \in Cells \ {lte.cell} :
                    Queue(Tail(x2), Home, {McHandoverRequest(lte.cell, t)}, {})
<1>1. \A H, R : Queue(x2, Home, H, R) => R = {Head(x2)} /\ Queue(Tail(x2), Home, H, {})
  BY QueueTakeRelease, Zenon
<1>2. \A H : ~Queue(x2, Home, H, {})
  <2>1. \A H, R : Queue(x2, Home, H, R) => R # {}
    BY <1>1
  <2> QED
    BY <2>1, Zenon
<1>3. ~Activating
  BY <1>2, Zenon DEF Activating, Resting
<1>4. CASE co.completed
  <2>1. Unlocked
    BY <1>3, <1>4 DEF Serving
  <2>2. PICK R : Resting(R)
    BY <2>1, Zenon DEF Unlocked
  <2>3. R = {Head(x2)} /\ Queue(Tail(x2), Home, {}, {})
    BY <1>1, <2>2, Zenon DEF Resting
  <2> QED
    BY <1>3, <1>4, <2>2, <2>3 DEF Resting
<1>5. CASE ~co.completed
  <2>1. \A t : ~Requested(t)
    BY <1>2, Zenon DEF Requested
  <2>2. \A k : ~Acknowledged(k) /\ ~Commanded(k) /\ ~Accessing(k) /\ ~Answered(k) /\ ~Reported(k)
    BY <1>2, Zenon DEF Acknowledged, Commanded, Accessing, Answered, Reported
  <2>3. PICK R \in Releases(x2), t \in Cells : Ordered(R, t)
    BY <1>3, <1>5, <2>1, <2>2 DEF Serving, Locked
  <2>4. R = {Head(x2)} /\ Queue(Tail(x2), Home, {McHandoverRequest(lte.cell, t)}, {})
    BY <1>1, <2>3, Zenon DEF Ordered
  <2> QED
    BY <1>3, <1>5, <2>3, <2>4 DEF Ordered
<1> QED
  BY <1>3, <1>4, <1>5

\* Any other X2 message finds a handover that is exactly so far.
LEMMA PhaseOfMessage ==
  ASSUME Activating \/ Serving, x2 \in Seq(X2Named), x2 # <<>>,
         Head(x2).type \notin {"SWITCH", "CTX_RELEASE"}
  PROVE  /\ Serving /\ ~co.completed
         /\ Queue(Tail(x2), Home, {}, {})
         /\ \/ \E t \in Cells : Ordered({}, t) /\ Head(x2) = McHandoverRequest(lte.cell, t)
            \/ \E t \in Cells :
                 /\ Requested(t)
                 /\ Head(x2) = McX2("HO_REQUEST", lte.cell, t, 0, lte.rnti, 0, TRUE)
            \/ \E k \in Ids :
                 /\ Acknowledged(k)
                 /\ Head(x2) = McX2("HO_ACK", k[1], lte.cell, 0, lte.rnti, k[2], FALSE)
            \/ \E k \in Ids :
                 /\ Reported(k)
                 /\ Head(x2) = McX2("HO_COMPLETED", k[1], Lte, 0, lte.rnti, k[2], FALSE)
<1>1. ASSUME NEW R PROVE ~Queue(x2, Home, {}, R)
  <2> SUFFICES ASSUME Queue(x2, Home, {}, R) PROVE FALSE
    OBVIOUS
  <2>1. Head(x2) \in {}
    BY QueueTakeMessage, Zenon
  <2> QED
    BY <2>1
<1>2. ASSUME NEW m, NEW R, Queue(x2, Home, {m}, R)
      PROVE  Head(x2) = m /\ R = {} /\ Queue(Tail(x2), Home, {}, {})
  <2>1. /\ Head(x2) \in {m} /\ R = {}
        /\ {m} = {Head(x2)} => Queue(Tail(x2), Home, {}, {})
    BY <1>2, QueueTakeMessage, Zenon
  <2>2. Head(x2) = m /\ {m} = {Head(x2)}
    BY <2>1
  <2> QED
    BY <2>1, <2>2
<1>3. ~Activating /\ ~Unlocked
  BY <1>1 DEF Activating, Resting, Unlocked
<1>4. Serving /\ ~co.completed /\ Locked
  BY <1>3 DEF Serving
<1>5. \A k : ~Commanded(k) /\ ~Accessing(k) /\ ~Answered(k)
  BY <1>1 DEF Commanded, Accessing, Answered
<1>6. ASSUME NEW R, NEW t, Ordered(R, t)
      PROVE  /\ Ordered({}, t) /\ Head(x2) = McHandoverRequest(lte.cell, t)
             /\ Queue(Tail(x2), Home, {}, {})
  <2>1. Queue(x2, Home, {McHandoverRequest(lte.cell, t)}, R)
    BY <1>6 DEF Ordered
  <2>2. R = {}
    BY <1>2, <2>1
  <2> QED
    BY <1>2, <1>6, <2>1, <2>2
<1>7. ASSUME NEW t, Requested(t)
      PROVE  /\ Head(x2) = McX2("HO_REQUEST", lte.cell, t, 0, lte.rnti, 0, TRUE)
             /\ Queue(Tail(x2), Home, {}, {})
  BY <1>2, <1>7 DEF Requested
<1>8. ASSUME NEW k, Acknowledged(k)
      PROVE  /\ Head(x2) = McX2("HO_ACK", k[1], lte.cell, 0, lte.rnti, k[2], FALSE)
             /\ Queue(Tail(x2), Home, {}, {})
  BY <1>2, <1>8 DEF Acknowledged
<1>9. ASSUME NEW k, Reported(k)
      PROVE  /\ Head(x2) = McX2("HO_COMPLETED", k[1], Lte, 0, lte.rnti, k[2], FALSE)
             /\ Queue(Tail(x2), Home, {}, {})
  BY <1>2, <1>9 DEF Reported
<1> QED
  BY <1>4, <1>5, <1>6, <1>7, <1>8, <1>9 DEF Locked

-----------------------------------------------------------------------------
(* The handlers of X2 once the UE has its mmWave leg.                      *)

\* What the handlers leave alone.
LEMMA DecidedFrame ==
  ASSUME Decided, UNCHANGED <<co, lte>>
  PROVE  Decided'
BY DEF Decided, EventIsCurrent, Scheduled, LegFollowsCoordinator

\* A SWITCH finds a context with an RLC.
LEMMA SwitchReceived ==
  ASSUME Fifo, IInv, Activating \/ Serving, NEW i \in DOMAIN x2, X2Next(i),
         RecvConnectionSwitchToMmWave(i)
  PROVE  Life' /\ Decided' /\ fault' = fault /\ allowed' = allowed
<1> DEFINE k == Switched(Head(x2))
<1>1. /\ x2 # <<>> /\ x2[i] = Head(x2) /\ X2Taken(i) = Tail(x2) /\ x2 \in Seq(X2Named)
      /\ mm \in [Ids -> MmContext] /\ Head(x2).type = "SWITCH"
  BY X2Head, Typed DEF IInv, RecvConnectionSwitchToMmWave
<1>2. k \in Ids /\ mm[k].st # "NONE" /\ mm[k].rlc
  BY <1>1, PhaseOfSwitch
<1>3. k = <<x2[i].to, x2[i].new>>
  BY <1>1 DEF Switched
<1> HIDE DEF k
<1>4. /\ mm' = [mm EXCEPT ![k].target = Lte] /\ x2' = Tail(x2)
      /\ UNCHANGED <<co, allowed, lte, newest, lastRnti, forward, ue, dl, ul, fault>>
  BY <1>1, <1>2, <1>3 DEF RecvConnectionSwitchToMmWave, Exists
<1>5. SameContexts
  <2> SUFFICES ASSUME NEW j \in Ids
               PROVE  /\ mm[j] = MmBlank => mm'[j] = MmBlank
                      /\ mm'[j].st = mm[j].st /\ mm'[j].rlc = mm[j].rlc
                      /\ mm'[j].request = mm[j].request /\ mm'[j].command = mm[j].command
                      /\ mm'[j].answered = mm[j].answered /\ mm'[j].queued = mm[j].queued
                      /\ mm'[j].sourceRnti = mm[j].sourceRnti
    BY DEF SameContexts
  <2>1. CASE j = k
    <3>1. mm'[j] = [mm[k] EXCEPT !.target = Lte] /\ mm[k] \in MmContext /\ mm[k] # MmBlank
      BY <1>1, <1>2, <1>4, <2>1 DEF MmBlank
    <3> QED
      BY <2>1, <3>1 DEF MmContext
  <2>2. CASE j # k
    BY <1>1, <1>4, <2>2
  <2> QED
    BY <2>1, <2>2
<1>6. QueueKept
  <2>1. \A H, R : Queue(x2, Home, H, R) => Queue(Tail(x2), Home, H, R)
    BY <1>1, QueueTakeSwitch, Zenon
  <2> QED
    BY <1>4, <2>1 DEF QueueKept
<1>7. Within
  BY <1>4, <1>5, <1>6 DEF Within, SameUe, SameHome
<1>8. Linked'
  BY <1>4, LinkedFrame DEF Activating, Serving
<1>9. Life'
  BY <1>4, <1>7, <1>8, LinkedKept DEF Life, Activating, Serving
<1> QED
  BY <1>4, <1>9, DecidedFrame DEF Decided, IInv, McInv

\* A release finds the context that the UE has left, and a forwarding of packets
\* to stop.
LEMMA ReleaseReceived ==
  ASSUME Fifo, IInv, Activating \/ Serving, NEW i \in DOMAIN x2, X2Next(i),
         RecvUeContextRelease(i)
  PROVE  Life' /\ Decided' /\ fault' = fault /\ allowed' = allowed
<1> DEFINE m == Head(x2)
           k == Released(m)
<1>1. /\ x2 # <<>> /\ x2[i] = m /\ X2Taken(i) = Tail(x2) /\ x2 \in Seq(X2Named)
      /\ mm \in [Ids -> MmContext] /\ m.type = "CTX_RELEASE"
      /\ forward \in [Cells -> Cells \union {0}]
  BY X2Head, Typed DEF IInv, RecvUeContextRelease
<1>2. /\ Serving /\ AtHome({m})
      /\ IF co.completed THEN Queue(Tail(x2), Home, {}, {})
         ELSE \E t \in Cells \ {lte.cell} :
                 Queue(Tail(x2), Home, {McHandoverRequest(lte.cell, t)}, {})
  BY <1>1, PhaseOfRelease
<1> HIDE DEF m
<1>3. /\ k \in Ids /\ mm[k].st = "HANDOVER_LEAVING" /\ mm[k].rlc /\ m.to \in Cells
      /\ m.to # lte.cell /\ forward[m.to] # 0
      /\ k = <<x2[i].to, x2[i].old>> /\ x2[i].to = m.to
  BY <1>1, <1>2 DEF AtHome, Holds, Released
<1> HIDE DEF k
<1>4. /\ mm' = [mm EXCEPT ![k] = MmBlank] /\ forward' = [forward EXCEPT ![m.to] = 0]
      /\ x2' = Tail(x2)
      /\ UNCHANGED <<co, allowed, lte, newest, lastRnti, ue, dl, ul, fault>>
  BY <1>1, <1>3 DEF RecvUeContextRelease, Exists
<1>5. Home' = Home /\ lte'.cell = lte.cell
  BY <1>4 DEF Home
<1>6. AtHome({})'
  <2>1. Holds(Home, "CONNECTED_NORMALLY", TRUE, NoId) /\ UeAt(Home) /\ Newest(Home)
    BY <1>2 DEF AtHome
  <2>2. mm'[Home] = mm[Home] /\ \A j \in Ids : j # k => mm'[j] = mm[j]
    BY <1>1, <1>3, <1>4, <2>1 DEF Holds
  <2>3. Holds(Home, "CONNECTED_NORMALLY", TRUE, NoId)' /\ UeAt(Home)' /\ Newest(Home)'
    BY <1>4, <1>5, <2>1, <2>2 DEF Holds, UeAt, Newest
  <2>4. \A j \in Ids : j = Home \/ j = k \/ mm[j] = MmBlank
    BY <1>2 DEF AtHome, k
  <2>5. \A j \in Ids : j = Home \/ mm'[j] = MmBlank
    BY <1>1, <1>4, <2>2, <2>4
  <2>6. \A c \in Cells : forward[c] = 0 \/ c = m.to
    BY <1>2 DEF AtHome
  <2>7. \A c \in Cells : forward'[c] = 0
    BY <1>1, <1>3, <1>4, <2>6
  <2> QED
    BY <1>5, <2>3, <2>5, <2>7 DEF AtHome
<1>7. Linked' /\ {} \in Releases(x2')
  BY <1>2, <1>4, LinkedFrame DEF Serving, Releases
<1>8. CASE co.completed
  <2>1. Unlocked'
    <3>1. Queue(x2', Home', {}, {})
      BY <1>2, <1>4, <1>5, <1>8
    <3> QED
      BY <1>6, <1>7, <3>1 DEF Unlocked, Resting
  <2> QED
    BY <1>2, <1>4, <1>7, <1>8, <2>1, DecidedFrame DEF Life, Serving, Decided, IInv, McInv
<1>9. CASE ~co.completed
  <2>1. PICK t \in Cells \ {lte.cell} :
             Queue(Tail(x2), Home, {McHandoverRequest(lte.cell, t)}, {})
    BY <1>2, <1>9
  <2>2. Ordered({}, t)'
    BY <1>4, <1>5, <1>6, <2>1 DEF Ordered
  <2>3. Locked'
    BY <1>7, <2>1, <2>2 DEF Locked
  <2> QED
    BY <1>2, <1>4, <1>7, <1>9, <2>3, DecidedFrame DEF Life, Serving, Decided, IInv, McInv
<1> QED
  BY <1>8, <1>9

\* The serving cell is asked to hand the UE over: it has the context of the UE, and
\* the parameters of its RLC.
LEMMA OrderReceived ==
  ASSUME Fifo, IInv, Activating \/ Serving, NEW i \in DOMAIN x2, X2Next(i),
         RecvMcHandoverRequest(i)
  PROVE  Life' /\ Decided' /\ fault' = fault /\ allowed' = allowed
<1> DEFINE m == Head(x2)
<1>1. /\ x2 # <<>> /\ x2[i] = m /\ x2 \in Seq(X2Named) /\ Tail(x2) \in Seq(X2Named)
      /\ mm \in [Ids -> MmContext] /\ m.type = "MC_HO_REQUEST"
      /\ \A n : X2Answered(i, n) = Append(Tail(x2), n)
  BY X2Head, Typed DEF IInv, RecvMcHandoverRequest
<1>2. PICK t \in Cells : /\ Ordered({}, t) /\ m = McHandoverRequest(lte.cell, t)
                         /\ Serving /\ ~co.completed /\ Queue(Tail(x2), Home, {}, {})
  BY <1>1, PhaseOfMessage DEF McX2
<1> HIDE DEF m
<1>3. /\ m.to = lte.cell /\ m.target = t /\ t # lte.cell /\ t # 0
  BY <1>2, McNotZero DEF McHandoverRequest, McX2, Ordered
<1>4. /\ Holds(Home, "CONNECTED_NORMALLY", TRUE, NoId) /\ UeAt(Home) /\ Newest(Home)
      /\ \A j \in Ids : j = Home \/ mm[j] = MmBlank
      /\ \A c \in Cells : forward[c] = 0
  BY <1>2 DEF Ordered, AtHome
<1>5. /\ Home \in Ids /\ mm[Home].st = "CONNECTED_NORMALLY" /\ mm[Home].request
      /\ Home = <<m.to, newest[m.to]>> /\ Home = <<lte.cell, lte.rnti>>
      /\ Home[1] = lte.cell /\ Home[2] = lte.rnti
  BY <1>3, <1>4 DEF Holds, Newest, Home
<1> DEFINE n == HandoverRequest(Home, mm[Home], t)
<1>6. /\ mm' = [mm EXCEPT ![Home] = Prepared(@, t)] /\ x2' = Append(Tail(x2), n)
      /\ UNCHANGED <<co, allowed, lte, newest, lastRnti, forward, ue, dl, ul, fault>>
  BY <1>1, <1>3, <1>5 DEF RecvMcHandoverRequest, Exists
<1>7. n = McX2("HO_REQUEST", lte.cell, t, 0, lte.rnti, 0, TRUE)
  <2>1. mm[Home].request = TRUE
    BY <1>1, <1>5 DEF MmContext
  <2> QED
    BY <1>5, <2>1 DEF HandoverRequest
<1>8. n \in X2Named /\ n.type = "HO_REQUEST"
  <2>1. lte.cell \in Cells /\ lte.rnti \in Rntis
    BY <1>5, McIdParts
  <2>2. McX2("HO_REQUEST", lte.cell, t, 0, lte.rnti, 0, TRUE) \in X2Named
    BY <2>1, X2Made DEF X2Types
  <2> QED
    BY <1>7, <2>2 DEF McX2
<1> HIDE DEF n
<1>9. Home' = Home /\ lte'.cell = lte.cell /\ lte'.rnti = lte.rnti
  BY <1>6 DEF Home
<1>10. Queue(x2', Home', {n}, {})
  BY <1>1, <1>2, <1>6, <1>8, <1>9, QueueMessage
<1>11. Holds(Home, "HANDOVER_PREPARATION", FALSE, NoId)'
  <2>1. mm'[Home] = Prepared(mm[Home], t) /\ mm[Home] \in MmContext
    BY <1>1, <1>5, <1>6
  <2>2. /\ mm'[Home].st = "HANDOVER_PREPARATION" /\ ~mm'[Home].request
        /\ mm'[Home].rlc = mm[Home].rlc /\ mm'[Home].command = mm[Home].command
        /\ mm'[Home].answered = mm[Home].answered /\ mm'[Home].queued = mm[Home].queued
    BY <2>1 DEF Prepared, MmContext
  <2> QED
    BY <1>4, <1>9, <2>2 DEF Holds
<1>12. \A j \in Ids : j = Home \/ mm'[j] = MmBlank
  BY <1>1, <1>4, <1>6
<1>13. Requested(t)'
  BY <1>2, <1>4, <1>6, <1>7, <1>9, <1>10, <1>11, <1>12
  DEF Requested, UeAt, Newest, NoForward, Ordered
<1>14. Life'
  BY <1>2, <1>6, <1>13, LockedNext DEF Locked
<1> QED
  BY <1>6, <1>14, DecidedFrame DEF Decided, IInv, McInv

\* The target cell makes a context: all its contexts are free.
LEMMA RequestReceived ==
  ASSUME Fifo, IInv, Activating \/ Serving, NEW i \in DOMAIN x2, X2Next(i),
         RecvHandoverRequest(i)
  PROVE  Life' /\ Decided' /\ fault' = fault /\ allowed' = allowed
<1> DEFINE m == Head(x2)
<1>1. /\ x2 # <<>> /\ x2[i] = m /\ x2 \in Seq(X2Named) /\ Tail(x2) \in Seq(X2Named)
      /\ mm \in [Ids -> MmContext] /\ m.type = "HO_REQUEST"
      /\ newest \in [Cells -> Rntis \union {0}] /\ lastRnti \in [Cells -> Rntis \union {0}]
      /\ \A n : X2Answered(i, n) = Append(Tail(x2), n)
  BY X2Head, Typed DEF IInv, RecvHandoverRequest
<1>2. PICK t \in Cells : /\ Requested(t)
                         /\ m = McX2("HO_REQUEST", lte.cell, t, 0, lte.rnti, 0, TRUE)
                         /\ Serving /\ ~co.completed /\ Queue(Tail(x2), Home, {}, {})
  BY <1>1, PhaseOfMessage DEF McX2, McHandoverRequest
<1> HIDE DEF m
<1>3. /\ m.to = t /\ m.from = lte.cell /\ m.old = lte.rnti /\ m.rlc
      /\ t # lte.cell /\ t # 0
  BY <1>2, McNotZero DEF McX2, Requested
<1>4. /\ Holds(Home, "HANDOVER_PREPARATION", FALSE, NoId) /\ UeAt(Home) /\ Newest(Home)
      /\ \A j \in Ids : j = Home \/ mm[j] = MmBlank
      /\ Home \in Ids /\ Home[1] = lte.cell /\ Home[2] = lte.rnti
      /\ lte.cell \in Cells /\ lte.rnti \in Rntis
  BY <1>2, McIdParts DEF Requested, Holds, Home
<1>5. CanAddUe(t)
  <2>1. 1 \in Rntis
    BY McBoundsAssumption DEF Rntis
  <2>2. <<t, 1>> \in Ids /\ <<t, 1>> # Home
    BY <1>3, <1>4, <2>1, McIdParts
  <2> QED
    BY <1>4, <2>1, <2>2 DEF CanAddUe, MmBlank
<1>6. PICK r \in Rntis : r = NextRnti(t)
  BY <1>1, <1>5, NextRntiFree
<1> DEFINE k == <<t, r>>
           n == McX2("HO_ACK", t, lte.cell, 0, lte.rnti, r, FALSE)
<1>7. k \in Ids /\ k[1] = t /\ k[2] = r /\ k # Home
  BY <1>3, <1>4, <1>6, McIdParts
<1>8. /\ mm' = [mm EXCEPT ![k] = Joining(m)] /\ newest' = [newest EXCEPT ![t] = r]
      /\ x2' = Append(Tail(x2), n)
      /\ UNCHANGED <<co, allowed, lte, forward, ue, dl, ul, fault>>
  BY <1>1, <1>3, <1>5, <1>6 DEF RecvHandoverRequest
<1>9. n \in X2Named /\ n.type = "HO_ACK"
  <2>1. n \in X2Named
    BY <1>4, <1>6, X2Made DEF X2Types
  <2> QED
    BY <2>1 DEF McX2
<1>10. Joining(m) = [MmBlank EXCEPT !.st = "HANDOVER_JOINING", !.source = lte.cell,
                                    !.sourceRnti = lte.rnti, !.rlc = TRUE, !.request = TRUE]
  BY <1>3 DEF Joining, RlcSet, MmBlank
<1> HIDE DEF k, n
<1>11. Home' = Home /\ lte'.cell = lte.cell /\ lte'.rnti = lte.rnti
  BY <1>8 DEF Home
<1>12. Queue(x2', Home', {n}, {})
  BY <1>1, <1>2, <1>8, <1>9, <1>11, QueueMessage
<1>13. mm'[k] = Joining(m) /\ \A j \in Ids : j # k => mm'[j] = mm[j]
  BY <1>1, <1>7, <1>8
<1>14. Target(k, "HANDOVER_JOINING", FALSE)'
  <2>1. newest'[t] = r
    BY <1>1, <1>8
  <2>2. /\ mm'[k].st = "HANDOVER_JOINING" /\ mm'[k].rlc /\ mm'[k].request
        /\ mm'[k].command = NoId /\ mm'[k].queued = 0 /\ mm'[k].answered = FALSE
        /\ mm'[k].sourceRnti = lte.rnti
    BY <1>10, <1>13 DEF MmBlank
  <2> QED
    BY <1>3, <1>7, <1>11, <2>1, <2>2 DEF Target, Newest
<1>15. /\ Holds(Home, "HANDOVER_PREPARATION", FALSE, NoId)' /\ UeAt(Home)' /\ Newest(Home)'
       /\ \A j \in Ids : j = Home \/ j = k \/ mm'[j] = MmBlank
  BY <1>1, <1>3, <1>4, <1>7, <1>8, <1>11, <1>13 DEF Holds, UeAt, Newest
<1>16. Acknowledged(k)'
  <2>1. n = McX2("HO_ACK", k[1], lte'.cell, 0, lte'.rnti, k[2], FALSE)
    BY <1>7, <1>11 DEF n
  <2> QED
    BY <1>2, <1>8, <1>11, <1>12, <1>14, <1>15, <2>1 DEF Acknowledged, NoForward, Requested
<1>17. Life'
  BY <1>2, <1>7, <1>8, <1>16, LockedNext DEF Locked
<1> QED
  BY <1>8, <1>17, DecidedFrame DEF Decided, IInv, McInv

\* The source cell sends the command, and starts to forward packets.
LEMMA AckReceived ==
  ASSUME Fifo, IInv, Activating \/ Serving, NEW i \in DOMAIN x2, X2Next(i),
         RecvHandoverRequestAck(i)
  PROVE  Life' /\ Decided' /\ fault' = fault /\ allowed' = allowed
<1> DEFINE m == Head(x2)
<1>1. /\ x2 # <<>> /\ x2[i] = m /\ x2 \in Seq(X2Named) /\ X2Taken(i) = Tail(x2)
      /\ mm \in [Ids -> MmContext] /\ m.type = "HO_ACK"
      /\ forward \in [Cells -> Cells \union {0}]
  BY X2Head, Typed DEF IInv, RecvHandoverRequestAck
<1>2. PICK k \in Ids : /\ Acknowledged(k)
                       /\ m = McX2("HO_ACK", k[1], lte.cell, 0, lte.rnti, k[2], FALSE)
                       /\ Serving /\ ~co.completed /\ Queue(Tail(x2), Home, {}, {})
  BY <1>1, PhaseOfMessage DEF McX2, McHandoverRequest
<1> HIDE DEF m
<1>3. m.to = lte.cell /\ m.from = k[1] /\ m.old = lte.rnti /\ m.new = k[2]
  BY <1>2 DEF McX2
<1>4. /\ Holds(Home, "HANDOVER_PREPARATION", FALSE, NoId) /\ UeAt(Home)
      /\ Target(k, "HANDOVER_JOINING", FALSE) /\ NoForward
      /\ \A j \in Ids : j = Home \/ j = k \/ mm[j] = MmBlank
  BY <1>2 DEF Acknowledged
<1>5. /\ Home \in Ids /\ Home = <<m.to, m.old>> /\ lte.cell \in Cells
      /\ mm[Home].st = "HANDOVER_PREPARATION" /\ mm[Home].rlc
      /\ k = <<m.from, m.new>> /\ k # Home /\ forward[lte.cell] = 0
  BY <1>3, <1>4, McIdParts DEF Home, Holds, Target, NoForward
<1>6. /\ mm' = [mm EXCEPT ![Home].st = "HANDOVER_LEAVING", ![Home].command = k]
      /\ forward' = [forward EXCEPT ![lte.cell] = k[1]] /\ x2' = Tail(x2)
      /\ UNCHANGED <<co, allowed, lte, newest, lastRnti, ue, dl, ul, fault>>
  BY <1>1, <1>3, <1>5 DEF RecvHandoverRequestAck, Exists
<1>7. Home' = Home /\ lte'.cell = lte.cell /\ lte'.rnti = lte.rnti
  BY <1>6 DEF Home
<1>8. \A j \in Ids : j # Home => mm'[j] = mm[j]
  BY <1>1, <1>6
<1>9. Holds(Home, "HANDOVER_LEAVING", FALSE, k)'
  <2>1. /\ mm'[Home] = [mm[Home] EXCEPT !.st = "HANDOVER_LEAVING", !.command = k]
        /\ mm[Home] \in MmContext
    BY <1>1, <1>5, <1>6
  <2>2. /\ mm'[Home].st = "HANDOVER_LEAVING" /\ mm'[Home].command = k
        /\ mm'[Home].rlc = mm[Home].rlc /\ mm'[Home].request = mm[Home].request
        /\ mm'[Home].answered = mm[Home].answered /\ mm'[Home].queued = mm[Home].queued
    BY <2>1 DEF MmContext
  <2> QED
    BY <1>4, <1>7, <2>2 DEF Holds
<1>10. Target(k, "HANDOVER_JOINING", FALSE)' /\ UeAt(Home)'
       /\ \A j \in Ids : j = Home \/ j = k \/ mm'[j] = MmBlank
  BY <1>4, <1>5, <1>6, <1>7, <1>8 DEF Target, UeAt, Newest
<1>11. Forward(k)'
  BY <1>1, <1>4, <1>5, <1>6 DEF Forward, NoForward
<1>12. Commanded(k)'
  BY <1>2, <1>6, <1>7, <1>9, <1>10, <1>11 DEF Commanded
<1>13. Life'
  BY <1>2, <1>6, <1>12, LockedNext DEF Locked
<1> QED
  BY <1>6, <1>13, DecidedFrame DEF Decided, IInv, McInv

\* The coordinator hears of the end of the handover: the new context serves, and
\* the old one is released.
LEMMA CompletedReceived ==
  ASSUME Fifo, IInv, Activating \/ Serving, NEW i \in DOMAIN x2, X2Next(i),
         RecvSecondaryCellHandoverCompleted(i)
  PROVE  Life' /\ Decided' /\ fault' = fault /\ allowed' = allowed
<1> DEFINE m == Head(x2)
<1>1. /\ x2 # <<>> /\ x2[i] = m /\ x2 \in Seq(X2Named) /\ Tail(x2) \in Seq(X2Named)
      /\ co \in Coordinator /\ lte \in LteContext /\ m.type = "HO_COMPLETED"
      /\ \A n : X2Answered(i, n) = Append(Tail(x2), n)
  BY X2Head, Typed DEF IInv, RecvSecondaryCellHandoverCompleted
<1>2. PICK k \in Ids : /\ Reported(k)
                       /\ m = McX2("HO_COMPLETED", k[1], Lte, 0, lte.rnti, k[2], FALSE)
                       /\ Serving /\ ~co.completed /\ Queue(Tail(x2), Home, {}, {})
  BY <1>1, PhaseOfMessage DEF McX2, McHandoverRequest
<1> HIDE DEF m
<1>3. m.from = k[1] /\ m.old = lte.rnti /\ m.new = k[2]
  BY <1>2 DEF McX2
<1>4. /\ Holds(Home, "HANDOVER_LEAVING", FALSE, NoId) /\ UeAt(k)
      /\ Target(k, "CONNECTED_NORMALLY", FALSE) /\ Forward(k)
      /\ \A j \in Ids : j = Home \/ j = k \/ mm[j] = MmBlank
  BY <1>2 DEF Reported, Away, UeAt
<1>5. /\ Home \in Ids /\ lte.cell \in Cells /\ lte.rnti \in Rntis
      /\ k[1] \in Cells /\ k[2] \in Rntis /\ k = <<k[1], k[2]>> /\ k[1] # lte.cell
      /\ k[1] # 0 /\ k # Home /\ lte.isMc /\ lte.bearer /\ co.last = lte.cell
  BY <1>2, <1>4, McIdParts, McNotZero DEF Home, Holds, Target, Serving, Linked
<1>0. PICK n : n = McX2("CTX_RELEASE", Lte, lte.cell, 0, lte.rnti, k[2], FALSE)
  OBVIOUS
<1>6. /\ lte' = [lte EXCEPT !.cell = k[1], !.rnti = k[2], !.leg = "mmwave"]
      /\ co' = ServedBy(co, k[1]) /\ x2' = Append(Tail(x2), n)
      /\ UNCHANGED <<allowed, mm, newest, lastRnti, forward, ue, dl, ul, fault>>
  BY <1>0, <1>1, <1>3, <1>5 DEF RecvSecondaryCellHandoverCompleted
<1>7. n \in X2Named /\ n.type = "CTX_RELEASE" /\ Released(n) = Home /\ n.to = lte.cell
  <2>1. n \in X2Named
    BY <1>0, <1>5, X2Made DEF X2Types
  <2> QED
    BY <1>0, <2>1 DEF McX2, Released, Home
<1>8. /\ lte'.cell = k[1] /\ lte'.rnti = k[2] /\ lte'.leg = "mmwave" /\ lte'.st = lte.st
      /\ lte'.isMc = lte.isMc /\ lte'.bearer = lte.bearer
  BY <1>1, <1>6 DEF LteContext
<1>9. /\ co'.last = k[1] /\ co'.completed /\ ~co'.usingLte /\ co'.outage = co.outage
      /\ co'.event = NoEvent
  <2>1. co.event = NoEvent
    BY <1>2 DEF IInv, McInv, EventIsCurrent, Scheduled
  <2> QED
    BY <1>1, <1>6, <2>1 DEF ServedBy, Coordinator
<1>10. Home' = k
  BY <1>5, <1>8 DEF Home
<1>11. Queue(x2', Home', {}, {n})
  BY <1>1, <1>2, <1>6, <1>7, QueueRelease
<1>12. AtHome({n})'
  <2>1. Holds(k, "CONNECTED_NORMALLY", TRUE, NoId)' /\ UeAt(k)' /\ Newest(k)'
    <3>1. mm[k].request = TRUE /\ mm[k] \in MmContext
      BY <1>2, <1>4, Typed DEF IInv, Target, MmContext
    <3> QED
      BY <1>4, <1>6, <3>1 DEF Target, Holds, UeAt, Newest
  <2>2. /\ Holds(Released(n), "HANDOVER_LEAVING", FALSE, NoId)'
        /\ n.to \in Cells /\ n.to # lte'.cell /\ forward'[n.to] # 0
    BY <1>4, <1>5, <1>6, <1>7, <1>8 DEF Holds, Forward
  <2>3. \A j \in Ids : j = k \/ j = Released(n) \/ mm'[j] = MmBlank
    BY <1>4, <1>6, <1>7
  <2>4. \A c \in Cells : forward'[c] = 0 \/ n.to = c
    BY <1>4, <1>6, <1>7 DEF Forward
  <2> QED
    BY <1>10, <2>1, <2>2, <2>3, <2>4 DEF AtHome, Released
<1>13. Unlocked'
  BY <1>11, <1>12, ReleasesKept DEF Unlocked, Resting
<1>14. Linked'
  BY <1>2, <1>6, <1>8, <1>9, <1>10 DEF Serving, Linked
<1>15. Life'
  BY <1>2, <1>5, <1>8, <1>9, <1>13, <1>14 DEF Life, Serving
<1> QED
  BY <1>6, <1>8, <1>9, <1>15 DEF Decided, EventIsCurrent, Scheduled, LegFollowsCoordinator

-----------------------------------------------------------------------------
(* The UE in a handover.                                                   *)

\* While the UE is at its cell nothing is on its way to or from it.
LEMMA AtHomeIdle ==
  ASSUME NEW R, AtHome(R)
  PROVE  /\ \A k \in Ids : mm[k].command = NoId /\ ~mm[k].answered
         /\ ue.st = "CONNECTED_NORMALLY"
<1> SUFFICES ASSUME NEW k \in Ids PROVE mm[k].command = NoId /\ ~mm[k].answered
  BY DEF AtHome, UeAt
<1>1. CASE k = Home
  BY <1>1 DEF AtHome, Holds
<1>2. ASSUME NEW m \in R, k = Released(m) PROVE mm[k].command = NoId /\ ~mm[k].answered
  BY <1>2 DEF AtHome, Holds
<1>3. CASE mm[k] = MmBlank
  BY <1>3 DEF MmBlank
<1> QED
  BY <1>1, <1>2, <1>3 DEF AtHome

\* The same while the leg is set up.
LEMMA SetupIdle ==
  ASSUME Setup
  PROVE  /\ \A k \in Ids : mm[k].command = NoId /\ ~mm[k].answered
         /\ ue.st # "CONNECTED_HANDOVER"
<1>1. \A rlc, k : First(k, rlc) => /\ \A j \in Ids : mm[j].command = NoId /\ ~mm[j].answered
                                   /\ ue.st = "CONNECTED_NORMALLY"
  <2> SUFFICES ASSUME NEW rlc, NEW k, First(k, rlc), NEW j \in Ids
               PROVE  mm[j].command = NoId /\ ~mm[j].answered /\ ue.st = "CONNECTED_NORMALLY"
    BY Zenon DEF First, UeAt
  <2>1. ue.st = "CONNECTED_NORMALLY"
    BY DEF First, UeAt
  <2>2. CASE j = k
    <3>1. mm[j] = [MmBlank EXCEPT !.st = "CONNECTED_NORMALLY", !.rlc = rlc, !.request = rlc]
      BY <2>2 DEF First
    <3> QED
      BY <2>1, <3>1 DEF MmBlank
  <2>3. CASE mm[j] = MmBlank
    BY <2>1, <2>3 DEF MmBlank
  <2> QED
    BY <2>2, <2>3 DEF First
<1>2. NoContext => \A j \in Ids : mm[j].command = NoId /\ ~mm[j].answered
  BY DEF NoContext, MmBlank
<1>3. CASE Seeking \/ Told \/ Camping
  BY <1>2, <1>3 DEF Seeking, Told, Camping
<1>4. CASE Announced \/ NotYetAsked \/ RlcAsked \/ RlcAnswered
  BY <1>1, <1>4, Zenon DEF Announced, NotYetAsked, RlcAsked, RlcAnswered, Known
<1> QED
  BY <1>3, <1>4 DEF Setup

\* Otherwise there are two contexts, and each phase says what is on its way.
LEMMA AwayFromHome ==
  ASSUME NEW k, NEW s, NEW st, NEW answered, Away(k, s, st, answered)
  PROVE  /\ \A j \in Ids : mm[j].command = NoId /\ (mm[j].answered => j = k /\ answered)
         /\ ue.st = s
<1> SUFFICES ASSUME NEW j \in Ids
             PROVE  mm[j].command = NoId /\ (mm[j].answered => j = k /\ answered)
  BY DEF Away
<1>1. CASE j = Home
  BY <1>1 DEF Away, Holds
<1>2. CASE j = k
  BY <1>2 DEF Away, Target
<1>3. CASE mm[j] = MmBlank
  BY <1>3 DEF MmBlank
<1> QED
  BY <1>1, <1>2, <1>3 DEF Away

\* A command, a UE between two cells and an answer tell the phase.
LEMMA PhaseOfUe ==
  ASSUME Life
  PROVE  /\ \A k \in Ids : mm[k].command # NoId
              => Serving /\ ~co.completed /\ k = Home /\ \E j \in Ids : Commanded(j)
         /\ ue.st = "CONNECTED_HANDOVER"
              => Serving /\ ~co.completed /\ \E j \in Ids : Accessing(j)
         /\ \A k \in Ids : mm[k].answered => Serving /\ ~co.completed /\ Answered(k)
<1> DEFINE told(k)  == mm[k].command # NoId
           busy     == (\E k \in Ids : told(k) \/ mm[k].answered) \/ ue.st = "CONNECTED_HANDOVER"
<1>1. Setup => ~busy
  BY SetupIdle
<1>2. \A R : AtHome(R) => ~busy
  BY AtHomeIdle
<1>3. ASSUME busy PROVE Serving /\ ~co.completed /\ Locked
  <2>1. ~Activating /\ ~Setup
    BY <1>1, <1>2, <1>3, Zenon DEF Activating, Resting
  <2>2. ~Unlocked
    BY <1>2, <1>3, Zenon DEF Unlocked, Resting
  <2> QED
    BY <2>1, <2>2 DEF Life, Serving
<1>4. ~busy
      \/ (\E t \in Cells : Requested(t))
      \/ \E j \in Ids : \/ Acknowledged(j) \/ Commanded(j) \/ Accessing(j)
                        \/ Answered(j) \/ Reported(j)
  BY <1>2, <1>3, Zenon DEF Locked, Ordered
<1>5. ASSUME NEW t, Requested(t) PROVE ~busy
  <2>1. \A j \in Ids : mm[j].command = NoId /\ ~mm[j].answered
    BY <1>5 DEF Requested, Holds, MmBlank
  <2> QED
    BY <1>5, <2>1 DEF Requested, UeAt
<1>6. ASSUME NEW k \in Ids, Acknowledged(k) PROVE ~busy
  <2>1. \A j \in Ids : mm[j].command = NoId /\ ~mm[j].answered
    BY <1>6 DEF Acknowledged, Holds, Target, MmBlank
  <2> QED
    BY <1>6, <2>1 DEF Acknowledged, UeAt
<1>7. ASSUME NEW k \in Ids, Commanded(k)
      PROVE  /\ \A j \in Ids : ~mm[j].answered /\ (told(j) => j = Home)
             /\ ue.st # "CONNECTED_HANDOVER"
  <2>1. \A j \in Ids : ~mm[j].answered /\ (told(j) => j = Home)
    BY <1>7 DEF Commanded, Holds, Target, MmBlank
  <2> QED
    BY <1>7, <2>1 DEF Commanded, UeAt
<1>8. ASSUME NEW k \in Ids, Accessing(k)
      PROVE  \A j \in Ids : ~told(j) /\ ~mm[j].answered
  BY <1>8, AwayFromHome DEF Accessing
<1>9. ASSUME NEW k \in Ids, Answered(k)
      PROVE  /\ \A j \in Ids : ~told(j) /\ (mm[j].answered => j = k)
             /\ ue.st # "CONNECTED_HANDOVER"
  <2>1. Away(k, "CONNECTED_NORMALLY", "HANDOVER_JOINING", TRUE)
    BY <1>9 DEF Answered
  <2>2. /\ \A j \in Ids : mm[j].command = NoId /\ (mm[j].answered => j = k)
        /\ ue.st = "CONNECTED_NORMALLY"
    BY <2>1, AwayFromHome
  <2> QED
    BY <2>2
<1>10. ASSUME NEW k \in Ids, Reported(k) PROVE ~busy
  <2>1. Away(k, "CONNECTED_NORMALLY", "CONNECTED_NORMALLY", FALSE)
    BY <1>10 DEF Reported
  <2>2. (\A j \in Ids : mm[j].command = NoId /\ ~mm[j].answered) /\ ue.st = "CONNECTED_NORMALLY"
    BY <2>1, AwayFromHome
  <2> QED
    BY <2>2
<1>11. ASSUME NEW k \in Ids, told(k)
       PROVE  Serving /\ ~co.completed /\ k = Home /\ \E j \in Ids : Commanded(j)
  <2>1. Serving /\ ~co.completed
    BY <1>3, <1>11
  <2>2. PICK j \in Ids : Commanded(j)
    BY <1>4, <1>5, <1>6, <1>8, <1>9, <1>10, <1>11
  <2> QED
    BY <1>7, <1>11, <2>1, <2>2
<1>12. ASSUME ue.st = "CONNECTED_HANDOVER"
       PROVE  Serving /\ ~co.completed /\ \E j \in Ids : Accessing(j)
  BY <1>3, <1>4, <1>5, <1>6, <1>7, <1>9, <1>10, <1>12
<1>13. ASSUME NEW k \in Ids, mm[k].answered
       PROVE  Serving /\ ~co.completed /\ Answered(k)
  <2>1. Serving /\ ~co.completed
    BY <1>3, <1>13
  <2>2. PICK j \in Ids : Answered(j)
    BY <1>4, <1>5, <1>6, <1>7, <1>8, <1>10, <1>13
  <2>3. j = k
    BY <1>9, <1>13, <2>2
  <2> QED
    BY <2>1, <2>2, <2>3
<1> QED
  BY <1>11, <1>12, <1>13

\* The UE finds the command of the cell it is in.
LEMMA CommandReceived ==
  ASSUME IInv, NEW k \in Ids, UeRecvHandoverCommand(k)
  PROVE  Life' /\ Decided' /\ fault' = fault /\ allowed' = allowed
<1>1. PICK j \in Ids : Commanded(j) /\ Serving /\ ~co.completed /\ k = Home
  BY PhaseOfUe DEF IInv, McInv, UeRecvHandoverCommand
<1>2. /\ Queue(x2, Home, {}, {}) /\ Holds(Home, "HANDOVER_LEAVING", FALSE, j) /\ UeAt(Home)
      /\ Target(j, "HANDOVER_JOINING", FALSE) /\ Forward(j)
      /\ \A i \in Ids : i = Home \/ i = j \/ mm[i] = MmBlank
  BY <1>1 DEF Commanded
<1>3. /\ ue.known = k /\ mm[k].command = j /\ mm[j].rlc /\ j # k /\ ue \in Ue
      /\ mm \in [Ids -> MmContext]
  BY <1>1, <1>2, Typed DEF IInv, UeAt, Holds, Target, Home
<1>4. /\ ue' = [ue EXCEPT !.st = "CONNECTED_HANDOVER", !.id = j, !.known = j,
                          !.rlc = @ \/ mm[j].rlc]
      /\ mm' = [mm EXCEPT ![k].command = NoId]
      /\ UNCHANGED <<co, allowed, lte, newest, lastRnti, forward, dl, ul, x2, fault>>
  BY <1>3 DEF UeRecvHandoverCommand
<1>5. Home' = Home /\ lte'.cell = lte.cell /\ lte'.rnti = lte.rnti
  BY <1>4 DEF Home
<1>6. ue'.st = "CONNECTED_HANDOVER" /\ ue'.id = j /\ ue'.known = j /\ ue'.rlc
  BY <1>3, <1>4 DEF Ue
<1>7. \A i \in Ids : i # k => mm'[i] = mm[i]
  BY <1>3, <1>4
<1>8. Holds(Home, "HANDOVER_LEAVING", FALSE, NoId)'
  <2>1. mm'[k] = [mm[k] EXCEPT !.command = NoId] /\ mm[k] \in MmContext
    BY <1>3, <1>4
  <2>2. /\ mm'[k].st = mm[k].st /\ mm'[k].command = NoId
        /\ mm'[k].rlc = mm[k].rlc /\ mm'[k].request = mm[k].request
        /\ mm'[k].answered = mm[k].answered /\ mm'[k].queued = mm[k].queued
    BY <2>1 DEF MmContext
  <2> QED
    BY <1>1, <1>2, <1>5, <2>2 DEF Holds
<1>9. Target(j, "HANDOVER_JOINING", FALSE)' /\ Forward(j)'
      /\ \A i \in Ids : i = Home \/ i = j \/ mm'[i] = MmBlank
  BY <1>1, <1>2, <1>3, <1>4, <1>5, <1>7 DEF Target, Newest, Forward
<1>10. Accessing(j)'
  BY <1>2, <1>4, <1>5, <1>6, <1>8, <1>9 DEF Accessing, Away
<1>11. Life'
  BY <1>1, <1>4, <1>6, <1>10, LockedNext DEF Locked
<1> QED
  BY <1>4, <1>11, DecidedFrame DEF Decided, IInv, McInv

\* The UE reaches the target cell,
LEMMA AccessDone ==
  ASSUME IInv, UeHandoverAccess
  PROVE  Life' /\ Decided' /\ fault' = fault /\ allowed' = allowed
<1>1. PICK j \in Ids : Accessing(j) /\ Serving /\ ~co.completed
  BY PhaseOfUe DEF IInv, McInv, UeHandoverAccess
<1>2. /\ Queue(x2, Home, {}, {}) /\ Holds(Home, "HANDOVER_LEAVING", FALSE, NoId)
      /\ ue.id = j /\ ue.known = j /\ Target(j, "HANDOVER_JOINING", FALSE) /\ Forward(j)
      /\ \A i \in Ids : i = Home \/ i = j \/ mm[i] = MmBlank
  BY <1>1 DEF Accessing, Away
<1>3. ue \in Ue /\ mm \in [Ids -> MmContext] /\ j # Home
  BY <1>2, Typed DEF IInv, Target, Home
<1>4. /\ ue' = [ue EXCEPT !.st = "CONNECTED_NORMALLY"]
      /\ mm' = [mm EXCEPT ![j].answered = TRUE]
      /\ UNCHANGED <<co, allowed, lte, newest, lastRnti, forward, dl, ul, x2, fault>>
  BY <1>2 DEF UeHandoverAccess
<1>5. Home' = Home /\ lte'.cell = lte.cell /\ lte'.rnti = lte.rnti
  BY <1>4 DEF Home
<1>6. ue'.st = "CONNECTED_NORMALLY" /\ ue'.id = j /\ ue'.known = j /\ ue'.rlc = ue.rlc
  BY <1>2, <1>3, <1>4 DEF Ue
<1>7. \A i \in Ids : i # j => mm'[i] = mm[i]
  BY <1>3, <1>4
<1>8. Target(j, "HANDOVER_JOINING", TRUE)'
  <2>1. mm'[j] = [mm[j] EXCEPT !.answered = TRUE] /\ mm[j] \in MmContext
    BY <1>3, <1>4
  <2>2. /\ mm'[j].st = mm[j].st /\ mm'[j].command = mm[j].command
        /\ mm'[j].rlc = mm[j].rlc /\ mm'[j].request = mm[j].request
        /\ mm'[j].answered = TRUE /\ mm'[j].queued = mm[j].queued
        /\ mm'[j].sourceRnti = mm[j].sourceRnti
    BY <2>1 DEF MmContext
  <2> QED
    BY <1>2, <1>4, <1>5, <2>2 DEF Target, Newest
<1>9. /\ Holds(Home, "HANDOVER_LEAVING", FALSE, NoId)' /\ Forward(j)'
      /\ \A i \in Ids : i = Home \/ i = j \/ mm'[i] = MmBlank
  BY <1>2, <1>3, <1>4, <1>5, <1>7 DEF Holds, Forward
<1>10. Answered(j)'
  BY <1>2, <1>4, <1>5, <1>6, <1>8, <1>9 DEF Answered, Away
<1>11. Life'
  BY <1>1, <1>4, <1>6, <1>10, LockedNext DEF Locked
<1> QED
  BY <1>4, <1>11, DecidedFrame DEF Decided, IInv, McInv

\* and the target cell, which has not been asked to hand it on, tells the
\* coordinator.
LEMMA AnswerReceived ==
  ASSUME IInv, NEW k \in Ids, RecvHandoverCompletedByUe(k)
  PROVE  Life' /\ Decided' /\ fault' = fault /\ allowed' = allowed
<1>1. Answered(k) /\ Serving /\ ~co.completed
  BY PhaseOfUe DEF IInv, McInv, RecvHandoverCompletedByUe
<1>2. /\ Queue(x2, Home, {}, {}) /\ Holds(Home, "HANDOVER_LEAVING", FALSE, NoId)
      /\ UeAt(k) /\ Target(k, "HANDOVER_JOINING", TRUE) /\ Forward(k)
      /\ \A i \in Ids : i = Home \/ i = k \/ mm[i] = MmBlank
  BY <1>1 DEF Answered, Away, UeAt
<1>3. /\ mm \in [Ids -> MmContext] /\ mm[k] \in MmContext /\ k # Home /\ x2 \in Seq(X2Named)
      /\ mm[k].st = "HANDOVER_JOINING" /\ mm[k].queued = 0 /\ mm[k].sourceRnti = lte.rnti
      /\ Home \in Ids
  BY <1>2, Typed DEF IInv, Target, Home, Holds
<1>0. PICK n : n = McX2("HO_COMPLETED", k[1], Lte, 0, lte.rnti, k[2], FALSE)
  OBVIOUS
<1> DEFINE m == [mm[k] EXCEPT !.st = "CONNECTED_NORMALLY", !.answered = FALSE]
<1>4. /\ m.st = "CONNECTED_NORMALLY" /\ m.answered = FALSE /\ m.queued = 0
      /\ m.rlc = mm[k].rlc /\ m.request = mm[k].request /\ m.command = mm[k].command
  BY <1>3 DEF MmContext
<1>5. /\ mm' = [mm EXCEPT ![k] = m] /\ x2' = Append(x2, n)
      /\ UNCHANGED <<co, allowed, lte, newest, lastRnti, forward, ue, dl, ul, fault>>
  BY <1>0, <1>3, <1>4 DEF RecvHandoverCompletedByUe
<1> HIDE DEF m
<1>6. n \in X2Named /\ n.type = "HO_COMPLETED"
  <2>1. lte.rnti \in Rntis /\ k[1] \in Cells /\ k[2] \in Rntis
    BY <1>3, McIdParts DEF Home
  <2>2. n \in X2Named
    BY <1>0, <2>1, X2Made DEF X2Types
  <2> QED
    BY <1>0, <2>2 DEF McX2
<1>7. Home' = Home /\ lte'.cell = lte.cell /\ lte'.rnti = lte.rnti
  BY <1>5 DEF Home
<1>8. Queue(x2', Home', {n}, {})
  BY <1>2, <1>3, <1>5, <1>6, <1>7, QueueMessage
<1>9. mm'[k] = m /\ \A i \in Ids : i # k => mm'[i] = mm[i]
  BY <1>3, <1>5
<1>10. Target(k, "CONNECTED_NORMALLY", FALSE)'
  BY <1>2, <1>4, <1>5, <1>7, <1>9 DEF Target, Newest
<1>11. /\ Holds(Home, "HANDOVER_LEAVING", FALSE, NoId)' /\ Forward(k)' /\ UeAt(k)'
       /\ \A i \in Ids : i = Home \/ i = k \/ mm'[i] = MmBlank
  BY <1>2, <1>3, <1>5, <1>7, <1>9 DEF Holds, Forward, UeAt
<1>12. Reported(k)'
  BY <1>0, <1>7, <1>8, <1>10, <1>11 DEF Reported, Away, UeAt
<1>13. Life'
  BY <1>1, <1>5, <1>12, LockedNext DEF Locked
<1> QED
  BY <1>5, <1>13, DecidedFrame DEF Decided, IInv, McInv

-----------------------------------------------------------------------------
(* The LTE radio link: the UE has its mmWave leg.                          *)

\* A message more to the UE; the messages that a change of state sends.
LEMMA DownlinkGrows ==
  ASSUME McTypeInv, Linked, NEW m \in DlNamed, m.type \in {"RECONF", "SWITCH"}
  PROVE  /\ RlcFirst(Append(dl, m), ue.rlc)
         /\ \A i \in DOMAIN Append(dl, m) : Append(dl, m)[i].type \in {"RECONF", "SWITCH"}
<1>1. dl \in Seq(DlNamed) /\ ue.rlc \in BOOLEAN
  BY Typed DEF Ue
<1>2. RlcFirst(Append(dl, m), ue.rlc)
  BY <1>1, RlcFirstAppend DEF Linked
<1>3. \A i \in DOMAIN Append(dl, m) : Append(dl, m)[i].type \in {"RECONF", "SWITCH"}
  BY <1>1, AppendParts DEF Linked
<1> QED
  BY <1>2, <1>3

\* The reconfiguration that was postponed is sent when the previous one ends.
LEMMA ConnectedSends ==
  ASSUME McTypeInv, NEW l \in LteContext
  PROVE  /\ Reconfiguration(l) \in DlNamed /\ Reconfiguration(l).type = "RECONF"
         /\ dl \o ConnectedDl(l) = IF l.pend THEN Append(dl, Reconfiguration(l)) ELSE dl
<1>1. dl \in Seq(DlNamed) /\ Reconfiguration(l) \in DlNamed /\ Reconfiguration(l).type = "RECONF"
  BY Typed, RrcMade DEF Reconfiguration
<1> DEFINE m == Reconfiguration(l)
<1> HIDE DEF m
<1>2. dl \o <<m>> = Append(dl, m) /\ dl \o <<>> = dl
  BY <1>1
<1> QED
  BY <1>1, <1>2 DEF ConnectedDl, m

\* The UE takes a message off the downlink, and answers or not.
LEMMA DownlinkTaken ==
  ASSUME McTypeInv, Activating \/ Serving, dl # <<>>, dl' = Tail(dl),
         ue'.rlc \in BOOLEAN, ue.rlc => ue'.rlc,
         Head(dl).type = "RECONF" /\ Head(dl).on => ue'.rlc,
         SameUe, ul' = ul \/ ul' = Append(ul, Up("RECONF_COMPLETE", NoId)),
         UNCHANGED <<co, lte, mm, newest, forward, x2>>
  PROVE  Life'
<1>1. dl \in Seq(DlNamed) /\ ul \in Seq(UlNamed) /\ ue.rlc \in BOOLEAN /\ Linked
  BY Typed DEF Ue, Activating, Serving
<1>2. RlcFirst(dl', ue'.rlc)
  BY <1>1, RlcFirstTail DEF Linked
<1>3. \A i \in DOMAIN dl' : dl'[i].type \in {"RECONF", "SWITCH"}
  BY <1>1, TailParts DEF Linked
<1>4. \A i \in DOMAIN ul' : ul'[i].type = "RECONF_COMPLETE"
  <2>1. PICK m \in UlNamed : /\ m.type = "RECONF_COMPLETE"
                             /\ ul' = ul \/ ul' = Append(ul, m)
    BY RrcMade DEF Up
  <2>2. \A i \in DOMAIN Append(ul, m) : Append(ul, m)[i].type = "RECONF_COMPLETE"
    BY <1>1, <2>1, AppendParts DEF Linked
  <2> QED
    BY <1>1, <2>1, <2>2 DEF Linked
<1>5. Home' = Home /\ SameHome /\ QueueKept
  BY DEF Home, SameHome, QueueKept
<1>6. Within
  BY <1>5 DEF Within, SameContexts
<1>7. Linked'
  BY <1>1, <1>2, <1>3, <1>4, <1>5 DEF Linked
<1> QED
  BY <1>6, <1>7, LinkedKept DEF Life, Activating, Serving

\* The radio steps of a UE with its secondary bearer keep its life.
LEMMA LinkedRadio ==
  ASSUME IInv, Activating \/ Serving, McDownlinkStep
  PROVE  Life' /\ Decided' /\ fault' = fault /\ allowed' = allowed
<1>0. /\ ue \in Ue /\ dl \in Seq(DlNamed) /\ Linked
      /\ (\A i \in DOMAIN dl : dl[i].type \in {"RECONF", "SWITCH"})
      /\ RlcFirst(dl, ue.rlc)
  BY Typed DEF IInv, Activating, Serving, Linked
<1>1. dl # <<>> => Head(dl).type \in {"RECONF", "SWITCH"} /\ Head(dl).on \in BOOLEAN
  <2> SUFFICES ASSUME dl # <<>>
               PROVE  Head(dl).type \in {"RECONF", "SWITCH"} /\ Head(dl).on \in BOOLEAN
    OBVIOUS
  <2>1. Head(dl) = dl[1] /\ 1 \in DOMAIN dl /\ Head(dl) \in DlNamed
    BY <1>0, TailParts
  <2> QED
    BY <1>0, <2>1 DEF DlNamed, DlMsg
<1>2. CASE UeRecvRrcConnectionReconfiguration
  <2>1. /\ dl # <<>> /\ Head(dl).type = "RECONF" /\ dl' = Tail(dl)
        /\ ue' = IF Head(dl).on THEN [ue EXCEPT !.rlc = TRUE, !.leg = "mmwave"] ELSE ue
        /\ ul' = Append(ul, Up("RECONF_COMPLETE", NoId))
        /\ UNCHANGED <<co, allowed, lte, mm, newest, lastRnti, forward, x2, fault>>
    BY <1>2 DEF UeRecvRrcConnectionReconfiguration, DlArrived
  <2>2. /\ ue'.rlc \in BOOLEAN /\ (ue.rlc => ue'.rlc) /\ (Head(dl).on => ue'.rlc)
        /\ ue'.st = ue.st /\ ue'.id = ue.id /\ ue'.known = ue.known
    BY <1>0, <2>1 DEF Ue
  <2>3. Life'
    BY <2>1, <2>2, DownlinkTaken DEF SameUe, IInv
  <2> QED
    BY <2>1, <2>3, DecidedFrame DEF Decided, IInv, McInv
<1>3. CASE UeRecvRrcConnectionSwitch
  <2>1. dl # <<>> /\ Head(dl).type = "SWITCH"
    BY <1>3 DEF UeRecvRrcConnectionSwitch, DlArrived
  <2>2. Head(dl).on \/ ue.rlc
    <3>1. Head(dl) = dl[1] /\ 1 \in DOMAIN dl
      BY <1>0, <2>1, TailParts
    <3> QED
      BY <1>0, <2>1, <3>1 DEF RlcFirst
  <2>3. /\ dl' = Tail(dl)
        /\ ue' = [ue EXCEPT !.leg = IF Head(dl).on THEN "mmwave" ELSE "lte"]
        /\ UNCHANGED <<co, allowed, lte, mm, newest, lastRnti, forward, ul, x2, fault>>
    BY <1>3, <2>2 DEF UeRecvRrcConnectionSwitch
  <2>4. /\ ue'.rlc \in BOOLEAN /\ ue'.rlc = ue.rlc
        /\ ue'.st = ue.st /\ ue'.id = ue.id /\ ue'.known = ue.known
    BY <1>0, <2>3 DEF Ue
  <2>5. Life'
    BY <2>1, <2>3, <2>4, DownlinkTaken DEF SameUe, IInv
  <2> QED
    BY <2>3, <2>5, DecidedFrame DEF Decided, IInv, McInv
<1>4. ~UeRecvConnectToMmWave
  BY <1>1 DEF UeRecvConnectToMmWave, DlArrived
<1> QED
  BY <1>2, <1>3, <1>4 DEF McDownlinkStep

\* The UE's answer ends a reconfiguration, or the set-up of the leg.
LEMMA LinkedCompleted ==
  ASSUME IInv, Activating \/ Serving, RecvRrcConnectionReconfigurationCompleted
  PROVE  Life' /\ Decided' /\ fault' = fault /\ allowed' = allowed
<1>0. /\ co \in Coordinator /\ lte \in LteContext /\ dl \in Seq(DlNamed)
      /\ ul \in Seq(UlNamed) /\ Linked /\ ul # <<>> /\ McTypeInv
  BY Typed DEF IInv, Activating, Serving, RecvRrcConnectionReconfigurationCompleted, UlArrived
<1>1. /\ ul' = Tail(ul) /\ UNCHANGED <<allowed, mm, newest, lastRnti, forward, ue, fault>>
  BY DEF RecvRrcConnectionReconfigurationCompleted
<1>2. \A i \in DOMAIN ul' : ul'[i].type = "RECONF_COMPLETE"
  BY <1>0, <1>1, TailParts DEF Linked
<1>3. ASSUME NEW l \in LteContext, lte' = Connected(l), l.cell = lte.cell, l.rnti = lte.rnti,
             l.isMc = lte.isMc, l.bearer = lte.bearer, co'.outage = co.outage,
             dl' = dl \o ConnectedDl(l)
      PROVE  /\ Linked' /\ SameHome /\ lte'.leg = l.leg
             /\ lte'.st \in {"CONNECTED_NORMALLY", "CONNECTION_RECONFIGURATION"}
  <2>1. /\ lte'.cell = lte.cell /\ lte'.rnti = lte.rnti /\ lte'.isMc = lte.isMc
        /\ lte'.bearer = lte.bearer /\ lte'.leg = l.leg
        /\ lte'.st \in {"CONNECTED_NORMALLY", "CONNECTION_RECONFIGURATION"}
    BY <1>3 DEF Connected, LteContext
  <2>2. RlcFirst(dl', ue.rlc) /\ \A i \in DOMAIN dl' : dl'[i].type \in {"RECONF", "SWITCH"}
    <3>1. dl' = Append(dl, Reconfiguration(l)) \/ dl' = dl
      BY <1>3, <1>0, ConnectedSends
    <3>2. Reconfiguration(l) \in DlNamed /\ Reconfiguration(l).type \in {"RECONF", "SWITCH"}
      BY <1>0, <1>3, ConnectedSends
    <3>3. CASE dl' = Append(dl, Reconfiguration(l))
      BY <1>0, <3>2, <3>3, DownlinkGrows
    <3>4. CASE dl' = dl
      BY <1>0, <3>4 DEF Linked
    <3> QED
      BY <3>1, <3>3, <3>4
  <2>3. Home' = Home
    BY <2>1 DEF Home
  <2> QED
    BY <1>0, <1>1, <1>2, <1>3, <2>1, <2>2, <2>3 DEF Linked, SameHome
<1>4. CASE lte.st = "CONNECTED_NORMALLY"
  <2>1. UNCHANGED <<co, lte, dl, x2>>
    BY <1>4 DEF RecvRrcConnectionReconfigurationCompleted
  <2>2. Linked' /\ SameHome
    BY <1>0, <1>1, <1>2, <2>1 DEF Linked, Home, SameHome
  <2>3. Life'
    BY <1>1, <2>1, <2>2, Unmoved, LinkedKept DEF Life, Activating, Serving
  <2> QED
    BY <1>1, <2>1, <2>3, DecidedFrame DEF Decided, IInv, McInv
<1>5. CASE Serving /\ lte.st # "CONNECTED_NORMALLY"
  <2>1. lte.st = "CONNECTION_RECONFIGURATION" /\ co.last = lte.cell /\ lte.isMc
    BY <1>0, <1>5 DEF Serving, Linked
  <2>2. co' = co /\ lte' = Connected(lte) /\ dl' = dl \o ConnectedDl(lte) /\ x2' = x2
    BY <2>1 DEF RecvRrcConnectionReconfigurationCompleted, RlcWanted
  <2>3. /\ Linked' /\ SameHome /\ lte'.leg = lte.leg
        /\ lte'.st \in {"CONNECTED_NORMALLY", "CONNECTION_RECONFIGURATION"}
    BY <1>0, <1>3, <2>2
  <2>4. Life'
    <3>1. Within
      BY <1>1, <2>2, <2>3, Unmoved
    <3>2. ~Activating
      BY <1>5 DEF Serving, Activating
    <3> QED
      BY <1>5, <2>2, <2>3, <3>1, <3>2, LinkedKept DEF Life
  <2> QED
    BY <1>1, <2>2, <2>3, <2>4
    DEF Decided, EventIsCurrent, Scheduled, LegFollowsCoordinator, IInv, McInv
<1>6. CASE Activating
  <2>1. /\ lte.st = "MC_CONNECTION_RECONFIGURATION" /\ lte.isMc /\ ~co.completed
        /\ Home \in Ids /\ Resting({})
    BY <1>6 DEF Activating, Linked
  <2> DEFINE l == [lte EXCEPT !.leg = "mmwave"]
  <2>2. /\ l \in LteContext /\ l.cell = lte.cell /\ l.rnti = lte.rnti /\ l.isMc = lte.isMc
        /\ l.bearer = lte.bearer /\ l.leg = "mmwave"
    BY <1>0 DEF LteContext
  <2>3. lte.cell \in Cells /\ lte.cell # 0
    BY <2>1, McIdParts, McNotZero DEF Home
  <2>4. /\ ServedBy(co, lte.cell).last = lte.cell /\ ServedBy(co, lte.cell).completed
        /\ ~ServedBy(co, lte.cell).usingLte /\ ServedBy(co, lte.cell).outage = co.outage
        /\ ServedBy(co, lte.cell).event = co.event
    BY <1>0, <2>3 DEF ServedBy, Coordinator
  <2>5. /\ co' = ServedBy(co, lte.cell) /\ lte' = Connected(l)
        /\ dl' = dl \o ConnectedDl(l)
        /\ x2' = IF l.available /\ RlcWanted(l, ServedBy(co, lte.cell))
                 THEN Append(x2, RlcSetupRequest(l)) ELSE x2
    BY <2>1 DEF RecvRrcConnectionReconfigurationCompleted
  <2> HIDE DEF l
  <2>6. ~RlcWanted(l, ServedBy(co, lte.cell))
    BY <2>1, <2>2, <2>4 DEF RlcWanted
  <2>7. /\ Linked' /\ SameHome /\ lte'.leg = "mmwave"
        /\ lte'.st \in {"CONNECTED_NORMALLY", "CONNECTION_RECONFIGURATION"}
    BY <1>3, <2>2, <2>4, <2>5
  <2>8. Within
    BY <1>1, <2>5, <2>6, <2>7, Unmoved
  <2>9. Unlocked'
    <3>1. Resting({})'
      BY <2>1, <2>8, PhaseKept
    <3>2. {} \in Releases(x2')
      BY DEF Releases
    <3> QED
      BY <3>1, <3>2 DEF Unlocked
  <2>10. Life'
    BY <2>3, <2>4, <2>5, <2>7, <2>9 DEF Life, Serving, SameHome
  <2>11. co.event = NoEvent
    BY <2>1 DEF IInv, McInv, EventIsCurrent, Scheduled
  <2> QED
    BY <1>1, <2>4, <2>5, <2>7, <2>10, <2>11
    DEF Decided, EventIsCurrent, Scheduled, LegFollowsCoordinator
<1> QED
  BY <1>4, <1>5, <1>6

\* Another reconfiguration, with the mmWave leg.
LEMMA ReconfigureKeeps ==
  ASSUME IInv, Reconfigure
  PROVE  Life' /\ Decided' /\ fault' = fault /\ allowed' = allowed
<1>0. lte \in LteContext /\ dl \in Seq(DlNamed) /\ McTypeInv
  BY Typed DEF IInv
<1>1. Serving /\ Linked
  BY DEF Reconfigure, IInv, McInv, Life, Setup, Activating, Serving
<1>2. /\ Reconfigured(lte)
      /\ UNCHANGED <<co, allowed, mm, newest, lastRnti, forward, ue, ul, x2, fault>>
  BY DEF Reconfigure
<1>3. /\ lte'.cell = lte.cell /\ lte'.rnti = lte.rnti /\ lte'.isMc = lte.isMc
      /\ lte'.bearer = lte.bearer /\ lte'.leg = lte.leg
      /\ lte'.st \in {"CONNECTED_NORMALLY", "CONNECTION_RECONFIGURATION"}
      /\ dl' \in {dl, Append(dl, Reconfiguration(lte))}
  BY <1>0, <1>1, <1>2 DEF Reconfigured, LteContext, Serving
<1>4. RlcFirst(dl', ue.rlc) /\ \A i \in DOMAIN dl' : dl'[i].type \in {"RECONF", "SWITCH"}
  BY <1>0, <1>1, <1>3, ConnectedSends, DownlinkGrows DEF Linked
<1>5. Home' = Home /\ SameHome
  BY <1>3 DEF Home, SameHome
<1>6. Linked'
  BY <1>1, <1>2, <1>3, <1>4, <1>5 DEF Linked
<1>7. Life'
  <2>1. Within
    BY <1>2, <1>5, Unmoved
  <2>2. ~Activating
    BY <1>1 DEF Serving, Activating
  <2> QED
    BY <1>1, <1>2, <1>3, <1>6, <2>1, <2>2, LinkedKept DEF Life
<1> QED
  BY <1>2, <1>3, <1>7
  DEF Decided, EventIsCurrent, Scheduled, LegFollowsCoordinator, IInv, McInv

-----------------------------------------------------------------------------
(* The set-up of the mmWave leg.                                           *)

\* The phases say nothing of the bearer before the cell is known,
LEMMA EarlyKept ==
  ASSUME UNCHANGED <<mm, newest, x2>>, SameUe, SameHome, lte'.available = lte.available,
         co'.outage = co.outage,
         \A type \in {"SECONDARY_CONNECTED", "SETUP_COMPLETE"} : Has(ul', type) = Has(ul, type),
         Has(dl', "CONNECT") = Has(dl, "CONNECT"),
         Seeking \/ Told \/ Camping \/ Announced
  PROVE  Seeking' \/ Told' \/ Camping' \/ Announced'
<1>1. /\ ue'.st = ue.st /\ ue'.id = ue.id /\ ue'.known = ue.known /\ lte'.cell = lte.cell
      /\ NoContext' = NoContext /\ (Nowhere => Nowhere')
  BY DEF SameUe, SameHome, NoContext, Nowhere
<1>2. \A connect, connected, setup \in BOOLEAN :
         Pending(connect, connected, setup) => Pending(connect, connected, setup)'
  BY DEF Pending
<1>4. Seeking => Seeking'
  BY <1>1, <1>2 DEF Seeking
<1>5. Told => Told'
  BY <1>1, <1>2 DEF Told
<1>6. Camping => Camping'
  BY <1>1, <1>2 DEF Camping
<1>7. ASSUME Announced PROVE Announced'
  <2>1. First(ue.id, FALSE)'
    BY <1>1, <1>7 DEF Announced, First, UeAt, Newest
  <2>2. Pending(FALSE, TRUE, FALSE)'
    BY <1>2, <1>7 DEF Announced
  <2> QED
    BY <1>1, <1>7, <2>1, <2>2 DEF Announced
<1> QED
  BY <1>4, <1>5, <1>6, <1>7

\* and the context of the UE stays.
LEMMA KnownKept ==
  ASSUME UNCHANGED <<mm, newest>>, SameUe, SameHome, co'.outage = co.outage,
         \A type \in {"SECONDARY_CONNECTED", "SETUP_COMPLETE"} : Has(ul', type) = Has(ul, type),
         Has(dl', "CONNECT") = Has(dl, "CONNECT"), NEW rlc, Known(rlc)
  PROVE  Known(rlc)'
<1>1. /\ ue'.st = ue.st /\ ue'.id = ue.id /\ ue'.known = ue.known /\ Home' = Home
  BY HomeKept DEF SameUe
<1>2. Pending(FALSE, FALSE, FALSE)'
  BY DEF Known, Pending
<1>3. First(Home, rlc)'
  BY <1>1 DEF Known, First, UeAt, Newest
<1> QED
  BY <1>2, <1>3 DEF Known

\* What the phases say of the radio link together.
Radio ==
  /\ co.last = 0 /\ ~co.completed /\ ~lte.isMc /\ lte.leg = "lte"
  /\ Once(dl) /\ Once(ul)
  /\ \A i \in DOMAIN dl : dl[i].type # "SWITCH"
  /\ \A i \in DOMAIN ul : ul[i].type = "SECONDARY_CONNECTED" => ul[i].id = ue.id
  /\ Has(ul, "SETUP_COMPLETE") => dl = <<>> /\ Len(ul) = 1
  /\ BearerSetup /\ NoForward

\* The phases of the setup share the radio and differ in the rest.
LEMMA SetupParts ==
  Setup <=> /\ Radio
            /\ \/ Seeking \/ Told \/ Camping \/ Announced
               \/ NotYetAsked \/ RlcAsked \/ RlcAnswered
BY DEF Setup, Radio

\* A message is taken off the downlink or the uplink.
LEMMA DlTaken ==
  ASSUME McTypeInv, Radio, dl # <<>>, dl' = Tail(dl)
  PROVE  /\ Once(dl') /\ \A i \in DOMAIN dl' : dl'[i].type # "SWITCH"
         /\ \A type : Has(dl', type) <=> Has(dl, type) /\ Head(dl).type # type
         /\ Has(dl, Head(dl).type) /\ ~Has(ul, "SETUP_COMPLETE") /\ Head(dl).type # "SWITCH"
<1>1. dl \in Seq(DlNamed)
  BY Typed
<1>2. /\ Once(dl') /\ Has(dl, Head(dl).type)
      /\ \A type : Has(dl', type) <=> Has(dl, type) /\ Head(dl).type # type
  BY <1>1, OnceTail DEF Radio
<1>3. \A i \in DOMAIN dl' : dl'[i].type # "SWITCH"
  BY <1>1, TailParts DEF Radio
<1>4. Head(dl).type # "SWITCH"
  BY <1>1, TailParts DEF Radio
<1> QED
  BY <1>2, <1>3, <1>4 DEF Radio

\* A message is taken off the uplink.
LEMMA UlTaken ==
  ASSUME McTypeInv, Radio, ul # <<>>, ul' = Tail(ul)
  PROVE  /\ Once(ul') /\ \A i \in DOMAIN ul' : ul'[i].type = "SECONDARY_CONNECTED"
                                               => ul'[i].id = ue.id
         /\ \A type : Has(ul', type) <=> Has(ul, type) /\ Head(ul).type # type
         /\ Has(ul, Head(ul).type)
         /\ Head(ul).type = "SECONDARY_CONNECTED" => Head(ul).id = ue.id
         /\ ~Has(ul', "SETUP_COMPLETE")
<1>1. ul \in Seq(UlNamed)
  BY Typed
<1>2. /\ Once(ul') /\ Has(ul, Head(ul).type)
      /\ \A type : Has(ul', type) <=> Has(ul, type) /\ Head(ul).type # type
  BY <1>1, OnceTail DEF Radio
<1>3. \A i \in DOMAIN ul' : ul'[i].type = "SECONDARY_CONNECTED" => ul'[i].id = ue.id
  BY <1>1, TailParts DEF Radio
<1>4. Head(ul).type = "SECONDARY_CONNECTED" => Head(ul).id = ue.id
  BY <1>1, TailParts DEF Radio
<1>5. ~Has(ul', "SETUP_COMPLETE")
  <2> SUFFICES ASSUME Has(ul', "SETUP_COMPLETE") PROVE FALSE
    OBVIOUS
  <2>1. Len(ul) = 1
    BY <1>2 DEF Radio
  <2>2. Tail(ul) = <<>>
    BY <1>1, <2>1
  <2> QED
    BY <2>2 DEF Has
<1> QED
  BY <1>2, <1>3, <1>4, <1>5

\* A message is sent that is not yet on its way.
LEMMA UlSent ==
  ASSUME McTypeInv, Radio, NEW m \in UlNamed, ~Has(ul, m.type), ul' = Append(ul, m),
         NEW id, m.type = "SECONDARY_CONNECTED" => m.id = id,
         Has(ul, "SECONDARY_CONNECTED") => id = ue.id
  PROVE  /\ Once(ul') /\ \A i \in DOMAIN ul' : ul'[i].type = "SECONDARY_CONNECTED"
                                               => ul'[i].id = id
         /\ \A type : Has(ul', type) <=> Has(ul, type) \/ m.type = type
<1>1. ul \in Seq(UlNamed)
  BY Typed
<1>2. Once(ul') /\ \A type : Has(ul', type) <=> Has(ul, type) \/ m.type = type
  BY <1>1, OnceAppend, HasAppend DEF Radio
<1>3. \A i \in DOMAIN ul : ul[i].type = "SECONDARY_CONNECTED" => ul[i].id = id
  BY DEF Radio, Has
<1>4. \A i \in DOMAIN ul' : ul'[i].type = "SECONDARY_CONNECTED" => ul'[i].id = id
  BY <1>1, <1>3, AppendParts
<1> QED
  BY <1>2, <1>4

\* A message is sent on the downlink.
LEMMA DlSent ==
  ASSUME McTypeInv, Radio, NEW m \in DlNamed, ~Has(dl, m.type), m.type # "SWITCH",
         dl' = Append(dl, m)
  PROVE  /\ Once(dl') /\ \A i \in DOMAIN dl' : dl'[i].type # "SWITCH"
         /\ \A type : Has(dl', type) <=> Has(dl, type) \/ m.type = type
<1>1. dl \in Seq(DlNamed)
  BY Typed
<1>2. Once(dl') /\ \A type : Has(dl', type) <=> Has(dl, type) \/ m.type = type
  BY <1>1, OnceAppend, HasAppend DEF Radio
<1>3. \A i \in DOMAIN dl' : dl'[i].type # "SWITCH"
  BY <1>1, AppendParts DEF Radio
<1> QED
  BY <1>2, <1>3

\* The UE hears of its mmWave cell, and of its bearer.
LEMMA SetupRadio ==
  ASSUME IInv, Setup, McDownlinkStep
  PROVE  Life' /\ Decided' /\ fault' = fault /\ allowed' = allowed
<1>0. McTypeInv /\ Radio /\ ue \in Ue /\ dl # <<>>
  BY SetupParts, Typed
  DEF IInv, McDownlinkStep, UeRecvConnectToMmWave, UeRecvRrcConnectionReconfiguration,
      UeRecvRrcConnectionSwitch, DlArrived
<1>1. CASE UeRecvConnectToMmWave
  <2>1. /\ ue' = [ue EXCEPT !.st = "CAMPED", !.id = <<Head(dl).cell, 0>>]
        /\ dl' = Tail(dl) /\ Head(dl).type = "CONNECT"
        /\ UNCHANGED <<co, allowed, lte, mm, newest, lastRnti, forward, ul, x2, fault>>
    BY <1>1 DEF UeRecvConnectToMmWave, DlArrived
  <2>2. /\ Once(dl') /\ \A i \in DOMAIN dl' : dl'[i].type # "SWITCH"
        /\ \A type : Has(dl', type) <=> Has(dl, type) /\ type # "CONNECT"
        /\ Has(dl, "CONNECT") /\ ~Has(ul, "SETUP_COMPLETE")
    BY <1>0, <2>1, DlTaken
  <2>3. Told
    BY <2>2 DEF Setup, Seeking, Camping, Announced, NotYetAsked, RlcAsked, RlcAnswered, Known,
       Pending
  <2>4. \A type : Has(ul', type) <=> Has(ul, type)
    BY <2>1 DEF Has
  <2>5. Camping'
    <3>1. ue'.st = "CAMPED"
      BY <1>0, <2>1 DEF Ue
    <3>2. Pending(FALSE, FALSE, FALSE)'
      BY <2>2, <2>3, <2>4 DEF Told, Pending
    <3> QED
      BY <2>1, <2>3, <3>1, <3>2 DEF Told, Camping, Nowhere, NoContext
  <2>6. Radio'
    <3>1. BearerSetup'
      BY <1>0, <2>1, <2>2, <2>4 DEF Radio, BearerSetup
    <3>2. \A i \in DOMAIN ul' : ul'[i].type # "SECONDARY_CONNECTED"
      BY <2>1, <2>3 DEF Told, Pending, Has
    <3> QED
      BY <1>0, <2>1, <2>2, <2>4, <3>1, <3>2 DEF Radio, NoForward, Once
  <2>7. Life'
    BY <2>5, <2>6, SetupParts DEF Life, Setup, Radio
  <2> QED
    BY <2>1, <2>7, DecidedFrame DEF Decided, IInv, McInv
<1>2. CASE UeRecvRrcConnectionReconfiguration
  <2>1. /\ ue' = IF Head(dl).on THEN [ue EXCEPT !.rlc = TRUE, !.leg = "mmwave"] ELSE ue
        /\ dl' = Tail(dl) /\ Head(dl).type = "RECONF"
        /\ ul' = Append(ul, Up("RECONF_COMPLETE", NoId))
        /\ UNCHANGED <<co, allowed, lte, mm, newest, lastRnti, forward, x2, fault>>
    BY <1>2 DEF UeRecvRrcConnectionReconfiguration, DlArrived
  <2>2. /\ Once(dl') /\ \A i \in DOMAIN dl' : dl'[i].type # "SWITCH"
        /\ \A type : Has(dl', type) <=> Has(dl, type) /\ type # "RECONF"
        /\ Has(dl, "RECONF") /\ ~Has(ul, "SETUP_COMPLETE")
    BY <1>0, <2>1, DlTaken
  <2>3. ~Has(ul, "RECONF_COMPLETE")
    BY <1>0, <2>2 DEF Radio, BearerSetup
  <2>4. PICK m \in UlNamed : m.type = "RECONF_COMPLETE" /\ ul' = Append(ul, m)
    BY <2>1, RrcMade DEF Up
  <2>5. /\ Once(ul') /\ \A i \in DOMAIN ul' : ul'[i].type = "SECONDARY_CONNECTED"
                                              => ul'[i].id = ue.id
        /\ \A type : Has(ul', type) <=> Has(ul, type) \/ type = "RECONF_COMPLETE"
    BY <1>0, <2>3, <2>4, UlSent
  <2>6. SameUe
    BY <1>0, <2>1 DEF SameUe, Ue
  <2>7. BearerSetup'
    BY <1>0, <2>1, <2>2, <2>5 DEF Radio, BearerSetup
  <2>8. Radio'
    BY <1>0, <2>1, <2>2, <2>5, <2>6, <2>7 DEF Radio, NoForward, SameUe
  <2>9. SameHome
    BY <2>1 DEF SameHome
  <2>10. /\ \A type \in {"SECONDARY_CONNECTED", "SETUP_COMPLETE"} : Has(ul', type) = Has(ul, type)
         /\ Has(dl', "CONNECT") = Has(dl, "CONNECT")
    BY <2>2, <2>5 DEF Has
  <2>11. \A rlc \in BOOLEAN : Known(rlc) => Known(rlc)'
    BY <2>1, <2>6, <2>9, <2>10, KnownKept
  <2>12. Setup'
    <3>1. CASE Seeking \/ Told \/ Camping \/ Announced
      BY <2>1, <2>6, <2>8, <2>9, <2>10, <3>1, EarlyKept DEF Setup, Radio
    <3>2. CASE NotYetAsked \/ RlcAsked \/ RlcAnswered
      BY <2>1, <2>8, <2>11, <3>2 DEF Setup, Radio, NotYetAsked, RlcAsked, RlcAnswered, Asking
    <3> QED
      BY <3>1, <3>2 DEF Setup
  <2> QED
    BY <2>1, <2>12, DecidedFrame DEF Life, Decided, IInv, McInv
<1>3. ~UeRecvRrcConnectionSwitch
  <2>1. dl \in Seq(DlNamed)
    BY <1>0, Typed
  <2>2. Head(dl).type # "SWITCH"
    BY <1>0, <2>1, TailParts DEF Radio
  <2> QED
    BY <2>2 DEF UeRecvRrcConnectionSwitch, DlArrived
<1> QED
  BY <1>1, <1>2, <1>3 DEF McDownlinkStep

\* The LTE cell hears of the end of the UE's connection set-up,
LEMMA SetupCompletedReceived ==
  ASSUME IInv, RecvRrcConnectionSetupCompleted
  PROVE  Life' /\ Decided' /\ fault' = fault /\ allowed' = allowed
<1>0. McTypeInv /\ ul # <<>> /\ Head(ul).type = "SETUP_COMPLETE" /\ lte \in LteContext
      /\ co \in Coordinator /\ ul \in Seq(UlNamed)
  BY Typed DEF IInv, RecvRrcConnectionSetupCompleted, UlArrived
<1>1. Setup
  <2>1. ul[1] = Head(ul) /\ 1 \in DOMAIN ul
    BY <1>0, TailParts
  <2> QED
    BY <1>0, <2>1 DEF IInv, McInv, Life, Activating, Serving, Linked
<1>2. Radio /\ ul' = Tail(ul)
  BY <1>1, SetupParts DEF RecvRrcConnectionSetupCompleted
<1>3. /\ Once(ul') /\ \A i \in DOMAIN ul' : ul'[i].type = "SECONDARY_CONNECTED" => ul'[i].id = ue.id
      /\ \A type : Has(ul', type) <=> Has(ul, type) /\ type # "SETUP_COMPLETE"
      /\ Has(ul, "SETUP_COMPLETE") /\ ~Has(ul', "SETUP_COMPLETE")
  BY <1>0, <1>2, UlTaken
<1>4. dl = <<>> /\ Seeking /\ ~co.outage /\ Len(ul) = 1
  BY <1>1, <1>3
  DEF Setup, Seeking, Told, Camping, Announced, NotYetAsked, RlcAsked, RlcAnswered, Known, Pending
<1>5. ul' = <<>>
  BY <1>0, <1>2, <1>4
<1>6. PICK outage \in BOOLEAN, c \in Cells :
        /\ co' = IF co.best /\ outage THEN [co EXCEPT !.outage = TRUE, !.usingLte = TRUE] ELSE co
        /\ dl' = dl \o (IF co.best /\ ~outage THEN <<ConnectToMmWave(c)>> ELSE <<>>)
                    \o ConnectedDl(lte)
  BY DEF RecvRrcConnectionSetupCompleted
<1>7. /\ lte' = Connected(lte)
      /\ UNCHANGED <<allowed, mm, newest, lastRnti, forward, ue, x2, fault>>
  BY DEF RecvRrcConnectionSetupCompleted
<1> DEFINE told == co.best /\ ~outage
<1>8. /\ Has(dl', "CONNECT") <=> told
      /\ Has(dl', "RECONF") <=> lte.pend
      /\ Once(dl') /\ \A i \in DOMAIN dl' : dl'[i].type # "SWITCH"
  <2>1. PICK m \in DlNamed : m = ConnectToMmWave(c) /\ m.type = "CONNECT"
    BY RrcMade DEF ConnectToMmWave
  <2>2. PICK n \in DlNamed : n = Reconfiguration(lte) /\ n.type = "RECONF"
    BY <1>0, RrcMade DEF Reconfiguration
  <2>3. dl' = (IF told THEN <<m>> ELSE <<>>) \o (IF lte.pend THEN <<n>> ELSE <<>>)
    BY <1>4, <1>6, <2>1, <2>2 DEF ConnectedDl
  <2>4. CASE told /\ lte.pend
    <3>1. dl' = Append(<<m>>, n) /\ <<m>> \in Seq(DlNamed)
      <4>1. dl' = <<m>> \o <<n>> /\ <<m>> \in Seq(DlNamed)
        BY <2>3, <2>4
      <4> QED
        BY <4>1, AppendIsConcat
    <3>2. /\ Once(<<m>>) /\ \A type : Has(<<m>>, type) <=> type = "CONNECT"
          /\ \A i \in DOMAIN <<m>> : <<m>>[i].type = "CONNECT"
      BY <2>1 DEF Has, Once
    <3>3. Once(dl') /\ \A type : Has(dl', type) <=> type \in {"CONNECT", "RECONF"}
      BY <2>2, <3>1, <3>2, OnceAppend, HasAppend
    <3>4. \A i \in DOMAIN dl' : dl'[i].type # "SWITCH"
      BY <3>3 DEF Has
    <3> QED
      BY <2>4, <3>3, <3>4
  <2>5. CASE told /\ ~lte.pend
    <3>1. dl' = <<m>>
      BY <2>3, <2>5
    <3> QED
      BY <2>1, <2>5, <3>1 DEF Has, Once
  <2>6. CASE ~told /\ lte.pend
    <3>1. dl' = <<n>>
      <4>1. dl' = <<>> \o <<n>>
        BY <2>3, <2>6
      <4>2. <<>> \o <<n>> = <<n>>
        OBVIOUS
      <4> QED
        BY <4>1, <4>2
    <3> QED
      BY <2>2, <2>6, <3>1 DEF Has, Once
  <2>7. CASE ~told /\ ~lte.pend
    <3>1. dl' = <<>>
      BY <2>3, <2>7
    <3> QED
      BY <2>7, <3>1 DEF Has, Once
  <2> QED
    BY <2>4, <2>5, <2>6, <2>7
<1>9. /\ lte'.st = (IF lte.pend THEN "CONNECTION_RECONFIGURATION" ELSE "CONNECTED_NORMALLY")
      /\ ~lte'.pend /\ lte'.bearer = lte.bearer /\ lte'.isMc = lte.isMc /\ lte'.leg = lte.leg
      /\ lte'.available = lte.available /\ lte'.cell = lte.cell
  BY <1>0, <1>7 DEF Connected, LteContext
<1>10. /\ co'.last = co.last /\ co'.completed = co.completed /\ co'.event = co.event
       /\ told => ~co'.outage
  BY <1>0, <1>4, <1>6 DEF Coordinator
<1> HIDE DEF told
<1>11. ~Has(ul', "SECONDARY_CONNECTED") /\ ~Has(ul', "RECONF_COMPLETE")
  BY <1>5 DEF Has
<1>12. BearerSetup'
  <2>1. lte.st = "CONNECTION_SETUP" /\ (lte.pend => lte.bearer) /\ lte.pend \in BOOLEAN
        /\ (lte.bearer => lte.pend)
    BY <1>0, <1>2, <1>3 DEF Radio, BearerSetup, LteContext
  <2> QED
    BY <1>3, <1>8, <1>9, <1>11, <2>1 DEF BearerSetup
<1>13. Radio'
  BY <1>2, <1>3, <1>7, <1>8, <1>9, <1>10, <1>12 DEF Radio, NoForward
<1>14. Nowhere' /\ NoContext' /\ ue'.st = "IDLE"
  BY <1>4, <1>7, <1>9 DEF Seeking, Nowhere, NoContext
<1>15. CASE told
  <2>1. Told'
    BY <1>3, <1>8, <1>10, <1>11, <1>14, <1>15 DEF Told, Pending
  <2> QED
    BY <1>7, <1>9, <1>10, <1>13, <2>1, SetupParts
    DEF Life, Setup, Decided, EventIsCurrent, Scheduled, LegFollowsCoordinator, IInv, McInv, Radio
<1>16. CASE ~told
  <2>1. Pending(FALSE, FALSE, FALSE)'
    BY <1>3, <1>8, <1>11, <1>16 DEF Pending
  <2>2. Seeking'
    BY <1>14, <2>1 DEF Seeking
  <2> QED
    BY <1>2, <1>7, <1>9, <1>10, <1>13, <2>2, SetupParts
    DEF Life, Setup, Decided, EventIsCurrent, Scheduled, LegFollowsCoordinator, IInv, McInv, Radio
<1> QED
  BY <1>15, <1>16

\* The secondary RRC connects.
LEMMA SecondaryConnects ==
  ASSUME IInv, UeConnectSecondary
  PROVE  Life' /\ Decided' /\ fault' = fault /\ allowed' = allowed
<1>0. /\ McTypeInv /\ ue \in Ue /\ mm \in [Ids -> MmContext] /\ ue.st = "CAMPED"
      /\ newest \in [Cells -> Rntis \union {0}] /\ lastRnti \in [Cells -> Rntis \union {0}]
  BY Typed DEF IInv, UeConnectSecondary
<1>1. Setup /\ Camping
  <2>1. \A R : AtHome(R) => ue.st = "CONNECTED_NORMALLY"
    BY AtHomeIdle
  <2>2. ~Activating
    BY <1>0, <2>1, Zenon DEF Activating, Resting
  <2>3. ~Unlocked
    BY <1>0, <2>1, Zenon DEF Unlocked, Resting
  <2>4. ~Locked
    <3>1. \A k : UeAt(k) => ue.st = "CONNECTED_NORMALLY"
      BY DEF UeAt
    <3>2. \A k, s, st, answered : Away(k, s, st, answered) => ue.st = s
      BY DEF Away
    <3>3. \A R, t : ~Ordered(R, t)
      BY <1>0, <2>1, Zenon DEF Ordered
    <3>4. \A t : ~Requested(t)
      BY <1>0, <3>1, Zenon DEF Requested
    <3>5. \A k : ~Acknowledged(k) /\ ~Commanded(k)
      BY <1>0, <3>1, Zenon DEF Acknowledged, Commanded
    <3>6. \A k : ~Accessing(k)
      BY <1>0, <3>2, Zenon DEF Accessing
    <3>7. \A k : ~Answered(k) /\ ~Reported(k)
      BY <1>0, <3>2, Zenon DEF Answered, Reported
    <3> QED
      BY <3>3, <3>4, <3>5, <3>6, <3>7, Zenon DEF Locked
  <2>5. Setup
    BY <2>2, <2>3, <2>4 DEF IInv, McInv, Life, Serving
  <2>6. \A k, rlc : First(k, rlc) => ue.st = "CONNECTED_NORMALLY"
    BY DEF First, UeAt
  <2>7. ~Announced /\ ~NotYetAsked /\ ~RlcAsked /\ ~RlcAnswered
    BY <1>0, <2>6, Zenon DEF Announced, NotYetAsked, RlcAsked, RlcAnswered, Known
  <2> QED
    BY <1>0, <2>5, <2>7 DEF Setup, Seeking, Told
<1>2. PICK c \in Cells, r \in Rntis : c = ue.id[1] /\ r = NextRnti(c)
  <2>1. ue.id[1] \in Cells /\ CanAddUe(ue.id[1])
    BY <1>0 DEF McTypeInv, CellsNamed, UeConnectSecondary
  <2> QED
    BY <1>0, <2>1, NextRntiFree
<1>3. PICK k \in Ids : k = <<c, r>> /\ k[1] = c /\ k[2] = r
  BY McIdParts
<1>4. /\ mm' = [mm EXCEPT ![k] = [MmBlank EXCEPT !.st = "CONNECTED_NORMALLY"]]
      /\ newest' = [newest EXCEPT ![c] = r]
      /\ ue' = [ue EXCEPT !.st = "CONNECTED_NORMALLY", !.id = k, !.known = k]
      /\ ul' = Append(ul, Up("SECONDARY_CONNECTED", k))
      /\ UNCHANGED <<co, allowed, lte, forward, dl, x2, fault>>
  BY <1>2, <1>3 DEF UeConnectSecondary
<1>5. PICK m \in UlNamed : m.type = "SECONDARY_CONNECTED" /\ m.id = k /\ ul' = Append(ul, m)
  BY <1>4, RrcMade DEF Up
<1>6. Radio
  BY <1>1, SetupParts
<1>7. ~Has(ul, "SECONDARY_CONNECTED") /\ ~Has(ul, "SETUP_COMPLETE") /\ ~Has(dl, "CONNECT")
  BY <1>1 DEF Camping, Pending
<1>8. /\ Once(ul') /\ \A i \in DOMAIN ul' : ul'[i].type = "SECONDARY_CONNECTED" => ul'[i].id = k
      /\ \A type : Has(ul', type) <=> Has(ul, type) \/ type = "SECONDARY_CONNECTED"
  BY <1>0, <1>5, <1>6, <1>7, UlSent
<1>9. ue'.st = "CONNECTED_NORMALLY" /\ ue'.id = k /\ ue'.known = k
  BY <1>0, <1>4 DEF Ue
<1>10. BearerSetup'
  BY <1>4, <1>6, <1>8 DEF Radio, BearerSetup
<1>11. Radio'
  BY <1>4, <1>6, <1>7, <1>8, <1>9, <1>10 DEF Radio, NoForward
<1>12. First(k, FALSE)'
  <2>1. mm'[k] = [MmBlank EXCEPT !.st = "CONNECTED_NORMALLY"]
        /\ \A j \in Ids : j = k \/ mm'[j] = MmBlank
    BY <1>0, <1>1, <1>4 DEF Camping, NoContext
  <2>2. mm'[k] = [MmBlank EXCEPT !.st = "CONNECTED_NORMALLY", !.rlc = FALSE, !.request = FALSE]
    BY ZenonT(40), <2>1 DEF MmBlank
  <2>3. newest'[k[1]] = k[2]
    BY <1>0, <1>3, <1>4
  <2> QED
    BY <1>9, <2>1, <2>2, <2>3 DEF First, UeAt, Newest
<1>13. Announced'
  <2>1. First(ue.id, FALSE)'
    BY <1>9, <1>12
  <2>2. Pending(FALSE, TRUE, FALSE)'
    BY <1>4, <1>7, <1>8 DEF Pending
  <2> QED
    BY <1>1, <1>4, <2>1, <2>2 DEF Camping, Announced, Nowhere
<1>14. Life'
  BY <1>11, <1>13, SetupParts DEF Life, Setup, Radio
<1> QED
  BY <1>4, <1>14, DecidedFrame DEF Decided, IInv, McInv

\* The LTE cell hears of the mmWave cell, and asks it for the RLC of the bearer.
LEMMA AccessReceived ==
  ASSUME IInv, RecvSecondaryCellInitialAccessSuccessful
  PROVE  Life' /\ Decided' /\ fault' = fault /\ allowed' = allowed
<1>0. /\ McTypeInv /\ lte \in LteContext /\ ul # <<>> /\ ul \in Seq(UlNamed)
      /\ Head(ul).type = "SECONDARY_CONNECTED"
  BY Typed DEF IInv, RecvSecondaryCellInitialAccessSuccessful, UlArrived
<1>1. Setup
  <2>1. ul[1] = Head(ul) /\ 1 \in DOMAIN ul
    BY <1>0, TailParts
  <2> QED
    BY <1>0, <2>1 DEF IInv, McInv, Life, Activating, Serving, Linked
<1>2. Radio /\ ul' = Tail(ul)
  BY <1>1, SetupParts DEF RecvSecondaryCellInitialAccessSuccessful
<1>3. /\ Once(ul') /\ \A i \in DOMAIN ul' : ul'[i].type = "SECONDARY_CONNECTED" => ul'[i].id = ue.id
      /\ \A type : Has(ul', type) <=> Has(ul, type) /\ type # "SECONDARY_CONNECTED"
      /\ Has(ul, "SECONDARY_CONNECTED") /\ ~Has(ul', "SETUP_COMPLETE") /\ Head(ul).id = ue.id
  BY <1>0, <1>2, UlTaken
<1>4. Announced
  BY <1>1, <1>3
  DEF Setup, Seeking, Told, Camping, NotYetAsked, RlcAsked, RlcAnswered, Known, Pending
<1>5. PICK l : l = AtCell(lte, ue.id)
  OBVIOUS
<1>6. /\ lte' = l /\ x2' = IF RlcWanted(l, co) THEN Append(x2, RlcSetupRequest(l)) ELSE x2
      /\ UNCHANGED <<co, allowed, mm, newest, lastRnti, forward, ue, dl, fault>>
  BY <1>3, <1>5 DEF RecvSecondaryCellInitialAccessSuccessful
<1>7. ue.id \in Ids /\ ue.id = <<ue.id[1], ue.id[2]>> /\ ~lte.available /\ x2 = <<>>
  BY <1>4, McIdParts DEF Announced, First, Nowhere
<1>8. /\ l.cell = ue.id[1] /\ l.rnti = ue.id[2] /\ l.available = (lte.available \/ ~lte.bearer)
      /\ l.st = lte.st /\ l.bearer = lte.bearer /\ l.isMc = lte.isMc /\ l.pend = lte.pend
      /\ l.leg = lte.leg
  BY <1>0, <1>5 DEF AtCell, LteContext
<1>9. Home' = ue.id
  BY <1>6, <1>7, <1>8 DEF Home
<1>10. Known(FALSE)'
  <2>1. First(ue.id, FALSE) /\ ~co.outage /\ Pending(FALSE, TRUE, FALSE)
    BY <1>4 DEF Announced
  <2>2. First(Home, FALSE)'
    BY <1>6, <1>9, <2>1 DEF First, UeAt, Newest
  <2>3. Pending(FALSE, FALSE, FALSE)'
    BY <1>3, <1>6, <2>1 DEF Pending
  <2> QED
    BY <1>6, <2>1, <2>2, <2>3 DEF Known
<1>11. BearerSetup' /\ Radio'
  <2>1. BearerSetup'
    BY <1>2, <1>3, <1>6, <1>8 DEF Radio, BearerSetup
  <2> QED
    BY <1>2, <1>3, <1>6, <1>8, <2>1 DEF Radio, NoForward
<1>12. CASE lte.bearer
  <2>1. RlcWanted(l, co)
    BY <1>2, <1>8, <1>12 DEF RlcWanted, Radio
  <2>2. x2' = <<RlcSetupRequest(l)>>
    BY <1>6, <1>7, <2>1
  <2>3. RlcAsked'
    BY <1>6, <1>7, <1>8, <1>10, <1>12, <2>2 DEF RlcAsked, Asking
  <2>4. Life'
    BY <1>11, <2>3 DEF Life, Setup, Radio
  <2> QED
    BY <1>2, <1>6, <1>8, <2>4
    DEF Decided, EventIsCurrent, Scheduled, LegFollowsCoordinator, IInv, McInv, Radio
<1>13. CASE ~lte.bearer
  <2>1. ~RlcWanted(l, co)
    BY <1>8, <1>13 DEF RlcWanted
  <2>2. NotYetAsked'
    BY <1>6, <1>7, <1>8, <1>10, <1>13, <2>1 DEF NotYetAsked
  <2>3. Life'
    BY <1>11, <2>2 DEF Life, Setup, Radio
  <2> QED
    BY <1>2, <1>6, <1>8, <2>3
    DEF Decided, EventIsCurrent, Scheduled, LegFollowsCoordinator, IInv, McInv, Radio
<1> QED
  BY <1>12, <1>13

\* The bearer is set up,
LEMMA BearerKeeps ==
  ASSUME IInv, SetupDataRadioBearer
  PROVE  Life' /\ Decided' /\ fault' = fault /\ allowed' = allowed
<1>0. McTypeInv /\ lte \in LteContext /\ dl \in Seq(DlNamed) /\ ~lte.bearer
  BY Typed DEF IInv, SetupDataRadioBearer
<1>1. Setup /\ Radio
  BY <1>0, SetupParts DEF IInv, McInv, Life, Activating, Serving, Linked
<1>2. ~RlcAsked /\ ~RlcAnswered
  BY <1>0 DEF RlcAsked, RlcAnswered, Asking
<1>3. PICK l \in LteContext : l = [lte EXCEPT !.bearer = TRUE]
  BY <1>0 DEF LteContext
<1>4. /\ Reconfigured(l)
      /\ UNCHANGED <<co, allowed, mm, newest, lastRnti, forward, ue, ul, x2, fault>>
  BY <1>3 DEF SetupDataRadioBearer
<1>5. /\ l.st = lte.st /\ l.bearer /\ l.isMc = lte.isMc /\ l.leg = lte.leg /\ l.cell = lte.cell
      /\ l.rnti = lte.rnti /\ l.available = lte.available
  BY <1>0, <1>3 DEF LteContext
<1>6. /\ lte'.bearer /\ lte'.isMc = lte.isMc /\ lte'.leg = lte.leg /\ lte'.cell = lte.cell
      /\ lte'.rnti = lte.rnti /\ lte'.available = lte.available
      /\ IF lte.st = "CONNECTED_NORMALLY"
         THEN /\ lte'.st = "CONNECTION_RECONFIGURATION" /\ ~lte'.pend
              /\ dl' = Append(dl, Reconfiguration(l))
         ELSE lte'.st = lte.st /\ lte'.pend /\ dl' = dl
  BY <1>4, <1>5 DEF Reconfigured, LteContext
<1>7. /\ lte.st \in {"CONNECTION_SETUP", "CONNECTED_NORMALLY"}
      /\ ~Has(dl, "RECONF") /\ ~Has(ul, "RECONF_COMPLETE")
      /\ lte.st = "CONNECTION_SETUP" <=> Has(ul, "SETUP_COMPLETE")
  BY <1>0, <1>1 DEF Radio, BearerSetup
<1>8. \A type : Has(ul', type) <=> Has(ul, type)
  BY <1>4 DEF Has
<1>9. /\ Once(dl') /\ \A i \in DOMAIN dl' : dl'[i].type # "SWITCH"
      /\ Has(dl', "CONNECT") <=> Has(dl, "CONNECT")
      /\ Has(dl', "RECONF") <=> lte.st = "CONNECTED_NORMALLY"
  <2>1. CASE lte.st = "CONNECTED_NORMALLY"
    <3>1. PICK m \in DlNamed : m.type = "RECONF" /\ dl' = Append(dl, m)
      BY <1>6, <2>1, RrcMade DEF Reconfiguration
    <3>2. /\ Once(dl') /\ \A i \in DOMAIN dl' : dl'[i].type # "SWITCH"
          /\ \A type : Has(dl', type) <=> Has(dl, type) \/ m.type = type
      BY <1>0, <1>1, <1>7, <3>1, DlSent
    <3> QED
      BY <2>1, <3>1, <3>2
  <2>2. CASE lte.st # "CONNECTED_NORMALLY"
    <3>1. dl' = dl
      BY <1>6, <2>2
    <3> QED
      BY <1>1, <1>7, <2>2, <3>1 DEF Radio
  <2> QED
    BY <2>1, <2>2
<1>10. BearerSetup'
  BY <1>1, <1>6, <1>7, <1>8, <1>9 DEF BearerSetup
<1>11. Radio'
  <2>1. Has(ul', "SETUP_COMPLETE") => dl' = <<>> /\ Len(ul') = 1
    BY <1>1, <1>4, <1>6, <1>7, <1>8 DEF Radio
  <2> QED
    BY <1>1, <1>4, <1>6, <1>9, <1>10, <2>1 DEF Radio, NoForward, Once
<1>12. SameUe /\ SameHome
  BY <1>4, <1>6 DEF SameUe, SameHome
<1>13. /\ \A type \in {"SECONDARY_CONNECTED", "SETUP_COMPLETE"} : Has(ul', type) = Has(ul, type)
       /\ Has(dl', "CONNECT") = Has(dl, "CONNECT")
  BY <1>8, <1>9 DEF Has
<1>14. Setup'
  <2>1. CASE Seeking \/ Told \/ Camping \/ Announced
    BY <1>4, <1>6, <1>11, <1>12, <1>13, <2>1, EarlyKept DEF Setup, Radio
  <2>2. CASE NotYetAsked
    <3>1. Known(FALSE)'
      BY <1>4, <1>12, <1>13, <2>2, KnownKept DEF NotYetAsked
    <3>2. lte'.st = "CONNECTION_RECONFIGURATION"
      BY <1>6, <1>7, <2>2 DEF NotYetAsked, Known, Pending
    <3>3. NotYetAsked'
      BY <1>4, <1>6, <2>2, <3>1, <3>2 DEF NotYetAsked
    <3> QED
      BY <1>11, <3>3 DEF Setup, Radio
  <2> QED
    BY <1>1, <1>2, <2>1, <2>2 DEF Setup
<1> QED
  BY <1>4, <1>6, <1>14
  DEF Life, Decided, EventIsCurrent, Scheduled, LegFollowsCoordinator, IInv, McInv

\* and the UE's answer to it received: the RLC is asked for if the cell is known.
LEMMA BearerCompleted ==
  ASSUME IInv, Setup, RecvRrcConnectionReconfigurationCompleted
  PROVE  Life' /\ Decided' /\ fault' = fault /\ allowed' = allowed
<1>0. /\ McTypeInv /\ Radio /\ lte \in LteContext /\ dl \in Seq(DlNamed) /\ ul # <<>>
      /\ Head(ul).type = "RECONF_COMPLETE" /\ ul' = Tail(ul)
  BY SetupParts, Typed DEF IInv, RecvRrcConnectionReconfigurationCompleted, UlArrived
<1>1. /\ Once(ul') /\ \A i \in DOMAIN ul' : ul'[i].type = "SECONDARY_CONNECTED" => ul'[i].id = ue.id
      /\ \A type : Has(ul', type) <=> Has(ul, type) /\ type # "RECONF_COMPLETE"
      /\ Has(ul, "RECONF_COMPLETE") /\ ~Has(ul', "SETUP_COMPLETE")
  BY <1>0, UlTaken
<1>2. /\ lte.st = "CONNECTION_RECONFIGURATION" /\ lte.bearer /\ ~lte.pend /\ ~Has(dl, "RECONF")
      /\ ~lte.isMc
  BY <1>0, <1>1 DEF Radio, BearerSetup
<1>3. /\ co' = co /\ lte' = Connected(lte) /\ dl' = dl \o <<>>
      /\ x2' = IF lte.available THEN Append(x2, RlcSetupRequest(lte)) ELSE x2
      /\ UNCHANGED <<allowed, mm, newest, lastRnti, forward, ue, fault>>
  BY <1>2 DEF RecvRrcConnectionReconfigurationCompleted, RlcWanted, ConnectedDl
<1>4. /\ lte'.st = "CONNECTED_NORMALLY" /\ ~lte'.pend /\ lte'.bearer /\ lte'.isMc = lte.isMc
      /\ lte'.leg = lte.leg /\ lte'.available = lte.available /\ lte'.cell = lte.cell
      /\ lte'.rnti = lte.rnti
  BY <1>0, <1>2, <1>3 DEF Connected, LteContext
<1>5. dl' = dl
  BY <1>0, <1>3
<1>6. \A type : Has(dl', type) <=> Has(dl, type)
  BY <1>5
<1>7. BearerSetup'
  BY <1>0, <1>1, <1>2, <1>4, <1>6 DEF BearerSetup
<1>8. Radio'
  BY <1>0, <1>1, <1>3, <1>4, <1>5, <1>7 DEF Radio, NoForward
<1>9. SameUe /\ SameHome
  BY <1>3, <1>4 DEF SameUe, SameHome
<1>10. /\ \A type \in {"SECONDARY_CONNECTED", "SETUP_COMPLETE"} : Has(ul', type) = Has(ul, type)
       /\ Has(dl', "CONNECT") = Has(dl, "CONNECT")
  BY <1>1, <1>5 DEF Has
<1>11. \A rlc \in BOOLEAN : Known(rlc) => Known(rlc)'
  BY <1>3, <1>9, <1>10, KnownKept
<1>12. Setup'
  <2>1. CASE Seeking \/ Told \/ Camping \/ Announced
    <3>1. x2' = x2
      BY <1>3, <2>1 DEF Seeking, Told, Camping, Announced, Nowhere
    <3> QED
      BY <1>3, <1>4, <1>8, <1>9, <1>10, <2>1, <3>1, EarlyKept DEF Setup, Radio
  <2>2. CASE NotYetAsked
    <3>1. x2' = <<RlcSetupRequest(lte)>>
      BY <1>3, <2>2 DEF NotYetAsked
    <3>2. RlcSetupRequest(lte) = RlcSetupRequest(lte')
      BY <1>4 DEF RlcSetupRequest
    <3>3. RlcAsked'
      BY <1>4, <1>11, <2>2, <3>1, <3>2 DEF NotYetAsked, RlcAsked, Asking
    <3> QED
      BY <1>8, <3>3 DEF Setup, Radio
  <2>3. CASE RlcAsked \/ RlcAnswered
    <3>1. ~lte.available /\ x2' = x2
      BY <1>2, <1>3, <2>3 DEF RlcAsked, RlcAnswered, Asking
    <3>2. RlcSetupRequest(lte) = RlcSetupRequest(lte')
      BY <1>4 DEF RlcSetupRequest
    <3>3. RlcAsked => RlcAsked'
      BY <1>4, <1>11, <3>1, <3>2 DEF RlcAsked, Asking
    <3>4. RlcAnswered => RlcAnswered'
      BY <1>4, <1>11, <3>1 DEF RlcAnswered, Asking
    <3> QED
      BY <1>8, <2>3, <3>3, <3>4 DEF Setup, Radio
  <2> QED
    BY <2>1, <2>2, <2>3 DEF Setup
<1> QED
  BY <1>3, <1>4, <1>12
  DEF Life, Decided, EventIsCurrent, Scheduled, LegFollowsCoordinator, IInv, McInv

\* The mmWave cell sets up the RLC for the context that the UE has there.
LEMMA RlcRequestReceived ==
  ASSUME IInv, RlcAsked, Setup, NEW i \in DOMAIN x2, RecvRlcSetupRequest(i)
  PROVE  Life' /\ Decided' /\ fault' = fault /\ allowed' = allowed
<1>0. McTypeInv /\ Radio /\ mm \in [Ids -> MmContext]
  BY SetupParts, Typed DEF IInv
<1>1. PICK m \in X2Named : m = RlcSetupRequest(lte) /\ x2 = <<m>>
  <2>1. x2 = <<RlcSetupRequest(lte)>> /\ x2 \in Seq(X2Named)
    BY <1>0, Typed DEF RlcAsked
  <2> QED
    BY <2>1
<1>2. i = 1 /\ x2[i] = m
  BY <1>1
<1>3. m.to = lte.cell /\ m.new = lte.rnti
  BY <1>1 DEF RlcSetupRequest, McX2
<1>4. /\ Known(FALSE) /\ First(Home, FALSE) /\ Home \in Ids /\ Home = <<m.to, m.new>>
      /\ Home[1] = lte.cell /\ Home[2] = lte.rnti /\ mm[Home].st = "CONNECTED_NORMALLY"
  BY <1>3 DEF RlcAsked, Known, First, Home, MmBlank
<1> DEFINE n == McX2("RLC_COMPLETED", lte.cell, Lte, 0, 0, lte.rnti, FALSE)
<1>5. /\ mm' = [mm EXCEPT ![Home] = RlcSet(@)] /\ x2' = X2Answered(i, n)
      /\ UNCHANGED <<co, allowed, lte, newest, lastRnti, forward, ue, dl, ul, fault>>
  BY <1>2, <1>3, <1>4 DEF RecvRlcSetupRequest, Exists
<1> HIDE DEF n
<1>6. x2' = <<n>>
  <2>1. SubSeq(x2, 1, 0) = <<>> /\ SubSeq(x2, 2, 1) = <<>>
    BY <1>1, SubSeqEmpty
  <2>2. X2Taken(i) = <<>>
    BY <1>1, <1>2, <2>1 DEF X2Taken, RemoveAt
  <2> QED
    BY <1>5, <2>2 DEF X2Answered
<1>7. First(Home, TRUE)'
  <2>1. mm'[Home] = RlcSet(mm[Home]) /\ \A j \in Ids : j # Home => mm'[j] = mm[j]
    BY <1>0, <1>4, <1>5
  <2>2. mm'[Home] = [MmBlank EXCEPT !.st = "CONNECTED_NORMALLY", !.rlc = TRUE, !.request = TRUE]
    BY <1>4, <2>1 DEF First, RlcSet, MmBlank
  <2>3. Home' = Home
    BY <1>5 DEF Home
  <2> QED
    BY <1>4, <1>5, <2>1, <2>2, <2>3 DEF First, UeAt, Newest
<1>8. RlcAnswered'
  BY <1>5, <1>6, <1>7 DEF RlcAsked, RlcAnswered, Known, Asking, Pending, n
<1>9. Radio'
  BY <1>0, <1>5 DEF Radio, BearerSetup, NoForward, Has, Once
<1>10. Life'
  BY <1>8, <1>9 DEF Life, Setup, Radio
<1> QED
  BY <1>5, <1>10, DecidedFrame DEF Decided, IInv, McInv

\* The bearer has a mmWave leg, and the UE is told.
LEMMA RlcAnswerReceived ==
  ASSUME IInv, RlcAnswered, Setup, NEW i \in DOMAIN x2, RecvRlcSetupCompleted(i)
  PROVE  Life' /\ Decided' /\ fault' = fault /\ allowed' = allowed
<1>0. /\ McTypeInv /\ Radio /\ lte \in LteContext /\ dl \in Seq(DlNamed) /\ ul \in Seq(UlNamed)
      /\ ue.rlc \in BOOLEAN /\ mm \in [Ids -> MmContext]
  BY SetupParts, Typed DEF IInv, Ue
<1>1. /\ x2' = <<>>
      /\ UNCHANGED <<co, allowed, mm, newest, lastRnti, forward, ue, ul, fault>>
  <2>1. PICK m : x2 = <<m>>
    BY DEF RlcAnswered
  <2>2. i = 1 /\ SubSeq(x2, 1, 0) = <<>> /\ SubSeq(x2, 2, 1) = <<>>
    BY <2>1, SubSeqEmpty
  <2>3. X2Taken(i) = <<>>
    BY <2>1, <2>2 DEF X2Taken, RemoveAt
  <2> QED
    BY <2>3 DEF RecvRlcSetupCompleted
<1>2. PICK l \in LteContext : l = [lte EXCEPT !.isMc = TRUE, !.pend = FALSE,
                                              !.st = "MC_CONNECTION_RECONFIGURATION"]
  BY <1>0 DEF LteContext, LteStates
<1>3. lte' = l /\ dl' = Append(dl, Reconfiguration(l))
  BY <1>2 DEF RecvRlcSetupCompleted
<1>4. /\ l.isMc /\ l.st = "MC_CONNECTION_RECONFIGURATION" /\ l.cell = lte.cell
      /\ l.rnti = lte.rnti /\ l.bearer = lte.bearer /\ l.leg = lte.leg
  BY <1>0, <1>2 DEF LteContext
<1>5. PICK m \in DlNamed : m.type = "RECONF" /\ m.on /\ dl' = Append(dl, m)
  BY <1>2, <1>3, <1>4, RrcMade DEF Reconfiguration
<1>6. Home' = Home /\ Home \in Ids /\ Known(TRUE) /\ First(Home, TRUE)
  BY <1>3, <1>4 DEF Home, RlcAnswered, Known, First
<1>7. /\ \A j \in DOMAIN dl' : dl'[j].type = "RECONF"
      /\ \E j \in DOMAIN dl' : dl'[j].type = "RECONF" /\ dl'[j].on
  <2>1. \A j \in DOMAIN dl : dl[j].type = "RECONF"
    <3>1. \A j \in DOMAIN dl : dl[j].type # "SWITCH" /\ dl[j].type # "CONNECT"
      BY <1>0, <1>6 DEF Radio, Known, Pending, Has
    <3>2. \A j \in DOMAIN dl : dl[j].type \in {"CONNECT", "RECONF", "SWITCH"}
      BY <1>0 DEF DlNamed, DlMsg
    <3> QED
      BY <3>1, <3>2
  <2> QED
    BY <1>0, <1>5, <2>1, AppendParts
<1>8. \A j \in DOMAIN ul' : ul'[j].type = "RECONF_COMPLETE"
  <2>1. \A j \in DOMAIN ul : ul[j].type # "SETUP_COMPLETE" /\ ul[j].type # "SECONDARY_CONNECTED"
    BY <1>6 DEF Known, Pending, Has
  <2>2. \A j \in DOMAIN ul : ul[j].type \in {"SETUP_COMPLETE", "RECONF_COMPLETE",
                                             "SECONDARY_CONNECTED"}
    BY <1>0 DEF UlNamed, UlMsg
  <2> QED
    BY <1>1, <2>1, <2>2
<1>9. Linked'
  <2>1. RlcFirst(dl', ue'.rlc)
    BY <1>7 DEF RlcFirst
  <2> QED
    BY <1>1, <1>3, <1>4, <1>6, <1>7, <1>8, <2>1 DEF Linked, Known, RlcAnswered, Asking
<1>10. Resting({})'
  <2>1. /\ mm[Home] = [MmBlank EXCEPT !.st = "CONNECTED_NORMALLY", !.rlc = TRUE, !.request = TRUE]
        /\ UeAt(Home) /\ Newest(Home) /\ NoForward
        /\ \A j \in Ids : j = Home \/ mm[j] = MmBlank
    BY <1>0, <1>6 DEF First, Radio
  <2>2. Holds(Home, "CONNECTED_NORMALLY", TRUE, NoId)'
    BY <1>1, <1>6, <2>1 DEF Holds, MmBlank
  <2>3. AtHome({})'
    BY <1>1, <1>6, <2>1, <2>2 DEF AtHome, UeAt, Newest, NoForward
  <2> QED
    BY <1>1, <2>3, EmptyQueue DEF Resting
<1>11. Activating'
  BY <1>0, <1>1, <1>3, <1>4, <1>9, <1>10 DEF Activating, Radio
<1> QED
  BY <1>0, <1>1, <1>3, <1>11
  DEF Life, Decided, EventIsCurrent, Scheduled, LegFollowsCoordinator, IInv, McInv, Radio

-----------------------------------------------------------------------------
(* The invariant.                                                          *)

\* X2 handlers, by phase.
LEMMA X2StepKeeps ==
  ASSUME Fifo, IInv, NEW i \in DOMAIN x2, McX2Step(i)
  PROVE  Life' /\ Decided' /\ fault' = fault /\ allowed' = allowed
<1>0. X2Next(i) /\ Life /\ McTypeInv
  BY DEF McX2Step, IInv, McInv
<1>1. CASE Activating \/ Serving
  <2>1. x2 # <<>> /\ x2[i] = Head(x2) /\ x2 \in Seq(X2Named)
    BY <1>0, X2Head
  <2>2. ~RecvRlcSetupRequest(i) /\ ~RecvRlcSetupCompleted(i)
    <3>1. Head(x2).type \notin {"RLC_REQUEST", "RLC_COMPLETED"}
      <4>1. ASSUME Head(x2).type \in {"RLC_REQUEST", "RLC_COMPLETED"} PROVE FALSE
        BY <1>1, <2>1, <4>1, PhaseOfMessage DEF McX2, McHandoverRequest
      <4> QED
        BY <4>1
    <3> QED
      BY <2>1, <3>1 DEF RecvRlcSetupRequest, RecvRlcSetupCompleted
  <2> QED
    BY <1>0, <1>1, <2>2, SwitchReceived, ReleaseReceived, OrderReceived, RequestReceived,
       AckReceived, CompletedReceived
    DEF McX2Step
<1>2. CASE Setup
  <2>1. CASE RlcAsked
    <3>1. x2[i].type = "RLC_REQUEST"
      <4>1. PICK m : m = RlcSetupRequest(lte) /\ x2 = <<m>>
        BY <2>1 DEF RlcAsked
      <4> QED
        BY <4>1 DEF RlcSetupRequest, McX2
    <3>2. RecvRlcSetupRequest(i)
      BY <3>1
      DEF McX2Step, RecvRlcSetupCompleted, RecvConnectionSwitchToMmWave, RecvMcHandoverRequest,
          RecvHandoverRequest, RecvHandoverRequestAck, RecvSecondaryCellHandoverCompleted,
          RecvUeContextRelease
    <3> QED
      BY <1>2, <2>1, <3>2, RlcRequestReceived
  <2>2. CASE RlcAnswered
    <3>1. x2[i].type = "RLC_COMPLETED"
      BY <2>2 DEF RlcAnswered, McX2
    <3>2. RecvRlcSetupCompleted(i)
      BY <3>1
      DEF McX2Step, RecvRlcSetupRequest, RecvConnectionSwitchToMmWave, RecvMcHandoverRequest,
          RecvHandoverRequest, RecvHandoverRequestAck, RecvSecondaryCellHandoverCompleted,
          RecvUeContextRelease
    <3> QED
      BY <1>2, <2>2, <3>2, RlcAnswerReceived
  <2>3. CASE ~RlcAsked /\ ~RlcAnswered
    <3>1. x2 = <<>>
      BY <1>2, <2>3 DEF Setup, Seeking, Told, Camping, Announced, NotYetAsked, Nowhere
    <3> QED
      BY <3>1
  <2> QED
    BY <2>1, <2>2, <2>3
<1> QED
  BY <1>0, <1>1, <1>2 DEF Life

\* Every step of the system keeps the phases: one step of the proof per action.
LEMMA McStepKeeps ==
  ASSUME Fifo, NoRace, Refuge, IInv, McNext
  PROVE  McInv'
<1>0. Life /\ McTypeInv /\ fault = "none" /\ Cells \ Barrable \subseteq allowed
  BY DEF IInv, McInv, McNoAbort
<1> DEFINE Kept == Life' /\ Decided' /\ fault' = fault /\ Cells \ Barrable \subseteq allowed'
<1>1. ASSUME Kept PROVE McInv'
  BY <1>0, <1>1 DEF McInv, McNoAbort, Decided
<1>2. ASSUME allowed' = allowed, Life' /\ Decided' /\ fault' = fault PROVE McInv'
  BY <1>0, <1>1, <1>2
<1> HIDE DEF Kept
<1>3. CASE AssociationUpdate \/ PerformHandover
  BY <1>2, <1>3, AssociationUpdateKeeps, PerformHandoverKeeps
<1>4. CASE McDownlinkStep
  BY <1>0, <1>2, <1>4, LinkedRadio, SetupRadio DEF Life
<1>5. CASE McUplinkStep
  BY <1>0, <1>2, <1>5, SetupCompletedReceived, AccessReceived, LinkedCompleted, BearerCompleted
  DEF Life, McUplinkStep
<1>6. CASE UeConnectSecondary \/ UeHandoverAccess
  BY <1>2, <1>6, SecondaryConnects, AccessDone
<1>7. ASSUME NEW k \in Ids, McContextStep(k) PROVE McInv'
  BY <1>2, <1>7, CommandReceived, AnswerReceived DEF McContextStep
<1>8. ASSUME NEW i \in DOMAIN x2, McX2Step(i) PROVE McInv'
  BY <1>2, <1>8, X2StepKeeps
<1>9. CASE SetupDataRadioBearer \/ Reconfigure
  BY <1>2, <1>9, BearerKeeps, ReconfigureKeeps
<1>10. ASSUME NEW c \in Cells, RicHandover(c) PROVE McInv'
  BY <1>2, <1>10, RicKeeps
<1>11. ASSUME NEW c \in Cells, TurnOff(c) \/ TurnOn(c) PROVE McInv'
  <2>1. Kept
    BY <1>11, BarredKeeps DEF Kept
  <2> QED
    BY <1>1, <2>1
<1> QED
  BY <1>3, <1>4, <1>5, <1>6, <1>7, <1>8, <1>9, <1>10, <1>11
  DEF McNext, McRadioStep, McEnvironment

\* The initial state is the first phase of the setup.
LEMMA McInitKeeps == McInit => McInv
<1> SUFFICES ASSUME McInit PROVE McInv
  OBVIOUS
<1>1. PICK m : m = Up("SETUP_COMPLETE", NoId) /\ m.type = "SETUP_COMPLETE" /\ ul = <<m>>
  <2>1. Up("SETUP_COMPLETE", NoId) \in UlNamed /\ Up("SETUP_COMPLETE", NoId).type = "SETUP_COMPLETE"
    BY RrcMade DEF Up
  <2> QED
    BY <2>1 DEF McInit
<1>2. /\ dl = <<>> /\ x2 = <<>> /\ fault = "none" /\ allowed = Cells
      /\ co.last = 0 /\ ~co.completed /\ ~co.outage /\ co.event = NoEvent
      /\ lte.st = "CONNECTION_SETUP" /\ ~lte.bearer /\ ~lte.isMc /\ ~lte.pend
      /\ ~lte.available /\ lte.leg = "lte" /\ lte.cell = 0 /\ ue.st = "IDLE"
      /\ (\A k \in Ids : mm[k] = MmBlank) /\ \A c \in Cells : forward[c] = 0
  BY DEF McInit
<1>3. /\ \A type : ~Has(dl, type)
      /\ \A type : Has(ul, type) <=> type = "SETUP_COMPLETE"
      /\ Once(dl) /\ Once(ul) /\ Len(ul) = 1
      /\ \A i \in DOMAIN ul : ul[i].type = "SETUP_COMPLETE"
  BY <1>1, <1>2 DEF Has, Once
<1>4. BearerSetup
  BY <1>2, <1>3 DEF BearerSetup
<1>5. Seeking
  <2>1. Pending(FALSE, FALSE, TRUE)
    BY <1>3 DEF Pending
  <2>2. Nowhere /\ NoContext
    BY <1>2 DEF Nowhere, NoContext
  <2> QED
    BY <1>2, <2>1, <2>2 DEF Seeking
<1>6. Setup
  BY <1>2, <1>3, <1>4, <1>5 DEF Setup, NoForward
<1> QED
  BY <1>2, <1>6
  DEF McInv, McNoAbort, EventIsCurrent, Scheduled, LegFollowsCoordinator, Life

\* Nothing of the invariant changes when nothing does.
LEMMA McStutter == IInv /\ UNCHANGED mcVars => McInv'
<1> SUFFICES ASSUME IInv, UNCHANGED mcVars PROVE McInv'
  OBVIOUS
<1>1. UNCHANGED <<co, allowed, lte, mm, newest, lastRnti, forward, ue, dl, ul, x2, fault>>
  BY DEF mcVars
<1>2. Life'
  BY <1>1, LifeFrame DEF IInv, McInv
<1>3. Decided'
  BY <1>1, DecidedFrame DEF Decided, IInv, McInv
<1> QED
  BY <1>1, <1>2, <1>3 DEF Decided, IInv, McInv, McNoAbort

\* The phases follow each other as the invariant says: with X2 links of equal delay,
\* no command of the RIC during the time to trigger, and a cell that stays on.
THEOREM McPhases ==
  ASSUME Fifo, NoRace, Refuge
  PROVE  McSpec => []IInv
<1>1. McInit => IInv
  BY McInitType, McInitKeeps DEF IInv
<1>2. IInv /\ [McNext]_mcVars => IInv'
  BY McNextType, McStepKeeps, McStutter DEF IInv
<1> QED
  BY <1>1, <1>2, PTL DEF McSpec


-----------------------------------------------------------------------------
(* The properties.                                                         *)

\* No assertion of the handlers fails and no UeManager is missing when a message
\* for it arrives: with X2 links of equal delay, no command of the RIC during the
\* time to trigger and a cell that stays on, dual connectivity never ends the run.
THEOREM McNeverAborts ==
  ASSUME Fifo, NoRace, Refuge
  PROVE  McSpec => []McNoAbort
<1>1. IInv => McNoAbort
  BY DEF IInv, McInv
<1> QED
  BY <1>1, McPhases, PTL

\* When the time to trigger is over, the UE is where it was when the handover was
\* scheduled, and no other handover is going on.
THEOREM McEventCurrent ==
  ASSUME Fifo, NoRace, Refuge
  PROVE  McSpec => []EventIsCurrent
<1>1. IInv => EventIsCurrent
  BY DEF IInv, McInv
<1> QED
  BY <1>1, McPhases, PTL

\* The leg that McEnbPdcp uses is the one that the coordinator has recorded.
THEOREM McLegFollows ==
  ASSUME Fifo, NoRace, Refuge
  PROVE  McSpec => []LegFollowsCoordinator
<1>1. IInv => LegFollowsCoordinator
  BY DEF IInv, McInv
<1> QED
  BY <1>1, McPhases, PTL

\* Nothing is on its way: the UE is at its cell.
LEMMA SettledPhase ==
  ASSUME IInv, Quiet, co.completed
  PROVE  Serving /\ AtHome({}) /\ Home \in Ids
<1>1. Serving /\ Unlocked
  BY WhenServed DEF IInv, McInv, Serving
<1>2. PICK R : Resting(R)
  BY <1>1 DEF Unlocked
<1>3. R = {}
  BY <1>2 DEF Quiet, Resting, Queue, Carries
<1> QED
  BY <1>1, <1>2, <1>3 DEF Resting, Serving, Linked

\* Between two handovers, with nothing on its way, the coordinator, the UE and the
\* cells agree about the UE's only context, which can be handed over.
THEOREM McSettled ==
  ASSUME Fifo, NoRace, Refuge
  PROVE  McSpec => []Settled
<1>1. IInv => Settled
  <2> SUFFICES ASSUME IInv, Quiet, co.completed
               PROVE  LET k == <<co.last, newest[co.last]>> IN
                      /\ ue.id = k /\ ue.known = k /\ <<lte.cell, lte.rnti>> = k
                      /\ {j \in Ids : Exists(j)} = {k}
                      /\ mm[k].st = "CONNECTED_NORMALLY" /\ mm[k].rlc /\ mm[k].request
                      /\ \A c \in Cells : forward[c] = 0
    BY DEF Settled
  <2>1. Serving /\ AtHome({}) /\ Home \in Ids
    BY SettledPhase
  <2>2. Home = <<co.last, newest[co.last]>>
    BY <2>1 DEF Serving, AtHome, Newest, Home
  <2>3. /\ UeAt(Home) /\ Holds(Home, "CONNECTED_NORMALLY", TRUE, NoId)
        /\ \A k \in Ids : k = Home \/ mm[k] = MmBlank
        /\ \A c \in Cells : forward[c] = 0
    BY <2>1 DEF AtHome
  <2>4. mm[Home].st = "CONNECTED_NORMALLY" /\ mm[Home].rlc /\ mm[Home].request
    BY <2>3 DEF Holds
  <2>5. {j \in Ids : Exists(j)} = {Home}
    BY <2>1, <2>3, <2>4 DEF Exists, MmBlank
  <2>6. ue.id = Home /\ ue.known = Home /\ <<lte.cell, lte.rnti>> = Home
    BY <2>3 DEF UeAt, Home
  <2> QED
    BY <2>2, <2>3, <2>4, <2>5, <2>6
<1> QED
  BY <1>1, McPhases, PTL

\* What a queue of X2 says of the handover's messages.
HandoverTypes == {"MC_HO_REQUEST", "HO_REQUEST", "HO_COMPLETED"}

\* A queue with no handover message has no step of a handover.
LEMMA NoSteps ==
  ASSUME NEW home, NEW H, NEW R, Queue(x2, home, H, R), \A m \in H : m.type \notin HandoverTypes
  PROVE  Cardinality(Steps(HandoverTypes)) = 0
<1>1. Steps(HandoverTypes) = {}
  BY DEF Steps, HandoverTypes, Queue, Carries
<1> QED
  BY <1>1, FS_EmptySet

\* A queue that carries one has one.
LEMMA OneStep ==
  ASSUME NEW home, NEW m, NEW R, Queue(x2, home, {m}, R), m.type \in HandoverTypes
  PROVE  Cardinality(Steps(HandoverTypes)) = 1
<1>1. PICK i \in DOMAIN x2 : x2[i] = m
  BY DEF Queue, Carries
<1>2. ASSUME NEW j \in DOMAIN x2, x2[j].type \in HandoverTypes PROVE j = i
  <2>1. x2[j].type # "SWITCH" /\ x2[j].type # "CTX_RELEASE"
    BY <1>2 DEF HandoverTypes
  <2>2. x2[j] = m
    BY <2>1 DEF Queue, Carries
  <2> QED
    BY <1>1, <2>1, <2>2 DEF Queue, Carries
<1>3. Steps(HandoverTypes) = {i}
  BY <1>1, <1>2 DEF Steps
<1> QED
  BY <1>3, FS_Singleton

\* No context is being joined.
LEMMA NoneJoining ==
  ASSUME \A k \in Ids : mm[k].st # "HANDOVER_JOINING"
  PROVE  Cardinality(InState("HANDOVER_JOINING")) = 0
<1>1. InState("HANDOVER_JOINING") = {}
  BY DEF InState
<1> QED
  BY <1>1, FS_EmptySet

\* One context is being joined.
LEMMA OneJoining ==
  ASSUME NEW k, Target(k, "HANDOVER_JOINING", mm[k].answered),
         mm[Home].st # "HANDOVER_JOINING",
         \A j \in Ids : j = Home \/ j = k \/ mm[j] = MmBlank
  PROVE  Cardinality(InState("HANDOVER_JOINING")) = 1
<1>1. InState("HANDOVER_JOINING") = {k}
  BY DEF InState, Target, MmBlank
<1> QED
  BY <1>1, FS_Singleton

\* During the setup no handover is under way.
LEMMA SetupNoHandover ==
  ASSUME Setup
  PROVE  HandoversNow = 0
<1>1. \A i \in DOMAIN x2 : x2[i].type \notin HandoverTypes
  <2>1. CASE RlcAsked
    <3>1. PICK m : x2 = <<m>> /\ m.type = "RLC_REQUEST"
      <4>1. x2 = <<RlcSetupRequest(lte)>> /\ RlcSetupRequest(lte).type = "RLC_REQUEST"
        BY <2>1 DEF RlcAsked, RlcSetupRequest, McX2
      <4> QED
        BY <4>1
    <3> QED
      BY <3>1 DEF HandoverTypes
  <2>2. CASE RlcAnswered
    <3>1. PICK m : x2 = <<m>> /\ m.type = "RLC_COMPLETED"
      <4> DEFINE n == McX2("RLC_COMPLETED", lte.cell, Lte, 0, 0, lte.rnti, FALSE)
      <4>1. x2 = <<n>> /\ n.type = "RLC_COMPLETED"
        BY <2>2 DEF RlcAnswered, McX2
      <4> QED
        BY <4>1
    <3> QED
      BY <3>1 DEF HandoverTypes
  <2>3. CASE x2 = <<>>
    BY <2>3
  <2> QED
    BY <2>1, <2>2, <2>3 DEF Setup, Seeking, Told, Camping, Announced, NotYetAsked, Nowhere
<1>2. Steps(HandoverTypes) = {}
  BY <1>1 DEF Steps
<1>3. \A k \in Ids : mm[k].st # "HANDOVER_JOINING"
  <2>1. NoContext => \A k \in Ids : mm[k].st # "HANDOVER_JOINING"
    BY DEF NoContext, MmBlank
  <2>2. ASSUME NEW k, NEW rlc, First(k, rlc) PROVE \A j \in Ids : mm[j].st # "HANDOVER_JOINING"
    <3>1. mm[k].st = "CONNECTED_NORMALLY"
      BY <2>2 DEF First, MmBlank
    <3>2. \A j \in Ids : j = k \/ mm[j] = MmBlank
      BY <2>2 DEF First
    <3> QED
      BY <3>1, <3>2 DEF MmBlank
  <2>3. NoContext \/ First(ue.id, FALSE) \/ First(Home, FALSE) \/ First(Home, TRUE)
    BY DEF Setup, Seeking, Told, Camping, Announced, NotYetAsked, RlcAsked, RlcAnswered, Known
  <2> QED
    BY <2>1, <2>2, <2>3, Zenon
<1>4. Cardinality(Steps(HandoverTypes)) = 0
  BY <1>2, FS_EmptySet
<1>5. Cardinality(InState("HANDOVER_JOINING")) = 0
  BY <1>3, NoneJoining
<1> QED
  BY <1>4, <1>5 DEF HandoversNow, HandoverTypes

\* A UE at home joins no cell.
LEMMA HomeNoneJoining ==
  ASSUME NEW R, AtHome(R)
  PROVE  \A k \in Ids : mm[k].st # "HANDOVER_JOINING"
<1>1. /\ mm[Home].st = "CONNECTED_NORMALLY"
      /\ \A m \in R : mm[Released(m)].st = "HANDOVER_LEAVING"
      /\ \A k \in Ids : k = Home \/ (\E m \in R : k = Released(m)) \/ mm[k] = MmBlank
  BY DEF AtHome, Holds
<1> QED
  BY <1>1 DEF MmBlank

\* While the coordinator is locked, exactly one handover is under way.
LEMMA LockedOneHandover ==
  ASSUME Locked
  PROVE  HandoversNow = 1
<1> DEFINE steps   == Cardinality(Steps(HandoverTypes))
           joining == Cardinality(InState("HANDOVER_JOINING"))
<1>0. HandoversNow = steps + joining
  BY DEF HandoversNow, HandoverTypes
<1>1. ASSUME NEW R, NEW t, Ordered(R, t) PROVE steps = 1 /\ joining = 0
  <2>1. McHandoverRequest(lte.cell, t).type \in HandoverTypes
    BY DEF McHandoverRequest, McX2, HandoverTypes
  <2>2. Queue(x2, Home, {McHandoverRequest(lte.cell, t)}, R) /\ AtHome(R)
    BY <1>1 DEF Ordered
  <2> QED
    BY <2>1, <2>2, OneStep, HomeNoneJoining, NoneJoining
<1>2. ASSUME NEW t, Requested(t) PROVE steps = 1 /\ joining = 0
  <2> DEFINE m == McX2("HO_REQUEST", lte.cell, t, 0, lte.rnti, 0, TRUE)
  <2>1. m.type \in HandoverTypes
    BY DEF McX2, HandoverTypes
  <2>2. Queue(x2, Home, {m}, {})
    BY <1>2 DEF Requested
  <2> HIDE DEF m
  <2>3. steps = 1
    BY <2>1, <2>2, OneStep
  <2>4. \A k \in Ids : mm[k].st # "HANDOVER_JOINING"
    BY <1>2 DEF Requested, Holds, MmBlank
  <2> QED
    BY <2>3, <2>4, NoneJoining
<1>3. ASSUME NEW k, Acknowledged(k) PROVE steps = 0 /\ joining = 1
  <2> DEFINE m == McX2("HO_ACK", k[1], lte.cell, 0, lte.rnti, k[2], FALSE)
  <2>1. m.type \notin HandoverTypes
    BY DEF McX2, HandoverTypes
  <2>2. Queue(x2, Home, {m}, {})
    BY <1>3 DEF Acknowledged
  <2> HIDE DEF m
  <2>3. steps = 0
    BY <2>1, <2>2, NoSteps
  <2>4. joining = 1
    BY <1>3, OneJoining DEF Acknowledged, Holds, Target
  <2> QED
    BY <2>3, <2>4
<1>4. ASSUME NEW k, Commanded(k) PROVE steps = 0 /\ joining = 1
  <2>1. steps = 0
    BY <1>4, NoSteps DEF Commanded
  <2>2. joining = 1
    BY <1>4, OneJoining DEF Commanded, Holds, Target
  <2> QED
    BY <2>1, <2>2
<1>5. ASSUME NEW k, Accessing(k) PROVE steps = 0 /\ joining = 1
  <2>1. steps = 0
    BY <1>5, NoSteps DEF Accessing
  <2>2. joining = 1
    BY <1>5, OneJoining DEF Accessing, Away, Holds, Target
  <2> QED
    BY <2>1, <2>2
<1>6. ASSUME NEW k, Answered(k) PROVE steps = 0 /\ joining = 1
  <2>1. steps = 0
    BY <1>6, NoSteps DEF Answered
  <2>2. joining = 1
    BY <1>6, OneJoining DEF Answered, Away, Holds, Target
  <2> QED
    BY <2>1, <2>2
<1>7. ASSUME NEW k, Reported(k) PROVE steps = 1 /\ joining = 0
  <2> DEFINE m == McX2("HO_COMPLETED", k[1], Lte, 0, lte.rnti, k[2], FALSE)
  <2>1. m.type \in HandoverTypes
    BY DEF McX2, HandoverTypes
  <2>2. Queue(x2, Home, {m}, {})
    BY <1>7 DEF Reported
  <2> HIDE DEF m
  <2>3. steps = 1
    BY <2>1, <2>2, OneStep
  <2>4. \A j \in Ids : mm[j].st # "HANDOVER_JOINING"
    BY <1>7 DEF Reported, Away, Holds, Target, MmBlank
  <2> QED
    BY <2>3, <2>4, NoneJoining
<1> HIDE DEF steps, joining
<1> QED
  BY <1>0, <1>1, <1>2, <1>3, <1>4, <1>5, <1>6, <1>7 DEF Locked

\* m_mmWaveCellSetupCompleted is a lock: while it is FALSE for a UE with a mmWave
\* cell exactly one handover is going on, and none otherwise.
THEOREM McOneHandover ==
  ASSUME Fifo, NoRace, Refuge
  PROVE  McSpec => []OneHandover
<1>1. IInv => OneHandover
  <2> SUFFICES ASSUME IInv PROVE OneHandover
    OBVIOUS
  <2>0. ASSUME NEW R, Resting(R) PROVE HandoversNow = 0
    <3>1. Cardinality(Steps(HandoverTypes)) = 0
      BY <2>0, NoSteps DEF Resting
    <3>2. Cardinality(InState("HANDOVER_JOINING")) = 0
      BY <2>0, HomeNoneJoining, NoneJoining DEF Resting
    <3> QED
      BY <3>1, <3>2 DEF HandoversNow, HandoverTypes
  <2>1. CASE Setup
    BY <2>1, SetupNoHandover DEF OneHandover, Setup
  <2>2. CASE Activating
    <3>1. HandoversNow = 0
      BY <2>0, <2>2, Zenon DEF Activating
    <3> QED
      BY <2>2, <3>1 DEF OneHandover, Activating
  <2>3. CASE Serving /\ co.completed
    <3>1. HandoversNow = 0
      <4>1. Unlocked
        BY <2>3 DEF Serving
      <4> QED
        BY <2>0, <4>1 DEF Unlocked
    <3> QED
      BY <2>3, <3>1 DEF OneHandover
  <2>4. CASE Serving /\ ~co.completed
    BY <2>4, LockedOneHandover DEF OneHandover, Serving
  <2> QED
    BY <2>1, <2>2, <2>3, <2>4 DEF IInv, McInv, Life
<1> QED
  BY <1>1, McPhases, PTL

-----------------------------------------------------------------------------
(* Where downlink packets end up.                                          *)

\* The recursion of Follow.
LEMMA FollowStep ==
  ASSUME NEW g, NEW n \in Nat,
         g = [i \in Nat |-> IF i = 0 THEN lte.cell
                            ELSE IF forward[g[i - 1]] = 0 THEN g[i - 1] ELSE forward[g[i - 1]]]
  PROVE  Follow[n] = IF n = 0 THEN lte.cell
                     ELSE IF forward[Follow[n - 1]] = 0 THEN Follow[n - 1]
                          ELSE forward[Follow[n - 1]]
<1> DEFINE Def(f) == f = [i \in Nat |-> IF i = 0 THEN lte.cell
                                        ELSE LET c == f[i - 1]
                                             IN  IF forward[c] = 0 THEN c ELSE forward[c]]
<1>1. Def(g)
  OBVIOUS
<1>2. Follow = CHOOSE f : Def(f)
  BY DEF Follow
<1> HIDE DEF Def
<1>3. Def(Follow)
  BY <1>1, <1>2, Zenon
<1> USE DEF Def
<1>4. Follow = [i \in Nat |-> IF i = 0 THEN lte.cell
                              ELSE IF forward[Follow[i - 1]] = 0 THEN Follow[i - 1]
                                   ELSE forward[Follow[i - 1]]]
  BY <1>3
<1> QED
  BY <1>4

\* Without forwarding packets stay in the cell that they are sent to.
LEMMA FollowHome ==
  ASSUME IsFiniteSet(Cells), forward[lte.cell] = 0
  PROVE  DownlinkCell = lte.cell
<1> DEFINE g == [i \in Nat |-> lte.cell]
           S == {n \in Nat : Follow[n] = lte.cell}
<1>1. \A n \in Nat : Follow[n] = IF n = 0 THEN lte.cell
                                 ELSE IF forward[Follow[n - 1]] = 0 THEN Follow[n - 1]
                                      ELSE forward[Follow[n - 1]]
  <2>1. g = [i \in Nat |-> IF i = 0 THEN lte.cell
                           ELSE IF forward[g[i - 1]] = 0 THEN g[i - 1] ELSE forward[g[i - 1]]]
    OBVIOUS
  <2> HIDE DEF g
  <2> QED
    BY <2>1, FollowStep
<1>2. 0 \in S /\ \A n \in Nat : n \in S => n + 1 \in S
  BY <1>1
<1>3. Cardinality(Cells) \in Nat
  BY FS_CardinalityType
<1> HIDE DEF S
<1>4. Cardinality(Cells) \in S
  BY <1>2, <1>3, NatInd
<1> QED
  BY <1>4 DEF S, DownlinkCell

\* With a handover they go to its target.
LEMMA FollowTarget ==
  ASSUME IsFiniteSet(Cells), NEW t, forward[lte.cell] = t, t # 0, forward[t] = 0
  PROVE  DownlinkCell = t
<1> DEFINE g == [i \in Nat |-> IF i = 0 THEN lte.cell ELSE t]
           S == {n \in Nat : Follow[n + 1] = t}
<1>1. \A n \in Nat : Follow[n] = IF n = 0 THEN lte.cell
                                 ELSE IF forward[Follow[n - 1]] = 0 THEN Follow[n - 1]
                                      ELSE forward[Follow[n - 1]]
  <2>1. g = [i \in Nat |-> IF i = 0 THEN lte.cell
                           ELSE IF forward[g[i - 1]] = 0 THEN g[i - 1] ELSE forward[g[i - 1]]]
    OBVIOUS
  <2> HIDE DEF g
  <2> QED
    BY <2>1, FollowStep
<1>2. Follow[0] = lte.cell
  BY <1>1
<1>3. 0 \in S /\ \A n \in Nat : n \in S => n + 1 \in S
  BY <1>1, <1>2
<1>4. Cardinality(Cells) \in Nat /\ Cardinality(Cells) # 0
  BY FS_CardinalityType, FS_EmptySet, McCellsAssumption
<1>5. Cardinality(Cells) - 1 \in Nat
  BY <1>4
<1> HIDE DEF S
<1>6. Cardinality(Cells) - 1 \in S
  BY <1>3, <1>5, NatInd
<1> QED
  BY <1>4, <1>6 DEF S, DownlinkCell

\* The packets find the context of the UE where it is or is told to go.
LEMMA EndsAt ==
  ASSUME NEW k \in Ids, DownlinkCell = k[1], Newest(k), forward[k[1]] = 0,
         mm[k].st # "NONE", mm[k].rlc, HeadingTo(k)
  PROVE  McDownlinkEnds
<1>1. <<DownlinkCell, newest[DownlinkCell]>> = k
  BY McIdParts DEF Newest
<1> QED
  BY <1>1 DEF McDownlinkEnds, Exists

\* At every moment of a handover, downlink packets on the mmWave leg reach a context
\* with an RLC that the UE is at or told to go to, and do not go round in circles.
THEOREM McDownlink ==
  ASSUME Fifo, NoRace, Refuge, IsFiniteSet(Cells)
  PROVE  McSpec => []McDownlinkEnds
<1>1. IInv => McDownlinkEnds
  <2> SUFFICES ASSUME IInv, lte.leg = "mmwave" PROVE McDownlinkEnds
    BY DEF McDownlinkEnds
  <2>1. Serving /\ Home \in Ids /\ Home[1] = lte.cell /\ lte.cell \in Cells
    BY McIdParts DEF IInv, McInv, Life, Setup, Activating, Serving, Linked, Home
  <2>2. ASSUME forward[lte.cell] = 0, NEW st, NEW request, Holds(Home, st, request, NoId),
               st # "NONE", UeAt(Home), Newest(Home)
        PROVE  McDownlinkEnds
    <3>1. DownlinkCell = Home[1]
      BY <2>1, <2>2, FollowHome
    <3>2. mm[Home].st # "NONE" /\ mm[Home].rlc /\ HeadingTo(Home)
      BY <2>2 DEF Holds, HeadingTo, UeAt
    <3> QED
      BY <2>1, <2>2, <3>1, <3>2, EndsAt
  <2>3. ASSUME NEW R, AtHome(R) PROVE McDownlinkEnds
    <3>1. forward[lte.cell] = 0
      BY <2>1, <2>3 DEF AtHome
    <3>2. Holds(Home, "CONNECTED_NORMALLY", TRUE, NoId) /\ UeAt(Home) /\ Newest(Home)
      BY <2>3 DEF AtHome
    <3> QED
      BY <2>2, <3>1, <3>2
  <2>4. ASSUME Holds(Home, "HANDOVER_PREPARATION", FALSE, NoId), UeAt(Home), Newest(Home), NoForward
        PROVE  McDownlinkEnds
    <3>1. forward[lte.cell] = 0
      BY <2>1, <2>4 DEF NoForward
    <3> QED
      BY <2>2, <2>4, <3>1
  <2>5. ASSUME NEW k \in Ids, Forward(k), NEW st, NEW answered, Target(k, st, answered),
               st # "NONE", HeadingTo(k)
        PROVE  McDownlinkEnds
    <3>1. k[1] \in Cells /\ k[1] # 0 /\ k[1] # lte.cell
      BY <2>5, McIdParts, McNotZero DEF Target
    <3>2. forward[lte.cell] = k[1] /\ forward[k[1]] = 0
      BY <2>1, <2>5, <3>1 DEF Forward
    <3>3. DownlinkCell = k[1]
      BY <3>1, <3>2, FollowTarget
    <3> QED
      BY <2>5, <3>2, <3>3, EndsAt DEF Target
  <2>6. CASE Unlocked
    BY <2>3, <2>6 DEF Unlocked, Resting
  <2>7. ASSUME NEW R, NEW t, Ordered(R, t) PROVE McDownlinkEnds
    BY <2>3, <2>7 DEF Ordered
  <2>8. ASSUME NEW t, Requested(t) PROVE McDownlinkEnds
    BY <2>4, <2>8 DEF Requested
  <2>9. ASSUME NEW k \in Ids, Acknowledged(k) PROVE McDownlinkEnds
    BY <2>4, <2>9 DEF Acknowledged
  <2>10. ASSUME NEW k \in Ids, Commanded(k) PROVE McDownlinkEnds
    <3>1. HeadingTo(k)
      BY <2>1, <2>10 DEF Commanded, Holds, HeadingTo
    <3>2. Target(k, "HANDOVER_JOINING", FALSE) /\ Forward(k)
      BY <2>10 DEF Commanded
    <3> QED
      BY <2>5, <3>1, <3>2
  <2>11. ASSUME NEW k \in Ids, NEW s, NEW st, NEW answered, Away(k, s, st, answered), st # "NONE"
         PROVE  McDownlinkEnds
    <3>1. HeadingTo(k) /\ Target(k, st, answered) /\ Forward(k)
      BY <2>11 DEF Away, HeadingTo
    <3> QED
      BY <2>5, <2>11, <3>1
  <2>12. ASSUME NEW k \in Ids, Accessing(k) \/ Answered(k) \/ Reported(k) PROVE McDownlinkEnds
    <3>1. CASE Accessing(k)
      BY <2>11, <3>1 DEF Accessing
    <3>2. CASE Answered(k)
      BY <2>11, <3>2 DEF Answered
    <3>3. CASE Reported(k)
      BY <2>11, <3>3 DEF Reported
    <3> QED
      BY <2>12, <3>1, <3>2, <3>3
  <2>13. Unlocked \/ Locked
    BY <2>1 DEF Serving
  <2> QED
    BY <2>6, <2>7, <2>8, <2>9, <2>10, <2>12, <2>13 DEF Locked
<1> QED
  BY <1>1, McPhases, PTL

==============================================================================
