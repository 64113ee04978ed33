--------------------------- MODULE LteHandoverProofs ---------------------------
(***************************************************************************)
(* Proofs about LteHandover for every value of its constants: any number of *)
(* cells, RNTIs and bearers, any choice of losses, timeouts and requests.  *)
(* First the types (IInv), then what becomes of contexts that leave and of *)
(* contexts that serve, then where the UE is (AnchorInv), what the routing *)
(* tables say (TablesInv), and at last the timers of the contexts (JInv).  *)
(***************************************************************************)
EXTENDS LteHandover, SequenceTheorems, FiniteSetTheorems, TLAPS

\* A context that joins, or switches the path, knows where it came from.
SourceKnown ==
  \A k \in Ids : ctx[k].st \in {"HANDOVER_JOINING", "HANDOVER_PATH_SWITCH"}
                 => ctx[k].source # 0 /\ ctx[k].sourceRnti # 0

\* An RNTI that has not been handed out yet has no context.
Fresh == \A k \in Ids : Exists(k) => Rnti(k) <= lastRnti[EnbCell(k)]

\* A UE that performs a handover has been given an RNTI.
UeHasRnti == ue.state = "CONNECTED_HANDOVER" => ue.rnti # 0

IInv == TypeOK /\ SourceKnown /\ Fresh /\ UeHasRnti

-----------------------------------------------------------------------------
(* Queues.                                                                 *)

\* A queue of messages without its i-th message is such a queue.
LEMMA RemoveAtType ==
  ASSUME NEW S, NEW s \in Seq(S), NEW i \in DOMAIN s
  PROVE  RemoveAt(s, i) \in Seq(S)
<1>1. i \in 1..Len(s)
  OBVIOUS
<1>2. SubSeq(s, 1, i - 1) \in Seq(S) /\ SubSeq(s, i + 1, Len(s)) \in Seq(S)
  BY <1>1, SubSeqProperties
<1> QED
  BY <1>2, ConcatProperties DEF RemoveAt

\* Sending a message keeps the type of the queues (SendPacket on any link).
LEMMA SentType ==
  ASSUME NEW I, NEW S, NEW q \in [I -> Seq(S)], NEW i \in I, NEW m \in S
  PROVE  Sent(q, i, m) \in [I -> Seq(S)]
BY DEF Sent

\* Receiving a message keeps the type of the queues.
LEMMA TakenType ==
  ASSUME NEW I, NEW S, NEW q \in [I -> Seq(S)], NEW i \in I, q[i] # <<>>
  PROVE  Taken(q, i) \in [I -> Seq(S)]
BY DEF Taken

\* The first message of a queue has the type of its messages.
LEMMA HeadType ==
  ASSUME NEW I, NEW S, NEW q \in [I -> Seq(S)], NEW i \in I, q[i] # <<>>
  PROVE  Head(q[i]) \in S
OBVIOUS

\* So does what the UE sends, whether or not the eNB still has its context.
LEMMA UplinkType ==
  ASSUME NEW q \in [Ids -> Seq(RrcUp)], NEW k \in Ids, NEW m \in RrcUp
  PROVE  Uplink(q, k, m) \in [Ids -> Seq(RrcUp)]
BY SentType DEF Uplink

-----------------------------------------------------------------------------
(* Messages and contexts.                                                  *)

\* Zero, which stands for "none", is no cell, no RNTI and no tunnel.
LEMMA NotZero == 0 \notin Cells /\ 0 \notin Rntis /\ 0 \notin Teids
BY CellsAssumption, BoundsAssumption DEF Rntis, Teids

\* The cell and the RNTI of a context's name.
LEMMA IdParts ==
  /\ \A k \in Ids : EnbCell(k) \in Cells /\ Rnti(k) \in Rntis
  /\ \A c \in Cells, r \in Rntis : <<c, r>> \in Ids
                                   /\ EnbCell(<<c, r>>) = c /\ Rnti(<<c, r>>) = r
BY DEF Ids, EnbCell, Rnti

\* RRC messages without mobility information.
LEMMA RrcType == \A t \in {"SETUP", "REJECT", "RECONF"} : Rrc(t) \in RrcDown
BY DEF Rrc, RrcDown

\* The handover command names an existing cell and RNTI.
LEMMA HoCommandType == \A c \in Cells, r \in Rntis : HoCommand(c, r) \in RrcDown
BY NotZero DEF HoCommand, RrcDown

\* The X2-AP messages with and without an RNTI allocated by the target cell.
LEMMA X2Type ==
  ASSUME NEW a \in Cells, NEW b \in Cells, NEW old \in Rntis, NEW new \in Rntis,
         NEW drbs \in SUBSET Bearers, NEW g \in Teids \union {0}
  PROVE  /\ \A t \in {"HO_REQUEST", "HO_FAILURE"} : X2(t, a, b, old, 0, drbs, g) \in X2Msg
         /\ \A t \in {"HO_ACK", "SN_STATUS", "CTX_RELEASE"} :
               X2(t, a, b, old, new, drbs, g) \in X2Msg
BY NotZero DEF X2, X2Msg

\* SwitchToState(CONNECTED_NORMALLY) ends in this state or, when a
\* reconfiguration is pending, in CONNECTION_RECONFIGURATION.
LEMMA ConnectedType ==
  ASSUME NEW c \in Context
  PROVE  /\ Connected(c) \in Context
         /\ Connected(c).st \in {"CONNECTED_NORMALLY", "CONNECTION_RECONFIGURATION"}
BY DEF Connected, Context, EnbStates

\* The reconfiguration that SwitchToState sends is a message to the UE.
LEMMA ConnectedDlType ==
  ASSUME NEW q \in [Ids -> Seq(RrcDown)], NEW k \in Ids, NEW c
  PROVE  ConnectedDl(q, k, c) \in [Ids -> Seq(RrcDown)]
BY SentType, RrcType DEF ConnectedDl

\* The absence of a context.
LEMMA BlankType == Blank \in Context
BY DEF Blank, Context

\* What RemoveUe leaves of a context.
LEMMA ErasedType ==
  ASSUME NEW c \in Context
  PROVE  Erased(c) \in Context /\ Erased(c).st = "NONE"
BY BlankType DEF Erased, Context, Blank

\* Each timer guards a state of the eNB's context.
LEMMA TimerStateType == TimerState \in [Timers -> EnbStates]
BY DEF TimerState, Timers, EnbStates

\* The context that AddUe creates.
LEMMA NewContextType ==
  ASSUME NEW t \in Timers
  PROVE  NewContext(t) \in Context
BY BlankType, TimerStateType DEF NewContext, Context

-----------------------------------------------------------------------------
(* The S1 application.                                                     *)

\* The tables of the S1 application after a bearer is set up,
LEMMA RoutedType ==
  ASSUME NEW a \in EnbApp, NEW r \in Rntis, NEW g \in Teids \union {0}
  PROVE  Routed(a, r, g) \in EnbApp
BY DEF Routed, EnbApp

\* after the INITIAL UE MESSAGE,
LEMMA InitialUeRegisteredType ==
  ASSUME NEW a \in EnbApp, NEW r \in Rntis
  PROVE  InitialUeRegistered(a, r) \in EnbApp
BY DEF InitialUeRegistered, EnbApp

\* after the UE context is released,
LEMMA UeContextReleasedType ==
  ASSUME NEW a \in EnbApp, NEW r \in Rntis
  PROVE  UeContextReleased(a, r) \in EnbApp
BY DEF UeContextReleased, EnbApp

\* and after the path switch request.
LEMMA PathSwitchedType ==
  ASSUME NEW a \in EnbApp, NEW r \in Rntis, NEW drbs, NEW g \in Teids \union {0}
  PROVE  PathSwitched(a, r, drbs, g) \in EnbApp
<1>1. [a EXCEPT !.rnti = r] \in EnbApp
  BY DEF EnbApp
<1> QED
  BY <1>1, RoutedType DEF PathSwitched

-----------------------------------------------------------------------------
(* The initial states.                                                     *)

\* The cell the UE starts in is one of the cells.
LEMMA HomeCellType == HomeCell \in Cells
BY CellsAssumption DEF HomeCell

\* The invariant holds in the initial states, attached or camped.
LEMMA InitIInv == Init => IInv
<1> SUFFICES ASSUME Init PROVE IInv
  OBVIOUS
<1> USE DEF Init
<1>1. HomeCell \in Cells /\ 1 \in Rntis /\ 1 \in Teids /\ StartConnected \in BOOLEAN
  BY HomeCellType, BoundsAssumption, ChoicesAssumption DEF Rntis, Teids
<1>2. ue \in Ue
  BY <1>1 DEF InitUe, Ue, UeStates
<1>3. Attached \in Context
  BY <1>1, BlankType DEF Attached, Context, EnbStates
<1>4. ctx \in [Ids -> Context]
  BY <1>3, BlankType
<1>5. NoTunnel \in EnbApp
  BY DEF NoTunnel, EnbApp
<1>6. Routed(InitialUeRegistered(NoTunnel, 1), 1, 1) \in EnbApp
  BY <1>1, <1>5, RoutedType, InitialUeRegisteredType
<1>7. enbApp \in [Cells -> EnbApp]
  BY <1>5, <1>6
<1>8. epc \in EpcState
  BY <1>1 DEF EpcState
<1>9. lastRnti \in [Cells -> 0..MaxRnti]
  BY <1>1, BoundsAssumption
<1>10. TypeOK
  BY <1>2, <1>4, <1>7, <1>8, <1>9 DEF TypeOK
<1>11. SourceKnown
  BY DEF SourceKnown, Attached, Blank
<1>12. Fresh
  BY <1>1, IdParts DEF Fresh, Exists, Blank, HomeId
<1>13. UeHasRnti
  BY DEF UeHasRnti, InitUe
<1> QED
  BY <1>10, <1>11, <1>12, <1>13 DEF IInv

-----------------------------------------------------------------------------
(* What the steps have in common.                                          *)

\* An assertion that fails stops the program in the state it is in.
LEMMA AbortKeeps ==
  ASSUME IInv, NEW w, Abort(w)
  PROVE  IInv'
BY DEF Abort, IInv, TypeOK, SourceKnown, Fresh, Exists, UeHasRnti

\* A stuttering step keeps the invariant.
LEMMA StutterKeeps ==
  ASSUME IInv, UNCHANGED vars
  PROVE  IInv'
BY DEF vars, IInv, TypeOK, SourceKnown, Fresh, Exists, UeHasRnti

\* A step of the UE changes the UE and the radio links.
LEMMA UeKeeps ==
  ASSUME IInv, UeUnchanged, ue' \in Ue, dl' \in [Ids -> Seq(RrcDown)],
         ul' \in [Ids -> Seq(RrcUp)],
         ue'.state = "CONNECTED_HANDOVER" => ue'.rnti # 0
  PROVE  IInv'
BY DEF UeUnchanged, IInv, TypeOK, SourceKnown, Fresh, Exists, UeHasRnti

\* A step of the MME changes the EPC and the S1 links.
LEMMA MmeKeeps ==
  ASSUME IInv, MmeUnchanged, epc' \in EpcState, s1up' \in [Cells -> Seq(S1Up)],
         s1down' \in [Cells -> Seq(S1Down)]
  PROVE  IInv'
BY DEF MmeUnchanged, IInv, TypeOK, SourceKnown, Fresh, Exists, UeHasRnti

\* A step of an eNB that leaves all contexts alone but k, which existed before
\* or is removed, and which gets no new source.
LEMMA ContextKeeps ==
  ASSUME IInv, NEW k \in Ids, NEW c \in Context,
         ctx' = [ctx EXCEPT ![k] = c], UNCHANGED <<ue, lastRnti>>,
         Exists(k) \/ c.st = "NONE",
         c.st \in {"HANDOVER_JOINING", "HANDOVER_PATH_SWITCH"}
           => /\ ctx[k].st \in {"HANDOVER_JOINING", "HANDOVER_PATH_SWITCH"}
              /\ c.source = ctx[k].source /\ c.sourceRnti = ctx[k].sourceRnti
  PROVE  /\ ctx' \in [Ids -> Context] /\ SourceKnown' /\ Fresh' /\ UeHasRnti'
         /\ ue' \in Ue /\ lastRnti' \in [Cells -> 0..MaxRnti]
<1> USE DEF IInv, TypeOK
<1>1. ctx' \in [Ids -> Context]
  OBVIOUS
<1>2. SourceKnown'
  BY DEF SourceKnown
<1>3. Fresh'
  BY DEF Fresh, Exists
<1>4. UeHasRnti'
  BY DEF UeHasRnti
<1> QED
  BY <1>1, <1>2, <1>3, <1>4

\* The new context of RNTI NextRnti(b).
LEMMA AddUeKeeps ==
  ASSUME IInv, NEW b \in Cells, NEW c \in Context, CanAddUe(b),
         ctx' = [ctx EXCEPT ![<<b, NextRnti(b)>>] = c],
         lastRnti' = [lastRnti EXCEPT ![b] = NextRnti(b)],
         c.st \in {"HANDOVER_JOINING", "HANDOVER_PATH_SWITCH"}
           => c.source # 0 /\ c.sourceRnti # 0
  PROVE  /\ NextRnti(b) \in Rntis
         /\ ctx' \in [Ids -> Context] /\ SourceKnown' /\ Fresh'
         /\ lastRnti' \in [Cells -> 0..MaxRnti]
<1> USE DEF IInv, TypeOK
<1>1. NextRnti(b) \in Rntis /\ NextRnti(b) \in 0..MaxRnti /\ <<b, NextRnti(b)>> \in Ids
  BY BoundsAssumption, IdParts DEF NextRnti, CanAddUe, Rntis
<1>2. ctx' \in [Ids -> Context] /\ lastRnti' \in [Cells -> 0..MaxRnti]
  BY <1>1
<1>3. SourceKnown'
  BY <1>1 DEF SourceKnown
<1>4. ASSUME NEW k \in Ids, Exists(k)' PROVE Rnti(k) <= lastRnti'[EnbCell(k)]
  <2>1. CASE k = <<b, NextRnti(b)>>
    BY <1>1, <2>1, IdParts
  <2>2. CASE k # <<b, NextRnti(b)>>
    <3>1. Exists(k)
      BY <1>1, <1>4, <2>2 DEF Exists
    <3>2. Rnti(k) <= lastRnti[EnbCell(k)] /\ EnbCell(k) \in Cells /\ Rnti(k) \in Rntis
      BY <3>1, IdParts DEF Fresh
    <3>3. \A d \in Cells : lastRnti[d] \in Nat /\ lastRnti[d] <= lastRnti'[d]
      BY SMTT(40), BoundsAssumption DEF NextRnti
    <3>4. lastRnti[EnbCell(k)] \in Nat /\ lastRnti'[EnbCell(k)] \in Nat
      BY <1>2, <3>2, <3>3, BoundsAssumption
    <3> QED
      BY <3>2, <3>3, <3>4 DEF Rntis
  <2> QED
    BY <2>1, <2>2
<1> QED
  BY <1>1, <1>2, <1>3, <1>4 DEF Fresh

\* RemoveUe keeps the type of everything it erases.
LEMMA RemoveUeType ==
  ASSUME IInv, NEW k \in Ids, NEW c \in Context, RemoveUe(k, c)
  PROVE  /\ dl' \in [Ids -> Seq(RrcDown)] /\ ul' \in [Ids -> Seq(RrcUp)]
         /\ x2u' \in [Cells -> [Teids -> Rntis \union {0}]]
         /\ enbApp' \in [Cells -> EnbApp]
<1> USE DEF IInv, TypeOK, RemoveUe
<1>1. dl' \in [Ids -> Seq(RrcDown)] /\ ul' \in [Ids -> Seq(RrcUp)]
  OBVIOUS
<1>2. x2u' \in [Cells -> [Teids -> Rntis \union {0}]]
  BY IdParts
<1>3. enbApp' \in [Cells -> EnbApp]
  BY IdParts, UeContextReleasedType
<1> QED
  BY <1>1, <1>2, <1>3

-----------------------------------------------------------------------------
(* The UE.                                                                 *)

\* The states in which the UE's failed attempts and new attempts end.
LEMMA FailedType ==
  ASSUME NEW u \in Ue
  PROVE  /\ Failed(u) \in Ue /\ Camped(u) \in Ue /\ WaitingSib2(u) \in Ue
         /\ Starting(u) \in Ue
         /\ Failed(u).state # "CONNECTED_HANDOVER"
         /\ WaitingSib2(u).state # "CONNECTED_HANDOVER"
         /\ Starting(u).state # "CONNECTED_HANDOVER"
<1>1. Starting(u) \in Ue /\ Starting(u).state # "CONNECTED_HANDOVER"
  BY DEF Starting, Ue, UeStates
<1>2. WaitingSib2(u) \in Ue /\ WaitingSib2(u).state # "CONNECTED_HANDOVER"
  BY DEF WaitingSib2, Starting, Ue, UeStates
<1>3. Camped(u) \in Ue /\ Camped(u).state # "CONNECTED_HANDOVER"
  BY <1>2 DEF Camped, Ue, UeStates
<1> QED
  BY <1>1, <1>2, <1>3 DEF Failed, Ue

\* The context the UE is served by is one of those that exist or may exist.
LEMMA ServedType ==
  ASSUME IInv, ue.rnti # 0
  PROVE  Served \in Ids
BY DEF IInv, TypeOK, Ue, Served, Ids

\* The UE hears messages of the context it is served by.
LEMMA HeardKeeps ==
  ASSUME IInv, NEW t, Heard(t)
  PROVE  /\ Served \in Ids /\ Taken(dl, Served) \in [Ids -> Seq(RrcDown)]
         /\ Head(dl[Served]) \in RrcDown /\ Head(dl[Served]).type = t
<1>1. Served \in Ids /\ dl[Served] # <<>> /\ dl \in [Ids -> Seq(RrcDown)]
  BY ServedType DEF Heard, Pending, IInv, TypeOK
<1> QED
  BY <1>1, TakenType, HeadType DEF Heard, Pending

\* Every step of the UE's RRC on its own keeps the invariant.
LEMMA UeStepKeeps ==
  ASSUME IInv,
         \/ UeConnect \/ UeRecvSystemInformation \/ UeRandomAccessFailed
         \/ UeHandoverAccess \/ UeConnectionTimeout \/ UeRecvConnectionSetup
         \/ UeRecvConnectionReject \/ UeRecvReconfiguration \/ UeRecvHandoverCommand
  PROVE  IInv'
<1>1. /\ ue \in Ue /\ dl \in [Ids -> Seq(RrcDown)] /\ ul \in [Ids -> Seq(RrcUp)]
      /\ ue.state = "CONNECTED_HANDOVER" => ue.rnti # 0
  BY DEF IInv, TypeOK, UeHasRnti
<1>2. CASE UeConnect
  <2>1. [ue EXCEPT !.retry = FALSE] \in Ue
    BY <1>1 DEF Ue
  <2>2. [[ue EXCEPT !.retry = FALSE] EXCEPT !.pending = TRUE] \in Ue
    BY <2>1 DEF Ue
  <2>3. ue' \in Ue /\ (ue'.state = "CONNECTED_HANDOVER" => ue'.rnti # 0)
    BY <1>1, <1>2, <2>1, <2>2, FailedType DEF UeConnect, Ue
  <2> QED
    BY <1>1, <1>2, <2>3, UeKeeps DEF UeConnect
<1>3. CASE UeRecvSystemInformation
  <2>1. [ue EXCEPT !.sib2 = TRUE] \in Ue
    BY <1>1 DEF Ue
  <2>2. ue' \in Ue /\ (ue'.state = "CONNECTED_HANDOVER" => ue'.rnti # 0)
    BY <1>1, <1>3, <2>1, FailedType DEF UeRecvSystemInformation, Ue
  <2> QED
    BY <1>1, <1>3, <2>2, UeKeeps DEF UeRecvSystemInformation
<1>4. CASE UeRandomAccessFailed
  <2>1. ue' \in Ue /\ (ue'.state = "CONNECTED_HANDOVER" => ue'.rnti # 0)
    BY <1>1, <1>4, FailedType DEF UeRandomAccessFailed, Ue
  <2> QED
    BY <1>1, <1>4, <2>1, UeKeeps DEF UeRandomAccessFailed
<1>5. CASE UeHandoverAccess
  <2>1. ue' \in Ue /\ (ue'.state = "CONNECTED_HANDOVER" => ue'.rnti # 0)
    BY <1>1, <1>5 DEF UeHandoverAccess, Ue, UeStates
  <2>2. Served \in Ids
    BY <1>1, <1>5, ServedType DEF UeHandoverAccess
  <2>3. ul' \in [Ids -> Seq(RrcUp)]
    BY <1>1, <1>5, <2>2, UplinkType DEF UeHandoverAccess, RrcUp
  <2> QED
    BY <1>1, <1>5, <2>1, <2>3, UeKeeps DEF UeHandoverAccess
<1>6. CASE UeConnectionTimeout
  <2>1. [ue EXCEPT !.t300 = FALSE, !.sib2 = FALSE] \in Ue
    BY <1>1 DEF Ue
  <2> QED
    BY <1>1, <1>6, <2>1, FailedType, UeKeeps DEF UeConnectionTimeout
<1>7. CASE UeRecvConnectionSetup
  <2>1. CASE ue.state = "IDLE_CONNECTING"
    <3>1. ue' \in Ue /\ ue'.state = "CONNECTED_NORMALLY"
      BY ZenonT(40), <1>1, <1>7, <2>1 DEF UeRecvConnectionSetup, Ue, UeStates
    <3>2. dl' \in [Ids -> Seq(RrcDown)] /\ ul' \in [Ids -> Seq(RrcUp)]
      BY <1>1, <1>7, <2>1, HeardKeeps, UplinkType DEF UeRecvConnectionSetup, RrcUp
    <3> QED
      BY <1>7, <2>1, <3>1, <3>2, UeKeeps DEF UeRecvConnectionSetup
  <2>2. CASE ue.state # "IDLE_CONNECTING"
    BY <1>7, <2>2, AbortKeeps DEF UeRecvConnectionSetup
  <2> QED
    BY <2>1, <2>2
<1>8. CASE UeRecvConnectionReject
  <2>1. [ue EXCEPT !.t300 = FALSE, !.sib2 = FALSE] \in Ue
    BY <1>1 DEF Ue
  <2>2. dl' \in [Ids -> Seq(RrcDown)]
    BY <1>8, HeardKeeps DEF UeRecvConnectionReject
  <2> QED
    BY <1>1, <1>8, <2>1, <2>2, FailedType, UeKeeps DEF UeRecvConnectionReject
<1>9. CASE UeRecvReconfiguration
  <2>1. CASE ue.state = "CONNECTED_NORMALLY"
    <3>1. dl' \in [Ids -> Seq(RrcDown)] /\ ul' \in [Ids -> Seq(RrcUp)]
      BY <1>1, <1>9, <2>1, HeardKeeps, UplinkType DEF UeRecvReconfiguration, RrcUp
    <3> QED
      BY <1>1, <1>9, <2>1, <3>1, UeKeeps DEF UeRecvReconfiguration
  <2>2. CASE ue.state # "CONNECTED_NORMALLY"
    BY <1>9, <2>2, AbortKeeps DEF UeRecvReconfiguration
  <2> QED
    BY <2>1, <2>2
<1>10. CASE UeRecvHandoverCommand
  <2>1. CASE ue.state = "CONNECTED_NORMALLY"
    <3>1. /\ Head(dl[Served]) \in RrcDown /\ Head(dl[Served]).type = "HO_COMMAND"
          /\ Served \in Ids
      BY <1>10, HeardKeeps DEF UeRecvHandoverCommand
    <3>2. Head(dl[Served]).cell \in Cells /\ Head(dl[Served]).rnti \in Rntis
      BY <3>1 DEF RrcDown
    <3> DEFINE c == Head(dl[Served]).cell
               r == Head(dl[Served]).rnti
               u == [ue EXCEPT !.state = "CONNECTED_HANDOVER", !.ra = TRUE,
                               !.cell = c, !.rnti = r]
    <3>a. ue' = u /\ dl' = Taken(dl, Served) /\ ul' = [ul EXCEPT ![Served] = <<>>]
      BY <1>10, <2>1 DEF UeRecvHandoverCommand
    <3>b. c \in Cells /\ r \in Rntis
      BY <3>2
    <3>c. u \in Ue /\ u.rnti = r
      <4> HIDE DEF c, r
      <4> QED BY <1>1, <3>b DEF Ue, UeStates
    <3>3. ue' \in Ue /\ ue'.rnti # 0
      BY <3>a, <3>b, <3>c, NotZero
    <3>4. dl' \in [Ids -> Seq(RrcDown)] /\ ul' \in [Ids -> Seq(RrcUp)]
      <4>1. <<>> \in Seq(RrcUp)
        OBVIOUS
      <4> QED
        BY <1>1, <1>10, <3>1, <3>a, <4>1, HeardKeeps DEF UeRecvHandoverCommand
    <3> QED
      BY <1>10, <2>1, <3>3, <3>4, UeKeeps DEF UeRecvHandoverCommand
  <2>2. CASE ue.state # "CONNECTED_NORMALLY"
    BY <1>10, <2>2, AbortKeeps DEF UeRecvHandoverCommand
  <2> QED
    BY <2>1, <2>2
<1> QED
  BY <1>2, <1>3, <1>4, <1>5, <1>6, <1>7, <1>8, <1>9, <1>10

-----------------------------------------------------------------------------
(* The EPC and the radio link.                                             *)

\* The MME and the SGW keep the invariant: no more attaches than tunnels.
LEMMA MmeStepKeeps ==
  ASSUME IInv, NEW c \in Cells,
         MmeRecvInitialUe(c) \/ MmeRecvPathSwitch(c) \/ MmeRecvErabRelease(c)
  PROVE  IInv'
<1>1. /\ epc \in EpcState /\ s1up \in [Cells -> Seq(S1Up)]
      /\ s1down \in [Cells -> Seq(S1Down)]
  BY DEF IInv, TypeOK
<1>2. CASE MmeRecvInitialUe(c)
  <2>1. epc.teid + 1 \in Teids
    BY <1>1, <1>2, BoundsAssumption DEF MmeRecvInitialUe, SessionCreated, EpcState, Teids
  <2>2. epc' \in EpcState
    BY <1>1, <1>2, <2>1 DEF MmeRecvInitialUe, SessionCreated, EpcState
  <2>3. S1DownMsg("CTX_SETUP", epc.bearers, epc.teid + 1) \in S1Down
    BY <1>1, <2>1 DEF S1DownMsg, S1Down, EpcState
  <2> QED
    BY <1>1, <1>2, <2>2, <2>3, SentType, TakenType, MmeKeeps
    DEF MmeRecvInitialUe, SessionCreated, Pending
<1>3. CASE MmeRecvPathSwitch(c)
  <2>1. epc' \in EpcState
    BY <1>1, <1>3 DEF MmeRecvPathSwitch, BearersModified, EpcState
  <2>2. S1DownMsg("PATH_SWITCH_ACK", {}, 0) \in S1Down
    BY DEF S1DownMsg, S1Down
  <2> QED
    BY <1>1, <1>3, <2>1, <2>2, SentType, TakenType, MmeKeeps
    DEF MmeRecvPathSwitch, BearersModified, Pending
<1>4. CASE MmeRecvErabRelease(c)
  <2>1. epc' \in EpcState
    BY <1>1, <1>4 DEF MmeRecvErabRelease, BearerDeleted, EpcState
  <2> QED
    BY <1>1, <1>4, <2>1, TakenType, MmeKeeps DEF MmeRecvErabRelease, BearerDeleted, Pending
<1> QED
  BY <1>2, <1>3, <1>4

\* Contention-based random access, its response lost or not.
LEMMA RandomAccessKeeps ==
  ASSUME IInv, RandomAccess
  PROVE  IInv'
<1> DEFINE n == NextRnti(ue.cell)
           k == <<ue.cell, n>>
<1>1. /\ ue \in Ue /\ ue.cell \in Cells /\ ul \in [Ids -> Seq(RrcUp)]
      /\ "connectionRequest" \in Timers
  BY DEF IInv, TypeOK, Ue, Timers
<1>2. /\ ctx' = [ctx EXCEPT ![k] = NewContext("connectionRequest")]
      /\ lastRnti' = [lastRnti EXCEPT ![ue.cell] = n] /\ CanAddUe(ue.cell)
      /\ ue.state = "IDLE_RANDOM_ACCESS"
  BY DEF RandomAccess
<1>3. NewContext("connectionRequest").st = "INITIAL_RANDOM_ACCESS"
  BY DEF NewContext, TimerState, Blank
<1>4. /\ n \in Rntis /\ ctx' \in [Ids -> Context] /\ SourceKnown' /\ Fresh'
      /\ lastRnti' \in [Cells -> 0..MaxRnti]
  BY <1>1, <1>2, <1>3, AddUeKeeps, NewContextType
<1>5. k \in Ids
  BY <1>1, <1>4, IdParts
<1>6. Sent(ul, k, "REQUEST") \in [Ids -> Seq(RrcUp)]
  BY <1>1, <1>5, SentType DEF RrcUp
<1>7. Connecting(ue, n) \in Ue /\ Connecting(ue, n).state = "IDLE_CONNECTING"
  BY <1>1, <1>4 DEF Connecting, Ue, UeStates
<1>8. ue' \in Ue /\ ul' \in [Ids -> Seq(RrcUp)] /\ ue'.state # "CONNECTED_HANDOVER"
  BY <1>1, <1>2, <1>6, <1>7 DEF RandomAccess
<1> QED
  BY <1>4, <1>8 DEF RandomAccess, IInv, TypeOK, UeHasRnti

\* The loss of an SRB0 message.
LEMMA Srb0MessageLostKeeps ==
  ASSUME IInv, NEW k \in Ids, Srb0MessageLost(k)
  PROVE  IInv'
<1>1. dl \in [Ids -> Seq(RrcDown)] /\ ul \in [Ids -> Seq(RrcUp)]
  BY DEF IInv, TypeOK
<1>2. \/ dl[k] # <<>> /\ dl' = Taken(dl, k) /\ ul' = ul
      \/ ul[k] # <<>> /\ ul' = Taken(ul, k) /\ dl' = dl
  BY DEF Srb0MessageLost, Pending, Arrived
<1>3. dl' \in [Ids -> Seq(RrcDown)] /\ ul' \in [Ids -> Seq(RrcUp)]
  BY SMTT(40), <1>1, <1>2, TakenType
<1> QED
  BY <1>3 DEF Srb0MessageLost, IInv, TypeOK, SourceKnown, Fresh, Exists, UeHasRnti

-----------------------------------------------------------------------------
(* The timers of a context.                                                *)

\* A context whose timer is cancelled,
LEMMA StoppedType ==
  ASSUME NEW c \in Context, NEW t \in Timers
  PROVE  /\ Stopped(c, t) \in Context /\ Stopped(c, t).st = c.st
         /\ Stopped(c, t).source = c.source
         /\ Stopped(c, t).sourceRnti = c.sourceRnti
BY DEF Stopped, Context

\* and one that enters the state a timer guards.
LEMMA WaitsType ==
  ASSUME NEW c \in Context, NEW t \in Timers
  PROVE  Waits(c, t) \in Context /\ Waits(c, t).st = TimerState[t]
BY TimerStateType DEF Waits, Context

\* A step that removes context k and does nothing else but take a message.
LEMMA RemovalKeeps ==
  ASSUME IInv, NEW k \in Ids, NEW c \in Context, RemoveUe(k, c),
         removals' \subseteq Ids, x2' \in Seq(X2Msg),
         UNCHANGED <<ue, lastRnti, s1up, s1down, epc, asked>>
  PROVE  IInv'
<1>1. /\ dl' \in [Ids -> Seq(RrcDown)] /\ ul' \in [Ids -> Seq(RrcUp)]
      /\ x2u' \in [Cells -> [Teids -> Rntis \union {0}]]
      /\ enbApp' \in [Cells -> EnbApp]
  BY RemoveUeType
<1>2. /\ ctx' = [ctx EXCEPT ![k] = Erased(c)]
      /\ Erased(c) \in Context /\ Erased(c).st = "NONE"
  BY ErasedType DEF RemoveUe
<1>3. ctx' \in [Ids -> Context] /\ SourceKnown' /\ Fresh' /\ UeHasRnti'
  BY <1>2, ContextKeeps
<1> QED
  BY <1>1, <1>3 DEF IInv, TypeOK

\* Every timeout of a context, and the scheduled RemoveUe.
LEMMA TimeoutKeeps ==
  ASSUME IInv, NEW k \in Ids,
         \/ \E t \in Timers : ContextTimeout(k, t)
         \/ HandoverJoiningTimeout(k)
         \/ ScheduledRemoval(k)
  PROVE  IInv'
<1>1. ctx \in [Ids -> Context] /\ ctx[k] \in Context /\ removals \subseteq Ids
      /\ x2 \in Seq(X2Msg)
  BY DEF IInv, TypeOK
<1>2. ASSUME NEW t \in Timers, ContextTimeout(k, t) PROVE IInv'
  <2>1. CASE InTimerState(k, t)
    <3>1. Stopped(ctx[k], t) \in Context
      BY <1>1, StoppedType
    <3> QED
      BY <1>1, <1>2, <2>1, <3>1, RemovalKeeps DEF ContextTimeout
  <2>2. CASE ~InTimerState(k, t)
    BY <1>2, <2>2, AbortKeeps DEF ContextTimeout, WrongTimeout, UeManagerNotFound
  <2> QED
    BY <2>1, <2>2
<1>3. CASE HandoverJoiningTimeout(k)
  <2>1. CASE InTimerState(k, "handoverJoining")
    <3>1. ctx[k].st = "HANDOVER_JOINING" /\ "handoverJoining" \in Timers
      BY <2>1 DEF InTimerState, TimerState, Timers
    <3>2. ctx' = [ctx EXCEPT ![k] = Stopped(ctx[k], "handoverJoining")]
      BY <1>1, <1>3, <2>1 DEF HandoverJoiningTimeout
    <3>3. UNCHANGED <<ue, lastRnti>>
      BY <1>3, <2>1 DEF HandoverJoiningTimeout
    <3>4. ctx' \in [Ids -> Context] /\ SourceKnown' /\ Fresh' /\ UeHasRnti'
      BY <1>1, <3>1, <3>2, <3>3, StoppedType, ContextKeeps DEF Exists
    <3>5. removals' \subseteq Ids
      BY <1>1, <1>3, <2>1 DEF HandoverJoiningTimeout
    <3> QED
      BY <1>3, <2>1, <3>4, <3>5 DEF HandoverJoiningTimeout, IInv, TypeOK
  <2>2. CASE ~InTimerState(k, "handoverJoining")
    BY <1>3, <2>2, AbortKeeps DEF HandoverJoiningTimeout, WrongTimeout, UeManagerNotFound
  <2> QED
    BY <2>1, <2>2
<1>4. CASE ScheduledRemoval(k)
  <2>1. CASE Exists(k)
    <3>1. removals' \subseteq Ids
      BY <1>1, <1>4, <2>1 DEF ScheduledRemoval
    <3> QED
      BY <1>1, <1>4, <2>1, <3>1, RemovalKeeps DEF ScheduledRemoval
  <2>2. CASE ~Exists(k)
    BY <1>4, <2>2, AbortKeeps DEF ScheduledRemoval
  <2> QED
    BY <2>1, <2>2
<1> QED
  BY <1>2, <1>3, <1>4

-----------------------------------------------------------------------------
(* Connection establishment and reconfiguration at the eNB.                *)

\* The counters of requests stay numbers.
LEMMA AskedType ==
  ASSUME IInv
  PROVE  /\ [asked EXCEPT !.handovers = @ + 1]
              \in [handovers : Nat, reconfs : Nat, releases : Nat]
         /\ [asked EXCEPT !.reconfs = @ + 1]
              \in [handovers : Nat, reconfs : Nat, releases : Nat]
         /\ [asked EXCEPT !.releases = @ + 1]
              \in [handovers : Nat, reconfs : Nat, releases : Nat]
<1>1. asked \in [handovers : Nat, reconfs : Nat, releases : Nat]
  BY DEF IInv, TypeOK
<1>2. /\ asked.handovers + 1 \in Nat /\ asked.reconfs + 1 \in Nat
      /\ asked.releases + 1 \in Nat
  BY <1>1
<1> QED
  BY <1>1, <1>2

\* A message from the UE finds its context among those that have a name, and is
\* taken from a queue that holds it.
LEMMA ArrivedKeeps ==
  ASSUME IInv, NEW k \in Ids, NEW t, Arrived(k, t)
  PROVE  ctx[k] \in Context /\ Taken(ul, k) \in [Ids -> Seq(RrcUp)]
<1>1. ul \in [Ids -> Seq(RrcUp)] /\ ctx \in [Ids -> Context]
  BY DEF IInv, TypeOK
<1> QED
  BY <1>1, TakenType DEF Arrived

\* RecvRrcConnectionRequest, admitted or rejected.
LEMMA ConnectionRequestKeeps ==
  ASSUME IInv, NEW k \in Ids, RecvRrcConnectionRequest(k)
  PROVE  IInv'
<1>1. CASE ctx[k].st # "INITIAL_RANDOM_ACCESS"
  BY <1>1, AbortKeeps DEF RecvRrcConnectionRequest
<1>2. CASE ctx[k].st = "INITIAL_RANDOM_ACCESS"
  <2>1. PICK admit \in Admission :
          LET c == EnbCell(k)
              t == IF admit THEN "connectionSetup" ELSE "connectionRejected" IN
          /\ ctx' = [ctx EXCEPT ![k] = Waits(Stopped(@, "connectionRequest"), t)]
          /\ dl' = Sent(dl, k, Rrc(IF admit THEN "SETUP" ELSE "REJECT"))
          /\ ul' = Taken(ul, k)
          /\ enbApp' = IF admit
                       THEN [enbApp EXCEPT ![c] = InitialUeRegistered(@, Rnti(k))]
                       ELSE enbApp
          /\ s1up' = IF admit THEN Sent(s1up, c, S1UpMsg("INITIAL_UE", 0)) ELSE s1up
          /\ UNCHANGED <<ue, lastRnti, removals, x2, x2u, s1down, epc, asked,
                         fault>>
    BY <1>2 DEF RecvRrcConnectionRequest
  <2> DEFINE t == IF admit THEN "connectionSetup" ELSE "connectionRejected"
             w == Waits(Stopped(ctx[k], "connectionRequest"), t)
  <2>2. /\ ctx \in [Ids -> Context] /\ dl \in [Ids -> Seq(RrcDown)]
        /\ enbApp \in [Cells -> EnbApp] /\ s1up \in [Cells -> Seq(S1Up)]
    BY DEF IInv, TypeOK
  <2>3. t \in Timers /\ "connectionRequest" \in Timers
        /\ TimerState[t] \in {"CONNECTION_SETUP", "CONNECTION_REJECTED"}
    BY DEF Timers, TimerState
  <2>4. w \in Context /\ w.st \in {"CONNECTION_SETUP", "CONNECTION_REJECTED"}
    <3> HIDE DEF t
    <3> QED BY <2>2, <2>3, StoppedType, WaitsType
  <2>5. ctx' = [ctx EXCEPT ![k] = w] /\ UNCHANGED <<ue, lastRnti>>
    BY <2>1, <2>2
  <2>6. ctx' \in [Ids -> Context] /\ SourceKnown' /\ Fresh' /\ UeHasRnti'
    <3> HIDE DEF w
    <3> QED BY <1>2, <2>4, <2>5, ContextKeeps DEF Exists
  <2>7. dl' \in [Ids -> Seq(RrcDown)]
    BY <2>1, <2>2, RrcType, SentType
  <2>8. ul' \in [Ids -> Seq(RrcUp)]
    BY <2>1, ArrivedKeeps DEF RecvRrcConnectionRequest
  <2>9. EnbCell(k) \in Cells /\ Rnti(k) \in Rntis
    BY IdParts
  <2>10. enbApp' \in [Cells -> EnbApp]
    BY <2>1, <2>2, <2>9, InitialUeRegisteredType
  <2>11. S1UpMsg("INITIAL_UE", 0) \in S1Up
    BY DEF S1UpMsg, S1Up
  <2>12. s1up' \in [Cells -> Seq(S1Up)]
    BY <2>1, <2>2, <2>9, <2>11, SentType
  <2> QED
    BY <2>1, <2>6, <2>7, <2>8, <2>10, <2>12 DEF IInv, TypeOK
<1> QED
  BY <1>1, <1>2

\* RecvRrcConnectionSetupCompleted.
LEMMA SetupCompletedKeeps ==
  ASSUME IInv, NEW k \in Ids, RecvRrcConnectionSetupCompleted(k)
  PROVE  IInv'
<1>1. CASE ctx[k].st # "CONNECTION_SETUP"
  BY <1>1, AbortKeeps DEF RecvRrcConnectionSetupCompleted
<1>2. CASE ctx[k].st = "CONNECTION_SETUP"
  <2> DEFINE c == Stopped(ctx[k], "connectionSetup")
  <2>1. /\ ctx' = [ctx EXCEPT ![k] = Connected(c)]
        /\ dl' = ConnectedDl(dl, k, c) /\ ul' = Taken(ul, k)
        /\ UNCHANGED <<ue, lastRnti, removals, x2, x2u, s1up, s1down, enbApp,
                       epc, asked, fault>>
    BY <1>2 DEF RecvRrcConnectionSetupCompleted
  <2>2. ctx \in [Ids -> Context] /\ dl \in [Ids -> Seq(RrcDown)]
    BY DEF IInv, TypeOK
  <2>3. c \in Context
    BY <2>2, StoppedType DEF Timers
  <2>4. /\ Connected(c) \in Context
        /\ Connected(c).st \in {"CONNECTED_NORMALLY", "CONNECTION_RECONFIGURATION"}
    BY <2>3, ConnectedType
  <2>5. ctx' \in [Ids -> Context] /\ SourceKnown' /\ Fresh' /\ UeHasRnti'
    <3> HIDE DEF c
    <3> QED BY <1>2, <2>1, <2>4, ContextKeeps DEF Exists
  <2>6. dl' \in [Ids -> Seq(RrcDown)] /\ ul' \in [Ids -> Seq(RrcUp)]
    BY <2>1, <2>2, ConnectedDlType, ArrivedKeeps DEF RecvRrcConnectionSetupCompleted
  <2> QED
    BY <2>1, <2>5, <2>6 DEF IInv, TypeOK
<1> QED
  BY <1>1, <1>2

\* ScheduleRrcConnectionReconfiguration, sent at once or left pending.
LEMMA ScheduleReconfigurationKeeps ==
  ASSUME IInv, NEW k \in Ids, ScheduleRrcConnectionReconfiguration(k)
  PROVE  IInv'
<1>1. CASE ~Schedulable(ctx[k])
  BY <1>1, AbortKeeps DEF ScheduleRrcConnectionReconfiguration
<1>2. CASE Schedulable(ctx[k])
  <2> DEFINE c == [ctx[k] EXCEPT !.pend = TRUE]
             d == IF SendsNow(c) THEN Connected(c) ELSE c
  <2>1. /\ ctx' = [ctx EXCEPT ![k] = d]
        /\ dl' = IF SendsNow(c) THEN ConnectedDl(dl, k, c) ELSE dl
        /\ asked' = [asked EXCEPT !.reconfs = @ + 1]
        /\ UNCHANGED <<ue, lastRnti, removals, ul, x2, x2u, s1up, s1down,
                       enbApp, epc, fault>>
    BY <1>2 DEF ScheduleRrcConnectionReconfiguration
  <2>2. /\ ctx \in [Ids -> Context] /\ dl \in [Ids -> Seq(RrcDown)]
        /\ asked \in [handovers : Nat, reconfs : Nat, releases : Nat]
    BY DEF IInv, TypeOK
  <2>3. /\ c \in Context /\ c.st = ctx[k].st /\ c.source = ctx[k].source
        /\ c.sourceRnti = ctx[k].sourceRnti
    BY ZenonT(40), <2>2 DEF Context
  <2>4. /\ d \in Context /\ Exists(k)
        /\ \/ d = c
           \/ d.st \in {"CONNECTED_NORMALLY", "CONNECTION_RECONFIGURATION"}
    BY <1>2, <2>3, ConnectedType DEF Schedulable, SendsNow, Waiting, Exists
  <2>5. ctx' \in [Ids -> Context] /\ SourceKnown' /\ Fresh' /\ UeHasRnti'
    <3> HIDE DEF c, d
    <3> QED BY <2>1, <2>3, <2>4, ContextKeeps
  <2>6. dl' \in [Ids -> Seq(RrcDown)]
    BY <2>1, <2>2, ConnectedDlType
  <2>7. asked' \in [handovers : Nat, reconfs : Nat, releases : Nat]
    BY <2>1, AskedType
  <2> QED
    BY <2>1, <2>5, <2>6, <2>7 DEF IInv, TypeOK
<1> QED
  BY <1>1, <1>2

\* ReleaseDataRadioBearer.
LEMMA ReleaseBearerKeeps ==
  ASSUME IInv, NEW k \in Ids, ReleaseDataRadioBearer(k)
  PROVE  IInv'
<1>1. PICK b \in ctx[k].drbs \ {1} :
        /\ ctx' = [ctx EXCEPT ![k].drbs = @ \ {b}]
        /\ s1up' = Sent(s1up, EnbCell(k), S1UpMsg("ERAB_RELEASE", b))
  BY DEF ReleaseDataRadioBearer
<1>2. /\ dl' = Sent(dl, k, Rrc("RECONF"))
      /\ asked' = [asked EXCEPT !.releases = @ + 1]
      /\ UNCHANGED <<ue, lastRnti, removals, ul, x2, x2u, s1down, enbApp, epc,
                     fault>>
      /\ ctx[k].st \in EnbStates
  BY RequestsAssumption DEF ReleaseDataRadioBearer
<1>3. /\ ctx \in [Ids -> Context] /\ dl \in [Ids -> Seq(RrcDown)]
      /\ asked \in [handovers : Nat, reconfs : Nat, releases : Nat]
      /\ s1up \in [Cells -> Seq(S1Up)]
  BY DEF IInv, TypeOK
<1> DEFINE c == [ctx[k] EXCEPT !.drbs = @ \ {b}]
<1>4. /\ c \in Context /\ c.st = ctx[k].st /\ c.source = ctx[k].source
      /\ c.sourceRnti = ctx[k].sourceRnti
  <2>1. /\ ctx[k] \in Context /\ c = [ctx[k] EXCEPT !.drbs = ctx[k].drbs \ {b}]
        /\ ctx[k].drbs \subseteq Bearers
    BY <1>3 DEF Context
  <2>2. ctx[k].drbs \ {b} \in SUBSET Bearers
    BY <2>1
  <2> HIDE DEF c
  <2> QED
    BY <2>1, <2>2 DEF Context
<1>5. ctx' = [ctx EXCEPT ![k] = c] /\ Exists(k)
  BY <1>1, <1>2, <1>3 DEF Exists, EnbStates
<1>6. ctx' \in [Ids -> Context] /\ SourceKnown' /\ Fresh' /\ UeHasRnti'
  <2> HIDE DEF c
  <2> QED BY <1>2, <1>4, <1>5, ContextKeeps
<1>7. dl' \in [Ids -> Seq(RrcDown)]
  BY <1>2, <1>3, RrcType, SentType
<1>8. b \in Bearers
  BY <1>3 DEF Context
<1>9. S1UpMsg("ERAB_RELEASE", b) \in S1Up
  BY <1>8 DEF S1UpMsg, S1Up
<1>10. s1up' \in [Cells -> Seq(S1Up)]
  BY <1>1, <1>3, <1>9, IdParts, SentType
<1>11. asked' \in [handovers : Nat, reconfs : Nat, releases : Nat]
  BY <1>2, AskedType
<1> QED
  BY <1>2, <1>6, <1>7, <1>10, <1>11 DEF IInv, TypeOK

\* INITIAL CONTEXT SETUP REQUEST at the eNB.
LEMMA ContextSetupKeeps ==
  ASSUME IInv, NEW a \in Cells, RecvContextSetup(a)
  PROVE  IInv'
<1> DEFINE m == Head(s1down[a])
           k == <<a, enbApp[a].rnti>>
           set == [ctx[k] EXCEPT !.drbs = m.bearers, !.teid = m.teid, !.pend = TRUE]
           done == IF SendsNow(set)
                   THEN [Connected(set) EXCEPT !.pend = Cardinality(m.bearers) > 1]
                   ELSE set
           mismatch == ctx[k].drbs # {} \/ m.bearers # 1..Cardinality(m.bearers)
<1>1. CASE enbApp[a].rnti = 0 \/ ~Exists(k)
  BY <1>1, AbortKeeps DEF RecvContextSetup, UeManagerNotFound
<1>2. CASE ~(enbApp[a].rnti = 0 \/ ~Exists(k)) /\ mismatch
  BY <1>2, AbortKeeps DEF RecvContextSetup
<1>3. CASE ~(enbApp[a].rnti = 0 \/ ~Exists(k)) /\ ~mismatch /\ ~Schedulable(ctx[k])
  BY <1>3, AbortKeeps DEF RecvContextSetup
<1>4. CASE ~(enbApp[a].rnti = 0 \/ ~Exists(k)) /\ ~mismatch /\ Schedulable(ctx[k])
  <2>1. /\ ctx' = [ctx EXCEPT ![k] = done]
        /\ dl' = IF SendsNow(set) THEN ConnectedDl(dl, k, set) ELSE dl
        /\ enbApp' = [enbApp EXCEPT ![a] = Routed(@, Rnti(k), m.teid)]
        /\ s1down' = Taken(s1down, a)
        /\ UNCHANGED <<ue, lastRnti, removals, ul, x2, x2u, s1up, epc, asked,
                       fault>>
    BY <1>4 DEF RecvContextSetup
  <2>2. /\ ctx \in [Ids -> Context] /\ dl \in [Ids -> Seq(RrcDown)]
        /\ enbApp \in [Cells -> EnbApp] /\ s1down \in [Cells -> Seq(S1Down)]
        /\ s1down[a] # <<>>
    BY DEF IInv, TypeOK, RecvContextSetup, Pending
  <2>3. enbApp[a].rnti \in Rntis
    BY <1>4, <2>2 DEF EnbApp
  <2>4. k \in Ids /\ Rnti(k) \in Rntis /\ Exists(k)
    BY <1>4, <2>3, IdParts
  <2>5. m.bearers \in SUBSET Bearers /\ m.teid \in Teids \union {0}
    <3>1. m \in S1Down
      BY <2>2, HeadType
    <3> QED
      BY <3>1 DEF S1Down
  <2>6. /\ set \in Context /\ set.st = ctx[k].st /\ set.source = ctx[k].source
        /\ set.sourceRnti = ctx[k].sourceRnti
    <3> HIDE DEF m, k
    <3> QED BY ZenonT(40), <2>2, <2>4, <2>5 DEF Context
  <2>7. /\ done \in Context
        /\ \/ done = set
           \/ done.st \in {"CONNECTED_NORMALLY", "CONNECTION_RECONFIGURATION"}
    <3> HIDE DEF set
    <3>1. /\ Connected(set) \in Context
          /\ Connected(set).st \in {"CONNECTED_NORMALLY", "CONNECTION_RECONFIGURATION"}
      BY <2>6, ConnectedType
    <3> DEFINE more == Cardinality(m.bearers) > 1
               e == Connected(set)
    <3>2. more \in BOOLEAN
      OBVIOUS
    <3>3. [e EXCEPT !.pend = more] \in Context /\ [e EXCEPT !.pend = more].st = e.st
      <4> HIDE DEF e, more
      <4>1. e \in Context
        BY <3>1 DEF e
      <4> QED BY <3>2, <4>1 DEF Context
    <3>4. done = IF SendsNow(set) THEN [e EXCEPT !.pend = more] ELSE set
      OBVIOUS
    <3> HIDE DEF done, e, more
    <3>5. e.st \in {"CONNECTED_NORMALLY", "CONNECTION_RECONFIGURATION"}
      BY <3>1 DEF e
    <3> QED
      BY <2>6, <3>3, <3>4, <3>5
  <2>8. ctx' \in [Ids -> Context] /\ SourceKnown' /\ Fresh' /\ UeHasRnti'
    <3> HIDE DEF k, set, done
    <3> QED BY <2>1, <2>4, <2>6, <2>7, ContextKeeps
  <2>9. dl' \in [Ids -> Seq(RrcDown)]
    BY <2>1, <2>2, <2>4, ConnectedDlType
  <2>10. enbApp' \in [Cells -> EnbApp]
    <3> HIDE DEF m, k
    <3> QED BY <2>1, <2>2, <2>4, <2>5, RoutedType
  <2>11. s1down' \in [Cells -> Seq(S1Down)]
    BY <2>1, <2>2, TakenType
  <2> QED
    BY <2>1, <2>8, <2>9, <2>10, <2>11 DEF IInv, TypeOK
<1> QED
  BY <1>1, <1>2, <1>3, <1>4

-----------------------------------------------------------------------------
(* The X2 handover at the eNB.                                             *)

\* What a message that has been received may hold, and what the queue is
\* without it or with an answer to it.
LEMMA X2TakenType ==
  ASSUME IInv, NEW i \in DOMAIN x2
  PROVE  /\ x2[i] \in X2Msg
         /\ x2[i].from \in Cells /\ x2[i].to \in Cells /\ x2[i].old \in Rntis
         /\ x2[i].drbs \in SUBSET Bearers /\ x2[i].teid \in Teids \union {0}
         /\ x2[i].type \in {"HO_ACK", "SN_STATUS", "CTX_RELEASE"} => x2[i].new \in Rntis
         /\ X2Taken(i) \in Seq(X2Msg)
         /\ \A r \in X2Msg : X2Answered(i, r) \in Seq(X2Msg)
<1>1. x2 \in Seq(X2Msg)
  BY DEF IInv, TypeOK
<1>2. x2[i] \in X2Msg
  BY <1>1
<1>3. X2Taken(i) \in Seq(X2Msg)
  BY <1>1, RemoveAtType DEF X2Taken
<1>4. \A r \in X2Msg : X2Answered(i, r) \in Seq(X2Msg)
  BY <1>3 DEF X2Answered
<1> QED
  BY <1>2, <1>3, <1>4 DEF X2Msg

\* The X2 HANDOVER REQUEST of a context.
LEMMA HandoverRequestType ==
  ASSUME NEW k \in Ids, NEW c \in Context, NEW t \in Cells
  PROVE  HandoverRequest(k, c, t) \in X2Msg
<1>1. c.drbs \in SUBSET Bearers /\ c.teid \in Teids \union {0}
  BY DEF Context
<1> QED
  BY <1>1, IdParts DEF HandoverRequest, X2, X2Msg

\* The context that has sent it.
LEMMA HandoverPreparedType ==
  ASSUME NEW c \in Context, NEW t \in Cells
  PROVE  /\ HandoverPrepared(c, t) \in Context
         /\ HandoverPrepared(c, t).st = "HANDOVER_PREPARATION"
BY DEF HandoverPrepared, Context, EnbStates

\* SendHandoverRequest: the request goes out or is queued.
LEMMA SendHandoverRequestKeeps ==
  ASSUME IInv, NEW k \in Ids, SendHandoverRequest(k)
  PROVE  IInv'
<1>1. /\ ctx \in [Ids -> Context] /\ ctx[k] \in Context /\ x2 \in Seq(X2Msg)
  BY DEF IInv, TypeOK
<1>2. PICK t \in Cells \ {EnbCell(k)} :
       CASE ctx[k].st = "CONNECTED_NORMALLY" ->
              /\ ctx' = [ctx EXCEPT ![k] = HandoverPrepared(@, t)]
              /\ x2' = Append(x2, HandoverRequest(k, ctx[k], t))
              /\ asked' = [asked EXCEPT !.handovers = @ + 1]
              /\ UNCHANGED <<ue, lastRnti, removals, dl, ul, x2u, s1up, s1down,
                             enbApp, epc, fault>>
         [] ctx[k].st \in {"CONNECTION_RECONFIGURATION", "HANDOVER_JOINING"} ->
              /\ ctx' = [ctx EXCEPT ![k].queued = t]
              /\ asked' = [asked EXCEPT !.handovers = @ + 1]
              /\ UNCHANGED <<ue, lastRnti, removals, dl, ul, x2, x2u, s1up,
                             s1down, enbApp, epc, fault>>
         [] OTHER -> Abort("PrepareHandover in unexpected state")
  BY DEF SendHandoverRequest
<1>3. CASE ctx[k].st = "CONNECTED_NORMALLY"
  <2>1. /\ ctx' = [ctx EXCEPT ![k] = HandoverPrepared(ctx[k], t)]
        /\ x2' = Append(x2, HandoverRequest(k, ctx[k], t))
        /\ asked' = [asked EXCEPT !.handovers = @ + 1]
        /\ UNCHANGED <<ue, lastRnti, removals, dl, ul, x2u, s1up, s1down,
                       enbApp, epc, fault>>
    BY <1>1, <1>2, <1>3
  <2>2. ctx' \in [Ids -> Context] /\ SourceKnown' /\ Fresh' /\ UeHasRnti'
    BY <1>1, <1>3, <2>1, HandoverPreparedType, ContextKeeps DEF Exists
  <2>3. x2' \in Seq(X2Msg)
    BY <1>1, <2>1, HandoverRequestType
  <2> QED
    BY <2>1, <2>2, <2>3, AskedType DEF IInv, TypeOK
<1>4. CASE ctx[k].st \in {"CONNECTION_RECONFIGURATION", "HANDOVER_JOINING"}
  <2> DEFINE c == [ctx[k] EXCEPT !.queued = t]
  <2>1. /\ ctx' = [ctx EXCEPT ![k] = c]
        /\ asked' = [asked EXCEPT !.handovers = @ + 1]
        /\ UNCHANGED <<ue, lastRnti, removals, dl, ul, x2, x2u, s1up,
                       s1down, enbApp, epc, fault>>
    BY <1>1, <1>2, <1>4
  <2>2. /\ c \in Context /\ c.st = ctx[k].st /\ c.source = ctx[k].source
        /\ c.sourceRnti = ctx[k].sourceRnti
    BY <1>1 DEF Context
  <2>3. ctx' \in [Ids -> Context] /\ SourceKnown' /\ Fresh' /\ UeHasRnti'
    <3> HIDE DEF c
    <3> QED BY <1>4, <2>1, <2>2, ContextKeeps DEF Exists
  <2> QED
    BY <2>1, <2>3, AskedType DEF IInv, TypeOK
<1>5. CASE ctx[k].st \notin {"CONNECTED_NORMALLY", "CONNECTION_RECONFIGURATION",
                             "HANDOVER_JOINING"}
  BY <1>2, <1>5, AbortKeeps
<1> QED
  BY <1>3, <1>4, <1>5

\* DoRecvHandoverRequestAck.
LEMMA HandoverRequestAckKeeps ==
  ASSUME IInv, NEW i \in DOMAIN x2, RecvHandoverRequestAck(i)
  PROVE  IInv'
<1> DEFINE m == x2[i]
           k == <<m.to, m.old>>
<1>1. CASE ~Exists(k)
  BY <1>1, AbortKeeps DEF RecvHandoverRequestAck, UeManagerNotFound
<1>2. CASE Exists(k) /\ Cardinality(m.drbs) # Cardinality(ctx[k].drbs)
  BY <1>2, AbortKeeps DEF RecvHandoverRequestAck
<1>3. CASE Exists(k) /\ Cardinality(m.drbs) = Cardinality(ctx[k].drbs)
  <2>1. /\ ctx' = [ctx EXCEPT ![k] = HandoverLeft(@)]
        /\ dl' = Sent(dl, k, HoCommand(m.from, m.new))
        /\ x2' = X2Answered(i, X2("SN_STATUS", m.to, m.from, m.old, m.new, {}, 0))
        /\ UNCHANGED <<ue, lastRnti, removals, ul, x2u, s1up, s1down, enbApp, epc,
                       asked, fault>>
    BY <1>3 DEF RecvHandoverRequestAck
  <2>2. /\ m.from \in Cells /\ m.to \in Cells /\ m.old \in Rntis /\ m.new \in Rntis
        /\ k \in Ids
    BY X2TakenType, IdParts DEF RecvHandoverRequestAck
  <2>3. ctx \in [Ids -> Context] /\ ctx[k] \in Context /\ dl \in [Ids -> Seq(RrcDown)]
    BY <2>2 DEF IInv, TypeOK
  <2> HIDE DEF m, k
  <2>4. HandoverLeft(ctx[k]) \in Context /\ HandoverLeft(ctx[k]).st = "HANDOVER_LEAVING"
    BY <2>3 DEF HandoverLeft, Context, EnbStates, Timers
  <2>5. ctx' = [ctx EXCEPT ![k] = HandoverLeft(ctx[k])] /\ UNCHANGED <<ue, lastRnti>>
    BY <2>1, <2>2, <2>3
  <2>6. ctx' \in [Ids -> Context] /\ SourceKnown' /\ Fresh' /\ UeHasRnti'
    BY <1>3, <2>2, <2>4, <2>5, ContextKeeps
  <2>7. dl' \in [Ids -> Seq(RrcDown)]
    BY <2>1, <2>2, <2>3, SentType, HoCommandType
  <2>8. x2' \in Seq(X2Msg)
    BY <2>1, <2>2, X2Type, X2TakenType
  <2> QED
    BY <2>1, <2>6, <2>7, <2>8 DEF IInv, TypeOK
<1> QED
  BY <1>1, <1>2, <1>3

\* DoRecvHandoverPreparationFailure.
LEMMA PreparationFailureKeeps ==
  ASSUME IInv, NEW i \in DOMAIN x2, RecvHandoverPreparationFailure(i)
  PROVE  IInv'
<1> DEFINE k == <<x2[i].to, x2[i].old>>
           c == ctx[k]
           unexpected == \/ c.st \notin {"HANDOVER_PREPARATION", "HANDOVER_LEAVING"}
                         \/ c.target # x2[i].from
           back == c.st = "HANDOVER_PREPARATION"
           d == IF back THEN Connected(c) ELSE c
<1>1. CASE unexpected
  BY <1>1, AbortKeeps DEF RecvHandoverPreparationFailure
<1>2. CASE ~unexpected
  <2>1. /\ ctx' = [ctx EXCEPT ![k] = d]
        /\ dl' = IF back THEN ConnectedDl(dl, k, c) ELSE dl
        /\ x2' = X2Taken(i)
        /\ UNCHANGED <<ue, lastRnti, removals, ul, x2u, s1up, s1down, enbApp, epc,
                       asked, fault>>
    BY <1>2 DEF RecvHandoverPreparationFailure
  <2>2. k \in Ids
    BY X2TakenType, IdParts
  <2>3. c \in Context /\ dl \in [Ids -> Seq(RrcDown)] /\ Exists(k)
    BY <1>2, <2>2 DEF IInv, TypeOK, Exists
  <2> HIDE DEF k
  <2>4. /\ d \in Context
        /\ \/ d = c
           \/ d.st \in {"CONNECTED_NORMALLY", "CONNECTION_RECONFIGURATION"}
    BY <2>3, ConnectedType
  <2>5. ctx' \in [Ids -> Context] /\ SourceKnown' /\ Fresh' /\ UeHasRnti'
    <3> HIDE DEF d
    <3> QED BY <2>1, <2>2, <2>3, <2>4, ContextKeeps
  <2>6. dl' \in [Ids -> Seq(RrcDown)]
    BY <2>1, <2>2, <2>3, ConnectedDlType
  <2>7. x2' \in Seq(X2Msg)
    BY <2>1, X2TakenType
  <2> QED
    BY <2>1, <2>5, <2>6, <2>7 DEF IInv, TypeOK
<1> QED
  BY <1>1, <1>2

\* DoRecvSnStatusTransfer.
LEMMA SnStatusKeeps ==
  ASSUME IInv, NEW i \in DOMAIN x2, RecvSnStatusTransfer(i)
  PROVE  IInv'
<1>1. CASE ~Exists(<<x2[i].to, x2[i].new>>)
  BY <1>1, AbortKeeps DEF RecvSnStatusTransfer, UeManagerNotFound
<1>2. CASE Exists(<<x2[i].to, x2[i].new>>)
  <2>1. x2' \in Seq(X2Msg)
    BY <1>2, X2TakenType DEF RecvSnStatusTransfer
  <2> QED
    BY <1>2, <2>1
    DEF RecvSnStatusTransfer, IInv, TypeOK, SourceKnown, Fresh, Exists, UeHasRnti
<1> QED
  BY <1>1, <1>2

\* DoRecvUeContextRelease.
LEMMA UeContextReleaseKeeps ==
  ASSUME IInv, NEW i \in DOMAIN x2, RecvUeContextRelease(i)
  PROVE  IInv'
<1> DEFINE k == <<x2[i].to, x2[i].old>>
<1>1. CASE ctx[k].st # "HANDOVER_LEAVING"
  BY <1>1, AbortKeeps DEF RecvUeContextRelease
<1>2. CASE ctx[k].st = "HANDOVER_LEAVING"
  <2>1. /\ RemoveUe(k, Stopped(ctx[k], "handoverLeaving")) /\ x2' = X2Taken(i)
        /\ UNCHANGED <<ue, lastRnti, removals, s1up, s1down, epc, asked, fault>>
    BY <1>2 DEF RecvUeContextRelease
  <2>2. k \in Ids
    BY X2TakenType, IdParts
  <2>3. ctx[k] \in Context /\ removals \subseteq Ids
    BY <2>2 DEF IInv, TypeOK
  <2> HIDE DEF k
  <2>4. Stopped(ctx[k], "handoverLeaving") \in Context
    BY <2>3, StoppedType DEF Timers
  <2>5. x2' \in Seq(X2Msg)
    BY <2>1, X2TakenType
  <2> QED
    BY <2>1, <2>2, <2>3, <2>4, <2>5, RemovalKeeps
<1> QED
  BY <1>1, <1>2

\* The context that the target cell creates for an admitted handover.
LEMMA JoiningType ==
  ASSUME NEW a \in Cells, NEW old \in Rntis, NEW drbs \in SUBSET Bearers,
         NEW g \in Teids \union {0}, NEW p \in BOOLEAN
  PROVE  LET c == [NewContext("handoverJoining") EXCEPT
                     !.source = a, !.sourceRnti = old, !.drbs = drbs,
                     !.teid = g, !.pend = p]
         IN c \in Context /\ c.source # 0 /\ c.sourceRnti # 0
<1>1. NewContext("handoverJoining") \in Context
  BY NewContextType DEF Timers
<1> QED
  BY <1>1, NotZero DEF Context

\* DoRecvHandoverRequest: rejected, dropped for want of a preamble, or admitted.
LEMMA HandoverRequestKeeps ==
  ASSUME IInv, NEW i \in DOMAIN x2, RecvHandoverRequest(i)
  PROVE  IInv'
<1> DEFINE m == x2[i]
           b == m.to
           n == NextRnti(b)
           k == <<b, n>>
           p == m.drbs # {}
           new == [NewContext("handoverJoining") EXCEPT
                     !.source = m.from, !.sourceRnti = m.old, !.drbs = m.drbs,
                     !.teid = m.teid, !.pend = p]
           conflict == m.drbs # {} /\ x2u[b][m.teid] # 0
           Rejected ==
             /\ x2' = X2Answered(i, X2("HO_FAILURE", m.to, m.from, m.old, 0, {}, 0))
             /\ UNCHANGED <<ue, ctx, lastRnti, removals, dl, ul, x2u, s1up,
                            s1down, enbApp, epc, asked, fault>>
           Dropped ==
             /\ RemoveUe(k, NewContext("handoverJoining"))
             /\ lastRnti' = [lastRnti EXCEPT ![b] = n]
             /\ x2' = X2Taken(i)
             /\ UNCHANGED <<ue, removals, s1up, s1down, epc, asked, fault>>
           Accepted ==
             /\ ctx' = [ctx EXCEPT ![k] = new]
             /\ lastRnti' = [lastRnti EXCEPT ![b] = n]
             /\ x2u' = IF m.drbs = {} THEN x2u ELSE [x2u EXCEPT ![b][m.teid] = n]
             /\ x2' = X2Answered(i, X2("HO_ACK", m.to, m.from, m.old, n, m.drbs, m.teid))
             /\ UNCHANGED <<ue, removals, dl, ul, s1up, s1down, enbApp, epc,
                            asked, fault>>
<1>1. Rejected \/ Dropped \/ Accepted \/ \E w : Abort(w)
  <2>1. PICK admit \in Admission, preamble \in Preambles :
          CASE ~admit -> Rejected
            [] admit /\ ~preamble -> Dropped
            [] admit /\ preamble ->
                 IF m.drbs # 1..Cardinality(m.drbs)
                 THEN Abort("bearer ID mismatch")
                 ELSE IF conflict
                 THEN Abort("overwriting a pre-existing entry in m_x2uTeidInfoMap")
                 ELSE Accepted
    BY DEF RecvHandoverRequest
  <2> HIDE DEF Rejected, Dropped, Accepted, conflict, m
  <2>2. admit \in BOOLEAN /\ preamble \in BOOLEAN
    BY ChoicesAssumption
  <2>3. CASE ~admit
    BY <2>1, <2>3
  <2>4. CASE admit /\ ~preamble
    BY <2>1, <2>4
  <2>5. CASE admit /\ preamble
    <3>1. CASE m.drbs # 1..Cardinality(m.drbs)
      BY <2>1, <2>5, <3>1
    <3>2. CASE m.drbs = 1..Cardinality(m.drbs) /\ conflict
      BY <2>1, <2>5, <3>2
    <3>3. CASE m.drbs = 1..Cardinality(m.drbs) /\ ~conflict
      BY <2>1, <2>5, <3>3
    <3> QED
      BY <3>1, <3>2, <3>3
  <2> QED
    BY <2>2, <2>3, <2>4, <2>5
<1>2. /\ m.from \in Cells /\ b \in Cells /\ m.old \in Rntis /\ CanAddUe(b)
      /\ m.drbs \in SUBSET Bearers /\ m.teid \in Teids \union {0}
  BY X2TakenType DEF RecvHandoverRequest
<1>3. /\ ctx \in [Ids -> Context] /\ "handoverJoining" \in Timers
      /\ x2u \in [Cells -> [Teids -> Rntis \union {0}]]
      /\ lastRnti \in [Cells -> 0..MaxRnti] /\ removals \subseteq Ids
  BY DEF IInv, TypeOK, Timers
<1>4. n \in Rntis /\ k \in Ids
  <2>1. n \in Rntis
    BY <1>2, <1>3, BoundsAssumption DEF NextRnti, CanAddUe, Rntis
  <2> QED
    BY <1>2, <2>1, IdParts
<1>5. CASE Rejected
  <2>1. X2("HO_FAILURE", m.to, m.from, m.old, 0, {}, 0) \in X2Msg
    BY <1>2, X2Type
  <2>2. x2' \in Seq(X2Msg)
    BY <1>5, <2>1, X2TakenType
  <2> QED
    BY <1>5, <2>2 DEF IInv, TypeOK, SourceKnown, Fresh, Exists, UeHasRnti
<1>6. CASE Dropped
  <2> DEFINE c == NewContext("handoverJoining")
  <2>1. c \in Context
    BY <1>3, NewContextType
  <2>2. /\ dl' \in [Ids -> Seq(RrcDown)] /\ ul' \in [Ids -> Seq(RrcUp)]
        /\ x2u' \in [Cells -> [Teids -> Rntis \union {0}]]
        /\ enbApp' \in [Cells -> EnbApp]
    <3> HIDE DEF c, k
    <3> QED BY <1>4, <1>6, <2>1, RemoveUeType DEF c
  <2>3. Erased(c) \in Context /\ Erased(c).st = "NONE"
    BY <2>1, ErasedType
  <2>4. ctx' = [ctx EXCEPT ![<<b, NextRnti(b)>>] = Erased(c)]
        /\ lastRnti' = [lastRnti EXCEPT ![b] = NextRnti(b)]
    BY <1>6 DEF RemoveUe
  <2>5. /\ ctx' \in [Ids -> Context] /\ SourceKnown' /\ Fresh'
        /\ lastRnti' \in [Cells -> 0..MaxRnti]
    <3> HIDE DEF c, b
    <3> QED BY <1>2, <2>3, <2>4, AddUeKeeps
  <2>6. x2' \in Seq(X2Msg)
    BY <1>6, X2TakenType
  <2> QED
    BY <1>6, <2>2, <2>5, <2>6 DEF IInv, TypeOK, UeHasRnti
<1>7. CASE Accepted
  <2>1. new \in Context /\ new.source # 0 /\ new.sourceRnti # 0
    <3> HIDE DEF m
    <3>1. p \in BOOLEAN
      OBVIOUS
    <3>2. /\ m.from \in Cells /\ m.old \in Rntis
          /\ m.drbs \in SUBSET Bearers /\ m.teid \in Teids \union {0}
      BY <1>2
    <3> HIDE DEF p, b, n, k, conflict, Rejected, Dropped, Accepted
    <3> QED BY <3>1, <3>2, JoiningType, ZenonT(60)
  <2>2. ctx' = [ctx EXCEPT ![<<b, NextRnti(b)>>] = new]
        /\ lastRnti' = [lastRnti EXCEPT ![b] = NextRnti(b)]
    BY <1>7
  <2>3. /\ ctx' \in [Ids -> Context] /\ SourceKnown' /\ Fresh'
        /\ lastRnti' \in [Cells -> 0..MaxRnti]
    <3> HIDE DEF new, b
    <3> QED BY <1>2, <2>1, <2>2, AddUeKeeps
  <2>4. x2u' \in [Cells -> [Teids -> Rntis \union {0}]]
    <3> HIDE DEF m, n
    <3> QED BY <1>2, <1>3, <1>4, <1>7
  <2>5. X2("HO_ACK", m.to, m.from, m.old, n, m.drbs, m.teid) \in X2Msg
    BY <1>2, <1>4, X2Type
  <2>6. x2' \in Seq(X2Msg)
    BY <1>7, <2>5, X2TakenType
  <2> QED
    BY <1>7, <2>3, <2>4, <2>6 DEF IInv, TypeOK, UeHasRnti
<1>8. CASE \E w : Abort(w)
  BY <1>8, AbortKeeps
<1> QED
  BY <1>1, <1>5, <1>6, <1>7, <1>8

\* A reconfiguration completes, and a queued handover may start.
LEMMA ReconfiguredKeeps ==
  ASSUME IInv, NEW k \in Ids, ctx[k].st = "CONNECTION_RECONFIGURATION",
         Reconfigured(k), ul' = Taken(ul, k), Arrived(k, "RECONF_COMPLETE"),
         UNCHANGED <<ue, lastRnti, removals, x2u, s1down, epc, asked, fault>>
  PROVE  IInv'
<1> DEFINE c    == Connected(ctx[k])
           next == c.queued # 0 /\ c.st = "CONNECTED_NORMALLY"
           d    == IF next THEN HandoverPrepared(c, c.queued) ELSE c
<1>1. /\ ctx' = [ctx EXCEPT ![k] = d]
      /\ dl' = ConnectedDl(dl, k, ctx[k])
      /\ x2' = IF next THEN Append(x2, HandoverRequest(k, c, c.queued)) ELSE x2
      /\ UNCHANGED <<s1up, enbApp>>
  BY DEF Reconfigured
<1>2. /\ ctx[k] \in Context /\ dl \in [Ids -> Seq(RrcDown)] /\ x2 \in Seq(X2Msg)
  BY DEF IInv, TypeOK
<1>3. c \in Context /\ c.st \in {"CONNECTED_NORMALLY", "CONNECTION_RECONFIGURATION"}
  BY <1>2, ConnectedType
<1>4. next => c.queued \in Cells
  BY <1>3 DEF Context
<1>5. d \in Context /\ d.st \in {"CONNECTED_NORMALLY", "CONNECTION_RECONFIGURATION",
                                 "HANDOVER_PREPARATION"}
  <2> HIDE DEF c
  <2> QED BY <1>3, <1>4, HandoverPreparedType
<1>6. ctx' \in [Ids -> Context] /\ SourceKnown' /\ Fresh' /\ UeHasRnti'
  <2> HIDE DEF d
  <2> QED BY <1>1, <1>5, ContextKeeps DEF Exists
<1>7. dl' \in [Ids -> Seq(RrcDown)] /\ ul' \in [Ids -> Seq(RrcUp)]
  BY <1>1, <1>2, ConnectedDlType, ArrivedKeeps
<1>8. x2' \in Seq(X2Msg)
  <2> HIDE DEF c
  <2> QED BY <1>1, <1>2, <1>3, <1>4, HandoverRequestType
<1> QED
  BY <1>1, <1>6, <1>7, <1>8 DEF IInv, TypeOK

\* The UE joins the target cell, which asks for the path switch.
LEMMA JoinedKeeps ==
  ASSUME IInv, NEW k \in Ids, ctx[k].st = "HANDOVER_JOINING",
         Joined(k), ul' = Taken(ul, k), Arrived(k, "RECONF_COMPLETE"),
         UNCHANGED <<ue, lastRnti, removals, x2u, s1down, epc, asked, fault>>
  PROVE  IInv'
<1> DEFINE s == Stopped(ctx[k], "handoverJoining")
           d == [s EXCEPT !.st = "HANDOVER_PATH_SWITCH"]
<1>1. /\ ctx' = [ctx EXCEPT ![k] = d]
      /\ enbApp' = [enbApp EXCEPT ![EnbCell(k)] =
                      PathSwitched(@, Rnti(k), ctx[k].drbs, ctx[k].teid)]
      /\ s1up' = Sent(s1up, EnbCell(k), S1UpMsg("PATH_SWITCH", 0))
      /\ UNCHANGED <<dl, x2>>
  BY DEF Joined
<1>2. /\ ctx[k] \in Context /\ enbApp \in [Cells -> EnbApp]
      /\ s1up \in [Cells -> Seq(S1Up)] /\ ctx[k].teid \in Teids \union {0}
  BY DEF IInv, TypeOK, Context
<1>3. /\ s \in Context /\ s.source = ctx[k].source /\ s.sourceRnti = ctx[k].sourceRnti
  BY <1>2, StoppedType DEF Timers
<1>4. /\ d \in Context /\ d.source = ctx[k].source /\ d.sourceRnti = ctx[k].sourceRnti
  <2> HIDE DEF s
  <2> QED BY <1>3 DEF Context, EnbStates
<1>5. ctx' \in [Ids -> Context] /\ SourceKnown' /\ Fresh' /\ UeHasRnti'
  <2> HIDE DEF d
  <2> QED BY <1>1, <1>4, ContextKeeps DEF Exists
<1>6. enbApp' \in [Cells -> EnbApp]
  BY <1>1, <1>2, IdParts, PathSwitchedType
<1>7. S1UpMsg("PATH_SWITCH", 0) \in S1Up
  BY DEF S1UpMsg, S1Up
<1>8. s1up' \in [Cells -> Seq(S1Up)]
  BY <1>1, <1>2, <1>7, IdParts, SentType
<1>9. ul' \in [Ids -> Seq(RrcUp)]
  BY ArrivedKeeps
<1> QED
  BY <1>1, <1>5, <1>6, <1>8, <1>9 DEF IInv, TypeOK

\* RecvRrcConnectionReconfigurationCompleted in each state.
LEMMA ReconfigurationCompletedKeeps ==
  ASSUME IInv, NEW k \in Ids, RecvRrcConnectionReconfigurationCompleted(k)
  PROVE  IInv'
<1> DEFINE Expected == ctx[k].st \in {"CONNECTION_RECONFIGURATION", "CONNECTED_NORMALLY",
                                      "HANDOVER_LEAVING", "HANDOVER_JOINING"}
<1>1. CASE ~Expected
  BY <1>1, AbortKeeps DEF RecvRrcConnectionReconfigurationCompleted
<1>2. CASE Expected
  <2>1. /\ Arrived(k, "RECONF_COMPLETE") /\ ul' = Taken(ul, k)
        /\ UNCHANGED <<ue, lastRnti, removals, x2u, s1down, epc, asked, fault>>
    BY <1>2 DEF RecvRrcConnectionReconfigurationCompleted
  <2>2. CASE ctx[k].st = "CONNECTION_RECONFIGURATION"
    <3>1. Reconfigured(k)
      BY <1>2, <2>2 DEF RecvRrcConnectionReconfigurationCompleted
    <3> QED
      BY <2>1, <2>2, <3>1, ReconfiguredKeeps
  <2>3. CASE ctx[k].st = "HANDOVER_JOINING"
    <3>1. Joined(k)
      BY <1>2, <2>3 DEF RecvRrcConnectionReconfigurationCompleted
    <3> QED
      BY <2>1, <2>3, <3>1, JoinedKeeps
  <2>4. CASE ctx[k].st \in {"CONNECTED_NORMALLY", "HANDOVER_LEAVING"}
    <3>1. UNCHANGED <<ctx, dl, x2, s1up, enbApp>>
      BY <1>2, <2>4 DEF RecvRrcConnectionReconfigurationCompleted
    <3>2. ul' \in [Ids -> Seq(RrcUp)]
      BY <2>1, ArrivedKeeps
    <3> QED
      BY <2>1, <3>1, <3>2 DEF IInv, TypeOK, SourceKnown, Fresh, Exists, UeHasRnti
  <2> QED
    BY <1>2, <2>2, <2>3, <2>4
<1> QED
  BY <1>1, <1>2

\* PATH SWITCH REQUEST ACKNOWLEDGE; the source is known, so it can be told.
LEMMA PathSwitchAckKeeps ==
  ASSUME IInv, NEW a \in Cells, RecvPathSwitchAck(a)
  PROVE  IInv'
<1> DEFINE k == <<a, enbApp[a].rnti>>
           c == ctx[k]
<1>1. CASE enbApp[a].rnti = 0 \/ ~Exists(k)
  BY <1>1, AbortKeeps DEF RecvPathSwitchAck, UeManagerNotFound
<1>2. CASE ~(enbApp[a].rnti = 0 \/ ~Exists(k)) /\ c.st # "HANDOVER_PATH_SWITCH"
  BY <1>2, AbortKeeps DEF RecvPathSwitchAck
<1>3. CASE ~(enbApp[a].rnti = 0 \/ ~Exists(k)) /\ c.st = "HANDOVER_PATH_SWITCH"
  <2>1. /\ x2' = Append(x2, X2("CTX_RELEASE", a, c.source, c.sourceRnti, Rnti(k), {}, 0))
        /\ ctx' = [ctx EXCEPT ![k] = Connected(@)]
        /\ dl' = ConnectedDl(dl, k, c)
        /\ s1down' = Taken(s1down, a)
        /\ UNCHANGED <<ue, lastRnti, removals, ul, x2u, s1up, enbApp, epc, asked,
                       fault>>
    BY <1>3 DEF RecvPathSwitchAck
  <2>2. /\ ctx \in [Ids -> Context] /\ dl \in [Ids -> Seq(RrcDown)]
        /\ enbApp \in [Cells -> EnbApp] /\ s1down \in [Cells -> Seq(S1Down)]
        /\ s1down[a] # <<>> /\ x2 \in Seq(X2Msg)
    BY DEF IInv, TypeOK, RecvPathSwitchAck, Pending
  <2>3. enbApp[a].rnti \in Rntis
    BY <1>3, <2>2 DEF EnbApp
  <2>4. k \in Ids /\ Rnti(k) \in Rntis
    BY <2>3, IdParts
  <2> HIDE DEF k
  <2>5. c \in Context /\ c.source \in Cells /\ c.sourceRnti \in Rntis
    BY <1>3, <2>2, <2>4 DEF Context, IInv, SourceKnown
  <2>6. /\ Connected(c) \in Context
        /\ Connected(c).st \in {"CONNECTED_NORMALLY", "CONNECTION_RECONFIGURATION"}
    BY <2>5, ConnectedType
  <2>7. ctx' \in [Ids -> Context] /\ SourceKnown' /\ Fresh' /\ UeHasRnti'
    <3>1. ctx' = [ctx EXCEPT ![k] = Connected(ctx[k])] /\ UNCHANGED <<ue, lastRnti>>
      BY <2>1
    <3> QED BY <1>3, <2>4, <2>6, <3>1, ContextKeeps DEF Exists
  <2>8. X2("CTX_RELEASE", a, c.source, c.sourceRnti, Rnti(k), {}, 0) \in X2Msg
    BY <2>4, <2>5, X2Type
  <2>9. x2' \in Seq(X2Msg)
    BY <2>1, <2>2, <2>8
  <2>10. dl' \in [Ids -> Seq(RrcDown)] /\ s1down' \in [Cells -> Seq(S1Down)]
    BY <2>1, <2>2, <2>4, ConnectedDlType, TakenType
  <2> QED
    BY <2>1, <2>7, <2>9, <2>10 DEF IInv, TypeOK
<1> QED
  BY <1>1, <1>2, <1>3

-----------------------------------------------------------------------------
(* The theorems.                                                           *)

\* Every step of the system keeps the invariant.
LEMMA NextKeeps == IInv /\ [Next]_vars => IInv'
<1> SUFFICES ASSUME IInv, [Next]_vars PROVE IInv'
  OBVIOUS
<1>1. CASE UNCHANGED vars
  BY <1>1, StutterKeeps
<1>2. CASE UeStep \/ UeConnectionTimeout
  BY <1>2, UeStepKeeps, RandomAccessKeeps DEF UeStep
<1>3. ASSUME NEW k \in Ids, RrcStep(k) PROVE IInv'
  BY <1>3, ConnectionRequestKeeps, SetupCompletedKeeps, ReconfigurationCompletedKeeps
  DEF RrcStep
<1>4. ASSUME NEW k \in Ids, TimerStep(k) PROVE IInv'
  BY <1>4, TimeoutKeeps DEF TimerStep
<1>5. ASSUME NEW i \in DOMAIN x2, X2Step(i) PROVE IInv'
  BY <1>5, HandoverRequestKeeps, HandoverRequestAckKeeps, PreparationFailureKeeps,
     SnStatusKeeps, UeContextReleaseKeeps
  DEF X2Step
<1>6. ASSUME NEW c \in Cells, S1Step(c) PROVE IInv'
  BY <1>6, MmeStepKeeps, ContextSetupKeeps, PathSwitchAckKeeps DEF S1Step
<1>7. CASE Environment
  BY <1>7, UeStepKeeps, Srb0MessageLostKeeps, SendHandoverRequestKeeps,
     ScheduleReconfigurationKeeps, ReleaseBearerKeeps
  DEF Environment
<1> QED
  BY <1>1, <1>2, <1>3, <1>4, <1>5, <1>6, <1>7 DEF Next

\* IInv holds in every reachable state: it is inductive.
THEOREM Invariance == Spec => []IInv
BY InitIInv, NextKeeps, PTL DEF Spec

\* Whatever is lost, times out or is asked for, every handler finds and leaves
\* the state in its type: no message names a cell or an RNTI that does not
\* exist, no context gets a number the cell has not handed out.
THEOREM TypeCorrect == Spec => []TypeOK
<1>1. IInv => TypeOK
  BY DEF IInv
<1> QED
  BY <1>1, Invariance, PTL

-----------------------------------------------------------------------------
(* A context that leaves is removed.                                       *)

Stays(k) == ctx[k].st = "HANDOVER_LEAVING" => ctx'[k].st \in {"HANDOVER_LEAVING", "NONE"}

\* A step that changes one context only.
LEMMA OneContext ==
  ASSUME IInv, NEW j \in Ids, NEW c, ctx' = [ctx EXCEPT ![j] = c],
         ctx[j].st = "HANDOVER_LEAVING" => c.st \in {"HANDOVER_LEAVING", "NONE"}
  PROVE  \A k \in Ids : Stays(k)
BY DEF IInv, TypeOK, Stays

\* A new context: the RNTI had none.
LEMMA NewIsFree ==
  ASSUME IInv, NEW b \in Cells, CanAddUe(b)
  PROVE  <<b, NextRnti(b)>> \in Ids /\ ~Exists(<<b, NextRnti(b)>>)
<1>1. lastRnti[b] \in Nat /\ lastRnti[b] <= MaxRnti
  BY BoundsAssumption DEF IInv, TypeOK
<1>2. NextRnti(b) \in Rntis /\ ~(NextRnti(b) <= lastRnti[b])
  BY <1>1, BoundsAssumption DEF NextRnti, CanAddUe, Rntis
<1>3. <<b, NextRnti(b)>> \in Ids
  BY <1>2, IdParts
<1>4. EnbCell(<<b, NextRnti(b)>>) = b /\ Rnti(<<b, NextRnti(b)>>) = NextRnti(b)
  BY <1>2, IdParts
<1> QED
  BY <1>2, <1>3, <1>4 DEF IInv, Fresh

\* No RRC message of the UE takes a context out of HANDOVER_LEAVING,
LEMMA RrcStays ==
  ASSUME IInv, NEW j \in Ids, RrcStep(j)
  PROVE  \A k \in Ids : Stays(k)
<1>0. ctx \in [Ids -> Context]
  BY DEF IInv, TypeOK
<1>1. CASE RecvRrcConnectionRequest(j)
  <2>1. CASE ctx[j].st # "INITIAL_RANDOM_ACCESS"
    BY <1>1, <2>1 DEF RecvRrcConnectionRequest, Abort, Stays
  <2>2. CASE ctx[j].st = "INITIAL_RANDOM_ACCESS"
    <3>1. \E c : ctx' = [ctx EXCEPT ![j] = c]
      BY <1>0, <1>1, <2>2 DEF RecvRrcConnectionRequest
    <3> QED
      BY <2>2, <3>1, OneContext
  <2> QED
    BY <2>1, <2>2
<1>2. CASE RecvRrcConnectionSetupCompleted(j)
  <2>1. CASE ctx[j].st # "CONNECTION_SETUP"
    BY <1>2, <2>1 DEF RecvRrcConnectionSetupCompleted, Abort, Stays
  <2>2. CASE ctx[j].st = "CONNECTION_SETUP"
    <3>1. \E c : ctx' = [ctx EXCEPT ![j] = c]
      BY <1>2, <2>2 DEF RecvRrcConnectionSetupCompleted
    <3> QED
      BY <2>2, <3>1, OneContext
  <2> QED
    BY <2>1, <2>2
<1>3. CASE RecvRrcConnectionReconfigurationCompleted(j)
  <2>1. CASE ctx[j].st = "CONNECTION_RECONFIGURATION"
    <3>1. \E c : ctx' = [ctx EXCEPT ![j] = c]
      BY <1>3, <2>1 DEF RecvRrcConnectionReconfigurationCompleted, Reconfigured
    <3> QED
      BY <2>1, <3>1, OneContext
  <2>2. CASE ctx[j].st = "HANDOVER_JOINING"
    <3>1. \E c : ctx' = [ctx EXCEPT ![j] = c]
      BY <1>3, <2>2 DEF RecvRrcConnectionReconfigurationCompleted, Joined
    <3> QED
      BY <2>2, <3>1, OneContext
  <2>3. CASE ctx[j].st \notin {"CONNECTION_RECONFIGURATION", "HANDOVER_JOINING"}
    <3>1. ctx' = ctx
      BY <1>3, <2>3 DEF RecvRrcConnectionReconfigurationCompleted, Abort
    <3> QED
      BY <3>1 DEF Stays
  <2> QED
    BY <2>1, <2>2, <2>3
<1> QED
  BY <1>1, <1>2, <1>3 DEF RrcStep

\* a timeout only removes it,
LEMMA TimerStays ==
  ASSUME IInv, NEW j \in Ids, TimerStep(j)
  PROVE  \A k \in Ids : Stays(k)
<1>0. ctx \in [Ids -> Context]
  BY DEF IInv, TypeOK
<1>1. ASSUME NEW c, RemoveUe(j, c) PROVE \A k \in Ids : Stays(k)
  <2>1. ctx' = [ctx EXCEPT ![j] = Erased(c)] /\ Erased(c).st = "NONE"
    BY <1>1 DEF RemoveUe, Erased, Blank
  <2> QED
    BY <2>1, OneContext
<1>2. ASSUME NEW w, Abort(w) PROVE \A k \in Ids : Stays(k)
  BY <1>2 DEF Abort, Stays
<1>3. ASSUME NEW t \in Timers, ContextTimeout(j, t) PROVE \A k \in Ids : Stays(k)
  BY <1>1, <1>2, <1>3 DEF ContextTimeout, WrongTimeout, UeManagerNotFound
<1>4. CASE HandoverJoiningTimeout(j)
  <2>1. CASE InTimerState(j, "handoverJoining")
    <3>1. /\ ctx' = [ctx EXCEPT ![j] = Stopped(ctx[j], "handoverJoining")]
          /\ ctx[j].st = "HANDOVER_JOINING"
      BY <1>0, <1>4, <2>1 DEF HandoverJoiningTimeout, InTimerState, TimerState
    <3> QED
      BY <3>1, OneContext
  <2>2. CASE ~InTimerState(j, "handoverJoining")
    BY <1>2, <1>4, <2>2 DEF HandoverJoiningTimeout, WrongTimeout, UeManagerNotFound
  <2> QED
    BY <2>1, <2>2
<1>5. CASE ScheduledRemoval(j)
  BY <1>1, <1>2, <1>5 DEF ScheduledRemoval
<1> QED
  BY <1>3, <1>4, <1>5 DEF TimerStep

\* an X2 message leaves it there or removes it,
LEMMA X2Stays ==
  ASSUME IInv, NEW i \in DOMAIN x2, X2Step(i)
  PROVE  \A k \in Ids : Stays(k)
<1> DEFINE a == <<x2[i].to, x2[i].old>>
<1>0. /\ ctx \in [Ids -> Context] /\ a \in Ids /\ x2[i].to \in Cells
  BY X2TakenType, IdParts DEF IInv, TypeOK
<1>1. ASSUME NEW w, Abort(w) PROVE \A k \in Ids : Stays(k)
  BY <1>1 DEF Abort, Stays
<1>2. ASSUME ctx' = ctx PROVE \A k \in Ids : Stays(k)
  BY <1>2 DEF Stays
<1>3. CASE RecvHandoverRequest(i)
  <2> DEFINE j == <<x2[i].to, NextRnti(x2[i].to)>>
  <2>1. ctx' = ctx \/ \E c : ctx' = [ctx EXCEPT ![j] = c]
    BY <1>3 DEF RecvHandoverRequest, RemoveUe, Abort
  <2>2. j \in Ids /\ ctx[j].st = "NONE"
    BY <1>0, <1>3, NewIsFree DEF RecvHandoverRequest, Exists
  <2> QED
    BY <1>2, <2>1, <2>2, OneContext
<1>4. CASE RecvHandoverRequestAck(i)
  <2>1. \/ ctx' = ctx
        \/ ctx' = [ctx EXCEPT ![a] = HandoverLeft(@)]
    BY <1>4 DEF RecvHandoverRequestAck, Abort, UeManagerNotFound
  <2>2. HandoverLeft(ctx[a]).st = "HANDOVER_LEAVING"
    BY <1>0 DEF HandoverLeft, Context
  <2> QED
    BY <1>0, <1>2, <2>1, <2>2, OneContext
<1>5. CASE RecvHandoverPreparationFailure(i)
  <2>1. \/ ctx' = ctx
        \/ /\ ctx' = [ctx EXCEPT ![a] = IF ctx[a].st = "HANDOVER_PREPARATION"
                                        THEN Connected(ctx[a]) ELSE ctx[a]]
    BY <1>5 DEF RecvHandoverPreparationFailure, Abort
  <2> QED
    BY <1>0, <1>2, <2>1, OneContext
<1>6. CASE RecvSnStatusTransfer(i)
  BY <1>2, <1>6 DEF RecvSnStatusTransfer, Abort, UeManagerNotFound
<1>7. CASE RecvUeContextRelease(i)
  <2>1. ctx' = ctx \/ ctx' = [ctx EXCEPT ![a] = Erased(Stopped(ctx[a], "handoverLeaving"))]
    BY <1>7 DEF RecvUeContextRelease, Abort, RemoveUe
  <2>2. Erased(Stopped(ctx[a], "handoverLeaving")).st = "NONE"
    BY DEF Erased, Blank
  <2> QED
    BY <1>0, <1>2, <2>1, <2>2, OneContext
<1> QED
  BY <1>3, <1>4, <1>5, <1>6, <1>7 DEF X2Step

\* and so it is with the messages of the MME
LEMMA S1Stays ==
  ASSUME IInv, NEW a \in Cells, S1Step(a)
  PROVE  \A k \in Ids : Stays(k)
<1> DEFINE j == <<a, enbApp[a].rnti>>
<1>0. /\ ctx \in [Ids -> Context] /\ enbApp[a].rnti \in Rntis \union {0}
  BY DEF IInv, TypeOK, EnbApp
<1>1. ASSUME NEW w, Abort(w) PROVE \A k \in Ids : Stays(k)
  BY <1>1 DEF Abort, Stays
<1>2. ASSUME ctx' = ctx PROVE \A k \in Ids : Stays(k)
  BY <1>2 DEF Stays
<1>3. CASE MmeRecvInitialUe(a) \/ MmeRecvPathSwitch(a) \/ MmeRecvErabRelease(a)
  BY <1>2, <1>3
  DEF MmeRecvInitialUe, MmeRecvPathSwitch, MmeRecvErabRelease, MmeUnchanged
<1>4. CASE RecvContextSetup(a)
  <2> DEFINE m == Head(s1down[a])
             set == [ctx[j] EXCEPT !.drbs = m.bearers, !.teid = m.teid, !.pend = TRUE]
             done == IF SendsNow(set)
                     THEN [Connected(set) EXCEPT !.pend = Cardinality(m.bearers) > 1]
                     ELSE set
  <2>1. \/ ctx' = ctx
        \/ enbApp[a].rnti # 0 /\ ctx' = [ctx EXCEPT ![j] = done]
    BY <1>4 DEF RecvContextSetup, Abort, UeManagerNotFound
  <2>2. CASE ctx' = ctx
    BY <1>2, <2>2
  <2>3. CASE enbApp[a].rnti # 0 /\ ctx' = [ctx EXCEPT ![j] = done]
    <3>1. j \in Ids
      BY <1>0, <2>3, IdParts
    <3>2. set.st = ctx[j].st
      BY <1>0, <3>1 DEF Context
    <3>3. ctx[j].st = "HANDOVER_LEAVING" => done.st = "HANDOVER_LEAVING"
      <4> HIDE DEF set
      <4> QED BY <3>2 DEF SendsNow
    <3> QED
      <4> HIDE DEF done
      <4> QED BY <2>3, <3>1, <3>3, OneContext
  <2> QED
    BY <2>1, <2>2, <2>3
<1>5. CASE RecvPathSwitchAck(a)
  <2>1. \/ ctx' = ctx
        \/ /\ ctx' = [ctx EXCEPT ![j] = Connected(@)]
           /\ enbApp[a].rnti # 0 /\ ctx[j].st = "HANDOVER_PATH_SWITCH"
    BY <1>5 DEF RecvPathSwitchAck, Abort, UeManagerNotFound
  <2>2. CASE ctx' = ctx
    BY <1>2, <2>2
  <2>3. CASE /\ ctx' = [ctx EXCEPT ![j] = Connected(@)]
             /\ enbApp[a].rnti # 0 /\ ctx[j].st = "HANDOVER_PATH_SWITCH"
    <3>1. j \in Ids
      BY <1>0, <2>3, IdParts
    <3>2. ctx' = [ctx EXCEPT ![j] = Connected(ctx[j])]
      BY <1>0, <2>3
    <3> QED
      BY <2>3, <3>1, <3>2, OneContext
  <2> QED
    BY <2>1, <2>2, <2>3
<1> QED
  BY <1>3, <1>4, <1>5 DEF S1Step

\* and with the requests of the user, the algorithms and the scheduler.
LEMMA RequestStays ==
  ASSUME IInv, NEW j \in Ids,
         \/ SendHandoverRequest(j)
         \/ ScheduleRrcConnectionReconfiguration(j)
         \/ ReleaseDataRadioBearer(j)
  PROVE  \A k \in Ids : Stays(k)
<1>0. ctx \in [Ids -> Context] /\ ctx[j] \in Context
  BY DEF IInv, TypeOK
<1>1. ASSUME NEW w, Abort(w) PROVE \A k \in Ids : Stays(k)
  BY <1>1 DEF Abort, Stays
<1>2. CASE SendHandoverRequest(j)
  <2>1. \/ ctx' = ctx
        \/ /\ \E c : ctx' = [ctx EXCEPT ![j] = c]
           /\ ctx[j].st # "HANDOVER_LEAVING"
    BY <1>0, <1>2 DEF SendHandoverRequest, Abort
  <2> QED
    BY <2>1, OneContext DEF Stays
<1>3. CASE ScheduleRrcConnectionReconfiguration(j)
  <2> DEFINE c == [ctx[j] EXCEPT !.pend = TRUE]
             d == IF SendsNow(c) THEN Connected(c) ELSE c
  <2>1. ctx' = ctx \/ ctx' = [ctx EXCEPT ![j] = d]
    BY <1>3 DEF ScheduleRrcConnectionReconfiguration, Abort
  <2>2. c.st = ctx[j].st
    BY <1>0 DEF Context
  <2>3. ctx[j].st = "HANDOVER_LEAVING" => d.st = "HANDOVER_LEAVING"
    <3> HIDE DEF c
    <3> QED BY <2>2 DEF SendsNow
  <2> QED
    <3> HIDE DEF d
    <3> QED BY <2>1, <2>3, OneContext DEF Stays
<1>4. CASE ReleaseDataRadioBearer(j)
  <2>1. PICK b : ctx' = [ctx EXCEPT ![j].drbs = @ \ {b}]
    BY <1>4 DEF ReleaseDataRadioBearer
  <2>2. ctx' = [ctx EXCEPT ![j] = [ctx[j] EXCEPT !.drbs = @ \ {b}]]
    BY <1>0, <2>1
  <2>3. [ctx[j] EXCEPT !.drbs = @ \ {b}].st = ctx[j].st
    BY <1>0 DEF Context
  <2> QED
    BY <2>2, <2>3, OneContext
<1> QED
  BY <1>2, <1>3, <1>4

\* No step of the system takes a context back from HANDOVER_LEAVING.
LEMMA NextStays == IInv /\ [Next]_vars => \A k \in Ids : Stays(k)
<1> SUFFICES ASSUME IInv, [Next]_vars PROVE \A k \in Ids : Stays(k)
  OBVIOUS
<1>1. CASE ctx' = ctx
  BY <1>1 DEF Stays
<1>2. CASE UeStep \/ UeConnectionTimeout
  <2>1. CASE RandomAccess
    <3> DEFINE j == <<ue.cell, NextRnti(ue.cell)>>
    <3>1. ue.cell \in Cells
      BY DEF IInv, TypeOK, Ue
    <3>2. j \in Ids /\ ctx[j].st = "NONE"
      BY <2>1, <3>1, NewIsFree DEF RandomAccess, Exists
    <3>3. \E c : ctx' = [ctx EXCEPT ![j] = c]
      BY <2>1 DEF RandomAccess
    <3> QED
      BY <3>2, <3>3, OneContext
  <2>2. CASE ~RandomAccess
    <3>1. ctx' = ctx
      BY <1>2, <2>2
      DEF UeStep, UeConnectionTimeout, UeConnect, UeRecvSystemInformation,
          UeHandoverAccess, UeRecvConnectionSetup, UeRecvConnectionReject,
          UeRecvReconfiguration, UeRecvHandoverCommand, UeUnchanged, Abort
    <3> QED
      BY <1>1, <3>1
  <2> QED
    BY <2>1, <2>2
<1>3. ASSUME NEW k \in Ids, RrcStep(k) \/ TimerStep(k) PROVE \A j \in Ids : Stays(j)
  BY <1>3, RrcStays, TimerStays
<1>4. ASSUME NEW i \in DOMAIN x2, X2Step(i) PROVE \A j \in Ids : Stays(j)
  BY <1>4, X2Stays
<1>5. ASSUME NEW c \in Cells, S1Step(c) PROVE \A j \in Ids : Stays(j)
  BY <1>5, S1Stays
<1>6. CASE Environment
  <2>1. CASE UeRandomAccessFailed
    BY <1>1, <2>1 DEF UeRandomAccessFailed, UeUnchanged
  <2>2. ASSUME NEW k \in Ids, Srb0MessageLost(k) PROVE \A j \in Ids : Stays(j)
    BY <1>1, <2>2 DEF Srb0MessageLost
  <2> QED
    BY <1>6, <2>1, <2>2, RequestStays DEF Environment
<1>7. CASE UNCHANGED vars
  BY <1>1, <1>7 DEF vars
<1> QED
  BY <1>2, <1>3, <1>4, <1>5, <1>6, <1>7 DEF Next

\* A context whose UE has been sent to another cell never serves it again and
\* is at last removed, whichever messages, timeouts and requests reach it.
THEOREM LeavingContextIsFinal == Spec => LeavingIsFinal
<1>1. IInv /\ [Next]_vars =>
        [\A k \in Ids : ctx[k].st = "HANDOVER_LEAVING"
                        => ctx'[k].st \in {"HANDOVER_LEAVING", "NONE"}]_vars
  BY NextStays DEF Stays
<1> QED
  BY <1>1, Invariance, PTL DEF Spec, LeavingIsFinal

-----------------------------------------------------------------------------
(* A serving context has only the scheduled removal to fear.               *)

KeptServing(k) == ctx[k].st \in Serving => ctx'[k].st # "NONE"

\* A step that changes one context only, and one that changes none.
LEMMA OneKept ==
  ASSUME IInv, NEW j \in Ids, NEW c, ctx' = [ctx EXCEPT ![j] = c],
         ctx[j].st \in Serving => c.st # "NONE"
  PROVE  \A k \in Ids : KeptServing(k)
BY DEF IInv, TypeOK, KeptServing, Serving
LEMMA AllKept ==
  ASSUME ctx' = ctx
  PROVE  \A k \in Ids : KeptServing(k)
BY DEF KeptServing, Serving
LEMMA AbortKept == \A w : Abort(w) => \A k \in Ids : KeptServing(k)
BY AllKept DEF Abort

\* RemoveUe takes away the context of no cell that serves the UE.
LEMMA RemovedKept ==
  ASSUME IInv, NEW j \in Ids, NEW c, RemoveUe(j, c), ctx[j].st \notin Serving
  PROVE  \A k \in Ids : KeptServing(k)
BY OneKept DEF RemoveUe

\* No RRC message of the UE removes a context,
LEMMA RrcKept ==
  ASSUME IInv, NEW j \in Ids, RrcStep(j)
  PROVE  \A k \in Ids : KeptServing(k)
<1>0. ctx \in [Ids -> Context] /\ ctx[j] \in Context
  BY DEF IInv, TypeOK
<1>1. CASE RecvRrcConnectionRequest(j)
  <2>1. CASE ctx[j].st # "INITIAL_RANDOM_ACCESS"
    BY <1>1, <2>1, AbortKept DEF RecvRrcConnectionRequest
  <2>2. CASE ctx[j].st = "INITIAL_RANDOM_ACCESS"
    <3>1. \E c : ctx' = [ctx EXCEPT ![j] = c]
      BY <1>0, <1>1, <2>2 DEF RecvRrcConnectionRequest
    <3> QED
      BY <2>2, <3>1, OneKept DEF Serving
  <2> QED
    BY <2>1, <2>2
<1>2. CASE RecvRrcConnectionSetupCompleted(j)
  <2>1. CASE ctx[j].st # "CONNECTION_SETUP"
    BY <1>2, <2>1, AbortKept DEF RecvRrcConnectionSetupCompleted
  <2>2. CASE ctx[j].st = "CONNECTION_SETUP"
    <3>1. \E c : ctx' = [ctx EXCEPT ![j] = c]
      BY <1>2, <2>2 DEF RecvRrcConnectionSetupCompleted
    <3> QED
      BY <2>2, <3>1, OneKept DEF Serving
  <2> QED
    BY <2>1, <2>2
<1>3. CASE RecvRrcConnectionReconfigurationCompleted(j)
  <2>1. CASE ctx[j].st = "CONNECTION_RECONFIGURATION"
    <3>1. PICK c : c = Connected(ctx[j])
      OBVIOUS
    <3>2. PICK d : d = HandoverPrepared(c, c.queued)
      OBVIOUS
    <3>3. c \in Context /\ c.st # "NONE"
      BY <1>0, <3>1, ConnectedType
    <3>4. d.st # "NONE"
      BY <3>2, <3>3 DEF HandoverPrepared, Context
    <3>5. ctx' = [ctx EXCEPT ![j] = c] \/ ctx' = [ctx EXCEPT ![j] = d]
      BY <1>3, <2>1, <3>1, <3>2
      DEF RecvRrcConnectionReconfigurationCompleted, Reconfigured
    <3> QED
      BY <3>3, <3>4, <3>5, OneKept
  <2>2. CASE ctx[j].st = "HANDOVER_JOINING"
    <3>1. \E c : ctx' = [ctx EXCEPT ![j] = c]
      BY <1>3, <2>2 DEF RecvRrcConnectionReconfigurationCompleted, Joined
    <3> QED
      BY <2>2, <3>1, OneKept DEF Serving
  <2>3. CASE ctx[j].st \notin {"CONNECTION_RECONFIGURATION", "HANDOVER_JOINING"}
    <3>1. ctx' = ctx
      BY <1>3, <2>3 DEF RecvRrcConnectionReconfigurationCompleted, Abort
    <3> QED
      BY <3>1, AllKept
  <2> QED
    BY <2>1, <2>2, <2>3
<1> QED
  BY <1>1, <1>2, <1>3 DEF RrcStep

\* the other timeouts find a context that does not serve the UE,
LEMMA TimerKept ==
  ASSUME IInv, "removal" \notin Expirable, NEW j \in Ids, TimerStep(j)
  PROVE  \A k \in Ids : KeptServing(k)
<1>1. ASSUME NEW t \in Timers, ContextTimeout(j, t) PROVE \A k \in Ids : KeptServing(k)
  <2>1. CASE InTimerState(j, t)
    <3>1. ctx[j].st \notin Serving
      BY <2>1 DEF InTimerState, TimerState, Timers, Serving
    <3>2. RemoveUe(j, Stopped(ctx[j], t))
      BY <1>1, <2>1 DEF ContextTimeout
    <3> QED
      BY <3>1, <3>2, RemovedKept
  <2>2. CASE ~InTimerState(j, t)
    BY <1>1, <2>2, AbortKept DEF ContextTimeout, WrongTimeout, UeManagerNotFound
  <2> QED
    BY <2>1, <2>2
<1>2. CASE HandoverJoiningTimeout(j)
  <2>1. CASE InTimerState(j, "handoverJoining")
    <3>1. /\ ctx' = [ctx EXCEPT ![j] = Stopped(ctx[j], "handoverJoining")]
          /\ ctx[j].st \notin Serving
      BY <1>2, <2>1 DEF HandoverJoiningTimeout, InTimerState, TimerState, Serving, IInv, TypeOK
    <3> QED
      BY <3>1, OneKept
  <2>2. CASE ~InTimerState(j, "handoverJoining")
    BY <1>2, <2>2, AbortKept DEF HandoverJoiningTimeout, WrongTimeout, UeManagerNotFound
  <2> QED
    BY <2>1, <2>2
<1> QED
  BY <1>1, <1>2 DEF TimerStep, ScheduledRemoval

\* an X2 message removes a context that leaves, or one that was never there,
LEMMA X2Kept ==
  ASSUME IInv, NEW i \in DOMAIN x2, X2Step(i)
  PROVE  \A k \in Ids : KeptServing(k)
<1>1. PICK a : a = <<x2[i].to, x2[i].old>>
  OBVIOUS
<1>2. /\ a \in Ids /\ x2[i].to \in Cells /\ ctx[a] \in Context
  BY <1>1, X2TakenType, IdParts DEF IInv, TypeOK
<1>3. CASE RecvHandoverRequest(i)
  <2>1. PICK j : j = <<x2[i].to, NextRnti(x2[i].to)>>
    OBVIOUS
  <2>2. ctx' = ctx \/ \E c : ctx' = [ctx EXCEPT ![j] = c]
    BY <1>3, <2>1 DEF RecvHandoverRequest, RemoveUe, Abort
  <2>3. j \in Ids /\ ctx[j].st = "NONE"
    BY <1>2, <1>3, <2>1, NewIsFree DEF RecvHandoverRequest, Exists
  <2> QED
    BY <2>2, <2>3, AllKept, OneKept DEF Serving
<1>4. CASE RecvHandoverRequestAck(i)
  <2>1. ctx' = ctx \/ ctx' = [ctx EXCEPT ![a] = HandoverLeft(ctx[a])]
    BY <1>1, <1>4 DEF RecvHandoverRequestAck, Abort, UeManagerNotFound
  <2>2. HandoverLeft(ctx[a]).st # "NONE"
    BY <1>2 DEF HandoverLeft, Context
  <2> QED
    BY <1>2, <2>1, <2>2, AllKept, OneKept
<1>5. CASE RecvHandoverPreparationFailure(i)
  <2>1. \/ ctx' = ctx \/ ctx' = [ctx EXCEPT ![a] = Connected(ctx[a])]
        \/ ctx' = [ctx EXCEPT ![a] = ctx[a]]
    BY <1>1, <1>5 DEF RecvHandoverPreparationFailure, Abort
  <2>2. Connected(ctx[a]).st # "NONE" /\ (ctx[a].st \in Serving => ctx[a].st # "NONE")
    BY <1>2, ConnectedType DEF Serving
  <2> QED
    BY <1>2, <2>1, <2>2, AllKept, OneKept
<1>6. CASE RecvSnStatusTransfer(i)
  BY <1>6, AllKept, AbortKept DEF RecvSnStatusTransfer, UeManagerNotFound
<1>7. CASE RecvUeContextRelease(i)
  <2>1. CASE ctx[a].st # "HANDOVER_LEAVING"
    BY <1>1, <1>7, <2>1, AbortKept DEF RecvUeContextRelease
  <2>2. CASE ctx[a].st = "HANDOVER_LEAVING"
    <3>1. RemoveUe(a, Stopped(ctx[a], "handoverLeaving"))
      BY <1>1, <1>7, <2>2 DEF RecvUeContextRelease
    <3> QED
      BY <1>2, <2>2, <3>1, RemovedKept DEF Serving
  <2> QED
    BY <2>1, <2>2
<1> QED
  BY <1>3, <1>4, <1>5, <1>6, <1>7 DEF X2Step

\* and nothing else that the code receives or is asked for removes one.
LEMMA S1Kept ==
  ASSUME IInv, NEW a \in Cells, S1Step(a)
  PROVE  \A k \in Ids : KeptServing(k)
<1>1. PICK j : j = <<a, enbApp[a].rnti>>
  OBVIOUS
<1>2. /\ enbApp[a].rnti \in Rntis \union {0}
      /\ enbApp[a].rnti # 0 => j \in Ids /\ ctx[j] \in Context
  BY <1>1, IdParts DEF IInv, TypeOK, EnbApp
<1>3. CASE MmeRecvInitialUe(a) \/ MmeRecvPathSwitch(a) \/ MmeRecvErabRelease(a)
  BY <1>3, AllKept DEF MmeRecvInitialUe, MmeRecvPathSwitch, MmeRecvErabRelease, MmeUnchanged
<1>4. CASE RecvContextSetup(a)
  <2>1. PICK m : m = Head(s1down[a])
    OBVIOUS
  <2>2. PICK set : set = [ctx[j] EXCEPT !.drbs = m.bearers, !.teid = m.teid, !.pend = TRUE]
    OBVIOUS
  <2>3. PICK d : d = [Connected(set) EXCEPT !.pend = Cardinality(m.bearers) > 1]
    OBVIOUS
  <2>4. \/ ctx' = ctx
        \/ /\ enbApp[a].rnti # 0
           /\ ctx' = [ctx EXCEPT ![j] = IF SendsNow(set) THEN d ELSE set]
    BY <1>1, <1>4, <2>1, <2>2, <2>3 DEF RecvContextSetup, Abort, UeManagerNotFound
  <2>5. ASSUME enbApp[a].rnti # 0
        PROVE  set.st = ctx[j].st /\ (SendsNow(set) => d.st # "NONE")
    <3>1. set.st = ctx[j].st
      BY <1>2, <2>2, <2>5 DEF Context
    <3>2. Connected(set).st \in {"CONNECTED_NORMALLY", "CONNECTION_RECONFIGURATION"}
      BY <1>2, <2>2, <2>5 DEF Connected, Context
    <3>3. d.st = Connected(set).st
      BY <1>2, <2>2, <2>3, <2>5 DEF Connected, Context
    <3> QED
      BY <3>1, <3>2, <3>3
  <2>6. CASE enbApp[a].rnti # 0 /\ SendsNow(set) /\ ctx' = [ctx EXCEPT ![j] = d]
    BY <1>2, <2>5, <2>6, OneKept
  <2>7. CASE enbApp[a].rnti # 0 /\ ctx' = [ctx EXCEPT ![j] = set]
    BY <1>2, <2>5, <2>7, OneKept DEF Serving
  <2> QED
    BY <2>4, <2>6, <2>7, AllKept
<1>5. CASE RecvPathSwitchAck(a)
  <2>1. \/ ctx' = ctx
        \/ enbApp[a].rnti # 0 /\ ctx' = [ctx EXCEPT ![j] = Connected(ctx[j])]
    BY <1>1, <1>5 DEF RecvPathSwitchAck, Abort, UeManagerNotFound
  <2>2. enbApp[a].rnti # 0 => Connected(ctx[j]).st # "NONE"
    BY <1>2, ConnectedType
  <2> QED
    BY <1>2, <2>1, <2>2, AllKept, OneKept
<1> QED
  BY <1>3, <1>4, <1>5 DEF S1Step
LEMMA RequestKept ==
  ASSUME IInv, NEW j \in Ids,
         \/ SendHandoverRequest(j)
         \/ ScheduleRrcConnectionReconfiguration(j)
         \/ ReleaseDataRadioBearer(j)
  PROVE  \A k \in Ids : KeptServing(k)
<1>1. ctx[j] \in Context
  BY DEF IInv, TypeOK
<1>2. CASE SendHandoverRequest(j)
  <2>1. PICK t \in Cells :
          \/ ctx' = ctx
          \/ ctx' = [ctx EXCEPT ![j] = [ctx[j] EXCEPT !.queued = t]]
          \/ ctx' = [ctx EXCEPT ![j] = HandoverPrepared(ctx[j], t)]
    BY <1>2 DEF SendHandoverRequest, Abort
  <2>2. /\ [ctx[j] EXCEPT !.queued = t].st = ctx[j].st
        /\ HandoverPrepared(ctx[j], t).st # "NONE"
    BY <1>1 DEF HandoverPrepared, Context
  <2> QED
    BY <2>1, <2>2, AllKept, OneKept DEF Serving
<1>3. CASE ScheduleRrcConnectionReconfiguration(j)
  <2>1. PICK c : c = [ctx[j] EXCEPT !.pend = TRUE]
    OBVIOUS
  <2>2. c \in Context /\ c.st = ctx[j].st
    BY <1>1, <2>1 DEF Context
  <2>3. ctx' = ctx \/ ctx' = [ctx EXCEPT ![j] = Connected(c)] \/ ctx' = [ctx EXCEPT ![j] = c]
    BY <1>3, <2>1 DEF ScheduleRrcConnectionReconfiguration, Abort
  <2>4. Connected(c).st # "NONE"
    BY <2>2, ConnectedType
  <2> QED
    BY <2>2, <2>3, <2>4, AllKept, OneKept DEF Serving
<1>4. CASE ReleaseDataRadioBearer(j)
  <2>1. PICK b : ctx' = [ctx EXCEPT ![j] = [ctx[j] EXCEPT !.drbs = @ \ {b}]]
    BY <1>4 DEF ReleaseDataRadioBearer
  <2>2. [ctx[j] EXCEPT !.drbs = @ \ {b}].st = ctx[j].st
    BY <1>1 DEF Context
  <2> QED
    BY <2>1, <2>2, OneKept DEF Serving
<1> QED
  BY <1>2, <1>3, <1>4

LEMMA NextKept ==
  ASSUME IInv, "removal" \notin Expirable, [Next]_vars
  PROVE  \A k \in Ids : KeptServing(k)
<1>1. CASE UNCHANGED vars
  BY <1>1, AllKept DEF vars
<1>2. CASE UeStep \/ UeConnectionTimeout \/ UeRandomAccessFailed
  <2>1. CASE RandomAccess
    <3>1. PICK j : j = <<ue.cell, NextRnti(ue.cell)>>
      OBVIOUS
    <3>2. j \in Ids /\ ctx[j].st = "NONE"
      BY <2>1, <3>1, NewIsFree DEF RandomAccess, Exists, IInv, TypeOK, Ue
    <3>3. \E c : ctx' = [ctx EXCEPT ![j] = c]
      BY <2>1, <3>1 DEF RandomAccess
    <3> QED
      BY <3>2, <3>3, OneKept DEF Serving
  <2>2. CASE ~RandomAccess
    <3>1. ctx' = ctx
      BY <1>2, <2>2
      DEF UeStep, UeConnectionTimeout, UeConnect, UeRecvSystemInformation,
          UeHandoverAccess, UeRecvConnectionSetup, UeRecvConnectionReject,
          UeRecvReconfiguration, UeRecvHandoverCommand, UeRandomAccessFailed,
          UeUnchanged, Abort
    <3> QED
      BY <3>1, AllKept
  <2> QED
    BY <2>1, <2>2
<1>3. ASSUME NEW k \in Ids, Srb0MessageLost(k) PROVE \A j \in Ids : KeptServing(j)
  BY <1>3, AllKept DEF Srb0MessageLost
<1>4. CASE Environment
  BY <1>2, <1>3, <1>4, RequestKept DEF Environment
<1> QED
  BY <1>1, <1>2, <1>4, RrcKept, TimerKept, X2Kept, S1Kept DEF Next

\* Whatever is lost, times out or is asked for, no eNB drops the context it
\* serves the UE with, but for the removal that HandoverJoiningTimeout schedules:
\* that one alone may find that the UE has arrived after all.
THEOREM OnlyTheScheduledRemoval ==
  "removal" \notin Expirable => (Spec => ServingContextKept)
<1> SUFFICES ASSUME "removal" \notin Expirable PROVE Spec => ServingContextKept
  OBVIOUS
<1>1. IInv /\ [Next]_vars =>
        [\A k \in Ids : ctx[k].st \in Serving => ctx'[k].st # "NONE"]_vars
  BY NextKept DEF KeptServing
<1> QED
  BY <1>1, Invariance, PTL DEF Spec, ServingContextKept

-----------------------------------------------------------------------------
(* Queues and sets again.                                                  *)

\* The queue without message i.
LEMMA RemoveAtElements ==
  ASSUME NEW S, NEW q \in Seq(S), NEW i \in DOMAIN q
  PROVE  /\ RemoveAt(q, i) \in Seq(S) /\ DOMAIN RemoveAt(q, i) = 1..(Len(q) - 1)
         /\ \A j \in 1..(Len(q) - 1) :
              RemoveAt(q, i)[j] = IF j < i THEN q[j] ELSE q[j + 1]
<1>1. i \in 1..Len(q) /\ Len(q) \in Nat
  OBVIOUS
<1> DEFINE a == SubSeq(q, 1, i - 1)
           b == SubSeq(q, i + 1, Len(q))
<1>2. a \in Seq(S) /\ b \in Seq(S) /\ Len(a) = i - 1 /\ Len(b) = Len(q) - i
  BY <1>1, SubSeqProperties
<1>3. \A j \in 1..(i - 1) : a[j] = q[j]
  BY <1>1, SubSeqProperties
<1>4. \A j \in 1..(Len(q) - i) : b[j] = q[i + j]
  BY <1>1, SubSeqProperties
<1>5. RemoveAt(q, i) = a \o b
  BY DEF RemoveAt
<1> HIDE DEF a, b
<1>6. /\ RemoveAt(q, i) \in Seq(S) /\ Len(RemoveAt(q, i)) = Len(q) - 1
      /\ \A j \in 1..(Len(q) - 1) :
           RemoveAt(q, i)[j] = IF j <= i - 1 THEN a[j] ELSE b[j - (i - 1)]
  BY <1>1, <1>2, <1>5, ConcatProperties
<1>7. ASSUME NEW j \in 1..(Len(q) - 1)
      PROVE  RemoveAt(q, i)[j] = IF j < i THEN q[j] ELSE q[j + 1]
  <2>1. CASE j < i
    BY <1>1, <1>3, <1>6, <2>1
  <2>2. CASE ~(j < i)
    <3>1. j - (i - 1) \in 1..(Len(q) - i) /\ i + (j - (i - 1)) = j + 1
      BY <1>1, <2>2
    <3> QED
      BY SMTT(40), <1>1, <1>4, <1>6, <2>2, <3>1
  <2> QED
    BY <2>1, <2>2
<1> QED
  BY <1>6, <1>7

-----------------------------------------------------------------------------
(* One anchor.                                                             *)

\* The UE takes k for its context.  A context that is over never serves it again.
UeAt(k) == ue.state = "CONNECTED_NORMALLY" /\ Served = k
Over    == {"CONNECTION_REJECTED", "HANDOVER_LEAVING"}

\* The messages to the UE of context k that end its connection there, and those
\* from it that show that it takes k for its context.
Ends(k)     == {m \in ToSet(dl[k]) : m.type \in {"REJECT", "HO_COMMAND"}}
Confirms(k) == {m \in ToSet(ul[k]) : m # "REQUEST"}

\* An eNB only takes itself for the serving one while the UE does, too; the UE only
\* leaves when it is told to, and only contexts that are over tell it to.  T300 has
\* stopped when the UE is connected.
AnchorInv ==
  /\ \A k \in Ids : /\ ctx[k].st \in Serving => UeAt(k)
                    /\ Ends(k) # {} => ctx[k].st \in Over
                    /\ Confirms(k) # {} => UeAt(k) \/ ctx[k].st \in Over
  /\ ue.t300 => ue.state = "IDLE_CONNECTING"

\* The messages in a queue to which one is sent, from which one is taken, and which
\* is emptied.
LEMMA MessagesIn ==
  ASSUME NEW S, NEW s \in Seq(S)
  PROVE  /\ ToSet(<<>>) = {}
         /\ \A m \in S : ToSet(Append(s, m)) = ToSet(s) \union {m}
         /\ s # <<>> => ToSet(Tail(s)) \subseteq ToSet(s) /\ Head(s) \in ToSet(s)
<1>1. ASSUME NEW m \in S PROVE ToSet(Append(s, m)) = ToSet(s) \union {m}
  <2>1. DOMAIN Append(s, m) = 1..(Len(s) + 1) /\ DOMAIN s = 1..Len(s) /\ Len(s) \in Nat
    BY AppendProperties
  <2>2. /\ \A i \in 1..Len(s) : Append(s, m)[i] = s[i]
        /\ Append(s, m)[Len(s) + 1] = m
    BY AppendProperties
  <2>3. 1..(Len(s) + 1) = (1..Len(s)) \union {Len(s) + 1}
    BY <2>1
  <2> QED
    BY <2>1, <2>2, <2>3 DEF ToSet
<1>2. ASSUME s # <<>> PROVE ToSet(Tail(s)) \subseteq ToSet(s) /\ Head(s) \in ToSet(s)
  <2>1. /\ Len(s) \in Nat /\ Len(s) >= 1 /\ DOMAIN s = 1..Len(s) /\ Head(s) = s[1]
    BY <1>2
  <2>2. Len(Tail(s)) = Len(s) - 1 /\ DOMAIN Tail(s) = 1..Len(Tail(s))
    BY <1>2, HeadTailProperties
  <2>3. \A i \in 1..Len(Tail(s)) : Tail(s)[i] = s[i + 1] /\ i + 1 \in 1..Len(s)
    BY <1>2, <2>1, <2>2, HeadTailProperties
  <2> QED
    BY <2>1, <2>2, <2>3 DEF ToSet
<1>3. ToSet(<<>>) = {}
  BY DEF ToSet
<1> QED
  BY <1>1, <1>2, <1>3

\* What a step does to the messages of one context: Sent, Taken, or flushed.
LEMMA EndsSent ==
  ASSUME IInv, NEW k \in Ids, NEW m \in RrcDown, dl' = Sent(dl, k, m)
  PROVE  /\ \A i \in Ids : i # k => Ends(i)' = Ends(i)
         /\ m.type \notin {"REJECT", "HO_COMMAND"} => Ends(k)' = Ends(k)
<1>1. dl \in [Ids -> Seq(RrcDown)]
  BY DEF IInv, TypeOK
<1>2. dl'[k] = Append(dl[k], m) /\ \A i \in Ids : i # k => dl'[i] = dl[i]
  BY <1>1 DEF Sent
<1>3. ToSet(dl'[k]) = ToSet(dl[k]) \union {m}
  BY <1>1, <1>2, MessagesIn
<1> QED
  BY <1>2, <1>3 DEF Ends

\* The UE takes a message: none that ends its connection is added.
LEMMA EndsTaken ==
  ASSUME IInv, NEW k \in Ids, dl[k] # <<>>, dl' = Taken(dl, k)
  PROVE  \A i \in Ids : Ends(i)' \subseteq Ends(i)
<1>1. dl \in [Ids -> Seq(RrcDown)]
  BY DEF IInv, TypeOK
<1>2. dl'[k] = Tail(dl[k]) /\ \A i \in Ids : i # k => dl'[i] = dl[i]
  BY <1>1 DEF Taken
<1>3. ToSet(dl'[k]) \subseteq ToSet(dl[k])
  BY <1>1, <1>2, MessagesIn
<1> QED
  BY <1>2, <1>3 DEF Ends

\* The UE sends m: only with one that is no request it shows where it is.
LEMMA ConfirmsSent ==
  ASSUME IInv, NEW k \in Ids, NEW m \in RrcUp, ul' = Sent(ul, k, m)
  PROVE  /\ \A i \in Ids : i # k => Confirms(i)' = Confirms(i)
         /\ m = "REQUEST" => Confirms(k)' = Confirms(k)
<1>1. ul \in [Ids -> Seq(RrcUp)]
  BY DEF IInv, TypeOK
<1>2. ul'[k] = Append(ul[k], m) /\ \A i \in Ids : i # k => ul'[i] = ul[i]
  BY <1>1 DEF Sent
<1>3. ToSet(ul'[k]) = ToSet(ul[k]) \union {m}
  BY <1>1, <1>2, MessagesIn
<1> QED
  BY <1>2, <1>3 DEF Confirms

\* An eNB takes a message of the UE: none that shows where it is is added.
LEMMA ConfirmsTaken ==
  ASSUME IInv, NEW k \in Ids, ul[k] # <<>>, ul' = Taken(ul, k)
  PROVE  \A i \in Ids : Confirms(i)' \subseteq Confirms(i)
<1>1. ul \in [Ids -> Seq(RrcUp)]
  BY DEF IInv, TypeOK
<1>2. ul'[k] = Tail(ul[k]) /\ \A i \in Ids : i # k => ul'[i] = ul[i]
  BY <1>1 DEF Taken
<1>3. ToSet(ul'[k]) \subseteq ToSet(ul[k])
  BY <1>1, <1>2, MessagesIn
<1> QED
  BY <1>2, <1>3 DEF Confirms

\* The radio link of a removed context is emptied.
LEMMA Emptied ==
  ASSUME IInv, NEW k \in Ids, dl' = [dl EXCEPT ![k] = <<>>], ul' = [ul EXCEPT ![k] = <<>>]
  PROVE  /\ Ends(k)' = {} /\ Confirms(k)' = {}
         /\ \A i \in Ids : Ends(i)' \subseteq Ends(i) /\ Confirms(i)' \subseteq Confirms(i)
<1>1. /\ dl'[k] = <<>> /\ \A i \in Ids : i # k => dl'[i] = dl[i]
      /\ ul'[k] = <<>> /\ \A i \in Ids : i # k => ul'[i] = ul[i]
  BY DEF IInv, TypeOK
<1>2. ToSet(<<>>) = {}
  BY DEF ToSet
<1> QED
  BY <1>1, <1>2 DEF Ends, Confirms

\* What a message that is received shows.
LEMMA ReceivedEnds ==
  ASSUME IInv, NEW k \in Ids, NEW t \in {"REJECT", "HO_COMMAND"}, Pending(dl, k, t)
  PROVE  Ends(k) # {}
<1>1. dl[k] \in Seq(RrcDown) /\ dl[k] # <<>> /\ Head(dl[k]).type = t
  BY DEF IInv, TypeOK, Pending
<1>2. Head(dl[k]) \in ToSet(dl[k])
  BY <1>1, MessagesIn
<1> QED
  BY <1>1, <1>2 DEF Ends

\* An eNB that gets a message t of the UE, no request, has it from the UE at k.
LEMMA ReceivedConfirms ==
  ASSUME IInv, NEW k \in Ids, NEW t, t # "REQUEST", Arrived(k, t)
  PROVE  Confirms(k) # {}
<1>1. ul[k] \in Seq(RrcUp) /\ ul[k] # <<>> /\ Head(ul[k]) = t
  BY DEF IInv, TypeOK, Arrived
<1>2. Head(ul[k]) \in ToSet(ul[k])
  BY <1>1, MessagesIn
<1> QED
  BY <1>1, <1>2 DEF Confirms

\* A step that changes no context and not the UE.
LEMMA QuietAnchor ==
  ASSUME AnchorInv, ctx' = ctx, ue' = ue,
         \A i \in Ids : Ends(i)' \subseteq Ends(i) /\ Confirms(i)' \subseteq Confirms(i)
  PROVE  AnchorInv'
BY DEF AnchorInv, UeAt, Served

\* A step that touches neither contexts, UE nor radio,
LEMMA StillAnchor ==
  ASSUME AnchorInv, ctx' = ctx, ue' = ue, dl' = dl, ul' = ul
  PROVE  AnchorInv'
BY DEF AnchorInv, UeAt, Served, Ends, Confirms

\* and one that ends in an assertion of the code.
LEMMA AbortAnchor ==
  ASSUME AnchorInv, NEW w, Abort(w)
  PROVE  AnchorInv'
BY StillAnchor DEF Abort

\* A step of an eNB that changes the context k only.
LEMMA EnbAnchor ==
  ASSUME IInv, AnchorInv, NEW k \in Ids, NEW d, ctx' = [ctx EXCEPT ![k] = d], ue' = ue,
         d.st \in Serving => UeAt(k),
         ctx[k].st \in Over => d.st \in Over \/ (Ends(k)' = {} /\ Confirms(k)' = {}),
         \A i \in Ids : Ends(i)' \subseteq Ends(i) \/ (i = k /\ d.st \in Over),
         \A i \in Ids : Confirms(i)' \subseteq Confirms(i)
  PROVE  AnchorInv'
<1>1. ctx'[k] = d /\ \A i \in Ids : i # k => ctx'[i] = ctx[i]
  BY DEF IInv, TypeOK
<1>2. \A i \in Ids : UeAt(i)' <=> UeAt(i)
  BY DEF UeAt, Served
<1>3. ASSUME NEW i \in Ids
      PROVE  /\ ctx'[i].st \in Serving => UeAt(i)
             /\ Ends(i)' # {} => ctx'[i].st \in Over
             /\ Confirms(i)' # {} => UeAt(i) \/ ctx'[i].st \in Over
  <2>1. CASE i = k
    BY <1>1, <2>1 DEF AnchorInv
  <2>2. CASE i # k
    BY <1>1, <2>2 DEF AnchorInv
  <2> QED
    BY <2>1, <2>2
<1>4. ue'.t300 => ue'.state = "IDLE_CONNECTING"
  BY DEF AnchorInv
<1> QED
  BY <1>2, <1>3, <1>4 DEF AnchorInv

\* A context that stays in its state, or among those that serve.
LEMMA SameAnchor ==
  ASSUME IInv, AnchorInv, NEW k \in Ids, NEW d, ctx' = [ctx EXCEPT ![k] = d], ue' = ue,
         d.st = ctx[k].st \/ (d.st \in Serving /\ ctx[k].st \in Serving),
         \A i \in Ids : Ends(i)' \subseteq Ends(i),
         \A i \in Ids : Confirms(i)' \subseteq Confirms(i)
  PROVE  AnchorInv'
<1>1. d.st \in Serving => UeAt(k)
  BY DEF AnchorInv
<1>2. ctx[k].st \in Over => d.st \in Over
  BY DEF Over, Serving
<1> QED
  BY <1>1, <1>2, EnbAnchor

\* RemoveUe: a context that is not there does not serve.
LEMMA RemovedAnchor ==
  ASSUME IInv, AnchorInv, NEW k \in Ids, NEW c, RemoveUe(k, c), ue' = ue
  PROVE  AnchorInv'
<1>1. PICK d : d = Erased(c)
  OBVIOUS
<1>2. d.st = "NONE" /\ ctx' = [ctx EXCEPT ![k] = d]
  BY <1>1 DEF Erased, Blank, RemoveUe
<1>3. d.st \notin Serving
  BY <1>2 DEF Serving
<1> QED
  BY <1>2, <1>3, Emptied, EnbAnchor DEF RemoveUe

\* What a context sends when it is connected does not end the connection.
LEMMA ConnectedEnds ==
  ASSUME IInv, NEW k \in Ids, NEW c, dl' = ConnectedDl(dl, k, c)
  PROVE  \A i \in Ids : Ends(i)' \subseteq Ends(i)
<1>1. Rrc("RECONF") \in RrcDown /\ Rrc("RECONF").type = "RECONF"
  BY RrcType DEF Rrc
<1>2. CASE c.pend
  BY <1>1, <1>2, EndsSent DEF ConnectedDl
<1>3. CASE ~c.pend
  BY <1>3 DEF ConnectedDl, Ends
<1> QED
  BY <1>2, <1>3

\* A step of the UE: contexts that serve are not left, and only the UE's own
\* context gets a confirmation.
LEMMA UeAnchor ==
  ASSUME AnchorInv, ctx' = ctx,
         \A i \in Ids : UeAt(i) => UeAt(i)' \/ ctx[i].st \in Over,
         \A i \in Ids : Ends(i)' \subseteq Ends(i),
         \A i \in Ids : Confirms(i)' \subseteq Confirms(i) \/ UeAt(i)' \/ ctx[i].st \in Over,
         ue'.t300 => ue'.state = "IDLE_CONNECTING"
  PROVE  AnchorInv'
<1>1. Over \cap Serving = {}
  BY DEF Over, Serving
<1>2. ASSUME NEW i \in Ids
      PROVE  /\ ctx'[i].st \in Serving => UeAt(i)'
             /\ Ends(i)' # {} => ctx'[i].st \in Over
             /\ Confirms(i)' # {} => UeAt(i)' \/ ctx'[i].st \in Over
  BY <1>1 DEF AnchorInv
<1> QED
  BY <1>2 DEF AnchorInv

\* The UE sends a confirmation over its own context, or nothing.
LEMMA UplinkConfirms ==
  ASSUME IInv, Served \in Ids, NEW m \in RrcUp, ul' = Uplink(ul, Served, m)
  PROVE  \A i \in Ids : i # Served => Confirms(i)' = Confirms(i)
<1>1. CASE Exists(Served)
  BY <1>1, ConfirmsSent DEF Uplink
<1>2. CASE ~Exists(Served)
  BY <1>2 DEF Uplink, Confirms
<1> QED
  BY <1>1, <1>2

\* A failed attempt leaves the UE idle.
LEMMA FailedIdle ==
  ASSUME NEW u \in Ue, u.t300 = FALSE
  PROVE  /\ Failed(u).t300 = FALSE
         /\ WaitingSib2(u).t300 = FALSE /\ WaitingSib2(u).state # "CONNECTED_NORMALLY"
         /\ Starting(u).t300 = FALSE /\ Starting(u).state # "CONNECTED_NORMALLY"
<1>1. Starting(u).t300 = FALSE /\ Starting(u).state # "CONNECTED_NORMALLY"
  BY DEF Starting, Ue
<1>2. WaitingSib2(u).t300 = FALSE /\ WaitingSib2(u).state # "CONNECTED_NORMALLY"
  BY DEF WaitingSib2, Starting, Ue
<1>3. Camped(u) \in Ue /\ Camped(u).t300 = FALSE
  BY <1>2, FailedType DEF Camped, Ue
<1> QED
  BY <1>1, <1>2, <1>3 DEF Failed, Ue

\* The steps of the UE's RRC.
LEMMA UeStepAnchor ==
  ASSUME IInv, AnchorInv,
         \/ UeConnect \/ UeRecvSystemInformation \/ UeRandomAccessFailed
         \/ UeHandoverAccess \/ UeConnectionTimeout \/ UeRecvConnectionSetup
         \/ UeRecvConnectionReject \/ UeRecvReconfiguration \/ UeRecvHandoverCommand
  PROVE  AnchorInv'
<1>0. /\ ue \in Ue /\ (ue.t300 => ue.state = "IDLE_CONNECTING")
      /\ \A i \in Ids : UeAt(i) <=> ue.state = "CONNECTED_NORMALLY" /\ Served = i
  BY DEF IInv, TypeOK, AnchorInv, UeAt
<1>a. ue.t300 \in BOOLEAN
  BY <1>0 DEF Ue
<1>b. ASSUME UNCHANGED <<dl, ul>>, UeUnchanged, ue.state # "CONNECTED_NORMALLY",
             ue'.t300 = FALSE
      PROVE  AnchorInv'
  BY <1>0, <1>b, UeAnchor DEF UeUnchanged, Ends, Confirms
<1>1. CASE UeConnect
  <2>0. PICK u \in Ue : u = [ue EXCEPT !.retry = FALSE]
    BY <1>0 DEF Ue
  <2>1. /\ u = [ue EXCEPT !.retry = FALSE]
        /\ ue' = IF u.state = "IDLE_CAMPED_NORMALLY"
                 THEN WaitingSib2([u EXCEPT !.pending = TRUE]) ELSE u
    BY <1>1, <2>0, Zenon DEF UeConnect
  <2>2. CASE u.state = "IDLE_CAMPED_NORMALLY"
    <3>1. PICK w \in Ue : w = [u EXCEPT !.pending = TRUE]
      BY DEF Ue
    <3>2. w.t300 = FALSE
      BY <1>0, <1>a, <2>1, <2>2, <3>1 DEF Ue
    <3>3. ue'.t300 = FALSE /\ ue.state # "CONNECTED_NORMALLY"
      BY <1>0, <2>1, <2>2, <3>1, <3>2, FailedIdle DEF Ue
    <3> QED
      BY <1>1, <1>b, <3>3 DEF UeConnect
  <2>3. CASE u.state # "IDLE_CAMPED_NORMALLY"
    <3>1. /\ ue'.state = ue.state /\ ue'.cell = ue.cell /\ ue'.rnti = ue.rnti
          /\ ue'.t300 = ue.t300
      BY <1>0, <2>1, <2>3 DEF Ue
    <3>2. /\ ctx' = ctx
          /\ \A i \in Ids : Ends(i)' = Ends(i) /\ Confirms(i)' = Confirms(i)
      BY <1>1 DEF UeConnect, UeUnchanged, Ends, Confirms
    <3>3. \A i \in Ids : UeAt(i)' <=> UeAt(i)
      BY <3>1 DEF UeAt, Served
    <3> QED
      BY <1>0, <3>1, <3>2, <3>3, UeAnchor
  <2> QED
    BY <2>2, <2>3
<1>2. CASE UeRecvSystemInformation
  <2>0. PICK u \in Ue : u = [ue EXCEPT !.sib2 = TRUE]
    BY <1>0 DEF Ue
  <2>1. /\ u = [ue EXCEPT !.sib2 = TRUE]
        /\ ue' = IF u.state = "IDLE_WAIT_SIB2" THEN Starting(u) ELSE u
    BY <1>2, <2>0, Zenon DEF UeRecvSystemInformation
  <2>2. CASE u.state = "IDLE_WAIT_SIB2"
    <3>1. u.t300 = FALSE /\ ue.state # "CONNECTED_NORMALLY"
      BY <1>0, <1>a, <2>1, <2>2 DEF Ue
    <3>2. ue'.t300 = FALSE
      BY <2>1, <2>2, <3>1, FailedIdle
    <3> QED
      BY <1>2, <1>b, <3>1, <3>2 DEF UeRecvSystemInformation
  <2>3. CASE u.state # "IDLE_WAIT_SIB2"
    <3>1. /\ ue'.state = ue.state /\ ue'.cell = ue.cell /\ ue'.rnti = ue.rnti
          /\ ue'.t300 = ue.t300
      BY <1>0, <2>1, <2>3 DEF Ue
    <3>2. /\ ctx' = ctx
          /\ \A i \in Ids : Ends(i)' = Ends(i) /\ Confirms(i)' = Confirms(i)
      BY <1>2 DEF UeRecvSystemInformation, UeUnchanged, Ends, Confirms
    <3>3. \A i \in Ids : UeAt(i)' <=> UeAt(i)
      BY <3>1 DEF UeAt, Served
    <3> QED
      BY <1>0, <3>1, <3>2, <3>3, UeAnchor
  <2> QED
    BY <2>2, <2>3
<1>3. CASE UeRandomAccessFailed
  <2>1. ue.state \in {"IDLE_RANDOM_ACCESS", "CONNECTED_HANDOVER"}
    BY <1>3 DEF UeRandomAccessFailed
  <2>2. ue.t300 = FALSE
    BY <1>0, <1>a, <2>1
  <2>3. Failed(ue).t300 = FALSE /\ [ue EXCEPT !.ra = FALSE].t300 = FALSE
    BY <1>0, <2>2, FailedIdle DEF Ue
  <2>4. ue'.t300 = FALSE
    BY <1>3, <2>3 DEF UeRandomAccessFailed
  <2> QED
    BY <1>3, <1>b, <2>1, <2>4 DEF UeRandomAccessFailed
<1>4. CASE UeHandoverAccess
  <2>1. /\ ue.state = "CONNECTED_HANDOVER" /\ ue.t300 = FALSE /\ Served \in Ids
    BY <1>0, <1>a, <1>4, ServedType DEF UeHandoverAccess, IInv, UeHasRnti
  <2>2. /\ ue'.state = "CONNECTED_NORMALLY" /\ ue'.cell = ue.cell /\ ue'.rnti = ue.rnti
        /\ ue'.t300 = FALSE
    BY <1>0, <1>4, <2>1 DEF UeHandoverAccess, Ue
  <2>3. UeAt(Served)' /\ Served' = Served
    BY <2>2 DEF UeAt, Served
  <2>4. ctx' = ctx /\ \A i \in Ids : Ends(i)' = Ends(i)
    BY <1>4 DEF UeHandoverAccess, UeUnchanged, Ends
  <2>5. \A i \in Ids : i # Served => Confirms(i)' = Confirms(i)
    BY <1>4, <2>1, UplinkConfirms DEF UeHandoverAccess, RrcUp
  <2>6. \A i \in Ids : Confirms(i)' \subseteq Confirms(i) \/ UeAt(i)'
    BY <2>3, <2>5 DEF UeAt
  <2>7. \A i \in Ids : ~UeAt(i)
    BY <2>1 DEF UeAt
  <2> QED
    BY <2>2, <2>4, <2>6, <2>7, UeAnchor
<1>5. CASE UeConnectionTimeout
  <2>1. ue.state = "IDLE_CONNECTING"
    BY <1>0, <1>5 DEF UeConnectionTimeout
  <2>2. PICK u \in Ue : u = [ue EXCEPT !.t300 = FALSE, !.sib2 = FALSE] /\ ue' = Failed(u)
    BY <1>0, <1>5 DEF UeConnectionTimeout, Ue
  <2>3. u.t300 = FALSE
    BY <1>0, <2>2 DEF Ue
  <2> QED
    BY <1>5, <1>b, <2>1, <2>2, <2>3, FailedIdle DEF UeConnectionTimeout
<1>6. CASE UeRecvConnectionSetup
  <2>1. CASE ue.state = "IDLE_CONNECTING"
    <3>1. Served \in Ids /\ dl[Served] # <<>>
      BY <1>6, HeardKeeps DEF UeRecvConnectionSetup, Heard, Pending
    <3>2. /\ ue'.state = "CONNECTED_NORMALLY" /\ ue'.cell = ue.cell /\ ue'.rnti = ue.rnti
          /\ ue'.t300 = FALSE
      BY <1>0, <1>6, <2>1 DEF UeRecvConnectionSetup, Ue
    <3>3. UeAt(Served)' /\ Served' = Served
      BY <3>2 DEF UeAt, Served
    <3>4. ctx' = ctx /\ \A i \in Ids : Ends(i)' \subseteq Ends(i)
      BY <1>6, <2>1, <3>1, EndsTaken DEF UeRecvConnectionSetup, UeUnchanged
    <3>5. \A i \in Ids : i # Served => Confirms(i)' = Confirms(i)
      BY <1>6, <2>1, <3>1, UplinkConfirms DEF UeRecvConnectionSetup, RrcUp
    <3>6. \A i \in Ids : Confirms(i)' \subseteq Confirms(i) \/ UeAt(i)'
      BY <3>3, <3>5 DEF UeAt
    <3>7. \A i \in Ids : ~UeAt(i)
      BY <2>1 DEF UeAt
    <3> QED
      BY <3>2, <3>4, <3>6, <3>7, UeAnchor
  <2>2. CASE ue.state # "IDLE_CONNECTING"
    BY <1>6, <2>2, AbortAnchor DEF UeRecvConnectionSetup
  <2> QED
    BY <2>1, <2>2
<1>7. CASE UeRecvConnectionReject
  <2>1. Served \in Ids /\ dl[Served] # <<>> /\ Pending(dl, Served, "REJECT")
    BY <1>7, HeardKeeps DEF UeRecvConnectionReject, Heard, Pending
  <2>2. ctx[Served].st \in Over
    BY <2>1, ReceivedEnds DEF AnchorInv
  <2>3. PICK u \in Ue : u = [ue EXCEPT !.t300 = FALSE, !.sib2 = FALSE] /\ ue' = Failed(u)
    BY <1>0, <1>7 DEF UeRecvConnectionReject, Ue
  <2>4. u.t300 = FALSE
    BY <1>0, <2>3 DEF Ue
  <2>5. ue'.t300 = FALSE
    BY <2>3, <2>4, FailedIdle
  <2>6. /\ ctx' = ctx /\ \A i \in Ids : Ends(i)' \subseteq Ends(i)
        /\ \A i \in Ids : Confirms(i)' = Confirms(i)
    BY <1>7, <2>1, EndsTaken DEF UeRecvConnectionReject, UeUnchanged, Confirms
  <2>7. \A i \in Ids : UeAt(i) => ctx[i].st \in Over
    BY <2>2 DEF UeAt
  <2> QED
    BY <2>5, <2>6, <2>7, UeAnchor
<1>8. CASE UeRecvReconfiguration
  <2>1. CASE ue.state = "CONNECTED_NORMALLY"
    <3>1. Served \in Ids /\ dl[Served] # <<>>
      BY <1>8, HeardKeeps DEF UeRecvReconfiguration, Heard, Pending
    <3>2. ue' = ue /\ \A i \in Ids : UeAt(i)' <=> UeAt(i)
      BY <1>8, <2>1 DEF UeRecvReconfiguration, UeAt, Served
    <3>3. UeAt(Served)
      BY <2>1 DEF UeAt
    <3>4. ctx' = ctx /\ \A i \in Ids : Ends(i)' \subseteq Ends(i)
      BY <1>8, <2>1, <3>1, EndsTaken DEF UeRecvReconfiguration, UeUnchanged
    <3>5. \A i \in Ids : i # Served => Confirms(i)' = Confirms(i)
      BY <1>8, <2>1, <3>1, UplinkConfirms DEF UeRecvReconfiguration, RrcUp
    <3>6. \A i \in Ids : Confirms(i)' \subseteq Confirms(i) \/ UeAt(i)'
      BY <3>1, <3>2, <3>3, <3>5
    <3> QED
      BY <1>0, <3>2, <3>4, <3>6, UeAnchor
  <2>2. CASE ue.state # "CONNECTED_NORMALLY"
    BY <1>8, <2>2, AbortAnchor DEF UeRecvReconfiguration
  <2> QED
    BY <2>1, <2>2
<1>9. CASE UeRecvHandoverCommand
  <2>1. CASE ue.state = "CONNECTED_NORMALLY"
    <3>1. Served \in Ids /\ dl[Served] # <<>> /\ Pending(dl, Served, "HO_COMMAND")
      BY <1>9, HeardKeeps DEF UeRecvHandoverCommand, Heard, Pending
    <3>2. ctx[Served].st \in Over
      BY <3>1, ReceivedEnds DEF AnchorInv
    <3>3. ue'.t300 = FALSE
      BY <1>0, <1>a, <1>9, <2>1 DEF UeRecvHandoverCommand, Ue
    <3>4. ctx' = ctx /\ \A i \in Ids : Ends(i)' \subseteq Ends(i)
      BY <1>9, <2>1, <3>1, EndsTaken DEF UeRecvHandoverCommand, UeUnchanged
    <3>5. \A i \in Ids : Confirms(i)' \subseteq Confirms(i)
      <4>1. ul' = [ul EXCEPT ![Served] = <<>>] /\ ul \in [Ids -> Seq(RrcUp)]
        BY <1>9, <2>1 DEF UeRecvHandoverCommand, IInv, TypeOK
      <4>2. ul'[Served] = <<>> /\ \A i \in Ids : i # Served => ul'[i] = ul[i]
        BY <3>1, <4>1
      <4> QED
        BY <4>2, ToSet(<<>>) = {} DEF Confirms, ToSet
    <3>6. \A i \in Ids : UeAt(i) => ctx[i].st \in Over
      BY <3>2 DEF UeAt
    <3> QED
      BY <3>3, <3>4, <3>5, <3>6, UeAnchor
  <2>2. CASE ue.state # "CONNECTED_NORMALLY"
    BY <1>9, <2>2, AbortAnchor DEF UeRecvHandoverCommand
  <2> QED
    BY <2>1, <2>2
<1> QED
  BY <1>1, <1>2, <1>3, <1>4, <1>5, <1>6, <1>7, <1>8, <1>9

\* A new context has no messages to or from the UE that say anything.
LEMMA NewAnchor ==
  ASSUME IInv, AnchorInv, NEW k \in Ids, ~Exists(k), ~UeAt(k)
  PROVE  Ends(k) = {} /\ Confirms(k) = {}
<1>1. ctx[k].st \notin Over
  BY DEF Exists, Over
<1> QED
  BY <1>1 DEF AnchorInv

\* Random access: the UE is idle, so that nobody serves it.
LEMMA RandomAccessAnchor ==
  ASSUME IInv, AnchorInv, RandomAccess
  PROVE  AnchorInv'
<1>0. /\ ue \in Ue /\ ue.state = "IDLE_RANDOM_ACCESS" /\ CanAddUe(ue.cell)
      /\ ue.cell \in Cells /\ ctx \in [Ids -> Context]
  BY DEF RandomAccess, IInv, TypeOK, Ue
<1>1. PICK k \in Ids : /\ k = <<ue.cell, NextRnti(ue.cell)>> /\ ~Exists(k)
                       /\ ctx' = [ctx EXCEPT ![k] = NewContext("connectionRequest")]
  BY <1>0, NewIsFree DEF RandomAccess
<1>2. \A i \in Ids : ~UeAt(i)
  BY <1>0 DEF UeAt
<1>3. /\ ctx'[k].st = "INITIAL_RANDOM_ACCESS"
      /\ \A i \in Ids : i # k => ctx'[i] = ctx[i]
  BY <1>0, <1>1 DEF NewContext, Blank, TimerState
<1>4. Ends(k) = {} /\ Confirms(k) = {}
  BY <1>1, <1>2, NewAnchor
<1>5. \A i \in Ids : Ends(i)' = Ends(i)
  BY DEF RandomAccess, Ends
<1>6. /\ \/ UNCHANGED <<ue, ul>>
         \/ ue' = Connecting(ue, NextRnti(ue.cell)) /\ ul' = Sent(ul, k, "REQUEST")
  BY <1>1, Zenon DEF RandomAccess
<1>7. \A i \in Ids : Confirms(i)' = Confirms(i)
  BY <1>6, ConfirmsSent DEF RrcUp, Confirms
<1>8. /\ \A i \in Ids : ~UeAt(i)'
      /\ ue'.t300 => ue'.state = "IDLE_CONNECTING"
  <2>1. CASE UNCHANGED <<ue, ul>>
    BY <1>2, <2>1 DEF AnchorInv, UeAt, Served
  <2>2. CASE ue' = Connecting(ue, NextRnti(ue.cell))
    <3>1. ue'.state = "IDLE_CONNECTING"
      BY <1>0, <2>2 DEF Connecting, Ue
    <3> QED
      BY <3>1 DEF UeAt
  <2> QED
    BY <1>6, <2>1, <2>2
<1>9. ASSUME NEW i \in Ids
      PROVE  /\ ctx'[i].st \notin Serving
             /\ Ends(i)' # {} => ctx'[i].st \in Over
             /\ Confirms(i)' # {} => ctx'[i].st \in Over
  <2>1. CASE i = k
    BY <1>3, <1>4, <1>5, <1>7, <2>1 DEF Serving
  <2>2. CASE i # k
    BY <1>2, <1>3, <1>5, <1>7, <2>2 DEF AnchorInv
  <2> QED
    BY <2>1, <2>2
<1> QED
  BY <1>8, <1>9 DEF AnchorInv

\* A message that gets lost tells nobody anything.
LEMMA LostAnchor ==
  ASSUME IInv, AnchorInv, NEW k \in Ids, Srb0MessageLost(k)
  PROVE  AnchorInv'
<1>1. CASE dl' = Taken(dl, k) /\ ul' = ul /\ dl[k] # <<>>
  BY <1>1, EndsTaken, QuietAnchor DEF Srb0MessageLost, Confirms
<1>2. CASE ul' = Taken(ul, k) /\ dl' = dl /\ ul[k] # <<>>
  BY <1>2, ConfirmsTaken, QuietAnchor DEF Srb0MessageLost, Ends
<1> QED
  BY <1>1, <1>2 DEF Srb0MessageLost, Pending, Arrived

\* The state of a context after SwitchToState(CONNECTED_NORMALLY).
LEMMA ConnectedServes ==
  ASSUME NEW c \in Context
  PROVE  Connected(c).st \in Serving
BY ConnectedType DEF Serving

\* The messages of the UE that a context receives.
LEMMA RrcAnchor ==
  ASSUME IInv, AnchorInv, NEW k \in Ids, RrcStep(k)
  PROVE  AnchorInv'
<1>0. /\ ctx \in [Ids -> Context] /\ ctx[k] \in Context
      /\ Over \cap Serving = {}
  BY DEF IInv, TypeOK, Over, Serving
<1>1. CASE RecvRrcConnectionRequest(k)
  <2>1. CASE ctx[k].st # "INITIAL_RANDOM_ACCESS"
    BY <1>1, <2>1, AbortAnchor DEF RecvRrcConnectionRequest
  <2>2. CASE ctx[k].st = "INITIAL_RANDOM_ACCESS"
    <3>1. PICK admit \in Admission, t \in {"connectionSetup", "connectionRejected"} :
            /\ t = IF admit THEN "connectionSetup" ELSE "connectionRejected"
            /\ ctx' = [ctx EXCEPT ![k] = Waits(Stopped(@, "connectionRequest"), t)]
            /\ dl' = Sent(dl, k, Rrc(IF admit THEN "SETUP" ELSE "REJECT"))
            /\ ul' = Taken(ul, k) /\ ue' = ue
      BY <1>1, <2>2 DEF RecvRrcConnectionRequest
    <3>2. PICK d : d = Waits(Stopped(ctx[k], "connectionRequest"), t)
      OBVIOUS
    <3>3. d.st = TimerState[t]
      <4>1. Stopped(ctx[k], "connectionRequest") \in Context
        BY <1>0, StoppedType DEF Timers
      <4> QED
        BY <3>2, <4>1 DEF Waits, Context
    <3>4. d.st \notin Serving /\ (t = "connectionRejected" => d.st \in Over)
      BY <3>3 DEF TimerState, Serving, Over
    <3>5. PICK m \in RrcDown : /\ m = Rrc(IF admit THEN "SETUP" ELSE "REJECT")
                               /\ dl' = Sent(dl, k, m)
                               /\ t # "connectionRejected" => m.type = "SETUP"
      BY <3>1, RrcType DEF Rrc
    <3>6. \A i \in Ids : Ends(i)' \subseteq Ends(i) \/ (i = k /\ d.st \in Over)
      BY <3>4, <3>5, EndsSent
    <3>7. ul[k] # <<>> /\ \A i \in Ids : Confirms(i)' \subseteq Confirms(i)
      BY <1>1, <3>1, ConfirmsTaken DEF RecvRrcConnectionRequest, Arrived
    <3>8. ctx' = [ctx EXCEPT ![k] = d]
      BY <1>0, <3>1, <3>2
    <3> QED
      BY <2>2, <3>1, <3>4, <3>6, <3>7, <3>8, EnbAnchor DEF Over
  <2> QED
    BY <2>1, <2>2
<1>2. CASE RecvRrcConnectionSetupCompleted(k)
  <2>1. CASE ctx[k].st # "CONNECTION_SETUP"
    BY <1>2, <2>1, AbortAnchor DEF RecvRrcConnectionSetupCompleted
  <2>2. CASE ctx[k].st = "CONNECTION_SETUP"
    <3>1. PICK c \in Context : c = Stopped(ctx[k], "connectionSetup")
      BY <1>0, StoppedType DEF Timers
    <3>2. /\ ctx' = [ctx EXCEPT ![k] = Connected(c)] /\ ue' = ue
          /\ dl' = ConnectedDl(dl, k, c) /\ ul' = Taken(ul, k) /\ ul[k] # <<>>
      BY <1>2, <2>2, <3>1 DEF RecvRrcConnectionSetupCompleted, Arrived
    <3>3. UeAt(k)
      <4>1. Confirms(k) # {}
        BY <1>2, ReceivedConfirms DEF RecvRrcConnectionSetupCompleted
      <4> QED
        BY <2>2, <4>1 DEF AnchorInv, Over
    <3>4. /\ \A i \in Ids : Ends(i)' \subseteq Ends(i)
          /\ \A i \in Ids : Confirms(i)' \subseteq Confirms(i)
      BY <3>2, ConnectedEnds, ConfirmsTaken
    <3> QED
      BY <2>2, <3>2, <3>3, <3>4, EnbAnchor DEF Over
  <2> QED
    BY <2>1, <2>2
<1>3. CASE RecvRrcConnectionReconfigurationCompleted(k)
  <2>0. ul[k] # <<>> /\ Confirms(k) # {}
    BY <1>3, ReceivedConfirms DEF RecvRrcConnectionReconfigurationCompleted, Arrived
  <2>1. CASE ctx[k].st = "CONNECTION_RECONFIGURATION"
    <3>1. Reconfigured(k) /\ ul' = Taken(ul, k) /\ ue' = ue
      BY <1>3, <2>1 DEF RecvRrcConnectionReconfigurationCompleted
    <3>2. PICK c \in Context : c = Connected(ctx[k]) /\ c.st \in Serving
      BY <1>0, ConnectedType, ConnectedServes
    <3>3. PICK d : /\ d = IF c.queued # 0 /\ c.st = "CONNECTED_NORMALLY"
                          THEN HandoverPrepared(c, c.queued) ELSE c
                   /\ ctx' = [ctx EXCEPT ![k] = d]
      BY <3>1, <3>2 DEF Reconfigured
    <3>4. d.st \in Serving
      <4>1. HandoverPrepared(c, c.queued).st = "HANDOVER_PREPARATION"
        BY DEF HandoverPrepared, Context
      <4> QED
        BY <3>2, <3>3, <4>1 DEF Serving
    <3>5. /\ \A i \in Ids : Ends(i)' \subseteq Ends(i)
          /\ \A i \in Ids : Confirms(i)' \subseteq Confirms(i)
      BY <2>0, <3>1, ConnectedEnds, ConfirmsTaken DEF Reconfigured
    <3>6. ctx[k].st \in Serving
      BY <2>1 DEF Serving
    <3> QED
      BY <3>1, <3>3, <3>4, <3>5, <3>6, SameAnchor
  <2>2. CASE ctx[k].st = "HANDOVER_JOINING"
    <3>1. Joined(k) /\ ul' = Taken(ul, k) /\ ue' = ue
      BY <1>3, <2>2 DEF RecvRrcConnectionReconfigurationCompleted
    <3>2. PICK c \in Context : c = Stopped(ctx[k], "handoverJoining")
      BY <1>0, StoppedType DEF Timers
    <3>3. PICK d : /\ d = [c EXCEPT !.st = "HANDOVER_PATH_SWITCH"]
                   /\ ctx' = [ctx EXCEPT ![k] = d] /\ dl' = dl
      BY <3>1, <3>2 DEF Joined
    <3>4. d.st = "HANDOVER_PATH_SWITCH"
      BY <3>3 DEF Context
    <3>5. UeAt(k)
      BY <2>0, <2>2 DEF AnchorInv, Over
    <3>6. /\ \A i \in Ids : Ends(i)' \subseteq Ends(i)
          /\ \A i \in Ids : Confirms(i)' \subseteq Confirms(i)
      BY <2>0, <3>1, <3>3, ConfirmsTaken DEF Ends
    <3> QED
      BY <2>2, <3>1, <3>3, <3>4, <3>5, <3>6, EnbAnchor DEF Over
  <2>3. CASE ctx[k].st \in {"CONNECTED_NORMALLY", "HANDOVER_LEAVING"}
    <3>1. ctx' = ctx /\ dl' = dl /\ ul' = Taken(ul, k) /\ ue' = ue
      BY <1>3, <2>3 DEF RecvRrcConnectionReconfigurationCompleted
    <3> QED
      BY <2>0, <3>1, QuietAnchor, ConfirmsTaken DEF Ends
  <2>4. CASE ctx[k].st \notin {"CONNECTION_RECONFIGURATION", "CONNECTED_NORMALLY",
                               "HANDOVER_LEAVING", "HANDOVER_JOINING"}
    BY <1>3, <2>4, AbortAnchor DEF RecvRrcConnectionReconfigurationCompleted
  <2> QED
    BY <2>1, <2>2, <2>3, <2>4
<1> QED
  BY <1>1, <1>2, <1>3 DEF RrcStep

\* The timers of a context, and the removal that one of them schedules.
LEMMA TimerAnchor ==
  ASSUME IInv, AnchorInv, NEW k \in Ids, TimerStep(k)
  PROVE  AnchorInv'
<1>0. ctx \in [Ids -> Context] /\ ctx[k] \in Context
  BY DEF IInv, TypeOK
<1>1. CASE \E t \in Timers : ContextTimeout(k, t)
  BY <1>1, RemovedAnchor, AbortAnchor DEF ContextTimeout, WrongTimeout, UeManagerNotFound
<1>2. CASE HandoverJoiningTimeout(k)
  <2>1. CASE InTimerState(k, "handoverJoining")
    <3>1. PICK d : /\ d = Stopped(ctx[k], "handoverJoining")
                   /\ ctx' = [ctx EXCEPT ![k] = d]
      BY <1>0, <1>2, <2>1 DEF HandoverJoiningTimeout
    <3>2. d.st = ctx[k].st
      BY <1>0, <3>1 DEF Stopped, Context
    <3> QED
      BY <1>2, <2>1, <3>1, <3>2, SameAnchor DEF HandoverJoiningTimeout, Ends, Confirms
  <2>2. CASE ~InTimerState(k, "handoverJoining")
    BY <1>2, <2>2, AbortAnchor
       DEF HandoverJoiningTimeout, WrongTimeout, UeManagerNotFound
  <2> QED
    BY <2>1, <2>2
<1>3. CASE ScheduledRemoval(k)
  BY <1>3, RemovedAnchor, AbortAnchor DEF ScheduledRemoval
<1> QED
  BY <1>1, <1>2, <1>3 DEF TimerStep

\* The X2-AP messages of a handover.
LEMMA X2Anchor ==
  ASSUME IInv, AnchorInv, NEW j \in DOMAIN x2, X2Step(j)
  PROVE  AnchorInv'
<1>z. ctx \in [Ids -> Context] /\ x2[j] \in X2Msg
  BY DEF IInv, TypeOK
<1>0. /\ ctx \in [Ids -> Context] /\ x2[j] \in X2Msg
      /\ x2[j].from \in Cells /\ x2[j].to \in Cells /\ x2[j].old \in Rntis
  BY <1>z DEF X2Msg
<1>a. PICK k \in Ids : k = <<x2[j].to, x2[j].old>>
  BY <1>0, IdParts
<1>1. CASE RecvHandoverRequest(j)
  <2>0. CanAddUe(x2[j].to)
    BY <1>1 DEF RecvHandoverRequest
  <2>1. PICK n \in Ids : n = <<x2[j].to, NextRnti(x2[j].to)>> /\ ~Exists(n)
    BY <1>0, <2>0, NewIsFree
  <2>2. \/ UNCHANGED <<ue, ctx, dl, ul>>
        \/ RemoveUe(n, NewContext("handoverJoining")) /\ ue' = ue
        \/ \E w : Abort(w)
        \/ /\ UNCHANGED <<ue, dl, ul>>
           /\ ctx' = [ctx EXCEPT ![n] =
                [NewContext("handoverJoining") EXCEPT
                   !.source = x2[j].from, !.sourceRnti = x2[j].old,
                   !.drbs = x2[j].drbs, !.teid = x2[j].teid,
                   !.pend = x2[j].drbs # {}]]
    BY <1>1, <2>1 DEF RecvHandoverRequest
  <2>3. CASE /\ UNCHANGED <<ue, dl, ul>>
             /\ ctx' = [ctx EXCEPT ![n] =
                  [NewContext("handoverJoining") EXCEPT
                     !.source = x2[j].from, !.sourceRnti = x2[j].old,
                     !.drbs = x2[j].drbs, !.teid = x2[j].teid,
                     !.pend = x2[j].drbs # {}]]
    <3>0. PICK d : /\ ctx' = [ctx EXCEPT ![n] = d]
                   /\ d = [NewContext("handoverJoining") EXCEPT
                             !.source = x2[j].from, !.sourceRnti = x2[j].old,
                             !.drbs = x2[j].drbs, !.teid = x2[j].teid,
                             !.pend = x2[j].drbs # {}]
      BY <2>3
    <3>1. d.st = "HANDOVER_JOINING" /\ ctx' = [ctx EXCEPT ![n] = d]
      BY <3>0 DEF NewContext, Blank, TimerState
    <3>2. d.st \notin Serving /\ ctx[n].st \notin Over
      BY <2>1, <3>1 DEF Serving, Over, Exists
    <3> QED
      BY <2>3, <3>1, <3>2, EnbAnchor DEF Ends, Confirms
  <2> QED
    BY <2>2, <2>3, StillAnchor, RemovedAnchor, AbortAnchor
<1>2. CASE RecvHandoverRequestAck(j)
  <2>0. x2[j].new \in Rntis
    BY <1>0, <1>2 DEF RecvHandoverRequestAck, X2Msg
  <2>1. \/ \E w : Abort(w)
        \/ /\ ctx' = [ctx EXCEPT ![k] = HandoverLeft(@)] /\ ue' = ue /\ ul' = ul
           /\ dl' = Sent(dl, k, HoCommand(x2[j].from, x2[j].new))
    BY <1>2, <1>a DEF RecvHandoverRequestAck, UeManagerNotFound
  <2>2. CASE /\ ctx' = [ctx EXCEPT ![k] = HandoverLeft(@)] /\ ue' = ue /\ ul' = ul
             /\ dl' = Sent(dl, k, HoCommand(x2[j].from, x2[j].new))
    <3>1. PICK d : d = HandoverLeft(ctx[k]) /\ ctx' = [ctx EXCEPT ![k] = d]
      BY <1>0, <2>2
    <3>2. d.st = "HANDOVER_LEAVING"
      BY <1>0, <3>1 DEF HandoverLeft, Context
    <3>3. d.st \in Over /\ d.st \notin Serving
      BY <3>2 DEF Over, Serving
    <3>4. PICK m \in RrcDown : dl' = Sent(dl, k, m)
      BY <1>0, <2>0, <2>2, HoCommandType
    <3> QED
      BY <2>2, <3>1, <3>3, <3>4, EndsSent, EnbAnchor DEF Confirms
  <2> QED
    BY <2>1, <2>2, AbortAnchor
<1>3. CASE RecvHandoverPreparationFailure(j)
  <2>1. \/ \E w : Abort(w)
        \/ /\ ctx[k].st = "HANDOVER_PREPARATION" /\ ue' = ue /\ ul' = ul
           /\ ctx' = [ctx EXCEPT ![k] = Connected(ctx[k])]
           /\ dl' = ConnectedDl(dl, k, ctx[k])
        \/ /\ ctx' = [ctx EXCEPT ![k] = ctx[k]] /\ UNCHANGED <<ue, dl, ul>>
    BY <1>3, <1>a DEF RecvHandoverPreparationFailure
  <2>2. CASE /\ ctx[k].st = "HANDOVER_PREPARATION" /\ ue' = ue /\ ul' = ul
             /\ ctx' = [ctx EXCEPT ![k] = Connected(ctx[k])]
             /\ dl' = ConnectedDl(dl, k, ctx[k])
    <3>1. Connected(ctx[k]).st \in Serving /\ ctx[k].st \in Serving
      BY <1>0, <2>2, ConnectedServes DEF Serving
    <3> QED
      BY <2>2, <3>1, ConnectedEnds, SameAnchor DEF Confirms
  <2>3. CASE ctx' = [ctx EXCEPT ![k] = ctx[k]] /\ UNCHANGED <<ue, dl, ul>>
    BY <1>0, <2>3, StillAnchor
  <2> QED
    BY <2>1, <2>2, <2>3, AbortAnchor
<1>4. CASE RecvSnStatusTransfer(j)
  BY <1>4, StillAnchor, AbortAnchor DEF RecvSnStatusTransfer, UeManagerNotFound
<1>5. CASE RecvUeContextRelease(j)
  <2>1. \/ \E w : Abort(w)
        \/ RemoveUe(k, Stopped(ctx[k], "handoverLeaving")) /\ ue' = ue
    BY <1>5, <1>a DEF RecvUeContextRelease
  <2> QED
    BY <2>1, RemovedAnchor, AbortAnchor
<1> QED
  BY <1>1, <1>2, <1>3, <1>4, <1>5 DEF X2Step

\* The S1-AP messages.
LEMMA S1Anchor ==
  ASSUME IInv, AnchorInv, NEW c \in Cells, S1Step(c)
  PROVE  AnchorInv'
<1>0. /\ ctx \in [Ids -> Context] /\ enbApp[c].rnti \in Rntis \union {0}
  BY DEF IInv, TypeOK, EnbApp
<1>1. CASE MmeRecvInitialUe(c) \/ MmeRecvPathSwitch(c) \/ MmeRecvErabRelease(c)
  BY <1>1, StillAnchor
     DEF MmeRecvInitialUe, MmeRecvPathSwitch, MmeRecvErabRelease, MmeUnchanged
<1>2. CASE RecvContextSetup(c)
  <2>1. CASE \E w : Abort(w)
    BY <2>1, AbortAnchor
  <2>2. CASE ~\E w : Abort(w)
    <3>1. enbApp[c].rnti # 0
      BY <1>2, <2>2 DEF RecvContextSetup, UeManagerNotFound
    <3>2. PICK k \in Ids : k = <<c, enbApp[c].rnti>>
      BY <1>0, <3>1, IdParts
    <3>3. PICK set, done :
            /\ set = [ctx[k] EXCEPT !.drbs = Head(s1down[c]).bearers,
                                    !.teid = Head(s1down[c]).teid, !.pend = TRUE]
            /\ done = IF SendsNow(set)
                      THEN [Connected(set) EXCEPT
                              !.pend = Cardinality(Head(s1down[c]).bearers) > 1]
                      ELSE set
            /\ ctx' = [ctx EXCEPT ![k] = done]
            /\ dl' = IF SendsNow(set) THEN ConnectedDl(dl, k, set) ELSE dl
            /\ UNCHANGED <<ue, ul>>
      BY <1>2, <2>2, <3>2 DEF RecvContextSetup, UeManagerNotFound
    <3>4. /\ set.st = ctx[k].st
          /\ Connected(set).st = "CONNECTION_RECONFIGURATION"
          /\ [Connected(set) EXCEPT
                !.pend = Cardinality(Head(s1down[c]).bearers) > 1].st = Connected(set).st
      BY <1>0, <3>3 DEF Context, Connected
    <3>5. \/ done.st = ctx[k].st
          \/ done.st \in Serving /\ ctx[k].st \in Serving
      BY <3>3, <3>4 DEF SendsNow, Serving
    <3>6. /\ \A i \in Ids : Ends(i)' \subseteq Ends(i)
          /\ \A i \in Ids : Confirms(i)' \subseteq Confirms(i)
      <4>1. CASE SendsNow(set)
        BY <3>3, <4>1, ConnectedEnds DEF Confirms
      <4>2. CASE ~SendsNow(set)
        BY <3>3, <4>2 DEF Ends, Confirms
      <4> QED
        BY <4>1, <4>2
    <3> QED
      BY <3>3, <3>5, <3>6, SameAnchor
  <2> QED
    BY <2>1, <2>2
<1>3. CASE RecvPathSwitchAck(c)
  <2>1. CASE \E w : Abort(w)
    BY <2>1, AbortAnchor
  <2>2. CASE ~\E w : Abort(w)
    <3>1. enbApp[c].rnti # 0
      BY <1>3, <2>2 DEF RecvPathSwitchAck, UeManagerNotFound
    <3>2. PICK k \in Ids : k = <<c, enbApp[c].rnti>>
      BY <1>0, <3>1, IdParts
    <3>3. /\ ctx[k].st = "HANDOVER_PATH_SWITCH" /\ UNCHANGED <<ue, ul>>
          /\ ctx' = [ctx EXCEPT ![k] = Connected(ctx[k])]
          /\ dl' = ConnectedDl(dl, k, ctx[k])
      BY <1>3, <2>2, <3>2 DEF RecvPathSwitchAck, UeManagerNotFound
    <3>4. Connected(ctx[k]).st \in Serving /\ ctx[k].st \in Serving
      BY <1>0, <3>3, ConnectedServes DEF Serving
    <3> QED
      BY <3>3, <3>4, ConnectedEnds, SameAnchor DEF Confirms
  <2> QED
    BY <2>1, <2>2
<1> QED
  BY <1>1, <1>2, <1>3 DEF S1Step

\* What is asked of a context.
LEMMA RequestAnchor ==
  ASSUME IInv, AnchorInv, NEW k \in Ids,
         \/ SendHandoverRequest(k)
         \/ ScheduleRrcConnectionReconfiguration(k)
         \/ ReleaseDataRadioBearer(k)
  PROVE  AnchorInv'
<1>0. ctx \in [Ids -> Context] /\ ctx[k] \in Context
  BY DEF IInv, TypeOK
<1>1. CASE SendHandoverRequest(k)
  <2>1. PICK t \in Cells :
          \/ \E w : Abort(w)
          \/ /\ ctx[k].st = "CONNECTED_NORMALLY" /\ UNCHANGED <<ue, dl, ul>>
             /\ ctx' = [ctx EXCEPT ![k] = HandoverPrepared(@, t)]
          \/ ctx' = [ctx EXCEPT ![k].queued = t] /\ UNCHANGED <<ue, dl, ul>>
    BY <1>1 DEF SendHandoverRequest
  <2>2. CASE /\ ctx[k].st = "CONNECTED_NORMALLY" /\ UNCHANGED <<ue, dl, ul>>
             /\ ctx' = [ctx EXCEPT ![k] = HandoverPrepared(@, t)]
    <3>1. PICK d : d = HandoverPrepared(ctx[k], t) /\ ctx' = [ctx EXCEPT ![k] = d]
      BY <1>0, <2>2
    <3>2. d.st \in Serving /\ ctx[k].st \in Serving
      BY <1>0, <2>2, <3>1 DEF HandoverPrepared, Context, Serving
    <3> QED
      BY <2>2, <3>1, <3>2, SameAnchor DEF Ends, Confirms
  <2>3. CASE ctx' = [ctx EXCEPT ![k].queued = t] /\ UNCHANGED <<ue, dl, ul>>
    <3>1. PICK d : d = [ctx[k] EXCEPT !.queued = t] /\ ctx' = [ctx EXCEPT ![k] = d]
      BY <1>0, <2>3
    <3>2. d.st = ctx[k].st
      BY <1>0, <3>1 DEF Context
    <3> QED
      BY <2>3, <3>1, <3>2, SameAnchor DEF Ends, Confirms
  <2> QED
    BY <2>1, <2>2, <2>3, AbortAnchor
<1>2. CASE ScheduleRrcConnectionReconfiguration(k)
  <2>1. CASE \E w : Abort(w)
    BY <2>1, AbortAnchor
  <2>2. CASE ~\E w : Abort(w)
    <3>1. PICK c \in Context : c = [ctx[k] EXCEPT !.pend = TRUE]
      BY <1>0 DEF Context
    <3>2. /\ UNCHANGED <<ue, ul>>
          /\ ctx' = [ctx EXCEPT ![k] = IF SendsNow(c) THEN Connected(c) ELSE c]
          /\ dl' = IF SendsNow(c) THEN ConnectedDl(dl, k, c) ELSE dl
      BY <1>2, <2>2, <3>1 DEF ScheduleRrcConnectionReconfiguration
    <3>3. c.st = ctx[k].st
      BY <1>0, <3>1 DEF Context
    <3>4. CASE SendsNow(c)
      <4>1. Connected(c).st \in Serving /\ ctx[k].st \in Serving
        BY <3>3, <3>4, ConnectedServes DEF SendsNow, Serving
      <4> QED
        BY <3>2, <3>4, <4>1, ConnectedEnds, SameAnchor DEF Confirms
    <3>5. CASE ~SendsNow(c)
      BY <3>2, <3>3, <3>5, SameAnchor DEF Ends, Confirms
    <3> QED
      BY <3>4, <3>5
  <2> QED
    BY <2>1, <2>2
<1>3. CASE ReleaseDataRadioBearer(k)
  <2>1. PICK b : ctx' = [ctx EXCEPT ![k].drbs = @ \ {b}]
    BY <1>3 DEF ReleaseDataRadioBearer
  <2>2. PICK d : /\ d = [ctx[k] EXCEPT !.drbs = ctx[k].drbs \ {b}]
                 /\ ctx' = [ctx EXCEPT ![k] = d]
    BY <1>0, <2>1
  <2>3. d.st = ctx[k].st
    BY <1>0, <2>2 DEF Context
  <2>4. dl' = Sent(dl, k, Rrc("RECONF")) /\ UNCHANGED <<ue, ul>>
    BY <1>3 DEF ReleaseDataRadioBearer
  <2>5. Rrc("RECONF") \in RrcDown /\ Rrc("RECONF").type = "RECONF"
    BY RrcType DEF Rrc
  <2> QED
    BY <2>2, <2>3, <2>4, <2>5, EndsSent, SameAnchor DEF Confirms
<1> QED
  BY <1>1, <1>2, <1>3

\* Every step keeps the invariant,
LEMMA NextAnchor == IInv /\ AnchorInv /\ [Next]_vars => AnchorInv'
<1> SUFFICES ASSUME IInv, AnchorInv, [Next]_vars
             PROVE  AnchorInv'
  OBVIOUS
<1>1. CASE UeStep
  BY <1>1, UeStepAnchor, RandomAccessAnchor DEF UeStep
<1>2. CASE UeConnectionTimeout
  BY <1>2, UeStepAnchor
<1>3. CASE \E k \in Ids : RrcStep(k) \/ TimerStep(k)
  BY <1>3, RrcAnchor, TimerAnchor
<1>4. CASE \E i \in DOMAIN x2 : X2Step(i)
  BY <1>4, X2Anchor
<1>5. CASE \E c \in Cells : S1Step(c)
  BY <1>5, S1Anchor
<1>6. CASE Environment
  BY <1>6, UeStepAnchor, LostAnchor, RequestAnchor DEF Environment
<1>7. CASE UNCHANGED vars
  BY <1>7, StillAnchor DEF vars
<1> QED
  BY <1>1, <1>2, <1>3, <1>4, <1>5, <1>6, <1>7 DEF Next

\* and it holds in the beginning, with the UE connected or not.
LEMMA InitAnchor == Init => AnchorInv
<1> SUFFICES ASSUME Init PROVE AnchorInv
  OBVIOUS
<1>1. HomeId \in Ids /\ HomeId = <<HomeCell, 1>>
  BY HomeCellType, IdParts, BoundsAssumption DEF HomeId, Rntis
<1>2. /\ \A k \in Ids : dl[k] = <<>> /\ ul[k] = <<>>
      /\ ctx = [k \in Ids |-> IF StartConnected /\ k = HomeId THEN Attached ELSE Blank]
      /\ ue = InitUe
  BY DEF Init
<1>3. \A k \in Ids : Ends(k) = {} /\ Confirms(k) = {}
  BY <1>2, ToSet(<<>>) = {} DEF Ends, Confirms, ToSet
<1>4. ASSUME NEW k \in Ids, ctx[k].st \in Serving PROVE UeAt(k)
  <2>1. StartConnected /\ k = HomeId
    BY <1>2, <1>4 DEF Blank, Serving
  <2> QED
    BY <1>1, <1>2, <2>1 DEF InitUe, UeAt, Served
<1>5. ue.t300 = FALSE
  BY <1>2 DEF InitUe
<1> QED
  BY <1>3, <1>4, <1>5 DEF AnchorInv

\* A set with at most one element.
LEMMA AtMostOne ==
  ASSUME NEW S, NEW x, S \subseteq {x}
  PROVE  Cardinality(S) <= 1
<1>1. CASE S = {}
  BY <1>1, FS_EmptySet
<1>2. CASE S # {}
  BY <1>2, FS_Singleton
<1> QED
  BY <1>1, <1>2

\* At no time do two eNBs take themselves for the serving one, whatever is lost,
\* overtakes or times out: DoRecvHandoverRequestAck has the source leave before the UE
\* can reach the target, and only the UE's RRC CONNECTION RECONFIGURATION COMPLETED has
\* the target enter a serving state.
THEOREM OneServingContext == Spec => []OneAnchor
<1>1. AnchorInv => OneAnchor
  <2> SUFFICES ASSUME AnchorInv PROVE OneAnchor
    OBVIOUS
  <2>1. {k \in Ids : ctx[k].st \in Serving} \subseteq {Served}
    BY DEF AnchorInv, UeAt
  <2> QED
    BY <2>1, AtMostOne DEF OneAnchor
<1>2. Spec => []IInv
  BY Invariance
<1>3. IInv /\ AnchorInv /\ [Next]_vars => AnchorInv'
  BY NextAnchor
<1>4. Init => AnchorInv
  BY InitAnchor
<1> QED
  BY <1>1, <1>2, <1>3, <1>4, PTL DEF Spec

-----------------------------------------------------------------------------
(* The tables.                                                             *)

\* What the messages of a preparation say of the context that waits for it; what a
\* table says of a context.
Asks(m)     == m.type \in {"HO_REQUEST", "HO_ACK"}
Given(k)    == Rnti(k) <= lastRnti[EnbCell(k)]
TeidOf(k)   == enbApp[EnbCell(k)].teid[Rnti(k)]
Bears(f, k, g) == f[k].st # "NONE" /\ f[k].teid = g /\ 1 \in f[k].drbs

\* A context that has bearers has the default one, and but for one that joins the S1
\* application knows its tunnel.
ContextOk(k) ==
  ctx[k].drbs # {} => /\ 1 \in ctx[k].drbs
                      /\ ctx[k].st \notin {"NONE", "HANDOVER_JOINING"}
                         => TeidOf(k) = ctx[k].teid

\* Whoever has asked for a preparation is not being handed over itself.
MessageOk(m) ==
  /\ m.drbs # {} => 1 \in m.drbs
  /\ Asks(m) => Given(Asker(m)) /\ ctx[Asker(m)].st # "HANDOVER_JOINING"

RoutesOk(c, g) ==
  /\ x2u[c][g] # 0 => Bears(ctx, <<c, x2u[c][g]>>, g)
  /\ enbApp[c].flow[g] # 0 => /\ Bears(ctx, <<c, enbApp[c].flow[g]>>, g)
                              /\ enbApp[c].teid[enbApp[c].flow[g]] = g

\* The default bearer is set up first and released last.
S1Ok ==
  /\ 1 \in epc.bearers
  /\ \A c \in Cells : /\ \A m \in ToSet(s1up[c]) : m.bearer # 1
                      /\ \A m \in ToSet(s1down[c]) : m.type = "CTX_SETUP" => 1 \in m.bearers

TablesInv == /\ \A k \in Ids : ContextOk(k)
             /\ \A m \in ToSet(x2) : MessageOk(m)
             /\ \A c \in Cells, g \in Teids : RoutesOk(c, g)
             /\ S1Ok

\* The context that a message of a preparation belongs to.
LEMMA AskerIsId ==
  ASSUME NEW m \in X2Msg
  PROVE  Asker(m) \in Ids
BY IdParts DEF Asker, X2Msg

\* A queue without one of its messages.
LEMMA MessagesTaken ==
  ASSUME NEW S, NEW s \in Seq(S), NEW i \in DOMAIN s
  PROVE  RemoveAt(s, i) \in Seq(S) /\ ToSet(RemoveAt(s, i)) \subseteq ToSet(s)
<1>1. /\ RemoveAt(s, i) \in Seq(S) /\ DOMAIN RemoveAt(s, i) = 1..(Len(s) - 1)
      /\ \A j \in 1..(Len(s) - 1) :
            RemoveAt(s, i)[j] = IF j < i THEN s[j] ELSE s[j + 1]
  BY RemoveAtElements
<1>2. Len(s) \in Nat /\ DOMAIN s = 1..Len(s)
  OBVIOUS
<1>3. ASSUME NEW j \in 1..(Len(s) - 1)
      PROVE  RemoveAt(s, i)[j] \in ToSet(s)
  <2>1. j \in DOMAIN s /\ j + 1 \in DOMAIN s
    BY <1>2
  <2>2. RemoveAt(s, i)[j] = s[j] \/ RemoveAt(s, i)[j] = s[j + 1]
    BY <1>1
  <2> QED
    BY <2>1, <2>2 DEF ToSet
<1> QED
  BY <1>1, <1>3 DEF ToSet

\* The messages on the X2 links when one of them is taken, or answered, or another is
\* sent.
LEMMA X2Messages ==
  ASSUME IInv, NEW r \in X2Msg
  PROVE  /\ ToSet(Append(x2, r)) = ToSet(x2) \union {r}
         /\ \A i \in DOMAIN x2 : /\ x2[i] \in ToSet(x2) /\ x2[i] \in X2Msg
                                 /\ ToSet(X2Taken(i)) \subseteq ToSet(x2)
                                 /\ ToSet(X2Answered(i, r)) \subseteq ToSet(x2) \union {r}
<1>1. x2 \in Seq(X2Msg)
  BY DEF IInv, TypeOK
<1>2. ASSUME NEW i \in DOMAIN x2
      PROVE  /\ x2[i] \in ToSet(x2) /\ x2[i] \in X2Msg
             /\ ToSet(X2Taken(i)) \subseteq ToSet(x2)
             /\ ToSet(X2Answered(i, r)) \subseteq ToSet(x2) \union {r}
  <2>1. X2Taken(i) \in Seq(X2Msg) /\ ToSet(X2Taken(i)) \subseteq ToSet(x2)
    BY <1>1, MessagesTaken DEF X2Taken
  <2>2. ToSet(X2Answered(i, r)) = ToSet(X2Taken(i)) \union {r}
    BY <2>1, MessagesIn DEF X2Answered
  <2>3. x2[i] \in ToSet(x2) /\ x2[i] \in X2Msg
    BY <1>1 DEF ToSet
  <2> QED
    BY <2>1, <2>2, <2>3
<1> QED
  BY <1>1, <1>2, MessagesIn

\* The messages under way between the eNBs.
LEMMA X2Typed ==
  ASSUME IInv
  PROVE  ToSet(x2) \subseteq X2Msg
BY DEF IInv, TypeOK, ToSet

-----------------------------------------------------------------------------
(* The tables after a step.                                                *)

\* The messages on the X2 links are in order after a step in which contexts keep
\* their RNTIs and those that do not join do not begin to.
LEMMA X2Ok ==
  ASSUME IInv, TablesInv,
         \A k \in Ids : Given(k) => Given(k)',
         \A k \in Ids : Given(k) /\ ctx[k].st # "HANDOVER_JOINING"
                        => ctx'[k].st # "HANDOVER_JOINING",
         \A m \in ToSet(x2') : m \in ToSet(x2) \/ MessageOk(m)'
  PROVE  \A m \in ToSet(x2') : MessageOk(m)'
<1>1. ASSUME NEW m \in ToSet(x2) PROVE MessageOk(m)'
  <2>1. Asker(m) \in Ids /\ MessageOk(m)
    BY X2Typed, AskerIsId DEF TablesInv
  <2> QED
    BY <2>1 DEF MessageOk, Asks, Asker
<1> QED
  BY <1>1

\* Nothing happens to the contexts and the tables.
LEMMA SameTables ==
  ASSUME IInv, TablesInv, UNCHANGED <<ctx, lastRnti, x2u, enbApp>>, S1Ok',
         \A m \in ToSet(x2') : MessageOk(m)'
  PROVE  TablesInv'
<1>1. \A k \in Ids : ContextOk(k)'
  BY DEF TablesInv, ContextOk, TeidOf
<1>2. \A c \in Cells, g \in Teids : RoutesOk(c, g)'
  BY DEF TablesInv, RoutesOk, Bears, Exists
<1> QED
  BY <1>1, <1>2 DEF TablesInv

\* A step that touches no context and no table and sends nothing over X2,
LEMMA QuietTables ==
  ASSUME IInv, TablesInv, UNCHANGED <<ctx, lastRnti, x2u, enbApp>>, S1Ok',
         ToSet(x2') \subseteq ToSet(x2)
  PROVE  TablesInv'
<1>1. \A k \in Ids : Given(k)' <=> Given(k)
  BY DEF Given
<1>2. \A m \in ToSet(x2') : MessageOk(m)'
  BY <1>1, X2Ok
<1> QED
  BY <1>2, SameTables

\* one that touches the S1 links neither,
LEMMA StillTables ==
  ASSUME IInv, TablesInv, UNCHANGED <<ctx, lastRnti, x2, x2u, s1up, s1down, enbApp, epc>>
  PROVE  TablesInv'
BY QuietTables DEF TablesInv, S1Ok

\* and one that ends in an assertion of the code.
LEMMA AbortTables ==
  ASSUME IInv, TablesInv, NEW w, Abort(w)
  PROVE  TablesInv'
BY StillTables DEF Abort

\* Context k becomes d, with the same tunnel and the default bearer if it had that; it
\* has been there and does not begin to join or stop joining.
Steady(k, d) ==
  /\ ctx' = [ctx EXCEPT ![k] = d] /\ Exists(k) /\ d.st # "NONE"
  /\ d.st = "HANDOVER_JOINING" => ctx[k].st = "HANDOVER_JOINING"
  /\ ctx[k].st = "HANDOVER_JOINING" => d.st = "HANDOVER_JOINING" \/ d.drbs = {}
  /\ d.teid = ctx[k].teid /\ d.drbs \subseteq ctx[k].drbs
  /\ 1 \in ctx[k].drbs => 1 \in d.drbs
  /\ UNCHANGED <<lastRnti, x2u>>
  /\ \A c \in Cells : enbApp'[c].flow = enbApp[c].flow /\ enbApp'[c].teid = enbApp[c].teid

\* Such a step keeps the tables true when its messages are in order.
LEMMA SteadyTables ==
  ASSUME IInv, TablesInv, NEW k \in Ids, NEW d, Steady(k, d), S1Ok',
         \A m \in ToSet(x2') : m \in ToSet(x2) \/ MessageOk(m)'
  PROVE  TablesInv'
<1>1. ctx'[k] = d /\ \A i \in Ids : i # k => ctx'[i] = ctx[i]
  BY DEF Steady, IInv, TypeOK
<1>2. \A m \in ToSet(x2') : MessageOk(m)'
  <2>1. \A i \in Ids : Given(i)' <=> Given(i)
    BY DEF Steady, Given
  <2>2. \A i \in Ids : ctx[i].st # "HANDOVER_JOINING" => ctx'[i].st # "HANDOVER_JOINING"
    BY <1>1 DEF Steady
  <2> QED
    BY <2>1, <2>2, X2Ok
<1>3. \A i \in Ids : TeidOf(i)' = TeidOf(i)
  BY IdParts DEF Steady, TeidOf
<1>4. \A i \in Ids : ContextOk(i)'
  <2>1. ASSUME NEW i \in Ids, i # k PROVE ContextOk(i)'
    BY <1>1, <1>3, <2>1 DEF TablesInv, ContextOk
  <2>2. ContextOk(k)'
    BY <1>1, <1>3 DEF TablesInv, ContextOk, Steady, Exists
  <2> QED
    BY <2>1, <2>2
<1>5. ASSUME NEW c \in Cells, NEW g \in Teids PROVE RoutesOk(c, g)'
  <2>1. \A i \in Ids : Bears(ctx, i, g) => Bears(ctx', i, g)
    BY <1>1 DEF Bears, Steady, Exists
  <2>2. /\ x2u[c][g] \in Rntis \union {0} /\ enbApp[c].flow[g] \in Rntis \union {0}
    BY DEF IInv, TypeOK, EnbApp
  <2>3. /\ x2u[c][g] # 0 => <<c, x2u[c][g]>> \in Ids
        /\ enbApp[c].flow[g] # 0 => <<c, enbApp[c].flow[g]>> \in Ids
    BY <2>2, IdParts
  <2>4. /\ x2u'[c][g] = x2u[c][g] /\ enbApp'[c].flow[g] = enbApp[c].flow[g]
        /\ enbApp'[c].teid = enbApp[c].teid
    BY DEF Steady
  <2>5. RoutesOk(c, g)
    BY DEF TablesInv
  <2> QED
    BY <2>1, <2>3, <2>4, <2>5 DEF RoutesOk
<1> QED
  BY <1>2, <1>4, <1>5 DEF TablesInv

\* No table names a context that does not exist or has no bearers, and those that
\* name one name it for its own tunnel.
LEMMA Named ==
  ASSUME IInv, TablesInv, NEW c \in Cells, NEW g \in Teids
  PROVE  /\ x2u[c][g] \in Rntis \union {0} /\ enbApp[c].flow[g] \in Rntis \union {0}
         /\ x2u[c][g] # 0 => <<c, x2u[c][g]>> \in Ids /\ Bears(ctx, <<c, x2u[c][g]>>, g)
         /\ enbApp[c].flow[g] # 0 =>
              /\ <<c, enbApp[c].flow[g]>> \in Ids /\ Bears(ctx, <<c, enbApp[c].flow[g]>>, g)
              /\ enbApp[c].teid[enbApp[c].flow[g]] = g
<1>1. /\ x2u[c][g] \in Rntis \union {0} /\ enbApp[c].flow[g] \in Rntis \union {0}
  BY DEF IInv, TypeOK, EnbApp
<1>2. /\ x2u[c][g] # 0 => <<c, x2u[c][g]>> \in Ids
      /\ enbApp[c].flow[g] # 0 => <<c, enbApp[c].flow[g]>> \in Ids
  BY <1>1, IdParts
<1>3. RoutesOk(c, g)
  BY DEF TablesInv
<1> QED
  BY <1>1, <1>2, <1>3 DEF RoutesOk

\* RemoveUe takes what the tables say of the context with it: c is what was there, or
\* the context is new and in no table.
LEMMA RemovedTables ==
  ASSUME IInv, TablesInv, NEW k \in Ids, NEW c, RemoveUe(k, c),
         ~Exists(k) \/ (c.drbs = ctx[k].drbs /\ c.teid = ctx[k].teid),
         \A i \in Ids : Given(i) => Given(i)', S1Ok', ToSet(x2') \subseteq ToSet(x2)
  PROVE  TablesInv'
<1>0. PICK b \in Cells, r \in Rntis : k = <<b, r>> /\ EnbCell(k) = b /\ Rnti(k) = r
  BY DEF Ids, EnbCell, Rnti
<1>1. /\ ctx'[k].st = "NONE" /\ ctx'[k].drbs = {}
      /\ \A i \in Ids : i # k => ctx'[i] = ctx[i]
  <2>1. ctx \in [Ids -> Context] /\ ctx' = [ctx EXCEPT ![k] = Erased(c)]
    BY DEF RemoveUe, IInv, TypeOK
  <2>2. Erased(c).st = "NONE" /\ Erased(c).drbs = {}
    BY DEF Erased, Blank
  <2> QED
    BY <2>1, <2>2
<1>2. \A m \in ToSet(x2') : MessageOk(m)'
  <2>2. \A i \in Ids : Given(i) /\ ctx[i].st # "HANDOVER_JOINING"
                       => ctx'[i].st # "HANDOVER_JOINING"
    BY <1>1
  <2> QED
    BY <2>2, X2Ok
<1>3. /\ enbApp \in [Cells -> EnbApp] /\ enbApp[b] \in EnbApp
      /\ x2u \in [Cells -> [Teids -> Rntis \union {0}]]
  BY DEF IInv, TypeOK
<1>4. PICK a : a = UeContextReleased(enbApp[b], r) /\ enbApp' = [enbApp EXCEPT ![b] = a]
  BY <1>0, <1>3 DEF RemoveUe
<1>5. /\ \A i \in Rntis : i # r => a.teid[i] = enbApp[b].teid[i]
      /\ \A g \in Teids : a.flow[g] = IF g = enbApp[b].teid[r] THEN 0 ELSE enbApp[b].flow[g]
  <2>0. \A g \in Teids : g # 0
    BY NotZero
  <2>1. CASE enbApp[b].teid[r] = 0
    BY <1>4, <2>0, <2>1 DEF UeContextReleased
  <2>2. CASE enbApp[b].teid[r] # 0
    BY <1>3, <1>4, <2>2 DEF UeContextReleased, EnbApp
  <2> QED
    BY <2>1, <2>2
<1>6. enbApp'[b] = a /\ \A d \in Cells : d # b => enbApp'[d] = enbApp[d]
  BY <1>3, <1>4
<1>7. \A i \in Ids : i # k => TeidOf(i)' = TeidOf(i)
  <2>1. ASSUME NEW i \in Ids, i # k PROVE TeidOf(i)' = TeidOf(i)
    <3>1. PICK d \in Cells, s \in Rntis : i = <<d, s>> /\ EnbCell(i) = d /\ Rnti(i) = s
      BY DEF Ids, EnbCell, Rnti
    <3>2. d # b \/ s # r
      BY <1>0, <2>1, <3>1
    <3> QED
      BY <1>5, <1>6, <3>1, <3>2 DEF TeidOf
  <2> QED
    BY <2>1
<1>8. \A i \in Ids : ContextOk(i)'
  BY <1>1, <1>7 DEF TablesInv, ContextOk
<1>9. ASSUME NEW d \in Cells, NEW g \in Teids PROVE RoutesOk(d, g)'
  <2>0. /\ x2u[d][g] \in Rntis \union {0} /\ enbApp[d].flow[g] \in Rntis \union {0}
        /\ x2u[d][g] # 0 => <<d, x2u[d][g]>> \in Ids /\ Bears(ctx, <<d, x2u[d][g]>>, g)
        /\ enbApp[d].flow[g] # 0 =>
             /\ <<d, enbApp[d].flow[g]>> \in Ids
             /\ Bears(ctx, <<d, enbApp[d].flow[g]>>, g)
             /\ enbApp[d].teid[enbApp[d].flow[g]] = g
    BY Named
  <2>1. \A i \in Ids : i # k /\ Bears(ctx, i, g) => Bears(ctx', i, g)
    BY <1>1 DEF Bears, Exists
  <2>2. /\ x2u'[d][g] # 0 => /\ x2u'[d][g] = x2u[d][g] /\ <<d, x2u[d][g]>> # k
    <3>1. x2u' = IF c.drbs = {} THEN x2u ELSE [x2u EXCEPT ![b][c.teid] = 0]
      BY <1>0 DEF RemoveUe
    <3>2. CASE <<d, x2u[d][g]>> = k /\ x2u[d][g] # 0
      <4>1. Bears(ctx, k, g) /\ d = b
        BY <1>0, <3>2, <2>0
      <4>2. 1 \in c.drbs /\ c.teid = g
        BY <4>1 DEF Bears, Exists
      <4> QED
        BY <1>3, <3>1, <4>1, <4>2
    <3>3. CASE <<d, x2u[d][g]>> # k \/ x2u[d][g] = 0
      <4>1. x2u'[d][g] = x2u[d][g] \/ x2u'[d][g] = 0
        BY <1>3, <3>1
      <4> QED
        BY <3>3, <4>1
    <3> QED
      BY <3>2, <3>3
  <2>3. enbApp'[d].flow[g] # 0 =>
          /\ enbApp'[d].flow[g] = enbApp[d].flow[g] /\ <<d, enbApp[d].flow[g]>> # k
          /\ enbApp'[d].teid[enbApp[d].flow[g]] = enbApp[d].teid[enbApp[d].flow[g]]
    <3>1. CASE d # b
      BY <1>0, <1>6, <3>1
    <3>2. CASE d = b
      <4>1. enbApp[b].flow[g] = r => enbApp[b].teid[r] = g
        BY <3>2, <2>0, NotZero
      <4>2. enbApp[b].flow[g] \in Rntis \union {0}
        BY <2>0, <3>2
      <4>3. ASSUME enbApp'[d].flow[g] # 0
            PROVE  enbApp'[d].flow[g] = enbApp[b].flow[g] /\ enbApp[b].flow[g] # r
        BY <1>5, <1>6, <3>2, <4>1, <4>3
      <4> QED
        BY <1>0, <1>5, <1>6, <3>2, <4>2, <4>3
    <3> QED
      BY <3>1, <3>2
  <2>4. ASSUME x2u'[d][g] # 0 PROVE Bears(ctx', <<d, x2u'[d][g]>>, g)
    BY <2>1, <2>2, <2>4, <2>0
  <2>5. ASSUME enbApp'[d].flow[g] # 0
        PROVE  /\ Bears(ctx', <<d, enbApp'[d].flow[g]>>, g)
               /\ enbApp'[d].teid[enbApp'[d].flow[g]] = g
    BY <2>1, <2>3, <2>5, <2>0
  <2> QED
    BY <2>4, <2>5 DEF RoutesOk
<1> QED
  BY <1>2, <1>8, <1>9 DEF TablesInv

\* An RNTI that is handed out next has not been handed out, and those that have been
\* stay so.
LEMMA NextGiven ==
  ASSUME IInv, NEW b \in Cells, CanAddUe(b)
  PROVE  /\ <<b, NextRnti(b)>> \in Ids /\ ~Exists(<<b, NextRnti(b)>>)
         /\ ~Given(<<b, NextRnti(b)>>)
         /\ lastRnti' = [lastRnti EXCEPT ![b] = NextRnti(b)]
            => \A i \in Ids : Given(i) => Given(i)'
<1>0. lastRnti \in [Cells -> 0..MaxRnti] /\ \A c \in Cells : lastRnti[c] \in Nat
  BY BoundsAssumption DEF IInv, TypeOK
<1>1. <<b, NextRnti(b)>> \in Ids /\ ~Exists(<<b, NextRnti(b)>>)
  BY NewIsFree
<1>2. EnbCell(<<b, NextRnti(b)>>) = b /\ Rnti(<<b, NextRnti(b)>>) = lastRnti[b] + 1
  BY DEF EnbCell, Rnti, NextRnti
<1>3. ~Given(<<b, NextRnti(b)>>)
  BY <1>0, <1>2 DEF Given
<1>4. ASSUME lastRnti' = [lastRnti EXCEPT ![b] = NextRnti(b)], NEW i \in Ids, Given(i)
      PROVE  Given(i)'
  <2>1. EnbCell(i) \in Cells /\ Rnti(i) \in Nat
    BY IdParts, BoundsAssumption DEF Rntis
  <2>2. lastRnti'[EnbCell(i)] = lastRnti[EnbCell(i)] \/
        lastRnti'[EnbCell(i)] = lastRnti[EnbCell(i)] + 1
    BY <1>0, <1>4, <2>1 DEF NextRnti
  <2>3. Rnti(i) <= lastRnti[EnbCell(i)] /\ lastRnti[EnbCell(i)] \in Nat
    BY <1>0, <1>4, <2>1 DEF Given
  <2>4. Rnti(i) <= lastRnti'[EnbCell(i)]
    BY <2>1, <2>2, <2>3
  <2> QED
    BY <2>4 DEF Given
<1> QED
  BY <1>1, <1>3, <1>4

\* The part of a new context, which no table names, and its entry in the X2-U table.
LEMMA NewTables ==
  ASSUME IInv, TablesInv, NEW b \in Cells, CanAddUe(b), NEW k \in Ids, NEW d,
         k = <<b, NextRnti(b)>>, ctx' = [ctx EXCEPT ![k] = d], d.st # "NONE",
         lastRnti' = [lastRnti EXCEPT ![b] = NextRnti(b)],
         d.drbs # {} => 1 \in d.drbs /\ d.st = "HANDOVER_JOINING",
         x2u' = IF d.drbs = {} THEN x2u ELSE [x2u EXCEPT ![b][d.teid] = NextRnti(b)],
         enbApp' = enbApp, S1Ok', \A m \in ToSet(x2') : m \in ToSet(x2) \/ MessageOk(m)'
  PROVE  TablesInv'
<1>1. /\ ctx'[k] = d /\ \A i \in Ids : i # k => ctx'[i] = ctx[i]
      /\ x2u \in [Cells -> [Teids -> Rntis \union {0}]]
  BY DEF IInv, TypeOK
<1>2. /\ ~Exists(k) /\ ~Given(k)
      /\ \A i \in Ids : Given(i) => Given(i)'
  BY NextGiven
<1>3. \A m \in ToSet(x2') : MessageOk(m)'
  <2>1. \A i \in Ids : Given(i) /\ ctx[i].st # "HANDOVER_JOINING"
                       => ctx'[i].st # "HANDOVER_JOINING"
    BY <1>1, <1>2
  <2> QED
    BY <1>2, <2>1, X2Ok
<1>4. \A i \in Ids : ContextOk(i)'
  BY <1>1 DEF TablesInv, ContextOk, TeidOf
<1>5. ASSUME NEW c \in Cells, NEW g \in Teids PROVE RoutesOk(c, g)'
  <2>1. \A i \in Ids : Bears(ctx, i, g) => Bears(ctx', i, g)
    BY <1>1, <1>2 DEF Bears, Exists
  <2>2. x2u'[c][g] = x2u[c][g] \/
        (d.drbs # {} /\ c = b /\ g = d.teid /\ x2u'[c][g] = NextRnti(b))
    BY <1>1
  <2>3. ASSUME d.drbs # {}, g = d.teid PROVE Bears(ctx', k, g)
    BY <1>1, <2>3 DEF Bears, Exists
  <2>4. x2u'[c][g] # 0 => Bears(ctx', <<c, x2u'[c][g]>>, g)
    BY <2>1, <2>2, <2>3, Named
  <2>5. enbApp'[c].flow[g] # 0 => /\ Bears(ctx', <<c, enbApp'[c].flow[g]>>, g)
                                  /\ enbApp'[c].teid[enbApp'[c].flow[g]] = g
    BY <2>1, Named
  <2> QED
    BY <2>4, <2>5 DEF RoutesOk
<1> QED
  BY <1>3, <1>4, <1>5 DEF TablesInv

\* The S1 application learns the tunnel of k, when its bearers are set up or it takes
\* over the path.
LEMMA RoutedTables ==
  ASSUME IInv, TablesInv, NEW k \in Ids, NEW d, NEW a,
         ctx' = [ctx EXCEPT ![k] = d], Exists(k), d.st # "NONE", 1 \in d.drbs,
         d.st = "HANDOVER_JOINING" => ctx[k].st = "HANDOVER_JOINING",
         ctx[k].drbs = {} \/ (d.drbs = ctx[k].drbs /\ d.teid = ctx[k].teid),
         enbApp' = [enbApp EXCEPT ![EnbCell(k)] = Routed(a, Rnti(k), d.teid)],
         a.flow = enbApp[EnbCell(k)].flow, a.teid = enbApp[EnbCell(k)].teid,
         a \in EnbApp, UNCHANGED <<lastRnti, x2, x2u>>, S1Ok'
  PROVE  TablesInv'
<1>0. PICK b \in Cells, r \in Rntis : k = <<b, r>> /\ EnbCell(k) = b /\ Rnti(k) = r
  BY DEF Ids, EnbCell, Rnti
<1>1. /\ ctx'[k] = d /\ \A i \in Ids : i # k => ctx'[i] = ctx[i]
      /\ enbApp \in [Cells -> EnbApp]
  BY DEF IInv, TypeOK
<1>2. PICK e : e = Routed(a, r, d.teid) /\ enbApp' = [enbApp EXCEPT ![b] = e]
  BY <1>0
<1>3. /\ \A i \in Rntis : e.teid[i] = IF i = r THEN d.teid ELSE enbApp[b].teid[i]
      /\ \A g \in Teids : e.flow[g] = IF g = d.teid THEN r ELSE enbApp[b].flow[g]
  BY <1>0, <1>2 DEF Routed, EnbApp
<1>4. enbApp'[b] = e /\ \A c \in Cells : c # b => enbApp'[c] = enbApp[c]
  BY <1>1, <1>2
<1>5. \A m \in ToSet(x2') : MessageOk(m)'
  <2>2. \A i \in Ids : Given(i)' <=> Given(i)
    BY DEF Given
  <2>3. \A i \in Ids : Given(i) /\ ctx[i].st # "HANDOVER_JOINING"
                       => ctx'[i].st # "HANDOVER_JOINING"
    BY <1>1
  <2> QED
    BY <2>2, <2>3, X2Ok
<1>6. TeidOf(k)' = d.teid
  BY <1>0, <1>3, <1>4 DEF TeidOf
<1>7. \A i \in Ids : i # k => TeidOf(i)' = TeidOf(i)
  <2>1. ASSUME NEW i \in Ids, i # k PROVE TeidOf(i)' = TeidOf(i)
    <3>1. PICK c \in Cells, s \in Rntis : i = <<c, s>> /\ EnbCell(i) = c /\ Rnti(i) = s
      BY DEF Ids, EnbCell, Rnti
    <3>2. c # b \/ s # r
      BY <1>0, <2>1, <3>1
    <3> QED
      BY <1>3, <1>4, <3>1, <3>2 DEF TeidOf
  <2> QED
    BY <2>1
<1>8. \A i \in Ids : ContextOk(i)'
  BY <1>1, <1>6, <1>7 DEF TablesInv, ContextOk
<1>9. ASSUME NEW c \in Cells, NEW g \in Teids PROVE RoutesOk(c, g)'
  <2>0. /\ x2u[c][g] \in Rntis \union {0} /\ enbApp[c].flow[g] \in Rntis \union {0}
        /\ x2u[c][g] # 0 => <<c, x2u[c][g]>> \in Ids /\ Bears(ctx, <<c, x2u[c][g]>>, g)
        /\ enbApp[c].flow[g] # 0 =>
             /\ <<c, enbApp[c].flow[g]>> \in Ids
             /\ Bears(ctx, <<c, enbApp[c].flow[g]>>, g)
             /\ enbApp[c].teid[enbApp[c].flow[g]] = g
    BY Named
  <2>1. \A i \in Ids : Bears(ctx, i, g) => Bears(ctx', i, g)
    <3>1. Bears(ctx, k, g) => Bears(ctx', k, g)
      BY <1>1 DEF Bears, Exists
    <3>2. \A i \in Ids : i # k => (Bears(ctx, i, g) => Bears(ctx', i, g))
      BY <1>1 DEF Bears, Exists
    <3> QED
      BY <3>1, <3>2
  <2>2. x2u'[c][g] # 0 => Bears(ctx', <<c, x2u'[c][g]>>, g)
    BY <2>1, <2>0
  <2>3. CASE c # b
    <3>1. enbApp'[c] = enbApp[c]
      BY <1>4, <2>3
    <3> QED
      BY <2>0, <2>1, <2>2, <3>1 DEF RoutesOk
  <2>4. CASE c = b /\ g = d.teid
    <3>1. enbApp'[c].flow[g] = r /\ enbApp'[c].teid[r] = g
      BY <1>3, <1>4, <2>4
    <3>2. Bears(ctx', k, g)
      BY <1>1, <2>4 DEF Bears, Exists
    <3> QED
      BY <1>0, <2>2, <2>4, <3>1, <3>2 DEF RoutesOk
  <2>5. CASE c = b /\ g # d.teid
    <3>1. enbApp'[c].flow[g] = enbApp[c].flow[g]
      BY <1>3, <1>4, <2>5
    <3>2. enbApp[c].flow[g] # r
      <4>1. ASSUME enbApp[c].flow[g] = r PROVE FALSE
        <5>1. Bears(ctx, k, g)
          BY <1>0, <2>5, <4>1, <2>0, NotZero
        <5> QED
          BY <2>5, <5>1 DEF Bears
      <4> QED
        BY <4>1
    <3>3. enbApp[c].flow[g] # 0
          => enbApp'[c].teid[enbApp[c].flow[g]] = enbApp[c].teid[enbApp[c].flow[g]]
      <4>1. \A i \in Rntis : i # r => enbApp'[c].teid[i] = enbApp[c].teid[i]
        BY <1>3, <1>4, <2>5
      <4> QED
        BY <2>0, <3>2, <4>1
    <3> QED
      BY <2>1, <2>2, <3>1, <3>3, <2>0 DEF RoutesOk
  <2> QED
    BY <2>3, <2>4, <2>5
<1> QED
  BY <1>5, <1>8, <1>9 DEF TablesInv

\* The messages on a link after one is sent or taken.
LEMMA LinkMessages ==
  ASSUME NEW I, NEW S, NEW q \in [I -> Seq(S)], NEW i \in I
  PROVE  /\ \A m \in S, j \in I : ToSet(Sent(q, i, m)[j]) \subseteq ToSet(q[j]) \union {m}
         /\ q[i] # <<>> => /\ Head(q[i]) \in S /\ Head(q[i]) \in ToSet(q[i])
                           /\ \A j \in I : ToSet(Taken(q, i)[j]) \subseteq ToSet(q[j])
<1>1. ASSUME NEW m \in S, NEW j \in I
      PROVE  ToSet(Sent(q, i, m)[j]) \subseteq ToSet(q[j]) \union {m}
  <2>1. Sent(q, i, m)[j] = IF j = i THEN Append(q[i], m) ELSE q[j]
    BY DEF Sent
  <2>2. ToSet(Append(q[i], m)) = ToSet(q[i]) \union {m}
    BY MessagesIn
  <2> QED
    BY <2>1, <2>2
<1>2. ASSUME q[i] # <<>>, NEW j \in I
      PROVE  ToSet(Taken(q, i)[j]) \subseteq ToSet(q[j])
  <2>1. Taken(q, i)[j] = IF j = i THEN Tail(q[i]) ELSE q[j]
    BY DEF Taken
  <2>2. ToSet(Tail(q[i])) \subseteq ToSet(q[i])
    BY <1>2, MessagesIn
  <2> QED
    BY <2>1, <2>2
<1>3. ASSUME q[i] # <<>> PROVE Head(q[i]) \in S /\ Head(q[i]) \in ToSet(q[i])
  BY <1>3, MessagesIn
<1> QED
  BY <1>1, <1>2, <1>3

\* A step that leaves the S1 links and the SGW alone.
LEMMA S1Still ==
  ASSUME TablesInv, UNCHANGED <<s1up, s1down, epc>>
  PROVE  S1Ok'
BY DEF TablesInv, S1Ok

\* The S1 application sends a message that does not release the default bearer.
LEMMA S1Asks ==
  ASSUME IInv, TablesInv, NEW c \in Cells, NEW t \in {"INITIAL_UE", "PATH_SWITCH", "ERAB_RELEASE"},
         NEW b \in Bearers \union {0}, b # 1, s1up' = Sent(s1up, c, S1UpMsg(t, b)),
         UNCHANGED <<s1down, epc>>
  PROVE  S1Ok'
<1>1. s1up \in [Cells -> Seq(S1Up)]
  BY DEF IInv, TypeOK
<1>2. PICK m \in S1Up : m = S1UpMsg(t, b) /\ m.bearer = b
  BY DEF S1UpMsg, S1Up
<1>3. \A d \in Cells : ToSet(s1up'[d]) \subseteq ToSet(s1up[d]) \union {m}
  BY ZenonT(40), <1>1, <1>2, LinkMessages
<1> QED
  BY <1>2, <1>3 DEF TablesInv, S1Ok

\* The bearers of the MME are set up; one that is not the default one is released.
LEMMA MmeTables ==
  ASSUME IInv, TablesInv, NEW c \in Cells,
         MmeRecvInitialUe(c) \/ MmeRecvPathSwitch(c) \/ MmeRecvErabRelease(c)
  PROVE  TablesInv'
<1>0. /\ s1up \in [Cells -> Seq(S1Up)] /\ s1down \in [Cells -> Seq(S1Down)]
      /\ epc \in EpcState /\ s1up[c] # <<>>
  BY DEF IInv, TypeOK, MmeRecvInitialUe, MmeRecvPathSwitch, MmeRecvErabRelease, Pending
<1>1. /\ s1up' = Taken(s1up, c)
      /\ UNCHANGED <<ctx, lastRnti, x2u, enbApp, x2>>
  BY DEF MmeRecvInitialUe, MmeRecvPathSwitch, MmeRecvErabRelease, MmeUnchanged
<1>2. /\ \A d \in Cells : ToSet(s1up'[d]) \subseteq ToSet(s1up[d])
      /\ Head(s1up[c]) \in ToSet(s1up[c])
  BY <1>0, <1>1, LinkMessages
<1>3. /\ 1 \in epc.bearers
      /\ \A d \in Cells : /\ \A m \in ToSet(s1up[d]) : m.bearer # 1
                          /\ \A m \in ToSet(s1down[d]) : m.type = "CTX_SETUP" => 1 \in m.bearers
  BY DEF TablesInv, S1Ok
<1>4. 1 \in epc'.bearers
  <2>1. CASE MmeRecvInitialUe(c)
    BY <1>0, <1>3, <2>1 DEF MmeRecvInitialUe, SessionCreated, EpcState
  <2>2. CASE MmeRecvPathSwitch(c)
    BY <1>0, <1>3, <2>2 DEF MmeRecvPathSwitch, BearersModified, EpcState
  <2>3. CASE MmeRecvErabRelease(c)
    <3>1. Head(s1up[c]).bearer # 1
      BY <1>2, <1>3
    <3>2. epc'.bearers = epc.bearers \ {Head(s1up[c]).bearer}
      BY <1>0, <2>3 DEF MmeRecvErabRelease, BearerDeleted, EpcState
    <3> QED
      BY <1>3, <3>1, <3>2
  <2> QED
    BY <2>1, <2>2, <2>3
<1>5. \A d \in Cells : \A m \in ToSet(s1down'[d]) : m.type = "CTX_SETUP" => 1 \in m.bearers
  <2>1. CASE MmeRecvInitialUe(c)
    <3>0. epc.bearers \in SUBSET Bearers /\ epc.teid + 1 \in Teids
      BY <1>0, <2>1, BoundsAssumption DEF MmeRecvInitialUe, EpcState, Teids
    <3>1. PICK m : m = S1DownMsg("CTX_SETUP", epc.bearers, epc.teid + 1)
      OBVIOUS
    <3>a. m \in S1Down /\ m.bearers = epc.bearers
      BY <3>0, <3>1 DEF S1DownMsg, S1Down
    <3>b. s1down' = Sent(s1down, c, m)
      BY <2>1, <3>1 DEF MmeRecvInitialUe
    <3>2. \A d \in Cells : ToSet(s1down'[d]) \subseteq ToSet(s1down[d]) \union {m}
      BY <1>0, <3>a, <3>b, LinkMessages
    <3> QED
      BY <1>3, <3>a, <3>2
  <2>2. CASE MmeRecvPathSwitch(c)
    <3>0. PICK m : m = S1DownMsg("PATH_SWITCH_ACK", {}, 0)
      OBVIOUS
    <3>1. m \in S1Down /\ m.type = "PATH_SWITCH_ACK"
      BY <3>0 DEF S1DownMsg, S1Down
    <3>b. s1down' = Sent(s1down, c, m)
      BY <2>2, <3>0 DEF MmeRecvPathSwitch
    <3>2. \A d \in Cells : ToSet(s1down'[d]) \subseteq ToSet(s1down[d]) \union {m}
      BY <1>0, <3>1, <3>b, LinkMessages
    <3> QED
      BY <1>3, <3>1, <3>2
  <2>3. CASE MmeRecvErabRelease(c)
    BY <1>3, <2>3 DEF MmeRecvErabRelease
  <2> QED
    BY <2>1, <2>2, <2>3
<1>6. S1Ok'
  BY <1>2, <1>3, <1>4, <1>5 DEF S1Ok
<1> QED
  BY <1>1, <1>6, QuietTables

-----------------------------------------------------------------------------
(* The steps.                                                              *)

\* The UE's own steps and what gets lost on the radio do not touch the tables.
LEMMA UeTables ==
  ASSUME IInv, TablesInv,
         \/ UeConnect \/ UeRecvSystemInformation \/ UeRandomAccessFailed
         \/ UeHandoverAccess \/ UeConnectionTimeout \/ UeRecvConnectionSetup
         \/ UeRecvConnectionReject \/ UeRecvReconfiguration \/ UeRecvHandoverCommand
         \/ \E k \in Ids : Srb0MessageLost(k)
  PROVE  TablesInv'
<1>1. UNCHANGED <<ctx, lastRnti, x2, x2u, s1up, s1down, enbApp, epc>>
  BY DEF UeConnect, UeRecvSystemInformation, UeRandomAccessFailed, UeHandoverAccess,
         UeConnectionTimeout, UeRecvConnectionSetup, UeRecvConnectionReject,
         UeRecvReconfiguration, UeRecvHandoverCommand, Srb0MessageLost, UeUnchanged, Abort
<1> QED
  BY <1>1, StillTables

\* DoReceiveRachPreamble and AddUe: the new context has no bearers.
LEMMA RandomAccessTables ==
  ASSUME IInv, TablesInv, RandomAccess
  PROVE  TablesInv'
<1>1. PICK b \in Cells : b = ue.cell
  BY DEF IInv, TypeOK, Ue
<1>2. PICK d : /\ d = NewContext("connectionRequest")
               /\ ctx' = [ctx EXCEPT ![<<b, NextRnti(b)>>] = d]
               /\ lastRnti' = [lastRnti EXCEPT ![b] = NextRnti(b)]
               /\ CanAddUe(b) /\ UNCHANGED <<x2, x2u, s1up, s1down, enbApp, epc>>
  BY <1>1 DEF RandomAccess
<1>3. d.st # "NONE" /\ d.drbs = {}
  BY <1>2 DEF NewContext, Blank, TimerState
<1>5. \A m \in ToSet(x2') : m \in ToSet(x2) \/ MessageOk(m)'
  BY <1>2
<1>6. S1Ok'
  BY <1>2, S1Still
<1>7. <<b, NextRnti(b)>> \in Ids
  BY <1>2, NextGiven
<1> QED
  BY <1>2, <1>3, <1>5, <1>6, <1>7, NewTables

\* A context keeps its bearers and its tunnel.
Like(d, c) == d.drbs = c.drbs /\ d.teid = c.teid

\* The context that SwitchToState has connected.
LEMMA ConnectedLike ==
  ASSUME NEW c \in Context
  PROVE  Like(Connected(c), c)
BY DEF Connected, Like, Context

\* A step of context k that touches no table and sends nothing over X2.
LEMMA LikeTables ==
  ASSUME IInv, TablesInv, NEW k \in Ids, NEW d, ctx' = [ctx EXCEPT ![k] = d],
         Exists(k), d.st # "NONE", Like(d, ctx[k]),
         d.st = "HANDOVER_JOINING" => ctx[k].st = "HANDOVER_JOINING",
         ctx[k].st = "HANDOVER_JOINING" => d.st = "HANDOVER_JOINING" \/ d.drbs = {},
         UNCHANGED <<lastRnti, x2u>>,
         \A c \in Cells : enbApp'[c].flow = enbApp[c].flow /\ enbApp'[c].teid = enbApp[c].teid,
         S1Ok', \A m \in ToSet(x2') : m \in ToSet(x2) \/ MessageOk(m)'
  PROVE  TablesInv'
BY SteadyTables DEF Steady, Like

\* The request that a context sends which is not being handed over.
LEMMA RequestOk ==
  ASSUME IInv, TablesInv, NEW k \in Ids, NEW d, ctx' = [ctx EXCEPT ![k] = d], Exists(k),
         d.st = "HANDOVER_PREPARATION", NEW c \in Context, Like(c, ctx[k]), NEW t \in Cells,
         lastRnti' = lastRnti
  PROVE  HandoverRequest(k, c, t) \in X2Msg /\ MessageOk(HandoverRequest(k, c, t))'
<1>1. HandoverRequest(k, c, t) \in X2Msg
  BY HandoverRequestType
<1>2. PICK m : m = HandoverRequest(k, c, t)
  OBVIOUS
<1>3. /\ m.type = "HO_REQUEST" /\ m.from = EnbCell(k) /\ m.old = Rnti(k)
      /\ m.drbs = ctx[k].drbs
  BY <1>2 DEF HandoverRequest, X2, Like
<1>4. Asker(m) = k
  BY <1>3 DEF Asker, Ids, EnbCell, Rnti
<1>5. ctx'[k] = d /\ Given(k) /\ Given(k)'
  BY DEF IInv, TypeOK, Fresh, Given
<1>6. m.drbs # {} => 1 \in m.drbs
  BY <1>3 DEF TablesInv, ContextOk
<1> QED
  BY <1>1, <1>2, <1>4, <1>5, <1>6 DEF MessageOk

\* The messages of the UE that a context receives.
LEMMA RrcTables ==
  ASSUME IInv, TablesInv, NEW k \in Ids, RrcStep(k)
  PROVE  TablesInv'
<1>0. /\ ctx \in [Ids -> Context] /\ ctx[k] \in Context /\ EnbCell(k) \in Cells
      /\ enbApp \in [Cells -> EnbApp] /\ enbApp[EnbCell(k)] \in EnbApp
  BY IdParts DEF IInv, TypeOK
<1>1. CASE RecvRrcConnectionRequest(k)
  <2>1. CASE ctx[k].st # "INITIAL_RANDOM_ACCESS"
    BY <1>1, <2>1, AbortTables DEF RecvRrcConnectionRequest
  <2>2. CASE ctx[k].st = "INITIAL_RANDOM_ACCESS"
    <3>1. PICK admit \in Admission, t \in {"connectionSetup", "connectionRejected"} :
            /\ ctx' = [ctx EXCEPT ![k] = Waits(Stopped(@, "connectionRequest"), t)]
            /\ enbApp' = IF admit
                         THEN [enbApp EXCEPT
                                 ![EnbCell(k)] = InitialUeRegistered(@, Rnti(k))]
                         ELSE enbApp
            /\ s1up' = IF admit THEN Sent(s1up, EnbCell(k), S1UpMsg("INITIAL_UE", 0))
                       ELSE s1up
            /\ UNCHANGED <<lastRnti, x2, x2u, s1down, epc>>
      BY <1>1, <2>2 DEF RecvRrcConnectionRequest
    <3>2. PICK d : /\ d = Waits(Stopped(ctx[k], "connectionRequest"), t)
                   /\ ctx' = [ctx EXCEPT ![k] = d]
      BY <1>0, <3>1
    <3>3. d.st = TimerState[t] /\ Like(d, ctx[k])
      BY <1>0, <3>2 DEF Waits, Stopped, Context, Like
    <3>4. d.st \notin {"NONE", "HANDOVER_JOINING"}
      BY <3>3 DEF TimerState
    <3>5. \A c \in Cells : enbApp'[c].flow = enbApp[c].flow /\ enbApp'[c].teid = enbApp[c].teid
      BY <1>0, <3>1 DEF InitialUeRegistered, EnbApp
    <3>6. S1Ok'
      <4>1. CASE admit
        BY <1>0, <3>1, <4>1, S1Asks
      <4>2. CASE ~admit
        BY <3>1, <4>2, S1Still
      <4> QED
        BY <4>1, <4>2
    <3>7. \A m \in ToSet(x2') : m \in ToSet(x2) \/ MessageOk(m)'
      BY <3>1
    <3> QED
      BY <2>2, <3>1, <3>2, <3>3, <3>4, <3>5, <3>6, <3>7, LikeTables DEF Exists
  <2> QED
    BY <2>1, <2>2
<1>2. CASE RecvRrcConnectionSetupCompleted(k)
  <2>1. CASE ctx[k].st # "CONNECTION_SETUP"
    BY <1>2, <2>1, AbortTables DEF RecvRrcConnectionSetupCompleted
  <2>2. CASE ctx[k].st = "CONNECTION_SETUP"
    <3>0. PICK c \in Context : c = Stopped(ctx[k], "connectionSetup")
      BY <1>0, StoppedType DEF Timers
    <3>1. c = Stopped(ctx[k], "connectionSetup") /\ Like(c, ctx[k])
      BY <1>0, <3>0 DEF Stopped, Like, Context
    <3>2. PICK d : /\ d = Connected(c) /\ ctx' = [ctx EXCEPT ![k] = d]
                   /\ UNCHANGED <<lastRnti, x2, x2u, s1up, s1down, enbApp, epc>>
      BY <1>2, <2>2, <3>1 DEF RecvRrcConnectionSetupCompleted
    <3>3. d.st \notin {"NONE", "HANDOVER_JOINING"} /\ Like(d, ctx[k])
      BY <3>1, <3>2, ConnectedType, ConnectedLike DEF Like
    <3>4. \A m \in ToSet(x2') : m \in ToSet(x2) \/ MessageOk(m)'
      BY <3>2
    <3>5. S1Ok'
      BY <3>2, S1Still
    <3> QED
      BY <2>2, <3>2, <3>3, <3>4, <3>5, LikeTables DEF Exists
  <2> QED
    BY <2>1, <2>2
<1>3. CASE RecvRrcConnectionReconfigurationCompleted(k)
  <2>1. CASE ctx[k].st = "CONNECTION_RECONFIGURATION"
    <3>1. Reconfigured(k) /\ UNCHANGED <<lastRnti, x2u, s1up, s1down, enbApp, epc>>
      BY <1>3, <2>1 DEF RecvRrcConnectionReconfigurationCompleted, Reconfigured
    <3>2. PICK c \in Context : /\ c = Connected(ctx[k]) /\ Like(c, ctx[k])
                               /\ c.st \notin {"NONE", "HANDOVER_JOINING"}
      BY <1>0, ConnectedType, ConnectedLike
    <3>3. PICK next \in BOOLEAN : next <=> c.queued # 0 /\ c.st = "CONNECTED_NORMALLY"
      OBVIOUS
    <3>4. PICK d : /\ d = IF next THEN HandoverPrepared(c, c.queued) ELSE c
                   /\ ctx' = [ctx EXCEPT ![k] = d]
                   /\ x2' = IF next THEN Append(x2, HandoverRequest(k, c, c.queued)) ELSE x2
      BY <3>1, <3>2, <3>3 DEF Reconfigured
    <3>5. /\ Like(HandoverPrepared(c, c.queued), c)
          /\ HandoverPrepared(c, c.queued).st = "HANDOVER_PREPARATION"
      BY DEF HandoverPrepared, Context, Like
    <3>6. d.st \notin {"NONE", "HANDOVER_JOINING"} /\ Like(d, ctx[k])
      BY <3>2, <3>4, <3>5 DEF Like
    <3>7. \A m \in ToSet(x2') : m \in ToSet(x2) \/ MessageOk(m)'
      <4>1. CASE next
        <5>1. c.queued \in Cells
          BY <3>3, <4>1 DEF Context
        <5>2. PICK m : m = HandoverRequest(k, c, c.queued)
          OBVIOUS
        <5>3. m \in X2Msg /\ MessageOk(m)'
          <6>1. d.st = "HANDOVER_PREPARATION" /\ ctx' = [ctx EXCEPT ![k] = d]
            BY <3>4, <3>5, <4>1
          <6> QED
            BY <2>1, <3>1, <3>2, <5>1, <5>2, <6>1, RequestOk DEF Exists
        <5>4. ToSet(x2') = ToSet(x2) \union {m}
          BY <3>4, <4>1, <5>2, <5>3, X2Messages
        <5> QED
          BY <5>3, <5>4
      <4>2. CASE ~next
        BY <3>4, <4>2
      <4> QED
        BY <4>1, <4>2
    <3>8. S1Ok'
      BY <3>1, S1Still
    <3> QED
      BY <2>1, <3>1, <3>4, <3>6, <3>7, <3>8, LikeTables DEF Exists
  <2>2. CASE ctx[k].st = "HANDOVER_JOINING"
    <3>1. Joined(k) /\ UNCHANGED <<lastRnti, x2, x2u, s1down, epc>>
      BY <1>3, <2>2 DEF RecvRrcConnectionReconfigurationCompleted, Joined
    <3>2. PICK d : /\ d = [Stopped(ctx[k], "handoverJoining") EXCEPT
                             !.st = "HANDOVER_PATH_SWITCH"]
                   /\ ctx' = [ctx EXCEPT ![k] = d]
      BY <3>1 DEF Joined
    <3>3. Like(d, ctx[k]) /\ d.st = "HANDOVER_PATH_SWITCH"
      BY <1>0, <3>2 DEF Stopped, Context, Like
    <3>4. S1Ok'
      BY <1>0, <3>1, S1Asks DEF Joined
    <3>5. PICK a : a = InitialUeRegistered(enbApp[EnbCell(k)], Rnti(k))
      OBVIOUS
    <3>6. /\ a \in EnbApp /\ a.flow = enbApp[EnbCell(k)].flow
          /\ a.teid = enbApp[EnbCell(k)].teid
      BY <1>0, <3>5, IdParts, InitialUeRegisteredType DEF InitialUeRegistered, EnbApp
    <3>7. enbApp' = [enbApp EXCEPT ![EnbCell(k)] =
                       IF ctx[k].drbs = {} THEN a ELSE Routed(a, Rnti(k), ctx[k].teid)]
      BY <1>0, <3>1, <3>5 DEF Joined, PathSwitched, InitialUeRegistered
    <3>8. CASE ctx[k].drbs = {}
      <4>1. enbApp' = [enbApp EXCEPT ![EnbCell(k)] = a]
        BY <3>7, <3>8
      <4>2. \A c \in Cells : enbApp'[c].flow = enbApp[c].flow
                             /\ enbApp'[c].teid = enbApp[c].teid
        BY <1>0, <3>6, <4>1
      <4> QED
        BY <2>2, <3>1, <3>2, <3>3, <3>4, <3>8, <4>2, LikeTables DEF Exists, Like
    <3>9. CASE ctx[k].drbs # {}
      <4>1. enbApp' = [enbApp EXCEPT ![EnbCell(k)] = Routed(a, Rnti(k), d.teid)]
        BY <3>3, <3>7, <3>9 DEF Like
      <4>2. 1 \in d.drbs
        BY <3>3, <3>9 DEF Like, TablesInv, ContextOk
      <4> QED
        BY <2>2, <3>1, <3>2, <3>3, <3>4, <3>6, <4>1, <4>2, RoutedTables DEF Exists, Like
    <3> QED
      BY <3>8, <3>9
  <2>3. CASE ctx[k].st \in {"CONNECTED_NORMALLY", "HANDOVER_LEAVING"}
    <3>1. UNCHANGED <<ctx, lastRnti, x2, x2u, s1up, s1down, enbApp, epc>>
      BY <1>3, <2>3 DEF RecvRrcConnectionReconfigurationCompleted
    <3> QED
      BY <3>1, StillTables
  <2>4. CASE ctx[k].st \notin {"CONNECTION_RECONFIGURATION", "CONNECTED_NORMALLY",
                               "HANDOVER_LEAVING", "HANDOVER_JOINING"}
    BY <1>3, <2>4, AbortTables DEF RecvRrcConnectionReconfigurationCompleted
  <2> QED
    BY <2>1, <2>2, <2>3, <2>4
<1> QED
  BY <1>1, <1>2, <1>3 DEF RrcStep

\* The timers of a context, and the removal that one of them schedules.
LEMMA TimerTables ==
  ASSUME IInv, TablesInv, NEW k \in Ids, TimerStep(k)
  PROVE  TablesInv'
<1>0. ctx \in [Ids -> Context] /\ ctx[k] \in Context
  BY DEF IInv, TypeOK
<1>a. ASSUME NEW c, RemoveUe(k, c), Like(c, ctx[k]),
             UNCHANGED <<lastRnti, x2, s1up, s1down, epc>>
      PROVE  TablesInv'
  <2>1. S1Ok' /\ \A i \in Ids : Given(i) => Given(i)'
    BY <1>a, S1Still DEF Given
  <2> QED
    BY <1>a, <2>1, RemovedTables DEF Like
<1>1. CASE \E t \in Timers : ContextTimeout(k, t)
  <2>1. PICK t \in Timers : ContextTimeout(k, t)
    BY <1>1
  <2>2. \/ \E w : Abort(w)
        \/ RemoveUe(k, Stopped(ctx[k], t)) /\ UNCHANGED <<lastRnti, x2, s1up, s1down, epc>>
    BY <2>1 DEF ContextTimeout, WrongTimeout, UeManagerNotFound
  <2>3. Like(Stopped(ctx[k], t), ctx[k])
    BY <1>0 DEF Stopped, Context, Like
  <2> QED
    BY <1>a, <2>2, <2>3, AbortTables
<1>2. CASE HandoverJoiningTimeout(k)
  <2>1. CASE InTimerState(k, "handoverJoining")
    <3>1. PICK d : /\ d = Stopped(ctx[k], "handoverJoining")
                   /\ ctx' = [ctx EXCEPT ![k] = d]
                   /\ UNCHANGED <<lastRnti, x2, x2u, s1up, s1down, enbApp, epc>>
      BY <1>0, <1>2, <2>1 DEF HandoverJoiningTimeout
    <3>2. d.st = ctx[k].st /\ Like(d, ctx[k])
      BY <1>0, <3>1 DEF Stopped, Context, Like
    <3>3. Exists(k)
      BY <2>1 DEF InTimerState, Exists, TimerState
    <3>4. \A m \in ToSet(x2') : m \in ToSet(x2) \/ MessageOk(m)'
      BY <3>1
    <3>5. S1Ok'
      BY <3>1, S1Still
    <3> QED
      BY <3>1, <3>2, <3>3, <3>4, <3>5, LikeTables DEF Exists
  <2>2. CASE ~InTimerState(k, "handoverJoining")
    BY <1>2, <2>2, AbortTables
       DEF HandoverJoiningTimeout, WrongTimeout, UeManagerNotFound
  <2> QED
    BY <2>1, <2>2
<1>3. CASE ScheduledRemoval(k)
  <2>1. \/ \E w : Abort(w)
        \/ RemoveUe(k, ctx[k]) /\ UNCHANGED <<lastRnti, x2, s1up, s1down, epc>>
    BY <1>3 DEF ScheduledRemoval
  <2> QED
    BY <1>a, <2>1, AbortTables DEF Like
<1> QED
  BY <1>1, <1>2, <1>3 DEF TimerStep

\* The X2-AP messages of a handover.
LEMMA X2Tables ==
  ASSUME IInv, TablesInv, NEW j \in DOMAIN x2, X2Step(j)
  PROVE  TablesInv'
<1>0. /\ ctx \in [Ids -> Context] /\ x2[j] \in X2Msg /\ x2[j] \in ToSet(x2)
      /\ x2[j].from \in Cells /\ x2[j].to \in Cells /\ x2[j].old \in Rntis
      /\ x2[j].drbs \in SUBSET Bearers /\ x2[j].teid \in Teids \union {0}
      /\ MessageOk(x2[j])
  <2>1. x2[j] \in ToSet(x2) /\ ctx \in [Ids -> Context]
    BY DEF ToSet, IInv, TypeOK
  <2>2. MessageOk(x2[j])
    BY <2>1 DEF TablesInv
  <2> QED
    BY <2>1, <2>2, X2TakenType
<1>a. PICK k \in Ids : k = <<x2[j].to, x2[j].old>>
  BY <1>0, IdParts
<1>b. ctx[k] \in Context
  BY <1>0
<1>1. CASE RecvHandoverRequest(j)
  <2>a. PICK b \in Cells : b = x2[j].to
    BY <1>0
  <2>b. PICK n : n = NextRnti(b)
    OBVIOUS
  <2>0. /\ b = x2[j].to /\ n = NextRnti(b) /\ CanAddUe(b)
        /\ x2[j].type = "HO_REQUEST"
    BY <1>1, <2>a, <2>b DEF RecvHandoverRequest
  <2>1. /\ <<b, n>> \in Ids /\ ~Exists(<<b, n>>)
        /\ lastRnti' = [lastRnti EXCEPT ![b] = n] => \A i \in Ids : Given(i) => Given(i)'
    BY <2>0, NextGiven
  <2>2. PICK ack, fail, new :
          /\ ack = X2("HO_ACK", x2[j].to, x2[j].from, x2[j].old, n, x2[j].drbs, x2[j].teid)
          /\ fail = X2("HO_FAILURE", x2[j].to, x2[j].from, x2[j].old, 0, {}, 0)
          /\ new = [NewContext("handoverJoining") EXCEPT
                      !.source = x2[j].from, !.sourceRnti = x2[j].old,
                      !.drbs = x2[j].drbs, !.teid = x2[j].teid,
                      !.pend = x2[j].drbs # {}]
    OBVIOUS
  <2>3. \/ /\ x2' = X2Answered(j, fail)
           /\ UNCHANGED <<ctx, lastRnti, x2u, s1up, s1down, enbApp, epc>>
        \/ /\ RemoveUe(<<b, n>>, NewContext("handoverJoining"))
           /\ lastRnti' = [lastRnti EXCEPT ![b] = n]
           /\ x2' = X2Taken(j) /\ UNCHANGED <<s1up, s1down, epc>>
        \/ \E w : Abort(w)
        \/ /\ ctx' = [ctx EXCEPT ![<<b, n>>] = new]
           /\ lastRnti' = [lastRnti EXCEPT ![b] = n]
           /\ x2u' = IF x2[j].drbs = {} THEN x2u ELSE [x2u EXCEPT ![b][x2[j].teid] = n]
           /\ x2' = X2Answered(j, ack)
           /\ UNCHANGED <<s1up, s1down, enbApp, epc>>
    BY <1>1, <2>0, <2>2 DEF RecvHandoverRequest
  <2>4. CASE /\ x2' = X2Answered(j, fail)
             /\ UNCHANGED <<ctx, lastRnti, x2u, s1up, s1down, enbApp, epc>>
    <3>1. fail \in X2Msg
      BY <1>0, <2>2, NotZero DEF X2, X2Msg
    <3>2. fail.drbs = {} /\ ~Asks(fail)
      BY <2>2 DEF X2, Asks
    <3>3. ToSet(x2') \subseteq ToSet(x2) \union {fail}
      BY <2>4, <3>1, X2Messages
    <3>4. S1Ok' /\ \A i \in Ids : Given(i)' <=> Given(i)
      BY <2>4, S1Still DEF Given
    <3>5. MessageOk(fail)'
      BY <3>2 DEF MessageOk
    <3>6. \A m \in ToSet(x2') : MessageOk(m)'
      BY <2>4, <3>3, <3>4, <3>5, X2Ok
    <3> QED
      BY <2>4, <3>4, <3>6, SameTables
  <2>5. CASE /\ RemoveUe(<<b, n>>, NewContext("handoverJoining"))
             /\ lastRnti' = [lastRnti EXCEPT ![b] = n]
             /\ x2' = X2Taken(j) /\ UNCHANGED <<s1up, s1down, epc>>
    <3>1. S1Ok' /\ ToSet(x2') \subseteq ToSet(x2)
      <4>1. PICK r \in X2Msg : r = x2[j]
        BY <1>0
      <4> QED
        BY <2>5, <4>1, S1Still, X2Messages
    <3> QED
      BY <2>1, <2>5, <3>1, RemovedTables
  <2>6. CASE /\ ctx' = [ctx EXCEPT ![<<b, n>>] = new]
             /\ lastRnti' = [lastRnti EXCEPT ![b] = n]
             /\ x2u' = IF x2[j].drbs = {} THEN x2u ELSE [x2u EXCEPT ![b][x2[j].teid] = n]
             /\ x2' = X2Answered(j, ack)
             /\ UNCHANGED <<s1up, s1down, enbApp, epc>>
    <3>1. /\ new.st = "HANDOVER_JOINING" /\ new.drbs = x2[j].drbs
          /\ new.teid = x2[j].teid
      BY <2>2 DEF NewContext, Blank, TimerState
    <3>2. ack \in X2Msg
      <4>1. n \in Rntis
        BY <2>1 DEF Ids
      <4> QED
        BY <1>0, <2>2, <4>1, X2Type
    <3>3. ack.type = "HO_ACK" /\ ack.drbs = x2[j].drbs /\ Asker(ack) = Asker(x2[j])
      BY <2>0, <2>2 DEF X2, Asker
    <3>4. Asker(x2[j]) \in Ids /\ Asks(x2[j])
      BY <1>0, <2>0, AskerIsId DEF Asks
    <3>5. /\ Given(Asker(ack))' /\ ctx'[Asker(ack)].st # "HANDOVER_JOINING"
      <4>1. PICK a \in Ids : a = Asker(x2[j])
        BY <3>4
      <4>2. Given(a) /\ ctx[a].st # "HANDOVER_JOINING"
        BY <1>0, <3>4, <4>1 DEF MessageOk
      <4>3. a # <<b, n>>
        BY <2>0, <4>2, NextGiven
      <4>4. ctx'[a] = ctx[a] /\ Given(a)'
        BY <1>0, <2>1, <2>6, <4>2, <4>3
      <4> QED
        BY <3>3, <4>1, <4>2, <4>4 DEF Given
    <3>6. MessageOk(ack)'
      BY <1>0, <3>3, <3>5 DEF MessageOk
    <3>7. \A m \in ToSet(x2') : m \in ToSet(x2) \/ MessageOk(m)'
      BY <2>6, <3>2, <3>6, X2Messages
    <3>8. S1Ok'
      BY <2>6, S1Still
    <3>9. new.drbs # {} => 1 \in new.drbs
      BY <1>0, <3>1 DEF MessageOk
    <3> QED
      BY <2>0, <2>1, <2>6, <3>1, <3>7, <3>8, <3>9, NewTables
  <2> QED
    BY <2>3, <2>4, <2>5, <2>6, AbortTables
<1>2. CASE RecvHandoverRequestAck(j)
  <2>0. x2[j].new \in Rntis /\ x2[j].type = "HO_ACK"
    BY <1>2, X2TakenType DEF RecvHandoverRequestAck
  <2>1. PICK sn : sn = X2("SN_STATUS", x2[j].to, x2[j].from, x2[j].old, x2[j].new, {}, 0)
    OBVIOUS
  <2>2. \/ \E w : Abort(w)
        \/ /\ Exists(k) /\ ctx' = [ctx EXCEPT ![k] = HandoverLeft(@)]
           /\ x2' = X2Answered(j, sn)
           /\ UNCHANGED <<lastRnti, x2u, s1up, s1down, enbApp, epc>>
    BY <1>2, <1>a, <2>1 DEF RecvHandoverRequestAck, UeManagerNotFound
  <2>3. CASE /\ Exists(k) /\ ctx' = [ctx EXCEPT ![k] = HandoverLeft(@)]
             /\ x2' = X2Answered(j, sn)
             /\ UNCHANGED <<lastRnti, x2u, s1up, s1down, enbApp, epc>>
    <3>1. PICK d : d = HandoverLeft(ctx[k]) /\ ctx' = [ctx EXCEPT ![k] = d]
      BY <1>0, <2>3
    <3>2. d.st = "HANDOVER_LEAVING" /\ Like(d, ctx[k])
      BY <1>b, <3>1 DEF HandoverLeft, Context, Like
    <3>3. ctx[k].st # "HANDOVER_JOINING"
      BY <1>0, <1>a, <2>0 DEF MessageOk, Asks, Asker
    <3>4. sn \in X2Msg
      BY <1>0, <2>0, <2>1, NotZero DEF X2, X2Msg
    <3>5. MessageOk(sn)'
      BY <2>1 DEF X2, MessageOk, Asks
    <3>6. \A m \in ToSet(x2') : m \in ToSet(x2) \/ MessageOk(m)'
      BY <2>3, <3>4, <3>5, X2Messages
    <3>7. S1Ok'
      BY <2>3, S1Still
    <3> QED
      BY <2>3, <3>1, <3>2, <3>3, <3>6, <3>7, LikeTables
  <2> QED
    BY <2>2, <2>3, AbortTables
<1>3. CASE RecvHandoverPreparationFailure(j)
  <2>1. \/ \E w : Abort(w)
        \/ /\ ctx[k].st = "HANDOVER_PREPARATION"
           /\ ctx' = [ctx EXCEPT ![k] = Connected(ctx[k])]
           /\ x2' = X2Taken(j)
           /\ UNCHANGED <<lastRnti, x2u, s1up, s1down, enbApp, epc>>
        \/ /\ ctx' = [ctx EXCEPT ![k] = ctx[k]] /\ x2' = X2Taken(j)
           /\ UNCHANGED <<lastRnti, x2u, s1up, s1down, enbApp, epc>>
    BY <1>3, <1>a DEF RecvHandoverPreparationFailure
  <2>2. CASE /\ ctx[k].st = "HANDOVER_PREPARATION"
             /\ ctx' = [ctx EXCEPT ![k] = Connected(ctx[k])]
             /\ x2' = X2Taken(j)
             /\ UNCHANGED <<lastRnti, x2u, s1up, s1down, enbApp, epc>>
    <3>1. PICK d : d = Connected(ctx[k]) /\ ctx' = [ctx EXCEPT ![k] = d]
      BY <2>2
    <3>2. d.st \notin {"NONE", "HANDOVER_JOINING"} /\ Like(d, ctx[k])
      BY <1>b, <3>1, ConnectedType, ConnectedLike
    <3>3. \A m \in ToSet(x2') : m \in ToSet(x2) \/ MessageOk(m)'
      BY <1>0, <2>2, X2Messages
    <3>4. S1Ok'
      BY <2>2, S1Still
    <3> QED
      BY <2>2, <3>1, <3>2, <3>3, <3>4, LikeTables DEF Exists
  <2>3. CASE /\ ctx' = [ctx EXCEPT ![k] = ctx[k]] /\ x2' = X2Taken(j)
             /\ UNCHANGED <<lastRnti, x2u, s1up, s1down, enbApp, epc>>
    <3>1. ctx' = ctx
      BY <1>0, <2>3
    <3>2. ToSet(x2') \subseteq ToSet(x2) /\ S1Ok'
      BY <1>0, <2>3, X2Messages, S1Still
    <3> QED
      BY <2>3, <3>1, <3>2, QuietTables
  <2> QED
    BY <2>1, <2>2, <2>3, AbortTables
<1>4. CASE RecvSnStatusTransfer(j)
  <2>1. \/ \E w : Abort(w)
        \/ /\ x2' = X2Taken(j)
           /\ UNCHANGED <<ctx, lastRnti, x2u, s1up, s1down, enbApp, epc>>
    BY <1>4 DEF RecvSnStatusTransfer, UeManagerNotFound
  <2>2. CASE /\ x2' = X2Taken(j)
             /\ UNCHANGED <<ctx, lastRnti, x2u, s1up, s1down, enbApp, epc>>
    <3>1. ToSet(x2') \subseteq ToSet(x2) /\ S1Ok'
      BY <1>0, <2>2, X2Messages, S1Still
    <3> QED
      BY <2>2, <3>1, QuietTables
  <2> QED
    BY <2>1, <2>2, AbortTables
<1>5. CASE RecvUeContextRelease(j)
  <2>1. \/ \E w : Abort(w)
        \/ /\ RemoveUe(k, Stopped(ctx[k], "handoverLeaving")) /\ x2' = X2Taken(j)
           /\ UNCHANGED <<lastRnti, s1up, s1down, epc>>
    BY <1>5, <1>a DEF RecvUeContextRelease
  <2>2. CASE /\ RemoveUe(k, Stopped(ctx[k], "handoverLeaving")) /\ x2' = X2Taken(j)
             /\ UNCHANGED <<lastRnti, s1up, s1down, epc>>
    <3>1. ToSet(x2') \subseteq ToSet(x2) /\ S1Ok'
      BY <1>0, <2>2, X2Messages, S1Still
    <3>2. \A i \in Ids : Given(i) => Given(i)'
      BY <2>2 DEF Given
    <3>3. Like(Stopped(ctx[k], "handoverLeaving"), ctx[k])
      BY <1>b DEF Stopped, Context, Like
    <3> QED
      BY <2>2, <3>1, <3>2, <3>3, RemovedTables DEF Like
  <2> QED
    BY <2>1, <2>2, AbortTables
<1> QED
  BY <1>1, <1>2, <1>3, <1>4, <1>5 DEF X2Step

\* The S1-AP messages.
LEMMA S1Tables ==
  ASSUME IInv, TablesInv, NEW c \in Cells, S1Step(c)
  PROVE  TablesInv'
<1>0. /\ ctx \in [Ids -> Context] /\ enbApp[c] \in EnbApp
      /\ enbApp[c].rnti \in Rntis \union {0}
      /\ s1down \in [Cells -> Seq(S1Down)]
  BY DEF IInv, TypeOK, EnbApp
<1>1. CASE MmeRecvInitialUe(c) \/ MmeRecvPathSwitch(c) \/ MmeRecvErabRelease(c)
  BY <1>1, MmeTables
<1>a. ASSUME s1down[c] # <<>>, s1down' = Taken(s1down, c), UNCHANGED <<s1up, epc>>
      PROVE  S1Ok'
  <2>1. \A d \in Cells : ToSet(s1down'[d]) \subseteq ToSet(s1down[d])
    BY <1>0, <1>a, LinkMessages
  <2> QED
    BY <1>a, <2>1 DEF TablesInv, S1Ok
<1>2. CASE RecvContextSetup(c)
  <2>1. CASE \E w : Abort(w)
    BY <2>1, AbortTables
  <2>2. CASE ~\E w : Abort(w)
    <3>1. enbApp[c].rnti # 0
      BY <1>2, <2>2 DEF RecvContextSetup, UeManagerNotFound
    <3>2. PICK k \in Ids : /\ k = <<c, enbApp[c].rnti>> /\ EnbCell(k) = c
                           /\ Rnti(k) = enbApp[c].rnti
      BY <1>0, <3>1, IdParts
    <3>3. PICK m : /\ m = Head(s1down[c]) /\ s1down[c] # <<>> /\ m.type = "CTX_SETUP"
      BY <1>2 DEF RecvContextSetup, Pending
    <3>4. m \in S1Down /\ 1 \in m.bearers
      <4>1. m \in S1Down /\ m \in ToSet(s1down[c])
        BY <1>0, <3>3, LinkMessages
      <4> QED
        BY <3>3, <4>1 DEF TablesInv, S1Ok
    <3>5. Exists(k) /\ ctx[k].drbs = {}
      BY <1>2, <2>2, <3>1, <3>2 DEF RecvContextSetup, UeManagerNotFound
    <3>6. PICK set, done :
            /\ set = [ctx[k] EXCEPT !.drbs = m.bearers, !.teid = m.teid, !.pend = TRUE]
            /\ done = IF SendsNow(set)
                      THEN [Connected(set) EXCEPT !.pend = Cardinality(m.bearers) > 1]
                      ELSE set
            /\ ctx' = [ctx EXCEPT ![k] = done]
            /\ enbApp' = [enbApp EXCEPT ![c] = Routed(@, Rnti(k), m.teid)]
            /\ s1down' = Taken(s1down, c)
            /\ UNCHANGED <<lastRnti, x2, x2u, s1up, epc>>
      BY <1>2, <2>2, <3>2, <3>3 DEF RecvContextSetup, UeManagerNotFound
    <3>7. /\ set.st = ctx[k].st /\ set.drbs = m.bearers /\ set.teid = m.teid
          /\ Connected(set).st = "CONNECTION_RECONFIGURATION"
          /\ Connected(set).drbs = set.drbs /\ Connected(set).teid = set.teid
          /\ LET e == [Connected(set) EXCEPT !.pend = Cardinality(m.bearers) > 1]
             IN e.st = Connected(set).st /\ e.drbs = Connected(set).drbs
                /\ e.teid = Connected(set).teid
      BY <1>0, <3>6 DEF Context, Connected
    <3>8. /\ done.drbs = m.bearers /\ done.teid = m.teid
          /\ done.st = ctx[k].st \/ done.st = "CONNECTION_RECONFIGURATION"
      BY <3>6, <3>7
    <3>9. PICK a : a = enbApp[c]
      OBVIOUS
    <3>10. enbApp' = [enbApp EXCEPT ![EnbCell(k)] = Routed(a, Rnti(k), done.teid)]
      BY <3>2, <3>6, <3>8, <3>9 DEF IInv, TypeOK
    <3>11. S1Ok'
      BY <1>a, <3>3, <3>6
    <3>12. done.st # "NONE" /\ (done.st = "HANDOVER_JOINING" => ctx[k].st = "HANDOVER_JOINING")
      BY <3>5, <3>8 DEF Exists
    <3> QED
      BY <1>0, <3>2, <3>4, <3>5, <3>6, <3>8, <3>9, <3>10, <3>11, <3>12, RoutedTables
  <2> QED
    BY <2>1, <2>2
<1>3. CASE RecvPathSwitchAck(c)
  <2>1. CASE \E w : Abort(w)
    BY <2>1, AbortTables
  <2>2. CASE ~\E w : Abort(w)
    <3>1. enbApp[c].rnti # 0
      BY <1>3, <2>2 DEF RecvPathSwitchAck, UeManagerNotFound
    <3>2. PICK k \in Ids : k = <<c, enbApp[c].rnti>> /\ Rnti(k) \in Rntis
      BY <1>0, <3>1, IdParts
    <3>3. PICK m : m = X2("CTX_RELEASE", c, ctx[k].source, ctx[k].sourceRnti, Rnti(k), {}, 0)
      OBVIOUS
    <3>4. /\ ctx[k].st = "HANDOVER_PATH_SWITCH" /\ x2' = Append(x2, m)
          /\ ctx' = [ctx EXCEPT ![k] = Connected(ctx[k])]
          /\ s1down[c] # <<>> /\ s1down' = Taken(s1down, c)
          /\ UNCHANGED <<lastRnti, x2u, s1up, enbApp, epc>>
      BY <1>3, <2>2, <3>2, <3>3 DEF RecvPathSwitchAck, UeManagerNotFound, Pending
    <3>5. /\ ctx[k] \in Context
          /\ ctx[k].source \in Cells /\ ctx[k].sourceRnti \in Rntis
      BY <1>0, <3>4 DEF IInv, SourceKnown, Context
    <3>6. m \in X2Msg
      BY <3>2, <3>3, <3>5, NotZero DEF X2, X2Msg
    <3>7. MessageOk(m)'
      BY <3>3 DEF X2, MessageOk, Asks
    <3>8. \A n \in ToSet(x2') : n \in ToSet(x2) \/ MessageOk(n)'
      BY <3>4, <3>6, <3>7, X2Messages
    <3>9. PICK d : d = Connected(ctx[k]) /\ ctx' = [ctx EXCEPT ![k] = d]
      BY <3>4
    <3>10. d.st \notin {"NONE", "HANDOVER_JOINING"} /\ Like(d, ctx[k])
      BY <3>5, <3>9, ConnectedType, ConnectedLike
    <3>11. S1Ok'
      BY <1>a, <3>4
    <3> QED
      BY <3>4, <3>8, <3>9, <3>10, <3>11, LikeTables DEF Exists
  <2> QED
    BY <2>1, <2>2
<1> QED
  BY <1>1, <1>2, <1>3 DEF S1Step

\* What is asked of a context.
LEMMA RequestTables ==
  ASSUME IInv, TablesInv, NEW k \in Ids,
         \/ SendHandoverRequest(k)
         \/ ScheduleRrcConnectionReconfiguration(k)
         \/ ReleaseDataRadioBearer(k)
  PROVE  TablesInv'
<1>0. ctx \in [Ids -> Context] /\ ctx[k] \in Context /\ EnbCell(k) \in Cells
  BY IdParts DEF IInv, TypeOK
<1>1. CASE SendHandoverRequest(k)
  <2>1. PICK t \in Cells :
          \/ \E w : Abort(w)
          \/ /\ ctx[k].st = "CONNECTED_NORMALLY"
             /\ ctx' = [ctx EXCEPT ![k] = HandoverPrepared(@, t)]
             /\ x2' = Append(x2, HandoverRequest(k, ctx[k], t))
             /\ UNCHANGED <<lastRnti, x2u, s1up, s1down, enbApp, epc>>
          \/ /\ ctx[k].st \in {"CONNECTION_RECONFIGURATION", "HANDOVER_JOINING"}
             /\ ctx' = [ctx EXCEPT ![k].queued = t]
             /\ UNCHANGED <<lastRnti, x2, x2u, s1up, s1down, enbApp, epc>>
    BY <1>1 DEF SendHandoverRequest
  <2>2. CASE /\ ctx[k].st = "CONNECTED_NORMALLY"
             /\ ctx' = [ctx EXCEPT ![k] = HandoverPrepared(@, t)]
             /\ x2' = Append(x2, HandoverRequest(k, ctx[k], t))
             /\ UNCHANGED <<lastRnti, x2u, s1up, s1down, enbApp, epc>>
    <3>1. PICK d : d = HandoverPrepared(ctx[k], t) /\ ctx' = [ctx EXCEPT ![k] = d]
      BY <1>0, <2>2
    <3>2. d.st = "HANDOVER_PREPARATION" /\ Like(d, ctx[k])
      BY <1>0, <3>1 DEF HandoverPrepared, Context, Like
    <3>3. PICK m : m = HandoverRequest(k, ctx[k], t)
      OBVIOUS
    <3>4. m \in X2Msg /\ MessageOk(m)'
      BY <1>0, <2>2, <3>1, <3>2, <3>3, RequestOk DEF Exists, Like
    <3>5. \A n \in ToSet(x2') : n \in ToSet(x2) \/ MessageOk(n)'
      BY <2>2, <3>3, <3>4, X2Messages
    <3>6. S1Ok'
      BY <2>2, S1Still
    <3> QED
      BY <2>2, <3>1, <3>2, <3>5, <3>6, LikeTables DEF Exists
  <2>3. CASE /\ ctx[k].st \in {"CONNECTION_RECONFIGURATION", "HANDOVER_JOINING"}
             /\ ctx' = [ctx EXCEPT ![k].queued = t]
             /\ UNCHANGED <<lastRnti, x2, x2u, s1up, s1down, enbApp, epc>>
    <3>1. PICK d : d = [ctx[k] EXCEPT !.queued = t] /\ ctx' = [ctx EXCEPT ![k] = d]
      BY <1>0, <2>3
    <3>2. d.st = ctx[k].st /\ Like(d, ctx[k])
      BY <1>0, <3>1 DEF Context, Like
    <3>3. S1Ok' /\ \A n \in ToSet(x2') : n \in ToSet(x2) \/ MessageOk(n)'
      BY <2>3, S1Still
    <3> QED
      BY <2>3, <3>1, <3>2, <3>3, LikeTables DEF Exists
  <2> QED
    BY <2>1, <2>2, <2>3, AbortTables
<1>2. CASE ScheduleRrcConnectionReconfiguration(k)
  <2>1. CASE \E w : Abort(w)
    BY <2>1, AbortTables
  <2>2. CASE ~\E w : Abort(w)
    <3>0. Schedulable(ctx[k])
      BY <1>2, <2>2 DEF ScheduleRrcConnectionReconfiguration
    <3>1. PICK c \in Context : c = [ctx[k] EXCEPT !.pend = TRUE]
      BY <1>0 DEF Context
    <3>2. PICK d : /\ d = IF SendsNow(c) THEN Connected(c) ELSE c
                   /\ ctx' = [ctx EXCEPT ![k] = d]
                   /\ UNCHANGED <<lastRnti, x2, x2u, s1up, s1down, enbApp, epc>>
      BY <1>2, <2>2, <3>1 DEF ScheduleRrcConnectionReconfiguration
    <3>3. c.st = ctx[k].st /\ Like(c, ctx[k])
      BY <1>0, <3>1 DEF Context, Like
    <3>4. /\ Connected(c).st \notin {"NONE", "HANDOVER_JOINING"} /\ Like(Connected(c), c)
      BY ConnectedType, ConnectedLike
    <3>5. /\ Like(d, ctx[k])
          /\ d.st = ctx[k].st \/
             (ctx[k].st = "CONNECTED_NORMALLY" /\ d.st \notin {"NONE", "HANDOVER_JOINING"})
      BY <3>2, <3>3, <3>4 DEF Like, SendsNow
    <3>6. ctx[k].st # "NONE"
      BY <3>0 DEF Schedulable, SendsNow, Waiting
    <3>7. S1Ok' /\ \A n \in ToSet(x2') : n \in ToSet(x2) \/ MessageOk(n)'
      BY <3>2, S1Still
    <3> QED
      BY <3>2, <3>5, <3>6, <3>7, LikeTables DEF Exists
  <2> QED
    BY <2>1, <2>2
<1>3. CASE ReleaseDataRadioBearer(k)
  <2>1. PICK b \in ctx[k].drbs \ {1} :
          /\ ctx' = [ctx EXCEPT ![k].drbs = @ \ {b}]
          /\ s1up' = Sent(s1up, EnbCell(k), S1UpMsg("ERAB_RELEASE", b))
          /\ UNCHANGED <<lastRnti, x2, x2u, s1down, enbApp, epc>>
          /\ ctx[k].st \in ReleaseIn
    BY <1>3 DEF ReleaseDataRadioBearer
  <2>2. PICK d : /\ d = [ctx[k] EXCEPT !.drbs = ctx[k].drbs \ {b}]
                 /\ ctx' = [ctx EXCEPT ![k] = d]
    BY <1>0, <2>1
  <2>3. d.st = ctx[k].st /\ d.teid = ctx[k].teid /\ d.drbs = ctx[k].drbs \ {b}
    BY <1>0, <2>2 DEF Context
  <2>4. Exists(k)
    BY <2>1, RequestsAssumption DEF Exists, EnbStates
  <2>5. b \in Bearers
    BY <1>0, <2>1 DEF Context
  <2>6. S1Ok'
    BY <1>0, <2>1, <2>5, S1Asks
  <2>7. \A n \in ToSet(x2') : n \in ToSet(x2) \/ MessageOk(n)'
    BY <2>1
  <2>8. Steady(k, d)
    BY <2>1, <2>2, <2>3, <2>4 DEF Steady, Exists
  <2> QED
    BY <2>6, <2>7, <2>8, SteadyTables
<1> QED
  BY <1>1, <1>2, <1>3

\* Every step keeps the tables true,
LEMMA NextTables == IInv /\ TablesInv /\ [Next]_vars => TablesInv'
<1> SUFFICES ASSUME IInv, TablesInv, [Next]_vars
             PROVE  TablesInv'
  OBVIOUS
<1>1. CASE UeStep
  BY <1>1, UeTables, RandomAccessTables DEF UeStep
<1>2. CASE UeConnectionTimeout
  BY <1>2, UeTables
<1>3. CASE \E k \in Ids : RrcStep(k) \/ TimerStep(k)
  BY <1>3, RrcTables, TimerTables
<1>4. CASE \E i \in DOMAIN x2 : X2Step(i)
  BY <1>4, X2Tables
<1>5. CASE \E c \in Cells : S1Step(c)
  BY <1>5, S1Tables
<1>6. CASE Environment
  BY <1>6, UeTables, RequestTables DEF Environment
<1>7. CASE UNCHANGED vars
  BY <1>7, StillTables DEF vars
<1> QED
  BY <1>1, <1>2, <1>3, <1>4, <1>5, <1>6, <1>7 DEF Next

\* and they are in the beginning, with the UE connected or not.
LEMMA InitTables == Init => TablesInv
<1> SUFFICES ASSUME Init PROVE TablesInv
  OBVIOUS
<1>0. /\ HomeId \in Ids /\ HomeId = <<HomeCell, 1>> /\ 1 \in Bearers /\ 1 \in Rntis
      /\ 1 \in Teids /\ HomeCell \in Cells
      /\ EnbCell(HomeId) = HomeCell /\ Rnti(HomeId) = 1
  BY HomeCellType, IdParts, BoundsAssumption DEF HomeId, Rntis, Bearers, Teids
<1>1. /\ ctx = [k \in Ids |-> IF StartConnected /\ k = HomeId THEN Attached ELSE Blank]
      /\ enbApp = [c \in Cells |-> IF StartConnected /\ c = HomeCell
                                   THEN Routed(InitialUeRegistered(NoTunnel, 1), 1, 1)
                                   ELSE NoTunnel]
      /\ x2 = <<>> /\ x2u = [c \in Cells |-> [g \in Teids |-> 0]]
      /\ s1up = [c \in Cells |-> <<>>] /\ s1down = [c \in Cells |-> <<>>]
      /\ epc.bearers = Bearers
  BY DEF Init
<1>2. ToSet(<<>>) = {}
  BY DEF ToSet
<1>3. S1Ok
  BY <1>0, <1>1, <1>2 DEF S1Ok
<1>4. PICK a : a = Routed(InitialUeRegistered(NoTunnel, 1), 1, 1)
  OBVIOUS
<1>5. /\ a.teid[1] = 1
      /\ \A g \in Teids : a.flow[g] = IF g = 1 THEN 1 ELSE 0
      /\ \A g \in Teids : NoTunnel.flow[g] = 0
  <2>1. NoTunnel.flow = [g \in Teids |-> 0] /\ NoTunnel.teid = [r \in Rntis |-> 0]
    BY DEF NoTunnel
  <2>2. PICK b : b = InitialUeRegistered(NoTunnel, 1)
    OBVIOUS
  <2>3. b.flow = [g \in Teids |-> 0] /\ b.teid = [r \in Rntis |-> 0]
    BY <2>2 DEF InitialUeRegistered, NoTunnel
  <2>4. /\ a.teid = [b.teid EXCEPT ![1] = 1] /\ a.flow = [b.flow EXCEPT ![1] = 1]
    BY <1>4, <2>2 DEF Routed, InitialUeRegistered, NoTunnel
  <2> QED
    BY <1>0, <2>1, <2>3, <2>4
<1>6. Attached.st = "CONNECTED_NORMALLY" /\ Attached.drbs = Bearers /\ Attached.teid = 1
      /\ Blank.drbs = {}
  BY DEF Attached, Blank
<1>7. ASSUME NEW k \in Ids PROVE ContextOk(k)
  <2>1. CASE StartConnected /\ k = HomeId
    <3>1. ctx[k] = Attached /\ enbApp[HomeCell] = a
      BY <1>0, <1>1, <1>4, <2>1
    <3> QED
      BY <1>0, <1>5, <1>6, <2>1, <3>1 DEF ContextOk, TeidOf
  <2>2. CASE ~(StartConnected /\ k = HomeId)
    BY <1>1, <1>6, <2>2 DEF ContextOk
  <2> QED
    BY <2>1, <2>2
<1>8. ASSUME NEW c \in Cells, NEW g \in Teids PROVE RoutesOk(c, g)
  <2>1. x2u[c][g] = 0
    BY <1>1
  <2>2. CASE StartConnected /\ c = HomeCell
    <3>1. enbApp[c] = a /\ ctx[HomeId] = Attached
      BY <1>0, <1>1, <1>4, <2>2
    <3>2. enbApp[c].flow[g] # 0 => g = 1 /\ enbApp[c].flow[g] = 1
      BY <1>5, <3>1
    <3>3. Bears(ctx, <<c, 1>>, 1)
      BY <1>0, <1>6, <2>2, <3>1 DEF Bears
    <3> QED
      BY <1>5, <2>1, <3>1, <3>2, <3>3 DEF RoutesOk
  <2>3. CASE ~(StartConnected /\ c = HomeCell)
    BY <1>1, <1>5, <2>1, <2>3 DEF RoutesOk
  <2> QED
    BY <2>2, <2>3
<1> QED
  BY <1>1, <1>2, <1>3, <1>7, <1>8 DEF TablesInv

\* In every state the routes of the S1 application and of the X2-U table lead to
\* contexts that have the tunnel they are for and the default bearer: whoever sets them
\* up (path switch, handover preparation, INITIAL CONTEXT SETUP) does it with the
\* context in place, and RemoveUe takes them back with it.
THEOREM TablesCorrect == Spec => []TablesInv
<1>1. Spec => []IInv
  BY Invariance
<1>2. IInv /\ TablesInv /\ [Next]_vars => TablesInv'
  BY NextTables
<1>3. Init => TablesInv
  BY InitTables
<1> QED
  BY <1>1, <1>2, <1>3, PTL DEF Spec

\* An eNB whose context serves the UE or is just leaving it, and has bearers, has their
\* tunnel in the S1 application's table (m_rbidTeidMap): RecvFromLteSocket finds it for
\* every uplink packet, whatever was lost, has timed out or came too late.
THEOREM UplinkHasTunnel == Spec => []UplinkPath
<1>1. TablesInv => UplinkPath
  BY DEF TablesInv, ContextOk, UplinkPath, Serving, TeidOf
<1> QED
  BY <1>1, TablesCorrect, PTL

\* Neither the S1 application of an eNB nor its X2-U table names a context that has
\* been removed or that has another tunnel: RemoveUe clears what handovers, path
\* switches and refused or dropped requests have written, in whatever order and with
\* whatever losses they come.
THEOREM RoutesLeadToContexts == Spec => []NoDanglingRoutes
<1>1. TablesInv => NoDanglingRoutes
  <2> SUFFICES ASSUME TablesInv, NEW c \in Cells, NEW g \in Teids,
                      NEW r \in {enbApp[c].flow[g], x2u[c][g]} \ {0}
               PROVE  Exists(<<c, r>>) /\ ctx[<<c, r>>].teid = g
    BY DEF NoDanglingRoutes
  <2>1. RoutesOk(c, g)
    BY DEF TablesInv
  <2>2. CASE r = x2u[c][g]
    BY <2>1, <2>2 DEF RoutesOk, Bears, Exists
  <2>3. CASE r = enbApp[c].flow[g]
    BY <2>1, <2>3 DEF RoutesOk, Bears, Exists
  <2> QED
    BY <2>2, <2>3
<1> QED
  BY <1>1, TablesCorrect, PTL

-----------------------------------------------------------------------------
(* What the timers of a context rely on, under two conditions: the RemoveUe  *)
(* event that HandoverJoiningTimeout schedules does not occur, and the       *)
(* target of a handover always has a preamble left.  The run late_removal    *)
(* shows what happens without the first; without the second a source waits   *)
(* for good.                                                                 *)

\* The inductive invariant: which context has which timer depends on which
\* context waits for the answer of a handover preparation, and vice versa.
JInv == IInv /\ TimerDiscipline /\ OnePreparation

\* The two conditions.
Assured == "removal" \notin Expirable /\ FALSE \notin Preambles

-----------------------------------------------------------------------------
(* Contexts and their timers.                                              *)

\* The state that a timer guards is guarded by this timer only.
LEMMA TimerStateInjective ==
  \A t, u \in Timers : TimerState[t] = TimerState[u] => t = u
BY DEF Timers, TimerState

Unguarded == {"NONE", "CONNECTED_NORMALLY", "CONNECTION_RECONFIGURATION",
              "HANDOVER_PREPARATION", "HANDOVER_PATH_SWITCH"}

\* Every other state is guarded by a timer.
LEMMA UnguardedStates ==
  /\ \A t \in Timers : TimerState[t] \notin Unguarded
  /\ \A s \in (EnbStates \union {"NONE"}) \ Unguarded : \E t \in Timers : s = TimerState[t]
BY DEF Timers, TimerState, Unguarded, EnbStates

\* A context in a state that no timer guards has none, and another context that
\* waits has just the one timer.
LEMMA TimersOf ==
  ASSUME NEW c \in Context, NEW g, Timed(c, g)
  PROVE  /\ c.st \in Unguarded => c.timers = {}
         /\ \A t \in Timers : c.st = TimerState[t] => c.timers \subseteq {t}
<1>1. c.timers \subseteq Timers
  BY DEF Context
<1>2. \A t \in c.timers : c.st = TimerState[t]
  BY <1>1 DEF Timed
<1>3. c.st \in Unguarded => c.timers = {}
  BY <1>1, <1>2, UnguardedStates
<1>4. \A t \in Timers : c.st = TimerState[t] => c.timers \subseteq {t}
  BY <1>1, <1>2, TimerStateInjective
<1> QED
  BY <1>3, <1>4

\* A context without timers in a state that needs none is in order.
LEMMA UnguardedTimed ==
  ASSUME NEW c \in Context, NEW g, c.st \in Unguarded, c.timers = {}
  PROVE  Timed(c, g)
BY UnguardedStates DEF Timed

\* So is one with the one timer of its state.
LEMMA GuardedTimed ==
  ASSUME NEW c \in Context, NEW g, NEW t \in Timers, c.st = TimerState[t],
         c.timers = {t}
  PROVE  Timed(c, g)
BY TimerStateInjective DEF Timed

\* A context that a timeout or a CTX_RELEASE removes leaves no timer behind.
LEMMA ErasedTimed ==
  ASSUME NEW c \in Context, NEW g, NEW h, NEW t \in Timers, Timed(c, g),
         c.st = TimerState[t]
  PROVE  Timed(Erased(Stopped(c, t)), h)
<1>1. Stopped(c, t) \in Context /\ Stopped(c, t).timers = c.timers \ {t}
  BY StoppedType DEF Stopped, Context
<1>2. Stopped(c, t).timers = {}
  BY <1>1, TimersOf
<1>3. /\ Erased(Stopped(c, t)) \in Context
      /\ Erased(Stopped(c, t)).st = "NONE"
  BY <1>1, ErasedType
<1>4. Erased(Stopped(c, t)).timers = {}
  BY <1>2 DEF Erased, Blank
<1> QED
  BY <1>3, <1>4, UnguardedTimed DEF Unguarded

\* A context that becomes connected.
LEMMA ConnectedTimed ==
  ASSUME NEW c \in Context, NEW g, c.timers = {}
  PROVE  Timed(Connected(c), g)
<1>1. /\ Connected(c) \in Context
      /\ Connected(c).st \in {"CONNECTED_NORMALLY", "CONNECTION_RECONFIGURATION"}
  BY ConnectedType
<1>2. Connected(c).timers = {}
  BY DEF Connected, Context
<1> QED
  BY <1>1, <1>2, UnguardedTimed DEF Unguarded

\* A context whose timers and state a step leaves as they are.
LEMMA SameTimed ==
  ASSUME NEW c, NEW d, NEW g, Timed(c, g), d.st = c.st, d.timers = c.timers
  PROVE  Timed(d, g)
BY DEF Timed

-----------------------------------------------------------------------------
(* Handover preparations.                                                  *)

Prepares(k) == ctx[k].st = "HANDOVER_PREPARATION"

\* OnePreparation of a queue q, where the contexts in P prepare a handover.
OneIn(q, P) ==
  \A i \in DOMAIN q : Asking(q[i]) =>
    /\ Asker(q[i]) \in P
    /\ \A j \in DOMAIN q : Asking(q[j]) /\ Asker(q[j]) = Asker(q[i]) => j = i

Preparers == {k \in Ids : Prepares(k)}

\* Every message names a context that may have asked.
LEMMA AskerType ==
  ASSUME IInv
  PROVE  \A i \in DOMAIN x2 : Asker(x2[i]) \in Ids
BY X2TakenType, IdParts DEF Asker

\* OnePreparation in terms of OneIn, now
LEMMA OneInX2 == ASSUME IInv PROVE OnePreparation <=> OneIn(x2, Preparers)
BY AskerType DEF OnePreparation, OneIn, Preparers, Prepares

\* and after the step.
LEMMA OneInX2Next == ASSUME IInv' PROVE (OnePreparation <=> OneIn(x2, Preparers))'
<1>1. (\A i \in DOMAIN x2 : Asker(x2[i]) \in Ids)'
  <2>1. ASSUME NEW i \in DOMAIN x2' PROVE Asker(x2'[i]) \in Ids
    <3>1. x2'[i] \in X2Msg
      BY DEF IInv, TypeOK
    <3>2. x2'[i].from \in Cells /\ x2'[i].to \in Cells /\ x2'[i].old \in Rntis
      BY <3>1 DEF X2Msg
    <3> QED
      BY <3>2, IdParts DEF Asker
  <2> QED
    BY <2>1
<1> QED
  BY <1>1 DEF OnePreparation, OneIn, Preparers, Prepares

\* More contexts that prepare a handover do no harm.
LEMMA OneInMore ==
  ASSUME NEW q, NEW P, NEW Q, OneIn(q, P), P \subseteq Q
  PROVE  OneIn(q, Q)
BY DEF OneIn

\* A message that belongs to no preparation is sent.
LEMMA OneInOther ==
  ASSUME NEW q \in Seq(X2Msg), NEW P, OneIn(q, P), NEW m \in X2Msg, ~Asking(m)
  PROVE  OneIn(Append(q, m), P)
BY DEF OneIn

\* A context that has nothing in transit asks, or is answered.
LEMMA OneInAsked ==
  ASSUME NEW q \in Seq(X2Msg), NEW P, OneIn(q, P), NEW m \in X2Msg,
         Asking(m), NEW Q, P \subseteq Q, Asker(m) \in Q,
         \A i \in DOMAIN q : Asking(q[i]) => Asker(q[i]) # Asker(m)
  PROVE  OneIn(Append(q, m), Q)
BY DEF OneIn

\* Message i is taken: no other message belongs to the same preparation.
LEMMA OneInTaken ==
  ASSUME NEW q \in Seq(X2Msg), NEW P, OneIn(q, P), NEW i \in DOMAIN q
  PROVE  /\ OneIn(RemoveAt(q, i), P)
         /\ Asking(q[i]) => /\ OneIn(RemoveAt(q, i), P \ {Asker(q[i])})
                            /\ \A j \in DOMAIN RemoveAt(q, i) :
                                 Asking(RemoveAt(q, i)[j])
                                 => Asker(RemoveAt(q, i)[j]) # Asker(q[i])
<1> DEFINE r    == RemoveAt(q, i)
           f(j) == IF j < i THEN j ELSE j + 1
<1>1. /\ DOMAIN r = 1..(Len(q) - 1) /\ DOMAIN q = 1..Len(q) /\ Len(q) \in Nat
      /\ i \in 1..Len(q)
  BY RemoveAtElements
<1>2. \A j \in DOMAIN r : f(j) \in DOMAIN q \ {i} /\ r[j] = q[f(j)]
  <2>1. \A j \in 1..(Len(q) - 1) : r[j] = IF j < i THEN q[j] ELSE q[j + 1]
    BY RemoveAtElements
  <2>2. \A j \in 1..(Len(q) - 1) : f(j) \in 1..Len(q) /\ f(j) # i
    BY <1>1
  <2> HIDE DEF r
  <2> QED
    BY <1>1, <2>1, <2>2
<1>3. \A j, h \in DOMAIN r : f(j) = f(h) => j = h
  BY <1>1
<1> HIDE DEF f, r
<1>4. OneIn(r, P)
  BY <1>2, <1>3 DEF OneIn
<1>5. ASSUME Asking(q[i])
      PROVE  \A j \in DOMAIN r : Asking(r[j]) => Asker(r[j]) # Asker(q[i])
  BY <1>2, <1>5 DEF OneIn
<1>6. ASSUME Asking(q[i]) PROVE OneIn(r, P \ {Asker(q[i])})
  BY <1>4, <1>5, <1>6 DEF OneIn
<1> QED
  BY <1>4, <1>5, <1>6 DEF r

-----------------------------------------------------------------------------
(* What the steps have in common.                                          *)

\* A step that touches neither contexts, removals nor X2 messages.
LEMMA QuietKeeps ==
  ASSUME JInv, UNCHANGED <<ctx, removals, x2>>
  PROVE  TimerDiscipline' /\ OnePreparation'
BY DEF JInv, TimerDiscipline, OnePreparation

\* A step that changes one context and schedules no removal.
LEMMA OneTimed ==
  ASSUME JInv, NEW k \in Ids, NEW c, ctx' = [ctx EXCEPT ![k] = c],
         removals' = removals, Timed(c, k \in removals)
  PROVE  TimerDiscipline'
BY DEF JInv, IInv, TypeOK, TimerDiscipline

\* The same step leaves the contexts that prepare a handover alone.
LEMMA OnePrepared ==
  ASSUME JInv, IInv', NEW k \in Ids, NEW c, ctx' = [ctx EXCEPT ![k] = c],
         Prepares(k) => c.st = "HANDOVER_PREPARATION",
         OneIn(x2', Preparers)
  PROVE  OnePreparation'
<1>1. Preparers \subseteq Preparers'
  BY DEF Preparers, Prepares, JInv, IInv, TypeOK
<1>2. OneIn(x2', Preparers')
  BY <1>1, OneInMore
<1> QED
  BY <1>2, OneInX2Next DEF OneIn

\* The same step ends the preparation of context k, if it has one.
LEMMA OneEnded ==
  ASSUME JInv, IInv', NEW k \in Ids, NEW c, ctx' = [ctx EXCEPT ![k] = c],
         OneIn(x2', Preparers \ {k})
  PROVE  OnePreparation'
<1>1. Preparers \ {k} \subseteq Preparers'
  BY DEF Preparers, Prepares, JInv, IInv, TypeOK
<1>2. OneIn(x2', Preparers')
  BY <1>1, OneInMore
<1> QED
  BY <1>2, OneInX2Next DEF OneIn

\* The invariant, in the form the steps use it.
LEMMA Present ==
  ASSUME JInv
  PROVE  /\ ctx \in [Ids -> Context] /\ x2 \in Seq(X2Msg) /\ OneIn(x2, Preparers)
         /\ \A k \in Ids : ctx[k] \in Context /\ Timed(ctx[k], k \in removals)
BY OneInX2 DEF JInv, IInv, TypeOK, TimerDiscipline

\* A context that AddUe has just created has the timer of its state.
LEMMA NewTimed ==
  ASSUME NEW t \in Timers, NEW g
  PROVE  Timed(NewContext(t), g)
<1>1. NewContext(t) \in Context
  BY NewContextType
<1>2. NewContext(t).st = TimerState[t] /\ NewContext(t).timers = {t}
  BY DEF NewContext, Blank
<1> QED
  BY <1>1, <1>2, GuardedTimed

-----------------------------------------------------------------------------
(* The UE, connection establishment and reconfiguration.                   *)

\* Random access creates a context with the connection request timer.
LEMMA RandomAccessTimed ==
  ASSUME JInv, IInv', RandomAccess
  PROVE  TimerDiscipline' /\ OnePreparation'
<1> DEFINE j == <<ue.cell, NextRnti(ue.cell)>>
           c == NewContext("connectionRequest")
<1>1. /\ ctx' = [ctx EXCEPT ![j] = c] /\ UNCHANGED <<removals, x2>>
      /\ CanAddUe(ue.cell)
  BY DEF RandomAccess
<1>2. ue.cell \in Cells /\ IInv
  BY DEF JInv, IInv, TypeOK, Ue
<1>3. j \in Ids /\ ~Prepares(j)
  BY <1>1, <1>2, NewIsFree DEF Exists, Prepares
<1>4. Timed(c, j \in removals)
  BY NewTimed DEF Timers
<1> HIDE DEF j, c
<1> QED
  BY <1>1, <1>3, <1>4, Present, OneTimed, OnePrepared

\* RecvRrcConnectionRequest exchanges one timer for another.
LEMMA RequestTimed ==
  ASSUME JInv, IInv', NEW k \in Ids, RecvRrcConnectionRequest(k)
  PROVE  TimerDiscipline' /\ OnePreparation'
<1>1. CASE ctx[k].st # "INITIAL_RANDOM_ACCESS"
  BY <1>1, QuietKeeps DEF RecvRrcConnectionRequest, Abort
<1>2. CASE ctx[k].st = "INITIAL_RANDOM_ACCESS"
  <2>1. PICK t \in {"connectionSetup", "connectionRejected"} :
          /\ ctx' = [ctx EXCEPT ![k] = Waits(Stopped(ctx[k], "connectionRequest"), t)]
          /\ UNCHANGED <<removals, x2>>
    BY <1>2, Present DEF RecvRrcConnectionRequest
  <2> DEFINE s == Stopped(ctx[k], "connectionRequest")
             c == Waits(s, t)
  <2>2. t \in Timers /\ "connectionRequest" \in Timers
    BY DEF Timers
  <2>3. ctx[k].timers \subseteq {"connectionRequest"}
    BY <1>2, <2>2, Present, TimersOf DEF TimerState
  <2>4. s \in Context /\ s.timers = {}
    BY <2>2, <2>3, Present, StoppedType DEF Stopped, Context
  <2>5. c \in Context /\ c.st = TimerState[t] /\ c.timers = {t}
    <3> HIDE DEF s
    <3> QED BY <2>2, <2>4, WaitsType DEF Waits, Context
  <2> HIDE DEF c
  <2>6. Timed(c, k \in removals)
    BY <2>2, <2>5, GuardedTimed
  <2> QED
    BY <1>2, <2>1, <2>6, Present, OneTimed, OnePrepared DEF Prepares, c
<1> QED
  BY <1>1, <1>2

\* RecvRrcConnectionSetupCompleted stops the connection setup timer.
LEMMA SetupCompletedTimed ==
  ASSUME JInv, IInv', NEW k \in Ids, RecvRrcConnectionSetupCompleted(k)
  PROVE  TimerDiscipline' /\ OnePreparation'
<1>1. CASE ctx[k].st # "CONNECTION_SETUP"
  BY <1>1, QuietKeeps DEF RecvRrcConnectionSetupCompleted, Abort
<1>2. CASE ctx[k].st = "CONNECTION_SETUP"
  <2> DEFINE s == Stopped(ctx[k], "connectionSetup")
  <2>1. ctx' = [ctx EXCEPT ![k] = Connected(s)] /\ UNCHANGED <<removals, x2>>
    BY <1>2 DEF RecvRrcConnectionSetupCompleted
  <2>2. "connectionSetup" \in Timers
    BY DEF Timers
  <2>3. ctx[k].timers \subseteq {"connectionSetup"}
    BY <1>2, <2>2, Present, TimersOf DEF TimerState
  <2>4. s \in Context /\ s.timers = {}
    BY <2>2, <2>3, Present, StoppedType DEF Stopped, Context
  <2> HIDE DEF s
  <2>5. Timed(Connected(s), k \in removals)
    BY <2>4, ConnectedTimed
  <2> QED
    BY <1>2, <2>1, <2>5, Present, OneTimed, OnePrepared DEF Prepares
<1> QED
  BY <1>1, <1>2

\* A reconfiguration is sent in a state without timers, or waits.
LEMMA ScheduleTimed ==
  ASSUME JInv, IInv', NEW k \in Ids, ScheduleRrcConnectionReconfiguration(k)
  PROVE  TimerDiscipline' /\ OnePreparation'
<1>1. CASE ~Schedulable(ctx[k])
  BY <1>1, QuietKeeps DEF ScheduleRrcConnectionReconfiguration, Abort
<1>2. CASE Schedulable(ctx[k])
  <2> DEFINE c == [ctx[k] EXCEPT !.pend = TRUE]
             d == IF SendsNow(c) THEN Connected(c) ELSE c
  <2>1. ctx' = [ctx EXCEPT ![k] = d] /\ UNCHANGED <<removals, x2>>
    BY <1>2 DEF ScheduleRrcConnectionReconfiguration
  <2>2. c \in Context /\ c.st = ctx[k].st /\ c.timers = ctx[k].timers
    BY Present DEF Context
  <2> HIDE DEF c
  <2>3. CASE SendsNow(c)
    <3>1. c.timers = {}
      BY <2>2, <2>3, Present, TimersOf DEF SendsNow, Unguarded
    <3>2. Timed(Connected(c), k \in removals)
      BY <2>2, <3>1, ConnectedTimed
    <3> QED
      BY <2>1, <2>2, <2>3, <3>2, Present, OneTimed, OnePrepared
      DEF Prepares, SendsNow
  <2>4. CASE ~SendsNow(c)
    <3>1. Timed(c, k \in removals)
      BY <2>2, Present, SameTimed
    <3> QED
      BY <2>1, <2>2, <2>4, <3>1, Present, OneTimed, OnePrepared DEF Prepares
  <2> QED
    BY <2>3, <2>4
<1> QED
  BY <1>1, <1>2

\* ReleaseDataRadioBearer changes neither state nor timers.
LEMMA ReleaseTimed ==
  ASSUME JInv, IInv', NEW k \in Ids, ReleaseDataRadioBearer(k)
  PROVE  TimerDiscipline' /\ OnePreparation'
<1>1. PICK b : ctx' = [ctx EXCEPT ![k].drbs = @ \ {b}] /\ UNCHANGED <<removals, x2>>
  BY DEF ReleaseDataRadioBearer
<1> DEFINE c == [ctx[k] EXCEPT !.drbs = @ \ {b}]
<1>2. ctx' = [ctx EXCEPT ![k] = c]
  BY <1>1, Present
<1>3. c.st = ctx[k].st /\ c.timers = ctx[k].timers
  BY Present DEF Context
<1> HIDE DEF c
<1>4. Timed(c, k \in removals)
  BY <1>3, Present, SameTimed
<1> QED
  BY <1>1, <1>2, <1>3, <1>4, Present, OneTimed, OnePrepared DEF Prepares

\* Nor does the context setup, but for a context that is connected.
LEMMA ContextSetupTimed ==
  ASSUME JInv, IInv', NEW a \in Cells, RecvContextSetup(a)
  PROVE  TimerDiscipline' /\ OnePreparation'
<1> DEFINE m == Head(s1down[a])
           k == <<a, enbApp[a].rnti>>
           set == [ctx[k] EXCEPT !.drbs = m.bearers, !.teid = m.teid, !.pend = TRUE]
           con == [Connected(set) EXCEPT !.pend = Cardinality(m.bearers) > 1]
           done == IF SendsNow(set) THEN con ELSE set
<1>1. CASE UNCHANGED <<ctx, removals, x2>>
  BY <1>1, QuietKeeps
<1>2. CASE /\ enbApp[a].rnti # 0 /\ ctx' = [ctx EXCEPT ![k] = done]
           /\ UNCHANGED <<removals, x2>>
  <2>1. k \in Ids
    <3>1. enbApp[a].rnti \in Rntis
      BY <1>2 DEF JInv, IInv, TypeOK, EnbApp
    <3> QED
      BY <3>1, IdParts
  <2>2. m.bearers \in SUBSET Bearers /\ m.teid \in Teids \union {0}
    <3>1. s1down \in [Cells -> Seq(S1Down)] /\ s1down[a] # <<>>
      BY DEF JInv, IInv, TypeOK, RecvContextSetup, Pending
    <3>2. m \in S1Down
      BY <3>1, HeadType
    <3> QED
      BY <3>2 DEF S1Down
  <2>3. set \in Context /\ set.st = ctx[k].st /\ set.timers = ctx[k].timers
    <3> HIDE DEF k, m
    <3> QED BY <2>1, <2>2, Present DEF Context
  <2>4. CASE SendsNow(set)
    <3>1. set.timers = {} /\ ~Prepares(k)
      <4> HIDE DEF set, k
      <4> QED BY <2>1, <2>3, <2>4, Present, TimersOf DEF SendsNow, Unguarded, Prepares
    <3>2. Timed(Connected(set), k \in removals)
      <4> HIDE DEF set
      <4> QED BY <2>3, <3>1, ConnectedTimed
    <3>3. con.st = Connected(set).st /\ con.timers = Connected(set).timers
      <4>1. Connected(set) \in Context
        BY <2>3, ConnectedType
      <4> DEFINE d == Connected(set)
                 p == Cardinality(m.bearers) > 1
      <4>2. [d EXCEPT !.pend = p].st = d.st /\ [d EXCEPT !.pend = p].timers = d.timers
        <5>1. d \in Context
          BY <4>1
        <5> HIDE DEF d, p
        <5> QED BY <5>1 DEF Context
      <4> QED
        BY <4>2
    <3>4. Timed(con, k \in removals)
      <4> HIDE DEF con
      <4> QED BY <3>2, <3>3, SameTimed
    <3>5. ctx' = [ctx EXCEPT ![k] = con]
      BY <1>2, <2>4
    <3> HIDE DEF con, k
    <3> QED
      BY <1>2, <2>1, <3>1, <3>4, <3>5, Present, OneTimed, OnePrepared
  <2>5. CASE ~SendsNow(set)
    <3>1. ctx' = [ctx EXCEPT ![k] = set]
      BY <1>2, <2>5
    <3> HIDE DEF set, k
    <3>2. Timed(set, k \in removals)
      BY <2>1, <2>3, Present, SameTimed
    <3> QED
      BY <1>2, <2>1, <2>3, <3>1, <3>2, Present, OneTimed, OnePrepared DEF Prepares
  <2> QED
    BY <2>4, <2>5
<1> QED
  BY <1>1, <1>2 DEF RecvContextSetup, Abort, UeManagerNotFound

\* A queued handover is asked for by a context that has none in transit.
LEMMA ReconfiguredTimed ==
  ASSUME JInv, IInv', NEW k \in Ids, ctx[k].st = "CONNECTION_RECONFIGURATION",
         Reconfigured(k), UNCHANGED removals
  PROVE  TimerDiscipline' /\ OnePreparation'
<1> DEFINE c    == Connected(ctx[k])
           next == c.queued # 0 /\ c.st = "CONNECTED_NORMALLY"
           h    == HandoverPrepared(c, c.queued)
<1>1. /\ ctx' = [ctx EXCEPT ![k] = IF next THEN h ELSE c]
      /\ x2' = IF next THEN Append(x2, HandoverRequest(k, c, c.queued)) ELSE x2
  BY DEF Reconfigured
<1>2. ctx[k].timers = {} /\ ~Prepares(k)
  BY Present, TimersOf DEF Unguarded, Prepares
<1>3. c \in Context /\ c.timers = {} /\ Timed(c, k \in removals)
  BY <1>2, Present, ConnectedType, ConnectedTimed DEF Connected, Context
<1> HIDE DEF c
<1>4. CASE ~next
  BY <1>1, <1>2, <1>3, <1>4, Present, OneTimed, OnePrepared
<1>5. CASE next
  <2>1. c.queued \in Cells
    BY <1>3, <1>5 DEF Context
  <2>2. h \in Context /\ h.st = "HANDOVER_PREPARATION" /\ h.timers = {}
    BY <1>3, <2>1, HandoverPreparedType DEF HandoverPrepared, Context
  <2>3. Timed(h, k \in removals)
    BY <2>2, UnguardedTimed DEF Unguarded
  <2> DEFINE m == HandoverRequest(k, c, c.queued)
  <2>4. m \in X2Msg /\ Asking(m) /\ Asker(m) = k
    <3>1. m \in X2Msg
      BY <1>3, <2>1, HandoverRequestType
    <3>2. m.type = "HO_REQUEST" /\ m.from = EnbCell(k) /\ m.old = Rnti(k)
      BY DEF HandoverRequest, X2
    <3>3. k = <<EnbCell(k), Rnti(k)>>
      BY DEF Ids, EnbCell, Rnti
    <3> QED
      BY <3>1, <3>2, <3>3 DEF Asking, Asker
  <2>5. x2' = Append(x2, m) /\ ctx' = [ctx EXCEPT ![k] = h]
    BY <1>1, <1>5
  <2> HIDE DEF m, h
  <2>6. \A i \in DOMAIN x2 : Asking(x2[i]) => Asker(x2[i]) # k
    BY <1>2, Present DEF OneIn, Preparers
  <2>7. OneIn(x2', Preparers \union {k})
    BY <2>4, <2>5, <2>6, Present, OneInAsked
  <2>8. Preparers \union {k} \subseteq Preparers'
    BY <2>2, <2>5, Present DEF Preparers, Prepares
  <2>9. OneIn(x2', Preparers')
    BY <2>7, <2>8, OneInMore
  <2> QED
    BY <2>3, <2>5, <2>9, OneTimed, OneInX2Next DEF OneIn
<1> QED
  BY <1>4, <1>5

\* A context that joins stops HandoverJoiningTimeout.
LEMMA JoinedTimed ==
  ASSUME JInv, IInv', NEW k \in Ids, ctx[k].st = "HANDOVER_JOINING",
         Joined(k), UNCHANGED removals
  PROVE  TimerDiscipline' /\ OnePreparation'
<1> DEFINE s == Stopped(ctx[k], "handoverJoining")
           d == [s EXCEPT !.st = "HANDOVER_PATH_SWITCH"]
<1>1. ctx' = [ctx EXCEPT ![k] = d] /\ x2' = x2
  BY DEF Joined
<1>2. "handoverJoining" \in Timers
  BY DEF Timers
<1>3. ctx[k].timers \subseteq {"handoverJoining"}
  BY <1>2, Present, TimersOf DEF TimerState
<1>4. s \in Context /\ s.timers = {}
  BY <1>2, <1>3, Present, StoppedType DEF Stopped, Context
<1>5. d \in Context /\ d.st = "HANDOVER_PATH_SWITCH" /\ d.timers = {}
  <2> HIDE DEF s
  <2> QED BY <1>4 DEF Context, EnbStates
<1> HIDE DEF d
<1>6. Timed(d, k \in removals)
  BY <1>5, UnguardedTimed DEF Unguarded
<1> QED
  BY <1>1, <1>6, Present, OneTimed, OnePrepared DEF Prepares

\* All the RRC messages of the UE.
LEMMA RrcStepTimed ==
  ASSUME JInv, IInv', NEW k \in Ids, RrcStep(k)
  PROVE  TimerDiscipline' /\ OnePreparation'
<1>1. CASE RecvRrcConnectionReconfigurationCompleted(k)
  <2>1. CASE ctx[k].st = "CONNECTION_RECONFIGURATION"
    BY <1>1, <2>1, ReconfiguredTimed DEF RecvRrcConnectionReconfigurationCompleted
  <2>2. CASE ctx[k].st = "HANDOVER_JOINING"
    BY <1>1, <2>2, JoinedTimed DEF RecvRrcConnectionReconfigurationCompleted
  <2>3. CASE ctx[k].st \notin {"CONNECTION_RECONFIGURATION", "HANDOVER_JOINING"}
    <3>1. UNCHANGED <<ctx, removals, x2>>
      BY <1>1, <2>3 DEF RecvRrcConnectionReconfigurationCompleted, Abort
    <3> QED
      BY <3>1, QuietKeeps
  <2> QED
    BY <2>1, <2>2, <2>3
<1> QED
  BY <1>1, RequestTimed, SetupCompletedTimed DEF RrcStep

-----------------------------------------------------------------------------
(* Timeouts.                                                               *)

\* A timeout finds its context, which keeps no timer when it is removed.
LEMMA TimerStepTimed ==
  ASSUME JInv, IInv', Assured, NEW k \in Ids, TimerStep(k)
  PROVE  TimerDiscipline' /\ OnePreparation'
<1>1. ASSUME NEW t \in Timers, ContextTimeout(k, t)
      PROVE  TimerDiscipline' /\ OnePreparation'
  <2>1. t \in ctx[k].timers /\ ctx[k].st = TimerState[t]
    BY <1>1, Present DEF ContextTimeout, Timed
  <2>2. /\ ctx' = [ctx EXCEPT ![k] = Erased(Stopped(ctx[k], t))]
        /\ UNCHANGED <<removals, x2>>
    BY <1>1, <2>1 DEF ContextTimeout, InTimerState, RemoveUe
  <2>3. Timed(Erased(Stopped(ctx[k], t)), k \in removals)
    BY <2>1, Present, ErasedTimed
  <2>4. ~Prepares(k)
    BY <2>1, UnguardedStates DEF Prepares, Unguarded
  <2> QED
    BY <2>2, <2>3, <2>4, Present, OneTimed, OnePrepared
<1>2. CASE HandoverJoiningTimeout(k)
  <2> DEFINE c == Stopped(ctx[k], "handoverJoining")
  <2>1. "handoverJoining" \in Timers /\ "handoverJoining" \in ctx[k].timers
    BY <1>2 DEF HandoverJoiningTimeout, Timers
  <2>2. ctx[k].st = TimerState["handoverJoining"]
    BY <2>1, Present DEF Timed
  <2>3. /\ ctx' = [ctx EXCEPT ![k] = c] /\ removals' = removals \union {k}
        /\ UNCHANGED x2
    BY <1>2, <2>2, Present DEF HandoverJoiningTimeout, InTimerState
  <2>4. c.timers = {} /\ c.st = "HANDOVER_JOINING" /\ c \in Context
    BY SMTT(40), <2>1, <2>2, Present, TimersOf, StoppedType DEF Stopped, Context, TimerState
  <2> HIDE DEF c
  <2>5. Timed(c, TRUE)
    BY <2>4 DEF Timed
  <2>6. TimerDiscipline'
    BY <2>3, <2>5, Present DEF TimerDiscipline, Timed
  <2>7. ~Prepares(k)
    BY <2>2 DEF Prepares, TimerState
  <2> QED
    BY <2>3, <2>6, <2>7, Present, OnePrepared
<1>3. ~ScheduledRemoval(k)
  BY DEF ScheduledRemoval, Assured
<1> QED
  BY <1>1, <1>2, <1>3 DEF TimerStep

-----------------------------------------------------------------------------
(* The X2 handover.                                                        *)

\* A handover is asked for only by a context that has none in transit.
LEMMA SendHandoverRequestTimed ==
  ASSUME JInv, IInv', NEW k \in Ids, SendHandoverRequest(k)
  PROVE  TimerDiscipline' /\ OnePreparation'
<1>1. PICK t \in Cells \ {EnbCell(k)} :
       \/ /\ ctx[k].st = "CONNECTED_NORMALLY"
          /\ ctx' = [ctx EXCEPT ![k] = HandoverPrepared(@, t)]
          /\ x2' = Append(x2, HandoverRequest(k, ctx[k], t)) /\ UNCHANGED removals
       \/ /\ ctx[k].st \in {"CONNECTION_RECONFIGURATION", "HANDOVER_JOINING"}
          /\ ctx' = [ctx EXCEPT ![k].queued = t] /\ UNCHANGED <<x2, removals>>
       \/ UNCHANGED <<ctx, removals, x2>>
  BY DEF SendHandoverRequest, Abort
<1>2. CASE /\ ctx[k].st = "CONNECTED_NORMALLY"
           /\ ctx' = [ctx EXCEPT ![k] = HandoverPrepared(@, t)]
           /\ x2' = Append(x2, HandoverRequest(k, ctx[k], t)) /\ UNCHANGED removals
  <2> DEFINE h == HandoverPrepared(ctx[k], t)
             m == HandoverRequest(k, ctx[k], t)
  <2>1. ctx[k].timers = {} /\ ~Prepares(k)
    BY <1>2, Present, TimersOf DEF Unguarded, Prepares
  <2>2. h \in Context /\ h.st = "HANDOVER_PREPARATION" /\ h.timers = {}
    BY <2>1, Present, HandoverPreparedType DEF HandoverPrepared, Context
  <2>3. Timed(h, k \in removals)
    BY <2>2, UnguardedTimed DEF Unguarded
  <2>4. m \in X2Msg /\ Asking(m) /\ Asker(m) = k
    <3>1. m \in X2Msg
      BY Present, HandoverRequestType
    <3>2. m.type = "HO_REQUEST" /\ m.from = EnbCell(k) /\ m.old = Rnti(k)
      BY DEF HandoverRequest, X2
    <3>3. k = <<EnbCell(k), Rnti(k)>>
      BY DEF Ids, EnbCell, Rnti
    <3> QED
      BY <3>1, <3>2, <3>3 DEF Asking, Asker
  <2>5. x2' = Append(x2, m) /\ ctx' = [ctx EXCEPT ![k] = h]
    BY <1>2, Present
  <2> HIDE DEF m, h
  <2>6. \A i \in DOMAIN x2 : Asking(x2[i]) => Asker(x2[i]) # k
    BY <2>1, Present DEF OneIn, Preparers
  <2>7. OneIn(x2', Preparers \union {k})
    BY <2>4, <2>5, <2>6, Present, OneInAsked
  <2>8. Preparers \union {k} \subseteq Preparers'
    BY <2>2, <2>5, Present DEF Preparers, Prepares
  <2>9. OneIn(x2', Preparers')
    BY <2>7, <2>8, OneInMore
  <2> QED
    BY <1>2, <2>3, <2>5, <2>9, OneTimed, OneInX2Next DEF OneIn
<1>3. CASE /\ ctx[k].st \in {"CONNECTION_RECONFIGURATION", "HANDOVER_JOINING"}
           /\ ctx' = [ctx EXCEPT ![k].queued = t] /\ UNCHANGED <<x2, removals>>
  <2> DEFINE c == [ctx[k] EXCEPT !.queued = t]
  <2>1. ctx' = [ctx EXCEPT ![k] = c] /\ c.st = ctx[k].st /\ c.timers = ctx[k].timers
    BY <1>3, Present DEF Context
  <2> HIDE DEF c
  <2>2. Timed(c, k \in removals)
    BY <2>1, Present, SameTimed
  <2> QED
    BY <1>3, <2>1, <2>2, Present, OneTimed, OnePrepared DEF Prepares
<1> QED
  BY <1>1, <1>2, <1>3, QuietKeeps

\* The target's answer belongs to the same preparation as the request.
LEMMA AnsweredOne ==
  ASSUME JInv, NEW i \in DOMAIN x2, x2[i].type = "HO_REQUEST", NEW r \in X2Msg,
         r.type \in {"HO_ACK", "HO_FAILURE"}, r.to = x2[i].from, r.old = x2[i].old
  PROVE  OneIn(X2Answered(i, r), Preparers)
<1>1. /\ Asking(x2[i]) /\ Asking(r) /\ Asker(r) = Asker(x2[i])
      /\ Asker(x2[i]) \in Preparers
  BY Present DEF Asking, Asker, OneIn
<1>2. /\ OneIn(RemoveAt(x2, i), Preparers)
      /\ \A j \in DOMAIN RemoveAt(x2, i) :
           Asking(RemoveAt(x2, i)[j]) => Asker(RemoveAt(x2, i)[j]) # Asker(x2[i])
  BY <1>1, Present, OneInTaken
<1>3. RemoveAt(x2, i) \in Seq(X2Msg)
  BY Present, RemoveAtType
<1> QED
  BY <1>1, <1>2, <1>3, OneInAsked DEF X2Answered, X2Taken

\* The target answers the request, or the program stops.
LEMMA HandoverRequestTimed ==
  ASSUME JInv, IInv', Assured, NEW i \in DOMAIN x2, RecvHandoverRequest(i)
  PROVE  TimerDiscipline' /\ OnePreparation'
<1> DEFINE m == x2[i]
           n == NextRnti(m.to)
           j == <<m.to, n>>
           p == m.drbs # {}
           new == [NewContext("handoverJoining") EXCEPT
                     !.source = m.from, !.sourceRnti = m.old, !.drbs = m.drbs,
                     !.teid = m.teid, !.pend = p]
           no  == X2("HO_FAILURE", m.to, m.from, m.old, 0, {}, 0)
           yes == X2("HO_ACK", m.to, m.from, m.old, n, m.drbs, m.teid)
<1>1. \A preamble \in Preambles : preamble
  BY ChoicesAssumption DEF Assured
<1>2. \/ UNCHANGED <<ctx, removals, x2>>
      \/ x2' = X2Answered(i, no) /\ UNCHANGED <<ctx, removals>>
      \/ x2' = X2Answered(i, yes) /\ ctx' = [ctx EXCEPT ![j] = new] /\ UNCHANGED removals
  BY <1>1, ChoicesAssumption DEF RecvHandoverRequest, Abort
<1>3. /\ m.from \in Cells /\ m.to \in Cells /\ m.old \in Rntis
      /\ m.drbs \in SUBSET Bearers /\ m.teid \in Teids \union {0}
      /\ m.type = "HO_REQUEST" /\ CanAddUe(m.to)
  BY X2TakenType DEF RecvHandoverRequest, JInv
<1>4. j \in Ids /\ ~Exists(j) /\ n \in Rntis
  <2>1. j \in Ids /\ ~Exists(j)
    BY <1>3, NewIsFree DEF JInv
  <2> QED
    BY <2>1 DEF Ids
<1>5. no \in X2Msg /\ yes \in X2Msg
  BY <1>3, <1>4, X2Type
<1>6. OneIn(X2Answered(i, no), Preparers) /\ OneIn(X2Answered(i, yes), Preparers)
  <2>1. /\ no.type = "HO_FAILURE" /\ no.to = m.from /\ no.old = m.old
        /\ yes.type = "HO_ACK" /\ yes.to = m.from /\ yes.old = m.old
    BY DEF X2
  <2> HIDE DEF no, yes
  <2> QED BY <1>3, <1>5, <2>1, AnsweredOne
<1>7. CASE UNCHANGED <<ctx, removals, x2>>
  BY <1>7, QuietKeeps
<1>8. CASE x2' = X2Answered(i, no) /\ UNCHANGED <<ctx, removals>>
  <2>1. TimerDiscipline'
    BY <1>8 DEF JInv, TimerDiscipline
  <2>2. OneIn(x2', Preparers')
    BY <1>6, <1>8 DEF Preparers, Prepares
  <2> QED
    BY <2>1, <2>2, OneInX2Next DEF OneIn
<1>9. CASE x2' = X2Answered(i, yes) /\ ctx' = [ctx EXCEPT ![j] = new] /\ UNCHANGED removals
  <2>1. "handoverJoining" \in Timers
    BY DEF Timers
  <2>2. Timed(new, j \in removals)
    <3> DEFINE w == NewContext("handoverJoining")
    <3>1. w \in Context /\ Timed(w, j \in removals)
      BY <2>1, NewTimed, NewContextType
    <3>2. new.st = w.st /\ new.timers = w.timers
      <4> HIDE DEF w, m
      <4> QED BY <3>1 DEF Context, w
    <3> HIDE DEF w, new
    <3> QED BY <3>1, <3>2, SameTimed
  <2>3. ~Prepares(j)
    BY <1>4 DEF Exists, Prepares
  <2> HIDE DEF new, j, yes
  <2> QED
    BY <1>4, <1>6, <1>9, <2>2, <2>3, OneTimed, OnePrepared
<1> QED
  BY <1>2, <1>7, <1>8, <1>9

\* Message i is taken, and a message that belongs to no preparation may follow.
LEMMA TakenOne ==
  ASSUME JInv, NEW i \in DOMAIN x2
  PROVE  /\ OneIn(X2Taken(i), Preparers)
         /\ Asking(x2[i]) => OneIn(X2Taken(i), Preparers \ {Asker(x2[i])})
         /\ X2Taken(i) \in Seq(X2Msg)
BY Present, OneInTaken, RemoveAtType DEF X2Taken

\* A context that had no timer leaves under the handover leaving timer.
LEMMA HandoverLeftTimed ==
  ASSUME NEW c \in Context, NEW g, c.timers = {}
  PROVE  Timed(HandoverLeft(c), g)
<1>1. "handoverLeaving" \in Timers /\ TimerState["handoverLeaving"] = "HANDOVER_LEAVING"
  BY DEF Timers, TimerState
<1>2. HandoverLeft(c) \in Context
  BY <1>1 DEF HandoverLeft, Context, EnbStates
<1>3. /\ HandoverLeft(c).st = "HANDOVER_LEAVING"
      /\ HandoverLeft(c).timers = {"handoverLeaving"}
  BY DEF HandoverLeft, Context
<1> QED
  BY <1>1, <1>2, <1>3, GuardedTimed

\* The acknowledgement finds the context that asked.
LEMMA HandoverRequestAckTimed ==
  ASSUME JInv, IInv', NEW i \in DOMAIN x2, RecvHandoverRequestAck(i)
  PROVE  TimerDiscipline' /\ OnePreparation'
<1> DEFINE m == x2[i]
           k == <<m.to, m.old>>
           s == X2("SN_STATUS", m.to, m.from, m.old, m.new, {}, 0)
<1>1. \/ UNCHANGED <<ctx, removals, x2>>
      \/ /\ ctx' = [ctx EXCEPT ![k] = HandoverLeft(@)] /\ x2' = X2Answered(i, s)
         /\ UNCHANGED removals
  BY DEF RecvHandoverRequestAck, Abort, UeManagerNotFound
<1>2. /\ m.from \in Cells /\ m.to \in Cells /\ m.old \in Rntis /\ m.new \in Rntis
      /\ k \in Ids /\ Asking(m) /\ Asker(m) = k
  BY X2TakenType, IdParts DEF RecvHandoverRequestAck, Asking, Asker, JInv
<1>3. s \in X2Msg /\ ~Asking(s)
  <2>1. s \in X2Msg
    BY <1>2, X2Type
  <2> QED
    BY <2>1 DEF X2, Asking
<1>4. CASE /\ ctx' = [ctx EXCEPT ![k] = HandoverLeft(@)] /\ x2' = X2Answered(i, s)
           /\ UNCHANGED removals
  <2>1. Prepares(k)
    BY <1>2, Present DEF OneIn, Preparers
  <2>2. ctx[k].timers = {}
    BY <1>2, <2>1, Present, TimersOf DEF Prepares, Unguarded
  <2>3. ctx' = [ctx EXCEPT ![k] = HandoverLeft(ctx[k])]
    BY <1>2, <1>4, Present
  <2>4. OneIn(X2Taken(i), Preparers \ {k}) /\ X2Taken(i) \in Seq(X2Msg)
    BY <1>2, TakenOne
  <2>5. OneIn(x2', Preparers \ {k})
    <3> HIDE DEF s
    <3> QED BY <1>3, <1>4, <2>4, OneInOther DEF X2Answered
  <2> HIDE DEF k, s, m
  <2>6. Timed(HandoverLeft(ctx[k]), k \in removals)
    BY <1>2, <2>2, Present, HandoverLeftTimed
  <2> QED
    BY <1>2, <1>4, <2>3, <2>5, <2>6, OneTimed, OneEnded
<1> QED
  BY <1>1, <1>4, QuietKeeps

\* So does the failure message.
LEMMA PreparationFailureTimed ==
  ASSUME JInv, IInv', NEW i \in DOMAIN x2, RecvHandoverPreparationFailure(i)
  PROVE  TimerDiscipline' /\ OnePreparation'
<1> DEFINE m == x2[i]
           k == <<m.to, m.old>>
<1>1. k \in Ids /\ Asking(m) /\ Asker(m) = k
  BY X2TakenType, IdParts DEF RecvHandoverPreparationFailure, Asking, Asker, JInv
<1>2. Prepares(k)
  BY <1>1, Present DEF OneIn, Preparers
<1>3. \/ UNCHANGED <<ctx, removals, x2>>
      \/ /\ ctx' = [ctx EXCEPT ![k] = Connected(ctx[k])] /\ x2' = X2Taken(i)
         /\ UNCHANGED removals
  BY <1>2 DEF RecvHandoverPreparationFailure, Abort, Prepares
<1>4. CASE /\ ctx' = [ctx EXCEPT ![k] = Connected(ctx[k])] /\ x2' = X2Taken(i)
           /\ UNCHANGED removals
  <2>1. OneIn(x2', Preparers \ {k})
    BY <1>1, <1>4, TakenOne
  <2> HIDE DEF k, m
  <2>2. ctx[k].timers = {}
    BY <1>1, <1>2, Present, TimersOf DEF Prepares, Unguarded
  <2>3. Timed(Connected(ctx[k]), k \in removals)
    BY <1>1, <2>2, Present, ConnectedTimed
  <2> QED
    BY <1>1, <1>4, <2>1, <2>3, OneTimed, OneEnded
<1> QED
  BY <1>3, <1>4, QuietKeeps

\* SN STATUS TRANSFER belongs to no preparation.
LEMMA SnStatusTimed ==
  ASSUME JInv, IInv', NEW i \in DOMAIN x2, RecvSnStatusTransfer(i)
  PROVE  TimerDiscipline' /\ OnePreparation'
<1>1. \/ UNCHANGED <<ctx, removals, x2>>
      \/ x2' = X2Taken(i) /\ UNCHANGED <<ctx, removals>>
  BY DEF RecvSnStatusTransfer, Abort, UeManagerNotFound
<1>2. CASE x2' = X2Taken(i) /\ UNCHANGED <<ctx, removals>>
  <2>1. TimerDiscipline'
    BY <1>2 DEF JInv, TimerDiscipline
  <2>2. OneIn(x2', Preparers')
    BY <1>2, TakenOne DEF Preparers, Prepares
  <2> QED
    BY <2>1, <2>2, OneInX2Next DEF OneIn
<1> QED
  BY <1>1, <1>2, QuietKeeps

\* UE CONTEXT RELEASE stops the handover leaving timer.
LEMMA UeContextReleaseTimed ==
  ASSUME JInv, IInv', NEW i \in DOMAIN x2, RecvUeContextRelease(i)
  PROVE  TimerDiscipline' /\ OnePreparation'
<1> DEFINE k == <<x2[i].to, x2[i].old>>
           c == Erased(Stopped(ctx[k], "handoverLeaving"))
<1>1. k \in Ids /\ "handoverLeaving" \in Timers
  BY X2TakenType, IdParts DEF JInv, Timers
<1>2. \/ UNCHANGED <<ctx, removals, x2>>
      \/ /\ ctx[k].st = "HANDOVER_LEAVING" /\ ctx' = [ctx EXCEPT ![k] = c]
         /\ x2' = X2Taken(i) /\ UNCHANGED removals
  BY DEF RecvUeContextRelease, Abort, RemoveUe
<1>3. CASE /\ ctx[k].st = "HANDOVER_LEAVING" /\ ctx' = [ctx EXCEPT ![k] = c]
           /\ x2' = X2Taken(i) /\ UNCHANGED removals
  <2>1. OneIn(x2', Preparers)
    BY <1>3, TakenOne
  <2> HIDE DEF k
  <2>2. Timed(c, k \in removals)
    BY <1>1, <1>3, Present, ErasedTimed DEF TimerState
  <2> HIDE DEF c
  <2>3. ~Prepares(k)
    BY <1>3 DEF Prepares
  <2> QED
    BY <1>1, <1>3, <2>1, <2>2, <2>3, OneTimed, OnePrepared
<1> QED
  BY <1>2, <1>3, QuietKeeps

\* The path switch ends in a state without timers.
LEMMA PathSwitchAckTimed ==
  ASSUME JInv, IInv', NEW a \in Cells, RecvPathSwitchAck(a)
  PROVE  TimerDiscipline' /\ OnePreparation'
<1> DEFINE k == <<a, enbApp[a].rnti>>
           c == ctx[k]
           m == X2("CTX_RELEASE", a, c.source, c.sourceRnti, Rnti(k), {}, 0)
<1>1. \/ UNCHANGED <<ctx, removals, x2>>
      \/ /\ enbApp[a].rnti # 0 /\ c.st = "HANDOVER_PATH_SWITCH"
         /\ ctx' = [ctx EXCEPT ![k] = Connected(@)] /\ x2' = Append(x2, m)
         /\ UNCHANGED removals
  BY DEF RecvPathSwitchAck, Abort, UeManagerNotFound
<1>2. CASE /\ enbApp[a].rnti # 0 /\ c.st = "HANDOVER_PATH_SWITCH"
           /\ ctx' = [ctx EXCEPT ![k] = Connected(@)] /\ x2' = Append(x2, m)
           /\ UNCHANGED removals
  <2>1. enbApp[a].rnti \in Rntis
    BY <1>2 DEF JInv, IInv, TypeOK, EnbApp
  <2>2. k \in Ids /\ Rnti(k) \in Rntis
    BY <2>1, IdParts
  <2> HIDE DEF k
  <2>3. c.source \in Cells /\ c.sourceRnti \in Rntis
    BY <1>2, <2>2, Present DEF Context, JInv, IInv, SourceKnown
  <2>4. m \in X2Msg
    BY <2>2, <2>3, X2Type
  <2>5. ~Asking(m)
    BY DEF X2, Asking
  <2>6. ctx' = [ctx EXCEPT ![k] = Connected(ctx[k])] /\ ~Prepares(k)
    BY <1>2, <2>2, Present DEF Prepares
  <2>7. ctx[k].timers = {}
    BY <1>2, <2>2, Present, TimersOf DEF Unguarded
  <2>8. Timed(Connected(ctx[k]), k \in removals)
    BY <2>2, <2>7, Present, ConnectedTimed
  <2>9. OneIn(x2', Preparers)
    <3> HIDE DEF m
    <3> QED BY <1>2, <2>4, <2>5, Present, OneInOther
  <2> QED
    BY <1>2, <2>2, <2>6, <2>8, <2>9, OneTimed, OnePrepared
<1> QED
  BY <1>1, <1>2, QuietKeeps

-----------------------------------------------------------------------------
(* The theorems.                                                           *)

\* The initial states satisfy the invariant.
LEMMA InitJInv == Init => JInv
<1> SUFFICES ASSUME Init PROVE JInv
  OBVIOUS
<1>1. IInv
  BY InitIInv
<1>2. TimerDiscipline
  <2>1. ASSUME NEW k \in Ids
        PROVE  ctx[k].timers = {} /\ ctx[k].st \in Unguarded /\ ctx[k] \in Context
    BY <1>1 DEF Init, Attached, Blank, Unguarded, IInv, TypeOK
  <2> QED
    BY <2>1, UnguardedTimed DEF TimerDiscipline
<1>3. OnePreparation
  BY DEF Init, OnePreparation
<1> QED
  BY <1>1, <1>2, <1>3 DEF JInv

\* Every step keeps it, under the two conditions.
LEMMA NextTimed ==
  ASSUME JInv, [Next]_vars, Assured
  PROVE  JInv'
<1>1. IInv'
  BY NextKeeps DEF JInv
<1>2. CASE UNCHANGED vars
  BY <1>1, <1>2, QuietKeeps DEF vars, JInv
<1>3. CASE UeStep \/ UeConnectionTimeout
  <2>1. CASE ~RandomAccess
    <3>1. UNCHANGED <<ctx, removals, x2>>
      BY <1>3, <2>1
      DEF UeStep, UeConnectionTimeout, UeConnect, UeRecvSystemInformation,
          UeHandoverAccess, UeRecvConnectionSetup, UeRecvConnectionReject,
          UeRecvReconfiguration, UeRecvHandoverCommand, UeUnchanged, Abort
    <3> QED
      BY <1>1, <3>1, QuietKeeps DEF JInv
  <2> QED
    BY <1>1, <2>1, RandomAccessTimed DEF JInv
<1>4. ASSUME NEW k \in Ids, RrcStep(k) \/ TimerStep(k) PROVE JInv'
  BY <1>1, <1>4, RrcStepTimed, TimerStepTimed DEF JInv
<1>5. ASSUME NEW i \in DOMAIN x2, X2Step(i) PROVE JInv'
  BY <1>1, <1>5, HandoverRequestTimed, HandoverRequestAckTimed,
     PreparationFailureTimed, SnStatusTimed, UeContextReleaseTimed
  DEF X2Step, JInv
<1>6. ASSUME NEW c \in Cells, S1Step(c) PROVE JInv'
  <2>1. CASE MmeRecvInitialUe(c) \/ MmeRecvPathSwitch(c) \/ MmeRecvErabRelease(c)
    <3>1. UNCHANGED <<ctx, removals, x2>>
      BY <2>1
      DEF MmeRecvInitialUe, MmeRecvPathSwitch, MmeRecvErabRelease, MmeUnchanged
    <3> QED
      BY <1>1, <3>1, QuietKeeps DEF JInv
  <2> QED
    BY <1>1, <1>6, <2>1, ContextSetupTimed, PathSwitchAckTimed DEF S1Step, JInv
<1>7. CASE Environment
  <2>1. CASE UeRandomAccessFailed
    BY <1>1, <2>1, QuietKeeps DEF UeRandomAccessFailed, UeUnchanged, JInv
  <2>2. ASSUME NEW k \in Ids, Srb0MessageLost(k) PROVE JInv'
    BY <1>1, <2>2, QuietKeeps DEF Srb0MessageLost, JInv
  <2>3. ASSUME NEW k \in Ids,
               \/ SendHandoverRequest(k)
               \/ ScheduleRrcConnectionReconfiguration(k)
               \/ ReleaseDataRadioBearer(k)
        PROVE  JInv'
    BY <1>1, <2>3, SendHandoverRequestTimed, ScheduleTimed, ReleaseTimed DEF JInv
  <2> QED
    BY <1>7, <2>1, <2>2, <2>3 DEF Environment
<1> QED
  BY <1>2, <1>3, <1>4, <1>5, <1>6, <1>7 DEF Next

\* No timeout handler finds its context removed or in another state, however
\* many cells, UEs' contexts and requests there are and whatever is lost.
THEOREM TimersDisciplined == Assured => (Spec => []TimerDiscipline)
<1>1. JInv /\ Assured /\ [Next]_vars => JInv'
  BY NextTimed
<1>2. JInv => TimerDiscipline
  BY DEF JInv
<1>3. Assured => []Assured
  <2>1. Assured => Assured'
    BY DEF Assured
  <2> QED BY <2>1, PTL
<1> QED
  BY <1>1, <1>2, <1>3, InitJInv, PTL DEF Spec

\* A context has at most one handover preparation in transit, and waits for its
\* answer in HANDOVER_PREPARATION as long as it is: the handlers of the answers,
\* which do not look at the state, never meet a context that did not ask.
THEOREM OnePreparationAtATime == Assured => (Spec => []OnePreparation)
<1>1. JInv /\ Assured /\ [Next]_vars => JInv'
  BY NextTimed
<1>2. JInv => OnePreparation
  BY DEF JInv
<1>3. Assured => []Assured
  <2>1. Assured => Assured'
    BY DEF Assured
  <2> QED BY <2>1, PTL
<1> QED
  BY <1>1, <1>2, <1>3, InitJInv, PTL DEF Spec
==============================================================================
