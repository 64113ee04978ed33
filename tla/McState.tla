------------------------------- MODULE McState -------------------------------
(***************************************************************************)
(* The state of one UE in dual connectivity: the LTE eNB that coordinates   *)
(* (the SINR-driven part of LteEnbRrc and the UE's UeManager there), the    *)
(* contexts that mmWave cells hold for the UE, the two RRC instances of the *)
(* UE, and the X2 links (lte-enb-rrc.cc, lte-ue-rrc.cc, epc-x2.cc).         *)
(*                                                                         *)
(* The UE has one bearer.  A mmWave context is named by k = <<cell, rnti>>; *)
(* RNTIs are taken in turn and reused, as by the code's 16-bit counter.     *)
(***************************************************************************)
EXTENDS Integers, Sequences, FiniteSets, SequencesExt

CONSTANTS
  Lte,          \* the LTE cell
  Cells,        \* the mmWave cells; 0 stands for "no cell"
  NRntis,       \* how many RNTIs a mmWave cell has (2^16 in the code)
  Barrable,     \* the cells that may be turned off
  RicCommands,  \* whether the RIC asks for handovers
  RicRace,      \* whether it may do so while a local handover is scheduled
  EqualDelays,  \* TRUE: X2 messages arrive in the order of sending;
                \* FALSE: only those of one link do
  MaxQueue      \* bound: messages to the UE, or on X2, when something is decided

ASSUME McCellsAssumption   == /\ Cells \subseteq (Nat \ {0}) /\ Cells # {}
                              /\ Lte \in (Nat \ {0}) \ Cells
ASSUME McBoundsAssumption  == NRntis \in Nat \ {0} /\ MaxQueue \in Nat
ASSUME McOptionsAssumption == /\ Barrable \subseteq Cells
                              /\ {RicCommands, RicRace, EqualDelays} \subseteq BOOLEAN

Rntis == 1..NRntis
Ids   == Cells \X Rntis
NoId  == <<0, 0>>

LteStates == {"CONNECTION_SETUP", "CONNECTED_NORMALLY", "CONNECTION_RECONFIGURATION",
              "MC_CONNECTION_RECONFIGURATION"}
MmStates  == {"NONE", "HANDOVER_JOINING", "CONNECTED_NORMALLY", "HANDOVER_PREPARATION",
              "HANDOVER_LEAVING"}

VARIABLES
  co,        \* what LteEnbRrc keeps of the UE at the coordinator
  allowed,   \* m_allowHandoverTo: the cells that are not barred
  lte,       \* the UeManager at the LTE cell
  mm,        \* the UeManagers at the mmWave cells
  newest,    \* m_imsiRntiMap of every mmWave cell: entries are never erased
  lastRnti,  \* m_lastAllocatedRnti of every mmWave cell
  forward,   \* EpcX2::m_teidToBeForwardedMap of every mmWave cell
  ue,        \* the UE: LTE (primary) and mmWave (secondary) RRC, PDCP leg
  dl, ul,    \* RRC messages on the LTE radio link
  x2,        \* X2-C messages in transit, in the order they were sent
  fault      \* "none", or the assertion or fatal error that ended the run

mcVars == <<co, allowed, lte, mm, newest, lastRnti, forward, ue, dl, ul, x2, fault>>

-----------------------------------------------------------------------------
NoEvent == [source |-> 0, target |-> 0]

Coordinator ==
  [completed  : BOOLEAN,              \* m_mmWaveCellSetupCompleted
   usingLte   : BOOLEAN,              \* m_imsiUsingLte
   last       : Cells \union {0},     \* m_lastMmWaveCell
   event      : [source : Cells \union {0}, target : Cells \union {0}],
                                      \* m_imsiHandoverEventsMap
   best       : BOOLEAN,              \* m_bestMmWaveCellForImsiMap has an entry
   outage     : BOOLEAN,              \* m_allMmWaveInOutageAtInitialAccess
   controlled : BOOLEAN]              \* m_e2ControlledUes

LteContext ==
  [st        : LteStates,
   bearer    : BOOLEAN,               \* m_drbMap holds the bearer
   isMc      : BOOLEAN,               \* LteDataRadioBearerInfo::m_isMc
   pend      : BOOLEAN,               \* m_pendingRrcConnectionReconfiguration
   available : BOOLEAN,               \* m_mmWaveCellAvailableForMcSetup
   leg       : {"lte", "mmwave"},     \* McEnbPdcp::m_useMmWaveConnection
   cell      : Cells \union {0},      \* m_mmWaveCellId
   rnti      : Rntis \union {0}]      \* m_mmWaveRnti

MmContext ==
  [st         : MmStates,
   target     : Cells \union {0, Lte},   \* m_targetCellId
   queued     : Cells \union {0},        \* m_queuedHandoverRequestCellId
   source     : Cells \union {0},        \* m_sourceCellId
   sourceRnti : Rntis \union {0},        \* m_sourceX2apId
   rlc        : BOOLEAN,                 \* m_rlcMap holds the bearer
   request    : BOOLEAN,                 \* m_rlcRequestVector holds its request
   command    : Ids \union {NoId},       \* a handover command on its way to the UE
   answered   : BOOLEAN]                 \* the UE's RECONFIGURATION COMPLETED on its way

MmBlank == [st |-> "NONE", target |-> 0, queued |-> 0, source |-> 0, sourceRnti |-> 0,
            rlc |-> FALSE, request |-> FALSE, command |-> NoId, answered |-> FALSE]

Ue == [st    : {"IDLE", "CAMPED", "CONNECTED_NORMALLY", "CONNECTED_HANDOVER"},
       id    : Ids \union (Cells \X {0}) \union {NoId},
                                      \* m_cellId, m_rnti of the secondary RRC
       known : Ids \union {NoId},     \* m_mmWaveCellId, m_mmWaveRnti of the primary
       leg   : {"lte", "mmwave"},     \* McUePdcp::m_useMmWaveConnection
       rlc   : BOOLEAN]               \* m_rlcMap holds the bearer

DlMsg == [type : {"CONNECT", "RECONF", "SWITCH"}, cell : Cells \union {0}, on : BOOLEAN]
UlMsg == [type : {"SETUP_COMPLETE", "RECONF_COMPLETE", "SECONDARY_CONNECTED"},
          id : Ids \union {NoId}]
X2Types == {"RLC_REQUEST", "RLC_COMPLETED", "SWITCH", "MC_HO_REQUEST", "HO_REQUEST",
            "HO_ACK", "HO_COMPLETED", "CTX_RELEASE"}
McX2Msg == [type : X2Types, from : Cells \union {Lte}, to : Cells \union {Lte},
            target : Cells \union {0}, old : Rntis \union {0}, new : Rntis \union {0},
            rlc : BOOLEAN]

-----------------------------------------------------------------------------
EnbCell(k) == k[1]
Exists(k)  == k \in Ids /\ mm[k].st # "NONE"

McX2(type, from, to, target, old, new, rlc) ==
  [type |-> type, from |-> from, to |-> to, target |-> target, old |-> old,
   new |-> new, rlc |-> rlc]

RlcSetupRequest(l)     == McX2("RLC_REQUEST", Lte, l.cell, 0, 0, l.rnti, FALSE)
SwitchAtMmWave(l)      == McX2("SWITCH", Lte, l.cell, 0, 0, l.rnti, FALSE)
McHandoverRequest(c,t) == McX2("MC_HO_REQUEST", Lte, c, t, 0, 0, FALSE)

Reconfiguration(l)     == [type |-> "RECONF", cell |-> 0, on |-> l.isMc]
ConnectToMmWave(c)     == [type |-> "CONNECT", cell |-> c, on |-> FALSE]
Switch(toMmWave)       == [type |-> "SWITCH", cell |-> 0, on |-> toMmWave]
Up(type, k)            == [type |-> type, id |-> k]

DlArrived(type) == dl # <<>> /\ Head(dl).type = type
UlArrived(type) == ul # <<>> /\ Head(ul).type = type

\* The message of position i is the next one of its link, or of all.
X2Next(i) == \A j \in 1..(i - 1) :
               ~(EqualDelays \/ <<x2[j].from, x2[j].to>> = <<x2[i].from, x2[i].to>>)
X2Taken(i)       == RemoveAt(x2, i)
X2Answered(i, m) == Append(X2Taken(i), m)

\* The program stops: an assertion or a fatal error.
McAbort(where) ==
  /\ fault' = where
  /\ UNCHANGED <<co, allowed, lte, mm, newest, lastRnti, forward, ue, dl, ul, x2>>
UeManagerNotFound == McAbort("UE manager not found")
=============================================================================
