------------------------------ MODULE LteState ------------------------------
(***************************************************************************)
(* The state of one UE's mobility over the LTE side of the stack: the UE's *)
(* RRC (lte-ue-rrc.cc), one UeManager per context an eNB holds for the UE   *)
(* (lte-enb-rrc.cc), the radio, X2 and S1 links between them, and the       *)
(* routing state of the EPC (epc-enb-application.cc,                        *)
(* epc-mme-application.cc, epc-sgw-pgw-application.cc).                     *)
(*                                                                         *)
(* A context is named by a pair k = <<cell, rnti>>; EnbCell(k) and Rnti(k)  *)
(* are its parts.  All the bearers of one attach share the GTP tunnel       *)
(* endpoints that the SGW allocates for that attach, so a tunnel endpoint   *)
(* is identified by the number of the attach (the field "teid").            *)
(***************************************************************************)
EXTENDS Integers, Sequences, FiniteSets, SequencesExt

CONSTANTS
  Cells,        \* cell identifiers: positive numbers, 0 stands for "no cell"
  MaxRnti,      \* bound: how many RNTIs each cell hands out in a behaviour
  NBearers,     \* EPS bearers of the UE, numbered from 1 (1 is the default one)
  Expirable,    \* the timers that may run out; the others never do
  Lossy,        \* whether SRB0 messages and random access responses get lost
  EqualDelays,  \* whether all X2 links have the same delay
  Admission,    \* values of AdmitRrcConnectionRequest / AdmitHandoverRequest
  Preambles,    \* whether a contention-free preamble is available: its values
  EarlyHandover,   \* whether a handover may be asked for before the EPC has
                   \* set the bearers up
  HandoverIn,   \* context states in which somebody asks for a handover
  ReconfIn,     \* context states in which the scheduler, FFR or SRS update
                \* asks for a reconfiguration
  ReleaseIn,    \* context states in which a dedicated bearer is deactivated
  MaxHandovers, MaxReconfs, MaxReleases,   \* bounds on those three requests
  StartConnected   \* whether the UE starts attached or camped

UeStates == {"IDLE_CAMPED_NORMALLY", "IDLE_WAIT_SIB2", "IDLE_RANDOM_ACCESS",
             "IDLE_CONNECTING", "CONNECTED_NORMALLY", "CONNECTED_HANDOVER"}

EnbStates == {"INITIAL_RANDOM_ACCESS", "CONNECTION_SETUP", "CONNECTION_REJECTED",
              "CONNECTED_NORMALLY", "CONNECTION_RECONFIGURATION",
              "HANDOVER_PREPARATION", "HANDOVER_JOINING", "HANDOVER_PATH_SWITCH",
              "HANDOVER_LEAVING"}

Timers == {"connectionRequest", "connectionSetup", "connectionRejected",
           "handoverJoining", "handoverLeaving"}

ASSUME CellsAssumption   == Cells \subseteq (Nat \ {0}) /\ Cells # {}
ASSUME BoundsAssumption  == /\ MaxRnti \in Nat \ {0}
                            /\ NBearers \in Nat \ {0}
                            /\ {MaxHandovers, MaxReconfs, MaxReleases} \subseteq Nat
ASSUME TimersAssumption  == Expirable \subseteq Timers \union {"t300", "removal"}
ASSUME ChoicesAssumption == /\ Admission \subseteq BOOLEAN
                            /\ Preambles \subseteq BOOLEAN
                            /\ {Lossy, EqualDelays, EarlyHandover, StartConnected} \subseteq BOOLEAN
ASSUME RequestsAssumption == /\ HandoverIn \subseteq EnbStates
                             /\ ReconfIn \subseteq EnbStates
                             /\ ReleaseIn \subseteq EnbStates

Rntis   == 1..MaxRnti
Bearers == 1..NBearers
Teids   == 1..(MaxRnti + 1)
Ids     == Cells \X Rntis

EnbCell(k) == k[1]
Rnti(k)    == k[2]

VARIABLES
  ue,        \* LteUeRrc and EpcUeNas
  ctx,       \* the UeManager of every <<cell, rnti>>
  lastRnti,  \* LteEnbRrc::m_lastAllocatedRnti of every cell
  removals,  \* RemoveUe events that HandoverJoiningTimeout has scheduled
  dl, ul,    \* RRC messages on the radio link of every context
  x2,        \* X2-C messages in transit, in the order they were sent
  x2u,       \* LteEnbRrc::m_x2uTeidInfoMap of every cell
  s1up, s1down,   \* S1-AP messages of every cell
  enbApp,    \* EpcEnbApplication of every cell
  epc,       \* MME and SGW/PGW
  asked,     \* how often the environment has made each kind of request
  fault      \* "none", or the NS_ASSERT / NS_FATAL_ERROR that ended the run

vars == <<ue, ctx, lastRnti, removals, dl, ul, x2, x2u, s1up, s1down,
          enbApp, epc, asked, fault>>

-----------------------------------------------------------------------------
Context == [st         : EnbStates \union {"NONE"},
            target     : Cells \union {0},      \* m_targetCellId
            queued     : Cells \union {0},      \* m_queuedHandoverRequestCellId
            pend       : BOOLEAN,               \* m_pendingRrcConnectionReconfiguration
            drbs       : SUBSET Bearers,        \* m_drbMap
            teid       : Teids \union {0},      \* gtpTeid of those bearers
            source     : Cells \union {0},      \* m_sourceCellId
            sourceRnti : Rntis \union {0},      \* m_sourceX2apId
            timers     : SUBSET Timers]

Blank == [st |-> "NONE", target |-> 0, queued |-> 0, pend |-> FALSE, drbs |-> {},
          teid |-> 0, source |-> 0, sourceRnti |-> 0, timers |-> {}]

Exists(k) == ctx[k].st # "NONE"

\* What a removed context leaves behind: DoDispose cancels none of its timers.
Erased(c) == [Blank EXCEPT !.timers = c.timers]

Ue == [state   : UeStates,
       cell    : Cells,
       rnti    : Rntis \union {0},
       t300    : BOOLEAN,     \* m_connectionTimeout is running
       pending : BOOLEAN,     \* m_connectionPending
       sib2    : BOOLEAN,     \* m_hasReceivedSib2
       ra      : BOOLEAN,     \* a contention-free random access is going on
       retry   : BOOLEAN]     \* EpcUeNas has scheduled LteAsSapProvider::Connect

Served == <<ue.cell, ue.rnti>>

RrcDown == {m \in [type : {"SETUP", "REJECT", "RECONF", "HO_COMMAND"},
                   cell : Cells \union {0}, rnti : Rntis \union {0}] :
              m.type = "HO_COMMAND" => m.cell # 0 /\ m.rnti # 0}
RrcUp   == {"REQUEST", "SETUP_COMPLETE", "RECONF_COMPLETE"}
X2Msg   == {m \in [type : {"HO_REQUEST", "HO_ACK", "HO_FAILURE", "SN_STATUS",
                           "CTX_RELEASE"},
                   from : Cells, to : Cells, old : Rntis, new : Rntis \union {0},
                   drbs : SUBSET Bearers, teid : Teids \union {0}] :
              m.type \in {"HO_ACK", "SN_STATUS", "CTX_RELEASE"} => m.new # 0}
S1Up    == [type : {"INITIAL_UE", "PATH_SWITCH", "ERAB_RELEASE"},
            bearer : Bearers \union {0}]
S1Down  == [type : {"CTX_SETUP", "PATH_SWITCH_ACK"},
            bearers : SUBSET Bearers, teid : Teids \union {0}]
EnbApp  == [rnti : Rntis \union {0},                 \* m_imsiRntiMap
            flow : [Teids -> Rntis \union {0}],      \* m_teidRbidMap
            teid : [Rntis -> Teids \union {0}]]      \* m_rbidTeidMap
EpcState == [mme     : Cells \union {0},     \* MME UeInfo::cellId
             sgw     : Cells \union {0},     \* SGW UeInfo::m_enbAddr
             teid    : Teids \union {0},     \* the tunnels of the last attach
             bearers : SUBSET Bearers]       \* MME bearersToBeActivated

-----------------------------------------------------------------------------
\* An RRC message to the UE, without mobility information and with it.
Rrc(type)        == [type |-> type, cell |-> 0, rnti |-> 0]
HoCommand(c, r)  == [type |-> "HO_COMMAND", cell |-> c, rnti |-> r]

X2(type, from, to, old, new, drbs, teid) ==
  [type |-> type, from |-> from, to |-> to, old |-> old, new |-> new,
   drbs |-> drbs, teid |-> teid]

\* The queue q with message m appended on link i.
Sent(q, i, m) == [q EXCEPT ![i] = Append(@, m)]
\* The queue q without the first message of link i.
Taken(q, i)   == [q EXCEPT ![i] = Tail(@)]

\* The X2 message that is the next one of its link (and, with equal delays, of
\* all links).
X2Next(i) == /\ EqualDelays => i = 1
             /\ \A j \in 1..(i - 1) : <<x2[j].from, x2[j].to>> # <<x2[i].from, x2[i].to>>

Pending(q, i, type) == q[i] # <<>> /\ Head(q[i]).type = type

\* The first message that context k has received over the radio, if any.
Arrived(k, type) == ul[k] # <<>> /\ Head(ul[k]) = type

\* An uplink RRC message reaches its context only while the eNB has one: the
\* scheduler grants nothing to an RNTI it does not know.
Uplink(q, k, m) == IF Exists(k) THEN Sent(q, k, m) ELSE q

\* The program stops: an assertion or a fatal error.
Abort(where) ==
  /\ fault' = where
  /\ UNCHANGED <<ue, ctx, lastRnti, removals, dl, ul, x2, x2u, s1up, s1down,
                 enbApp, epc, asked>>
=============================================================================
