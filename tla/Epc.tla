--------------------------------- MODULE Epc ---------------------------------
(***************************************************************************)
(* The EPC: the S1 application of every eNB (epc-enb-application.cc) and the*)
(* MME and SGW/PGW behind it (epc-mme-application.cc,                       *)
(* epc-sgw-pgw-application.cc).  S1-AP messages travel on links of their own*)
(* (epc-s1ap.cc); S11 between MME and SGW is a direct call, so a request to *)
(* the MME and the SGW's part of it are one step.                           *)
(*                                                                         *)
(* Here and in the other modules a definition marked "faulty" is a variant  *)
(* of the next one that a programming error could produce; no specification *)
(* uses it.  It shows which property would notice the error.                *)
(***************************************************************************)
EXTENDS LteState

S1UpMsg(type, b)        == [type |-> type, bearer |-> b]
S1DownMsg(type, bs, g)  == [type |-> type, bearers |-> bs, teid |-> g]

\* EpcEnbApplication::DoInitialUeMessage.
InitialUeForgotten(a, r)  == a                                      \* faulty
InitialUeRegistered(a, r) == [a EXCEPT !.rnti = r]

\* EpcEnbApplication: the entries a tunnel g gets in m_teidRbidMap and
\* m_rbidTeidMap when it is set up for RNTI r.
RoutedDownOnly(a, r, g) == [a EXCEPT !.flow[g] = r]                 \* faulty
Routed(a, r, g)         == [a EXCEPT !.flow[g] = r, !.teid[r] = g]

\* EpcEnbApplication::DoPathSwitchRequest for the bearers drbs of tunnel g.
PathSwitchedRntiOnly(a, r, drbs, g) == [a EXCEPT !.rnti = r]        \* faulty
PathSwitched(a, r, drbs, g) ==
  LET b == [a EXCEPT !.rnti = r] IN IF drbs = {} THEN b ELSE Routed(b, r, g)

\* EpcEnbApplication::DoUeContextRelease: forget the tunnel of RNTI r.
UeContextNotReleased(a, r) == a                                     \* faulty
UeContextReleased(a, r) ==
  IF a.teid[r] = 0 THEN a ELSE [a EXCEPT !.flow[a.teid[r]] = 0, !.teid[r] = 0]

-----------------------------------------------------------------------------
MmeUnchanged == UNCHANGED <<ue, ctx, lastRnti, removals, dl, ul, x2, x2u,
                            enbApp, asked, fault>>

\* The part of the SGW: a session with new tunnels towards cell c, a new cell, a
\* bearer less.  (The MME's idea of the cell changes with the SGW's.)
SessionCreated(e, c)    == [e EXCEPT !.mme = c, !.sgw = c, !.teid = @ + 1]
BearersModified(e, c)   == [e EXCEPT !.mme = c, !.sgw = c]
BearerDeleted(e, b)     == [e EXCEPT !.bearers = @ \ {b}]

\* INITIAL UE MESSAGE: the SGW creates a session with new tunnels towards cell
\* c, and the MME asks the eNB to set the bearers up.
MmeRecvInitialUe(c) ==
  /\ Pending(s1up, c, "INITIAL_UE")
  /\ epc.teid < MaxRnti + 1              \* bound: no more than one per RNTI
  /\ s1up' = Taken(s1up, c)
  /\ epc' = SessionCreated(epc, c)
  /\ s1down' = Sent(s1down, c, S1DownMsg("CTX_SETUP", epc.bearers, epc.teid + 1))
  /\ MmeUnchanged

\* PATH SWITCH REQUEST: the SGW sends the UE's traffic to cell c from now on.
MmeRecvPathSwitch(c) ==
  /\ Pending(s1up, c, "PATH_SWITCH")
  /\ s1up' = Taken(s1up, c)
  /\ epc' = BearersModified(epc, c)
  /\ s1down' = Sent(s1down, c, S1DownMsg("PATH_SWITCH_ACK", {}, 0))
  /\ MmeUnchanged

\* E-RAB RELEASE INDICATION: MME and SGW forget the bearer.
MmeRecvErabRelease(c) ==
  /\ Pending(s1up, c, "ERAB_RELEASE")
  /\ s1up' = Taken(s1up, c)
  /\ epc' = BearerDeleted(epc, Head(s1up[c]).bearer)
  /\ UNCHANGED s1down /\ MmeUnchanged
=============================================================================
