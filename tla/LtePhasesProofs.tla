--------------------------- MODULE LtePhasesProofs ---------------------------
(***************************************************************************)
(* What a UE goes through when nothing is lost and no timer runs out: the    *)
(* phases of its connection and of its handovers, one after the other, from  *)
(* the random access to the release of the source's context, and again.      *)
(* Each phase fixes where the UE's context is and in which state, what is in *)
(* transit on every link, and what the routing tables say.  That the UE is   *)
(* always in one of them (Phased) is inductive together with IInv; from it   *)
(* follow that no handler aborts, that the downlink leads to the UE and,     *)
(* step by step, the promise of Mobility.                                    *)
(*                                                                           *)
(* Every theorem here is under WellBehaved.  With losses, timeouts and       *)
(* requests at any time a UE may be in many more phases, with stale messages *)
(* and contexts of earlier attempts around, and what is stated here need not *)
(* hold; what holds in spite of them is in LteHandoverProofs.                *)
(***************************************************************************)
EXTENDS LteHandoverProofs

\* Links lose nothing and keep their order, no timer runs out, and requests only
\* come in states in which the code takes them.
WellBehaved ==
  /\ Expirable = {} /\ ~Lossy /\ EqualDelays /\ ~EarlyHandover /\ ReleaseIn = {}
  /\ HandoverIn \subseteq {"CONNECTED_NORMALLY", "CONNECTION_RECONFIGURATION",
                           "HANDOVER_JOINING"}
  /\ ReconfIn \subseteq Waiting \union {"CONNECTED_NORMALLY"}

-----------------------------------------------------------------------------
(* The parts of the phases.                                                *)

\* The contexts of the UE, but for those that have rejected it.
Here == {i \in Ids : ctx[i].st \notin {"NONE", "CONNECTION_REJECTED"}}

\* Of the queues indexed by S, only that of i holds messages: q.
OnlyAt(S, i, q) == [x \in S |-> IF x = i THEN q ELSE <<>>]

\* All that is under way on the radio links and on the S1 links.
Radio(k, down, up) == dl = OnlyAt(Ids, k, down) /\ ul = OnlyAt(Ids, k, up)
S1(c, up, down)    == s1up = OnlyAt(Cells, c, up) /\ s1down = OnlyAt(Cells, c, down)

\* What the tables of a cell say of a tunnel is true.
Owns(c, r, g) == g = 1 /\ <<c, r>> \in Here /\ ctx[<<c, r>>].teid = 1
TrueX2u  == \A c \in Cells, g \in Teids : x2u[c][g] # 0 => Owns(c, x2u[c][g], g)
TrueFlow == \A c \in Cells, g \in Teids :
              enbApp[c].flow[g] # 0 => /\ Owns(c, enbApp[c].flow[g], g)
                                       /\ enbApp[c].teid[enbApp[c].flow[g]] = g
TrueTeid == \A c \in Cells, r \in Rntis :
              enbApp[c].teid[r] # 0 => Owns(c, r, enbApp[c].teid[r])

\* What holds in every phase.
Base == NoAbort /\ TrueX2u /\ TrueFlow /\ TrueTeid /\ epc.bearers = Bearers

\* The S1 application sends both ways for k; and it takes k for the UE.
Route(k) == enbApp[EnbCell(k)].flow[1] = Rnti(k) /\ enbApp[EnbCell(k)].teid[Rnti(k)] = 1
App(k)   == enbApp[EnbCell(k)].rnti = Rnti(k)

\* Context k is in state st and has the UE's bearers; no handover to the cell
\* itself waits.
Bearing(k, st) ==
  /\ ctx[k].st = st /\ ctx[k].drbs = Bearers /\ ctx[k].teid = 1 /\ ctx[k].queued # EnbCell(k)

\* The UE is in the given state, with k its context.
UeIn(state, k) == ue.state = state /\ Served = k

\* The messages of a handover from k to j, or to the cell t.
Request(k, t)  == X2("HO_REQUEST", EnbCell(k), t, Rnti(k), 0, Bearers, 1)
Refusal(k, t)  == X2("HO_FAILURE", t, EnbCell(k), Rnti(k), 0, {}, 0)
Grant(k, j)    == X2("HO_ACK", EnbCell(j), EnbCell(k), Rnti(k), Rnti(j), Bearers, 1)
SnStatus(k, j) == X2("SN_STATUS", EnbCell(k), EnbCell(j), Rnti(k), Rnti(j), {}, 0)
Release(k, j)  == X2("CTX_RELEASE", EnbCell(j), EnbCell(k), Rnti(k), Rnti(j), {}, 0)

\* The radio link of a context that is connected, or waits for the answer to a
\* reconfiguration.
Linked(k) ==
  \/ ctx[k].st = "CONNECTED_NORMALLY" /\ Radio(k, <<>>, <<>>)
  \/ /\ ctx[k].st = "CONNECTION_RECONFIGURATION"
     /\ Radio(k, <<Rrc("RECONF")>>, <<>>) \/ Radio(k, <<>>, <<"RECONF_COMPLETE">>)

-----------------------------------------------------------------------------
(* The phases of a UE that has its bearers.                                *)

\* The UE is at k, and so is its path.
AtHome(k) ==
  /\ k \in Ids /\ Bearing(k, ctx[k].st) /\ UeIn("CONNECTED_NORMALLY", k) /\ Route(k)
  /\ S1(EnbCell(k), <<>>, <<>>) /\ epc.sgw = EnbCell(k) /\ epc.teid = 1

\* Of the contexts that the UE has left at most one, l, waits for its release;
\* the messages q are on their way to it and from it.
LeftBehind(k, l) ==
  /\ l \in Ids /\ Here = {k, l} /\ EnbCell(l) # EnbCell(k)
  /\ Bearing(l, "HANDOVER_LEAVING") /\ Route(l)
Behind(k, l, q) ==
  \/ q = <<>> /\ Here = {k}
  \/ /\ LeftBehind(k, l)
     /\ q = <<Release(l, k)>> \/ q = <<SnStatus(l, k), Release(l, k)>>

\* No handover is under way, but the last one may have to be cleaned up.
Resting(k, l) == AtHome(k) /\ Linked(k) /\ Behind(k, l, x2)

\* The source k has asked cell t to make room: the request is on its way, it has
\* been refused, or (without a preamble) dropped.
Preparing(k, t) ==
  /\ AtHome(k) /\ ctx[k].st = "HANDOVER_PREPARATION" /\ ctx[k].target = t
  /\ t \in Cells \ {EnbCell(k)} /\ Radio(k, <<>>, <<>>)
Requested(k, l, t) ==
  Preparing(k, t) /\ \E q \in {<<>>, <<Release(l, k)>>, <<SnStatus(l, k), Release(l, k)>>} :
                       Behind(k, l, q) /\ x2 = Append(q, Request(k, t))
Refused(k, t)   == Preparing(k, t) /\ Here = {k} /\ x2 = <<Refusal(k, t)>>
Forgotten(k, t) == Preparing(k, t) /\ Here = {k} /\ x2 = <<>>

\* Context j is the target of the handover from k: it has been granted.
Target(k, j, st) ==
  /\ k \in Ids /\ j \in Ids /\ Here = {k, j} /\ EnbCell(j) # EnbCell(k)
  /\ Bearing(j, st) /\ ctx[j].source = EnbCell(k) /\ ctx[j].sourceRnti = Rnti(k)
  /\ ctx[k].target = EnbCell(j) /\ x2u[EnbCell(j)][1] = Rnti(j)
Granted(k, j) ==
  Preparing(k, EnbCell(j)) /\ Target(k, j, "HANDOVER_JOINING") /\ x2 = <<Grant(k, j)>>

\* The UE has been sent away from k: it has yet to hear of it, performs random
\* access at j, or has confirmed the handover.
Left(k, j, st) ==
  /\ Bearing(k, "HANDOVER_LEAVING") /\ Route(k) /\ Target(k, j, st) /\ epc.teid = 1
  /\ x2 = <<>> \/ x2 = <<SnStatus(k, j)>>
Away(k, j) ==
  Left(k, j, "HANDOVER_JOINING") /\ S1(EnbCell(k), <<>>, <<>>) /\ epc.sgw = EnbCell(k)
Commanded(k, j) ==
  /\ Away(k, j) /\ UeIn("CONNECTED_NORMALLY", k)
  /\ Radio(k, <<HoCommand(EnbCell(j), Rnti(j))>>, <<>>)
Moving(k, j) ==
  Away(k, j) /\ UeIn("CONNECTED_HANDOVER", j) /\ Radio(j, <<>>, <<>>)
Arriving(k, j) ==
  Away(k, j) /\ UeIn("CONNECTED_NORMALLY", j) /\ Radio(j, <<>>, <<"RECONF_COMPLETE">>)

\* The target has taken the UE over, and the path follows.
TakenOver(k, j) ==
  /\ Left(k, j, "HANDOVER_PATH_SWITCH") /\ UeIn("CONNECTED_NORMALLY", j)
  /\ Radio(j, <<>>, <<>>) /\ Route(j) /\ App(j)
Switching(k, j) ==
  /\ TakenOver(k, j) /\ S1(EnbCell(j), <<S1UpMsg("PATH_SWITCH", 0)>>, <<>>)
  /\ epc.sgw = EnbCell(k)
Switched(k, j) ==
  /\ TakenOver(k, j) /\ S1(EnbCell(j), <<>>, <<S1DownMsg("PATH_SWITCH_ACK", {}, 0)>>)
  /\ epc.sgw = EnbCell(j)

WithBearers ==
  \E k \in Ids : \/ \E l \in Ids : Resting(k, l)
                 \/ \E l \in Ids, t \in Cells : Requested(k, l, t)
                 \/ \E t \in Cells : Refused(k, t) \/ Forgotten(k, t)
                 \/ \E j \in Ids : \/ Granted(k, j) \/ Commanded(k, j) \/ Moving(k, j)
                                   \/ Arriving(k, j) \/ Switching(k, j) \/ Switched(k, j)

-----------------------------------------------------------------------------
(* The phases before.                                                      *)

\* The UE is camped, or performs random access.
Unconnected ==
  /\ ue.state \in {"IDLE_CAMPED_NORMALLY", "IDLE_WAIT_SIB2", "IDLE_RANDOM_ACCESS"}
  /\ Here = {} /\ Radio(Served, <<>>, <<>>) /\ S1(ue.cell, <<>>, <<>>) /\ x2 = <<>>
  /\ epc.teid = 0

\* Context k is the only one and has no bearers.
Bare(k) == Here = {k} /\ ctx[k].drbs = {} /\ ctx[k].teid = 0 /\ ctx[k].queued = 0

\* The UE has sent its request, and it has been rejected.
Contacting(k) ==
  /\ UeIn("IDLE_CONNECTING", k) /\ Bare(k) /\ ctx[k].st = "INITIAL_RANDOM_ACCESS"
  /\ Radio(k, <<>>, <<"REQUEST">>) /\ S1(EnbCell(k), <<>>, <<>>) /\ x2 = <<>> /\ epc.teid = 0
TurnedDown(k) ==
  /\ UeIn("IDLE_CONNECTING", k) /\ Here = {} /\ Radio(k, <<Rrc("REJECT")>>, <<>>)
  /\ S1(EnbCell(k), <<>>, <<>>) /\ x2 = <<>> /\ epc.teid = 0

\* The request has been admitted, and the setup is on its way or the answer; the
\* setup is complete.
SettingUp(k) ==
  /\ ctx[k].st = "CONNECTION_SETUP"
  /\ \/ UeIn("IDLE_CONNECTING", k) /\ Radio(k, <<Rrc("SETUP")>>, <<>>)
     \/ UeIn("CONNECTED_NORMALLY", k) /\ Radio(k, <<>>, <<"SETUP_COMPLETE">>)

SetUp(k) == UeIn("CONNECTED_NORMALLY", k) /\ Linked(k)

\* Meanwhile the MME is asked for bearers, and asks for them.
BearersAsked(k) ==
  \/ S1(EnbCell(k), <<S1UpMsg("INITIAL_UE", 0)>>, <<>>) /\ epc.teid = 0
  \/ /\ S1(EnbCell(k), <<>>, <<S1DownMsg("CTX_SETUP", Bearers, 1)>>)
     /\ epc.teid = 1 /\ epc.sgw = EnbCell(k)
Unrouted(k) ==
  Bare(k) /\ App(k) /\ x2 = <<>> /\ (SettingUp(k) \/ SetUp(k)) /\ BearersAsked(k)

\* The bearers are there before the UE has confirmed the setup.
RoutedEarly(k) ==
  /\ Here = {k} /\ Bearing(k, "CONNECTION_SETUP") /\ Route(k) /\ SettingUp(k) /\ x2 = <<>>
  /\ S1(EnbCell(k), <<>>, <<>>) /\ epc.teid = 1 /\ epc.sgw = EnbCell(k)

BeforeBearers ==
  \/ Unconnected
  \/ \E k \in Ids : Contacting(k) \/ TurnedDown(k) \/ Unrouted(k) \/ RoutedEarly(k)

\* The UE is in one of the phases; it does not lose its bearers.
Phased == Base /\ (BeforeBearers \/ WithBearers)

-----------------------------------------------------------------------------
(* Queues.                                                                 *)

\* Between links of equal delay messages arrive in the order of sending.
LEMMA HeadNext ==
  ASSUME WellBehaved, x2 \in Seq(X2Msg), NEW i \in DOMAIN x2, X2Next(i)
  PROVE  /\ i = 1 /\ x2 # <<>> /\ x2[i] = Head(x2) /\ X2Taken(i) = Tail(x2)
         /\ \A m : X2Answered(i, m) = Append(Tail(x2), m)
<1>1. i \in 1..Len(x2) /\ Len(x2) \in Nat
  OBVIOUS
<1>2. i = 1
  <2>1. \A j \in 1..(i - 1) : FALSE
    BY DEF X2Next, WellBehaved
  <2> QED
    BY <1>1, <2>1
<1>3. SubSeq(x2, 1, 0) = <<>> /\ SubSeq(x2, 2, Len(x2)) = Tail(x2)
  BY <1>1, SubSeqEmpty, TailIsSubSeq
<1>4. Tail(x2) \in Seq(X2Msg)
  BY <1>1, <1>2
<1>5. X2Taken(1) = <<>> \o Tail(x2)
  BY <1>3 DEF X2Taken, RemoveAt
<1>6. X2Taken(1) = Tail(x2)
  BY <1>4, <1>5, ConcatEmptySeq
<1> QED
  BY <1>1, <1>2, <1>6 DEF X2Answered

\* A message is appended to a queue of one
LEMMA AppendToOne ==
  ASSUME NEW a, NEW b
  PROVE  Append(<<a>>, b) = <<a, b>>
<1>1. /\ Append(<<a>>, b) \in Seq({a, b}) /\ Len(Append(<<a>>, b)) = 2
      /\ Append(<<a>>, b)[1] = a /\ Append(<<a>>, b)[2] = b
  OBVIOUS
<1>2. <<a, b>> \in Seq({a, b}) /\ Len(<<a, b>>) = 2 /\ <<a, b>>[1] = a /\ <<a, b>>[2] = b
  OBVIOUS
<1>3. \A i \in 1..2 : Append(<<a>>, b)[i] = <<a, b>>[i]
  <2> SUFFICES ASSUME NEW i \in 1..2 PROVE Append(<<a>>, b)[i] = <<a, b>>[i]
    OBVIOUS
  <2>1. i = 1 \/ i = 2
    OBVIOUS
  <2> QED
    BY <1>1, <1>2, <2>1
<1> QED
  BY <1>1, <1>2, <1>3, SeqEqual

\* or two.
LEMMA AppendToTwo ==
  ASSUME NEW a, NEW b, NEW c
  PROVE  Append(<<a, b>>, c) = <<a, b, c>>
<1>1. /\ Append(<<a, b>>, c) \in Seq({a, b, c}) /\ Len(Append(<<a, b>>, c)) = 3
      /\ Append(<<a, b>>, c)[1] = a /\ Append(<<a, b>>, c)[2] = b
      /\ Append(<<a, b>>, c)[3] = c
  OBVIOUS
<1>2. /\ <<a, b, c>> \in Seq({a, b, c}) /\ Len(<<a, b, c>>) = 3
      /\ <<a, b, c>>[1] = a /\ <<a, b, c>>[2] = b /\ <<a, b, c>>[3] = c
  OBVIOUS
<1>3. \A i \in 1..3 : Append(<<a, b>>, c)[i] = <<a, b, c>>[i]
  <2> SUFFICES ASSUME NEW i \in 1..3 PROVE Append(<<a, b>>, c)[i] = <<a, b, c>>[i]
    OBVIOUS
  <2>1. i = 1 \/ i = 2 \/ i = 3
    OBVIOUS
  <2> QED
    BY <1>1, <1>2, <2>1
<1> QED
  BY <1>1, <1>2, <1>3, SeqEqual

\* Queues of up to three messages.
LEMMA Tuples ==
  ASSUME NEW a, NEW b, NEW c
  PROVE  /\ Head(<<a>>) = a /\ Head(<<a, b>>) = a /\ Head(<<a, b, c>>) = a
         /\ Tail(<<a>>) = <<>> /\ Tail(<<a, b>>) = <<b>> /\ Tail(<<a, b, c>>) = <<b, c>>
         /\ Append(<<>>, a) = <<a>> /\ Append(<<a>>, b) = <<a, b>>
         /\ Append(<<a, b>>, c) = <<a, b, c>>
         /\ <<a>> # <<>> /\ <<a, b>> # <<>> /\ <<a, b, c>> # <<>>
<1>1. Tail(<<a>>) = <<>>
  OBVIOUS
<1>2. \A x : Append(<<>>, x) = <<x>>
  OBVIOUS
<1>3. \A x, y : Append(<<x>>, y) = <<x, y>>
  BY AppendToOne
<1>4. Append(<<a, b>>, c) = <<a, b, c>>
  BY AppendToTwo
<1>5. Tail(<<a, b>>) = <<b>>
  <2>1. <<a>> \in Seq({a, b}) /\ <<a>> # <<>>
    OBVIOUS
  <2>2. Tail(Append(<<a>>, b)) = Append(Tail(<<a>>), b)
    BY <2>1, HeadTailAppend
  <2> QED
    BY <1>1, <1>2, <1>3, <2>2
<1>6. Tail(<<a, b, c>>) = <<b, c>>
  <2>1. <<a, b>> \in Seq({a, b}) /\ <<a, b>> # <<>>
    OBVIOUS
  <2>2. Tail(Append(<<a, b>>, c)) = Append(Tail(<<a, b>>), c)
    BY <2>1, HeadTailAppend
  <2> QED
    BY <1>3, <1>4, <1>5, <2>2
<1>7. Head(<<a>>) = a /\ Head(<<a, b>>) = a /\ Head(<<a, b, c>>) = a
  OBVIOUS
<1>8. <<a>> # <<>> /\ <<a, b>> # <<>> /\ <<a, b, c>> # <<>>
  OBVIOUS
<1> QED
  BY <1>1, <1>2, <1>3, <1>4, <1>5, <1>6, <1>7, <1>8

\* Where only one queue holds messages,
LEMMA AtOnly ==
  ASSUME NEW S, NEW k \in S, NEW q
  PROVE  /\ OnlyAt(S, k, q)[k] = q
         /\ \A i \in S : OnlyAt(S, k, q)[i] # <<>> => i = k
         /\ \A i \in S : OnlyAt(S, k, <<>>)[i] = <<>>
         /\ \A i \in S : OnlyAt(S, k, <<>>) = OnlyAt(S, i, <<>>)
BY DEF OnlyAt

\* a message is sent and taken.
LEMMA SentAt ==
  ASSUME NEW S, NEW k \in S, NEW m
  PROVE  /\ \A i \in S : Sent(OnlyAt(S, i, <<>>), k, m) = OnlyAt(S, k, <<m>>)
         /\ Taken(OnlyAt(S, k, <<m>>), k) = OnlyAt(S, k, <<>>)
<1>1. Append(<<>>, m) = <<m>> /\ Tail(<<m>>) = <<>>
  BY Tuples
<1> QED
  BY <1>1 DEF OnlyAt, Sent, Taken


-----------------------------------------------------------------------------
(* Steps that stay within a phase.                                         *)

\* Nothing that the phases look at changes in context i but, perhaps, the
\* handover that is queued.
Alike(i) ==
  /\ ctx'[i].st = ctx[i].st /\ ctx'[i].drbs = ctx[i].drbs /\ ctx'[i].teid = ctx[i].teid
  /\ ctx'[i].target = ctx[i].target /\ ctx'[i].source = ctx[i].source
  /\ ctx'[i].sourceRnti = ctx[i].sourceRnti
  /\ \/ ctx'[i].queued = ctx[i].queued
     \/ ctx[i].drbs # {} /\ ctx'[i].queued # EnbCell(i)

\* A step that changes nothing else keeps the phase.
LEMMA FrameKeeps ==
  ASSUME UNCHANGED <<dl, ul, x2, x2u, s1up, s1down, enbApp, epc, fault>>,
         ue'.state = ue.state, ue'.cell = ue.cell, ue'.rnti = ue.rnti,
         \A i \in Ids : Alike(i)
  PROVE  (Base => Base') /\ (BeforeBearers => BeforeBearers') /\ (WithBearers => WithBearers')
<1>1. \A i \in Ids : /\ ctx'[i].st = ctx[i].st /\ ctx'[i].drbs = ctx[i].drbs
                     /\ ctx'[i].teid = ctx[i].teid /\ ctx'[i].target = ctx[i].target
                     /\ ctx'[i].source = ctx[i].source
                     /\ ctx'[i].sourceRnti = ctx[i].sourceRnti
  BY DEF Alike
<1>2. Here' = Here
  BY <1>1 DEF Here
<1>3. \A i \in Ids : /\ \A st : Bearing(i, st) => Bearing(i, st)'
                     /\ Bare(i) => Bare(i)'
                     /\ Linked(i) => Linked(i)'
                     /\ SettingUp(i) => SettingUp(i)'
                     /\ Route(i) => Route(i)'
                     /\ App(i) => App(i)'
  <2>1. \A i \in Ids : \A st : Bearing(i, st) => Bearing(i, st)'
    BY <1>1 DEF Alike, Bearing
  <2>2. \A i \in Ids : Bare(i) => Bare(i)'
    BY <1>1, <1>2 DEF Alike, Bare
  <2>3. \A i \in Ids : Linked(i) => Linked(i)'
    BY <1>1 DEF Linked, Radio
  <2>4. \A i \in Ids : SettingUp(i) => SettingUp(i)'
    BY <1>1 DEF SettingUp, UeIn, Served, Radio
  <2> QED
    BY <2>1, <2>2, <2>3, <2>4 DEF Route, App
<1>4. \A state, k : UeIn(state, k) => UeIn(state, k)'
  BY DEF UeIn, Served
<1>5. Base => Base'
  BY <1>1, <1>2 DEF Base, NoAbort, TrueX2u, TrueFlow, TrueTeid, Owns, Here
<1>6. ASSUME BeforeBearers PROVE BeforeBearers'
  <2>1. CASE Unconnected
    BY <1>2, <2>1 DEF BeforeBearers, Unconnected, Radio, S1, Served
  <2>2. ASSUME NEW k \in Ids, Contacting(k) \/ TurnedDown(k) PROVE BeforeBearers'
    BY <1>1, <1>2, <1>3, <1>4, <2>2 DEF BeforeBearers, Contacting, TurnedDown, Radio, S1
  <2>3. ASSUME NEW k \in Ids, Unrouted(k) \/ RoutedEarly(k) PROVE BeforeBearers'
    BY <1>2, <1>3, <1>4, <2>3 DEF BeforeBearers, Unrouted, RoutedEarly, SetUp, BearersAsked, S1
  <2> QED
    BY <1>6, <2>1, <2>2, <2>3 DEF BeforeBearers
<1>7. ASSUME WithBearers PROVE WithBearers'
  <2>1. \A k \in Ids : AtHome(k) => AtHome(k)'
    BY <1>1, <1>3, <1>4 DEF AtHome, S1
  <2>2. \A k, l \in Ids : \A q : Behind(k, l, q) => Behind(k, l, q)'
    BY <1>2, <1>3 DEF Behind, LeftBehind, Release, SnStatus
  <2>3. \A k \in Ids, t \in Cells : Preparing(k, t) => Preparing(k, t)'
    BY <1>1, <2>1 DEF Preparing, Radio
  <2>4. \A k, j \in Ids : \A st : Target(k, j, st) => Target(k, j, st)'
    BY <1>1, <1>2, <1>3 DEF Target
  <2>5. \A k, j \in Ids : \A st : Left(k, j, st) => Left(k, j, st)'
    BY <1>3, <2>4 DEF Left, SnStatus
  <2>6. \A k, j \in Ids : /\ Away(k, j) => Away(k, j)'
                          /\ TakenOver(k, j) => TakenOver(k, j)'
    BY <1>3, <1>4, <2>5 DEF Away, TakenOver, S1, Radio
  <2>7. ASSUME NEW k \in Ids, NEW l \in Ids, Resting(k, l) PROVE WithBearers'
    <3>1. Resting(k, l)'
      BY <1>3, <2>1, <2>2, <2>7 DEF Resting
    <3> QED
      BY <3>1 DEF WithBearers
  <2>8. ASSUME NEW k \in Ids, NEW l \in Ids, NEW t \in Cells, Requested(k, l, t)
        PROVE WithBearers'
    <3>1. Requested(k, l, t)'
      BY <2>2, <2>3, <2>8 DEF Requested, Release, SnStatus, Request
    <3> QED
      BY <3>1 DEF WithBearers
  <2>9. ASSUME NEW k \in Ids, NEW t \in Cells, Refused(k, t) \/ Forgotten(k, t)
        PROVE WithBearers'
    <3>1. Refused(k, t)' \/ Forgotten(k, t)'
      BY <1>2, <2>3, <2>9 DEF Refused, Forgotten, Refusal
    <3> QED
      BY <3>1 DEF WithBearers
  <2>10. ASSUME NEW k \in Ids, NEW j \in Ids,
                Granted(k, j) \/ Commanded(k, j) \/ Moving(k, j)
         PROVE WithBearers'
    <3>1. EnbCell(j) \in Cells
      BY IdParts
    <3>2. Granted(k, j)' \/ Commanded(k, j)' \/ Moving(k, j)'
      BY <1>4, <2>3, <2>4, <2>6, <2>10, <3>1 DEF Granted, Commanded, Moving, Grant, Radio
    <3> QED
      BY <3>2 DEF WithBearers
  <2>11. ASSUME NEW k \in Ids, NEW j \in Ids,
                Arriving(k, j) \/ Switching(k, j) \/ Switched(k, j)
         PROVE WithBearers'
    <3>1. Arriving(k, j)' \/ Switching(k, j)' \/ Switched(k, j)'
      BY <1>4, <2>6, <2>11 DEF Arriving, Switching, Switched, Radio, S1
    <3> QED
      BY <3>1 DEF WithBearers
  <2> QED
    BY <1>7, <2>7, <2>8, <2>9, <2>10, <2>11 DEF WithBearers
<1> QED
  BY <1>5, <1>6, <1>7

-----------------------------------------------------------------------------
(* What a message says of the phase.                                       *)

\* A radio message belongs to the only context with messages,
LEMMA RadioAt ==
  ASSUME NEW k \in Ids, NEW d, NEW u, Radio(k, d, u), NEW i \in Ids
  PROVE  /\ dl[i] # <<>> => i = k /\ dl[i] = d
         /\ ul[i] # <<>> => i = k /\ ul[i] = u
         /\ dl[k] = d /\ ul[k] = u
BY DEF Radio, OnlyAt

\* and an S1 message to the only cell.
LEMMA S1At ==
  ASSUME NEW k \in Cells, NEW d, NEW u, S1(k, u, d), NEW i \in Cells
  PROVE  /\ s1down[i] # <<>> => i = k /\ s1down[i] = d
         /\ s1up[i] # <<>> => i = k /\ s1up[i] = u
         /\ s1down[k] = d /\ s1up[k] = u
BY DEF S1, OnlyAt

\* The phases by where the UE, its path and its messages are.
LEMMA PhaseCases ==
  ASSUME WithBearers
  PROVE  \/ \E k, l \in Ids : Resting(k, l)
         \/ \E k, l \in Ids, t \in Cells : Requested(k, l, t)
         \/ \E k \in Ids, t \in Cells : Refused(k, t) \/ Forgotten(k, t)
         \/ \E k, j \in Ids : Granted(k, j)
         \/ \E k, j \in Ids : Commanded(k, j) \/ Moving(k, j) \/ Arriving(k, j)
         \/ \E k, j \in Ids : Switching(k, j) \/ Switched(k, j)
BY DEF WithBearers

\* Who asks for a handover is at home.
LEMMA PreparingCases ==
  ASSUME NEW k \in Ids,
         \/ \E l \in Ids, t \in Cells : Requested(k, l, t)
         \/ \E t \in Cells : Refused(k, t) \/ Forgotten(k, t)
         \/ \E j \in Ids : Granted(k, j)
  PROVE  \E t \in Cells : Preparing(k, t)
BY IdParts DEF Requested, Refused, Forgotten, Granted

\* A UE that has bearers gets only reconfigurations and handover commands,
LEMMA DownlinkPhase ==
  ASSUME WithBearers, NEW i \in Ids, dl[i] # <<>>
  PROVE  \/ \E l \in Ids : Resting(i, l) /\ ctx[i].st = "CONNECTION_RECONFIGURATION"
                           /\ Radio(i, <<Rrc("RECONF")>>, <<>>)
         \/ \E j \in Ids : Commanded(i, j)
<1>1. CASE \E k, l \in Ids : Resting(k, l)
  <2> PICK k \in Ids, l \in Ids : Resting(k, l)
    BY <1>1
  <2>1. Linked(k)
    BY DEF Resting
  <2>2. /\ ctx[k].st = "CONNECTION_RECONFIGURATION"
        /\ Radio(k, <<Rrc("RECONF")>>, <<>>) /\ i = k
    BY <2>1, RadioAt DEF Linked
  <2> QED
    BY <2>2
<1>2. ASSUME NEW k \in Ids, NEW t \in Cells, Preparing(k, t) PROVE FALSE
  BY <1>2, RadioAt DEF Preparing
<1>3. ASSUME NEW k \in Ids, NEW j \in Ids, Moving(k, j) \/ Arriving(k, j) \/ TakenOver(k, j)
      PROVE FALSE
  BY <1>3, RadioAt DEF Moving, Arriving, TakenOver
<1>4. ASSUME NEW k \in Ids, NEW j \in Ids, Commanded(k, j) PROVE i = k
  BY <1>4, RadioAt DEF Commanded
<1> QED
  BY <1>1, <1>2, <1>3, <1>4, PhaseCases, PreparingCases DEF Switching, Switched

\* and sends only the answers to them.
LEMMA UplinkPhase ==
  ASSUME WithBearers, NEW i \in Ids, ul[i] # <<>>
  PROVE  \/ \E l \in Ids : Resting(i, l) /\ ctx[i].st = "CONNECTION_RECONFIGURATION"
                           /\ Radio(i, <<>>, <<"RECONF_COMPLETE">>)
         \/ \E k \in Ids : Arriving(k, i)
<1>1. CASE \E k, l \in Ids : Resting(k, l)
  <2> PICK k \in Ids, l \in Ids : Resting(k, l)
    BY <1>1
  <2>1. Linked(k)
    BY DEF Resting
  <2>2. /\ ctx[k].st = "CONNECTION_RECONFIGURATION"
        /\ Radio(k, <<>>, <<"RECONF_COMPLETE">>) /\ i = k
    BY <2>1, RadioAt DEF Linked
  <2> QED
    BY <2>2
<1>2. ASSUME NEW k \in Ids, NEW t \in Cells, Preparing(k, t) PROVE FALSE
  BY <1>2, RadioAt DEF Preparing
<1>3. ASSUME NEW k \in Ids, NEW j \in Ids, Moving(k, j) \/ Commanded(k, j) \/ TakenOver(k, j)
      PROVE FALSE
  BY <1>3, RadioAt DEF Moving, Commanded, TakenOver
<1>4. ASSUME NEW k \in Ids, NEW j \in Ids, Arriving(k, j) PROVE i = j
  BY <1>4, RadioAt DEF Arriving
<1> QED
  BY <1>1, <1>2, <1>3, <1>4, PhaseCases, PreparingCases DEF Switching, Switched

\* The only S1 messages are the path switch request and its answer.
LEMMA S1Phase ==
  ASSUME WithBearers, NEW c \in Cells
  PROVE  /\ s1up[c] # <<>> => \E k, j \in Ids : Switching(k, j) /\ EnbCell(j) = c
         /\ s1down[c] # <<>> => \E k, j \in Ids : Switched(k, j) /\ EnbCell(j) = c
<1>1. \A k \in Ids : EnbCell(k) \in Cells
  BY IdParts
<1>2. ASSUME NEW k \in Ids, S1(EnbCell(k), <<>>, <<>>)
      PROVE  s1up[c] = <<>> /\ s1down[c] = <<>>
  BY <1>1, <1>2, S1At
<1>3. ASSUME NEW k \in Ids, NEW j \in Ids, Switching(k, j)
      PROVE  s1down[c] = <<>> /\ (s1up[c] # <<>> => EnbCell(j) = c)
  BY <1>1, <1>3, S1At DEF Switching
<1>4. ASSUME NEW k \in Ids, NEW j \in Ids, Switched(k, j)
      PROVE  s1up[c] = <<>> /\ (s1down[c] # <<>> => EnbCell(j) = c)
  BY <1>1, <1>4, S1At DEF Switched
<1>5. \A k, l \in Ids : Resting(k, l) => S1(EnbCell(k), <<>>, <<>>)
  BY DEF Resting, AtHome
<1>6. \A k \in Ids, t \in Cells : Preparing(k, t) => S1(EnbCell(k), <<>>, <<>>)
  BY DEF Preparing, AtHome
<1>7. \A k, j \in Ids : Commanded(k, j) \/ Moving(k, j) \/ Arriving(k, j)
                        => S1(EnbCell(k), <<>>, <<>>)
  BY DEF Commanded, Moving, Arriving, Away
<1> QED
  BY <1>2, <1>3, <1>4, <1>5, <1>6, <1>7, PhaseCases, PreparingCases

\* The X2 messages and the phases in which they are in transit, in full.
LEMMA X2Phase ==
  ASSUME WithBearers, x2 # <<>>
  PROVE  \/ \E k \in Ids, t \in Cells : /\ Preparing(k, t) /\ Here = {k}
                                        /\ x2 = <<Request(k, t)>>
         \/ \E k \in Ids, t \in Cells : Refused(k, t)
         \/ \E k, j \in Ids : Granted(k, j)
         \/ \E k, j \in Ids : /\ Commanded(k, j) \/ Moving(k, j) \/ Arriving(k, j)
                                 \/ Switching(k, j) \/ Switched(k, j)
                              /\ x2 = <<SnStatus(k, j)>>
         \/ \E k, l \in Ids : /\ AtHome(k) /\ Linked(k) /\ LeftBehind(k, l)
                              /\ \/ x2 = <<Release(l, k)>>
                                 \/ x2 = <<SnStatus(l, k), Release(l, k)>>
         \/ \E k, l \in Ids, t \in Cells :
              /\ Preparing(k, t) /\ LeftBehind(k, l)
              /\ \/ x2 = <<Release(l, k), Request(k, t)>>
                 \/ x2 = <<SnStatus(l, k), Release(l, k), Request(k, t)>>
<1>1. ASSUME NEW k \in Ids, NEW l \in Ids, Resting(k, l)
      PROVE  /\ AtHome(k) /\ Linked(k) /\ LeftBehind(k, l)
             /\ x2 = <<Release(l, k)>> \/ x2 = <<SnStatus(l, k), Release(l, k)>>
  BY <1>1 DEF Resting, Behind
<1>2. ASSUME NEW k \in Ids, NEW l \in Ids, NEW t \in Cells, Requested(k, l, t)
      PROVE  /\ Preparing(k, t)
             /\ \/ Here = {k} /\ x2 = <<Request(k, t)>>
                \/ LeftBehind(k, l) /\ x2 = <<Release(l, k), Request(k, t)>>
                \/ LeftBehind(k, l) /\ x2 = <<SnStatus(l, k), Release(l, k), Request(k, t)>>
  <2>1. Preparing(k, t)
    BY <1>2 DEF Requested
  <2> PICK q : Behind(k, l, q) /\ x2 = Append(q, Request(k, t))
    BY <1>2 DEF Requested
  <2>2. CASE q = <<>> /\ Here = {k}
    BY <2>1, <2>2, Tuples
  <2>3. CASE LeftBehind(k, l) /\ q = <<Release(l, k)>>
    BY ZenonT(40), <2>1, <2>3, Tuples
  <2>4. CASE LeftBehind(k, l) /\ q = <<SnStatus(l, k), Release(l, k)>>
    BY <2>1, <2>4, AppendToTwo
  <2> QED
    BY <2>2, <2>3, <2>4 DEF Behind
<1>3. \A k \in Ids, t \in Cells : ~Forgotten(k, t)
  BY DEF Forgotten
<1>4. \A k, j \in Ids : Commanded(k, j) \/ Moving(k, j) \/ Arriving(k, j)
                        \/ Switching(k, j) \/ Switched(k, j) => x2 = <<SnStatus(k, j)>>
  BY DEF Commanded, Moving, Arriving, Switching, Switched, Away, TakenOver, Left
<1>5. CASE \E k, l \in Ids : Resting(k, l)
  BY <1>1, <1>5
<1>6. CASE \E k, l \in Ids, t \in Cells : Requested(k, l, t)
  BY <1>2, <1>6
<1>7. CASE \E k \in Ids, t \in Cells : Refused(k, t) \/ Forgotten(k, t)
  BY <1>3, <1>7
<1>8. CASE \E k, j \in Ids : Commanded(k, j) \/ Moving(k, j) \/ Arriving(k, j)
                             \/ Switching(k, j) \/ Switched(k, j)
  BY <1>4, <1>8
<1> QED
  BY <1>5, <1>6, <1>7, <1>8, PhaseCases

-----------------------------------------------------------------------------
(* The UE in the phases with bearers.                                      *)

\* The tables stay true as long as contexts stay and keep their tunnel.
LEMMA BaseKeeps ==
  ASSUME Base, UNCHANGED <<x2u, fault>>, epc'.bearers = epc.bearers,
         \A c \in Cells : enbApp'[c].flow = enbApp[c].flow /\ enbApp'[c].teid = enbApp[c].teid,
         \A i \in Here : i \in Here' /\ (ctx[i].teid = 1 => ctx'[i].teid = 1)
  PROVE  Base'
BY DEF Base, NoAbort, TrueX2u, TrueFlow, TrueTeid, Owns

\* A step of the UE leaves the rest of the phase alone.
LEMMA UeBaseKeeps ==
  ASSUME UeUnchanged
  PROVE  /\ Base => Base'
         /\ Here' = Here
         /\ \A k, j, st : Left(k, j, st) => Left(k, j, st)'
         /\ \A k, j : Away(k, j) => Away(k, j)'
         /\ \A k, l, q : Behind(k, l, q) => Behind(k, l, q)'
         /\ \A k : Bare(k) => Bare(k)'
         /\ \A c, u, d : S1(c, u, d) => S1(c, u, d)'
<1> USE DEF UeUnchanged
<1>1. Here' = Here
  BY DEF Here
<1>2. \A k, st : Bearing(k, st) => Bearing(k, st)'
  BY DEF Bearing
<1>3. Base => Base'
  BY <1>1, BaseKeeps
<1>4. \A c, u, d : S1(c, u, d) => S1(c, u, d)'
  BY DEF S1
<1>5. \A k, j, st : Left(k, j, st) => Left(k, j, st)'
  BY <1>1, <1>2 DEF Left, Target, SnStatus, Route
<1>6. \A k, j : Away(k, j) => Away(k, j)'
  BY <1>4, <1>5 DEF Away
<1>7. \A k, l, q : Behind(k, l, q) => Behind(k, l, q)'
  BY <1>1, <1>2 DEF Behind, LeftBehind, Route, Release, SnStatus
<1>8. \A k : Bare(k) => Bare(k)'
  BY <1>1 DEF Bare
<1> QED
  BY <1>1, <1>3, <1>4, <1>5, <1>6, <1>7, <1>8

\* A message that the UE sends to its context, or to none.
LEMMA UplinkOnly ==
  ASSUME NEW k \in Here, NEW m, ul = OnlyAt(Ids, k, <<>>), ul' = Uplink(ul, k, m)
  PROVE  ul' = OnlyAt(Ids, k, <<m>>)
<1>1. k \in Ids /\ Exists(k)
  BY DEF Here, Exists
<1> QED
  BY <1>1, SentAt DEF Uplink

\* The UE in a phase with bearers.
LEMMA ServedPhase ==
  ASSUME WithBearers
  PROVE  /\ ue.state \in {"CONNECTED_NORMALLY", "CONNECTED_HANDOVER"}
         /\ ue.state = "CONNECTED_HANDOVER" => \E k, j \in Ids : Moving(k, j)
         /\ Served \in Here
<1>1. \A k \in Ids : AtHome(k) => ue.state = "CONNECTED_NORMALLY" /\ Served = k
  BY DEF AtHome, UeIn
<1>2. \A k, l \in Ids : Resting(k, l) => AtHome(k) /\ k \in Here
  BY DEF Resting, Behind, LeftBehind
<1>3. \A k \in Ids, t \in Cells : Preparing(k, t) => AtHome(k) /\ k \in Here
  BY DEF Preparing, Here
<1>4. \A k, j \in Ids :
        Commanded(k, j) => ue.state = "CONNECTED_NORMALLY" /\ Served = k /\ k \in Here
  BY DEF Commanded, Away, Left, Target, UeIn
<1>5. \A k, j \in Ids :
        Moving(k, j) => ue.state = "CONNECTED_HANDOVER" /\ Served = j /\ j \in Here
  BY DEF Moving, Away, Left, Target, UeIn
<1>6. \A k, j \in Ids :
        Arriving(k, j) => ue.state = "CONNECTED_NORMALLY" /\ Served = j /\ j \in Here
  BY DEF Arriving, Away, Left, Target, UeIn
<1>7. \A k, j \in Ids :
        TakenOver(k, j) => ue.state = "CONNECTED_NORMALLY" /\ Served = j /\ j \in Here
  BY DEF TakenOver, Left, Target, UeIn
<1>8. CASE \E k, l \in Ids : Resting(k, l)
  BY <1>1, <1>2, <1>8
<1>9. CASE \E k \in Ids, t \in Cells : Preparing(k, t)
  BY <1>1, <1>3, <1>9
<1>10. CASE \E k, j \in Ids : Commanded(k, j) \/ Moving(k, j) \/ Arriving(k, j)
  BY <1>4, <1>5, <1>6, <1>10
<1>11. CASE \E k, j \in Ids : Switching(k, j) \/ Switched(k, j)
  BY <1>7, <1>11 DEF Switching, Switched
<1> QED
  BY <1>8, <1>9, <1>10, <1>11, PhaseCases, PreparingCases

\* The handover command sends the UE away; its uplink is flushed.
LEMMA UeRecvHandoverCommandPhase ==
  ASSUME IInv, Base, WithBearers, UeRecvHandoverCommand
  PROVE  Base' /\ WithBearers'
<1>1. Served \in Ids /\ dl[Served] # <<>> /\ Head(dl[Served]).type = "HO_COMMAND"
  BY ServedType DEF UeRecvHandoverCommand, Heard, Pending
<1>2. ~ \E l \in Ids : Radio(Served, <<Rrc("RECONF")>>, <<>>)
  <2>1. ~Radio(Served, <<Rrc("RECONF")>>, <<>>)
    <3>1. Head(<<Rrc("RECONF")>>) = Rrc("RECONF") /\ Rrc("RECONF").type # "HO_COMMAND"
      BY DEF Rrc
    <3> QED
      BY <1>1, <3>1, RadioAt
  <2> QED
    BY <2>1
<1>3. PICK k \in Ids, j \in Ids : k = Served /\ Commanded(k, j)
  BY <1>1, <1>2, DownlinkPhase
<1>4. /\ Away(k, j) /\ UeIn("CONNECTED_NORMALLY", k)
      /\ Radio(k, <<HoCommand(EnbCell(j), Rnti(j))>>, <<>>)
  BY <1>3 DEF Commanded
<1>5. dl[k] = <<HoCommand(EnbCell(j), Rnti(j))>>
  BY <1>4, RadioAt
<1>6. Head(dl[k]).cell = EnbCell(j) /\ Head(dl[k]).rnti = Rnti(j)
  BY <1>5 DEF HoCommand
<1>7. /\ ue' = [ue EXCEPT !.state = "CONNECTED_HANDOVER", !.ra = TRUE,
                          !.cell = EnbCell(j), !.rnti = Rnti(j)]
      /\ dl' = Taken(dl, k) /\ ul' = [ul EXCEPT ![k] = <<>>] /\ UeUnchanged
  BY <1>3, <1>4, <1>6 DEF UeRecvHandoverCommand, UeIn
<1>8. UeIn("CONNECTED_HANDOVER", j)'
  BY <1>7 DEF UeIn, Served, IInv, TypeOK, Ue, Ids, EnbCell, Rnti
<1>9. Radio(j, <<>>, <<>>)'
  <2>1. dl' = OnlyAt(Ids, k, <<>>)
    BY <1>4, <1>7, SentAt DEF Radio
  <2>2. ul' = OnlyAt(Ids, k, <<>>)
    BY <1>4, <1>7 DEF Radio, OnlyAt
  <2> QED
    BY <1>4, <2>1, <2>2, AtOnly DEF Radio
<1>10. Base' /\ Away(k, j)'
  BY <1>4, <1>7, UeBaseKeeps
<1>11. Moving(k, j)'
  BY <1>8, <1>9, <1>10 DEF Moving
<1> QED
  BY <1>4, <1>10, <1>11 DEF WithBearers

\* Random access at the target ends the UE's part of the handover.
LEMMA UeHandoverAccessPhase ==
  ASSUME Base, WithBearers, UeHandoverAccess
  PROVE  Base' /\ WithBearers'
<1>1. PICK k \in Ids, j \in Ids : Moving(k, j)
  BY ServedPhase DEF UeHandoverAccess
<1>2. Away(k, j) /\ UeIn("CONNECTED_HANDOVER", j) /\ Radio(j, <<>>, <<>>) /\ j \in Here
  BY <1>1 DEF Moving, Away, Left, Target
<1>3. /\ ue' = [ue EXCEPT !.state = "CONNECTED_NORMALLY", !.ra = FALSE]
      /\ ul' = Uplink(ul, j, "RECONF_COMPLETE") /\ dl' = dl /\ UeUnchanged
  BY <1>2 DEF UeHandoverAccess, UeIn
<1>4. UeIn("CONNECTED_NORMALLY", j)'
  BY <1>2, <1>3 DEF UeIn, Served
<1>5. Radio(j, <<>>, <<"RECONF_COMPLETE">>)'
  BY <1>2, <1>3, UplinkOnly DEF Radio
<1>6. Base' /\ Away(k, j)'
  BY <1>2, <1>3, UeBaseKeeps
<1>7. Arriving(k, j)'
  BY <1>4, <1>5, <1>6 DEF Arriving
<1> QED
  BY <1>6, <1>7 DEF WithBearers

\* The UE answers a reconfiguration.
LEMMA UeRecvReconfigurationPhase ==
  ASSUME IInv, Base, WithBearers, UeRecvReconfiguration
  PROVE  Base' /\ WithBearers'
<1>1. Served \in Ids /\ dl[Served] # <<>> /\ Head(dl[Served]).type = "RECONF"
  BY ServedType DEF UeRecvReconfiguration, Heard, Pending
<1>2. \A j \in Ids : ~Commanded(Served, j)
  <2> SUFFICES ASSUME NEW j \in Ids, Commanded(Served, j) PROVE FALSE
    OBVIOUS
  <2>1. dl[Served] = <<HoCommand(EnbCell(j), Rnti(j))>>
    BY <1>1, RadioAt DEF Commanded
  <2> QED
    BY <1>1, <2>1 DEF HoCommand
<1>3. PICK k \in Ids, l \in Ids : /\ k = Served
                                 /\ Resting(k, l) /\ Radio(k, <<Rrc("RECONF")>>, <<>>)
                                 /\ ctx[k].st = "CONNECTION_RECONFIGURATION"
  BY <1>1, <1>2, DownlinkPhase
<1>4. AtHome(k) /\ Behind(k, l, x2) /\ k \in Here
  BY <1>3 DEF Resting, Here
<1>5. /\ ul' = Uplink(ul, k, "RECONF_COMPLETE") /\ dl' = Taken(dl, k)
      /\ ue' = ue /\ UeUnchanged
  BY <1>3, <1>4 DEF UeRecvReconfiguration, AtHome, UeIn
<1>6. Radio(k, <<>>, <<"RECONF_COMPLETE">>)'
  BY <1>3, <1>4, <1>5, UplinkOnly, SentAt DEF Radio
<1>7. Base' /\ Behind(k, l, x2)'
  <2>1. x2' = x2
    BY <1>5 DEF UeUnchanged
  <2> QED
    BY <1>4, <1>5, <2>1, UeBaseKeeps
<1>8. AtHome(k)'
  BY <1>4, <1>5 DEF AtHome, Bearing, UeIn, Served, Route, S1, UeUnchanged
<1>9. Linked(k)'
  BY <1>3, <1>5, <1>6 DEF Linked, UeUnchanged
<1>10. Resting(k, l)'
  BY <1>7, <1>8, <1>9 DEF Resting
<1> QED
  BY <1>7, <1>10 DEF WithBearers

-----------------------------------------------------------------------------
(* The eNBs in the phases with bearers.                                    *)

\* A step of an eNB at context k of the UE, which stays and keeps its tunnel.
LEMMA StepAt ==
  ASSUME IInv, NEW k \in Here, NEW d, ctx' = [ctx EXCEPT ![k] = d],
         d.st \notin {"NONE", "CONNECTION_REJECTED"}, d.teid = ctx[k].teid
  PROVE  /\ ctx'[k] = d /\ Here' = Here
         /\ \A i \in Ids : i # k => ctx'[i] = ctx[i]
         /\ enbApp' = enbApp
              => /\ \A l \in Ids : \A q : Behind(k, l, q) => Behind(k, l, q)'
                 /\ \A l \in Ids : LeftBehind(k, l) => LeftBehind(k, l)'
         /\ UNCHANGED <<enbApp, x2u, epc, fault>> => (Base => Base')
<1>1. k \in Ids
  BY DEF Here
<1>2. ctx'[k] = d /\ \A i \in Ids : i # k => ctx'[i] = ctx[i]
  BY <1>1 DEF IInv, TypeOK
<1>3. Here' = Here
  BY <1>1, <1>2 DEF Here
<1>4. ASSUME enbApp' = enbApp, NEW l \in Ids, LeftBehind(k, l) PROVE LeftBehind(k, l)'
  <2>1. l # k
    BY <1>4 DEF LeftBehind
  <2> QED
    BY <1>2, <1>3, <1>4, <2>1 DEF LeftBehind, Bearing, Route
<1>5. ASSUME enbApp' = enbApp
      PROVE  \A l \in Ids : \A q : Behind(k, l, q) => Behind(k, l, q)'
  BY <1>3, <1>4, <1>5 DEF Behind, Release, SnStatus
<1>6. ASSUME UNCHANGED <<enbApp, x2u, epc, fault>>, Base PROVE Base'
  <2>1. \A i \in Here : i \in Here' /\ (ctx[i].teid = 1 => ctx'[i].teid = 1)
    BY <1>2, <1>3 DEF Here
  <2> QED
    BY <1>6, <2>1, BaseKeeps
<1> QED
  BY <1>2, <1>3, <1>4, <1>5, <1>6

\* What changes in a context that becomes connected.
LEMMA ConnectedFields ==
  ASSUME NEW c \in Context
  PROVE  /\ Connected(c) \in Context
         /\ Connected(c).st = IF c.pend THEN "CONNECTION_RECONFIGURATION"
                              ELSE "CONNECTED_NORMALLY"
         /\ Connected(c).drbs = c.drbs /\ Connected(c).teid = c.teid
         /\ Connected(c).queued = c.queued /\ Connected(c).target = c.target
         /\ Connected(c).source = c.source /\ Connected(c).sourceRnti = c.sourceRnti
<1>1. CASE c.pend
  BY <1>1, ConnectedType DEF Connected, Context
<1>2. CASE ~c.pend
  BY <1>2, ConnectedType DEF Connected, Context
<1> QED
  BY <1>1, <1>2

\* A context with bearers that becomes connected, and perhaps reconfigures at once.
LEMMA ConnectedAt ==
  ASSUME IInv, NEW k \in Here, NEW st, Bearing(k, st), dl = OnlyAt(Ids, k, <<>>),
         ctx' = [ctx EXCEPT ![k] = Connected(ctx[k])], dl' = ConnectedDl(dl, k, ctx[k]),
         ul' = OnlyAt(Ids, k, <<>>)
  PROVE  Bearing(k, ctx[k].st)' /\ Linked(k)'
<1>1. k \in Ids /\ ctx[k] \in Context
  BY DEF Here, IInv, TypeOK
<1>2. ctx'[k] = Connected(ctx[k])
  BY <1>1 DEF IInv, TypeOK
<1>3. Bearing(k, ctx[k].st)'
  BY <1>1, <1>2, ConnectedFields DEF Bearing
<1>4. CASE ctx[k].pend
  <2>1. ctx'[k].st = "CONNECTION_RECONFIGURATION"
    BY <1>1, <1>2, <1>4, ConnectedFields
  <2>2. dl' = OnlyAt(Ids, k, <<Rrc("RECONF")>>)
    BY <1>1, <1>4, SentAt DEF ConnectedDl
  <2>3. Rrc("RECONF")' = Rrc("RECONF")
    BY DEF Rrc
  <2> QED
    BY <1>3, <2>1, <2>2, <2>3 DEF Linked, Radio
<1>5. CASE ~ctx[k].pend
  <2>1. ctx'[k].st = "CONNECTED_NORMALLY" /\ dl' = dl
    BY <1>1, <1>2, <1>5, ConnectedFields DEF ConnectedDl
  <2> QED
    BY <1>3, <2>1 DEF Linked, Radio
<1> QED
  BY <1>4, <1>5

\* A context that has asked for a handover after the messages q.
LEMMA RequestedNext ==
  ASSUME NEW k \in Ids, NEW l \in Ids, NEW t \in Cells, NEW q,
         Preparing(k, t)', Behind(k, l, q)', x2' = Append(q, Request(k, t))
  PROVE  WithBearers'
<1>1. q \in {<<>>, <<Release(l, k)>>, <<SnStatus(l, k), Release(l, k)>>}
  BY DEF Behind, Release, SnStatus
<1>2. Requested(k, l, t)'
  BY <1>1 DEF Requested, Release, SnStatus, Request
<1> QED
  BY <1>2 DEF WithBearers

\* The end of a reconfiguration, after which a handover may begin.
LEMMA ReconfiguredPhase ==
  ASSUME IInv, Base, NEW k \in Ids, NEW l \in Ids, Resting(k, l),
         Radio(k, <<>>, <<"RECONF_COMPLETE">>), Reconfigured(k), ul' = Taken(ul, k),
         UNCHANGED <<ue, lastRnti, removals, x2u, s1down, epc, asked, fault>>
  PROVE  Base' /\ WithBearers'
<1>1. /\ AtHome(k) /\ Behind(k, l, x2) /\ Bearing(k, ctx[k].st) /\ ctx[k] \in Context
      /\ ctx[k].st \in {"CONNECTED_NORMALLY", "CONNECTION_RECONFIGURATION"}
  BY DEF Resting, AtHome, Linked, IInv, TypeOK
<1>2. k \in Here
  BY <1>1 DEF Here
<1>3. ul' = OnlyAt(Ids, k, <<>>) /\ dl = OnlyAt(Ids, k, <<>>)
  BY SentAt DEF Radio
<1>4. PICK c : c = Connected(ctx[k])
  OBVIOUS
<1>5. PICK t : t = c.queued
  OBVIOUS
<1>6. /\ c.drbs = Bearers /\ c.teid = 1 /\ c \in Context
      /\ c.st = IF ctx[k].pend THEN "CONNECTION_RECONFIGURATION" ELSE "CONNECTED_NORMALLY"
      /\ t # EnbCell(k) /\ t \in Cells \union {0}
  BY <1>1, <1>4, <1>5, ConnectedFields DEF Bearing, Context
<1> DEFINE next == t # 0 /\ c.st = "CONNECTED_NORMALLY"
<1>7. /\ ctx' = [ctx EXCEPT ![k] = IF next THEN HandoverPrepared(c, t) ELSE c]
      /\ dl' = ConnectedDl(dl, k, ctx[k])
      /\ x2' = IF next THEN Append(x2, HandoverRequest(k, c, t)) ELSE x2
      /\ UNCHANGED <<s1up, enbApp>>
  BY <1>4, <1>5 DEF Reconfigured
<1>8. ASSUME NEW d, d.st \notin {"NONE", "CONNECTION_REJECTED"}, d.teid = 1,
             ctx' = [ctx EXCEPT ![k] = d]
      PROVE  /\ Base' /\ ctx'[k] = d /\ \A q : Behind(k, l, q) => Behind(k, l, q)'
  BY <1>1, <1>2, <1>7, <1>8, StepAt DEF Bearing
<1>9. /\ UeIn("CONNECTED_NORMALLY", k)' /\ Route(k)' /\ S1(EnbCell(k), <<>>, <<>>)'
      /\ epc'.sgw = EnbCell(k) /\ epc'.teid = 1
  BY <1>1, <1>7 DEF AtHome, UeIn, Served, Route, S1
<1>10. CASE ~next
  <2>1. ctx' = [ctx EXCEPT ![k] = c] /\ x2' = x2
    BY <1>7, <1>10
  <2>2. Base' /\ ctx'[k] = c /\ Behind(k, l, x2)'
    BY <1>1, <1>6, <1>8, <2>1
  <2>3. Bearing(k, ctx[k].st)' /\ Linked(k)'
    BY <1>1, <1>2, <1>3, <1>4, <1>7, <2>1, ConnectedAt
  <2>4. Resting(k, l)'
    BY <1>9, <2>2, <2>3 DEF Resting, AtHome
  <2> QED
    BY <2>2, <2>4 DEF WithBearers
<1>11. CASE next
  <2>1. PICK d : d = HandoverPrepared(c, t)
    OBVIOUS
  <2>2. ctx' = [ctx EXCEPT ![k] = d] /\ x2' = Append(x2, HandoverRequest(k, c, t))
    BY <1>7, <1>11, <2>1
  <2>3. /\ d.st = "HANDOVER_PREPARATION" /\ d.target = t /\ d.teid = 1 /\ d.drbs = Bearers
        /\ d.queued = t
    BY <1>5, <1>6, <2>1 DEF HandoverPrepared, Context
  <2>4. t \in Cells \ {EnbCell(k)}
    BY <1>6, <1>11
  <2>5. Base' /\ ctx'[k] = d /\ \A q : Behind(k, l, q) => Behind(k, l, q)'
    BY <1>8, <2>2, <2>3
  <2>6. Radio(k, <<>>, <<>>)'
    BY <1>3, <1>6, <1>7, <1>11 DEF ConnectedDl, Radio
  <2>7. Preparing(k, t)'
    BY <1>9, <2>3, <2>4, <2>5, <2>6 DEF Preparing, AtHome, Bearing
  <2>8. PICK q : q = x2
    OBVIOUS
  <2>9. Behind(k, l, q)' /\ x2' = Append(q, Request(k, t))
    BY <1>1, <1>6, <2>2, <2>5, <2>8 DEF HandoverRequest, Request
  <2> QED
    BY <2>4, <2>5, <2>7, <2>9, RequestedNext
<1> QED
  BY <1>10, <1>11

\* The entries of the tunnel of a UE that has arrived.
LEMMA PathSwitchedTables ==
  ASSUME NEW a \in EnbApp, NEW r \in Rntis
  PROVE  LET b == PathSwitched(a, r, Bearers, 1) IN
         /\ b.rnti = r /\ b.flow[1] = r /\ b.teid[r] = 1
         /\ \A g \in Teids : g # 1 => b.flow[g] = a.flow[g]
         /\ \A s \in Rntis : s # r => b.teid[s] = a.teid[s]
<1>1. 1 \in Teids /\ Bearers # {}
  BY BoundsAssumption DEF Teids, Bearers
<1>2. PICK b : b = [a EXCEPT !.rnti = r]
  OBVIOUS
<1>3. b \in EnbApp /\ b.rnti = r /\ b.flow = a.flow /\ b.teid = a.teid
  BY <1>2 DEF EnbApp
<1>4. PathSwitched(a, r, Bearers, 1) = Routed(b, r, 1)
  BY <1>1, <1>2 DEF PathSwitched
<1>5. /\ Routed(b, r, 1).rnti = r
      /\ Routed(b, r, 1).flow = [b.flow EXCEPT ![1] = r]
      /\ Routed(b, r, 1).teid = [b.teid EXCEPT ![r] = 1]
  BY <1>3 DEF Routed, EnbApp
<1> QED
  BY <1>1, <1>3, <1>4, <1>5 DEF EnbApp

\* A cell whose S1 application routes the tunnel to a context that owns it.
LEMMA RoutedBase ==
  ASSUME IInv, Base, NEW j \in Here, UNCHANGED <<x2u, fault>>, epc'.bearers = epc.bearers,
         \A i \in Here : i \in Here' /\ (ctx[i].teid = 1 => ctx'[i].teid = 1),
         ctx'[j].teid = 1, NEW b, enbApp' = [enbApp EXCEPT ![EnbCell(j)] = b],
         b.flow[1] = Rnti(j), b.teid[Rnti(j)] = 1,
         \A g \in Teids : g # 1 => b.flow[g] = enbApp[EnbCell(j)].flow[g],
         \A s \in Rntis : s # Rnti(j) => b.teid[s] = enbApp[EnbCell(j)].teid[s]
  PROVE  Base'
<1>1. /\ j \in Ids /\ EnbCell(j) \in Cells /\ Rnti(j) \in Rntis
      /\ j = <<EnbCell(j), Rnti(j)>>
  BY IdParts DEF Here, Ids, EnbCell, Rnti
<1>2. /\ enbApp'[EnbCell(j)] = b
      /\ \A c \in Cells : c # EnbCell(j) => enbApp'[c] = enbApp[c]
  BY <1>1 DEF IInv, TypeOK
<1>3. TrueX2u'
  BY DEF Base, TrueX2u, Owns
<1>4. TrueTeid'
  <2> SUFFICES ASSUME NEW c \in Cells, NEW r \in Rntis, enbApp'[c].teid[r] # 0
               PROVE  Owns(c, r, enbApp[c].teid[r])'
    BY DEF TrueTeid
  <2>1. CASE c = EnbCell(j) /\ r = Rnti(j)
    BY <1>1, <1>2, <2>1 DEF Owns
  <2>2. CASE ~(c = EnbCell(j) /\ r = Rnti(j))
    <3>1. enbApp'[c].teid[r] = enbApp[c].teid[r]
      BY <1>2, <2>2
    <3>2. Owns(c, r, enbApp[c].teid[r])
      BY <3>1 DEF Base, TrueTeid
    <3> QED
      BY <3>1, <3>2 DEF Owns
  <2> QED
    BY <2>1, <2>2
<1>5. TrueFlow'
  <2> SUFFICES ASSUME NEW c \in Cells, NEW g \in Teids, enbApp'[c].flow[g] # 0
               PROVE  (/\ Owns(c, enbApp[c].flow[g], g)
                       /\ enbApp[c].teid[enbApp[c].flow[g]] = g)'
    BY DEF TrueFlow
  <2>1. CASE c = EnbCell(j) /\ g = 1
    BY <1>1, <1>2, <2>1 DEF Owns
  <2>2. CASE c = EnbCell(j) /\ g # 1
    BY <1>1, <1>2, <2>2 DEF Base, TrueFlow, Owns
  <2>3. CASE c # EnbCell(j)
    BY <1>1, <1>2, <2>3 DEF Base, TrueFlow, Owns
  <2> QED
    BY <2>1, <2>2, <2>3
<1> QED
  BY <1>3, <1>4, <1>5 DEF Base, NoAbort

\* The target takes the UE over.
LEMMA JoinedPhase ==
  ASSUME IInv, Base, NEW k \in Ids, NEW j \in Ids, Arriving(k, j), Joined(j),
         ul' = Taken(ul, j),
         UNCHANGED <<ue, lastRnti, removals, x2u, s1down, epc, asked, fault>>
  PROVE  Base' /\ WithBearers'
<1>1. /\ Bearing(k, "HANDOVER_LEAVING") /\ Route(k) /\ Target(k, j, "HANDOVER_JOINING")
      /\ epc.teid = 1 /\ (x2 = <<>> \/ x2 = <<SnStatus(k, j)>>)
      /\ S1(EnbCell(k), <<>>, <<>>) /\ epc.sgw = EnbCell(k)
      /\ UeIn("CONNECTED_NORMALLY", j) /\ Radio(j, <<>>, <<"RECONF_COMPLETE">>)
  BY DEF Arriving, Away, Left
<1>2. /\ Here = {k, j} /\ EnbCell(j) # EnbCell(k) /\ Bearing(j, "HANDOVER_JOINING")
      /\ ctx[j].source = EnbCell(k) /\ ctx[j].sourceRnti = Rnti(k)
      /\ ctx[k].target = EnbCell(j) /\ x2u[EnbCell(j)][1] = Rnti(j)
  BY <1>1 DEF Target
<1>3. /\ j \in Here /\ ctx[j] \in Context /\ EnbCell(j) \in Cells /\ EnbCell(k) \in Cells
      /\ Rnti(j) \in Rntis /\ Rnti(k) \in Rntis /\ enbApp[EnbCell(j)] \in EnbApp
  BY <1>2, IdParts DEF IInv, TypeOK
<1>4. PICK d : d = [Stopped(ctx[j], "handoverJoining") EXCEPT !.st = "HANDOVER_PATH_SWITCH"]
  OBVIOUS
<1>5. /\ d.st = "HANDOVER_PATH_SWITCH" /\ d.drbs = Bearers /\ d.teid = 1
      /\ d.queued # EnbCell(j) /\ d.source = EnbCell(k) /\ d.sourceRnti = Rnti(k)
  BY <1>2, <1>3, <1>4 DEF Stopped, Context, Bearing
<1>6. PICK b : b = PathSwitched(enbApp[EnbCell(j)], Rnti(j), Bearers, 1)
  OBVIOUS
<1>7. /\ ctx' = [ctx EXCEPT ![j] = d] /\ dl' = dl /\ x2' = x2
      /\ enbApp' = [enbApp EXCEPT ![EnbCell(j)] = b]
      /\ s1up' = Sent(s1up, EnbCell(j), S1UpMsg("PATH_SWITCH", 0))
  BY <1>2, <1>4, <1>6 DEF Joined, Bearing
<1>8. /\ ctx'[j] = d /\ Here' = Here /\ ctx'[k] = ctx[k]
  BY <1>2, <1>3, <1>5, <1>7, StepAt DEF Bearing
<1>9. /\ b.rnti = Rnti(j) /\ b.flow[1] = Rnti(j) /\ b.teid[Rnti(j)] = 1
      /\ \A g \in Teids : g # 1 => b.flow[g] = enbApp[EnbCell(j)].flow[g]
      /\ \A s \in Rntis : s # Rnti(j) => b.teid[s] = enbApp[EnbCell(j)].teid[s]
  BY <1>3, <1>6, PathSwitchedTables
<1>10. Base'
  <2>1. \A i \in Here : i \in Here' /\ (ctx[i].teid = 1 => ctx'[i].teid = 1)
    BY <1>2, <1>5, <1>8
  <2> QED
    <3>1. ctx'[j].teid = 1 /\ UNCHANGED <<x2u, fault>> /\ epc'.bearers = epc.bearers
      BY <1>5, <1>8
    <3> QED
      BY <1>3, <1>7, <1>9, <2>1, <3>1, RoutedBase
<1>11. enbApp'[EnbCell(j)] = b /\ enbApp'[EnbCell(k)] = enbApp[EnbCell(k)]
  BY <1>2, <1>3, <1>7 DEF IInv, TypeOK
<1>12. Left(k, j, "HANDOVER_PATH_SWITCH")'
  <2>1. Bearing(k, "HANDOVER_LEAVING")' /\ Route(k)'
    BY <1>1, <1>8, <1>11 DEF Bearing, Route
  <2>2. Target(k, j, "HANDOVER_PATH_SWITCH")'
    BY <1>2, <1>5, <1>8 DEF Target, Bearing
  <2> QED
    <3>1. epc'.teid = 1 /\ x2' = x2 /\ SnStatus(k, j)' = SnStatus(k, j)
      BY <1>1, <1>7 DEF SnStatus
    <3> QED
      BY <1>1, <2>1, <2>2, <3>1 DEF Left
<1>13. TakenOver(k, j)'
  <2>1. UeIn("CONNECTED_NORMALLY", j)' /\ Route(j)' /\ App(j)'
    BY <1>1, <1>9, <1>11 DEF UeIn, Served, Route, App
  <2>2. Radio(j, <<>>, <<>>)'
    BY <1>1, <1>7, SentAt DEF Radio
  <2> QED
    BY <1>12, <2>1, <2>2 DEF TakenOver
<1>14. S1(EnbCell(j), <<S1UpMsg("PATH_SWITCH", 0)>>, <<>>)'
  BY <1>1, <1>3, <1>7, SentAt, AtOnly DEF S1, S1UpMsg
<1>15. Switching(k, j)'
  BY <1>1, <1>13, <1>14 DEF Switching, S1UpMsg
<1> QED
  BY <1>10, <1>15 DEF WithBearers

\* The completion of a reconfiguration or a handover.
LEMMA ReconfCompletedPhase ==
  ASSUME IInv, Base, WithBearers, NEW k \in Ids,
         RecvRrcConnectionReconfigurationCompleted(k)
  PROVE  Base' /\ WithBearers'
<1>1. ul[k] # <<>>
  BY DEF RecvRrcConnectionReconfigurationCompleted, Arrived
<1>2. CASE \E l \in Ids : /\ Resting(k, l) /\ Radio(k, <<>>, <<"RECONF_COMPLETE">>)
                          /\ ctx[k].st = "CONNECTION_RECONFIGURATION"
  <2>1. /\ Reconfigured(k) /\ ul' = Taken(ul, k)
        /\ UNCHANGED <<ue, lastRnti, removals, x2u, s1down, epc, asked, fault>>
    BY <1>2 DEF RecvRrcConnectionReconfigurationCompleted
  <2> QED
    BY <1>2, <2>1, ReconfiguredPhase
<1>3. ASSUME NEW i \in Ids, Arriving(i, k) PROVE Base' /\ WithBearers'
  <2>1. ctx[k].st = "HANDOVER_JOINING"
    BY <1>3 DEF Arriving, Away, Left, Target, Bearing
  <2>2. /\ Joined(k) /\ ul' = Taken(ul, k)
        /\ UNCHANGED <<ue, lastRnti, removals, x2u, s1down, epc, asked, fault>>
    BY <2>1 DEF RecvRrcConnectionReconfigurationCompleted
  <2> QED
    BY <1>3, <2>2, JoinedPhase
<1> QED
  BY <1>1, <1>2, <1>3, UplinkPhase

\* The core switches the path.
LEMMA MmeRecvPathSwitchPhase ==
  ASSUME IInv, Base, WithBearers, NEW c \in Cells, MmeRecvPathSwitch(c)
  PROVE  Base' /\ WithBearers'
<1>1. PICK k \in Ids, j \in Ids : Switching(k, j) /\ EnbCell(j) = c
  BY S1Phase DEF MmeRecvPathSwitch, Pending
<1>2. /\ TakenOver(k, j) /\ S1(c, <<S1UpMsg("PATH_SWITCH", 0)>>, <<>>)
      /\ Left(k, j, "HANDOVER_PATH_SWITCH")
  BY <1>1 DEF Switching, TakenOver
<1>3. /\ s1up' = Taken(s1up, c) /\ MmeUnchanged
      /\ s1down' = Sent(s1down, c, S1DownMsg("PATH_SWITCH_ACK", {}, 0))
      /\ epc'.sgw = c /\ epc'.teid = epc.teid /\ epc'.bearers = epc.bearers
  BY DEF MmeRecvPathSwitch, BearersModified, IInv, TypeOK, EpcState
<1>4. Here' = Here
  BY <1>3 DEF MmeUnchanged, Here
<1>5. Base'
  BY <1>3, <1>4, BaseKeeps DEF MmeUnchanged
<1>6. S1(c, <<>>, <<S1DownMsg("PATH_SWITCH_ACK", {}, 0)>>)'
  BY <1>2, <1>3, SentAt DEF S1, S1DownMsg
<1>7. Left(k, j, "HANDOVER_PATH_SWITCH")'
  BY <1>2, <1>3, <1>4 DEF Left, Target, Bearing, Route, SnStatus, MmeUnchanged
<1>8. TakenOver(k, j)'
  BY <1>2, <1>3, <1>7 DEF TakenOver, UeIn, Served, Radio, Route, App, MmeUnchanged
<1>9. Switched(k, j)'
  BY <1>1, <1>3, <1>6, <1>8 DEF Switched, S1DownMsg
<1> QED
  BY <1>5, <1>9 DEF WithBearers

\* The target hears that the path leads to it, and lets the source go.
LEMMA RecvPathSwitchAckPhase ==
  ASSUME IInv, Base, WithBearers, NEW c \in Cells, RecvPathSwitchAck(c)
  PROVE  Base' /\ WithBearers'
<1>1. PICK k \in Ids, j \in Ids : Switched(k, j) /\ EnbCell(j) = c
  BY S1Phase DEF RecvPathSwitchAck, Pending
<1>2. /\ TakenOver(k, j) /\ S1(c, <<>>, <<S1DownMsg("PATH_SWITCH_ACK", {}, 0)>>)
      /\ Left(k, j, "HANDOVER_PATH_SWITCH") /\ epc.sgw = c
      /\ UeIn("CONNECTED_NORMALLY", j) /\ Radio(j, <<>>, <<>>) /\ Route(j) /\ App(j)
  BY <1>1 DEF Switched, TakenOver
<1>3. /\ Bearing(k, "HANDOVER_LEAVING") /\ Route(k) /\ Bearing(j, "HANDOVER_PATH_SWITCH")
      /\ Here = {j, k} /\ EnbCell(k) # EnbCell(j) /\ epc.teid = 1
      /\ ctx[j].source = EnbCell(k) /\ ctx[j].sourceRnti = Rnti(k)
      /\ (x2 = <<>> \/ x2 = <<SnStatus(k, j)>>)
  BY <1>2 DEF Left, Target
<1>4. /\ <<c, enbApp[c].rnti>> = j /\ enbApp[c].rnti # 0 /\ Exists(j) /\ j \in Here
      /\ ctx[j].st = "HANDOVER_PATH_SWITCH" /\ ctx[j] \in Context
  BY <1>1, <1>2, <1>3, NotZero DEF App, Exists, Bearing, Ids, EnbCell, Rnti, IInv, TypeOK
<1>5. /\ x2' = Append(x2, Release(k, j))
      /\ ctx' = [ctx EXCEPT ![j] = Connected(ctx[j])]
      /\ dl' = ConnectedDl(dl, j, ctx[j]) /\ s1down' = Taken(s1down, c)
      /\ UNCHANGED <<ue, lastRnti, removals, ul, x2u, s1up, enbApp, epc, asked, fault>>
  BY <1>1, <1>3, <1>4 DEF RecvPathSwitchAck, Release
<1>6. PICK d : d = Connected(ctx[j])
  OBVIOUS
<1>7. d.st \notin {"NONE", "CONNECTION_REJECTED"} /\ d.teid = ctx[j].teid
  BY <1>4, <1>6, ConnectedFields
<1>8. /\ Base' /\ (LeftBehind(j, k) => LeftBehind(j, k)')
  BY <1>4, <1>5, <1>6, <1>7, StepAt
<1>9. LeftBehind(j, k)'
  BY <1>3, <1>8 DEF LeftBehind
<1>10. Bearing(j, ctx[j].st)' /\ Linked(j)'
  BY <1>2, <1>3, <1>4, <1>5, ConnectedAt DEF Radio
<1>11. Behind(j, k, x2)'
  <2>1. x2' = <<Release(k, j)>> \/ x2' = <<SnStatus(k, j), Release(k, j)>>
    BY ZenonT(40), <1>3, <1>5, Tuples
  <2> QED
    BY <1>9, <2>1 DEF Behind, Release, SnStatus
<1>12. AtHome(j)'
  <2>1. S1(c, <<>>, <<>>)'
    BY <1>2, <1>5, SentAt DEF S1
  <2> QED
    BY <1>1, <1>2, <1>3, <1>5, <1>10, <2>1 DEF AtHome, UeIn, Served, Route
<1>13. Resting(j, k)'
  BY <1>10, <1>11, <1>12 DEF Resting
<1> QED
  BY <1>8, <1>13 DEF WithBearers

\* A context in CONNECTED_NORMALLY is at rest.
LEMMA ConnectedPhase ==
  ASSUME WithBearers, NEW i \in Ids, ctx[i].st = "CONNECTED_NORMALLY"
  PROVE  \E l \in Ids : Resting(i, l) /\ Radio(i, <<>>, <<>>)
<1>1. i \in Here
  BY DEF Here
<1>2. ASSUME NEW k \in Ids, NEW l \in Ids, Resting(k, l)
      PROVE  Resting(i, l) /\ Radio(i, <<>>, <<>>)
  <2>1. i = k
    BY <1>1, <1>2 DEF Resting, Behind, LeftBehind, Bearing
  <2> QED
    BY <1>2, <2>1 DEF Resting, Linked
<1>3. ASSUME NEW k \in Ids, NEW l \in Ids, NEW t \in Cells, Requested(k, l, t) PROVE FALSE
  BY <1>1, <1>3 DEF Requested, Preparing, Behind, LeftBehind, Bearing
<1>4. ASSUME NEW k \in Ids, NEW t \in Cells, Refused(k, t) \/ Forgotten(k, t) PROVE FALSE
  BY <1>1, <1>4 DEF Refused, Forgotten, Preparing
<1>5. ASSUME NEW k \in Ids, NEW j \in Ids, Granted(k, j) PROVE FALSE
  BY <1>1, <1>5 DEF Granted, Preparing, Target, Bearing
<1>6. ASSUME NEW k \in Ids, NEW j \in Ids, NEW st, Left(k, j, st), st # "CONNECTED_NORMALLY"
      PROVE FALSE
  BY <1>1, <1>6 DEF Left, Target, Bearing
<1> QED
  BY <1>2, <1>3, <1>4, <1>5, <1>6, PhaseCases
     DEF Commanded, Moving, Arriving, Switching, Switched, Away, TakenOver

\* A reconfiguration that is asked for is sent by a context at rest, or waits.
LEMMA ScheduleReconfigurationPhase ==
  ASSUME WellBehaved, IInv, Base, WithBearers, NEW k \in Ids,
         ScheduleRrcConnectionReconfiguration(k)
  PROVE  Base' /\ WithBearers'
<1>1. PICK c : c = [ctx[k] EXCEPT !.pend = TRUE]
  OBVIOUS
<1>2. /\ c \in Context /\ c.st = ctx[k].st /\ c.drbs = ctx[k].drbs /\ c.teid = ctx[k].teid
      /\ c.queued = ctx[k].queued /\ c.target = ctx[k].target /\ c.source = ctx[k].source
      /\ c.sourceRnti = ctx[k].sourceRnti /\ c.pend
  BY ZenonT(40), <1>1 DEF IInv, TypeOK, Context
<1>3. Schedulable(ctx[k])
  BY DEF WellBehaved, ScheduleRrcConnectionReconfiguration, Schedulable, SendsNow
<1>4. /\ ctx' = [ctx EXCEPT ![k] = IF SendsNow(c) THEN Connected(c) ELSE c]
      /\ dl' = IF SendsNow(c) THEN ConnectedDl(dl, k, c) ELSE dl
      /\ UNCHANGED <<ue, lastRnti, removals, ul, x2, x2u, s1up, s1down,
                     enbApp, epc, fault>>
  BY <1>1, <1>3 DEF ScheduleRrcConnectionReconfiguration
<1>5. CASE SendsNow(c)
  <2>1. PICK l \in Ids : Resting(k, l) /\ Radio(k, <<>>, <<>>)
    BY <1>2, <1>5, ConnectedPhase DEF SendsNow
  <2>2. PICK d : d = Connected(c)
    OBVIOUS
  <2>3. /\ d.st = "CONNECTION_RECONFIGURATION" /\ d.drbs = ctx[k].drbs
        /\ d.teid = ctx[k].teid /\ d.queued = ctx[k].queued
        /\ ctx' = [ctx EXCEPT ![k] = d] /\ dl' = Sent(dl, k, Rrc("RECONF"))
    BY <1>2, <1>4, <1>5, <2>2, ConnectedFields DEF ConnectedDl
  <2>4. AtHome(k) /\ Behind(k, l, x2) /\ k \in Here
    BY <2>1 DEF Resting, Behind, LeftBehind
  <2>5. Base' /\ Behind(k, l, x2)' /\ ctx'[k] = d
    BY <1>4, <2>3, <2>4, StepAt
  <2>6. Linked(k)'
    BY <1>4, <2>1, <2>3, <2>5, SentAt DEF Linked, Radio, Rrc
  <2>7. AtHome(k)'
    BY <1>4, <2>3, <2>4, <2>5 DEF AtHome, Bearing, UeIn, Served, Route, S1
  <2>8. Resting(k, l)'
    BY <2>5, <2>6, <2>7 DEF Resting
  <2> QED
    BY <2>5, <2>8 DEF WithBearers
<1>6. CASE ~SendsNow(c)
  <2>1. ctx'[k] = c /\ \A i \in Ids : i # k => ctx'[i] = ctx[i]
    BY <1>4, <1>6 DEF IInv, TypeOK
  <2>2. Alike(k) /\ \A i \in Ids : i # k => Alike(i)
    BY <1>2, <2>1 DEF Alike
  <2> QED
    BY <1>4, <1>6, <2>2, FrameKeeps
<1> QED
  BY <1>5, <1>6

\* A handover that is asked for begins at a context at rest, or waits.
LEMMA SendHandoverRequestPhase ==
  ASSUME WellBehaved, IInv, Base, WithBearers, NEW k \in Ids, SendHandoverRequest(k)
  PROVE  Base' /\ WithBearers'
<1>1. /\ ctx[k].st \in {"CONNECTED_NORMALLY", "CONNECTION_RECONFIGURATION",
                        "HANDOVER_JOINING"}
      /\ ctx[k].drbs # {} /\ ctx[k] \in Context
  BY DEF WellBehaved, SendHandoverRequest, IInv, TypeOK
<1>2. CASE ctx[k].st = "CONNECTED_NORMALLY"
  <2>1. PICK t \in Cells \ {EnbCell(k)} :
          /\ ctx' = [ctx EXCEPT ![k] = HandoverPrepared(ctx[k], t)]
          /\ x2' = Append(x2, HandoverRequest(k, ctx[k], t))
          /\ UNCHANGED <<ue, lastRnti, removals, dl, ul, x2u, s1up, s1down,
                         enbApp, epc, fault>>
    BY <1>2 DEF SendHandoverRequest
  <2>2. PICK l \in Ids : Resting(k, l) /\ Radio(k, <<>>, <<>>)
    BY <1>2, ConnectedPhase
  <2>3. AtHome(k) /\ Behind(k, l, x2) /\ k \in Here /\ Bearing(k, ctx[k].st)
    BY <2>2 DEF Resting, Behind, LeftBehind, AtHome
  <2>4. PICK d : d = HandoverPrepared(ctx[k], t)
    OBVIOUS
  <2>5. /\ d.st = "HANDOVER_PREPARATION" /\ d.target = t /\ d.teid = ctx[k].teid
        /\ d.drbs = ctx[k].drbs /\ d.queued = ctx[k].queued
    BY <1>1, <2>4 DEF HandoverPrepared, Context
  <2>6. Base' /\ ctx'[k] = d /\ \A q : Behind(k, l, q) => Behind(k, l, q)'
    BY <2>1, <2>3, <2>4, <2>5, StepAt
  <2>7. Preparing(k, t)'
    BY <2>1, <2>2, <2>3, <2>5, <2>6
       DEF Preparing, AtHome, Bearing, UeIn, Served, Route, S1, Radio
  <2>8. PICK q : q = x2
    OBVIOUS
  <2>9. Behind(k, l, q)' /\ x2' = Append(q, Request(k, t))
    BY <2>1, <2>3, <2>6, <2>8 DEF HandoverRequest, Request, Bearing
  <2> QED
    BY <2>6, <2>7, <2>9, RequestedNext
<1>3. CASE ctx[k].st # "CONNECTED_NORMALLY"
  <2>1. PICK t \in Cells \ {EnbCell(k)} :
          /\ ctx' = [ctx EXCEPT ![k].queued = t]
          /\ UNCHANGED <<ue, lastRnti, removals, dl, ul, x2, x2u, s1up, s1down,
                         enbApp, epc, fault>>
    BY <1>1, <1>3 DEF SendHandoverRequest
  <2>2. Alike(k) /\ \A i \in Ids : i # k => Alike(i)
    BY <1>1, <2>1 DEF Alike, IInv, TypeOK, Context
  <2> QED
    BY <2>1, <2>2, FrameKeeps
<1> QED
  BY <1>2, <1>3

-----------------------------------------------------------------------------
(* The X2 messages in the phases with bearers.                             *)

\* What the first X2 message says of the phase.
LEMMA X2HeadPhase ==
  ASSUME WithBearers, x2 # <<>>
  PROVE  /\ Head(x2).type = "HO_REQUEST"
              => \E k \in Ids, t \in Cells : /\ Preparing(k, t) /\ Here = {k}
                                             /\ x2 = <<Request(k, t)>>
         /\ Head(x2).type = "HO_FAILURE" => \E k \in Ids, t \in Cells : Refused(k, t)
         /\ Head(x2).type = "HO_ACK" => \E k, j \in Ids : Granted(k, j)
         /\ Head(x2).type = "SN_STATUS"
              => \/ \E k, j \in Ids : /\ \/ Commanded(k, j) \/ Moving(k, j) \/ Arriving(k, j)
                                         \/ Switching(k, j) \/ Switched(k, j)
                                      /\ x2 = <<SnStatus(k, j)>>
                 \/ \E k, l \in Ids : /\ AtHome(k) /\ Linked(k) /\ LeftBehind(k, l)
                                      /\ x2 = <<SnStatus(l, k), Release(l, k)>>
                 \/ \E k, l \in Ids, t \in Cells :
                      /\ Preparing(k, t) /\ LeftBehind(k, l)
                      /\ x2 = <<SnStatus(l, k), Release(l, k), Request(k, t)>>
         /\ Head(x2).type = "CTX_RELEASE"
              => \/ \E k, l \in Ids : /\ AtHome(k) /\ Linked(k) /\ LeftBehind(k, l)
                                      /\ x2 = <<Release(l, k)>>
                 \/ \E k, l \in Ids, t \in Cells :
                      /\ Preparing(k, t) /\ LeftBehind(k, l)
                      /\ x2 = <<Release(l, k), Request(k, t)>>
<1>1. \A a, b, c : Head(<<a>>) = a /\ Head(<<a, b>>) = a /\ Head(<<a, b, c>>) = a
  BY Tuples
<1>2. \A k, j : /\ Request(k, j).type = "HO_REQUEST" /\ Refusal(k, j).type = "HO_FAILURE"
                /\ Grant(k, j).type = "HO_ACK" /\ SnStatus(k, j).type = "SN_STATUS"
                /\ Release(k, j).type = "CTX_RELEASE"
  BY DEF Request, Refusal, Grant, SnStatus, Release, X2
<1>3. CASE \E k \in Ids, t \in Cells : Preparing(k, t) /\ Here = {k} /\ x2 = <<Request(k, t)>>
  BY <1>1, <1>2, <1>3
<1>4. CASE \E k \in Ids, t \in Cells : Refused(k, t)
  BY <1>1, <1>2, <1>4 DEF Refused
<1>5. CASE \E k, j \in Ids : Granted(k, j)
  BY <1>1, <1>2, <1>5 DEF Granted
<1>6. ASSUME NEW k \in Ids, NEW j \in Ids, x2 = <<SnStatus(k, j)>>,
             \/ Commanded(k, j) \/ Moving(k, j) \/ Arriving(k, j)
             \/ Switching(k, j) \/ Switched(k, j)
      PROVE  /\ Head(x2).type = "SN_STATUS"
             /\ \E k2, j2 \in Ids : /\ \/ Commanded(k2, j2) \/ Moving(k2, j2) \/ Arriving(k2, j2)
                                       \/ Switching(k2, j2) \/ Switched(k2, j2)
                                    /\ x2 = <<SnStatus(k2, j2)>>
  BY <1>1, <1>2, <1>6
<1>7. ASSUME NEW k \in Ids, NEW l \in Ids, AtHome(k), Linked(k), LeftBehind(k, l),
             x2 = <<Release(l, k)>> \/ x2 = <<SnStatus(l, k), Release(l, k)>>
      PROVE  \/ /\ Head(x2).type = "CTX_RELEASE" /\ x2 = <<Release(l, k)>>
             \/ /\ Head(x2).type = "SN_STATUS" /\ x2 = <<SnStatus(l, k), Release(l, k)>>
  BY <1>1, <1>2, <1>7
<1>8. ASSUME NEW k \in Ids, NEW l \in Ids, NEW t \in Cells, Preparing(k, t), LeftBehind(k, l),
             \/ x2 = <<Release(l, k), Request(k, t)>>
             \/ x2 = <<SnStatus(l, k), Release(l, k), Request(k, t)>>
      PROVE  \/ /\ Head(x2).type = "CTX_RELEASE" /\ x2 = <<Release(l, k), Request(k, t)>>
             \/ /\ Head(x2).type = "SN_STATUS"
                /\ x2 = <<SnStatus(l, k), Release(l, k), Request(k, t)>>
  BY <1>1, <1>2, <1>8
<1>9. CASE \E k, l \in Ids : /\ AtHome(k) /\ Linked(k) /\ LeftBehind(k, l)
                              /\ \/ x2 = <<Release(l, k)>>
                                 \/ x2 = <<SnStatus(l, k), Release(l, k)>>
  BY <1>7, <1>9
<1>10. CASE \E k, l \in Ids, t \in Cells :
              /\ Preparing(k, t) /\ LeftBehind(k, l)
              /\ \/ x2 = <<Release(l, k), Request(k, t)>>
                 \/ x2 = <<SnStatus(l, k), Release(l, k), Request(k, t)>>
  BY <1>8, <1>10
<1>11. CASE \E k, j \in Ids : /\ Commanded(k, j) \/ Moving(k, j) \/ Arriving(k, j)
                                 \/ Switching(k, j) \/ Switched(k, j)
                              /\ x2 = <<SnStatus(k, j)>>
  BY <1>6, <1>11
<1> QED
  BY <1>3, <1>4, <1>5, <1>9, <1>10, <1>11, X2Phase

\* The source sends the UE away.
LEMMA RecvHandoverRequestAckPhase ==
  ASSUME WellBehaved, IInv, Base, WithBearers, NEW i \in DOMAIN x2, X2Next(i),
         RecvHandoverRequestAck(i)
  PROVE  Base' /\ WithBearers'
<1>1. /\ x2 # <<>> /\ x2[i] = Head(x2) /\ \A m : X2Answered(i, m) = Append(Tail(x2), m)
  BY HeadNext DEF IInv, TypeOK
<1>2. PICK k \in Ids, j \in Ids : Granted(k, j)
  BY <1>1, X2HeadPhase DEF RecvHandoverRequestAck
<1>3. /\ Preparing(k, EnbCell(j)) /\ Target(k, j, "HANDOVER_JOINING") /\ x2 = <<Grant(k, j)>>
      /\ AtHome(k) /\ Bearing(k, "HANDOVER_PREPARATION") /\ Radio(k, <<>>, <<>>)
  BY <1>2 DEF Granted, Preparing, AtHome, Bearing
<1>4. /\ Here = {k, j} /\ EnbCell(j) # EnbCell(k) /\ k \in Here /\ ctx[k] \in Context
  BY <1>3 DEF Target, IInv, TypeOK
<1>5. /\ x2[i].from = EnbCell(j) /\ x2[i].to = EnbCell(k) /\ x2[i].old = Rnti(k)
      /\ x2[i].new = Rnti(j) /\ x2[i].drbs = Bearers /\ Tail(x2) = <<>>
  BY <1>1, <1>3, Tuples DEF Grant, X2
<1>6. <<EnbCell(k), Rnti(k)>> = k /\ Exists(k)
  BY <1>3 DEF Ids, EnbCell, Rnti, Exists, Bearing
<1>7. PICK d : d = HandoverLeft(ctx[k])
  OBVIOUS
<1>8. /\ d.st = "HANDOVER_LEAVING" /\ d.drbs = Bearers /\ d.teid = 1 /\ d.queued # EnbCell(k)
      /\ d.target = ctx[k].target
  BY <1>3, <1>4, <1>7 DEF HandoverLeft, Context, Bearing
<1>9. /\ ctx' = [ctx EXCEPT ![k] = d]
      /\ dl' = Sent(dl, k, HoCommand(EnbCell(j), Rnti(j)))
      /\ x2' = Append(<<>>, SnStatus(k, j))
      /\ UNCHANGED <<ue, lastRnti, removals, ul, x2u, s1up, s1down, enbApp, epc, asked, fault>>
  BY <1>1, <1>3, <1>5, <1>6, <1>7 DEF RecvHandoverRequestAck, SnStatus, Bearing
<1>10. /\ ctx'[k] = d /\ Here' = Here /\ ctx'[j] = ctx[j] /\ Base'
  BY <1>3, <1>4, <1>8, <1>9, StepAt DEF Bearing
<1>11. Left(k, j, "HANDOVER_JOINING")'
  <2>1. Bearing(k, "HANDOVER_LEAVING")' /\ Route(k)' /\ epc'.teid = 1
    BY <1>3, <1>8, <1>9, <1>10 DEF Bearing, Route, AtHome
  <2>2. Target(k, j, "HANDOVER_JOINING")'
    BY <1>3, <1>8, <1>9, <1>10 DEF Target, Bearing
  <2>3. x2' = <<SnStatus(k, j)>>
    BY <1>9, Tuples
  <2> QED
    BY <2>1, <2>2, <2>3 DEF Left, SnStatus
<1>12. Radio(k, <<HoCommand(EnbCell(j), Rnti(j))>>, <<>>)'
  BY <1>3, <1>9, SentAt DEF Radio, HoCommand
<1>13. Commanded(k, j)'
  BY <1>3, <1>9, <1>11, <1>12 DEF Commanded, Away, AtHome, UeIn, Served, S1, HoCommand
<1> QED
  BY <1>10, <1>13 DEF WithBearers

\* The source, which has been refused, goes on.
LEMMA RecvHandoverPreparationFailurePhase ==
  ASSUME WellBehaved, IInv, Base, WithBearers, NEW i \in DOMAIN x2, X2Next(i),
         RecvHandoverPreparationFailure(i)
  PROVE  Base' /\ WithBearers'
<1>1. x2 # <<>> /\ x2[i] = Head(x2) /\ X2Taken(i) = Tail(x2)
  BY HeadNext DEF IInv, TypeOK
<1>2. PICK k \in Ids, t \in Cells : Refused(k, t)
  BY <1>1, X2HeadPhase DEF RecvHandoverPreparationFailure
<1>3. /\ AtHome(k) /\ Here = {k} /\ x2 = <<Refusal(k, t)>> /\ ctx[k].target = t
      /\ Bearing(k, "HANDOVER_PREPARATION") /\ Radio(k, <<>>, <<>>)
      /\ k \in Here /\ ctx[k] \in Context
  BY <1>2 DEF Refused, Preparing, AtHome, Bearing, IInv, TypeOK
<1>4. /\ x2[i].from = t /\ <<x2[i].to, x2[i].old>> = k /\ Tail(x2) = <<>>
  BY <1>1, <1>3, Tuples DEF Refusal, X2, Ids, EnbCell, Rnti
<1>5. /\ ctx' = [ctx EXCEPT ![k] = Connected(ctx[k])] /\ dl' = ConnectedDl(dl, k, ctx[k])
      /\ x2' = <<>>
      /\ UNCHANGED <<ue, lastRnti, removals, ul, x2u, s1up, s1down, enbApp, epc, asked, fault>>
  BY <1>1, <1>3, <1>4 DEF RecvHandoverPreparationFailure, Bearing
<1>6. PICK d : d = Connected(ctx[k])
  OBVIOUS
<1>7. d.st \notin {"NONE", "CONNECTION_REJECTED"} /\ d.teid = ctx[k].teid
  BY <1>3, <1>6, ConnectedFields
<1>8. Base' /\ Here' = Here
  BY <1>3, <1>5, <1>6, <1>7, StepAt
<1>9. Bearing(k, ctx[k].st)' /\ Linked(k)'
  BY <1>3, <1>5, ConnectedAt DEF Radio
<1>10. AtHome(k)'
  BY <1>3, <1>5, <1>9 DEF AtHome, UeIn, Served, Route, S1
<1>11. Resting(k, k)'
  BY <1>3, <1>5, <1>8, <1>9, <1>10 DEF Resting, Behind
<1> QED
  BY <1>8, <1>11 DEF WithBearers

\* A message that only shows that its receiver exists.
LEMMA RecvSnStatusTransferPhase ==
  ASSUME WellBehaved, IInv, Base, WithBearers, NEW i \in DOMAIN x2, X2Next(i),
         RecvSnStatusTransfer(i)
  PROVE  Base' /\ WithBearers'
<1>1. x2 # <<>> /\ x2[i] = Head(x2) /\ X2Taken(i) = Tail(x2)
  BY HeadNext DEF IInv, TypeOK
<1>2. ASSUME NEW k \in Ids, NEW j \in Ids, x2[i] = SnStatus(k, j), j \in Here
      PROVE  /\ x2' = Tail(x2)
             /\ UNCHANGED <<ue, ctx, lastRnti, removals, dl, ul, x2u, s1up, s1down,
                            enbApp, epc, asked, fault>>
  <2>1. <<x2[i].to, x2[i].new>> = j /\ Exists(j)
    BY <1>2 DEF SnStatus, X2, Ids, EnbCell, Rnti, Here, Exists
  <2> QED
    BY <1>1, <2>1 DEF RecvSnStatusTransfer
<1>3. ASSUME UNCHANGED <<ue, ctx, lastRnti, removals, dl, ul, x2u, s1up, s1down,
                         enbApp, epc, asked, fault>>
      PROVE  /\ Base' /\ Here' = Here
             /\ \A k \in Ids : (AtHome(k) => AtHome(k)') /\ (Linked(k) => Linked(k)')
             /\ \A k, l \in Ids : LeftBehind(k, l) => LeftBehind(k, l)'
             /\ \A k \in Ids, t \in Cells : Preparing(k, t) => Preparing(k, t)'
  <2>1. Here' = Here
    BY <1>3 DEF Here
  <2>2. Base'
    BY <1>3, <2>1, BaseKeeps
  <2>3. \A k \in Ids : (AtHome(k) => AtHome(k)') /\ (Linked(k) => Linked(k)')
    BY <1>3 DEF AtHome, Linked, Bearing, UeIn, Served, Route, S1, Radio
  <2>4. \A k \in Ids, t \in Cells : Preparing(k, t) => Preparing(k, t)'
    BY <1>3, <2>3 DEF Preparing, Radio
  <2>5. \A k, l \in Ids : LeftBehind(k, l) => LeftBehind(k, l)'
    BY <1>3, <2>1 DEF LeftBehind, Bearing, Route
  <2> QED
    BY <2>1, <2>2, <2>3, <2>4, <2>5
<1>4. \A k, l : Release(k, l)' = Release(k, l) /\ Request(k, l)' = Request(k, l)
                /\ SnStatus(k, l)' = SnStatus(k, l)
  BY DEF Release, Request, SnStatus
<1>5. ASSUME NEW k \in Ids, NEW j \in Ids, x2 = <<SnStatus(k, j)>>,
             \/ Commanded(k, j) \/ Moving(k, j) \/ Arriving(k, j)
             \/ Switching(k, j) \/ Switched(k, j)
      PROVE  Base' /\ WithBearers'
  <2>1. j \in Here /\ x2[i] = SnStatus(k, j) /\ Tail(x2) = <<>>
    BY <1>1, <1>5, Tuples
       DEF Commanded, Moving, Arriving, Switching, Switched, Away, TakenOver, Left, Target
  <2>2. /\ x2' = <<>>
        /\ UNCHANGED <<ue, ctx, lastRnti, removals, dl, ul, x2u, s1up, s1down,
                       enbApp, epc, asked, fault>>
    BY <1>2, <2>1
  <2>3. Base' /\ Here' = Here
    BY <1>3, <2>2
  <2>4. \A st : Left(k, j, st) => Left(k, j, st)'
    BY <2>2, <2>3 DEF Left, Target, Bearing, Route
  <2>5. (Away(k, j) => Away(k, j)') /\ (TakenOver(k, j) => TakenOver(k, j)')
    BY <2>2, <2>4 DEF Away, TakenOver, UeIn, Served, S1, Radio, Route, App
  <2>6. \/ Commanded(k, j)' \/ Moving(k, j)' \/ Arriving(k, j)'
        \/ Switching(k, j)' \/ Switched(k, j)'
    BY <1>5, <2>2, <2>5
       DEF Commanded, Moving, Arriving, Switching, Switched, UeIn, Served, S1, Radio
  <2> QED
    BY <2>3, <2>6 DEF WithBearers
<1>6. ASSUME NEW k \in Ids, NEW l \in Ids, AtHome(k), Linked(k), LeftBehind(k, l),
             x2 = <<SnStatus(l, k), Release(l, k)>>
      PROVE  Base' /\ WithBearers'
  <2>1. k \in Here /\ x2[i] = SnStatus(l, k) /\ Tail(x2) = <<Release(l, k)>>
    BY <1>1, <1>6, Tuples DEF LeftBehind
  <2>2. /\ x2' = <<Release(l, k)>>
        /\ UNCHANGED <<ue, ctx, lastRnti, removals, dl, ul, x2u, s1up, s1down,
                       enbApp, epc, asked, fault>>
    BY <1>2, <2>1
  <2>3. Base' /\ AtHome(k)' /\ Linked(k)' /\ LeftBehind(k, l)'
    BY <1>3, <1>6, <2>2
  <2>4. Resting(k, l)'
    BY <1>4, <2>2, <2>3 DEF Resting, Behind
  <2> QED
    BY <2>3, <2>4 DEF WithBearers
<1>7. ASSUME NEW k \in Ids, NEW l \in Ids, NEW t \in Cells, Preparing(k, t), LeftBehind(k, l),
             x2 = <<SnStatus(l, k), Release(l, k), Request(k, t)>>
      PROVE  Base' /\ WithBearers'
  <2>1. /\ k \in Here /\ x2[i] = SnStatus(l, k)
        /\ Tail(x2) = <<Release(l, k), Request(k, t)>>
    BY <1>1, <1>7, Tuples DEF LeftBehind
  <2>2. /\ x2' = <<Release(l, k), Request(k, t)>>
        /\ UNCHANGED <<ue, ctx, lastRnti, removals, dl, ul, x2u, s1up, s1down,
                       enbApp, epc, asked, fault>>
    BY <1>2, <2>1
  <2>3. Base' /\ Preparing(k, t)' /\ LeftBehind(k, l)'
    BY <1>3, <1>7, <2>2
  <2>4. Behind(k, l, <<Release(l, k)>>)'
    BY <1>4, <2>3 DEF Behind
  <2>5. x2' = Append(<<Release(l, k)>>, Request(k, t))
    BY <2>2, Tuples
  <2> QED
    BY <1>4, <2>3, <2>4, <2>5, RequestedNext
<1> QED
  BY <1>1, <1>5, <1>6, <1>7, X2HeadPhase DEF RecvSnStatusTransfer

\* The tables forget a context that is removed.
LEMMA ReleasedBase ==
  ASSUME IInv, Base, NEW l \in Here, NEW c \in Context, RemoveUe(l, c),
         c.drbs # {}, c.teid = 1, epc' = epc, fault' = fault
  PROVE  Base'
<1>1. /\ l \in Ids /\ EnbCell(l) \in Cells /\ Rnti(l) \in Rntis
      /\ l = <<EnbCell(l), Rnti(l)>> /\ 1 \in Teids
  BY IdParts, BoundsAssumption DEF Here, Ids, EnbCell, Rnti, Teids
<1>2. PICK a : a = enbApp[EnbCell(l)]
  OBVIOUS
<1>3. PICK b : b = UeContextReleased(a, Rnti(l))
  OBVIOUS
<1>4. /\ \A i \in Ids : i # l => ctx'[i] = ctx[i]
      /\ \A i \in Here : i # l => i \in Here' /\ ctx'[i] = ctx[i]
  BY <1>1 DEF RemoveUe, Here, IInv, TypeOK
<1>5. /\ enbApp'[EnbCell(l)] = b
      /\ \A d \in Cells : d # EnbCell(l) => enbApp'[d] = enbApp[d]
  BY <1>1, <1>2, <1>3 DEF RemoveUe, IInv, TypeOK
<1>6. /\ x2u'[EnbCell(l)][1] = 0
      /\ \A d \in Cells, g \in Teids : d # EnbCell(l) \/ g # 1 => x2u'[d][g] = x2u[d][g]
  BY <1>1 DEF RemoveUe, IInv, TypeOK
<1>7. TrueX2u'
  <2> SUFFICES ASSUME NEW d \in Cells, NEW g \in Teids, x2u'[d][g] # 0
               PROVE  Owns(d, x2u[d][g], g)'
    BY DEF TrueX2u
  <2>1. (d # EnbCell(l) \/ g # 1) /\ x2u'[d][g] = x2u[d][g]
    BY <1>6
  <2>2. Owns(d, x2u[d][g], g)
    BY <2>1 DEF Base, TrueX2u
  <2>3. <<d, x2u[d][g]>> # l
    BY <1>1, <2>1, <2>2 DEF Owns, EnbCell
  <2> QED
    BY <1>4, <2>1, <2>2, <2>3 DEF Owns
<1>8. /\ a \in EnbApp
      /\ a.teid[Rnti(l)] \in {0, 1}
      /\ a.teid[Rnti(l)] = 0 => b = a
      /\ a.teid[Rnti(l)] = 1 => /\ b.flow = [a.flow EXCEPT ![1] = 0]
                                /\ b.teid = [a.teid EXCEPT ![Rnti(l)] = 0]
  <2>1. a \in EnbApp
    BY <1>1, <1>2 DEF IInv, TypeOK
  <2>2. a.teid[Rnti(l)] # 0 => a.teid[Rnti(l)] = 1
    BY <1>1, <1>2 DEF Base, TrueTeid, Owns
  <2>3. a.teid[Rnti(l)] = 0 => b = a
    BY <1>3 DEF UeContextReleased
  <2>4. ASSUME a.teid[Rnti(l)] = 1
        PROVE  /\ b.flow = [a.flow EXCEPT ![1] = 0]
               /\ b.teid = [a.teid EXCEPT ![Rnti(l)] = 0]
    <3>1. b = [a EXCEPT !.flow[1] = 0, !.teid[Rnti(l)] = 0]
      BY <1>3, <2>4 DEF UeContextReleased
    <3> QED
      BY <2>1, <3>1 DEF EnbApp
  <2> QED
    BY <2>1, <2>2, <2>3, <2>4
<1>9. /\ \A g \in Teids : b.flow[g] = 0
                          \/ (b.flow[g] = a.flow[g] /\ b.flow[g] # Rnti(l)
                              /\ b.teid[b.flow[g]] = g)
      /\ \A r \in Rntis : b.teid[r] = 0 \/ (b.teid[r] = a.teid[r] /\ r # Rnti(l))
  <2>1. \A g \in Teids : a.flow[g] # 0 => a.teid[a.flow[g]] = g /\ g = 1
    BY <1>1, <1>2 DEF Base, TrueFlow, Owns
  <2>2. a.flow \in [Teids -> Rntis \union {0}] /\ a.teid \in [Rntis -> Teids \union {0}]
    BY <1>8 DEF EnbApp
  <2>3. CASE a.teid[Rnti(l)] = 0
    <3>1. \A g \in Teids : a.flow[g] # 0 => a.flow[g] # Rnti(l)
      BY <2>1, <2>3, NotZero
    <3> QED
      BY <1>8, <2>1, <2>3, <3>1
  <2>4. CASE a.teid[Rnti(l)] = 1
    BY <1>1, <1>8, <2>1, <2>2, <2>4
  <2> QED
    BY <1>8, <2>3, <2>4
<1>10. TrueFlow'
  <2> SUFFICES ASSUME NEW d \in Cells, NEW g \in Teids, enbApp'[d].flow[g] # 0
               PROVE  (/\ Owns(d, enbApp[d].flow[g], g)
                       /\ enbApp[d].teid[enbApp[d].flow[g]] = g)'
    BY DEF TrueFlow
  <2>1. /\ enbApp'[d].flow[g] = enbApp[d].flow[g] /\ <<d, enbApp[d].flow[g]>> # l
        /\ enbApp'[d].teid[enbApp'[d].flow[g]] = g
    <3>1. CASE d = EnbCell(l)
      BY <1>1, <1>2, <1>5, <1>9, <3>1 DEF Rnti
    <3>2. CASE d # EnbCell(l)
      BY <1>1, <1>5, <3>2 DEF Base, TrueFlow, EnbCell
    <3> QED
      BY <3>1, <3>2
  <2>2. Owns(d, enbApp[d].flow[g], g)
    BY <2>1 DEF Base, TrueFlow
  <2> QED
    BY <1>4, <2>1, <2>2 DEF Owns
<1>11. TrueTeid'
  <2> SUFFICES ASSUME NEW d \in Cells, NEW r \in Rntis, enbApp'[d].teid[r] # 0
               PROVE  Owns(d, r, enbApp[d].teid[r])'
    BY DEF TrueTeid
  <2>1. enbApp'[d].teid[r] = enbApp[d].teid[r] /\ <<d, r>> # l
    <3>1. CASE d = EnbCell(l)
      BY <1>1, <1>2, <1>5, <1>9, <3>1 DEF Rnti
    <3>2. CASE d # EnbCell(l)
      BY <1>1, <1>5, <3>2 DEF EnbCell
    <3> QED
      BY <3>1, <3>2
  <2>2. Owns(d, r, enbApp[d].teid[r])
    BY <2>1 DEF Base, TrueTeid
  <2> QED
    BY <1>4, <2>1, <2>2 DEF Owns
<1> QED
  BY <1>7, <1>10, <1>11 DEF Base, NoAbort

\* Flushing an empty queue changes nothing.
LEMMA Flushed ==
  ASSUME NEW S, NEW k \in S, NEW l \in S, NEW q, l # k \/ q = <<>>
  PROVE  [OnlyAt(S, k, q) EXCEPT ![l] = <<>>] = OnlyAt(S, k, q)
BY DEF OnlyAt

\* The context that the UE has left is removed.
LEMMA RecvUeContextReleasePhase ==
  ASSUME WellBehaved, IInv, Base, WithBearers, NEW i \in DOMAIN x2, X2Next(i),
         RecvUeContextRelease(i)
  PROVE  Base' /\ WithBearers'
<1>1. x2 # <<>> /\ x2[i] = Head(x2) /\ X2Taken(i) = Tail(x2)
  BY HeadNext DEF IInv, TypeOK
<1>2. ASSUME NEW k \in Ids, NEW l \in Ids, AtHome(k), LeftBehind(k, l), x2[i] = Release(l, k),
             NEW down, NEW up, Radio(k, down, up)
      PROVE  /\ Base' /\ x2' = Tail(x2) /\ Here' = {k} /\ ctx'[k] = ctx[k]
             /\ AtHome(k)' /\ Radio(k, down, up)'
  <2>1. /\ Here = {k, l} /\ l # k /\ EnbCell(l) # EnbCell(k) /\ Bearing(l, "HANDOVER_LEAVING")
        /\ l \in Here /\ ctx[l] \in Context /\ EnbCell(l) \in Cells /\ EnbCell(k) \in Cells
    BY <1>2, IdParts DEF LeftBehind, IInv, TypeOK
  <2>2. <<x2[i].to, x2[i].old>> = l
    BY <1>2 DEF Release, X2, Ids, EnbCell, Rnti
  <2>3. PICK c : c = Stopped(ctx[l], "handoverLeaving")
    OBVIOUS
  <2>4. c \in Context /\ c.drbs = Bearers /\ c.teid = 1 /\ Bearers # {}
    BY <2>1, <2>3, BoundsAssumption DEF Stopped, Context, Bearing, Bearers
  <2>5. /\ RemoveUe(l, c) /\ x2' = Tail(x2)
        /\ UNCHANGED <<ue, lastRnti, removals, s1up, s1down, epc, asked, fault>>
    BY <1>1, <2>1, <2>2, <2>3 DEF RecvUeContextRelease, Bearing
  <2>6. Base'
    BY <2>1, <2>4, <2>5, ReleasedBase
  <2>7. ctx'[k] = ctx[k] /\ ctx'[l].st = "NONE"
    BY <2>1, <2>4, <2>5, ErasedType DEF RemoveUe, IInv, TypeOK
  <2>8. Here' = {k}
    <3>1. \A j \in Ids \ {l} : ctx'[j] = ctx[j]
      BY <2>5 DEF RemoveUe, IInv, TypeOK
    <3> QED
      BY <2>1, <2>7, <3>1 DEF Here
  <2>9. Radio(k, down, up)'
    <3>1. dl' = [dl EXCEPT ![l] = <<>>] /\ ul' = [ul EXCEPT ![l] = <<>>]
      BY <2>5 DEF RemoveUe
    <3> QED
      BY <1>2, <2>1, <3>1, Flushed DEF Radio
  <2>10. enbApp'[EnbCell(k)] = enbApp[EnbCell(k)]
    BY <2>1, <2>5 DEF RemoveUe, IInv, TypeOK
  <2>11. AtHome(k)'
    BY <1>2, <2>5, <2>7, <2>10 DEF AtHome, Bearing, UeIn, Served, Route, S1
  <2> QED
    BY <2>5, <2>6, <2>7, <2>8, <2>9, <2>11
<1>3. ASSUME NEW k \in Ids, NEW l \in Ids, AtHome(k), Linked(k), LeftBehind(k, l),
             x2 = <<Release(l, k)>>
      PROVE  Base' /\ WithBearers'
  <2>1. x2[i] = Release(l, k) /\ Tail(x2) = <<>>
    BY <1>1, <1>3, Tuples
  <2>2. PICK down, up : /\ Radio(k, down, up)
                        /\ \/ ctx[k].st = "CONNECTED_NORMALLY" /\ down = <<>> /\ up = <<>>
                           \/ /\ ctx[k].st = "CONNECTION_RECONFIGURATION"
                              /\ \/ down = <<Rrc("RECONF")>> /\ up = <<>>
                                 \/ down = <<>> /\ up = <<"RECONF_COMPLETE">>
    BY <1>3 DEF Linked
  <2>3. /\ Base' /\ x2' = <<>> /\ Here' = {k} /\ ctx'[k] = ctx[k]
        /\ AtHome(k)' /\ Radio(k, down, up)'
    BY <1>2, <1>3, <2>1, <2>2
  <2>4. Linked(k)'
    BY <2>2, <2>3 DEF Linked, Rrc
  <2>5. Resting(k, k)'
    BY <2>3, <2>4 DEF Resting, Behind
  <2> QED
    BY <2>3, <2>5 DEF WithBearers
<1>4. ASSUME NEW k \in Ids, NEW l \in Ids, NEW t \in Cells, Preparing(k, t), LeftBehind(k, l),
             x2 = <<Release(l, k), Request(k, t)>>
      PROVE  Base' /\ WithBearers'
  <2>1. x2[i] = Release(l, k) /\ Tail(x2) = <<Request(k, t)>>
    BY <1>1, <1>4, Tuples
  <2>2. /\ Base' /\ x2' = <<Request(k, t)>> /\ Here' = {k} /\ ctx'[k] = ctx[k]
        /\ AtHome(k)' /\ Radio(k, <<>>, <<>>)'
    BY <1>2, <1>4, <2>1 DEF Preparing
  <2>3. Preparing(k, t)'
    BY <1>4, <2>2 DEF Preparing
  <2>4. Behind(k, k, <<>>)'
    BY <2>2 DEF Behind
  <2>5. x2' = Append(<<>>, Request(k, t))
    BY <2>2, Tuples
  <2> QED
    BY <2>2, <2>3, <2>4, <2>5, RequestedNext
<1> QED
  BY <1>1, <1>3, <1>4, X2HeadPhase DEF RecvUeContextRelease

\* The bearers are numbered from one, so the target numbers them alike.
LEMMA BearersNumbered == Bearers = 1..Cardinality(Bearers) /\ Bearers # {} /\ 1 \in Bearers
<1>1. NBearers \in Nat /\ NBearers >= 1
  BY BoundsAssumption
<1>2. Cardinality(1..NBearers) = NBearers
  <2>1. 1 \in Int /\ NBearers \in Int
    BY <1>1
  <2>2. Cardinality(1..NBearers) = IF 1 > NBearers THEN 0 ELSE NBearers - 1 + 1
    BY <2>1, FS_Interval
  <2> QED
    BY <1>1, <2>2
<1>3. 1 \in 1..NBearers
  BY <1>1
<1> QED
  BY <1>2, <1>3 DEF Bearers

\* What may come of a request with bearers, when the tunnel is not known yet.
LEMMA HandoverRequestOutcome ==
  ASSUME NEW i \in DOMAIN x2, RecvHandoverRequest(i),
         x2[i].drbs = 1..Cardinality(x2[i].drbs), x2[i].drbs # {},
         x2u[x2[i].to][x2[i].teid] = 0
  PROVE  LET m   == x2[i]
             b   == m.to
             n   == NextRnti(b)
             new == [NewContext("handoverJoining") EXCEPT
                       !.source = m.from, !.sourceRnti = m.old, !.drbs = m.drbs,
                       !.teid = m.teid, !.pend = m.drbs # {}]
         IN  \/ /\ x2' = X2Answered(i, X2("HO_FAILURE", m.to, m.from, m.old, 0, {}, 0))
                /\ UNCHANGED <<ue, ctx, lastRnti, removals, dl, ul, x2u, s1up,
                               s1down, enbApp, epc, asked, fault>>
             \/ /\ RemoveUe(<<b, n>>, NewContext("handoverJoining"))
                /\ x2' = X2Taken(i)
                /\ UNCHANGED <<ue, removals, s1up, s1down, epc, asked, fault>>
             \/ /\ ctx' = [ctx EXCEPT ![<<b, n>>] = new]
                /\ x2u' = [x2u EXCEPT ![b][m.teid] = n]
                /\ x2' = X2Answered(i, X2("HO_ACK", m.to, m.from, m.old, n, m.drbs, m.teid))
                /\ UNCHANGED <<ue, removals, dl, ul, s1up, s1down, enbApp, epc,
                               asked, fault>>
<1> DEFINE m == x2[i]
           b == m.to
           n == NextRnti(b)
           k == <<b, n>>
           some == m.drbs # {}
           new == [NewContext("handoverJoining") EXCEPT
                     !.source = m.from, !.sourceRnti = m.old, !.drbs = m.drbs,
                     !.teid = m.teid, !.pend = some]
           conflict == some /\ x2u[b][m.teid] # 0
           Rejected ==
             /\ x2' = X2Answered(i, X2("HO_FAILURE", m.to, m.from, m.old, 0, {}, 0))
             /\ UNCHANGED <<ue, ctx, lastRnti, removals, dl, ul, x2u, s1up,
                            s1down, enbApp, epc, asked, fault>>
           Dropped ==
             /\ RemoveUe(k, NewContext("handoverJoining"))
             /\ lastRnti' = [lastRnti EXCEPT ![b] = n]
             /\ x2' = X2Taken(i)
             /\ UNCHANGED <<ue, removals, s1up, s1down, epc, asked, fault>>
           Accepted ==
             /\ ctx' = [ctx EXCEPT ![k] = new]
             /\ lastRnti' = [lastRnti EXCEPT ![b] = n]
             /\ x2u' = IF m.drbs = {} THEN x2u ELSE [x2u EXCEPT ![b][m.teid] = n]
             /\ x2' = X2Answered(i, X2("HO_ACK", m.to, m.from, m.old, n, m.drbs, m.teid))
             /\ UNCHANGED <<ue, removals, dl, ul, s1up, s1down, enbApp, epc,
                            asked, fault>>
<1>1. PICK admit \in Admission, preamble \in Preambles :
        CASE ~admit -> Rejected
          [] admit /\ ~preamble -> Dropped
          [] admit /\ preamble ->
               IF m.drbs # 1..Cardinality(m.drbs)
               THEN Abort("bearer ID mismatch")
               ELSE IF conflict
               THEN Abort("overwriting a pre-existing entry in m_x2uTeidInfoMap")
               ELSE Accepted
  BY DEF RecvHandoverRequest
<1>2. m.drbs = 1..Cardinality(m.drbs) /\ ~conflict
  OBVIOUS
<1>3. Accepted =>
        /\ ctx' = [ctx EXCEPT ![k] = new]
        /\ x2u' = [x2u EXCEPT ![b][m.teid] = n]
        /\ x2' = X2Answered(i, X2("HO_ACK", m.to, m.from, m.old, n, m.drbs, m.teid))
        /\ UNCHANGED <<ue, removals, dl, ul, s1up, s1down, enbApp, epc, asked, fault>>
  OBVIOUS
<1>4. Rejected \/ Dropped \/ Accepted
  <2> HIDE DEF Rejected, Dropped, Accepted, conflict, m
  <2>1. admit \in BOOLEAN /\ preamble \in BOOLEAN
    BY ChoicesAssumption
  <2> QED
    BY <1>1, <1>2, <2>1
<1> QED
  BY <1>3, <1>4

\* The target makes room, or not.
LEMMA RecvHandoverRequestPhase ==
  ASSUME WellBehaved, IInv, Base, WithBearers, NEW i \in DOMAIN x2, X2Next(i),
         RecvHandoverRequest(i)
  PROVE  Base' /\ WithBearers'
<1>1. /\ x2 # <<>> /\ x2[i] = Head(x2) /\ X2Taken(i) = Tail(x2)
      /\ \A m : X2Answered(i, m) = Append(Tail(x2), m)
  BY HeadNext DEF IInv, TypeOK
<1>2. PICK k \in Ids, t \in Cells : /\ Preparing(k, t) /\ Here = {k}
                                    /\ x2 = <<Request(k, t)>>
  BY <1>1, X2HeadPhase DEF RecvHandoverRequest
<1>3. /\ AtHome(k) /\ t # EnbCell(k) /\ Bearing(k, "HANDOVER_PREPARATION") /\ Radio(k, <<>>, <<>>)
      /\ ctx[k].target = t /\ EnbCell(k) \in Cells /\ Rnti(k) \in Rntis
  BY <1>2, IdParts DEF Preparing, AtHome, Bearing
<1>4. /\ x2[i].from = EnbCell(k) /\ x2[i].to = t /\ x2[i].old = Rnti(k)
      /\ x2[i].drbs = Bearers /\ x2[i].teid = 1 /\ Tail(x2) = <<>>
  BY <1>1, <1>2, Tuples DEF Request, X2
<1>5. PICK n : n = NextRnti(t)
  OBVIOUS
<1>6. PICK j : j = <<t, n>>
  OBVIOUS
<1>7. /\ n \in Rntis /\ j \in Ids /\ EnbCell(j) = t /\ Rnti(j) = n /\ j # k
      /\ ~Exists(j) /\ j \notin Here
  <2>1. CanAddUe(t) /\ lastRnti[t] \in 0..MaxRnti
    BY <1>4 DEF RecvHandoverRequest, IInv, TypeOK
  <2>2. n \in Rntis /\ n > lastRnti[t] /\ lastRnti[t] \in Nat /\ n \in Nat
    BY <1>5, <2>1, BoundsAssumption DEF CanAddUe, NextRnti, Rntis
  <2>3. j \in Ids /\ EnbCell(j) = t /\ Rnti(j) = n /\ j # k
    BY <1>3, <1>6, <2>2, IdParts
  <2>4. ~Exists(j)
    BY <2>2, <2>3 DEF IInv, Fresh
  <2> QED
    BY <2>2, <2>3, <2>4 DEF Exists, Here
<1>8. x2u[t][1] = 0 /\ enbApp[t].teid[n] = 0 /\ 1 \in Teids
  <2>1. 1 \in Teids
    BY BoundsAssumption DEF Teids
  <2>2. ASSUME x2u[t][1] # 0 PROVE FALSE
    <3>1. PICK r : r = x2u[t][1]
      OBVIOUS
    <3>2. <<t, r>> \in Here
      BY <2>1, <2>2, <3>1 DEF Base, TrueX2u, Owns
    <3> QED
      BY <1>2, <1>3, <3>2 DEF EnbCell
  <2>3. enbApp[t].teid[n] # 0 => FALSE
    BY <1>6, <1>7 DEF Base, TrueTeid, Owns
  <2> QED
    BY <2>1, <2>2, <2>3
<1>9. Bearers = 1..Cardinality(Bearers) /\ Bearers # {}
  BY BearersNumbered
<1>10. PICK new : new = [NewContext("handoverJoining") EXCEPT
                           !.source = EnbCell(k), !.sourceRnti = Rnti(k), !.drbs = Bearers,
                           !.teid = 1, !.pend = Bearers # {}]
  OBVIOUS
<1>11. \/ /\ x2' = <<Refusal(k, t)>>
          /\ UNCHANGED <<ue, ctx, dl, ul, x2u, s1up, s1down, enbApp, epc, fault>>
       \/ /\ RemoveUe(j, NewContext("handoverJoining")) /\ x2' = <<>>
          /\ UNCHANGED <<ue, s1up, s1down, epc, fault>>
       \/ /\ ctx' = [ctx EXCEPT ![j] = new]
          /\ x2u' = [x2u EXCEPT ![t][1] = n] /\ x2' = <<Grant(k, j)>>
          /\ UNCHANGED <<ue, dl, ul, s1up, s1down, enbApp, epc, fault>>
  <2>1. x2[i].drbs = Bearers /\ x2[i].drbs = 1..Cardinality(x2[i].drbs) /\ x2[i].drbs # {}
    BY <1>4, <1>9
  <2>2. Append(<<>>, X2("HO_FAILURE", t, EnbCell(k), Rnti(k), 0, {}, 0)) = <<Refusal(k, t)>>
    BY Tuples DEF Refusal
  <2>3. Append(<<>>, X2("HO_ACK", t, EnbCell(k), Rnti(k), n, Bearers, 1)) = <<Grant(k, j)>>
    BY <1>7, Tuples DEF Grant
  <2>4. x2u[x2[i].to][x2[i].teid] = 0
    BY <1>4, <1>8
  <2>5. [NewContext("handoverJoining") EXCEPT
           !.source = x2[i].from, !.sourceRnti = x2[i].old, !.drbs = x2[i].drbs,
           !.teid = x2[i].teid, !.pend = x2[i].drbs # {}] = new
    BY <1>4, <1>10
  <2>6. NextRnti(x2[i].to) = n /\ <<x2[i].to, NextRnti(x2[i].to)>> = j
    BY <1>4, <1>5, <1>6
  <2>7. \/ /\ x2' = X2Answered(i, X2("HO_FAILURE", x2[i].to, x2[i].from, x2[i].old, 0, {}, 0))
           /\ UNCHANGED <<ue, ctx, lastRnti, removals, dl, ul, x2u, s1up, s1down, enbApp,
                          epc, asked, fault>>
        \/ /\ RemoveUe(j, NewContext("handoverJoining")) /\ x2' = X2Taken(i)
           /\ UNCHANGED <<ue, removals, s1up, s1down, epc, asked, fault>>
        \/ /\ ctx' = [ctx EXCEPT ![j] = new]
           /\ x2u' = [x2u EXCEPT ![x2[i].to][x2[i].teid] = n]
           /\ x2' = X2Answered(i, X2("HO_ACK", x2[i].to, x2[i].from, x2[i].old, n,
                                     x2[i].drbs, x2[i].teid))
           /\ UNCHANGED <<ue, removals, dl, ul, s1up, s1down, enbApp, epc, asked, fault>>
    BY <2>1, <2>4, <2>5, <2>6, HandoverRequestOutcome
  <2> QED
    BY <1>1, <1>4, <2>2, <2>3, <2>7
<1>12. CASE /\ x2' = <<Refusal(k, t)>>
            /\ UNCHANGED <<ue, ctx, dl, ul, x2u, s1up, s1down, enbApp, epc, fault>>
  <2>1. Here' = Here
    BY <1>12 DEF Here
  <2>2. Base'
    BY <1>12, <2>1, BaseKeeps
  <2>3. Preparing(k, t)'
    BY <1>2, <1>12 DEF Preparing, AtHome, Bearing, UeIn, Served, Route, S1, Radio
  <2>4. Refused(k, t)'
    BY <1>2, <1>12, <2>1, <2>3 DEF Refused, Refusal
  <2> QED
    BY <2>2, <2>4 DEF WithBearers
<1>13. CASE /\ RemoveUe(j, NewContext("handoverJoining")) /\ x2' = <<>>
            /\ UNCHANGED <<ue, s1up, s1down, epc, fault>>
  <2>1. /\ NewContext("handoverJoining") \in Context
        /\ NewContext("handoverJoining").drbs = {}
    BY NewContextType DEF Timers, NewContext, Blank
  <2>2. /\ ctx' = [ctx EXCEPT ![j] = Erased(NewContext("handoverJoining"))]
        /\ dl' = [dl EXCEPT ![j] = <<>>] /\ ul' = [ul EXCEPT ![j] = <<>>] /\ x2u' = x2u
        /\ enbApp' = [enbApp EXCEPT ![t] = UeContextReleased(enbApp[t], n)]
    BY <1>7, <1>13, <2>1 DEF RemoveUe
  <2>3. ctx'[j].st = "NONE" /\ \A i2 \in Ids : i2 # j => ctx'[i2] = ctx[i2]
    BY <1>7, <2>1, <2>2, ErasedType DEF IInv, TypeOK
  <2>4. Here' = Here
    BY <1>7, <2>3 DEF Here
  <2>5. enbApp' = enbApp
    BY <1>8, <2>2 DEF UeContextReleased, IInv, TypeOK
  <2>6. Radio(k, <<>>, <<>>)'
    BY <1>3, <1>7, <2>2, Flushed DEF Radio
  <2>7. Base'
    BY <1>7, <1>13, <2>2, <2>3, <2>4, <2>5, BaseKeeps
  <2>8. ctx'[k] = ctx[k]
    BY <1>7, <2>3
  <2>9. Preparing(k, t)'
    BY <1>2, <1>13, <2>5, <2>6, <2>8 DEF Preparing, AtHome, Bearing, UeIn, Served, Route, S1
  <2>10. Forgotten(k, t)'
    BY <1>2, <1>13, <2>4, <2>9 DEF Forgotten
  <2> QED
    BY <2>7, <2>10 DEF WithBearers
<1>14. CASE /\ ctx' = [ctx EXCEPT ![j] = new]
            /\ x2u' = [x2u EXCEPT ![t][1] = n] /\ x2' = <<Grant(k, j)>>
            /\ UNCHANGED <<ue, dl, ul, s1up, s1down, enbApp, epc, fault>>
  <2>1. /\ new.st = "HANDOVER_JOINING" /\ new.drbs = Bearers /\ new.teid = 1
        /\ new.queued = 0 /\ new.source = EnbCell(k) /\ new.sourceRnti = Rnti(k)
    BY <1>10 DEF NewContext, Blank, TimerState
  <2>2. /\ ctx'[j] = new /\ \A i2 \in Ids : i2 # j => ctx'[i2] = ctx[i2]
        /\ ctx'[k] = ctx[k]
    BY <1>7, <1>14 DEF IInv, TypeOK
  <2>3. Here' = {k, j}
    BY <1>2, <1>7, <2>1, <2>2 DEF Here
  <2>4. /\ x2u'[t][1] = n
        /\ \A c \in Cells, g \in Teids : c # t \/ g # 1 => x2u'[c][g] = x2u[c][g]
    BY <1>7, <1>8, <1>14 DEF IInv, TypeOK
  <2>5. TrueX2u'
    <3> SUFFICES ASSUME NEW c \in Cells, NEW g \in Teids, x2u'[c][g] # 0
                 PROVE  Owns(c, x2u[c][g], g)'
      BY DEF TrueX2u
    <3>1. CASE c = t /\ g = 1
      BY <1>6, <1>7, <2>1, <2>2, <2>3, <2>4, <3>1 DEF Owns
    <3>2. CASE c # t \/ g # 1
      BY <1>2, <2>2, <2>3, <2>4, <3>2 DEF Owns, Base, TrueX2u
    <3> QED
      BY <3>1, <3>2
  <2>6. TrueFlow' /\ TrueTeid'
    <3>1. \A i2 \in Here : i2 \in Here' /\ ctx'[i2] = ctx[i2]
      BY <1>2, <2>2, <2>3
    <3> QED
      BY <1>14, <3>1 DEF Base, TrueFlow, TrueTeid, Owns
  <2>7. Base'
    BY <1>14, <2>5, <2>6 DEF Base, NoAbort
  <2>8. Preparing(k, t)'
    BY <1>2, <1>14, <2>2 DEF Preparing, AtHome, Bearing, UeIn, Served, Route, S1, Radio
  <2>9. Target(k, j, "HANDOVER_JOINING")'
    BY <1>3, <1>7, <2>1, <2>2, <2>3, <2>4, NotZero DEF Target, Bearing
  <2>10. Granted(k, j)'
    BY <1>7, <1>14, <2>8, <2>9 DEF Granted, Grant
  <2> QED
    BY <1>7, <2>7, <2>10 DEF WithBearers
<1> QED
  BY <1>11, <1>12, <1>13, <1>14

-----------------------------------------------------------------------------
(* Every step of a UE with bearers.                                        *)

\* Nothing is lost, nothing times out, and no bearer is released.
LEMMA NoFaults ==
  ASSUME WellBehaved
  PROVE  /\ ~UeConnectionTimeout /\ ~UeRandomAccessFailed
         /\ \A k \in Ids : ~TimerStep(k) /\ ~Srb0MessageLost(k) /\ ~ReleaseDataRadioBearer(k)
BY DEF WellBehaved, UeConnectionTimeout, UeRandomAccessFailed, TimerStep, ContextTimeout,
       HandoverJoiningTimeout, ScheduledRemoval, Srb0MessageLost, ReleaseDataRadioBearer

\* A UE that is connected, or connecting, hears what it knows already.
LEMMA UeIdlePhase ==
  ASSUME IInv, UeConnect \/ UeRecvSystemInformation,
         ue.state \notin {"IDLE_CAMPED_NORMALLY", "IDLE_WAIT_SIB2"}
  PROVE  (Base => Base') /\ (BeforeBearers => BeforeBearers') /\ (WithBearers => WithBearers')
<1>1. ue'.state = ue.state /\ ue'.cell = ue.cell /\ ue'.rnti = ue.rnti
  BY DEF UeConnect, UeRecvSystemInformation, IInv, TypeOK, Ue
<1>2. UeUnchanged /\ UNCHANGED <<dl, ul>>
  BY DEF UeConnect, UeRecvSystemInformation
<1>3. \A i \in Ids : Alike(i)
  BY <1>2 DEF Alike, UeUnchanged
<1> QED
  BY <1>1, <1>2, <1>3, FrameKeeps DEF UeUnchanged

\* The messages of connection establishment are over.
LEMMA NoEstablishment ==
  ASSUME IInv, WithBearers
  PROVE  /\ ~RandomAccess /\ ~UeRecvConnectionSetup /\ ~UeRecvConnectionReject
         /\ \A k \in Ids : ~RecvRrcConnectionRequest(k) /\ ~RecvRrcConnectionSetupCompleted(k)
         /\ \A c \in Cells : ~MmeRecvInitialUe(c) /\ ~MmeRecvErabRelease(c) /\ ~RecvContextSetup(c)
<1>1. ASSUME NEW t, Heard(t) PROVE t \in {"RECONF", "HO_COMMAND"}
  <2>1. Served \in Ids /\ dl[Served] # <<>> /\ Head(dl[Served]).type = t
    BY <1>1, ServedType DEF Heard, Pending
  <2>2. ASSUME NEW j \in Ids, Commanded(Served, j) PROVE t = "HO_COMMAND"
    <3>1. dl[Served] = <<HoCommand(EnbCell(j), Rnti(j))>>
      BY <2>1, <2>2, RadioAt DEF Commanded
    <3> QED
      BY <2>1, <3>1 DEF HoCommand
  <2>3. ASSUME Radio(Served, <<Rrc("RECONF")>>, <<>>) PROVE t = "RECONF"
    <3>1. dl[Served] = <<Rrc("RECONF")>>
      BY <2>1, <2>3, RadioAt
    <3> QED
      BY <2>1, <3>1 DEF Rrc
  <2> QED
    BY <2>1, <2>2, <2>3, DownlinkPhase
<1>2. ASSUME NEW k \in Ids, NEW t, Arrived(k, t) PROVE t = "RECONF_COMPLETE"
  <2>1. ul[k] # <<>> /\ Head(ul[k]) = t
    BY <1>2 DEF Arrived
  <2>2. ul[k] = <<"RECONF_COMPLETE">>
    BY <2>1, UplinkPhase, RadioAt DEF Arriving
  <2> QED
    BY <2>1, <2>2
<1>3. ASSUME NEW c \in Cells, NEW t, Pending(s1up, c, t) PROVE t = "PATH_SWITCH"
  <2>1. s1up[c] # <<>> /\ Head(s1up[c]).type = t
    BY <1>3 DEF Pending
  <2>2. s1up[c] = <<S1UpMsg("PATH_SWITCH", 0)>>
    BY <2>1, S1Phase, S1At DEF Switching
  <2> QED
    BY <2>1, <2>2 DEF S1UpMsg
<1>4. ASSUME NEW c \in Cells, NEW t, Pending(s1down, c, t) PROVE t = "PATH_SWITCH_ACK"
  <2>1. s1down[c] # <<>> /\ Head(s1down[c]).type = t
    BY <1>4 DEF Pending
  <2>2. s1down[c] = <<S1DownMsg("PATH_SWITCH_ACK", {}, 0)>>
    BY <2>1, S1Phase, S1At DEF Switched
  <2> QED
    BY <2>1, <2>2 DEF S1DownMsg
<1>5. ~RandomAccess
  BY ServedPhase DEF RandomAccess
<1>6. ~Heard("SETUP") /\ ~Heard("REJECT")
  BY <1>1
<1>7. \A k \in Ids : ~Arrived(k, "REQUEST") /\ ~Arrived(k, "SETUP_COMPLETE")
  BY <1>2
<1>8. \A c \in Cells : ~Pending(s1up, c, "INITIAL_UE") /\ ~Pending(s1up, c, "ERAB_RELEASE")
  BY <1>3
<1>9. \A c \in Cells : ~Pending(s1down, c, "CTX_SETUP")
  BY <1>4
<1>10. ~UeRecvConnectionSetup /\ ~UeRecvConnectionReject
  BY <1>6 DEF UeRecvConnectionSetup, UeRecvConnectionReject
<1>11. \A k \in Ids : ~RecvRrcConnectionRequest(k) /\ ~RecvRrcConnectionSetupCompleted(k)
  BY <1>7 DEF RecvRrcConnectionRequest, RecvRrcConnectionSetupCompleted
<1>12. \A c \in Cells : ~MmeRecvInitialUe(c) /\ ~MmeRecvErabRelease(c)
  BY <1>8 DEF MmeRecvInitialUe, MmeRecvErabRelease
<1>13. \A c \in Cells : ~RecvContextSetup(c)
  BY <1>9 DEF RecvContextSetup
<1> QED
  BY <1>5, <1>10, <1>11, <1>12, <1>13

\* A UE that has its bearers stays in the phases with bearers.
LEMMA WithBearersNext ==
  ASSUME WellBehaved, IInv, Base, WithBearers, [Next]_vars
  PROVE  Base' /\ WithBearers'
<1>1. CASE UNCHANGED vars
  <2>1. \A i \in Ids : Alike(i)
    BY <1>1 DEF vars, Alike
  <2> QED
    BY <1>1, <2>1, FrameKeeps DEF vars
<1>2. CASE UeStep
  BY <1>2, NoEstablishment, ServedPhase, UeIdlePhase, UeHandoverAccessPhase,
     UeRecvReconfigurationPhase, UeRecvHandoverCommandPhase DEF UeStep
<1>3. ASSUME NEW k \in Ids, RrcStep(k) PROVE Base' /\ WithBearers'
  BY <1>3, NoEstablishment, ReconfCompletedPhase DEF RrcStep
<1>4. ASSUME NEW i \in DOMAIN x2, X2Step(i) PROVE Base' /\ WithBearers'
  BY <1>4, RecvHandoverRequestPhase, RecvHandoverRequestAckPhase,
     RecvHandoverPreparationFailurePhase, RecvSnStatusTransferPhase,
     RecvUeContextReleasePhase DEF X2Step
<1>5. ASSUME NEW c \in Cells, S1Step(c) PROVE Base' /\ WithBearers'
  BY <1>5, NoEstablishment, MmeRecvPathSwitchPhase, RecvPathSwitchAckPhase DEF S1Step
<1>6. CASE Environment
  BY <1>6, NoFaults, SendHandoverRequestPhase, ScheduleReconfigurationPhase DEF Environment
<1> QED
  BY <1>1, <1>2, <1>3, <1>4, <1>5, <1>6, NoFaults DEF Next

-----------------------------------------------------------------------------
(* What a message says of the phase before.                                *)

\* A context without bearers, or with bearers that wait for the setup.
LEMMA EarlyHere ==
  ASSUME NEW k \in Ids, Contacting(k) \/ Unrouted(k) \/ RoutedEarly(k)
  PROVE  Here = {k} /\ k \in Here
BY DEF Contacting, Unrouted, RoutedEarly, Bare

\* The messages on the radio link of a UE that sets up its connection.
LEMMA EarlyDownlink ==
  ASSUME BeforeBearers, NEW i \in Ids, dl[i] # <<>>
  PROVE  \/ TurnedDown(i) /\ dl[i] = <<Rrc("REJECT")>>
         \/ /\ Unrouted(i) \/ RoutedEarly(i)
            /\ ctx[i].st = "CONNECTION_SETUP" /\ UeIn("IDLE_CONNECTING", i)
            /\ Radio(i, <<Rrc("SETUP")>>, <<>>) /\ dl[i] = <<Rrc("SETUP")>>
         \/ /\ Unrouted(i) /\ UeIn("CONNECTED_NORMALLY", i)
            /\ ctx[i].st = "CONNECTION_RECONFIGURATION"
            /\ Radio(i, <<Rrc("RECONF")>>, <<>>) /\ dl[i] = <<Rrc("RECONF")>>
<1>1. CASE Unconnected
  BY <1>1 DEF Unconnected, Radio, OnlyAt
<1>2. ASSUME NEW k \in Ids, Contacting(k) PROVE FALSE
  BY <1>2, RadioAt DEF Contacting
<1>3. ASSUME NEW k \in Ids, TurnedDown(k) PROVE TurnedDown(i) /\ dl[i] = <<Rrc("REJECT")>>
  BY <1>3, RadioAt DEF TurnedDown
<1>4. ASSUME NEW k \in Ids, SettingUp(k)
      PROVE  /\ i = k /\ ctx[i].st = "CONNECTION_SETUP" /\ UeIn("IDLE_CONNECTING", i)
             /\ Radio(i, <<Rrc("SETUP")>>, <<>>) /\ dl[i] = <<Rrc("SETUP")>>
  BY <1>4, RadioAt DEF SettingUp
<1>5. ASSUME NEW k \in Ids, SetUp(k)
      PROVE  /\ i = k /\ UeIn("CONNECTED_NORMALLY", i)
             /\ ctx[i].st = "CONNECTION_RECONFIGURATION"
             /\ Radio(i, <<Rrc("RECONF")>>, <<>>) /\ dl[i] = <<Rrc("RECONF")>>
  BY <1>5, RadioAt DEF SetUp, Linked
<1>6. ASSUME NEW k \in Ids, Unrouted(k) PROVE SettingUp(k) \/ SetUp(k)
  BY <1>6 DEF Unrouted
<1>7. ASSUME NEW k \in Ids, RoutedEarly(k) PROVE SettingUp(k)
  BY <1>7 DEF RoutedEarly
<1> QED
  BY <1>1, <1>2, <1>3, <1>4, <1>5, <1>6, <1>7 DEF BeforeBearers

\* The messages that it sends.
LEMMA EarlyUplink ==
  ASSUME BeforeBearers, NEW i \in Ids, ul[i] # <<>>
  PROVE  \/ Contacting(i) /\ ul[i] = <<"REQUEST">>
         \/ /\ Unrouted(i) \/ RoutedEarly(i)
            /\ ctx[i].st = "CONNECTION_SETUP" /\ UeIn("CONNECTED_NORMALLY", i)
            /\ Radio(i, <<>>, <<"SETUP_COMPLETE">>) /\ ul[i] = <<"SETUP_COMPLETE">>
         \/ /\ Unrouted(i) /\ UeIn("CONNECTED_NORMALLY", i)
            /\ ctx[i].st = "CONNECTION_RECONFIGURATION"
            /\ Radio(i, <<>>, <<"RECONF_COMPLETE">>) /\ ul[i] = <<"RECONF_COMPLETE">>
<1>1. CASE Unconnected
  BY <1>1 DEF Unconnected, Radio, OnlyAt
<1>2. ASSUME NEW k \in Ids, Contacting(k) PROVE Contacting(i) /\ ul[i] = <<"REQUEST">>
  BY <1>2, RadioAt DEF Contacting
<1>3. ASSUME NEW k \in Ids, TurnedDown(k) PROVE FALSE
  BY <1>3, RadioAt DEF TurnedDown
<1>4. ASSUME NEW k \in Ids, SettingUp(k)
      PROVE  /\ i = k /\ ctx[i].st = "CONNECTION_SETUP" /\ UeIn("CONNECTED_NORMALLY", i)
             /\ Radio(i, <<>>, <<"SETUP_COMPLETE">>) /\ ul[i] = <<"SETUP_COMPLETE">>
  BY <1>4, RadioAt DEF SettingUp
<1>5. ASSUME NEW k \in Ids, SetUp(k)
      PROVE  /\ i = k /\ UeIn("CONNECTED_NORMALLY", i)
             /\ ctx[i].st = "CONNECTION_RECONFIGURATION"
             /\ Radio(i, <<>>, <<"RECONF_COMPLETE">>) /\ ul[i] = <<"RECONF_COMPLETE">>
  BY <1>5, RadioAt DEF SetUp, Linked
<1>6. ASSUME NEW k \in Ids, Unrouted(k) PROVE SettingUp(k) \/ SetUp(k)
  BY <1>6 DEF Unrouted
<1>7. ASSUME NEW k \in Ids, RoutedEarly(k) PROVE SettingUp(k)
  BY <1>7 DEF RoutedEarly
<1> QED
  BY <1>1, <1>2, <1>3, <1>4, <1>5, <1>6, <1>7 DEF BeforeBearers

\* The messages between its eNB and the core.
LEMMA EarlyS1 ==
  ASSUME BeforeBearers, NEW c \in Cells
  PROVE  /\ s1up[c] # <<>> => \E k \in Ids : /\ Unrouted(k) /\ EnbCell(k) = c /\ epc.teid = 0
                                             /\ S1(c, <<S1UpMsg("INITIAL_UE", 0)>>, <<>>)
                                             /\ s1up[c] = <<S1UpMsg("INITIAL_UE", 0)>>
         /\ s1down[c] # <<>>
              => \E k \in Ids : /\ Unrouted(k) /\ EnbCell(k) = c
                                /\ epc.teid = 1 /\ epc.sgw = c
                                /\ S1(c, <<>>, <<S1DownMsg("CTX_SETUP", Bearers, 1)>>)
                                /\ s1down[c] = <<S1DownMsg("CTX_SETUP", Bearers, 1)>>
<1>1. ASSUME NEW b, S1(b, <<>>, <<>>) PROVE s1up[c] = <<>> /\ s1down[c] = <<>>
  BY <1>1 DEF S1, OnlyAt
<1>2. ASSUME NEW k \in Ids, Unrouted(k), s1up[c] # <<>>
      PROVE  /\ Unrouted(k) /\ EnbCell(k) = c /\ epc.teid = 0
             /\ S1(c, <<S1UpMsg("INITIAL_UE", 0)>>, <<>>)
             /\ s1up[c] = <<S1UpMsg("INITIAL_UE", 0)>>
  BY <1>2, IdParts, S1At DEF Unrouted, BearersAsked
<1>3. ASSUME NEW k \in Ids, Unrouted(k), s1down[c] # <<>>
      PROVE  /\ Unrouted(k) /\ EnbCell(k) = c /\ epc.teid = 1 /\ epc.sgw = c
             /\ S1(c, <<>>, <<S1DownMsg("CTX_SETUP", Bearers, 1)>>)
             /\ s1down[c] = <<S1DownMsg("CTX_SETUP", Bearers, 1)>>
  BY <1>3, IdParts, S1At DEF Unrouted, BearersAsked
<1>4. Unconnected => \E b : S1(b, <<>>, <<>>)
  BY DEF Unconnected
<1>5. \A k \in Ids : Contacting(k) \/ TurnedDown(k) \/ RoutedEarly(k) => S1(EnbCell(k), <<>>, <<>>)
  BY DEF Contacting, TurnedDown, RoutedEarly
<1> QED
  BY <1>1, <1>2, <1>3, <1>4, <1>5 DEF BeforeBearers

\* Nothing passes between the eNBs.
LEMMA EarlyX2 == BeforeBearers => x2 = <<>>
BY DEF BeforeBearers, Unconnected, Contacting, TurnedDown, Unrouted, RoutedEarly

-----------------------------------------------------------------------------
(* The UE in the phases before.                                            *)

\* The UE camps, waits for SIB2 and begins random access.
LEMMA UeCampedPhase ==
  ASSUME IInv, Base, Unconnected, UeConnect \/ UeRecvSystemInformation
  PROVE  Base' /\ BeforeBearers'
<1>1. /\ ue'.state \in {"IDLE_CAMPED_NORMALLY", "IDLE_WAIT_SIB2", "IDLE_RANDOM_ACCESS"}
      /\ ue'.cell = ue.cell /\ ue'.rnti = ue.rnti
  BY ZenonT(40) DEF Unconnected, UeConnect, UeRecvSystemInformation, WaitingSib2, Starting, IInv,
                    TypeOK, Ue
<1>2. UeUnchanged /\ UNCHANGED <<dl, ul>>
  BY DEF UeConnect, UeRecvSystemInformation
<1>3. Unconnected'
  BY <1>1, <1>2 DEF UeUnchanged, Unconnected, Here, Radio, S1, Served
<1> QED
  BY <1>2, <1>3, UeBaseKeeps DEF BeforeBearers

\* Random access creates a context.
LEMMA RandomAccessPhase ==
  ASSUME WellBehaved, IInv, Base, Unconnected, RandomAccess
  PROVE  Base' /\ BeforeBearers'
<1>1. PICK k : k = <<ue.cell, NextRnti(ue.cell)>>
  OBVIOUS
<1>2. k \in Ids /\ ~Exists(k) /\ Here = {}
  BY <1>1, NewIsFree DEF RandomAccess, IInv, TypeOK, Ue, Unconnected
<1>3. PICK d : d = NewContext("connectionRequest")
  OBVIOUS
<1>4. /\ d.st = "INITIAL_RANDOM_ACCESS" /\ d.drbs = {} /\ d.teid = 0 /\ d.queued = 0
  BY <1>3 DEF NewContext, TimerState, Blank
<1>5. /\ ctx' = [ctx EXCEPT ![k] = d] /\ ue' = Connecting(ue, NextRnti(ue.cell))
      /\ ul' = Sent(ul, k, "REQUEST")
      /\ UNCHANGED <<dl, x2, x2u, s1up, s1down, enbApp, epc, fault>>
  <2>1. PICK lost \in {FALSE, Lossy} :
          IF lost THEN UNCHANGED <<ue, ul>>
          ELSE ue' = Connecting(ue, NextRnti(ue.cell)) /\ ul' = Sent(ul, k, "REQUEST")
    BY <1>1, Zenon DEF RandomAccess
  <2>2. ~lost
    BY <2>1, Zenon DEF WellBehaved
  <2>3. /\ ctx' = [ctx EXCEPT ![k] = d]
        /\ UNCHANGED <<dl, x2, x2u, s1up, s1down, enbApp, epc, fault>>
    BY <1>1, <1>3 DEF RandomAccess
  <2> QED
    BY <2>1, <2>2, <2>3
<1>6. ctx'[k] = d /\ \A i \in Ids : i # k => ctx'[i] = ctx[i]
  BY <1>2, <1>5 DEF IInv, TypeOK
<1>7. Here' = {k}
  BY <1>2, <1>4, <1>6 DEF Here
<1>8. ue'.state = "IDLE_CONNECTING" /\ ue'.cell = ue.cell /\ ue'.rnti = NextRnti(ue.cell)
  BY <1>5 DEF Connecting, IInv, TypeOK, Ue
<1>9. UeIn("IDLE_CONNECTING", k)'
  BY <1>1, <1>8 DEF UeIn, Served
<1>10. Radio(k, <<>>, <<"REQUEST">>)'
  <2>1. dl = OnlyAt(Ids, k, <<>>) /\ ul = OnlyAt(Ids, k, <<>>)
    BY DEF Unconnected, Radio, OnlyAt
  <2> QED
    BY <1>2, <1>5, <2>1, SentAt DEF Radio
<1>11. S1(EnbCell(k), <<>>, <<>>)'
  BY <1>1, <1>5 DEF Unconnected, S1, EnbCell
<1>12. Contacting(k)'
  BY <1>4, <1>5, <1>6, <1>7, <1>9, <1>10, <1>11 DEF Contacting, Bare, Unconnected
<1>13. Base'
  BY <1>2, <1>5, BaseKeeps
<1> QED
  BY <1>2, <1>12, <1>13 DEF BeforeBearers

\* A step of the UE in a connection that is being set up.
LEMMA EarlyUeStep ==
  ASSUME Base, NEW k \in Ids, Unrouted(k) \/ RoutedEarly(k), UeUnchanged,
         \/ SettingUp(k)'
         \/ Unrouted(k) /\ SetUp(k)'
  PROVE  Base' /\ BeforeBearers'
<1>1. Base' /\ (Bare(k) => Bare(k)') /\ Here' = Here
  BY UeBaseKeeps
<1>2. BearersAsked(k) => BearersAsked(k)'
  BY DEF UeUnchanged, BearersAsked, S1, S1UpMsg, S1DownMsg
<1>3. Unrouted(k) => Unrouted(k)'
  BY <1>1, <1>2 DEF UeUnchanged, Unrouted, App, RoutedEarly
<1>4. RoutedEarly(k) /\ SettingUp(k)' => RoutedEarly(k)'
  BY <1>1 DEF UeUnchanged, RoutedEarly, Bearing, Route, S1
<1> QED
  BY <1>1, <1>3, <1>4 DEF BeforeBearers

\* The UE hears of the setup and answers,
LEMMA UeRecvConnectionSetupPhase ==
  ASSUME IInv, Base, BeforeBearers, UeRecvConnectionSetup
  PROVE  Base' /\ BeforeBearers'
<1>1. PICK k \in Ids : k = Served
  BY ServedType DEF UeRecvConnectionSetup, Heard, Pending
<1>2. dl[k] # <<>> /\ Head(dl[k]).type = "SETUP"
  BY <1>1 DEF UeRecvConnectionSetup, Heard, Pending
<1>3. /\ Unrouted(k) \/ RoutedEarly(k)
      /\ ctx[k].st = "CONNECTION_SETUP" /\ UeIn("IDLE_CONNECTING", k)
      /\ Radio(k, <<Rrc("SETUP")>>, <<>>)
  BY <1>2, EarlyDownlink DEF Rrc
<1>4. /\ ue' = [ue EXCEPT !.state = "CONNECTED_NORMALLY", !.t300 = FALSE]
      /\ ul' = Uplink(ul, k, "SETUP_COMPLETE") /\ dl' = Taken(dl, k) /\ UeUnchanged
  BY <1>1, <1>3 DEF UeRecvConnectionSetup, UeIn
<1>5. UeIn("CONNECTED_NORMALLY", k)'
  BY <1>1, <1>4 DEF UeIn, Served, IInv, TypeOK, Ue
<1>6. Radio(k, <<>>, <<"SETUP_COMPLETE">>)'
  BY <1>3, <1>4, EarlyHere, UplinkOnly, SentAt DEF Radio
<1>7. SettingUp(k)'
  BY <1>3, <1>4, <1>5, <1>6 DEF SettingUp, UeUnchanged
<1> QED
  BY <1>3, <1>4, <1>7, EarlyUeStep

\* or of the rejection, and camps again;
LEMMA UeRecvConnectionRejectPhase ==
  ASSUME IInv, Base, BeforeBearers, UeRecvConnectionReject
  PROVE  Base' /\ BeforeBearers'
<1>1. PICK k \in Ids : k = Served
  BY ServedType DEF UeRecvConnectionReject, Heard, Pending
<1>2. dl[k] # <<>> /\ Head(dl[k]).type = "REJECT"
  BY <1>1 DEF UeRecvConnectionReject, Heard, Pending
<1>3. TurnedDown(k)
  BY <1>2, EarlyDownlink DEF Rrc
<1>4. PICK u : u = [ue EXCEPT !.t300 = FALSE, !.sib2 = FALSE]
  OBVIOUS
<1>5. u \in Ue /\ ~u.sib2 /\ u.cell = ue.cell /\ u.rnti = ue.rnti
  BY <1>4 DEF IInv, TypeOK, Ue
<1>6. ue' = Failed(u) /\ dl' = Taken(dl, k) /\ ul' = ul /\ UeUnchanged
  BY <1>1, <1>4 DEF UeRecvConnectionReject
<1>7. /\ ue'.state \in {"IDLE_CAMPED_NORMALLY", "IDLE_WAIT_SIB2"}
      /\ ue'.cell = ue.cell /\ ue'.rnti = ue.rnti
  BY <1>5, <1>6 DEF Failed, Camped, WaitingSib2, Ue
<1>8. Radio(Served, <<>>, <<>>)'
  <2>1. Served' = k
    BY <1>1, <1>7 DEF Served
  <2>2. dl' = OnlyAt(Ids, k, <<>>) /\ ul' = OnlyAt(Ids, k, <<>>)
    BY <1>3, <1>6, SentAt DEF TurnedDown, Radio
  <2> QED
    BY <2>1, <2>2 DEF Radio
<1>9. S1(ue.cell, <<>>, <<>>)'
  BY <1>1, <1>3, <1>6, <1>7 DEF TurnedDown, S1, Served, EnbCell, UeUnchanged
<1>10. Base' /\ Here' = {}
  BY <1>3, <1>6, UeBaseKeeps DEF TurnedDown
<1>11. Unconnected'
  BY <1>3, <1>6, <1>7, <1>8, <1>9, <1>10 DEF Unconnected, TurnedDown, UeUnchanged
<1> QED
  BY <1>10, <1>11 DEF BeforeBearers

\* it answers a reconfiguration that comes before the bearers.
LEMMA UeEarlyReconfigurationPhase ==
  ASSUME IInv, Base, BeforeBearers, UeRecvReconfiguration
  PROVE  Base' /\ BeforeBearers'
<1>1. PICK k \in Ids : k = Served
  BY ServedType DEF UeRecvReconfiguration, Heard, Pending
<1>2. dl[k] # <<>> /\ Head(dl[k]).type = "RECONF"
  BY <1>1 DEF UeRecvReconfiguration, Heard, Pending
<1>3. /\ Unrouted(k) /\ ctx[k].st = "CONNECTION_RECONFIGURATION"
      /\ UeIn("CONNECTED_NORMALLY", k) /\ Radio(k, <<Rrc("RECONF")>>, <<>>)
  BY <1>2, EarlyDownlink DEF Rrc
<1>4. /\ ul' = Uplink(ul, k, "RECONF_COMPLETE") /\ dl' = Taken(dl, k)
      /\ ue' = ue /\ UeUnchanged
  BY <1>1, <1>3 DEF UeRecvReconfiguration, UeIn
<1>5. Radio(k, <<>>, <<"RECONF_COMPLETE">>)'
  BY <1>3, <1>4, EarlyHere, UplinkOnly, SentAt DEF Radio
<1>6. SetUp(k)'
  BY <1>3, <1>4, <1>5 DEF SetUp, Linked, UeIn, Served, UeUnchanged
<1> QED
  BY <1>3, <1>4, <1>6, EarlyUeStep

-----------------------------------------------------------------------------
(* The eNBs and the core in the phases before.                             *)

\* The only context of the UE becomes connected, and perhaps reconfigures at once.
LEMMA LinkedAt ==
  ASSUME IInv, NEW k \in Here, NEW c \in Context, dl = OnlyAt(Ids, k, <<>>),
         ctx' = [ctx EXCEPT ![k] = Connected(c)], dl' = ConnectedDl(dl, k, c),
         ul' = OnlyAt(Ids, k, <<>>)
  PROVE  /\ Linked(k)' /\ ctx'[k] = Connected(c)
         /\ \A i \in Ids : i # k => ctx'[i] = ctx[i]
         /\ \E l \in Here : l = k /\ Here' = Here
<1>1. k \in Ids
  BY DEF Here
<1>2. ctx'[k] = Connected(c) /\ \A i \in Ids : i # k => ctx'[i] = ctx[i]
  BY <1>1 DEF IInv, TypeOK
<1>3. Here' = Here
  BY <1>1, <1>2, ConnectedFields DEF Here
<1>4. Linked(k)'
  <2>1. CASE c.pend
    <3>1. ctx'[k].st = "CONNECTION_RECONFIGURATION"
      BY <1>2, <2>1, ConnectedFields
    <3>2. dl' = OnlyAt(Ids, k, <<Rrc("RECONF")>>)
      BY <1>1, <2>1, SentAt DEF ConnectedDl
    <3> QED
      BY <3>1, <3>2 DEF Linked, Radio, Rrc
  <2>2. CASE ~c.pend
    <3>1. ctx'[k].st = "CONNECTED_NORMALLY" /\ dl' = dl
      BY <1>2, <2>2, ConnectedFields DEF ConnectedDl
    <3> QED
      BY <3>1 DEF Linked, Radio
  <2> QED
    BY <2>1, <2>2
<1> QED
  BY <1>2, <1>3, <1>4

\* The request is admitted or rejected.
LEMMA RecvConnectionRequestPhase ==
  ASSUME IInv, Base, BeforeBearers, NEW k \in Ids, RecvRrcConnectionRequest(k)
  PROVE  Base' /\ BeforeBearers'
<1>1. Contacting(k)
  <2>1. ul[k] # <<>> /\ Head(ul[k]) = "REQUEST"
    BY DEF RecvRrcConnectionRequest, Arrived
  <2> QED
    BY <2>1, EarlyUplink
<1>2. /\ Here = {k} /\ ctx[k].st = "INITIAL_RANDOM_ACCESS" /\ ctx[k].drbs = {}
      /\ ctx[k].teid = 0 /\ ctx[k].queued = 0 /\ UeIn("IDLE_CONNECTING", k)
      /\ Radio(k, <<>>, <<"REQUEST">>) /\ S1(EnbCell(k), <<>>, <<>>)
      /\ x2 = <<>> /\ epc.teid = 0 /\ ctx[k] \in Context
      /\ EnbCell(k) \in Cells /\ enbApp[EnbCell(k)] \in EnbApp
  BY <1>1, IdParts DEF Contacting, Bare, IInv, TypeOK
<1>3. PICK admit \in Admission :
        /\ ctx' = [ctx EXCEPT ![k] = Waits(Stopped(@, "connectionRequest"),
                     IF admit THEN "connectionSetup" ELSE "connectionRejected")]
        /\ dl' = Sent(dl, k, Rrc(IF admit THEN "SETUP" ELSE "REJECT"))
        /\ ul' = Taken(ul, k)
        /\ enbApp' = IF admit
                     THEN [enbApp EXCEPT ![EnbCell(k)] = InitialUeRegistered(@, Rnti(k))]
                     ELSE enbApp
        /\ s1up' = IF admit THEN Sent(s1up, EnbCell(k), S1UpMsg("INITIAL_UE", 0)) ELSE s1up
        /\ UNCHANGED <<ue, lastRnti, removals, x2, x2u, s1down, epc, asked, fault>>
  BY <1>2 DEF RecvRrcConnectionRequest
<1>4. UeIn("IDLE_CONNECTING", k)'
  BY <1>2, <1>3 DEF UeIn, Served
<1>5. CASE admit
  <2>1. PICK d : d = Waits(Stopped(ctx[k], "connectionRequest"), "connectionSetup")
    OBVIOUS
  <2>2. d.st = "CONNECTION_SETUP" /\ d.drbs = {} /\ d.teid = 0 /\ d.queued = 0
    BY <1>2, <2>1 DEF Waits, Stopped, TimerState, Context
  <2>3. ctx' = [ctx EXCEPT ![k] = d]
    BY <1>3, <1>5, <2>1
  <2>4. ctx'[k] = d /\ Here' = {k} /\ \A i \in Ids : i # k => ctx'[i] = ctx[i]
    BY <1>2, <2>2, <2>3, StepAt
  <2>5. PICK b : b = [enbApp[EnbCell(k)] EXCEPT !.rnti = Rnti(k)]
    OBVIOUS
  <2>6. /\ enbApp' = [enbApp EXCEPT ![EnbCell(k)] = b] /\ b.rnti = Rnti(k)
        /\ b.flow = enbApp[EnbCell(k)].flow /\ b.teid = enbApp[EnbCell(k)].teid
    BY <1>2, <1>3, <1>5, <2>5 DEF InitialUeRegistered, EnbApp
  <2>7. /\ enbApp'[EnbCell(k)].rnti = Rnti(k)
        /\ \A c \in Cells : /\ enbApp'[c].flow = enbApp[c].flow
                            /\ enbApp'[c].teid = enbApp[c].teid
    BY <1>2, <2>6 DEF IInv, TypeOK
  <2>8. Base'
    BY <1>2, <1>3, <2>2, <2>4, <2>7, BaseKeeps
  <2>9. Radio(k, <<Rrc("SETUP")>>, <<>>)'
    BY <1>2, <1>3, <1>5, SentAt DEF Radio, Rrc
  <2>10. S1(EnbCell(k), <<S1UpMsg("INITIAL_UE", 0)>>, <<>>)'
    BY <1>2, <1>3, <1>5, SentAt DEF S1, S1UpMsg
  <2>11. SettingUp(k)'
    BY <1>4, <2>2, <2>4, <2>9 DEF SettingUp, Rrc
  <2>12. Unrouted(k)'
    BY <1>2, <1>3, <2>2, <2>4, <2>7, <2>10, <2>11 DEF Unrouted, Bare, App, BearersAsked, S1UpMsg
  <2> QED
    BY <2>8, <2>12 DEF BeforeBearers
<1>6. CASE ~admit
  <2>1. PICK d : d = Waits(Stopped(ctx[k], "connectionRequest"), "connectionRejected")
    OBVIOUS
  <2>2. d.st = "CONNECTION_REJECTED"
    BY <1>2, <2>1 DEF Waits, Stopped, TimerState, Context
  <2>3. ctx'[k] = d /\ \A i \in Ids : i # k => ctx'[i] = ctx[i]
    BY <1>3, <1>6, <2>1 DEF IInv, TypeOK
  <2>4. Here' = {}
    BY <1>2, <2>2, <2>3 DEF Here
  <2>5. \A c, r, g : ~Owns(c, r, g)
    BY <1>2 DEF Owns
  <2>6. Base'
    <3>1. UNCHANGED <<enbApp, x2u, epc, fault>>
      BY <1>3, <1>6
    <3> QED
      BY <2>5, <3>1 DEF Base, NoAbort, TrueX2u, TrueFlow, TrueTeid
  <2>7. Radio(k, <<Rrc("REJECT")>>, <<>>)'
    BY <1>2, <1>3, <1>6, SentAt DEF Radio, Rrc
  <2>8. TurnedDown(k)'
    BY <1>2, <1>3, <1>4, <1>6, <2>4, <2>7 DEF TurnedDown, S1, Rrc
  <2> QED
    BY <2>6, <2>8 DEF BeforeBearers
<1> QED
  BY <1>5, <1>6

\* The context of a UE that sets up its connection becomes connected.
LEMMA ConnectedEarly ==
  ASSUME IInv, Base, NEW k \in Ids, Unrouted(k) \/ RoutedEarly(k), NEW c \in Context,
         c.drbs = ctx[k].drbs, c.teid = ctx[k].teid, c.queued = ctx[k].queued,
         UeIn("CONNECTED_NORMALLY", k), dl = OnlyAt(Ids, k, <<>>),
         ctx' = [ctx EXCEPT ![k] = Connected(c)], dl' = ConnectedDl(dl, k, c),
         ul' = OnlyAt(Ids, k, <<>>),
         UNCHANGED <<ue, x2, x2u, s1up, s1down, enbApp, epc, fault>>
  PROVE  Base' /\ (BeforeBearers' \/ WithBearers')
<1>1. k \in Here /\ Here = {k}
  BY EarlyHere
<1>2. /\ Linked(k)' /\ ctx'[k] = Connected(c) /\ \A i \in Ids : i # k => ctx'[i] = ctx[i]
      /\ Here' = {k}
  BY <1>1, LinkedAt
<1>3. /\ ctx'[k].drbs = ctx[k].drbs /\ ctx'[k].teid = ctx[k].teid
      /\ ctx'[k].queued = ctx[k].queued
  BY <1>2, ConnectedFields
<1>4. Base'
  BY <1>1, <1>2, <1>3, BaseKeeps
<1>5. UeIn("CONNECTED_NORMALLY", k)'
  BY DEF UeIn, Served
<1>6. CASE Unrouted(k)
  <2>1. SetUp(k)'
    BY <1>2, <1>5 DEF SetUp
  <2>2. BearersAsked(k)'
    BY <1>6 DEF Unrouted, BearersAsked, S1, S1UpMsg, S1DownMsg
  <2>3. Unrouted(k)'
    BY <1>2, <1>3, <1>6, <2>1, <2>2 DEF Unrouted, Bare, App
  <2> QED
    BY <1>4, <2>3 DEF BeforeBearers
<1>7. CASE RoutedEarly(k)
  <2>1. Bearing(k, ctx[k].st)'
    BY <1>3, <1>7 DEF RoutedEarly, Bearing
  <2>2. AtHome(k)'
    BY <1>5, <1>7, <2>1 DEF AtHome, RoutedEarly, Route, S1
  <2>3. Resting(k, k)'
    BY <1>2, <1>7, <2>2 DEF Resting, Behind, RoutedEarly
  <2> QED
    BY <1>4, <2>3 DEF WithBearers
<1> QED
  BY <1>6, <1>7

\* The setup is complete,
LEMMA SetupCompletedPhase ==
  ASSUME IInv, Base, BeforeBearers, NEW k \in Ids, RecvRrcConnectionSetupCompleted(k)
  PROVE  Base' /\ (BeforeBearers' \/ WithBearers')
<1>1. ul[k] # <<>> /\ Head(ul[k]) = "SETUP_COMPLETE"
  BY DEF RecvRrcConnectionSetupCompleted, Arrived
<1>2. /\ Unrouted(k) \/ RoutedEarly(k)
      /\ ctx[k].st = "CONNECTION_SETUP" /\ UeIn("CONNECTED_NORMALLY", k)
      /\ Radio(k, <<>>, <<"SETUP_COMPLETE">>)
  BY <1>1, EarlyUplink
<1>3. PICK c : c = Stopped(ctx[k], "connectionSetup")
  OBVIOUS
<1>4. /\ c \in Context /\ c.drbs = ctx[k].drbs /\ c.teid = ctx[k].teid
      /\ c.queued = ctx[k].queued
  BY ZenonT(40), <1>3 DEF Stopped, IInv, TypeOK, Context
<1>5. /\ ctx' = [ctx EXCEPT ![k] = Connected(c)] /\ dl' = ConnectedDl(dl, k, c)
      /\ ul' = Taken(ul, k)
      /\ UNCHANGED <<ue, lastRnti, removals, x2, x2u, s1up, s1down, enbApp, epc, asked, fault>>
  BY <1>2, <1>3 DEF RecvRrcConnectionSetupCompleted
<1>6. dl = OnlyAt(Ids, k, <<>>) /\ ul' = OnlyAt(Ids, k, <<>>)
  BY <1>2, <1>5, SentAt DEF Radio
<1> QED
  BY <1>2, <1>4, <1>5, <1>6, ConnectedEarly

\* and so is a reconfiguration that came before the bearers.
LEMMA EarlyReconfCompletedPhase ==
  ASSUME IInv, Base, BeforeBearers, NEW k \in Ids,
         RecvRrcConnectionReconfigurationCompleted(k)
  PROVE  Base' /\ (BeforeBearers' \/ WithBearers')
<1>1. ul[k] # <<>> /\ Head(ul[k]) = "RECONF_COMPLETE"
  BY DEF RecvRrcConnectionReconfigurationCompleted, Arrived
<1>2. /\ Unrouted(k) /\ UeIn("CONNECTED_NORMALLY", k)
      /\ ctx[k].st = "CONNECTION_RECONFIGURATION" /\ Radio(k, <<>>, <<"RECONF_COMPLETE">>)
  BY <1>1, EarlyUplink
<1>3. ctx[k] \in Context /\ ctx[k].queued = 0
  BY <1>2 DEF IInv, TypeOK, Unrouted, Bare
<1>4. /\ Reconfigured(k) /\ ul' = Taken(ul, k)
      /\ UNCHANGED <<ue, lastRnti, removals, x2u, s1down, epc, asked, fault>>
  BY <1>2 DEF RecvRrcConnectionReconfigurationCompleted
<1>5. Connected(ctx[k]).queued = 0
  BY <1>3, ConnectedFields
<1>6. /\ ctx' = [ctx EXCEPT ![k] = Connected(ctx[k])] /\ dl' = ConnectedDl(dl, k, ctx[k])
      /\ x2' = x2 /\ UNCHANGED <<s1up, enbApp>>
  BY <1>4, <1>5 DEF Reconfigured
<1>7. dl = OnlyAt(Ids, k, <<>>) /\ ul' = OnlyAt(Ids, k, <<>>)
  BY <1>2, <1>4, SentAt DEF Radio
<1> QED
  BY <1>2, <1>3, <1>4, <1>6, <1>7, ConnectedEarly

\* The core learns of the UE and asks for its bearers.
LEMMA MmeRecvInitialUePhase ==
  ASSUME IInv, Base, BeforeBearers, NEW c \in Cells, MmeRecvInitialUe(c)
  PROVE  Base' /\ BeforeBearers'
<1>1. PICK k \in Ids : /\ Unrouted(k) /\ EnbCell(k) = c /\ epc.teid = 0
                       /\ S1(c, <<S1UpMsg("INITIAL_UE", 0)>>, <<>>)
  BY EarlyS1 DEF MmeRecvInitialUe, Pending
<1>2. /\ s1up' = Taken(s1up, c) /\ MmeUnchanged
      /\ s1down' = Sent(s1down, c, S1DownMsg("CTX_SETUP", Bearers, 1))
      /\ epc'.sgw = c /\ epc'.teid = 1 /\ epc'.bearers = Bearers
  BY <1>1 DEF MmeRecvInitialUe, SessionCreated, IInv, TypeOK, EpcState, Base
<1>3. Here' = Here
  BY <1>2 DEF MmeUnchanged, Here
<1>4. Base'
  BY <1>2, <1>3, BaseKeeps DEF MmeUnchanged, Base
<1>5. S1(c, <<>>, <<S1DownMsg("CTX_SETUP", Bearers, 1)>>)'
  BY <1>1, <1>2, SentAt DEF S1, S1DownMsg
<1>6. SettingUp(k)' \/ SetUp(k)'
  BY <1>1, <1>2 DEF Unrouted, SettingUp, SetUp, Linked, UeIn, Served, Radio, MmeUnchanged, Rrc
<1>7. Unrouted(k)'
  BY <1>1, <1>2, <1>3, <1>5, <1>6
     DEF Unrouted, Bare, App, BearersAsked, MmeUnchanged, S1DownMsg
<1> QED
  BY <1>4, <1>7 DEF BeforeBearers

\* What the S1 application of a cell notes of a tunnel.
LEMMA RoutedEntries ==
  ASSUME NEW a \in EnbApp, NEW r \in Rntis
  PROVE  LET b == Routed(a, r, 1) IN
         /\ b.flow[1] = r /\ b.teid[r] = 1
         /\ \A g \in Teids : g # 1 => b.flow[g] = a.flow[g]
         /\ \A s \in Rntis : s # r => b.teid[s] = a.teid[s]
<1>1. 1 \in Teids
  BY BoundsAssumption DEF Teids
<1>2. /\ Routed(a, r, 1).flow = [a.flow EXCEPT ![1] = r]
      /\ Routed(a, r, 1).teid = [a.teid EXCEPT ![r] = 1]
  BY DEF Routed, EnbApp
<1> QED
  BY <1>1, <1>2 DEF EnbApp

\* The context that has been given its bearers.
LEMMA ContextSetupOutcome ==
  ASSUME IInv, NEW c \in Cells, NEW k \in Ids, RecvContextSetup(c), c = EnbCell(k), App(k),
         k \in Here, ctx[k].drbs = {}, ctx[k].st \in Waiting \union {"CONNECTED_NORMALLY"},
         s1down[c] = <<S1DownMsg("CTX_SETUP", Bearers, 1)>>
  PROVE  LET set  == [ctx[k] EXCEPT !.drbs = Bearers, !.teid = 1, !.pend = TRUE]
             done == IF SendsNow(set)
                     THEN [Connected(set) EXCEPT !.pend = Cardinality(Bearers) > 1]
                     ELSE set
         IN /\ ctx' = [ctx EXCEPT ![k] = done]
            /\ dl' = IF SendsNow(set) THEN ConnectedDl(dl, k, set) ELSE dl
            /\ enbApp' = [enbApp EXCEPT ![c] = Routed(@, Rnti(k), 1)]
            /\ s1down' = Taken(s1down, c)
            /\ UNCHANGED <<ue, lastRnti, removals, ul, x2, x2u, s1up, epc, asked, fault>>
<1>1. /\ <<c, enbApp[c].rnti>> = k /\ enbApp[c].rnti # 0 /\ Exists(k)
  BY IdParts, NotZero DEF App, Ids, EnbCell, Rnti, Here, Exists
<1>2. Head(s1down[c]).bearers = Bearers /\ Head(s1down[c]).teid = 1
  BY DEF S1DownMsg
<1>3. Schedulable(ctx[k]) /\ Bearers = 1..Cardinality(Bearers)
  BY BearersNumbered DEF Schedulable, SendsNow
<1> QED
  BY <1>1, <1>2, <1>3 DEF RecvContextSetup

\* The bearers are set up: before the setup is complete, or after it.
LEMMA RecvContextSetupPhase ==
  ASSUME IInv, Base, BeforeBearers, NEW c \in Cells, RecvContextSetup(c)
  PROVE  Base' /\ (BeforeBearers' \/ WithBearers')
<1>1. PICK k \in Ids : /\ Unrouted(k) /\ EnbCell(k) = c /\ epc.teid = 1 /\ epc.sgw = c
                       /\ S1(c, <<>>, <<S1DownMsg("CTX_SETUP", Bearers, 1)>>)
                       /\ s1down[c] = <<S1DownMsg("CTX_SETUP", Bearers, 1)>>
  BY EarlyS1 DEF RecvContextSetup, Pending
<1>2. /\ Here = {k} /\ k \in Here /\ ctx[k].drbs = {} /\ ctx[k].teid = 0 /\ ctx[k].queued = 0
      /\ App(k) /\ x2 = <<>> /\ (SettingUp(k) \/ SetUp(k))
      /\ ctx[k] \in Context /\ Rnti(k) \in Rntis /\ enbApp[c] \in EnbApp
  BY <1>1, IdParts DEF Unrouted, Bare, IInv, TypeOK
<1>3. ctx[k].st \in {"CONNECTION_SETUP", "CONNECTED_NORMALLY", "CONNECTION_RECONFIGURATION"}
  BY <1>2 DEF SettingUp, SetUp, Linked
<1>4. PICK set : set = [ctx[k] EXCEPT !.drbs = Bearers, !.teid = 1, !.pend = TRUE]
  OBVIOUS
<1>5. PICK d : d = IF SendsNow(set)
                   THEN [Connected(set) EXCEPT !.pend = Cardinality(Bearers) > 1] ELSE set
  OBVIOUS
<1>6. PICK b : b = Routed(enbApp[c], Rnti(k), 1)
  OBVIOUS
<1>7. /\ ctx' = [ctx EXCEPT ![k] = d]
      /\ dl' = IF SendsNow(set) THEN ConnectedDl(dl, k, set) ELSE dl
      /\ enbApp' = [enbApp EXCEPT ![c] = b] /\ s1down' = Taken(s1down, c)
      /\ UNCHANGED <<ue, lastRnti, removals, ul, x2, x2u, s1up, epc, asked, fault>>
  <2>1. ctx[k].st \in Waiting \union {"CONNECTED_NORMALLY"}
    BY <1>3 DEF Waiting
  <2> QED
    BY <1>1, <1>2, <1>4, <1>5, <1>6, <2>1, ContextSetupOutcome
<1>8. /\ set.drbs = Bearers /\ set.teid = 1 /\ set.pend /\ set.queued = 0
      /\ set.st = ctx[k].st /\ set \in Context
  <2>1. 1 \in Teids
    BY BoundsAssumption DEF Teids
  <2> QED
    BY <1>2, <1>4, <2>1 DEF Context
<1>9. /\ d.drbs = Bearers /\ d.teid = 1 /\ d.queued = 0
      /\ d.st = IF ctx[k].st = "CONNECTED_NORMALLY" THEN "CONNECTION_RECONFIGURATION"
                ELSE ctx[k].st
  <2>1. PICK e : e = Connected(set)
    OBVIOUS
  <2>2. /\ e \in Context /\ e.st = "CONNECTION_RECONFIGURATION" /\ e.drbs = Bearers
        /\ e.teid = 1 /\ e.queued = 0
    BY <1>8, <2>1, ConnectedFields
  <2>3. CASE SendsNow(set)
    <3>1. d = [e EXCEPT !.pend = Cardinality(Bearers) > 1]
      BY <1>5, <2>1, <2>3
    <3>2. d.drbs = e.drbs /\ d.teid = e.teid /\ d.queued = e.queued /\ d.st = e.st
      BY <2>2, <3>1 DEF Context
    <3> QED
      BY <1>8, <2>2, <2>3, <3>2 DEF SendsNow
  <2>4. CASE ~SendsNow(set)
    BY <1>5, <1>8, <2>4 DEF SendsNow
  <2> QED
    BY <2>3, <2>4
<1>10. ctx'[k] = d /\ \A i \in Ids : i # k => ctx'[i] = ctx[i]
  BY <1>7 DEF IInv, TypeOK
<1>11. Here' = {k}
  BY <1>2, <1>3, <1>9, <1>10 DEF Here
<1>12. /\ b.flow[1] = Rnti(k) /\ b.teid[Rnti(k)] = 1
       /\ \A g \in Teids : g # 1 => b.flow[g] = enbApp[EnbCell(k)].flow[g]
       /\ \A s \in Rntis : s # Rnti(k) => b.teid[s] = enbApp[EnbCell(k)].teid[s]
  BY <1>1, <1>2, <1>6, RoutedEntries
<1>13. Base'
  <2>1. \A i \in Here : i \in Here' /\ (ctx[i].teid = 1 => ctx'[i].teid = 1)
    BY <1>2, <1>11
  <2>2. /\ ctx'[k].teid = 1 /\ UNCHANGED <<x2u, fault>> /\ epc'.bearers = epc.bearers
        /\ enbApp' = [enbApp EXCEPT ![EnbCell(k)] = b]
    BY <1>1, <1>7, <1>9, <1>10
  <2> QED
    BY <1>2, <1>12, <2>1, <2>2, RoutedBase
<1>14. Route(k)'
  <2>1. enbApp'[c] = b
    BY <1>7 DEF IInv, TypeOK
  <2> QED
    BY <1>1, <1>12, <2>1 DEF Route
<1>15. S1(EnbCell(k), <<>>, <<>>)' /\ epc'.teid = 1 /\ epc'.sgw = EnbCell(k) /\ x2' = <<>>
  BY <1>1, <1>2, <1>7, SentAt DEF S1
<1>16. EnbCell(k) # 0
  BY IdParts, NotZero
<1>17. CASE ctx[k].st = "CONNECTION_SETUP"
  <2>1. Bearing(k, "CONNECTION_SETUP")'
    BY <1>9, <1>10, <1>16, <1>17 DEF Bearing
  <2>2. dl' = dl /\ ul' = ul /\ ue' = ue
    BY <1>7, <1>8, <1>17 DEF SendsNow
  <2>3. SettingUp(k)
    BY <1>2, <1>17 DEF SetUp, Linked
  <2>4. SettingUp(k)'
    BY <1>9, <1>10, <1>17, <2>2, <2>3 DEF SettingUp, UeIn, Served, Radio, Rrc
  <2>5. RoutedEarly(k)'
    BY <1>11, <1>14, <1>15, <2>1, <2>4 DEF RoutedEarly
  <2> QED
    BY <1>13, <2>5 DEF BeforeBearers
<1>18. CASE ctx[k].st # "CONNECTION_SETUP"
  <2>1. UeIn("CONNECTED_NORMALLY", k) /\ Linked(k)
    BY <1>2, <1>18 DEF SettingUp, SetUp
  <2>2. ctx'[k].st = "CONNECTION_RECONFIGURATION"
    BY <1>3, <1>9, <1>10, <1>18
  <2>3. Linked(k)'
    <3>1. CASE ctx[k].st = "CONNECTED_NORMALLY"
      <4>1. dl' = Sent(dl, k, Rrc("RECONF")) /\ ul' = ul
        BY <1>7, <1>8, <3>1 DEF SendsNow, ConnectedDl
      <4>2. Radio(k, <<>>, <<>>)
        BY <2>1, <3>1 DEF Linked
      <4>3. Radio(k, <<Rrc("RECONF")>>, <<>>)'
        BY <4>1, <4>2, SentAt DEF Radio, Rrc
      <4> QED
        BY <2>2, <4>3 DEF Linked, Rrc
    <3>2. CASE ctx[k].st # "CONNECTED_NORMALLY"
      <4>1. dl' = dl /\ ul' = ul
        BY <1>7, <1>8, <3>2 DEF SendsNow
      <4> QED
        BY <2>1, <2>2, <3>2, <4>1 DEF Linked, Radio, Rrc
    <3> QED
      BY <3>1, <3>2
  <2>4. UeIn("CONNECTED_NORMALLY", k)' /\ Bearing(k, ctx[k].st)'
    BY <1>7, <1>9, <1>10, <1>16, <2>1 DEF UeIn, Served, Bearing
  <2>5. AtHome(k)'
    BY <1>14, <1>15, <2>4 DEF AtHome
  <2>6. Resting(k, k)'
    BY <1>11, <1>15, <2>3, <2>5 DEF Resting, Behind
  <2> QED
    BY <1>13, <2>6 DEF WithBearers
<1> QED
  BY <1>17, <1>18

\* A reconfiguration that is asked for before the bearers are there.
LEMMA ScheduleEarlyPhase ==
  ASSUME WellBehaved, IInv, Base, BeforeBearers, NEW k \in Ids,
         ScheduleRrcConnectionReconfiguration(k)
  PROVE  Base' /\ (BeforeBearers' \/ WithBearers')
<1>1. PICK c : c = [ctx[k] EXCEPT !.pend = TRUE]
  OBVIOUS
<1>2. /\ c \in Context /\ c.st = ctx[k].st /\ c.drbs = ctx[k].drbs /\ c.teid = ctx[k].teid
      /\ c.queued = ctx[k].queued /\ c.target = ctx[k].target /\ c.source = ctx[k].source
      /\ c.sourceRnti = ctx[k].sourceRnti /\ c.pend
  BY ZenonT(40), <1>1 DEF IInv, TypeOK, Context
<1>3. Schedulable(ctx[k])
  BY DEF WellBehaved, ScheduleRrcConnectionReconfiguration, Schedulable, SendsNow
<1>4. /\ ctx' = [ctx EXCEPT ![k] = IF SendsNow(c) THEN Connected(c) ELSE c]
      /\ dl' = IF SendsNow(c) THEN ConnectedDl(dl, k, c) ELSE dl
      /\ UNCHANGED <<ue, lastRnti, removals, ul, x2, x2u, s1up, s1down,
                     enbApp, epc, fault>>
  BY <1>1, <1>3 DEF ScheduleRrcConnectionReconfiguration
<1>5. CASE SendsNow(c)
  <2>1. k \in Here /\ ctx[k].st = "CONNECTED_NORMALLY"
    BY <1>2, <1>5 DEF SendsNow, Here
  <2>2. Unrouted(k) /\ SetUp(k)
    <3>1. ~Unconnected /\ \A i \in Ids : ~TurnedDown(i)
      BY <2>1 DEF Unconnected, TurnedDown
    <3>2. Contacting(k) \/ Unrouted(k) \/ RoutedEarly(k)
      BY <2>1, <3>1, EarlyHere DEF BeforeBearers
    <3> QED
      BY <2>1, <3>2 DEF Contacting, RoutedEarly, Unrouted, SettingUp
  <2>3. UeIn("CONNECTED_NORMALLY", k) /\ Radio(k, <<>>, <<>>)
    BY <2>1, <2>2 DEF SetUp, Linked
  <2>4. ctx' = [ctx EXCEPT ![k] = Connected(c)] /\ dl' = ConnectedDl(dl, k, c)
    BY <1>4, <1>5
  <2>5. dl = OnlyAt(Ids, k, <<>>) /\ ul' = OnlyAt(Ids, k, <<>>)
    BY <1>4, <2>3 DEF Radio
  <2> QED
    BY <1>2, <1>4, <2>2, <2>3, <2>4, <2>5, ConnectedEarly
<1>6. CASE ~SendsNow(c)
  <2>1. ctx'[k] = c /\ \A i \in Ids : i # k => ctx'[i] = ctx[i]
    BY <1>4, <1>6 DEF IInv, TypeOK
  <2>2. Alike(k) /\ \A i \in Ids : i # k => Alike(i)
    BY <1>2, <2>1 DEF Alike
  <2> QED
    BY <1>4, <1>6, <2>2, FrameKeeps
<1> QED
  BY <1>5, <1>6

\* No handover is asked for before there are bearers.
LEMMA NoEarlyHandover ==
  ASSUME WellBehaved, IInv, BeforeBearers, NEW k \in Ids
  PROVE  ~SendHandoverRequest(k)
<1> SUFFICES ASSUME SendHandoverRequest(k) PROVE FALSE
  OBVIOUS
<1>1. /\ ctx[k].drbs # {}
      /\ ctx[k].st \in {"CONNECTED_NORMALLY", "CONNECTION_RECONFIGURATION", "HANDOVER_JOINING"}
  BY DEF WellBehaved, SendHandoverRequest
<1>2. k \in Here
  BY <1>1 DEF Here
<1>3. ~Unconnected /\ \A i \in Ids : ~TurnedDown(i)
  BY <1>2 DEF Unconnected, TurnedDown
<1>4. Contacting(k) \/ Unrouted(k) \/ RoutedEarly(k)
  BY <1>2, <1>3, EarlyHere DEF BeforeBearers
<1> QED
  BY <1>1, <1>4 DEF Contacting, Unrouted, Bare, RoutedEarly, Bearing

\* The messages of handovers are not there yet.
LEMMA NoEarlyMessages ==
  ASSUME IInv, BeforeBearers
  PROVE  /\ ~UeHandoverAccess /\ ~UeRecvHandoverCommand
         /\ \A c \in Cells : /\ ~MmeRecvPathSwitch(c) /\ ~MmeRecvErabRelease(c)
                           /\ ~RecvPathSwitchAck(c)
         /\ \A i \in DOMAIN x2 : ~X2Step(i)
<1>1. ~UeHandoverAccess
  <2>1. \A k \in Ids : SettingUp(k) \/ SetUp(k) => ue.state # "CONNECTED_HANDOVER"
    BY DEF SettingUp, SetUp, UeIn
  <2> QED
    BY <2>1 DEF UeHandoverAccess, BeforeBearers, Unconnected, Contacting, TurnedDown, Unrouted,
                RoutedEarly, UeIn
<1>2. ~UeRecvHandoverCommand
  <2> SUFFICES ASSUME UeRecvHandoverCommand PROVE FALSE
    OBVIOUS
  <2>1. Served \in Ids /\ dl[Served] # <<>> /\ Head(dl[Served]).type = "HO_COMMAND"
    BY ServedType DEF UeRecvHandoverCommand, Heard, Pending
  <2> QED
    BY <2>1, EarlyDownlink DEF Rrc
<1>3. ASSUME NEW c \in Cells
      PROVE  /\ ~Pending(s1up, c, "PATH_SWITCH") /\ ~Pending(s1up, c, "ERAB_RELEASE")
             /\ ~Pending(s1down, c, "PATH_SWITCH_ACK")
  BY EarlyS1 DEF Pending, S1UpMsg, S1DownMsg
<1>4. \A c \in Cells : ~MmeRecvPathSwitch(c) /\ ~MmeRecvErabRelease(c)
  BY <1>3 DEF MmeRecvPathSwitch, MmeRecvErabRelease
<1>5. \A c \in Cells : ~RecvPathSwitchAck(c)
  BY <1>3 DEF RecvPathSwitchAck
<1>6. DOMAIN x2 = {}
  BY EarlyX2
<1> QED
  BY <1>1, <1>2, <1>4, <1>5, <1>6

\* A UE without bearers stays in the phases before, or gets its bearers.
LEMMA BeforeBearersNext ==
  ASSUME WellBehaved, IInv, Base, BeforeBearers, [Next]_vars
  PROVE  Base' /\ (BeforeBearers' \/ WithBearers')
<1>1. CASE UNCHANGED vars
  <2>1. \A i \in Ids : Alike(i)
    BY <1>1 DEF vars, Alike
  <2> QED
    BY <1>1, <2>1, FrameKeeps DEF vars
<1>2. CASE UeConnect \/ UeRecvSystemInformation
  <2>1. CASE Unconnected
    BY <1>2, <2>1, UeCampedPhase
  <2>2. CASE ~Unconnected
    <3>1. \A k \in Ids : SettingUp(k) \/ SetUp(k)
                         => ue.state \in {"IDLE_CONNECTING", "CONNECTED_NORMALLY"}
      BY DEF SettingUp, SetUp, UeIn
    <3>2. ue.state \in {"IDLE_CONNECTING", "CONNECTED_NORMALLY"}
      BY <2>2, <3>1 DEF BeforeBearers, Contacting, TurnedDown, Unrouted, RoutedEarly, UeIn
    <3> QED
      BY <1>2, <3>2, UeIdlePhase
  <2> QED
    BY <2>1, <2>2
<1>3. CASE RandomAccess
  <2>1. \A k \in Ids : SettingUp(k) \/ SetUp(k) => ue.state # "IDLE_RANDOM_ACCESS"
    BY DEF SettingUp, SetUp, UeIn
  <2>2. Unconnected
    BY <1>3, <2>1 DEF RandomAccess, BeforeBearers, Contacting, TurnedDown, Unrouted, RoutedEarly,
                      UeIn
  <2> QED
    BY <1>3, <2>2, RandomAccessPhase
<1>4. CASE UeStep
  BY <1>2, <1>3, <1>4, NoEarlyMessages, UeRecvConnectionSetupPhase, UeRecvConnectionRejectPhase,
     UeEarlyReconfigurationPhase DEF UeStep
<1>5. ASSUME NEW k \in Ids, RrcStep(k) PROVE Base' /\ (BeforeBearers' \/ WithBearers')
  BY <1>5, RecvConnectionRequestPhase, SetupCompletedPhase, EarlyReconfCompletedPhase
     DEF RrcStep
<1>6. ASSUME NEW c \in Cells, S1Step(c) PROVE Base' /\ (BeforeBearers' \/ WithBearers')
  BY <1>6, NoEarlyMessages, MmeRecvInitialUePhase, RecvContextSetupPhase DEF S1Step
<1>7. CASE Environment
  BY <1>7, NoFaults, NoEarlyHandover, ScheduleEarlyPhase DEF Environment
<1> QED
  BY <1>1, <1>4, <1>5, <1>6, <1>7, NoFaults, NoEarlyMessages DEF Next

-----------------------------------------------------------------------------
(* The initial states.                                                     *)

\* A UE that starts camped is not connected,
LEMMA InitCamped ==
  ASSUME Init, ~StartConnected
  PROVE  Base /\ Unconnected
<1> USE DEF Init
<1>1. /\ ue.state = "IDLE_CAMPED_NORMALLY" /\ ue.cell = HomeCell /\ epc.teid = 0
      /\ epc.bearers = Bearers
  BY DEF InitUe
<1>2. /\ \A k \in Ids : ctx[k].st = "NONE"
      /\ \A c \in Cells : enbApp[c] = NoTunnel
  BY DEF Blank
<1>3. Here = {}
  BY <1>2 DEF Here
<1>4. Radio(Served, <<>>, <<>>) /\ S1(ue.cell, <<>>, <<>>)
  BY DEF Radio, S1, OnlyAt
<1>5. Base
  BY <1>1, <1>2 DEF Base, NoAbort, TrueX2u, TrueFlow, TrueTeid, NoTunnel
<1> QED
  BY <1>1, <1>3, <1>4, <1>5 DEF Unconnected

\* and one that starts attached is at home.
LEMMA InitAttached ==
  ASSUME Init, StartConnected
  PROVE  Base /\ Resting(HomeId, HomeId) /\ HomeId \in Ids
<1> USE DEF Init
<1>1. /\ HomeCell \in Cells /\ 1 \in Rntis /\ 1 \in Teids /\ HomeId \in Ids
      /\ EnbCell(HomeId) = HomeCell /\ Rnti(HomeId) = 1 /\ HomeCell # 0
  BY HomeCellType, IdParts, BoundsAssumption, NotZero DEF HomeId, Rntis, Teids
<1>2. ue.state = "CONNECTED_NORMALLY" /\ Served = HomeId
  BY DEF InitUe, Served, HomeId
<1>3. /\ ctx[HomeId].st = "CONNECTED_NORMALLY" /\ ctx[HomeId].drbs = Bearers
      /\ ctx[HomeId].teid = 1 /\ ctx[HomeId].queued = 0
      /\ \A k \in Ids : k # HomeId => ctx[k].st = "NONE"
  BY <1>1 DEF Attached, Blank
<1>4. Here = {HomeId}
  BY <1>1, <1>3 DEF Here
<1>5. PICK a : a = Routed(InitialUeRegistered(NoTunnel, 1), 1, 1)
  OBVIOUS
<1>6. /\ a.flow = [g \in Teids |-> IF g = 1 THEN 1 ELSE 0]
      /\ a.teid = [r \in Rntis |-> IF r = 1 THEN 1 ELSE 0]
  BY <1>1, <1>5 DEF Routed, InitialUeRegistered, NoTunnel
<1>7. /\ enbApp[HomeCell] = a
      /\ \A c \in Cells : c # HomeCell => enbApp[c] = NoTunnel
  BY <1>1, <1>5
<1>8. /\ epc.sgw = HomeCell /\ epc.teid = 1 /\ epc.bearers = Bearers
  OBVIOUS
<1>9. TrueFlow /\ TrueTeid /\ TrueX2u
  <2>1. \A c \in Cells, g \in Teids : enbApp[c].flow[g] = IF c = HomeCell /\ g = 1 THEN 1 ELSE 0
    BY <1>6, <1>7 DEF NoTunnel
  <2>2. \A c \in Cells, r \in Rntis : enbApp[c].teid[r] = IF c = HomeCell /\ r = 1 THEN 1 ELSE 0
    BY <1>6, <1>7 DEF NoTunnel
  <2>3. Owns(HomeCell, 1, 1)
    BY <1>3, <1>4 DEF Owns, HomeId
  <2> QED
    BY <1>1, <2>1, <2>2, <2>3 DEF TrueFlow, TrueTeid, TrueX2u
<1>10. Base
  BY <1>8, <1>9 DEF Base, NoAbort
<1>11. Route(HomeId)
  BY <1>1, <1>6, <1>7 DEF Route
<1>12. Radio(HomeId, <<>>, <<>>) /\ S1(HomeCell, <<>>, <<>>)
  BY DEF Radio, S1, OnlyAt
<1>13. AtHome(HomeId)
  BY <1>1, <1>2, <1>3, <1>8, <1>11, <1>12 DEF AtHome, Bearing, UeIn
<1> QED
  BY <1>1, <1>3, <1>4, <1>10, <1>12, <1>13 DEF Resting, Linked, Behind

-----------------------------------------------------------------------------
(* What follows from the phases.                                           *)

\* The phases are inductive.
LEMMA PhasedNext ==
  ASSUME WellBehaved, IInv, Phased, [Next]_vars
  PROVE  Phased'
BY WithBearersNext, BeforeBearersNext DEF Phased

\* However a connection is set up and however many handovers follow, the UE is in
\* one of the phases, which leave the handlers of the eNBs (lte-enb-rrc.cc), of
\* their S1 applications and of the core nothing unexpected to receive.
THEOREM PhasesFollow == WellBehaved => (Spec => []Phased)
<1> SUFFICES ASSUME WellBehaved PROVE Spec => []Phased
  OBVIOUS
<1>1. Init => Phased
  BY InitCamped, InitAttached DEF Phased, BeforeBearers, WithBearers
<1>2. IInv /\ Phased /\ [Next]_vars => Phased'
  BY PhasedNext
<1> QED
  BY <1>1, <1>2, Invariance, PTL DEF Spec

\* A UE that is attached from the beginning always has its bearers, in one of the
\* phases of a connected UE.
THEOREM BearersStay == WellBehaved /\ StartConnected => (Spec => [](Base /\ WithBearers))
<1> SUFFICES ASSUME WellBehaved, StartConnected PROVE Spec => [](Base /\ WithBearers)
  OBVIOUS
<1>1. Init => Base /\ WithBearers
  BY InitAttached DEF WithBearers
<1>2. IInv /\ (Base /\ WithBearers) /\ [Next]_vars => (Base /\ WithBearers)'
  BY WithBearersNext
<1> QED
  BY <1>1, <1>2, Invariance, PTL DEF Spec

\* The downlink leads to a context that waits for the UE.
LEMMA DownlinkOfPhase ==
  ASSUME IInv, WithBearers
  PROVE  DownlinkPath
<1>1. /\ \A k \in Ids : EnbCell(k) \in Cells /\ Rnti(k) # 0 /\ <<EnbCell(k), Rnti(k)>> = k
      /\ Bearers # {}
  BY BearersNumbered, NotZero DEF Ids, EnbCell, Rnti
<1>2. ASSUME NEW k \in Ids, AtHome(k), ctx[k].st \in Serving PROVE DownlinkPath
  <2>1. DownlinkEnd = k
    BY <1>1, <1>2 DEF DownlinkEnd, AtHome, Route, Serving
  <2> QED
    BY <1>1, <1>2, <2>1 DEF DownlinkPath, AtHome, Bearing, UeIn
<1>3. ASSUME NEW k \in Ids, NEW j \in Ids, NEW st, Left(k, j, st), epc.sgw = EnbCell(k)
      PROVE  DownlinkEnd = j
  <2>1. /\ epc.teid = 1 /\ enbApp[EnbCell(k)].flow[1] = Rnti(k)
        /\ ctx[k].st = "HANDOVER_LEAVING" /\ ctx[k].target = EnbCell(j)
        /\ x2u[EnbCell(j)][1] = Rnti(j)
    BY <1>3 DEF Left, Route, Bearing, Target
  <2> QED
    BY <1>1, <1>3, <2>1 DEF DownlinkEnd
<1>4. ASSUME NEW k \in Ids, NEW j \in Ids, Away(k, j), Served = j PROVE DownlinkPath
  <2>1. DownlinkEnd = j
    BY <1>3, <1>4 DEF Away
  <2> QED
    BY <1>1, <1>4, <2>1 DEF DownlinkPath, Away, Left, Target, Bearing
<1>5. ASSUME NEW k \in Ids, NEW j \in Ids, Commanded(k, j) PROVE DownlinkPath
  <2>1. DownlinkEnd = j
    BY <1>3, <1>5 DEF Commanded, Away
  <2>2. Served = k /\ ctx[k].st = "HANDOVER_LEAVING"
    BY <1>5 DEF Commanded, UeIn, Away, Left, Bearing
  <2>3. dl[k] = <<HoCommand(EnbCell(j), Rnti(j))>>
    BY <1>5, RadioAt DEF Commanded
  <2>4. HoCommand(EnbCell(j), Rnti(j)) \in ToSet(dl[k])
    BY <2>3 DEF ToSet
  <2>5. j[1] = EnbCell(j) /\ j[2] = Rnti(j)
    BY DEF EnbCell, Rnti
  <2> QED
    BY <1>1, <1>5, <2>1, <2>2, <2>4, <2>5 DEF DownlinkPath, Commanded, Away, Left, Target, Bearing
<1>6. ASSUME NEW k \in Ids, NEW j \in Ids, Switching(k, j) \/ Switched(k, j)
      PROVE  DownlinkPath
  <2>1. /\ TakenOver(k, j) /\ Left(k, j, "HANDOVER_PATH_SWITCH") /\ Served = j
        /\ ctx[j].st = "HANDOVER_PATH_SWITCH" /\ ctx[j].drbs = Bearers
    BY <1>6 DEF Switching, Switched, TakenOver, UeIn, Left, Target, Bearing
  <2>2. DownlinkEnd = j
    <3>1. CASE Switching(k, j)
      BY <1>3, <2>1, <3>1 DEF Switching
    <3>2. CASE Switched(k, j)
      BY <1>1, <2>1, <3>2 DEF DownlinkEnd, Switched, TakenOver, Route, Left
    <3> QED
      BY <1>6, <3>1, <3>2
  <2> QED
    BY <1>1, <2>1, <2>2 DEF DownlinkPath, Serving
<1>7. CASE \E k, l \in Ids : Resting(k, l)
  BY <1>2, <1>7 DEF Resting, Linked, Serving
<1>8. CASE \E k \in Ids, t \in Cells : Preparing(k, t)
  BY <1>2, <1>8 DEF Preparing, Serving
<1>9. CASE \E k, j \in Ids : Commanded(k, j) \/ Moving(k, j) \/ Arriving(k, j)
  BY <1>4, <1>5, <1>9 DEF Moving, Arriving, UeIn
<1> QED
  BY <1>6, <1>7, <1>8, <1>9, PhaseCases, PreparingCases

-----------------------------------------------------------------------------

\* No assertion of the eNB's RRC fails and no message is fatal: every handler finds
\* the context of the UE, in a state in which it takes the message.
THEOREM HandoverNeverAborts == WellBehaved => (Spec => []NoAbort)
<1>1. Phased => NoAbort
  BY DEF Phased, Base
<1> QED
  BY <1>1, PhasesFollow, PTL

\* Downlink packets of an attached UE always reach a context that has its bearers
\* and that the UE is at or has been told to go to, directly or over one X2-U hop.
THEOREM DownlinkReachesUe == WellBehaved /\ StartConnected => (Spec => []DownlinkPath)
<1>1. IInv /\ Base /\ WithBearers => DownlinkPath
  BY DownlinkOfPhase
<1> QED
  BY <1>1, BearersStay, Invariance, PTL

-----------------------------------------------------------------------------
(* Make before break.                                                      *)

\* What Mobility sees of the contexts.
Anchor   == IF CellsIn(Serving) = {} THEN 0 ELSE CHOOSE c \in CellsIn(Serving) : TRUE
Prepared == CellsIn({"HANDOVER_JOINING"})
Leaving  == CellsIn({"HANDOVER_LEAVING"})
Seen     == <<Anchor, Prepared, Leaving, epc.sgw>>

\* Mobility does not see a step that lets every context serve, join or leave as
\* before and the path stay.
RoleKept(i) == /\ ctx'[i].st \in Serving <=> ctx[i].st \in Serving
               /\ ctx'[i].st = "HANDOVER_JOINING" <=> ctx[i].st = "HANDOVER_JOINING"
               /\ ctx'[i].st = "HANDOVER_LEAVING" <=> ctx[i].st = "HANDOVER_LEAVING"
LEMMA RolesKept ==
  ASSUME \A i \in Ids : RoleKept(i), epc'.sgw = epc.sgw
  PROVE  UNCHANGED Seen
<1>1. ASSUME NEW S, \A i \in Ids : ctx'[i].st \in S <=> ctx[i].st \in S
      PROVE  CellsIn(S)' = CellsIn(S)
  <2>1. {i \in Ids : ctx'[i].st \in S} = {i \in Ids : ctx[i].st \in S}
    BY <1>1
  <2> QED
    BY <2>1 DEF CellsIn
<1>2. CellsIn(Serving)' = CellsIn(Serving)
  BY <1>1 DEF RoleKept
<1>3. Prepared' = Prepared
  BY <1>1 DEF RoleKept, Prepared
<1>4. Leaving' = Leaving
  BY <1>1 DEF RoleKept, Leaving
<1> QED
  BY <1>2, <1>3, <1>4 DEF Seen, Anchor

\* A step that the promise does not see, or allows.
Promised == [Promise!Next]_(Promise!mobility)
\* It does not see a step that changes nothing it sees.
LEMMA SeenKept == UNCHANGED Seen => Promised
BY DEF Promised, Promise!mobility, Seen, Anchor, Prepared, Leaving

\* The steps that it allows, in terms of what it sees.
LEMMA PromisePrepare ==
  ASSUME NEW c \in Cells, Anchor \notin {0, c}, c \notin Leaving,
         Prepared' = Prepared \union {c}, UNCHANGED <<Anchor, Leaving, epc.sgw>>
  PROVE  Promised
BY DEF Promised, Promise!Next, Promise!Prepare, Anchor, Prepared, Leaving

LEMMA PromiseCommand ==
  ASSUME Anchor # 0, Prepared # {}, epc.sgw = Anchor,
         Anchor' = 0, Leaving' = Leaving \union {Anchor}, UNCHANGED <<Prepared, epc.sgw>>
  PROVE  Promised
BY DEF Promised, Promise!Next, Promise!Command, Anchor, Prepared, Leaving

LEMMA PromiseTakeOver ==
  ASSUME NEW c \in Cells, Anchor = 0, c \in Prepared,
         Anchor' = c, Prepared' = Prepared \ {c}, UNCHANGED <<Leaving, epc.sgw>>
  PROVE  Promised
BY DEF Promised, Promise!Next, Promise!TakeOver, Anchor, Prepared, Leaving

LEMMA PromiseSwitchPath ==
  ASSUME Anchor # 0, epc.sgw \in Leaving, epc'.sgw = Anchor,
         UNCHANGED <<Anchor, Prepared, Leaving>>
  PROVE  Promised
BY DEF Promised, Promise!Next, Promise!SwitchPath, Anchor, Prepared, Leaving

LEMMA PromiseRelease ==
  ASSUME NEW c \in Cells, c \in Leaving, epc.sgw # c, Leaving' = Leaving \ {c},
         UNCHANGED <<Anchor, Prepared, epc.sgw>>
  PROVE  Promised
BY DEF Promised, Promise!Next, Promise!Release, Anchor, Prepared, Leaving

\* The cells of no context, and of one.
LEMMA CellsOf ==
  ASSUME NEW S
  PROVE  /\ {i \in Ids : ctx[i].st \in S} = {} => CellsIn(S) = {}
         /\ \A k : {i \in Ids : ctx[i].st \in S} = {k} => CellsIn(S) = {EnbCell(k)}
BY DEF CellsIn
LEMMA AnchorOf ==
  /\ {i \in Ids : ctx[i].st \in Serving} = {} => Anchor = 0
  /\ \A k : {i \in Ids : ctx[i].st \in Serving} = {k} => Anchor = EnbCell(k)
<1>1. ASSUME NEW k, {i \in Ids : ctx[i].st \in Serving} = {k} PROVE Anchor = EnbCell(k)
  <2>1. CellsIn(Serving) = {EnbCell(k)}
    BY <1>1, CellsOf
  <2> QED
    BY <2>1 DEF Anchor
<1>2. {i \in Ids : ctx[i].st \in Serving} = {} => Anchor = 0
  BY CellsOf DEF Anchor
<1> QED
  BY <1>1, <1>2

\* The contexts that serve, those that join and those that leave.
Roles(A, P, L) == /\ {i \in Ids : ctx[i].st \in Serving} = A
                  /\ {i \in Ids : ctx[i].st \in {"HANDOVER_JOINING"}} = P
                  /\ {i \in Ids : ctx[i].st \in {"HANDOVER_LEAVING"}} = L

\* What Mobility sees follows from them, before a step and after it.
LEMMA SeenOf ==
  ASSUME NEW A, NEW P, NEW L, Roles(A, P, L)
  PROVE  /\ A = {} => Anchor = 0
         /\ \A k : A = {k} => Anchor = EnbCell(k)
         /\ Prepared = {EnbCell(i) : i \in P} /\ Leaving = {EnbCell(i) : i \in L}
<1>1. CellsIn(Serving) = {EnbCell(i) : i \in A}
  BY DEF Roles, CellsIn
<1>2. A = {} => CellsIn(Serving) = {}
  BY <1>1
<1>3. \A k : A = {k} => CellsIn(Serving) = {EnbCell(k)}
  BY <1>1
<1>4. Prepared = {EnbCell(i) : i \in P} /\ Leaving = {EnbCell(i) : i \in L}
  BY DEF Roles, CellsIn, Prepared, Leaving
<1> QED
  BY <1>2, <1>3, <1>4 DEF Anchor
\* And after the step.
LEMMA SeenOfNext ==
  ASSUME NEW A, NEW P, NEW L, Roles(A, P, L)'
  PROVE  /\ A = {} => Anchor' = 0
         /\ \A k : A = {k} => Anchor' = EnbCell(k)
         /\ Prepared' = {EnbCell(i) : i \in P} /\ Leaving' = {EnbCell(i) : i \in L}
<1>1. CellsIn(Serving)' = {EnbCell(i) : i \in A}
  BY DEF Roles, CellsIn
<1>2. A = {} => CellsIn(Serving)' = {}
  BY <1>1
<1>3. \A k : A = {k} => CellsIn(Serving)' = {EnbCell(k)}
  BY <1>1
<1>4. Prepared' = {EnbCell(i) : i \in P} /\ Leaving' = {EnbCell(i) : i \in L}
  BY DEF Roles, CellsIn, Prepared, Leaving
<1> QED
  BY <1>2, <1>3, <1>4 DEF Anchor

\* A context that changes its state changes its role.
LEMMA RolesMoved ==
  ASSUME IInv, NEW A, NEW P, NEW L, Roles(A, P, L), NEW i \in Ids, NEW d,
         ctx' = [ctx EXCEPT ![i] = d], NEW A2, NEW P2, NEW L2,
         A2 = (A \ {i}) \union (IF d.st \in Serving THEN {i} ELSE {}),
         P2 = (P \ {i}) \union (IF d.st = "HANDOVER_JOINING" THEN {i} ELSE {}),
         L2 = (L \ {i}) \union (IF d.st = "HANDOVER_LEAVING" THEN {i} ELSE {})
  PROVE  Roles(A2, P2, L2)'
<1>1. ctx'[i] = d /\ \A x \in Ids : x # i => ctx'[x] = ctx[x]
  BY DEF IInv, TypeOK
<1>2. ASSUME NEW S
      PROVE  {x \in Ids : ctx'[x].st \in S}
               = ({x \in Ids : ctx[x].st \in S} \ {i}) \union (IF d.st \in S THEN {i} ELSE {})
  BY <1>1
<1> QED
  BY <1>2 DEF Roles

\* The roles in the phases.
LEMMA HomeRoles ==
  ASSUME NEW k \in Ids, Here = {k}, ctx[k].st \in Serving
  PROVE  Roles({k}, {}, {})
BY DEF Here, Roles, Serving
LEMMA BehindRoles ==
  ASSUME NEW k \in Ids, NEW l \in Ids, LeftBehind(k, l), ctx[k].st \in Serving
  PROVE  Roles({k}, {}, {l})
BY DEF LeftBehind, Bearing, Here, Roles, Serving
LEMMA GrantedRoles ==
  ASSUME NEW k \in Ids, NEW j \in Ids, Granted(k, j)
  PROVE  Roles({k}, {j}, {})
BY DEF Granted, Preparing, Target, Bearing, Here, Roles, Serving
LEMMA AwayRoles ==
  ASSUME NEW k \in Ids, NEW j \in Ids, Away(k, j)
  PROVE  Roles({}, {j}, {k})
BY DEF Away, Left, Target, Bearing, Here, Roles, Serving
LEMMA TakenOverRoles ==
  ASSUME NEW k \in Ids, NEW j \in Ids, TakenOver(k, j)
  PROVE  Roles({j}, {}, {k})
BY DEF TakenOver, Left, Target, Bearing, Here, Roles, Serving

\* The steps of Mobility: a cell makes room,
LEMMA PreparePromised ==
  ASSUME IInv, NEW k \in Ids, NEW j \in Ids, Preparing(k, EnbCell(j)), Here = {k}, NEW d,
         ctx' = [ctx EXCEPT ![j] = d], d.st = "HANDOVER_JOINING", epc' = epc
  PROVE  Promised
<1>1. EnbCell(j) \in Cells /\ EnbCell(j) # EnbCell(k) /\ j # k /\ ctx[k].st \in Serving
  BY IdParts DEF Preparing, Serving
<1>2. Roles({k}, {}, {})
  BY <1>1, HomeRoles
<1>3. Roles({k}, {j}, {})'
  <2>1. d.st \notin Serving /\ d.st # "HANDOVER_LEAVING"
    BY DEF Serving
  <2>2. ({k} \ {j}) \union {} = {k} /\ ({} \ {j}) \union {j} = {j} /\ ({} \ {j}) \union {} = {}
    BY <1>1
  <2> QED
    BY <1>2, <2>1, <2>2, RolesMoved
<1>4. /\ Anchor = EnbCell(k) /\ Prepared = {} /\ Leaving = {}
  BY <1>2, SeenOf
<1>5. /\ Anchor' = EnbCell(k) /\ Prepared' = {EnbCell(j)} /\ Leaving' = {}
  BY <1>3, SeenOfNext
<1>6. EnbCell(j) # 0 /\ EnbCell(k) # 0
  BY IdParts, NotZero
<1>7. Prepared' = Prepared \union {EnbCell(j)} /\ UNCHANGED <<Anchor, Leaving, epc.sgw>>
  BY <1>4, <1>5
<1>8. Anchor \notin {0, EnbCell(j)} /\ EnbCell(j) \notin Leaving
  BY <1>1, <1>4, <1>6
<1> QED
  BY <1>1, <1>7, <1>8, PromisePrepare

\* the anchor sends the UE away,
LEMMA CommandPromised ==
  ASSUME IInv, NEW k \in Ids, NEW j \in Ids, Granted(k, j), NEW d,
         ctx' = [ctx EXCEPT ![k] = d], d.st = "HANDOVER_LEAVING", epc' = epc
  PROVE  Promised
<1>1. EnbCell(k) \in Cells /\ j # k /\ epc.sgw = EnbCell(k) /\ EnbCell(k) # 0
  BY IdParts, NotZero DEF Granted, Preparing, Target, AtHome
<1>2. Roles({k}, {j}, {})
  BY GrantedRoles
<1>3. Roles({}, {j}, {k})'
  <2>1. d.st \notin Serving /\ d.st # "HANDOVER_JOINING"
    BY DEF Serving
  <2>2. ({k} \ {k}) \union {} = {} /\ ({j} \ {k}) \union {} = {j} /\ ({} \ {k}) \union {k} = {k}
    BY <1>1
  <2> QED
    BY <1>2, <2>1, <2>2, RolesMoved
<1>4. /\ Anchor = EnbCell(k) /\ Prepared = {EnbCell(j)} /\ Leaving = {}
  BY <1>2, SeenOf
<1>5. /\ Anchor' = 0 /\ Prepared' = {EnbCell(j)} /\ Leaving' = {EnbCell(k)}
  BY <1>3, SeenOfNext
<1>6. Leaving' = Leaving \union {Anchor} /\ UNCHANGED <<Prepared, epc.sgw>>
  BY <1>4, <1>5
<1> QED
  BY <1>1, <1>4, <1>5, <1>6, PromiseCommand

\* the target takes the UE over,
LEMMA TakeOverPromised ==
  ASSUME IInv, NEW k \in Ids, NEW j \in Ids, Arriving(k, j), NEW d,
         ctx' = [ctx EXCEPT ![j] = d], d.st = "HANDOVER_PATH_SWITCH", epc' = epc
  PROVE  Promised
<1>1. EnbCell(j) \in Cells /\ j # k
  BY IdParts DEF Arriving, Away, Left, Target
<1>2. Roles({}, {j}, {k})
  BY AwayRoles DEF Arriving
<1>3. Roles({j}, {}, {k})'
  <2>1. d.st \in Serving /\ d.st \notin {"HANDOVER_JOINING", "HANDOVER_LEAVING"}
    BY DEF Serving
  <2>2. ({} \ {j}) \union {j} = {j} /\ ({j} \ {j}) \union {} = {} /\ ({k} \ {j}) \union {} = {k}
    BY <1>1
  <2> QED
    BY <1>2, <2>1, <2>2, RolesMoved
<1>4. /\ Anchor = 0 /\ Prepared = {EnbCell(j)} /\ Leaving = {EnbCell(k)}
  BY <1>2, SeenOf
<1>5. /\ Anchor' = EnbCell(j) /\ Prepared' = {} /\ Leaving' = {EnbCell(k)}
  BY <1>3, SeenOfNext
<1>6. Prepared' = Prepared \ {EnbCell(j)} /\ UNCHANGED <<Leaving, epc.sgw>>
  BY <1>4, <1>5
<1> QED
  BY <1>1, <1>4, <1>5, <1>6, PromiseTakeOver

\* the core switches the path,
LEMMA SwitchPromised ==
  ASSUME NEW k \in Ids, NEW j \in Ids, Switching(k, j), ctx' = ctx,
         epc'.sgw = EnbCell(j)
  PROVE  Promised
<1>1. Roles({j}, {}, {k}) /\ epc.sgw = EnbCell(k) /\ EnbCell(j) # 0
  BY TakenOverRoles, IdParts, NotZero DEF Switching
<1>2. Anchor = EnbCell(j) /\ Leaving = {EnbCell(k)}
  BY <1>1, SeenOf
<1>3. UNCHANGED <<Anchor, Prepared, Leaving>>
  BY DEF Anchor, Prepared, Leaving, CellsIn
<1> QED
  BY <1>1, <1>2, <1>3, PromiseSwitchPath

\* and the source forgets the UE.
LEMMA ReleasePromised ==
  ASSUME IInv, NEW k \in Ids, NEW l \in Ids, AtHome(k), LeftBehind(k, l), ctx[k].st \in Serving,
         NEW d, ctx' = [ctx EXCEPT ![l] = d], d.st = "NONE", epc' = epc
  PROVE  Promised
<1>1. EnbCell(l) \in Cells /\ EnbCell(l) # EnbCell(k) /\ l # k /\ epc.sgw = EnbCell(k)
  BY IdParts DEF LeftBehind, AtHome
<1>2. Roles({k}, {}, {l})
  BY BehindRoles
<1>3. Roles({k}, {}, {})'
  <2>1. d.st \notin Serving \union {"HANDOVER_JOINING", "HANDOVER_LEAVING"}
    BY DEF Serving
  <2>2. ({k} \ {l}) \union {} = {k} /\ ({} \ {l}) \union {} = {} /\ ({l} \ {l}) \union {} = {}
    BY <1>1
  <2> QED
    BY <1>2, <2>1, <2>2, RolesMoved
<1>4. /\ Anchor = EnbCell(k) /\ Prepared = {} /\ Leaving = {EnbCell(l)}
  BY <1>2, SeenOf
<1>5. /\ Anchor' = EnbCell(k) /\ Prepared' = {} /\ Leaving' = {}
  BY <1>3, SeenOfNext
<1>6. Leaving' = Leaving \ {EnbCell(l)} /\ UNCHANGED <<Anchor, Prepared, epc.sgw>>
  BY <1>4, <1>5
<1> QED
  BY <1>1, <1>4, <1>6, PromiseRelease

\* A step that moves no context between the roles, and not the path.
LEMMA Unmoved ==
  ASSUME IInv, epc' = epc, NEW i \in Ids, NEW d,
         ctx' = [ctx EXCEPT ![i] = d],
         d.st = ctx[i].st \/ (d.st \in Serving /\ ctx[i].st \in Serving)
  PROVE  Promised
<1>1. ctx'[i] = d /\ \A x \in Ids : x # i => ctx'[x] = ctx[x]
  BY DEF IInv, TypeOK
<1>2. \A x \in Ids : RoleKept(x)
  BY <1>1 DEF RoleKept, Serving
<1> QED
  BY <1>2, RolesKept, SeenKept
\* One that moves none at all, and one that aborts.
LEMMA AllUnmoved ==
  ASSUME ctx' = ctx, epc' = epc
  PROVE  Promised
BY RolesKept, SeenKept DEF RoleKept
LEMMA AbortPromised == \A where : Abort(where) => Promised
BY AllUnmoved DEF Abort

\* The steps of a UE that has its bearers.
LEMMA UeStepPromised ==
  ASSUME IInv, WithBearers, UeStep
  PROVE  Promised
<1>1. ASSUME UeUnchanged PROVE Promised
  BY <1>1, AllUnmoved DEF UeUnchanged
<1>2. ASSUME UeConnect \/ UeRecvSystemInformation PROVE Promised
  BY <1>1, <1>2 DEF UeConnect, UeRecvSystemInformation
<1>3. ASSUME UeHandoverAccess \/ UeRecvReconfiguration PROVE Promised
  BY <1>1, <1>3, AbortPromised DEF UeHandoverAccess, UeRecvReconfiguration
<1>4. ASSUME UeRecvHandoverCommand PROVE Promised
  BY <1>1, <1>4, AbortPromised DEF UeRecvHandoverCommand
<1> QED
  BY <1>2, <1>3, <1>4, NoEstablishment DEF UeStep

\* The end of a reconfiguration, or of a handover.
LEMMA ReconfCompletedPromised ==
  ASSUME IInv, WithBearers, NEW k \in Ids, RecvRrcConnectionReconfigurationCompleted(k)
  PROVE  Promised
<1>1. ul[k] # <<>> /\ ctx[k] \in Context
  BY DEF RecvRrcConnectionReconfigurationCompleted, Arrived, IInv, TypeOK
<1>2. CASE ctx[k].st = "CONNECTION_RECONFIGURATION"
  <2>1. Reconfigured(k) /\ epc' = epc
    BY <1>2 DEF RecvRrcConnectionReconfigurationCompleted
  <2>2. PICK c : c = Connected(ctx[k])
    OBVIOUS
  <2>3. c \in Context /\ c.st \in Serving /\ ctx[k].st \in Serving
    BY <1>1, <1>2, <2>2, ConnectedFields DEF Serving
  <2>4. PICK h : h = HandoverPrepared(c, c.queued)
    OBVIOUS
  <2>5. h.st \in Serving
    BY <2>3, <2>4 DEF HandoverPrepared, Context, Serving
  <2>6. ctx' = [ctx EXCEPT ![k] = c] \/ ctx' = [ctx EXCEPT ![k] = h]
    BY <2>1, <2>2, <2>4 DEF Reconfigured
  <2> QED
    BY <2>1, <2>3, <2>5, <2>6, Unmoved
<1>3. ASSUME NEW i \in Ids, Arriving(i, k) PROVE Promised
  <2>1. ctx[k].st = "HANDOVER_JOINING"
    BY <1>3 DEF Arriving, Away, Left, Target, Bearing
  <2>2. Joined(k) /\ epc' = epc
    BY <2>1 DEF RecvRrcConnectionReconfigurationCompleted
  <2>3. PICK d : d = [Stopped(ctx[k], "handoverJoining") EXCEPT !.st = "HANDOVER_PATH_SWITCH"]
    OBVIOUS
  <2>4. d.st = "HANDOVER_PATH_SWITCH" /\ ctx' = [ctx EXCEPT ![k] = d]
    BY <1>1, <2>2, <2>3 DEF Joined, Stopped, Context
  <2> QED
    BY <1>3, <2>2, <2>4, TakeOverPromised
<1> QED
  BY <1>1, <1>2, <1>3, UplinkPhase

\* The core switches the path once the UE has arrived.
LEMMA MmeRecvPathSwitchPromised ==
  ASSUME IInv, WithBearers, NEW c \in Cells, MmeRecvPathSwitch(c)
  PROVE  Promised
<1>1. PICK k \in Ids, j \in Ids : Switching(k, j) /\ EnbCell(j) = c
  BY S1Phase DEF MmeRecvPathSwitch, Pending
<1>2. ctx' = ctx /\ epc'.sgw = c
  BY DEF MmeRecvPathSwitch, MmeUnchanged, BearersModified, IInv, TypeOK, EpcState
<1> QED
  BY <1>1, <1>2, SwitchPromised
\* The answer to the path switch lets the target go on: it serves already.
LEMMA RecvPathSwitchAckPromised ==
  ASSUME IInv, WithBearers, NEW c \in Cells, RecvPathSwitchAck(c)
  PROVE  Promised
<1>1. PICK k : k = <<c, enbApp[c].rnti>>
  OBVIOUS
<1>2. CASE ctx[k].st # "HANDOVER_PATH_SWITCH" \/ enbApp[c].rnti = 0 \/ ~Exists(k)
  BY <1>1, <1>2, AbortPromised DEF RecvPathSwitchAck, UeManagerNotFound
<1>3. CASE ctx[k].st = "HANDOVER_PATH_SWITCH" /\ enbApp[c].rnti # 0 /\ Exists(k)
  <2>1. k \in Ids /\ ctx[k] \in Context
    BY <1>1, <1>3, IdParts DEF IInv, TypeOK, EnbApp
  <2>2. ctx' = [ctx EXCEPT ![k] = Connected(ctx[k])] /\ epc' = epc
    BY <1>1, <1>3 DEF RecvPathSwitchAck
  <2>3. Connected(ctx[k]).st \in Serving /\ ctx[k].st \in Serving
    BY <1>3, <2>1, ConnectedFields DEF Serving
  <2> QED
    BY <2>1, <2>2, <2>3, Unmoved
<1> QED
  BY <1>2, <1>3

\* The messages on the X2 links: a request is granted, refused or dropped,
LEMMA RecvHandoverRequestPromised ==
  ASSUME WellBehaved, IInv, WithBearers, NEW i \in DOMAIN x2, X2Next(i),
         RecvHandoverRequest(i)
  PROVE  Promised
<1>1. x2 # <<>> /\ x2[i] = Head(x2)
  BY HeadNext DEF IInv, TypeOK
<1>2. PICK k \in Ids, t \in Cells : /\ Preparing(k, t) /\ Here = {k}
                                    /\ x2 = <<Request(k, t)>>
  BY <1>1, X2HeadPhase DEF RecvHandoverRequest
<1>3. x2[i].to = t
  BY <1>1, <1>2, Tuples DEF Request, X2
<1>4. PICK j : j = <<t, NextRnti(t)>>
  OBVIOUS
<1>5. j \in Ids /\ ctx[j].st = "NONE" /\ EnbCell(j) = t
  BY <1>3, <1>4, NewIsFree DEF RecvHandoverRequest, Exists, EnbCell
<1>6. PICK new : new = [NewContext("handoverJoining") EXCEPT
                          !.source = x2[i].from, !.sourceRnti = x2[i].old, !.drbs = x2[i].drbs,
                          !.teid = x2[i].teid, !.pend = x2[i].drbs # {}]
  OBVIOUS
<1>7. PICK e : e = Erased(NewContext("handoverJoining"))
  OBVIOUS
<1>8. new.st = "HANDOVER_JOINING" /\ e.st = "NONE"
  BY <1>6, <1>7 DEF NewContext, TimerState, Blank, Erased
<1>9. \/ ctx' = ctx /\ epc' = epc
      \/ ctx' = [ctx EXCEPT ![j] = e] /\ epc' = epc
      \/ ctx' = [ctx EXCEPT ![j] = new] /\ epc' = epc
  BY <1>3, <1>4, <1>6, <1>7 DEF RecvHandoverRequest, RemoveUe, Abort
<1>10. CASE ctx' = [ctx EXCEPT ![j] = new] /\ epc' = epc
  BY <1>2, <1>5, <1>8, <1>10, PreparePromised
<1>11. CASE ctx' = [ctx EXCEPT ![j] = e] /\ epc' = epc
  BY <1>5, <1>8, <1>11, Unmoved
<1> QED
  BY <1>9, <1>10, <1>11, AllUnmoved

\* The grant is the command,
LEMMA RecvHandoverRequestAckPromised ==
  ASSUME WellBehaved, IInv, WithBearers, NEW i \in DOMAIN x2, X2Next(i),
         RecvHandoverRequestAck(i)
  PROVE  Promised
<1>1. x2 # <<>> /\ x2[i] = Head(x2)
  BY HeadNext DEF IInv, TypeOK
<1>2. PICK k \in Ids, j \in Ids : Granted(k, j)
  BY <1>1, X2HeadPhase DEF RecvHandoverRequestAck
<1>3. <<x2[i].to, x2[i].old>> = k
  <2>1. x2 = <<Grant(k, j)>> /\ k \in Ids
    BY <1>2 DEF Granted
  <2> QED
    BY <1>1, <2>1, Tuples DEF Grant, X2, Ids, EnbCell, Rnti
<1>4. PICK d : d = HandoverLeft(ctx[k])
  OBVIOUS
<1>5. d.st = "HANDOVER_LEAVING"
  BY <1>4 DEF HandoverLeft, IInv, TypeOK, Context
<1>6. \/ ctx' = ctx /\ epc' = epc
      \/ ctx' = [ctx EXCEPT ![k] = d] /\ epc' = epc
  BY <1>3, <1>4 DEF RecvHandoverRequestAck, UeManagerNotFound, Abort
<1> QED
  BY <1>2, <1>5, <1>6, CommandPromised, AllUnmoved

\* after a refusal the anchor is what it was,
LEMMA RecvHandoverPreparationFailurePromised ==
  ASSUME IInv, NEW i \in DOMAIN x2, RecvHandoverPreparationFailure(i)
  PROVE  Promised
<1>1. PICK k : k = <<x2[i].to, x2[i].old>>
  OBVIOUS
<1>2. \/ ctx' = ctx /\ epc' = epc
      \/ ctx' = [ctx EXCEPT ![k] = ctx[k]] /\ epc' = epc
      \/ /\ ctx[k].st = "HANDOVER_PREPARATION" /\ epc' = epc
         /\ ctx' = [ctx EXCEPT ![k] = Connected(ctx[k])]
  BY <1>1 DEF RecvHandoverPreparationFailure, Abort
<1>3. ctx' = [ctx EXCEPT ![k] = ctx[k]] => ctx' = ctx
  BY DEF IInv, TypeOK
<1>4. ASSUME ctx[k].st = "HANDOVER_PREPARATION", epc' = epc,
             ctx' = [ctx EXCEPT ![k] = Connected(ctx[k])]
      PROVE  Promised
  <2>1. k \in Ids /\ ctx[k] \in Context
    BY <1>1, X2TakenType, IdParts DEF IInv, TypeOK
  <2>2. Connected(ctx[k]).st \in Serving /\ ctx[k].st \in Serving
    BY <1>4, <2>1, ConnectedFields DEF Serving
  <2> QED
    BY <1>4, <2>1, <2>2, Unmoved
<1> QED
  BY <1>2, <1>3, <1>4, AllUnmoved

\* and the release takes away a cell that the path no longer leads to.
LEMMA RecvUeContextReleasePromised ==
  ASSUME WellBehaved, IInv, WithBearers, NEW i \in DOMAIN x2, X2Next(i),
         RecvUeContextRelease(i)
  PROVE  Promised
<1>1. x2 # <<>> /\ x2[i] = Head(x2)
  BY HeadNext DEF IInv, TypeOK
<1>2. PICK k \in Ids, l \in Ids : /\ AtHome(k) /\ LeftBehind(k, l) /\ Head(x2) = Release(l, k)
                                  /\ ctx[k].st \in Serving
  <2>1. Head(x2).type = "CTX_RELEASE"
    BY <1>1 DEF RecvUeContextRelease
  <2>2. ASSUME NEW k \in Ids, NEW l \in Ids, AtHome(k), Linked(k), LeftBehind(k, l),
               x2 = <<Release(l, k)>>
        PROVE  Head(x2) = Release(l, k) /\ ctx[k].st \in Serving
    BY <2>2, Tuples DEF Linked, Serving
  <2>3. ASSUME NEW k \in Ids, NEW l \in Ids, NEW t \in Cells, Preparing(k, t),
               LeftBehind(k, l), x2 = <<Release(l, k), Request(k, t)>>
        PROVE  AtHome(k) /\ Head(x2) = Release(l, k) /\ ctx[k].st \in Serving
    BY <2>3, Tuples DEF Preparing, Serving
  <2> QED
    BY <1>1, <2>1, <2>2, <2>3, X2HeadPhase
<1>3. <<x2[i].to, x2[i].old>> = l
  BY <1>1, <1>2 DEF Release, X2, Ids, EnbCell, Rnti
<1>4. PICK d : d = Erased(Stopped(ctx[l], "handoverLeaving"))
  OBVIOUS
<1>5. d.st = "NONE"
  BY <1>4 DEF Erased, Blank
<1>6. \/ ctx' = ctx /\ epc' = epc
      \/ ctx' = [ctx EXCEPT ![l] = d] /\ epc' = epc
  BY <1>3, <1>4 DEF RecvUeContextRelease, RemoveUe, Abort
<1> QED
  BY <1>2, <1>5, <1>6, ReleasePromised, AllUnmoved

\* A reconfiguration that is asked for is sent by the anchor, or waits.
LEMMA ScheduleReconfigurationPromised ==
  ASSUME IInv, NEW k \in Ids, ScheduleRrcConnectionReconfiguration(k)
  PROVE  Promised
<1>1. PICK c : c = [ctx[k] EXCEPT !.pend = TRUE]
  OBVIOUS
<1>2. c \in Context /\ c.st = ctx[k].st
  <2>1. ctx[k] \in Context
    BY DEF IInv, TypeOK
  <2> QED
    BY <1>1, <2>1 DEF Context
<1>3. \/ ctx' = ctx /\ epc' = epc
      \/ /\ ctx' = [ctx EXCEPT ![k] = IF SendsNow(c) THEN Connected(c) ELSE c]
         /\ epc' = epc
  BY <1>1 DEF ScheduleRrcConnectionReconfiguration, Abort
<1>4. SendsNow(c) => Connected(c).st \in Serving /\ ctx[k].st \in Serving
  BY <1>2, ConnectedFields DEF SendsNow, Serving
<1>5. CASE SendsNow(c)
  BY <1>3, <1>4, <1>5, Unmoved, AllUnmoved
<1>6. CASE ~SendsNow(c)
  BY <1>2, <1>3, <1>6, Unmoved, AllUnmoved
<1> QED
  BY <1>5, <1>6
\* A handover that is asked for is prepared by the anchor, or waits.
LEMMA SendHandoverRequestPromised ==
  ASSUME IInv, NEW k \in Ids, SendHandoverRequest(k)
  PROVE  Promised
<1>1. PICK t \in Cells :
        \/ ctx' = ctx /\ epc' = epc
        \/ ctx' = [ctx EXCEPT ![k].queued = t] /\ epc' = epc
        \/ /\ ctx[k].st = "CONNECTED_NORMALLY" /\ epc' = epc
           /\ ctx' = [ctx EXCEPT ![k] = HandoverPrepared(@, t)]
  BY DEF SendHandoverRequest, Abort
<1>2. PICK d, e : d = [ctx[k] EXCEPT !.queued = t] /\ e = HandoverPrepared(ctx[k], t)
  OBVIOUS
<1>3. d.st = ctx[k].st /\ e.st = "HANDOVER_PREPARATION"
  BY <1>2 DEF HandoverPrepared, IInv, TypeOK, Context
<1>4. \/ ctx' = ctx /\ epc' = epc
      \/ ctx' = [ctx EXCEPT ![k] = d] /\ epc' = epc
      \/ ctx' = [ctx EXCEPT ![k] = e] /\ epc' = epc /\ ctx[k].st = "CONNECTED_NORMALLY"
  BY <1>1, <1>2
<1>5. ctx[k].st = "CONNECTED_NORMALLY" => e.st \in Serving /\ ctx[k].st \in Serving
  BY <1>3 DEF Serving
<1> QED
  BY <1>3, <1>4, <1>5, Unmoved, AllUnmoved

\* No step of a UE that has its bearers breaks the promise.
LEMMA WithBearersPromised ==
  ASSUME WellBehaved, IInv, WithBearers, [Next]_vars
  PROVE  Promised
<1>1. CASE UNCHANGED vars
  BY <1>1, AllUnmoved DEF vars
<1>2. ASSUME NEW k \in Ids, RrcStep(k) PROVE Promised
  BY <1>2, NoEstablishment, ReconfCompletedPromised DEF RrcStep
<1>3. ASSUME NEW i \in DOMAIN x2, RecvSnStatusTransfer(i) PROVE Promised
  BY <1>3, AllUnmoved, AbortPromised DEF RecvSnStatusTransfer, UeManagerNotFound
<1>4. ASSUME NEW i \in DOMAIN x2, X2Step(i) PROVE Promised
  BY <1>3, <1>4, RecvHandoverRequestPromised, RecvHandoverRequestAckPromised,
     RecvHandoverPreparationFailurePromised, RecvUeContextReleasePromised DEF X2Step
<1>5. ASSUME NEW c \in Cells, S1Step(c) PROVE Promised
  BY <1>5, NoEstablishment, MmeRecvPathSwitchPromised, RecvPathSwitchAckPromised DEF S1Step
<1>6. CASE Environment
  BY <1>6, NoFaults, SendHandoverRequestPromised, ScheduleReconfigurationPromised
     DEF Environment
<1> QED
  BY <1>1, <1>2, <1>4, <1>5, <1>6, NoFaults, UeStepPromised DEF Next

\* A UE that is attached at the beginning is where Mobility begins.
LEMMA InitPromised ==
  ASSUME Init, StartConnected
  PROVE  Promise!Init
<1>1. Resting(HomeId, HomeId) /\ HomeId \in Ids
  BY InitAttached
<1>2. /\ ctx[HomeId].st \in Serving /\ epc.sgw = EnbCell(HomeId)
      /\ \A k \in Ids : k # HomeId => ctx[k].st = "NONE"
  BY <1>1 DEF Init, Resting, AtHome, Linked, Serving, Blank
<1>3. Roles({HomeId}, {}, {})
  BY <1>1, <1>2 DEF Roles, Serving
<1>4. Anchor = EnbCell(HomeId) /\ Prepared = {} /\ Leaving = {}
  BY <1>3, SeenOf
<1>5. EnbCell(HomeId) = HomeCell
  BY DEF HomeId, EnbCell
<1> QED
  BY <1>2, <1>4, <1>5 DEF Promise!Init, Anchor, Prepared, Leaving

\* The handover of an attached UE implements Mobility: another cell makes room
\* before the anchor sends the UE away; the UE arrives there before the path is
\* switched (the acknowledgement of the path switch and the UE CONTEXT RELEASE
\* follow); the source forgets the UE only when the path leads elsewhere.
THEOREM HandoverMakesBeforeItBreaks ==
  WellBehaved /\ StartConnected => (Spec => MakesBeforeBreaking)
<1> SUFFICES ASSUME WellBehaved, StartConnected PROVE Spec => MakesBeforeBreaking
  OBVIOUS
<1>1. Init => Promise!Init
  BY InitPromised
<1>2. IInv /\ (Base /\ WithBearers) /\ [Next]_vars => [Promise!Next]_(Promise!mobility)
  BY WithBearersPromised DEF Promised
<1> QED
  BY <1>1, <1>2, Invariance, BearersStay, PTL DEF Spec, MakesBeforeBreaking, Promise!Spec
=============================================================================
