------------------------------- MODULE RlcAm --------------------------------
(***************************************************************************)
(* Acknowledged mode (lte-rlc-am.cc): the entity that transmits the data of  *)
(* one bearer and its peer, which receives them and answers with STATUS      *)
(* PDUs.  Data flow one way only, so that each entity plays one part.        *)
(***************************************************************************)
EXTENDS RlcPdu, FiniteSets, Functions

CONSTANTS
  Window,       \* m_windowSize (512): half of the sequence-number space
  MaxTxBuffer,  \* m_maxTxBufferSize
  RetxOptions,  \* values of m_txOpportunityForRetxAlwaysBigEnough
  NackRooms,    \* how many NACKs fit into the opportunities of the receiver
  StatusDepth,  \* bound: how many later STATUS PDUs may overtake one
  MaxLost       \* bound: how many PDUs the lower layers lose

ASSUME AmAssumption == /\ Window \in Nat \ {0} /\ MaxTxBuffer \in Nat
                       /\ RetxOptions # {} /\ RetxOptions \subseteq BOOLEAN
                       /\ NackRooms \subseteq Nat \ {0} /\ NackRooms # {}
                       /\ StatusDepth \in Nat /\ MaxLost \in Nat

Modulus == 2 * Window
Sns     == 0..(Modulus - 1)

VARIABLES
  bigEnough,  \* whether a retransmission takes any opportunity (attribute)
  tx,         \* the transmitting entity
  mac,        \* TRUE: its MAC believes that data or retransmissions wait
  channel,    \* data PDUs on their way
  rx,         \* the receiving entity
  rxMac,      \* TRUE: its MAC believes that a STATUS PDU waits
  statuses,   \* STATUS PDUs on their way
  accepted,   \* history: the SDUs taken into the transmission buffer
  offered,    \* history: how many SDUs PDCP has handed over
  losses      \* history: how many PDUs got lost

senderVars   == <<tx, mac>>
receiverVars == <<rx, rxMac>>
history      == <<accepted, offered, losses>>
vars == <<bigEnough, senderVars, channel, receiverVars, statuses, history>>

delivered == [i \in DOMAIN rx.reassembly.out |-> rx.reassembly.out[i].sdu]

AmInit ==
  /\ bigEnough \in RetxOptions
  /\ tx = [buffer |-> <<>>, vtA |-> 0, vtS |-> 0, txed |-> <<>>, retx |-> <<>>, seg |-> <<>>,
           pollTimer |-> FALSE, pollSn |-> 0, justExpired |-> FALSE, rbsTimer |-> FALSE]
  /\ mac = FALSE /\ rxMac = FALSE
  /\ channel = <<>> /\ statuses = <<>>
  /\ rx = [vrR |-> 0, vrX |-> 0, vrMs |-> 0, vrH |-> 0, buffer |-> <<>>, timer |-> FALSE,
           statusRequested |-> FALSE, prohibitTimer |-> FALSE, reassembly |-> Reassembly0]
  /\ accepted = <<>> /\ offered = 0 /\ losses = 0

\* SequenceNumber10 compares numbers by their distance from a base.
Dist(base, sn)       == (sn - base) % Modulus
Without(buffer, sns) == Restrict(buffer, DOMAIN buffer \ sns)
Merged(b, c)         == [sn \in DOMAIN b \union DOMAIN c |->
                           IF sn \in DOMAIN b THEN b[sn] ELSE c[sn]]
With(buffer, at, x)  == [sn \in DOMAIN buffer \union {at} |-> IF sn = at THEN x ELSE buffer[sn]]
Size(pdu)            == BufferSize(pdu.data)

-----------------------------------------------------------------------------
(* The transmitting entity.  m_txedBuffer and m_retxBuffer are functions of  *)
(* the numbers they hold a PDU for; seg[sn] is where the part of a PDU that   *)
(* m_retxSegBuffer still holds begins.                                       *)
Outstanding(t) == {sn \in Sns : Dist(t.vtA, sn) < Dist(t.vtA, t.vtS)}
WindowFull(t)  == Dist(t.vtA, t.vtS) = Window

\* DoReportBufferStatus: no report when there is nothing to send.
Reported(t) == IF t.buffer # <<>> \/ t.retx # <<>> THEN TRUE ELSE mac

\* PDCP hands over the next SDU; one that does not fit is discarded.
TransmitPdcpPdu ==
  /\ offered < Len(SduLen)
  /\ LET s    == offered + 1
         fits == BufferSize(tx.buffer) + SduLen[s] <= MaxTxBuffer
     IN  /\ offered' = s
         /\ accepted' = IF fits THEN Append(accepted, s) ELSE accepted
         /\ tx' = [tx EXCEPT !.buffer = IF fits THEN Append(@, FullSdu(s)) ELSE @,
                             !.rbsTimer = TRUE]
         /\ mac' = Reported(tx')
  /\ UNCHANGED <<bigEnough, channel, receiverVars, statuses, losses>>

\* A PDU with the poll bit starts or restarts t-PollRetransmit.
Polling(t, poll) ==
  IF poll THEN [t EXCEPT !.justExpired = FALSE, !.pollTimer = TRUE,
                         !.pollSn = (t.vtS - 1) % Modulus]
  ELSE t

\* What travels: a PDU, or the segment of it between two offsets.
AmPdu(pdu, poll, segment, from, to, lastSegment) ==
  [pdu |-> pdu, poll |-> poll, segment |-> segment, from |-> from, to |-> to,
   lastSegment |-> lastSegment]

\* Retransmission: the oldest PDU that waits, or what is left of it.
RetxSn == CHOOSE sn \in DOMAIN tx.retx :
            \A other \in DOMAIN tx.retx : Dist(tx.vtA, sn) <= Dist(tx.vtA, other)

\* The poll bit of a retransmission; m_retxBufferSize is compared with the size
\* of this packet, so that a segment never counts as the last one waiting.
RetxPolls(sn) ==
  \/ tx.buffer = <<>> /\ DOMAIN tx.retx = {sn} /\ sn \notin DOMAIN tx.seg
  \/ WindowFull(tx)
  \/ tx.justExpired

Retransmit(room) ==
  LET sn    == RetxSn
      pdu   == tx.retx[sn]
      from  == IF sn \in DOMAIN tx.seg THEN tx.seg[sn] ELSE 0
      poll  == RetxPolls(sn)
      t     == Polling(tx, poll)
      fits  == Size(pdu) - from <= room \/ bigEnough
  IN  /\ tx.retx # <<>>
      /\ IF fits
         THEN /\ channel' = Sent(channel, AmPdu(pdu, poll, sn \in DOMAIN tx.seg, from,
                                                Size(pdu), TRUE))
              /\ tx' = [t EXCEPT !.txed = With(@, sn, pdu), !.retx = Without(@, {sn}),
                                 !.seg = Without(@, {sn})]
         ELSE /\ channel' = Sent(channel, AmPdu(pdu, poll, TRUE, from, from + room, FALSE))
              /\ tx' = [t EXCEPT !.seg = With(@, sn, from + room)]

\* An opportunity that the whole header does not fit into: the poll has been
\* accounted for when nothing is sent after all.  (One that just takes the header
\* makes a segment without data: Retransmit(0).)
RetransmitNothing ==
  /\ tx.retx # <<>> /\ ~bigEnough
  /\ tx' = Polling(tx, RetxPolls(RetxSn))
  /\ channel' = channel

\* A new PDU is kept until it is acknowledged.
\* faulty: under the number of the PDU after it
KeptUnderNext(t, pdu) == LET next == (t.vtS + 1) % Modulus
                         IN  [t EXCEPT !.vtS = next, !.txed = With(@, next, pdu)]

Kept(t, pdu) == [t EXCEPT !.vtS = (@ + 1) % Modulus, !.txed = With(@, t.vtS, pdu)]

\* m_pollPdu is 1: each new PDU polls.
SendNewPdu(room) ==
  LET packed == Pack(tx.buffer, room)
      pdu    == DataPdu(tx.vtS, packed.data)
  IN  /\ tx.retx = <<>> /\ tx.buffer # <<>> /\ ~WindowFull(tx)
      /\ tx' = Polling(Kept([tx EXCEPT !.buffer = packed.rest], pdu), TRUE)
      /\ channel' = Sent(channel, AmPdu(pdu, TRUE, FALSE, 0, Size(pdu), TRUE))

\* Room 0 stands for an opportunity of less than 7 bytes.
SendNothing(room) ==
  /\ tx.retx = <<>> /\ (tx.buffer = <<>> \/ WindowFull(tx) \/ room = 0)
  /\ UNCHANGED <<tx, channel>>

\* The MAC grants the transmitting entity an opportunity of at least 4 bytes;
\* what it believes to be queued afterwards is its own estimate, which too small
\* a grant for the retransmission leaves nonzero.
NotifyTxOpportunity(room) ==
  /\ mac /\ Len(channel) < Harq
  /\ \/ Retransmit(room)
     \/ room > 0 /\ SendNewPdu(room)
     \/ room = 0 /\ RetransmitNothing
     \/ SendNothing(room)
  /\ mac' \in IF room = 0 /\ tx.retx # <<>> THEN {TRUE} ELSE BOOLEAN
  /\ UNCHANGED <<bigEnough, receiverVars, statuses, history>>

\* faulty: it is only kept running for data not yet sent
ExpireRbsTimerOnce ==
  /\ tx.rbsTimer
  /\ tx' = [tx EXCEPT !.rbsTimer = tx.buffer # <<>>]
  /\ mac' = IF tx.buffer # <<>> THEN Reported(tx) ELSE mac
  /\ UNCHANGED <<bigEnough, channel, receiverVars, statuses, history>>

ExpireRbsTimer ==
  /\ tx.rbsTimer
  /\ LET stays == tx.buffer # <<>> \/ tx.txed # <<>> \/ tx.retx # <<>>
     IN  /\ tx' = [tx EXCEPT !.rbsTimer = stays]
         /\ mac' = IF stays THEN Reported(tx) ELSE mac
  /\ UNCHANGED <<bigEnough, channel, receiverVars, statuses, history>>

\* faulty: m_txedBuffer is cleared even when its PDUs are not to be sent again
ExpirePollForgetting ==
  /\ tx.pollTimer
  /\ LET again == (tx.buffer = <<>> /\ tx.retx = <<>>) \/ WindowFull(tx)
     IN  tx' = [tx EXCEPT !.pollTimer = FALSE, !.justExpired = TRUE, !.txed = <<>>,
                          !.retx = IF again THEN Merged(@, tx.txed) ELSE @]
  /\ mac' = Reported(tx')
  /\ UNCHANGED <<bigEnough, channel, receiverVars, statuses, history>>

\* With nothing else to send, or a full window, all that was sent and not
\* acknowledged waits for retransmission again.
ExpirePollRetransmitTimer ==
  /\ tx.pollTimer
  /\ LET again == (tx.buffer = <<>> /\ tx.retx = <<>>) \/ WindowFull(tx)
     IN  tx' = [tx EXCEPT !.pollTimer = FALSE, !.justExpired = TRUE,
                          !.retx = IF again THEN Merged(@, tx.txed) ELSE @,
                          !.txed = IF again THEN <<>> ELSE @]
  /\ mac' = Reported(tx')
  /\ UNCHANGED <<bigEnough, channel, receiverVars, statuses, history>>

\* The numbers a STATUS PDU speaks about: VT(A) <= sn < ACK_SN, sn < VT(S).
\* faulty: ACK_SN itself is taken as acknowledged
ExaminedWithAck(t, status) ==
  {sn \in Outstanding(t) : Dist(t.vtA, sn) <= Dist(t.vtA, status.ack)}

Examined(t, status) ==
  {sn \in Outstanding(t) : Dist(t.vtA, sn) < Dist(t.vtA, status.ack)}

StatusTaken(t, status) ==
  LET examined == Examined(t, status)
      nacked   == examined \cap status.nacks
      open     == (Outstanding(t) \ examined) \union nacked \union {t.vtS}
  IN  [t EXCEPT
         !.vtA  = CHOOSE sn \in open : \A other \in open : Dist(t.vtA, sn) <= Dist(t.vtA, other),
         !.pollTimer = @ /\ t.pollSn \notin examined,
         !.retx = Without(Merged(Restrict(t.txed, nacked \cap DOMAIN t.txed), @),
                          examined \ nacked),
         !.txed = Without(@, examined),
         !.seg  = Without(@, examined \ nacked)]

RecvStatus(i) ==
  /\ \A j \in 1..(i - 1) : statuses[j].late < StatusDepth
  /\ statuses' = Arrived(statuses, i)
  /\ tx' = StatusTaken(tx, statuses[i].pdu)
  /\ UNCHANGED <<bigEnough, mac, channel, receiverVars, history>>

-----------------------------------------------------------------------------
(* The receiving entity.  The reception buffer holds, for a number, the PDU,  *)
(* up to which offset its last segment came, the size of what is kept of it,  *)
(* and m_pduComplete.                                                        *)
InWindow(s, sn)   == Dist(s.vrR, sn) < Window
CompleteAt(s, sn) == sn \in DOMAIN s.buffer /\ s.buffer[sn].complete

\* The first number from sn on of which not everything has come
FirstIncomplete(s, sn) ==
  LET n == CHOOSE k \in 0..Window :
             /\ ~CompleteAt(s, (sn + k) % Modulus)
             /\ \A j \in 0..(k - 1) : CompleteAt(s, (sn + j) % Modulus)
  IN  (sn + n) % Modulus

\* ReassembleAndDeliver.  Without losses a PDU must go on where the last one
\* stopped; one that does not fits no transition and its pieces stay behind.
ReassembleAndDeliver(r, pdu) ==
  LET noLoss == pdu.sn = r.expected
      pieces == r.left \o pdu.data
      next   == [r EXCEPT !.expected = (pdu.sn + 1) % Modulus]
  IN  CASE noLoss /\ r.waiting = pdu.first ->
             [next EXCEPT !.left = pieces]
        [] noLoss /\ r.waiting /\ ~pdu.first ->
             Complete(next, <<Join(r.keep, Head(pieces))>> \o Tail(pieces), pdu.last)
        [] pdu.first /\ ~(noLoss /\ r.waiting) ->
             Complete(next, pieces, pdu.last)
        [] ~noLoss /\ ~pdu.first ->
             Complete(next, Tail(pieces), pdu.last)

\* What the reception buffer holds after the first part of a PDU, and after another.
FirstEntry(p) ==
  [pdu |-> p.pdu, upto |-> p.to, size |-> p.to - p.from, complete |-> ~p.segment]
Extended(entry, p) ==
  [entry EXCEPT !.upto = p.to, !.size = @ + p.to - p.from, !.complete = @ \/ p.lastSegment]

\* faulty: a segment is appended wherever it begins
StoredWithoutOrder(s, p) ==
  LET sn == p.pdu.sn
  IN  IF sn \in DOMAIN s.buffer
      THEN IF ~p.segment THEN s
           ELSE [s EXCEPT !.buffer[sn] = Extended(s.buffer[sn], p)]
      ELSE [s EXCEPT !.buffer = With(@, sn, FirstEntry(p))]

\* A segment is only appended where the last one ended; any other throws away
\* what came of the PDU before.  A whole PDU does not replace segments of it.
Stored(s, p) ==
  LET sn    == p.pdu.sn
      entry == s.buffer[sn]
  IN  IF sn \in DOMAIN s.buffer
      THEN IF ~p.segment THEN s
           ELSE IF p.from = entry.upto
           THEN [s EXCEPT !.buffer[sn] = Extended(entry, p)]
           ELSE IF ~entry.complete THEN [s EXCEPT !.buffer = Without(@, {sn})]
           ELSE s
      ELSE IF p.from = 0
           THEN [s EXCEPT !.buffer = With(@, sn, FirstEntry(p))]
           ELSE s

\* VR(H) and VR(MS), whether or not the PDU was kept
Counted(s, sn) ==
  LET h == [s EXCEPT !.vrH = IF Dist(s.vrR, sn) >= Dist(s.vrR, @) THEN (sn + 1) % Modulus ELSE @]
  IN  [h EXCEPT !.vrMs = FirstIncomplete(h, @)]

Reassembled(r, buffer, sns) ==
  FoldLeft(LAMBDA acc, sn : ReassembleAndDeliver(acc, buffer[sn].pdu), r, sns)

\* faulty: what is complete beyond a gap goes to PDCP as well
DeliveredPastGap(s, sn) ==
  LET sns   == {k \in DOMAIN s.buffer : CompleteAt(s, k)}
      order == SetToSortSeq(sns, LAMBDA x, y : Dist(s.vrR, x) < Dist(s.vrR, y))
  IN  [s EXCEPT !.vrR = s.vrH, !.buffer = Without(@, sns),
                !.reassembly = Reassembled(@, s.buffer, order)]

\* What is complete from VR(R) on goes to PDCP.
Delivered(s, sn) ==
  LET high == FirstIncomplete(s, s.vrR)
      sns  == {k \in DOMAIN s.buffer : Dist(s.vrR, k) < Dist(s.vrR, high)}
      order == [i \in 1..Dist(s.vrR, high) |-> (s.vrR + i - 1) % Modulus]
  IN  IF sn # s.vrR THEN s
      ELSE [s EXCEPT !.vrR = high, !.buffer = Without(@, sns),
                     !.reassembly = Reassembled(@, s.buffer, order)]

Timed(s) ==
  LET stays == s.timer /\ s.vrX # s.vrR
               /\ (InWindow(s, s.vrX) \/ Dist(s.vrR, s.vrX) = Window)
      gap   == s.vrH # s.vrR
  IN  [s EXCEPT !.timer = stays \/ gap, !.vrX = IF ~stays /\ gap THEN s.vrH ELSE @]

\* Bound: no PDU is overtaken by one that is a whole window newer.  HARQ ends
\* long before 512 newer PDUs are sent; else an old duplicate looks like a new PDU.
NotAWindowAhead(i) ==
  \A j \in 1..(i - 1) : Dist(channel[j].pdu.pdu.sn, channel[i].pdu.pdu.sn) # Window

RecvData(i) ==
  /\ CanArrive(channel, i) /\ NotAWindowAhead(i)
  /\ channel' = Arrived(channel, i)
  /\ LET p == channel[i].pdu
     IN  /\ \E polled \in {[rx EXCEPT !.statusRequested = @ \/ p.poll]} :
              IF ~InWindow(rx, p.pdu.sn) THEN rx' = polled
              ELSE \E counted \in {Counted(Stored(polled, p), p.pdu.sn)} :
                     \E through \in {Delivered(counted, p.pdu.sn)} : rx' = Timed(through)
         /\ rxMac' = (rxMac \/ (p.poll /\ ~rx.prohibitTimer))
  /\ UNCHANGED <<bigEnough, senderVars, statuses, history>>

\* faulty: VR(MS) stays where it is
ExpireReorderingTimerStuck ==
  /\ rx.timer
  /\ rx' = [rx EXCEPT !.timer = FALSE, !.statusRequested = TRUE]
  /\ UNCHANGED <<bigEnough, senderVars, channel, rxMac, statuses, history>>

\* t-Reordering: the STATUS PDU is asked for, but no report tells the MAC.
ExpireReorderingTimer ==
  /\ rx.timer
  /\ LET vrMs == FirstIncomplete(rx, rx.vrX)
         gap  == Dist(rx.vrR, rx.vrH) > Dist(rx.vrR, vrMs)
     IN  rx' = [rx EXCEPT !.vrMs = vrMs, !.timer = gap, !.vrX = IF gap THEN rx.vrH ELSE @,
                          !.statusRequested = TRUE]
  /\ UNCHANGED <<bigEnough, senderVars, channel, rxMac, statuses, history>>

ExpireStatusProhibitTimer ==
  /\ rx.prohibitTimer
  /\ rx' = [rx EXCEPT !.prohibitTimer = FALSE]
  /\ UNCHANGED <<bigEnough, senderVars, channel, rxMac, statuses, history>>

\* A STATUS PDU with room for so many NACKs: the missing numbers from VR(R) on,
\* up to VR(MS) or until no more fit, and the first number not reported missing.
StatusPdu(room) ==
  LET missing == {n \in 0..(Dist(rx.vrR, rx.vrMs) - 1) : ~CompleteAt(rx, (rx.vrR + n) % Modulus)}
      fit     == {n \in missing : Cardinality({m \in missing : m <= n}) <= room}
      left    == missing \ fit
      ack     == IF left = {} THEN rx.vrMs
                 ELSE (rx.vrR + (CHOOSE n \in left : \A m \in left : n <= m)) % Modulus
  IN  [ack |-> ack, nacks |-> {(rx.vrR + n) % Modulus : n \in fit}]

\* The MAC grants the receiving entity an opportunity, used if a STATUS PDU is
\* due and not prohibited; there are no data to send this way.
NotifyStatusOpportunity(room) ==
  /\ rxMac /\ Len(statuses) < Harq
  /\ IF rx.statusRequested /\ ~rx.prohibitTimer
     THEN /\ statuses' = Sent(statuses, StatusPdu(room))
          /\ rx' = [rx EXCEPT !.statusRequested = FALSE, !.prohibitTimer = TRUE]
     ELSE UNCHANGED <<rx, statuses>>
  /\ rxMac' \in BOOLEAN
  /\ UNCHANGED <<bigEnough, senderVars, channel, history>>

-----------------------------------------------------------------------------
(* The lower layers lose a PDU.                                              *)
LoseData(i) ==
  /\ losses < MaxLost /\ losses' = losses + 1
  /\ channel' = RemoveAt(channel, i)
  /\ UNCHANGED <<bigEnough, senderVars, receiverVars, statuses, accepted, offered>>

LoseStatus(i) ==
  /\ losses < MaxLost /\ losses' = losses + 1
  /\ statuses' = RemoveAt(statuses, i)
  /\ UNCHANGED <<bigEnough, senderVars, channel, receiverVars, accepted, offered>>

AmNext ==
  \/ TransmitPdcpPdu \/ ExpireRbsTimer \/ ExpirePollRetransmitTimer
  \/ \E room \in Rooms : NotifyTxOpportunity(room)
  \/ \E i \in DOMAIN channel : RecvData(i) \/ LoseData(i)
  \/ \E i \in DOMAIN statuses : RecvStatus(i) \/ LoseStatus(i)
  \/ ExpireReorderingTimer \/ ExpireStatusProhibitTimer
  \/ \E room \in NackRooms : NotifyStatusOpportunity(room)

AmSpec == AmInit /\ [][AmNext]_vars

\* Timers expire, a MAC that knows of something to send grants an opportunity
\* that is large enough, and what the lower layers carry arrives or is given up:
\* weak fairness of each, with the condition that enables it spelled out.
Opportunity       == \E room \in Rooms \ {0} : NotifyTxOpportunity(room)
Arrival           == \E i \in DOMAIN channel : RecvData(i)
StatusOpportunity == \E room \in NackRooms : NotifyStatusOpportunity(room)
StatusArrival     == \E i \in DOMAIN statuses : RecvStatus(i)

AmFairness ==
  /\ []<>~(mac /\ Len(channel) < Harq) \/ []<><<Opportunity>>_vars
  /\ []<>(channel = <<>>) \/ []<><<Arrival>>_vars
  /\ []<>~(rxMac /\ Len(statuses) < Harq) \/ []<><<StatusOpportunity>>_vars
  /\ []<>(statuses = <<>>) \/ []<><<StatusArrival>>_vars
  /\ []<>~rx.timer \/ []<><<ExpireReorderingTimer>>_vars
  /\ []<>~rx.prohibitTimer \/ []<><<ExpireStatusProhibitTimer>>_vars
  /\ []<>~tx.pollTimer \/ []<><<ExpirePollRetransmitTimer>>_vars
  /\ WF_vars(ExpireRbsTimer)

AmFairSpec == AmSpec /\ AmFairness

-----------------------------------------------------------------------------
\* The shape of the state: state variables are sequence numbers and buffers
\* hold PDUs under their own numbers.
AmTypeOK ==
  /\ {tx.vtA, tx.vtS, tx.pollSn, rx.vrR, rx.vrX, rx.vrMs, rx.vrH} \subseteq Sns
  /\ {mac, rxMac, tx.pollTimer, tx.justExpired, tx.rbsTimer, rx.timer,
      rx.statusRequested, rx.prohibitTimer} \subseteq BOOLEAN
  /\ \A sn \in DOMAIN tx.txed : sn \in Sns /\ tx.txed[sn].sn = sn
  /\ \A sn \in DOMAIN tx.retx : sn \in Sns /\ tx.retx[sn].sn = sn
  /\ \A sn \in DOMAIN rx.buffer : sn \in Sns /\ rx.buffer[sn].pdu.sn = sn
  /\ offered \in 0..Len(SduLen) /\ losses \in 0..MaxLost

\* PDCP only ever gets whole SDUs: losses, cuts, segments of retransmissions and
\* duplicates never glue stretches of different SDUs together, and a PDU put
\* together from segments has neither holes nor bytes twice.
AmWhole ==
  /\ \A sn \in DOMAIN rx.buffer :
       rx.buffer[sn].complete => rx.buffer[sn].size = Size(rx.buffer[sn].pdu)
  /\ \A i \in DOMAIN rx.reassembly.out : Whole(rx.reassembly.out[i])
  /\ rx.reassembly.left = <<>>

\* The transmitter keeps, once, every PDU that the receiver has not completed,
\* and remembers nothing outside of its window: VT(A) and the two buffers never
\* run ahead of what has arrived.
Arrivedness(sn) == Dist(tx.vtA, sn) < Dist(tx.vtA, rx.vrR) \/ CompleteAt(rx, sn)

NothingForgotten ==
  /\ DOMAIN tx.txed \cap DOMAIN tx.retx = {}
  /\ DOMAIN tx.seg \subseteq DOMAIN tx.retx
  /\ DOMAIN tx.txed \union DOMAIN tx.retx \subseteq Outstanding(tx)
  /\ \A sn \in Outstanding(tx) \ (DOMAIN tx.txed \union DOMAIN tx.retx) : Arrivedness(sn)

\* The two windows stay in step: VT(A) <= VR(R) <= VR(MS) <= VR(H) <= VT(S),
\* counted from VT(A), with at most a window between VT(A) and VT(S).  So VT(A)
\* never passes a PDU that has not been received, as the comment on its update says.
WindowsInStep ==
  /\ Dist(tx.vtA, rx.vrR) <= Dist(tx.vtA, tx.vtS) /\ Dist(tx.vtA, tx.vtS) <= Window
  /\ Dist(tx.vtA, rx.vrR) <= Dist(tx.vtA, rx.vrMs)
  /\ Dist(tx.vtA, rx.vrMs) <= Dist(tx.vtA, rx.vrH)
  /\ Dist(tx.vtA, rx.vrH) <= Dist(tx.vtA, tx.vtS)

\* Whatever is missing is waited for by a running timer or below VR(MS), so that
\* the next STATUS PDU asks for it.
AmGapTimed == rx.timer \/ rx.vrMs = rx.vrH

\* A STATUS PDU that may come next asks again only for PDUs that the transmitter
\* still keeps (asserted in DoReceivePdu).
NackedIsKept ==
  \A i \in DOMAIN statuses :
    (\A j \in 1..(i - 1) : statuses[j].late < StatusDepth) =>
      Examined(tx, statuses[i].pdu) \cap statuses[i].pdu.nacks
        \subseteq DOMAIN tx.txed \union DOMAIN tx.retx

\* RLC keeps its promise to PDCP: the SDUs accepted come out whole, in order,
\* without gaps or repetitions.
Service           == INSTANCE RlcService
AmKeepsItsPromise == Service!AcknowledgedService

Underway(s) == /\ \E i \in DOMAIN accepted : accepted[i] = s
               /\ \A i \in DOMAIN delivered : delivered[i] # s

\* Every accepted SDU gets through, whatever is lost on the way, where
\* retransmissions are never cut: some timer or report always wakes one of the sides.
AmDelivers == \A s \in Sdus : (bigEnough /\ Underway(s)) ~> ~Underway(s)
=============================================================================
