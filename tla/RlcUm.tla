------------------------------- MODULE RlcUm --------------------------------
(***************************************************************************)
(* Unacknowledged mode: the transmitting entity of one bearer and its peer's *)
(* receiving entity (lte-rlc-um.cc), with the variant for low latency        *)
(* (lte-rlc-um-lowlat.cc), which reports its buffer differently.             *)
(***************************************************************************)
EXTENDS RlcPdu, FiniteSets, Functions

CONSTANTS
  Window,       \* m_windowSize (512): half of the sequence-number space
  Variants,     \* which classes may serve the bearer: "Um", "UmLowLat"
  MaxTxBuffer,  \* m_maxTxBufferSize
  MaxLost,      \* bound: how many PDUs the lower layers lose
  LossySns      \* bound: only the first so many PDUs may get lost

ASSUME UmAssumption == /\ Window \in Nat \ {0} /\ MaxTxBuffer \in Nat
                       /\ Variants # {} /\ Variants \subseteq {"Um", "UmLowLat"}
                       /\ MaxLost \in Nat /\ LossySns \in Nat

Modulus == 2 * Window
Sns     == 0..(Modulus - 1)

VARIABLES
  variant,   \* the class of the bearer's entities
  tx,        \* the transmitting entity
  mac,       \* TRUE: the MAC believes that this bearer has data queued
  channel,   \* the PDUs on their way
  rx,        \* the receiving entity
  accepted,  \* history: the SDUs taken into the transmission buffer
  offered,   \* history: how many SDUs PDCP has handed over
  losses,    \* history: how many PDUs the lower layers have lost
  missed     \* history: SDUs of which a PDU was lost or came too late

history == <<accepted, offered, losses, missed>>
vars    == <<variant, tx, mac, channel, rx, history>>

delivered == [i \in DOMAIN rx.reassembly.out |-> rx.reassembly.out[i].sdu]

UmInit ==
  /\ variant \in Variants
  /\ tx = [buffer |-> <<>>, sn |-> 0, sent |-> 0, rbsTimer |-> FALSE, bsrReported |-> FALSE]
  /\ mac = FALSE
  /\ channel = <<>>
  /\ rx = [ur |-> 0, ux |-> 0, uh |-> 0, timer |-> FALSE, buffer |-> <<>>,
           reassembly |-> Reassembly0]
  /\ accepted = <<>> /\ offered = 0 /\ losses = 0 /\ missed = {}

-----------------------------------------------------------------------------
(* The transmitting entity.                                                  *)

\* DoReportBufferStatus of the two classes: what the MAC believes afterwards.
Reported(buffer)    == buffer # <<>>
ReportedLowLat(buffer) == IF tx.bsrReported THEN mac ELSE Reported(buffer)

Fits(s) == BufferSize(tx.buffer) + SduLen[s] <= MaxTxBuffer

Enqueued(s) == IF Fits(s) THEN Append(tx.buffer, FullSdu(s)) ELSE tx.buffer

\* PDCP hands over the next SDU; one that does not fit is discarded.
Offer ==
  /\ offered < Len(SduLen)
  /\ offered' = offered + 1
  /\ accepted' = IF Fits(offered + 1) THEN Append(accepted, offered + 1) ELSE accepted
  /\ UNCHANGED <<variant, channel, rx, losses, missed>>

TransmitPdcpPdu ==
  /\ variant = "Um" /\ Offer
  /\ LET buffer == Enqueued(offered + 1)
     IN  /\ tx' = [tx EXCEPT !.buffer = buffer, !.rbsTimer = FALSE]
         /\ mac' = Reported(buffer)

TransmitPdcpPduLowLat ==
  /\ variant = "UmLowLat" /\ Offer
  /\ LET buffer == Enqueued(offered + 1)
     IN  /\ tx' = [tx EXCEPT !.buffer = buffer, !.rbsTimer = TRUE, !.bsrReported = TRUE]
         /\ mac' = ReportedLowLat(buffer)

\* The MAC grants a transmission opportunity.  What it believes to be queued
\* afterwards is its own estimate; a grant of two bytes leaves it nonzero.
Granted(room) ==
  /\ mac /\ Len(channel) < Harq
  /\ mac' \in IF room = 0 THEN {TRUE} ELSE BOOLEAN
  /\ UNCHANGED <<variant, rx, history>>

\* faulty: what is left over starts no timer
PackedWithoutTimer(room, bsrReported) ==
  LET packed == Pack(tx.buffer, room)
  IN  IF room = 0 \/ tx.buffer = <<>>
      THEN UNCHANGED <<tx, channel>>
      ELSE /\ tx' = [tx EXCEPT !.buffer = packed.rest, !.sn = (@ + 1) % Modulus,
                               !.sent = @ + 1, !.bsrReported = bsrReported]
           /\ channel' = Sent(channel, DataPdu(tx.sn, packed.data))

\* The new transmitter state once a PDU is built; nothing is built from an
\* empty buffer or for too small an opportunity.
Packed(room, bsrReported) ==
  LET packed == Pack(tx.buffer, room)
  IN  IF room = 0 \/ tx.buffer = <<>>
      THEN UNCHANGED <<tx, channel>>
      ELSE /\ tx' = [buffer |-> packed.rest, sn |-> (tx.sn + 1) % Modulus, sent |-> tx.sent + 1,
                     rbsTimer |-> packed.rest # <<>> \/ tx.rbsTimer,
                     bsrReported |-> bsrReported]
           /\ channel' = Sent(channel, DataPdu(tx.sn, packed.data))

NotifyTxOpportunity(room) ==
  /\ variant = "Um" /\ Granted(room)
  /\ Packed(room, tx.bsrReported)

NotifyTxOpportunityLowLat(room) ==
  /\ variant = "UmLowLat" /\ Granted(room)
  /\ Packed(room, FALSE)

ExpireRbsTimer ==
  /\ tx.rbsTimer /\ variant = "Um"
  /\ tx' = [tx EXCEPT !.rbsTimer = tx.buffer # <<>>]
  /\ mac' = IF tx.buffer # <<>> THEN Reported(tx.buffer) ELSE mac
  /\ UNCHANGED <<variant, channel, rx, history>>

ExpireRbsTimerLowLat ==
  /\ tx.rbsTimer /\ variant = "UmLowLat"
  /\ tx' = [tx EXCEPT !.rbsTimer = tx.buffer # <<>>]
  /\ mac' = IF tx.buffer # <<>> THEN ReportedLowLat(tx.buffer) ELSE mac
  /\ UNCHANGED <<variant, channel, rx, history>>

-----------------------------------------------------------------------------
(* The receiving entity.  SequenceNumber10 compares numbers by their         *)
(* distance from the lower edge of the reordering window, VR(UH) - Window.   *)
Offset(uh, sn)                   == (sn - uh + Window) % Modulus
IsInsideReorderingWindow(uh, sn) == Offset(uh, sn) < Window

\* Nothing between the last PDU reassembled and this one is missing.
\* faulty: not checked
NoLossSupposed(r, pdu) == TRUE

NoLoss(r, pdu) == pdu.sn = r.expected

\* ReassembleAndDeliver of one PDU.  When PDUs are missing a kept start is of no
\* use; the rest of an SDU whose start is unknown is dropped; a first byte where
\* the rest of an SDU is due fits no transition and its pieces stay behind.
ReassembleAndDeliver(r, pdu) ==
  LET noLoss == NoLoss(r, pdu)
      pieces == r.left \o pdu.data
      next   == [r EXCEPT !.expected = (pdu.sn + 1) % Modulus]
  IN  CASE r.waiting /\ noLoss /\ pdu.first ->
             [next EXCEPT !.left = pieces]
        [] r.waiting /\ noLoss /\ ~pdu.first ->
             Complete(next, <<Join(r.keep, Head(pieces))>> \o Tail(pieces), pdu.last)
        [] ~(r.waiting /\ noLoss) /\ pdu.first ->
             Complete(next, pieces, pdu.last)
        [] ~(r.waiting /\ noLoss) /\ ~pdu.first ->
             Complete(next, Tail(pieces), pdu.last)

\* What is buffered under the numbers of a sequence, one after the other.
Reassembled(r, buffer, sns) ==
  FoldLeft(LAMBDA acc, sn : IF sn \in DOMAIN buffer THEN ReassembleAndDeliver(acc, buffer[sn])
                            ELSE acc,
           r, sns)

Without(buffer, sns) == Restrict(buffer, DOMAIN buffer \ sns)

\* ReassembleOutsideWindow: the buffer is a std::map, walked from its smallest
\* key up to the first one inside the window.
OutsideWindow(uh, buffer) ==
  {sn \in DOMAIN buffer :
     \A low \in DOMAIN buffer : low <= sn => ~IsInsideReorderingWindow(uh, low)}

ReassembleOutsideWindow(s) ==
  LET sns == OutsideWindow(s.uh, s.buffer)
  IN  [s EXCEPT !.buffer = Without(@, sns),
                !.reassembly = Reassembled(@, Restrict(s.buffer, sns),
                                           [i \in 1..Modulus |-> i - 1])]

\* ReassembleSnInterval(low, high), from VR(UR) to its new value
ReassembleSnInterval(s, high) ==
  LET count == Offset(s.uh, high) - Offset(s.uh, s.ur)
      sns   == [i \in 1..count |-> (s.ur + i - 1) % Modulus]
  IN  [s EXCEPT !.ur = high,
                !.buffer = Without(@, Range(sns)),
                !.reassembly = Reassembled(@, s.buffer, sns)]

\* A PDU beyond the window moves it.
MoveWindow(s, sn) ==
  IF IsInsideReorderingWindow(s.uh, sn) THEN s
  ELSE LET moved == ReassembleOutsideWindow([s EXCEPT !.uh = (sn + 1) % Modulus])
       IN  IF IsInsideReorderingWindow(moved.uh, moved.ur) THEN moved
           ELSE [moved EXCEPT !.ur = (moved.uh - Window) % Modulus]

\* faulty: the value of the uint16_t is taken as it is
FirstMissingUnwrapped(s) ==
  CHOOSE n \in (s.ur + 1)..Modulus :
     /\ n \notin DOMAIN s.buffer
     /\ \A k \in (s.ur + 1)..(n - 1) : k \in DOMAIN s.buffer

\* The first number above VR(UR) that is not buffered.  It is sought in a
\* uint16_t, which does not wrap at the modulus as the buffer's keys do.
FirstMissing(s) ==
  (CHOOSE n \in (s.ur + 1)..Modulus :
     /\ n \notin DOMAIN s.buffer
     /\ \A k \in (s.ur + 1)..(n - 1) : k \in DOMAIN s.buffer) % Modulus

AdvanceVrUr(s) ==
  IF s.ur \in DOMAIN s.buffer THEN ReassembleSnInterval(s, FirstMissing(s)) ELSE s

\* faulty: a timer that was stopped is not started again
TimedOnce(s) ==
  LET stays == s.timer /\ Offset(s.uh, s.ux) > Offset(s.uh, s.ur)
      gap   == ~s.timer /\ Offset(s.uh, s.uh) > Offset(s.uh, s.ur)
  IN  [s EXCEPT !.timer = stays \/ gap, !.ux = IF gap THEN s.uh ELSE @]

\* t-Reordering after a PDU was placed: stopped when what it waited for has
\* come or left the window, started when there is a gap.
Timed(s) ==
  LET stays == /\ s.timer
               /\ Offset(s.uh, s.ux) > Offset(s.uh, s.ur)
               /\ IsInsideReorderingWindow(s.uh, s.ux) \/ s.ux = s.uh
      gap   == Offset(s.uh, s.uh) > Offset(s.uh, s.ur)
  IN  [s EXCEPT !.timer = stays \/ gap, !.ux = IF ~stays /\ gap THEN s.uh ELSE @]

\* A PDU that is buffered already, or that has been given up.
\* faulty: what has been given up is placed in the buffer
DiscardedIfTwice(sn) ==
  /\ Offset(rx.uh, rx.ur) < Offset(rx.uh, sn) /\ Offset(rx.uh, sn) < Window
  /\ sn \in DOMAIN rx.buffer

Discarded(sn) ==
  \/ /\ Offset(rx.uh, rx.ur) < Offset(rx.uh, sn) /\ Offset(rx.uh, sn) < Window
     /\ sn \in DOMAIN rx.buffer
  \/ Offset(rx.uh, sn) < Offset(rx.uh, rx.ur)

Placed(pdu) ==
  [rx EXCEPT !.buffer = [sn \in DOMAIN @ \union {pdu.sn} |-> IF sn = pdu.sn THEN pdu ELSE @[sn]]]

ReceivePdu(i) ==
  /\ CanArrive(channel, i)
  /\ channel' = Arrived(channel, i)
  /\ LET pdu == channel[i].pdu
     IN  IF Discarded(pdu.sn)
         THEN rx' = rx /\ missed' = missed \union SdusOf(pdu)
         ELSE /\ \E moved \in {MoveWindow(Placed(pdu), pdu.sn)} :
                   \E advanced \in {AdvanceVrUr(moved)} : rx' = Timed(advanced)
              /\ missed' = missed
  /\ UNCHANGED <<variant, tx, mac, accepted, offered, losses>>

ExpireReorderingTimer ==
  /\ rx.timer
  /\ LET above == CHOOSE n \in 0..Window :
                    /\ (rx.ux + n) % Modulus \notin DOMAIN rx.buffer
                    /\ \A k \in 0..(n - 1) : (rx.ux + k) % Modulus \in DOMAIN rx.buffer
         s     == ReassembleSnInterval(rx, (rx.ux + above) % Modulus)
         gap   == Offset(s.uh, s.uh) > Offset(s.uh, s.ur)
     IN  rx' = [s EXCEPT !.timer = gap, !.ux = IF gap THEN s.uh ELSE @]
  /\ UNCHANGED <<variant, tx, mac, channel, history>>

\* HARQ gives up on a PDU.
Lose(i) ==
  /\ tx.sent <= LossySns /\ losses < MaxLost
  /\ losses' = losses + 1
  /\ channel' = RemoveAt(channel, i)
  /\ missed' = missed \union SdusOf(channel[i].pdu)
  /\ UNCHANGED <<variant, tx, mac, rx, accepted, offered>>

-----------------------------------------------------------------------------
UmNext ==
  \/ TransmitPdcpPdu \/ TransmitPdcpPduLowLat
  \/ \E room \in Rooms : NotifyTxOpportunity(room) \/ NotifyTxOpportunityLowLat(room)
  \/ ExpireRbsTimer \/ ExpireRbsTimerLowLat
  \/ \E i \in DOMAIN channel : ReceivePdu(i) \/ Lose(i)
  \/ ExpireReorderingTimer

UmSpec == UmInit /\ [][UmNext]_vars

\* Timers expire, a MAC that knows of data grants an opportunity that is large
\* enough, and what the lower layers carry arrives or is given up: weak fairness
\* of each, with the condition under which it can change the state spelled out.
Opportunity == \E room \in Rooms \ {0} :
                 NotifyTxOpportunity(room) \/ NotifyTxOpportunityLowLat(room)
Arrival     == \E i \in DOMAIN channel : ReceivePdu(i)

UmFairness ==
  /\ []<>~(mac /\ Len(channel) < Harq) \/ []<><<Opportunity>>_vars
  /\ []<>(channel = <<>>) \/ []<><<Arrival>>_vars
  /\ []<>~rx.timer \/ []<><<ExpireReorderingTimer>>_vars
  /\ WF_vars(ExpireRbsTimer \/ ExpireRbsTimerLowLat)

UmFairSpec == UmSpec /\ UmFairness

-----------------------------------------------------------------------------
\* The shape of the state: every number is a sequence number, the buffers hold
\* pieces of SDUs and PDUs under their own numbers.
UmTypeOK ==
  /\ variant \in Variants /\ mac \in BOOLEAN
  /\ {tx.sn, rx.ur, rx.ux, rx.uh, rx.reassembly.expected} \subseteq Sns
  /\ {tx.rbsTimer, tx.bsrReported, rx.timer, rx.reassembly.waiting} \subseteq BOOLEAN
  /\ \A i \in DOMAIN tx.buffer : tx.buffer[i].sdu \in Sdus /\ tx.buffer[i].len > 0
  /\ DOMAIN rx.buffer \subseteq Sns
  /\ \A sn \in DOMAIN rx.buffer : rx.buffer[sn].sn = sn
  /\ offered \in 0..Len(SduLen) /\ missed \subseteq Sdus

\* PDCP only ever gets whole SDUs: losses, cuts and reordering never glue
\* stretches of different SDUs together, and no piece is left behind by a PDU
\* that fits no transition of ReassembleAndDeliver.
UmWhole ==
  /\ \A i \in DOMAIN rx.reassembly.out : Whole(rx.reassembly.out[i])
  /\ rx.reassembly.left = <<>>

\* Whatever waits for a missing PDU is waited for by a running timer: with a gap
\* t-Reordering runs, VR(UX) lies in the gap's reach, and only numbers from the
\* gap up to VR(UH) are buffered.  Otherwise received SDUs would never get out.
UmGapTimed ==
  /\ rx.timer <=> rx.ur # rx.uh
  /\ rx.timer => /\ Offset(rx.uh, rx.ur) < Offset(rx.uh, rx.ux)
                 /\ Offset(rx.uh, rx.ux) <= Window
  /\ \A sn \in DOMAIN rx.buffer :
       Offset(rx.uh, rx.ur) <= Offset(rx.uh, sn) /\ Offset(rx.uh, sn) < Window

\* RLC keeps its promise to PDCP: a delivered SDU was accepted, and none is
\* repeated or overtakes another, through losses, reordering and wrapped numbers.
\* (With PDUs of both ends of the number space buffered it fails: LossySns keeps
\* the losses away from the wrap.)
Service           == INSTANCE RlcService
UmKeepsItsPromise == Service!UnacknowledgedService

\* Every accepted SDU gets through unless a PDU with a part of it was lost or
\* came after t-Reordering had given it up: a report that goes unanswered, a gap
\* or a wrapped number may delay an SDU but not strand it.
UmDelivers ==
  \A s \in Sdus : (\E i \in DOMAIN accepted : accepted[i] = s)
                    ~> (s \in missed \/ \E i \in DOMAIN delivered : delivered[i] = s)
=============================================================================
