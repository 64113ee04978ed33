------------------------------- MODULE RlcPdu -------------------------------
(***************************************************************************)
(* What the RLC entities of lte-rlc-um.cc, lte-rlc-um-lowlat.cc and          *)
(* lte-rlc-am.cc have in common: SDUs cut and concatenated into the data     *)
(* field of a PDU, their reassembly at the other end, and the lower layers   *)
(* that carry PDUs from one entity to its peer.                              *)
(*                                                                         *)
(* Lengths are counted in units large enough to absorb header bytes: "at     *)
(* most two bytes are left" and "nothing is left" are the same here.         *)
(***************************************************************************)
EXTENDS Integers, Sequences, SequencesExt

CONSTANTS
  SduLen,  \* SduLen[s]: the length of the s-th SDU
  MaxLi,   \* the longest piece a length indicator describes (2047 bytes)
  Rooms,   \* the sizes of transmission opportunities; 0 is too small for any PDU
  Harq,    \* bound: PDUs the lower layers hold in one direction (HARQ processes)
  Depth    \* bound: how many later PDUs may overtake one PDU

ASSUME RlcSduAssumption     == SduLen \in Seq(Nat \ {0}) /\ MaxLi \in Nat \ {0}
ASSUME RlcChannelAssumption == Rooms \subseteq Nat /\ Harq \in Nat \ {0} /\ Depth \in Nat

Sdus == 1..Len(SduLen)

\* A stretch of an SDU; one that mixes stretches that do not fit is Junk.
Piece(s, from, len) == [sdu |-> s, from |-> from, len |-> len]
Junk                == Piece(0, 0, 0)
Whole(p)            == p.sdu \in Sdus /\ p = Piece(p.sdu, 0, SduLen[p.sdu])

\* Packet::AddAtEnd of the next segment to the kept one
Join(p, q) == IF p.sdu = q.sdu /\ p.from + p.len = q.from
              THEN Piece(p.sdu, p.from, p.len + q.len)
              ELSE Junk

-----------------------------------------------------------------------------
(* The transmission buffer holds pieces tagged with LteRlcSduStatusTag.      *)
Tagged(s, from, len, status) ==
  [sdu |-> s, from |-> from, len |-> len, status |-> status]
FullSdu(s) == Tagged(s, 0, SduLen[s], "FULL")

\* The part that goes into the PDU and the part that is given back.  Only a
\* piece that is FULL or LAST is ever cut.
FrontOf(p, n) ==
  Tagged(p.sdu, p.from, n, IF n = p.len THEN p.status
                           ELSE IF p.status = "FULL" THEN "FIRST" ELSE "MIDDLE")
RestOf(p, n)  == Tagged(p.sdu, p.from + n, p.len - n, "LAST")

\* One turn of the packing loop: cut the piece, end with it, or go on.
PackPiece(acc, p) ==
  IF acc.room = 0
  THEN [acc EXCEPT !.rest = Append(@, p)]
  ELSE LET n == IF p.len > acc.room THEN acc.room ELSE p.len
       IN  [data |-> Append(acc.data, FrontOf(p, n)),
            rest |-> IF n < p.len THEN <<RestOf(p, n)>> ELSE <<>>,
            room |-> IF p.len > MaxLi THEN 0 ELSE acc.room - n]

Pack(buffer, room) ==
  FoldLeft(PackPiece, [data |-> <<>>, rest |-> <<>>, room |-> room], buffer)

\* The framing information is read off the tags, which do not travel.
DataPdu(sn, data) ==
  [sn    |-> sn,
   first |-> Head(data).status \in {"FULL", "FIRST"},
   last  |-> data[Len(data)].status \in {"FULL", "LAST"},
   data  |-> [i \in DOMAIN data |-> Piece(data[i].sdu, data[i].from, data[i].len)]]

BufferSize(buffer) == FoldLeft(LAMBDA n, p : n + p.len, 0, buffer)
SdusOf(pdu)        == {pdu.data[i].sdu : i \in DOMAIN pdu.data}

-----------------------------------------------------------------------------
(* The reassembly of a receiving entity: the expected SN, whether the start  *)
(* of an SDU is kept and which, pieces left in m_sdusBuffer by a PDU that     *)
(* fits no transition, and what was passed to PDCP.                           *)
Reassembly0 == [expected |-> 0, waiting |-> FALSE, keep |-> Junk, left |-> <<>>, out |-> <<>>]

\* The pieces that can be used, then either all are whole or the last is kept.
Complete(r, usable, lastByte) ==
  LET n == Len(usable)
  IN  IF lastByte \/ n = 0
      THEN [r EXCEPT !.waiting = FALSE, !.keep = Junk, !.left = <<>>, !.out = @ \o usable]
      ELSE [r EXCEPT !.waiting = TRUE, !.keep = usable[n], !.left = <<>>,
                     !.out = @ \o SubSeq(usable, 1, n - 1)]

-----------------------------------------------------------------------------
(* The lower layers in one direction, in the order of sending.  HARQ lets    *)
(* PDUs overtake one another, up to Depth times each, and gives up on some.   *)
Sent(channel, pdu)    == Append(channel, [pdu |-> pdu, late |-> 0])
CanArrive(channel, i) == \A j \in 1..(i - 1) : channel[j].late < Depth
Arrived(channel, i)   ==
  RemoveAt([j \in DOMAIN channel |->
              IF j < i THEN [channel[j] EXCEPT !.late = @ + 1] ELSE channel[j]], i)
=============================================================================
