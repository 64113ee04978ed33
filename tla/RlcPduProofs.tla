---------------------------- MODULE RlcPduProofs -----------------------------
(***************************************************************************)
(* What the operators of RlcPdu do for every input: the size of a buffer,     *)
(* what the packing loop puts into a PDU and gives back, and what sending,   *)
(* arrival and loss make of the PDUs on their way.  Buffered and Carries say  *)
(* which places of the stream of accepted SDUs a buffer and a PDU hold.       *)
(*                                                                         *)
(* Both are folds.  FoldLeft is a recursive function on the subsets of the   *)
(* positions that takes the last position first; each lemma ...Steps shows   *)
(* that there is such a function, by induction over the length, and reads    *)
(* the accumulators after 0, 1, 2 ... elements off it.                       *)
(***************************************************************************)
EXTENDS RlcPdu, SequenceTheorems, NatFacts

\* The greatest number of a set of positions.
LEMMA MaxIs ==
  ASSUME NEW s, NEW m \in s, s \subseteq Nat, \A y \in s : y <= m
  PROVE  Max(s) = m
<1>1. \A x \in s : (\A y \in s : x >= y) => x = m
  OBVIOUS
<1>2. m \in s /\ \A y \in s : m >= y
  OBVIOUS
<1> QED
  BY <1>1, <1>2 DEF Max

\* The last of the positions 1 to k, and the others.
LEMMA LastPosition ==
  ASSUME NEW k \in Nat \ {0}
  PROVE  Max(1..k) = k /\ 1..k # {} /\ (1..k) \ {Max(1..k)} = 1..(k - 1)
<1>1. Max(1..k) = k
  <2>1. k \in 1..k /\ 1..k \subseteq Nat /\ \A y \in 1..k : y <= k
    OBVIOUS
  <2> QED
    BY <2>1, MaxIs
<1> QED
  BY <1>1

\* A set of positions up to n + 1 has its last one at n + 1 or is one up to n,
\* and so is what is left without the last one.
LEMMA OnePositionMore ==
  ASSUME NEW n \in Nat, NEW s \in SUBSET (1..(n + 1)), s # {}
  PROVE  /\ Max(s) \in s
         /\ s \ {Max(s)} \in SUBSET (1..n)
         /\ n + 1 \in s => Max(s) = n + 1
<1>1. CASE n + 1 \in s
  <2>1. \A y \in s : y <= n + 1
    OBVIOUS
  <2>2. Max(s) = n + 1
    <3>1. s \subseteq Nat
      OBVIOUS
    <3> QED
      BY <1>1, <2>1, <3>1, MaxIs
  <2> QED
    BY <1>1, <2>2
<1>2. CASE n + 1 \notin s
  <2>1. s \subseteq 1..n
    BY <1>2
  <2>2. PICK m \in s : \A y \in s : y <= m
    <3> DEFINE D == {n - y : y \in s}
    <3>1. D \subseteq Nat /\ D # {}
      <4>1. \A y \in s : n - y \in Nat
        BY <2>1
      <4>2. PICK y \in s : TRUE
        OBVIOUS
      <4> QED
        BY <4>1, <4>2
    <3>2. PICK d \in D : \A e \in D : d <= e
      <4> HIDE DEF D
      <4> QED
        BY <3>1, NatLeast
    <3>3. PICK m \in s : d = n - m
      BY <3>2
    <3>4. \A y \in s : n - m <= n - y
      BY <3>2, <3>3
    <3> QED
      BY <2>1, <3>4
  <2>3. Max(s) = m
    <3>1. s \subseteq Nat
      BY <2>1
    <3> QED
      BY <2>2, <3>1, MaxIs
  <2> QED
    BY <1>2, <2>1, <2>3
<1> QED
  BY <1>1, <1>2

-----------------------------------------------------------------------------
(* The size of a buffer.                                                   *)

\* The sizes of the beginnings of a buffer, the last of which is its own.
LEMMA SizeSteps ==
  ASSUME NEW q, NEW n \in Nat, DOMAIN q = 1..n
  PROVE  \E h : /\ h[0] = 0 /\ h[n] = BufferSize(q)
                /\ \A k \in 1..n : h[k] = h[k - 1] + q[k].len
<1> DEFINE Iter(f, m) == f = [s \in SUBSET (1..m) |->
                                IF s = {} THEN 0 ELSE f[s \ {Max(s)}] + q[Max(s)].len]
           S == {m \in Nat : \E f : Iter(f, m)}
<1>1. 0 \in S
  <2> DEFINE f == [s \in SUBSET (1..0) |-> 0]
  <2>1. Iter(f, 0)
    <3>1. \A s \in SUBSET (1..0) : s = {}
      OBVIOUS
    <3> QED
      BY <3>1
  <2> QED
    BY <2>1
<1>2. ASSUME NEW m \in Nat, m \in S PROVE m + 1 \in S
  <2>1. PICK f : Iter(f, m)
    BY <1>2
  <2> DEFINE g == [s \in SUBSET (1..(m + 1)) |->
                     IF m + 1 \notin s THEN f[s] ELSE f[s \ {m + 1}] + q[m + 1].len]
  <2>2. ASSUME NEW s \in SUBSET (1..(m + 1))
        PROVE  g[s] = IF s = {} THEN 0 ELSE g[s \ {Max(s)}] + q[Max(s)].len
    <3>1. CASE s = {}
      <4>1. g[s] = f[s] /\ s \in SUBSET (1..m)
        BY <3>1
      <4> HIDE DEF g
      <4> QED
        BY <2>1, <3>1, <4>1
    <3>2. CASE s # {}
      <4>1. /\ Max(s) \in s /\ s \ {Max(s)} \in SUBSET (1..m)
            /\ m + 1 \in s => Max(s) = m + 1
        BY <3>2, OnePositionMore
      <4>2. g[s \ {Max(s)}] = f[s \ {Max(s)}]
        BY <4>1
      <4>3. CASE m + 1 \in s
        <5>1. g[s] = f[s \ {m + 1}] + q[m + 1].len
          BY <4>3
        <5> HIDE DEF g
        <5> QED
          BY <3>2, <4>1, <4>2, <4>3, <5>1
      <4>4. CASE m + 1 \notin s
        <5>1. g[s] = f[s] /\ s \in SUBSET (1..m)
          BY <4>4
        <5> HIDE DEF g
        <5>2. f[s] = f[s \ {Max(s)}] + q[Max(s)].len
          BY <2>1, <3>2, <5>1
        <5> QED
          BY <3>2, <4>2, <5>1, <5>2
      <4> QED
        BY <4>3, <4>4
    <3> QED
      BY <3>1, <3>2
  <2>3. Iter(g, m + 1)
    <3>1. g = [s \in SUBSET (1..(m + 1)) |-> g[s]]
      OBVIOUS
    <3> HIDE DEF g
    <3> QED
      BY <2>2, <3>1
  <2> HIDE DEF g, Iter
  <2> QED
    BY <2>3
<1>3. \E f : Iter(f, n)
  <2>1. n \in S
    <3> HIDE DEF S
    <3> QED
      BY <1>1, <1>2, NatInd
  <2> QED
    BY <2>1
<1> DEFINE f == CHOOSE f : Iter(f, n)
           h == [k \in 0..n |-> f[1..k]]
<1>4. Iter(f, n)
  BY <1>3
<1>5. BufferSize(q) = f[1..n]
  BY DEF BufferSize, FoldLeft, MapThenFoldSet
<1> HIDE DEF f
<1>6. h[0] = 0
  <2>1. 1..0 = {} /\ {} \in SUBSET (1..n)
    OBVIOUS
  <2>2. f[{}] = 0
    BY <1>4, <2>1
  <2> QED
    BY <2>1, <2>2
<1>7. ASSUME NEW k \in 1..n PROVE h[k] = h[k - 1] + q[k].len
  <2>1. Max(1..k) = k /\ 1..k # {} /\ (1..k) \ {Max(1..k)} = 1..(k - 1)
    <3>1. k \in Nat \ {0}
      OBVIOUS
    <3> QED
      BY <3>1, LastPosition
  <2>2. f[1..k] = f[(1..k) \ {Max(1..k)}] + q[Max(1..k)].len
    <3>1. 1..k \in SUBSET (1..n)
      OBVIOUS
    <3> QED
      BY <1>4, <2>1, <3>1
  <2>3. h[k] = f[1..k] /\ h[k - 1] = f[1..(k - 1)]
    OBVIOUS
  <2> HIDE DEF h
  <2> QED
    BY <2>1, <2>2, <2>3
<1>8. h[n] = f[1..n]
  OBVIOUS
<1> HIDE DEF h
<1> QED
  BY <1>5, <1>6, <1>7, <1>8

\* The size of a buffer of pieces that are not empty is a number, 0 for no piece.
LEMMA SizeIs ==
  ASSUME NEW q, NEW n \in Nat, DOMAIN q = 1..n, \A k \in 1..n : q[k].len \in Nat \ {0}
  PROVE  BufferSize(q) \in Nat /\ (n > 0 => BufferSize(q) > 0)
<1>1. PICK h : /\ h[0] = 0 /\ h[n] = BufferSize(q)
               /\ \A k \in 1..n : h[k] = h[k - 1] + q[k].len
  BY SizeSteps
<1> DEFINE S == {m \in Nat : m <= n => h[m] \in Nat /\ (m > 0 => h[m] > 0)}
<1>2. 0 \in S
  BY <1>1
<1>3. ASSUME NEW m \in Nat, m \in S PROVE m + 1 \in S
  <2>1. CASE m + 1 <= n
    <3>1. m + 1 \in 1..n /\ h[m] \in Nat /\ m + 1 - 1 = m
      BY <1>3, <2>1
    <3>2. h[m + 1] = h[m] + q[m + 1].len /\ q[m + 1].len \in Nat \ {0}
      BY <1>1, <3>1
    <3> QED
      BY <3>1, <3>2
  <2>2. CASE ~(m + 1 <= n)
    BY <2>2
  <2> QED
    BY <2>1, <2>2
<1>4. n \in S
  <2> HIDE DEF S
  <2> QED
    BY <1>2, <1>3, NatInd
<1> QED
  BY <1>1, <1>4

-----------------------------------------------------------------------------
(* The packing loop.                                                       *)

\* h[k] is what the packing loop has made of the first k pieces of the buffer.
PackTurns(h, q, room, n) ==
  /\ h[0] = [data |-> <<>>, rest |-> <<>>, room |-> room]
  /\ h[n] = Pack(q, room)
  /\ \A k \in 1..n : h[k] = PackPiece(h[k - 1], q[k])

\* The packing loop after 0, 1, 2 ... pieces of the buffer.
LEMMA PackSteps ==
  ASSUME NEW q, NEW room, NEW n \in Nat, DOMAIN q = 1..n
  PROVE  \E h : PackTurns(h, q, room, n)
<1> DEFINE base == [data |-> <<>>, rest |-> <<>>, room |-> room]
           Iter(f, m) == f = [s \in SUBSET (1..m) |->
                                IF s = {} THEN base ELSE PackPiece(f[s \ {Max(s)}], q[Max(s)])]
           S == {m \in Nat : \E f : Iter(f, m)}
<1>1. 0 \in S
  <2> DEFINE f == [s \in SUBSET (1..0) |-> base]
  <2>1. Iter(f, 0)
    <3>1. \A s \in SUBSET (1..0) : s = {}
      OBVIOUS
    <3> QED
      BY <3>1
  <2> QED
    BY <2>1
<1>2. ASSUME NEW m \in Nat, m \in S PROVE m + 1 \in S
  <2>1. PICK f : Iter(f, m)
    BY <1>2
  <2> HIDE DEF base
  <2> DEFINE g == [s \in SUBSET (1..(m + 1)) |->
                     IF m + 1 \notin s THEN f[s] ELSE PackPiece(f[s \ {m + 1}], q[m + 1])]
  <2>2. ASSUME NEW s \in SUBSET (1..(m + 1))
        PROVE  g[s] = IF s = {} THEN base ELSE PackPiece(g[s \ {Max(s)}], q[Max(s)])
    <3>1. CASE s = {}
      <4>1. g[s] = f[s] /\ s \in SUBSET (1..m)
        BY <3>1
      <4> HIDE DEF g
      <4> QED
        BY <2>1, <3>1, <4>1
    <3>2. CASE s # {}
      <4>1. /\ Max(s) \in s /\ s \ {Max(s)} \in SUBSET (1..m)
            /\ m + 1 \in s => Max(s) = m + 1
        BY <3>2, OnePositionMore
      <4>2. g[s \ {Max(s)}] = f[s \ {Max(s)}]
        BY <4>1
      <4>3. CASE m + 1 \in s
        <5>1. g[s] = PackPiece(f[s \ {m + 1}], q[m + 1])
          BY <4>3
        <5> HIDE DEF g
        <5> QED
          BY <3>2, <4>1, <4>2, <4>3, <5>1
      <4>4. CASE m + 1 \notin s
        <5>1. g[s] = f[s] /\ s \in SUBSET (1..m)
          BY <4>4
        <5> HIDE DEF g
        <5>2. f[s] = PackPiece(f[s \ {Max(s)}], q[Max(s)])
          BY <2>1, <3>2, <5>1
        <5> QED
          BY <3>2, <4>2, <5>1, <5>2
      <4> QED
        BY <4>3, <4>4
    <3> QED
      BY <3>1, <3>2
  <2>3. Iter(g, m + 1)
    <3>1. g = [s \in SUBSET (1..(m + 1)) |-> g[s]]
      OBVIOUS
    <3> HIDE DEF g
    <3> QED
      BY <2>2, <3>1
  <2> HIDE DEF g, Iter
  <2> QED
    BY <2>3
<1>3. \E f : Iter(f, n)
  <2>1. n \in S
    <3> HIDE DEF S
    <3> QED
      BY <1>1, <1>2, NatInd
  <2> QED
    BY <2>1
<1> DEFINE f == CHOOSE f : Iter(f, n)
           h == [k \in 0..n |-> f[1..k]]
<1>4. Iter(f, n)
  BY <1>3
<1>5. Pack(q, room) = f[1..n] /\ base = [data |-> <<>>, rest |-> <<>>, room |-> room]
  BY DEF Pack, FoldLeft, MapThenFoldSet
<1> HIDE DEF f
<1>6. h[0] = base
  <2>1. 1..0 = {} /\ {} \in SUBSET (1..n)
    OBVIOUS
  <2>2. f[{}] = base
    BY <1>4, <2>1
  <2> QED
    BY <2>1, <2>2
<1> HIDE DEF base
<1>7. ASSUME NEW k \in 1..n PROVE h[k] = PackPiece(h[k - 1], q[k])
  <2>1. Max(1..k) = k /\ 1..k # {} /\ (1..k) \ {Max(1..k)} = 1..(k - 1)
    <3>1. k \in Nat \ {0}
      OBVIOUS
    <3> QED
      BY <3>1, LastPosition
  <2>2. f[1..k] = PackPiece(f[(1..k) \ {Max(1..k)}], q[Max(1..k)])
    <3>1. 1..k \in SUBSET (1..n)
      OBVIOUS
    <3> QED
      BY <1>4, <2>1, <3>1
  <2>3. h[k] = f[1..k] /\ h[k - 1] = f[1..(k - 1)]
    OBVIOUS
  <2> HIDE DEF h
  <2> QED
    BY <2>1, <2>2, <2>3
<1>8. h[n] = f[1..n]
  OBVIOUS
<1> HIDE DEF h
<1> QED
  BY <1>5, <1>6, <1>7, <1>8 DEF PackTurns

\* The pieces that the buffers of a transmitting entity hold.
TagPieces == [sdu : Nat, from : Nat, len : Nat \ {0},
              status : {"FULL", "FIRST", "MIDDLE", "LAST"}]

\* data and rest are what a buffer of k pieces is cut into where n bytes of the
\* m-th piece have gone.
CutAt(q, k, data, rest, m, n) ==
  /\ m \in 1..k /\ n \in 1..q[m].len
  /\ Len(data) = m /\ (\A j \in 1..(m - 1) : data[j] = q[j]) /\ data[m] = FrontOf(q[m], n)
  /\ n = q[m].len => Len(rest) = k - m /\ \A j \in 1..(k - m) : rest[j] = q[m + j]
  /\ n < q[m].len => /\ Len(rest) = k - m + 1 /\ rest[1] = RestOf(q[m], n)
                     /\ \A j \in 2..(k - m + 1) : rest[j] = q[m + j - 1]

Bundled(acc) ==
  /\ acc = [data |-> acc.data, rest |-> acc.rest, room |-> acc.room]
  /\ acc.data \in Seq(TagPieces) /\ acc.rest \in Seq(TagPieces) /\ acc.room \in Nat

\* A piece may be cut anywhere.
LEMMA PieceCut ==
  ASSUME NEW p \in TagPieces, NEW n \in 1..p.len
  PROVE  /\ FrontOf(p, n) \in TagPieces /\ (n = p.len => FrontOf(p, n) = p)
         /\ n < p.len => RestOf(p, n) \in TagPieces
<1>1. /\ p.sdu \in Nat /\ p.from \in Nat /\ p.len \in Nat \ {0} /\ n \in Nat \ {0}
      /\ p.status \in {"FULL", "FIRST", "MIDDLE", "LAST"}
      /\ p = [sdu |-> p.sdu, from |-> p.from, len |-> p.len, status |-> p.status]
  BY DEF TagPieces
<1>2. FrontOf(p, n) \in TagPieces
  BY <1>1 DEF FrontOf, Tagged, TagPieces
<1>3. ASSUME n = p.len PROVE FrontOf(p, n) = p
  BY <1>1, <1>3 DEF FrontOf, Tagged
<1>4. ASSUME n < p.len PROVE RestOf(p, n) \in TagPieces
  BY <1>1, <1>4 DEF RestOf, Tagged, TagPieces
<1> QED
  BY <1>2, <1>3, <1>4

\* One turn of the packing loop when there is room: the piece, or its front,
\* goes into the PDU.
LEMMA PiecePacked ==
  ASSUME NEW acc, Bundled(acc), acc.room > 0, acc.rest = <<>>,
         NEW q, NEW k \in Nat, Len(acc.data) = k, q[k + 1] \in TagPieces,
         \A j \in 1..k : acc.data[j] = q[j]
  PROVE  LET new == PackPiece(acc, q[k + 1])
         IN  /\ Bundled(new)
             /\ \E n \in 1..q[k + 1].len :
                  /\ CutAt(q, k + 1, new.data, new.rest, k + 1, n)
                  /\ new.room > 0 => n = q[k + 1].len
<1> DEFINE p   == q[k + 1]
           n   == IF p.len > acc.room THEN acc.room ELSE p.len
           new == PackPiece(acc, p)
           rest == IF n < p.len THEN <<RestOf(p, n)>> ELSE <<>>
           room == IF p.len > MaxLi THEN 0 ELSE acc.room - n
           data == Append(acc.data, FrontOf(p, n))
<1>1. p.len \in Nat \ {0} /\ acc.room \in Nat \ {0} /\ acc.data \in Seq(TagPieces)
  BY DEF Bundled, TagPieces
<1>2. new = [data |-> data, rest |-> rest, room |-> room]
  BY <1>1 DEF PackPiece
<1>3. /\ n \in 1..p.len /\ room \in Nat /\ (room > 0 => n = p.len)
  BY <1>1
<1> HIDE DEF n, new, room
<1>4. /\ FrontOf(p, n) \in TagPieces /\ (n < p.len => RestOf(p, n) \in TagPieces)
  BY <1>3, PieceCut
<1>5. /\ data \in Seq(TagPieces) /\ Len(data) = k + 1 /\ data[k + 1] = FrontOf(p, n)
      /\ \A j \in 1..k : data[j] = q[j]
  BY <1>1, <1>4
<1>6. /\ rest \in Seq(TagPieces)
      /\ n = p.len => Len(rest) = 0
      /\ n < p.len => Len(rest) = 1 /\ rest[1] = RestOf(p, n)
  BY <1>1, <1>3, <1>4
<1> HIDE DEF data, rest
<1>7. new.data = data /\ new.rest = rest /\ new.room = room
  BY <1>2
<1>8. Bundled(new)
  BY <1>2, <1>3, <1>5, <1>6, <1>7 DEF Bundled
<1> HIDE DEF p
<1>9. CutAt(q, k + 1, data, rest, k + 1, n)
  <2>1. k + 1 \in 1..(k + 1) /\ k + 1 - (k + 1) = 0 /\ k + 1 - 1 = k /\ 1..0 = {} /\ 2..1 = {}
    OBVIOUS
  <2> QED
    BY <1>3, <1>5, <1>6, <2>1 DEF CutAt, p
<1> QED
  BY <1>3, <1>7, <1>8, <1>9 DEF new, p

\* One turn of the packing loop when the PDU is full: the piece is given back.
LEMMA PieceLeft ==
  ASSUME NEW acc, Bundled(acc), acc.room = 0, NEW q, NEW k \in Nat, q[k + 1] \in TagPieces,
         NEW m, NEW n, CutAt(q, k, acc.data, acc.rest, m, n),
         \A j \in 1..k : q[j] \in TagPieces
  PROVE  LET new == PackPiece(acc, q[k + 1])
         IN  /\ Bundled(new) /\ new.room = 0
             /\ CutAt(q, k + 1, new.data, new.rest, m, n)
<1> DEFINE p    == q[k + 1]
           new  == PackPiece(acc, p)
           rest == Append(acc.rest, p)
<1>1. /\ acc = [data |-> acc.data, rest |-> acc.rest, room |-> acc.room]
      /\ acc.data \in Seq(TagPieces) /\ acc.rest \in Seq(TagPieces) /\ acc.room = 0
  BY DEF Bundled
<1>2. new = [acc EXCEPT !.rest = rest]
  BY DEF PackPiece
<1>3. /\ rest \in Seq(TagPieces) /\ Len(rest) = Len(acc.rest) + 1
      /\ rest[Len(acc.rest) + 1] = p /\ \A j \in 1..Len(acc.rest) : rest[j] = acc.rest[j]
  BY <1>1
<1> HIDE DEF new, rest
<1>4. /\ new = [data |-> acc.data, rest |-> rest, room |-> acc.room]
      /\ new.data = acc.data /\ new.rest = rest /\ new.room = acc.room
  BY <1>1, <1>2
<1>5. Bundled(new)
  BY <1>1, <1>3, <1>4 DEF Bundled
<1>6. /\ m \in 1..k /\ n \in 1..q[m].len /\ q[m] \in TagPieces
      /\ Len(acc.data) = m /\ (\A j \in 1..(m - 1) : acc.data[j] = q[j])
      /\ acc.data[m] = FrontOf(q[m], n)
  BY DEF CutAt
<1>7. q[m].len \in Nat
  BY <1>6 DEF TagPieces
<1>8. ASSUME n = q[m].len
      PROVE  Len(rest) = k + 1 - m /\ \A j \in 1..(k + 1 - m) : rest[j] = q[m + j]
  <2>1. Len(acc.rest) = k - m /\ \A j \in 1..(k - m) : acc.rest[j] = q[m + j]
    BY <1>8 DEF CutAt
  <2>2. ASSUME NEW j \in 1..(k + 1 - m) PROVE rest[j] = q[m + j]
    <3>1. CASE j \in 1..(k - m)
      BY <1>3, <2>1, <3>1
    <3>2. CASE j \notin 1..(k - m)
      <4>1. j = k - m + 1 /\ m + j = k + 1
        BY <1>6, <3>2
      <4> QED
        BY <1>3, <2>1, <4>1
    <3> QED
      BY <3>1, <3>2
  <2> QED
    BY <1>3, <1>6, <2>1, <2>2
<1>9. ASSUME n < q[m].len
      PROVE  /\ Len(rest) = k + 1 - m + 1 /\ rest[1] = RestOf(q[m], n)
             /\ \A j \in 2..(k + 1 - m + 1) : rest[j] = q[m + j - 1]
  <2>1. /\ Len(acc.rest) = k - m + 1 /\ acc.rest[1] = RestOf(q[m], n)
        /\ \A j \in 2..(k - m + 1) : acc.rest[j] = q[m + j - 1]
    BY <1>9 DEF CutAt
  <2>2. k - m + 1 \in Nat \ {0}
    BY <1>6
  <2>3. ASSUME NEW j \in 2..(k + 1 - m + 1) PROVE rest[j] = q[m + j - 1]
    <3>1. CASE j \in 2..(k - m + 1)
      <4>1. j \in 1..Len(acc.rest)
        BY <2>1, <2>2, <3>1
      <4> QED
        BY <1>3, <2>1, <3>1, <4>1
    <3>2. CASE j \notin 2..(k - m + 1)
      <4>1. j = k - m + 1 + 1 /\ m + j - 1 = k + 1
        BY <1>6, <3>2
      <4> QED
        BY <1>3, <2>1, <4>1
    <3> QED
      BY <3>1, <3>2
  <2>4. 1 \in 1..Len(acc.rest)
    BY <2>1, <2>2
  <2> QED
    BY <1>3, <1>6, <2>1, <2>3, <2>4
<1>10. CutAt(q, k + 1, acc.data, rest, m, n)
  BY <1>6, <1>8, <1>9 DEF CutAt
<1> QED
  BY <1>1, <1>4, <1>5, <1>10 DEF new, p

\* An opportunity of any size cuts the buffer in two, somewhere behind its
\* first byte: nothing gets lost, repeated or out of order.
LEMMA PackIs ==
  ASSUME NEW q \in Seq(TagPieces), q # <<>>, NEW room \in Nat \ {0}
  PROVE  /\ Pack(q, room).data \in Seq(TagPieces) /\ Pack(q, room).rest \in Seq(TagPieces)
         /\ \E m, n : CutAt(q, Len(q), Pack(q, room).data, Pack(q, room).rest, m, n)
<1>1. /\ Len(q) \in Nat /\ Len(q) > 0 /\ DOMAIN q = 1..Len(q)
      /\ \A j \in 1..Len(q) : q[j] \in TagPieces
  <2>1. Len(q) # 0
    BY EmptySeq
  <2> QED
    BY <2>1
<1>7. PICK h : PackTurns(h, q, room, Len(q))
  <2> DEFINE n == Len(q)
  <2>1. n \in Nat /\ DOMAIN q = 1..n
    BY <1>1
  <2> HIDE DEF n
  <2>2. \E h : PackTurns(h, q, room, n)
    BY <2>1, PackSteps
  <2> QED
    BY <2>2 DEF n
<1>2. /\ h[0] = [data |-> <<>>, rest |-> <<>>, room |-> room] /\ h[Len(q)] = Pack(q, room)
      /\ \A k \in 1..Len(q) : h[k] = PackPiece(h[k - 1], q[k])
  BY <1>7 DEF PackTurns
<1> DEFINE Full(k) == /\ Bundled(h[k])
                      /\ \E m, n : /\ CutAt(q, k, h[k].data, h[k].rest, m, n)
                                   /\ h[k].room > 0 => m = k /\ n = q[k].len
           S == {k \in Nat : k + 1 <= Len(q) => Full(k + 1)}
<1>3. 0 \in S
  <2>1. /\ Bundled(h[0]) /\ h[0].room > 0 /\ h[0].rest = <<>> /\ Len(h[0].data) = 0
    BY <1>2 DEF Bundled
  <2>2. h[1] = PackPiece(h[0], q[0 + 1]) /\ q[0 + 1] \in TagPieces
    BY <1>1, <1>2
  <2>3. /\ Bundled(h[1])
        /\ \E n \in 1..q[0 + 1].len :
             /\ CutAt(q, 0 + 1, h[1].data, h[1].rest, 0 + 1, n)
             /\ h[1].room > 0 => n = q[0 + 1].len
    <3>1. 0 \in Nat /\ \A j \in 1..0 : h[0].data[j] = q[j]
      OBVIOUS
    <3> QED
      BY <2>1, <2>2, <3>1, PiecePacked
  <2>4. Full(1)
    BY <2>3
  <2> QED
    BY <2>4
<1>4. ASSUME NEW k \in Nat, k \in S PROVE k + 1 \in S
  <2> SUFFICES ASSUME NEW i \in Nat, i = k + 1, i + 1 <= Len(q) PROVE Full(i + 1)
    OBVIOUS
  <2>1. Full(i)
    BY <1>1, <1>4
  <2>2. /\ i \in Nat /\ i + 1 \in 1..Len(q) /\ i \in 1..Len(q)
        /\ \A j \in 1..i : q[j] \in TagPieces
    BY <1>1
  <2>3. h[i + 1] = PackPiece(h[i], q[i + 1]) /\ q[i + 1] \in TagPieces
    BY <1>1, <1>2, <2>2
  <2>4. PICK m, n : /\ Bundled(h[i]) /\ CutAt(q, i, h[i].data, h[i].rest, m, n)
                    /\ h[i].room > 0 => m = i /\ n = q[i].len
    BY <2>1
  <2>5. CASE h[i].room = 0
    <3>1. /\ Bundled(h[i + 1]) /\ h[i + 1].room = 0
          /\ CutAt(q, i + 1, h[i + 1].data, h[i + 1].rest, m, n)
      <4>1. /\ Bundled(h[i]) /\ h[i].room = 0 /\ q[i + 1] \in TagPieces
            /\ CutAt(q, i, h[i].data, h[i].rest, m, n) /\ \A j \in 1..i : q[j] \in TagPieces
        BY <2>2, <2>3, <2>4, <2>5
      <4>2. /\ Bundled(PackPiece(h[i], q[i + 1])) /\ PackPiece(h[i], q[i + 1]).room = 0
            /\ CutAt(q, i + 1, PackPiece(h[i], q[i + 1]).data, PackPiece(h[i], q[i + 1]).rest, m, n)
        BY <4>1, PieceLeft
      <4> QED
        BY <2>3, <4>2
    <3>2. ~(h[i + 1].room > 0)
      BY <3>1
    <3> QED
      BY <3>1, <3>2
  <2>6. CASE h[i].room # 0
    <3>1. h[i].room > 0 /\ m = i /\ n = q[i].len
      BY <2>4, <2>6 DEF Bundled
    <3>2. /\ Len(h[i].data) = i /\ \A j \in 1..(i - 1) : h[i].data[j] = q[j]
          /\ h[i].data[i] = FrontOf(q[i], n) /\ Len(h[i].rest) = 0
          /\ n \in 1..q[i].len
      BY <2>4, <3>1 DEF CutAt
    <3>3. h[i].data[i] = q[i]
      BY <2>2, <3>1, <3>2, PieceCut
    <3>4. \A j \in 1..i : h[i].data[j] = q[j]
      BY <3>2, <3>3
    <3>5. h[i].rest = <<>>
      BY <2>4, <3>2 DEF Bundled
    <3>6. /\ Bundled(h[i + 1])
          /\ \E l \in 1..q[i + 1].len :
               /\ CutAt(q, i + 1, h[i + 1].data, h[i + 1].rest, i + 1, l)
               /\ h[i + 1].room > 0 => l = q[i + 1].len
      <4> DEFINE acc == h[i]
                 p   == q[i + 1]
      <4>1. /\ Bundled(acc) /\ acc.room > 0 /\ acc.rest = <<>> /\ Len(acc.data) = i /\ i \in Nat
            /\ p \in TagPieces /\ \A j \in 1..i : acc.data[j] = q[j]
        BY <2>2, <2>3, <2>4, <3>1, <3>2, <3>4, <3>5
      <4>2. h[i + 1] = PackPiece(acc, p) /\ p = q[i + 1]
        BY <2>3
      <4> HIDE DEF acc, p
      <4>3. /\ Bundled(PackPiece(acc, p))
            /\ \E l \in 1..p.len :
                 /\ CutAt(q, i + 1, PackPiece(acc, p).data, PackPiece(acc, p).rest, i + 1, l)
                 /\ PackPiece(acc, p).room > 0 => l = p.len
        BY <4>1, <4>2, PiecePacked
      <4> QED
        BY <4>2, <4>3
    <3> QED
      BY <3>6
  <2> QED
    BY <2>5, <2>6
<1>5. Len(q) - 1 \in S
  <2>1. Len(q) - 1 \in Nat
    BY <1>1
  <2> HIDE DEF S
  <2> QED
    BY <1>3, <1>4, <2>1, NatInd
<1>6. Full(Len(q))
  <2>1. Len(q) - 1 + 1 = Len(q)
    BY <1>1
  <2> QED
    BY <1>5, <2>1
<1> QED
  BY <1>2, <1>6 DEF Bundled

-----------------------------------------------------------------------------
(* Where the data are.  A place in the stream of accepted SDUs (here A) is a  *)
(* number k of SDUs that lie before it and an offset o into the next.  o is 0 *)
(* where an SDU begins.                                                      *)

Pieces == [sdu : Nat, from : Nat, len : Nat \ {0}]

\* The transmission buffer holds what is accepted from a place on.
Buffered(A, q, k, o) ==
  /\ q \in Seq(TagPieces) /\ k \in Nat /\ o \in Nat
  /\ k + Len(q) = Len(A) /\ (Len(q) = 0 => o = 0)
  /\ \A i \in 1..Len(q) :
       /\ q[i].sdu = A[k + i] /\ q[i].from = (IF i = 1 THEN o ELSE 0)
       /\ q[i].from + q[i].len = SduLen[A[k + i]]
       /\ q[i].status = IF q[i].from = 0 THEN "FULL" ELSE "LAST"

\* A PDU carries what is accepted from one place to another, and its framing
\* information says whether it begins and ends where an SDU does.
Carries(A, pdu, k, o, k2, o2) ==
  /\ pdu.data \in Seq(Pieces) /\ Len(pdu.data) > 0
  /\ k \in Nat /\ o \in Nat /\ k2 \in Nat /\ o2 \in Nat
  /\ k2 = k + Len(pdu.data) - (IF o2 = 0 THEN 0 ELSE 1) /\ k + Len(pdu.data) <= Len(A)
  /\ \A i \in 1..Len(pdu.data) :
       /\ pdu.data[i].sdu = A[k + i] /\ pdu.data[i].from = (IF i = 1 THEN o ELSE 0)
       /\ pdu.data[i].from + pdu.data[i].len
            = IF i = Len(pdu.data) /\ o2 # 0 THEN o2 ELSE SduLen[A[k + i]]
  /\ pdu.first = (o = 0) /\ pdu.last = (o2 = 0)

\* A new PDU carries on where the buffer begins, and the buffer where it ends.
LEMMA Packs ==
  ASSUME NEW A \in Seq(Sdus), NEW q, NEW k, NEW o, Buffered(A, q, k, o), q # <<>>,
         NEW room \in Nat \ {0}, NEW sn
  PROVE  \E k2, o2 : /\ Carries(A, DataPdu(sn, Pack(q, room).data), k, o, k2, o2)
                     /\ Buffered(A, Pack(q, room).rest, k2, o2)
<1> DEFINE data == Pack(q, room).data
           rest == Pack(q, room).rest
           pdu  == DataPdu(sn, data)
<1>1. /\ q \in Seq(TagPieces) /\ k \in Nat /\ o \in Nat /\ k + Len(q) = Len(A)
      /\ \A i \in 1..Len(q) :
           /\ q[i].sdu = A[k + i] /\ q[i].from = (IF i = 1 THEN o ELSE 0)
           /\ q[i].from + q[i].len = SduLen[A[k + i]]
           /\ q[i].status = IF q[i].from = 0 THEN "FULL" ELSE "LAST"
  BY DEF Buffered
<1>2. data \in Seq(TagPieces) /\ rest \in Seq(TagPieces)
  BY <1>1, PackIs
<1>3. PICK m, n : CutAt(q, Len(q), data, rest, m, n)
  BY <1>1, PackIs
<1> HIDE DEF data, rest
<1>4. /\ m \in 1..Len(q) /\ n \in 1..q[m].len /\ q[m] \in TagPieces
      /\ Len(data) = m /\ (\A j \in 1..(m - 1) : data[j] = q[j]) /\ data[m] = FrontOf(q[m], n)
  BY <1>1, <1>3 DEF CutAt
<1>5. /\ q[m].len \in Nat \ {0} /\ q[m].from \in Nat /\ m \in Nat /\ m >= 1 /\ n \in Nat /\ n >= 1
      /\ Len(q) \in Nat /\ m <= Len(q) /\ n <= q[m].len
  <2>1. q[m].len \in Nat \ {0} /\ q[m].from \in Nat
    BY <1>4 DEF TagPieces
  <2>2. Len(q) \in Nat
    BY <1>1
  <2> QED
    BY <1>4, <2>1, <2>2
<1>6. /\ data[m].sdu = q[m].sdu /\ data[m].from = q[m].from /\ data[m].len = n
      /\ data[m].status = IF n = q[m].len THEN q[m].status
                          ELSE IF q[m].status = "FULL" THEN "FIRST" ELSE "MIDDLE"
  BY <1>4 DEF FrontOf, Tagged
<1>7. /\ pdu.data = [i \in DOMAIN data |-> Piece(data[i].sdu, data[i].from, data[i].len)]
      /\ pdu.first = (Head(data).status \in {"FULL", "FIRST"})
      /\ pdu.last = (data[Len(data)].status \in {"FULL", "LAST"})
  BY DEF DataPdu
<1> HIDE DEF pdu
<1>8. /\ pdu.data \in Seq(Pieces) /\ Len(pdu.data) = m
      /\ \A i \in 1..m : /\ pdu.data[i].sdu = data[i].sdu /\ pdu.data[i].from = data[i].from
                         /\ pdu.data[i].len = data[i].len
  <2>1. \A i \in 1..m : data[i] \in TagPieces
    BY <1>2, <1>4
  <2>2. \A i \in 1..m : Piece(data[i].sdu, data[i].from, data[i].len) \in Pieces
    BY <2>1 DEF TagPieces, Pieces, Piece
  <2>3. DOMAIN data = 1..m
    BY <1>2, <1>4
  <2> QED
    BY <1>5, <1>7, <2>2, <2>3 DEF Piece
<1>9. pdu.first = (o = 0)
  <2>1. Head(data) = data[1] /\ 1 \in 1..Len(q) /\ q[1].from = o
    BY <1>1, <1>2, <1>4, <1>5
  <2>2. CASE m = 1
    BY <1>1, <1>6, <1>7, <2>1, <2>2
  <2>3. CASE m # 1
    <3>1. data[1] = q[1]
      BY <1>4, <1>5, <2>3
    <3> QED
      BY <1>1, <1>7, <2>1, <3>1
  <2> QED
    BY <2>2, <2>3
<1>10. pdu.last = (n = q[m].len)
  BY <1>1, <1>4, <1>6, <1>7
<1>11. CASE n = q[m].len
  <2>1. Len(rest) = Len(q) - m /\ \A j \in 1..(Len(q) - m) : rest[j] = q[m + j]
    BY <1>3, <1>11 DEF CutAt
  <2>2. Carries(A, pdu, k, o, k + m, 0)
    <3>1. ASSUME NEW i \in 1..m
          PROVE  /\ pdu.data[i].sdu = A[k + i] /\ pdu.data[i].from = (IF i = 1 THEN o ELSE 0)
                 /\ pdu.data[i].from + pdu.data[i].len = SduLen[A[k + i]]
      <4>1. i \in 1..Len(q)
        BY <1>5
      <4>2. CASE i = m
        <5>1. /\ q[i].sdu = A[k + i] /\ q[i].from = (IF i = 1 THEN o ELSE 0)
              /\ q[i].from + q[i].len = SduLen[A[k + i]]
          BY <1>1, <4>1
        <5>2. /\ pdu.data[i].sdu = q[i].sdu /\ pdu.data[i].from = q[i].from
              /\ pdu.data[i].len = q[i].len
          BY <1>6, <1>8, <1>11, <4>2
        <5> QED
          BY <5>1, <5>2
      <4>3. CASE i # m
        <5>1. data[i] = q[i]
          BY <1>4, <1>5, <4>3
        <5> QED
          <6>1. /\ q[i].sdu = A[k + i] /\ q[i].from = (IF i = 1 THEN o ELSE 0)
                /\ q[i].from + q[i].len = SduLen[A[k + i]]
            BY <1>1, <4>1
          <6>2. /\ pdu.data[i].sdu = data[i].sdu /\ pdu.data[i].from = data[i].from
                /\ pdu.data[i].len = data[i].len
            BY <1>8
          <6> QED
            BY <4>3, <5>1, <6>1, <6>2
      <4> QED
        BY <4>2, <4>3
    <3> QED
      BY <1>1, <1>5, <1>8, <1>9, <1>10, <1>11, <3>1 DEF Carries
  <2>3. Buffered(A, rest, k + m, 0)
    <3>1. ASSUME NEW i \in 1..Len(rest)
          PROVE  /\ rest[i].sdu = A[k + m + i] /\ rest[i].from = 0
                 /\ rest[i].from + rest[i].len = SduLen[A[k + m + i]]
                 /\ rest[i].status = "FULL"
      <4>1. m + i \in 1..Len(q) /\ m + i # 1 /\ rest[i] = q[m + i] /\ k + (m + i) = k + m + i
        BY <1>1, <1>5, <2>1
      <4> QED
        BY <1>1, <4>1
    <3>2. /\ k + m \in Nat /\ 0 \in Nat /\ k + m + Len(rest) = Len(A)
          /\ \A i \in 1..Len(rest) : 0 = (IF i = 1 THEN 0 ELSE 0)
      <4>1. k \in Nat /\ k + Len(q) = Len(A)
        BY <1>1, Zenon
      <4>2. Len(rest) = Len(q) - m
        BY <2>1, Zenon
      <4> QED
        BY <1>5, <4>1, <4>2
    <3> QED
      BY <1>2, <3>1, <3>2 DEF Buffered
  <2> QED
    BY <2>2, <2>3 DEF pdu, data, rest
<1>12. CASE n < q[m].len
  <2> DEFINE e == q[m].from + n
  <2>1. /\ Len(rest) = Len(q) - m + 1 /\ rest[1] = RestOf(q[m], n)
        /\ \A j \in 2..(Len(q) - m + 1) : rest[j] = q[m + j - 1]
    BY <1>3, <1>12 DEF CutAt
  <2>2. e \in Nat \ {0}
    BY <1>5
  <2>3. Carries(A, pdu, k, o, k + m - 1, e)
    <3> HIDE DEF e
    <3>1. ASSUME NEW i \in 1..m
          PROVE  /\ pdu.data[i].sdu = A[k + i] /\ pdu.data[i].from = (IF i = 1 THEN o ELSE 0)
                 /\ pdu.data[i].from + pdu.data[i].len = IF i = m THEN e ELSE SduLen[A[k + i]]
      <4>1. i \in 1..Len(q)
        BY <1>5
      <4>2. CASE i = m
        BY <1>1, <1>6, <1>8, <4>1, <4>2 DEF e
      <4>3. CASE i # m
        <5>1. data[i] = q[i]
          BY <1>4, <1>5, <4>3
        <5> QED
          <6>1. /\ q[i].sdu = A[k + i] /\ q[i].from = (IF i = 1 THEN o ELSE 0)
                /\ q[i].from + q[i].len = SduLen[A[k + i]]
            BY <1>1, <4>1
          <6>2. /\ pdu.data[i].sdu = data[i].sdu /\ pdu.data[i].from = data[i].from
                /\ pdu.data[i].len = data[i].len
            BY <1>8
          <6> QED
            BY <4>3, <5>1, <6>1, <6>2
      <4> QED
        BY <4>2, <4>3
    <3> QED
      BY <1>1, <1>5, <1>8, <1>9, <1>10, <1>12, <2>2, <3>1 DEF Carries
  <2>4. Buffered(A, rest, k + m - 1, e)
    <3>1. /\ rest[1].sdu = q[m].sdu /\ rest[1].from = e /\ rest[1].len = q[m].len - n
          /\ rest[1].status = "LAST"
      BY <2>1 DEF RestOf, Tagged
    <3>2. ASSUME NEW i \in 1..Len(rest)
          PROVE  /\ rest[i].sdu = A[k + m - 1 + i] /\ rest[i].from = (IF i = 1 THEN e ELSE 0)
                 /\ rest[i].from + rest[i].len = SduLen[A[k + m - 1 + i]]
                 /\ rest[i].status = IF rest[i].from = 0 THEN "FULL" ELSE "LAST"
      <4>1. CASE i = 1
        <5>1. /\ k + m - 1 + i = k + m /\ rest[1].from + rest[1].len = q[m].from + q[m].len
              /\ rest[1].from # 0
          <6>1. k \in Nat /\ k + m - 1 + i = k + m
            BY <1>1, <1>5, <4>1
          <6>2. rest[1].from + rest[1].len = q[m].from + n + (q[m].len - n)
            BY <3>1
          <6>3. q[m].from + n + (q[m].len - n) = q[m].from + q[m].len
            <7>1. \A f, l, c \in Nat : f + c + (l - c) = f + l
              OBVIOUS
            <7> QED
              BY <1>5, <7>1
          <6>4. rest[1].from # 0
            <7> HIDE DEF e
            <7> QED
              BY <2>2, <3>1
          <6> QED
            BY <6>1, <6>2, <6>3, <6>4
        <5> HIDE DEF e
        <5> QED
          BY <1>1, <1>4, <3>1, <4>1, <5>1
      <4>2. CASE i # 1
        <5> DEFINE l == m + i - 1
        <5>1. /\ l \in 1..Len(q) /\ l # 1 /\ rest[i] = q[l] /\ k + m - 1 + i = k + l
          BY <1>1, <1>5, <2>1, <4>2
        <5> HIDE DEF l, e
        <5> QED
          BY <1>1, <4>2, <5>1
      <4> QED
        BY <4>1, <4>2
    <3> HIDE DEF e
    <3>3. /\ k + m - 1 \in Nat /\ e \in Nat /\ k + m - 1 + Len(rest) = Len(A) /\ Len(rest) # 0
      <4>1. k \in Nat /\ k + Len(q) = Len(A) /\ Len(rest) = Len(q) - m + 1
        BY <1>1, <2>1
      <4> QED
        BY <1>5, <2>2, <4>1
    <3> QED
      BY <1>2, <3>2, <3>3 DEF Buffered
  <2> HIDE DEF e
  <2> QED
    BY <2>3, <2>4 DEF pdu, data, rest
<1> QED
  BY <1>5, <1>11, <1>12

\* Accepted SDUs are numbers and have a length.
LEMMA AcceptedIs ==
  ASSUME NEW A \in Seq(Sdus), NEW i \in 1..Len(A)
  PROVE  A[i] \in Sdus /\ A[i] \in Nat /\ SduLen[A[i]] \in Nat \ {0}
<1>1. A[i] \in Sdus
  OBVIOUS
<1> QED
  BY <1>1, RlcSduAssumption DEF Sdus

\* One SDU more is accepted: what a PDU carries stays what it is.
LEMMA CarriesAppended ==
  ASSUME NEW A \in Seq(Sdus), NEW s \in Sdus, NEW pdu, NEW k, NEW o, NEW k2, NEW o2,
         Carries(A, pdu, k, o, k2, o2)
  PROVE  Carries(Append(A, s), pdu, k, o, k2, o2)
<1> DEFINE B == Append(A, s)
           m == Len(pdu.data)
<1>1. /\ Len(A) \in Nat /\ Len(B) = Len(A) + 1 /\ \A i \in 1..Len(A) : B[i] = A[i]
  BY AppendProperties
<1> HIDE DEF B
<1>2. m \in Nat /\ k \in Nat /\ k + m <= Len(A)
  <2>1. pdu.data \in Seq(Pieces) /\ k \in Nat /\ k + m <= Len(A)
    BY DEF Carries
  <2>2. m \in Nat
    BY <2>1
  <2> QED
    BY <2>1, <2>2
<1>3. \A i \in 1..m : B[k + i] = A[k + i]
  <2> SUFFICES ASSUME NEW i \in 1..m PROVE B[k + i] = A[k + i]
    OBVIOUS
  <2>1. k + i \in 1..Len(A)
    BY <1>1, <1>2
  <2> QED
    BY <1>1, <2>1
<1>4. k + m <= Len(B)
  BY <1>1, <1>2
<1>5. Carries(B, pdu, k, o, k2, o2)
  BY <1>3, <1>4 DEF Carries
<1> QED
  BY <1>5 DEF B

\* The transmission buffer then ends with it.
LEMMA BufferedAppended ==
  ASSUME NEW A \in Seq(Sdus), NEW s \in Sdus, NEW b, NEW k, NEW o, Buffered(A, b, k, o)
  PROVE  Buffered(Append(A, s), Append(b, FullSdu(s)), k, o)
<1> DEFINE B == Append(A, s)
           c == Append(b, FullSdu(s))
           p == FullSdu(s)
<1>1. /\ B \in Seq(Sdus) /\ Len(A) \in Nat /\ Len(B) = Len(A) + 1 /\ B[Len(A) + 1] = s
      /\ \A i \in 1..Len(A) : B[i] = A[i]
  BY AppendProperties
<1> HIDE DEF B
<1>2. /\ b \in Seq(TagPieces) /\ k \in Nat /\ o \in Nat /\ k + Len(b) = Len(A)
      /\ (Len(b) = 0 => o = 0)
      /\ \A i \in 1..Len(b) :
           /\ b[i].sdu = A[k + i] /\ b[i].from = (IF i = 1 THEN o ELSE 0)
           /\ b[i].from + b[i].len = SduLen[A[k + i]]
           /\ b[i].status = IF b[i].from = 0 THEN "FULL" ELSE "LAST"
  BY DEF Buffered
<1>3. SduLen[s] \in Nat \ {0} /\ s \in Nat
  BY RlcSduAssumption DEF Sdus
<1>4. p \in TagPieces /\ p.sdu = s /\ p.from = 0 /\ p.len = SduLen[s] /\ p.status = "FULL"
  BY <1>3 DEF FullSdu, Tagged, TagPieces
<1> HIDE DEF p
<1>5. /\ c \in Seq(TagPieces) /\ Len(b) \in Nat /\ Len(c) = Len(b) + 1 /\ c[Len(b) + 1] = p
      /\ \A i \in 1..Len(b) : c[i] = b[i]
  <2>1. c = Append(b, p)
    BY DEF p
  <2> QED
    BY <1>2, <1>4, <2>1, AppendProperties
<1> HIDE DEF c
<1>6. /\ k \in Nat /\ o \in Nat /\ k + Len(b) = Len(A) /\ (Len(b) = 0 => o = 0)
      /\ Len(b) \in Nat /\ Len(c) = Len(b) + 1 /\ c[Len(b) + 1] = p
  BY <1>2, <1>5
<1>7. ASSUME NEW i \in 1..Len(c)
      PROVE  /\ c[i].sdu = B[k + i] /\ c[i].from = (IF i = 1 THEN o ELSE 0)
             /\ c[i].from + c[i].len = SduLen[B[k + i]]
             /\ c[i].status = IF c[i].from = 0 THEN "FULL" ELSE "LAST"
  <2>1. CASE i = Len(b) + 1
    <3>1. k + i = Len(A) + 1 /\ c[i] = p
      BY <1>6, <2>1
    <3>2. B[k + i] = s
      BY <1>1, <3>1
    <3>3. i = 1 => o = 0
      BY <1>6, <2>1
    <3>4. 0 + p.len = SduLen[s]
      BY <1>3, <1>4
    <3> QED
      BY <1>4, <3>1, <3>2, <3>3, <3>4
  <2>2. CASE i # Len(b) + 1
    <3>1. i \in 1..Len(b) /\ k + i \in 1..Len(A)
      BY <1>2, <1>5, <2>2
    <3>2. c[i] = b[i] /\ B[k + i] = A[k + i]
      BY <1>1, <1>5, <3>1
    <3>3. /\ b[i].sdu = A[k + i] /\ b[i].from = (IF i = 1 THEN o ELSE 0)
          /\ b[i].from + b[i].len = SduLen[A[k + i]]
          /\ b[i].status = IF b[i].from = 0 THEN "FULL" ELSE "LAST"
      BY <1>2, <3>1
    <3> QED
      BY <3>2, <3>3
  <2> QED
    BY <2>1, <2>2
<1>8. k + Len(c) = Len(B) /\ (Len(c) = 0 => o = 0)
  <2>1. Len(B) = Len(A) + 1 /\ Len(A) \in Nat
    BY <1>1
  <2>2. k \in Nat /\ k + Len(b) = Len(A) /\ Len(b) \in Nat /\ Len(c) = Len(b) + 1
    BY <1>6
  <2>3. k + Len(c) = Len(B)
    BY <2>1, <2>2
  <2>4. Len(c) # 0
    BY <2>2
  <2> QED
    BY <2>3, <2>4
<1>9. Buffered(B, c, k, o)
  BY <1>2, <1>5, <1>7, <1>8 DEF Buffered
<1> QED
  BY <1>9 DEF B, c

\* Of those before it none changes, and it comes last.
LEMMA AppendedIs ==
  ASSUME NEW A \in Seq(Sdus), NEW s \in Sdus
  PROVE  /\ Append(A, s) \in Seq(Sdus) /\ Len(A) \in Nat /\ Len(Append(A, s)) = Len(A) + 1
         /\ Append(A, s)[Len(A) + 1] = s /\ \A i \in 1..Len(A) : Append(A, s)[i] = A[i]
BY AppendProperties

-----------------------------------------------------------------------------
(* What the lower layers carry.                                            *)

Listed(q) ==
  /\ q \in Seq({q[i] : i \in DOMAIN q})
  /\ \A i \in DOMAIN q : q[i] = [pdu |-> q[i].pdu, late |-> q[i].late] /\ q[i].late \in Nat

\* The positions of what is on its way.
LEMMA ListedDomain == ASSUME NEW q, Listed(q) PROVE Len(q) \in Nat /\ DOMAIN q = 1..Len(q)
BY DEF Listed

\* What is sent comes last.
LEMMA SentListed ==
  ASSUME NEW q, Listed(q), NEW x
  PROVE  LET n == Sent(q, x)
         IN  /\ Listed(n) /\ Len(q) \in Nat /\ DOMAIN q = 1..Len(q)
             /\ Len(n) = Len(q) + 1 /\ DOMAIN n = 1..(Len(q) + 1)
             /\ \A i \in 1..Len(q) : n[i] = q[i]
             /\ n[Len(q) + 1].pdu = x
<1> DEFINE e == [pdu |-> x, late |-> 0]
           n == Sent(q, x)
           S == {q[i] : i \in DOMAIN q}
           T == S \union {e}
<1>1. Len(q) \in Nat /\ DOMAIN q = 1..Len(q) /\ q \in Seq(S)
  BY DEF Listed
<1>2. n = Append(q, e)
  BY DEF Sent
<1>3. q \in Seq(T) /\ e \in T
  <2> HIDE DEF S, e
  <2> QED
    BY <1>1
<1>4. e.pdu = x /\ e.late = 0 /\ e = [pdu |-> e.pdu, late |-> e.late]
  OBVIOUS
<1> HIDE DEF n, e, S, T
<1>5. /\ n \in Seq(T) /\ Len(n) = Len(q) + 1 /\ n[Len(q) + 1] = e
      /\ \A i \in 1..Len(q) : n[i] = q[i]
  BY <1>1, <1>2, <1>3, AppendProperties
<1>6. DOMAIN n = 1..(Len(q) + 1)
  BY <1>5
<1>7. n \in Seq({n[i] : i \in DOMAIN n})
  <2>1. \A i \in 1..Len(n) : n[i] \in {n[j] : j \in DOMAIN n}
    BY <1>5, <1>6
  <2> QED
    BY <1>5, <2>1
<1>8. ASSUME NEW i \in DOMAIN n
      PROVE  n[i] = [pdu |-> n[i].pdu, late |-> n[i].late] /\ n[i].late \in Nat
  <2>1. CASE i = Len(q) + 1
    BY <1>4, <1>5, <2>1
  <2>2. CASE i # Len(q) + 1
    <3>1. i \in DOMAIN q /\ n[i] = q[i]
      BY <1>1, <1>5, <1>6, <2>2
    <3> QED
      BY <3>1 DEF Listed
  <2> QED
    BY <2>1, <2>2
<1>9. Listed(n)
  BY <1>7, <1>8 DEF Listed
<1> QED
  BY <1>1, <1>4, <1>5, <1>6, <1>9 DEF n

\* The place before a removal of what stands at k after it.
Skip(i, k) == IF k < i THEN k ELSE k + 1

\* Everything but the i-th element stays, in its order.
LEMMA Removed ==
  ASSUME NEW S, NEW q \in Seq(S), NEW i \in 1..Len(q)
  PROVE  LET n == RemoveAt(q, i)
         IN  /\ n \in Seq(S) /\ Len(n) = Len(q) - 1
             /\ \A k \in 1..(Len(q) - 1) : Skip(i, k) \in 1..Len(q) /\ n[k] = q[Skip(i, k)]
<1> DEFINE a == SubSeq(q, 1, i - 1)
           b == SubSeq(q, i + 1, Len(q))
           n == RemoveAt(q, i)
<1>1. Len(q) \in Nat /\ i \in Nat /\ 1 <= i /\ i <= Len(q)
  OBVIOUS
<1>2. /\ a \in Seq(S) /\ Len(a) = i - 1 /\ \A k \in 1..(i - 1) : a[k] = q[k]
  <2>1. \A k \in 1..(i - 1) : q[k] \in S
    BY <1>1
  <2>2. /\ a \in Seq(S) /\ Len(a) = IF 1 <= i - 1 THEN i - 1 - 1 + 1 ELSE 0
        /\ \A k \in 1..(i - 1 - 1 + 1) : a[k] = q[1 + k - 1]
    <3>1. 1 \in Int /\ i - 1 \in Int
      BY <1>1
    <3> QED
      BY <2>1, <3>1, SubSeqProperties
  <2> HIDE DEF a
  <2> QED
    BY <1>1, <2>2
<1>3. /\ b \in Seq(S) /\ Len(b) = Len(q) - i
      /\ \A k \in 1..(Len(q) - i) : b[k] = q[k + i]
  <2>1. \A k \in (i + 1)..Len(q) : q[k] \in S
    BY <1>1
  <2>2. /\ b \in Seq(S) /\ Len(b) = IF i + 1 <= Len(q) THEN Len(q) - (i + 1) + 1 ELSE 0
        /\ \A k \in 1..(Len(q) - (i + 1) + 1) : b[k] = q[i + 1 + k - 1]
    <3>1. i + 1 \in Int /\ Len(q) \in Int
      BY <1>1
    <3> QED
      BY <2>1, <3>1, SubSeqProperties
  <2> HIDE DEF b
  <2>3. Len(b) = Len(q) - i /\ Len(q) - (i + 1) + 1 = Len(q) - i
    BY <1>1, <2>2
  <2>4. ASSUME NEW k \in 1..(Len(q) - i) PROVE b[k] = q[k + i]
    <3>1. i + 1 + k - 1 = k + i
      BY <1>1
    <3>2. b[k] = q[i + 1 + k - 1]
      BY <2>2, <2>3
    <3> QED
      BY <3>1, <3>2
  <2> QED
    BY <2>2, <2>3, <2>4
<1>4. n = a \o b
  BY DEF RemoveAt
<1> HIDE DEF a, b, n
<1>5. /\ n \in Seq(S) /\ Len(n) = Len(a) + Len(b)
      /\ \A k \in 1..(Len(a) + Len(b)) : n[k] = IF k <= Len(a) THEN a[k] ELSE b[k - Len(a)]
  BY <1>2, <1>3, <1>4, ConcatProperties
<1>6. Len(n) = Len(q) - 1
  BY <1>1, <1>2, <1>3, <1>5
<1>7. ASSUME NEW k \in 1..(Len(q) - 1)
      PROVE  Skip(i, k) \in 1..Len(q) /\ n[k] = q[Skip(i, k)]
  <2>1. CASE k < i
    <3>1. k \in 1..(i - 1) /\ k <= Len(a) /\ k \in 1..(Len(a) + Len(b)) /\ Skip(i, k) = k
      BY <1>1, <1>2, <1>3, <2>1 DEF Skip
    <3> QED
      BY <1>1, <1>2, <1>5, <3>1
  <2>2. CASE ~(k < i)
    <3>1. /\ k - (i - 1) \in 1..(Len(q) - i) /\ ~(k <= Len(a))
          /\ k \in 1..(Len(a) + Len(b)) /\ Skip(i, k) = k + 1
      BY <1>1, <1>2, <1>3, <2>2 DEF Skip
    <3>2. n[k] = b[k - (i - 1)] /\ k - (i - 1) + i = k + 1
      BY <1>1, <1>2, <1>5, <3>1
    <3> QED
      BY <1>1, <1>3, <3>1, <3>2
  <2> QED
    BY <2>1, <2>2
<1> QED
  BY <1>5, <1>6, <1>7 DEF n

\* What is lost or arrives leaves the others in their order.
LEMMA RemovedListed ==
  ASSUME NEW q, Listed(q), NEW i \in DOMAIN q, NEW n, n = RemoveAt(q, i) \/ n = Arrived(q, i)
  PROVE  /\ Listed(n) /\ Len(q) \in Nat /\ DOMAIN q = 1..Len(q)
         /\ Len(n) = Len(q) - 1 /\ DOMAIN n = 1..(Len(q) - 1)
         /\ \A k \in 1..(Len(q) - 1) : Skip(i, k) \in DOMAIN q /\ n[k].pdu = q[Skip(i, k)].pdu
<1>1. PICK m : /\ n = RemoveAt(m, i) /\ Len(m) = Len(q) /\ Listed(m)
               /\ \A k \in DOMAIN q : m[k].pdu = q[k].pdu
  <2>1. CASE n = RemoveAt(q, i)
    BY <2>1
  <2>2. CASE n = Arrived(q, i)
    <3> DEFINE m == [j \in DOMAIN q |-> IF j < i THEN [q[j] EXCEPT !.late = @ + 1] ELSE q[j]]
    <3>1. n = RemoveAt(m, i) /\ DOMAIN m = DOMAIN q
      BY <2>2 DEF Arrived
    <3>2. Len(q) \in Nat /\ DOMAIN q = 1..Len(q)
      BY ListedDomain
    <3>3. ASSUME NEW j \in DOMAIN q
          PROVE  /\ m[j] = [pdu |-> m[j].pdu, late |-> m[j].late] /\ m[j].late \in Nat
                 /\ m[j].pdu = q[j].pdu
      <4>1. q[j] = [pdu |-> q[j].pdu, late |-> q[j].late] /\ q[j].late \in Nat
        BY DEF Listed
      <4>2. m[j] = IF j < i THEN [q[j] EXCEPT !.late = @ + 1] ELSE q[j]
        OBVIOUS
      <4> HIDE DEF m
      <4>3. \/ m[j] = [pdu |-> q[j].pdu, late |-> q[j].late + 1]
            \/ m[j] = q[j]
        <5>1. PICK p, l : q[j] = [pdu |-> p, late |-> l] /\ p = q[j].pdu /\ l = q[j].late
          BY <4>1
        <5>2. [q[j] EXCEPT !.late = @ + 1] = [pdu |-> p, late |-> l + 1]
          BY <5>1
        <5> QED
          BY <4>2, <5>1, <5>2
      <4>4. CASE m[j] = [pdu |-> q[j].pdu, late |-> q[j].late + 1]
        BY <4>1, <4>4
      <4>5. CASE m[j] = q[j]
        BY <4>1, <4>5
      <4> QED
        BY <4>3, <4>4, <4>5
    <3>4. m \in Seq({m[j] : j \in DOMAIN m})
      BY <3>1, <3>2
    <3>5. Len(m) = Len(q)
      BY <3>1, <3>2
    <3> HIDE DEF m
    <3>6. Listed(m)
      BY <3>1, <3>3, <3>4 DEF Listed
    <3> QED
      BY <3>1, <3>3, <3>5, <3>6
  <2> QED
    BY <2>1, <2>2
<1>2. /\ Len(q) \in Nat /\ DOMAIN q = 1..Len(q) /\ DOMAIN m = 1..Len(q) /\ i \in 1..Len(m)
      /\ m \in Seq({m[j] : j \in DOMAIN m})
  BY <1>1, ListedDomain DEF Listed
<1>3. /\ n \in Seq({m[j] : j \in DOMAIN m}) /\ Len(n) = Len(q) - 1
      /\ \A k \in 1..(Len(q) - 1) : Skip(i, k) \in DOMAIN q /\ n[k] = m[Skip(i, k)]
  BY <1>1, <1>2, Removed
<1>4. DOMAIN n = 1..(Len(q) - 1)
  BY <1>2, <1>3
<1>5. n \in Seq({n[j] : j \in DOMAIN n})
  <2>1. \A j \in 1..Len(n) : n[j] \in {n[k] : k \in DOMAIN n}
    BY <1>3, <1>4
  <2> QED
    BY <1>3, <2>1
<1>6. Listed(n)
  <2>1. ASSUME NEW k \in DOMAIN n
        PROVE  n[k] = [pdu |-> n[k].pdu, late |-> n[k].late] /\ n[k].late \in Nat
    <3>1. Skip(i, k) \in DOMAIN m /\ n[k] = m[Skip(i, k)]
      BY <1>2, <1>3, <1>4
    <3> QED
      BY <1>1, <3>1 DEF Listed
  <2> QED
    BY <1>5, <2>1 DEF Listed
<1> QED
  BY <1>1, <1>2, <1>3, <1>4, <1>6
=============================================================================
