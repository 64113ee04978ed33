----------------------------- MODULE RlcAmProofs ------------------------------
(***************************************************************************)
(* The two RLC AM entities of RlcAm keep their windows in step, and no PDU   *)
(* is forgotten before it has arrived, for any window, SDU length, HARQ and  *)
(* sequence of opportunities.                                              *)
(*                                                                         *)
(* Sequence numbers lie on a ring, so every bound is one on distances seen   *)
(* from a number that is known to lie below.  What the receiving entity      *)
(* guarantees (RxOK) needs nothing of the transmitting one.  AmWindows joins  *)
(* the two: the windows, the data PDUs and the STATUS PDUs on their way.  It  *)
(* needs STATUS PDUs to arrive in the order in which they were sent: one that *)
(* is overtaken may report missing what a newer one has acknowledged.        *)
(*                                                                         *)
(* The second half is about the data: PDCP gets the SDUs that were accepted,  *)
(* whole, each once and in order.  The accepted SDUs, one after the other,    *)
(* are a stream of bytes; a place in it is a number of whole SDUs and one of  *)
(* bytes of the next (ix, off).  AmData says that some assignment of places   *)
(* to the numbers fits everything: the PDU with the number x carries the      *)
(* stream from x's place to that of the number after x, wherever it is kept,  *)
(* travels or is buffered, whole or in segments; the transmission buffer      *)
(* begins at the place of VT(S), and what is delivered ends at that of VR(R). *)
(***************************************************************************)
EXTENDS RlcAm, RlcPduProofs

-----------------------------------------------------------------------------
(* Numbers on a ring.                                                      *)

\* The distance of two numbers, without the remainder.
LEMMA DistIs ==
  \A b, x \in Sns : Dist(b, x) = IF b <= x THEN x - b ELSE x - b + Modulus
<1> SUFFICES ASSUME NEW b \in Sns, NEW x \in Sns
             PROVE  Dist(b, x) = IF b <= x THEN x - b ELSE x - b + Modulus
  OBVIOUS
<1>1. Modulus \in Nat \ {0} /\ b \in 0..(Modulus - 1) /\ x \in 0..(Modulus - 1)
  BY AmAssumption DEF Modulus, Sns
<1> HIDE DEF Modulus
<1> QED
  BY <1>1 DEF Dist

\* The number that is n above b, without the remainder.
LEMMA PlusIs ==
  \A b \in Sns : \A n \in 0..Modulus :
    (b + n) % Modulus = IF b + n < Modulus THEN b + n ELSE b + n - Modulus
<1> SUFFICES ASSUME NEW b \in Sns, NEW n \in 0..Modulus
             PROVE  (b + n) % Modulus = IF b + n < Modulus THEN b + n ELSE b + n - Modulus
  OBVIOUS
<1>1. Modulus \in Nat \ {0} /\ b \in 0..(Modulus - 1)
  BY AmAssumption DEF Modulus, Sns
<1> HIDE DEF Modulus
<1> QED
  BY <1>1

\* The ring has two windows of numbers.
LEMMA Ring ==
  /\ Window \in Nat \ {0} /\ Modulus = 2 * Window /\ Modulus \in Nat \ {0}
  /\ \A x : x \in Sns <=> x \in Nat /\ x < Modulus
BY AmAssumption DEF Modulus, Sns

\* Distances are numbers below the modulus, 0 only for the number itself.
LEMMA DistRange ==
  \A b, x \in Sns : Dist(b, x) \in Nat /\ Dist(b, x) < Modulus /\ (Dist(b, x) = 0 <=> x = b)
BY DistIs, Ring

\* Numbers equally far from a third are equal.
LEMMA DistSame == \A b, x, y \in Sns : Dist(b, x) = Dist(b, y) => x = y
BY DistIs, Ring

\* Seen from another number.
LEMMA Rebase ==
  \A b, c, x \in Sns :
    Dist(c, x) = IF Dist(b, c) <= Dist(b, x) THEN Dist(b, x) - Dist(b, c)
                 ELSE Dist(b, x) - Dist(b, c) + Modulus
<1> SUFFICES ASSUME NEW b \in Sns, NEW c \in Sns, NEW x \in Sns
             PROVE  Dist(c, x) = IF Dist(b, c) <= Dist(b, x) THEN Dist(b, x) - Dist(b, c)
                                 ELSE Dist(b, x) - Dist(b, c) + Modulus
  OBVIOUS
<1>1. /\ Dist(b, c) = IF b <= c THEN c - b ELSE c - b + Modulus
      /\ Dist(b, x) = IF b <= x THEN x - b ELSE x - b + Modulus
      /\ Dist(c, x) = IF c <= x THEN x - c ELSE x - c + Modulus
  BY DistIs
<1>2. /\ Modulus \in Nat /\ b \in Nat /\ c \in Nat /\ x \in Nat
      /\ b < Modulus /\ c < Modulus /\ x < Modulus
  BY Ring
<1> QED
  BY <1>1, <1>2

\* The number n above b is n away from b.
LEMMA PlusDist ==
  \A b \in Sns : \A n \in 0..(Modulus - 1) :
    (b + n) % Modulus \in Sns /\ Dist(b, (b + n) % Modulus) = n
<1> SUFFICES ASSUME NEW b \in Sns, NEW n \in 0..(Modulus - 1)
             PROVE  (b + n) % Modulus \in Sns /\ Dist(b, (b + n) % Modulus) = n
  OBVIOUS
<1> DEFINE y == (b + n) % Modulus
<1>1. /\ Modulus \in Nat /\ b \in Nat /\ b < Modulus /\ n \in Nat /\ n < Modulus
      /\ n \in 0..Modulus
  BY Ring
<1>2. y = IF b + n < Modulus THEN b + n ELSE b + n - Modulus
  BY <1>1, PlusIs
<1> HIDE DEF y
<1>3. y \in Sns
  BY <1>1, <1>2, Ring
<1>4. Dist(b, y) = IF b <= y THEN y - b ELSE y - b + Modulus
  BY <1>3, DistIs
<1>5. Dist(b, y) = n
  BY <1>1, <1>2, <1>4
<1> QED
  BY <1>3, <1>5 DEF y

\* What lies as far above b as x does is x.
LEMMA DistPlus == \A b, x \in Sns : (b + Dist(b, x)) % Modulus = x
<1> SUFFICES ASSUME NEW b \in Sns, NEW x \in Sns PROVE (b + Dist(b, x)) % Modulus = x
  OBVIOUS
<1>1. Dist(b, x) \in 0..(Modulus - 1)
  BY DistRange, Ring
<1>2. /\ (b + Dist(b, x)) % Modulus \in Sns
      /\ Dist(b, (b + Dist(b, x)) % Modulus) = Dist(b, x)
  BY <1>1, PlusDist
<1> QED
  BY <1>2, DistSame

\* The next number, and the one half the ring away.
LEMMA Following ==
  \A b, x \in Sns :
    /\ (x + 1) % Modulus \in Sns
    /\ Dist(b, (x + 1) % Modulus) = IF Dist(b, x) = Modulus - 1 THEN 0 ELSE Dist(b, x) + 1
<1> SUFFICES ASSUME NEW b \in Sns, NEW x \in Sns
             PROVE  /\ (x + 1) % Modulus \in Sns
                    /\ Dist(b, (x + 1) % Modulus) = IF Dist(b, x) = Modulus - 1 THEN 0
                                                    ELSE Dist(b, x) + 1
  OBVIOUS
<1> DEFINE y == (x + 1) % Modulus
<1>1. /\ Window \in Nat \ {0} /\ Modulus = 2 * Window /\ Modulus \in Nat
      /\ b \in Nat /\ b < Modulus /\ x \in Nat /\ x < Modulus /\ 1 \in 0..Modulus
  BY Ring
<1>2. y = IF x + 1 < Modulus THEN x + 1 ELSE x + 1 - Modulus
  BY <1>1, PlusIs
<1> HIDE DEF y
<1>3. y \in Sns
  BY <1>1, <1>2, Ring
<1>4. /\ Dist(b, y) = IF b <= y THEN y - b ELSE y - b + Modulus
      /\ Dist(b, x) = IF b <= x THEN x - b ELSE x - b + Modulus
  BY <1>3, DistIs
<1>5. Dist(b, y) = IF Dist(b, x) = Modulus - 1 THEN 0 ELSE Dist(b, x) + 1
  BY <1>1, <1>2, <1>4
<1> QED
  BY <1>3, <1>5 DEF y

Opposite(x) == (x + Window) % Modulus

\* The number half a ring away is a window nearer or farther.
LEMMA Opposed ==
  \A b, x \in Sns :
    /\ Opposite(x) \in Sns
    /\ Dist(b, Opposite(x)) = IF Dist(b, x) < Window THEN Dist(b, x) + Window
                              ELSE Dist(b, x) - Window
<1> SUFFICES ASSUME NEW b \in Sns, NEW x \in Sns
             PROVE  /\ Opposite(x) \in Sns
                    /\ Dist(b, Opposite(x)) = IF Dist(b, x) < Window THEN Dist(b, x) + Window
                                              ELSE Dist(b, x) - Window
  OBVIOUS
<1> DEFINE y == Opposite(x)
<1>1. /\ Window \in Nat \ {0} /\ Modulus = 2 * Window /\ Modulus \in Nat
      /\ b \in Nat /\ b < Modulus /\ x \in Nat /\ x < Modulus /\ Window \in 0..Modulus
  BY Ring
<1>2. y = IF x + Window < Modulus THEN x + Window ELSE x + Window - Modulus
  BY <1>1, PlusIs DEF Opposite
<1> HIDE DEF y
<1>3. y \in Sns
  BY <1>1, <1>2, Ring
<1>4. /\ Dist(b, y) = IF b <= y THEN y - b ELSE y - b + Modulus
      /\ Dist(b, x) = IF b <= x THEN x - b ELSE x - b + Modulus
  BY <1>3, DistIs
<1>5. Dist(b, y) = IF Dist(b, x) < Window THEN Dist(b, x) + Window ELSE Dist(b, x) - Window
  BY <1>1, <1>2, <1>4
<1> QED
  BY <1>3, <1>5 DEF y

\* The number below one of the ring is one of the ring.
LEMMA BeforeIn == \A x \in Sns : (x - 1) % Modulus \in Sns
<1> SUFFICES ASSUME NEW x \in Sns PROVE (x - 1) % Modulus \in Sns
  OBVIOUS
<1>1. Modulus \in Nat \ {0} /\ x - 1 \in Int
  BY Ring
<1> HIDE DEF Modulus
<1>2. (x - 1) % Modulus \in 0..(Modulus - 1)
  BY <1>1
<1> QED
  BY <1>2 DEF Sns

-----------------------------------------------------------------------------
(* The receiving entity.                                                   *)

\* What FirstIncomplete finds, when there is an incomplete number within a window.
LEMMA FirstIncompleteIs ==
  ASSUME NEW s, NEW a \in Sns, NEW h \in Sns, Dist(a, h) <= Window, ~CompleteAt(s, h)
  PROVE  /\ FirstIncomplete(s, a) \in Sns /\ ~CompleteAt(s, FirstIncomplete(s, a))
         /\ Dist(a, FirstIncomplete(s, a)) <= Dist(a, h)
         /\ \A x \in Sns : Dist(a, x) < Dist(a, FirstIncomplete(s, a)) => CompleteAt(s, x)
<1> DEFINE Good(k) == /\ ~CompleteAt(s, (a + k) % Modulus)
                      /\ \A j \in 0..(k - 1) : CompleteAt(s, (a + j) % Modulus)
           n == CHOOSE k \in 0..Window : Good(k)
           f == FirstIncomplete(s, a)
           K == {k \in 0..Window : ~CompleteAt(s, (a + k) % Modulus)}
           d == Dist(a, h)
<1>1. d \in 0..Window /\ (a + d) % Modulus = h
  BY DistPlus, DistRange, Ring
<1>2. d \in K /\ K \subseteq Nat
  BY <1>1, Ring
<1>3. PICK m \in K : \A k \in K : m <= k
  BY <1>2, NatLeast
<1>4. m \in 0..Window /\ Good(m)
  <2>1. ASSUME NEW j \in 0..(m - 1) PROVE CompleteAt(s, (a + j) % Modulus)
    <3>1. m \in 0..Window /\ Window \in Nat
      BY Ring
    <3>2. j \in 0..Window /\ ~(m <= j)
      BY <3>1
    <3> QED
      BY <1>3, <3>2
  <2> QED
    BY <2>1
<1> HIDE DEF d
<1>5. n \in 0..Window /\ Good(n)
  <2> HIDE DEF Good
  <2> QED
    BY <1>4
<1>6. f = (a + n) % Modulus
  BY DEF FirstIncomplete
<1> HIDE DEF n, f, K
<1>7. n \in 0..(Modulus - 1) /\ n \in Nat
  BY <1>5, Ring
<1>8. f \in Sns /\ Dist(a, f) = n
  BY <1>6, <1>7, PlusDist
<1>9. ~CompleteAt(s, f)
  BY <1>5, <1>6
<1>10. ASSUME NEW x \in Sns, Dist(a, x) < n PROVE CompleteAt(s, x)
  <2>1. Dist(a, x) \in 0..(n - 1) /\ (a + Dist(a, x)) % Modulus = x
    BY <1>7, <1>10, DistPlus, DistRange
  <2> QED
    BY <1>5, <2>1
<1>11. n <= d
  <2> SUFFICES ASSUME d < n PROVE FALSE
    BY <1>1, <1>7
  <2>1. CompleteAt(s, h)
    BY <1>10 DEF d
  <2> QED
    BY <2>1
<1> QED
  BY <1>8, <1>9, <1>10, <1>11 DEF f, d

\* The fields of a receiving entity, and what its buffer holds.
RxRecord(r) ==
  r = [vrR |-> r.vrR, vrX |-> r.vrX, vrMs |-> r.vrMs, vrH |-> r.vrH, buffer |-> r.buffer,
       timer |-> r.timer, statusRequested |-> r.statusRequested,
       prohibitTimer |-> r.prohibitTimer, reassembly |-> r.reassembly]
Entry(e) == e = [pdu |-> e.pdu, upto |-> e.upto, size |-> e.size, complete |-> e.complete]
Held(b)  == \A k \in DOMAIN b : k \in Sns /\ b[k].pdu.sn = k /\ Entry(b[k])

\* One part more: the entry stays one, of the same PDU, complete once it is.
LEMMA ExtendedIs ==
  ASSUME NEW e, NEW p, Entry(e)
  PROVE  /\ Entry(Extended(e, p)) /\ Extended(e, p).pdu = e.pdu
         /\ e.complete => Extended(e, p).complete
<1> DEFINE z == e.size + p.to - p.from
           c == e.complete \/ p.lastSegment
           x == Extended(e, p)
<1>1. x = [e EXCEPT !.upto = p.to, !.size = z, !.complete = c]
  BY DEF Extended
<1> HIDE DEF z, c, x
<1>2. x = [pdu |-> e.pdu, upto |-> p.to, size |-> z, complete |-> c]
  <2>1. PICK f : f = e
    OBVIOUS
  <2>2. f = [pdu |-> e.pdu, upto |-> e.upto, size |-> e.size, complete |-> e.complete]
    BY <2>1 DEF Entry
  <2>3. x = [[pdu |-> e.pdu, upto |-> e.upto, size |-> e.size, complete |-> e.complete]
                EXCEPT !.upto = p.to, !.size = z, !.complete = c]
    BY <1>1, <2>1, <2>2, Zenon
  <2> QED
    BY <2>3
<1>3. Entry(x) /\ x.pdu = e.pdu /\ x.complete = c
  BY <1>2 DEF Entry
<1>4. e.complete => c
  BY Zenon DEF c
<1> QED
  BY <1>3, <1>4, Zenon DEF x

\* What a part of a PDU changes: only its own entry, which stays complete once it is.
LEMMA StoredParts ==
  ASSUME NEW s, RxRecord(s), Held(s.buffer), NEW p, p.pdu.sn \in Sns
  PROVE  LET n == Stored(s, p)
         IN  /\ RxRecord(n) /\ Held(n.buffer)
             /\ n.vrR = s.vrR /\ n.vrX = s.vrX /\ n.vrMs = s.vrMs /\ n.vrH = s.vrH
             /\ n.timer = s.timer /\ n.statusRequested = s.statusRequested
             /\ n.prohibitTimer = s.prohibitTimer
             /\ DOMAIN n.buffer \subseteq DOMAIN s.buffer \union {p.pdu.sn}
             /\ \A k : CompleteAt(s, k) => CompleteAt(n, k)
             /\ \A k : CompleteAt(n, k) => CompleteAt(s, k) \/ k = p.pdu.sn
<1> DEFINE sn == p.pdu.sn
           b  == s.buffer
           n  == Stored(s, p)
           c  == n.buffer
<1>1. PICK d : n = [s EXCEPT !.buffer = d] /\
         \/ d = b
         \/ sn \in DOMAIN b /\ d = [b EXCEPT ![sn] = Extended(b[sn], p)]
         \/ sn \in DOMAIN b /\ ~b[sn].complete /\ d = Without(b, {sn})
         \/ sn \notin DOMAIN b /\ d = With(b, sn, FirstEntry(p))
  <2>1. CASE sn \in DOMAIN b /\ p.segment /\ p.from = b[sn].upto
    <3>1. n = [s EXCEPT !.buffer[sn] = Extended(b[sn], p)]
      BY <2>1 DEF Stored
    <3>2. [s EXCEPT !.buffer[sn] = Extended(b[sn], p)]
            = [s EXCEPT !.buffer = [b EXCEPT ![sn] = Extended(b[sn], p)]]
      OBVIOUS
    <3> QED
      BY <2>1, <3>1, <3>2
  <2>2. CASE sn \in DOMAIN b /\ p.segment /\ p.from # b[sn].upto /\ ~b[sn].complete
    <3>1. n = [s EXCEPT !.buffer = Without(b, {sn})]
      BY <2>2 DEF Stored
    <3> QED
      BY <2>2, <3>1
  <2>3. CASE sn \notin DOMAIN b /\ p.from = 0
    <3>1. n = [s EXCEPT !.buffer = With(b, sn, FirstEntry(p))]
      BY <2>3 DEF Stored
    <3> QED
      BY <2>3, <3>1
  <2>4. CASE \/ sn \in DOMAIN b /\ ~p.segment
             \/ sn \in DOMAIN b /\ p.from # b[sn].upto /\ b[sn].complete
             \/ sn \notin DOMAIN b /\ p.from # 0
    <3>1. n = s
      BY <2>4 DEF Stored
    <3>2. s = [s EXCEPT !.buffer = b]
      BY DEF RxRecord
    <3> QED
      BY <3>1, <3>2
  <2> QED
    BY <2>1, <2>2, <2>3, <2>4
<1>2. /\ RxRecord(n) /\ n.buffer = d
      /\ n.vrR = s.vrR /\ n.vrX = s.vrX /\ n.vrMs = s.vrMs /\ n.vrH = s.vrH
      /\ n.timer = s.timer /\ n.statusRequested = s.statusRequested
      /\ n.prohibitTimer = s.prohibitTimer
  BY <1>1 DEF RxRecord
<1>3. /\ Held(d) /\ DOMAIN d \subseteq DOMAIN b \union {sn}
      /\ \A k \in DOMAIN b : b[k].complete => k \in DOMAIN d /\ d[k].complete
      /\ \A k \in DOMAIN d : d[k].complete => k = sn \/ (k \in DOMAIN b /\ b[k].complete)
  <2>1. CASE d = b
    BY <2>1
  <2>2. CASE sn \in DOMAIN b /\ d = [b EXCEPT ![sn] = Extended(b[sn], p)]
    <3>1. /\ DOMAIN d = DOMAIN b /\ d[sn] = Extended(b[sn], p)
          /\ \A k \in DOMAIN b : k # sn => d[k] = b[k]
      BY <2>2
    <3>2. Entry(b[sn]) /\ b[sn].pdu.sn = sn
      BY <2>2 DEF Held
    <3>3. /\ Entry(Extended(b[sn], p)) /\ Extended(b[sn], p).pdu = b[sn].pdu
          /\ b[sn].complete => Extended(b[sn], p).complete
      BY <3>2, ExtendedIs
    <3> QED
      BY <3>1, <3>2, <3>3 DEF Held
  <2>3. CASE ~b[sn].complete /\ d = Without(b, {sn})
    <3>1. DOMAIN d = DOMAIN b \ {sn} /\ \A k \in DOMAIN d : d[k] = b[k]
      BY <2>3 DEF Without, Restrict
    <3> QED
      BY <2>3, <3>1 DEF Held
  <2>4. CASE sn \notin DOMAIN b /\ d = With(b, sn, FirstEntry(p))
    <3>1. /\ DOMAIN d = DOMAIN b \union {sn} /\ d[sn] = FirstEntry(p)
          /\ \A k \in DOMAIN b : d[k] = b[k]
      BY <2>4 DEF With
    <3>2. Entry(FirstEntry(p)) /\ FirstEntry(p).pdu = p.pdu
      BY DEF Entry, FirstEntry
    <3> QED
      BY <2>4, <3>1, <3>2 DEF Held
  <2> QED
    BY <1>1, <2>1, <2>2, <2>3, <2>4
<1> QED
  BY <1>2, <1>3 DEF CompleteAt

\* The receiver's window: VR(R) <= VR(MS) <= VR(H), counted from VR(R), and
\* what is kept lies below VR(H).
RxWindow(r) ==
  /\ RxRecord(r) /\ Held(r.buffer)
  /\ r.vrR \in Sns /\ r.vrX \in Sns /\ r.vrMs \in Sns /\ r.vrH \in Sns
  /\ Dist(r.vrR, r.vrMs) <= Dist(r.vrR, r.vrH) /\ Dist(r.vrR, r.vrH) <= Window
  /\ \A k \in DOMAIN r.buffer : Dist(r.vrR, k) < Dist(r.vrR, r.vrH)

\* The next incomplete number of two, seen from a number before both.
LEMMA FirstAbove ==
  ASSUME NEW s, NEW r \in Sns, NEW a \in Sns, NEW h \in Sns,
         Dist(r, a) <= Dist(r, h), Dist(r, h) <= Window, ~CompleteAt(s, h)
  PROVE  LET f == FirstIncomplete(s, a)
         IN  /\ f \in Sns /\ ~CompleteAt(s, f)
             /\ Dist(r, a) <= Dist(r, f) /\ Dist(r, f) <= Dist(r, h)
             /\ \A x \in Sns : Dist(r, a) <= Dist(r, x) /\ Dist(r, x) < Dist(r, f) =>
                  CompleteAt(s, x)
<1> DEFINE f == FirstIncomplete(s, a)
<1>1. /\ Dist(a, h) = Dist(r, h) - Dist(r, a) /\ Dist(a, h) <= Window
      /\ Dist(r, a) \in Nat /\ Dist(r, h) \in Nat
  BY Rebase, DistRange, Ring
<1>2. /\ f \in Sns /\ ~CompleteAt(s, f) /\ Dist(a, f) <= Dist(a, h)
      /\ \A x \in Sns : Dist(a, x) < Dist(a, f) => CompleteAt(s, x)
  BY <1>1, FirstIncompleteIs
<1> HIDE DEF f
<1>3. Dist(r, a) <= Dist(r, f) /\ Dist(r, f) <= Dist(r, h)
  <2>1. /\ Dist(a, f) = IF Dist(r, a) <= Dist(r, f) THEN Dist(r, f) - Dist(r, a)
                        ELSE Dist(r, f) - Dist(r, a) + Modulus
        /\ Dist(r, f) \in Nat /\ Dist(r, f) < Modulus /\ Dist(r, a) < Modulus
    BY <1>2, Rebase, DistRange
  <2>2. Modulus = 2 * Window /\ Window \in Nat
    BY Ring
  <2>3. Dist(a, f) <= Dist(r, h) - Dist(r, a)
    BY <1>1, <1>2
  <2> QED
    BY <1>1, <2>1, <2>2, <2>3
<1>4. ASSUME NEW x \in Sns, Dist(r, a) <= Dist(r, x), Dist(r, x) < Dist(r, f)
      PROVE  CompleteAt(s, x)
  <2>1. Dist(a, x) = Dist(r, x) - Dist(r, a) /\ Dist(a, f) = Dist(r, f) - Dist(r, a)
    BY <1>2, <1>3, <1>4, Rebase
  <2>2. /\ Dist(r, a) \in Nat /\ Dist(r, x) \in Nat /\ Dist(r, f) \in Nat
    BY <1>2, DistRange
  <2>3. Dist(a, x) < Dist(a, f)
    BY <1>4, <2>1, <2>2
  <2> QED
    BY <1>2, <2>3
<1> QED
  BY <1>2, <1>3, <1>4 DEF f

\* VR(H) and VR(MS) after a PDU.
LEMMA CountedParts ==
  ASSUME NEW s, NEW sn \in Sns, RxRecord(s), Held(s.buffer),
         s.vrR \in Sns, s.vrX \in Sns, s.vrMs \in Sns, s.vrH \in Sns,
         Dist(s.vrR, s.vrMs) <= Dist(s.vrR, s.vrH), Dist(s.vrR, s.vrH) <= Window,
         \A k \in DOMAIN s.buffer : Dist(s.vrR, k) < Dist(s.vrR, s.vrH) \/ k = sn,
         InWindow(s, sn)
  PROVE  LET n == Counted(s, sn)
         IN  /\ RxWindow(n) /\ ~CompleteAt(n, n.vrMs)
             /\ n.vrR = s.vrR /\ n.vrX = s.vrX /\ n.buffer = s.buffer
             /\ n.timer = s.timer /\ n.statusRequested = s.statusRequested
             /\ n.prohibitTimer = s.prohibitTimer
             /\ Dist(s.vrR, s.vrMs) <= Dist(s.vrR, n.vrMs)
             /\ Dist(s.vrR, s.vrH) <= Dist(s.vrR, n.vrH)
             /\ n.vrH = s.vrH \/ Dist(s.vrR, n.vrH) = Dist(s.vrR, sn) + 1
<1> DEFINE top == IF Dist(s.vrR, sn) >= Dist(s.vrR, s.vrH) THEN (sn + 1) % Modulus ELSE s.vrH
           h   == [s EXCEPT !.vrH = top]
           ms  == FirstIncomplete(h, s.vrMs)
           n   == Counted(s, sn)
<1>1. /\ Dist(s.vrR, sn) \in Nat /\ Dist(s.vrR, sn) < Window
      /\ Dist(s.vrR, s.vrMs) \in Nat /\ Dist(s.vrR, s.vrH) \in Nat
      /\ Window \in Nat \ {0} /\ Modulus = 2 * Window
  BY DistRange, Ring DEF InWindow
<1>2. /\ top \in Sns /\ (top = s.vrH \/ Dist(s.vrR, top) = Dist(s.vrR, sn) + 1)
      /\ Dist(s.vrR, top) \in Nat
      /\ Dist(s.vrR, s.vrH) <= Dist(s.vrR, top) /\ Dist(s.vrR, sn) < Dist(s.vrR, top)
      /\ Dist(s.vrR, top) <= Window
  <2>1. /\ (sn + 1) % Modulus \in Sns
        /\ Dist(s.vrR, (sn + 1) % Modulus) = Dist(s.vrR, sn) + 1
    BY <1>1, Following
  <2>2. CASE Dist(s.vrR, sn) >= Dist(s.vrR, s.vrH)
    <3>1. top = (sn + 1) % Modulus
      BY <2>2
    <3> QED
      BY <1>1, <2>1, <2>2, <3>1
  <2>3. CASE ~(Dist(s.vrR, sn) >= Dist(s.vrR, s.vrH))
    <3>1. top = s.vrH
      BY <2>3
    <3> QED
      BY <1>1, <2>3, <3>1
  <2> QED
    BY <2>2, <2>3
<1> HIDE DEF top
<1>3. /\ h.vrMs = s.vrMs /\ h.buffer = s.buffer /\ n = [h EXCEPT !.vrMs = ms]
  BY DEF RxRecord, Counted, top
<1>4. /\ RxRecord(n) /\ n.vrH = top /\ n.vrMs = ms
      /\ n.vrR = s.vrR /\ n.vrX = s.vrX /\ n.buffer = s.buffer
      /\ n.timer = s.timer /\ n.statusRequested = s.statusRequested
      /\ n.prohibitTimer = s.prohibitTimer
  BY <1>3 DEF RxRecord
<1>5. \A k \in DOMAIN s.buffer : Dist(s.vrR, k) < Dist(s.vrR, top)
  BY <1>1, <1>2, DistRange DEF Held
<1>6. ~CompleteAt(h, top)
  <2>1. top \notin DOMAIN s.buffer
    BY <1>2, <1>5
  <2> QED
    BY <1>3, <2>1 DEF CompleteAt
<1>7. Dist(s.vrR, s.vrMs) <= Dist(s.vrR, top)
  BY <1>1, <1>2
<1> HIDE DEF h
<1>8. /\ ms \in Sns /\ ~CompleteAt(h, ms)
      /\ Dist(s.vrR, s.vrMs) <= Dist(s.vrR, ms) /\ Dist(s.vrR, ms) <= Dist(s.vrR, top)
  <2>1. /\ s.vrR \in Sns /\ s.vrMs \in Sns /\ top \in Sns
        /\ Dist(s.vrR, s.vrMs) <= Dist(s.vrR, top) /\ Dist(s.vrR, top) <= Window
        /\ ~CompleteAt(h, top)
    BY <1>2, <1>6, <1>7
  <2> QED
    BY <2>1, FirstAbove
<1>9. ~CompleteAt(n, ms)
  BY <1>3, <1>4, <1>8 DEF CompleteAt
<1> HIDE DEF ms, n
<1>10. RxWindow(n)
  <2>1. \A k \in DOMAIN n.buffer : Dist(n.vrR, k) < Dist(n.vrR, n.vrH)
    BY <1>4, <1>5
  <2> QED
    BY <1>2, <1>4, <1>8, <2>1 DEF RxWindow
<1>11. ~CompleteAt(n, n.vrMs)
  BY <1>4, <1>9
<1>12. /\ Dist(s.vrR, s.vrMs) <= Dist(s.vrR, n.vrMs)
       /\ Dist(s.vrR, s.vrH) <= Dist(s.vrR, n.vrH)
       /\ n.vrH = s.vrH \/ Dist(s.vrR, n.vrH) = Dist(s.vrR, sn) + 1
  BY <1>2, <1>4, <1>8
<1> QED
  BY <1>4, <1>10, <1>11, <1>12 DEF n

\* Delivery moves VR(R) to the first incomplete number, not beyond VR(MS), and
\* drops what lies below.
LEMMA DeliveredParts ==
  ASSUME NEW s, NEW sn \in Sns, RxWindow(s), ~CompleteAt(s, s.vrMs),
         sn = s.vrR \/ ~CompleteAt(s, s.vrR)
  PROVE  LET n == Delivered(s, sn)
         IN  /\ RxWindow(n) /\ ~CompleteAt(n, n.vrR) /\ ~CompleteAt(n, n.vrMs)
             /\ n.vrX = s.vrX /\ n.vrMs = s.vrMs /\ n.vrH = s.vrH
             /\ n.timer = s.timer /\ n.statusRequested = s.statusRequested
             /\ n.prohibitTimer = s.prohibitTimer
             /\ DOMAIN n.buffer \subseteq DOMAIN s.buffer
             /\ Dist(s.vrR, n.vrR) <= Dist(s.vrR, s.vrMs)
             /\ \A x \in Sns : Dist(s.vrR, x) < Dist(s.vrR, n.vrR) => CompleteAt(s, x)
             /\ \A x : CompleteAt(n, x) => CompleteAt(s, x)
             /\ \A x : CompleteAt(s, x) =>
                  CompleteAt(n, x) \/ Dist(s.vrR, x) < Dist(s.vrR, n.vrR)
<1> DEFINE n == Delivered(s, sn)
           R == s.vrR
<1>0. /\ R \in Sns /\ Dist(R, R) = 0 /\ s.vrMs \in Sns /\ s.vrH \in Sns
      /\ RxRecord(s) /\ Held(s.buffer)
      /\ Dist(R, s.vrMs) \in Nat /\ Dist(R, s.vrH) \in Nat /\ Window \in Nat
      /\ Dist(R, s.vrMs) <= Dist(R, s.vrH) /\ Dist(R, s.vrH) <= Window
  BY DistRange, Ring DEF RxWindow
<1>1. CASE sn # s.vrR
  <2>1. n = s /\ ~CompleteAt(s, s.vrR)
    BY <1>1 DEF Delivered
  <2>2. \A x \in Sns : ~(Dist(R, x) < 0)
    BY <1>0, DistRange
  <2> HIDE DEF n, R
  <2> QED
    BY <1>0, <2>1, <2>2 DEF n, R
<1>2. CASE sn = s.vrR
  <2> DEFINE high == FirstIncomplete(s, s.vrR)
             sns  == {k \in DOMAIN s.buffer : Dist(s.vrR, k) < Dist(s.vrR, high)}
             c    == Without(s.buffer, sns)
  <2>1. PICK y : n = [s EXCEPT !.vrR = high, !.buffer = c, !.reassembly = y]
    BY <1>2 DEF Delivered
  <2>2. /\ RxRecord(n) /\ n.vrR = high /\ n.buffer = c
        /\ n.vrX = s.vrX /\ n.vrMs = s.vrMs /\ n.vrH = s.vrH
        /\ n.timer = s.timer /\ n.statusRequested = s.statusRequested
        /\ n.prohibitTimer = s.prohibitTimer
    <3> HIDE DEF high, c, n
    <3> QED
      BY <1>0, <2>1 DEF RxRecord
  <2>3. DOMAIN c = DOMAIN s.buffer \ sns /\ \A k \in DOMAIN c : c[k] = s.buffer[k]
    BY DEF Without, Restrict
  <2>4. /\ high \in Sns /\ ~CompleteAt(s, high)
        /\ Dist(R, high) <= Dist(R, s.vrMs)
        /\ \A x \in Sns : Dist(R, x) < Dist(R, high) => CompleteAt(s, x)
    <3>1. Dist(R, s.vrMs) <= Window /\ Dist(R, R) <= Dist(R, s.vrMs)
      BY <1>0
    <3> QED
      BY <1>0, <3>1, FirstIncompleteIs
  <2> HIDE DEF high, n, c
  <2>5. \A x \in Sns : Dist(high, x) = IF Dist(R, high) <= Dist(R, x)
                                        THEN Dist(R, x) - Dist(R, high)
                                        ELSE Dist(R, x) - Dist(R, high) + Modulus
    BY <1>0, <2>4, Rebase
  <2>6. Dist(R, high) \in Nat /\ \A x \in Sns : Dist(R, x) \in Nat
    BY <1>0, <2>4, DistRange
  <2>7. \A k \in DOMAIN c : /\ k \in DOMAIN s.buffer /\ k \in Sns /\ c[k] = s.buffer[k]
                           /\ Dist(R, high) <= Dist(R, k) /\ Dist(R, k) < Dist(R, s.vrH)
    <3>1. ASSUME NEW k \in DOMAIN c
          PROVE  /\ k \in DOMAIN s.buffer /\ k \in Sns /\ c[k] = s.buffer[k]
                 /\ ~(Dist(R, k) < Dist(R, high)) /\ Dist(R, k) < Dist(R, s.vrH)
      BY <1>0, <2>3 DEF Held, RxWindow
    <3> QED
      BY <2>6, <3>1
  <2>8. /\ Dist(high, s.vrMs) <= Dist(high, s.vrH) /\ Dist(high, s.vrH) <= Window
        /\ \A k \in DOMAIN c : Dist(high, k) < Dist(high, s.vrH)
    <3>1. Dist(high, s.vrH) = Dist(R, s.vrH) - Dist(R, high)
      BY <1>0, <2>4, <2>5, <2>6
    <3>2. Dist(high, s.vrMs) = Dist(R, s.vrMs) - Dist(R, high)
      BY <1>0, <2>4, <2>5, <2>6
    <3>3. ASSUME NEW k \in DOMAIN c PROVE Dist(high, k) < Dist(high, s.vrH)
      <4>1. Dist(high, k) = Dist(R, k) - Dist(R, high) /\ Dist(R, k) < Dist(R, s.vrH)
        BY <2>5, <2>7
      <4> QED
        BY <1>0, <2>6, <2>7, <3>1, <4>1
    <3> QED
      BY <1>0, <2>6, <3>1, <3>2, <3>3
  <2>9. Held(c)
    BY <1>0, <2>7 DEF Held
  <2>10. /\ RxWindow(n)
    BY <1>0, <2>2, <2>4, <2>8, <2>9 DEF RxWindow
  <2>11. /\ \A x : CompleteAt(n, x) => CompleteAt(s, x)
         /\ \A x : CompleteAt(s, x) => CompleteAt(n, x) \/ Dist(R, x) < Dist(R, high)
    BY <2>2, <2>3 DEF CompleteAt
  <2>12. ~CompleteAt(n, high) /\ ~CompleteAt(n, s.vrMs)
    BY <2>4, <2>11
  <2>13. DOMAIN n.buffer \subseteq DOMAIN s.buffer
    BY <2>2, <2>3
  <2> HIDE DEF R
  <2> QED
    BY <2>2, <2>4, <2>10, <2>11, <2>12, <2>13 DEF n, R
<1> QED
  BY <1>1, <1>2

\* t-Reordering watches a number between VR(R) and VR(H); when it does not run,
\* nothing is missing below VR(H) that VR(MS) has not passed.
RxOK(r) ==
  /\ RxWindow(r)
  /\ ~CompleteAt(r, r.vrR) /\ ~CompleteAt(r, r.vrMs)
  /\ r.timer => r.vrX # r.vrR /\ Dist(r.vrR, r.vrX) <= Dist(r.vrR, r.vrH)
  /\ r.timer \/ r.vrMs = r.vrH
  /\ r.timer \in BOOLEAN /\ r.statusRequested \in BOOLEAN /\ r.prohibitTimer \in BOOLEAN

\* t-Reordering after a PDU: it is only kept running for a number still ahead.
LEMMA TimedParts ==
  ASSUME NEW s, RxWindow(s), ~CompleteAt(s, s.vrR), ~CompleteAt(s, s.vrMs),
         s.timer => \/ s.vrX = s.vrR \/ Dist(s.vrR, s.vrX) > Window
                    \/ Dist(s.vrR, s.vrX) <= Dist(s.vrR, s.vrH),
         s.timer \in BOOLEAN, s.statusRequested \in BOOLEAN, s.prohibitTimer \in BOOLEAN
  PROVE  LET n == Timed(s)
         IN  /\ RxOK(n)
             /\ n.vrR = s.vrR /\ n.vrMs = s.vrMs /\ n.vrH = s.vrH /\ n.buffer = s.buffer
<1> DEFINE stays == /\ s.timer /\ s.vrX # s.vrR
                    /\ InWindow(s, s.vrX) \/ Dist(s.vrR, s.vrX) = Window
           gap   == s.vrH # s.vrR
           t     == stays \/ gap
           x     == IF ~stays /\ gap THEN s.vrH ELSE s.vrX
           n     == Timed(s)
<1>1. n = [s EXCEPT !.timer = t, !.vrX = x]
  BY DEF Timed
<1>2. stays => s.vrX # s.vrR /\ Dist(s.vrR, s.vrX) <= Dist(s.vrR, s.vrH)
  <2>1. Dist(s.vrR, s.vrX) \in Nat /\ Window \in Nat
    BY DistRange, Ring DEF RxWindow
  <2> QED
    BY <2>1 DEF InWindow
<1>3. ~gap => s.vrMs = s.vrH
  <2>1. ASSUME ~gap PROVE s.vrMs = s.vrH
    <3>1. s.vrR \in Sns /\ s.vrMs \in Sns /\ Dist(s.vrR, s.vrMs) <= Dist(s.vrR, s.vrR)
      BY <2>1 DEF RxWindow
    <3>2. Dist(s.vrR, s.vrR) = 0 /\ Dist(s.vrR, s.vrMs) \in Nat
      BY <3>1, DistRange
    <3>3. Dist(s.vrR, s.vrMs) = 0
      BY <3>1, <3>2
    <3>4. s.vrMs = s.vrR
      BY <3>1, <3>3, DistRange
    <3> QED
      BY <2>1, <3>4
  <2> QED
    BY <2>1
<1>4. Dist(s.vrR, s.vrH) <= Dist(s.vrR, s.vrH)
  BY DistRange DEF RxWindow
<1>5. stays \in BOOLEAN /\ gap \in BOOLEAN
  BY Zenon
<1> HIDE DEF stays
<1>6. /\ x \in Sns /\ t \in BOOLEAN
      /\ t => x # s.vrR /\ Dist(s.vrR, x) <= Dist(s.vrR, s.vrH)
      /\ t \/ s.vrMs = s.vrH
  <2>1. CASE ~stays /\ gap
    <3>1. x = s.vrH
      BY <2>1
    <3> QED
      BY <1>4, <1>5, <2>1, <3>1 DEF RxWindow
  <2>2. CASE ~(~stays /\ gap)
    <3>1. x = s.vrX
      BY <2>2
    <3> QED
      BY <1>2, <1>3, <1>5, <2>2, <3>1 DEF RxWindow
  <2> QED
    BY <2>1, <2>2
<1> HIDE DEF t, x, n
<1>7. /\ RxRecord(n) /\ n.timer = t /\ n.vrX = x
      /\ n.vrR = s.vrR /\ n.vrMs = s.vrMs /\ n.vrH = s.vrH /\ n.buffer = s.buffer
      /\ n.statusRequested = s.statusRequested /\ n.prohibitTimer = s.prohibitTimer
  BY <1>1 DEF RxRecord, RxWindow
<1>8. RxWindow(n)
  BY <1>6, <1>7 DEF RxWindow
<1>9. ~CompleteAt(n, n.vrR) /\ ~CompleteAt(n, n.vrMs)
  BY <1>7 DEF CompleteAt
<1>10. RxOK(n)
  BY <1>6, <1>7, <1>8, <1>9 DEF RxOK
<1> QED
  BY <1>7, <1>10 DEF n

\* What DoReceivePdu makes of a data PDU that lies in the window.
PduTaken(r, p) ==
  LET polled == [r EXCEPT !.statusRequested = @ \/ p.poll]
      sn     == p.pdu.sn
  IN  Timed(Delivered(Counted(Stored(polled, p), sn), sn))

\* A data PDU that lies in the window: the receiver stays well-formed, its three
\* numbers only move up, VR(R) past complete numbers only, and nothing that has
\* been complete is forgotten unless VR(R) passes it.
LEMMA Received ==
  ASSUME NEW r, RxOK(r), NEW p, p.pdu.sn \in Sns, InWindow(r, p.pdu.sn)
  PROVE  LET n == PduTaken(r, p)
         IN  /\ RxOK(n)
             /\ Dist(r.vrR, n.vrR) <= Dist(r.vrR, n.vrMs)
             /\ Dist(r.vrR, n.vrMs) <= Dist(r.vrR, n.vrH) /\ Dist(r.vrR, n.vrH) <= Window
             /\ Dist(r.vrR, r.vrMs) <= Dist(r.vrR, n.vrMs)
             /\ n.vrH = r.vrH \/ Dist(r.vrR, n.vrH) = Dist(r.vrR, p.pdu.sn) + 1
             /\ DOMAIN n.buffer \subseteq DOMAIN r.buffer \union {p.pdu.sn}
             /\ \A x \in Sns : Dist(r.vrR, x) < Dist(r.vrR, n.vrR) =>
                  CompleteAt(r, x) \/ x = p.pdu.sn
             /\ \A x : CompleteAt(n, x) => CompleteAt(r, x) \/ x = p.pdu.sn
             /\ \A x : CompleteAt(r, x) =>
                  CompleteAt(n, x) \/ Dist(r.vrR, x) < Dist(r.vrR, n.vrR)
<1> DEFINE sn == p.pdu.sn
           q  == [r EXCEPT !.statusRequested = @ \/ p.poll]
           a  == Stored(q, p)
           b  == Counted(a, sn)
           c  == Delivered(b, sn)
           n  == Timed(c)
           R  == r.vrR
<1>0. /\ RxRecord(r) /\ Held(r.buffer) /\ sn \in Sns
      /\ R \in Sns /\ r.vrX \in Sns /\ r.vrMs \in Sns /\ r.vrH \in Sns
      /\ Dist(R, r.vrMs) <= Dist(R, r.vrH) /\ Dist(R, r.vrH) <= Window
      /\ \A k \in DOMAIN r.buffer : Dist(R, k) < Dist(R, r.vrH)
      /\ r.timer => r.vrX # R /\ Dist(R, r.vrX) <= Dist(R, r.vrH)
      /\ r.timer \in BOOLEAN /\ r.statusRequested \in BOOLEAN /\ r.prohibitTimer \in BOOLEAN
      /\ ~CompleteAt(r, R) /\ Dist(R, sn) < Window
  BY DEF RxOK, RxWindow, InWindow
<1>1. /\ RxRecord(q) /\ q.vrR = R /\ q.vrX = r.vrX /\ q.vrMs = r.vrMs /\ q.vrH = r.vrH
      /\ q.buffer = r.buffer /\ q.timer = r.timer /\ q.prohibitTimer = r.prohibitTimer
      /\ q.statusRequested \in BOOLEAN
  BY <1>0 DEF RxRecord
<1> HIDE DEF q
<1>2. /\ RxRecord(a) /\ Held(a.buffer)
      /\ a.vrR = R /\ a.vrX = r.vrX /\ a.vrMs = r.vrMs /\ a.vrH = r.vrH
      /\ a.timer = r.timer /\ a.statusRequested \in BOOLEAN /\ a.prohibitTimer = r.prohibitTimer
      /\ DOMAIN a.buffer \subseteq DOMAIN r.buffer \union {sn}
      /\ \A k : CompleteAt(r, k) => CompleteAt(a, k)
      /\ \A k : CompleteAt(a, k) => CompleteAt(r, k) \/ k = sn
  <2>1. Held(q.buffer) /\ \A k : CompleteAt(q, k) <=> CompleteAt(r, k)
    BY <1>0, <1>1 DEF CompleteAt
  <2>2. /\ RxRecord(a) /\ Held(a.buffer)
        /\ a.vrR = q.vrR /\ a.vrX = q.vrX /\ a.vrMs = q.vrMs /\ a.vrH = q.vrH
        /\ a.timer = q.timer /\ a.statusRequested = q.statusRequested
        /\ a.prohibitTimer = q.prohibitTimer
        /\ DOMAIN a.buffer \subseteq DOMAIN q.buffer \union {sn}
        /\ \A k : CompleteAt(q, k) => CompleteAt(a, k)
        /\ \A k : CompleteAt(a, k) => CompleteAt(q, k) \/ k = sn
    BY <1>0, <1>1, <2>1, StoredParts
  <2> HIDE DEF a
  <2> QED
    BY <1>1, <2>1, <2>2
<1> HIDE DEF a
<1>3. /\ RxWindow(b) /\ ~CompleteAt(b, b.vrMs)
      /\ b.vrR = R /\ b.vrX = r.vrX /\ b.buffer = a.buffer
      /\ b.timer = r.timer /\ b.statusRequested \in BOOLEAN /\ b.prohibitTimer = r.prohibitTimer
      /\ Dist(R, r.vrMs) <= Dist(R, b.vrMs)
      /\ Dist(R, r.vrH) <= Dist(R, b.vrH)
      /\ b.vrH = r.vrH \/ Dist(R, b.vrH) = Dist(R, sn) + 1
  <2>1. /\ a.vrR \in Sns /\ a.vrX \in Sns /\ a.vrMs \in Sns /\ a.vrH \in Sns
        /\ Dist(a.vrR, a.vrMs) <= Dist(a.vrR, a.vrH) /\ Dist(a.vrR, a.vrH) <= Window
        /\ \A k \in DOMAIN a.buffer : Dist(a.vrR, k) < Dist(a.vrR, a.vrH) \/ k = sn
        /\ InWindow(a, sn)
    BY <1>0, <1>2 DEF InWindow
  <2>2. /\ RxWindow(b) /\ ~CompleteAt(b, b.vrMs)
        /\ b.vrR = a.vrR /\ b.vrX = a.vrX /\ b.buffer = a.buffer
        /\ b.timer = a.timer /\ b.statusRequested = a.statusRequested
        /\ b.prohibitTimer = a.prohibitTimer
        /\ Dist(a.vrR, a.vrMs) <= Dist(a.vrR, b.vrMs)
        /\ Dist(a.vrR, a.vrH) <= Dist(a.vrR, b.vrH)
        /\ b.vrH = a.vrH \/ Dist(a.vrR, b.vrH) = Dist(a.vrR, sn) + 1
    BY <1>0, <1>2, <2>1, CountedParts
  <2> HIDE DEF b
  <2> QED
    BY <1>2, <2>2
<1>4. \A k : CompleteAt(b, k) <=> CompleteAt(a, k)
  BY <1>3 DEF CompleteAt
<1> HIDE DEF b
<1>5. sn = b.vrR \/ ~CompleteAt(b, b.vrR)
  BY <1>0, <1>2, <1>3, <1>4
<1>6. /\ RxWindow(c) /\ ~CompleteAt(c, c.vrR) /\ ~CompleteAt(c, c.vrMs)
      /\ c.vrX = r.vrX /\ c.vrMs = b.vrMs /\ c.vrH = b.vrH
      /\ c.timer = r.timer /\ c.statusRequested \in BOOLEAN /\ c.prohibitTimer = r.prohibitTimer
      /\ DOMAIN c.buffer \subseteq DOMAIN b.buffer
      /\ Dist(R, c.vrR) <= Dist(R, b.vrMs)
      /\ \A x \in Sns : Dist(R, x) < Dist(R, c.vrR) => CompleteAt(b, x)
      /\ \A x : CompleteAt(c, x) => CompleteAt(b, x)
      /\ \A x : CompleteAt(b, x) => CompleteAt(c, x) \/ Dist(R, x) < Dist(R, c.vrR)
  <2>1. /\ RxWindow(c) /\ ~CompleteAt(c, c.vrR) /\ ~CompleteAt(c, c.vrMs)
        /\ c.vrX = b.vrX /\ c.vrMs = b.vrMs /\ c.vrH = b.vrH
        /\ c.timer = b.timer /\ c.statusRequested = b.statusRequested
        /\ c.prohibitTimer = b.prohibitTimer
        /\ DOMAIN c.buffer \subseteq DOMAIN b.buffer
        /\ Dist(b.vrR, c.vrR) <= Dist(b.vrR, b.vrMs)
        /\ \A x \in Sns : Dist(b.vrR, x) < Dist(b.vrR, c.vrR) => CompleteAt(b, x)
        /\ \A x : CompleteAt(c, x) => CompleteAt(b, x)
        /\ \A x : CompleteAt(b, x) => CompleteAt(c, x) \/ Dist(b.vrR, x) < Dist(b.vrR, c.vrR)
    BY <1>0, <1>3, <1>5, DeliveredParts
  <2> HIDE DEF c
  <2> QED
    BY <1>3, <2>1
<1> HIDE DEF c
<1>7. /\ Dist(R, b.vrMs) <= Dist(R, b.vrH) /\ Dist(R, b.vrH) <= Window
      /\ c.vrR \in Sns /\ b.vrMs \in Sns /\ b.vrH \in Sns
  BY <1>3, <1>6 DEF RxWindow
<1>8. c.timer => \/ c.vrX = c.vrR \/ Dist(c.vrR, c.vrX) > Window
                 \/ Dist(c.vrR, c.vrX) <= Dist(c.vrR, c.vrH)
  <2> SUFFICES ASSUME c.timer
               PROVE  \/ Dist(c.vrR, r.vrX) > Window
                      \/ Dist(c.vrR, r.vrX) <= Dist(c.vrR, b.vrH)
    BY <1>6
  <2>1. r.vrX # R /\ Dist(R, r.vrX) <= Dist(R, r.vrH)
    BY <1>0, <1>6
  <2>2. /\ Dist(R, r.vrX) \in Nat /\ Dist(R, r.vrX) # 0 /\ Dist(R, c.vrR) \in Nat
        /\ Dist(R, b.vrH) \in Nat /\ Dist(R, r.vrH) \in Nat /\ Dist(R, b.vrMs) \in Nat
    BY <1>0, <1>7, <2>1, DistRange
  <2>3. Dist(c.vrR, r.vrX) = IF Dist(R, c.vrR) <= Dist(R, r.vrX)
                             THEN Dist(R, r.vrX) - Dist(R, c.vrR)
                             ELSE Dist(R, r.vrX) - Dist(R, c.vrR) + Modulus
    BY <1>0, <1>7, Rebase
  <2>4. Dist(c.vrR, b.vrH) = IF Dist(R, c.vrR) <= Dist(R, b.vrH)
                             THEN Dist(R, b.vrH) - Dist(R, c.vrR)
                             ELSE Dist(R, b.vrH) - Dist(R, c.vrR) + Modulus
    BY <1>0, <1>7, Rebase
  <2>5. Modulus = 2 * Window /\ Window \in Nat
    BY Ring
  <2>6. /\ Dist(R, c.vrR) <= Dist(R, b.vrMs) /\ Dist(R, r.vrX) <= Dist(R, b.vrH)
        /\ Dist(R, c.vrR) <= Dist(R, b.vrH) /\ Dist(R, c.vrR) <= Window
    BY <1>3, <1>6, <1>7, <2>1, <2>2, <2>5
  <2> QED
    BY <2>2, <2>3, <2>4, <2>5, <2>6
<1>9. /\ RxOK(n)
      /\ n.vrR = c.vrR /\ n.vrMs = c.vrMs /\ n.vrH = c.vrH /\ n.buffer = c.buffer
  <2>1. c.timer \in BOOLEAN /\ c.prohibitTimer \in BOOLEAN /\ c.statusRequested \in BOOLEAN
    BY <1>0, <1>6
  <2> QED
    BY <1>6, <1>8, <2>1, TimedParts
<1>10. n = PduTaken(r, p)
  BY DEF PduTaken, a, b, c, q
<1> HIDE DEF n
<1>11. \A x : CompleteAt(n, x) <=> CompleteAt(c, x)
  BY <1>9 DEF CompleteAt
<1>12. /\ Dist(R, n.vrR) <= Dist(R, n.vrMs)
       /\ Dist(R, n.vrMs) <= Dist(R, n.vrH) /\ Dist(R, n.vrH) <= Window
       /\ Dist(R, r.vrMs) <= Dist(R, n.vrMs)
       /\ n.vrH = r.vrH \/ Dist(R, n.vrH) = Dist(R, sn) + 1
  BY <1>3, <1>6, <1>7, <1>9
<1>13. DOMAIN n.buffer \subseteq DOMAIN r.buffer \union {sn}
  BY <1>2, <1>3, <1>6, <1>9
<1>14. /\ \A x \in Sns : Dist(R, x) < Dist(R, n.vrR) => CompleteAt(r, x) \/ x = sn
       /\ \A x : CompleteAt(n, x) => CompleteAt(r, x) \/ x = sn
       /\ \A x : CompleteAt(r, x) => CompleteAt(n, x) \/ Dist(R, x) < Dist(R, n.vrR)
  BY <1>2, <1>4, <1>6, <1>9, <1>11
<1> QED
  BY <1>9, <1>10, <1>12, <1>13, <1>14

\* t-Reordering expires: VR(MS) moves to the first incomplete number from VR(X) on.
LEMMA Reordered ==
  ASSUME NEW r, RxOK(r), r.timer, NEW n,
         LET vrMs == FirstIncomplete(r, r.vrX)
             gap  == Dist(r.vrR, r.vrH) > Dist(r.vrR, vrMs)
         IN  n = [r EXCEPT !.vrMs = vrMs, !.timer = gap, !.vrX = IF gap THEN r.vrH ELSE @,
                           !.statusRequested = TRUE]
  PROVE  /\ RxOK(n)
         /\ n.vrR = r.vrR /\ n.vrH = r.vrH /\ n.buffer = r.buffer
         /\ n.prohibitTimer = r.prohibitTimer
<1> DEFINE ms  == FirstIncomplete(r, r.vrX)
           gap == Dist(r.vrR, r.vrH) > Dist(r.vrR, ms)
           x   == IF gap THEN r.vrH ELSE r.vrX
<1>1. n = [r EXCEPT !.vrMs = ms, !.timer = gap, !.vrX = x, !.statusRequested = TRUE]
  OBVIOUS
<1>2. /\ RxRecord(r) /\ Held(r.buffer) /\ r.vrX # r.vrR
      /\ r.vrR \in Sns /\ r.vrX \in Sns /\ r.vrH \in Sns
      /\ Dist(r.vrR, r.vrX) <= Dist(r.vrR, r.vrH) /\ Dist(r.vrR, r.vrH) <= Window
      /\ \A k \in DOMAIN r.buffer : Dist(r.vrR, k) < Dist(r.vrR, r.vrH)
      /\ ~CompleteAt(r, r.vrR) /\ r.prohibitTimer \in BOOLEAN
  BY DEF RxOK, RxWindow
<1>3. ~CompleteAt(r, r.vrH)
  <2>1. ~(Dist(r.vrR, r.vrH) < Dist(r.vrR, r.vrH))
    BY <1>2, DistRange
  <2> QED
    BY <1>2, <2>1 DEF CompleteAt
<1>4. /\ ms \in Sns /\ ~CompleteAt(r, ms) /\ Dist(r.vrR, ms) <= Dist(r.vrR, r.vrH)
      /\ Dist(r.vrR, r.vrX) <= Dist(r.vrR, ms)
  BY <1>2, <1>3, FirstAbove
<1> HIDE DEF ms
<1>5. /\ Dist(r.vrR, ms) \in Nat /\ Dist(r.vrR, r.vrH) \in Nat
      /\ Dist(r.vrR, r.vrX) \in Nat /\ Dist(r.vrR, r.vrX) # 0
  BY <1>2, <1>4, DistRange
<1>6. gap => x = r.vrH /\ x # r.vrR
  <2>1. Dist(r.vrR, r.vrR) = 0
    BY <1>2, DistRange
  <2> QED
    BY <1>5, <2>1
<1>7. ~gap => ms = r.vrH
  <2>1. ~gap => Dist(r.vrR, ms) = Dist(r.vrR, r.vrH)
    BY <1>4, <1>5
  <2> QED
    BY <1>2, <1>4, <2>1, DistSame
<1>8. gap \in BOOLEAN /\ x \in Sns
  BY <1>2
<1> HIDE DEF gap, x
<1>9. /\ RxRecord(n) /\ n.vrMs = ms /\ n.timer = gap /\ n.vrX = x
      /\ n.vrR = r.vrR /\ n.vrH = r.vrH /\ n.buffer = r.buffer
      /\ n.statusRequested = TRUE /\ n.prohibitTimer = r.prohibitTimer
  BY <1>1, <1>2 DEF RxRecord
<1>10. RxWindow(n)
  BY <1>2, <1>4, <1>8, <1>9 DEF RxWindow
<1>11. ~CompleteAt(n, n.vrR) /\ ~CompleteAt(n, n.vrMs)
  BY <1>2, <1>4, <1>9 DEF CompleteAt
<1>12. n.timer => n.vrX # n.vrR /\ Dist(n.vrR, n.vrX) <= Dist(n.vrR, n.vrH)
  <2>1. Dist(r.vrR, r.vrH) <= Dist(r.vrR, r.vrH)
    BY <1>5
  <2> QED
    BY <1>6, <1>9, <2>1
<1>13. n.timer \/ n.vrMs = n.vrH
  BY <1>7, <1>8, <1>9
<1> QED
  BY <1>2, <1>8, <1>9, <1>10, <1>11, <1>12, <1>13 DEF RxOK

-----------------------------------------------------------------------------
(* The transmitting entity.                                                *)

\* A buffer holds PDUs under their own numbers.
Shape(b) ==
  /\ b = [k \in DOMAIN b |-> b[k]]
  /\ \A k \in DOMAIN b : k \in Sns /\ b[k].sn = k

TxRecord(t) ==
  t = [buffer |-> t.buffer, vtA |-> t.vtA, vtS |-> t.vtS, txed |-> t.txed, retx |-> t.retx,
       seg |-> t.seg, pollTimer |-> t.pollTimer, pollSn |-> t.pollSn,
       justExpired |-> t.justExpired, rbsTimer |-> t.rbsTimer]

TxShape(t) ==
  /\ TxRecord(t) /\ Shape(t.txed) /\ Shape(t.retx)
  /\ t.vtA \in Sns /\ t.vtS \in Sns /\ t.pollSn \in Sns
  /\ t.pollTimer \in BOOLEAN /\ t.justExpired \in BOOLEAN /\ t.rbsTimer \in BOOLEAN

\* A buffer with one more PDU, under its own number.
LEMMA WithShape ==
  ASSUME NEW b, Shape(b), NEW at \in Sns, NEW x, x.sn = at
  PROVE  Shape(With(b, at, x)) /\ DOMAIN With(b, at, x) = DOMAIN b \union {at}
BY DEF With, Shape

\* A buffer with the PDUs of some numbers removed.
LEMMA WithoutShape ==
  ASSUME NEW b, NEW S
  PROVE  /\ DOMAIN Without(b, S) = DOMAIN b \ S
         /\ Shape(b) => Shape(Without(b, S))
BY DEF Without, Restrict, Shape

\* The PDUs of some numbers of a buffer.
LEMMA RestrictShape ==
  ASSUME NEW b, Shape(b), NEW S
  PROVE  /\ DOMAIN Restrict(b, S \cap DOMAIN b) = S \cap DOMAIN b
         /\ Shape(Restrict(b, S \cap DOMAIN b))
BY DEF Restrict, Shape

\* Two buffers in one.
LEMMA MergedShape ==
  ASSUME NEW b, Shape(b), NEW c, Shape(c)
  PROVE  Shape(Merged(b, c)) /\ DOMAIN Merged(b, c) = DOMAIN b \union DOMAIN c
BY DEF Merged, Shape

\* A poll touches nothing but the poll timer.
LEMMA PollingParts ==
  ASSUME NEW t, TxShape(t), NEW poll
  PROVE  LET n == Polling(t, poll)
         IN  /\ TxShape(n) /\ n.buffer = t.buffer /\ n.vtA = t.vtA /\ n.vtS = t.vtS
             /\ n.txed = t.txed /\ n.retx = t.retx /\ n.seg = t.seg
<1>1. (t.vtS - 1) % Modulus \in Sns
  BY BeforeIn DEF TxShape
<1> QED
  BY <1>1 DEF Polling, TxShape, TxRecord

\* The PDU that is sent again is one that waits for it.
LEMMA RetxSnIs ==
  ASSUME TxShape(tx), tx.retx # <<>>
  PROVE  /\ RetxSn \in DOMAIN tx.retx
         /\ \A other \in DOMAIN tx.retx : Dist(tx.vtA, RetxSn) <= Dist(tx.vtA, other)
<1>1. DOMAIN tx.retx # {}
  <2> SUFFICES ASSUME DOMAIN tx.retx = {} PROVE FALSE
    OBVIOUS
  <2>1. tx.retx = [k \in {} |-> tx.retx[k]]
    BY DEF TxShape, Shape
  <2>2. tx.retx = <<>>
    BY <2>1
  <2> QED
    BY <2>2
<1>2. \A k \in DOMAIN tx.retx : Dist(tx.vtA, k) \in Nat
  BY DistRange DEF TxShape, Shape
<1> DEFINE D == {Dist(tx.vtA, k) : k \in DOMAIN tx.retx}
<1>3. D \subseteq Nat /\ D # {}
  BY <1>1, <1>2
<1>4. PICK d \in D : \A e \in D : d <= e
  <2> HIDE DEF D
  <2> QED
    BY <1>3, NatLeast
<1>5. PICK k \in DOMAIN tx.retx :
        \A other \in DOMAIN tx.retx : Dist(tx.vtA, k) <= Dist(tx.vtA, other)
  BY <1>4
<1> QED
  BY <1>5 DEF RetxSn

\* What a STATUS PDU does: VT(A) moves to the first number still open, PDUs
\* reported missing are sent again, those acknowledged are dropped.
LEMMA StatusTakenParts ==
  ASSUME NEW t, TxShape(t), NEW st
  PROVE  LET n        == StatusTaken(t, st)
             examined == Examined(t, st)
             nacked   == examined \cap st.nacks
             open     == (Outstanding(t) \ examined) \union nacked \union {t.vtS}
         IN  /\ TxShape(n) /\ n.vtS = t.vtS
             /\ n.vtA \in open /\ \A x \in open : Dist(t.vtA, n.vtA) <= Dist(t.vtA, x)
             /\ DOMAIN n.retx = (DOMAIN t.retx \union (nacked \cap DOMAIN t.txed))
                                  \ (examined \ nacked)
             /\ DOMAIN n.txed = DOMAIN t.txed \ examined
             /\ DOMAIN n.seg = DOMAIN t.seg \ (examined \ nacked)
<1> DEFINE n        == StatusTaken(t, st)
           examined == Examined(t, st)
           nacked   == examined \cap st.nacks
           open     == (Outstanding(t) \ examined) \union nacked \union {t.vtS}
           a        == CHOOSE sn \in open :
                       \A other \in open : Dist(t.vtA, sn) <= Dist(t.vtA, other)
           p        == t.pollTimer /\ t.pollSn \notin examined
           again    == Restrict(t.txed, nacked \cap DOMAIN t.txed)
           r        == Without(Merged(again, t.retx), examined \ nacked)
           x        == Without(t.txed, examined)
           g        == Without(t.seg, examined \ nacked)
<1>1. n = [t EXCEPT !.vtA = a, !.pollTimer = p, !.retx = r, !.txed = x, !.seg = g]
  BY DEF StatusTaken
<1>2. t.vtS \in open /\ open \subseteq Sns
  BY DEF Outstanding, Examined, TxShape
<1>3. a \in open /\ \A y \in open : Dist(t.vtA, a) <= Dist(t.vtA, y)
  <2> HIDE DEF open
  <2> DEFINE D == {Dist(t.vtA, k) : k \in open}
  <2>1. D \subseteq Nat /\ D # {}
    BY <1>2, DistRange DEF TxShape
  <2>2. PICK d \in D : \A e \in D : d <= e
    <3> HIDE DEF D
    <3> QED
      BY <2>1, NatLeast
  <2>3. PICK k \in open : \A y \in open : Dist(t.vtA, k) <= Dist(t.vtA, y)
    BY <2>2
  <2> QED
    BY <2>3
<1>4. p \in BOOLEAN
  BY Zenon
<1> HIDE DEF open, examined, nacked, a, p
<1>5. Shape(again) /\ DOMAIN again = nacked \cap DOMAIN t.txed
  BY RestrictShape DEF TxShape
<1> HIDE DEF again
<1>6. /\ Shape(Merged(again, t.retx))
      /\ DOMAIN Merged(again, t.retx) = DOMAIN again \union DOMAIN t.retx
  BY <1>5, MergedShape DEF TxShape
<1>7. /\ Shape(r) /\ DOMAIN r = (DOMAIN again \union DOMAIN t.retx) \ (examined \ nacked)
      /\ Shape(x) /\ DOMAIN x = DOMAIN t.txed \ examined
      /\ DOMAIN g = DOMAIN t.seg \ (examined \ nacked)
  <2> DEFINE both == Merged(again, t.retx)
             away == examined \ nacked
  <2>1. Shape(both) /\ Shape(t.txed) /\ DOMAIN both = DOMAIN again \union DOMAIN t.retx
    BY <1>6 DEF TxShape
  <2> HIDE DEF both, away
  <2>2. Shape(Without(both, away)) /\ DOMAIN Without(both, away) = DOMAIN both \ away
    BY <2>1, WithoutShape
  <2>3. Shape(x) /\ DOMAIN x = DOMAIN t.txed \ examined
    BY <2>1, WithoutShape
  <2>4. DOMAIN g = DOMAIN t.seg \ away
    BY WithoutShape DEF away
  <2> QED
    BY <2>1, <2>2, <2>3, <2>4 DEF both, away
<1> HIDE DEF r, x, g, n
<1>8. /\ TxRecord(n) /\ n.vtA = a /\ n.pollTimer = p /\ n.retx = r /\ n.txed = x /\ n.seg = g
      /\ n.vtS = t.vtS /\ n.pollSn = t.pollSn /\ n.justExpired = t.justExpired
      /\ n.rbsTimer = t.rbsTimer
  BY <1>1 DEF TxShape, TxRecord
<1>9. TxShape(n)
  BY <1>2, <1>3, <1>4, <1>7, <1>8 DEF TxShape
<1> QED
  BY <1>3, <1>5, <1>7, <1>8, <1>9 DEF n, open, examined, nacked

\* What an opportunity does: nothing, a retransmission of (a part of) a PDU that
\* waits for it, or a new PDU under VT(S).
Resent(x, sn) ==
  /\ sn \in DOMAIN tx.retx /\ x.pdu.sn = sn
  /\ channel' = Sent(channel, x) /\ tx'.vtS = tx.vtS
  /\ \/ /\ DOMAIN tx'.txed = DOMAIN tx.txed \union {sn}
        /\ DOMAIN tx'.retx = DOMAIN tx.retx \ {sn}
        /\ DOMAIN tx'.seg = DOMAIN tx.seg \ {sn}
     \/ /\ DOMAIN tx'.txed = DOMAIN tx.txed /\ DOMAIN tx'.retx = DOMAIN tx.retx
        /\ DOMAIN tx'.seg = DOMAIN tx.seg \union {sn}

FirstSent(x) ==
  /\ ~WindowFull(tx) /\ x.pdu.sn = tx.vtS
  /\ channel' = Sent(channel, x) /\ tx'.vtS = (tx.vtS + 1) % Modulus
  /\ DOMAIN tx'.txed = DOMAIN tx.txed \union {tx.vtS}
  /\ DOMAIN tx'.retx = DOMAIN tx.retx /\ DOMAIN tx'.seg = DOMAIN tx.seg

NothingSent ==
  /\ channel' = channel /\ tx'.vtS = tx.vtS
  /\ tx'.txed = tx.txed /\ tx'.retx = tx.retx /\ tx'.seg = tx.seg

\* A retransmission keeps the transmitter well-formed and resends one PDU.
LEMMA RetransmitParts ==
  ASSUME TxShape(tx), NEW room, Retransmit(room)
  PROVE  /\ TxShape(tx') /\ tx'.vtA = tx.vtA
         /\ \E x, sn : Resent(x, sn)
<1> DEFINE sn   == RetxSn
           pdu  == tx.retx[sn]
           from == IF sn \in DOMAIN tx.seg THEN tx.seg[sn] ELSE 0
           poll == RetxPolls(sn)
           t    == Polling(tx, poll)
           fits == Size(pdu) - from <= room \/ bigEnough
           x1   == AmPdu(pdu, poll, sn \in DOMAIN tx.seg, from, Size(pdu), TRUE)
           x2   == AmPdu(pdu, poll, TRUE, from, from + room, FALSE)
           a    == With(t.txed, sn, pdu)
           b    == Without(t.retx, {sn})
           g1   == Without(t.seg, {sn})
           g2   == With(t.seg, sn, from + room)
<1>1. sn \in DOMAIN tx.retx /\ sn \in Sns /\ pdu.sn = sn
  <2>1. tx.retx # <<>>
    BY DEF Retransmit
  <2>2. RetxSn \in DOMAIN tx.retx
    BY <2>1, RetxSnIs
  <2> QED
    BY <2>2 DEF TxShape, Shape
<1>2. /\ TxShape(t) /\ t.vtA = tx.vtA /\ t.vtS = tx.vtS
      /\ t.txed = tx.txed /\ t.retx = tx.retx /\ t.seg = tx.seg
  BY PollingParts
<1>3. \/ channel' = Sent(channel, x1) /\ tx' = [t EXCEPT !.txed = a, !.retx = b, !.seg = g1]
      \/ channel' = Sent(channel, x2) /\ tx' = [t EXCEPT !.seg = g2]
  <2>1. CASE fits
    BY <2>1 DEF Retransmit
  <2>2. CASE ~fits
    BY <2>2 DEF Retransmit
  <2> QED
    BY <2>1, <2>2
<1>4. x1.pdu = pdu /\ x2.pdu = pdu
  BY DEF AmPdu
<1> HIDE DEF sn, pdu, t, x1, x2
<1>5. Shape(a) /\ DOMAIN a = DOMAIN tx.txed \union {sn}
  <2>1. Shape(tx.txed) /\ t.txed = tx.txed
    BY <1>2 DEF TxShape
  <2> QED
    BY <1>1, <2>1, WithShape
<1>6. Shape(b) /\ DOMAIN b = DOMAIN tx.retx \ {sn}
  BY <1>2, WithoutShape DEF TxShape
<1>7. DOMAIN g1 = DOMAIN tx.seg \ {sn} /\ DOMAIN g2 = DOMAIN tx.seg \union {sn}
  BY <1>2, WithoutShape DEF With
<1> HIDE DEF a, b, g1, g2, from
<1>8. CASE channel' = Sent(channel, x1) /\ tx' = [t EXCEPT !.txed = a, !.retx = b, !.seg = g1]
  <2>1. /\ TxShape(tx') /\ tx'.vtA = tx.vtA /\ tx'.vtS = tx.vtS
        /\ tx'.txed = a /\ tx'.retx = b /\ tx'.seg = g1
    BY <1>2, <1>5, <1>6, <1>8 DEF TxShape, TxRecord
  <2>2. Resent(x1, sn)
    BY <1>1, <1>4, <1>5, <1>6, <1>7, <1>8, <2>1 DEF Resent
  <2> QED
    BY <2>1, <2>2
<1>9. CASE channel' = Sent(channel, x2) /\ tx' = [t EXCEPT !.seg = g2]
  <2>1. /\ TxShape(tx') /\ tx'.vtA = tx.vtA /\ tx'.vtS = tx.vtS
        /\ tx'.txed = tx.txed /\ tx'.retx = tx.retx /\ tx'.seg = g2
    BY <1>2, <1>9 DEF TxShape, TxRecord
  <2>2. Resent(x2, sn)
    BY <1>1, <1>4, <1>7, <1>9, <2>1 DEF Resent
  <2> QED
    BY <2>1, <2>2
<1> QED
  BY <1>3, <1>8, <1>9

\* A new PDU keeps the transmitter well-formed and takes VT(S).
LEMMA SendNewParts ==
  ASSUME TxShape(tx), NEW room, SendNewPdu(room)
  PROVE  /\ TxShape(tx') /\ tx'.vtA = tx.vtA
         /\ \E x : FirstSent(x)
<1> DEFINE packed == Pack(tx.buffer, room)
           rest   == packed.rest
           pdu    == DataPdu(tx.vtS, packed.data)
           t      == [tx EXCEPT !.buffer = rest]
           k      == Kept(t, pdu)
           next   == (tx.vtS + 1) % Modulus
           kept   == With(tx.txed, tx.vtS, pdu)
           x      == AmPdu(pdu, TRUE, FALSE, 0, Size(pdu), TRUE)
<1>1. tx' = Polling(k, TRUE) /\ channel' = Sent(channel, x) /\ ~WindowFull(tx)
  BY DEF SendNewPdu
<1>2. pdu.sn = tx.vtS /\ x.pdu = pdu
  BY DEF DataPdu, AmPdu
<1> HIDE DEF rest, pdu
<1>3. t.vtS = tx.vtS /\ t.txed = tx.txed /\ TxShape(t) /\ t.vtA = tx.vtA
      /\ t.retx = tx.retx /\ t.seg = tx.seg
  BY DEF TxShape, TxRecord
<1> HIDE DEF t, x
<1>4. next \in Sns
  BY Following DEF TxShape
<1>5. Shape(kept) /\ DOMAIN kept = DOMAIN tx.txed \union {tx.vtS}
  BY <1>2, WithShape DEF TxShape
<1>6. k = [t EXCEPT !.vtS = next, !.txed = kept]
  BY <1>3 DEF Kept
<1> HIDE DEF kept, next, k
<1>7. /\ TxShape(k) /\ k.vtA = tx.vtA /\ k.vtS = next /\ k.txed = kept
      /\ k.retx = tx.retx /\ k.seg = tx.seg
  BY <1>3, <1>4, <1>5, <1>6 DEF TxShape, TxRecord
<1>8. /\ TxShape(tx') /\ tx'.vtA = tx.vtA /\ tx'.vtS = next /\ tx'.txed = kept
      /\ tx'.retx = tx.retx /\ tx'.seg = tx.seg
  BY <1>1, <1>7, PollingParts
<1>9. FirstSent(x)
  BY <1>1, <1>2, <1>5, <1>8 DEF FirstSent, next
<1> QED
  BY <1>8, <1>9

\* So does a transmission opportunity, which sends one PDU or none.
LEMMA OpportunityParts ==
  ASSUME TxShape(tx), NEW room, NotifyTxOpportunity(room)
  PROVE  /\ TxShape(tx') /\ tx'.vtA = tx.vtA
         /\ \/ NothingSent
            \/ \E x, sn : Resent(x, sn)
            \/ \E x : FirstSent(x)
<1>1. CASE Retransmit(room)
  BY <1>1, RetransmitParts
<1>2. CASE SendNewPdu(room)
  BY <1>2, SendNewParts
<1>3. CASE RetransmitNothing
  <2>1. /\ TxShape(tx') /\ tx'.vtA = tx.vtA /\ tx'.vtS = tx.vtS
        /\ tx'.txed = tx.txed /\ tx'.retx = tx.retx /\ tx'.seg = tx.seg
    BY <1>3, PollingParts DEF RetransmitNothing
  <2> QED
    BY <1>3, <2>1 DEF RetransmitNothing, NothingSent
<1>4. CASE SendNothing(room)
  BY <1>4 DEF SendNothing, NothingSent
<1> QED
  BY <1>1, <1>2, <1>3, <1>4 DEF NotifyTxOpportunity

\* The poll timer expires: what was sent may all wait for retransmission again.
LEMMA PollExpiredParts ==
  ASSUME TxShape(tx), ExpirePollRetransmitTimer
  PROVE  /\ TxShape(tx') /\ tx'.vtA = tx.vtA /\ tx'.vtS = tx.vtS /\ tx'.seg = tx.seg
         /\ \/ tx'.txed = tx.txed /\ tx'.retx = tx.retx
            \/ /\ DOMAIN tx'.txed = {}
               /\ DOMAIN tx'.retx = DOMAIN tx.retx \union DOMAIN tx.txed
<1> DEFINE both == Merged(tx.retx, tx.txed)
<1>1. Shape(both) /\ DOMAIN both = DOMAIN tx.retx \union DOMAIN tx.txed
  BY MergedShape DEF TxShape
<1>2. Shape(<<>>) /\ DOMAIN <<>> = {}
  BY DEF Shape
<1>3. \/ tx' = [tx EXCEPT !.pollTimer = FALSE, !.justExpired = TRUE, !.retx = both, !.txed = <<>>]
      \/ tx' = [tx EXCEPT !.pollTimer = FALSE, !.justExpired = TRUE, !.retx = tx.retx,
                          !.txed = tx.txed]
  BY DEF ExpirePollRetransmitTimer
<1> HIDE DEF both
<1>4. CASE tx' = [tx EXCEPT !.pollTimer = FALSE, !.justExpired = TRUE, !.retx = both,
                            !.txed = <<>>]
  <2>1. /\ TxRecord(tx') /\ tx'.vtA = tx.vtA /\ tx'.vtS = tx.vtS /\ tx'.seg = tx.seg
        /\ tx'.retx = both /\ tx'.txed = <<>> /\ tx'.pollSn = tx.pollSn
        /\ tx'.pollTimer = FALSE /\ tx'.justExpired = TRUE /\ tx'.rbsTimer = tx.rbsTimer
    BY <1>4 DEF TxShape, TxRecord
  <2> QED
    BY <1>1, <1>2, <2>1 DEF TxShape
<1>5. CASE tx' = [tx EXCEPT !.pollTimer = FALSE, !.justExpired = TRUE, !.retx = tx.retx,
                            !.txed = tx.txed]
  BY <1>5 DEF TxShape, TxRecord
<1> QED
  BY <1>3, <1>4, <1>5

-----------------------------------------------------------------------------
(* The shape of the state, and what each entity guarantees on its own.     *)
AmShape ==
  /\ TxShape(tx) /\ RxOK(rx)
  /\ Listed(channel) /\ \A i \in DOMAIN channel : channel[i].pdu.pdu.sn \in Sns
  /\ Listed(statuses)
  /\ mac \in BOOLEAN /\ rxMac \in BOOLEAN
  /\ offered \in 0..Len(SduLen) /\ losses \in 0..MaxLost

\* Nothing has been sent or received yet.
LEMMA AmShapeInit == AmInit => AmShape
<1> SUFFICES ASSUME AmInit PROVE AmShape
  OBVIOUS
<1>1. 0 \in Sns /\ Dist(0, 0) = 0 /\ 0 <= Window /\ 0 \in 0..MaxLost
  <2>1. 0 \in Sns
    BY Ring
  <2> QED
    BY <2>1, DistRange, Ring, AmAssumption
<1>2. 0 \in 0..Len(SduLen)
  <2>1. Len(SduLen) \in Nat
    BY RlcSduAssumption
  <2> QED
    BY <2>1 DEF AmInit
<1>3. DOMAIN <<>> = {} /\ Shape(<<>>) /\ Held(<<>>) /\ Listed(<<>>)
  <2>1. DOMAIN <<>> = {} /\ <<>> \in Seq({})
    OBVIOUS
  <2> QED
    BY <2>1 DEF Shape, Held, Listed
<1>4. TxShape(tx)
  BY <1>1, <1>3 DEF AmInit, TxShape, TxRecord
<1>5. RxOK(rx)
  <2>1. /\ RxRecord(rx) /\ rx.vrR = 0 /\ rx.vrX = 0 /\ rx.vrMs = 0 /\ rx.vrH = 0
        /\ rx.buffer = <<>> /\ rx.timer = FALSE /\ rx.statusRequested = FALSE
        /\ rx.prohibitTimer = FALSE
    BY DEF AmInit, RxRecord
  <2>2. RxWindow(rx)
    BY <1>1, <1>3, <2>1 DEF RxWindow
  <2>3. ~CompleteAt(rx, 0)
    BY <1>3, <2>1 DEF CompleteAt
  <2> QED
    BY <2>1, <2>2, <2>3 DEF RxOK
<1> QED
  BY <1>1, <1>2, <1>3, <1>4, <1>5 DEF AmInit, AmShape

\* Every step keeps the shape; the receiver takes no harm from any PDU.
LEMMA AmShapeNext == AmShape /\ [AmNext]_vars => AmShape'
<1> SUFFICES ASSUME AmShape, [AmNext]_vars PROVE AmShape'
  OBVIOUS
<1> DEFINE Carried == Listed(channel) /\ \A i \in DOMAIN channel : channel[i].pdu.pdu.sn \in Sns
<1>0. /\ TxShape(tx) /\ RxOK(rx) /\ Carried /\ Listed(statuses)
      /\ mac \in BOOLEAN /\ rxMac \in BOOLEAN
      /\ offered \in 0..Len(SduLen) /\ losses \in 0..MaxLost
      /\ Len(SduLen) \in Nat /\ MaxLost \in Nat
  BY RlcSduAssumption, AmAssumption DEF AmShape
<1>1. CASE TransmitPdcpPdu
  <2>1. offered + 1 \in 0..Len(SduLen) /\ offered' = offered + 1
    BY <1>0, <1>1 DEF TransmitPdcpPdu
  <2>2. PICK b : tx' = [tx EXCEPT !.buffer = b, !.rbsTimer = TRUE]
    BY <1>1 DEF TransmitPdcpPdu
  <2>3. TxShape(tx')
    BY <1>0, <2>2 DEF TxShape, TxRecord
  <2>4. mac' \in BOOLEAN
    BY <1>0, <1>1 DEF TransmitPdcpPdu, Reported
  <2> QED
    BY <1>0, <1>1, <2>1, <2>3, <2>4 DEF TransmitPdcpPdu, AmShape, receiverVars
<1>2. CASE ExpireRbsTimer
  <2>1. PICK b \in BOOLEAN : tx' = [tx EXCEPT !.rbsTimer = b]
    BY <1>2 DEF ExpireRbsTimer
  <2>2. TxShape(tx')
    BY <1>0, <2>1 DEF TxShape, TxRecord
  <2>3. mac' \in BOOLEAN
    BY <1>0, <1>2 DEF ExpireRbsTimer, Reported
  <2> QED
    BY <1>0, <1>2, <2>2, <2>3 DEF ExpireRbsTimer, AmShape, receiverVars, history
<1>3. CASE ExpirePollRetransmitTimer
  <2>1. TxShape(tx')
    BY <1>0, <1>3, PollExpiredParts
  <2>2. mac' \in BOOLEAN
    BY <1>0, <1>3 DEF ExpirePollRetransmitTimer, Reported
  <2> QED
    BY <1>0, <1>3, <2>1, <2>2
       DEF ExpirePollRetransmitTimer, AmShape, receiverVars, history
<1>4. ASSUME NEW room, NotifyTxOpportunity(room) PROVE AmShape'
  <2>1. /\ TxShape(tx')
        /\ \/ channel' = channel
           \/ \E x : x.pdu.sn \in Sns /\ channel' = Sent(channel, x)
    <3>1. TxShape(tx') /\ (NothingSent \/ (\E x, sn : Resent(x, sn)) \/ (\E x : FirstSent(x)))
      BY <1>0, <1>4, OpportunityParts
    <3>2. CASE NothingSent
      BY <3>1, <3>2 DEF NothingSent
    <3>3. ASSUME NEW x, NEW sn, Resent(x, sn)
          PROVE  x.pdu.sn \in Sns /\ channel' = Sent(channel, x)
      BY <1>0, <3>3 DEF Resent, TxShape, Shape
    <3>4. ASSUME NEW x, FirstSent(x)
          PROVE  x.pdu.sn \in Sns /\ channel' = Sent(channel, x)
      BY <1>0, <3>4 DEF FirstSent, TxShape
    <3> QED
      BY <3>1, <3>2, <3>3, <3>4
  <2>2. ASSUME NEW x, x.pdu.sn \in Sns, channel' = Sent(channel, x)
        PROVE  Carried'
    <3>1. /\ Listed(channel') /\ DOMAIN channel = 1..Len(channel) /\ Len(channel) \in Nat
          /\ DOMAIN channel' = 1..(Len(channel) + 1)
          /\ \A i \in 1..Len(channel) : channel'[i] = channel[i]
          /\ channel'[Len(channel) + 1].pdu = x
      BY <1>0, <2>2, SentListed
    <3>2. ASSUME NEW i \in DOMAIN channel' PROVE channel'[i].pdu.pdu.sn \in Sns
      <4>1. CASE i = Len(channel) + 1
        BY <2>2, <3>1, <4>1
      <4>2. CASE i # Len(channel) + 1
        <5>1. i \in DOMAIN channel /\ channel'[i] = channel[i]
          BY <3>1, <4>2
        <5> QED
          BY <1>0, <5>1
      <4> QED
        BY <4>1, <4>2
    <3> QED
      BY <3>1, <3>2
  <2>3. Carried'
    BY <1>0, <2>1, <2>2
  <2>4. mac' \in BOOLEAN
    BY <1>4, Zenon DEF NotifyTxOpportunity
  <2> HIDE DEF Carried
  <2>5. AmShape' <=> /\ TxShape(tx') /\ RxOK(rx') /\ Carried' /\ Listed(statuses')
                     /\ mac' \in BOOLEAN /\ rxMac' \in BOOLEAN
                     /\ offered' \in 0..Len(SduLen) /\ losses' \in 0..MaxLost
    BY DEF AmShape, Carried
  <2> QED
    BY <1>0, <1>4, <2>1, <2>3, <2>4, <2>5 DEF NotifyTxOpportunity, receiverVars, history
<1>5. ASSUME NEW i \in DOMAIN channel,
             channel' = RemoveAt(channel, i) \/ channel' = Arrived(channel, i)
      PROVE  Carried'
  <2>1. /\ Listed(channel') /\ DOMAIN channel' = 1..(Len(channel) - 1)
        /\ \A k \in 1..(Len(channel) - 1) :
             Skip(i, k) \in DOMAIN channel /\ channel'[k].pdu = channel[Skip(i, k)].pdu
    BY <1>0, <1>5, RemovedListed
  <2> QED
    BY <1>0, <2>1
<1>6. ASSUME NEW i \in DOMAIN channel, RecvData(i) PROVE AmShape'
  <2>1. Carried'
    BY <1>5, <1>6 DEF RecvData
  <2> DEFINE p == channel[i].pdu
  <2>2. p.pdu.sn \in Sns
    BY <1>0
  <2>3. \/ ~InWindow(rx, p.pdu.sn) /\ rx' = [rx EXCEPT !.statusRequested = @ \/ p.poll]
        \/ InWindow(rx, p.pdu.sn) /\ rx' = PduTaken(rx, p)
    BY <1>6 DEF RecvData, PduTaken
  <2>4. RxOK(rx')
    <3> HIDE DEF p
    <3>1. CASE InWindow(rx, p.pdu.sn) /\ rx' = PduTaken(rx, p)
      BY <1>0, <2>2, <3>1, Received
    <3>2. CASE rx' = [rx EXCEPT !.statusRequested = @ \/ p.poll]
      <4>1. /\ RxRecord(rx') /\ rx'.vrR = rx.vrR /\ rx'.vrX = rx.vrX /\ rx'.vrMs = rx.vrMs
            /\ rx'.vrH = rx.vrH /\ rx'.buffer = rx.buffer /\ rx'.timer = rx.timer
            /\ rx'.prohibitTimer = rx.prohibitTimer /\ rx'.statusRequested \in BOOLEAN
        BY <1>0, <3>2 DEF RxOK, RxWindow, RxRecord
      <4> QED
        BY <1>0, <4>1 DEF RxOK, RxWindow, CompleteAt
    <3> QED
      BY <2>3, <3>1, <3>2
  <2>5. rxMac' \in BOOLEAN
    BY <1>6, Zenon DEF RecvData
  <2> QED
    BY <1>0, <1>6, <2>1, <2>4, <2>5 DEF RecvData, AmShape, senderVars, history
<1>7. ASSUME NEW i \in DOMAIN channel, LoseData(i) PROVE AmShape'
  <2>1. Carried'
    BY <1>5, <1>7 DEF LoseData
  <2>2. losses' \in 0..MaxLost
    BY <1>0, <1>7 DEF LoseData
  <2> QED
    BY <1>0, <1>7, <2>1, <2>2 DEF LoseData, AmShape, senderVars, receiverVars
<1>8. ASSUME NEW i \in DOMAIN statuses, RecvStatus(i) PROVE AmShape'
  <2>1. Listed(statuses')
    BY <1>0, <1>8, RemovedListed DEF RecvStatus
  <2>2. TxShape(tx')
    BY <1>0, <1>8, StatusTakenParts DEF RecvStatus
  <2> QED
    BY <1>0, <1>8, <2>1, <2>2 DEF RecvStatus, AmShape, receiverVars, history
<1>9. ASSUME NEW i \in DOMAIN statuses, LoseStatus(i) PROVE AmShape'
  <2>1. Listed(statuses')
    BY <1>0, <1>9, RemovedListed DEF LoseStatus
  <2>2. losses' \in 0..MaxLost
    BY <1>0, <1>9 DEF LoseStatus
  <2> QED
    BY <1>0, <1>9, <2>1, <2>2 DEF LoseStatus, AmShape, senderVars, receiverVars
<1>10. CASE ExpireReorderingTimer
  <2>1. RxOK(rx')
    BY <1>0, <1>10, Reordered DEF ExpireReorderingTimer
  <2> QED
    BY <1>0, <1>10, <2>1 DEF ExpireReorderingTimer, AmShape, senderVars, history
<1>11. CASE ExpireStatusProhibitTimer
  <2>1. RxOK(rx')
    <3>1. rx' = [rx EXCEPT !.prohibitTimer = FALSE]
      BY <1>11 DEF ExpireStatusProhibitTimer
    <3>2. /\ RxRecord(rx') /\ rx'.vrR = rx.vrR /\ rx'.vrX = rx.vrX /\ rx'.vrMs = rx.vrMs
          /\ rx'.vrH = rx.vrH /\ rx'.buffer = rx.buffer /\ rx'.timer = rx.timer
          /\ rx'.prohibitTimer = FALSE /\ rx'.statusRequested = rx.statusRequested
      BY <1>0, <3>1 DEF RxOK, RxWindow, RxRecord
    <3> QED
      BY <1>0, <3>2 DEF RxOK, RxWindow, CompleteAt
  <2> QED
    BY <1>0, <1>11, <2>1 DEF ExpireStatusProhibitTimer, AmShape, senderVars, history
<1>12. ASSUME NEW room, NotifyStatusOpportunity(room) PROVE AmShape'
  <2>1. Listed(statuses')
    BY <1>0, <1>12, SentListed DEF NotifyStatusOpportunity
  <2>2. RxOK(rx')
    <3>1. CASE rx' = [rx EXCEPT !.statusRequested = FALSE, !.prohibitTimer = TRUE]
      <4>1. /\ RxRecord(rx') /\ rx'.vrR = rx.vrR /\ rx'.vrX = rx.vrX /\ rx'.vrMs = rx.vrMs
            /\ rx'.vrH = rx.vrH /\ rx'.buffer = rx.buffer /\ rx'.timer = rx.timer
            /\ rx'.prohibitTimer = TRUE /\ rx'.statusRequested = FALSE
        BY <1>0, <3>1 DEF RxOK, RxWindow, RxRecord
      <4> QED
        BY <1>0, <4>1 DEF RxOK, RxWindow, CompleteAt
    <3>2. CASE rx' = rx
      BY <1>0, <3>2
    <3> QED
      BY <1>12, <3>1, <3>2 DEF NotifyStatusOpportunity
  <2>3. rxMac' \in BOOLEAN
    BY <1>12 DEF NotifyStatusOpportunity
  <2> QED
    BY <1>0, <1>12, <2>1, <2>2, <2>3 DEF NotifyStatusOpportunity, AmShape, senderVars, history
<1>13. CASE UNCHANGED vars
  BY <1>0, <1>13 DEF vars, AmShape, senderVars, receiverVars, history
<1> QED
  BY <1>1, <1>2, <1>3, <1>4, <1>6, <1>7, <1>8, <1>9, <1>10, <1>11, <1>12, <1>13 DEF AmNext

\* In every reachable state the entities keep sequence numbers where these
\* belong and buffers hold PDUs under their own numbers (lte-rlc-am.cc:
\* DoNotifyTxOpportunity, DoReceivePdu and the timers), whatever is lost,
\* duplicated or overtaken.
THEOREM AmTypes == AmSpec => []AmTypeOK
<1>1. AmShape => AmTypeOK
  BY DEF AmShape, AmTypeOK, TxShape, Shape, RxOK, RxWindow, Held
<1> QED
  BY <1>1, AmShapeInit, AmShapeNext, PTL DEF AmSpec

\* In every reachable state a PDU missing below VR(H) is below VR(MS) or
\* t-Reordering is running, so that a STATUS PDU will ask for it.
THEOREM AmGaps == AmSpec => []AmGapTimed
<1>1. AmShape => AmGapTimed
  BY DEF AmShape, AmGapTimed, RxOK
<1> QED
  BY <1>1, AmShapeInit, AmShapeNext, PTL DEF AmSpec

-----------------------------------------------------------------------------
(* Both entities together: what the windows, the PDUs and the STATUS PDUs on *)
(* their way have to do with one another.  a stands for VT(A), s for VT(S).  *)

\* VT(A) <= VR(R) <= VR(MS) <= VR(H) <= VT(S) <= VT(A) + window
InStep(a, r, s) ==
  /\ Dist(a, r.vrR) <= Dist(a, r.vrMs) /\ Dist(a, r.vrMs) <= Dist(a, r.vrH)
  /\ Dist(a, r.vrH) <= Dist(a, s) /\ Dist(a, s) <= Window

\* A data PDU on its way that the receiver would take lies below VT(S).  The
\* number half the ring away from it is not in the reception buffer, and is not
\* that of an older PDU which the receiver would take as well.
SnAt(q, i) == q[i].pdu.pdu.sn
Fresh(q, r, s) ==
  \A j \in DOMAIN q :
    /\ SnAt(q, j) \in Sns
    /\ InWindow(r, SnAt(q, j)) => Dist(r.vrR, SnAt(q, j)) < Dist(r.vrR, s)
    /\ Opposite(SnAt(q, j)) \notin DOMAIN r.buffer
    /\ \A i \in 1..(j - 1) : SnAt(q, i) = Opposite(SnAt(q, j)) => ~InWindow(r, SnAt(q, i))

\* The receiver has got all of a PDU.
Seen(a, r, x) == Dist(a, x) < Dist(a, r.vrR) \/ CompleteAt(r, x)

\* What a STATUS PDU acknowledges has been received, what it reports missing is
\* kept (in K), and it does not start above VR(R).
Bounds(st)     == {st.ack} \union st.nacks
Acks(a, st, x) == Dist(a, x) < Dist(a, st.ack) /\ x \notin st.nacks
Truthful(st, a, s, K, r) ==
  /\ st.ack \in Sns /\ st.nacks \subseteq Sns
  /\ Dist(a, st.ack) <= Dist(a, s)
  /\ \A x \in st.nacks : Dist(a, x) < Dist(a, st.ack) /\ x \in K
  /\ \A x \in Sns : Acks(a, st, x) => Seen(a, r, x)
  /\ \E x \in Bounds(st) : Dist(a, x) <= Dist(a, r.vrR)

\* A later STATUS PDU neither starts below an older one nor reports missing what
\* the older one acknowledges.
Newer(new, old, a) ==
  /\ \E x \in Bounds(old) : \A y \in Bounds(new) : Dist(a, x) <= Dist(a, y)
  /\ \A x \in new.nacks : ~Acks(a, old, x)
Reports(q, a, s, K, r) ==
  \A j \in DOMAIN q : /\ Truthful(q[j].pdu, a, s, K, r)
                      /\ \A i \in 1..(j - 1) : Newer(q[j].pdu, q[i].pdu, a)

\* NothingForgotten, of a transmitter and a receiver
KeptBy(t) == DOMAIN t.txed \union DOMAIN t.retx
Remembers(t, r) ==
  /\ DOMAIN t.txed \cap DOMAIN t.retx = {} /\ DOMAIN t.seg \subseteq DOMAIN t.retx
  /\ KeptBy(t) \subseteq Outstanding(t)
  /\ \A x \in Outstanding(t) \ KeptBy(t) : Seen(t.vtA, r, x)

AmWindows ==
  /\ InStep(tx.vtA, rx, tx.vtS)
  /\ Fresh(channel, rx, tx.vtS)
  /\ Reports(statuses, tx.vtA, tx.vtS, KeptBy(tx), rx)
  /\ Remembers(tx, rx)

\* Seen from a number c between a and s, with at most a window from a to s.
LEMMA Rebased ==
  ASSUME NEW a \in Sns, NEW c \in Sns, NEW s \in Sns,
         Dist(a, c) <= Dist(a, s), Dist(a, s) <= Window
  PROVE  /\ \A x \in Sns : Dist(a, c) <= Dist(a, x) => Dist(c, x) = Dist(a, x) - Dist(a, c)
         /\ \A x \in Sns : Dist(a, x) < Dist(a, c) => Dist(c, x) >= Window
         /\ \A x \in Sns : Dist(c, x) < Dist(c, s) => Dist(a, c) <= Dist(a, x)
         /\ \A x \in Sns : Dist(c, x) <= Dist(c, s) => Dist(a, x) = Dist(a, c) + Dist(c, x)
<1>1. /\ Dist(a, c) \in Nat /\ Dist(a, s) \in Nat /\ Window \in Nat \ {0} /\ Modulus = 2 * Window
      /\ Dist(c, s) = Dist(a, s) - Dist(a, c)
  BY DistRange, Rebase, Ring
<1> SUFFICES ASSUME NEW x \in Sns
             PROVE  /\ Dist(a, c) <= Dist(a, x) => Dist(c, x) = Dist(a, x) - Dist(a, c)
                    /\ Dist(a, x) < Dist(a, c) => Dist(c, x) >= Window
                    /\ Dist(c, x) < Dist(c, s) => Dist(a, c) <= Dist(a, x)
                    /\ Dist(c, x) <= Dist(c, s) => Dist(a, x) = Dist(a, c) + Dist(c, x)
  OBVIOUS
<1>2. /\ Dist(a, x) \in Nat /\ Dist(a, x) < Modulus
      /\ Dist(c, x) \in Nat /\ Dist(c, x) < Modulus
      /\ Dist(c, x) = IF Dist(a, c) <= Dist(a, x) THEN Dist(a, x) - Dist(a, c)
                      ELSE Dist(a, x) - Dist(a, c) + Modulus
  BY DistRange, Rebase
<1>3. CASE Dist(a, c) <= Dist(a, x)
  BY <1>1, <1>2, <1>3
<1>4. CASE ~(Dist(a, c) <= Dist(a, x))
  <2>1. Dist(c, x) = Dist(a, x) - Dist(a, c) + 2 * Window
    BY <1>1, <1>2, <1>4
  <2>2. Dist(c, x) >= Window /\ (Dist(c, x) = Window => Dist(a, c) = Window /\ Dist(a, s) = Window)
    BY <1>1, <1>2, <1>4, <2>1
  <2>3. ~(Dist(c, x) <= Dist(c, s))
    BY <1>1, <1>2, <1>4, <2>2
  <2> QED
    BY <1>1, <1>2, <1>4, <2>2, <2>3
<1> QED
  BY <1>3, <1>4

\* The receiver's numbers are in the transmitter's window, and VT(S) is as far
\* from VR(R) as the difference of their distances from VT(A).
LEMMA InStepIs ==
  ASSUME NEW a \in Sns, NEW s \in Sns, NEW r, RxWindow(r), InStep(a, r, s)
  PROVE  /\ Dist(a, r.vrR) <= Dist(a, s) /\ Dist(a, s) <= Window
         /\ Dist(r.vrR, s) = Dist(a, s) - Dist(a, r.vrR)
         /\ Dist(r.vrR, r.vrH) <= Dist(r.vrR, s)
         /\ Dist(r.vrR, s) <= Window
<1>1. /\ r.vrR \in Sns /\ r.vrMs \in Sns /\ r.vrH \in Sns
      /\ Dist(a, r.vrR) \in Nat /\ Dist(a, r.vrMs) \in Nat /\ Dist(a, r.vrH) \in Nat
      /\ Dist(a, s) \in Nat /\ Window \in Nat
  BY DistRange, Ring DEF RxWindow
<1>2. /\ Dist(a, r.vrR) <= Dist(a, s) /\ Dist(a, s) <= Window
      /\ Dist(a, r.vrR) <= Dist(a, r.vrH) /\ Dist(a, r.vrH) <= Dist(a, s)
  BY <1>1 DEF InStep
<1>3. /\ Dist(r.vrR, s) = Dist(a, s) - Dist(a, r.vrR)
      /\ Dist(r.vrR, r.vrH) = Dist(a, r.vrH) - Dist(a, r.vrR)
  BY <1>1, <1>2, Rebased
<1> QED
  BY <1>1, <1>2, <1>3

\* What the reception buffer holds lies below VT(S).
LEMMA HeldBelow ==
  ASSUME NEW a \in Sns, NEW s \in Sns, NEW r, RxWindow(r), InStep(a, r, s),
         NEW k \in DOMAIN r.buffer
  PROVE  k \in Sns /\ Dist(a, r.vrR) <= Dist(a, k) /\ Dist(a, k) < Dist(a, s)
<1>1. /\ r.vrR \in Sns /\ r.vrH \in Sns /\ k \in Sns /\ Dist(r.vrR, k) < Dist(r.vrR, r.vrH)
  BY DEF RxWindow, Held
<1>2. /\ Dist(a, r.vrR) <= Dist(a, s) /\ Dist(a, s) <= Window
      /\ Dist(r.vrR, s) = Dist(a, s) - Dist(a, r.vrR)
      /\ Dist(r.vrR, r.vrH) <= Dist(r.vrR, s)
  BY InStepIs
<1>3. /\ Dist(a, r.vrR) \in Nat /\ Dist(a, s) \in Nat /\ Dist(r.vrR, k) \in Nat
      /\ Dist(r.vrR, r.vrH) \in Nat
  BY <1>1, DistRange
<1>4. Dist(r.vrR, k) < Dist(r.vrR, s)
  BY <1>1, <1>2, <1>3
<1>5. Dist(a, k) = Dist(a, r.vrR) + Dist(r.vrR, k)
  BY <1>1, <1>2, <1>3, <1>4, Rebased
<1> QED
  BY <1>1, <1>2, <1>3, <1>4, <1>5

\* A PDU that is sent, new or again, with a number between VT(A) and VT(S).
LEMMA SentFresh ==
  ASSUME NEW a \in Sns, NEW s \in Sns, NEW s2 \in Sns, NEW r, RxWindow(r),
         InStep(a, r, s), Dist(a, s) <= Dist(a, s2), Dist(a, s2) <= Window,
         NEW q, Listed(q), Fresh(q, r, s),
         NEW x, x.pdu.sn \in Sns, Dist(a, x.pdu.sn) < Dist(a, s2)
  PROVE  Fresh(Sent(q, x), r, s2)
<1> DEFINE n  == Sent(q, x)
           sn == x.pdu.sn
           m  == Len(q) + 1
<1>1. /\ DOMAIN q = 1..Len(q) /\ Len(q) \in Nat /\ DOMAIN n = 1..m
      /\ \A i \in 1..Len(q) : n[i] = q[i]
      /\ n[m].pdu = x
  BY SentListed
<1> HIDE DEF n
<1>2. /\ r.vrR \in Sns /\ Dist(a, r.vrR) \in Nat /\ Dist(a, s) \in Nat /\ Dist(a, s2) \in Nat
      /\ Dist(a, sn) \in Nat /\ Window \in Nat
  BY DistRange, Ring DEF RxWindow
<1>3. /\ Dist(a, r.vrR) <= Dist(a, s) /\ Dist(r.vrR, s) = Dist(a, s) - Dist(a, r.vrR)
  BY InStepIs
<1>4. Dist(a, r.vrR) <= Dist(a, s2)
  BY <1>2, <1>3
<1>5. Dist(r.vrR, s2) = Dist(a, s2) - Dist(a, r.vrR)
  BY <1>2, <1>4, Rebased
<1>6. InStep(a, r, s2)
  <2>1. Dist(a, r.vrH) \in Nat
    BY DistRange DEF RxWindow
  <2> QED
    BY <1>2, <2>1 DEF InStep
<1>7. ASSUME NEW y \in Sns, InWindow(r, y), Dist(r.vrR, y) < Dist(r.vrR, s2)
      PROVE  y # Opposite(sn)
  <2>1. Dist(r.vrR, y) \in Nat
    BY <1>2, DistRange
  <2>2. Dist(a, y) = Dist(a, r.vrR) + Dist(r.vrR, y)
    BY <1>2, <1>4, <1>5, <1>7, <2>1, Rebased
  <2>3. Dist(a, y) < Window
    BY <1>2, <1>5, <1>7, <2>1, <2>2
  <2>4. Dist(a, Opposite(sn)) = Dist(a, sn) + Window
    <3>1. Dist(a, sn) < Window
      BY <1>2
    <3> QED
      BY <3>1, Opposed
  <2> QED
    BY <1>2, <2>3, <2>4
<1>8. ASSUME NEW j \in DOMAIN q
      PROVE  /\ SnAt(n, j) = SnAt(q, j) /\ SnAt(q, j) \in Sns
             /\ InWindow(r, SnAt(q, j)) => Dist(r.vrR, SnAt(q, j)) < Dist(r.vrR, s2)
             /\ Opposite(SnAt(q, j)) \notin DOMAIN r.buffer
             /\ \A i \in 1..(j - 1) : SnAt(q, i) = Opposite(SnAt(q, j)) => ~InWindow(r, SnAt(q, i))
  <2>1. SnAt(n, j) = SnAt(q, j)
    BY <1>1 DEF SnAt
  <2>2. /\ SnAt(q, j) \in Sns
        /\ InWindow(r, SnAt(q, j)) => Dist(r.vrR, SnAt(q, j)) < Dist(r.vrR, s)
        /\ Opposite(SnAt(q, j)) \notin DOMAIN r.buffer
        /\ \A i \in 1..(j - 1) : SnAt(q, i) = Opposite(SnAt(q, j)) => ~InWindow(r, SnAt(q, i))
    BY DEF Fresh
  <2>3. Dist(r.vrR, SnAt(q, j)) \in Nat
    BY <1>2, <2>2, DistRange
  <2>4. InWindow(r, SnAt(q, j)) => Dist(r.vrR, SnAt(q, j)) < Dist(r.vrR, s2)
    BY <1>2, <1>3, <1>5, <2>2, <2>3
  <2> QED
    BY <2>1, <2>2, <2>4
<1>9. InWindow(r, sn) => Dist(r.vrR, sn) < Dist(r.vrR, s2)
  <2>1. CASE Dist(a, r.vrR) <= Dist(a, sn)
    <3>1. Dist(r.vrR, sn) = Dist(a, sn) - Dist(a, r.vrR)
      BY <1>2, <1>4, <2>1, Rebased
    <3> QED
      BY <1>2, <1>5, <3>1
  <2>2. CASE ~(Dist(a, r.vrR) <= Dist(a, sn))
    <3>1. Dist(a, sn) < Dist(a, r.vrR)
      BY <1>2, <2>2
    <3>2. Dist(r.vrR, sn) >= Window /\ Dist(r.vrR, sn) \in Nat
      BY <1>2, <1>4, <3>1, Rebased, DistRange
    <3> QED
      BY <1>2, <3>2 DEF InWindow
  <2> QED
    BY <2>1, <2>2
<1>10. SnAt(n, m) = sn
  BY <1>1 DEF SnAt
<1>11. Opposite(sn) \notin DOMAIN r.buffer
  <2> SUFFICES ASSUME Opposite(sn) \in DOMAIN r.buffer PROVE FALSE
    OBVIOUS
  <2>1. Dist(a, Opposite(sn)) < Dist(a, s2)
    BY <1>6, HeldBelow
  <2>2. Dist(a, Opposite(sn)) = Dist(a, sn) + Window
    <3>1. Dist(a, sn) < Window
      BY <1>2
    <3> QED
      BY <3>1, Opposed
  <2> QED
    BY <1>2, <2>1, <2>2
<1>12. \A i \in 1..Len(q) : SnAt(q, i) = Opposite(sn) => ~InWindow(r, SnAt(q, i))
  BY <1>1, <1>7, <1>8
<1>13. \A j \in 1..m : j \in DOMAIN q \/ j = m
  BY <1>1
<1>14. ASSUME NEW j \in DOMAIN n
       PROVE  /\ SnAt(n, j) \in Sns
              /\ InWindow(r, SnAt(n, j)) => Dist(r.vrR, SnAt(n, j)) < Dist(r.vrR, s2)
              /\ Opposite(SnAt(n, j)) \notin DOMAIN r.buffer
              /\ \A i \in 1..(j - 1) : SnAt(n, i) = Opposite(SnAt(n, j)) => ~InWindow(r, SnAt(n, i))
  <2>1. CASE j \in DOMAIN q
    <3>1. ASSUME NEW i \in 1..(j - 1) PROVE SnAt(n, i) = SnAt(q, i)
      <4>1. i \in DOMAIN q
        BY <1>1, <2>1
      <4> QED
        BY <1>8, <4>1
    <3> QED
      BY <1>8, <2>1, <3>1
  <2>2. CASE j = m
    <3>1. ASSUME NEW i \in 1..(j - 1)
          PROVE  SnAt(n, i) = SnAt(q, i) /\ (SnAt(q, i) = Opposite(sn) => ~InWindow(r, SnAt(q, i)))
      <4>1. i \in DOMAIN q /\ i \in 1..Len(q)
        BY <1>1, <2>2
      <4> QED
        BY <1>8, <1>12, <4>1
    <3> QED
      BY <1>9, <1>10, <1>11, <2>2, <3>1
  <2> QED
    BY <1>1, <1>13, <2>1, <2>2
<1> QED
  BY <1>14 DEF Fresh, n

\* A PDU is lost: the others stay what they were, in their order.
LEMMA RemovedFresh ==
  ASSUME NEW q, Listed(q), NEW i \in DOMAIN q, NEW n, n = RemoveAt(q, i) \/ n = Arrived(q, i),
         NEW r, NEW s, Fresh(q, r, s)
  PROVE  Fresh(n, r, s)
<1>1. /\ Len(q) \in Nat /\ DOMAIN q = 1..Len(q) /\ DOMAIN n = 1..(Len(q) - 1)
      /\ \A k \in 1..(Len(q) - 1) : Skip(i, k) \in DOMAIN q /\ n[k].pdu = q[Skip(i, k)].pdu
  BY RemovedListed
<1>2. ASSUME NEW j \in DOMAIN n
      PROVE  /\ SnAt(n, j) \in Sns
             /\ InWindow(r, SnAt(n, j)) => Dist(r.vrR, SnAt(n, j)) < Dist(r.vrR, s)
             /\ Opposite(SnAt(n, j)) \notin DOMAIN r.buffer
             /\ \A k \in 1..(j - 1) : SnAt(n, k) = Opposite(SnAt(n, j)) => ~InWindow(r, SnAt(n, k))
  <2>1. Skip(i, j) \in DOMAIN q /\ SnAt(n, j) = SnAt(q, Skip(i, j))
    BY <1>1 DEF SnAt
  <2>2. ASSUME NEW k \in 1..(j - 1)
        PROVE  Skip(i, k) \in 1..(Skip(i, j) - 1) /\ SnAt(n, k) = SnAt(q, Skip(i, k))
    <3>1. k \in 1..(Len(q) - 1) /\ k < j /\ j \in Nat /\ i \in Nat
      BY <1>1
    <3>2. SnAt(n, k) = SnAt(q, Skip(i, k))
      BY <1>1, <3>1 DEF SnAt
    <3>3. Skip(i, k) \in 1..(Skip(i, j) - 1)
      BY <3>1 DEF Skip
    <3> QED
      BY <3>2, <3>3
  <2> QED
    BY <2>1, <2>2 DEF Fresh
<1> QED
  BY <1>2 DEF Fresh

\* A data PDU that the receiver takes: the windows stay in step, what is still
\* on its way keeps its place relative to them, and nothing received is forgotten.
LEMMA ReceivedWindows ==
  ASSUME NEW a \in Sns, NEW s \in Sns, NEW r, RxOK(r), InStep(a, r, s),
         NEW q, Listed(q), Fresh(q, r, s), NEW i \in DOMAIN q,
         \A j \in 1..(i - 1) : Dist(SnAt(q, j), SnAt(q, i)) # Window,
         InWindow(r, SnAt(q, i))
  PROVE  LET n == PduTaken(r, q[i].pdu)
         IN  /\ InStep(a, n, s) /\ Fresh(Arrived(q, i), n, s)
             /\ Dist(a, r.vrR) <= Dist(a, n.vrR)
             /\ \A x \in Sns : Seen(a, r, x) => Seen(a, n, x)
<1> DEFINE n  == PduTaken(r, q[i].pdu)
           sn == SnAt(q, i)
           R  == r.vrR
           m  == Arrived(q, i)
<1>0. /\ R \in Sns /\ r.vrMs \in Sns /\ r.vrH \in Sns /\ RxWindow(r)
      /\ Dist(R, r.vrH) \in Nat /\ Dist(R, s) \in Nat /\ Dist(a, R) \in Nat /\ Dist(a, s) \in Nat
      /\ Window \in Nat /\ Modulus = 2 * Window
  BY DistRange, Ring DEF RxOK, RxWindow
<1>1. /\ Dist(a, R) <= Dist(a, s) /\ Dist(a, s) <= Window
      /\ Dist(R, s) = Dist(a, s) - Dist(a, R)
      /\ Dist(R, r.vrH) <= Dist(R, s) /\ Dist(R, s) <= Window
  BY <1>0, InStepIs
<1>2. sn \in Sns /\ Dist(R, sn) < Dist(R, s) /\ sn = q[i].pdu.pdu.sn
  BY DEF Fresh, SnAt
<1>3. /\ RxOK(n)
      /\ Dist(R, n.vrR) <= Dist(R, n.vrMs)
      /\ Dist(R, n.vrMs) <= Dist(R, n.vrH) /\ Dist(R, n.vrH) <= Window
      /\ n.vrH = r.vrH \/ Dist(R, n.vrH) = Dist(R, sn) + 1
      /\ DOMAIN n.buffer \subseteq DOMAIN r.buffer \union {sn}
      /\ \A x \in Sns : Dist(R, x) < Dist(R, n.vrR) => CompleteAt(r, x) \/ x = sn
      /\ \A x : CompleteAt(r, x) => CompleteAt(n, x) \/ Dist(R, x) < Dist(R, n.vrR)
  BY <1>2, Received DEF SnAt
<1> HIDE DEF n
<1>4. /\ n.vrR \in Sns /\ n.vrMs \in Sns /\ n.vrH \in Sns
      /\ Dist(R, n.vrR) \in Nat /\ Dist(R, n.vrMs) \in Nat /\ Dist(R, n.vrH) \in Nat
      /\ Dist(R, sn) \in Nat
  BY <1>0, <1>2, <1>3, DistRange DEF RxOK, RxWindow
<1>5. Dist(R, n.vrH) <= Dist(R, s) /\ Dist(R, n.vrMs) <= Dist(R, s) /\ Dist(R, n.vrR) <= Dist(R, s)
  BY <1>0, <1>1, <1>2, <1>3, <1>4
<1>6. \A x \in Sns : Dist(R, x) <= Dist(R, s) => Dist(a, x) = Dist(a, R) + Dist(R, x)
  BY <1>0, <1>1, Rebased
<1>7. /\ Dist(a, n.vrR) = Dist(a, R) + Dist(R, n.vrR)
      /\ Dist(a, n.vrMs) = Dist(a, R) + Dist(R, n.vrMs)
      /\ Dist(a, n.vrH) = Dist(a, R) + Dist(R, n.vrH)
  BY <1>4, <1>5, <1>6
<1>8. InStep(a, n, s) /\ Dist(a, R) <= Dist(a, n.vrR)
  <2>1. Dist(a, n.vrH) <= Dist(a, s)
    BY <1>0, <1>1, <1>4, <1>5, <1>7
  <2> QED
    BY <1>0, <1>1, <1>3, <1>4, <1>7, <2>1 DEF InStep
<1>9. ASSUME NEW x \in Sns, Seen(a, r, x) PROVE Seen(a, n, x)
  <2>1. Dist(a, x) \in Nat /\ Dist(R, x) \in Nat
    BY <1>0, DistRange
  <2>2. CASE Dist(a, x) < Dist(a, R)
    <3>1. Dist(a, x) < Dist(a, n.vrR)
      BY <1>0, <1>4, <1>7, <2>1, <2>2
    <3> QED
      BY <3>1 DEF Seen
  <2>3. CASE Dist(R, x) < Dist(R, n.vrR)
    <3>1. Dist(a, x) = Dist(a, R) + Dist(R, x)
      BY <1>0, <1>4, <1>5, <1>6, <2>1, <2>3
    <3>2. Dist(a, x) < Dist(a, n.vrR)
      BY <1>0, <1>4, <1>7, <2>1, <2>3, <3>1
    <3> QED
      BY <3>2 DEF Seen
  <2>4. CASE CompleteAt(n, x)
    BY <2>4 DEF Seen
  <2> QED
    BY <1>3, <1>9, <2>2, <2>3, <2>4 DEF Seen
\* The PDUs still on their way are not a window ahead of or behind the one taken.
<1>10. ASSUME NEW j \in DOMAIN q, j # i PROVE Opposite(SnAt(q, j)) # sn
  <2>1. SnAt(q, j) \in Sns
    BY DEF Fresh
  <2>2. SUFFICES ASSUME Opposite(SnAt(q, j)) = sn PROVE FALSE
    OBVIOUS
  <2>3. i \in 1..Len(q) /\ j \in 1..Len(q) /\ Len(q) \in Nat
    BY ListedDomain
  <2>4. CASE j < i
    <3>1. Dist(SnAt(q, j), sn) # Window
      BY <2>3, <2>4
    <3>2. Dist(SnAt(q, j), SnAt(q, j)) = 0 /\ 0 < Window
      BY <2>1, DistRange, Ring
    <3>3. Dist(SnAt(q, j), Opposite(SnAt(q, j))) = Window
      BY <1>0, <2>1, <3>2, Opposed
    <3> QED
      BY <2>2, <3>1, <3>3
  <2>5. CASE i < j
    <3>1. i \in 1..(j - 1)
      BY <2>3, <2>5
    <3>2. ~InWindow(r, sn)
      BY <2>2, <3>1 DEF Fresh
    <3> QED
      BY <3>2
  <2> QED
    BY <1>10, <2>3, <2>4, <2>5
<1>11. ASSUME NEW j \in DOMAIN q, j # i
       PROVE  /\ Opposite(SnAt(q, j)) \notin DOMAIN n.buffer
              /\ InWindow(n, SnAt(q, j)) => InWindow(r, SnAt(q, j))
              /\ InWindow(n, SnAt(q, j)) => Dist(n.vrR, SnAt(q, j)) < Dist(n.vrR, s)
  <2> DEFINE x == SnAt(q, j)
  <2>1. /\ x \in Sns /\ Opposite(x) \notin DOMAIN r.buffer
        /\ InWindow(r, x) => Dist(R, x) < Dist(R, s)
    BY DEF Fresh
  <2>2. Opposite(x) # sn
    BY <1>10, <1>11
  <2>3. Opposite(x) \notin DOMAIN n.buffer
    BY <1>3, <2>1, <2>2
  <2> HIDE DEF x
  <2>4. /\ Dist(R, x) \in Nat /\ Dist(R, x) < Modulus
        /\ Dist(n.vrR, x) = IF Dist(R, n.vrR) <= Dist(R, x) THEN Dist(R, x) - Dist(R, n.vrR)
                            ELSE Dist(R, x) - Dist(R, n.vrR) + Modulus
        /\ Dist(n.vrR, s) = Dist(R, s) - Dist(R, n.vrR)
    <3>1. Dist(R, x) \in Nat /\ Dist(R, x) < Modulus
      BY <1>0, <2>1, DistRange
    <3>2. Dist(n.vrR, x) = IF Dist(R, n.vrR) <= Dist(R, x) THEN Dist(R, x) - Dist(R, n.vrR)
                           ELSE Dist(R, x) - Dist(R, n.vrR) + Modulus
      BY <1>0, <1>4, <2>1, Rebase
    <3>3. Dist(n.vrR, s) = Dist(R, s) - Dist(R, n.vrR)
      BY <1>0, <1>4, <1>5, Rebase
    <3> QED
      BY <3>1, <3>2, <3>3
  <2>5. ASSUME InWindow(n, x)
        PROVE  InWindow(r, x) /\ Dist(n.vrR, x) < Dist(n.vrR, s)
    <3>1. Dist(n.vrR, x) < Window
      BY <2>5 DEF InWindow
    <3>2. Dist(R, n.vrR) <= Dist(R, x) /\ Dist(n.vrR, x) = Dist(R, x) - Dist(R, n.vrR)
      BY <1>0, <1>1, <1>4, <1>5, <2>4, <3>1
    <3>3. Dist(R, x) < Window
      <4> SUFFICES ASSUME ~(Dist(R, x) < Window) PROVE FALSE
        OBVIOUS
      <4>1. Dist(R, Opposite(x)) = Dist(R, x) - Window /\ Opposite(x) \in Sns
        BY <1>0, <2>1, Opposed
      <4>2. Dist(R, Opposite(x)) < Dist(R, n.vrR)
        BY <1>0, <1>4, <2>4, <3>1, <3>2, <4>1
      <4>3. CompleteAt(r, Opposite(x))
        BY <1>3, <2>2, <4>1, <4>2
      <4> QED
        BY <2>1, <4>3 DEF CompleteAt
    <3>4. InWindow(r, x)
      BY <3>3 DEF InWindow
    <3>5. Dist(n.vrR, x) < Dist(n.vrR, s)
      BY <1>0, <1>4, <2>1, <2>4, <3>2, <3>4
    <3> QED
      BY <3>4, <3>5
  <2> QED
    BY <2>3, <2>5 DEF x
<1>12. Fresh(m, n, s)
  <2>1. /\ Len(q) \in Nat /\ DOMAIN q = 1..Len(q) /\ DOMAIN m = 1..(Len(q) - 1)
        /\ \A k \in 1..(Len(q) - 1) : Skip(i, k) \in DOMAIN q /\ m[k].pdu = q[Skip(i, k)].pdu
    BY RemovedListed
  <2> HIDE DEF m
  <2>2. ASSUME NEW j \in DOMAIN m
        PROVE  /\ SnAt(m, j) \in Sns
               /\ InWindow(n, SnAt(m, j)) => Dist(n.vrR, SnAt(m, j)) < Dist(n.vrR, s)
               /\ Opposite(SnAt(m, j)) \notin DOMAIN n.buffer
               /\ \A k \in 1..(j - 1) :
                    SnAt(m, k) = Opposite(SnAt(m, j)) => ~InWindow(n, SnAt(m, k))
    <3>1. /\ Skip(i, j) \in DOMAIN q /\ Skip(i, j) # i /\ SnAt(m, j) = SnAt(q, Skip(i, j))
      BY <2>1 DEF SnAt, Skip
    <3>2. ASSUME NEW k \in 1..(j - 1)
          PROVE  /\ Skip(i, k) \in DOMAIN q /\ Skip(i, k) # i
                 /\ Skip(i, k) \in 1..(Skip(i, j) - 1) /\ SnAt(m, k) = SnAt(q, Skip(i, k))
      <4>1. k \in 1..(Len(q) - 1) /\ k < j /\ j \in Nat /\ i \in Nat /\ k \in Nat
        BY <2>1
      <4>2. Skip(i, k) \in DOMAIN q /\ SnAt(m, k) = SnAt(q, Skip(i, k))
        BY <2>1, <4>1 DEF SnAt
      <4>3. Skip(i, k) # i /\ Skip(i, k) \in 1..(Skip(i, j) - 1)
        BY <4>1 DEF Skip
      <4> QED
        BY <4>2, <4>3
    <3>3. ASSUME NEW k \in 1..(j - 1), SnAt(m, k) = Opposite(SnAt(m, j))
          PROVE  ~InWindow(n, SnAt(m, k))
      <4>1. ~InWindow(r, SnAt(q, Skip(i, k)))
        BY <3>1, <3>2, <3>3 DEF Fresh
      <4> QED
        BY <1>11, <3>2, <4>1
    <3>4. SnAt(q, Skip(i, j)) \in Sns
      BY <3>1 DEF Fresh
    <3> QED
      BY <1>11, <3>1, <3>3, <3>4
  <2> QED
    BY <2>2 DEF Fresh
<1> QED
  BY <1>8, <1>9, <1>12 DEF n

\* A STATUS PDU of the receiver: it reports missing what is incomplete from VR(R)
\* to below ACK_SN, as far as there is room, and nothing else below ACK_SN is.
LEMMA StatusPduParts ==
  ASSUME NEW a \in Sns, NEW s \in Sns, RxOK(rx), InStep(a, rx, s), NEW room \in Nat, NEW K,
         \A x \in Sns : Dist(a, x) < Dist(a, s) /\ ~Seen(a, rx, x) => x \in K
  PROVE  /\ Truthful(StatusPdu(room), a, s, K, rx)
         /\ \A y \in Bounds(StatusPdu(room)) : Dist(a, rx.vrR) <= Dist(a, y)
         /\ \A x \in StatusPdu(room).nacks : ~Seen(a, rx, x)
<1> DEFINE R       == rx.vrR
           d       == Dist(rx.vrR, rx.vrMs)
           at(n)   == (rx.vrR + n) % Modulus
           missing == {n \in 0..(d - 1) : ~CompleteAt(rx, at(n))}
           fit     == {n \in missing : Cardinality({m \in missing : m <= n}) <= room}
           left    == missing \ fit
           first   == CHOOSE n \in left : \A m \in left : n <= m
           ack     == IF left = {} THEN rx.vrMs ELSE at(first)
           nacks   == {at(n) : n \in fit}
           e       == IF left = {} THEN d ELSE first
<1>0. /\ R \in Sns /\ rx.vrMs \in Sns /\ d \in Nat /\ d < Modulus
      /\ Dist(a, R) \in Nat /\ Dist(R, s) \in Nat /\ Dist(a, s) \in Nat
      /\ Modulus \in Nat /\ at(d) = rx.vrMs /\ ~CompleteAt(rx, R)
      /\ Window \in Nat
  BY DistRange, DistPlus, Ring DEF RxOK, RxWindow
<1>1. /\ Dist(a, R) <= Dist(a, s) /\ Dist(a, s) <= Window
      /\ Dist(R, s) = Dist(a, s) - Dist(a, R) /\ d <= Dist(R, s)
  <2>1. RxWindow(rx) /\ d <= Dist(R, rx.vrH)
    BY DEF RxOK, RxWindow
  <2>2. /\ Dist(a, R) <= Dist(a, s) /\ Dist(a, s) <= Window
        /\ Dist(R, s) = Dist(a, s) - Dist(a, R) /\ Dist(R, rx.vrH) <= Dist(R, s)
    BY <2>1, InStepIs
  <2>3. Dist(R, rx.vrH) \in Nat
    BY DistRange DEF RxOK, RxWindow
  <2> HIDE DEF d, R
  <2> QED
    BY <1>0, <2>1, <2>2, <2>3
<1>2. StatusPdu(room) = [ack |-> ack, nacks |-> nacks]
  BY DEF StatusPdu
<1>3. ASSUME NEW n \in 0..d
      PROVE  at(n) \in Sns /\ Dist(R, at(n)) = n /\ Dist(a, at(n)) = Dist(a, R) + n
  <2>1. n \in 0..(Modulus - 1) /\ n <= Dist(R, s)
    <3> HIDE DEF d, R
    <3> QED
      BY <1>0, <1>1
  <2>2. at(n) \in Sns /\ Dist(R, at(n)) = n
    BY <1>0, <2>1, PlusDist
  <2>3. Dist(a, at(n)) = Dist(a, R) + n
    <3> HIDE DEF at, R
    <3> QED
      BY <1>0, <1>1, <2>1, <2>2, Rebased
  <2> QED
    BY <2>2, <2>3
<1>4. missing \subseteq 0..d /\ missing \subseteq Nat /\ \A n \in missing : n < d
  <2> HIDE DEF d, at
  <2> QED
    BY <1>0
<1>5. /\ fit \subseteq missing /\ left \subseteq missing
      /\ fit \subseteq Nat /\ left \subseteq Nat
  <2>1. fit \subseteq missing /\ left \subseteq missing
    OBVIOUS
  <2> HIDE DEF missing, fit, left
  <2> QED
    BY <1>4, <2>1
<1>6. ASSUME NEW n \in fit, NEW l \in left, ~(n < l) PROVE FALSE
  <2>0. n \in Nat /\ l \in Nat /\ l <= n
    <3>1. n \in Nat /\ l \in Nat
      BY <1>5, Zenon
    <3> HIDE DEF fit, left
    <3> QED
      BY <1>6, <3>1
  <2> DEFINE A == {m \in missing : m <= l}
             B == {m \in missing : m <= n}
  <2>1. IsFiniteSet(B)
    <3>1. IsFiniteSet(0..d)
      BY <1>0, FS_Interval
    <3>2. B \subseteq 0..d
      BY <1>4
    <3> HIDE DEF B, d
    <3> QED
      BY <3>1, <3>2, FS_Subset
  <2>2. A \subseteq B
    <3> HIDE DEF missing, fit, left
    <3>1. \A m \in missing : m \in Nat
      BY <1>4
    <3> QED
      BY <2>0, <3>1
  <2>3. Cardinality(B) <= room /\ ~(Cardinality(A) <= room)
    BY Zenon
  <2> HIDE DEF A, B
  <2>4. /\ Cardinality(A) <= Cardinality(B) /\ IsFiniteSet(A)
        /\ Cardinality(A) \in Nat /\ Cardinality(B) \in Nat
    BY <2>1, <2>2, FS_Subset, FS_CardinalityType
  <2> QED
    BY <2>3, <2>4
<1> HIDE DEF fit, left
<1>7. left # {} => first \in left /\ \A m \in left : first <= m
  <2>1. left \subseteq Nat
    BY <1>4, <1>5
  <2>2. left # {} => \E n \in left : \A m \in left : n <= m
    <3> HIDE DEF left
    <3> QED
      BY <2>1, NatLeast
  <2> QED
    BY <2>2
<1> HIDE DEF first
<1>8. e \in 0..d /\ ack = at(e) /\ \A n \in left : e <= n
  <2>1. CASE left = {}
    <3>1. e = d /\ ack = rx.vrMs /\ d \in 0..d
      BY <1>0, <2>1
    <3> QED
      BY <1>0, <2>1, <3>1
  <2>2. CASE left # {}
    <3>1. e = first /\ ack = at(first)
      BY <2>2
    <3>2. first \in missing
      BY <1>5, <1>7, <2>2
    <3> HIDE DEF missing
    <3> QED
      BY <1>4, <1>7, <2>2, <3>1, <3>2
  <2> QED
    BY <2>1, <2>2
<1>9. \A n \in fit : n < e
  <2>1. CASE left = {}
    BY <1>4, <1>5, <2>1
  <2>2. CASE left # {}
    BY <1>6, <1>7, <2>2
  <2> QED
    BY <2>1, <2>2
<1>10. \A n \in missing : ~CompleteAt(rx, at(n))
  OBVIOUS
<1>11. \A n \in 0..(d - 1) : CompleteAt(rx, at(n)) \/ n \in fit \/ n \in left
  BY DEF left
<1>12. 0 \in missing \/ d = 0
  <2>1. at(0) = R
    <3>1. Dist(R, R) = 0
      BY <1>0, DistRange
    <3> QED
      BY <1>0, <3>1, DistPlus
  <2>2. d # 0 => 0 \in 0..(d - 1)
    <3> HIDE DEF d
    <3> QED
      BY <1>0
  <2> QED
    BY <1>0, <2>1, <2>2
<1> HIDE DEF missing, e, ack, d, at, R
<1>13. ack \in Sns /\ Dist(a, ack) = Dist(a, R) + e /\ e \in Nat
  BY <1>0, <1>3, <1>8
<1>14. ASSUME NEW x \in nacks
       PROVE  /\ x \in Sns /\ Dist(a, R) <= Dist(a, x) /\ Dist(a, x) < Dist(a, ack)
              /\ Dist(a, x) < Dist(a, s) /\ ~Seen(a, rx, x)
  <2>1. PICK n \in fit : x = at(n)
    OBVIOUS
  <2>2. n \in missing /\ n \in Nat /\ n < e /\ n \in 0..d /\ n < d
    BY <1>4, <1>5, <1>9
  <2>3. x \in Sns /\ Dist(a, x) = Dist(a, R) + n
    BY <1>3, <2>1, <2>2
  <2>4. ~CompleteAt(rx, x)
    BY <1>10, <2>1, <2>2
  <2>5. ~(Dist(a, x) < Dist(a, R))
    BY <1>0, <2>2, <2>3
  <2>6. Dist(a, x) < Dist(a, s)
    BY <1>0, <1>1, <2>2, <2>3
  <2>7. ~Seen(a, rx, x)
    BY <2>4, <2>5 DEF Seen, R
  <2> QED
    BY <1>0, <1>13, <2>2, <2>3, <2>6, <2>7
<1> DEFINE st == [ack |-> ack, nacks |-> nacks]
<1>15. st.ack = ack /\ st.nacks = nacks
  OBVIOUS
<1> HIDE DEF nacks, st
<1>16. Dist(a, ack) <= Dist(a, s)
  BY <1>0, <1>1, <1>8, <1>13
<1>17. \A x \in nacks : x \in K
  BY <1>14
<1>18. ASSUME NEW x \in Sns, Dist(a, x) < Dist(a, ack), x \notin nacks PROVE Seen(a, rx, x)
  <2>1. CASE Dist(a, x) < Dist(a, R)
    BY <2>1 DEF Seen, R
  <2>2. CASE ~(Dist(a, x) < Dist(a, R))
    <3>1. Dist(a, x) \in Nat /\ Dist(R, x) \in Nat
      BY <1>0, <1>18, DistRange
    <3>2. Dist(R, x) = Dist(a, x) - Dist(a, R)
      BY <1>0, <1>1, <1>18, <2>2, <3>1, Rebased
    <3>3. Dist(R, x) < e /\ Dist(R, x) \in 0..(d - 1)
      BY <1>0, <1>8, <1>13, <1>18, <3>1, <3>2
    <3>4. at(Dist(R, x)) = x
      BY <1>0, <1>18, DistPlus DEF at, R
    <3>5. Dist(R, x) \notin left
      BY <1>8, <1>13, <3>1, <3>3
    <3>6. Dist(R, x) \notin fit
      BY <1>18, <3>4 DEF nacks
    <3>7. CompleteAt(rx, x)
      BY <1>11, <3>3, <3>4, <3>5, <3>6
    <3> QED
      BY <3>7 DEF Seen
  <2> QED
    BY <2>1, <2>2
<1>19. \E x \in Bounds(st) : Dist(a, x) <= Dist(a, R)
  <2>1. CASE 0 \in fit
    <3>1. at(0) \in nacks /\ Dist(a, at(0)) = Dist(a, R) + 0
      <4>1. 0 \in 0..d
        BY <1>0
      <4> QED
        BY <1>3, <2>1, <4>1 DEF nacks
    <3>2. at(0) \in Bounds(st) /\ Dist(a, at(0)) <= Dist(a, R)
      BY <1>0, <1>15, <3>1 DEF Bounds
    <3> QED
      BY <3>2
  <2>2. CASE 0 \notin fit
    <3>1. e = 0
      <4>1. d = 0 \/ 0 \in left
        BY <1>12, <2>2 DEF left
      <4> QED
        BY <1>0, <1>8, <1>13, <4>1
    <3>2. Dist(a, ack) <= Dist(a, R) /\ ack \in Bounds(st)
      BY <1>0, <1>13, <1>15, <3>1 DEF Bounds
    <3> QED
      BY <3>2
  <2> QED
    BY <2>1, <2>2
<1>20. Truthful(st, a, s, K, rx)
  BY <1>13, <1>14, <1>15, <1>16, <1>17, <1>18, <1>19 DEF Truthful, Acks, R
<1>21. \A y \in Bounds(st) : Dist(a, R) <= Dist(a, y)
  BY <1>0, <1>13, <1>14, <1>15 DEF Bounds
<1>22. \A x \in st.nacks : ~Seen(a, rx, x)
  BY <1>14, <1>15
<1> QED
  BY <1>2, <1>20, <1>21, <1>22 DEF st, R

\* A STATUS PDU stays true when more is sent, kept and received.
LEMMA ReportsStay ==
  ASSUME NEW a \in Sns, NEW s \in Sns, NEW s2 \in Sns, NEW r, NEW r2, NEW K, NEW K2, NEW q,
         Reports(q, a, s, K, r), Dist(a, s) <= Dist(a, s2), K \subseteq K2,
         r.vrR \in Sns, r2.vrR \in Sns, Dist(a, r.vrR) <= Dist(a, r2.vrR),
         \A x \in Sns : Seen(a, r, x) => Seen(a, r2, x)
  PROVE  Reports(q, a, s2, K2, r2)
<1> SUFFICES ASSUME NEW j \in DOMAIN q PROVE Truthful(q[j].pdu, a, s2, K2, r2)
  BY DEF Reports
<1> DEFINE st == q[j].pdu
<1>1. Truthful(st, a, s, K, r)
  BY DEF Reports
<1> HIDE DEF st
<1>2. /\ st.ack \in Sns /\ st.nacks \subseteq Sns
      /\ Dist(a, st.ack) <= Dist(a, s)
      /\ \A x \in st.nacks : Dist(a, x) < Dist(a, st.ack) /\ x \in K
      /\ \A x \in Sns : Acks(a, st, x) => Seen(a, r, x)
  BY <1>1 DEF Truthful
<1>3. PICK b \in Bounds(st) : Dist(a, b) <= Dist(a, r.vrR)
  BY <1>1 DEF Truthful
<1>4. b \in Sns
  BY <1>2, <1>3 DEF Bounds
<1>5. /\ Dist(a, s) \in Nat /\ Dist(a, s2) \in Nat /\ Dist(a, st.ack) \in Nat
      /\ Dist(a, b) \in Nat /\ Dist(a, r.vrR) \in Nat /\ Dist(a, r2.vrR) \in Nat
  BY <1>2, <1>4, DistRange
<1>6. Dist(a, st.ack) <= Dist(a, s2) /\ Dist(a, b) <= Dist(a, r2.vrR)
  BY <1>2, <1>3, <1>5
<1> QED
  BY <1>2, <1>3, <1>6 DEF Truthful, st

\* One is lost or taken.
LEMMA ReportsRemoved ==
  ASSUME NEW q, Listed(q), NEW i \in DOMAIN q, NEW n, n = RemoveAt(q, i) \/ n = Arrived(q, i),
         NEW a, NEW s, NEW K, NEW r, Reports(q, a, s, K, r)
  PROVE  Reports(n, a, s, K, r)
<1>1. /\ Len(q) \in Nat /\ DOMAIN q = 1..Len(q) /\ DOMAIN n = 1..(Len(q) - 1)
      /\ \A k \in 1..(Len(q) - 1) : Skip(i, k) \in DOMAIN q /\ n[k].pdu = q[Skip(i, k)].pdu
  BY RemovedListed
<1>2. ASSUME NEW j \in DOMAIN n
      PROVE  /\ Truthful(n[j].pdu, a, s, K, r)
             /\ \A k \in 1..(j - 1) : Newer(n[j].pdu, n[k].pdu, a)
  <2>1. Skip(i, j) \in DOMAIN q /\ n[j].pdu = q[Skip(i, j)].pdu
    BY <1>1
  <2>2. ASSUME NEW k \in 1..(j - 1)
        PROVE  Skip(i, k) \in 1..(Skip(i, j) - 1) /\ n[k].pdu = q[Skip(i, k)].pdu
    <3>1. k \in 1..(Len(q) - 1) /\ k < j /\ j \in Nat /\ i \in Nat
      BY <1>1
    <3>2. n[k].pdu = q[Skip(i, k)].pdu
      BY <1>1, <3>1
    <3>3. Skip(i, k) \in 1..(Skip(i, j) - 1)
      BY <3>1 DEF Skip
    <3> QED
      BY <3>2, <3>3
  <2> QED
    BY <2>1, <2>2 DEF Reports
<1> QED
  BY <1>2 DEF Reports

\* The receiver sends one more, which starts at VR(R) and reports missing nothing
\* that it has got.
LEMMA ReportsSent ==
  ASSUME NEW q, Listed(q), NEW a \in Sns, NEW s, NEW K, NEW r, r.vrR \in Sns,
         Reports(q, a, s, K, r),
         NEW st, Truthful(st, a, s, K, r), \A y \in Bounds(st) : Dist(a, r.vrR) <= Dist(a, y),
         \A x \in st.nacks : ~Seen(a, r, x)
  PROVE  Reports(Sent(q, st), a, s, K, r)
<1> DEFINE n == Sent(q, st)
           m == Len(q) + 1
<1>1. /\ DOMAIN q = 1..Len(q) /\ Len(q) \in Nat /\ DOMAIN n = 1..m
      /\ \A i \in 1..Len(q) : n[i] = q[i]
      /\ n[m].pdu = st
  BY SentListed
<1> HIDE DEF n
<1>2. st.ack \in Sns /\ st.nacks \subseteq Sns
  BY DEF Truthful
<1>3. ASSUME NEW i \in DOMAIN q PROVE Newer(st, q[i].pdu, a)
  <2> DEFINE old == q[i].pdu
  <2>1. Truthful(old, a, s, K, r)
    BY DEF Reports
  <2> HIDE DEF old
  <2>2. old.ack \in Sns /\ old.nacks \subseteq Sns
    BY <2>1 DEF Truthful
  <2>3. PICK b \in Bounds(old) : Dist(a, b) <= Dist(a, r.vrR)
    BY <2>1 DEF Truthful
  <2>4. Dist(a, b) \in Nat /\ Dist(a, r.vrR) \in Nat
    BY <2>2, <2>3, DistRange DEF Bounds
  <2>5. \A y \in Bounds(st) : Dist(a, y) \in Nat
    BY <1>2, DistRange DEF Bounds
  <2>6. \A y \in Bounds(st) : Dist(a, b) <= Dist(a, y)
    BY <2>3, <2>4, <2>5
  <2>7. \A x \in st.nacks : ~Acks(a, old, x)
    BY <1>2, <2>1 DEF Truthful
  <2> QED
    BY <2>3, <2>6, <2>7 DEF Newer, old
<1>4. ASSUME NEW j \in DOMAIN n
      PROVE  /\ Truthful(n[j].pdu, a, s, K, r)
             /\ \A i \in 1..(j - 1) : Newer(n[j].pdu, n[i].pdu, a)
  <2>1. CASE j \in DOMAIN q
    <3>1. \A i \in 1..(j - 1) : i \in 1..Len(q) /\ n[i] = q[i]
      BY <1>1, <2>1
    <3> QED
      BY <1>1, <2>1, <3>1 DEF Reports
  <2>2. CASE j = m
    <3>1. \A i \in 1..(j - 1) : i \in DOMAIN q /\ n[i] = q[i]
      BY <1>1, <2>2
    <3> QED
      BY <1>1, <1>3, <2>2, <3>1
  <2>3. j \in DOMAIN q \/ j = m
    BY <1>1
  <2> QED
    BY <2>1, <2>2, <2>3
<1> QED
  BY <1>4 DEF Reports, n

\* The STATUS PDU that comes next moves VT(A) to the first number it does not
\* acknowledge, which is not above VR(R), and drops what it acknowledges.
LEMMA TakenParts ==
  ASSUME NEW t, TxShape(t), NEW r, RxOK(r), InStep(t.vtA, r, t.vtS), Remembers(t, r),
         NEW st, Truthful(st, t.vtA, t.vtS, KeptBy(t), r)
  PROVE  LET n == StatusTaken(t, st)
         IN  /\ n.vtA \in Sns /\ n.vtS = t.vtS
             /\ n.vtA \in Bounds(st)
             /\ \A y \in Bounds(st) : Dist(t.vtA, n.vtA) <= Dist(t.vtA, y)
             /\ Dist(t.vtA, n.vtA) <= Dist(t.vtA, r.vrR)
             /\ \A x \in Sns : x \in KeptBy(n) <=> x \in KeptBy(t) /\ ~Acks(t.vtA, st, x)
             /\ KeptBy(n) \subseteq Sns
             /\ DOMAIN n.txed \cap DOMAIN n.retx = {} /\ DOMAIN n.seg \subseteq DOMAIN n.retx
<1> DEFINE a        == t.vtA
           s        == t.vtS
           n        == StatusTaken(t, st)
           examined == Examined(t, st)
           nacked   == examined \cap st.nacks
           open     == (Outstanding(t) \ examined) \union nacked \union {t.vtS}
<1>1. /\ TxShape(n) /\ n.vtS = t.vtS
      /\ n.vtA \in open /\ \A x \in open : Dist(a, n.vtA) <= Dist(a, x)
      /\ DOMAIN n.retx = (DOMAIN t.retx \union (nacked \cap DOMAIN t.txed)) \ (examined \ nacked)
      /\ DOMAIN n.txed = DOMAIN t.txed \ examined
      /\ DOMAIN n.seg = DOMAIN t.seg \ (examined \ nacked)
  BY StatusTakenParts
<1> HIDE DEF n
<1>2. a \in Sns /\ s \in Sns /\ n.vtA \in Sns /\ r.vrR \in Sns
  BY <1>1 DEF TxShape, RxOK, RxWindow
<1>3. /\ st.ack \in Sns /\ st.nacks \subseteq Sns /\ Dist(a, st.ack) <= Dist(a, s)
      /\ \A x \in st.nacks : Dist(a, x) < Dist(a, st.ack) /\ x \in KeptBy(t)
      /\ \A x \in Sns : Acks(a, st, x) => Seen(a, r, x)
  BY DEF Truthful
<1>4. /\ Dist(a, st.ack) \in Nat /\ Dist(a, s) \in Nat /\ Dist(a, r.vrR) \in Nat
      /\ \A x \in Sns : Dist(a, x) \in Nat
  BY <1>2, <1>3, DistRange
<1>5. \A x \in Sns : x \in examined <=> Dist(a, x) < Dist(a, st.ack)
  BY <1>3, <1>4 DEF Examined, Outstanding
<1>6. \A x \in Sns : x \in Outstanding(t) <=> Dist(a, x) < Dist(a, s)
  BY DEF Outstanding
<1>7. nacked = st.nacks
  BY <1>3, <1>5
<1>8. examined \subseteq Sns /\ Outstanding(t) \subseteq Sns
  BY DEF Examined, Outstanding
<1> HIDE DEF examined, nacked, a, s
<1>9. Bounds(st) \subseteq open
  <2>1. st.ack \in open
    <3>1. CASE Dist(a, st.ack) < Dist(a, s)
      BY <1>3, <1>4, <1>5, <1>6, <3>1
    <3>2. CASE ~(Dist(a, st.ack) < Dist(a, s))
      <4>1. Dist(a, st.ack) = Dist(a, s)
        BY <1>3, <1>4, <3>2
      <4>2. st.ack = s
        BY <1>2, <1>3, <4>1, DistSame
      <4> QED
        BY <4>2 DEF s
    <3> QED
      BY <3>1, <3>2
  <2> QED
    BY <1>7, <2>1 DEF Bounds
<1>10. n.vtA \in Bounds(st)
  <2> SUFFICES ASSUME n.vtA \notin Bounds(st) PROVE FALSE
    OBVIOUS
  <2>1. Dist(a, st.ack) <= Dist(a, n.vtA)
    <3>1. \/ n.vtA \in Outstanding(t) \ examined
          \/ n.vtA = s
      BY <1>1, <1>7 DEF Bounds, s
    <3>2. CASE n.vtA \in Outstanding(t) \ examined
      <4>1. ~(Dist(a, n.vtA) < Dist(a, st.ack))
        BY <1>2, <1>5, <3>2
      <4> QED
        BY <1>2, <1>4, <4>1
    <3>3. CASE n.vtA = s
      BY <1>3, <3>3
    <3> QED
      BY <3>1, <3>2, <3>3
  <2>2. Dist(a, n.vtA) <= Dist(a, st.ack)
    BY <1>1, <1>9 DEF Bounds
  <2>3. n.vtA = st.ack
    <3>1. Dist(a, n.vtA) = Dist(a, st.ack)
      BY <1>2, <1>4, <2>1, <2>2
    <3> QED
      BY <1>2, <1>3, <3>1, DistSame
  <2> QED
    BY <2>3 DEF Bounds
<1>11. \A y \in Bounds(st) : Dist(a, n.vtA) <= Dist(a, y)
  BY <1>1, <1>9
<1>12. Dist(a, n.vtA) <= Dist(a, r.vrR)
  <2>1. PICK b \in Bounds(st) : Dist(a, b) <= Dist(a, r.vrR)
    BY DEF Truthful, a
  <2>2. b \in Sns /\ Dist(a, n.vtA) <= Dist(a, b)
    BY <1>3, <1>11, <2>1 DEF Bounds
  <2> QED
    BY <1>2, <1>4, <2>1, <2>2
<1>13. \A x \in Sns : Acks(a, st, x) <=> x \in examined \ nacked
  BY <1>5, <1>7 DEF Acks
<1>14. KeptBy(t) \subseteq Sns
  BY DEF KeptBy, TxShape, Shape
<1>15. /\ DOMAIN t.txed \cap DOMAIN t.retx = {} /\ DOMAIN t.seg \subseteq DOMAIN t.retx
       /\ nacked \subseteq DOMAIN t.txed \union DOMAIN t.retx
       /\ nacked \subseteq examined
  BY <1>3, <1>7 DEF Remembers, KeptBy, nacked
<1>16. KeptBy(n) = KeptBy(t) \ (examined \ nacked)
  BY <1>1, <1>15 DEF KeptBy
<1>17. DOMAIN n.txed \cap DOMAIN n.retx = {} /\ DOMAIN n.seg \subseteq DOMAIN n.retx
  BY <1>1, <1>15
<1> QED
  BY <1>1, <1>2, <1>10, <1>11, <1>12, <1>13, <1>14, <1>16, <1>17 DEF n, a

\* The oldest STATUS PDU keeps both windows in step, what is kept, and the
\* truth of the STATUS PDUs behind it.
LEMMA TakenWindows ==
  ASSUME NEW t, TxShape(t), NEW r, RxOK(r), InStep(t.vtA, r, t.vtS), Remembers(t, r),
         NEW q, Listed(q), Reports(q, t.vtA, t.vtS, KeptBy(t), r), 1 \in DOMAIN q
  PROVE  LET n == StatusTaken(t, q[1].pdu)
         IN  /\ n.vtS = t.vtS /\ InStep(n.vtA, r, t.vtS) /\ Remembers(n, r)
             /\ Reports(Arrived(q, 1), n.vtA, t.vtS, KeptBy(n), r)
<1> DEFINE st == q[1].pdu
           n  == StatusTaken(t, st)
           a  == t.vtA
           s  == t.vtS
           c  == n.vtA
           m  == Arrived(q, 1)
<1>1. /\ Len(q) \in Nat /\ DOMAIN q = 1..Len(q) /\ DOMAIN m = 1..(Len(q) - 1)
      /\ \A k \in 1..(Len(q) - 1) : k + 1 \in DOMAIN q /\ m[k].pdu = q[k + 1].pdu
  <2>1. /\ Len(q) \in Nat /\ DOMAIN q = 1..Len(q) /\ DOMAIN m = 1..(Len(q) - 1)
        /\ \A k \in 1..(Len(q) - 1) : Skip(1, k) \in DOMAIN q /\ m[k].pdu = q[Skip(1, k)].pdu
    BY RemovedListed
  <2>2. \A k \in 1..(Len(q) - 1) : Skip(1, k) = k + 1
    BY <2>1 DEF Skip
  <2> HIDE DEF m
  <2> QED
    BY <2>1, <2>2
<1>2. Truthful(st, a, s, KeptBy(t), r)
  BY DEF Reports
<1>3. ASSUME NEW j \in DOMAIN q, j > 1
      PROVE  Truthful(q[j].pdu, a, s, KeptBy(t), r) /\ Newer(q[j].pdu, st, a)
  <2>1. 1 \in 1..(j - 1)
    BY <1>1, <1>3
  <2> QED
    BY <2>1 DEF Reports
<1>4. /\ c \in Sns /\ n.vtS = s /\ c \in Bounds(st)
      /\ \A y \in Bounds(st) : Dist(a, c) <= Dist(a, y)
      /\ Dist(a, c) <= Dist(a, r.vrR)
      /\ \A x \in Sns : x \in KeptBy(n) <=> x \in KeptBy(t) /\ ~Acks(a, st, x)
      /\ KeptBy(n) \subseteq Sns
      /\ DOMAIN n.txed \cap DOMAIN n.retx = {} /\ DOMAIN n.seg \subseteq DOMAIN n.retx
  BY <1>2, TakenParts
<1>5. /\ a \in Sns /\ s \in Sns /\ r.vrR \in Sns /\ r.vrMs \in Sns /\ r.vrH \in Sns /\ RxWindow(r)
      /\ \A x \in Sns : Dist(a, x) \in Nat /\ Dist(c, x) \in Nat
      /\ Window \in Nat
  BY <1>4, DistRange, Ring DEF TxShape, RxOK, RxWindow
<1> HIDE DEF st, n, a, s, c, m
<1>6. /\ Dist(a, r.vrR) <= Dist(a, s) /\ Dist(a, s) <= Window /\ Dist(a, c) <= Dist(a, s)
      /\ Dist(a, r.vrR) <= Dist(a, r.vrMs) /\ Dist(a, r.vrMs) <= Dist(a, r.vrH)
      /\ Dist(a, r.vrH) <= Dist(a, s)
      /\ Dist(a, c) <= Dist(a, r.vrMs) /\ Dist(a, c) <= Dist(a, r.vrH)
  <2>1. /\ Dist(a, r.vrR) <= Dist(a, r.vrMs) /\ Dist(a, r.vrMs) <= Dist(a, r.vrH)
        /\ Dist(a, r.vrH) <= Dist(a, s) /\ Dist(a, s) <= Window
    BY DEF InStep, a, s
  <2>2. /\ Dist(a, c) \in Nat /\ Dist(a, r.vrR) \in Nat /\ Dist(a, r.vrMs) \in Nat
        /\ Dist(a, r.vrH) \in Nat /\ Dist(a, s) \in Nat
    BY <1>4, <1>5
  <2> QED
    BY <1>4, <2>1, <2>2
<1>7. /\ \A x \in Sns : Dist(a, c) <= Dist(a, x) => Dist(c, x) = Dist(a, x) - Dist(a, c)
      /\ \A x \in Sns : Dist(a, x) < Dist(a, c) => Dist(c, x) >= Window
      /\ \A x \in Sns : Dist(c, x) < Dist(c, s) => Dist(a, c) <= Dist(a, x)
  BY <1>4, <1>5, <1>6, Rebased
<1>8. /\ Dist(c, r.vrR) = Dist(a, r.vrR) - Dist(a, c)
      /\ Dist(c, r.vrMs) = Dist(a, r.vrMs) - Dist(a, c)
      /\ Dist(c, r.vrH) = Dist(a, r.vrH) - Dist(a, c)
      /\ Dist(c, s) = Dist(a, s) - Dist(a, c) /\ Dist(c, s) <= Window
  <2>1. Dist(c, s) = Dist(a, s) - Dist(a, c)
    BY <1>5, <1>6, <1>7
  <2>2. Dist(c, s) <= Window
    BY <1>4, <1>5, <1>6, <2>1
  <2> QED
    BY <1>4, <1>5, <1>6, <1>7, <2>1, <2>2
<1>9. InStep(c, r, s)
  BY <1>4, <1>5, <1>6, <1>8 DEF InStep
\* Above the new VT(A), the order of the numbers and what is seen stay the same.
<1>10. \A x, y \in Sns : Dist(a, c) <= Dist(a, x) /\ Dist(a, c) <= Dist(a, y) =>
         /\ Dist(c, x) < Dist(c, y) <=> Dist(a, x) < Dist(a, y)
         /\ Dist(c, x) <= Dist(c, y) <=> Dist(a, x) <= Dist(a, y)
  <2> SUFFICES ASSUME NEW x \in Sns, NEW y \in Sns,
                      Dist(a, c) <= Dist(a, x), Dist(a, c) <= Dist(a, y)
               PROVE  /\ Dist(c, x) < Dist(c, y) <=> Dist(a, x) < Dist(a, y)
                      /\ Dist(c, x) <= Dist(c, y) <=> Dist(a, x) <= Dist(a, y)
    OBVIOUS
  <2>1. Dist(c, x) = Dist(a, x) - Dist(a, c) /\ Dist(c, y) = Dist(a, y) - Dist(a, c)
    BY <1>7
  <2>2. Dist(a, x) \in Nat /\ Dist(a, y) \in Nat /\ Dist(a, c) \in Nat
    BY <1>4, <1>5
  <2> QED
    BY <2>1, <2>2
<1>11. ASSUME NEW x \in Sns, Dist(a, c) <= Dist(a, x), Seen(a, r, x) PROVE Seen(c, r, x)
  BY <1>4, <1>5, <1>10, <1>11 DEF Seen
<1>12. ASSUME NEW x \in Sns, NEW y \in Sns, Dist(a, y) <= Dist(a, s), Dist(a, c) <= Dist(a, y),
              Dist(c, x) < Dist(c, y)
       PROVE  Dist(a, c) <= Dist(a, x) /\ Dist(a, x) < Dist(a, y)
  <2>1. Dist(c, y) <= Dist(c, s)
    BY <1>5, <1>6, <1>10, <1>12
  <2>2. Dist(c, x) < Dist(c, s)
    BY <1>5, <1>12, <2>1
  <2>3. Dist(a, c) <= Dist(a, x)
    BY <1>7, <2>2
  <2> QED
    BY <1>10, <1>12, <2>3
<1>13. Outstanding(t) = {x \in Sns : Dist(a, x) < Dist(a, s)}
  BY DEF Outstanding, a, s
<1>14. Outstanding(n) = {x \in Sns : Dist(c, x) < Dist(c, s)}
  BY <1>4 DEF Outstanding, c
<1>15. Remembers(n, r)
  <2>1. ASSUME NEW x \in KeptBy(n) PROVE x \in Outstanding(n)
    <3>1. x \in Sns /\ x \in KeptBy(t) /\ ~Acks(a, st, x)
      BY <1>4
    <3>2. Dist(a, x) < Dist(a, s)
      BY <1>13, <3>1 DEF Remembers
    <3>3. Dist(a, c) <= Dist(a, x)
      <4>1. CASE x \in st.nacks
        BY <1>4, <4>1 DEF Bounds
      <4>2. CASE ~(Dist(a, x) < Dist(a, st.ack))
        <5>1. Dist(a, c) <= Dist(a, st.ack) /\ st.ack \in Sns
          BY <1>2, <1>4 DEF Bounds, Truthful
        <5> QED
          BY <1>4, <1>5, <3>1, <4>2, <5>1
      <4> QED
        BY <3>1, <4>1, <4>2 DEF Acks
    <3>4. Dist(c, x) < Dist(c, s)
      BY <1>5, <1>6, <1>10, <3>1, <3>2, <3>3
    <3> QED
      BY <1>14, <3>1, <3>4
  <2>2. ASSUME NEW x \in Outstanding(n) \ KeptBy(n) PROVE Seen(c, r, x)
    <3>1. x \in Sns /\ Dist(c, x) < Dist(c, s) /\ x \notin KeptBy(n)
      BY <1>14
    <3>2. Dist(a, c) <= Dist(a, x) /\ Dist(a, x) < Dist(a, s)
      BY <1>5, <1>6, <1>12, <3>1
    <3>3. Seen(a, r, x)
      <4>1. CASE x \in KeptBy(t)
        BY <1>2, <1>4, <3>1, <4>1 DEF Truthful
      <4>2. CASE x \notin KeptBy(t)
        BY <1>13, <3>1, <3>2, <4>2 DEF Remembers, a
      <4> QED
        BY <4>1, <4>2
    <3> QED
      BY <1>11, <3>1, <3>2, <3>3
  <2> QED
    BY <1>4, <2>1, <2>2 DEF Remembers, c
<1>16. ASSUME NEW j \in DOMAIN q, j > 1
       PROVE  /\ q[j].pdu.ack \in Sns /\ q[j].pdu.nacks \subseteq Sns
              /\ \A y \in Bounds(q[j].pdu) : y \in Sns /\ Dist(a, c) <= Dist(a, y)
              /\ \A x \in Sns : Acks(c, q[j].pdu, x) =>
                   Dist(a, c) <= Dist(a, x) /\ Acks(a, q[j].pdu, x)
              /\ Truthful(q[j].pdu, c, s, KeptBy(n), r)
  <2> DEFINE u == q[j].pdu
  <2>1. Truthful(u, a, s, KeptBy(t), r) /\ Newer(u, st, a)
    BY <1>3, <1>16
  <2> HIDE DEF u
  <2>2. /\ u.ack \in Sns /\ u.nacks \subseteq Sns /\ Dist(a, u.ack) <= Dist(a, s)
        /\ \A x \in u.nacks : Dist(a, x) < Dist(a, u.ack) /\ x \in KeptBy(t)
        /\ \A x \in Sns : Acks(a, u, x) => Seen(a, r, x)
    BY <2>1 DEF Truthful
  <2>3. PICK b \in Bounds(u) : Dist(a, b) <= Dist(a, r.vrR)
    BY <2>1 DEF Truthful
  <2>4. PICK w \in Bounds(st) : \A y \in Bounds(u) : Dist(a, w) <= Dist(a, y)
    BY <2>1 DEF Newer
  <2>5. \A x \in u.nacks : ~Acks(a, st, x)
    BY <2>1 DEF Newer
  <2>6. w \in Sns /\ Dist(a, c) <= Dist(a, w)
    BY <1>2, <1>4, <2>4 DEF Bounds, Truthful
  <2>7. ASSUME NEW y \in Bounds(u) PROVE y \in Sns /\ Dist(a, c) <= Dist(a, y)
    <3>1. y \in Sns /\ Dist(a, w) <= Dist(a, y)
      BY <2>2, <2>4, <2>7 DEF Bounds
    <3>2. Dist(a, w) \in Nat /\ Dist(a, y) \in Nat /\ Dist(a, c) \in Nat
      BY <1>4, <1>5, <2>6, <3>1
    <3> QED
      BY <2>6, <3>1, <3>2
  <2>8. u.ack \in Bounds(u) /\ \A x \in u.nacks : x \in Bounds(u)
    BY DEF Bounds
  <2>9. Dist(c, u.ack) <= Dist(c, s)
    BY <1>5, <1>6, <1>10, <2>2, <2>7, <2>8
  <2>10. ASSUME NEW x \in u.nacks PROVE Dist(c, x) < Dist(c, u.ack) /\ x \in KeptBy(n)
    <3>1. Dist(c, x) < Dist(c, u.ack)
      BY <1>10, <2>2, <2>7, <2>8
    <3>2. x \in KeptBy(n)
      BY <1>4, <2>2, <2>5
    <3> QED
      BY <3>1, <3>2
  <2>11. ASSUME NEW x \in Sns, Acks(c, u, x)
         PROVE  Dist(a, c) <= Dist(a, x) /\ Acks(a, u, x)
    <3>1. Dist(c, x) < Dist(c, u.ack) /\ x \notin u.nacks
      BY <2>11 DEF Acks
    <3>2. Dist(a, c) <= Dist(a, x) /\ Dist(a, x) < Dist(a, u.ack)
      BY <1>12, <2>2, <2>7, <2>8, <3>1
    <3> QED
      BY <3>1, <3>2 DEF Acks
  <2>12. ASSUME NEW x \in Sns, Acks(c, u, x) PROVE Seen(c, r, x)
    BY <1>11, <2>2, <2>11, <2>12
  <2>13. Dist(c, b) <= Dist(c, r.vrR)
    BY <1>4, <1>5, <1>10, <2>3, <2>7
  <2>14. Truthful(u, c, s, KeptBy(n), r)
    BY <2>2, <2>3, <2>9, <2>10, <2>12, <2>13 DEF Truthful
  <2> QED
    BY <2>2, <2>7, <2>11, <2>14 DEF u
<1>17. ASSUME NEW j \in DOMAIN q, NEW i \in 2..(j - 1) PROVE Newer(q[j].pdu, q[i].pdu, c)
  <2> DEFINE u == q[j].pdu
             v == q[i].pdu
  <2>1. i \in 1..(j - 1) /\ i \in DOMAIN q /\ j > 1 /\ i > 1
    BY <1>1
  <2>2. Newer(u, v, a)
    BY <2>1 DEF Reports, a
  <2>3. /\ u.nacks \subseteq Sns /\ \A y \in Bounds(u) : y \in Sns /\ Dist(a, c) <= Dist(a, y)
        /\ \A y \in Bounds(v) : y \in Sns /\ Dist(a, c) <= Dist(a, y)
        /\ \A x \in Sns : Acks(c, v, x) => Acks(a, v, x)
    BY <1>16, <2>1
  <2> HIDE DEF u, v
  <2>4. PICK b \in Bounds(v) : \A y \in Bounds(u) : Dist(a, b) <= Dist(a, y)
    BY <2>2 DEF Newer
  <2>5. \A y \in Bounds(u) : Dist(c, b) <= Dist(c, y)
    BY <1>10, <2>3, <2>4
  <2>6. \A x \in u.nacks : ~Acks(c, v, x)
    BY <2>2, <2>3 DEF Newer
  <2> QED
    BY <2>4, <2>5, <2>6 DEF Newer, u, v
<1>18. Reports(m, c, s, KeptBy(n), r)
  <2>1. ASSUME NEW j \in DOMAIN m
        PROVE  /\ Truthful(m[j].pdu, c, s, KeptBy(n), r)
               /\ \A i \in 1..(j - 1) : Newer(m[j].pdu, m[i].pdu, c)
    <3>1. j + 1 \in DOMAIN q /\ j + 1 > 1 /\ m[j].pdu = q[j + 1].pdu
      BY <1>1
    <3>2. ASSUME NEW i \in 1..(j - 1)
          PROVE  Newer(m[j].pdu, m[i].pdu, c)
      <4>1. PICK k, l : k = j + 1 /\ l = i + 1
        OBVIOUS
      <4>2. /\ k \in DOMAIN q /\ l \in 2..(k - 1)
            /\ m[j].pdu = q[k].pdu /\ m[i].pdu = q[l].pdu
        BY <1>1, <4>1
      <4>3. Newer(q[k].pdu, q[l].pdu, c)
        BY <1>17, <4>2
      <4> QED
        BY <4>2, <4>3
    <3>3. Truthful(m[j].pdu, c, s, KeptBy(n), r)
      <4>1. Truthful(q[j + 1].pdu, c, s, KeptBy(n), r)
        BY <1>16, <3>1
      <4> QED
        BY <3>1, <4>1
    <3> QED
      BY <3>2, <3>3
  <2> QED
    BY <2>1 DEF Reports
<1> QED
  BY <1>4, <1>9, <1>15, <1>18 DEF n, c, m, st, s

\* What is on its way and what is kept depend on VR(R) and the reception buffer only.
LEMMA SameReceiver ==
  ASSUME NEW r, NEW r2, r2.vrR = r.vrR, r2.buffer = r.buffer, NEW q, NEW a, NEW s
  PROVE  /\ Fresh(q, r, s) => Fresh(q, r2, s)
         /\ \A K : Reports(q, a, s, K, r) => Reports(q, a, s, K, r2)
         /\ \A t : Remembers(t, r) => Remembers(t, r2)
<1>1. \A x : CompleteAt(r2, x) <=> CompleteAt(r, x)
  BY DEF CompleteAt
<1>2. \A b, x : Seen(b, r2, x) <=> Seen(b, r, x)
  BY <1>1 DEF Seen
<1>3. Fresh(q, r, s) => Fresh(q, r2, s)
  BY DEF Fresh, InWindow
<1>4. ASSUME NEW K, Reports(q, a, s, K, r) PROVE Reports(q, a, s, K, r2)
  BY <1>2, <1>4 DEF Reports, Truthful
<1>5. ASSUME NEW t, Remembers(t, r) PROVE Remembers(t, r2)
  BY <1>2, <1>5 DEF Remembers
<1> QED
  BY <1>3, <1>4, <1>5

\* Nothing has been sent.
LEMMA AmWindowsInit == AmInit => AmWindows
<1> SUFFICES ASSUME AmInit PROVE AmWindows
  OBVIOUS
<1>1. /\ tx.vtA = 0 /\ tx.vtS = 0 /\ tx.txed = <<>> /\ tx.retx = <<>> /\ tx.seg = <<>>
      /\ rx.vrR = 0 /\ rx.vrMs = 0 /\ rx.vrH = 0 /\ channel = <<>> /\ statuses = <<>>
  BY DEF AmInit
<1>2. 0 \in Sns /\ Dist(0, 0) = 0 /\ Window \in Nat
  <2>1. 0 \in Sns
    BY Ring
  <2> QED
    BY <2>1, DistRange, Ring
<1>3. DOMAIN <<>> = {}
  OBVIOUS
<1>4. Outstanding(tx) = {}
  <2>1. \A x \in Sns : ~(Dist(0, x) < 0)
    BY <1>2, DistRange
  <2> QED
    BY <1>1, <1>2, <2>1 DEF Outstanding
<1>5. InStep(0, rx, 0)
  BY <1>1, <1>2 DEF InStep
<1>6. Remembers(tx, rx)
  BY <1>1, <1>3, <1>4 DEF Remembers, KeptBy
<1> QED
  BY <1>1, <1>3, <1>5, <1>6 DEF AmWindows, Fresh, Reports

\* The number that a PDU is sent under, new or again, lies between VT(A) and VT(S).
LEMMA AmWindowsSent ==
  ASSUME AmShape, AmWindows, NEW x, x.pdu.sn \in Sns,
         tx'.vtA = tx.vtA, tx'.vtS \in Sns,
         Dist(tx.vtA, tx.vtS) <= Dist(tx.vtA, tx'.vtS), Dist(tx.vtA, tx'.vtS) <= Window,
         Dist(tx.vtA, x.pdu.sn) < Dist(tx.vtA, tx'.vtS),
         channel' = Sent(channel, x), KeptBy(tx) \subseteq KeptBy(tx'), Remembers(tx', rx),
         rx' = rx, statuses' = statuses
  PROVE  AmWindows'
<1>1. /\ tx.vtA \in Sns /\ tx.vtS \in Sns /\ RxOK(rx) /\ RxWindow(rx) /\ rx.vrR \in Sns
      /\ rx.vrH \in Sns /\ Listed(channel)
  BY DEF AmShape, TxShape, RxOK, RxWindow
<1>2. InStep(tx.vtA, rx, tx'.vtS)
  <2>1. /\ Dist(tx.vtA, tx.vtS) \in Nat /\ Dist(tx.vtA, tx'.vtS) \in Nat
        /\ Dist(tx.vtA, rx.vrH) \in Nat
    BY <1>1, DistRange
  <2> QED
    BY <2>1 DEF AmWindows, InStep
<1>3. Fresh(channel', rx, tx'.vtS)
  BY <1>1, SentFresh DEF AmWindows
<1>4. Reports(statuses, tx.vtA, tx'.vtS, KeptBy(tx'), rx)
  <2>1. Dist(tx.vtA, rx.vrR) <= Dist(tx.vtA, rx.vrR)
    BY <1>1, DistRange
  <2>2. Reports(statuses, tx.vtA, tx.vtS, KeptBy(tx), rx)
    BY DEF AmWindows
  <2> QED
    BY <1>1, <2>1, <2>2, ReportsStay
<1> QED
  BY <1>2, <1>3, <1>4 DEF AmWindows

\* Opportunities of the transmitting entity.
LEMMA AmWindowsOpportunity ==
  ASSUME AmShape, AmWindows, NEW room, NotifyTxOpportunity(room)
  PROVE  AmWindows'
<1>0. /\ TxShape(tx) /\ tx.vtA \in Sns /\ tx.vtS \in Sns /\ RxOK(rx) /\ Remembers(tx, rx)
      /\ Shape(tx.txed) /\ Shape(tx.retx)
      /\ Dist(tx.vtA, tx.vtS) \in Nat /\ Dist(tx.vtA, tx.vtS) <= Window
      /\ Window \in Nat \ {0} /\ Modulus = 2 * Window
      /\ rx' = rx /\ statuses' = statuses
  BY DistRange, Ring
     DEF AmShape, TxShape, AmWindows, InStep, NotifyTxOpportunity, receiverVars
<1>1. /\ TxShape(tx') /\ tx'.vtA = tx.vtA
      /\ NothingSent \/ (\E x, sn : Resent(x, sn)) \/ (\E x : FirstSent(x))
  BY <1>0, OpportunityParts
<1>2. CASE NothingSent
  <2>1. /\ channel' = channel /\ tx'.vtS = tx.vtS /\ KeptBy(tx') = KeptBy(tx)
        /\ Remembers(tx', rx)
    BY <1>0, <1>1, <1>2 DEF NothingSent, KeptBy, Remembers, Outstanding
  <2> QED
    BY <1>0, <1>1, <2>1 DEF AmWindows
<1>3. ASSUME NEW x, NEW sn, Resent(x, sn) PROVE AmWindows'
  <2>1. /\ sn \in DOMAIN tx.retx /\ x.pdu.sn = sn
        /\ channel' = Sent(channel, x) /\ tx'.vtS = tx.vtS
    BY <1>3 DEF Resent
  <2>2. KeptBy(tx') = KeptBy(tx) /\ sn \in KeptBy(tx) /\ sn \in Sns
    BY <1>0, <1>3 DEF Resent, KeptBy, Shape
  <2>3. /\ DOMAIN tx'.txed \cap DOMAIN tx'.retx = {} /\ DOMAIN tx'.seg \subseteq DOMAIN tx'.retx
    BY <1>0, <1>3 DEF Resent, Remembers
  <2>4. Outstanding(tx') = Outstanding(tx)
    BY <1>1, <2>1 DEF Outstanding
  <2>5. Remembers(tx', rx)
    BY <1>0, <1>1, <2>2, <2>3, <2>4 DEF Remembers
  <2>6. Dist(tx.vtA, sn) < Dist(tx.vtA, tx.vtS)
    BY <1>0, <2>2 DEF Remembers, Outstanding
  <2>7. Dist(tx.vtA, tx.vtS) <= Dist(tx.vtA, tx.vtS)
    BY <1>0
  <2> QED
    BY <1>0, <1>1, <2>1, <2>2, <2>5, <2>6, <2>7, AmWindowsSent
<1>4. ASSUME NEW x, FirstSent(x) PROVE AmWindows'
  <2> DEFINE s == tx.vtS
             n == (tx.vtS + 1) % Modulus
  <2>1. /\ ~WindowFull(tx) /\ x.pdu.sn = s /\ channel' = Sent(channel, x) /\ tx'.vtS = n
    BY <1>4 DEF FirstSent
  <2>2. n \in Sns /\ Dist(tx.vtA, n) = Dist(tx.vtA, s) + 1 /\ Dist(tx.vtA, n) <= Window
    <3>1. Dist(tx.vtA, s) < Window
      BY <1>0, <2>1 DEF WindowFull
    <3>2. n \in Sns /\ Dist(tx.vtA, n) = Dist(tx.vtA, s) + 1
      BY <1>0, <3>1, Following
    <3> QED
      BY <1>0, <3>1, <3>2
  <2>3. KeptBy(tx') = KeptBy(tx) \union {s}
    BY <1>4 DEF FirstSent, KeptBy
  <2> HIDE DEF n
  <2>4. Outstanding(tx') = Outstanding(tx) \union {s}
    <3>1. ASSUME NEW y \in Sns
          PROVE  Dist(tx.vtA, y) < Dist(tx.vtA, n) <=> Dist(tx.vtA, y) < Dist(tx.vtA, s) \/ y = s
      <4>1. Dist(tx.vtA, y) \in Nat /\ (Dist(tx.vtA, y) = Dist(tx.vtA, s) => y = s)
        BY <1>0, DistRange, DistSame
      <4> QED
        BY <1>0, <2>2, <4>1
    <3> QED
      BY <1>0, <1>1, <2>1, <3>1 DEF Outstanding
  <2>5. s \notin Outstanding(tx)
    BY <1>0 DEF Outstanding
  <2>6. /\ DOMAIN tx'.txed \cap DOMAIN tx'.retx = {} /\ DOMAIN tx'.seg \subseteq DOMAIN tx'.retx
    BY <1>0, <1>4, <2>5 DEF FirstSent, Remembers, KeptBy
  <2>7. Remembers(tx', rx)
    BY <1>0, <1>1, <2>3, <2>4, <2>6 DEF Remembers
  <2>8. /\ Dist(tx.vtA, s) <= Dist(tx.vtA, n) /\ Dist(tx.vtA, s) < Dist(tx.vtA, n)
    BY <1>0, <2>2
  <2>9. KeptBy(tx) \subseteq KeptBy(tx')
    BY <2>3
  <2> QED
    BY <1>0, <1>1, <2>1, <2>2, <2>7, <2>8, <2>9, AmWindowsSent
<1> QED
  BY <1>1, <1>2, <1>3, <1>4

\* A data PDU arrives.
LEMMA AmWindowsRecvData ==
  ASSUME AmShape, AmWindows, NEW i \in DOMAIN channel, RecvData(i)
  PROVE  AmWindows'
<1> DEFINE p == channel[i].pdu
<1>0. /\ tx.vtA \in Sns /\ tx.vtS \in Sns /\ RxOK(rx) /\ Listed(channel) /\ rx.vrR \in Sns
      /\ InStep(tx.vtA, rx, tx.vtS) /\ Fresh(channel, rx, tx.vtS)
      /\ Reports(statuses, tx.vtA, tx.vtS, KeptBy(tx), rx) /\ Remembers(tx, rx)
      /\ tx' = tx /\ statuses' = statuses /\ channel' = Arrived(channel, i)
  BY DEF AmShape, TxShape, RxOK, RxWindow, AmWindows, RecvData, senderVars
<1>1. \/ ~InWindow(rx, p.pdu.sn) /\ rx' = [rx EXCEPT !.statusRequested = @ \/ p.poll]
      \/ InWindow(rx, p.pdu.sn) /\ rx' = PduTaken(rx, p)
  BY DEF RecvData, PduTaken
<1>2. CASE rx' = [rx EXCEPT !.statusRequested = @ \/ p.poll]
  <2> HIDE DEF p
  <2>1. rx'.vrR = rx.vrR /\ rx'.vrMs = rx.vrMs /\ rx'.vrH = rx.vrH /\ rx'.buffer = rx.buffer
    BY <1>0, <1>2 DEF RxOK, RxWindow, RxRecord
  <2>2. Fresh(channel', rx, tx.vtS)
    BY <1>0, RemovedFresh
  <2>3. /\ Fresh(channel', rx', tx.vtS) /\ Reports(statuses, tx.vtA, tx.vtS, KeptBy(tx), rx')
        /\ Remembers(tx, rx')
    <3>1. Fresh(channel', rx', tx.vtS)
      BY <2>1, <2>2, SameReceiver
    <3>2. Reports(statuses, tx.vtA, tx.vtS, KeptBy(tx), rx')
      BY <1>0, <2>1, SameReceiver
    <3>3. Remembers(tx, rx')
      BY <1>0, <2>1, SameReceiver
    <3> QED
      BY <3>1, <3>2, <3>3
  <2>4. InStep(tx.vtA, rx', tx.vtS)
    BY <1>0, <2>1 DEF InStep
  <2> QED
    BY <1>0, <2>3, <2>4 DEF AmWindows
<1>3. CASE InWindow(rx, p.pdu.sn) /\ rx' = PduTaken(rx, p)
  <2>1. \A j \in 1..(i - 1) : Dist(SnAt(channel, j), SnAt(channel, i)) # Window
    BY DEF RecvData, NotAWindowAhead, SnAt
  <2>2. InWindow(rx, SnAt(channel, i))
    BY <1>3 DEF SnAt
  <2>3. /\ InStep(tx.vtA, rx', tx.vtS) /\ Fresh(channel', rx', tx.vtS)
        /\ Dist(tx.vtA, rx.vrR) <= Dist(tx.vtA, rx'.vrR)
        /\ \A x \in Sns : Seen(tx.vtA, rx, x) => Seen(tx.vtA, rx', x)
    BY <1>0, <1>3, <2>1, <2>2, ReceivedWindows
  <2>4. rx'.vrR \in Sns
    <3>1. p.pdu.sn \in Sns
      BY DEF AmShape
    <3> QED
      BY <1>0, <1>3, <3>1, Received DEF RxOK, RxWindow
  <2>5. Reports(statuses, tx.vtA, tx.vtS, KeptBy(tx), rx')
    <3>1. Dist(tx.vtA, tx.vtS) <= Dist(tx.vtA, tx.vtS)
      BY <1>0, DistRange
    <3> QED
      BY <1>0, <2>3, <2>4, <3>1, ReportsStay
  <2>6. Remembers(tx, rx')
    <3>1. Outstanding(tx) \subseteq Sns
      BY DEF Outstanding
    <3> QED
      BY <1>0, <2>3, <3>1 DEF Remembers
  <2> QED
    BY <1>0, <2>3, <2>5, <2>6 DEF AmWindows
<1> QED
  BY <1>1, <1>2, <1>3

\* The receiver sends a STATUS PDU.
LEMMA AmWindowsStatus ==
  ASSUME AmShape, AmWindows, NEW room \in Nat, NotifyStatusOpportunity(room)
  PROVE  AmWindows'
<1>0. /\ tx.vtA \in Sns /\ tx.vtS \in Sns /\ RxOK(rx) /\ Listed(statuses) /\ rx.vrR \in Sns
      /\ InStep(tx.vtA, rx, tx.vtS) /\ Fresh(channel, rx, tx.vtS)
      /\ Reports(statuses, tx.vtA, tx.vtS, KeptBy(tx), rx) /\ Remembers(tx, rx)
      /\ tx' = tx /\ channel' = channel
  BY DEF AmShape, TxShape, RxOK, RxWindow, AmWindows, NotifyStatusOpportunity, senderVars
<1>1. \/ rx' = rx /\ statuses' = statuses
      \/ /\ rx' = [rx EXCEPT !.statusRequested = FALSE, !.prohibitTimer = TRUE]
         /\ statuses' = Sent(statuses, StatusPdu(room))
  BY DEF NotifyStatusOpportunity
<1>2. CASE rx' = rx /\ statuses' = statuses
  BY <1>0, <1>2 DEF AmWindows
<1>3. CASE /\ rx' = [rx EXCEPT !.statusRequested = FALSE, !.prohibitTimer = TRUE]
           /\ statuses' = Sent(statuses, StatusPdu(room))
  <2>1. rx'.vrR = rx.vrR /\ rx'.vrMs = rx.vrMs /\ rx'.vrH = rx.vrH /\ rx'.buffer = rx.buffer
    BY <1>0, <1>3 DEF RxOK, RxWindow, RxRecord
  <2>2. \A x \in Sns : Dist(tx.vtA, x) < Dist(tx.vtA, tx.vtS) /\ ~Seen(tx.vtA, rx, x) =>
          x \in KeptBy(tx)
    BY <1>0 DEF Remembers, Outstanding
  <2>3. /\ Truthful(StatusPdu(room), tx.vtA, tx.vtS, KeptBy(tx), rx)
        /\ \A y \in Bounds(StatusPdu(room)) : Dist(tx.vtA, rx.vrR) <= Dist(tx.vtA, y)
        /\ \A x \in StatusPdu(room).nacks : ~Seen(tx.vtA, rx, x)
    BY <1>0, <2>2, StatusPduParts
  <2>4. Reports(statuses', tx.vtA, tx.vtS, KeptBy(tx), rx)
    BY <1>0, <1>3, <2>3, ReportsSent
  <2>5. Reports(statuses', tx.vtA, tx.vtS, KeptBy(tx), rx')
    BY <2>1, <2>4, SameReceiver
  <2>6. Fresh(channel, rx', tx.vtS)
    BY <1>0, <2>1, SameReceiver
  <2>7. Remembers(tx, rx')
    BY <1>0, <2>1, SameReceiver
  <2>8. InStep(tx.vtA, rx', tx.vtS)
    BY <1>0, <2>1 DEF InStep
  <2> QED
    BY <1>0, <2>5, <2>6, <2>7, <2>8 DEF AmWindows
<1> QED
  BY <1>1, <1>2, <1>3

\* A STATUS PDU arrives, the oldest one on its way.
LEMMA AmWindowsRecvStatus ==
  ASSUME StatusDepth = 0, AmShape, AmWindows, NEW i \in DOMAIN statuses, RecvStatus(i)
  PROVE  AmWindows'
<1>0. /\ TxShape(tx) /\ RxOK(rx) /\ Listed(statuses)
      /\ InStep(tx.vtA, rx, tx.vtS) /\ Fresh(channel, rx, tx.vtS)
      /\ Reports(statuses, tx.vtA, tx.vtS, KeptBy(tx), rx) /\ Remembers(tx, rx)
      /\ rx' = rx /\ channel' = channel /\ statuses' = Arrived(statuses, i)
      /\ tx' = StatusTaken(tx, statuses[i].pdu)
  BY DEF AmShape, AmWindows, RecvStatus, receiverVars
<1>1. i = 1 /\ 1 \in DOMAIN statuses
  <2>1. i \in 1..Len(statuses) /\ Len(statuses) \in Nat /\ DOMAIN statuses = 1..Len(statuses)
    BY <1>0, ListedDomain
  <2>2. 1 \in DOMAIN statuses /\ statuses[1].late \in Nat
    BY <1>0, <2>1 DEF Listed
  <2>3. 1 \notin 1..(i - 1)
    <3> SUFFICES ASSUME 1 \in 1..(i - 1) PROVE FALSE
      OBVIOUS
    <3>1. statuses[1].late < 0
      BY DEF RecvStatus
    <3> QED
      BY <2>2, <3>1
  <2> QED
    BY <2>1, <2>2, <2>3
<1>2. /\ tx'.vtS = tx.vtS /\ InStep(tx'.vtA, rx, tx.vtS) /\ Remembers(tx', rx)
      /\ Reports(statuses', tx'.vtA, tx.vtS, KeptBy(tx'), rx)
  BY <1>0, <1>1, TakenWindows
<1> QED
  BY <1>0, <1>2 DEF AmWindows

\* Every step of either entity, and of the lower layers between them.
LEMMA AmWindowsNext ==
  ASSUME StatusDepth = 0, AmShape, AmWindows, [AmNext]_vars
  PROVE  AmWindows'
<1>0. /\ TxShape(tx) /\ RxOK(rx) /\ Listed(channel) /\ Listed(statuses)
      /\ InStep(tx.vtA, rx, tx.vtS) /\ Fresh(channel, rx, tx.vtS)
      /\ Reports(statuses, tx.vtA, tx.vtS, KeptBy(tx), rx) /\ Remembers(tx, rx)
  BY DEF AmShape, AmWindows
<1>1. ASSUME tx'.vtA = tx.vtA, tx'.vtS = tx.vtS, tx'.seg = tx.seg,
             tx'.txed = tx.txed, tx'.retx = tx.retx,
             rx' = rx, channel' = channel, statuses' = statuses
      PROVE  AmWindows'
  <2>1. KeptBy(tx') = KeptBy(tx) /\ Outstanding(tx') = Outstanding(tx)
    BY <1>1 DEF KeptBy, Outstanding
  <2>2. Remembers(tx', rx)
    BY <1>0, <1>1, <2>1 DEF Remembers
  <2> QED
    BY <1>0, <1>1, <2>1, <2>2 DEF AmWindows
<1>2. CASE TransmitPdcpPdu
  <2>1. PICK b : tx' = [tx EXCEPT !.buffer = b, !.rbsTimer = TRUE]
    BY <1>2 DEF TransmitPdcpPdu
  <2>2. /\ tx'.vtA = tx.vtA /\ tx'.vtS = tx.vtS /\ tx'.seg = tx.seg
        /\ tx'.txed = tx.txed /\ tx'.retx = tx.retx
    BY <1>0, <2>1 DEF TxShape, TxRecord
  <2> QED
    BY <1>1, <1>2, <2>2 DEF TransmitPdcpPdu, receiverVars
<1>3. CASE ExpireRbsTimer
  <2>1. PICK b : tx' = [tx EXCEPT !.rbsTimer = b]
    BY <1>3 DEF ExpireRbsTimer
  <2>2. /\ tx'.vtA = tx.vtA /\ tx'.vtS = tx.vtS /\ tx'.seg = tx.seg
        /\ tx'.txed = tx.txed /\ tx'.retx = tx.retx
    BY <1>0, <2>1 DEF TxShape, TxRecord
  <2> QED
    BY <1>1, <1>3, <2>2 DEF ExpireRbsTimer, receiverVars
<1>4. CASE ExpirePollRetransmitTimer
  <2>1. /\ tx'.vtA = tx.vtA /\ tx'.vtS = tx.vtS /\ tx'.seg = tx.seg
        /\ \/ tx'.txed = tx.txed /\ tx'.retx = tx.retx
           \/ DOMAIN tx'.txed = {} /\ DOMAIN tx'.retx = DOMAIN tx.retx \union DOMAIN tx.txed
    BY <1>0, <1>4, PollExpiredParts
  <2>2. KeptBy(tx') = KeptBy(tx) /\ Outstanding(tx') = Outstanding(tx)
    BY <2>1 DEF KeptBy, Outstanding
  <2>3. Remembers(tx', rx)
    BY <1>0, <2>1, <2>2 DEF Remembers
  <2> QED
    BY <1>0, <1>4, <2>1, <2>2, <2>3 DEF AmWindows, ExpirePollRetransmitTimer, receiverVars
<1>5. ASSUME NEW room, NotifyTxOpportunity(room) PROVE AmWindows'
  BY <1>5, AmWindowsOpportunity
<1>6. ASSUME NEW i \in DOMAIN channel, RecvData(i) PROVE AmWindows'
  BY <1>6, AmWindowsRecvData
<1>7. ASSUME NEW i \in DOMAIN channel, LoseData(i) PROVE AmWindows'
  <2>1. Fresh(channel', rx, tx.vtS)
    BY <1>0, <1>7, RemovedFresh DEF LoseData
  <2> QED
    BY <1>0, <1>7, <2>1 DEF LoseData, AmWindows, senderVars, receiverVars
<1>8. ASSUME NEW i \in DOMAIN statuses, RecvStatus(i) PROVE AmWindows'
  BY <1>8, AmWindowsRecvStatus
<1>9. ASSUME NEW i \in DOMAIN statuses, LoseStatus(i) PROVE AmWindows'
  <2>1. Reports(statuses', tx.vtA, tx.vtS, KeptBy(tx), rx)
    BY <1>0, <1>9, ReportsRemoved DEF LoseStatus
  <2> QED
    BY <1>0, <1>9, <2>1 DEF LoseStatus, AmWindows, senderVars, receiverVars
<1>10. CASE ExpireReorderingTimer
  <2>1. /\ RxOK(rx') /\ rx'.vrR = rx.vrR /\ rx'.vrH = rx.vrH /\ rx'.buffer = rx.buffer
    <3>1. RxOK(rx)
      BY <1>0
    <3>2. RxOK(rx')
      BY <3>1, <1>10, Reordered DEF ExpireReorderingTimer
    <3>3. rx'.vrR = rx.vrR /\ rx'.vrH = rx.vrH /\ rx'.buffer = rx.buffer
      BY <3>1, <1>10 DEF ExpireReorderingTimer, RxOK, RxWindow, RxRecord
    <3> QED
      BY <3>2, <3>3
  <2>2. /\ tx' = tx /\ channel' = channel /\ statuses' = statuses
    BY <1>10 DEF ExpireReorderingTimer, senderVars
  <2>3. Fresh(channel, rx', tx.vtS) /\ Remembers(tx, rx')
    BY <1>0, <2>1, SameReceiver
  <2>4. Reports(statuses, tx.vtA, tx.vtS, KeptBy(tx), rx')
    BY <1>0, <2>1, SameReceiver
  <2>5. InStep(tx.vtA, rx', tx.vtS)
    <3>1. /\ tx.vtA \in Sns /\ tx.vtS \in Sns
          /\ rx.vrR \in Sns /\ rx.vrH \in Sns /\ rx.vrMs \in Sns /\ rx'.vrMs \in Sns
          /\ Dist(rx.vrR, rx'.vrMs) <= Dist(rx.vrR, rx.vrH)
          /\ Dist(tx.vtA, rx.vrH) <= Dist(tx.vtA, tx.vtS) /\ Dist(tx.vtA, tx.vtS) <= Window
      BY <1>0, <2>1 DEF RxOK, RxWindow, TxShape, InStep
    <3>2. /\ Dist(tx.vtA, rx.vrR) \in Nat /\ Dist(tx.vtA, rx.vrH) \in Nat
          /\ Dist(rx.vrR, rx.vrH) \in Nat /\ Dist(rx.vrR, rx'.vrMs) \in Nat
          /\ Dist(tx.vtA, rx.vrMs) \in Nat /\ Dist(tx.vtA, tx.vtS) \in Nat /\ Window \in Nat
      BY <3>1, DistRange, Ring
    <3>3. Dist(tx.vtA, rx.vrR) <= Dist(tx.vtA, rx.vrH) /\ Dist(tx.vtA, rx.vrH) <= Window
      BY <1>0, <3>1, <3>2 DEF InStep
    <3>4. /\ Dist(tx.vtA, rx'.vrMs) = Dist(tx.vtA, rx.vrR) + Dist(rx.vrR, rx'.vrMs)
          /\ Dist(rx.vrR, rx.vrH) = Dist(tx.vtA, rx.vrH) - Dist(tx.vtA, rx.vrR)
      BY <3>1, <3>2, <3>3, Rebased
    <3> QED
      BY <2>1, <3>1, <3>2, <3>4 DEF InStep
  <2> QED
    BY <2>2, <2>3, <2>4, <2>5 DEF AmWindows
<1>11. CASE ExpireStatusProhibitTimer
  <2>1. /\ rx' = [rx EXCEPT !.prohibitTimer = FALSE]
        /\ tx' = tx /\ channel' = channel /\ statuses' = statuses
    BY <1>11 DEF ExpireStatusProhibitTimer, senderVars
  <2>2. rx'.vrR = rx.vrR /\ rx'.vrMs = rx.vrMs /\ rx'.vrH = rx.vrH /\ rx'.buffer = rx.buffer
    BY <1>0, <2>1 DEF RxOK, RxWindow, RxRecord
  <2>3. Fresh(channel, rx', tx.vtS) /\ Remembers(tx, rx')
    BY <1>0, <2>2, SameReceiver
  <2>4. Reports(statuses, tx.vtA, tx.vtS, KeptBy(tx), rx')
    BY <1>0, <2>2, SameReceiver
  <2>5. InStep(tx.vtA, rx', tx.vtS)
    BY <1>0, <2>2 DEF InStep
  <2> QED
    BY <2>1, <2>3, <2>4, <2>5 DEF AmWindows
<1>12. ASSUME NEW room \in NackRooms, NotifyStatusOpportunity(room) PROVE AmWindows'
  <2>1. room \in Nat
    BY <1>12, AmAssumption
  <2> QED
    BY <1>12, <2>1, AmWindowsStatus
<1>13. CASE UNCHANGED vars
  BY <1>1, <1>13 DEF vars, senderVars, receiverVars
<1> QED
  BY <1>2, <1>3, <1>4, <1>5, <1>6, <1>7, <1>8, <1>9, <1>10, <1>11, <1>12, <1>13 DEF AmNext

\* The inductive invariant: the shape of the state, and the two windows with all
\* that is on its way between them.
AmInv == AmShape /\ AmWindows

\* The invariant holds of every state, if STATUS PDUs arrive in order.
LEMMA AmInvariant ==
  ASSUME StatusDepth = 0
  PROVE  AmSpec => []AmInv
<1>1. AmInit => AmInv
  BY AmShapeInit, AmWindowsInit DEF AmInv
<1>2. AmInv /\ [AmNext]_vars => AmInv'
  BY AmShapeNext, AmWindowsNext DEF AmInv
<1> QED
  BY <1>1, <1>2, PTL DEF AmSpec

\* As long as STATUS PDUs arrive in order, the two windows stay in step: VT(A)
\* never passes a PDU that has not been received (lte-rlc-am.cc, DoReceivePdu).
THEOREM AmWindowsInStep ==
  ASSUME StatusDepth = 0
  PROVE  AmSpec => []WindowsInStep
<1>1. AmInv => WindowsInStep
  <2> SUFFICES ASSUME AmInv PROVE WindowsInStep
    OBVIOUS
  <2>1. /\ tx.vtA \in Sns /\ tx.vtS \in Sns /\ RxWindow(rx) /\ InStep(tx.vtA, rx, tx.vtS)
    BY DEF AmInv, AmShape, TxShape, RxOK, AmWindows
  <2>2. Dist(tx.vtA, rx.vrR) <= Dist(tx.vtA, tx.vtS)
    BY <2>1, InStepIs
  <2> QED
    BY <2>1, <2>2 DEF InStep, WindowsInStep
<1> QED
  BY <1>1, AmInvariant, PTL

\* Then the transmitter keeps, once, every PDU that the receiver has not completed.
THEOREM AmNothingForgotten ==
  ASSUME StatusDepth = 0
  PROVE  AmSpec => []NothingForgotten
<1>1. AmInv => NothingForgotten
  BY DEF AmInv, AmWindows, Remembers, KeptBy, NothingForgotten, Seen, Arrivedness
<1> QED
  BY <1>1, AmInvariant, PTL

\* Then a STATUS PDU only asks again for PDUs that the transmitter still keeps, as
\* DoReceivePdu asserts.
THEOREM AmNackedIsKept ==
  ASSUME StatusDepth = 0
  PROVE  AmSpec => []NackedIsKept
<1>1. AmInv => NackedIsKept
  BY DEF AmInv, AmWindows, Reports, Truthful, NackedIsKept, KeptBy
<1> QED
  BY <1>1, AmInvariant, PTL

-----------------------------------------------------------------------------
(* The reassembly.                                                         *)

\* The receiving entity has delivered the SDUs before a place, keeps the
\* beginning of the next up to there, and expects the PDU with the number sn.
WholeSdus(A, k) == [i \in 1..k |-> Piece(A[i], 0, SduLen[A[i]])]

Rebuilt(A, r, sn, k, o) ==
  /\ k \in Nat /\ o \in Nat /\ k <= Len(A) /\ (o # 0 => k < Len(A))
  /\ \E keep : /\ r = [expected |-> sn, waiting |-> (o # 0), keep |-> keep, left |-> <<>>,
                       out |-> WholeSdus(A, k)]
               /\ o # 0 => keep = Piece(A[k + 1], 0, o)

\* The first k accepted SDUs, passed to PDCP.
LEMMA WholeSdusAre ==
  ASSUME NEW A \in Seq(Sdus), NEW k \in 0..Len(A)
  PROVE  /\ WholeSdus(A, k) \in Seq(Pieces) /\ Len(WholeSdus(A, k)) = k
         /\ \A i \in 1..k : WholeSdus(A, k)[i] = Piece(A[i], 0, SduLen[A[i]])
<1>1. ASSUME NEW i \in 1..k PROVE Piece(A[i], 0, SduLen[A[i]]) \in Pieces
  <2>1. A[i] \in Nat /\ SduLen[A[i]] \in Nat \ {0}
    BY AcceptedIs
  <2> QED
    BY <2>1 DEF Piece, Pieces
<1> HIDE DEF Pieces
<1> QED
  BY <1>1 DEF WholeSdus

\* Pieces that continue what was delivered: the whole ones are passed to PDCP, the
\* beginning of an SDU is kept.
LEMMA Completes ==
  ASSUME NEW A \in Seq(Sdus), NEW k \in Nat, NEW o2 \in Nat, NEW sn, NEW last,
         last = (o2 = 0),
         NEW u \in Seq(Pieces), Len(u) > 0, k + Len(u) <= Len(A),
         \A i \in 1..Len(u) :
           u[i] = Piece(A[k + i], 0, IF i = Len(u) /\ o2 # 0 THEN o2 ELSE SduLen[A[k + i]]),
         NEW r, r = [expected |-> sn, waiting |-> r.waiting, keep |-> r.keep, left |-> r.left,
                     out |-> WholeSdus(A, k)]
  PROVE  Rebuilt(A, Complete(r, u, last), sn, k + Len(u) - (IF o2 = 0 THEN 0 ELSE 1), o2)
<1> DEFINE n    == Len(u)
           w    == WholeSdus(A, k)
           c    == Complete(r, u, last)
<1>1. /\ n \in Nat /\ n > 0 /\ k \in 0..Len(A) /\ Len(A) \in Nat /\ k + n <= Len(A)
      /\ w \in Seq(Pieces) /\ Len(w) = k
      /\ \A i \in 1..k : w[i] = Piece(A[i], 0, SduLen[A[i]])
  <2>1. n \in Nat /\ Len(A) \in Nat /\ k \in 0..Len(A)
    OBVIOUS
  <2> QED
    BY <2>1, WholeSdusAre
<1> HIDE DEF w
<1>4. PICK a, b, l : r = [expected |-> sn, waiting |-> a, keep |-> b, left |-> l, out |-> w]
  BY DEF w
<1>2. CASE o2 = 0
  <2> DEFINE v == w \o u
  <2>1. c = [expected |-> sn, waiting |-> FALSE, keep |-> Junk, left |-> <<>>, out |-> v]
    <3>1. last
      BY <1>2
    <3>2. c = [r EXCEPT !.waiting = FALSE, !.keep = Junk, !.left = <<>>, !.out = r.out \o u]
      BY <3>1 DEF Complete
    <3> HIDE DEF c
    <3> QED
      BY <1>4, <3>2
  <2>2. /\ v \in Seq(Pieces) /\ Len(v) = k + n
        /\ \A i \in 1..(k + n) : v[i] = IF i <= k THEN w[i] ELSE u[i - k]
    BY <1>1, ConcatProperties
  <2> HIDE DEF v, c
  <2>3. ASSUME NEW i \in 1..(k + n) PROVE v[i] = Piece(A[i], 0, SduLen[A[i]])
    <3>1. CASE i <= k
      BY <1>1, <2>2, <3>1
    <3>2. CASE ~(i <= k)
      <4>1. i - k \in 1..n /\ k + (i - k) = i
        BY <1>1, <3>2
      <4>2. u[i - k] = Piece(A[k + (i - k)], 0, SduLen[A[k + (i - k)]])
        BY <1>2, <4>1
      <4> QED
        BY <2>2, <3>2, <4>1, <4>2
    <3> QED
      BY <3>1, <3>2
  <2>4. v = [i \in 1..(k + n) |-> Piece(A[i], 0, SduLen[A[i]])]
    <3>1. v = [i \in 1..(k + n) |-> v[i]]
      BY <1>1, <2>2
    <3> QED
      BY <2>3, <3>1
  <2>5. c = [expected |-> sn, waiting |-> (o2 # 0), keep |-> Junk, left |-> <<>>,
             out |-> WholeSdus(A, k + n)]
    BY <1>2, <2>1, <2>4 DEF WholeSdus
  <2>6. Rebuilt(A, c, sn, k + n, o2)
    <3>1. k + n \in Nat /\ o2 \in Nat /\ k + n <= Len(A) /\ (o2 # 0 => k + n < Len(A))
      BY <1>1, <1>2
    <3>2. o2 # 0 => Junk = Piece(A[k + n + 1], 0, o2)
      BY <1>2
    <3> QED
      BY <2>5, <3>1, <3>2, Zenon DEF Rebuilt
  <2>7. k + Len(u) - (IF o2 = 0 THEN 0 ELSE 1) = k + n
    BY <1>1, <1>2
  <2> QED
    BY <2>6, <2>7 DEF c
<1>3. CASE o2 # 0
  <2> DEFINE f == SubSeq(u, 1, n - 1)
             v == w \o f
  <2>1. c = [expected |-> sn, waiting |-> TRUE, keep |-> u[n], left |-> <<>>, out |-> v]
    <3>1. ~last
      BY <1>3
    <3>2. n # 0
      BY <1>1
    <3>3. c = [r EXCEPT !.waiting = TRUE, !.keep = u[n], !.left = <<>>, !.out = r.out \o f]
      BY <3>1, <3>2 DEF Complete
    <3> HIDE DEF c, f
    <3> QED
      BY <1>4, <3>3
  <2>2. f \in Seq(Pieces) /\ Len(f) = n - 1 /\ \A i \in 1..(n - 1) : f[i] = u[i]
    <3>1. \A i \in 1..(n - 1) : u[i] \in Pieces
      BY <1>1
    <3>2. /\ f \in Seq(Pieces) /\ Len(f) = (IF 1 <= n - 1 THEN n - 1 - 1 + 1 ELSE 0)
          /\ \A i \in 1..(n - 1 - 1 + 1) : f[i] = u[1 + i - 1]
      <4>1. 1 \in Int /\ n - 1 \in Int
        BY <1>1
      <4> QED
        BY <3>1, <4>1, SubSeqProperties
    <3> HIDE DEF f
    <3>3. Len(f) = n - 1 /\ n - 1 - 1 + 1 = n - 1 /\ \A i \in 1..(n - 1) : 1 + i - 1 = i
      <4>1. n \in Nat /\ n > 0 /\ Len(f) = (IF 1 <= n - 1 THEN n - 1 - 1 + 1 ELSE 0)
        BY <1>1, <3>2
      <4> HIDE DEF n
      <4> QED
        BY <4>1
    <3>4. ASSUME NEW i \in 1..(n - 1) PROVE f[i] = u[i]
      BY <3>2, <3>3
    <3> QED
      BY <3>2, <3>3, <3>4
  <2> HIDE DEF f
  <2>3. /\ v \in Seq(Pieces) /\ Len(v) = k + (n - 1)
        /\ \A i \in 1..(k + (n - 1)) : v[i] = IF i <= k THEN w[i] ELSE f[i - k]
    <3>1. /\ v \in Seq(Pieces) /\ Len(v) = Len(w) + Len(f)
          /\ \A i \in 1..(Len(w) + Len(f)) : v[i] = IF i <= Len(w) THEN w[i] ELSE f[i - Len(w)]
      <4>1. w \in Seq(Pieces) /\ f \in Seq(Pieces)
        BY <1>1, <2>2
      <4> QED
        BY <4>1, ConcatProperties
    <3> QED
      BY <1>1, <2>2, <3>1
  <2> HIDE DEF v, c
  <2>4. ASSUME NEW i \in 1..(k + (n - 1)) PROVE v[i] = Piece(A[i], 0, SduLen[A[i]])
    <3>1. CASE i <= k
      BY <1>1, <2>3, <3>1
    <3>2. CASE ~(i <= k)
      <4>1. i - k \in 1..(n - 1) /\ i - k \in 1..n /\ i - k # n /\ k + (i - k) = i
        BY <1>1, <3>2
      <4>2. u[i - k] = Piece(A[k + (i - k)], 0, SduLen[A[k + (i - k)]])
        BY <4>1
      <4> QED
        BY <2>2, <2>3, <3>2, <4>1, <4>2
    <3> QED
      BY <3>1, <3>2
  <2>5. v = [i \in 1..(k + (n - 1)) |-> Piece(A[i], 0, SduLen[A[i]])]
    <3>1. v = [i \in 1..(k + (n - 1)) |-> v[i]]
      BY <1>1, <2>3
    <3> QED
      BY <2>4, <3>1
  <2>6. c = [expected |-> sn, waiting |-> (o2 # 0), keep |-> u[n], left |-> <<>>,
             out |-> WholeSdus(A, k + (n - 1))]
    BY <1>3, <2>1, <2>5 DEF WholeSdus
  <2>7. u[n] = Piece(A[k + (n - 1) + 1], 0, o2)
    <3>1. n \in 1..Len(u) /\ k + (n - 1) + 1 = k + n
      BY <1>1
    <3>2. u[n] = Piece(A[k + n], 0, IF n = Len(u) /\ o2 # 0 THEN o2 ELSE SduLen[A[k + n]])
      BY <3>1
    <3> QED
      BY <1>3, <3>1, <3>2
  <2>8. k + (n - 1) \in Nat /\ k + (n - 1) <= Len(A) /\ k + (n - 1) < Len(A)
    BY <1>1
  <2>9. Rebuilt(A, c, sn, k + (n - 1), o2)
    BY <2>6, <2>7, <2>8 DEF Rebuilt
  <2>10. k + Len(u) - (IF o2 = 0 THEN 0 ELSE 1) = k + (n - 1)
    BY <1>1, <1>3
  <2> QED
    BY <2>9, <2>10 DEF c
<1> QED
  BY <1>2, <1>3

\* A PDU that carries on where the last one ended is reassembled, up to its end.
LEMMA Reassembles ==
  ASSUME NEW A \in Seq(Sdus), NEW k, NEW o, NEW k2, NEW o2,
         NEW pdu, Carries(A, pdu, k, o, k2, o2), NEW r, Rebuilt(A, r, pdu.sn, k, o)
  PROVE  /\ Rebuilt(A, ReassembleAndDeliver(r, pdu), (pdu.sn + 1) % Modulus, k2, o2)
         /\ k <= k2
<1> DEFINE d    == pdu.data
           n    == Len(d)
           sn2  == (pdu.sn + 1) % Modulus
           next == [r EXCEPT !.expected = sn2]
           e(i) == IF i = n /\ o2 # 0 THEN o2 ELSE SduLen[A[k + i]]
<1>1. /\ d \in Seq(Pieces) /\ n > 0 /\ n \in Nat /\ k + n <= Len(A)
      /\ k \in Nat /\ o \in Nat /\ k2 \in Nat /\ o2 \in Nat
      /\ k2 = k + n - (IF o2 = 0 THEN 0 ELSE 1)
  BY DEF Carries
<1>2. ASSUME NEW i \in 1..n
      PROVE  d[i].sdu = A[k + i] /\ d[i].from = (IF i = 1 THEN o ELSE 0) /\ d[i].from + d[i].len = e(i)
  BY DEF Carries
<1>3. pdu.first = (o = 0) /\ pdu.last = (o2 = 0)
  BY DEF Carries
<1> DEFINE w == WholeSdus(A, k)
<1>4. PICK keep : /\ r = [expected |-> pdu.sn, waiting |-> (o # 0), keep |-> keep,
                          left |-> <<>>, out |-> w]
                  /\ o # 0 => keep = Piece(A[k + 1], 0, o)
  BY Zenon DEF Rebuilt
<1> HIDE DEF w
<1>5. /\ next = [expected |-> sn2, waiting |-> (o # 0), keep |-> keep, left |-> <<>>, out |-> w]
      /\ r.expected = pdu.sn /\ r.waiting = (o # 0) /\ r.left = <<>> /\ r.keep = keep
  BY <1>4
<1>6. \A i \in 1..n : /\ d[i] \in Pieces /\ d[i] = Piece(d[i].sdu, d[i].from, d[i].len)
                     /\ d[i].len \in Nat \ {0} /\ d[i].from \in Nat
  <2> SUFFICES ASSUME NEW i \in 1..n
               PROVE  /\ d[i] \in Pieces /\ d[i] = Piece(d[i].sdu, d[i].from, d[i].len)
                      /\ d[i].len \in Nat \ {0} /\ d[i].from \in Nat
    OBVIOUS
  <2>1. d[i] \in Pieces
    BY <1>1
  <2> QED
    BY <2>1 DEF Pieces, Piece
<1>7. r.left \o d = d
  BY <1>1, <1>5, ConcatEmptySeq
<1> HIDE DEF sn2, next, e, d
<1>8. PICK u : /\ ReassembleAndDeliver(r, pdu) = Complete(next, u, pdu.last)
               /\ u \in Seq(Pieces) /\ Len(u) = n /\ \A i \in 1..n : u[i] = Piece(A[k + i], 0, e(i))
  <2>1. CASE o = 0
    <3>1. /\ pdu.sn = r.expected /\ ~r.waiting /\ pdu.first
      BY <1>3, <1>5, <2>1
    <3>2. ReassembleAndDeliver(r, pdu) = Complete(next, r.left \o d, pdu.last)
      BY <3>1 DEF ReassembleAndDeliver, next, sn2, d
    <3>3. ASSUME NEW i \in 1..n PROVE d[i] = Piece(A[k + i], 0, e(i))
      <4>1. /\ d[i].sdu = A[k + i] /\ d[i].from = 0 /\ d[i].from + d[i].len = e(i)
            /\ d[i] = Piece(d[i].sdu, d[i].from, d[i].len) /\ d[i].len \in Nat \ {0}
        BY <1>2, <1>6, <2>1
      <4>2. d[i].len = e(i)
        BY <4>1
      <4> QED
        BY <4>1, <4>2
    <3> QED
      BY <1>1, <1>7, <3>2, <3>3
  <2>2. CASE o # 0
    <3> DEFINE t == Tail(d)
               j == Join(r.keep, Head(d))
               u == <<j>> \o t
    <3>1. /\ pdu.sn = r.expected /\ r.waiting /\ ~pdu.first
      BY <1>3, <1>5, <2>2
    <3>2. ReassembleAndDeliver(r, pdu) = Complete(next, u, pdu.last)
      <4>1. ReassembleAndDeliver(r, pdu)
              = Complete(next, <<Join(r.keep, Head(r.left \o d))>> \o Tail(r.left \o d), pdu.last)
        BY <3>1 DEF ReassembleAndDeliver, next, sn2, d
      <4> QED
        BY <1>7, <4>1
    <3>3. d # <<>> /\ Head(d) = d[1] /\ 1 \in 1..n
      BY <1>1
    <3>4. /\ t \in Seq(Pieces) /\ Len(t) = n - 1 /\ \A i \in 1..Len(t) : t[i] = d[i + 1]
      BY <1>1, <3>3, HeadTailProperties
    <3> HIDE DEF t
    <3>5. j = Piece(A[k + 1], 0, e(1)) /\ j \in Pieces
      <4>1. /\ d[1].sdu = A[k + 1] /\ d[1].from = o /\ d[1].from + d[1].len = e(1)
            /\ d[1].len \in Nat \ {0} /\ d[1].from \in Nat
        BY <1>2, <1>6, <3>3
      <4>2. r.keep = Piece(A[k + 1], 0, o)
        BY <1>4, <1>5, <2>2
      <4>3. j = Piece(A[k + 1], 0, o + d[1].len)
        <5>1. /\ r.keep.sdu = A[k + 1] /\ r.keep.from = 0 /\ r.keep.len = o
          BY <4>2 DEF Piece
        <5>2. 0 + o = o
          BY <1>1
        <5> QED
          BY <3>3, <4>1, <5>1, <5>2 DEF Join
      <4>4. A[k + 1] \in Nat
        <5>1. k + 1 \in 1..Len(A)
          BY <1>1
        <5> QED
          BY <5>1, AcceptedIs
      <4>5. e(1) \in Nat \ {0}
        BY <1>1, <4>1
      <4> HIDE DEF j
      <4> QED
        BY <4>1, <4>3, <4>4, <4>5 DEF Piece, Pieces
    <3> HIDE DEF j
    <3>6. <<j>> \in Seq(Pieces) /\ Len(<<j>>) = 1 /\ <<j>>[1] = j
      BY <3>5
    <3>7. /\ u \in Seq(Pieces) /\ Len(u) = Len(<<j>>) + Len(t)
          /\ \A i \in 1..(Len(<<j>>) + Len(t)) :
               u[i] = IF i <= Len(<<j>>) THEN <<j>>[i] ELSE t[i - Len(<<j>>)]
      BY <3>4, <3>6, ConcatProperties
    <3> HIDE DEF u
    <3>8. Len(u) = n
      BY <1>1, <3>4, <3>6, <3>7
    <3>9. ASSUME NEW i \in 1..n PROVE u[i] = Piece(A[k + i], 0, e(i))
      <4>1. u[i] = IF i <= 1 THEN j ELSE t[i - 1]
        BY <3>4, <3>6, <3>7, <3>8
      <4>2. CASE i = 1
        BY <3>5, <4>1, <4>2
      <4>3. CASE i # 1
        <5>1. i - 1 \in 1..Len(t) /\ i - 1 + 1 = i /\ ~(i <= 1)
          BY <1>1, <3>4, <4>3
        <5>2. u[i] = d[i]
          BY <3>4, <4>1, <5>1
        <5>3. /\ d[i].sdu = A[k + i] /\ d[i].from = 0 /\ d[i].from + d[i].len = e(i)
              /\ d[i] = Piece(d[i].sdu, d[i].from, d[i].len) /\ d[i].len \in Nat \ {0}
          BY <1>2, <1>6, <4>3
        <5>4. d[i].len = e(i)
          BY <5>3
        <5> QED
          BY <5>2, <5>3, <5>4
      <4> QED
        BY <4>2, <4>3
    <3> QED
      BY <3>2, <3>7, <3>8, <3>9
  <2> QED
    BY <1>1, <2>1, <2>2
<1>9. Rebuilt(A, Complete(next, u, pdu.last), sn2, k + n - (IF o2 = 0 THEN 0 ELSE 1), o2)
  <2>1. next = [expected |-> sn2, waiting |-> next.waiting, keep |-> next.keep,
                left |-> next.left, out |-> WholeSdus(A, k)]
    BY <1>4, <1>5 DEF w
  <2>2. \A i \in 1..Len(u) :
          u[i] = Piece(A[k + i], 0, IF i = Len(u) /\ o2 # 0 THEN o2 ELSE SduLen[A[k + i]])
    BY <1>8 DEF e
  <2>3. Rebuilt(A, Complete(next, u, pdu.last), sn2, k + Len(u) - (IF o2 = 0 THEN 0 ELSE 1), o2)
    BY <1>1, <1>3, <1>8, <2>1, <2>2, Completes
  <2> QED
    BY <1>8, <2>3
<1> QED
  BY <1>1, <1>8, <1>9 DEF sn2

\* The reassembly after 0, 1, 2 ... PDUs out of the reception buffer.
LEMMA ReassembledSteps ==
  ASSUME NEW q, NEW buffer, NEW r, NEW n \in Nat, DOMAIN q = 1..n
  PROVE  \E h : /\ h[0] = r
                /\ h[n] = Reassembled(r, buffer, q)
                /\ \A k \in 1..n : h[k] = ReassembleAndDeliver(h[k - 1], buffer[q[k]].pdu)
<1> DEFINE Taken(acc, x) == ReassembleAndDeliver(acc, buffer[x].pdu)
           Iter(f, m) == f = [s \in SUBSET (1..m) |->
                                IF s = {} THEN r ELSE Taken(f[s \ {Max(s)}], q[Max(s)])]
           S == {m \in Nat : \E f : Iter(f, m)}
<1>1. 0 \in S
  <2> DEFINE f == [s \in SUBSET (1..0) |-> r]
  <2>1. Iter(f, 0)
    <3>1. \A s \in SUBSET (1..0) : s = {}
      OBVIOUS
    <3> QED
      BY <3>1
  <2> QED
    BY <2>1
<1>2. ASSUME NEW m \in Nat, m \in S PROVE m + 1 \in S
  <2>1. PICK f : Iter(f, m)
    BY <1>2
  <2> DEFINE g == [s \in SUBSET (1..(m + 1)) |->
                     IF m + 1 \notin s THEN f[s] ELSE Taken(f[s \ {m + 1}], q[m + 1])]
  <2>2. ASSUME NEW s \in SUBSET (1..(m + 1))
        PROVE  g[s] = IF s = {} THEN r ELSE Taken(g[s \ {Max(s)}], q[Max(s)])
    <3>1. CASE s = {}
      <4>1. g[s] = f[s] /\ s \in SUBSET (1..m)
        BY <3>1
      <4> HIDE DEF g
      <4> QED
        BY <2>1, <3>1, <4>1
    <3>2. CASE s # {}
      <4>1. /\ Max(s) \in s /\ s \ {Max(s)} \in SUBSET (1..m)
            /\ m + 1 \in s => Max(s) = m + 1
        BY <3>2, OnePositionMore
      <4>2. g[s \ {Max(s)}] = f[s \ {Max(s)}]
        BY <4>1
      <4>3. CASE m + 1 \in s
        <5>1. g[s] = Taken(f[s \ {m + 1}], q[m + 1])
          BY <4>3
        <5> HIDE DEF g
        <5> QED
          BY <3>2, <4>1, <4>2, <4>3, <5>1
      <4>4. CASE m + 1 \notin s
        <5>1. g[s] = f[s] /\ s \in SUBSET (1..m)
          BY <4>4
        <5> HIDE DEF g
        <5>2. f[s] = Taken(f[s \ {Max(s)}], q[Max(s)])
          BY <2>1, <3>2, <5>1
        <5> QED
          BY <3>2, <4>2, <5>1, <5>2
      <4> QED
        BY <4>3, <4>4
    <3> QED
      BY <3>1, <3>2
  <2>3. Iter(g, m + 1)
    <3>1. g = [s \in SUBSET (1..(m + 1)) |-> g[s]]
      OBVIOUS
    <3> HIDE DEF g
    <3> QED
      BY <2>2, <3>1
  <2> HIDE DEF g, Iter
  <2> QED
    BY <2>3
<1>3. \E f : Iter(f, n)
  <2>1. n \in S
    <3> HIDE DEF S
    <3> QED
      BY <1>1, <1>2, NatInd
  <2> QED
    BY <2>1
<1> DEFINE f == CHOOSE f : Iter(f, n)
           h == [k \in 0..n |-> f[1..k]]
<1>4. Iter(f, n)
  BY <1>3
<1>5. Reassembled(r, buffer, q) = f[1..n]
  BY DEF Reassembled, FoldLeft, MapThenFoldSet
<1> HIDE DEF f
<1>6. h[0] = r
  <2>1. 1..0 = {} /\ {} \in SUBSET (1..n)
    OBVIOUS
  <2>2. f[{}] = r
    BY <1>4, <2>1
  <2> QED
    BY <2>1, <2>2
<1>7. ASSUME NEW k \in 1..n PROVE h[k] = Taken(h[k - 1], q[k])
  <2>1. Max(1..k) = k /\ 1..k # {} /\ (1..k) \ {Max(1..k)} = 1..(k - 1)
    <3>1. k \in Nat \ {0}
      OBVIOUS
    <3> QED
      BY <3>1, LastPosition
  <2>2. f[1..k] = Taken(f[(1..k) \ {Max(1..k)}], q[Max(1..k)])
    <3>1. 1..k \in SUBSET (1..n)
      OBVIOUS
    <3> QED
      BY <1>4, <2>1, <3>1
  <2>3. h[k] = f[1..k] /\ h[k - 1] = f[1..(k - 1)]
    OBVIOUS
  <2> HIDE DEF h
  <2> QED
    BY <2>1, <2>2, <2>3
<1>8. h[n] = f[1..n]
  OBVIOUS
<1> HIDE DEF h
<1> QED
  BY <1>5, <1>6, <1>7, <1>8

\* The number after another.
Follow(x) == (x + 1) % Modulus

\* The PDUs from VR(R) on, taken out of the reception buffer one by one, carry the
\* receiving entity to where the last of them ends.
LEMMA ReassembledInTurn ==
  ASSUME NEW A \in Seq(Sdus), NEW R \in Sns, NEW n \in 0..(Modulus - 1),
         NEW buffer, NEW ix, NEW off, NEW r, Rebuilt(A, r, R, ix[R], off[R]),
         \A x \in Sns : Dist(R, x) < n =>
           /\ buffer[x].pdu.sn = x
           /\ Carries(A, buffer[x].pdu, ix[x], off[x], ix[Follow(x)], off[Follow(x)])
  PROVE  LET order == [i \in 1..n |-> (R + i - 1) % Modulus]
             z     == (R + n) % Modulus
         IN  /\ Rebuilt(A, Reassembled(r, buffer, order), z, ix[z], off[z])
             /\ ix[R] <= ix[z]
<1> DEFINE order == [i \in 1..n |-> (R + i - 1) % Modulus]
           At(k) == (R + k) % Modulus
<1>1. n \in Nat /\ Modulus \in Nat /\ n < Modulus /\ R \in Nat /\ R < Modulus
  BY Ring
<1>2. PICK h : /\ h[0] = r /\ h[n] = Reassembled(r, buffer, order)
               /\ \A k \in 1..n : h[k] = ReassembleAndDeliver(h[k - 1], buffer[order[k]].pdu)
  <2>1. DOMAIN order = 1..n
    OBVIOUS
  <2>2. n \in Nat
    BY <1>1
  <2> HIDE DEF order
  <2>3. \E h : /\ h[0] = r /\ h[n] = Reassembled(r, buffer, order)
              /\ \A k \in 1..n : h[k] = ReassembleAndDeliver(h[k - 1], buffer[order[k]].pdu)
    BY <2>1, <2>2, ReassembledSteps
  <2> QED
    BY <2>3
<1>3. \A k \in 0..n : At(k) \in Sns /\ Dist(R, At(k)) = k
  BY <1>1, PlusDist
<1>4. At(0) = R
  BY <1>1, PlusIs
<1>5. ix[R] \in Nat
  BY DEF Rebuilt
<1> DEFINE Up(k) == Rebuilt(A, h[k], At(k), ix[At(k)], off[At(k)]) /\ ix[R] <= ix[At(k)]
           S     == {k \in Nat : k <= n => Up(k)}
<1> HIDE DEF At
<1>6. 0 \in S
  BY <1>2, <1>4, <1>5
<1>7. ASSUME NEW k \in Nat, k \in S PROVE k + 1 \in S
  <2> SUFFICES ASSUME k + 1 <= n PROVE Up(k + 1)
    <3> HIDE DEF Up
    <3> QED
      OBVIOUS
  <2>1. Up(k) /\ k \in 0..n /\ k + 1 \in 1..n /\ k + 1 - 1 = k /\ k < n
    <3>1. k \in 0..n /\ k + 1 \in 1..n /\ k + 1 - 1 = k /\ k < n
      BY <1>1
    <3> HIDE DEF Up
    <3> QED
      BY <1>1, <1>7, <3>1
  <2>2. order[k + 1] = At(k)
    <3>1. R + (k + 1) - 1 = R + k
      BY <1>1
    <3> QED
      BY <2>1, <3>1 DEF At
  <2>3. Follow(At(k)) = At(k + 1)
    <3>1. /\ At(k) = IF R + k < Modulus THEN R + k ELSE R + k - Modulus
          /\ At(k + 1) = IF R + (k + 1) < Modulus THEN R + (k + 1) ELSE R + (k + 1) - Modulus
      <4>1. k \in 0..Modulus /\ k + 1 \in 0..Modulus
        BY <1>1
      <4> QED
        BY <4>1, PlusIs DEF At
    <3>2. Follow(At(k)) = IF At(k) + 1 < Modulus THEN At(k) + 1 ELSE At(k) + 1 - Modulus
      <4>1. At(k) \in Sns /\ 1 \in 0..Modulus
        BY <1>1, <1>3, <2>1
      <4> QED
        BY <4>1, PlusIs DEF Follow
    <3>3. At(k) < Modulus /\ At(k) \in Nat
      BY <1>3, <2>1, Ring
    <3> QED
      BY <1>1, <2>1, <3>1, <3>2, <3>3
  <2>4. /\ At(k) \in Sns /\ Dist(R, At(k)) < n
    BY <1>3, <2>1
  <2>5. /\ buffer[At(k)].pdu.sn = At(k)
        /\ Carries(A, buffer[At(k)].pdu, ix[At(k)], off[At(k)], ix[At(k + 1)], off[At(k + 1)])
    BY <2>3, <2>4
  <2>6. h[k + 1] = ReassembleAndDeliver(h[k], buffer[At(k)].pdu)
    BY <1>2, <2>1, <2>2
  <2>7. Rebuilt(A, h[k], buffer[At(k)].pdu.sn, ix[At(k)], off[At(k)])
    BY <2>1, <2>5
  <2>8. /\ Rebuilt(A, h[k + 1], (buffer[At(k)].pdu.sn + 1) % Modulus, ix[At(k + 1)], off[At(k + 1)])
        /\ ix[At(k)] <= ix[At(k + 1)]
    BY <2>5, <2>6, <2>7, Reassembles
  <2>9. ix[At(k)] \in Nat /\ ix[At(k + 1)] \in Nat
    BY <2>1, <2>8 DEF Rebuilt
  <2>10. (buffer[At(k)].pdu.sn + 1) % Modulus = At(k + 1)
    BY <2>3, <2>5 DEF Follow
  <2> QED
    BY <1>5, <2>1, <2>8, <2>9, <2>10
<1>8. Up(n)
  <2>1. n \in S
    <3> HIDE DEF S
    <3> QED
      BY <1>1, <1>6, <1>7, NatInd
  <2> QED
    BY <1>1, <2>1
<1> QED
  BY <1>2, <1>8 DEF At

-----------------------------------------------------------------------------
(* What a data PDU does to the reception buffer and to the reassembly.       *)

\* Every entry of the reception buffer is an old one, one with the next segment
\* appended, or the first part of a PDU.
LEMMA StoredData ==
  ASSUME NEW s, RxRecord(s), NEW p
  PROVE  LET n  == Stored(s, p)
             sn == p.pdu.sn
         IN  /\ RxRecord(n) /\ n.vrR = s.vrR /\ n.reassembly = s.reassembly
             /\ \A x \in DOMAIN n.buffer :
                  \/ x \in DOMAIN s.buffer /\ n.buffer[x] = s.buffer[x]
                  \/ /\ x = sn /\ x \in DOMAIN s.buffer /\ p.from = s.buffer[x].upto
                     /\ n.buffer[x] = Extended(s.buffer[x], p)
                  \/ x = sn /\ p.from = 0 /\ n.buffer[x] = FirstEntry(p)
<1> DEFINE sn == p.pdu.sn
           b  == s.buffer
           n  == Stored(s, p)
<1>1. PICK d : n = [s EXCEPT !.buffer = d] /\
         \/ d = b
         \/ sn \in DOMAIN b /\ p.from = b[sn].upto /\ d = [b EXCEPT ![sn] = Extended(b[sn], p)]
         \/ d = Without(b, {sn})
         \/ p.from = 0 /\ d = With(b, sn, FirstEntry(p))
  <2>1. CASE sn \in DOMAIN b /\ p.segment /\ p.from = b[sn].upto
    <3>1. n = [s EXCEPT !.buffer[sn] = Extended(b[sn], p)]
      BY <2>1 DEF Stored
    <3>2. [s EXCEPT !.buffer[sn] = Extended(b[sn], p)]
            = [s EXCEPT !.buffer = [b EXCEPT ![sn] = Extended(b[sn], p)]]
      OBVIOUS
    <3> QED
      BY <2>1, <3>1, <3>2
  <2>2. CASE sn \in DOMAIN b /\ p.segment /\ p.from # b[sn].upto /\ ~b[sn].complete
    BY <2>2 DEF Stored
  <2>3. CASE sn \notin DOMAIN b /\ p.from = 0
    BY <2>3 DEF Stored
  <2>4. CASE \/ sn \in DOMAIN b /\ ~p.segment
             \/ sn \in DOMAIN b /\ p.from # b[sn].upto /\ b[sn].complete
             \/ sn \notin DOMAIN b /\ p.from # 0
    <3>1. n = s
      BY <2>4 DEF Stored
    <3>2. s = [s EXCEPT !.buffer = b]
      BY DEF RxRecord
    <3> QED
      BY <3>1, <3>2
  <2> QED
    BY <2>1, <2>2, <2>3, <2>4
<1>2. /\ RxRecord(n) /\ n.buffer = d /\ n.vrR = s.vrR /\ n.reassembly = s.reassembly
  BY <1>1 DEF RxRecord
<1>3. ASSUME NEW x \in DOMAIN d
      PROVE  \/ x \in DOMAIN b /\ d[x] = b[x]
             \/ /\ x = sn /\ x \in DOMAIN b /\ p.from = b[x].upto
                /\ d[x] = Extended(b[x], p)
             \/ x = sn /\ p.from = 0 /\ d[x] = FirstEntry(p)
  <2>1. CASE d = b
    BY <2>1
  <2>2. CASE sn \in DOMAIN b /\ p.from = b[sn].upto /\ d = [b EXCEPT ![sn] = Extended(b[sn], p)]
    BY <2>2
  <2>3. CASE d = Without(b, {sn})
    BY <2>3 DEF Without, Restrict
  <2>4. CASE p.from = 0 /\ d = With(b, sn, FirstEntry(p))
    BY <2>4 DEF With
  <2> QED
    BY <1>1, <2>1, <2>2, <2>3, <2>4
<1> HIDE DEF n
<1> QED
  BY <1>2, <1>3 DEF n

\* A data PDU in the window: what is then complete from VR(R) on is reassembled in
\* turn, and the rest stays in the reception buffer.
LEMMA ReceivedData ==
  ASSUME NEW r, RxOK(r), NEW p, p.pdu.sn \in Sns, InWindow(r, p.pdu.sn)
  PROVE  LET n == PduTaken(r, p)
             a == Stored([r EXCEPT !.statusRequested = @ \/ p.poll], p)
         IN  /\ n.vrR \in Sns /\ Dist(r.vrR, n.vrR) <= Window
             /\ \A x \in Sns : Dist(r.vrR, x) < Dist(r.vrR, n.vrR) => x \in DOMAIN a.buffer
             /\ \A x \in DOMAIN n.buffer : x \in DOMAIN a.buffer /\ n.buffer[x] = a.buffer[x]
             /\ n.reassembly = Reassembled(r.reassembly, a.buffer,
                                 [i \in 1..Dist(r.vrR, n.vrR) |-> (r.vrR + i - 1) % Modulus])
<1> DEFINE sn == p.pdu.sn
           q  == [r EXCEPT !.statusRequested = @ \/ p.poll]
           a  == Stored(q, p)
           b  == Counted(a, sn)
           c  == Delivered(b, sn)
           n  == Timed(c)
           R  == r.vrR
           Turn(m) == [i \in 1..m |-> (R + i - 1) % Modulus]
<1>1. /\ RxOK(n) /\ RxWindow(n) /\ Dist(R, n.vrR) <= Window /\ R \in Sns /\ n.vrR \in Sns
      /\ ~CompleteAt(n, n.vrR)
  <2> DEFINE m == PduTaken(r, p)
  <2>1. m = n
    BY DEF PduTaken
  <2>2. /\ RxOK(m) /\ Dist(r.vrR, m.vrR) <= Dist(r.vrR, m.vrMs)
        /\ Dist(r.vrR, m.vrMs) <= Dist(r.vrR, m.vrH) /\ Dist(r.vrR, m.vrH) <= Window
    BY Received
  <2> HIDE DEF m, n
  <2>3. R \in Sns /\ m.vrR \in Sns /\ m.vrMs \in Sns /\ m.vrH \in Sns /\ RxWindow(m)
        /\ ~CompleteAt(m, m.vrR)
    BY <2>2 DEF RxOK, RxWindow
  <2>4. /\ Dist(R, m.vrR) \in Nat /\ Dist(R, m.vrMs) \in Nat /\ Dist(R, m.vrH) \in Nat
        /\ Window \in Nat
    BY <2>3, DistRange, Ring
  <2> QED
    BY <2>1, <2>2, <2>3, <2>4
<1>2. RxRecord(r)
  BY DEF RxOK, RxWindow
<1>3. RxRecord(q) /\ q.vrR = R /\ q.reassembly = r.reassembly
  BY <1>2 DEF RxRecord
<1> HIDE DEF q
<1>4. RxRecord(a) /\ a.vrR = R /\ a.reassembly = r.reassembly
  BY <1>3, StoredData
<1> HIDE DEF a
<1>5. RxRecord(b) /\ b.vrR = R /\ b.reassembly = r.reassembly /\ b.buffer = a.buffer
  <2> DEFINE h == IF Dist(a.vrR, sn) >= Dist(a.vrR, a.vrH) THEN (sn + 1) % Modulus ELSE a.vrH
             g == [a EXCEPT !.vrH = h]
             m == FirstIncomplete(g, g.vrMs)
  <2>1. b = [g EXCEPT !.vrMs = m]
    BY DEF Counted
  <2> HIDE DEF h, m
  <2>2. RxRecord(g) /\ g.vrR = R /\ g.reassembly = r.reassembly /\ g.buffer = a.buffer
    BY <1>4 DEF RxRecord
  <2> HIDE DEF g, b
  <2> QED
    BY <2>1, <2>2 DEF RxRecord
<1> HIDE DEF b
<1>6. RxRecord(c) =>
        RxRecord(n) /\ n.vrR = c.vrR /\ n.buffer = c.buffer /\ n.reassembly = c.reassembly
  <2> HIDE DEF c
  <2> DEFINE stays == c.timer /\ c.vrX # c.vrR
                      /\ (InWindow(c, c.vrX) \/ Dist(c.vrR, c.vrX) = Window)
             gap   == c.vrH # c.vrR
             t     == stays \/ gap
             x     == IF ~stays /\ gap THEN c.vrH ELSE c.vrX
  <2>1. n = [c EXCEPT !.timer = t, !.vrX = x]
    BY DEF Timed
  <2> HIDE DEF stays, gap, t, x, n
  <2> QED
    BY <2>1 DEF RxRecord
<1>7. Dist(R, R) = 0 /\ \A x \in Sns : Dist(R, x) \in Nat
  BY <1>1, DistRange
<1>8. CASE sn # R
  <2>1. c = b
    BY <1>5, <1>8 DEF Delivered
  <2>2. /\ n.vrR = R /\ n.buffer = a.buffer /\ n.reassembly = r.reassembly
    BY <1>5, <1>6, <2>1
  <2>3. Reassembled(r.reassembly, a.buffer, Turn(0)) = r.reassembly
    <3>1. DOMAIN Turn(0) = 1..0 /\ 0 \in Nat
      OBVIOUS
    <3> HIDE DEF Turn
    <3>2. \E h : h[0] = r.reassembly /\ h[0] = Reassembled(r.reassembly, a.buffer, Turn(0))
      BY <3>1, ReassembledSteps
    <3> QED
      BY <3>2
  <2>4. \A x \in Sns : ~(Dist(R, x) < Dist(R, n.vrR))
    BY <1>7, <2>2
  <2>5. Turn(Dist(R, n.vrR)) = Turn(0)
    BY <1>7, <2>2
  <2> HIDE DEF n, Turn
  <2> QED
    BY <1>1, <2>2, <2>3, <2>4, <2>5 DEF n, c, b, a, q, PduTaken, Turn
<1>9. CASE sn = R
  <2> DEFINE high == FirstIncomplete(b, b.vrR)
             sns  == {k \in DOMAIN b.buffer : Dist(b.vrR, k) < Dist(b.vrR, high)}
             d    == Without(b.buffer, sns)
             y    == Reassembled(b.reassembly, b.buffer,
                                 [i \in 1..Dist(b.vrR, high) |-> (b.vrR + i - 1) % Modulus])
  <2>1. c = [b EXCEPT !.vrR = high, !.buffer = d, !.reassembly = y]
    BY <1>5, <1>9 DEF Delivered
  <2>2. DOMAIN d = DOMAIN b.buffer \ sns /\ \A k \in DOMAIN d : d[k] = b.buffer[k]
    BY DEF Without, Restrict
  <2> HIDE DEF d, y, high
  <2>3. RxRecord(c) /\ c.vrR = high /\ c.buffer = d /\ c.reassembly = y
    BY <1>5, <2>1 DEF RxRecord
  <2> HIDE DEF c
  <2>4. n.vrR = high /\ n.buffer = d /\ n.reassembly = y
    BY <1>6, <2>3
  <2> HIDE DEF n
  <2>5. ~CompleteAt(b, high)
    <3>1. ~CompleteAt(n, high)
      BY <1>1, <2>4
    <3>2. high \notin sns
      BY <1>1, <1>5, <1>7, <2>4
    <3> QED
      BY <2>2, <2>4, <3>1, <3>2 DEF CompleteAt
  <2>6. \A x \in Sns : Dist(R, x) < Dist(R, high) => CompleteAt(b, x)
    <3>1. high \in Sns /\ Dist(R, high) <= Window /\ high = FirstIncomplete(b, R)
      BY <1>1, <1>5, <2>4 DEF high
    <3> QED
      BY <1>1, <2>5, <3>1, FirstIncompleteIs
  <2>7. y = Reassembled(r.reassembly, a.buffer, Turn(Dist(R, high)))
    BY <1>5 DEF y
  <2>8. /\ \A x \in Sns : Dist(R, x) < Dist(R, n.vrR) => x \in DOMAIN a.buffer
        /\ \A x \in DOMAIN n.buffer : x \in DOMAIN a.buffer /\ n.buffer[x] = a.buffer[x]
        /\ n.reassembly = Reassembled(r.reassembly, a.buffer, Turn(Dist(R, n.vrR)))
    BY <1>5, <2>2, <2>4, <2>6, <2>7 DEF CompleteAt
  <2> HIDE DEF Turn
  <2> QED
    BY <1>1, <2>8 DEF n, c, b, a, q, PduTaken, Turn
<1> QED
  BY <1>8, <1>9

-----------------------------------------------------------------------------
(* What the steps of the transmitting entity do to the data it keeps.        *)

\* Every PDU kept was kept before, and where what is left of it begins is as well.
KeptFrom(n, t) ==
  /\ n.buffer = t.buffer /\ n.vtS = t.vtS
  /\ \A x \in DOMAIN n.txed : \/ x \in DOMAIN t.txed /\ n.txed[x] = t.txed[x]
                              \/ x \in DOMAIN t.retx /\ n.txed[x] = t.retx[x]
  /\ \A x \in DOMAIN n.retx : \/ x \in DOMAIN t.txed /\ n.retx[x] = t.txed[x]
                              \/ x \in DOMAIN t.retx /\ n.retx[x] = t.retx[x]
  /\ \A x \in DOMAIN n.seg : x \in DOMAIN t.seg /\ n.seg[x] = t.seg[x]

\* The values in buffers put together, and in what is left of one.
LEMMA Values ==
  /\ \A b, c : \A x \in DOMAIN Merged(b, c) :
       \/ x \in DOMAIN b /\ Merged(b, c)[x] = b[x]
       \/ x \in DOMAIN c /\ Merged(b, c)[x] = c[x]
  /\ \A b, S : \A x \in DOMAIN Without(b, S) : x \in DOMAIN b /\ Without(b, S)[x] = b[x]
  /\ \A b, S : \A x \in DOMAIN Restrict(b, S \cap DOMAIN b) :
       x \in DOMAIN b /\ Restrict(b, S \cap DOMAIN b)[x] = b[x]
  /\ \A b, at, y : \A x \in DOMAIN With(b, at, y) :
       \/ x = at /\ With(b, at, y)[x] = y
       \/ x # at /\ x \in DOMAIN b /\ With(b, at, y)[x] = b[x]
<1>1. ASSUME NEW b, NEW c, NEW x \in DOMAIN Merged(b, c)
      PROVE  \/ x \in DOMAIN b /\ Merged(b, c)[x] = b[x]
             \/ x \in DOMAIN c /\ Merged(b, c)[x] = c[x]
  BY DEF Merged
<1>2. ASSUME NEW b, NEW S, NEW x \in DOMAIN Without(b, S)
      PROVE  x \in DOMAIN b /\ Without(b, S)[x] = b[x]
  BY DEF Without, Restrict
<1>3. ASSUME NEW b, NEW S, NEW x \in DOMAIN Restrict(b, S \cap DOMAIN b)
      PROVE  x \in DOMAIN b /\ Restrict(b, S \cap DOMAIN b)[x] = b[x]
  BY DEF Restrict
<1>4. ASSUME NEW b, NEW at, NEW y, NEW x \in DOMAIN With(b, at, y)
      PROVE  \/ x = at /\ With(b, at, y)[x] = y
             \/ x # at /\ x \in DOMAIN b /\ With(b, at, y)[x] = b[x]
  BY DEF With
<1> QED
  BY <1>1, <1>2, <1>3, <1>4

\* The poll timer moves PDUs from one buffer to the other.
LEMMA PollExpiredData ==
  ASSUME TxShape(tx), ExpirePollRetransmitTimer
  PROVE  KeptFrom(tx', tx)
<1> DEFINE both == Merged(tx.retx, tx.txed)
<1>1. \/ tx' = [tx EXCEPT !.pollTimer = FALSE, !.justExpired = TRUE, !.retx = both, !.txed = <<>>]
      \/ tx' = [tx EXCEPT !.pollTimer = FALSE, !.justExpired = TRUE, !.retx = tx.retx,
                          !.txed = tx.txed]
  BY DEF ExpirePollRetransmitTimer
<1>2. \A x \in DOMAIN both : \/ x \in DOMAIN tx.retx /\ both[x] = tx.retx[x]
                             \/ x \in DOMAIN tx.txed /\ both[x] = tx.txed[x]
  BY Values
<1> HIDE DEF both
<1>3. CASE tx' = [tx EXCEPT !.pollTimer = FALSE, !.justExpired = TRUE, !.retx = both,
                            !.txed = <<>>]
  <2>1. /\ tx'.buffer = tx.buffer /\ tx'.vtS = tx.vtS /\ tx'.seg = tx.seg
        /\ tx'.retx = both /\ tx'.txed = <<>>
    BY <1>3 DEF TxShape, TxRecord
  <2>2. DOMAIN tx'.txed = {}
    BY <2>1
  <2> QED
    BY <1>2, <2>1, <2>2 DEF KeptFrom
<1>4. CASE tx' = [tx EXCEPT !.pollTimer = FALSE, !.justExpired = TRUE, !.retx = tx.retx,
                            !.txed = tx.txed]
  <2>1. /\ tx'.buffer = tx.buffer /\ tx'.vtS = tx.vtS /\ tx'.seg = tx.seg
        /\ tx'.retx = tx.retx /\ tx'.txed = tx.txed
    BY <1>4 DEF TxShape, TxRecord
  <2> QED
    BY <2>1 DEF KeptFrom
<1> QED
  BY <1>1, <1>3, <1>4

\* A STATUS PDU moves and drops PDUs.
LEMMA StatusTakenData ==
  ASSUME NEW t, TxShape(t), NEW st
  PROVE  KeptFrom(StatusTaken(t, st), t)
<1> DEFINE n        == StatusTaken(t, st)
           examined == Examined(t, st)
           nacked   == examined \cap st.nacks
           open     == (Outstanding(t) \ examined) \union nacked \union {t.vtS}
           a        == CHOOSE sn \in open :
                       \A other \in open : Dist(t.vtA, sn) <= Dist(t.vtA, other)
           p        == t.pollTimer /\ t.pollSn \notin examined
           again    == Restrict(t.txed, nacked \cap DOMAIN t.txed)
           both     == Merged(again, t.retx)
           r        == Without(both, examined \ nacked)
           x        == Without(t.txed, examined)
           g        == Without(t.seg, examined \ nacked)
<1>1. n = [t EXCEPT !.vtA = a, !.pollTimer = p, !.retx = r, !.txed = x, !.seg = g]
  BY DEF StatusTaken
<1>2. \A y \in DOMAIN again : y \in DOMAIN t.txed /\ again[y] = t.txed[y]
  <2> HIDE DEF nacked
  <2> QED
    BY DEF Restrict
<1>3. \A y \in DOMAIN both : \/ y \in DOMAIN again /\ both[y] = again[y]
                             \/ y \in DOMAIN t.retx /\ both[y] = t.retx[y]
  <2> HIDE DEF again
  <2> QED
    BY Values
<1>4. \A y \in DOMAIN r : y \in DOMAIN both /\ r[y] = both[y]
  <2> HIDE DEF both, examined, nacked
  <2> QED
    BY Values
<1>5. /\ \A y \in DOMAIN x : y \in DOMAIN t.txed /\ x[y] = t.txed[y]
      /\ \A y \in DOMAIN g : y \in DOMAIN t.seg /\ g[y] = t.seg[y]
  <2> HIDE DEF examined, nacked
  <2> QED
    BY Values
<1> HIDE DEF examined, nacked, open, a, p, again, both, r, x, g, n
<1>6. n.buffer = t.buffer /\ n.vtS = t.vtS /\ n.retx = r /\ n.txed = x /\ n.seg = g
  BY <1>1 DEF TxShape, TxRecord
<1> QED
  BY <1>2, <1>3, <1>4, <1>5, <1>6 DEF KeptFrom, n

\* A retransmission: the PDU that waited longest, or its next segment.
Again(x, room) ==
  LET sn   == x.pdu.sn
      from == IF sn \in DOMAIN tx.seg THEN tx.seg[sn] ELSE 0
  IN  /\ sn \in DOMAIN tx.retx /\ x.pdu = tx.retx[sn] /\ x.from = from
      /\ tx'.buffer = tx.buffer /\ tx'.vtS = tx.vtS
      /\ \/ /\ x.to = Size(x.pdu) /\ x.segment = (sn \in DOMAIN tx.seg)
            /\ tx'.txed = With(tx.txed, sn, x.pdu) /\ tx'.retx = Without(tx.retx, {sn})
            /\ tx'.seg = Without(tx.seg, {sn})
         \/ /\ ~(Size(x.pdu) - from <= room)
            /\ x.to = from + room /\ x.segment = TRUE /\ x.lastSegment = FALSE
            /\ tx'.txed = tx.txed /\ tx'.retx = tx.retx
            /\ tx'.seg = With(tx.seg, sn, from + room)

\* RetransmitPdu sends the PDU that waited longest, or its next segment.
LEMMA RetransmitData ==
  ASSUME TxShape(tx), NEW room, Retransmit(room)
  PROVE  \E x : channel' = Sent(channel, x) /\ Again(x, room)
<1> DEFINE sn   == RetxSn
           pdu  == tx.retx[sn]
           from == IF sn \in DOMAIN tx.seg THEN tx.seg[sn] ELSE 0
           poll == RetxPolls(sn)
           t    == Polling(tx, poll)
           fits == Size(pdu) - from <= room \/ bigEnough
           x1   == AmPdu(pdu, poll, sn \in DOMAIN tx.seg, from, Size(pdu), TRUE)
           x2   == AmPdu(pdu, poll, TRUE, from, from + room, FALSE)
           a    == With(t.txed, sn, pdu)
           b    == Without(t.retx, {sn})
           g1   == Without(t.seg, {sn})
           g2   == With(t.seg, sn, from + room)
<1>1. sn \in DOMAIN tx.retx /\ pdu.sn = sn
  <2>1. tx.retx # <<>>
    BY DEF Retransmit
  <2>2. RetxSn \in DOMAIN tx.retx
    BY <2>1, RetxSnIs
  <2> QED
    BY <2>2 DEF TxShape, Shape
<1>2. /\ TxShape(t) /\ t.buffer = tx.buffer /\ t.vtS = tx.vtS
      /\ t.txed = tx.txed /\ t.retx = tx.retx /\ t.seg = tx.seg
  BY PollingParts
<1>3. \/ channel' = Sent(channel, x1) /\ tx' = [t EXCEPT !.txed = a, !.retx = b, !.seg = g1]
      \/ /\ ~(Size(pdu) - from <= room)
         /\ channel' = Sent(channel, x2) /\ tx' = [t EXCEPT !.seg = g2]
  <2>1. CASE fits
    BY <2>1 DEF Retransmit
  <2>2. CASE ~fits
    BY <2>2 DEF Retransmit
  <2> QED
    BY <2>1, <2>2
<1>4. /\ x1.pdu = pdu /\ x1.from = from /\ x1.to = Size(pdu)
      /\ x1.segment = (sn \in DOMAIN tx.seg)
      /\ x2.pdu = pdu /\ x2.from = from /\ x2.to = from + room /\ x2.segment = TRUE
      /\ x2.lastSegment = FALSE
  BY DEF AmPdu
<1>5. /\ a = With(tx.txed, sn, pdu) /\ b = Without(tx.retx, {sn})
      /\ g1 = Without(tx.seg, {sn}) /\ g2 = With(tx.seg, sn, from + room)
  BY <1>2
<1>6. sn \in DOMAIN tx.seg => from = tx.seg[sn]
  OBVIOUS
<1>7. sn \notin DOMAIN tx.seg => from = 0
  OBVIOUS
<1>8. pdu = tx.retx[sn]
  OBVIOUS
<1> HIDE DEF sn, pdu, t, x1, x2, a, b, g1, g2, from
<1>9. CASE channel' = Sent(channel, x1) /\ tx' = [t EXCEPT !.txed = a, !.retx = b, !.seg = g1]
  <2>1. /\ tx'.buffer = tx.buffer /\ tx'.vtS = tx.vtS
        /\ tx'.txed = a /\ tx'.retx = b /\ tx'.seg = g1
    BY <1>2, <1>9 DEF TxShape, TxRecord
  <2>2. Again(x1, room)
    BY <1>1, <1>4, <1>5, <1>6, <1>7, <1>8, <2>1 DEF Again
  <2> QED
    BY <1>9, <2>2
<1>10. CASE /\ ~(Size(pdu) - from <= room)
            /\ channel' = Sent(channel, x2) /\ tx' = [t EXCEPT !.seg = g2]
  <2>1. /\ tx'.buffer = tx.buffer /\ tx'.vtS = tx.vtS
        /\ tx'.txed = tx.txed /\ tx'.retx = tx.retx /\ tx'.seg = g2
    BY <1>2, <1>10 DEF TxShape, TxRecord
  <2>2. Again(x2, room)
    BY <1>1, <1>4, <1>5, <1>6, <1>7, <1>8, <1>10, <2>1 DEF Again
  <2> QED
    BY <1>10, <2>2
<1> QED
  BY <1>3, <1>9, <1>10

\* A new PDU: what fits of the buffer, kept under VT(S).
LEMMA SendNewData ==
  ASSUME TxShape(tx), NEW room, SendNewPdu(room)
  PROVE  LET packed == Pack(tx.buffer, room)
             pdu    == DataPdu(tx.vtS, packed.data)
         IN  /\ tx.buffer # <<>> /\ ~WindowFull(tx)
             /\ channel' = Sent(channel, AmPdu(pdu, TRUE, FALSE, 0, Size(pdu), TRUE))
             /\ tx'.buffer = packed.rest /\ tx'.vtS = Follow(tx.vtS)
             /\ tx'.txed = With(tx.txed, tx.vtS, pdu)
             /\ tx'.retx = tx.retx /\ tx'.seg = tx.seg
<1> DEFINE packed == Pack(tx.buffer, room)
           rest   == packed.rest
           pdu    == DataPdu(tx.vtS, packed.data)
           t      == [tx EXCEPT !.buffer = rest]
           k      == Kept(t, pdu)
           next   == (tx.vtS + 1) % Modulus
           kept   == With(tx.txed, tx.vtS, pdu)
<1>1. /\ tx' = Polling(k, TRUE) /\ tx.buffer # <<>> /\ ~WindowFull(tx)
      /\ channel' = Sent(channel, AmPdu(pdu, TRUE, FALSE, 0, Size(pdu), TRUE))
  BY DEF SendNewPdu
<1>2. pdu.sn = tx.vtS
  BY DEF DataPdu
<1> HIDE DEF rest, pdu
<1>3. t.vtS = tx.vtS /\ t.txed = tx.txed /\ TxShape(t) /\ t.buffer = rest
      /\ t.retx = tx.retx /\ t.seg = tx.seg
  BY DEF TxShape, TxRecord
<1> HIDE DEF t
<1>4. next \in Sns
  BY Following DEF TxShape
<1>5. Shape(kept)
  BY <1>2, WithShape DEF TxShape
<1>6. k = [t EXCEPT !.vtS = next, !.txed = kept]
  BY <1>3 DEF Kept
<1> HIDE DEF kept, next, k
<1>7. /\ TxShape(k) /\ k.buffer = rest /\ k.vtS = next /\ k.txed = kept
      /\ k.retx = tx.retx /\ k.seg = tx.seg
  BY <1>3, <1>4, <1>5, <1>6 DEF TxShape, TxRecord
<1>8. /\ tx'.buffer = rest /\ tx'.vtS = next /\ tx'.txed = kept
      /\ tx'.retx = tx.retx /\ tx'.seg = tx.seg
  BY <1>1, <1>7, PollingParts
<1> QED
  BY <1>1, <1>8 DEF rest, pdu, kept, next, Follow

-----------------------------------------------------------------------------
(* The invariant about the data.  f[x] is the PDU with the number x, which    *)
(* carries what is accepted from the place (ix[x], off[x]) to that of the     *)
(* number after x.  It matters for the numbers from R, which is VR(R), to     *)
(* below s, which is VT(S): for the others the receiving entity does not wait. *)
Awaited(R, s, x) == Dist(R, x) < Dist(R, s)

Streamed(A, ix, off, f, R, s) ==
  \A x \in Sns : Awaited(R, s, x) =>
    Carries(A, f[x], ix[x], off[x], ix[Follow(x)], off[Follow(x)])

\* What the transmitting entity keeps to send again, whole or from an offset on
Keeps(t, f, R, s) ==
  /\ \A x \in DOMAIN t.txed : Awaited(R, s, x) => t.txed[x] = f[x]
  /\ \A x \in DOMAIN t.retx : Awaited(R, s, x) => t.retx[x] = f[x]
  /\ \A x \in DOMAIN t.seg : Awaited(R, s, x) => t.seg[x] \in Nat /\ t.seg[x] < Size(f[x])

\* What is on its way: a PDU, or a part of it (without data, if only the header
\* fitted the opportunity) that begins inside of it
PartOf(p) ==
  /\ p.from \in Nat /\ p.to \in Nat /\ p.from <= p.to /\ p.to <= Size(p.pdu)
  /\ p.from < Size(p.pdu)
  /\ ~p.segment => p.to = Size(p.pdu)
  /\ p.lastSegment => p.to = Size(p.pdu)
Travels(q, f, R, s) ==
  \A j \in DOMAIN q : Awaited(R, s, SnAt(q, j)) =>
    q[j].pdu.pdu = f[SnAt(q, j)] /\ PartOf(q[j].pdu)

\* What the reception buffer holds: a PDU as far as an offset, without holes
Filled(e) == e.upto \in Nat /\ e.size = e.upto /\ (e.complete => e.upto = Size(e.pdu))
Collected(b, f) == \A x \in DOMAIN b : b[x].pdu = f[x] /\ Filled(b[x])

Stream(A, ix, off, f, t, q, r) ==
  /\ Streamed(A, ix, off, f, r.vrR, t.vtS)
  /\ Buffered(A, t.buffer, ix[t.vtS], off[t.vtS])
  /\ Rebuilt(A, r.reassembly, r.vrR, ix[r.vrR], off[r.vrR])
  /\ Keeps(t, f, r.vrR, t.vtS)
  /\ Travels(q, f, r.vrR, t.vtS)
  /\ Collected(r.buffer, f)

AmData ==
  /\ accepted \in Seq(Sdus) /\ \A i \in 1..Len(accepted) : accepted[i] <= offered
  /\ \E ix, off, f : Stream(accepted, ix, off, f, tx, channel, rx)

\* A PDU that carries data has a size.
LEMMA CarriedSize ==
  ASSUME NEW A, NEW pdu, NEW k, NEW o, NEW k2, NEW o2, Carries(A, pdu, k, o, k2, o2)
  PROVE  Size(pdu) \in Nat /\ Size(pdu) > 0
<1> DEFINE d == pdu.data
           n == Len(d)
<1>1. d \in Seq(Pieces) /\ n > 0
  BY DEF Carries
<1> HIDE DEF d
<1>2. n \in Nat /\ DOMAIN d = 1..n /\ \A k1 \in 1..n : d[k1] \in Pieces
  BY <1>1
<1>3. \A k1 \in 1..n : d[k1].len \in Nat \ {0}
  BY <1>2 DEF Pieces
<1>4. BufferSize(d) \in Nat /\ BufferSize(d) > 0
  <2> HIDE DEF n
  <2> QED
    BY <1>1, <1>2, <1>3, SizeIs
<1> QED
  BY <1>4 DEF Size, d

\* A PDU that is lost or arrives: the others are still the same.
LEMMA RemovedTravels ==
  ASSUME NEW q, Listed(q), NEW i \in DOMAIN q, NEW n, n = RemoveAt(q, i) \/ n = Arrived(q, i),
         NEW f, NEW R, NEW s, Travels(q, f, R, s)
  PROVE  Travels(n, f, R, s)
<1>1. /\ DOMAIN n = 1..(Len(q) - 1)
      /\ \A k \in 1..(Len(q) - 1) : Skip(i, k) \in DOMAIN q /\ n[k].pdu = q[Skip(i, k)].pdu
  BY RemovedListed
<1>2. ASSUME NEW j \in DOMAIN n, Awaited(R, s, SnAt(n, j))
      PROVE  n[j].pdu.pdu = f[SnAt(n, j)] /\ PartOf(n[j].pdu)
  <2> DEFINE k == Skip(i, j)
  <2>1. k \in DOMAIN q /\ n[j].pdu = q[k].pdu /\ SnAt(n, j) = SnAt(q, k)
    BY <1>1 DEF SnAt
  <2>2. q[k].pdu.pdu = f[SnAt(q, k)] /\ PartOf(q[k].pdu)
    BY <1>2, <2>1 DEF Travels
  <2> QED
    BY <2>1, <2>2
<1> QED
  BY <1>2 DEF Travels

\* One PDU more on its way.
LEMMA SentTravels ==
  ASSUME NEW q, Listed(q), NEW x, NEW f, NEW R, NEW s, Travels(q, f, R, s),
         Awaited(R, s, x.pdu.sn) => x.pdu = f[x.pdu.sn] /\ PartOf(x)
  PROVE  Travels(Sent(q, x), f, R, s)
<1> DEFINE n == Sent(q, x)
<1>1. /\ Len(q) \in Nat /\ DOMAIN q = 1..Len(q) /\ DOMAIN n = 1..(Len(q) + 1)
      /\ \A i \in 1..Len(q) : n[i] = q[i]
      /\ n[Len(q) + 1].pdu = x
  BY SentListed
<1> HIDE DEF n
<1>2. ASSUME NEW j \in DOMAIN n, Awaited(R, s, SnAt(n, j))
      PROVE  n[j].pdu.pdu = f[SnAt(n, j)] /\ PartOf(n[j].pdu)
  <2>1. CASE j = Len(q) + 1
    <3>1. n[j].pdu = x /\ SnAt(n, j) = x.pdu.sn
      BY <1>1, <2>1 DEF SnAt
    <3> QED
      BY <1>2, <3>1
  <2>2. CASE j # Len(q) + 1
    <3>1. j \in DOMAIN q /\ n[j] = q[j]
      BY <1>1, <2>2
    <3>2. SnAt(n, j) = SnAt(q, j)
      BY <3>1 DEF SnAt
    <3> QED
      BY <1>2, <3>1, <3>2 DEF Travels
  <2> QED
    BY <2>1, <2>2
<1> QED
  BY <1>2 DEF Travels, n

\* PDUs that change buffers are still the same.
LEMMA KeptFromKeeps ==
  ASSUME NEW n, NEW t, KeptFrom(n, t), NEW f, NEW R, NEW s, Keeps(t, f, R, s)
  PROVE  Keeps(n, f, R, s)
<1>1. ASSUME NEW x \in DOMAIN n.txed, Awaited(R, s, x) PROVE n.txed[x] = f[x]
  BY <1>1 DEF KeptFrom, Keeps
<1>2. ASSUME NEW x \in DOMAIN n.retx, Awaited(R, s, x) PROVE n.retx[x] = f[x]
  BY <1>2 DEF KeptFrom, Keeps
<1>3. ASSUME NEW x \in DOMAIN n.seg, Awaited(R, s, x)
      PROVE  n.seg[x] \in Nat /\ n.seg[x] < Size(f[x])
  BY <1>3 DEF KeptFrom, Keeps
<1> QED
  BY <1>1, <1>2, <1>3 DEF Keeps

\* PDUs are sent again: each is the same, and each part of it begins inside of it.
LEMMA AgainStream ==
  ASSUME TxShape(tx), Listed(channel), NEW room \in Nat, NEW x, Again(x, room),
         channel' = Sent(channel, x), NEW f, NEW R \in Sns, Keeps(tx, f, R, tx.vtS),
         \A y \in Sns : Awaited(R, tx.vtS, y) => Size(f[y]) \in Nat /\ Size(f[y]) > 0,
         Travels(channel, f, R, tx.vtS)
  PROVE  Keeps(tx', f, R, tx.vtS) /\ Travels(channel', f, R, tx.vtS)
<1> DEFINE sn   == x.pdu.sn
           from == IF sn \in DOMAIN tx.seg THEN tx.seg[sn] ELSE 0
           s    == tx.vtS
<1>1. /\ sn \in DOMAIN tx.retx /\ x.pdu = tx.retx[sn] /\ x.from = from /\ sn \in Sns
  BY DEF Again, TxShape, Shape
<1>2. ASSUME Awaited(R, s, sn)
      PROVE  /\ x.pdu = f[sn] /\ from \in Nat /\ from < Size(f[sn]) /\ Size(f[sn]) \in Nat
             /\ sn \in DOMAIN tx.seg => from = tx.seg[sn]
             /\ sn \notin DOMAIN tx.seg => from = 0
  BY <1>1, <1>2 DEF Keeps
<1>3. \/ /\ x.to = Size(x.pdu) /\ x.segment = (sn \in DOMAIN tx.seg)
         /\ tx'.txed = With(tx.txed, sn, x.pdu) /\ tx'.retx = Without(tx.retx, {sn})
         /\ tx'.seg = Without(tx.seg, {sn})
      \/ /\ ~(Size(x.pdu) - from <= room)
         /\ x.to = from + room /\ x.segment = TRUE /\ x.lastSegment = FALSE
         /\ tx'.txed = tx.txed /\ tx'.retx = tx.retx
         /\ tx'.seg = With(tx.seg, sn, from + room)
  BY DEF Again
<1> HIDE DEF from, sn
<1>4. ASSUME Awaited(R, s, sn) PROVE PartOf(x)
  <2>1. CASE x.to = Size(x.pdu)
    BY <1>1, <1>2, <1>4, <2>1 DEF PartOf
  <2>2. CASE /\ ~(Size(x.pdu) - from <= room) /\ x.to = from + room /\ x.segment = TRUE
             /\ x.lastSegment = FALSE
    BY <1>1, <1>2, <1>4, <2>2 DEF PartOf
  <2> QED
    BY <1>3, <2>1, <2>2
<1>5. Travels(channel', f, R, s)
  BY <1>2, <1>4, SentTravels DEF sn
<1>6. Keeps(tx', f, R, s)
  <2>1. ASSUME NEW y \in DOMAIN tx'.txed, Awaited(R, s, y) PROVE tx'.txed[y] = f[y]
    <3>1. CASE tx'.txed = With(tx.txed, sn, x.pdu)
      <4>1. \/ y = sn /\ tx'.txed[y] = x.pdu
            \/ y \in DOMAIN tx.txed /\ tx'.txed[y] = tx.txed[y]
        BY <3>1 DEF With
      <4> QED
        BY <1>2, <2>1, <4>1 DEF Keeps
    <3>2. CASE tx'.txed = tx.txed
      BY <2>1, <3>2 DEF Keeps
    <3> QED
      BY <1>3, <3>1, <3>2
  <2>2. ASSUME NEW y \in DOMAIN tx'.retx, Awaited(R, s, y) PROVE tx'.retx[y] = f[y]
    <3>1. y \in DOMAIN tx.retx /\ tx'.retx[y] = tx.retx[y]
      <4>1. CASE tx'.retx = Without(tx.retx, {sn})
        BY <4>1 DEF Without, Restrict
      <4>2. CASE tx'.retx = tx.retx
        BY <4>2
      <4> QED
        BY <1>3, <4>1, <4>2
    <3> QED
      BY <2>2, <3>1 DEF Keeps
  <2>3. ASSUME NEW y \in DOMAIN tx'.seg, Awaited(R, s, y)
        PROVE  tx'.seg[y] \in Nat /\ tx'.seg[y] < Size(f[y])
    <3>1. CASE tx'.seg = Without(tx.seg, {sn})
      <4>1. y \in DOMAIN tx.seg /\ tx'.seg[y] = tx.seg[y]
        BY <3>1 DEF Without, Restrict
      <4> QED
        BY <2>3, <4>1 DEF Keeps
    <3>2. CASE tx'.seg = With(tx.seg, sn, from + room) /\ ~(Size(x.pdu) - from <= room)
      <4>1. \/ y = sn /\ tx'.seg[y] = from + room
            \/ y \in DOMAIN tx.seg /\ tx'.seg[y] = tx.seg[y]
        <5> DEFINE e == from + room
        <5> HIDE DEF e
        <5>1. tx'.seg = With(tx.seg, sn, e)
          BY <3>2 DEF e
        <5>2. \/ y = sn /\ tx'.seg[y] = e
              \/ y \in DOMAIN tx.seg /\ tx'.seg[y] = tx.seg[y]
          BY <5>1 DEF With
        <5> QED
          BY <5>2 DEF e
      <4>2. CASE y = sn /\ tx'.seg[y] = from + room
        BY <1>2, <2>3, <3>2, <4>2
      <4>3. CASE y \in DOMAIN tx.seg /\ tx'.seg[y] = tx.seg[y]
        BY <2>3, <4>3 DEF Keeps
      <4> QED
        BY <4>1, <4>2, <4>3
    <3> QED
      BY <1>3, <3>1, <3>2
  <2> QED
    BY <2>1, <2>2, <2>3 DEF Keeps
<1> QED
  BY <1>5, <1>6

\* A new PDU carries on where the last one ended, and the transmission buffer after it.
LEMMA NewStream ==
  ASSUME AmShape, AmWindows, NEW room \in Nat \ {0}, SendNewPdu(room), NEW A \in Seq(Sdus),
         NEW ix, NEW off, NEW f, Stream(A, ix, off, f, tx, channel, rx)
  PROVE  \E ix2, off2, f2 : /\ Stream(A, ix2, off2, f2, tx', channel', rx)
                            /\ ix2[rx.vrR] = ix[rx.vrR]
<1> DEFINE a == tx.vtA
           s == tx.vtS
           R == rx.vrR
           z == Follow(s)
           pdu  == DataPdu(s, Pack(tx.buffer, room).data)
           rest == Pack(tx.buffer, room).rest
           x    == AmPdu(pdu, TRUE, FALSE, 0, Size(pdu), TRUE)
<1>1. /\ TxShape(tx) /\ a \in Sns /\ s \in Sns /\ R \in Sns /\ RxWindow(rx) /\ Listed(channel)
      /\ InStep(a, rx, s) /\ Fresh(channel, rx, s) /\ Remembers(tx, rx)
  BY DEF AmShape, AmWindows, TxShape, RxOK, RxWindow
<1>2. /\ tx.buffer # <<>> /\ ~WindowFull(tx) /\ channel' = Sent(channel, x)
      /\ tx'.buffer = rest /\ tx'.vtS = z /\ tx'.txed = With(tx.txed, s, pdu)
      /\ tx'.retx = tx.retx /\ tx'.seg = tx.seg
  BY <1>1, SendNewData
<1>3. /\ Streamed(A, ix, off, f, R, s) /\ Buffered(A, tx.buffer, ix[s], off[s])
      /\ Rebuilt(A, rx.reassembly, R, ix[R], off[R]) /\ Keeps(tx, f, R, s)
      /\ Travels(channel, f, R, s) /\ Collected(rx.buffer, f)
  BY DEF Stream
<1>4. PICK k2, o2 : Carries(A, pdu, ix[s], off[s], k2, o2) /\ Buffered(A, rest, k2, o2)
  BY <1>2, <1>3, Packs
<1>5. Size(pdu) \in Nat /\ Size(pdu) > 0
  BY <1>4, CarriedSize
<1>6. x.pdu = pdu /\ pdu.sn = s /\ PartOf(x)
  <2>1. /\ x.pdu = pdu /\ x.from = 0 /\ x.to = Size(pdu) /\ x.segment = FALSE
        /\ x.lastSegment = TRUE
    BY DEF AmPdu
  <2>2. pdu.sn = s
    BY DEF DataPdu
  <2> HIDE DEF x, pdu
  <2> QED
    BY <1>5, <2>1, <2>2 DEF PartOf
<1>7. Dist(R, s) \in Nat /\ Dist(R, s) < Window /\ Window \in Nat /\ Modulus = 2 * Window
  <2>1. /\ Dist(R, s) = Dist(a, s) - Dist(a, R) /\ Dist(a, s) <= Window
    BY <1>1, InStepIs
  <2>2. Dist(a, s) \in Nat /\ Dist(a, R) \in Nat /\ Dist(R, s) \in Nat /\ Window \in Nat
    BY <1>1, DistRange, Ring
  <2>3. Dist(a, s) # Window
    BY <1>2 DEF WindowFull
  <2> QED
    BY <2>1, <2>2, <2>3, Ring
<1> HIDE DEF pdu, rest, x
<1>8. z \in Sns /\ Dist(R, z) = Dist(R, s) + 1 /\ s # z /\ R # z
  <2>1. z \in Sns /\ Dist(R, z) = IF Dist(R, s) = Modulus - 1 THEN 0 ELSE Dist(R, s) + 1
    BY <1>1, Following DEF Follow
  <2>2. Dist(R, R) = 0
    BY <1>1, DistRange
  <2> HIDE DEF z
  <2>3. Dist(R, z) = Dist(R, s) + 1
    BY <1>7, <2>1
  <2>4. Dist(R, z) # Dist(R, s) /\ Dist(R, z) # 0
    BY <1>7, <2>3
  <2> QED
    BY <2>1, <2>2, <2>3, <2>4
<1> HIDE DEF z
<1>9. \A y \in Sns : Awaited(R, z, y) => Awaited(R, s, y) \/ y = s
  <2> SUFFICES ASSUME NEW y \in Sns, Awaited(R, z, y), ~Awaited(R, s, y) PROVE y = s
    OBVIOUS
  <2>1. Dist(R, y) \in Nat /\ Dist(R, y) < Dist(R, z) /\ ~(Dist(R, y) < Dist(R, s))
    BY <1>1, DistRange DEF Awaited
  <2>2. Dist(R, y) = Dist(R, s)
    BY <1>7, <1>8, <2>1
  <2> QED
    BY <1>1, <2>2, DistSame
<1> DEFINE ix2  == [y \in Sns |-> IF y = z THEN k2 ELSE ix[y]]
           off2 == [y \in Sns |-> IF y = z THEN o2 ELSE off[y]]
           f2   == [y \in Sns |-> IF y = s THEN pdu ELSE f[y]]
<1>10. /\ ix2[z] = k2 /\ off2[z] = o2 /\ f2[s] = pdu
       /\ \A y \in Sns : y # z => ix2[y] = ix[y] /\ off2[y] = off[y]
       /\ \A y \in Sns : y # s => f2[y] = f[y]
  BY <1>1, <1>8
<1> HIDE DEF ix2, off2, f2
<1>11. Streamed(A, ix2, off2, f2, R, z)
  <2> SUFFICES ASSUME NEW y \in Sns, Awaited(R, z, y)
               PROVE  Carries(A, f2[y], ix2[y], off2[y], ix2[Follow(y)], off2[Follow(y)])
    BY DEF Streamed
  <2>1. CASE y = s
    <3>1. Follow(y) = z
      BY <2>1 DEF z
    <3> QED
      BY <1>1, <1>4, <1>8, <1>10, <2>1, <3>1
  <2>2. CASE y # s
    <3>1. Awaited(R, s, y)
      BY <1>9, <2>2
    <3>2. Dist(R, y) \in Nat /\ Dist(R, y) < Dist(R, s)
      BY <1>1, <3>1, DistRange DEF Awaited
    <3>3. Follow(y) \in Sns /\ Dist(R, Follow(y)) = Dist(R, y) + 1
      <4>1. Dist(R, y) # Modulus - 1
        BY <1>7, <3>2
      <4> QED
        BY <1>1, <4>1, Following DEF Follow
    <3>4. Dist(R, y) # Dist(R, z) /\ Dist(R, Follow(y)) # Dist(R, z)
      BY <1>7, <1>8, <3>2, <3>3
    <3>5. y # z /\ Follow(y) # z
      BY <3>4
    <3>6. Carries(A, f[y], ix[y], off[y], ix[Follow(y)], off[Follow(y)])
      BY <1>3, <3>1 DEF Streamed
    <3>7. /\ ix2[y] = ix[y] /\ off2[y] = off[y] /\ f2[y] = f[y]
          /\ ix2[Follow(y)] = ix[Follow(y)] /\ off2[Follow(y)] = off[Follow(y)]
      BY <1>10, <2>2, <3>3, <3>5
    <3> QED
      BY <3>6, <3>7
  <2> QED
    BY <2>1, <2>2
<1>12. Keeps(tx', f2, R, z)
  <2>1. \A y \in DOMAIN tx.retx : y \in Sns /\ y # s
    <3>1. Dist(a, s) \in Nat
      BY <1>1, DistRange
    <3>2. \A y \in DOMAIN tx.retx : y \in Sns /\ Dist(a, y) < Dist(a, s)
      BY <1>1 DEF Remembers, KeptBy, Outstanding
    <3> QED
      BY <3>1, <3>2
  <2>2. ASSUME NEW y \in DOMAIN tx'.txed, Awaited(R, z, y) PROVE tx'.txed[y] = f2[y]
    <3>1. \/ y = s /\ tx'.txed[y] = pdu
          \/ y # s /\ y \in DOMAIN tx.txed /\ tx'.txed[y] = tx.txed[y]
      BY <1>2 DEF With
    <3>2. \A w \in DOMAIN tx.txed : w \in Sns
      BY <1>1 DEF TxShape, Shape
    <3>3. CASE y # s /\ y \in DOMAIN tx.txed /\ tx'.txed[y] = tx.txed[y]
      <4>1. Awaited(R, s, y) /\ y \in Sns
        BY <1>9, <2>2, <3>2, <3>3
      <4> QED
        BY <1>3, <1>10, <3>3, <4>1 DEF Keeps
    <3> QED
      BY <1>10, <3>1, <3>3
  <2>3. ASSUME NEW y \in DOMAIN tx.retx, Awaited(R, z, y) PROVE tx.retx[y] = f2[y]
    <3>1. Awaited(R, s, y) /\ y \in Sns /\ y # s
      BY <1>9, <2>1, <2>3
    <3> QED
      BY <1>3, <1>10, <3>1 DEF Keeps
  <2>4. ASSUME NEW y \in DOMAIN tx.seg, Awaited(R, z, y)
        PROVE  tx.seg[y] \in Nat /\ tx.seg[y] < Size(f2[y])
    <3>1. y \in DOMAIN tx.retx
      BY <1>1 DEF Remembers
    <3>2. Awaited(R, s, y) /\ y \in Sns /\ y # s
      BY <1>9, <2>1, <2>4, <3>1
    <3> QED
      BY <1>3, <1>10, <3>2 DEF Keeps
  <2> QED
    BY <1>2, <2>2, <2>3, <2>4 DEF Keeps
<1>13. Travels(channel', f2, R, z)
  <2>1. Travels(channel, f2, R, z)
    <3> SUFFICES ASSUME NEW j \in DOMAIN channel, Awaited(R, z, SnAt(channel, j))
                 PROVE  /\ channel[j].pdu.pdu = f2[SnAt(channel, j)]
                        /\ PartOf(channel[j].pdu)
      BY DEF Travels
    <3> DEFINE sn == SnAt(channel, j)
    <3>1. /\ sn \in Sns /\ (InWindow(rx, sn) => Dist(R, sn) < Dist(R, s))
      BY <1>1 DEF Fresh
    <3>2. sn # s
      <4>1. InWindow(rx, s)
        BY <1>7 DEF InWindow
      <4>2. ~(Dist(R, s) < Dist(R, s))
        BY <1>7
      <4> HIDE DEF sn
      <4> QED
        BY <3>1, <4>1, <4>2
    <3>3. Awaited(R, s, sn)
      BY <1>9, <3>1, <3>2
    <3>4. channel[j].pdu.pdu = f[sn] /\ PartOf(channel[j].pdu)
      BY <1>3, <3>3 DEF Travels
    <3> QED
      BY <1>10, <3>1, <3>2, <3>4
  <2>2. x.pdu = f2[x.pdu.sn]
    BY <1>6, <1>10
  <2> QED
    BY <1>1, <1>2, <1>6, <2>1, <2>2, SentTravels
<1>14. Collected(rx.buffer, f2)
  <2> SUFFICES ASSUME NEW y \in DOMAIN rx.buffer
               PROVE  rx.buffer[y].pdu = f2[y] /\ Filled(rx.buffer[y])
    BY DEF Collected
  <2>1. y \in Sns /\ Dist(a, y) < Dist(a, s)
    BY <1>1, HeldBelow
  <2>2. Dist(a, s) \in Nat
    BY <1>1, DistRange
  <2>3. y # s
    BY <2>1, <2>2
  <2> QED
    BY <1>3, <1>10, <2>1, <2>3 DEF Collected
<1>15. Buffered(A, tx'.buffer, ix2[z], off2[z])
  BY <1>2, <1>4, <1>10
<1>16. ix2[R] = ix[R] /\ off2[R] = off[R]
  BY <1>1, <1>8, <1>10
<1>17. Stream(A, ix2, off2, f2, tx', channel', rx)
  BY <1>2, <1>3, <1>11, <1>12, <1>13, <1>14, <1>15, <1>16 DEF Stream
<1> QED
  BY <1>16, <1>17

\* What an entry of the reception buffer becomes with the next segment.
LEMMA ExtendedValues ==
  ASSUME NEW e, NEW p, Entry(e)
  PROVE  /\ Extended(e, p).pdu = e.pdu /\ Extended(e, p).upto = p.to
         /\ Extended(e, p).size = e.size + p.to - p.from
         /\ Extended(e, p).complete => e.complete \/ p.lastSegment
<1> DEFINE z == e.size + p.to - p.from
           c == e.complete \/ p.lastSegment
           x == Extended(e, p)
<1>1. x = [e EXCEPT !.upto = p.to, !.size = z, !.complete = c]
  BY DEF Extended
<1> HIDE DEF z, c, x
<1>2. x = [pdu |-> e.pdu, upto |-> p.to, size |-> z, complete |-> c]
  <2>1. PICK f : f = e
    OBVIOUS
  <2>2. f = [pdu |-> e.pdu, upto |-> e.upto, size |-> e.size, complete |-> e.complete]
    BY <2>1 DEF Entry
  <2>3. x = [[pdu |-> e.pdu, upto |-> e.upto, size |-> e.size, complete |-> e.complete]
                EXCEPT !.upto = p.to, !.size = z, !.complete = c]
    BY <1>1, <2>1, <2>2, Zenon
  <2> QED
    BY <2>3
<1>3. x.pdu = e.pdu /\ x.upto = p.to /\ x.size = z /\ x.complete = c
  BY <1>2
<1>4. c => e.complete \/ p.lastSegment
  BY Zenon DEF c
<1>5. x.complete => c
  BY <1>3, Zenon
<1> QED
  BY <1>3, <1>4, <1>5, Zenon DEF x, z

\* One part more of a PDU in the reception buffer, without holes.
LEMMA StoredCollected ==
  ASSUME NEW r, RxRecord(r), Held(r.buffer), NEW p, NEW f, Collected(r.buffer, f),
         p.pdu = f[p.pdu.sn], PartOf(p), Size(p.pdu) \in Nat
  PROVE  Collected(Stored(r, p).buffer, f)
<1> DEFINE b == Stored(r, p).buffer
<1>1. \A x \in DOMAIN b :
        \/ x \in DOMAIN r.buffer /\ b[x] = r.buffer[x]
        \/ /\ x = p.pdu.sn /\ x \in DOMAIN r.buffer /\ p.from = r.buffer[x].upto
           /\ b[x] = Extended(r.buffer[x], p)
        \/ x = p.pdu.sn /\ p.from = 0 /\ b[x] = FirstEntry(p)
  BY StoredData
<1> HIDE DEF b
<1>2. ASSUME NEW x \in DOMAIN b PROVE b[x].pdu = f[x] /\ Filled(b[x])
  <2>1. CASE x \in DOMAIN r.buffer /\ b[x] = r.buffer[x]
    BY <2>1 DEF Collected
  <2>2. CASE /\ x = p.pdu.sn /\ x \in DOMAIN r.buffer /\ p.from = r.buffer[x].upto
             /\ b[x] = Extended(r.buffer[x], p)
    <3> DEFINE e == r.buffer[x]
               n == Extended(e, p)
    <3>1. e.pdu = f[x] /\ Filled(e) /\ p.from = e.upto /\ Entry(e)
      BY <2>2 DEF Collected, Held
    <3> HIDE DEF e
    <3>2. /\ n.pdu = e.pdu /\ n.upto = p.to /\ n.size = e.size + p.to - p.from
          /\ n.complete => e.complete \/ p.lastSegment
      BY <3>1, ExtendedValues
    <3> HIDE DEF n
    <3>3. /\ p.from \in Nat /\ p.to \in Nat /\ p.from < Size(p.pdu) /\ p.to <= Size(p.pdu)
          /\ p.lastSegment => p.to = Size(p.pdu)
      BY DEF PartOf
    <3>4. e.size = e.upto /\ (e.complete => e.upto = Size(e.pdu))
      BY <3>1 DEF Filled
    <3>5. e.pdu = p.pdu
      BY <2>2, <3>1
    <3>6. ~e.complete
      BY <3>1, <3>3, <3>4, <3>5
    <3>7. n.size = p.to
      BY <3>1, <3>2, <3>3, <3>4
    <3>8. n.complete => p.to = Size(n.pdu)
      BY <3>2, <3>3, <3>5, <3>6
    <3>9. b[x] = n
      BY <2>2 DEF n, e
    <3> QED
      BY <3>1, <3>2, <3>3, <3>7, <3>8, <3>9 DEF Filled
  <2>3. CASE x = p.pdu.sn /\ p.from = 0 /\ b[x] = FirstEntry(p)
    <3>1. /\ b[x].pdu = p.pdu /\ b[x].upto = p.to /\ b[x].size = p.to - p.from
          /\ b[x].complete = ~p.segment
      BY <2>3 DEF FirstEntry
    <3>2. b[x].pdu = f[x]
      BY <2>3, <3>1
    <3>3. /\ p.to \in Nat /\ (~p.segment => p.to = Size(p.pdu))
      BY DEF PartOf
    <3>4. b[x].size = p.to
      BY <2>3, <3>1, <3>3
    <3>5. b[x].complete => p.to = Size(b[x].pdu)
      BY <3>1, <3>3
    <3> QED
      BY <3>1, <3>2, <3>3, <3>4, <3>5 DEF Filled
  <2> QED
    BY <1>1, <2>1, <2>2, <2>3
<1> QED
  BY <1>2 DEF Collected, b

\* A data PDU arrives: the receiving entity delivers what is then complete, in turn.
LEMMA ReceivedStream ==
  ASSUME AmShape, AmWindows, NEW i \in DOMAIN channel, RecvData(i), NEW A \in Seq(Sdus),
         NEW ix, NEW off, NEW f, Stream(A, ix, off, f, tx, channel, rx)
  PROVE  /\ Stream(A, ix, off, f, tx, channel', rx')
         /\ ix[rx.vrR] <= ix[rx'.vrR]
<1> DEFINE p  == channel[i].pdu
           sn == p.pdu.sn
           R  == rx.vrR
           s  == tx.vtS
           polled == [rx EXCEPT !.statusRequested = @ \/ p.poll]
<1>1. /\ TxShape(tx) /\ tx.vtA \in Sns /\ s \in Sns /\ R \in Sns /\ RxOK(rx) /\ RxWindow(rx)
      /\ RxRecord(rx) /\ Held(rx.buffer) /\ Listed(channel) /\ sn \in Sns
      /\ InStep(tx.vtA, rx, s) /\ Fresh(channel, rx, s) /\ Remembers(tx, rx)
  BY DEF AmShape, AmWindows, TxShape, RxOK, RxWindow
<1>2. /\ Streamed(A, ix, off, f, R, s) /\ Buffered(A, tx.buffer, ix[s], off[s])
      /\ Rebuilt(A, rx.reassembly, R, ix[R], off[R]) /\ Keeps(tx, f, R, s)
      /\ Travels(channel, f, R, s) /\ Collected(rx.buffer, f)
  BY DEF Stream
<1>3. /\ channel' = Arrived(channel, i)
      /\ \/ ~InWindow(rx, sn) /\ rx' = polled
         \/ InWindow(rx, sn) /\ rx' = PduTaken(rx, p)
  BY DEF RecvData, PduTaken
<1>4. Travels(channel', f, R, s)
  BY <1>1, <1>2, <1>3, RemovedTravels
<1>5. /\ RxRecord(polled) /\ polled.vrR = R /\ polled.buffer = rx.buffer
      /\ polled.reassembly = rx.reassembly
  BY <1>1 DEF RxRecord
<1>6. SnAt(channel, i) = sn
  BY DEF SnAt
<1>7. ix[R] \in Nat
  BY <1>2 DEF Rebuilt
<1>8. CASE rx' = polled
  BY <1>2, <1>4, <1>5, <1>7, <1>8 DEF Stream
<1>9. CASE InWindow(rx, sn) /\ rx' = PduTaken(rx, p)
  <2> DEFINE a == Stored(polled, p)
             H == rx'.vrR
             d == Dist(R, H)
  <2>1. Awaited(R, s, sn)
    BY <1>1, <1>6, <1>9 DEF Fresh, Awaited
  <2>2. p.pdu = f[sn] /\ PartOf(p)
    BY <1>2, <1>6, <2>1 DEF Travels
  <2>3. Size(p.pdu) \in Nat
    <3>1. Carries(A, f[sn], ix[sn], off[sn], ix[Follow(sn)], off[Follow(sn)])
      BY <1>1, <1>2, <2>1 DEF Streamed
    <3> QED
      BY <2>2, <3>1, CarriedSize
  <2> HIDE DEF p
  <2>4. Collected(a.buffer, f)
    <3>1. Held(polled.buffer) /\ Collected(polled.buffer, f)
      BY <1>1, <1>2, <1>5
    <3> HIDE DEF polled
    <3> QED
      BY <1>5, <2>2, <2>3, <3>1, StoredCollected
  <2>5. Held(a.buffer)
    <3>1. Held(polled.buffer)
      BY <1>1, <1>5
    <3> HIDE DEF polled
    <3> QED
      BY <1>1, <1>5, <3>1, StoredParts
  <2>6. /\ H \in Sns /\ d <= Window
        /\ \A x \in Sns : Dist(R, x) < d => x \in DOMAIN a.buffer
        /\ \A x \in DOMAIN rx'.buffer : x \in DOMAIN a.buffer /\ rx'.buffer[x] = a.buffer[x]
        /\ rx'.reassembly = Reassembled(rx.reassembly, a.buffer,
                              [k \in 1..d |-> (R + k - 1) % Modulus])
    <3> DEFINE n == PduTaken(rx, p)
               order == [k \in 1..Dist(rx.vrR, n.vrR) |-> (rx.vrR + k - 1) % Modulus]
    <3>1. InWindow(rx, p.pdu.sn) /\ RxOK(rx) /\ p.pdu.sn \in Sns
      BY <1>1, <1>9
    <3>2. /\ n.vrR \in Sns /\ Dist(rx.vrR, n.vrR) <= Window
          /\ \A x \in Sns : Dist(rx.vrR, x) < Dist(rx.vrR, n.vrR) => x \in DOMAIN a.buffer
          /\ \A x \in DOMAIN n.buffer : x \in DOMAIN a.buffer /\ n.buffer[x] = a.buffer[x]
          /\ n.reassembly = Reassembled(rx.reassembly, a.buffer, order)
      BY ONLY <3>1, ReceivedData DEF polled, a, n, order
    <3>3. rx' = n
      BY <1>9
    <3> HIDE DEF n, a, order
    <3>4. order = [k \in 1..d |-> (R + k - 1) % Modulus]
      BY <3>3 DEF order
    <3> QED
      BY <3>2, <3>3, <3>4
  <2>7. RxWindow(rx') /\ InStep(tx.vtA, rx', s) /\ Dist(tx.vtA, R) <= Dist(tx.vtA, H)
    <3>1. RxOK(rx')
      BY <1>1, <1>9, Received
    <3>2. \A j \in 1..(i - 1) : Dist(SnAt(channel, j), SnAt(channel, i)) # Window
      BY DEF RecvData, NotAWindowAhead, SnAt
    <3>3. InWindow(rx, SnAt(channel, i)) /\ rx' = PduTaken(rx, channel[i].pdu)
      BY <1>6, <1>9 DEF p
    <3>4. InStep(tx.vtA, rx', s) /\ Dist(tx.vtA, R) <= Dist(tx.vtA, H)
      BY <1>1, <3>2, <3>3, ReceivedWindows
    <3> QED
      BY <3>1, <3>4 DEF RxOK
  <2> HIDE DEF a
  <2>8. /\ d \in Nat /\ Dist(R, s) \in Nat /\ d <= Dist(R, s) /\ Dist(R, s) <= Window
        /\ d \in 0..(Modulus - 1)
    <3>1. /\ Dist(tx.vtA, H) <= Dist(tx.vtA, s) /\ Dist(tx.vtA, s) <= Window
      BY <1>1, <2>7, InStepIs
    <3>2. /\ Dist(R, s) = Dist(tx.vtA, s) - Dist(tx.vtA, R) /\ Dist(R, s) <= Window
          /\ Dist(tx.vtA, R) <= Dist(tx.vtA, s)
      BY <1>1, InStepIs
    <3>3. d = Dist(tx.vtA, H) - Dist(tx.vtA, R)
      BY <1>1, <2>6, <2>7, <3>1, <3>2, Rebased
    <3>4. /\ d \in Nat /\ d < Modulus /\ Dist(R, s) \in Nat /\ Dist(tx.vtA, s) \in Nat
          /\ Dist(tx.vtA, H) \in Nat /\ Dist(tx.vtA, R) \in Nat /\ Modulus \in Nat
      BY <1>1, <2>6, DistRange, Ring
    <3> HIDE DEF d
    <3> QED
      BY <3>1, <3>2, <3>3, <3>4
  <2>9. \A x \in Sns : Awaited(H, s, x) => Awaited(R, s, x)
    <3> SUFFICES ASSUME NEW x \in Sns, Dist(H, x) < Dist(H, s) PROVE Dist(R, x) < Dist(R, s)
      BY DEF Awaited
    <3>1. Dist(R, H) <= Dist(R, s) /\ Dist(R, s) <= Window
      BY <2>8
    <3>2. /\ Dist(R, H) <= Dist(R, x) /\ Dist(H, s) = Dist(R, s) - Dist(R, H)
      BY <1>1, <2>6, <3>1, Rebased
    <3>3. Dist(H, x) = Dist(R, x) - Dist(R, H)
      BY <1>1, <2>6, <3>1, <3>2, Rebased
    <3>4. Dist(R, x) \in Nat /\ Dist(R, s) \in Nat /\ Dist(R, H) \in Nat
      BY <1>1, <2>6, DistRange
    <3> QED
      BY <3>2, <3>3, <3>4
  <2>10. Rebuilt(A, rx'.reassembly, H, ix[H], off[H]) /\ ix[R] <= ix[H]
    <3>1. ASSUME NEW x \in Sns, Dist(R, x) < d
          PROVE  /\ a.buffer[x].pdu.sn = x
                 /\ Carries(A, a.buffer[x].pdu, ix[x], off[x], ix[Follow(x)], off[Follow(x)])
      <4>1. x \in DOMAIN a.buffer
        BY <2>6, <3>1
      <4>2. a.buffer[x].pdu.sn = x /\ a.buffer[x].pdu = f[x]
        BY <2>4, <2>5, <4>1 DEF Held, Collected
      <4>3. Awaited(R, s, x)
        <5>1. Dist(R, x) \in Nat
          BY <1>1, DistRange
        <5> HIDE DEF d
        <5> QED
          BY <2>8, <3>1, <5>1 DEF Awaited
      <4> QED
        BY <1>2, <4>2, <4>3 DEF Streamed
    <3>2. (R + d) % Modulus = H
      BY <1>1, <2>6, DistPlus
    <3> HIDE DEF d
    <3>3. LET order == [k \in 1..d |-> (R + k - 1) % Modulus]
              z     == (R + d) % Modulus
          IN  /\ Rebuilt(A, Reassembled(rx.reassembly, a.buffer, order), z, ix[z], off[z])
              /\ ix[R] <= ix[z]
      BY <1>1, <1>2, <2>8, <3>1, ReassembledInTurn
    <3> QED
      BY <2>6, <3>2, <3>3
  <2>11. Streamed(A, ix, off, f, H, s)
    BY <1>2, <2>9 DEF Streamed
  <2>12. Keeps(tx, f, H, s)
    <3>1. /\ \A x \in DOMAIN tx.txed : x \in Sns
          /\ \A x \in DOMAIN tx.retx : x \in Sns
          /\ DOMAIN tx.seg \subseteq DOMAIN tx.retx
      BY <1>1 DEF TxShape, Shape, Remembers
    <3> QED
      BY <1>2, <2>9, <3>1 DEF Keeps
  <2>13. Travels(channel', f, H, s)
    <3>1. \A j \in DOMAIN channel' : SnAt(channel', j) \in Sns
      <4>1. Fresh(channel', rx, s)
        BY <1>1, <1>3, RemovedFresh
      <4> QED
        BY <4>1 DEF Fresh
    <3> QED
      BY <1>4, <2>9, <3>1 DEF Travels
  <2>14. Collected(rx'.buffer, f)
    BY <2>4, <2>6 DEF Collected
  <2> QED
    BY <1>2, <2>10, <2>11, <2>12, <2>13, <2>14 DEF Stream
<1> QED
  BY <1>3, <1>8, <1>9

\* One SDU more is accepted: what lies before it stays what it is.
LEMMA AcceptedStream ==
  ASSUME NEW A \in Seq(Sdus), NEW s \in Sdus, NEW ix, NEW off, NEW f, NEW t, NEW n, NEW q, NEW r,
         Stream(A, ix, off, f, t, q, r),
         n.buffer = Append(t.buffer, FullSdu(s)), n.vtS = t.vtS,
         n.txed = t.txed, n.retx = t.retx, n.seg = t.seg
  PROVE  Stream(Append(A, s), ix, off, f, n, q, r)
<1> DEFINE B == Append(A, s)
<1>1. /\ B \in Seq(Sdus) /\ Len(A) \in Nat /\ Len(B) = Len(A) + 1 /\ B[Len(A) + 1] = s
      /\ \A i \in 1..Len(A) : B[i] = A[i]
  BY AppendProperties
<1> HIDE DEF B
<1>2. ASSUME NEW pdu, NEW k, NEW o, NEW k2, NEW o2, Carries(A, pdu, k, o, k2, o2)
      PROVE  Carries(B, pdu, k, o, k2, o2)
  BY <1>2, CarriesAppended DEF B
<1>3. Streamed(B, ix, off, f, r.vrR, n.vtS)
  <2>1. Streamed(A, ix, off, f, r.vrR, n.vtS)
    BY DEF Stream
  <2> QED
    BY <1>2, <2>1 DEF Streamed
<1>4. Rebuilt(B, r.reassembly, r.vrR, ix[r.vrR], off[r.vrR])
  <2> DEFINE k == ix[r.vrR]
             o == off[r.vrR]
  <2>1. Rebuilt(A, r.reassembly, r.vrR, k, o)
    BY DEF Stream
  <2> HIDE DEF k, o
  <2>2. k \in Nat /\ o \in Nat /\ k <= Len(A) /\ (o # 0 => k < Len(A))
    BY <2>1 DEF Rebuilt
  <2>3. WholeSdus(B, k) = WholeSdus(A, k)
    <3>1. \A i \in 1..k : B[i] = A[i]
      BY <1>1, <2>2
    <3> QED
      BY <3>1 DEF WholeSdus
  <2>4. o # 0 => B[k + 1] = A[k + 1]
    <3>1. o # 0 => k + 1 \in 1..Len(A)
      BY <1>1, <2>2
    <3> QED
      BY <1>1, <3>1
  <2>5. k <= Len(B) /\ (o # 0 => k < Len(B))
    BY <1>1, <2>2
  <2> QED
    BY <2>1, <2>3, <2>4, <2>5 DEF Rebuilt, k, o
<1>5. Buffered(B, n.buffer, ix[n.vtS], off[n.vtS])
  <2>1. Buffered(A, t.buffer, ix[n.vtS], off[n.vtS])
    BY DEF Stream
  <2> QED
    BY <2>1, BufferedAppended DEF B
<1>6. /\ Keeps(n, f, r.vrR, n.vtS) /\ Travels(q, f, r.vrR, n.vtS) /\ Collected(r.buffer, f)
  <2>1. /\ Keeps(t, f, r.vrR, t.vtS) /\ Travels(q, f, r.vrR, t.vtS) /\ Collected(r.buffer, f)
    BY DEF Stream
  <2> QED
    BY <2>1 DEF Keeps
<1> QED
  BY <1>3, <1>4, <1>5, <1>6 DEF Stream, B

-----------------------------------------------------------------------------
(* Every step keeps the invariant, and is one of the abstract service.       *)

\* What has been passed to PDCP when the receiving entity is at a place.
LEMMA DeliveredIs ==
  ASSUME NEW A \in Seq(Sdus), NEW r, NEW sn, NEW k, NEW o, Rebuilt(A, r, sn, k, o)
  PROVE  /\ k \in 0..Len(A) /\ r.left = <<>>
         /\ \A i \in DOMAIN r.out : Whole(r.out[i])
         /\ [i \in DOMAIN r.out |-> r.out[i].sdu] = SubSeq(A, 1, k)
         /\ Len([i \in DOMAIN r.out |-> r.out[i].sdu]) = k
<1> DEFINE d == [i \in DOMAIN r.out |-> r.out[i].sdu]
<1>1. k \in 0..Len(A) /\ k \in Nat /\ k <= Len(A) /\ Len(A) \in Nat
  BY DEF Rebuilt
<1>2. r.left = <<>> /\ r.out = WholeSdus(A, k)
  BY DEF Rebuilt
<1>3. DOMAIN r.out = 1..k /\ \A i \in 1..k : r.out[i] = Piece(A[i], 0, SduLen[A[i]])
  BY <1>2 DEF WholeSdus
<1>4. \A i \in 1..k : Whole(r.out[i]) /\ r.out[i].sdu = A[i]
  <2> SUFFICES ASSUME NEW i \in 1..k PROVE Whole(r.out[i]) /\ r.out[i].sdu = A[i]
    OBVIOUS
  <2>1. A[i] \in Sdus
    BY <1>1
  <2>2. r.out[i] = Piece(A[i], 0, SduLen[A[i]])
    BY <1>3
  <2>3. r.out[i].sdu = A[i]
    BY <2>2 DEF Piece
  <2> QED
    BY <2>1, <2>2, <2>3 DEF Whole
<1>5. d = [i \in 1..k |-> A[i]]
  BY <1>3, <1>4
<1>6. SubSeq(A, 1, k) = [i \in 1..k |-> A[i]]
  <2>1. /\ SubSeq(A, 1, k) \in Seq(Sdus) /\ Len(SubSeq(A, 1, k)) = k
        /\ \A i \in 1..k : SubSeq(A, 1, k)[i] = A[i]
    <3>1. \A i \in 1..k : A[i] \in Sdus
      BY <1>1
    <3>2. /\ SubSeq(A, 1, k) \in Seq(Sdus)
          /\ Len(SubSeq(A, 1, k)) = IF 1 <= k THEN k - 1 + 1 ELSE 0
          /\ \A i \in 1..(k - 1 + 1) : SubSeq(A, 1, k)[i] = A[1 + i - 1]
      BY <1>1, <3>1, SubSeqProperties
    <3>3. k - 1 + 1 = k /\ \A i \in 1..k : 1 + i - 1 = i
      BY <1>1
    <3> QED
      BY <1>1, <3>2, <3>3
  <2> QED
    BY <1>1, <2>1
<1>7. Len(d) = k
  BY <1>1, <1>5
<1> QED
  BY <1>1, <1>2, <1>3, <1>4, <1>5, <1>6, <1>7

\* Nothing but the bookkeeping of the entities and what is on its way changes.
LEMMA StreamStays ==
  ASSUME NEW A, NEW ix, NEW off, NEW f, NEW t, NEW q, NEW r, Stream(A, ix, off, f, t, q, r),
         NEW n, KeptFrom(n, t), NEW q2, Travels(q2, f, r.vrR, t.vtS),
         NEW r2, r2.vrR = r.vrR, r2.buffer = r.buffer, r2.reassembly = r.reassembly
  PROVE  Stream(A, ix, off, f, n, q2, r2)
<1>1. Keeps(n, f, r.vrR, t.vtS)
  BY KeptFromKeeps DEF Stream
<1> QED
  BY <1>1 DEF Stream, KeptFrom

\* A step of the abstract service.
Served == Service!Accept \/ Service!DeliverNext \/ UNCHANGED Service!service

\* Nothing has been accepted.
LEMMA AmDataInit == AmInit => AmData
<1> SUFFICES ASSUME AmInit PROVE AmData
  OBVIOUS
<1> DEFINE z == [x \in Sns |-> 0]
<1>1. /\ tx.vtS = 0 /\ tx.txed = <<>> /\ tx.retx = <<>> /\ tx.seg = <<>> /\ tx.buffer = <<>>
      /\ rx.vrR = 0 /\ rx.buffer = <<>> /\ rx.reassembly = Reassembly0
      /\ channel = <<>> /\ accepted = <<>>
  BY DEF AmInit
<1>2. 0 \in Sns /\ Dist(0, 0) = 0 /\ \A x \in Sns : Dist(0, x) \in Nat
  <2>1. 0 \in Sns
    BY Ring
  <2> QED
    BY <2>1, DistRange
<1>3. z[0] = 0
  BY <1>2
<1> HIDE DEF z
<1>4. DOMAIN <<>> = {} /\ \A S : <<>> \in Seq(S) /\ Len(<<>>) = 0
  OBVIOUS
<1>5. Buffered(<<>>, <<>>, 0, 0)
  BY <1>4 DEF Buffered
<1>6. Rebuilt(<<>>, Reassembly0, 0, 0, 0)
  <2>1. WholeSdus(<<>>, 0) = <<>>
    BY DEF WholeSdus
  <2>2. Reassembly0 = [expected |-> 0, waiting |-> (0 # 0), keep |-> Junk, left |-> <<>>,
                       out |-> WholeSdus(<<>>, 0)]
    BY <2>1 DEF Reassembly0
  <2>3. \E keep : /\ Reassembly0 = [expected |-> 0, waiting |-> (0 # 0), keep |-> keep,
                                    left |-> <<>>, out |-> WholeSdus(<<>>, 0)]
                  /\ 0 # 0 => keep = Piece(<<>>[0 + 1], 0, 0)
    BY <2>2
  <2>4. 0 \in Nat /\ 0 <= Len(<<>>)
    BY <1>4
  <2> QED
    BY <2>3, <2>4 DEF Rebuilt
<1>7. Streamed(<<>>, z, z, z, 0, 0)
  BY <1>2 DEF Streamed, Awaited
<1>8. Keeps(tx, z, 0, 0) /\ Travels(channel, z, 0, 0) /\ Collected(rx.buffer, z)
  BY <1>1, <1>4 DEF Keeps, Travels, Collected
<1>9. Stream(accepted, z, z, z, tx, channel, rx)
  BY <1>1, <1>3, <1>5, <1>6, <1>7, <1>8 DEF Stream
<1>10. accepted \in Seq(Sdus) /\ \A i \in 1..Len(accepted) : accepted[i] <= offered
  BY <1>1, <1>4
<1> QED
  BY <1>9, <1>10 DEF AmData

\* PDCP hands over an SDU.
LEMMA AmDataTransmit ==
  ASSUME AmShape, AmData, TransmitPdcpPdu
  PROVE  AmData' /\ Served
<1> DEFINE s == offered + 1
           b == Append(tx.buffer, FullSdu(s))
<1>1. PICK ix, off, f : Stream(accepted, ix, off, f, tx, channel, rx)
  BY DEF AmData
<1>2. /\ accepted \in Seq(Sdus) /\ (\A i \in 1..Len(accepted) : accepted[i] <= offered)
      /\ Len(accepted) \in Nat /\ DOMAIN accepted = 1..Len(accepted)
  BY DEF AmData
<1>3. /\ s \in Sdus /\ s \in Nat /\ offered \in Nat /\ offered' = s /\ s > offered
      /\ \A i \in 1..Len(accepted) : accepted[i] \in Nat
  <2>1. offered \in 0..Len(SduLen) /\ Len(SduLen) \in Nat
    BY RlcSduAssumption DEF AmShape
  <2>2. offered < Len(SduLen) /\ offered' = s
    BY DEF TransmitPdcpPdu
  <2>3. \A i \in 1..Len(accepted) : accepted[i] \in Nat
    BY <1>2 DEF Sdus
  <2> QED
    BY <2>1, <2>2, <2>3 DEF Sdus
<1>4. TxRecord(tx) /\ channel' = channel /\ rx' = rx
  BY DEF AmShape, TxShape, TransmitPdcpPdu, receiverVars
<1>5. \/ accepted' = Append(accepted, s) /\ tx' = [tx EXCEPT !.buffer = b, !.rbsTimer = TRUE]
      \/ accepted' = accepted /\ tx' = [tx EXCEPT !.rbsTimer = TRUE]
  <2> DEFINE fits == BufferSize(tx.buffer) + SduLen[s] <= MaxTxBuffer
  <2>1. /\ accepted' = IF fits THEN Append(accepted, s) ELSE accepted
        /\ tx' = [tx EXCEPT !.buffer = IF fits THEN b ELSE @, !.rbsTimer = TRUE]
    BY DEF TransmitPdcpPdu
  <2> HIDE DEF fits, b, s
  <2>2. CASE fits
    BY <2>1, <2>2
  <2>3. CASE ~fits
    <3>1. tx' = [tx EXCEPT !.buffer = tx.buffer, !.rbsTimer = TRUE]
      BY <2>1, <2>3
    <3>2. tx' = [tx EXCEPT !.rbsTimer = TRUE]
      BY <1>4, <3>1 DEF TxRecord
    <3> QED
      BY <2>1, <2>3, <3>2
  <2> QED
    BY <2>2, <2>3
<1> HIDE DEF s, b
<1>6. delivered' = delivered
  BY <1>4 DEF delivered
<1>7. CASE accepted' = accepted /\ tx' = [tx EXCEPT !.rbsTimer = TRUE]
  <2>1. KeptFrom(tx', tx)
    <3>1. /\ tx'.buffer = tx.buffer /\ tx'.vtS = tx.vtS /\ tx'.txed = tx.txed
          /\ tx'.retx = tx.retx /\ tx'.seg = tx.seg
      BY <1>4, <1>7 DEF TxRecord
    <3> QED
      BY <3>1 DEF KeptFrom
  <2>2. Travels(channel, f, rx.vrR, tx.vtS)
    BY <1>1 DEF Stream
  <2>3. Stream(accepted, ix, off, f, tx', channel, rx)
    BY <1>1, <2>1, <2>2, StreamStays
  <2>4. \A i \in 1..Len(accepted) : accepted[i] <= offered'
    BY <1>2, <1>3
  <2>5. AmData'
    BY <1>2, <1>4, <1>7, <2>3, <2>4 DEF AmData
  <2>6. Served
    BY <1>6, <1>7 DEF Served, Service!service
  <2> QED
    BY <2>5, <2>6
<1>8. CASE accepted' = Append(accepted, s) /\ tx' = [tx EXCEPT !.buffer = b, !.rbsTimer = TRUE]
  <2>1. /\ tx'.buffer = Append(tx.buffer, FullSdu(s)) /\ tx'.vtS = tx.vtS /\ tx'.txed = tx.txed
        /\ tx'.retx = tx.retx /\ tx'.seg = tx.seg
    BY <1>4, <1>8 DEF TxRecord, b
  <2>2. Stream(accepted', ix, off, f, tx', channel, rx)
    BY <1>1, <1>2, <1>3, <1>8, <2>1, AcceptedStream
  <2>3. /\ accepted' \in Seq(Sdus) /\ Len(accepted') = Len(accepted) + 1
        /\ accepted'[Len(accepted) + 1] = s
        /\ \A i \in 1..Len(accepted) : accepted'[i] = accepted[i]
    BY <1>2, <1>3, <1>8, AppendProperties
  <2>4. \A i \in 1..Len(accepted') : accepted'[i] <= offered'
    <3> SUFFICES ASSUME NEW i \in 1..Len(accepted') PROVE accepted'[i] <= offered'
      OBVIOUS
    <3>1. CASE i = Len(accepted) + 1
      <4>1. accepted'[i] = s
        BY <2>3, <3>1
      <4> QED
        BY <1>3, <4>1
    <3>2. CASE i # Len(accepted) + 1
      <4>1. i \in 1..Len(accepted)
        BY <1>2, <2>3, <3>2
      <4>2. accepted'[i] = accepted[i] /\ accepted[i] <= offered /\ accepted[i] \in Nat
        BY <1>2, <1>3, <2>3, <4>1
      <4> QED
        BY <1>3, <4>2
    <3> QED
      BY <3>1, <3>2
  <2>5. AmData'
    BY <1>4, <2>2, <2>3, <2>4 DEF AmData
  <2>6. SubSeq(accepted', 1, Len(accepted)) = accepted
    BY <1>2, <1>8, <1>3
  <2>7. \A i \in DOMAIN accepted : accepted[i] < accepted'[Len(accepted')]
    <3> SUFFICES ASSUME NEW i \in 1..Len(accepted) PROVE accepted[i] < s
      BY <1>2, <2>3
    <3>1. accepted[i] <= offered /\ accepted[i] \in Nat
      BY <1>2, <1>3
    <3> QED
      BY <1>3, <3>1 DEF s
  <2>8. Served
    BY <1>6, <2>3, <2>6, <2>7 DEF Served, Service!Accept
  <2> QED
    BY <2>5, <2>8
<1> QED
  BY <1>5, <1>7, <1>8

\* Nothing is accepted or delivered, and the data stay what they are.
LEMMA AmDataStays ==
  ASSUME NEW ix, NEW off, NEW f, Stream(accepted, ix, off, f, tx, channel, rx), AmData,
         KeptFrom(tx', tx), Travels(channel', f, rx.vrR, tx.vtS),
         rx'.vrR = rx.vrR, rx'.buffer = rx.buffer, rx'.reassembly = rx.reassembly,
         accepted' = accepted, offered' = offered
  PROVE  AmData' /\ Served
<1>1. Stream(accepted, ix, off, f, tx', channel', rx')
  BY StreamStays
<1>2. AmData'
  BY <1>1 DEF AmData
<1>3. delivered' = delivered
  BY DEF delivered
<1> QED
  BY <1>2, <1>3 DEF Served, Service!service

\* An opportunity of the transmitting entity.
LEMMA AmDataOpportunity ==
  ASSUME AmShape, AmWindows, AmData, NEW room \in Rooms, NotifyTxOpportunity(room)
  PROVE  AmData' /\ Served
<1>1. PICK ix, off, f : Stream(accepted, ix, off, f, tx, channel, rx)
  BY DEF AmData
<1>2. /\ TxShape(tx) /\ Listed(channel) /\ rx.vrR \in Sns /\ accepted \in Seq(Sdus)
      /\ \A i \in 1..Len(accepted) : accepted[i] <= offered
  BY DEF AmShape, RxOK, RxWindow, AmData
<1>3. rx' = rx /\ accepted' = accepted /\ offered' = offered
  BY DEF NotifyTxOpportunity, receiverVars, history
<1>4. /\ Streamed(accepted, ix, off, f, rx.vrR, tx.vtS) /\ Keeps(tx, f, rx.vrR, tx.vtS)
      /\ Travels(channel, f, rx.vrR, tx.vtS)
  BY <1>1 DEF Stream
<1>5. Served
  BY <1>3 DEF delivered, Served, Service!service
<1>6. ASSUME NEW ix2, NEW off2, NEW f2, Stream(accepted, ix2, off2, f2, tx', channel', rx)
      PROVE  AmData'
  BY <1>2, <1>3, <1>6 DEF AmData
<1>7. CASE Retransmit(room)
  <2>1. room \in Nat
    BY <1>7, RlcChannelAssumption
  <2>2. PICK x : channel' = Sent(channel, x) /\ Again(x, room)
    BY <1>2, <1>7, RetransmitData
  <2>3. \A y \in Sns : Awaited(rx.vrR, tx.vtS, y) => Size(f[y]) \in Nat /\ Size(f[y]) > 0
    <3> SUFFICES ASSUME NEW y \in Sns, Awaited(rx.vrR, tx.vtS, y)
                 PROVE  Size(f[y]) \in Nat /\ Size(f[y]) > 0
      OBVIOUS
    <3>1. Carries(accepted, f[y], ix[y], off[y], ix[Follow(y)], off[Follow(y)])
      BY <1>4 DEF Streamed
    <3> QED
      BY <3>1, CarriedSize
  <2>4. Keeps(tx', f, rx.vrR, tx.vtS) /\ Travels(channel', f, rx.vrR, tx.vtS)
    BY <1>2, <1>4, <2>1, <2>2, <2>3, AgainStream
  <2>5. tx'.buffer = tx.buffer /\ tx'.vtS = tx.vtS
    BY <2>2 DEF Again
  <2>6. Stream(accepted, ix, off, f, tx', channel', rx)
    BY <1>1, <2>4, <2>5 DEF Stream
  <2> QED
    BY <1>5, <1>6, <2>6
<1>8. CASE room > 0 /\ SendNewPdu(room)
  <2>1. room \in Nat \ {0}
    BY <1>8, RlcChannelAssumption
  <2>2. PICK ix2, off2, f2 : Stream(accepted, ix2, off2, f2, tx', channel', rx)
    BY <1>1, <1>2, <1>8, <2>1, NewStream
  <2> QED
    BY <1>5, <1>6, <2>2
<1>9. CASE RetransmitNothing
  <2>1. /\ tx'.buffer = tx.buffer /\ tx'.vtS = tx.vtS /\ tx'.txed = tx.txed
        /\ tx'.retx = tx.retx /\ tx'.seg = tx.seg /\ channel' = channel
    BY <1>2, <1>9, PollingParts DEF RetransmitNothing
  <2>2. KeptFrom(tx', tx)
    BY <2>1 DEF KeptFrom
  <2> QED
    BY <1>1, <1>3, <1>4, <2>1, <2>2, AmDataStays
<1>10. CASE SendNothing(room)
  <2>1. tx' = tx /\ channel' = channel
    BY <1>10 DEF SendNothing
  <2> QED
    BY <1>1, <1>5, <1>6, <2>1
<1> QED
  BY <1>7, <1>8, <1>9, <1>10 DEF NotifyTxOpportunity

\* A data PDU arrives: what the receiving entity delivers is what is accepted next.
LEMMA AmDataRecvData ==
  ASSUME AmShape, AmWindows, AmData, NEW j \in DOMAIN channel, RecvData(j)
  PROVE  AmData' /\ Served
<1>1. PICK ix, off, f : Stream(accepted, ix, off, f, tx, channel, rx)
  BY DEF AmData
<1>2. /\ accepted \in Seq(Sdus) /\ (\A k \in 1..Len(accepted) : accepted[k] <= offered)
      /\ Len(accepted) \in Nat /\ DOMAIN accepted = 1..Len(accepted)
  BY DEF AmData
<1>3. tx' = tx /\ accepted' = accepted /\ offered' = offered
  BY DEF RecvData, senderVars, history
<1>4. /\ Stream(accepted, ix, off, f, tx, channel', rx') /\ ix[rx.vrR] <= ix[rx'.vrR]
  BY <1>1, <1>2, ReceivedStream
<1>5. AmData'
  BY <1>2, <1>3, <1>4 DEF AmData
<1> DEFINE k == ix[rx.vrR]
           m == ix[rx'.vrR]
<1>6. k \in 0..Len(accepted) /\ delivered = SubSeq(accepted, 1, k) /\ Len(delivered) = k
  <2>1. Rebuilt(accepted, rx.reassembly, rx.vrR, k, off[rx.vrR])
    BY <1>1 DEF Stream
  <2> QED
    BY <1>2, <2>1, DeliveredIs DEF delivered
<1>7. m \in 0..Len(accepted) /\ delivered' = SubSeq(accepted, 1, m)
  <2>1. Rebuilt(accepted, rx'.reassembly, rx'.vrR, m, off[rx'.vrR])
    BY <1>4 DEF Stream
  <2> DEFINE r == rx'.reassembly
  <2> HIDE DEF m, r
  <2>2. /\ m \in 0..Len(accepted)
        /\ [i \in DOMAIN r.out |-> r.out[i].sdu] = SubSeq(accepted, 1, m)
    <3>1. Rebuilt(accepted, r, rx'.vrR, m, off[rx'.vrR])
      BY <2>1 DEF r
    <3> QED
      BY <1>2, <3>1, DeliveredIs
  <2>3. delivered' = [i \in DOMAIN r.out |-> r.out[i].sdu]
    BY DEF delivered, r
  <2> QED
    BY <2>2, <2>3
<1> HIDE DEF k, m
<1>8. CASE m = k
  <2>1. delivered' = delivered
    BY <1>6, <1>7, <1>8
  <2> QED
    BY <1>3, <1>5, <2>1 DEF Served, Service!service
<1>9. CASE m > k
  <2>1. m \in DOMAIN accepted /\ m > Len(delivered)
    BY <1>2, <1>6, <1>7, <1>9
  <2> QED
    BY <1>3, <1>5, <1>7, <2>1 DEF Served, Service!DeliverNext
<1>10. m = k \/ m > k
  <2>1. k <= m
    BY <1>4 DEF k, m
  <2> QED
    BY <1>6, <1>7, <2>1
<1> QED
  BY <1>5, <1>8, <1>9, <1>10

\* Every step of either entity, and of the lower layers between them.
LEMMA AmDataNext ==
  ASSUME AmShape, AmWindows, AmData, [AmNext]_vars
  PROVE  AmData' /\ Served
<1>1. PICK ix, off, f : Stream(accepted, ix, off, f, tx, channel, rx)
  BY DEF AmData
<1>2. /\ TxShape(tx) /\ TxRecord(tx) /\ RxRecord(rx) /\ RxOK(rx) /\ Listed(channel)
      /\ Travels(channel, f, rx.vrR, tx.vtS)
  BY <1>1 DEF AmShape, TxShape, RxOK, RxWindow, Stream
<1>3. KeptFrom(tx, tx)
  BY DEF KeptFrom
<1>4. ASSUME NEW r, RxRecord(r), NEW n,
             \/ n = [r EXCEPT !.prohibitTimer = FALSE] \/ n = r
             \/ n = [r EXCEPT !.statusRequested = FALSE, !.prohibitTimer = TRUE]
      PROVE  n.vrR = r.vrR /\ n.buffer = r.buffer /\ n.reassembly = r.reassembly
  BY <1>4 DEF RxRecord
<1>5. CASE TransmitPdcpPdu
  BY <1>5, AmDataTransmit
<1>6. CASE ExpireRbsTimer
  <2>1. PICK b : tx' = [tx EXCEPT !.rbsTimer = b]
    BY <1>6 DEF ExpireRbsTimer
  <2>2. KeptFrom(tx', tx)
    BY <1>2, <2>1 DEF TxRecord, KeptFrom
  <2>3. channel' = channel /\ rx' = rx /\ accepted' = accepted /\ offered' = offered
    BY <1>6 DEF ExpireRbsTimer, receiverVars, history
  <2> QED
    BY <1>1, <1>2, <2>2, <2>3, AmDataStays
<1>7. CASE ExpirePollRetransmitTimer
  <2>1. KeptFrom(tx', tx)
    BY <1>2, <1>7, PollExpiredData
  <2>2. channel' = channel /\ rx' = rx /\ accepted' = accepted /\ offered' = offered
    BY <1>7 DEF ExpirePollRetransmitTimer, receiverVars, history
  <2> QED
    BY <1>1, <1>2, <2>1, <2>2, AmDataStays
<1>8. ASSUME NEW room \in Rooms, NotifyTxOpportunity(room) PROVE AmData' /\ Served
  BY <1>8, AmDataOpportunity
<1>9. ASSUME NEW i \in DOMAIN channel, RecvData(i) PROVE AmData' /\ Served
  BY <1>9, AmDataRecvData
<1>10. ASSUME NEW i \in DOMAIN channel, LoseData(i) PROVE AmData' /\ Served
  <2>1. Travels(channel', f, rx.vrR, tx.vtS)
    BY <1>2, <1>10, RemovedTravels DEF LoseData
  <2>2. tx' = tx /\ rx' = rx /\ accepted' = accepted /\ offered' = offered
    BY <1>10 DEF LoseData, senderVars, receiverVars
  <2> QED
    BY <1>1, <1>3, <2>1, <2>2, AmDataStays
<1>11. ASSUME NEW i \in DOMAIN statuses, RecvStatus(i) PROVE AmData' /\ Served
  <2>1. KeptFrom(tx', tx)
    BY <1>2, <1>11, StatusTakenData DEF RecvStatus
  <2>2. channel' = channel /\ rx' = rx /\ accepted' = accepted /\ offered' = offered
    BY <1>11 DEF RecvStatus, receiverVars, history
  <2> QED
    BY <1>1, <1>2, <2>1, <2>2, AmDataStays
<1>12. ASSUME NEW i \in DOMAIN statuses, LoseStatus(i) PROVE AmData' /\ Served
  <2>1. /\ tx' = tx /\ rx' = rx /\ channel' = channel
        /\ accepted' = accepted /\ offered' = offered
    BY <1>12 DEF LoseStatus, senderVars, receiverVars
  <2> QED
    BY <1>1, <1>2, <1>3, <2>1, AmDataStays
<1>13. CASE ExpireReorderingTimer
  <2> DEFINE m == FirstIncomplete(rx, rx.vrX)
             g == Dist(rx.vrR, rx.vrH) > Dist(rx.vrR, m)
             x == IF g THEN rx.vrH ELSE rx.vrX
  <2>1. rx' = [rx EXCEPT !.vrMs = m, !.timer = g, !.vrX = x, !.statusRequested = TRUE]
    BY <1>13 DEF ExpireReorderingTimer
  <2>2. tx' = tx /\ channel' = channel /\ accepted' = accepted /\ offered' = offered
    BY <1>13 DEF ExpireReorderingTimer, senderVars, history
  <2> HIDE DEF m, g, x
  <2>3. rx'.vrR = rx.vrR /\ rx'.buffer = rx.buffer /\ rx'.reassembly = rx.reassembly
    BY <1>2, <2>1 DEF RxRecord
  <2> QED
    BY <1>1, <1>2, <1>3, <2>2, <2>3, AmDataStays
<1>14. CASE ExpireStatusProhibitTimer
  <2>1. /\ rx' = [rx EXCEPT !.prohibitTimer = FALSE]
        /\ tx' = tx /\ channel' = channel /\ accepted' = accepted /\ offered' = offered
    BY <1>14 DEF ExpireStatusProhibitTimer, senderVars, history
  <2>2. rx'.vrR = rx.vrR /\ rx'.buffer = rx.buffer /\ rx'.reassembly = rx.reassembly
    BY <1>2, <1>4, <2>1
  <2> QED
    BY <1>1, <1>2, <1>3, <2>1, <2>2, AmDataStays
<1>15. ASSUME NEW room \in NackRooms, NotifyStatusOpportunity(room) PROVE AmData' /\ Served
  <2>1. /\ \/ rx' = [rx EXCEPT !.statusRequested = FALSE, !.prohibitTimer = TRUE]
           \/ rx' = rx
        /\ tx' = tx /\ channel' = channel /\ accepted' = accepted /\ offered' = offered
    BY <1>15 DEF NotifyStatusOpportunity, senderVars, history
  <2>2. rx'.vrR = rx.vrR /\ rx'.buffer = rx.buffer /\ rx'.reassembly = rx.reassembly
    BY <1>2, <1>4, <2>1
  <2> QED
    BY <1>1, <1>2, <1>3, <2>1, <2>2, AmDataStays
<1>16. CASE UNCHANGED vars
  <2>1. /\ tx' = tx /\ rx' = rx /\ channel' = channel
        /\ accepted' = accepted /\ offered' = offered
    BY <1>16 DEF vars, senderVars, receiverVars, history
  <2> QED
    BY <1>1, <1>2, <1>3, <2>1, AmDataStays
<1> QED
  BY <1>5, <1>6, <1>7, <1>8, <1>9, <1>10, <1>11, <1>12, <1>13, <1>14, <1>15, <1>16 DEF AmNext

\* The inductive invariant holds of every state.
LEMMA AmDataInvariant ==
  ASSUME StatusDepth = 0
  PROVE  AmSpec => [](AmInv /\ AmData)
<1>1. AmInit => AmInv /\ AmData
  BY AmShapeInit, AmWindowsInit, AmDataInit DEF AmInv
<1>2. AmInv /\ AmData /\ [AmNext]_vars => AmInv' /\ AmData'
  BY AmShapeNext, AmWindowsNext, AmDataNext DEF AmInv
<1> QED
  BY <1>1, <1>2, PTL DEF AmSpec

\* As long as STATUS PDUs arrive in order, PDCP only ever gets whole SDUs, and a PDU
\* put together from segments has neither holes nor bytes twice (lte-rlc-am.cc,
\* DoReceivePdu and ReassembleAndDeliver).
THEOREM AmDeliversWhole ==
  ASSUME StatusDepth = 0
  PROVE  AmSpec => []AmWhole
<1>1. AmData => AmWhole
  <2> SUFFICES ASSUME AmData PROVE AmWhole
    OBVIOUS
  <2>1. PICK ix, off, f : Stream(accepted, ix, off, f, tx, channel, rx)
    BY DEF AmData
  <2>2. \A sn \in DOMAIN rx.buffer :
          rx.buffer[sn].complete => rx.buffer[sn].size = Size(rx.buffer[sn].pdu)
    BY <2>1 DEF Stream, Collected, Filled
  <2>3. Rebuilt(accepted, rx.reassembly, rx.vrR, ix[rx.vrR], off[rx.vrR])
    BY <2>1 DEF Stream
  <2>4. /\ rx.reassembly.left = <<>>
        /\ \A i \in DOMAIN rx.reassembly.out : Whole(rx.reassembly.out[i])
    <3>1. accepted \in Seq(Sdus)
      BY DEF AmData
    <3> QED
      BY <2>3, <3>1, DeliveredIs
  <2> QED
    BY <2>2, <2>4 DEF AmWhole
<1> QED
  BY <1>1, AmDataInvariant, PTL

\* Then RLC AM implements what it promises to PDCP (RlcService): the SDUs accepted by
\* DoTransmitPdcpPdu come out whole, in order, without gaps or repetitions.
THEOREM AmKeepsPromise ==
  ASSUME StatusDepth = 0
  PROVE  AmSpec => AmKeepsItsPromise
<1>1. AmInit => Service!ServiceInit
  BY DEF AmInit, Service!ServiceInit, delivered, Reassembly0
<1>2. AmInv /\ AmData /\ [AmNext]_vars
        => [Service!Accept \/ Service!DeliverNext]_(Service!service)
  BY AmDataNext DEF AmInv, Served
<1> QED
  BY <1>1, <1>2, AmDataInvariant, PTL DEF AmSpec, AmKeepsItsPromise, Service!AcknowledgedService
=============================================================================
