----------------------------- MODULE RlcUmProofs ------------------------------
(***************************************************************************)
(* The RLC UM entities of RlcUm, for any window, SDU lengths, opportunities, *)
(* HARQ and losses, as long as nothing that matters is farther apart than    *)
(* half the sequence numbers (InStep); so it is as long as no more PDUs are  *)
(* sent than that (UmStaysInStep).                                         *)
(***************************************************************************)
EXTENDS RlcUm, RlcPduProofs

-----------------------------------------------------------------------------
(* Numbers on a ring.                                                      *)

\* How far x lies above b, and the number above x.
Dist(b, x) == (x - b) % Modulus
Follow(x)  == (x + 1) % Modulus

\* The ring has two windows of numbers.
LEMMA Ring ==
  /\ Window \in Nat \ {0} /\ Modulus = 2 * Window /\ Modulus \in Nat \ {0}
  /\ \A x : x \in Sns <=> x \in Nat /\ x < Modulus
BY UmAssumption DEF Modulus, Sns

\* The distance of two numbers, without the remainder.
LEMMA DistIs ==
  \A b, x \in Sns : Dist(b, x) = IF b <= x THEN x - b ELSE x - b + Modulus
<1> SUFFICES ASSUME NEW b \in Sns, NEW x \in Sns
             PROVE  Dist(b, x) = IF b <= x THEN x - b ELSE x - b + Modulus
  OBVIOUS
<1>1. Modulus \in Nat \ {0} /\ b \in 0..(Modulus - 1) /\ x \in 0..(Modulus - 1)
  BY Ring DEF Sns
<1> HIDE DEF Modulus
<1> QED
  BY <1>1 DEF Dist

\* The number that is n above b, without the remainder.
LEMMA PlusIs ==
  \A b \in Sns : \A n \in 0..Modulus :
    (b + n) % Modulus = IF b + n < Modulus THEN b + n ELSE b + n - Modulus
<1> SUFFICES ASSUME NEW b \in Sns, NEW n \in 0..Modulus
             PROVE  (b + n) % Modulus = IF b + n < Modulus THEN b + n ELSE b + n - Modulus
  OBVIOUS
<1>1. Modulus \in Nat \ {0} /\ b \in 0..(Modulus - 1)
  BY Ring DEF Sns
<1> HIDE DEF Modulus
<1> QED
  BY <1>1

\* Distances are numbers below the modulus, 0 only for the number itself.
LEMMA DistRange ==
  \A b, x \in Sns : Dist(b, x) \in Nat /\ Dist(b, x) < Modulus /\ (Dist(b, x) = 0 <=> x = b)
BY DistIs, Ring

\* Numbers equally far from a third are equal.
LEMMA DistSame == \A b, x, y \in Sns : Dist(b, x) = Dist(b, y) => x = y
BY DistIs, Ring

\* Seen from another number.
LEMMA Rebase ==
  \A b, c, x \in Sns :
    Dist(c, x) = IF Dist(b, c) <= Dist(b, x) THEN Dist(b, x) - Dist(b, c)
                 ELSE Dist(b, x) - Dist(b, c) + Modulus
<1> SUFFICES ASSUME NEW b \in Sns, NEW c \in Sns, NEW x \in Sns
             PROVE  Dist(c, x) = IF Dist(b, c) <= Dist(b, x) THEN Dist(b, x) - Dist(b, c)
                                 ELSE Dist(b, x) - Dist(b, c) + Modulus
  OBVIOUS
<1>1. /\ Dist(b, c) = IF b <= c THEN c - b ELSE c - b + Modulus
      /\ Dist(b, x) = IF b <= x THEN x - b ELSE x - b + Modulus
      /\ Dist(c, x) = IF c <= x THEN x - c ELSE x - c + Modulus
  BY DistIs
<1>2. /\ Modulus \in Nat /\ b \in Nat /\ c \in Nat /\ x \in Nat
      /\ b < Modulus /\ c < Modulus /\ x < Modulus
  BY Ring
<1> QED
  BY <1>1, <1>2

\* The number n above b is n away from b.
LEMMA PlusDist ==
  \A b \in Sns : \A n \in 0..(Modulus - 1) :
    (b + n) % Modulus \in Sns /\ Dist(b, (b + n) % Modulus) = n
<1> SUFFICES ASSUME NEW b \in Sns, NEW n \in 0..(Modulus - 1)
             PROVE  (b + n) % Modulus \in Sns /\ Dist(b, (b + n) % Modulus) = n
  OBVIOUS
<1> DEFINE y == (b + n) % Modulus
<1>1. /\ Modulus \in Nat /\ b \in Nat /\ b < Modulus /\ n \in Nat /\ n < Modulus
      /\ n \in 0..Modulus
  BY Ring
<1>2. y = IF b + n < Modulus THEN b + n ELSE b + n - Modulus
  BY <1>1, PlusIs
<1> HIDE DEF y
<1>3. y \in Sns
  BY <1>1, <1>2, Ring
<1>4. Dist(b, y) = IF b <= y THEN y - b ELSE y - b + Modulus
  BY <1>3, DistIs
<1>5. Dist(b, y) = n
  BY <1>1, <1>2, <1>4
<1> QED
  BY <1>3, <1>5 DEF y

\* What lies as far above b as x does is x.
LEMMA DistPlus == \A b, x \in Sns : (b + Dist(b, x)) % Modulus = x
<1> SUFFICES ASSUME NEW b \in Sns, NEW x \in Sns PROVE (b + Dist(b, x)) % Modulus = x
  OBVIOUS
<1>1. Dist(b, x) \in 0..(Modulus - 1)
  BY DistRange, Ring
<1>2. /\ (b + Dist(b, x)) % Modulus \in Sns
      /\ Dist(b, (b + Dist(b, x)) % Modulus) = Dist(b, x)
  BY <1>1, PlusDist
<1> QED
  BY <1>2, DistSame

\* The next number.
LEMMA Following ==
  \A b, x \in Sns :
    /\ Follow(x) \in Sns
    /\ Dist(b, Follow(x)) = IF Dist(b, x) = Modulus - 1 THEN 0 ELSE Dist(b, x) + 1
<1> SUFFICES ASSUME NEW b \in Sns, NEW x \in Sns
             PROVE  /\ Follow(x) \in Sns
                    /\ Dist(b, Follow(x)) = IF Dist(b, x) = Modulus - 1 THEN 0 ELSE Dist(b, x) + 1
  OBVIOUS
<1> DEFINE y == Follow(x)
<1>1. /\ Window \in Nat \ {0} /\ Modulus = 2 * Window /\ Modulus \in Nat
      /\ b \in Nat /\ b < Modulus /\ x \in Nat /\ x < Modulus /\ 1 \in 0..Modulus
  BY Ring
<1>2. y = IF x + 1 < Modulus THEN x + 1 ELSE x + 1 - Modulus
  BY <1>1, PlusIs DEF Follow
<1> HIDE DEF y
<1>3. y \in Sns
  BY <1>1, <1>2, Ring
<1>4. /\ Dist(b, y) = IF b <= y THEN y - b ELSE y - b + Modulus
      /\ Dist(b, x) = IF b <= x THEN x - b ELSE x - b + Modulus
  BY <1>3, DistIs
<1>5. Dist(b, y) = IF Dist(b, x) = Modulus - 1 THEN 0 ELSE Dist(b, x) + 1
  BY <1>1, <1>2, <1>4
<1> QED
  BY <1>3, <1>5 DEF y

\* The distance from the lower edge of the reordering window, without the remainder.
LEMMA OffsetIs ==
  \A u, x \in Sns :
    Offset(u, x) = IF x - u + Window < 0 THEN x - u + Window + Modulus
                   ELSE IF x - u + Window >= Modulus THEN x - u + Window - Modulus
                   ELSE x - u + Window
<1> SUFFICES ASSUME NEW u \in Sns, NEW x \in Sns
             PROVE  Offset(u, x) = IF x - u + Window < 0 THEN x - u + Window + Modulus
                                   ELSE IF x - u + Window >= Modulus THEN x - u + Window - Modulus
                                   ELSE x - u + Window
  OBVIOUS
<1> DEFINE d == x - u + Window
<1>1. /\ Modulus \in Nat \ {0} /\ u \in 0..(Modulus - 1) /\ x \in 0..(Modulus - 1)
      /\ Window \in Nat /\ Modulus = 2 * Window
  BY Ring DEF Sns
<1>2. d \in Int /\ d < Modulus + Modulus /\ 0 - Modulus <= d
  BY <1>1
<1>3. Offset(u, x) = d % Modulus
  BY DEF Offset
<1> HIDE DEF Modulus, d
<1>4. d % Modulus = IF d < 0 THEN d + Modulus ELSE IF d >= Modulus THEN d - Modulus ELSE d
  <2>1. CASE d < 0
    BY <1>1, <1>2, <2>1
  <2>2. CASE 0 <= d /\ d < Modulus
    BY <1>1, <1>2, <2>2
  <2>3. CASE d >= Modulus
    <3>1. x - u \in Sns /\ Window \in 0..Modulus /\ d = x - u + Window
      BY <1>1, <2>3, Ring DEF d
    <3> QED
      BY <1>1, <2>3, <3>1, PlusIs
  <2> QED
    BY <1>1, <1>2, <2>1, <2>2, <2>3
<1>5. Offset(u, x) = IF d < 0 THEN d + Modulus ELSE IF d >= Modulus THEN d - Modulus ELSE d
  BY <1>3, <1>4
<1> QED
  BY <1>1, <1>2, <1>5 DEF d

\* Seen from b, the window up to u and a number x less than a window above u
LEMMA OffsetAbove ==
  ASSUME NEW b \in Sns, NEW u \in Sns, NEW x \in Sns,
         Dist(b, u) <= Window, Dist(b, x) <= Window, Dist(b, x) - Dist(b, u) < Window
  PROVE  Offset(u, x) = Window + Dist(b, x) - Dist(b, u)
<1>1. /\ Dist(b, u) = IF b <= u THEN u - b ELSE u - b + Modulus
      /\ Dist(b, x) = IF b <= x THEN x - b ELSE x - b + Modulus
  BY DistIs
<1>2. /\ Modulus \in Nat /\ b \in Nat /\ u \in Nat /\ x \in Nat /\ Window \in Nat
      /\ b < Modulus /\ u < Modulus /\ x < Modulus /\ Modulus = 2 * Window /\ Window > 0
  BY Ring
<1>3. Offset(u, x) = IF x - u + Window < 0 THEN x - u + Window + Modulus
                     ELSE IF x - u + Window >= Modulus THEN x - u + Window - Modulus
                     ELSE x - u + Window
  BY OffsetIs
<1> QED
  BY <1>1, <1>2, <1>3

\* and a number below b.
LEMMA OffsetBelow ==
  ASSUME NEW b \in Sns, NEW u \in Sns, NEW x \in Sns,
         Dist(x, b) > 0, Dist(b, u) + Dist(x, b) <= Window
  PROVE  Offset(u, x) = Window - Dist(b, u) - Dist(x, b)
<1>1. /\ Dist(b, u) = IF b <= u THEN u - b ELSE u - b + Modulus
      /\ Dist(x, b) = IF x <= b THEN b - x ELSE b - x + Modulus
  BY DistIs
<1>2. /\ Modulus \in Nat /\ b \in Nat /\ u \in Nat /\ x \in Nat /\ Window \in Nat
      /\ b < Modulus /\ u < Modulus /\ x < Modulus /\ Modulus = 2 * Window /\ Window > 0
  BY Ring
<1>3. Offset(u, x) = IF x - u + Window < 0 THEN x - u + Window + Modulus
                     ELSE IF x - u + Window >= Modulus THEN x - u + Window - Modulus
                     ELSE x - u + Window
  BY OffsetIs
<1> QED
  BY <1>1, <1>2, <1>3

-----------------------------------------------------------------------------
(* The reassembly of what is buffered under a sequence of numbers.           *)

\* One turn of the loop.
Taken(buffer, r, x) == IF x \in DOMAIN buffer THEN ReassembleAndDeliver(r, buffer[x]) ELSE r

\* The reassembly h[k] after the first k numbers.
Turns(h, r, buffer, q, n) ==
  /\ h[0] = r
  /\ h[n] = Reassembled(r, buffer, q)
  /\ \A k \in 1..n : h[k] = Taken(buffer, h[k - 1], q[k])

\* The loop goes through the numbers one after the other.
LEMMA ReassembledSteps ==
  ASSUME NEW q, NEW buffer, NEW r, NEW n \in Nat, DOMAIN q = 1..n
  PROVE  \E h : Turns(h, r, buffer, q, n)
<1> DEFINE Iter(f, m) == f = [s \in SUBSET (1..m) |->
                                IF s = {} THEN r ELSE Taken(buffer, f[s \ {Max(s)}], q[Max(s)])]
           S == {m \in Nat : \E f : Iter(f, m)}
<1>1. 0 \in S
  <2> DEFINE f == [s \in SUBSET (1..0) |-> r]
  <2>1. Iter(f, 0)
    <3>1. \A s \in SUBSET (1..0) : s = {}
      OBVIOUS
    <3> QED
      BY <3>1
  <2> QED
    BY <2>1
<1>2. ASSUME NEW m \in Nat, m \in S PROVE m + 1 \in S
  <2>1. PICK f : Iter(f, m)
    BY <1>2
  <2> DEFINE g == [s \in SUBSET (1..(m + 1)) |->
                     IF m + 1 \notin s THEN f[s] ELSE Taken(buffer, f[s \ {m + 1}], q[m + 1])]
  <2>2. ASSUME NEW s \in SUBSET (1..(m + 1))
        PROVE  g[s] = IF s = {} THEN r ELSE Taken(buffer, g[s \ {Max(s)}], q[Max(s)])
    <3>1. CASE s = {}
      <4>1. g[s] = f[s] /\ s \in SUBSET (1..m)
        BY <3>1
      <4> HIDE DEF g
      <4> QED
        BY <2>1, <3>1, <4>1
    <3>2. CASE s # {}
      <4>1. /\ Max(s) \in s /\ s \ {Max(s)} \in SUBSET (1..m)
            /\ m + 1 \in s => Max(s) = m + 1
        BY <3>2, OnePositionMore
      <4>2. g[s \ {Max(s)}] = f[s \ {Max(s)}]
        BY <4>1
      <4>3. CASE m + 1 \in s
        <5>1. g[s] = Taken(buffer, f[s \ {m + 1}], q[m + 1])
          BY <4>3
        <5> HIDE DEF g
        <5> QED
          BY <3>2, <4>1, <4>2, <4>3, <5>1
      <4>4. CASE m + 1 \notin s
        <5>1. g[s] = f[s] /\ s \in SUBSET (1..m)
          BY <4>4
        <5> HIDE DEF g
        <5>2. f[s] = Taken(buffer, f[s \ {Max(s)}], q[Max(s)])
          BY <2>1, <3>2, <5>1
        <5> QED
          BY <3>2, <4>2, <5>1, <5>2
      <4> QED
        BY <4>3, <4>4
    <3> QED
      BY <3>1, <3>2
  <2>3. Iter(g, m + 1)
    <3>1. g = [s \in SUBSET (1..(m + 1)) |-> g[s]]
      OBVIOUS
    <3> HIDE DEF g
    <3> QED
      BY <2>2, <3>1
  <2> HIDE DEF g, Iter
  <2> QED
    BY <2>3
<1>3. \E f : Iter(f, n)
  <2>1. n \in S
    <3> HIDE DEF S
    <3> QED
      BY <1>1, <1>2, NatInd
  <2> QED
    BY <2>1
<1> DEFINE f == CHOOSE f : Iter(f, n)
           h == [k \in 0..n |-> f[1..k]]
<1>4. Iter(f, n)
  BY <1>3
<1>5. Reassembled(r, buffer, q) = f[1..n]
  BY DEF Reassembled, Taken, FoldLeft, MapThenFoldSet
<1> HIDE DEF f
<1>6. h[0] = r
  <2>1. 1..0 = {} /\ {} \in SUBSET (1..n)
    OBVIOUS
  <2>2. f[{}] = r
    BY <1>4, <2>1
  <2> QED
    BY <2>1, <2>2
<1>7. ASSUME NEW k \in 1..n PROVE h[k] = Taken(buffer, h[k - 1], q[k])
  <2>1. Max(1..k) = k /\ 1..k # {} /\ (1..k) \ {Max(1..k)} = 1..(k - 1)
    <3>1. k \in Nat \ {0}
      OBVIOUS
    <3> QED
      BY <3>1, LastPosition
  <2>2. f[1..k] = Taken(buffer, f[(1..k) \ {Max(1..k)}], q[Max(1..k)])
    <3>1. 1..k \in SUBSET (1..n)
      OBVIOUS
    <3> QED
      BY <1>4, <2>1, <3>1
  <2>3. h[k] = f[1..k] /\ h[k - 1] = f[1..(k - 1)]
    OBVIOUS
  <2> HIDE DEF h
  <2> QED
    BY <2>1, <2>2, <2>3
<1>8. h[n] = f[1..n]
  OBVIOUS
<1> HIDE DEF h
<1> QED
  BY <1>5, <1>6, <1>7, <1>8 DEF Turns

\* Nothing is buffered under any of the numbers.
LEMMA ReassembledNothing ==
  ASSUME NEW q, NEW buffer, NEW r, NEW n \in Nat, DOMAIN q = 1..n,
         \A k \in 1..n : q[k] \notin DOMAIN buffer
  PROVE  Reassembled(r, buffer, q) = r
<1>1. PICK h : /\ h[0] = r
               /\ h[n] = Reassembled(r, buffer, q)
               /\ \A k \in 1..n : h[k] = Taken(buffer, h[k - 1], q[k])
  BY ReassembledSteps DEF Turns
<1> DEFINE S == {k \in Nat : k <= n => h[k] = r}
<1>2. 0 \in S
  BY <1>1
<1>3. ASSUME NEW k \in Nat, k \in S PROVE k + 1 \in S
  <2>1. ASSUME k + 1 <= n PROVE h[k + 1] = r
    <3>1. k + 1 \in 1..n /\ k + 1 - 1 = k /\ k <= n
      BY <2>1
    <3>2. h[k + 1] = Taken(buffer, h[k], q[k + 1])
      BY <1>1, <3>1
    <3>3. h[k] = r
      BY <1>3, <3>1
    <3> QED
      BY <3>1, <3>2, <3>3 DEF Taken
  <2> QED
    BY <2>1
<1>4. n \in S
  <2> HIDE DEF S
  <2> QED
    BY <1>2, <1>3, NatInd
<1> QED
  BY <1>1, <1>4

-----------------------------------------------------------------------------
(* The receiving entity.                                                   *)

RxState(ur, ux, uh, timer, buffer, reassembly) ==
  [ur |-> ur, ux |-> ux, uh |-> uh, timer |-> timer, buffer |-> buffer,
   reassembly |-> reassembly]

\* The n numbers from a on, and a buffer without them.
Numbers(a, n)     == [i \in 1..n |-> (a + i - 1) % Modulus]
Cut(buffer, a, n) == [y \in {x \in DOMAIN buffer : Dist(a, x) >= n} |-> buffer[y]]

\* A reception buffer is a function.
IsMap(b) == b = [y \in DOMAIN b |-> b[y]]

\* What the numbers from a on are.
LEMMA NumbersAre ==
  ASSUME NEW a \in Sns, NEW n \in 0..(Modulus - 1)
  PROVE  /\ n \in Nat /\ DOMAIN Numbers(a, n) = 1..n
         /\ \A i \in 1..n : /\ Numbers(a, n)[i] = (a + (i - 1)) % Modulus
                            /\ Numbers(a, n)[i] \in Sns /\ Dist(a, Numbers(a, n)[i]) = i - 1
         /\ Range(Numbers(a, n)) = {y \in Sns : Dist(a, y) < n}
<1> DEFINE q == Numbers(a, n)
<1>1. n \in Nat /\ n < Modulus /\ Modulus \in Nat /\ a \in Nat
  BY Ring
<1>2. DOMAIN q = 1..n /\ \A i \in 1..n : q[i] = (a + (i - 1)) % Modulus
  <2>1. \A i \in 1..n : a + i - 1 = a + (i - 1)
    BY <1>1
  <2> QED
    BY <2>1 DEF Numbers
<1> HIDE DEF q
<1>3. ASSUME NEW i \in 1..n PROVE q[i] \in Sns /\ Dist(a, q[i]) = i - 1
  <2>1. i - 1 \in 0..(Modulus - 1)
    BY <1>1
  <2> QED
    BY <1>2, <2>1, PlusDist
<1>4. ASSUME NEW y \in Sns, Dist(a, y) < n PROVE y \in Range(q)
  <2> DEFINE i == Dist(a, y) + 1
  <2>1. Dist(a, y) \in Nat
    BY DistRange
  <2>2. i \in 1..n /\ i - 1 = Dist(a, y)
    BY <1>1, <1>4, <2>1
  <2>3. q[i] = y
    BY <1>3, <2>2, DistSame
  <2> HIDE DEF i
  <2> QED
    BY <1>2, <2>2, <2>3 DEF Range
<1>5. ASSUME NEW y \in Range(q) PROVE y \in Sns /\ Dist(a, y) < n
  <2>1. PICK i \in 1..n : y = q[i]
    BY <1>2, <1>5 DEF Range
  <2>2. y \in Sns /\ Dist(a, y) = i - 1 /\ i - 1 < n
    BY <1>1, <1>3, <2>1
  <2> QED
    BY <2>2
<1>6. Range(q) = {y \in Sns : Dist(a, y) < n}
  BY <1>4, <1>5
<1> QED
  BY <1>1, <1>2, <1>3, <1>6 DEF q

\* ReassembleSnInterval takes the numbers from VR(UR) to its new value.
LEMMA IntervalIs ==
  ASSUME NEW ur \in Sns, NEW ux, NEW uh \in Sns, NEW timer, NEW b, NEW re, DOMAIN b \subseteq Sns,
         NEW v \in Sns, Dist(ur, v) <= Dist(ur, uh), Dist(ur, uh) <= Window
  PROVE  ReassembleSnInterval(RxState(ur, ux, uh, timer, b, re), v)
           = RxState(v, ux, uh, timer, Cut(b, ur, Dist(ur, v)),
                     Reassembled(re, b, Numbers(ur, Dist(ur, v))))
<1> DEFINE n == Dist(ur, v)
           h == Dist(ur, uh)
           s == RxState(ur, ux, uh, timer, b, re)
           count == Offset(uh, v) - Offset(uh, ur)
<1>1. /\ n \in Nat /\ h \in Nat /\ n <= h /\ h <= Window /\ Window \in Nat \ {0}
      /\ Dist(ur, ur) = 0 /\ n \in 0..(Modulus - 1)
  BY DistRange, Ring
<1>2. count = n
  <2>1. n <= Window /\ n - h < Window /\ Dist(ur, ur) - h < Window /\ Dist(ur, ur) <= Window
    BY <1>1
  <2>2. Offset(uh, v) = Window + n - h
    BY <1>1, <2>1, OffsetAbove
  <2>3. Offset(uh, ur) = Window + 0 - h
    BY <1>1, <2>1, OffsetAbove
  <2> HIDE DEF n, h
  <2> QED
    BY <1>1, <2>2, <2>3
<1> HIDE DEF count, n, h
<1> DEFINE q == [i \in 1..count |-> (ur + i - 1) % Modulus]
<1>3. q = Numbers(ur, n)
  BY <1>2 DEF Numbers
<1>4. Without(b, Range(q)) = Cut(b, ur, n)
  <2>0. Range(Numbers(ur, n)) = {y \in Sns : Dist(ur, y) < n}
    BY <1>1, NumbersAre
  <2> HIDE DEF q
  <2>1. Range(q) = {y \in Sns : Dist(ur, y) < n}
    BY <1>3, <2>0
  <2>2. ASSUME NEW y \in DOMAIN b PROVE y \notin Range(q) <=> Dist(ur, y) >= n
    <3>1. y \in Sns /\ Dist(ur, y) \in Nat
      BY DistRange
    <3> QED
      BY <1>1, <2>1, <3>1
  <2>3. DOMAIN b \ Range(q) = {y \in DOMAIN b : Dist(ur, y) >= n}
    BY <2>2
  <2> QED
    BY <2>3 DEF Without, Restrict, Cut
<1>5. ReassembleSnInterval(s, v)
        = [s EXCEPT !.ur = v, !.buffer = Without(@, Range(q)), !.reassembly = Reassembled(@, b, q)]
  BY DEF ReassembleSnInterval, RxState, count
<1> HIDE DEF q
<1>6. ReassembleSnInterval(s, v)
        = RxState(v, ux, uh, timer, Without(b, Range(q)), Reassembled(re, b, q))
  BY <1>5 DEF RxState
<1> QED
  BY <1>3, <1>4, <1>6 DEF n, s

\* The window moves up to a number above; nothing falls out of it.
LEMMA MoveWindowIs ==
  ASSUME NEW ur \in Sns, NEW ux, NEW uh \in Sns, NEW timer, NEW b, NEW re, DOMAIN b \subseteq Sns,
         IsMap(b), NEW x \in DOMAIN b, Dist(ur, x) < Window,
         Dist(ur, uh) <= Window, \A y \in DOMAIN b : Dist(ur, y) < Dist(ur, uh) \/ y = x
  PROVE  MoveWindow(RxState(ur, ux, uh, timer, b, re), x)
           = RxState(ur, ux, IF Dist(ur, x) < Dist(ur, uh) THEN uh ELSE Follow(x), timer, b, re)
<1> DEFINE d == Dist(ur, x)
           h == Dist(ur, uh)
           s == RxState(ur, ux, uh, timer, b, re)
           z == Follow(x)
           t == RxState(ur, ux, z, timer, b, re)
<1>1. /\ d \in Nat /\ h \in Nat /\ h <= Window /\ Window \in Nat \ {0} /\ x \in Sns
      /\ Dist(ur, ur) = 0 /\ d < Window /\ Modulus = 2 * Window /\ Modulus \in Nat
  BY DistRange, Ring
<1>2. IsInsideReorderingWindow(uh, x) <=> d < h
  <2>1. Offset(uh, x) = Window + d - h
    <3>1. d <= Window /\ d - h < Window
      BY <1>1
    <3> QED
      BY <1>1, <3>1, OffsetAbove
  <2> HIDE DEF d, h
  <2> QED
    BY <1>1, <2>1 DEF IsInsideReorderingWindow
<1>3. s.uh = uh
  BY DEF RxState
<1>4. CASE d < h
  BY <1>2, <1>3, <1>4 DEF MoveWindow
<1>5. CASE ~(d < h)
  <2>1. z \in Sns /\ Dist(ur, z) = d + 1
    <3>1. z \in Sns /\ Dist(ur, z) = IF d = Modulus - 1 THEN 0 ELSE d + 1
      BY <1>1, Following
    <3> HIDE DEF d, z
    <3> QED
      BY <1>1, <3>1
  <2> HIDE DEF z
  <2>2. ASSUME NEW y \in DOMAIN b \union {ur} PROVE IsInsideReorderingWindow(z, y)
    <3>1. y \in Sns /\ Dist(ur, y) \in Nat /\ Dist(ur, y) <= d
      <4>1. y \in Sns /\ Dist(ur, y) \in Nat
        BY DistRange
      <4>2. Dist(ur, y) < h \/ y = x \/ y = ur
        OBVIOUS
      <4>3. CASE Dist(ur, y) < h
        <5> HIDE DEF d, h
        <5> QED
          BY <1>1, <1>5, <4>1, <4>3
      <4>4. CASE y = x \/ y = ur
        BY <1>1, <4>1, <4>4
      <4> QED
        BY <4>1, <4>2, <4>3, <4>4
    <3>2. Offset(z, y) = Window + Dist(ur, y) - Dist(ur, z)
      <4>1. /\ Dist(ur, z) <= Window /\ Dist(ur, y) <= Window
            /\ Dist(ur, y) - Dist(ur, z) < Window
        <5> HIDE DEF d
        <5> QED
          BY <1>1, <2>1, <3>1
      <4> QED
        BY <2>1, <3>1, <4>1, OffsetAbove
    <3> HIDE DEF d
    <3> QED
      BY <1>1, <2>1, <3>1, <3>2 DEF IsInsideReorderingWindow
  <2>3. OutsideWindow(z, b) = {}
    <3> SUFFICES ASSUME NEW sn \in DOMAIN b,
                        \A low \in DOMAIN b : low <= sn => ~IsInsideReorderingWindow(z, low)
                 PROVE  FALSE
      BY DEF OutsideWindow
    <3>1. sn <= sn
      BY Ring
    <3> QED
      BY <2>2, <3>1
  <2>4. Without(b, {}) = b
    BY DEF Without, Restrict, IsMap
  <2>5. Reassembled(re, Restrict(b, {}), [i \in 1..Modulus |-> i - 1]) = re
    <3> DEFINE q == [i \in 1..Modulus |-> i - 1]
               c == Restrict(b, {})
    <3>1. DOMAIN q = 1..Modulus /\ DOMAIN c = {}
      BY DEF Restrict
    <3> HIDE DEF q, c
    <3>2. Reassembled(re, c, q) = re
      BY <1>1, <3>1, ReassembledNothing
    <3> QED
      BY <3>2 DEF q, c
  <2>6. ReassembleOutsideWindow(t) = t
    <3>1. t.uh = z /\ t.buffer = b /\ t.reassembly = re
      BY DEF RxState
    <3>2. ReassembleOutsideWindow(t)
            = [t EXCEPT !.buffer = Without(b, {}),
                        !.reassembly =
                           Reassembled(re, Restrict(b, {}), [i \in 1..Modulus |-> i - 1])]
      BY <2>3, <3>1 DEF ReassembleOutsideWindow
    <3>3. ReassembleOutsideWindow(t) = [t EXCEPT !.buffer = b, !.reassembly = re]
      BY <2>4, <2>5, <3>2
    <3> QED
      BY <3>3 DEF RxState
  <2>7. [s EXCEPT !.uh = (x + 1) % Modulus] = t
    BY DEF RxState, z, Follow
  <2>8. IsInsideReorderingWindow(t.uh, t.ur)
    BY <2>2 DEF RxState
  <2>9. MoveWindow(s, x) = t
    <3>1. ~IsInsideReorderingWindow(s.uh, x)
      BY <1>2, <1>3, <1>5
    <3> HIDE DEF s, t
    <3> QED
      BY <2>6, <2>7, <2>8, <3>1 DEF MoveWindow
  <2>10. (IF d < h THEN uh ELSE z) = z
    BY <1>5
  <2> QED
    BY <2>9, <2>10 DEF z
<1> QED
  BY <1>4, <1>5

\* What is cut off and reassembled when VR(UR) does not move.
LEMMA CutNothing ==
  ASSUME NEW ur \in Sns, NEW b, NEW re, DOMAIN b \subseteq Sns, IsMap(b)
  PROVE  (ur + 0) % Modulus = ur /\ Cut(b, ur, 0) = b /\ Reassembled(re, b, Numbers(ur, 0)) = re
<1>1. Dist(ur, ur) = 0 /\ 0 \in Nat /\ 0 \in 0..(Modulus - 1)
  BY DistRange, Ring
<1>2. (ur + 0) % Modulus = ur
  BY <1>1, DistPlus
<1>3. Cut(b, ur, 0) = b
  <2>1. {x \in DOMAIN b : Dist(ur, x) >= 0} = DOMAIN b
    <3>1. \A x \in DOMAIN b : Dist(ur, x) >= 0
      BY DistRange
    <3> QED
      BY <3>1
  <2>2. Cut(b, ur, 0) = [y \in DOMAIN b |-> b[y]]
    BY <2>1 DEF Cut
  <2> QED
    BY <2>2 DEF IsMap
<1>4. Reassembled(re, b, Numbers(ur, 0)) = re
  <2> DEFINE q == Numbers(ur, 0)
  <2>1. DOMAIN q = 1..0
    BY <1>1, NumbersAre
  <2>2. \A k \in 1..0 : q[k] \notin DOMAIN b
    OBVIOUS
  <2> HIDE DEF q
  <2>3. Reassembled(re, b, q) = re
    BY <1>1, <2>1, <2>2, ReassembledNothing
  <2> QED
    BY <2>3 DEF q
<1> QED
  BY <1>2, <1>3, <1>4

\* The search for the first number that is not buffered stops at VR(UH) at the latest.
LEMMA FirstMissingIs ==
  ASSUME NEW ur \in Sns, NEW ux, NEW uh \in Sns, NEW timer, NEW b, NEW re, DOMAIN b \subseteq Sns,
         Dist(ur, uh) <= Window, \A y \in DOMAIN b : Dist(ur, y) < Dist(ur, uh), ur \in DOMAIN b
  PROVE  \E n \in 0..Dist(ur, uh) :
            /\ FirstMissing(RxState(ur, ux, uh, timer, b, re)) = (ur + n) % Modulus
            /\ \A y \in Sns : Dist(ur, y) < n => y \in DOMAIN b
<1> DEFINE s == RxState(ur, ux, uh, timer, b, re)
           h == Dist(ur, uh)
           Q(c) == c \notin DOMAIN b /\ \A k \in (ur + 1)..(c - 1) : k \in DOMAIN b
           c0 == CHOOSE c \in (ur + 1)..Modulus : Q(c)
           n == c0 - ur
<1>1. /\ h \in Nat /\ h <= Window /\ Window \in Nat \ {0} /\ Modulus = 2 * Window
      /\ ur \in Nat /\ ur < Modulus /\ Dist(ur, ur) = 0 /\ Modulus \in Nat /\ h > 0
  BY DistRange, Ring
<1>2. \E c \in (ur + 1)..Modulus : Q(c)
  <2> DEFINE S == {c \in Nat : ur + 1 <= c /\ c \notin DOMAIN b}
  <2>1. Modulus \in S
    BY <1>1, Ring
  <2>2. PICK c \in S : \A k \in S : c <= k
    BY <2>1, NatLeast
  <2>3. c \in (ur + 1)..Modulus
    BY <1>1, <2>1, <2>2
  <2>4. ASSUME NEW k \in (ur + 1)..(c - 1) PROVE k \in DOMAIN b
    BY <1>1, <2>2
  <2> QED
    BY <2>2, <2>3, <2>4
<1>3. c0 \in (ur + 1)..Modulus /\ Q(c0)
  BY <1>2
<1>4. FirstMissing(s) = c0 % Modulus
  BY DEF FirstMissing, RxState
<1> HIDE DEF c0, h
<1>5. n \in Nat /\ n <= h
  <2>1. c0 \in Nat /\ ur + 1 <= c0 /\ c0 <= Modulus
    BY <1>1, <1>3
  <2>2. CASE ur + h < Modulus
    <3>1. uh = ur + h
      <4>1. h \in 0..Modulus
        BY <1>1
      <4>2. (ur + h) % Modulus = IF ur + h < Modulus THEN ur + h ELSE ur + h - Modulus
        BY <4>1, PlusIs
      <4>3. (ur + h) % Modulus = uh
        BY DistPlus DEF h
      <4> QED
        BY <2>2, <4>2, <4>3
    <3>2. uh \notin DOMAIN b
      BY <1>1 DEF h
    <3>3. ~(ur + h <= c0 - 1)
      BY <1>1, <1>3, <2>1, <3>1, <3>2
    <3> QED
      BY <1>1, <2>1, <3>3
  <2>3. CASE ~(ur + h < Modulus)
    BY <1>1, <2>1, <2>3
  <2> QED
    BY <2>2, <2>3
<1>6. ur + n = c0
  BY <1>1, <1>3
<1>7. ASSUME NEW y \in Sns, Dist(ur, y) < n PROVE y \in DOMAIN b
  <2>1. Dist(ur, y) \in Nat /\ Dist(ur, y) \in 0..Modulus /\ ur + Dist(ur, y) < c0 /\ c0 <= Modulus
    <3>1. Dist(ur, y) \in Nat /\ Dist(ur, y) < Modulus
      BY DistRange
    <3> QED
      BY <1>1, <1>3, <1>7, <3>1
  <2>2. y = ur + Dist(ur, y)
    <3>1. (ur + Dist(ur, y)) % Modulus = y
      BY DistPlus
    <3>2. (ur + Dist(ur, y)) % Modulus
            = IF ur + Dist(ur, y) < Modulus THEN ur + Dist(ur, y) ELSE ur + Dist(ur, y) - Modulus
      BY <2>1, PlusIs
    <3>3. ur + Dist(ur, y) < Modulus
      BY <1>1, <1>3, <2>1
    <3> QED
      BY <3>1, <3>2, <3>3
  <2>3. CASE Dist(ur, y) = 0
    BY <2>3, DistRange
  <2>4. CASE Dist(ur, y) # 0
    BY <1>1, <1>3, <2>1, <2>2, <2>4
  <2> QED
    BY <2>3, <2>4
<1> HIDE DEF n
<1>8. n \in 0..h
  BY <1>1, <1>5
<1> QED
  BY <1>4, <1>6, <1>7, <1>8 DEF h, s

AdvancesBy(ur, ux, uh, timer, b, re, n) ==
  /\ AdvanceVrUr(RxState(ur, ux, uh, timer, b, re))
       = RxState((ur + n) % Modulus, ux, uh, timer, Cut(b, ur, n),
                 Reassembled(re, b, Numbers(ur, n)))
  /\ \A y \in Sns : Dist(ur, y) < n => y \in DOMAIN b

\* VR(UR) moves up to the first number that is not buffered, n numbers on.
LEMMA AdvanceIs ==
  ASSUME NEW ur \in Sns, NEW ux, NEW uh \in Sns, NEW timer, NEW b, NEW re, DOMAIN b \subseteq Sns,
         IsMap(b),
         Dist(ur, uh) <= Window, \A y \in DOMAIN b : Dist(ur, y) < Dist(ur, uh)
  PROVE  \E n \in 0..Dist(ur, uh) : AdvancesBy(ur, ux, uh, timer, b, re, n)
<1> DEFINE s == RxState(ur, ux, uh, timer, b, re)
<1>1. s.ur = ur /\ s.buffer = b
  BY DEF RxState
<1>2. /\ Dist(ur, uh) \in Nat /\ Modulus \in Nat /\ Dist(ur, uh) < Modulus
      /\ Window \in Nat
  BY DistRange, Ring
<1>3. CASE ur \notin DOMAIN b
  <2>1. AdvanceVrUr(s) = s
    <3> HIDE DEF s
    <3> QED
      BY <1>1, <1>3 DEF AdvanceVrUr
  <2>2. (ur + 0) % Modulus = ur /\ Cut(b, ur, 0) = b /\ Reassembled(re, b, Numbers(ur, 0)) = re
    BY CutNothing
  <2>3. s = RxState((ur + 0) % Modulus, ux, uh, timer, Cut(b, ur, 0),
                    Reassembled(re, b, Numbers(ur, 0)))
    BY <2>2
  <2>4. 0 \in 0..Dist(ur, uh) /\ \A y \in Sns : ~(Dist(ur, y) < 0)
    BY <1>2, DistRange
  <2> QED
    BY <2>1, <2>3, <2>4 DEF AdvancesBy
<1>4. CASE ur \in DOMAIN b
  <2>1. PICK n \in 0..Dist(ur, uh) : /\ FirstMissing(s) = (ur + n) % Modulus
                                     /\ \A y \in Sns : Dist(ur, y) < n => y \in DOMAIN b
    BY <1>4, FirstMissingIs
  <2> DEFINE v == (ur + n) % Modulus
  <2>2. v \in Sns /\ Dist(ur, v) = n
    <3>1. n \in 0..(Modulus - 1)
      BY <1>2
    <3> QED
      BY <3>1, PlusDist
  <2>3. n <= Dist(ur, uh)
    BY <1>2
  <2> HIDE DEF v
  <2>4. ReassembleSnInterval(s, v)
          = RxState(v, ux, uh, timer, Cut(b, ur, n), Reassembled(re, b, Numbers(ur, n)))
    BY <2>2, <2>3, IntervalIs
  <2>5. AdvanceVrUr(s) = ReassembleSnInterval(s, v)
    <3> HIDE DEF s
    <3> QED
      BY <1>1, <1>4, <2>1 DEF AdvanceVrUr, v
  <2> QED
    BY <2>1, <2>4, <2>5 DEF v, AdvancesBy
<1> QED
  BY <1>3, <1>4

\* t-Reordering, seen from where VR(UR) was: what it waits for is above the new
\* VR(UR) still, and there is a gap up to VR(UH).
LEMMA TimedIs ==
  ASSUME NEW ur \in Sns, NEW v \in Sns, NEW ux \in Sns, NEW z \in Sns, NEW timer \in BOOLEAN,
         NEW b, NEW re, Dist(ur, v) <= Dist(ur, z), Dist(ur, z) <= Window,
         timer => Dist(ur, ux) <= Dist(ur, z)
  PROVE  Timed(RxState(v, ux, z, timer, b, re))
           = RxState(v, IF ~(timer /\ Dist(ur, ux) > Dist(ur, v)) /\ v # z THEN z ELSE ux, z,
                     (timer /\ Dist(ur, ux) > Dist(ur, v)) \/ v # z, b, re)
<1> DEFINE s == RxState(v, ux, z, timer, b, re)
           n == Dist(ur, v)
           e == Dist(ur, ux)
           h == Dist(ur, z)
           stays == /\ timer
                    /\ Offset(z, ux) > Offset(z, v)
                    /\ IsInsideReorderingWindow(z, ux) \/ ux = z
           gap   == Offset(z, z) > Offset(z, v)
<1>1. /\ n \in Nat /\ e \in Nat /\ h \in Nat /\ n <= h /\ h <= Window /\ Window \in Nat \ {0}
      /\ timer => e <= h
      /\ e = h => ux = z
      /\ n = h <=> v = z
  <2>1. n \in Nat /\ e \in Nat /\ h \in Nat /\ Window \in Nat \ {0}
    BY DistRange, Ring
  <2>2. (e = h => ux = z) /\ (n = h <=> v = z)
    BY DistSame
  <2> QED
    BY <2>1, <2>2
<1>2. Offset(z, v) = Window + n - h /\ Offset(z, z) = Window + h - h
  <2>1. n <= Window /\ n - h < Window /\ h - h < Window
    BY <1>1
  <2> QED
    BY <1>1, <2>1, OffsetAbove
<1>3. timer => Offset(z, ux) = Window + e - h
  <2>1. timer => e <= Window /\ e - h < Window
    BY <1>1
  <2> QED
    BY <1>1, <2>1, OffsetAbove
<1>4. stays = (timer /\ e > n)
  <2> HIDE DEF n, e, h
  <2>1. stays <=> timer /\ e > n
    BY <1>1, <1>2, <1>3 DEF IsInsideReorderingWindow
  <2> QED
    BY <2>1
<1>5. gap = (v # z)
  <2> HIDE DEF n, h
  <2>1. gap <=> v # z
    BY <1>1, <1>2
  <2> QED
    BY <2>1
<1>6. s.timer = timer /\ s.uh = z /\ s.ux = ux /\ s.ur = v
  BY DEF RxState
<1>7. Timed(s) = [s EXCEPT !.timer = stays \/ gap, !.ux = IF ~stays /\ gap THEN z ELSE @]
  BY <1>6 DEF Timed
<1> HIDE DEF stays, gap
<1>8. Timed(s) = RxState(v, IF ~stays /\ gap THEN z ELSE ux, z, stays \/ gap, b, re)
  BY <1>7 DEF RxState
<1> QED
  BY <1>4, <1>5, <1>8

\* The reception buffer lies between VR(UR) and VR(UH); whoever waits for a gap
\* waits for one below a PDU that has come.
InWindow(ur, ux, uh, timer, b) ==
  /\ ur \in Sns /\ ux \in Sns /\ uh \in Sns /\ timer \in BOOLEAN
  /\ DOMAIN b \subseteq Sns /\ IsMap(b)
  /\ Dist(ur, uh) <= Window
  /\ \A y \in DOMAIN b : Dist(ur, y) < Dist(ur, uh)
  /\ ur # uh => \E y \in DOMAIN b : Follow(y) = uh
  /\ timer <=> ur # uh
  /\ timer => /\ 0 < Dist(ur, ux) /\ Dist(ur, ux) <= Dist(ur, uh)
              /\ \E y \in DOMAIN b : Follow(y) = ux

\* A number follows another one less than a window above.
LEMMA Before ==
  ASSUME NEW ur \in Sns, NEW y \in Sns, NEW z \in Sns, Follow(y) = z, Dist(ur, z) > 0
  PROVE  Dist(ur, y) \in Nat /\ Dist(ur, z) = Dist(ur, y) + 1
<1>1. Dist(ur, Follow(y)) = IF Dist(ur, y) = Modulus - 1 THEN 0 ELSE Dist(ur, y) + 1
  BY Following
<1>2. Dist(ur, y) \in Nat
  BY DistRange
<1> QED
  BY <1>1, <1>2

\* VR(UR) moves n numbers on to v and takes the PDUs below with it; the timer
\* waits for what it waited for, or for the number z that is highest now.
LEMMA Advanced ==
  ASSUME NEW ur \in Sns, NEW z \in Sns, NEW w \in Sns, NEW b,
         DOMAIN b \subseteq Sns, Dist(ur, z) <= Window, NEW n \in 0..Dist(ur, z),
         \A y \in DOMAIN b : Dist(ur, y) < Dist(ur, z),
         ur # z => \E y \in DOMAIN b : Follow(y) = z,
         NEW v, v = (ur + n) % Modulus,
         v # z => \/ w = z
                  \/ /\ n < Dist(ur, w) /\ Dist(ur, w) <= Dist(ur, z)
                     /\ \E y \in DOMAIN b : Follow(y) = w
  PROVE  InWindow(v, w, z, v # z, Cut(b, ur, n)) /\ Dist(ur, v) = n
<1> DEFINE h == Dist(ur, z)
           c == Cut(b, ur, n)
<1>1. h \in Nat /\ h <= Window /\ Window \in Nat \ {0} /\ n \in Nat /\ n <= h /\ h < Modulus
      /\ Modulus \in Nat
  BY DistRange, Ring
<1>2. v \in Sns /\ Dist(ur, v) = n
  <2>1. n \in 0..(Modulus - 1)
    BY <1>1
  <2> QED
    BY <2>1, PlusDist
<1>3. ASSUME NEW y \in Sns, n <= Dist(ur, y) PROVE Dist(v, y) = Dist(ur, y) - n
  <2>1. Dist(v, y) = IF Dist(ur, v) <= Dist(ur, y) THEN Dist(ur, y) - Dist(ur, v)
                     ELSE Dist(ur, y) - Dist(ur, v) + Modulus
    BY <1>2, Rebase
  <2> QED
    BY <1>2, <1>3, <2>1
<1>4. DOMAIN c = {y \in DOMAIN b : Dist(ur, y) >= n} /\ IsMap(c)
  BY DEF Cut, IsMap
<1> HIDE DEF c
<1>5. Dist(v, z) = h - n
  BY <1>1, <1>3
<1>6. Dist(v, z) <= Window
  BY <1>1, <1>5
<1>7. ASSUME NEW y \in DOMAIN c PROVE Dist(v, y) < Dist(v, z)
  <2>1. y \in Sns /\ Dist(ur, y) \in Nat /\ Dist(ur, y) >= n /\ Dist(ur, y) < h
    BY <1>4, DistRange
  <2>2. Dist(v, y) = Dist(ur, y) - n
    BY <1>1, <1>3, <2>1
  <2> QED
    BY <1>1, <1>5, <2>1, <2>2
<1>8. ASSUME NEW x \in Sns, n < Dist(ur, x), \E y \in DOMAIN b : Follow(y) = x
      PROVE  \E y \in DOMAIN c : Follow(y) = x
  <2>1. PICK y \in DOMAIN b : Follow(y) = x
    BY <1>8
  <2>2. Dist(ur, x) > 0 /\ y \in Sns /\ Dist(ur, x) \in Nat
    BY <1>1, <1>8, DistRange
  <2>3. Dist(ur, y) \in Nat /\ Dist(ur, x) = Dist(ur, y) + 1
    BY <2>1, <2>2, Before
  <2>4. Dist(ur, y) >= n
    BY <1>1, <1>8, <2>3
  <2> QED
    BY <1>4, <2>1, <2>4
<1>9. v # z => n < h /\ ur # z
  <2>1. n = h => v = z
    BY <1>2, DistSame
  <2>2. h > 0 => ur # z
    BY DistRange
  <2> HIDE DEF h
  <2> QED
    BY <1>1, <2>1, <2>2
<1>10. v # z => \E y \in DOMAIN c : Follow(y) = z
  BY <1>8, <1>9
<1>11. v # z => /\ 0 < Dist(v, w) /\ Dist(v, w) <= Dist(v, z)
                /\ \E y \in DOMAIN c : Follow(y) = w
  <2> SUFFICES ASSUME v # z
               PROVE  /\ 0 < Dist(v, w) /\ Dist(v, w) <= Dist(v, z)
                      /\ \E y \in DOMAIN c : Follow(y) = w
    OBVIOUS
  <2>1. CASE w = z
    BY <1>1, <1>5, <1>9, <1>10, <2>1
  <2>2. CASE /\ n < Dist(ur, w) /\ Dist(ur, w) <= h
             /\ \E y \in DOMAIN b : Follow(y) = w
    <3>1. \E y \in DOMAIN c : Follow(y) = w
      BY <1>8, <2>2
    <3>2. Dist(ur, w) \in Nat /\ n <= Dist(ur, w)
      BY <1>1, <2>2, DistRange
    <3>3. Dist(v, w) = Dist(ur, w) - n
      BY <1>3, <3>2
    <3> QED
      BY <1>1, <1>5, <2>2, <3>1, <3>2, <3>3
  <2> QED
    BY <2>1, <2>2
<1>12. DOMAIN c \subseteq Sns
  BY <1>4
<1>13. (v # z) \in BOOLEAN
  OBVIOUS
<1> QED
  BY <1>2, <1>4, <1>6, <1>7, <1>10, <1>11, <1>12, <1>13 DEF InWindow, c

\* What the reassembly starts from and what it ends with: either nothing is taken,
\* or the last number that is taken is buffered.
Moved(ur, n, b) == n = 0 \/ (ur + (n - 1)) % Modulus \in DOMAIN b

\* VR(UR) moves on from ur, VR(UH) is z now.
MovesOn(new, ur, z, b, re) ==
  \E n \in 0..Dist(ur, z) : \E v \in Sns, w \in Sns :
    /\ new = RxState(v, w, z, v # z, Cut(b, ur, n), Reassembled(re, b, Numbers(ur, n)))
    /\ v = (ur + n) % Modulus
    /\ InWindow(v, w, z, v # z, Cut(b, ur, n)) /\ Dist(ur, v) = n
    /\ Moved(ur, n, b)

\* A PDU that is not below VR(UR) comes: the window moves up to it, VR(UR) to
\* the first number that is missing, and the timer runs for what is left open.
LEMMA ReceivedIs ==
  ASSUME NEW ur, NEW ux, NEW uh, NEW timer, NEW b0, NEW b, NEW re, NEW x,
         InWindow(ur, ux, uh, timer, b0), x \in Sns, Dist(ur, x) < Window,
         IsMap(b), DOMAIN b = DOMAIN b0 \union {x}
  PROVE  LET z  == IF Dist(ur, x) < Dist(ur, uh) THEN uh ELSE Follow(x)
         IN  MovesOn(Timed(AdvanceVrUr(MoveWindow(RxState(ur, ux, uh, timer, b, re), x))),
                     ur, z, b, re)
<1> DEFINE z == IF Dist(ur, x) < Dist(ur, uh) THEN uh ELSE Follow(x)
           s == RxState(ur, ux, uh, timer, b, re)
           h == Dist(ur, z)
<1>1. /\ ur \in Sns /\ ux \in Sns /\ uh \in Sns /\ timer \in BOOLEAN
      /\ DOMAIN b0 \subseteq Sns /\ Dist(ur, uh) <= Window
      /\ \A y \in DOMAIN b0 : Dist(ur, y) < Dist(ur, uh)
      /\ ur # uh => \E y \in DOMAIN b0 : Follow(y) = uh
      /\ timer <=> ur # uh
      /\ timer => /\ 0 < Dist(ur, ux) /\ Dist(ur, ux) <= Dist(ur, uh)
                  /\ \E y \in DOMAIN b0 : Follow(y) = ux
  BY DEF InWindow
<1>2. /\ Dist(ur, uh) \in Nat /\ Dist(ur, x) \in Nat /\ Dist(ur, ux) \in Nat
      /\ Window \in Nat \ {0} /\ Modulus = 2 * Window
      /\ DOMAIN b \subseteq Sns /\ x \in DOMAIN b
  BY <1>1, DistRange, Ring
<1>3. /\ z \in Sns /\ h \in Nat /\ h <= Window /\ Dist(ur, x) < h /\ Dist(ur, uh) <= h
      /\ z # uh => z = Follow(x)
  <2>1. Follow(x) \in Sns /\ Dist(ur, Follow(x)) = Dist(ur, x) + 1
    <3>1. /\ Follow(x) \in Sns
          /\ Dist(ur, Follow(x)) = IF Dist(ur, x) = Modulus - 1 THEN 0 ELSE Dist(ur, x) + 1
      BY <1>1, Following
    <3>2. Dist(ur, x) # Modulus - 1
      BY <1>2
    <3> QED
      BY <3>1, <3>2
  <2>2. CASE Dist(ur, x) < Dist(ur, uh)
    BY <1>1, <1>2, <2>2
  <2>3. CASE ~(Dist(ur, x) < Dist(ur, uh))
    <3>1. z = Follow(x)
      BY <2>3
    <3> HIDE DEF z
    <3> QED
      BY <1>1, <1>2, <2>1, <2>3, <3>1
  <2> QED
    BY <2>2, <2>3
<1>4. MoveWindow(s, x) = RxState(ur, ux, z, timer, b, re)
  <2>1. \A y \in DOMAIN b : Dist(ur, y) < Dist(ur, uh) \/ y = x
    BY <1>1
  <2> QED
    BY <1>1, <1>2, <2>1, MoveWindowIs
<1> HIDE DEF z
<1>5. ASSUME NEW y \in DOMAIN b PROVE Dist(ur, y) < h
  <2>1. CASE y = x
    BY <1>3, <2>1
  <2>2. CASE y \in DOMAIN b0
    <3>1. Dist(ur, y) \in Nat /\ Dist(ur, y) < Dist(ur, uh)
      BY <1>1, <2>2, DistRange
    <3> QED
      BY <1>2, <1>3, <3>1
  <2> QED
    BY <2>1, <2>2
<1>6. PICK n \in 0..h :
        /\ AdvanceVrUr(RxState(ur, ux, z, timer, b, re))
             = RxState((ur + n) % Modulus, ux, z, timer, Cut(b, ur, n),
                       Reassembled(re, b, Numbers(ur, n)))
        /\ \A y \in Sns : Dist(ur, y) < n => y \in DOMAIN b
  <2>1. /\ ur \in Sns /\ z \in Sns /\ DOMAIN b \subseteq Sns /\ Dist(ur, z) <= Window
        /\ \A y \in DOMAIN b : Dist(ur, y) < Dist(ur, z)
    BY <1>1, <1>2, <1>3, <1>5
  <2>2. \E n \in 0..Dist(ur, z) : AdvancesBy(ur, ux, z, timer, b, re, n)
    BY <2>1, AdvanceIs
  <2> QED
    BY <2>2 DEF AdvancesBy
<1> DEFINE v == (ur + n) % Modulus
           w == IF ~(timer /\ Dist(ur, ux) > Dist(ur, v)) /\ v # z THEN z ELSE ux
<1>7. n \in Nat /\ n <= h /\ n \in 0..(Modulus - 1)
  BY <1>2, <1>3
<1>8. v \in Sns /\ Dist(ur, v) = n
  BY <1>1, <1>7, PlusDist
<1>9. timer => Dist(ur, ux) <= h
  BY <1>1, <1>2, <1>3
<1>10. v = (ur + n) % Modulus
  OBVIOUS
<1> HIDE DEF v
<1>11. Timed(RxState(v, ux, z, timer, Cut(b, ur, n), Reassembled(re, b, Numbers(ur, n))))
         = RxState(v, w, z, (timer /\ Dist(ur, ux) > Dist(ur, v)) \/ v # z,
                   Cut(b, ur, n), Reassembled(re, b, Numbers(ur, n)))
  BY <1>1, <1>3, <1>7, <1>8, <1>9, TimedIs
<1>12. ((timer /\ Dist(ur, ux) > Dist(ur, v)) \/ v # z) = (v # z)
  <2>1. v = z => n = h
    BY <1>8
  <2>2. (timer /\ Dist(ur, ux) > Dist(ur, v)) => v # z
    BY <1>2, <1>3, <1>7, <1>8, <1>9, <2>1
  <2> QED
    BY <2>2
<1>13. v # z => \/ w = z
                \/ /\ n < Dist(ur, w) /\ Dist(ur, w) <= h
                   /\ \E y \in DOMAIN b : Follow(y) = w
  <2> SUFFICES ASSUME v # z, w # z
               PROVE  /\ n < Dist(ur, w) /\ Dist(ur, w) <= h
                      /\ \E y \in DOMAIN b : Follow(y) = w
    OBVIOUS
  <2>1. timer /\ Dist(ur, ux) > n /\ w = ux
    BY <1>8
  <2>2. \E y \in DOMAIN b0 : Follow(y) = ux
    BY <1>1, <2>1
  <2>3. n < Dist(ur, ux)
    BY <1>2, <1>7, <2>1
  <2> HIDE DEF w
  <2> QED
    BY <1>9, <2>1, <2>2, <2>3
<1>14. ur # z => \E y \in DOMAIN b : Follow(y) = z
  <2>1. CASE z = uh
    BY <1>1, <2>1
  <2>2. CASE z # uh
    BY <1>2, <1>3, <2>2
  <2> QED
    BY <2>1, <2>2
<1>15. w \in Sns
  BY <1>1, <1>3
<1> HIDE DEF w
<1>16. InWindow(v, w, z, v # z, Cut(b, ur, n))
  BY <1>1, <1>2, <1>3, <1>5, <1>10, <1>13, <1>14, <1>15, Advanced
<1>17. Moved(ur, n, b)
  <2>1. CASE n = 0
    BY <2>1 DEF Moved
  <2>2. CASE n # 0
    <3>1. n - 1 \in 0..(Modulus - 1) /\ n - 1 < n
      BY <1>2, <1>7, <2>2
    <3>2. (ur + (n - 1)) % Modulus \in Sns /\ Dist(ur, (ur + (n - 1)) % Modulus) = n - 1
      BY <1>1, <3>1, PlusDist
    <3> QED
      BY <1>6, <3>1, <3>2 DEF Moved
  <2> QED
    BY <2>1, <2>2
<1>18. Timed(AdvanceVrUr(MoveWindow(s, x)))
         = RxState(v, w, z, v # z, Cut(b, ur, n), Reassembled(re, b, Numbers(ur, n)))
  BY <1>4, <1>6, <1>10, <1>11, <1>12
<1> HIDE DEF s, h
<1>19. MovesOn(Timed(AdvanceVrUr(MoveWindow(s, x))), ur, z, b, re)
  BY <1>8, <1>10, <1>15, <1>16, <1>17, <1>18 DEF MovesOn, h
<1> QED
  BY <1>19 DEF z, s

\* From one number on to another, seen from a third.
LEMMA OnFrom ==
  ASSUME NEW a \in Sns, NEW c \in Sns, NEW k \in Nat, Dist(a, c) + k < Modulus
  PROVE  /\ (c + k) % Modulus = (a + (Dist(a, c) + k)) % Modulus
         /\ (c + k) % Modulus \in Sns /\ Dist(a, (c + k) % Modulus) = Dist(a, c) + k
<1> DEFINE y == (c + k) % Modulus
<1>1. Dist(a, c) \in Nat /\ Modulus \in Nat /\ k < Modulus /\ k \in 0..(Modulus - 1)
  <2>1. Dist(a, c) \in Nat /\ Modulus \in Nat
    BY DistRange, Ring
  <2> QED
    BY <2>1
<1>2. y \in Sns /\ Dist(c, y) = k
  BY <1>1, PlusDist
<1> HIDE DEF y
<1>3. /\ Dist(c, y) = IF Dist(a, c) <= Dist(a, y) THEN Dist(a, y) - Dist(a, c)
                      ELSE Dist(a, y) - Dist(a, c) + Modulus
      /\ Dist(a, y) \in Nat /\ Dist(a, y) < Modulus
  BY <1>2, Rebase, DistRange
<1>4. Dist(a, y) = Dist(a, c) + k
  BY <1>1, <1>2, <1>3
<1>5. (a + Dist(a, y)) % Modulus = y
  BY <1>2, DistPlus
<1> QED
  BY <1>2, <1>4, <1>5 DEF y

\* The timer gives up the gap: VR(UR) moves up to the first missing number from
\* VR(UX) on.
LEMMA ExpiredIs ==
  ASSUME NEW ur, NEW ux, NEW uh, NEW timer, NEW b, NEW re, InWindow(ur, ux, uh, timer, b),
         rx = RxState(ur, ux, uh, timer, b, re), ExpireReorderingTimer
  PROVE  MovesOn(rx', ur, uh, b, re)
<1> DEFINE e == Dist(ur, ux)
           h == Dist(ur, uh)
           Q(k) == /\ (ux + k) % Modulus \notin DOMAIN b
                   /\ \A j \in 0..(k - 1) : (ux + j) % Modulus \in DOMAIN b
           a == CHOOSE k \in 0..Window :
                  /\ (rx.ux + k) % Modulus \notin DOMAIN rx.buffer
                  /\ \A j \in 0..(k - 1) : (rx.ux + j) % Modulus \in DOMAIN rx.buffer
           s == ReassembleSnInterval(rx, (rx.ux + a) % Modulus)
           gap == Offset(s.uh, s.uh) > Offset(s.uh, s.ur)
           v == (ux + a) % Modulus
<1>0. /\ rx.ux = ux /\ rx.buffer = b /\ rx.timer = timer
      /\ rx' = [s EXCEPT !.timer = gap, !.ux = IF gap THEN s.uh ELSE @]
  <2>1. rx.ux = ux /\ rx.buffer = b /\ rx.timer = timer
    BY DEF RxState
  <2>2. rx' = [s EXCEPT !.timer = gap, !.ux = IF gap THEN s.uh ELSE @]
    BY DEF ExpireReorderingTimer
  <2> HIDE DEF s, gap
  <2> QED
    BY <2>1, <2>2
<1>1. /\ ur \in Sns /\ ux \in Sns /\ uh \in Sns /\ timer \in BOOLEAN
      /\ DOMAIN b \subseteq Sns /\ IsMap(b) /\ h <= Window
      /\ \A y \in DOMAIN b : Dist(ur, y) < h
      /\ ur # uh => \E y \in DOMAIN b : Follow(y) = uh
      /\ timer => /\ 0 < e /\ e <= h
                  /\ \E y \in DOMAIN b : Follow(y) = ux
  BY DEF InWindow
<1>2. timer
  BY <1>0 DEF ExpireReorderingTimer
<1>3. /\ e \in Nat /\ h \in Nat /\ Window \in Nat \ {0} /\ Modulus = 2 * Window
      /\ h < Modulus /\ 0 < e /\ e <= h
  BY <1>1, <1>2, DistRange, Ring
<1>4. (ux + (h - e)) % Modulus = uh
  <2>1. Dist(ux, uh) = IF e <= h THEN h - e ELSE h - e + Modulus
    BY <1>1, Rebase
  <2>2. Dist(ux, uh) = h - e
    <3> HIDE DEF e, h
    <3> QED
      BY <1>3, <2>1
  <2> QED
    BY <1>1, <2>2, DistPlus
<1>5. a \in Nat /\ a <= h - e /\ Q(a)
  <2> DEFINE S == {k \in Nat : (ux + k) % Modulus \notin DOMAIN b}
  <2>1. h - e \in S
    BY <1>1, <1>3, <1>4
  <2>2. PICK c \in S : \A k \in S : c <= k
    BY <2>1, NatLeast
  <2>3. c \in Nat /\ c <= h - e /\ c \in 0..Window
    <3>1. c \in Nat /\ c <= h - e
      BY <2>1, <2>2
    <3> HIDE DEF e, h, S
    <3> QED
      BY <1>1, <1>3, <3>1
  <2>4. Q(c)
    <3>1. ASSUME NEW j \in 0..(c - 1) PROVE (ux + j) % Modulus \in DOMAIN b
      <4>1. j \in Nat /\ ~(c <= j)
        BY <2>3
      <4> QED
        BY <2>2, <4>1
    <3> QED
      BY <2>2, <3>1
  <2>5. \E k \in 0..Window : Q(k)
    BY <2>3, <2>4
  <2>6. a \in 0..Window /\ Q(a)
    BY <1>0, <2>5
  <2> HIDE DEF a
  <2>7. a <= h - e
    <3> SUFFICES ASSUME ~(a <= h - e) PROVE FALSE
      OBVIOUS
    <3>1. h - e \in 0..(a - 1)
      BY <1>3, <2>6
    <3>2. (ux + (h - e)) % Modulus \in DOMAIN b
      BY <2>6, <3>1
    <3> QED
      BY <2>1, <3>2
  <2> QED
    BY <2>6, <2>7
<1> HIDE DEF a
<1>6. s = ReassembleSnInterval(RxState(ur, ux, uh, timer, b, re), v)
  BY <1>0
<1> DEFINE n == e + a
<1>7. /\ n \in Nat /\ n <= h /\ 0 < n /\ n \in 0..h
      /\ e + a < Modulus
  BY <1>3, <1>5
<1>8. v = (ur + n) % Modulus /\ v \in Sns /\ Dist(ur, v) = n
  BY <1>1, <1>5, <1>7, OnFrom
<1>9. s = RxState(v, ux, uh, timer, Cut(b, ur, n), Reassembled(re, b, Numbers(ur, n)))
  <2>1. Dist(ur, v) <= Dist(ur, uh)
    BY <1>7, <1>8
  <2> HIDE DEF v, n, e, h
  <2>2. ReassembleSnInterval(RxState(ur, ux, uh, timer, b, re), v)
           = RxState(v, ux, uh, timer, Cut(b, ur, Dist(ur, v)),
                     Reassembled(re, b, Numbers(ur, Dist(ur, v))))
    BY <1>1, <1>8, <2>1, IntervalIs DEF h
  <2> HIDE DEF s
  <2> QED
    BY <1>6, <1>8, <2>2
<1>10. s.uh = uh /\ s.ur = v
  BY <1>9 DEF RxState
<1>11. gap = (v # uh)
  <2>1. Offset(uh, v) = Window + n - h /\ Offset(uh, uh) = Window + h - h
    <3>1. n <= Window /\ n - h < Window /\ h - h < Window
      BY <1>1, <1>3, <1>7
    <3> HIDE DEF v, n
    <3> QED
      BY <1>1, <1>8, <3>1, OffsetAbove
  <2>2. n = h <=> v = uh
    BY <1>1, <1>8, DistSame
  <2> HIDE DEF v, n, e, h, s
  <2>3. gap <=> v # uh
    BY <1>3, <1>7, <1>10, <2>1, <2>2
  <2> QED
    BY <2>3
<1> DEFINE w == IF v # uh THEN uh ELSE ux
<1>12. rx' = RxState(v, w, uh, v # uh, Cut(b, ur, n), Reassembled(re, b, Numbers(ur, n)))
  <2> HIDE DEF gap, s, v, n
  <2>1. rx' = [s EXCEPT !.timer = v # uh, !.ux = IF v # uh THEN uh ELSE @]
    BY <1>0, <1>10, <1>11
  <2> QED
    BY <1>9, <2>1 DEF RxState
<1>13. w \in Sns
  BY <1>1
<1>14. v # uh => w = uh
  OBVIOUS
<1>15. Moved(ur, n, b)
  <2>1. CASE a = 0
    <3>1. PICK y \in DOMAIN b : Follow(y) = ux
      BY <1>1, <1>2
    <3>2. Dist(ur, y) \in Nat /\ e = Dist(ur, y) + 1 /\ y \in Sns
      BY <1>1, <1>3, <3>1, Before
    <3>3. n - 1 = Dist(ur, y)
      BY <1>3, <2>1, <3>2
    <3>4. (ur + Dist(ur, y)) % Modulus = y
      BY <1>1, <3>2, DistPlus
    <3> HIDE DEF n
    <3> QED
      BY <3>1, <3>3, <3>4 DEF Moved
  <2>2. CASE a # 0
    <3> DEFINE y == (ux + (a - 1)) % Modulus
    <3>1. a - 1 \in 0..(a - 1) /\ a - 1 \in Nat /\ e + (a - 1) < Modulus /\ e + (a - 1) = n - 1
      BY <1>3, <1>5, <1>7, <2>2
    <3>2. y \in DOMAIN b
      BY <1>5, <3>1
    <3>3. y = (ur + (e + (a - 1))) % Modulus
      BY <1>1, <3>1, OnFrom
    <3> HIDE DEF n, y
    <3> QED
      BY <3>1, <3>2, <3>3 DEF Moved
  <2> QED
    BY <2>1, <2>2
<1> HIDE DEF v, w, n, e
<1>16. InWindow(v, w, uh, v # uh, Cut(b, ur, n))
  BY <1>1, <1>7, <1>8, <1>13, <1>14, Advanced
<1> QED
  BY <1>7, <1>8, <1>12, <1>13, <1>15, <1>16 DEF MovesOn

-----------------------------------------------------------------------------
(* The reassembly.  A is the sequence of accepted SDUs.                      *)

Ascending(A) == \A i, j \in 1..Len(A) : i < j => A[i] < A[j]

\* Some of the first k accepted SDUs, whole, in order and without repetition.
Selected(A, out, k) ==
  /\ out \in Seq(Pieces)
  /\ \A i \in 1..Len(out) : \E j \in 1..k : out[i] = Piece(A[j], 0, SduLen[A[j]])
  /\ \A i, j \in 1..Len(out) : i < j => out[i].sdu < out[j].sdu

\* The receiving entity has passed some of the SDUs before a place to PDCP, may
\* keep the beginning of the next up to there, and expects the number sn.
Chosen(A, r, sn, k, o) ==
  /\ k \in Nat /\ o \in Nat /\ k <= Len(A)
  /\ \E w \in BOOLEAN : \E keep, out :
       /\ r = [expected |-> sn, waiting |-> w, keep |-> keep, left |-> <<>>, out |-> out]
       /\ Selected(A, out, k)
       /\ w => o # 0 /\ k < Len(A) /\ keep = Piece(A[k + 1], 0, o)

\* One sequence goes on where the other ends.
Continues(a, b) == Len(a) <= Len(b) /\ \A i \in 1..Len(a) : b[i] = a[i]

\* More SDUs from beyond those that were selected.
LEMMA SelectedMore ==
  ASSUME NEW A \in Seq(Sdus), Ascending(A), NEW out, NEW k0 \in Nat, Selected(A, out, k0),
         NEW ku \in Nat, k0 <= ku, NEW k2 \in Nat, k0 <= k2, k2 <= Len(A),
         NEW f \in Seq(Pieces), Len(f) = 0 \/ ku + Len(f) <= k2,
         \A i \in 1..Len(f) : f[i] = Piece(A[ku + i], 0, SduLen[A[ku + i]])
  PROVE  Selected(A, out \o f, k2) /\ Continues(out, out \o f)
<1> DEFINE v == out \o f
           m == Len(out)
           n == Len(f)
<1>1. /\ out \in Seq(Pieces) /\ m \in Nat /\ n \in Nat /\ Len(A) \in Nat
      /\ \A i \in 1..m : \E j \in 1..k0 : out[i] = Piece(A[j], 0, SduLen[A[j]])
      /\ \A i, j \in 1..m : i < j => out[i].sdu < out[j].sdu
  BY DEF Selected
<1>2. /\ v \in Seq(Pieces) /\ Len(v) = m + n
      /\ \A i \in 1..(m + n) : v[i] = IF i <= m THEN out[i] ELSE f[i - m]
  BY <1>1, ConcatProperties
<1> HIDE DEF v
<1>3. ASSUME NEW i \in 1..(m + n), ~(i <= m)
      PROVE  /\ ku + (i - m) \in 1..k2 /\ ku + (i - m) > k0
             /\ v[i] = Piece(A[ku + (i - m)], 0, SduLen[A[ku + (i - m)]])
  <2>1. i - m \in 1..n
    BY <1>1, <1>3
  <2>2. ku + (i - m) \in 1..k2 /\ ku + (i - m) > k0
    BY <1>1, <2>1
  <2>3. v[i] = f[i - m]
    BY <1>2, <1>3
  <2> QED
    BY <2>1, <2>2, <2>3
<1>4. ASSUME NEW i \in 1..(m + n), i <= m
      PROVE  /\ i \in 1..m /\ v[i] = out[i]
             /\ \E j \in 1..k0 : v[i] = Piece(A[j], 0, SduLen[A[j]])
  <2>1. i \in 1..m /\ v[i] = out[i]
    BY <1>1, <1>2, <1>4
  <2> QED
    BY <1>1, <2>1
<1>5. ASSUME NEW i \in 1..(m + n) PROVE \E j \in 1..k2 : v[i] = Piece(A[j], 0, SduLen[A[j]])
  <2>1. CASE i <= m
    <3>1. PICK j \in 1..k0 : v[i] = Piece(A[j], 0, SduLen[A[j]])
      BY <1>4, <2>1
    <3>2. j \in 1..k2
      OBVIOUS
    <3> QED
      BY <3>1, <3>2
  <2>2. CASE ~(i <= m)
    BY <1>3, <2>2
  <2> QED
    BY <2>1, <2>2
<1>6. ASSUME NEW i \in 1..(m + n), NEW j \in 1..(m + n), i < j PROVE v[i].sdu < v[j].sdu
  <2>1. CASE j <= m
    <3>1. i <= m
      BY <1>1, <1>6, <2>1
    <3> QED
      BY <1>1, <1>4, <1>6, <2>1, <3>1
  <2>2. CASE ~(j <= m)
    <3> DEFINE b == ku + (j - m)
    <3>1. b \in 1..k2 /\ b > k0 /\ v[j] = Piece(A[b], 0, SduLen[A[b]])
      BY <1>3, <2>2
    <3>2. PICK a \in 1..k2 : a < b /\ v[i] = Piece(A[a], 0, SduLen[A[a]])
      <4>1. CASE i <= m
        <5>1. PICK a \in 1..k0 : v[i] = Piece(A[a], 0, SduLen[A[a]])
          BY <1>4, <4>1
        <5>2. a \in 1..k2 /\ a < b
          BY <3>1
        <5> QED
          BY <5>1, <5>2
      <4>2. CASE ~(i <= m)
        <5>1. ku + (i - m) < b
          BY <1>1, <1>6
        <5> QED
          BY <1>3, <4>2, <5>1
      <4> QED
        BY <4>1, <4>2
    <3> HIDE DEF b
    <3>3. A[a] < A[b]
      <4>1. a \in 1..Len(A) /\ b \in 1..Len(A)
        BY <1>1, <3>1
      <4> QED
        BY <3>2, <4>1 DEF Ascending
    <3> QED
      BY <3>1, <3>2, <3>3 DEF Piece
  <2> QED
    BY <2>1, <2>2
<1>7. Selected(A, v, k2)
  BY <1>2, <1>5, <1>6 DEF Selected
<1>8. Continues(out, v)
  <2>1. m <= m + n /\ \A i \in 1..m : i \in 1..(m + n) /\ i <= m
    BY <1>1
  <2> QED
    BY <1>2, <1>4, <2>1 DEF Continues
<1> QED
  BY <1>7, <1>8 DEF v

\* What the reassembly may use of a PDU: all pieces begin with an SDU, from the place
\* ku on, and the last one may not end with it.
Usable(A, u, ku, k2, o2) ==
  /\ u \in Seq(Pieces) /\ ku \in Nat /\ k2 \in Nat /\ o2 \in Nat /\ k2 <= Len(A)
  /\ ku + Len(u) = k2 + (IF o2 = 0 THEN 0 ELSE 1) /\ ku + Len(u) <= Len(A)
  /\ \A i \in 1..Len(u) :
       u[i] = Piece(A[ku + i], 0, IF i = Len(u) /\ o2 # 0 THEN o2 ELSE SduLen[A[ku + i]])

\* Usable pieces: the whole ones are passed to PDCP, the beginning of an SDU is kept.
LEMMA UmCompletes ==
  ASSUME NEW A \in Seq(Sdus), Ascending(A), NEW out, NEW k0 \in Nat, Selected(A, out, k0),
         NEW u, NEW ku, NEW k2, NEW o2, Usable(A, u, ku, k2, o2), k0 <= ku, k0 <= k2,
         NEW last, last = (o2 = 0), NEW r, NEW sn, NEW w, NEW keep, NEW left,
         r = [expected |-> sn, waiting |-> w, keep |-> keep, left |-> left, out |-> out]
  PROVE  Chosen(A, Complete(r, u, last), sn, k2, o2) /\ Continues(out, Complete(r, u, last).out)
<1> DEFINE n == Len(u)
           c == Complete(r, u, last)
           Is(x, y, z) == c = [expected |-> sn, waiting |-> x, keep |-> y, left |-> <<>>, out |-> z]
<1>0. /\ u \in Seq(Pieces) /\ ku \in Nat /\ k2 \in Nat /\ o2 \in Nat /\ k2 <= Len(A)
      /\ ku + Len(u) = k2 + (IF o2 = 0 THEN 0 ELSE 1) /\ ku + Len(u) <= Len(A)
      /\ \A i \in 1..Len(u) :
           u[i] = Piece(A[ku + i], 0, IF i = Len(u) /\ o2 # 0 THEN o2 ELSE SduLen[A[ku + i]])
  BY DEF Usable
<1>1. n \in Nat /\ Len(A) \in Nat
  BY <1>0
<1>2. CASE last \/ n = 0
  <2> DEFINE v == out \o u
  <2>1. Is(FALSE, Junk, v)
    BY <1>2 DEF Complete
  <2>0. n = 0 \/ o2 = 0
    BY <1>2
  <2>2. n = 0 \/ ku + n <= k2
    <3>1. CASE o2 = 0
      <4>1. ku + n = k2 + 0
        BY <1>0, <3>1
      <4> QED
        BY <1>0, <1>1, <4>1
    <3> QED
      BY <2>0, <3>1
  <2>3. \A i \in 1..n : u[i] = Piece(A[ku + i], 0, SduLen[A[ku + i]])
    <3>1. CASE o2 = 0
      BY <1>0, <3>1
    <3>2. CASE n = 0
      <4>1. 1..n = {}
        BY <3>2
      <4> QED
        BY <4>1
    <3> QED
      BY <2>0, <3>1, <3>2
  <2> HIDE DEF c, n
  <2>4. Selected(A, v, k2) /\ Continues(out, v)
    BY <1>0, <2>2, <2>3, SelectedMore DEF n
  <2> HIDE DEF v
  <2>5. c.out = v
    BY <2>1
  <2>6. Chosen(A, c, sn, k2, o2)
    BY <1>0, <2>1, <2>4 DEF Chosen
  <2> QED
    BY <2>4, <2>5, <2>6 DEF c
<1>3. CASE ~(last \/ n = 0)
  <2> DEFINE f == SubSeq(u, 1, n - 1)
             v == out \o f
  <2>1. Is(TRUE, u[n], v)
    BY <1>3 DEF Complete
  <2>2. f \in Seq(Pieces) /\ Len(f) = n - 1 /\ \A i \in 1..(n - 1) : f[i] = u[i]
    <3>1. \A i \in 1..(n - 1) : u[i] \in Pieces
      BY <1>0, <1>1
    <3>2. /\ f \in Seq(Pieces) /\ Len(f) = (IF 1 <= n - 1 THEN n - 1 - 1 + 1 ELSE 0)
          /\ \A i \in 1..(n - 1 - 1 + 1) : f[i] = u[1 + i - 1]
      <4>1. 1 \in Int /\ n - 1 \in Int
        BY <1>1
      <4> QED
        BY <1>0, <3>1, <4>1, SubSeqProperties
    <3> HIDE DEF f
    <3>3. Len(f) = n - 1 /\ n - 1 - 1 + 1 = n - 1 /\ \A i \in 1..(n - 1) : 1 + i - 1 = i
      <4>1. n \in Nat /\ n > 0 /\ Len(f) = (IF 1 <= n - 1 THEN n - 1 - 1 + 1 ELSE 0)
        BY <1>1, <1>3, <3>2
      <4> HIDE DEF n
      <4> QED
        BY <4>1
    <3>4. ASSUME NEW i \in 1..(n - 1) PROVE f[i] = u[i]
      BY <3>2, <3>3
    <3> QED
      BY <3>2, <3>3, <3>4
  <2>3. o2 # 0 /\ ku + n = k2 + 1 /\ n # 0
    BY <1>0, <1>3
  <2> HIDE DEF f, c
  <2>4. k2 + 1 <= Len(A) /\ k2 < Len(A) /\ ku + (n - 1) = k2
    BY <1>0, <1>1, <2>3
  <2>5. ASSUME NEW i \in 1..(n - 1) PROVE f[i] = Piece(A[ku + i], 0, SduLen[A[ku + i]])
    <3>1. i \in 1..n /\ i # n
      BY <1>1
    <3>2. u[i] = Piece(A[ku + i], 0, SduLen[A[ku + i]])
      BY <1>0, <3>1
    <3> QED
      BY <2>2, <3>2
  <2>6. u[n] = Piece(A[k2 + 1], 0, o2)
    <3>1. n \in 1..n
      BY <1>1, <2>3
    <3>2. u[n] = Piece(A[ku + n], 0, o2)
      BY <1>0, <2>3, <3>1
    <3> QED
      BY <2>3, <3>2
  <2> HIDE DEF n
  <2>7. Selected(A, v, k2) /\ Continues(out, v)
    <3>1. ku + Len(f) <= k2
      BY <1>0, <2>2, <2>4
    <3>2. \A i \in 1..Len(f) : f[i] = Piece(A[ku + i], 0, SduLen[A[ku + i]])
      BY <2>2, <2>5
    <3> QED
      BY <1>0, <2>2, <3>1, <3>2, SelectedMore
  <2> HIDE DEF v
  <2>8. c.out = v
    BY <2>1
  <2>9. Chosen(A, c, sn, k2, o2)
    <3>1. TRUE \in BOOLEAN
      OBVIOUS
    <3> QED
      BY <1>0, <2>1, <2>3, <2>4, <2>6, <2>7, <3>1 DEF Chosen
  <2> QED
    BY <2>7, <2>8, <2>9 DEF c
<1> QED
  BY <1>2, <1>3

\* A PDU that comes after what was reassembled, if not where it ended then with
\* something missing in between: its SDUs are selected as far as they are whole.
LEMMA UmReassembles ==
  ASSUME NEW A \in Seq(Sdus), Ascending(A), NEW k, NEW o, NEW k2, NEW o2,
         NEW pdu, Carries(A, pdu, k, o, k2, o2),
         NEW r, NEW sn, NEW k0, NEW o0, Chosen(A, r, sn, k0, o0), k0 <= k,
         pdu.sn = sn => k0 = k /\ o0 = o
  PROVE  /\ Chosen(A, ReassembleAndDeliver(r, pdu), (pdu.sn + 1) % Modulus, k2, o2)
         /\ Continues(r.out, ReassembleAndDeliver(r, pdu).out)
<1> DEFINE d   == pdu.data
           n   == Len(d)
           sn2 == (pdu.sn + 1) % Modulus
           e(i) == IF i = n /\ o2 # 0 THEN o2 ELSE SduLen[A[k + i]]
<1>1. /\ d \in Seq(Pieces) /\ n > 0 /\ n \in Nat /\ k + n <= Len(A) /\ Len(A) \in Nat
      /\ k \in Nat /\ o \in Nat /\ k2 \in Nat /\ o2 \in Nat
      /\ k2 = k + n - (IF o2 = 0 THEN 0 ELSE 1)
  <2>1. /\ d \in Seq(Pieces) /\ n > 0 /\ k + n <= Len(A)
        /\ k \in Nat /\ o \in Nat /\ k2 \in Nat /\ o2 \in Nat
        /\ k2 = k + n - (IF o2 = 0 THEN 0 ELSE 1)
    BY Zenon DEF Carries
  <2> HIDE DEF d
  <2>2. n \in Nat /\ Len(A) \in Nat
    BY <2>1
  <2> QED
    BY <2>1, <2>2
<1>2. ASSUME NEW i \in 1..n
      PROVE  /\ d[i].sdu = A[k + i] /\ d[i].from = (IF i = 1 THEN o ELSE 0)
             /\ d[i].from + d[i].len = e(i)
  BY DEF Carries
<1>3. pdu.first = (o = 0) /\ pdu.last = (o2 = 0)
  BY DEF Carries
<1>4. PICK w \in BOOLEAN :
        \E keep, out :
          /\ r = [expected |-> sn, waiting |-> w, keep |-> keep, left |-> <<>>, out |-> out]
          /\ Selected(A, out, k0)
          /\ w => o0 # 0 /\ k0 < Len(A) /\ keep = Piece(A[k0 + 1], 0, o0)
  BY DEF Chosen
<1>5. PICK keep, out :
        /\ r = [expected |-> sn, waiting |-> w, keep |-> keep, left |-> <<>>, out |-> out]
        /\ Selected(A, out, k0)
        /\ w => o0 # 0 /\ k0 < Len(A) /\ keep = Piece(A[k0 + 1], 0, o0)
  BY <1>4
<1>6. k0 \in Nat
  BY DEF Chosen
<1> DEFINE next == [expected |-> sn2, waiting |-> w, keep |-> keep, left |-> <<>>, out |-> out]
<1>7. /\ [r EXCEPT !.expected = sn2] = next
      /\ r.expected = sn /\ r.waiting = w /\ r.left = <<>> /\ r.keep = keep /\ r.out = out
  BY <1>5
<1>8. \A i \in 1..n : /\ d[i] \in Pieces /\ d[i] = Piece(d[i].sdu, d[i].from, d[i].len)
                     /\ d[i].len \in Nat \ {0} /\ d[i].from \in Nat
  <2> SUFFICES ASSUME NEW i \in 1..n
               PROVE  /\ d[i] \in Pieces /\ d[i] = Piece(d[i].sdu, d[i].from, d[i].len)
                      /\ d[i].len \in Nat \ {0} /\ d[i].from \in Nat
    OBVIOUS
  <2>1. d[i] \in Pieces
    BY <1>1
  <2> QED
    BY <2>1 DEF Pieces, Piece
<1>9. r.left \o d = d
  BY <1>1, <1>7, ConcatEmptySeq
<1> HIDE DEF sn2, e, d
<1>10. d # <<>> /\ Head(d) = d[1] /\ 1 \in 1..n
  BY <1>1
<1> DEFINE t == Tail(d)
<1>11. /\ t \in Seq(Pieces) /\ Len(t) = n - 1 /\ \A i \in 1..Len(t) : t[i] = d[i + 1]
  BY <1>1, <1>10, HeadTailProperties
<1> HIDE DEF t
<1>12. ASSUME NEW i \in 1..n, i # 1 \/ o = 0 PROVE d[i] = Piece(A[k + i], 0, e(i))
  <2>1. /\ d[i].sdu = A[k + i] /\ d[i].from = 0 /\ d[i].from + d[i].len = e(i)
        /\ d[i] = Piece(d[i].sdu, d[i].from, d[i].len) /\ d[i].len \in Nat \ {0}
    BY <1>2, <1>8, <1>12
  <2>2. d[i].len = e(i)
    BY <2>1
  <2> QED
    BY <2>1, <2>2
\* the pieces that can be used, from the place ku on
<1>13. \E u, ku : /\ ReassembleAndDeliver(r, pdu) = Complete(next, u, pdu.last)
                  /\ ku \in Nat /\ k <= ku /\ ku + Len(u) = k + n
                  /\ u \in Seq(Pieces)
                  /\ \A i \in 1..Len(u) : u[i] = Piece(A[ku + i], 0, e(ku - k + i))
  <2>1. CASE w /\ pdu.sn = sn
    <3> DEFINE j == Join(keep, Head(d))
               u == <<j>> \o t
    <3>1. o # 0 /\ ~pdu.first /\ keep = Piece(A[k + 1], 0, o)
      BY <1>3, <1>5, <2>1
    <3>2. ReassembleAndDeliver(r, pdu) = Complete(next, u, pdu.last)
      <4>1. ReassembleAndDeliver(r, pdu)
              = Complete([r EXCEPT !.expected = sn2],
                         <<Join(r.keep, Head(r.left \o d))>> \o Tail(r.left \o d), pdu.last)
        <5>1. r.waiting /\ NoLoss(r, pdu) /\ ~pdu.first
          BY <1>7, <2>1, <3>1 DEF NoLoss
        <5> QED
          BY <5>1 DEF ReassembleAndDeliver, sn2, d
      <4> QED
        BY <1>7, <1>9, <4>1 DEF t
    <3>3. j = Piece(A[k + 1], 0, e(1)) /\ j \in Pieces
      <4>1. /\ d[1].sdu = A[k + 1] /\ d[1].from = o /\ d[1].from + d[1].len = e(1)
            /\ d[1].len \in Nat \ {0} /\ d[1].from \in Nat
        BY <1>2, <1>8, <1>10
      <4>2. j = Piece(A[k + 1], 0, o + d[1].len)
        <5>1. keep.sdu = A[k + 1] /\ keep.from = 0 /\ keep.len = o
          BY <3>1 DEF Piece
        <5>2. 0 + o = o
          BY <1>1
        <5> QED
          BY <1>10, <4>1, <5>1, <5>2 DEF Join
      <4>3. A[k + 1] \in Nat
        <5>1. k + 1 \in 1..Len(A)
          BY <1>1
        <5> QED
          BY <5>1, AcceptedIs
      <4>4. e(1) \in Nat \ {0}
        BY <1>1, <4>1
      <4> HIDE DEF j
      <4> QED
        BY <4>1, <4>2, <4>3, <4>4 DEF Piece, Pieces
    <3> HIDE DEF j
    <3>4. <<j>> \in Seq(Pieces) /\ Len(<<j>>) = 1 /\ <<j>>[1] = j
      BY <3>3
    <3>5. /\ u \in Seq(Pieces) /\ Len(u) = Len(<<j>>) + Len(t)
          /\ \A i \in 1..(Len(<<j>>) + Len(t)) :
               u[i] = IF i <= Len(<<j>>) THEN <<j>>[i] ELSE t[i - Len(<<j>>)]
      BY <1>11, <3>4, ConcatProperties
    <3> HIDE DEF u
    <3>6. Len(u) = n
      BY <1>1, <1>11, <3>4, <3>5
    <3>7. ASSUME NEW i \in 1..n PROVE u[i] = Piece(A[k + i], 0, e(k - k + i))
      <4>0. k - k + i = i
        BY <1>1
      <4>1. u[i] = IF i <= 1 THEN j ELSE t[i - 1]
        BY <1>11, <3>4, <3>5, <3>6
      <4>2. CASE i = 1
        BY <3>3, <4>0, <4>1, <4>2
      <4>3. CASE i # 1
        <5>1. i - 1 \in 1..Len(t) /\ i - 1 + 1 = i /\ ~(i <= 1)
          BY <1>1, <1>11, <4>3
        <5>2. u[i] = d[i]
          BY <1>11, <4>1, <5>1
        <5> QED
          BY <1>12, <4>0, <4>3, <5>2
      <4> QED
        BY <4>2, <4>3
    <3>8. k <= k /\ k + Len(u) = k + n
      BY <1>1, <3>6
    <3> QED
      BY <1>1, <3>2, <3>5, <3>6, <3>7, <3>8
  <2>2. CASE ~(w /\ pdu.sn = sn) /\ o = 0
    <3>1. pdu.first /\ ~(r.waiting /\ NoLoss(r, pdu))
      BY <1>3, <1>7, <2>2 DEF NoLoss
    <3>2. ReassembleAndDeliver(r, pdu) = Complete(next, d, pdu.last)
      <4>1. ReassembleAndDeliver(r, pdu)
              = Complete([r EXCEPT !.expected = sn2], r.left \o d, pdu.last)
        BY <3>1 DEF ReassembleAndDeliver, sn2, d
      <4> QED
        BY <1>7, <1>9, <4>1
    <3>3. \A i \in 1..n : d[i] = Piece(A[k + i], 0, e(k - k + i))
      <4> SUFFICES ASSUME NEW i \in 1..n PROVE d[i] = Piece(A[k + i], 0, e(k - k + i))
        OBVIOUS
      <4>1. k - k + i = i
        BY <1>1
      <4> QED
        BY <1>12, <2>2, <4>1
    <3>4. k <= k
      BY <1>1
    <3> QED
      BY <1>1, <3>2, <3>3, <3>4
  <2>3. CASE ~(w /\ pdu.sn = sn) /\ o # 0
    <3>1. ~pdu.first /\ ~(r.waiting /\ NoLoss(r, pdu))
      BY <1>3, <1>7, <2>3 DEF NoLoss
    <3>2. ReassembleAndDeliver(r, pdu) = Complete(next, t, pdu.last)
      <4>1. ReassembleAndDeliver(r, pdu)
              = Complete([r EXCEPT !.expected = sn2], Tail(r.left \o d), pdu.last)
        BY <3>1 DEF ReassembleAndDeliver, sn2, d
      <4> QED
        BY <1>7, <1>9, <4>1 DEF t
    <3> DEFINE ku == k + 1
    <3>3. \A i \in 1..Len(t) : t[i] = Piece(A[ku + i], 0, e(ku - k + i))
      <4> SUFFICES ASSUME NEW i \in 1..Len(t)
                   PROVE  t[i] = Piece(A[ku + i], 0, e(ku - k + i))
        OBVIOUS
      <4> DEFINE x == i + 1
      <4>1. ku + i = k + x /\ ku - k + i = x /\ x \in 1..n /\ x # 1
        <5>1. i \in Nat /\ i # 0 /\ i <= n - 1
          BY <1>1, <1>11
        <5> HIDE DEF n
        <5> QED
          BY <1>1, <5>1
      <4>2. t[i] = d[x]
        BY <1>11
      <4> HIDE DEF x, ku
      <4>3. d[x] = Piece(A[k + x], 0, e(x))
        BY <1>12, <4>1
      <4> QED
        BY <4>1, <4>2, <4>3
    <3>4. ku \in Nat /\ k <= ku /\ ku + Len(t) = k + n
      BY <1>1, <1>11
    <3> HIDE DEF ku
    <3> QED
      BY <1>11, <3>2, <3>3, <3>4
  <2> QED
    BY <2>1, <2>2, <2>3
<1>14. PICK u, ku : /\ ReassembleAndDeliver(r, pdu) = Complete(next, u, pdu.last)
                    /\ ku \in Nat /\ k <= ku /\ ku + Len(u) = k + n
                    /\ u \in Seq(Pieces)
                    /\ \A i \in 1..Len(u) : u[i] = Piece(A[ku + i], 0, e(ku - k + i))
  BY <1>13
<1>15. /\ ku + Len(u) = k2 + (IF o2 = 0 THEN 0 ELSE 1) /\ ku + Len(u) <= Len(A)
       /\ k0 <= ku /\ k0 <= k2 /\ k2 <= Len(A) /\ Len(u) \in Nat
  <2>1. k2 + (IF o2 = 0 THEN 0 ELSE 1) = k + n
    BY <1>1
  <2>2. k <= k2 /\ k2 <= Len(A)
    BY <1>1
  <2> QED
    BY <1>1, <1>6, <1>14, <2>1, <2>2
<1>16. ASSUME NEW i \in 1..Len(u)
       PROVE  u[i] = Piece(A[ku + i], 0, IF i = Len(u) /\ o2 # 0 THEN o2 ELSE SduLen[A[ku + i]])
  <2>1. k + (ku - k + i) = ku + i /\ (ku - k + i = n <=> i = Len(u))
    <3>1. \A a, b, l, m, x \in Nat :
            b + l = a + m => a + (b - a + x) = b + x /\ (b - a + x = m <=> x = l)
      OBVIOUS
    <3>2. i \in Nat /\ ku \in Nat /\ ku + Len(u) = k + n
      BY <1>14, <1>15
    <3> HIDE DEF n
    <3> QED
      BY <1>1, <1>15, <3>1, <3>2
  <2>2. u[i] = Piece(A[ku + i], 0, e(ku - k + i))
    BY <1>14
  <2> QED
    BY <2>1, <2>2 DEF e
<1> HIDE DEF n, next
<1>17. /\ Chosen(A, Complete(next, u, pdu.last), sn2, k2, o2)
       /\ Continues(out, Complete(next, u, pdu.last).out)
  <2> DEFINE last == pdu.last
  <2>1. last = (o2 = 0)
    BY <1>3
  <2> HIDE DEF last
  <2>2. Usable(A, u, ku, k2, o2)
    BY <1>1, <1>14, <1>15, <1>16 DEF Usable
  <2>3. next = [expected |-> sn2, waiting |-> w, keep |-> keep, left |-> <<>>, out |-> out]
    BY DEF next
  <2>4. /\ Chosen(A, Complete(next, u, last), sn2, k2, o2)
        /\ Continues(out, Complete(next, u, last).out)
    BY <1>5, <1>6, <1>15, <2>1, <2>2, <2>3, UmCompletes
  <2> QED
    BY <2>4 DEF last
<1> QED
  BY <1>7, <1>14, <1>17 DEF sn2

\* The parts of a receiving entity's reassembly.
LEMMA ChosenIs ==
  ASSUME NEW A, NEW r, NEW sn, NEW k, NEW o, Chosen(A, r, sn, k, o)
  PROVE  /\ r.expected = sn /\ r.waiting \in BOOLEAN /\ r.left = <<>>
         /\ Selected(A, r.out, k) /\ r.out \in Seq(Pieces) /\ Len(r.out) \in Nat
         /\ k \in Nat /\ o \in Nat /\ k <= Len(A)
<1>1. PICK w \in BOOLEAN : \E keep, out :
        /\ r = [expected |-> sn, waiting |-> w, keep |-> keep, left |-> <<>>, out |-> out]
        /\ Selected(A, out, k)
  BY DEF Chosen
<1>2. PICK keep, out :
        /\ r = [expected |-> sn, waiting |-> w, keep |-> keep, left |-> <<>>, out |-> out]
        /\ Selected(A, out, k)
  BY <1>1
<1>3. r.expected = sn /\ r.waiting = w /\ r.left = <<>> /\ r.out = out
  BY <1>2
<1>4. out \in Seq(Pieces)
  BY <1>2 DEF Selected
<1>5. Len(out) \in Nat
  BY <1>4
<1>6. k \in Nat /\ o \in Nat /\ k <= Len(A)
  BY DEF Chosen
<1> QED
  BY <1>2, <1>3, <1>4, <1>5, <1>6

\* A continuation of a continuation.
LEMMA ContinuesOn ==
  ASSUME NEW a, NEW b, NEW c, Len(a) \in Nat, Len(b) \in Nat, Len(c) \in Nat,
         Continues(a, b), Continues(b, c)
  PROVE  Continues(a, c)
<1>1. Len(a) <= Len(b) /\ Len(b) <= Len(c) /\ Len(a) <= Len(c)
  BY DEF Continues
<1>2. ASSUME NEW i \in 1..Len(a) PROVE c[i] = a[i]
  <2>1. i \in 1..Len(b)
    BY <1>1
  <2> QED
    BY <2>1 DEF Continues
<1> QED
  BY <1>1, <1>2 DEF Continues

\* The n numbers from VR(UR) on, one after the other: what is buffered is
\* reassembled, and what is missing in between costs SDUs but glues none together.
LEMMA ReassembledChosen ==
  ASSUME NEW A \in Seq(Sdus), Ascending(A), NEW ur \in Sns, NEW n \in 0..Window,
         NEW b, NEW ix, NEW off, NEW f,
         \A y \in Sns : Dist(ur, y) < n =>
           f[y].sn = y /\ Carries(A, f[y], ix[y], off[y], ix[Follow(y)], off[Follow(y)]),
         \A y \in DOMAIN b : b[y] = f[y],
         NEW r, Chosen(A, r, ur, ix[ur], off[ur]), Moved(ur, n, b),
         NEW v, v = (ur + n) % Modulus
  PROVE  /\ Chosen(A, Reassembled(r, b, Numbers(ur, n)), v, ix[v], off[v])
         /\ Continues(r.out, Reassembled(r, b, Numbers(ur, n)).out)
<1> DEFINE N(i) == (ur + i) % Modulus
           q == Numbers(ur, n)
<1>1. /\ n \in Nat /\ n < Modulus /\ Modulus \in Nat /\ n \in 0..(Modulus - 1)
  <2>1. Window \in Nat \ {0} /\ Modulus = 2 * Window
    BY Ring
  <2> QED
    BY <2>1
<1>2. DOMAIN q = 1..n /\ \A i \in 1..n : q[i] = N(i - 1)
  BY <1>1, NumbersAre
<1> HIDE DEF q
<1>3. PICK h : /\ h[0] = r
               /\ h[n] = Reassembled(r, b, q)
               /\ \A i \in 1..n : h[i] = Taken(b, h[i - 1], q[i])
  <2>1. n \in Nat /\ DOMAIN q = 1..n
    BY <1>1, <1>2
  <2>2. \E h : Turns(h, r, b, q, n)
    BY <2>1, ReassembledSteps
  <2> QED
    BY <2>2 DEF Turns
<1>4. ASSUME NEW i \in 0..n PROVE N(i) \in Sns /\ Dist(ur, N(i)) = i
  <2>1. i \in 0..(Modulus - 1)
    BY <1>1
  <2> QED
    BY <2>1, PlusDist
<1>5. N(0) = ur
  <2>1. Dist(ur, ur) = 0
    BY DistRange
  <2> QED
    BY <2>1, DistPlus
<1>6. ASSUME NEW i \in 0..n, i < n PROVE Follow(N(i)) = N(i + 1)
  <2>1. Follow(N(i)) \in Sns /\ Dist(ur, Follow(N(i))) = i + 1
    BY <1>1, <1>4, <1>6, Following
  <2>2. N(i + 1) \in Sns /\ Dist(ur, N(i + 1)) = i + 1
    <3>1. i + 1 \in 0..n
      BY <1>1, <1>6
    <3> QED
      BY <1>4, <3>1
  <2> HIDE DEF N
  <2> QED
    BY <2>1, <2>2, DistSame
<1>7. ASSUME NEW i \in 0..n, i < n
      PROVE  /\ f[N(i)].sn = N(i)
             /\ Carries(A, f[N(i)], ix[N(i)], off[N(i)], ix[N(i + 1)], off[N(i + 1)])
  <2>1. N(i) \in Sns /\ Dist(ur, N(i)) < n
    BY <1>4, <1>7
  <2>2. Follow(N(i)) = N(i + 1)
    BY <1>6, <1>7
  <2> HIDE DEF N
  <2> QED
    BY <2>1, <2>2
<1> HIDE DEF N
<1>8. ASSUME NEW i \in 0..n, i < n
      PROVE  ix[N(i)] \in Nat /\ ix[N(i + 1)] \in Nat /\ ix[N(i)] <= ix[N(i + 1)]
  <2> DEFINE k == ix[N(i)]
             k2 == ix[N(i + 1)]
             o2 == off[N(i + 1)]
             m == Len(f[N(i)].data)
  <2>1. Carries(A, f[N(i)], k, off[N(i)], k2, o2)
    BY <1>7, <1>8
  <2> HIDE DEF k, k2, o2
  <2>2. /\ f[N(i)].data \in Seq(Pieces) /\ m > 0 /\ k \in Nat /\ k2 \in Nat
        /\ k2 = k + m - (IF o2 = 0 THEN 0 ELSE 1)
    BY <2>1 DEF Carries
  <2>3. m \in Nat
    BY <2>2
  <2> HIDE DEF m
  <2>4. k <= k2
    BY <2>2, <2>3
  <2> QED
    BY <2>2, <2>4 DEF k, k2
<1> DEFINE P(i, j) == /\ Chosen(A, h[i], N(j), ix[N(j)], off[N(j)]) /\ ix[N(j)] <= ix[N(i)]
                      /\ (i = 0 \/ N(i - 1) \in DOMAIN b) => j = i
                      /\ Continues(r.out, h[i].out)
           S == {i \in Nat : i <= n => \E j \in 0..i : P(i, j)}
<1>9. 0 \in S
  <2>1. ix[ur] \in Nat /\ Len(r.out) \in Nat
    BY ChosenIs
  <2>2. Continues(r.out, r.out) /\ ix[ur] <= ix[ur]
    BY <2>1 DEF Continues
  <2>3. P(0, 0)
    BY <1>3, <1>5, <2>2
  <2>4. 0 \in 0..0
    OBVIOUS
  <2> HIDE DEF P
  <2> QED
    BY <2>3, <2>4
<1>10. ASSUME NEW i \in Nat, i \in S PROVE i + 1 \in S
  <2> SUFFICES ASSUME i + 1 <= n PROVE \E j \in 0..(i + 1) : P(i + 1, j)
    OBVIOUS
  <2>1. i \in 0..n /\ i < n /\ i + 1 \in 1..n /\ i + 1 - 1 = i /\ i <= n
    BY <1>1
  <2>2. PICK j \in 0..i : P(i, j)
    BY <1>10, <2>1
  <2>3. h[i + 1] = Taken(b, h[i], N(i))
    BY <1>2, <1>3, <2>1
  <2>4. j \in 0..(i + 1) /\ i + 1 \in 0..(i + 1) /\ j \in 0..n
    BY <2>1
  <2> DEFINE x == N(i)
             z == N(i + 1)
  <2>5. /\ ix[N(j)] \in Nat /\ ix[x] \in Nat /\ ix[z] \in Nat /\ ix[x] <= ix[z] /\ ix[N(j)] <= ix[x]
    BY <1>8, <2>1, <2>2, ChosenIs
  <2>6. CASE x \notin DOMAIN b
    <3>1. h[i + 1] = h[i]
      BY <2>3, <2>6 DEF Taken
    <3>2. ~(i + 1 = 0) /\ N(i + 1 - 1) \notin DOMAIN b
      BY <2>1, <2>6
    <3>3. ix[N(j)] <= ix[z]
      BY <2>5
    <3>4. P(i + 1, j)
      BY <2>2, <3>1, <3>2, <3>3
    <3> HIDE DEF P
    <3> QED
      BY <2>4, <3>4
  <2>7. CASE x \in DOMAIN b
    <3> DEFINE pdu == f[x]
               g == ReassembleAndDeliver(h[i], pdu)
    <3>1. h[i + 1] = g
      BY <2>3, <2>7 DEF Taken
    <3>2. pdu.sn = x /\ Carries(A, pdu, ix[x], off[x], ix[z], off[z])
      BY <1>7, <2>1
    <3>3. (x + 1) % Modulus = z
      BY <1>6, <2>1 DEF Follow
    <3>4. Chosen(A, h[i], N(j), ix[N(j)], off[N(j)])
      BY <2>2
    <3>5. pdu.sn = N(j) => ix[N(j)] = ix[x] /\ off[N(j)] = off[x]
      BY <3>2
    <3> HIDE DEF pdu, x, z
    <3>6. Chosen(A, g, (pdu.sn + 1) % Modulus, ix[z], off[z]) /\ Continues(h[i].out, g.out)
      BY <2>5, <3>2, <3>4, <3>5, UmReassembles
    <3>7. Chosen(A, g, z, ix[z], off[z])
      BY <3>2, <3>3, <3>6
    <3>8. Continues(r.out, g.out)
      <4>1. Len(r.out) \in Nat /\ Len(h[i].out) \in Nat /\ Len(g.out) \in Nat
        BY <3>4, <3>7, ChosenIs
      <4> HIDE DEF g
      <4>2. Continues(r.out, h[i].out)
        BY <2>2
      <4> QED
        BY <3>6, <4>1, <4>2, ContinuesOn
    <3>9. ix[z] <= ix[z]
      BY <2>5
    <3> HIDE DEF g
    <3>10. P(i + 1, i + 1)
      BY <3>1, <3>7, <3>8, <3>9 DEF z
    <3> HIDE DEF P
    <3> QED
      BY <2>4, <3>10
  <2> QED
    BY <2>6, <2>7
<1>11. n \in S
  <2> HIDE DEF S
  <2> QED
    BY <1>1, <1>9, <1>10, NatInd
<1>12. PICK j \in 0..n : P(n, j)
  BY <1>1, <1>11
<1>13. j = n
  BY <1>12 DEF Moved, N
<1>14. v = N(n)
  BY DEF N
<1> QED
  BY <1>3, <1>12, <1>13, <1>14 DEF q

-----------------------------------------------------------------------------
(* The invariant.                                                          *)

\* Half the numbers tell what is on its way from what was sent a round before:
\* no PDU is waited for, or on its way, while more than that many are sent.
InStep ==
  /\ Dist(rx.ur, tx.sn) <= Window
  /\ \A i \in DOMAIN channel : Dist(channel[i].pdu.sn, tx.sn) <= Window

TxRecord(t) ==
  t = [buffer |-> t.buffer, sn |-> t.sn, sent |-> t.sent, rbsTimer |-> t.rbsTimer,
       bsrReported |-> t.bsrReported]

RxRecord(r) == r = RxState(r.ur, r.ux, r.uh, r.timer, r.buffer, r.reassembly)

UmShape ==
  /\ variant \in Variants /\ mac \in BOOLEAN
  /\ TxRecord(tx) /\ tx.sn \in Sns /\ tx.rbsTimer \in BOOLEAN /\ tx.bsrReported \in BOOLEAN
  /\ RxRecord(rx) /\ InWindow(rx.ur, rx.ux, rx.uh, rx.timer, rx.buffer)
  /\ Dist(rx.ur, rx.uh) <= Dist(rx.ur, tx.sn)
  /\ Listed(channel)
  /\ offered \in 0..Len(SduLen) /\ missed \subseteq Sdus

\* The numbers between VR(UR) and the next one to be sent
Awaited(u, s, x) == Dist(u, x) < Dist(u, s)

\* PDU f[x] carries the stream of accepted SDUs from the place of x to the next.
Streamed(A, ix, off, f, u, s) ==
  \A x \in Sns : Awaited(u, s, x) =>
    f[x].sn = x /\ Carries(A, f[x], ix[x], off[x], ix[Follow(x)], off[Follow(x)])

Travels(q, f, u, s) ==
  \A i \in DOMAIN q :
    /\ q[i].pdu.sn \in Sns /\ Dist(q[i].pdu.sn, s) # 0 /\ SdusOf(q[i].pdu) \subseteq Sdus
    /\ Awaited(u, s, q[i].pdu.sn) => q[i].pdu = f[q[i].pdu.sn]

Kept(b, f) == \A y \in DOMAIN b : b[y] = f[y]

Stream(A, ix, off, f, t, q, r) ==
  /\ Streamed(A, ix, off, f, r.ur, t.sn)
  /\ Buffered(A, t.buffer, ix[t.sn], off[t.sn])
  /\ Travels(q, f, r.ur, t.sn) /\ Kept(r.buffer, f)
  /\ Chosen(A, r.reassembly, r.ur, ix[r.ur], off[r.ur])

UmData ==
  /\ accepted \in Seq(Sdus) /\ Ascending(accepted)
  /\ \A i \in 1..Len(accepted) : accepted[i] <= offered
  /\ \E ix, off, f : Stream(accepted, ix, off, f, tx, channel, rx)

\* A step of the abstract service.
Served == Service!Accept \/ Service!DeliverSome \/ UNCHANGED Service!service

\* Nothing has been sent.
LEMMA UmInitially == UmInit => UmShape /\ UmData
<1> SUFFICES ASSUME UmInit PROVE UmShape /\ UmData
  OBVIOUS
<1> DEFINE z == [x \in Sns |-> 0]
<1>1. /\ variant \in Variants /\ mac = FALSE /\ channel = <<>> /\ accepted = <<>>
      /\ offered = 0 /\ missed = {}
      /\ tx = [buffer |-> <<>>, sn |-> 0, sent |-> 0, rbsTimer |-> FALSE, bsrReported |-> FALSE]
      /\ rx = RxState(0, 0, 0, FALSE, <<>>, Reassembly0)
  BY DEF UmInit, RxState
<1>2. /\ tx.buffer = <<>> /\ tx.sn = 0 /\ tx.rbsTimer = FALSE /\ tx.bsrReported = FALSE
      /\ TxRecord(tx)
  BY <1>1 DEF TxRecord
<1>3. /\ rx.ur = 0 /\ rx.ux = 0 /\ rx.uh = 0 /\ rx.timer = FALSE /\ rx.buffer = <<>>
      /\ rx.reassembly = Reassembly0 /\ RxRecord(rx)
  BY <1>1 DEF RxState, RxRecord
<1>4. 0 \in Sns /\ Dist(0, 0) = 0 /\ (\A x \in Sns : Dist(0, x) \in Nat) /\ Window \in Nat
  <2>1. 0 \in Sns
    BY Ring
  <2> QED
    BY <2>1, DistRange, Ring
<1>5. z[0] = 0
  BY <1>4
<1> HIDE DEF z
<1>6. DOMAIN <<>> = {} /\ \A S : <<>> \in Seq(S) /\ Len(<<>>) = 0
  OBVIOUS
<1>7. InWindow(0, 0, 0, FALSE, <<>>)
  <2>1. IsMap(<<>>)
    BY DEF IsMap
  <2> QED
    BY <1>4, <1>6, <2>1 DEF InWindow
<1>8. Listed(<<>>)
  BY DEF Listed
<1>9. UmShape
  <2>1. 0 \in 0..Len(SduLen)
    BY RlcSduAssumption
  <2>2. InWindow(rx.ur, rx.ux, rx.uh, rx.timer, rx.buffer)
    BY <1>3, <1>7, Zenon
  <2>3. Dist(rx.ur, rx.uh) <= Dist(rx.ur, tx.sn)
    BY <1>2, <1>3, <1>4
  <2>4. Listed(channel)
    BY <1>1, <1>8
  <2>5. offered \in 0..Len(SduLen) /\ missed \subseteq Sdus /\ variant \in Variants
    BY <1>1, <2>1
  <2>6. tx.sn \in Sns /\ tx.rbsTimer \in BOOLEAN /\ tx.bsrReported \in BOOLEAN /\ mac \in BOOLEAN
    BY <1>1, <1>2, <1>4, Zenon
  <2> QED
    BY <1>2, <1>3, <2>2, <2>3, <2>4, <2>5, <2>6 DEF UmShape
<1>10. Buffered(<<>>, <<>>, 0, 0)
  BY <1>6 DEF Buffered
<1>11. Chosen(<<>>, Reassembly0, 0, 0, 0)
  <2>1. Selected(<<>>, <<>>, 0)
    BY <1>6 DEF Selected
  <2>2. Reassembly0 = [expected |-> 0, waiting |-> FALSE, keep |-> Junk, left |-> <<>>,
                       out |-> <<>>]
    BY DEF Reassembly0
  <2>3. FALSE => 0 # 0 /\ 0 < Len(<<>>) /\ Junk = Piece(<<>>[0 + 1], 0, 0)
    OBVIOUS
  <2>4. \E w \in BOOLEAN : \E keep, out :
          /\ Reassembly0 = [expected |-> 0, waiting |-> w, keep |-> keep, left |-> <<>>,
                            out |-> out]
          /\ Selected(<<>>, out, 0)
          /\ w => 0 # 0 /\ 0 < Len(<<>>) /\ keep = Piece(<<>>[0 + 1], 0, 0)
    BY <2>1, <2>2
  <2>5. 0 \in Nat /\ 0 <= Len(<<>>)
    BY <1>6
  <2> QED
    BY <2>4, <2>5 DEF Chosen
<1>12. Streamed(<<>>, z, z, z, 0, 0) /\ Travels(<<>>, z, 0, 0) /\ Kept(<<>>, z)
  BY <1>4, <1>6 DEF Streamed, Travels, Kept, Awaited
<1>13. Stream(accepted, z, z, z, tx, channel, rx)
  BY <1>1, <1>2, <1>3, <1>5, <1>10, <1>11, <1>12 DEF Stream
<1>14. /\ accepted \in Seq(Sdus) /\ Ascending(accepted)
       /\ \A i \in 1..Len(accepted) : accepted[i] <= offered
  BY <1>1, <1>6 DEF Ascending
<1> QED
  BY <1>9, <1>13, <1>14 DEF UmData

-----------------------------------------------------------------------------
(* PDCP hands over an SDU.                                                 *)

\* What was delivered, and the start that is kept, stay what they are.
LEMMA ChosenAppended ==
  ASSUME NEW A \in Seq(Sdus), NEW s \in Sdus, NEW r, NEW sn, NEW k, NEW o, Chosen(A, r, sn, k, o)
  PROVE  Chosen(Append(A, s), r, sn, k, o)
<1> DEFINE B == Append(A, s)
<1>1. Len(A) \in Nat /\ Len(B) = Len(A) + 1 /\ \A i \in 1..Len(A) : B[i] = A[i]
  BY AppendedIs
<1> HIDE DEF B
<1>2. k \in Nat /\ o \in Nat /\ k <= Len(A)
  BY DEF Chosen
<1>8. PICK w \in BOOLEAN : \E keep, out :
        /\ r = [expected |-> sn, waiting |-> w, keep |-> keep, left |-> <<>>, out |-> out]
        /\ Selected(A, out, k)
        /\ w => o # 0 /\ k < Len(A) /\ keep = Piece(A[k + 1], 0, o)
  BY DEF Chosen
<1>3. PICK keep, out :
        /\ r = [expected |-> sn, waiting |-> w, keep |-> keep, left |-> <<>>, out |-> out]
        /\ Selected(A, out, k)
        /\ w => o # 0 /\ k < Len(A) /\ keep = Piece(A[k + 1], 0, o)
  BY <1>8
<1>4. Selected(B, out, k)
  <2>1. /\ out \in Seq(Pieces)
        /\ \A i \in 1..Len(out) : \E j \in 1..k : out[i] = Piece(A[j], 0, SduLen[A[j]])
        /\ \A i, j \in 1..Len(out) : i < j => out[i].sdu < out[j].sdu
    BY <1>3 DEF Selected
  <2>2. \A j \in 1..k : B[j] = A[j]
    BY <1>1, <1>2
  <2>3. \A i \in 1..Len(out) : \E j \in 1..k : out[i] = Piece(B[j], 0, SduLen[B[j]])
    BY <2>1, <2>2
  <2> QED
    BY <2>1, <2>3 DEF Selected
<1>5. w => o # 0 /\ k < Len(B) /\ keep = Piece(B[k + 1], 0, o)
  <2> SUFFICES ASSUME w PROVE o # 0 /\ k < Len(B) /\ keep = Piece(B[k + 1], 0, o)
    OBVIOUS
  <2>1. k + 1 \in 1..Len(A) /\ k < Len(B)
    BY <1>1, <1>2, <1>3
  <2> QED
    BY <1>1, <1>3, <2>1
<1>6. k <= Len(B)
  BY <1>1, <1>2
<1>7. \E ww \in BOOLEAN : \E kk, oo :
        /\ r = [expected |-> sn, waiting |-> ww, keep |-> kk, left |-> <<>>, out |-> oo]
        /\ Selected(B, oo, k)
        /\ ww => o # 0 /\ k < Len(B) /\ kk = Piece(B[k + 1], 0, o)
  BY <1>3, <1>4, <1>5
<1> QED
  BY <1>2, <1>6, <1>7 DEF Chosen, B

\* One SDU more is accepted: what lies before it stays what it is.
LEMMA AcceptedStream ==
  ASSUME NEW A \in Seq(Sdus), NEW s \in Sdus, NEW ix, NEW off, NEW f, NEW t, NEW n, NEW q, NEW r,
         Stream(A, ix, off, f, t, q, r),
         n.buffer = Append(t.buffer, FullSdu(s)), n.sn = t.sn
  PROVE  Stream(Append(A, s), ix, off, f, n, q, r)
<1> DEFINE B == Append(A, s)
<1>1. Streamed(B, ix, off, f, r.ur, n.sn)
  <2>1. Streamed(A, ix, off, f, r.ur, n.sn)
    BY DEF Stream
  <2>2. ASSUME NEW x \in Sns, Awaited(r.ur, n.sn, x)
        PROVE  f[x].sn = x /\ Carries(B, f[x], ix[x], off[x], ix[Follow(x)], off[Follow(x)])
    <3>1. f[x].sn = x /\ Carries(A, f[x], ix[x], off[x], ix[Follow(x)], off[Follow(x)])
      BY <2>1, <2>2 DEF Streamed
    <3> QED
      BY <3>1, CarriesAppended
  <2> HIDE DEF B
  <2> QED
    BY <2>2 DEF Streamed
<1>2. Buffered(B, n.buffer, ix[n.sn], off[n.sn])
  <2>1. Buffered(A, t.buffer, ix[n.sn], off[n.sn])
    BY DEF Stream
  <2> QED
    BY <2>1, BufferedAppended
<1>3. Chosen(B, r.reassembly, r.ur, ix[r.ur], off[r.ur])
  BY ChosenAppended DEF Stream
<1>4. Travels(q, f, r.ur, n.sn) /\ Kept(r.buffer, f)
  BY DEF Stream
<1> QED
  BY <1>1, <1>2, <1>3, <1>4 DEF Stream

\* What the offer of an SDU does to the data.
LEMMA Offered ==
  ASSUME UmShape, UmData, Offer, tx'.buffer = Enqueued(offered + 1), tx'.sn = tx.sn
  PROVE  UmData' /\ Served /\ offered' \in 0..Len(SduLen)
<1> DEFINE s == offered + 1
<1>1. PICK ix, off, f : Stream(accepted, ix, off, f, tx, channel, rx)
  BY DEF UmData
<1>2. /\ accepted \in Seq(Sdus) /\ (\A i \in 1..Len(accepted) : accepted[i] <= offered)
      /\ Ascending(accepted) /\ Len(accepted) \in Nat /\ DOMAIN accepted = 1..Len(accepted)
  BY DEF UmData
<1>3. /\ s \in Sdus /\ s \in Nat /\ offered \in Nat /\ offered' = s /\ s > offered
      /\ s \in 0..Len(SduLen)
      /\ \A i \in 1..Len(accepted) : accepted[i] \in Nat
  <2>1. offered \in 0..Len(SduLen) /\ Len(SduLen) \in Nat
    BY RlcSduAssumption DEF UmShape
  <2>2. offered < Len(SduLen) /\ offered' = s
    BY DEF Offer
  <2>3. \A i \in 1..Len(accepted) : accepted[i] \in Nat
    BY <1>2 DEF Sdus
  <2> QED
    BY <2>1, <2>2, <2>3 DEF Sdus
<1>4. channel' = channel /\ rx' = rx
  BY DEF Offer
<1>5. \/ accepted' = Append(accepted, s) /\ tx'.buffer = Append(tx.buffer, FullSdu(s))
      \/ accepted' = accepted /\ tx'.buffer = tx.buffer
  BY DEF Offer, Enqueued
<1> HIDE DEF s
<1>6. delivered' = delivered
  BY <1>4 DEF delivered
<1>7. CASE accepted' = accepted /\ tx'.buffer = tx.buffer
  <2>1. Stream(accepted, ix, off, f, tx', channel, rx)
    BY <1>1, <1>7 DEF Stream
  <2>2. \A i \in 1..Len(accepted) : accepted[i] <= offered'
    BY <1>2, <1>3
  <2>3. UmData'
    BY <1>2, <1>4, <1>7, <2>1, <2>2 DEF UmData
  <2>4. Served
    BY <1>6, <1>7 DEF Served, Service!service
  <2> QED
    BY <1>3, <2>3, <2>4
<1>8. CASE accepted' = Append(accepted, s) /\ tx'.buffer = Append(tx.buffer, FullSdu(s))
  <2>1. Stream(accepted', ix, off, f, tx', channel, rx)
    BY <1>1, <1>2, <1>3, <1>8, AcceptedStream
  <2>2. /\ accepted' \in Seq(Sdus) /\ Len(accepted') = Len(accepted) + 1
        /\ accepted'[Len(accepted) + 1] = s
        /\ \A i \in 1..Len(accepted) : accepted'[i] = accepted[i]
    BY <1>2, <1>3, <1>8, AppendedIs
  <2>3. \A i \in 1..Len(accepted') : \/ i = Len(accepted) + 1 /\ accepted'[i] = s
                                     \/ /\ i \in 1..Len(accepted) /\ accepted'[i] = accepted[i]
                                        /\ accepted[i] \in Nat /\ accepted[i] < s
    <3> SUFFICES ASSUME NEW i \in 1..Len(accepted')
                 PROVE  \/ i = Len(accepted) + 1 /\ accepted'[i] = s
                        \/ /\ i \in 1..Len(accepted) /\ accepted'[i] = accepted[i]
                           /\ accepted[i] \in Nat /\ accepted[i] < s
      OBVIOUS
    <3>1. CASE i = Len(accepted) + 1
      BY <2>2, <3>1
    <3>2. CASE i # Len(accepted) + 1
      <4>1. i \in 1..Len(accepted)
        BY <1>2, <2>2, <3>2
      <4>2. accepted[i] <= offered /\ accepted[i] \in Nat
        BY <1>2, <1>3, <4>1
      <4> QED
        BY <1>3, <2>2, <4>1, <4>2
    <3> QED
      BY <3>1, <3>2
  <2>4. \A i \in 1..Len(accepted') : accepted'[i] <= offered'
    <3> SUFFICES ASSUME NEW i \in 1..Len(accepted') PROVE accepted'[i] <= s
      BY <1>3
    <3>1. accepted'[i] = s \/ (accepted'[i] \in Nat /\ accepted'[i] < s)
      BY <2>3
    <3> QED
      BY <1>3, <3>1
  <2>5. Ascending(accepted')
    <3> SUFFICES ASSUME NEW i \in 1..Len(accepted'), NEW j \in 1..Len(accepted'), i < j
                 PROVE  accepted'[i] < accepted'[j]
      BY DEF Ascending
    <3>1. i # Len(accepted) + 1 /\ Len(accepted') = Len(accepted) + 1
      BY <1>2, <2>2
    <3>2. /\ i \in 1..Len(accepted) /\ accepted'[i] = accepted[i]
          /\ accepted[i] \in Nat /\ accepted[i] < s
      BY <2>3, <3>1
    <3>3. CASE j = Len(accepted) + 1
      BY <2>2, <3>2, <3>3
    <3>4. CASE j # Len(accepted) + 1
      <4>1. j \in 1..Len(accepted) /\ accepted'[j] = accepted[j]
        BY <2>3, <3>4
      <4> QED
        BY <1>2, <3>2, <4>1 DEF Ascending
    <3> QED
      BY <3>3, <3>4
  <2>6. UmData'
    BY <1>4, <2>1, <2>2, <2>4, <2>5 DEF UmData
  <2>7. SubSeq(accepted', 1, Len(accepted)) = accepted
    BY <1>2, <1>3, <1>8
  <2>8. \A i \in DOMAIN accepted : accepted[i] < accepted'[Len(accepted')]
    <3> SUFFICES ASSUME NEW i \in 1..Len(accepted) PROVE accepted[i] < s
      BY <1>2, <2>2
    <3>1. accepted[i] <= offered /\ accepted[i] \in Nat
      BY <1>2, <1>3
    <3> QED
      BY <1>3, <3>1
  <2>9. Served
    BY <1>6, <2>2, <2>7, <2>8 DEF Served, Service!Accept
  <2> QED
    BY <1>3, <2>6, <2>9
<1> QED
  BY <1>5, <1>7, <1>8

-----------------------------------------------------------------------------
(* The receiving entity moves on.                                          *)

\* The beginning of a sequence.
LEMMA Prefix ==
  ASSUME NEW d \in Seq(Nat), NEW e \in Seq(Nat), Len(d) <= Len(e),
         \A i \in 1..Len(d) : e[i] = d[i]
  PROVE  SubSeq(e, 1, Len(d)) = d /\ (Len(d) = Len(e) => e = d)
<1>6. Len(d) = Len(e) => e = d
  OBVIOUS
<1>1. Len(d) \in Nat /\ Len(e) \in Nat
  OBVIOUS
<1>2. \A i \in 1..Len(d) : e[i] \in Nat
  BY <1>1
<1>3. /\ SubSeq(e, 1, Len(d)) \in Seq(Nat)
      /\ Len(SubSeq(e, 1, Len(d))) = IF 1 <= Len(d) THEN Len(d) - 1 + 1 ELSE 0
      /\ \A i \in 1..(Len(d) - 1 + 1) : SubSeq(e, 1, Len(d))[i] = e[1 + i - 1]
  BY <1>1, <1>2, SubSeqProperties
<1>4. Len(d) - 1 + 1 = Len(d) /\ \A i \in 1..Len(d) : 1 + i - 1 = i
  BY <1>1
<1>5. /\ Len(SubSeq(e, 1, Len(d))) = Len(d)
      /\ \A i \in 1..Len(d) : SubSeq(e, 1, Len(d))[i] = e[i]
  BY <1>1, <1>3, <1>4
<1> QED
  BY <1>1, <1>3, <1>5, <1>6

SdusAre(d, a) == d \in Seq(Nat) /\ Len(d) = Len(a) /\ \A i \in 1..Len(a) : d[i] = a[i].sdu

\* e is d or extends it by later accepted SDUs.
GoesOn(A, d, e) ==
  \/ e = d
  \/ /\ Len(e) > Len(d) /\ SubSeq(e, 1, Len(d)) = d
     /\ \A i \in DOMAIN e : \E j \in DOMAIN A : e[i] = A[j]
     /\ \A i, j \in DOMAIN e : i < j => e[i] < e[j]

\* The SDUs that were passed to PDCP.
LEMMA DeliveredAre == ASSUME NEW a \in Seq(Pieces) PROVE SdusAre([i \in DOMAIN a |-> a[i].sdu], a)
<1>1. Len(a) \in Nat /\ DOMAIN a = 1..Len(a) /\ \A i \in 1..Len(a) : a[i] \in Pieces
  OBVIOUS
<1>2. \A p \in Pieces : p.sdu \in Nat
  BY DEF Pieces
<1> HIDE DEF Pieces
<1> QED
  BY <1>1, <1>2 DEF SdusAre

\* What has been passed to PDCP, and what comes after it.
LEMMA DeliveredOn ==
  ASSUME NEW A \in Seq(Sdus), NEW a, NEW b, NEW k, NEW m, Selected(A, a, k), Selected(A, b, m),
         m \in Nat, m <= Len(A), Continues(a, b),
         NEW d, SdusAre(d, a), NEW e, SdusAre(e, b)
  PROVE  GoesOn(A, d, e)
<1>5. /\ d \in Seq(Nat) /\ Len(d) = Len(a) /\ \A i \in 1..Len(a) : d[i] = a[i].sdu
      /\ e \in Seq(Nat) /\ Len(e) = Len(b) /\ \A i \in 1..Len(b) : e[i] = b[i].sdu
  BY DEF SdusAre
<1>1. /\ a \in Seq(Pieces) /\ b \in Seq(Pieces)
      /\ \A i \in 1..Len(b) : \E j \in 1..m : b[i] = Piece(A[j], 0, SduLen[A[j]])
      /\ \A i, j \in 1..Len(b) : i < j => b[i].sdu < b[j].sdu
  BY DEF Selected
<1>2. /\ Len(a) \in Nat /\ Len(b) \in Nat /\ DOMAIN a = 1..Len(a) /\ DOMAIN b = 1..Len(b)
      /\ Len(A) \in Nat /\ DOMAIN A = 1..Len(A)
  BY <1>1
<1>3. Len(a) <= Len(b) /\ \A i \in 1..Len(a) : b[i] = a[i]
  BY DEF Continues
<1>4. DOMAIN d = 1..Len(a) /\ DOMAIN e = 1..Len(b)
  BY <1>2, <1>5
<1>6. \A i \in 1..Len(a) : e[i] = d[i]
  <2> SUFFICES ASSUME NEW i \in 1..Len(a) PROVE e[i] = d[i]
    OBVIOUS
  <2>1. i \in 1..Len(b)
    BY <1>2, <1>3
  <2> QED
    BY <1>3, <1>5, <2>1
<1>7. CASE Len(a) = Len(b)
  <2>1. e = d
    <3>1. Len(e) = Len(d) /\ Len(d) <= Len(e) /\ \A i \in 1..Len(d) : e[i] = d[i]
      BY <1>2, <1>5, <1>6, <1>7
    <3> QED
      BY <1>5, <3>1, Prefix
  <2> QED
    BY <2>1 DEF GoesOn
<1>8. CASE Len(a) # Len(b)
  <2>1. Len(e) > Len(d)
    <3>1. Len(d) = Len(a) /\ Len(e) = Len(b) /\ Len(a) <= Len(b)
      BY <1>3, <1>5
    <3>2. \A x, y \in Nat : x <= y /\ x # y => y > x
      OBVIOUS
    <3> QED
      BY <1>2, <1>8, <3>1, <3>2, Zenon
  <2>2. SubSeq(e, 1, Len(d)) = d
    BY <1>3, <1>5, <1>6, Prefix
  <2>3. ASSUME NEW i \in DOMAIN e PROVE \E j \in DOMAIN A : e[i] = A[j]
    <3>1. i \in 1..Len(b)
      BY <1>4
    <3>2. PICK j \in 1..m : b[i] = Piece(A[j], 0, SduLen[A[j]])
      BY <1>1, <3>1
    <3>3. j \in DOMAIN A
      BY <1>2
    <3>4. e[i] = A[j]
      BY <1>5, <3>1, <3>2 DEF Piece
    <3> QED
      BY <3>3, <3>4
  <2>4. ASSUME NEW i \in DOMAIN e, NEW j \in DOMAIN e, i < j PROVE e[i] < e[j]
    <3>1. i \in 1..Len(b) /\ j \in 1..Len(b)
      BY <1>4
    <3>2. b[i].sdu < b[j].sdu
      BY <1>1, <2>4, <3>1
    <3>3. e[i] = b[i].sdu /\ e[j] = b[j].sdu
      BY <1>5, <3>1
    <3> QED
      BY <3>2, <3>3
  <2> QED
    BY <2>1, <2>2, <2>3, <2>4 DEF GoesOn
<1> QED
  BY <1>7, <1>8

\* A higher VR(UR) leaves fewer numbers awaited.
LEMMA FewerAwaited ==
  ASSUME NEW ur \in Sns, NEW v \in Sns, NEW s \in Sns, Dist(ur, s) <= Window,
         Dist(ur, v) <= Dist(ur, s)
  PROVE  /\ Dist(v, s) = Dist(ur, s) - Dist(ur, v)
         /\ \A x \in Sns : Awaited(v, s, x) =>
              Awaited(ur, s, x) /\ Dist(v, x) = Dist(ur, x) - Dist(ur, v)
<1> DEFINE n == Dist(ur, v)
           d == Dist(ur, s)
<1>1. n \in Nat /\ d \in Nat /\ n <= d /\ d <= Window /\ Window \in Nat /\ Modulus = 2 * Window
  BY DistRange, Ring
<1>2. Dist(v, s) = d - n
  BY Rebase
<1>3. \A x \in Sns : Dist(v, x) = IF n <= Dist(ur, x) THEN Dist(ur, x) - n
                                  ELSE Dist(ur, x) - n + Modulus
  BY Rebase
<1> HIDE DEF n, d
<1>4. ASSUME NEW x \in Sns, Awaited(v, s, x)
      PROVE  Awaited(ur, s, x) /\ Dist(v, x) = Dist(ur, x) - n
  <2>1. Dist(ur, x) \in Nat /\ Dist(v, x) < d - n
    BY <1>2, <1>4, DistRange DEF Awaited
  <2>2. n <= Dist(ur, x)
    BY <1>1, <1>3, <2>1
  <2>3. Dist(ur, x) < d
    BY <1>1, <1>3, <2>1, <2>2
  <2> QED
    BY <1>3, <2>2, <2>3 DEF Awaited, d
<1> QED
  BY <1>2, <1>4 DEF n, d

\* Whatever the receiving entity passes on, it is at a place of the stream again.
LEMMA MovesStream ==
  ASSUME NEW A \in Seq(Sdus), Ascending(A), NEW ix, NEW off, NEW f, NEW t, NEW q, NEW r,
         Stream(A, ix, off, f, t, q, r), NEW q2, Travels(q2, f, r.ur, t.sn),
         r.ur \in Sns, t.sn \in Sns, Dist(r.ur, t.sn) <= Window,
         NEW z \in Sns, Dist(r.ur, z) <= Dist(r.ur, t.sn),
         NEW b, DOMAIN b \subseteq Sns, Kept(b, f),
         NEW new, MovesOn(new, r.ur, z, b, r.reassembly)
  PROVE  /\ RxRecord(new) /\ InWindow(new.ur, new.ux, new.uh, new.timer, new.buffer)
         /\ Dist(new.ur, new.uh) <= Dist(new.ur, t.sn)
         /\ Stream(A, ix, off, f, t, q2, new)
         /\ Continues(r.reassembly.out, new.reassembly.out)
         /\ Dist(r.ur, new.ur) <= Dist(r.ur, t.sn)
<1> DEFINE ur == r.ur
           s  == t.sn
           re == r.reassembly
<1>1. PICK n \in 0..Dist(ur, z), v \in Sns, w \in Sns :
        /\ new = RxState(v, w, z, v # z, Cut(b, ur, n), Reassembled(re, b, Numbers(ur, n)))
        /\ v = (ur + n) % Modulus
        /\ InWindow(v, w, z, v # z, Cut(b, ur, n)) /\ Dist(ur, v) = n
        /\ Moved(ur, n, b)
  BY DEF MovesOn
<1> DEFINE c  == Cut(b, ur, n)
           re2 == Reassembled(re, b, Numbers(ur, n))
<1>2. /\ new.ur = v /\ new.ux = w /\ new.uh = z /\ new.buffer = c /\ new.reassembly = re2
      /\ RxRecord(new)
  <2> HIDE DEF c, re2
  <2>1. new = RxState(v, w, z, v # z, c, re2)
    BY <1>1 DEF c, re2
  <2> QED
    BY <2>1 DEF RxState, RxRecord
<1>3. InWindow(new.ur, new.ux, new.uh, new.timer, new.buffer)
  <2> HIDE DEF c, re2
  <2>1. new = RxState(v, w, z, v # z, c, re2) /\ InWindow(v, w, z, v # z, c)
    BY <1>1 DEF c, re2
  <2>2. new.timer = (v # z)
    BY <2>1, Zenon DEF RxState
  <2> QED
    BY <1>2, <2>1, <2>2, Zenon
<1>4. /\ ur \in Sns /\ s \in Sns /\ n \in Nat /\ n <= Dist(ur, z) /\ n <= Dist(ur, s)
      /\ n \in 0..Window /\ Dist(ur, z) \in Nat /\ Dist(ur, s) \in Nat /\ Dist(ur, s) <= Window
  <2>1. Dist(ur, z) \in Nat /\ Dist(ur, s) \in Nat /\ Window \in Nat
    BY DistRange, Ring
  <2> QED
    BY <1>1, <2>1
<1>5. Dist(ur, v) = n /\ n <= Dist(ur, s) /\ v \in Sns
  BY <1>1, <1>4
<1> HIDE DEF ur, s, re
<1>6. /\ Dist(v, s) = Dist(ur, s) - n
      /\ \A x \in Sns : Awaited(v, s, x) => Awaited(ur, s, x)
  BY <1>4, <1>5, FewerAwaited
<1>7. Dist(v, z) <= Dist(v, s)
  <2>1. Dist(v, z) = Dist(ur, z) - n
    BY <1>4, <1>5, Rebase
  <2>2. Dist(ur, z) <= Dist(ur, s)
    BY DEF ur, s
  <2> QED
    BY <1>4, <1>6, <2>1, <2>2
<1>8. /\ Streamed(A, ix, off, f, ur, s) /\ Travels(q2, f, ur, s)
      /\ Buffered(A, t.buffer, ix[s], off[s]) /\ Chosen(A, re, ur, ix[ur], off[ur])
  BY DEF Stream, ur, s, re
<1>9. Streamed(A, ix, off, f, v, s) /\ Travels(q2, f, v, s)
  BY <1>6, <1>8 DEF Streamed, Travels
<1>10. Kept(c, f)
  BY DEF Cut, Kept
<1>11. /\ Chosen(A, re2, v, ix[v], off[v]) /\ Continues(re.out, re2.out)
  <2>1. ASSUME NEW y \in Sns, Dist(ur, y) < n
        PROVE  f[y].sn = y /\ Carries(A, f[y], ix[y], off[y], ix[Follow(y)], off[Follow(y)])
    <3>1. Dist(ur, y) \in Nat
      BY <1>4, DistRange
    <3>2. Awaited(ur, s, y)
      BY <1>4, <2>1, <3>1 DEF Awaited
    <3> QED
      BY <1>8, <3>2 DEF Streamed
  <2>2. (\A y \in DOMAIN b : b[y] = f[y]) /\ v = (ur + n) % Modulus /\ Moved(ur, n, b)
    BY <1>1 DEF Kept, ur
  <2> QED
    BY <1>4, <1>8, <2>1, <2>2, ReassembledChosen
<1> HIDE DEF c, re2
<1>12. Stream(A, ix, off, f, t, q2, new)
  BY <1>2, <1>8, <1>9, <1>10, <1>11 DEF Stream, s
<1>13. Dist(ur, new.ur) <= Dist(ur, s)
  BY <1>2, <1>5
<1> QED
  BY <1>2, <1>3, <1>7, <1>11, <1>12, <1>13 DEF ur, s, re

\* What has arrived or is lost leaves the others as they were.
LEMMA RemovedTravels ==
  ASSUME NEW q, Listed(q), NEW i \in DOMAIN q, NEW n, n = RemoveAt(q, i) \/ n = Arrived(q, i),
         NEW f, NEW u, NEW s, Travels(q, f, u, s)
  PROVE  Listed(n) /\ Travels(n, f, u, s)
<1>1. /\ Listed(n) /\ DOMAIN n = 1..(Len(q) - 1)
      /\ \A k \in 1..(Len(q) - 1) : Skip(i, k) \in DOMAIN q /\ n[k].pdu = q[Skip(i, k)].pdu
  BY RemovedListed
<1>2. ASSUME NEW k \in DOMAIN n
      PROVE  /\ n[k].pdu.sn \in Sns /\ Dist(n[k].pdu.sn, s) # 0 /\ SdusOf(n[k].pdu) \subseteq Sdus
             /\ Awaited(u, s, n[k].pdu.sn) => n[k].pdu = f[n[k].pdu.sn]
  <2>1. PICK j \in DOMAIN q : n[k].pdu = q[j].pdu
    BY <1>1
  <2>2. /\ q[j].pdu.sn \in Sns /\ Dist(q[j].pdu.sn, s) # 0 /\ SdusOf(q[j].pdu) \subseteq Sdus
        /\ Awaited(u, s, q[j].pdu.sn) => q[j].pdu = f[q[j].pdu.sn]
    BY DEF Travels
  <2> QED
    BY <2>1, <2>2
<1> QED
  BY <1>1, <1>2 DEF Travels

\* What the receiving entity passes on is a step of the abstract service.
LEMMA PassedOn ==
  ASSUME accepted \in Seq(Sdus), accepted' = accepted,
         NEW sn, NEW k, NEW o, Chosen(accepted, rx.reassembly, sn, k, o),
         NEW sn2, NEW k2, NEW o2, Chosen(accepted, rx'.reassembly, sn2, k2, o2),
         Continues(rx.reassembly.out, rx'.reassembly.out)
  PROVE  Served
<1> DEFINE a == rx.reassembly.out
           b == rx'.reassembly.out
<1>1. /\ a \in Seq(Pieces) /\ Selected(accepted, a, k)
      /\ b \in Seq(Pieces) /\ Selected(accepted, b, k2) /\ k2 \in Nat /\ k2 <= Len(accepted)
  BY ChosenIs
<1>2. Continues(a, b)
  OBVIOUS
<1>3. delivered = [i \in DOMAIN a |-> a[i].sdu] /\ delivered' = [i \in DOMAIN b |-> b[i].sdu]
  BY DEF delivered
<1> HIDE DEF a, b
<1>4. SdusAre(delivered, a)
  BY <1>1, <1>3, DeliveredAre
<1>5. SdusAre(delivered', b)
  BY <1>1, <1>3, DeliveredAre
<1>6. GoesOn(accepted, delivered, delivered')
  <2> DEFINE d == delivered
             e == delivered'
  <2>1. SdusAre(d, a) /\ SdusAre(e, b)
    BY <1>4, <1>5
  <2> HIDE DEF d, e
  <2>2. GoesOn(accepted, d, e)
    BY <1>1, <1>2, <2>1, DeliveredOn
  <2> QED
    BY <2>2 DEF d, e
<1>7. CASE delivered' = delivered
  BY <1>7 DEF Served, Service!service
<1>8. CASE delivered' # delivered
  <2>1. Service!Extends(delivered')
    BY <1>6, <1>8 DEF Service!Extends, GoesOn
  <2> QED
    BY <2>1 DEF Served, Service!DeliverSome
<1> QED
  BY <1>7, <1>8

\* VR(UR) moves to no number beyond what has been sent.
Passes == Dist(rx.ur, rx'.ur) <= Dist(rx.ur, tx.sn)

\* The receiving entity moves on, and what it has taken is no longer on its way.
LEMMA ReceiverSteps ==
  ASSUME UmShape, UmData, InStep, NEW ix, NEW off, NEW f,
         Stream(accepted, ix, off, f, tx, channel, rx), NEW z \in Sns,
         Dist(rx.ur, z) <= Dist(rx.ur, tx.sn), NEW b, DOMAIN b \subseteq Sns, Kept(b, f),
         MovesOn(rx', rx.ur, z, b, rx.reassembly),
         Listed(channel'), Travels(channel', f, rx.ur, tx.sn), missed' \subseteq Sdus,
         UNCHANGED <<variant, tx, mac, accepted, offered>>
  PROVE  UmShape' /\ UmData' /\ Served /\ Passes
<1>1. /\ accepted \in Seq(Sdus) /\ Ascending(accepted)
      /\ \A i \in 1..Len(accepted) : accepted[i] <= offered
  BY DEF UmData
<1>2. rx.ur \in Sns /\ tx.sn \in Sns /\ Dist(rx.ur, tx.sn) <= Window
  BY DEF UmShape, InStep, InWindow
<1>3. /\ RxRecord(rx') /\ InWindow(rx'.ur, rx'.ux, rx'.uh, rx'.timer, rx'.buffer)
      /\ Dist(rx'.ur, rx'.uh) <= Dist(rx'.ur, tx.sn)
      /\ Stream(accepted, ix, off, f, tx, channel', rx')
      /\ Continues(rx.reassembly.out, rx'.reassembly.out) /\ Passes
  <2> DEFINE q2 == channel'
             new == rx'
  <2>1. Travels(q2, f, rx.ur, tx.sn) /\ MovesOn(new, rx.ur, z, b, rx.reassembly)
    OBVIOUS
  <2> HIDE DEF q2, new
  <2>2. /\ RxRecord(new) /\ InWindow(new.ur, new.ux, new.uh, new.timer, new.buffer)
        /\ Dist(new.ur, new.uh) <= Dist(new.ur, tx.sn)
        /\ Stream(accepted, ix, off, f, tx, q2, new)
        /\ Continues(rx.reassembly.out, new.reassembly.out)
        /\ Dist(rx.ur, new.ur) <= Dist(rx.ur, tx.sn)
    BY <1>1, <1>2, <2>1, MovesStream
  <2> QED
    BY <2>2 DEF q2, new, Passes
<1>4. UmShape'
  BY <1>3 DEF UmShape
<1>5. UmData'
  BY <1>1, <1>3 DEF UmData
<1>6. Served
  <2>1. Chosen(accepted, rx.reassembly, rx.ur, ix[rx.ur], off[rx.ur])
    BY DEF Stream
  <2>2. Chosen(accepted, rx'.reassembly, rx'.ur, ix[rx'.ur], off[rx'.ur])
    BY <1>3 DEF Stream
  <2> DEFINE k2 == ix[rx'.ur]
             o2 == off[rx'.ur]
             s2 == rx'.ur
  <2>3. Chosen(accepted, rx'.reassembly, s2, k2, o2)
    BY <2>2
  <2> HIDE DEF k2, o2, s2
  <2> QED
    BY <1>1, <1>3, <2>1, <2>3, PassedOn
<1> QED
  BY <1>3, <1>4, <1>5, <1>6

\* A PDU below VR(UR) is discarded, so one that is not is awaited.
LEMMA NotDiscarded ==
  ASSUME NEW s \in Sns, NEW x \in Sns, rx.ur \in Sns, rx.uh \in Sns,
         Dist(rx.ur, rx.uh) <= Dist(rx.ur, s), Dist(rx.ur, s) <= Window,
         Dist(x, s) # 0, Dist(x, s) <= Window, ~Discarded(x)
  PROVE  Awaited(rx.ur, s, x)
<1> DEFINE u == rx.ur
           h == rx.uh
<1>1. /\ u \in Sns /\ h \in Sns /\ Dist(u, h) \in Nat /\ Dist(u, s) \in Nat /\ Dist(u, x) \in Nat
      /\ Dist(x, s) \in Nat /\ Dist(x, u) \in Nat /\ Dist(x, u) < Modulus
      /\ Window \in Nat \ {0} /\ Modulus = 2 * Window
      /\ Dist(u, h) <= Dist(u, s) /\ Dist(u, s) <= Window
      /\ Dist(x, s) # 0 /\ Dist(x, s) <= Window
  BY DistRange, Ring
<1>2. ~(Offset(h, x) < Offset(h, u))
  BY DEF Discarded
<1>3. Dist(u, u) = 0 /\ (Dist(u, x) = 0 <=> x = u) /\ (Dist(x, u) = 0 <=> x = u) /\ Dist(x, x) = 0
  BY <1>1, DistRange
<1> SUFFICES ASSUME ~(Dist(u, x) < Dist(u, s)) PROVE FALSE
  BY DEF Awaited
<1> HIDE DEF u, h
<1>4. x # u
  BY <1>1, <1>3
<1>5. Dist(u, s) = IF Dist(x, u) <= Dist(x, s) THEN Dist(x, s) - Dist(x, u)
                   ELSE Dist(x, s) - Dist(x, u) + Modulus
  BY <1>1, Rebase
<1>6. Dist(u, x) = IF Dist(x, u) <= 0 THEN 0 - Dist(x, u) ELSE 0 - Dist(x, u) + Modulus
  BY <1>1, <1>3, Rebase
<1>7. Dist(x, u) > 0 /\ Dist(u, x) = Modulus - Dist(x, u)
  BY <1>1, <1>3, <1>4, <1>6
<1>8. Dist(x, u) <= Dist(x, s) /\ Dist(u, s) = Dist(x, s) - Dist(x, u)
  BY <1>1, <1>5, <1>7
<1>9. Dist(u, h) + Dist(x, u) <= Window
  BY <1>1, <1>8
<1>10. Offset(h, x) = Window - Dist(u, h) - Dist(x, u)
  BY <1>1, <1>7, <1>9, OffsetBelow
<1>11. Offset(h, u) = Window + 0 - Dist(u, h)
  <2>1. Dist(u, h) <= Window /\ Dist(u, u) <= Window /\ Dist(u, u) - Dist(u, h) < Window
    BY <1>1, <1>3
  <2> QED
    BY <1>1, <1>3, <2>1, OffsetAbove
<1> QED
  BY <1>1, <1>2, <1>7, <1>10, <1>11

\* A PDU arrives.
LEMMA Receives ==
  ASSUME UmShape, UmData, InStep, NEW i \in DOMAIN channel, ReceivePdu(i)
  PROVE  UmShape' /\ UmData' /\ Served /\ Passes
<1> DEFINE pdu == channel[i].pdu
           x   == pdu.sn
           ur  == rx.ur
           s   == tx.sn
<1>1. PICK ix, off, f : Stream(accepted, ix, off, f, tx, channel, rx)
  BY DEF UmData
<1>2. /\ ur \in Sns /\ s \in Sns /\ rx.uh \in Sns /\ Dist(ur, rx.uh) <= Dist(ur, s)
      /\ Dist(ur, s) <= Window /\ Dist(x, s) <= Window /\ RxRecord(rx) /\ Listed(channel)
      /\ InWindow(ur, rx.ux, rx.uh, rx.timer, rx.buffer)
  BY DEF UmShape, InWindow, InStep
<1>3. Travels(channel, f, ur, s) /\ Kept(rx.buffer, f)
  BY <1>1 DEF Stream
<1>4. /\ x \in Sns /\ Dist(x, s) # 0 /\ SdusOf(pdu) \subseteq Sdus
      /\ Awaited(ur, s, x) => pdu = f[x]
  BY <1>3 DEF Travels
<1>5. /\ channel' = Arrived(channel, i)
      /\ UNCHANGED <<variant, tx, mac, accepted, offered, losses>>
      /\ \/ Discarded(x) /\ rx' = rx /\ missed' = missed \union SdusOf(pdu)
         \/ /\ ~Discarded(x) /\ missed' = missed
            /\ rx' = Timed(AdvanceVrUr(MoveWindow(Placed(pdu), x)))
  BY DEF ReceivePdu
<1>6. Listed(channel') /\ Travels(channel', f, ur, s)
  BY <1>2, <1>3, <1>5, RemovedTravels
<1> HIDE DEF pdu, x
<1>7. missed' \subseteq Sdus
  BY <1>4, <1>5 DEF UmShape
<1>8. CASE Discarded(x) /\ rx' = rx
  <2>1. UmShape'
    BY <1>5, <1>6, <1>7, <1>8 DEF UmShape
  <2>2. Stream(accepted, ix, off, f, tx, channel', rx)
    BY <1>1, <1>6 DEF Stream
  <2>3. UmData'
    BY <1>5, <1>8, <2>2 DEF UmData
  <2>4. Served
    BY <1>5, <1>8 DEF Served, Service!service, delivered
  <2>5. Passes
    <3>1. Dist(ur, ur) = 0 /\ Dist(ur, s) \in Nat
      BY <1>2, DistRange
    <3> QED
      BY <1>8, <3>1 DEF Passes
  <2> QED
    BY <2>1, <2>3, <2>4, <2>5
<1>9. CASE /\ ~Discarded(x)
           /\ rx' = Timed(AdvanceVrUr(MoveWindow(Placed(pdu), x)))
  <2> DEFINE b0 == rx.buffer
             b  == [y \in DOMAIN b0 \union {x} |-> IF y = x THEN pdu ELSE b0[y]]
             z  == IF Dist(ur, x) < Dist(ur, rx.uh) THEN rx.uh ELSE Follow(x)
             re == rx.reassembly
  <2>1. Awaited(ur, s, x)
    BY <1>2, <1>4, <1>9, NotDiscarded
  <2>2. /\ Dist(ur, x) \in Nat /\ Dist(ur, s) \in Nat /\ Dist(ur, x) < Dist(ur, s)
        /\ Window \in Nat /\ Modulus = 2 * Window /\ Dist(ur, x) < Window
    <3>1. Dist(ur, x) \in Nat /\ Dist(ur, s) \in Nat /\ Dist(ur, s) <= Window
      BY <1>2, <1>4, DistRange
    <3>2. Dist(ur, x) < Dist(ur, s)
      BY <2>1 DEF Awaited
    <3>3. Window \in Nat /\ Modulus = 2 * Window
      BY Ring
    <3> HIDE DEF ur, s
    <3> QED
      BY <3>1, <3>2, <3>3
  <2>3. IsMap(b) /\ DOMAIN b = DOMAIN b0 \union {x} /\ DOMAIN b \subseteq Sns
    BY <1>2, <1>4 DEF IsMap, InWindow
  <2>4. Kept(b, f)
    <3>1. pdu = f[x]
      BY <1>4, <2>1
    <3> QED
      BY <1>3, <3>1 DEF Kept
  <2>5. Placed(pdu) = RxState(ur, rx.ux, rx.uh, rx.timer, b, re)
    <3>1. Placed(pdu) = [rx EXCEPT !.buffer = b]
      BY DEF Placed, x
    <3> HIDE DEF b
    <3>2. PICK a1, a2, a3, a4, a5, a6 :
            /\ rx = RxState(a1, a2, a3, a4, a5, a6)
            /\ a1 = ur /\ a2 = rx.ux /\ a3 = rx.uh /\ a4 = rx.timer /\ a6 = re
      BY <1>2 DEF RxRecord
    <3>3. [RxState(a1, a2, a3, a4, a5, a6) EXCEPT !.buffer = b] = RxState(a1, a2, a3, a4, b, a6)
      BY DEF RxState
    <3>4. Placed(pdu) = RxState(a1, a2, a3, a4, b, a6)
      BY <3>1, <3>2, <3>3, Zenon
    <3> QED
      BY <3>2, <3>4, Zenon
  <2>6. z \in Sns /\ Dist(ur, z) <= Dist(ur, s)
    <3>1. CASE Dist(ur, x) < Dist(ur, rx.uh)
      BY <1>2, <3>1
    <3>2. CASE ~(Dist(ur, x) < Dist(ur, rx.uh))
      <4>1. Follow(x) \in Sns /\ Dist(ur, Follow(x)) = Dist(ur, x) + 1
        <5>1. Dist(ur, x) # Modulus - 1
          BY <1>2, <2>2
        <5> QED
          BY <1>2, <1>4, <5>1, Following
      <4>2. Dist(ur, x) + 1 <= Dist(ur, s)
        BY <2>2
      <4> QED
        BY <3>2, <4>1, <4>2
    <3> QED
      BY <3>1, <3>2
  <2> HIDE DEF b, b0, re
  <2>7. MovesOn(rx', ur, z, b, re)
    <3>1. InWindow(ur, rx.ux, rx.uh, rx.timer, b0)
      BY <1>2 DEF b0
    <3> DEFINE ux == rx.ux
               uh == rx.uh
               timer == rx.timer
    <3>2. /\ InWindow(ur, ux, uh, timer, b0)
          /\ z = IF Dist(ur, x) < Dist(ur, uh) THEN uh ELSE Follow(x)
          /\ rx' = Timed(AdvanceVrUr(MoveWindow(RxState(ur, ux, uh, timer, b, re), x)))
      BY <1>9, <2>5, <3>1
    <3> HIDE DEF ux, uh, timer, ur, z
    <3> QED
      BY <1>4, <2>2, <2>3, <3>2, ReceivedIs
  <2> HIDE DEF z
  <2> QED
    BY <1>1, <1>5, <1>6, <1>7, <2>3, <2>4, <2>6, <2>7, ReceiverSteps DEF re
<1> QED
  BY <1>5, <1>8, <1>9

\* t-Reordering expires.
LEMMA Expires ==
  ASSUME UmShape, UmData, InStep, ExpireReorderingTimer
  PROVE  UmShape' /\ UmData' /\ Served /\ Passes
<1>1. PICK ix, off, f : Stream(accepted, ix, off, f, tx, channel, rx)
  BY DEF UmData
<1>2. /\ RxRecord(rx) /\ InWindow(rx.ur, rx.ux, rx.uh, rx.timer, rx.buffer)
      /\ Dist(rx.ur, rx.uh) <= Dist(rx.ur, tx.sn) /\ Listed(channel) /\ missed \subseteq Sdus
  BY DEF UmShape
<1>3. UNCHANGED <<variant, tx, mac, channel, accepted, offered, missed>>
  BY DEF ExpireReorderingTimer, history
<1>4. Travels(channel, f, rx.ur, tx.sn) /\ Kept(rx.buffer, f)
  BY <1>1 DEF Stream
<1>5. rx.uh \in Sns /\ DOMAIN rx.buffer \subseteq Sns
  BY <1>2 DEF InWindow
<1> DEFINE ur == rx.ur
           ux == rx.ux
           uh == rx.uh
           timer == rx.timer
           b == rx.buffer
           re == rx.reassembly
<1>6. MovesOn(rx', ur, uh, b, re)
  <2>1. InWindow(ur, ux, uh, timer, b) /\ rx = RxState(ur, ux, uh, timer, b, re)
    BY <1>2 DEF RxRecord
  <2> HIDE DEF ur, ux, uh, timer, b, re
  <2> QED
    BY <2>1, ExpiredIs
<1> QED
  BY <1>1, <1>2, <1>3, <1>4, <1>5, <1>6, ReceiverSteps

\* HARQ gives up on a PDU.
LEMMA Loses ==
  ASSUME UmShape, UmData, NEW i \in DOMAIN channel, Lose(i)
  PROVE  UmShape' /\ UmData' /\ Served
<1>1. PICK ix, off, f : Stream(accepted, ix, off, f, tx, channel, rx)
  BY DEF UmData
<1>2. /\ channel' = RemoveAt(channel, i) /\ missed' = missed \union SdusOf(channel[i].pdu)
      /\ UNCHANGED <<variant, tx, mac, rx, accepted, offered>>
  BY DEF Lose
<1>3. Travels(channel, f, rx.ur, tx.sn) /\ Listed(channel) /\ missed \subseteq Sdus
  BY <1>1 DEF Stream, UmShape
<1>4. SdusOf(channel[i].pdu) \subseteq Sdus
  BY <1>3 DEF Travels
<1>5. Listed(channel') /\ Travels(channel', f, rx.ur, tx.sn)
  BY <1>2, <1>3, RemovedTravels
<1>6. UmShape'
  BY <1>2, <1>3, <1>4, <1>5 DEF UmShape
<1>7. Stream(accepted, ix, off, f, tx, channel', rx)
  BY <1>1, <1>5 DEF Stream
<1>8. UmData'
  BY <1>2, <1>7 DEF UmData
<1>9. Served
  BY <1>2 DEF Served, Service!service, delivered
<1> QED
  BY <1>6, <1>8, <1>9

-----------------------------------------------------------------------------
(* The transmitting entity.                                                *)

\* A PDU holds parts of accepted SDUs.
LEMMA CarriedSdus ==
  ASSUME NEW A \in Seq(Sdus), NEW pdu, NEW k, NEW o, NEW k2, NEW o2, Carries(A, pdu, k, o, k2, o2)
  PROVE  SdusOf(pdu) \subseteq Sdus
<1>1. /\ pdu.data \in Seq(Pieces) /\ k \in Nat /\ k + Len(pdu.data) <= Len(A)
      /\ \A i \in 1..Len(pdu.data) : pdu.data[i].sdu = A[k + i]
  BY DEF Carries
<1>2. Len(pdu.data) \in Nat /\ DOMAIN pdu.data = 1..Len(pdu.data) /\ Len(A) \in Nat
  BY <1>1
<1>3. ASSUME NEW i \in 1..Len(pdu.data) PROVE A[k + i] \in Sdus
  <2>1. k + i \in 1..Len(A)
    BY <1>1, <1>2
  <2> QED
    BY <2>1
<1> HIDE DEF Sdus
<1> QED
  BY <1>1, <1>2, <1>3 DEF SdusOf

\* A new PDU carries on where the last one ended, and the transmission buffer after it.
LEMMA SentStream ==
  ASSUME NEW A \in Seq(Sdus), NEW ix, NEW off, NEW f, NEW t, NEW q, NEW r,
         Stream(A, ix, off, f, t, q, r),
         Window > 1, Listed(q), InWindow(r.ur, r.ux, r.uh, r.timer, r.buffer), t.sn \in Sns,
         Dist(r.ur, r.uh) <= Dist(r.ur, t.sn), Dist(r.ur, t.sn) <= Window,
         \A i \in DOMAIN q : Dist(q[i].pdu.sn, t.sn) <= Window,
         t.buffer # <<>>, NEW room \in Nat \ {0}, NEW n,
         n.buffer = Pack(t.buffer, room).rest, n.sn = Follow(t.sn),
         NEW q2, q2 = Sent(q, DataPdu(t.sn, Pack(t.buffer, room).data))
  PROVE  /\ \E ix2, off2, f2 : Stream(A, ix2, off2, f2, n, q2, r)
         /\ Listed(q2) /\ n.sn \in Sns /\ Dist(r.ur, r.uh) <= Dist(r.ur, n.sn)
<1> DEFINE u == r.ur
           s == t.sn
           z == Follow(s)
           pdu  == DataPdu(s, Pack(t.buffer, room).data)
           rest == Pack(t.buffer, room).rest
<1>1. /\ u \in Sns /\ s \in Sns /\ r.uh \in Sns
      /\ \A y \in DOMAIN r.buffer : y \in Sns /\ Dist(u, y) < Dist(u, r.uh)
  BY DEF InWindow
<1>2. /\ Streamed(A, ix, off, f, u, s) /\ Buffered(A, t.buffer, ix[s], off[s])
      /\ Travels(q, f, u, s) /\ Kept(r.buffer, f) /\ Chosen(A, r.reassembly, u, ix[u], off[u])
  BY DEF Stream
<1>3. PICK k2, o2 : Carries(A, pdu, ix[s], off[s], k2, o2) /\ Buffered(A, rest, k2, o2)
  BY <1>2, Packs
<1>4. SdusOf(pdu) \subseteq Sdus
  BY <1>3, CarriedSdus
<1>5. pdu.sn = s
  BY DEF DataPdu
<1>6. q2 = Sent(q, pdu) /\ n.buffer = rest /\ n.sn = z
  OBVIOUS
<1> HIDE DEF pdu, rest
<1>7. /\ Dist(u, s) \in Nat /\ Dist(u, s) <= Window /\ Window \in Nat /\ Window > 1
      /\ Modulus = 2 * Window /\ Dist(u, s) # Modulus - 1
  <2>1. Dist(u, s) \in Nat /\ Window \in Nat /\ Modulus = 2 * Window
    BY <1>1, DistRange, Ring
  <2>2. Dist(u, s) <= Window
    OBVIOUS
  <2> HIDE DEF u, s
  <2>3. Dist(u, s) # Modulus - 1
    BY <2>1, <2>2
  <2> QED
    BY <2>1, <2>2, <2>3
<1>8. z \in Sns /\ Dist(u, z) = Dist(u, s) + 1 /\ s # z /\ u # z
  <2>1. z \in Sns /\ Dist(u, z) = IF Dist(u, s) = Modulus - 1 THEN 0 ELSE Dist(u, s) + 1
    BY <1>1, Following
  <2>2. Dist(u, u) = 0
    BY <1>1, DistRange
  <2> HIDE DEF z, u, s
  <2>3. Dist(u, z) = Dist(u, s) + 1
    BY <1>7, <2>1
  <2>4. Dist(u, z) # Dist(u, s) /\ Dist(u, z) # 0
    BY <1>7, <2>3
  <2> QED
    BY <2>1, <2>2, <2>3, <2>4
<1>9. \A y \in Sns : Awaited(u, z, y) => Awaited(u, s, y) \/ y = s
  <2> SUFFICES ASSUME NEW y \in Sns, Awaited(u, z, y), ~Awaited(u, s, y) PROVE y = s
    OBVIOUS
  <2>1. Dist(u, y) \in Nat /\ Dist(u, y) < Dist(u, z) /\ ~(Dist(u, y) < Dist(u, s))
    BY <1>1, DistRange DEF Awaited
  <2> HIDE DEF u, s, z
  <2>2. Dist(u, y) = Dist(u, s)
    BY <1>7, <1>8, <2>1
  <2> QED
    BY <1>1, <2>2, DistSame
<1>10. ASSUME NEW x \in Sns, Dist(x, s) # 0, Dist(x, s) <= Window PROVE x # s /\ Dist(x, z) # 0
  <2>1. Dist(x, s) \in Nat /\ Dist(s, s) = 0
    BY <1>1, DistRange
  <2>2. Dist(x, z) = IF Dist(x, s) = Modulus - 1 THEN 0 ELSE Dist(x, s) + 1
    BY <1>1, Following
  <2>3. Dist(x, s) # 0 /\ Dist(x, s) <= Window
    BY <1>10
  <2> HIDE DEF s, z
  <2>4. Dist(x, s) # Modulus - 1
    BY <1>7, <2>1, <2>3
  <2>5. Dist(x, z) # 0
    BY <2>1, <2>2, <2>4
  <2> QED
    BY <2>1, <2>3, <2>5
<1> DEFINE ix2  == [y \in Sns |-> IF y = z THEN k2 ELSE ix[y]]
           off2 == [y \in Sns |-> IF y = z THEN o2 ELSE off[y]]
           f2   == [y \in Sns |-> IF y = s THEN pdu ELSE f[y]]
<1>11. /\ ix2[z] = k2 /\ off2[z] = o2 /\ f2[s] = pdu
       /\ \A y \in Sns : y # z => ix2[y] = ix[y] /\ off2[y] = off[y]
       /\ \A y \in Sns : y # s => f2[y] = f[y]
  BY <1>1, <1>8
<1> HIDE DEF ix2, off2, f2, u, z
<1>12. Streamed(A, ix2, off2, f2, u, z)
  <2> SUFFICES ASSUME NEW y \in Sns, Awaited(u, z, y)
               PROVE  /\ f2[y].sn = y
                      /\ Carries(A, f2[y], ix2[y], off2[y], ix2[Follow(y)], off2[Follow(y)])
    BY DEF Streamed
  <2>1. CASE y = s
    <3>1. Follow(y) = z
      BY <2>1 DEF z
    <3> QED
      BY <1>1, <1>3, <1>5, <1>8, <1>11, <2>1, <3>1
  <2>2. CASE y # s
    <3>1. Awaited(u, s, y)
      BY <1>9, <2>2
    <3>2. Dist(u, y) \in Nat /\ Dist(u, y) < Dist(u, s)
      BY <1>1, <3>1, DistRange DEF Awaited
    <3> HIDE DEF s
    <3>3. Follow(y) \in Sns /\ Dist(u, Follow(y)) = Dist(u, y) + 1
      <4>1. Dist(u, y) # Modulus - 1
        BY <1>7, <3>2
      <4> QED
        BY <1>1, <4>1, Following
    <3>4. Dist(u, y) # Dist(u, z) /\ Dist(u, Follow(y)) # Dist(u, z)
      BY <1>7, <1>8, <3>2, <3>3
    <3>5. y # z /\ Follow(y) # z
      BY <3>4
    <3>6. f[y].sn = y /\ Carries(A, f[y], ix[y], off[y], ix[Follow(y)], off[Follow(y)])
      BY <1>2, <3>1 DEF Streamed
    <3>7. /\ ix2[y] = ix[y] /\ off2[y] = off[y] /\ f2[y] = f[y]
          /\ ix2[Follow(y)] = ix[Follow(y)] /\ off2[Follow(y)] = off[Follow(y)]
      BY <1>11, <2>2, <3>3, <3>5
    <3> QED
      BY <3>6, <3>7
  <2> QED
    BY <2>1, <2>2
<1>13. Listed(q2) /\ Travels(q2, f2, u, z)
  <2>1. /\ Listed(q2) /\ Len(q) \in Nat /\ DOMAIN q = 1..Len(q)
        /\ DOMAIN q2 = 1..(Len(q) + 1) /\ (\A i \in 1..Len(q) : q2[i] = q[i])
        /\ q2[Len(q) + 1].pdu = pdu
    BY <1>6, SentListed
  <2> SUFFICES ASSUME NEW i \in DOMAIN q2
               PROVE  /\ q2[i].pdu.sn \in Sns /\ Dist(q2[i].pdu.sn, z) # 0
                      /\ SdusOf(q2[i].pdu) \subseteq Sdus
                      /\ Awaited(u, z, q2[i].pdu.sn) => q2[i].pdu = f2[q2[i].pdu.sn]
    BY <2>1 DEF Travels
  <2>2. CASE i = Len(q) + 1
    <3>1. q2[i].pdu = pdu /\ q2[i].pdu.sn = s
      BY <1>5, <2>1, <2>2
    <3>2. Dist(s, z) # 0
      BY <1>1, <1>8, DistRange
    <3> QED
      BY <1>1, <1>4, <1>11, <3>1, <3>2
  <2>3. CASE i # Len(q) + 1
    <3>1. i \in DOMAIN q /\ q2[i] = q[i]
      BY <2>1, <2>3
    <3> DEFINE x == q[i].pdu.sn
    <3>2. /\ x \in Sns /\ Dist(x, s) # 0 /\ SdusOf(q[i].pdu) \subseteq Sdus
          /\ Awaited(u, s, x) => q[i].pdu = f[x]
      BY <1>2, <3>1 DEF Travels
    <3>3. Dist(x, s) <= Window
      BY <3>1
    <3> HIDE DEF x
    <3>4. x # s /\ Dist(x, z) # 0
      BY <1>10, <3>2, <3>3
    <3>5. Awaited(u, z, x) => q[i].pdu = f2[x]
      BY <1>9, <1>11, <3>2, <3>4
    <3> QED
      BY <3>1, <3>2, <3>4, <3>5 DEF x
  <2> QED
    BY <2>2, <2>3
<1>14. Kept(r.buffer, f2)
  <2> SUFFICES ASSUME NEW y \in DOMAIN r.buffer PROVE r.buffer[y] = f2[y]
    BY DEF Kept
  <2>1. y \in Sns /\ Dist(u, y) < Dist(u, r.uh)
    BY <1>1
  <2>2. Dist(u, y) \in Nat /\ Dist(u, r.uh) \in Nat /\ Dist(u, r.uh) <= Dist(u, s)
    BY <1>1, <2>1, DistRange DEF u
  <2>3. y # s
    BY <1>7, <2>1, <2>2
  <2> QED
    BY <1>2, <1>11, <2>1, <2>3 DEF Kept
<1>15. Buffered(A, n.buffer, ix2[z], off2[z])
  BY <1>3, <1>6, <1>11
<1>16. Chosen(A, r.reassembly, u, ix2[u], off2[u])
  BY <1>1, <1>2, <1>8, <1>11
<1>17. Stream(A, ix2, off2, f2, n, q2, r)
  BY <1>6, <1>12, <1>13, <1>14, <1>15, <1>16 DEF Stream, u
<1>18. Dist(u, r.uh) <= Dist(u, z)
  <2>1. Dist(u, r.uh) \in Nat /\ Dist(u, r.uh) <= Dist(u, s)
    BY <1>1, DistRange DEF u
  <2> HIDE DEF s
  <2> QED
    BY <1>7, <1>8, <2>1
<1> QED
  BY <1>6, <1>8, <1>13, <1>17, <1>18 DEF u

\* Of the transmitting entity only the buffer and the next number matter to the stream.
LEMMA StreamSame ==
  ASSUME NEW A, NEW ix, NEW off, NEW f, NEW t, NEW n, NEW q, NEW r,
         Stream(A, ix, off, f, t, q, r), n.buffer = t.buffer, n.sn = t.sn
  PROVE  Stream(A, ix, off, f, n, q, r)
BY DEF Stream

\* The MAC grants an opportunity, and a PDU is built if there is anything to send.
LEMMA GrantPacks ==
  ASSUME UmShape, UmData, InStep, Window > 1, NEW room \in Rooms, NEW bsr \in BOOLEAN,
         Granted(room), Packed(room, bsr)
  PROVE  UmShape' /\ UmData' /\ Served
<1>1. /\ mac' \in BOOLEAN
      /\ UNCHANGED <<variant, rx, accepted, offered, missed>>
  <2>1. mac' \in IF room = 0 THEN {TRUE} ELSE BOOLEAN
    BY DEF Granted
  <2>2. {TRUE} \subseteq BOOLEAN /\ BOOLEAN \subseteq BOOLEAN
    OBVIOUS
  <2>3. mac' \in BOOLEAN
    BY <2>1, <2>2, Zenon
  <2> QED
    BY <2>3 DEF Granted, history
<1>2. Served
  BY <1>1 DEF Served, Service!service, delivered
<1>3. CASE room = 0 \/ tx.buffer = <<>>
  <2>1. UNCHANGED <<tx, channel>>
    BY <1>3 DEF Packed
  <2>2. UmShape'
    BY <1>1, <2>1 DEF UmShape
  <2>3. UmData'
    BY <1>1, <2>1 DEF UmData
  <2> QED
    BY <1>2, <2>2, <2>3
<1>4. CASE ~(room = 0 \/ tx.buffer = <<>>)
  <2> DEFINE packed == Pack(tx.buffer, room)
             rbs    == packed.rest # <<>> \/ tx.rbsTimer
  <2>1. /\ tx' = [buffer |-> packed.rest, sn |-> (tx.sn + 1) % Modulus, sent |-> tx.sent + 1,
                  rbsTimer |-> rbs, bsrReported |-> bsr]
        /\ channel' = Sent(channel, DataPdu(tx.sn, packed.data))
    BY <1>4 DEF Packed
  <2>2. rbs \in BOOLEAN /\ room \in Nat \ {0} /\ tx.buffer # <<>>
    <3>1. rbs \in BOOLEAN
      <4> HIDE DEF packed
      <4>1. tx.rbsTimer \in BOOLEAN
        BY DEF UmShape
      <4> QED
        BY <4>1, Zenon
    <3>2. room \in Nat /\ room # 0
      BY <1>4, RlcChannelAssumption
    <3> QED
      BY <1>4, <3>1, <3>2
  <2> DEFINE rest == packed.rest
             z    == (tx.sn + 1) % Modulus
             sent == tx.sent + 1
  <2>3. tx' = [buffer |-> rest, sn |-> z, sent |-> sent, rbsTimer |-> rbs, bsrReported |-> bsr]
    BY <2>1
  <2> HIDE DEF rest, z, sent, rbs
  <2>4. /\ TxRecord(tx') /\ tx'.buffer = rest /\ tx'.sn = z /\ tx'.rbsTimer = rbs
        /\ tx'.bsrReported = bsr
    BY <2>3, Zenon DEF TxRecord
  <2>5. tx'.rbsTimer \in BOOLEAN /\ tx'.bsrReported \in BOOLEAN
    BY <2>2, <2>4, Zenon
  <2>6. PICK ix, off, f : Stream(accepted, ix, off, f, tx, channel, rx)
    BY DEF UmData
  <2>7. /\ (\E ix2, off2, f2 : Stream(accepted, ix2, off2, f2, tx', channel', rx))
        /\ Listed(channel') /\ tx'.sn \in Sns /\ Dist(rx.ur, rx.uh) <= Dist(rx.ur, tx'.sn)
    <3> DEFINE n  == tx'
               q2 == channel'
    <3>1. /\ n.buffer = Pack(tx.buffer, room).rest /\ n.sn = Follow(tx.sn)
          /\ q2 = Sent(channel, DataPdu(tx.sn, Pack(tx.buffer, room).data))
      BY <2>1, <2>4 DEF rest, z, Follow
    <3> HIDE DEF n, q2
    <3>2. /\ accepted \in Seq(Sdus) /\ Listed(channel) /\ tx.sn \in Sns
          /\ InWindow(rx.ur, rx.ux, rx.uh, rx.timer, rx.buffer)
          /\ Dist(rx.ur, rx.uh) <= Dist(rx.ur, tx.sn) /\ Dist(rx.ur, tx.sn) <= Window
          /\ \A i \in DOMAIN channel : Dist(channel[i].pdu.sn, tx.sn) <= Window
      BY DEF UmShape, UmData, InStep
    <3>3. /\ (\E ix2, off2, f2 : Stream(accepted, ix2, off2, f2, n, q2, rx))
          /\ Listed(q2) /\ n.sn \in Sns /\ Dist(rx.ur, rx.uh) <= Dist(rx.ur, n.sn)
      BY <2>2, <2>6, <3>1, <3>2, SentStream
    <3> QED
      BY <3>3 DEF n, q2
  <2>8. UmShape'
    BY <1>1, <2>4, <2>5, <2>7 DEF UmShape
  <2>9. UmData'
    BY <1>1, <2>7 DEF UmData
  <2> QED
    BY <1>2, <2>8, <2>9
<1> QED
  BY <1>3, <1>4

\* Timers and reports change nothing that matters to the data.
LEMMA Reports ==
  ASSUME UmShape, UmData, tx'.buffer = tx.buffer, tx'.sn = tx.sn, TxRecord(tx'),
         tx'.rbsTimer \in BOOLEAN, tx'.bsrReported \in BOOLEAN, mac' \in BOOLEAN,
         UNCHANGED <<variant, channel, rx, history>>
  PROVE  UmShape' /\ UmData' /\ Served
<1>1. UNCHANGED <<variant, channel, rx, accepted, offered, missed>>
  BY DEF history
<1>2. UmShape'
  BY <1>1 DEF UmShape
<1>3. PICK ix, off, f : Stream(accepted, ix, off, f, tx, channel, rx)
  BY DEF UmData
<1>4. Stream(accepted, ix, off, f, tx', channel, rx)
  BY <1>3, StreamSame
<1>5. UmData'
  BY <1>1, <1>4 DEF UmData
<1>6. Served
  BY <1>1 DEF Served, Service!service, delivered
<1> QED
  BY <1>2, <1>5, <1>6

TxOf(buffer, sn, sent, rbsTimer, bsrReported) ==
  [buffer |-> buffer, sn |-> sn, sent |-> sent, rbsTimer |-> rbsTimer, bsrReported |-> bsrReported]

\* A transmitter with another buffer and other flags.
LEMMA TxChanged ==
  ASSUME NEW t, TxRecord(t), NEW b, NEW v, NEW w
  PROVE  /\ [t EXCEPT !.buffer = b, !.rbsTimer = v]
              = [buffer |-> b, sn |-> t.sn, sent |-> t.sent, rbsTimer |-> v,
                 bsrReported |-> t.bsrReported]
         /\ [t EXCEPT !.buffer = b, !.rbsTimer = v, !.bsrReported = w]
              = [buffer |-> b, sn |-> t.sn, sent |-> t.sent, rbsTimer |-> v, bsrReported |-> w]
         /\ [t EXCEPT !.rbsTimer = v]
              = [buffer |-> t.buffer, sn |-> t.sn, sent |-> t.sent, rbsTimer |-> v,
                 bsrReported |-> t.bsrReported]
<1>1. PICK a1, a2, a3, a4, a5 :
        /\ t = [buffer |-> a1, sn |-> a2, sent |-> a3, rbsTimer |-> a4, bsrReported |-> a5]
        /\ a1 = t.buffer /\ a2 = t.sn /\ a3 = t.sent /\ a4 = t.rbsTimer /\ a5 = t.bsrReported
  BY DEF TxRecord
<1>2. [TxOf(a1, a2, a3, a4, a5) EXCEPT !.buffer = b] = TxOf(b, a2, a3, a4, a5)
  BY DEF TxOf
<1>3. [TxOf(b, a2, a3, a4, a5) EXCEPT !.rbsTimer = v] = TxOf(b, a2, a3, v, a5)
  BY DEF TxOf
<1>4. [TxOf(b, a2, a3, v, a5) EXCEPT !.bsrReported = w] = TxOf(b, a2, a3, v, w)
  BY DEF TxOf
<1>5. [TxOf(a1, a2, a3, a4, a5) EXCEPT !.rbsTimer = v] = TxOf(a1, a2, a3, v, a5)
  BY DEF TxOf
<1>6. t = TxOf(a1, a2, a3, a4, a5)
  BY <1>1, Zenon DEF TxOf
<1>7. /\ [t EXCEPT !.buffer = b, !.rbsTimer = v] = TxOf(b, a2, a3, v, a5)
      /\ [t EXCEPT !.rbsTimer = v] = TxOf(a1, a2, a3, v, a5)
  BY <1>2, <1>3, <1>5, <1>6
<1>8. [t EXCEPT !.buffer = b, !.rbsTimer = v, !.bsrReported = w] = TxOf(b, a2, a3, v, w)
  BY <1>4, <1>7
<1> QED
  BY <1>1, <1>7, <1>8, Zenon DEF TxOf

\* PDCP hands over an SDU, to either class.
LEMMA Transmits ==
  ASSUME UmShape, UmData, TransmitPdcpPdu \/ TransmitPdcpPduLowLat
  PROVE  UmShape' /\ UmData' /\ Served
<1> DEFINE b == Enqueued(offered + 1)
<1>1. /\ Offer /\ UNCHANGED <<variant, channel, rx, missed>>
      /\ mac' \in BOOLEAN
      /\ \/ tx' = [tx EXCEPT !.buffer = b, !.rbsTimer = FALSE]
         \/ tx' = [tx EXCEPT !.buffer = b, !.rbsTimer = TRUE, !.bsrReported = TRUE]
  <2>1. (b # <<>>) \in BOOLEAN /\ mac \in BOOLEAN
    BY Zenon DEF UmShape
  <2>2. Reported(b) \in BOOLEAN /\ ReportedLowLat(b) \in BOOLEAN
    BY <2>1 DEF Reported, ReportedLowLat
  <2> HIDE DEF b
  <2>3. CASE TransmitPdcpPdu
    BY <2>2, <2>3 DEF TransmitPdcpPdu, Offer, b
  <2>4. CASE TransmitPdcpPduLowLat
    BY <2>2, <2>4 DEF TransmitPdcpPduLowLat, Offer, b
  <2> QED
    BY <2>3, <2>4
<1> HIDE DEF b
<1>2. TxRecord(tx) /\ tx.sn \in Sns /\ tx.bsrReported \in BOOLEAN
  BY DEF UmShape
<1>3. /\ TxRecord(tx') /\ tx'.buffer = b /\ tx'.sn = tx.sn
      /\ tx'.rbsTimer \in BOOLEAN /\ tx'.bsrReported \in BOOLEAN
  <2>1. \E v, w \in BOOLEAN :
          tx' = [buffer |-> b, sn |-> tx.sn, sent |-> tx.sent, rbsTimer |-> v, bsrReported |-> w]
    <3>1. CASE tx' = [tx EXCEPT !.buffer = b, !.rbsTimer = FALSE]
      <4>1. tx' = [buffer |-> b, sn |-> tx.sn, sent |-> tx.sent, rbsTimer |-> FALSE,
                   bsrReported |-> tx.bsrReported]
        BY <1>2, <3>1, TxChanged
      <4> QED
        BY <1>2, <4>1, Zenon
    <3>2. CASE tx' = [tx EXCEPT !.buffer = b, !.rbsTimer = TRUE, !.bsrReported = TRUE]
      <4>1. tx' = [buffer |-> b, sn |-> tx.sn, sent |-> tx.sent, rbsTimer |-> TRUE,
                   bsrReported |-> TRUE]
        BY <1>2, <3>2, TxChanged
      <4> QED
        BY <4>1, Zenon
    <3> QED
      BY <1>1, <3>1, <3>2
  <2>2. PICK v, w \in BOOLEAN :
          tx' = [buffer |-> b, sn |-> tx.sn, sent |-> tx.sent, rbsTimer |-> v, bsrReported |-> w]
    BY <2>1
  <2> QED
    BY <2>2 DEF TxRecord
<1>4. UmData' /\ Served /\ offered' \in 0..Len(SduLen)
  BY <1>1, <1>3, Offered DEF b
<1>5. UmShape'
  BY <1>1, <1>2, <1>3, <1>4 DEF UmShape
<1> QED
  BY <1>4, <1>5

\* The buffer-status timer expires in either class.
LEMMA ExpiresRbs ==
  ASSUME UmShape, UmData, ExpireRbsTimer \/ ExpireRbsTimerLowLat
  PROVE  UmShape' /\ UmData' /\ Served
<1> DEFINE v == tx.buffer # <<>>
<1>1. /\ UNCHANGED <<variant, channel, rx, history>> /\ mac' \in BOOLEAN
      /\ tx' = [tx EXCEPT !.rbsTimer = v]
  <2>1. v \in BOOLEAN /\ mac \in BOOLEAN
    BY Zenon DEF UmShape
  <2>2. Reported(tx.buffer) \in BOOLEAN /\ ReportedLowLat(tx.buffer) \in BOOLEAN
    BY <2>1 DEF Reported, ReportedLowLat
  <2>3. CASE ExpireRbsTimer
    BY <2>1, <2>2, <2>3 DEF ExpireRbsTimer
  <2>4. CASE ExpireRbsTimerLowLat
    BY <2>1, <2>2, <2>4 DEF ExpireRbsTimerLowLat
  <2> QED
    BY <2>3, <2>4
<1>2. v \in BOOLEAN /\ TxRecord(tx) /\ tx.bsrReported \in BOOLEAN
  BY Zenon DEF UmShape
<1> HIDE DEF v
<1>3. tx' = [buffer |-> tx.buffer, sn |-> tx.sn, sent |-> tx.sent, rbsTimer |-> v,
             bsrReported |-> tx.bsrReported]
  BY <1>1, <1>2, TxChanged
<1>4. /\ TxRecord(tx') /\ tx'.buffer = tx.buffer /\ tx'.sn = tx.sn /\ tx'.rbsTimer = v
      /\ tx'.bsrReported = tx.bsrReported
  BY <1>3, Zenon DEF TxRecord
<1>5. tx'.rbsTimer \in BOOLEAN /\ tx'.bsrReported \in BOOLEAN
  BY <1>2, <1>4, Zenon
<1> QED
  BY <1>1, <1>4, <1>5, Reports

-----------------------------------------------------------------------------
(* Every step.                                                             *)

\* As long as sender and receiver are in step, every step keeps the invariant and
\* is one of the abstract service.
LEMMA UmStep ==
  ASSUME UmShape, UmData, InStep, Window > 1, [UmNext]_vars
  PROVE  UmShape' /\ UmData' /\ Served
<1>1. CASE TransmitPdcpPdu \/ TransmitPdcpPduLowLat
  BY <1>1, Transmits
<1>2. ASSUME NEW room \in Rooms, NotifyTxOpportunity(room)
      PROVE  UmShape' /\ UmData' /\ Served
  <2>1. Granted(room) /\ Packed(room, tx.bsrReported) /\ tx.bsrReported \in BOOLEAN
    BY <1>2 DEF NotifyTxOpportunity, UmShape
  <2> QED
    BY <2>1, GrantPacks
<1>3. ASSUME NEW room \in Rooms, NotifyTxOpportunityLowLat(room)
      PROVE  UmShape' /\ UmData' /\ Served
  <2>1. Granted(room) /\ Packed(room, FALSE) /\ FALSE \in BOOLEAN
    BY <1>3 DEF NotifyTxOpportunityLowLat
  <2> QED
    BY <2>1, GrantPacks
<1>4. CASE ExpireRbsTimer \/ ExpireRbsTimerLowLat
  BY <1>4, ExpiresRbs
<1>5. ASSUME NEW i \in DOMAIN channel, ReceivePdu(i)
      PROVE  UmShape' /\ UmData' /\ Served
  BY <1>5, Receives
<1>6. ASSUME NEW i \in DOMAIN channel, Lose(i)
      PROVE  UmShape' /\ UmData' /\ Served
  BY <1>6, Loses
<1>7. CASE ExpireReorderingTimer
  BY <1>7, Expires
<1>8. CASE UNCHANGED vars
  <2>1. UNCHANGED <<variant, tx, mac, channel, rx, accepted, offered, missed>>
    BY <1>8 DEF vars, history
  <2> QED
    BY <2>1 DEF UmShape, UmData, Served, Service!service, delivered
<1> QED
  BY <1>1, <1>2, <1>3, <1>4, <1>5, <1>6, <1>7, <1>8 DEF UmNext

\* The invariant, on every behaviour that stays in step.
LEMMA UmInvariant ==
  ASSUME Window > 1
  PROVE  UmSpec /\ []InStep => [](UmShape /\ UmData)
<1>1. UmInit => UmShape /\ UmData
  BY UmInitially
<1>2. UmShape /\ UmData /\ InStep /\ [UmNext]_vars => (UmShape /\ UmData)'
  BY UmStep
<1> QED
  BY <1>1, <1>2, PTL DEF UmSpec

-----------------------------------------------------------------------------
(* The theorems.                                                           *)

\* UmTypeOK: numbers stay below the modulus, the transmission buffer holds parts of
\* SDUs that PDCP handed over, and the reception buffer of the code, a std::map of PDUs,
\* holds each PDU under the number it carries.
THEOREM UmTypes ==
  ASSUME Window > 1
  PROVE  UmSpec /\ []InStep => []UmTypeOK
<1>1. UmShape /\ UmData => UmTypeOK
  <2> SUFFICES ASSUME UmShape, UmData PROVE UmTypeOK
    OBVIOUS
  <2>1. PICK ix, off, f : Stream(accepted, ix, off, f, tx, channel, rx)
    BY DEF UmData
  <2>2. /\ Streamed(accepted, ix, off, f, rx.ur, tx.sn) /\ Kept(rx.buffer, f)
        /\ Buffered(accepted, tx.buffer, ix[tx.sn], off[tx.sn])
        /\ Chosen(accepted, rx.reassembly, rx.ur, ix[rx.ur], off[rx.ur])
    BY <2>1 DEF Stream
  <2>3. /\ rx.ur \in Sns /\ rx.ux \in Sns /\ rx.uh \in Sns /\ rx.timer \in BOOLEAN
        /\ DOMAIN rx.buffer \subseteq Sns
        /\ \A sn \in DOMAIN rx.buffer : Dist(rx.ur, sn) < Dist(rx.ur, rx.uh)
    BY DEF UmShape, InWindow
  <2>4. /\ variant \in Variants /\ mac \in BOOLEAN /\ tx.sn \in Sns /\ tx.rbsTimer \in BOOLEAN
        /\ tx.bsrReported \in BOOLEAN /\ offered \in 0..Len(SduLen) /\ missed \subseteq Sdus
        /\ Dist(rx.ur, rx.uh) <= Dist(rx.ur, tx.sn)
    BY DEF UmShape
  <2>5. rx.reassembly.expected \in Sns /\ rx.reassembly.waiting \in BOOLEAN
    <3>1. rx.reassembly.expected = rx.ur /\ rx.reassembly.waiting \in BOOLEAN
      <4> DEFINE re == rx.reassembly
                 ur == rx.ur
                 k  == ix[rx.ur]
                 o  == off[rx.ur]
      <4>1. Chosen(accepted, re, ur, k, o)
        BY <2>2
      <4> HIDE DEF re, ur, k, o
      <4>2. re.expected = ur /\ re.waiting \in BOOLEAN
        BY <4>1, ChosenIs
      <4> QED
        BY <4>2 DEF re, ur
    <3> QED
      BY <2>3, <3>1
  <2>6. ASSUME NEW i \in DOMAIN tx.buffer PROVE tx.buffer[i].sdu \in Sdus /\ tx.buffer[i].len > 0
    <3> DEFINE q == tx.buffer
               k == ix[tx.sn]
               o == off[tx.sn]
    <3>1. Buffered(accepted, q, k, o) /\ i \in DOMAIN q /\ accepted \in Seq(Sdus)
      BY <2>2 DEF UmData
    <3> HIDE DEF q, k, o
    <3>2. /\ q \in Seq(TagPieces) /\ k \in Nat /\ k + Len(q) = Len(accepted)
          /\ \A j \in 1..Len(q) : q[j].sdu = accepted[k + j]
      BY <3>1 DEF Buffered
    <3>3. i \in 1..Len(q) /\ Len(q) \in Nat /\ q[i] \in TagPieces
      BY <3>1, <3>2
    <3>4. q[i].len \in Nat \ {0}
      BY <3>3 DEF TagPieces
    <3>5. k + i \in 1..Len(accepted)
      BY <3>2, <3>3
    <3>6. accepted[k + i] \in Sdus
      BY <3>1, <3>5
    <3> QED
      BY <3>2, <3>3, <3>4, <3>6 DEF q
  <2>7. ASSUME NEW sn \in DOMAIN rx.buffer PROVE rx.buffer[sn].sn = sn
    <3>1. sn \in Sns /\ Dist(rx.ur, sn) < Dist(rx.ur, rx.uh)
      BY <2>3
    <3>2. Dist(rx.ur, sn) \in Nat /\ Dist(rx.ur, rx.uh) \in Nat /\ Dist(rx.ur, tx.sn) \in Nat
      BY <2>3, <2>4, <3>1, DistRange
    <3>3. Awaited(rx.ur, tx.sn, sn)
      BY <2>4, <3>1, <3>2 DEF Awaited
    <3> QED
      BY <2>2, <3>1, <3>3 DEF Streamed, Kept
  <2> QED
    BY <2>3, <2>4, <2>5, <2>6, <2>7 DEF UmTypeOK
<1> QED
  BY <1>1, UmInvariant, PTL

\* UmWhole: whatever is lost, late or cut, ReassembleAndDeliver glues no parts of
\* different SDUs together and leaves no piece behind.
THEOREM UmDeliversWhole ==
  ASSUME Window > 1
  PROVE  UmSpec /\ []InStep => []UmWhole
<1>1. UmData => UmWhole
  <2> SUFFICES ASSUME UmData PROVE UmWhole
    OBVIOUS
  <2>1. PICK ix, off, f : Stream(accepted, ix, off, f, tx, channel, rx)
    BY DEF UmData
  <2> DEFINE re == rx.reassembly
             ur == rx.ur
             k  == ix[rx.ur]
             o  == off[rx.ur]
  <2>2. Chosen(accepted, re, ur, k, o) /\ accepted \in Seq(Sdus)
    BY <2>1 DEF Stream, UmData
  <2> HIDE DEF re, ur, k, o
  <2>3. /\ re.left = <<>> /\ Selected(accepted, re.out, k) /\ k \in Nat /\ k <= Len(accepted)
        /\ re.out \in Seq(Pieces)
    BY <2>2, ChosenIs
  <2>4. ASSUME NEW i \in DOMAIN re.out PROVE Whole(re.out[i])
    <3>1. i \in 1..Len(re.out)
      BY <2>3
    <3>2. PICK j \in 1..k : re.out[i] = Piece(accepted[j], 0, SduLen[accepted[j]])
      BY <2>3, <3>1 DEF Selected
    <3>3. accepted[j] \in Sdus
      <4>1. j \in 1..Len(accepted)
        BY <2>2, <2>3
      <4> QED
        BY <2>2, <4>1
    <3> QED
      BY <3>2, <3>3 DEF Whole, Piece
  <2> QED
    BY <2>3, <2>4 DEF UmWhole, re
<1> QED
  BY <1>1, UmInvariant, PTL

\* UmGapTimed: a gap in the reception buffer is always waited for by t-Reordering, with
\* VR(UX) above it, and what is buffered lies between VR(UR) and VR(UH).
THEOREM UmGaps ==
  ASSUME Window > 1
  PROVE  UmSpec /\ []InStep => []UmGapTimed
<1>1. UmShape => UmGapTimed
  <2> SUFFICES ASSUME UmShape PROVE UmGapTimed
    OBVIOUS
  <2> DEFINE ur == rx.ur
             ux == rx.ux
             uh == rx.uh
             b  == rx.buffer
  <2>1. /\ ur \in Sns /\ ux \in Sns /\ uh \in Sns /\ DOMAIN b \subseteq Sns
        /\ Dist(ur, uh) <= Window /\ \A y \in DOMAIN b : Dist(ur, y) < Dist(ur, uh)
        /\ (rx.timer <=> ur # uh)
        /\ (rx.timer => 0 < Dist(ur, ux) /\ Dist(ur, ux) <= Dist(ur, uh))
    BY DEF UmShape, InWindow
  <2> HIDE DEF ur, ux, uh, b
  <2>2. /\ Dist(ur, ur) = 0 /\ Window \in Nat \ {0}
        /\ \A y \in Sns : Dist(ur, y) \in Nat /\ (Dist(ur, y) = 0 <=> y = ur)
    BY <2>1, DistRange, Ring
  <2>3. Dist(ur, uh) \in Nat
    BY <2>1, <2>2
  <2>4. ASSUME NEW y \in Sns, Dist(ur, y) <= Dist(ur, uh)
        PROVE  Offset(uh, y) = Window + Dist(ur, y) - Dist(ur, uh)
    <3>1. Dist(ur, y) \in Nat
      BY <2>2
    <3>2. Dist(ur, y) <= Window /\ Dist(ur, y) - Dist(ur, uh) < Window
      BY <2>1, <2>2, <2>3, <2>4, <3>1
    <3> QED
      BY <2>1, <3>2, OffsetAbove
  <2>5. Dist(ur, ur) <= Dist(ur, uh) /\ Dist(ur, ur) - Dist(ur, uh) < Window
    BY <2>2, <2>3
  <2>6. Offset(uh, ur) = Window + 0 - Dist(ur, uh)
    <3>1. Dist(ur, ur) <= Window
      BY <2>2
    <3> QED
      BY <2>1, <2>2, <2>5, <3>1, OffsetAbove
  <2>7. ASSUME NEW y \in DOMAIN b PROVE Offset(uh, ur) <= Offset(uh, y) /\ Offset(uh, y) < Window
    <3>1. y \in Sns /\ Dist(ur, y) \in Nat /\ Dist(ur, y) < Dist(ur, uh)
      BY <2>1, <2>2
    <3>2. Offset(uh, y) = Window + Dist(ur, y) - Dist(ur, uh)
      BY <2>3, <2>4, <3>1
    <3> QED
      BY <2>2, <2>3, <2>6, <3>1, <3>2
  <2>8. ASSUME rx.timer PROVE Offset(uh, ur) < Offset(uh, ux) /\ Offset(uh, ux) <= Window
    <3>1. Dist(ur, ux) \in Nat /\ 0 < Dist(ur, ux) /\ Dist(ur, ux) <= Dist(ur, uh)
      BY <2>1, <2>2, <2>8
    <3>2. Offset(uh, ux) = Window + Dist(ur, ux) - Dist(ur, uh)
      BY <2>1, <2>3, <2>4, <3>1
    <3> QED
      BY <2>2, <2>3, <2>6, <3>1, <3>2
  <2> QED
    BY <2>1, <2>7, <2>8 DEF UmGapTimed, ur, ux, uh, b
<1> QED
  BY <1>1, UmInvariant, PTL

\* UmKeepsItsPromise: each step is one of the service PDCP is promised, so a delivered
\* SDU was accepted and none is repeated or overtakes another.
THEOREM UmKeepsPromise ==
  ASSUME Window > 1
  PROVE  UmSpec /\ []InStep => UmKeepsItsPromise
<1>1. UmInit => Service!ServiceInit
  <2> SUFFICES ASSUME UmInit PROVE Service!ServiceInit
    OBVIOUS
  <2>1. accepted = <<>> /\ rx.reassembly.out = <<>>
    BY DEF UmInit, Reassembly0
  <2> QED
    BY <2>1 DEF Service!ServiceInit, delivered
<1>2. UmShape /\ UmData /\ InStep /\ [UmNext]_vars
        => [Service!Accept \/ Service!DeliverSome]_(Service!service)
  BY UmStep DEF Served
<1> QED
  BY <1>1, <1>2, UmInvariant, PTL
     DEF UmSpec, UmKeepsItsPromise, Service!UnacknowledgedService

-----------------------------------------------------------------------------
(* Where InStep holds by itself.                                             *)

\* Before the numbers wrap, they count the PDUs.
InOrder ==
  /\ tx.sent \in Nat /\ tx.sn = tx.sent /\ rx.ur <= tx.sn
  /\ \A i \in DOMAIN channel : channel[i].pdu.sn \in Sns /\ channel[i].pdu.sn < tx.sn

FirstRound == tx.sent <= Window

\* Then nothing is farther apart than what has been sent.
LEMMA OrderSteps == UmShape /\ InOrder /\ FirstRound => InStep
<1> SUFFICES ASSUME UmShape, InOrder, FirstRound PROVE InStep
  OBVIOUS
<1>1. rx.ur \in Sns /\ tx.sn \in Sns /\ tx.sn \in Nat /\ tx.sn <= Window /\ rx.ur <= tx.sn
  BY DEF UmShape, InWindow, InOrder, FirstRound
<1>2. \A x \in Sns : x \in Nat /\ (x <= tx.sn => Dist(x, tx.sn) = tx.sn - x)
  BY <1>1, DistIs, Ring
<1>3. Window \in Nat
  BY Ring
<1>4. Dist(rx.ur, tx.sn) <= Window
  BY <1>1, <1>2, <1>3
<1>5. ASSUME NEW i \in DOMAIN channel PROVE Dist(channel[i].pdu.sn, tx.sn) <= Window
  <2> DEFINE x == channel[i].pdu.sn
  <2>1. x \in Sns /\ x < tx.sn
    BY DEF InOrder
  <2> HIDE DEF x
  <2>2. Dist(x, tx.sn) <= Window
    BY <1>1, <1>2, <1>3, <2>1
  <2> QED
    BY <2>2 DEF x
<1> QED
  BY <1>4, <1>5 DEF InStep

\* A step of the receiving entity leaves VR(UR) within what has been sent.
LEMMA PassesOrder ==
  ASSUME UmShape, UmShape', InOrder, InStep, Passes, FirstRound
  PROVE  rx'.ur <= tx.sn
<1> DEFINE u == rx.ur
           v == rx'.ur
           s == tx.sn
<1>1. u \in Sns /\ v \in Sns /\ s \in Sns /\ u <= s /\ s <= Window
  BY DEF UmShape, InWindow, InOrder, FirstRound
<1>2. Dist(u, v) <= Dist(u, s)
  BY DEF Passes
<1> HIDE DEF u, v, s
<1>3. /\ Dist(u, v) = IF u <= v THEN v - u ELSE v - u + Modulus
      /\ Dist(u, s) = IF u <= s THEN s - u ELSE s - u + Modulus
  BY <1>1, DistIs
<1>4. u \in Nat /\ v \in Nat /\ s \in Nat /\ Window \in Nat \ {0} /\ Modulus = 2 * Window
  BY <1>1, Ring
<1>5. v <= s
  BY <1>1, <1>2, <1>3, <1>4
<1> QED
  BY <1>5 DEF v, s

\* What has arrived or is lost is in order still.
LEMMA RemovedOrder ==
  ASSUME NEW q, Listed(q), NEW i \in DOMAIN q, NEW n, n = RemoveAt(q, i) \/ n = Arrived(q, i),
         NEW s, \A k \in DOMAIN q : q[k].pdu.sn \in Sns /\ q[k].pdu.sn < s
  PROVE  \A k \in DOMAIN n : n[k].pdu.sn \in Sns /\ n[k].pdu.sn < s
<1>1. /\ DOMAIN n = 1..(Len(q) - 1)
      /\ \A k \in 1..(Len(q) - 1) : Skip(i, k) \in DOMAIN q /\ n[k].pdu = q[Skip(i, k)].pdu
  BY RemovedListed
<1> SUFFICES ASSUME NEW k \in DOMAIN n PROVE n[k].pdu.sn \in Sns /\ n[k].pdu.sn < s
  OBVIOUS
<1>2. PICK j \in DOMAIN q : n[k].pdu = q[j].pdu
  BY <1>1
<1> QED
  BY <1>2

\* A new PDU is the next in order.
LEMMA PackedOrder ==
  ASSUME UmShape, InOrder, FirstRound, Window > 1, NEW room \in Rooms, NEW bsr \in BOOLEAN,
         Granted(room), Packed(room, bsr)
  PROVE  InOrder'
<1>1. rx' = rx
  BY DEF Granted
<1>2. CASE room = 0 \/ tx.buffer = <<>>
  BY <1>1, <1>2 DEF Packed, InOrder
<1>3. CASE ~(room = 0 \/ tx.buffer = <<>>)
  <2> DEFINE packed == Pack(tx.buffer, room)
             pdu    == DataPdu(tx.sn, packed.data)
  <2>1. /\ tx'.sn = (tx.sn + 1) % Modulus /\ tx'.sent = tx.sent + 1
        /\ channel' = Sent(channel, pdu)
    BY <1>3 DEF Packed
  <2>2. pdu.sn = tx.sn /\ Listed(channel)
    BY DEF DataPdu, UmShape
  <2> HIDE DEF packed, pdu
  <2>3. /\ tx.sent \in Nat /\ tx.sn = tx.sent /\ rx.ur <= tx.sn /\ tx.sent <= Window
        /\ tx.sn \in Sns /\ rx.ur \in Sns /\ tx.sn \in Nat /\ rx.ur \in Nat
        /\ \A i \in DOMAIN channel : channel[i].pdu.sn \in Sns /\ channel[i].pdu.sn < tx.sn
    BY Ring DEF InOrder, FirstRound, UmShape, InWindow
  <2>4. /\ Window \in Nat \ {0} /\ Modulus = 2 * Window /\ tx.sn < Modulus
        /\ \A x \in Sns : x \in Nat
    BY <2>3, Ring
  <2>5. CASE tx.sn + 1 < Modulus
    <3>1. (tx.sn + 1) % Modulus = tx.sn + 1
      BY <2>3, <2>4, <2>5
    <3>2. tx'.sn = tx.sn + 1
      BY <2>1, <3>1
    <3>3. ASSUME NEW i \in DOMAIN channel'
          PROVE  channel'[i].pdu.sn \in Sns /\ channel'[i].pdu.sn < tx.sn + 1
      <4>1. /\ Len(channel) \in Nat /\ DOMAIN channel = 1..Len(channel)
            /\ DOMAIN channel' = 1..(Len(channel) + 1)
            /\ \A k \in 1..Len(channel) : channel'[k] = channel[k]
            /\ channel'[Len(channel) + 1].pdu = pdu
        BY <2>1, <2>2, SentListed
      <4>2. CASE i = Len(channel) + 1
        BY <2>2, <2>3, <4>1, <4>2
      <4>3. CASE i # Len(channel) + 1
        <5>1. i \in DOMAIN channel /\ channel'[i] = channel[i]
          BY <4>1, <4>3
        <5> DEFINE x == channel[i].pdu.sn
        <5>2. x \in Sns /\ x < tx.sn
          BY <2>3, <5>1
        <5> HIDE DEF x
        <5>3. x < tx.sn + 1
          BY <2>3, <2>4, <5>2
        <5> QED
          BY <5>1, <5>2, <5>3 DEF x
      <4> QED
        BY <4>2, <4>3
    <3> QED
      BY <1>1, <2>1, <2>3, <3>2, <3>3 DEF InOrder
  <2> QED
    BY <2>3, <2>4, <2>5
<1> QED
  BY <1>2, <1>3

\* In the first round every step keeps the order.
LEMMA OrderNext ==
  ASSUME UmShape, UmData, InOrder, FirstRound, Window > 1, [UmNext]_vars
  PROVE  UmShape' /\ UmData' /\ InOrder'
<1>1. InStep
  BY OrderSteps
<1>2. UmShape' /\ UmData'
  BY <1>1, UmStep
<1>3. ASSUME NEW room \in Rooms, NotifyTxOpportunity(room) \/ NotifyTxOpportunityLowLat(room)
      PROVE  InOrder'
  <2>1. tx.bsrReported \in BOOLEAN /\ FALSE \in BOOLEAN
    BY DEF UmShape
  <2>2. /\ Granted(room)
        /\ Packed(room, tx.bsrReported) \/ Packed(room, FALSE)
    BY <1>3 DEF NotifyTxOpportunity, NotifyTxOpportunityLowLat
  <2> QED
    BY <2>1, <2>2, PackedOrder
<1>4. ASSUME tx'.sn = tx.sn, tx'.sent = tx.sent, UNCHANGED <<channel, rx>> PROVE InOrder'
  BY <1>4 DEF InOrder
<1>5. ASSUME TransmitPdcpPdu \/ TransmitPdcpPduLowLat \/ ExpireRbsTimer \/ ExpireRbsTimerLowLat
      PROVE  InOrder'
  <2>1. TxRecord(tx)
    BY DEF UmShape
  <2>2. UNCHANGED <<channel, rx>>
    BY <1>5 DEF TransmitPdcpPdu, TransmitPdcpPduLowLat, Offer, ExpireRbsTimer, ExpireRbsTimerLowLat
  <2>3. \E b, v, w : \/ tx' = [tx EXCEPT !.buffer = b, !.rbsTimer = v]
                     \/ tx' = [tx EXCEPT !.buffer = b, !.rbsTimer = v, !.bsrReported = w]
                     \/ tx' = [tx EXCEPT !.rbsTimer = v]
    BY <1>5, Zenon DEF TransmitPdcpPdu, TransmitPdcpPduLowLat, ExpireRbsTimer, ExpireRbsTimerLowLat
  <2>4. PICK b, v, w : \/ tx' = [tx EXCEPT !.buffer = b, !.rbsTimer = v]
                       \/ tx' = [tx EXCEPT !.buffer = b, !.rbsTimer = v, !.bsrReported = w]
                       \/ tx' = [tx EXCEPT !.rbsTimer = v]
    BY <2>3
  <2>5. \E c, x, y : tx' = [buffer |-> c, sn |-> tx.sn, sent |-> tx.sent, rbsTimer |-> x,
                           bsrReported |-> y]
    BY <2>1, <2>4, TxChanged
  <2>6. tx'.sn = tx.sn /\ tx'.sent = tx.sent
    BY <2>5
  <2> QED
    BY <1>4, <2>2, <2>6
<1>6. /\ Listed(channel)
      /\ \A i \in DOMAIN channel : channel[i].pdu.sn \in Sns /\ channel[i].pdu.sn < tx.sn
  BY DEF UmShape, InOrder
<1>7. ASSUME NEW i \in DOMAIN channel, ReceivePdu(i) PROVE InOrder'
  <2>1. tx' = tx /\ channel' = Arrived(channel, i)
    BY <1>7 DEF ReceivePdu
  <2>2. Passes
    BY <1>1, <1>7, Receives
  <2>3. rx'.ur <= tx.sn
    BY <1>1, <1>2, <2>2, PassesOrder
  <2>4. \A k \in DOMAIN channel' : channel'[k].pdu.sn \in Sns /\ channel'[k].pdu.sn < tx.sn
    BY <1>6, <2>1, RemovedOrder
  <2> QED
    BY <2>1, <2>3, <2>4 DEF InOrder
<1>8. ASSUME NEW i \in DOMAIN channel, Lose(i) PROVE InOrder'
  <2>1. tx' = tx /\ rx' = rx /\ channel' = RemoveAt(channel, i)
    BY <1>8 DEF Lose
  <2>2. \A k \in DOMAIN channel' : channel'[k].pdu.sn \in Sns /\ channel'[k].pdu.sn < tx.sn
    BY <1>6, <2>1, RemovedOrder
  <2> QED
    BY <2>1, <2>2 DEF InOrder
<1>9. CASE ExpireReorderingTimer
  <2>1. tx' = tx /\ channel' = channel
    BY <1>9 DEF ExpireReorderingTimer
  <2>2. Passes
    BY <1>1, <1>9, Expires
  <2>3. rx'.ur <= tx.sn
    BY <1>1, <1>2, <2>2, PassesOrder
  <2> QED
    BY <1>2, <2>1, <2>3 DEF InOrder
<1>10. CASE UNCHANGED vars
  BY <1>2, <1>4, <1>10 DEF vars
<1> QED
  BY <1>2, <1>3, <1>5, <1>7, <1>8, <1>9, <1>10 DEF UmNext

\* InStep is no wish: sender and receiver are in step at least as long as no more PDUs
\* are sent than half the numbers, whatever is lost and in whatever order the rest comes.
THEOREM UmStaysInStep ==
  ASSUME Window > 1
  PROVE  UmSpec /\ []FirstRound => []InStep
<1>1. UmInit => InOrder
  <2> SUFFICES ASSUME UmInit PROVE InOrder
    OBVIOUS
  <2>1. tx.sent = 0 /\ tx.sn = 0 /\ rx.ur = 0 /\ channel = <<>>
    BY DEF UmInit
  <2> QED
    BY <2>1 DEF InOrder
<1>2. UmInit => UmShape /\ UmData
  BY UmInitially
<1>3. /\ UmShape /\ UmData /\ InOrder /\ FirstRound /\ [UmNext]_vars
        => (UmShape /\ UmData /\ InOrder)'
  BY OrderNext
<1>4. UmShape /\ InOrder /\ FirstRound => InStep
  BY OrderSteps
<1> QED
  BY <1>1, <1>2, <1>3, <1>4, PTL DEF UmSpec
=============================================================================
