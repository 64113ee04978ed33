------------------------- MODULE UeMeasurementsProofs -------------------------
(***************************************************************************)
(* Records, events and the reporting entry of UeMeasurements stay in step,   *)
(* for any cells, configurations and times to trigger.                       *)
(*                                                                         *)
(* The records of a queue and the events of its kind carry the same numbers  *)
(* in the same order.  That is an invariant because events are due in the    *)
(* order of scheduling: they wait equally long, for the time-to-trigger of   *)
(* the only configuration that there is between two clearings.               *)
(***************************************************************************)
EXTENDS UeMeasurements, SequenceTheorems, NatFacts

Kinds == {"enter", "leave"}

-----------------------------------------------------------------------------
(* The entries at given positions.                                         *)

\* f lists the numbers of P in their order.
Lists(f, P) ==
  /\ f \in [1..Cardinality(P) -> P]
  /\ \A i, j \in 1..Cardinality(P) : i < j => f[i] < f[j]

\* Every set of numbers up to a bound can be listed.
LEMMA Listed ==
  ASSUME NEW b \in Nat, NEW P \in SUBSET (1..b)
  PROVE  IsFiniteSet(P) /\ Cardinality(P) \in Nat /\ \E f : Lists(f, P)
<1>0. \A n \in Nat : \A Q \in SUBSET (1..n) : IsFiniteSet(Q) /\ Cardinality(Q) \in Nat
  <2>1. \A n \in Nat : IsFiniteSet(1..n)
    BY FS_Interval
  <2> QED
    BY <2>1, FS_Subset, FS_CardinalityType
<1> DEFINE S == {n \in Nat : \A Q \in SUBSET (1..n) : \E f : Lists(f, Q)}
<1>1. 0 \in S
  <2> SUFFICES ASSUME NEW Q \in SUBSET (1..0) PROVE \E f : Lists(f, Q)
    OBVIOUS
  <2>1. Q = {} /\ Cardinality({}) = 0
    BY FS_EmptySet
  <2>2. Lists([i \in 1..0 |-> i], {})
    BY <2>1 DEF Lists
  <2> QED
    BY <2>1, <2>2
<1>2. ASSUME NEW n \in Nat, n \in S PROVE n + 1 \in S
  <2> SUFFICES ASSUME NEW Q \in SUBSET (1..(n + 1)) PROVE \E f : Lists(f, Q)
    BY <1>2
  <2>1. CASE n + 1 \notin Q
    <3>1. Q \in SUBSET (1..n)
      BY <2>1
    <3> QED
      BY <1>2, <3>1
  <2>2. CASE n + 1 \in Q
    <3> DEFINE R == Q \ {n + 1}
               c == Cardinality(R)
    <3>1. R \in SUBSET (1..n)
      OBVIOUS
    <3>2. c \in Nat /\ Cardinality(Q) = c + 1
      <4>1. n + 1 \in Nat /\ IsFiniteSet(Q) /\ Cardinality(Q) \in Nat
        <5>1. n + 1 \in Nat /\ Q \in SUBSET (1..(n + 1))
          OBVIOUS
        <5> QED
          BY <1>0, <5>1
      <4>2. Cardinality(R) = Cardinality(Q) - 1
        BY <4>1, <2>2, FS_RemoveElement
      <4>3. c \in Nat
        BY <1>0, <3>1
      <4> QED
        BY <4>1, <4>2, <4>3
    <3>3. PICK f : Lists(f, R)
      BY <1>2, <3>1
    <3> DEFINE g == [i \in 1..(c + 1) |-> IF i = c + 1 THEN n + 1 ELSE f[i]]
    <3>4. \A i \in 1..c : f[i] \in R
      BY <3>3 DEF Lists
    <3>5. \A i, j \in 1..c : i < j => f[i] < f[j]
      BY <3>3 DEF Lists
    <3> HIDE DEF c
    <3>6. g \in [1..(c + 1) -> Q]
      BY <3>2, <3>4, <2>2
    <3>7. ASSUME NEW i \in 1..(c + 1), NEW j \in 1..(c + 1), i < j PROVE g[i] < g[j]
      <4>1. i \in 1..c /\ g[i] = f[i] /\ f[i] \in R
        BY <3>2, <3>4, <3>7
      <4>2. CASE j = c + 1
        <5>1. g[j] = n + 1 /\ g[i] \in 1..n
          BY <3>1, <4>1, <4>2
        <5> QED
          BY <5>1
      <4>3. CASE j # c + 1
        BY <3>2, <3>5, <3>7, <4>1, <4>3
      <4> QED
        BY <4>2, <4>3
    <3> QED
      BY <3>2, <3>6, <3>7 DEF Lists
  <2> QED
    BY <2>1, <2>2
<1> HIDE DEF S
<1>3. b \in S
  BY <1>1, <1>2, NatInd
<1> QED
  BY <1>0, <1>3 DEF S

\* f has every number of P.
Covers(f, P) == \A p \in P : \E i \in 1..Cardinality(P) : f[i] = p

\* A list of P has every number of P.
LEMMA ListsAll ==
  ASSUME NEW b \in Nat, NEW P \in SUBSET (1..b), NEW f, Lists(f, P)
  PROVE  Covers(f, P)
<1>1. IsFiniteSet(P) /\ Cardinality(P) \in Nat
  BY Listed
<1> DEFINE n == Cardinality(P)
<1>2. f \in [1..n -> P] /\ \A i, j \in 1..n : f[i] = f[j] => i = j
  <2>1. f \in [1..n -> P] /\ \A i, j \in 1..n : i < j => f[i] < f[j]
    BY DEF Lists
  <2>2. \A p \in P : p \in Nat
    OBVIOUS
  <2>0. n \in Nat
    BY <1>1
  <2> HIDE DEF n
  <2>3. ASSUME NEW i \in 1..n PROVE i \in Nat /\ f[i] \in Nat
    <3>1. f[i] \in P
      BY <2>1
    <3>2. f[i] \in Nat
      BY <2>2, <3>1, Zenon
    <3>3. i \in Nat
      BY <2>0
    <3> QED
      BY <3>2, <3>3
  <2>4. ASSUME NEW i \in 1..n, NEW j \in 1..n, f[i] = f[j] PROVE i = j
    <3>1. ~(i < j) /\ ~(j < i)
      BY <2>1, <2>3, <2>4
    <3> QED
      BY <2>3, <3>1
  <2> QED
    BY <2>1, <2>4
<1>3. f \in Injection(1..n, P)
  BY <1>2 DEF Injection, IsInjective
<1>4. IsFiniteSet(1..n) /\ Cardinality(1..n) = n
  BY <1>1, FS_Interval
<1>5. f \in Surjection(1..n, P)
  <2> HIDE DEF n
  <2> QED
    BY <1>1, <1>3, <1>4, FS_Injection DEF n
<1> QED
  BY <1>5 DEF Surjection, Covers

\* t has entries of s, in their order; those at the positions that f gives.
Picks(t, s, f, P) ==
  /\ f \in [DOMAIN t -> P]
  /\ \A i, j \in DOMAIN t : i < j => f[i] < f[j]
  /\ \A p \in P : \E i \in DOMAIN t : f[i] = p
  /\ \A i \in DOMAIN t : t[i] = s[f[i]]

\* Entries picks the entries at the given positions.
LEMMA EntriesPicks ==
  ASSUME NEW S, NEW s \in Seq(S), NEW P \in SUBSET DOMAIN s
  PROVE  Entries(s, P) \in Seq(S) /\ \E f : Picks(Entries(s, P), s, f, P)
<1> DEFINE n  == Cardinality(P)
           f  == CHOOSE g \in [1..n -> P] : \A i, j \in 1..n : i < j => g[i] < g[j]
           t  == Entries(s, P)
<1>1. P \in SUBSET (1..Len(s)) /\ Len(s) \in Nat
  OBVIOUS
<1>2. n \in Nat /\ \E g : Lists(g, P)
  BY <1>1, Listed
<1>3. Lists(f, P)
  BY <1>2 DEF Lists
<1>4. t = [i \in 1..n |-> s[f[i]]]
  BY DEF Entries
<1>5. f \in [1..n -> P] /\ \A i, j \in 1..n : i < j => f[i] < f[j]
  BY <1>3 DEF Lists
<1> HIDE DEF f, t
<1> HIDE DEF n
<1>6. \A p \in P : \E i \in 1..n : f[i] = p
  <2>1. Covers(f, P)
    BY <1>1, <1>3, ListsAll
  <2> QED
    BY <2>1 DEF n, Covers
<1>7. \A i \in 1..n : s[f[i]] \in S
  <2> SUFFICES ASSUME NEW i \in 1..n PROVE s[f[i]] \in S
    OBVIOUS
  <2>1. f[i] \in DOMAIN s
    BY <1>5
  <2> QED
    BY <2>1
<1>8. t \in Seq(S) /\ DOMAIN t = 1..n
  BY <1>2, <1>4, <1>7
<1>9. Picks(t, s, f, P)
  BY <1>4, <1>5, <1>6, <1>8 DEF Picks
<1> QED
  BY <1>8, <1>9 DEF t

-----------------------------------------------------------------------------
(* What holds of the records and the events.                               *)

\* Events have different numbers.
Numbered(s) == \A a, b \in DOMAIN s : s[a].id = s[b].id => a = b

\* The records q are those of the events of their kind in s, in the same order.
Paired(q, s, kind) ==
  /\ \A i \in DOMAIN q : \E a \in DOMAIN s : s[a].kind = kind /\ s[a].id = q[i].id
  /\ \A a \in DOMAIN s : s[a].kind = kind => \E i \in DOMAIN q : s[a].id = q[i].id
InOrder(q, s) ==
  \A i, j \in DOMAIN q : \A a, b \in DOMAIN s :
    i < j /\ s[a].id = q[i].id /\ s[b].id = q[j].id => a < b
Matched(q, s, kind) == Paired(q, s, kind) /\ InOrder(q, s)

\* Events wait, in the order of the queue, at most for the time-to-trigger; each is
\* for some cell, which is the serving cell if the event is about it.
Waits(s) ==
  /\ \A a \in DOMAIN s : /\ s[a].cells # {} /\ s[a].wait <= cfg.ttt
                         /\ cfg.event \in {"A1", "A2"} => s[a].cells \subseteq {serving}
  /\ \A a, b \in DOMAIN s : a < b => s[a].wait <= s[b].wait
  /\ cfg.ttt = 0 => s = <<>>

\* Records and events of a state.
Sound(m) == /\ m \in Meas /\ Numbered(m.scheduled) /\ Waits(m.scheduled)
            /\ \A kind \in Kinds : Matched(m.queue[kind], m.scheduled, kind)

\* The records and the timer fit the reporting entry.
Fits(m) ==
  /\ m.triggered # {} <=> m.timer # NotRunning
  /\ \A i \in DOMAIN m.queue["enter"] : m.queue["enter"][i].cells \intersect m.triggered = {}
  /\ \A i \in DOMAIN m.queue["leave"] : m.queue["leave"][i].cells \subseteq m.triggered
  /\ cfg.event \in {"A1", "A2"} => m.triggered \subseteq {serving}

\* The inductive invariant.
MeasInv == MeasTypeOK /\ Sound(meas) /\ Fits(meas)

\* p has the numbers of entries of q, in their order.
Embeds(p, q, f) ==
  /\ f \in [DOMAIN p -> DOMAIN q]
  /\ \A i, j \in DOMAIN p : i < j => f[i] < f[j]
  /\ \A i \in DOMAIN p : p[i].id = q[f[i]].id

\* The indices of a sequence are numbers.
LEMMA DomainNat == \A S : \A s \in Seq(S) : DOMAIN s \subseteq Nat
OBVIOUS

\* Records and events that are left of ordered ones are ordered.
LEMMA EmbedsInOrder ==
  ASSUME NEW q \in Seq(Trigger), NEW s \in Seq(Event), InOrder(q, s),
         NEW p \in Seq(Trigger), NEW t \in Seq(Event), NEW f, NEW g,
         Embeds(p, q, f), Embeds(t, s, g)
  PROVE  InOrder(p, t)
<1> SUFFICES ASSUME NEW i \in DOMAIN p, NEW j \in DOMAIN p, NEW a \in DOMAIN t, NEW b \in DOMAIN t,
                    i < j, t[a].id = p[i].id, t[b].id = p[j].id
             PROVE  a < b
  BY DEF InOrder
<1>1. /\ f[i] \in DOMAIN q /\ f[j] \in DOMAIN q /\ f[i] < f[j]
      /\ p[i].id = q[f[i]].id /\ p[j].id = q[f[j]].id
  BY DEF Embeds
<1>2. /\ g[a] \in DOMAIN s /\ g[b] \in DOMAIN s /\ (b < a => g[b] < g[a])
      /\ t[a].id = s[g[a]].id /\ t[b].id = s[g[b]].id
  BY DEF Embeds
<1>3. s[g[a]].id = q[f[i]].id /\ s[g[b]].id = q[f[j]].id
  BY <1>1, <1>2
<1>4. g[a] < g[b]
  BY <1>1, <1>2, <1>3 DEF InOrder
<1>5. a \in Nat /\ b \in Nat /\ g[a] \in Nat /\ g[b] \in Nat
  BY <1>2, DomainNat
<1>6. a # b /\ ~(b < a)
  BY <1>2, <1>4, <1>5
<1> QED
  BY <1>5, <1>6

\* The records of one queue have different numbers.
LEMMA RecordsNumbered ==
  ASSUME NEW q \in Seq(Trigger), NEW s \in Seq(Event), NEW kind, Matched(q, s, kind)
  PROVE  \A i, j \in DOMAIN q : q[i].id = q[j].id => i = j
<1> SUFFICES ASSUME NEW i \in DOMAIN q, NEW j \in DOMAIN q, q[i].id = q[j].id, i < j PROVE FALSE
  <2>1. \A i, j \in DOMAIN q : i \in Nat /\ j \in Nat
    BY DomainNat
  <2> QED
    BY <2>1
<1>1. PICK a \in DOMAIN s : s[a].id = q[i].id
  BY DEF Matched, Paired
<1>2. a < a /\ a \in Nat
  BY <1>1, DomainNat DEF Matched, InOrder
<1> QED
  BY <1>2

-----------------------------------------------------------------------------
(* Cancelling.                                                             *)

\* n is m with some records struck off or shortened.
Pruned(m, n) ==
  /\ n.triggered = m.triggered /\ n.timer = m.timer /\ n.orphans = m.orphans
  /\ \A k \in Kinds : \A i \in DOMAIN n.queue[k] :
       \E j \in DOMAIN m.queue[k] : n.queue[k][i].cells \subseteq m.queue[k][j].cells

\* No record of the kind has any of the cells.
Rid(n, kind, cells) == \A i \in DOMAIN n.queue[kind] : n.queue[kind][i].cells \intersect cells = {}

\* What cancelling leaves of the records and of the events.
Left(m, kind, cells) == {i \in DOMAIN m.queue[kind] : m.queue[kind][i].cells \ cells # {}}
Gone(m, kind, cells) ==
  {m.queue[kind][i].id : i \in DOMAIN m.queue[kind] \ Left(m, kind, cells)}
Stay(m, kind, cells) ==
  {a \in DOMAIN m.scheduled : m.scheduled[a].id \notin Gone(m, kind, cells)}

\* What Struck does to each record of a queue.
LEMMA StruckParts ==
  ASSUME NEW m \in Meas, NEW kind \in Kinds, NEW cells
  PROVE  /\ m.queue[kind] \in Seq(Trigger) /\ Struck(m, kind, cells) \in Seq(Trigger)
         /\ DOMAIN Struck(m, kind, cells) = DOMAIN m.queue[kind]
         /\ \A i \in DOMAIN m.queue[kind] :
              /\ Struck(m, kind, cells)[i].id = m.queue[kind][i].id
              /\ Struck(m, kind, cells)[i].cells = m.queue[kind][i].cells \ cells
<1> DEFINE q == m.queue[kind]
<1>1. q \in Seq(Trigger)
  BY DEF Meas, Kinds
<1>2. Struck(m, kind, cells) = [i \in DOMAIN q |-> [q[i] EXCEPT !.cells = q[i].cells \ cells]]
  BY DEF Struck
<1> HIDE DEF q
<1>3. ASSUME NEW i \in DOMAIN q
      PROVE  /\ [q[i] EXCEPT !.cells = q[i].cells \ cells] \in Trigger
             /\ [q[i] EXCEPT !.cells = q[i].cells \ cells].id = q[i].id
             /\ [q[i] EXCEPT !.cells = q[i].cells \ cells].cells = q[i].cells \ cells
  <2>1. q[i] \in Trigger
    BY <1>1
  <2> QED
    BY <2>1 DEF Trigger
<1>4. Struck(m, kind, cells) \in Seq(Trigger)
  <2> DEFINE u == Struck(m, kind, cells)
  <2>1. Len(q) \in Nat /\ DOMAIN q = 1..Len(q)
    BY <1>1
  <2>2. u = [i \in DOMAIN q |-> u[i]] /\ \A i \in DOMAIN q : u[i] \in Trigger
    BY <1>2, <1>3
  <2> HIDE DEF u
  <2>3. u = [i \in 1..Len(q) |-> u[i]] /\ \A i \in 1..Len(q) : u[i] \in Trigger
    BY <2>1, <2>2
  <2>4. u \in Seq(Trigger)
    BY <2>1, <2>3
  <2> QED
    BY <2>4 DEF u
<1> QED
  BY <1>1, <1>2, <1>3, <1>4 DEF q

\* Cancel in these terms.
LEMMA CancelParts ==
  ASSUME NEW m \in Meas, NEW kind \in Kinds, NEW cells
  PROVE  LET n == Cancel(m, kind, cells)
             p == Entries(Struck(m, kind, cells), Left(m, kind, cells))
             t == Entries(m.scheduled, Stay(m, kind, cells))
         IN  /\ n.triggered = m.triggered /\ n.timer = m.timer /\ n.orphans = m.orphans
             /\ n.queue[kind] = p /\ n.scheduled = t
             /\ \A k \in Kinds : k # kind => n.queue[k] = m.queue[k]
             /\ p \in Seq(Trigger) /\ t \in Seq(Event) => n \in Meas
<1> DEFINE u    == Struck(m, kind, cells)
           left == {i \in DOMAIN u : u[i].cells # {}}
           gone == {u[i].id : i \in DOMAIN u \ left}
           stay == {i \in DOMAIN m.scheduled : m.scheduled[i].id \notin gone}
<1>1. left = Left(m, kind, cells)
  BY StruckParts DEF Left
<1>2. gone = Gone(m, kind, cells)
  BY <1>1, StruckParts DEF Gone
<1>3. Cancel(m, kind, cells) = [m EXCEPT !.queue[kind] = Entries(u, Left(m, kind, cells)),
                                         !.scheduled = Entries(m.scheduled, Stay(m, kind, cells))]
  BY <1>1, <1>2 DEF Cancel, Stay
<1> DEFINE p == Entries(u, Left(m, kind, cells))
           t == Entries(m.scheduled, Stay(m, kind, cells))
           w == [m.queue EXCEPT ![kind] = p]
           n == [m EXCEPT !.queue = w, !.scheduled = t]
<1>4. Cancel(m, kind, cells) = n
  BY <1>3
<1>5. w[kind] = p /\ \A k \in Kinds : k # kind => w[k] = m.queue[k]
  BY DEF Meas, Kinds
<1>6. p \in Seq(Trigger) => w \in [Kinds -> Seq(Trigger)]
  BY DEF Meas, Kinds
<1> HIDE DEF p, t, w
<1>7. /\ n.triggered = m.triggered /\ n.timer = m.timer /\ n.orphans = m.orphans
      /\ n.queue = w /\ n.scheduled = t
  BY DEF Meas
<1>8. w \in [Kinds -> Seq(Trigger)] /\ t \in Seq(Event) => n \in Meas
  BY DEF Meas, Kinds
<1> HIDE DEF n
<1> QED
  BY <1>4, <1>5, <1>6, <1>7, <1>8 DEF p, t

\* Cancelling takes records and events together.
LEMMA CancelSound ==
  ASSUME NEW m, Sound(m), NEW kind \in Kinds, NEW cells
  PROVE  /\ Sound(Cancel(m, kind, cells)) /\ Pruned(m, Cancel(m, kind, cells))
         /\ Rid(Cancel(m, kind, cells), kind, cells)
<1> DEFINE n    == Cancel(m, kind, cells)
           q    == m.queue[kind]
           s    == m.scheduled
           u    == Struck(m, kind, cells)
           left == Left(m, kind, cells)
           gone == Gone(m, kind, cells)
           stay == Stay(m, kind, cells)
           p    == Entries(u, left)
           t    == Entries(s, stay)
<1>0. /\ m \in Meas /\ s \in Seq(Event) /\ q \in Seq(Trigger)
      /\ Numbered(s) /\ Waits(s) /\ Matched(q, s, kind)
  BY DEF Sound, Meas, Kinds
<1>1. /\ u \in Seq(Trigger) /\ DOMAIN u = DOMAIN q
      /\ \A i \in DOMAIN q : u[i].id = q[i].id /\ u[i].cells = q[i].cells \ cells
  BY <1>0, StruckParts
<1>2. left \subseteq DOMAIN q /\ \A i \in left : q[i].cells \ cells # {}
  BY DEF Left
<1>3. stay \subseteq DOMAIN s /\ \A a \in DOMAIN s : a \in stay <=> s[a].id \notin gone
  BY DEF Stay
<1>4. /\ \A i \in DOMAIN q : i \in left \/ q[i].id \in gone
      /\ \A x \in gone : \E i \in DOMAIN q : i \notin left /\ q[i].id = x
  BY DEF Gone
<1>5. /\ n.triggered = m.triggered /\ n.timer = m.timer /\ n.orphans = m.orphans
      /\ n.queue[kind] = p /\ n.scheduled = t
      /\ \A k \in Kinds : k # kind => n.queue[k] = m.queue[k]
      /\ p \in Seq(Trigger) /\ t \in Seq(Event) => n \in Meas
  BY <1>0, CancelParts
<1> HIDE DEF n, u, left, gone, stay, q, s
<1>6. p \in Seq(Trigger) /\ \E f : Picks(p, u, f, left)
  BY <1>1, <1>2, EntriesPicks
<1>7. t \in Seq(Event) /\ \E g : Picks(t, s, g, stay)
  BY <1>0, <1>3, EntriesPicks
<1> HIDE DEF p, t
<1>8. PICK f : Picks(p, u, f, left)
  BY <1>6
<1>9. PICK g : Picks(t, s, g, stay)
  BY <1>7
<1>10. /\ f \in [DOMAIN p -> left] /\ \A x \in left : \E i \in DOMAIN p : f[i] = x
       /\ \A i, j \in DOMAIN p : i < j => f[i] < f[j]
       /\ \A i \in DOMAIN p : p[i] = u[f[i]]
  BY <1>8 DEF Picks
<1>11. /\ g \in [DOMAIN t -> stay] /\ \A x \in stay : \E a \in DOMAIN t : g[a] = x
       /\ \A a, b \in DOMAIN t : a < b => g[a] < g[b]
       /\ \A a \in DOMAIN t : t[a] = s[g[a]]
  BY <1>9 DEF Picks
<1>12. ASSUME NEW i \in DOMAIN p
       PROVE  /\ f[i] \in left /\ f[i] \in DOMAIN q /\ p[i].id = q[f[i]].id
              /\ p[i].cells = q[f[i]].cells \ cells
  <2>1. f[i] \in left /\ f[i] \in DOMAIN q
    BY <1>2, <1>10
  <2>2. p[i] = u[f[i]]
    BY <1>10
  <2> QED
    BY <1>1, <2>1, <2>2
<1>13. ASSUME NEW a \in DOMAIN t
       PROVE  g[a] \in stay /\ g[a] \in DOMAIN s /\ t[a] = s[g[a]] /\ s[g[a]].id \notin gone
  BY <1>3, <1>11
<1>14. Embeds(p, q, f)
  <2>1. f \in [DOMAIN p -> DOMAIN q]
    BY <1>2, <1>10
  <2> QED
    BY <1>10, <1>12, <2>1 DEF Embeds
<1>15. Embeds(t, s, g)
  <2>1. g \in [DOMAIN t -> DOMAIN s]
    BY <1>3, <1>11
  <2>2. \A a \in DOMAIN t : t[a].id = s[g[a]].id
    BY <1>13
  <2> QED
    BY <1>11, <2>1, <2>2 DEF Embeds
<1>16. Paired(p, t, kind)
  <2>1. ASSUME NEW i \in DOMAIN p
        PROVE  \E a \in DOMAIN t : t[a].kind = kind /\ t[a].id = p[i].id
    <3>1. PICK b \in DOMAIN s : s[b].kind = kind /\ s[b].id = q[f[i]].id
      BY <1>0, <1>12 DEF Matched, Paired
    <3>2. b \in stay
      <4> SUFFICES ASSUME s[b].id \in gone PROVE FALSE
        BY <1>3
      <4>1. PICK j \in DOMAIN q : j \notin left /\ q[j].id = s[b].id
        BY <1>4
      <4>2. j = f[i]
        BY <1>0, <1>12, <3>1, <4>1, RecordsNumbered
      <4> QED
        BY <1>12, <4>1, <4>2
    <3>3. PICK a \in DOMAIN t : g[a] = b
      BY <1>11, <3>2
    <3> QED
      BY <1>12, <1>13, <3>1, <3>3
  <2>2. ASSUME NEW a \in DOMAIN t, t[a].kind = kind
        PROVE  \E i \in DOMAIN p : t[a].id = p[i].id
    <3>1. PICK j \in DOMAIN q : s[g[a]].id = q[j].id
      BY <1>0, <1>13, <2>2 DEF Matched, Paired
    <3>2. j \in left
      BY <1>4, <1>13, <3>1
    <3>3. PICK i \in DOMAIN p : f[i] = j
      BY <1>10, <3>2
    <3> QED
      BY <1>12, <1>13, <3>1, <3>3
  <2> QED
    BY <2>1, <2>2 DEF Paired
<1>17. Matched(p, t, kind)
  BY <1>0, <1>6, <1>7, <1>14, <1>15, <1>16, EmbedsInOrder DEF Matched
<1>18. ASSUME NEW k \in Kinds, k # kind PROVE Matched(m.queue[k], t, k)
  <2> DEFINE r == m.queue[k]
             h == [i \in DOMAIN r |-> i]
  <2>1. r \in Seq(Trigger) /\ Matched(r, s, k)
    BY DEF Sound, Meas, Kinds, s
  <2> HIDE DEF r
  <2>2. Embeds(r, r, h)
    BY DEF Embeds
  <2>3. ASSUME NEW b \in DOMAIN s, s[b].kind = k PROVE b \in stay
    <3> SUFFICES ASSUME s[b].id \in gone PROVE FALSE
      BY <1>3
    <3>1. PICK j \in DOMAIN q : q[j].id = s[b].id
      BY <1>4
    <3>2. PICK c \in DOMAIN s : s[c].kind = kind /\ s[c].id = q[j].id
      BY <1>0 DEF Matched, Paired
    <3> QED
      BY <1>0, <1>18, <2>3, <3>1, <3>2 DEF Numbered
  <2>4. ASSUME NEW i \in DOMAIN r
        PROVE  \E a \in DOMAIN t : t[a].kind = k /\ t[a].id = r[i].id
    <3>1. PICK b \in DOMAIN s : s[b].kind = k /\ s[b].id = r[i].id
      BY <2>1 DEF Matched, Paired
    <3>2. PICK a \in DOMAIN t : g[a] = b
      BY <1>11, <2>3, <3>1
    <3> QED
      BY <1>13, <3>1, <3>2
  <2>5. ASSUME NEW a \in DOMAIN t, t[a].kind = k PROVE \E i \in DOMAIN r : t[a].id = r[i].id
    BY <1>13, <2>1, <2>5 DEF Matched, Paired
  <2>6. Paired(r, t, k)
    BY <2>4, <2>5 DEF Paired
  <2>7. InOrder(r, t)
    BY <1>0, <1>7, <1>15, <2>1, <2>2, EmbedsInOrder DEF Matched
  <2> QED
    BY <2>6, <2>7 DEF Matched, r
<1>19. Numbered(t)
  <2> SUFFICES ASSUME NEW a \in DOMAIN t, NEW b \in DOMAIN t, t[a].id = t[b].id PROVE a = b
    BY DEF Numbered
  <2>1. g[a] = g[b] /\ g[a] \in DOMAIN s
    BY <1>0, <1>13 DEF Numbered
  <2>2. a \in Nat /\ b \in Nat /\ g[a] \in Nat
    BY <1>0, <1>7, <2>1, DomainNat
  <2>3. (a < b => g[a] < g[b]) /\ (b < a => g[b] < g[a])
    BY <1>11
  <2> QED
    BY <2>1, <2>2, <2>3
<1>20. Waits(t)
  <2>1. \A a \in DOMAIN t : /\ t[a].cells # {} /\ t[a].wait <= cfg.ttt
                            /\ cfg.event \in {"A1", "A2"} => t[a].cells \subseteq {serving}
    BY <1>0, <1>13 DEF Waits
  <2>2. \A a, b \in DOMAIN t : a < b => t[a].wait <= t[b].wait
    BY <1>0, <1>11, <1>13 DEF Waits
  <2>3. cfg.ttt = 0 => t = <<>>
    <3> SUFFICES ASSUME cfg.ttt = 0, t # <<>> PROVE FALSE
      OBVIOUS
    <3>1. 1 \in DOMAIN t
      BY <1>7
    <3>2. g[1] \in DOMAIN s /\ s = <<>>
      BY <1>0, <1>13, <3>1 DEF Waits
    <3> QED
      BY <3>2
  <2> QED
    BY <2>1, <2>2, <2>3 DEF Waits
<1>21. Sound(n)
  BY <1>5, <1>6, <1>7, <1>17, <1>18, <1>19, <1>20 DEF Sound
<1>22. Pruned(m, n)
  <2> SUFFICES ASSUME NEW k \in Kinds, NEW i \in DOMAIN n.queue[k]
               PROVE  \E j \in DOMAIN m.queue[k] : n.queue[k][i].cells \subseteq m.queue[k][j].cells
    BY <1>5 DEF Pruned
  <2>1. CASE k = kind
    BY <1>5, <1>12, <2>1 DEF q
  <2>2. CASE k # kind
    BY <1>5, <2>2
  <2> QED
    BY <2>1, <2>2
<1>23. Rid(n, kind, cells)
  BY <1>5, <1>12 DEF Rid
<1> QED
  BY <1>21, <1>22, <1>23 DEF n

\* What is struck off still fits the entry.
LEMMA PrunedFits ==
  ASSUME NEW m, NEW n, Fits(m), Pruned(m, n)
  PROVE  Fits(n)
BY DEF Fits, Pruned, Kinds

-----------------------------------------------------------------------------
(* Scheduling.                                                             *)

\* There is always an unused number: there are more of them than events.
LEMMA Fresh ==
  ASSUME NEW m \in Meas
  PROVE  FreshId(m) \in Nat /\ \A a \in DOMAIN m.scheduled : m.scheduled[a].id # FreshId(m)
<1> DEFINE s == m.scheduled
           n == Len(s)
<1>1. s \in Seq(Event) /\ n \in Nat /\ DOMAIN s = 1..n
  BY DEF Meas
<1>2. UsedIds(m) = {s[a].id : a \in 1..n}
  BY <1>1 DEF UsedIds, ToSet
<1> HIDE DEF n
<1>3. \E i \in 0..n : i \notin UsedIds(m)
  <2> SUFFICES ASSUME \A i \in 0..n : i \in UsedIds(m) PROVE FALSE
    OBVIOUS
  <2> DEFINE f == [i \in 0..n |-> CHOOSE a \in 1..n : s[a].id = i]
  <2>1. ASSUME NEW i \in 0..n PROVE f[i] \in 1..n /\ s[f[i]].id = i
    <3>1. \E a \in 1..n : s[a].id = i
      BY <1>2
    <3> QED
      BY <3>1
  <2>2. f \in [0..n -> 1..n]
    BY <2>1
  <2> HIDE DEF f
  <2>3. \A i, j \in 0..n : f[i] = f[j] => i = j
    BY <2>1
  <2>4. f \in Injection(0..n, 1..n)
    BY <2>2, <2>3 DEF Injection, IsInjective
  <2>5. IsFiniteSet(1..n) /\ Cardinality(1..n) = n
    BY <1>1, FS_Interval
  <2>6. Cardinality(0..n) = n + 1
    <3>1. 0 \in Int /\ n \in Int /\ 0 <= n
      BY <1>1
    <3>2. Cardinality(0..n) = n - 0 + 1
      BY <3>1, FS_Interval
    <3> QED
      BY <1>1, <3>2
  <2>7. Cardinality(0..n) <= Cardinality(1..n)
    BY <2>4, <2>5, FS_Injection
  <2> QED
    BY <1>1, <2>5, <2>6, <2>7
<1>4. FreshId(m) \in 0..n /\ FreshId(m) \notin UsedIds(m)
  BY <1>3 DEF FreshId, n
<1> QED
  BY <1>1, <1>2, <1>4

\* A trigger that begins to wait is the last of its queue and of the events.
LEMMA WaitingSound ==
  ASSUME NEW m, Sound(m), cfg \in Config, cfg.ttt # 0, NEW kind \in Kinds,
         NEW cells \in SUBSET Cells, cells # {},
         cfg.event \in {"A1", "A2"} => cells \subseteq {serving}
  PROVE  LET n == Waiting(m, kind, cells)
         IN  /\ Sound(n) /\ n.triggered = m.triggered /\ n.timer = m.timer
             /\ \A k \in Kinds : \A i \in DOMAIN n.queue[k] :
                  \/ k = kind /\ n.queue[k][i].cells = cells
                  \/ \E j \in DOMAIN m.queue[k] : n.queue[k][i].cells = m.queue[k][j].cells
<1> DEFINE n  == Waiting(m, kind, cells)
           id == FreshId(m)
           r  == [cells |-> cells, id |-> id]
           e  == [kind |-> kind, cells |-> cells, wait |-> cfg.ttt, id |-> id]
           q  == m.queue[kind]
           s  == m.scheduled
           p  == Append(q, r)
           t  == Append(s, e)
<1>0. /\ m \in Meas /\ s \in Seq(Event) /\ q \in Seq(Trigger)
      /\ Numbered(s) /\ Waits(s) /\ Matched(q, s, kind)
  BY DEF Sound, Meas, Kinds
<1>1. id \in Nat /\ \A a \in DOMAIN s : s[a].id # id
  BY <1>0, Fresh
<1>2. cfg.ttt \in Nat
  BY DEF Config
<1>3. r \in Trigger /\ r.id = id /\ r.cells = cells
  BY <1>1 DEF Trigger
<1>4. /\ e \in Event /\ e.id = id /\ e.cells = cells /\ e.wait = cfg.ttt /\ e.kind = kind
  BY <1>1, <1>2 DEF Event, Kinds
<1>5. /\ n.triggered = m.triggered /\ n.timer = m.timer
      /\ n.queue[kind] = p /\ n.scheduled = t
      /\ \A k \in Kinds : k # kind => n.queue[k] = m.queue[k]
      /\ p \in Seq(Trigger) /\ t \in Seq(Event) => n \in Meas
  <2>1. n = [m EXCEPT !.queue[kind] = p, !.scheduled = t]
    BY DEF Waiting
  <2> HIDE DEF n, p, t
  <2> QED
    BY <1>0, <2>1 DEF Meas, Kinds
<1> HIDE DEF n, id, r, e, q, s
<1>6. p \in Seq(Trigger) /\ t \in Seq(Event)
  BY <1>0, <1>3, <1>4
<1> DEFINE y == Len(q) + 1
           z == Len(s) + 1
<1>7. /\ DOMAIN p = DOMAIN q \union {y} /\ p[y] = r /\ \A i \in DOMAIN q : p[i] = q[i] /\ i < y
      /\ y \in Nat /\ DOMAIN q \subseteq Nat
  BY <1>0, <1>3
<1>8. /\ DOMAIN t = DOMAIN s \union {z} /\ t[z] = e /\ \A a \in DOMAIN s : t[a] = s[a] /\ a < z
      /\ z \in Nat /\ DOMAIN s \subseteq Nat
  BY <1>0, <1>4
<1> HIDE DEF p, t, y, z
<1>9. \A a \in DOMAIN t : t[a].id = id <=> a = z
  BY <1>1, <1>4, <1>8
<1>10. \A k \in Kinds : \A i \in DOMAIN m.queue[k] : m.queue[k][i].id # id
  BY <1>1 DEF Sound, Matched, Paired, s
<1>11. Paired(p, t, kind)
  <2>1. ASSUME NEW i \in DOMAIN p
        PROVE  \E a \in DOMAIN t : t[a].kind = kind /\ t[a].id = p[i].id
    <3>1. CASE i = y
      BY <1>3, <1>4, <1>7, <1>8, <3>1
    <3>2. CASE i \in DOMAIN q
      <4>1. PICK a \in DOMAIN s : s[a].kind = kind /\ s[a].id = q[i].id
        BY <1>0, <3>2 DEF Matched, Paired
      <4>2. a \in DOMAIN t /\ t[a] = s[a] /\ p[i] = q[i]
        BY <1>7, <1>8, <3>2
      <4> QED
        BY <4>1, <4>2
    <3> QED
      BY <1>7, <3>1, <3>2
  <2>2. ASSUME NEW a \in DOMAIN t, t[a].kind = kind
        PROVE  \E i \in DOMAIN p : t[a].id = p[i].id
    <3>1. CASE a = z
      BY <1>3, <1>4, <1>7, <1>8, <3>1
    <3>2. CASE a \in DOMAIN s
      <4>1. t[a] = s[a]
        BY <1>8, <3>2
      <4>2. PICK i \in DOMAIN q : s[a].id = q[i].id
        BY <1>0, <2>2, <3>2, <4>1 DEF Matched, Paired
      <4>3. i \in DOMAIN p /\ p[i] = q[i]
        BY <1>7
      <4> QED
        BY <4>1, <4>2, <4>3
    <3> QED
      BY <1>8, <3>1, <3>2
  <2> QED
    BY <2>1, <2>2 DEF Paired
<1>12. InOrder(p, t)
  <2> SUFFICES ASSUME NEW i \in DOMAIN p, NEW j \in DOMAIN p, NEW a \in DOMAIN t, NEW b \in DOMAIN t,
                      i < j, t[a].id = p[i].id, t[b].id = p[j].id
               PROVE  a < b
    BY DEF InOrder
  <2>1. i \in DOMAIN q
    BY <1>7
  <2>2. p[i] = q[i] /\ q[i].id # id
    BY <1>7, <1>10, <2>1 DEF q
  <2>3. a \in DOMAIN s /\ t[a] = s[a] /\ a < z
    BY <1>8, <1>9, <2>2
  <2>4. CASE j = y
    BY <1>3, <1>7, <1>9, <2>3, <2>4
  <2>5. CASE j \in DOMAIN q
    <3>1. p[j] = q[j] /\ q[j].id # id
      BY <1>7, <1>10, <2>5 DEF q
    <3>2. b \in DOMAIN s /\ t[b] = s[b]
      BY <1>8, <1>9, <3>1
    <3> QED
      BY <1>0, <2>1, <2>2, <2>3, <2>5, <3>1, <3>2 DEF Matched, InOrder
  <2> QED
    BY <1>7, <2>4, <2>5
<1>13. ASSUME NEW k \in Kinds, k # kind PROVE Matched(m.queue[k], t, k)
  <2>1. Matched(m.queue[k], s, k)
    BY DEF Sound, s
  <2>2. \A i \in DOMAIN m.queue[k] : m.queue[k][i].id # id
    BY <1>10
  <2>3. Paired(m.queue[k], t, k)
    <3> DEFINE c == m.queue[k]
    <3>1. Paired(c, s, k)
      BY <2>1 DEF Matched
    <3> HIDE DEF c
    <3>2. \A i \in DOMAIN c : \E a \in DOMAIN t : t[a].kind = k /\ t[a].id = c[i].id
      BY <1>8, <3>1 DEF Paired
    <3>3. ASSUME NEW a \in DOMAIN t, t[a].kind = k PROVE \E i \in DOMAIN c : t[a].id = c[i].id
      <4>1. a # z
        BY <1>4, <1>8, <1>13, <3>3
      <4>2. a \in DOMAIN s /\ t[a] = s[a]
        BY <1>8, <4>1
      <4> QED
        BY <3>1, <3>3, <4>2 DEF Paired
    <3> QED
      BY <3>2, <3>3 DEF Paired, c
  <2>4. InOrder(m.queue[k], t)
    BY <1>8, <1>9, <2>1, <2>2 DEF Matched, InOrder
  <2> QED
    BY <2>3, <2>4 DEF Matched
<1>14. Numbered(t)
  BY <1>0, <1>8, <1>9 DEF Numbered
<1>15. Waits(t)
  <2>1. \A a \in DOMAIN s : s[a].wait \in Nat /\ s[a].wait <= cfg.ttt
    <3>1. ASSUME NEW a \in DOMAIN s PROVE s[a].wait \in Nat
      <4>1. s[a] \in Event
        BY <1>0
      <4> QED
        BY <4>1 DEF Event
    <3> QED
      BY <1>0, <3>1 DEF Waits
  <2>2. \A a \in DOMAIN t : /\ t[a].cells # {} /\ t[a].wait <= cfg.ttt
                            /\ cfg.event \in {"A1", "A2"} => t[a].cells \subseteq {serving}
    BY <1>0, <1>2, <1>4, <1>8 DEF Waits
  <2>3. \A a, b \in DOMAIN t : a < b => t[a].wait <= t[b].wait
    BY <1>0, <1>2, <1>4, <1>8, <2>1 DEF Waits
  <2> QED
    BY <2>2, <2>3 DEF Waits
<1>16. Sound(n)
  BY <1>5, <1>6, <1>11, <1>12, <1>13, <1>14, <1>15 DEF Sound, Matched
<1>17. \A k \in Kinds : \A i \in DOMAIN n.queue[k] :
         \/ k = kind /\ n.queue[k][i].cells = cells
         \/ \E j \in DOMAIN m.queue[k] : n.queue[k][i].cells = m.queue[k][j].cells
  BY <1>3, <1>5, <1>7 DEF q
<1> QED
  BY <1>5, <1>16, <1>17 DEF n

-----------------------------------------------------------------------------
(* The queue when an event is taken.                                       *)

\* What Sound says does not depend on the entry.
LEMMA SoundFrame ==
  ASSUME NEW m, NEW n, Sound(m), n \in Meas, n.queue = m.queue, n.scheduled = m.scheduled
  PROVE  Sound(n)
BY DEF Sound

\* A queue from which the caller's record may be taken: its event has gone before.
Callable(m, kind) ==
  /\ m \in Meas
  /\ IF m.queue[kind] = <<>> THEN Sound(m)
     ELSE Sound([m EXCEPT !.queue[kind] = Tail(@)])

\* Without its first entry, a sequence is picked from the whole.
LEMMA TailEmbeds ==
  ASSUME NEW S, NEW q \in Seq(S), q # <<>>
  PROVE  /\ Tail(q) \in Seq(S) /\ 1 \in DOMAIN q /\ Head(q) = q[1]
         /\ \A i \in DOMAIN Tail(q) : i \in Nat /\ i + 1 \in DOMAIN q /\ Tail(q)[i] = q[i + 1]
         /\ \A i \in DOMAIN q : i \in Nat /\ (i # 1 => 1 < i /\ i - 1 \in DOMAIN Tail(q))
         /\ Embeds(Tail(q), q, [i \in DOMAIN Tail(q) |-> i + 1])
<1>1. /\ Tail(q) \in Seq(S) /\ 1 \in DOMAIN q /\ Head(q) = q[1]
      /\ \A i \in DOMAIN Tail(q) : i \in Nat /\ i + 1 \in DOMAIN q /\ Tail(q)[i] = q[i + 1]
      /\ \A i \in DOMAIN q : i \in Nat /\ (i # 1 => 1 < i /\ i - 1 \in DOMAIN Tail(q))
  OBVIOUS
<1> DEFINE p == Tail(q)
<1> HIDE DEF p
<1>2. Embeds(p, q, [i \in DOMAIN p |-> i + 1])
  BY <1>1 DEF Embeds, p
<1> QED
  BY <1>1, <1>2 DEF p

\* The first event has the first record of its kind: both are taken.
LEMMA PoppedCallable ==
  ASSUME NEW m, Sound(m), m.scheduled # <<>>
  PROVE  LET e == Head(m.scheduled)
         IN  e \in Event /\ Callable([m EXCEPT !.scheduled = Tail(@)], e.kind)
<1> DEFINE s    == m.scheduled
           e    == Head(s)
           kind == e.kind
           q    == m.queue[kind]
           p    == Tail(q)
           t    == Tail(s)
           d    == [m EXCEPT !.scheduled = t]
           n    == [m EXCEPT !.queue[kind] = p, !.scheduled = t]
<1>0. m \in Meas /\ s \in Seq(Event) /\ s # <<>> /\ Numbered(s) /\ Waits(s)
  BY DEF Sound, Meas
<1>1. /\ t \in Seq(Event) /\ 1 \in DOMAIN s /\ e = s[1]
      /\ \A a \in DOMAIN t : a \in Nat /\ a + 1 \in DOMAIN s /\ t[a] = s[a + 1]
      /\ \A a \in DOMAIN s : a \in Nat /\ (a # 1 => 1 < a /\ a - 1 \in DOMAIN t)
      /\ Embeds(t, s, [a \in DOMAIN t |-> a + 1])
  BY <1>0, TailEmbeds
<1>2. e \in Event /\ kind \in Kinds
  <2>1. e \in Event
    BY <1>0, <1>1
  <2> QED
    BY <2>1 DEF Event, Kinds
<1>3. q \in Seq(Trigger) /\ Matched(q, s, kind)
  BY <1>2 DEF Sound, Meas, Kinds
<1>4. d \in Meas /\ d.queue = m.queue
  <2> HIDE DEF t
  <2> QED
    BY <1>0, <1>1 DEF Meas
<1>5. n = [d EXCEPT !.queue[kind] = Tail(@)]
  <2> HIDE DEF t, kind
  <2> QED
    BY <1>0, <1>2 DEF Meas, Kinds
<1> HIDE DEF kind, e, s, q, d, t
<1>6. q # <<>>
  <2>1. PICK i \in DOMAIN q : s[1].id = q[i].id
    BY <1>1, <1>3 DEF Matched, Paired, kind
  <2> QED
    BY <1>3, <2>1
<1>7. /\ p \in Seq(Trigger) /\ 1 \in DOMAIN q
      /\ \A i \in DOMAIN p : i \in Nat /\ i + 1 \in DOMAIN q /\ p[i] = q[i + 1]
      /\ \A i \in DOMAIN q : i \in Nat /\ (i # 1 => 1 < i /\ i - 1 \in DOMAIN p)
      /\ Embeds(p, q, [i \in DOMAIN p |-> i + 1])
  BY <1>3, <1>6, TailEmbeds
<1>8. n \in Meas /\ n.queue[kind] = p /\ n.scheduled = t /\ \A k \in Kinds : k # kind => n.queue[k] = m.queue[k]
  <2>1. p \in Seq(Trigger) /\ t \in Seq(Event) /\ m \in Meas /\ kind \in Kinds
    BY <1>0, <1>1, <1>2, <1>7
  <2> HIDE DEF p
  <2> QED
    BY <2>1 DEF Meas, Kinds
<1> HIDE DEF p, n
<1>9. q[1].id = s[1].id
  <2>1. PICK a \in DOMAIN s : s[a].kind = kind /\ s[a].id = q[1].id
    BY <1>3, <1>7 DEF Matched, Paired
  <2>2. PICK i \in DOMAIN q : s[1].id = q[i].id
    BY <1>1, <1>3 DEF Matched, Paired, kind
  <2>3. CASE i = 1
    BY <2>2, <2>3
  <2>4. CASE i # 1
    <3>1. 1 < i /\ a \in Nat
      BY <1>1, <1>7, <2>4
    <3>2. a < 1
      BY <1>1, <1>3, <1>7, <2>1, <2>2, <3>1 DEF Matched, InOrder
    <3>3. a # 0
      BY <1>0
    <3> QED
      BY <3>1, <3>2, <3>3
  <2> QED
    BY <2>3, <2>4
<1>10. Paired(p, t, kind)
  <2>1. ASSUME NEW i \in DOMAIN p
        PROVE  \E a \in DOMAIN t : t[a].kind = kind /\ t[a].id = p[i].id
    <3>1. i \in Nat /\ i + 1 \in DOMAIN q /\ p[i] = q[i + 1]
      BY <1>7
    <3>2. PICK b \in DOMAIN s : s[b].kind = kind /\ s[b].id = q[i + 1].id
      BY <1>3, <3>1 DEF Matched, Paired
    <3>3. b # 1
      <4>1. q[1].id # q[i + 1].id
        <5>1. \A x, y \in DOMAIN q : q[x].id = q[y].id => x = y
          BY <1>0, <1>3, RecordsNumbered
        <5>2. 1 # i + 1
          BY <1>7, <3>1
        <5> QED
          BY <1>7, <3>1, <5>1, <5>2
      <4> QED
        BY <1>9, <3>2, <4>1
    <3>4. b \in Nat /\ b - 1 \in DOMAIN t /\ t[b - 1] = s[b]
      <4>1. b \in Nat /\ b - 1 \in DOMAIN t
        BY <1>1, <3>3
      <4>2. t[b - 1] = s[(b - 1) + 1] /\ (b - 1) + 1 = b
        BY <1>1, <4>1
      <4> QED
        BY <4>1, <4>2
    <3> QED
      BY <3>1, <3>2, <3>4
  <2>2. ASSUME NEW a \in DOMAIN t, t[a].kind = kind
        PROVE  \E i \in DOMAIN p : t[a].id = p[i].id
    <3>1. a \in Nat /\ a + 1 \in DOMAIN s /\ t[a] = s[a + 1]
      BY <1>1
    <3>2. PICK j \in DOMAIN q : s[a + 1].id = q[j].id
      BY <1>3, <2>2, <3>1 DEF Matched, Paired
    <3>3. j # 1
      <4>1. s[a + 1].id # s[1].id
        <5>1. 1 # a + 1
          <6>1. a # 0
            BY <1>1
          <6> QED
            BY <3>1, <6>1
        <5> QED
          BY <1>0, <1>1, <3>1, <5>1 DEF Numbered
      <4> QED
        BY <1>9, <3>2, <4>1
    <3>4. j \in Nat /\ j - 1 \in DOMAIN p /\ p[j - 1] = q[j]
      <4>1. j \in Nat /\ j - 1 \in DOMAIN p
        BY <1>7, <3>3
      <4>2. p[j - 1] = q[(j - 1) + 1] /\ (j - 1) + 1 = j
        BY <1>7, <4>1
      <4> QED
        BY <4>1, <4>2
    <3> QED
      BY <3>1, <3>2, <3>4
  <2> QED
    BY <2>1, <2>2 DEF Paired
<1>11. Matched(p, t, kind)
  BY <1>0, <1>1, <1>3, <1>7, <1>10, EmbedsInOrder DEF Matched
<1>12. ASSUME NEW k \in Kinds, k # kind PROVE Matched(m.queue[k], t, k)
  <2> DEFINE r == m.queue[k]
  <2>1. r \in Seq(Trigger) /\ Matched(r, s, k)
    BY <1>0 DEF Sound, Meas, Kinds, s
  <2> HIDE DEF r
  <2>2. s[1].kind = kind
    BY <1>1 DEF kind
  <2>3. ASSUME NEW i \in DOMAIN r
        PROVE  \E a \in DOMAIN t : t[a].kind = k /\ t[a].id = r[i].id
    <3>1. PICK b \in DOMAIN s : s[b].kind = k /\ s[b].id = r[i].id
      BY <2>1 DEF Matched, Paired
    <3>2. b \in Nat /\ b - 1 \in DOMAIN t /\ t[b - 1] = s[b]
      <4>1. b # 1
        BY <1>12, <2>2, <3>1
      <4>2. b \in Nat /\ b - 1 \in DOMAIN t
        BY <1>1, <4>1
      <4>3. t[b - 1] = s[(b - 1) + 1] /\ (b - 1) + 1 = b
        BY <1>1, <4>2
      <4> QED
        BY <4>2, <4>3
    <3> QED
      BY <3>1, <3>2
  <2>4. ASSUME NEW a \in DOMAIN t, t[a].kind = k PROVE \E i \in DOMAIN r : t[a].id = r[i].id
    <3>1. a + 1 \in DOMAIN s /\ t[a] = s[a + 1]
      BY <1>1
    <3> QED
      BY <2>1, <2>4, <3>1 DEF Matched, Paired
  <2>5. InOrder(r, t)
    <3> DEFINE h == [i \in DOMAIN r |-> i]
    <3>1. Embeds(r, r, h)
      BY DEF Embeds
    <3> HIDE DEF h
    <3> QED
      BY <1>0, <1>1, <2>1, <3>1, EmbedsInOrder DEF Matched
  <2> QED
    BY <2>3, <2>4, <2>5 DEF Matched, Paired, r
<1>13. Numbered(t) /\ Waits(t)
  <2>1. Numbered(t)
    <3> SUFFICES ASSUME NEW a \in DOMAIN t, NEW b \in DOMAIN t, t[a].id = t[b].id PROVE a = b
      BY DEF Numbered
    <3>1. /\ a \in Nat /\ a + 1 \in DOMAIN s /\ t[a] = s[a + 1]
          /\ b \in Nat /\ b + 1 \in DOMAIN s /\ t[b] = s[b + 1]
      BY <1>1
    <3>2. a + 1 = b + 1
      BY <1>0, <3>1 DEF Numbered
    <3> QED
      BY <3>1, <3>2
  <2>2. \A a \in DOMAIN t : /\ t[a].cells # {} /\ t[a].wait <= cfg.ttt
                            /\ cfg.event \in {"A1", "A2"} => t[a].cells \subseteq {serving}
    BY <1>0, <1>1 DEF Waits
  <2>3. \A a, b \in DOMAIN t : a < b => t[a].wait <= t[b].wait
    <3> SUFFICES ASSUME NEW a \in DOMAIN t, NEW b \in DOMAIN t, a < b
                 PROVE  t[a].wait <= t[b].wait
      OBVIOUS
    <3>1. /\ a \in Nat /\ a + 1 \in DOMAIN s /\ t[a] = s[a + 1]
          /\ b \in Nat /\ b + 1 \in DOMAIN s /\ t[b] = s[b + 1]
      BY <1>1
    <3>2. a + 1 < b + 1
      BY <3>1
    <3>3. s[a + 1].wait <= s[b + 1].wait
      BY <1>0, <3>1, <3>2 DEF Waits
    <3> QED
      BY <3>1, <3>3
  <2>4. cfg.ttt # 0
    BY <1>0 DEF Waits
  <2> QED
    BY <2>1, <2>2, <2>3, <2>4 DEF Waits
<1>14. Sound(n)
  BY <1>8, <1>11, <1>12, <1>13 DEF Sound
<1> QED
  BY <1>2, <1>4, <1>5, <1>6, <1>14 DEF Callable, d, t, kind, q, e, s

\* Pruning of what is left of a queue is pruning of the queue.
LEMMA TailPruned ==
  ASSUME NEW m \in Meas, NEW kind \in Kinds, m.queue[kind] # <<>>,
         NEW n, Pruned([m EXCEPT !.queue[kind] = Tail(@)], n)
  PROVE  Pruned(m, n)
<1> DEFINE q == m.queue[kind]
           p == Tail(q)
           d == [m EXCEPT !.queue[kind] = p]
<1>1. \A i \in DOMAIN p : i + 1 \in DOMAIN q /\ p[i] = q[i + 1]
  <2>1. q \in Seq(Trigger)
    BY DEF Meas, Kinds
  <2> HIDE DEF q
  <2> QED
    BY <2>1, TailEmbeds DEF q
<1> HIDE DEF q, p
<1>2. /\ d.triggered = m.triggered /\ d.timer = m.timer /\ d.orphans = m.orphans
      /\ d.queue[kind] = p /\ \A k \in Kinds : k # kind => d.queue[k] = m.queue[k]
  BY DEF Meas, Kinds
<1>3. Pruned(d, n)
  BY DEF p, q
<1> HIDE DEF d
<1>4. ASSUME NEW k \in Kinds, NEW i \in DOMAIN n.queue[k]
      PROVE  \E j \in DOMAIN m.queue[k] : n.queue[k][i].cells \subseteq m.queue[k][j].cells
  <2>1. PICK j \in DOMAIN d.queue[k] : n.queue[k][i].cells \subseteq d.queue[k][j].cells
    BY <1>3 DEF Pruned
  <2>2. CASE k # kind
    BY <1>2, <2>1, <2>2
  <2>3. CASE k = kind
    BY <1>1, <1>2, <2>1, <2>3 DEF q
  <2> QED
    BY <2>2, <2>3
<1> QED
  BY <1>2, <1>3, <1>4 DEF Pruned

\* The caller's record goes, and with it the cells from all others of its queue.
LEMMA DequeuedSound ==
  ASSUME NEW m, NEW kind \in Kinds, NEW cells, Callable(m, kind)
  PROVE  /\ Sound(Dequeued(m, kind, cells)) /\ Pruned(m, Dequeued(m, kind, cells))
         /\ Rid(Dequeued(m, kind, cells), kind, cells)
<1>1. CASE m.queue[kind] = <<>>
  <2>1. Dequeued(m, kind, cells) = m /\ Sound(m)
    BY <1>1 DEF Dequeued, Callable
  <2> QED
    BY <1>1, <2>1 DEF Pruned, Rid
<1>2. CASE m.queue[kind] # <<>>
  <2> DEFINE d == [m EXCEPT !.queue[kind] = Tail(@)]
  <2>1. Dequeued(m, kind, cells) = Cancel(d, kind, cells) /\ Sound(d)
    BY <1>2 DEF Dequeued, Callable
  <2>2. Pruned(d, Cancel(d, kind, cells)) /\ Sound(Cancel(d, kind, cells))
        /\ Rid(Cancel(d, kind, cells), kind, cells)
    BY <2>1, CancelSound
  <2>3. m \in Meas
    BY DEF Callable
  <2> QED
    BY <1>2, <2>1, <2>2, <2>3, TailPruned
<1> QED
  BY <1>1, <1>2

\* What can be called stays so when only the entry changes.
LEMMA CallableFrame ==
  ASSUME NEW m, NEW kind \in Kinds, Callable(m, kind), NEW n \in Meas,
         n.queue = m.queue, n.scheduled = m.scheduled
  PROVE  Callable(n, kind)
<1>1. m \in Meas
  BY DEF Callable
<1>2. CASE m.queue[kind] = <<>>
  BY <1>2, SoundFrame DEF Callable
<1>3. CASE m.queue[kind] # <<>>
  <2> DEFINE c == [m EXCEPT !.queue[kind] = Tail(@)]
             d == [n EXCEPT !.queue[kind] = Tail(@)]
  <2>1. Sound(c)
    BY <1>3 DEF Callable
  <2>2. m.queue[kind] \in Seq(Trigger)
    BY <1>1 DEF Meas, Kinds
  <2>3. Tail(m.queue[kind]) \in Seq(Trigger)
    BY <1>3, <2>2
  <2>4. d \in Meas
    BY <2>3 DEF Meas, Kinds
  <2>5. d.queue = c.queue /\ d.scheduled = c.scheduled
    BY <1>1 DEF Meas, Kinds
  <2> QED
    BY <1>3, <2>1, <2>4, <2>5, SoundFrame DEF Callable
<1> QED
  BY <1>2, <1>3

\* Cells that trigger enter the entry, which is timed from then on.
LEMMA AddGood ==
  ASSUME NEW m, Callable(m, "enter"), Fits(m), NEW cells \in SUBSET Cells, cells # {},
         cfg.event \in {"A1", "A2"} => cells \subseteq {serving}
  PROVE  /\ Sound(VarMeasReportListAdd(m, cells)) /\ Fits(VarMeasReportListAdd(m, cells))
         /\ m.triggered \subseteq VarMeasReportListAdd(m, cells).triggered
<1> DEFINE d == [Scheduled(m, 0) EXCEPT !.triggered = @ \union cells]
           n == Dequeued(d, "enter", cells)
<1>0. m \in Meas
  BY DEF Callable
<1>1. /\ d.triggered = m.triggered \union cells /\ d.timer = 0 /\ d.queue = m.queue
      /\ d.scheduled = m.scheduled
  BY <1>0 DEF Scheduled, Meas
<1>2. d \in Meas
  <2> DEFINE old == IF m.timer = NotRunning THEN m.orphans ELSE Append(m.orphans, m.timer)
             new == m.triggered \union cells
  <2>1. old \in Seq(Nat)
    <3>1. m.orphans \in Seq(Nat) /\ (m.timer = NotRunning \/ m.timer \in Nat)
      BY <1>0 DEF Meas
    <3>2. CASE m.timer = NotRunning
      BY <3>1, <3>2
    <3>3. CASE m.timer # NotRunning
      BY <3>1, <3>3
    <3> QED
      BY <3>2, <3>3
  <2>2. new \in SUBSET Cells
    BY <1>0 DEF Meas
  <2>3. d = [m EXCEPT !.timer = 0, !.orphans = old, !.triggered = new]
    BY <1>0 DEF Scheduled, Meas
  <2> HIDE DEF d, old, new
  <2> QED
    BY <1>0, <2>1, <2>2, <2>3 DEF Meas
<1> HIDE DEF d
<1>3. Callable(d, "enter")
  BY <1>1, <1>2, CallableFrame DEF Kinds
<1>4. Sound(n) /\ Pruned(d, n) /\ Rid(n, "enter", cells)
  BY <1>3, DequeuedSound DEF Kinds
<1>5. n.triggered = m.triggered \union cells /\ n.timer = 0
  BY <1>1, <1>4 DEF Pruned
<1>6. \A k \in Kinds : \A i \in DOMAIN n.queue[k] :
        \E j \in DOMAIN m.queue[k] : n.queue[k][i].cells \subseteq m.queue[k][j].cells
  BY <1>1, <1>4 DEF Pruned
<1>7. \A i \in DOMAIN n.queue["enter"] : n.queue["enter"][i].cells \intersect n.triggered = {}
  BY <1>4, <1>5, <1>6 DEF Rid, Fits, Kinds
<1>8. \A i \in DOMAIN n.queue["leave"] : n.queue["leave"][i].cells \subseteq n.triggered
  BY <1>5, <1>6 DEF Fits, Kinds
<1>9. Fits(n)
  BY <1>5, <1>7, <1>8 DEF Fits, NotRunning
<1> QED
  BY <1>4, <1>5, <1>9 DEF VarMeasReportListAdd, d

\* Cells that leave go from the entry; its timer goes with the last one.
LEMMA EraseGood ==
  ASSUME NEW m, Callable(m, "leave"), Fits(m), NEW cells, NEW wait \in Nat
  PROVE  /\ Sound(VarMeasReportListErase(m, cells, wait))
         /\ Fits(VarMeasReportListErase(m, cells, wait))
<1> DEFINE left  == m.triggered \ cells
           timer == IF left = {} THEN NotRunning ELSE IF cfg.reportOnLeave THEN wait ELSE m.timer
           d     == [m EXCEPT !.triggered = left, !.timer = timer]
           n     == Dequeued(d, "leave", cells)
<1>0. m \in Meas
  BY DEF Callable
<1>1. timer \in Nat \union {NotRunning} /\ (left # {} <=> timer # NotRunning)
  BY <1>0 DEF Meas, Fits, NotRunning
<1>2. /\ d.triggered = left /\ d.timer = timer /\ d.queue = m.queue /\ d.scheduled = m.scheduled
  BY <1>0 DEF Meas
<1>3. d \in Meas
  <2> HIDE DEF timer
  <2> QED
    BY <1>0, <1>1 DEF Meas
<1>4. n = VarMeasReportListErase(m, cells, wait)
  BY DEF VarMeasReportListErase
<1> HIDE DEF d, timer
<1>5. Callable(d, "leave")
  BY <1>2, <1>3, CallableFrame DEF Kinds
<1>6. Sound(n) /\ Pruned(d, n) /\ Rid(n, "leave", cells)
  BY <1>5, DequeuedSound DEF Kinds
<1>7. n.triggered = left /\ n.timer = timer
  BY <1>2, <1>6 DEF Pruned
<1>8. \A k \in Kinds : \A i \in DOMAIN n.queue[k] :
        \E j \in DOMAIN m.queue[k] : n.queue[k][i].cells \subseteq m.queue[k][j].cells
  BY <1>2, <1>6 DEF Pruned
<1>9. \A i \in DOMAIN n.queue["enter"] : n.queue["enter"][i].cells \intersect n.triggered = {}
  BY <1>7, <1>8 DEF Fits, Kinds
<1>10. \A i \in DOMAIN n.queue["leave"] : n.queue["leave"][i].cells \subseteq n.triggered
  BY <1>6, <1>7, <1>8 DEF Rid, Fits, Kinds
<1>11. Fits(n)
  BY <1>1, <1>7, <1>9, <1>10 DEF Fits
<1> QED
  BY <1>4, <1>6, <1>11

-----------------------------------------------------------------------------
(* Time passes, and the measurements are compared.                         *)

\* Nothing is due.
Quiet(m) ==
  /\ ~IsDue(m.timer) /\ \A i \in DOMAIN m.orphans : ~IsDue(m.orphans[i])
  /\ m.scheduled # <<>> => ~IsDue(Head(m.scheduled).wait)

\* When nothing is due, everything can wait one period less: the first event waits
\* no longer than the others.
LEMMA AgedGood ==
  ASSUME NEW m, Sound(m), Fits(m), Quiet(m), cfg \in Config
  PROVE  Sound(Aged(m)) /\ Fits(Aged(m)) /\ Aged(m).triggered = m.triggered
<1> DEFINE s   == m.scheduled
           t   == [a \in DOMAIN s |-> Sooner(s[a])]
           old == m.orphans
           new == [i \in DOMAIN old |-> old[i] - 1]
           timer == IF m.timer = NotRunning THEN m.timer ELSE m.timer - 1
           n   == [m EXCEPT !.timer = timer, !.orphans = new, !.scheduled = t]
<1>0. /\ m \in Meas /\ s \in Seq(Event) /\ old \in Seq(Nat) /\ Numbered(s) /\ Waits(s)
      /\ m.timer \in Nat \union {NotRunning} /\ cfg.ttt \in Nat
  BY DEF Sound, Meas, Config
<1>1. Aged(m) = n
  BY DEF Aged
<1>2. timer \in Nat \union {NotRunning} /\ (timer = NotRunning <=> m.timer = NotRunning)
  BY <1>0 DEF Quiet, IsDue, NotRunning
<1>3. new \in Seq(Nat)
  <2>1. ASSUME NEW i \in DOMAIN old PROVE old[i] - 1 \in Nat
    <3>1. old[i] \in Nat /\ old[i] \notin {0, 1}
      BY <1>0 DEF Quiet, IsDue
    <3> QED
      BY <3>1
  <2> HIDE DEF old
  <2> QED
    BY <1>0, <2>1
<1>4. \A a \in DOMAIN s : s[a] \in Event /\ s[a].wait \in Nat
  <2> SUFFICES ASSUME NEW a \in DOMAIN s PROVE s[a] \in Event /\ s[a].wait \in Nat
    OBVIOUS
  <2>1. s[a] \in Event
    BY <1>0
  <2> QED
    BY <2>1 DEF Event
<1>5. ASSUME NEW a \in DOMAIN s PROVE s[a].wait - 1 \in Nat /\ s[a].wait > 1
  <2>1. 1 \in DOMAIN s /\ Head(s) = s[1] /\ a \in Nat /\ a >= 1 /\ s # <<>>
    BY <1>0
  <2>2. s[1].wait \in Nat /\ s[1].wait \notin {0, 1}
    BY <1>4, <2>1 DEF Quiet, IsDue
  <2>3. s[1].wait <= s[a].wait
    <3>1. CASE a = 1
      BY <2>2, <3>1
    <3>2. CASE a # 1
      <4>1. 1 < a
        BY <2>1, <3>2
      <4> QED
        BY <1>0, <2>1, <4>1 DEF Waits
    <3> QED
      BY <3>1, <3>2
  <2> QED
    BY <1>4, <2>2, <2>3
<1> HIDE DEF s
<1>6. ASSUME NEW a \in DOMAIN s
      PROVE  /\ t[a] \in Event /\ t[a].kind = s[a].kind /\ t[a].cells = s[a].cells
             /\ t[a].id = s[a].id /\ t[a].wait = s[a].wait - 1
  <2>1. s[a] \in Event /\ s[a].wait - 1 \in Nat
    BY <1>4, <1>5
  <2>2. t[a] = [s[a] EXCEPT !.wait = s[a].wait - 1]
    BY DEF Sooner
  <2> QED
    BY <2>1, <2>2 DEF Event
<1>7. DOMAIN t = DOMAIN s
  OBVIOUS
<1>8. t \in Seq(Event)
  <2>1. DOMAIN t = 1..Len(s) /\ Len(s) \in Nat
    BY <1>0, <1>7
  <2>2. t = [a \in 1..Len(s) |-> t[a]]
    BY <2>1
  <2> HIDE DEF t
  <2> QED
    BY <1>6, <1>7, <2>1, <2>2
<1> HIDE DEF t, new, timer
<1>9. n \in Meas /\ n.queue = m.queue /\ n.scheduled = t /\ n.triggered = m.triggered /\ n.timer = timer
  BY <1>0, <1>2, <1>3, <1>8 DEF Meas
<1> HIDE DEF n
<1>10. Numbered(t)
  BY <1>0, <1>6, <1>7 DEF Numbered
<1>11. Waits(t)
  <2>1. \A a \in DOMAIN t : /\ t[a].cells # {} /\ t[a].wait <= cfg.ttt
                            /\ cfg.event \in {"A1", "A2"} => t[a].cells \subseteq {serving}
    <3> SUFFICES ASSUME NEW a \in DOMAIN s
                 PROVE  /\ t[a].cells # {} /\ t[a].wait <= cfg.ttt
                        /\ cfg.event \in {"A1", "A2"} => t[a].cells \subseteq {serving}
      BY <1>7
    <3>1. s[a].wait \in Nat /\ s[a].wait <= cfg.ttt
      BY <1>0, <1>4 DEF Waits
    <3>2. t[a].wait <= cfg.ttt
      BY <1>0, <1>6, <3>1
    <3> QED
      BY <1>0, <1>6, <3>2 DEF Waits
  <2>2. \A a, b \in DOMAIN t : a < b => t[a].wait <= t[b].wait
    <3> SUFFICES ASSUME NEW a \in DOMAIN s, NEW b \in DOMAIN s, a < b PROVE t[a].wait <= t[b].wait
      BY <1>7
    <3>1. s[a].wait \in Nat /\ s[b].wait \in Nat /\ s[a].wait <= s[b].wait
      BY <1>0, <1>4 DEF Waits
    <3> QED
      BY <1>6, <3>1
  <2>3. cfg.ttt = 0 => t = <<>>
    <3> SUFFICES ASSUME cfg.ttt = 0 PROVE t = <<>>
      OBVIOUS
    <3>1. s = <<>>
      BY <1>0 DEF Waits
    <3>2. DOMAIN t = {}
      BY <1>7, <3>1
    <3> QED
      BY <1>8, <3>2
  <2> QED
    BY <2>1, <2>2, <2>3 DEF Waits
<1>12. ASSUME NEW k \in Kinds PROVE Matched(m.queue[k], t, k)
  <2> DEFINE q == m.queue[k]
  <2>1. Matched(q, s, k)
    BY DEF Sound, s
  <2> HIDE DEF q
  <2>2. Paired(q, t, k)
    BY <1>6, <1>7, <2>1 DEF Matched, Paired
  <2>3. InOrder(q, t)
    BY <1>6, <1>7, <2>1 DEF Matched, InOrder
  <2> QED
    BY <2>2, <2>3 DEF Matched, q
<1>13. Sound(n)
  BY <1>9, <1>10, <1>11, <1>12 DEF Sound
<1>14. Fits(n)
  BY <1>2, <1>9 DEF Fits
<1> QED
  BY <1>1, <1>9, <1>13, <1>14

\* The cells that enter have not triggered, those that leave have, and an event
\* about the serving cell names no other.
LEMMA VerdictParts ==
  ASSUME NEW lv, cfg \in Config, serving \in Cells, Fits(meas)
  PROVE  LET v == Verdict(lv)
         IN  /\ v.enter \subseteq Cells /\ v.enter \intersect meas.triggered = {}
             /\ v.leave \subseteq meas.triggered
             /\ cfg.event \in {"A1", "A2"} => v.enter \subseteq {serving}
<1>1. Neighbours \subseteq Cells
  BY DEF Neighbours
<1>2. CASE cfg.event \in {"A1", "A2"}
  <2>1. Verdict(lv) = ServingVerdict(lv)
    BY <1>2 DEF Verdict
  <2> QED
    BY <1>2, <2>1 DEF ServingVerdict, HasTriggered, Fits
<1>3. CASE cfg.event \in {"A3", "A4"}
  <2>1. Verdict(lv) = NeighbourVerdict(lv) /\ cfg.event \notin {"A1", "A2"}
    BY <1>3 DEF Verdict
  <2> QED
    BY <1>1, <2>1 DEF NeighbourVerdict, HasTriggered
<1>4. CASE cfg.event = "A5"
  <2>1. Verdict(lv) = BothVerdict(lv) /\ cfg.event \notin {"A1", "A2"}
    BY <1>4 DEF Verdict
  <2> QED
    BY <1>1, <2>1 DEF BothVerdict, HasTriggered
<1> QED
  BY <1>2, <1>3, <1>4 DEF Config, Events

\* A trigger that waits fits the entry as the cells it is for do.
LEMMA WaitingFits ==
  ASSUME NEW m, Sound(m), Fits(m), cfg \in Config, cfg.ttt # 0, NEW kind \in Kinds,
         NEW cells \in SUBSET Cells, cells # {},
         cfg.event \in {"A1", "A2"} => cells \subseteq {serving},
         kind = "enter" => cells \intersect m.triggered = {},
         kind = "leave" => cells \subseteq m.triggered
  PROVE  /\ Sound(Waiting(m, kind, cells)) /\ Fits(Waiting(m, kind, cells))
         /\ Waiting(m, kind, cells).triggered = m.triggered
<1> DEFINE n == Waiting(m, kind, cells)
<1>1. /\ Sound(n) /\ n.triggered = m.triggered /\ n.timer = m.timer
      /\ \A k \in Kinds : \A i \in DOMAIN n.queue[k] :
           \/ k = kind /\ n.queue[k][i].cells = cells
           \/ \E j \in DOMAIN m.queue[k] : n.queue[k][i].cells = m.queue[k][j].cells
  BY WaitingSound
<1> HIDE DEF n
<1>2. \A i \in DOMAIN n.queue["enter"] : n.queue["enter"][i].cells \intersect n.triggered = {}
  BY <1>1 DEF Fits, Kinds
<1>3. \A i \in DOMAIN n.queue["leave"] : n.queue["leave"][i].cells \subseteq n.triggered
  BY <1>1 DEF Fits, Kinds
<1>4. Fits(n)
  BY <1>1, <1>2, <1>3 DEF Fits
<1> QED
  BY <1>1, <1>4 DEF n

\* Without a time-to-trigger no record waits.
LEMMA NothingWaits ==
  ASSUME NEW m, Sound(m), cfg.ttt = 0, NEW kind \in Kinds
  PROVE  Callable(m, kind)
<1>1. m.scheduled = <<>> /\ m.queue[kind] \in Seq(Trigger) /\ Paired(m.queue[kind], m.scheduled, kind)
  BY DEF Sound, Waits, Meas, Kinds, Matched
<1>2. DOMAIN m.queue[kind] = {}
  BY <1>1 DEF Paired
<1>3. m.queue[kind] = <<>>
  <2> DEFINE q == m.queue[kind]
  <2>1. q \in Seq(Trigger) /\ DOMAIN q = {}
    BY <1>1, <1>2
  <2>2. q = <<>>
    <3> HIDE DEF q
    <3>1. q # <<>> => 1 \in DOMAIN q
      BY <2>1
    <3> QED
      BY <2>1, <3>1
  <2> QED
    BY <2>2
<1> QED
  BY <1>3 DEF Callable, Sound

\* A measurement keeps records, events and entry in step.
LEMMA TriggeringGood ==
  ASSUME NEW m, Sound(m), Fits(m), m.triggered = meas.triggered, Fits(meas), NEW lv,
         NEW wait \in Nat, cfg \in Config, serving \in Cells
  PROVE  Sound(Triggering(m, lv, wait)) /\ Fits(Triggering(m, lv, wait))
<1> DEFINE v       == Verdict(lv)
           stopped == IF cfg.ttt = 0 THEN m
                      ELSE Cancel(Cancel(m, "enter", v.stopEnter), "leave", v.stopLeave)
           entered == IF v.enter = {} THEN stopped
                      ELSE IF cfg.ttt = 0 THEN VarMeasReportListAdd(stopped, v.enter)
                      ELSE Waiting(stopped, "enter", v.enter)
           n       == IF v.leave = {} THEN entered
                      ELSE IF cfg.ttt = 0 THEN VarMeasReportListErase(entered, v.leave, wait)
                      ELSE Waiting(entered, "leave", v.leave)
<1>0. Triggering(m, lv, wait) = n
  BY DEF Triggering
<1>1. /\ v.enter \subseteq Cells /\ v.enter \intersect m.triggered = {}
      /\ v.leave \subseteq m.triggered
      /\ cfg.event \in {"A1", "A2"} => v.enter \subseteq {serving}
  BY VerdictParts
<1>2. m.triggered \subseteq Cells /\ (cfg.event \in {"A1", "A2"} => m.triggered \subseteq {serving})
  BY DEF Sound, Meas, Fits
<1> HIDE DEF v
<1>3. Sound(stopped) /\ Fits(stopped) /\ stopped.triggered = m.triggered
  <2>1. CASE cfg.ttt = 0
    BY <2>1
  <2>2. CASE cfg.ttt # 0
    <3> DEFINE d == Cancel(m, "enter", v.stopEnter)
               e == Cancel(d, "leave", v.stopLeave)
    <3>1. Sound(d) /\ Pruned(m, d)
      BY CancelSound DEF Kinds
    <3>2. Fits(d)
      BY <3>1, PrunedFits
    <3> HIDE DEF d
    <3>3. Sound(e) /\ Pruned(d, e)
      BY <3>1, CancelSound DEF Kinds
    <3>4. Fits(e)
      BY <3>2, <3>3, PrunedFits
    <3>5. e.triggered = m.triggered
      BY <3>1, <3>3 DEF Pruned
    <3>6. stopped = e
      BY <2>2 DEF d
    <3> QED
      BY <3>3, <3>4, <3>5, <3>6
  <2> QED
    BY <2>1, <2>2
<1> HIDE DEF stopped
<1>4. Sound(entered) /\ Fits(entered) /\ m.triggered \subseteq entered.triggered
  <2>1. CASE v.enter = {}
    BY <1>3, <2>1
  <2>2. CASE v.enter # {} /\ cfg.ttt = 0
    <3>1. Callable(stopped, "enter")
      BY <1>3, <2>2, NothingWaits DEF Kinds
    <3> QED
      BY <1>1, <1>3, <2>2, <3>1, AddGood
  <2>3. CASE v.enter # {} /\ cfg.ttt # 0
    <3>1. v.enter \intersect stopped.triggered = {}
      BY <1>1, <1>3
    <3>2. /\ Sound(Waiting(stopped, "enter", v.enter)) /\ Fits(Waiting(stopped, "enter", v.enter))
          /\ Waiting(stopped, "enter", v.enter).triggered = stopped.triggered
      BY <1>1, <1>3, <2>3, <3>1, WaitingFits DEF Kinds
    <3> QED
      BY <1>3, <2>3, <3>2
  <2> QED
    BY <2>1, <2>2, <2>3
<1> HIDE DEF entered
<1>5. v.leave \subseteq entered.triggered /\ v.leave \subseteq Cells
      /\ (cfg.event \in {"A1", "A2"} => v.leave \subseteq {serving})
  BY <1>1, <1>2, <1>4
<1>6. CASE v.leave = {}
  BY <1>0, <1>4, <1>6
<1>7. CASE v.leave # {} /\ cfg.ttt = 0
  <2>1. Callable(entered, "leave")
    BY <1>4, <1>7, NothingWaits DEF Kinds
  <2> QED
    BY <1>0, <1>4, <1>7, <2>1, EraseGood
<1>8. CASE v.leave # {} /\ cfg.ttt # 0
  <2>1. /\ Sound(Waiting(entered, "leave", v.leave)) /\ Fits(Waiting(entered, "leave", v.leave))
    BY <1>4, <1>5, <1>8, WaitingFits DEF Kinds
  <2> QED
    BY <1>0, <1>8, <2>1
<1> QED
  BY <1>6, <1>7, <1>8

-----------------------------------------------------------------------------
(* The actions.                                                            *)

\* A good state of the same configuration and serving cell keeps the invariant.
LEMMA GoodNext ==
  ASSUME NEW n, Sound(n), Fits(n), meas' = n, cfg' = cfg, serving' = serving
  PROVE  Sound(meas)' /\ Fits(meas)'
BY DEF Sound, Fits, Waits

\* What clearing and the initial state have in common.
Cleared(m) ==
  /\ m \in Meas /\ m.triggered = {} /\ m.timer = NotRunning /\ m.scheduled = <<>>
  /\ m.queue["enter"] = <<>> /\ m.queue["leave"] = <<>>

\* Clearing leaves what the initial state has, but for the reports without a handle.
LEMMA ClearCleared ==
  ASSUME NEW m \in Meas PROVE Cleared(VarMeasReportListClear(m)) /\ Cleared(Meas0)
<1>1. /\ m.orphans \in Seq(Nat) /\ <<>> \in Seq(Nat) /\ <<>> \in Seq(Event)
      /\ <<>> \in Seq(Trigger) /\ {} \in SUBSET Cells
  BY DEF Meas
<1>2. Cleared(Meas0)
  BY <1>1 DEF Meas0, Cleared, Meas, NotRunning
<1> DEFINE n == [Meas0 EXCEPT !.orphans = m.orphans]
<1>3. Cleared(n)
  BY <1>1 DEF Meas0, Cleared, Meas, NotRunning
<1> QED
  BY <1>2, <1>3 DEF VarMeasReportListClear

\* Where nothing waits and nothing has triggered, everything is in step: in the first
\* state, and after a step, whatever configuration and serving cell it brings.
LEMMA ClearedInit == ASSUME Cleared(meas) PROVE Sound(meas) /\ Fits(meas)
<1>1. /\ meas \in Meas /\ meas.triggered = {} /\ meas.timer = NotRunning
      /\ DOMAIN meas.scheduled = {} /\ meas.scheduled = <<>>
      /\ \A k \in Kinds : DOMAIN meas.queue[k] = {}
  BY DEF Cleared, Kinds
<1>2. Fits(meas)
  BY <1>1 DEF Fits, Kinds
<1>3. Numbered(meas.scheduled) /\ Waits(meas.scheduled)
  BY <1>1 DEF Numbered, Waits
<1>4. ASSUME NEW k \in Kinds PROVE Matched(meas.queue[k], meas.scheduled, k)
  BY <1>1 DEF Matched, Paired, InOrder
<1> QED
  BY <1>1, <1>2, <1>3, <1>4 DEF Sound

\* The same of the state after a step.
LEMMA ClearedNext == ASSUME Cleared(meas)' PROVE Sound(meas)' /\ Fits(meas)'
<1>1. /\ meas' \in Meas /\ meas'.triggered = {} /\ meas'.timer = NotRunning
      /\ DOMAIN meas'.scheduled = {} /\ meas'.scheduled = <<>>
      /\ \A k \in Kinds : DOMAIN meas'.queue[k] = {}
  BY DEF Cleared, Kinds
<1>2. Fits(meas)'
  BY <1>1 DEF Fits, Kinds
<1>3. Numbered(meas'.scheduled) /\ Waits(meas.scheduled)'
  BY <1>1 DEF Numbered, Waits
<1>4. ASSUME NEW k \in Kinds PROVE Matched(meas'.queue[k], meas'.scheduled, k)
  BY <1>1 DEF Matched, Paired, InOrder
<1> QED
  BY <1>1, <1>2, <1>3, <1>4 DEF Sound

\* The parts of the shape that no measurement touches, once the entry has its own.
LEMMA InvParts ==
  ASSUME MeasInv
  PROVE  /\ cfg \in Config /\ cfg \in Configs /\ serving \in Cells /\ joining \in BOOLEAN
         /\ configs \in 0..MaxConfigs /\ level \in [Cells -> Levels]
         /\ meas \in Meas /\ Sound(meas) /\ Fits(meas)
         /\ \A w \in Intervals : w \in Nat
<1>1. cfg \in Config
  BY MeasAssumption DEF MeasInv, MeasTypeOK
<1>2. \A w \in Intervals : w \in Nat
  BY <1>1 DEF Config, Intervals
<1> QED
  BY <1>1, <1>2 DEF MeasInv, MeasTypeOK

\* A measurement: nothing is due when it begins.
LEMMA ReportKeeps ==
  ASSUME MeasInv, DoReportUeMeasurements PROVE MeasInv'
<1>1. PICK wait \in Intervals : meas' = Triggering(Aged(meas), level', wait)
  BY DEF DoReportUeMeasurements
<1>2. Quiet(meas)
  BY DEF DoReportUeMeasurements, TriggerDue, ReportDue, Quiet
<1>3. Sound(Aged(meas)) /\ Fits(Aged(meas)) /\ Aged(meas).triggered = meas.triggered
  BY <1>2, InvParts, AgedGood
<1> DEFINE n == Triggering(Aged(meas), level', wait)
<1>4. Sound(n) /\ Fits(n)
  BY <1>3, InvParts, TriggeringGood
<1> HIDE DEF n
<1>5. cfg' = cfg /\ serving' = serving /\ joining' = joining /\ configs' = configs
  BY DEF DoReportUeMeasurements
<1>6. level' \in [Cells -> Levels]
  BY DEF DoReportUeMeasurements, Measurements
<1>7. meas' \in Meas /\ Sound(meas)' /\ Fits(meas)'
  BY <1>1, <1>4, <1>5, GoodNext DEF n, Sound
<1> QED
  BY <1>5, <1>6, <1>7, InvParts DEF MeasInv, MeasTypeOK

\* The end of a time-to-trigger: the event of the first record of its kind.
LEMMA ExpireKeeps ==
  ASSUME MeasInv, ExpireTrigger PROVE MeasInv'
<1> DEFINE e == Head(meas.scheduled)
           m == [meas EXCEPT !.scheduled = Tail(@)]
<1>1. meas.scheduled # <<>> /\ meas.scheduled \in Seq(Event) /\ meas \in Meas
  BY InvParts DEF ExpireTrigger, TriggerDue, Meas
<1>2. e \in Event /\ Callable(m, e.kind)
  BY <1>1, InvParts, PoppedCallable
<1>3. /\ e.cells # {} /\ e.cells \in SUBSET Cells
      /\ cfg.event \in {"A1", "A2"} => e.cells \subseteq {serving}
  <2>1. 1 \in DOMAIN meas.scheduled /\ e = meas.scheduled[1]
    BY <1>1, TailEmbeds
  <2>2. Waits(meas.scheduled)
    BY InvParts DEF Sound
  <2> QED
    BY <1>2, <2>1, <2>2 DEF Waits, Event
<1>4. Fits(m)
  <2>1. m.triggered = meas.triggered /\ m.timer = meas.timer /\ m.queue = meas.queue
    BY <1>1 DEF Meas
  <2> QED
    BY <2>1, InvParts DEF Fits
<1>5. \/ e.kind = "enter" /\ meas' = VarMeasReportListAdd(m, e.cells)
      \/ /\ e.kind = "leave"
         /\ \E wait \in Intervals : meas' = VarMeasReportListErase(m, e.cells, wait)
  BY DEF ExpireTrigger
<1> HIDE DEF e, m
<1>6. cfg' = cfg /\ serving' = serving /\ joining' = joining /\ configs' = configs /\ level' = level
  BY DEF ExpireTrigger
<1>7. meas' \in Meas /\ Sound(meas)' /\ Fits(meas)'
  <2>1. CASE e.kind = "enter"
    <3> DEFINE n == VarMeasReportListAdd(m, e.cells)
    <3>1. Sound(n) /\ Fits(n)
      BY <1>2, <1>3, <1>4, <2>1, AddGood
    <3>2. meas' = n
      BY <1>5, <2>1
    <3> HIDE DEF n
    <3> QED
      BY <1>6, <3>1, <3>2, GoodNext DEF Sound
  <2>2. CASE e.kind = "leave"
    <3>1. PICK wait \in Intervals : meas' = VarMeasReportListErase(m, e.cells, wait)
      BY <1>5, <2>2
    <3> DEFINE n == VarMeasReportListErase(m, e.cells, wait)
    <3>2. Sound(n) /\ Fits(n)
      BY <1>2, <1>4, <2>2, InvParts, EraseGood
    <3> HIDE DEF n
    <3> QED
      BY <1>6, <3>1, <3>2, GoodNext DEF Sound, n
  <2> QED
    BY <1>2, <2>1, <2>2 DEF Event
<1> QED
  BY <1>6, <1>7, InvParts DEF MeasInv, MeasTypeOK

\* Reports that are sent leave the records alone.
LEMMA TimedGood ==
  ASSUME NEW m, Sound(m), Fits(m), NEW n \in Meas, n.triggered = m.triggered, n.queue = m.queue,
         n.scheduled = m.scheduled, n.triggered # {} <=> n.timer # NotRunning
  PROVE  Sound(n) /\ Fits(n)
BY SoundFrame DEF Fits

\* A report, whether a handle refers to it or not.
LEMMA SendKeeps ==
  ASSUME MeasInv, SendMeasurementReport PROVE MeasInv'
<1>0. /\ meas \in Meas /\ meas.orphans \in Seq(Nat)
      /\ meas.triggered # {} <=> meas.timer # NotRunning
  BY InvParts DEF Meas, Fits
<1>1. \E wait \in Intervals, d \in Meas :
        /\ meas' = Reported(d, wait)
        /\ d.triggered = meas.triggered /\ d.queue = meas.queue /\ d.scheduled = meas.scheduled
        /\ d.timer \in {meas.timer, NotRunning}
  <2>1. CASE \E wait \in Intervals : meas' = Reported([meas EXCEPT !.timer = NotRunning], wait)
    <3> DEFINE d == [meas EXCEPT !.timer = NotRunning]
    <3>1. /\ d \in Meas /\ d.triggered = meas.triggered /\ d.queue = meas.queue
          /\ d.scheduled = meas.scheduled /\ d.timer = NotRunning
      BY <1>0 DEF Meas
    <3> QED
      BY <2>1, <3>1
  <2>2. CASE \E i \in DOMAIN meas.orphans, wait \in Intervals :
               meas' = Reported([meas EXCEPT !.orphans = RemoveAt(@, i)], wait)
    <3>1. PICK i \in DOMAIN meas.orphans, wait \in Intervals :
                 meas' = Reported([meas EXCEPT !.orphans = RemoveAt(@, i)], wait)
      BY <2>2
    <3> DEFINE o == RemoveAt(meas.orphans, i)
               d == [meas EXCEPT !.orphans = o]
    <3>2. o \in Seq(Nat)
      <4> DEFINE s == meas.orphans
      <4>1. s \in Seq(Nat) /\ i \in 1..Len(s) /\ Len(s) \in Nat
        BY <1>0
      <4> HIDE DEF s
      <4>2. SubSeq(s, 1, i - 1) \in Seq(Nat) /\ SubSeq(s, i + 1, Len(s)) \in Seq(Nat)
        BY <4>1
      <4> QED
        BY <4>2 DEF RemoveAt, s
    <3> HIDE DEF o
    <3>3. /\ d \in Meas /\ d.triggered = meas.triggered /\ d.queue = meas.queue
          /\ d.scheduled = meas.scheduled /\ d.timer = meas.timer
      BY <1>0, <3>2 DEF Meas
    <3> QED
      BY <3>1, <3>3 DEF o
  <2> QED
    BY <2>1, <2>2 DEF SendMeasurementReport
<1>2. PICK wait \in Intervals, d \in Meas :
        /\ meas' = Reported(d, wait)
        /\ d.triggered = meas.triggered /\ d.queue = meas.queue /\ d.scheduled = meas.scheduled
        /\ d.timer \in {meas.timer, NotRunning}
  BY <1>1
<1> DEFINE n == Reported(d, wait)
<1>3. /\ n \in Meas /\ n.triggered = meas.triggered /\ n.queue = meas.queue
      /\ n.scheduled = meas.scheduled /\ (n.triggered # {} <=> n.timer # NotRunning)
  <2>1. wait \in Nat
    BY InvParts
  <2>2. CASE meas.triggered = {}
    BY <1>0, <1>2, <2>2 DEF Reported
  <2>3. CASE meas.triggered # {}
    <3>1. n = [d EXCEPT !.timer = wait]
      BY <1>2, <2>3 DEF Reported
    <3>2. n \in Meas /\ n.timer = wait
      BY <2>1, <3>1 DEF Meas
    <3>3. n.triggered = d.triggered /\ n.queue = d.queue /\ n.scheduled = d.scheduled
      BY <3>1 DEF Meas
    <3>4. n.timer # NotRunning
      BY <2>1, <3>2 DEF NotRunning
    <3> HIDE DEF n
    <3> QED
      BY <1>2, <2>3, <3>2, <3>3, <3>4
  <2> QED
    BY <2>2, <2>3
<1> HIDE DEF n
<1>4. Sound(n) /\ Fits(n)
  BY <1>3, InvParts, TimedGood
<1>5. cfg' = cfg /\ serving' = serving /\ joining' = joining /\ configs' = configs /\ level' = level
  BY DEF SendMeasurementReport
<1>6. meas' \in Meas /\ Sound(meas)' /\ Fits(meas)'
  BY <1>2, <1>3, <1>4, <1>5, GoodNext DEF n
<1> QED
  BY <1>5, <1>6, InvParts DEF MeasInv, MeasTypeOK

\* A new configuration, a handover command and the end of the random access find
\* nothing of the reporting left.
LEMMA ClearKeeps ==
  ASSUME MeasInv,
         \/ RecvRrcConnectionReconfiguration \/ NotifyRandomAccessSuccessful
         \/ \E c \in Cells : RecvHandoverCommand(c)
  PROVE  MeasInv'
<1>1. meas' = VarMeasReportListClear(meas)
  BY DEF RecvRrcConnectionReconfiguration, NotifyRandomAccessSuccessful, RecvHandoverCommand
<1>2. Cleared(meas)'
  <2>1. Cleared(VarMeasReportListClear(meas))
    BY InvParts, ClearCleared
  <2> QED
    BY <1>1, <2>1 DEF Cleared
<1>3. meas' \in Meas /\ Sound(meas)' /\ Fits(meas)'
  BY <1>2, ClearedNext DEF Sound
<1>4. /\ cfg' \in Configs /\ serving' \in Cells /\ joining' \in BOOLEAN
      /\ configs' \in 0..MaxConfigs /\ level' \in [Cells -> Levels]
  <2>0. configs \in 0..MaxConfigs /\ MaxConfigs \in Nat
    BY MeasAssumption, InvParts
  <2>1. CASE RecvRrcConnectionReconfiguration
    BY <2>0, <2>1, InvParts DEF RecvRrcConnectionReconfiguration
  <2>2. CASE NotifyRandomAccessSuccessful
    BY <2>2, InvParts DEF NotifyRandomAccessSuccessful
  <2>3. CASE \E c \in Cells : RecvHandoverCommand(c)
    BY <2>0, <2>3 DEF RecvHandoverCommand, Levels
  <2> QED
    BY <2>1, <2>2, <2>3
<1> QED
  BY <1>3, <1>4 DEF MeasInv, MeasTypeOK

-----------------------------------------------------------------------------
(* The theorems.                                                           *)

\* Records, events and the reporting entry stay in step through every measurement,
\* expiry, report, reconfiguration and handover, whatever the configurations are.
THEOREM MeasInvariant == Spec => []MeasInv
<1>1. Init => MeasInv
  <2> SUFFICES ASSUME Init PROVE MeasInv
    OBVIOUS
  <2>1. Meas0 \in Meas
    <3>1. <<>> \in Seq(Nat) /\ <<>> \in Seq(Event) /\ <<>> \in Seq(Trigger)
      OBVIOUS
    <3> QED
      BY <3>1 DEF Meas0, Meas, NotRunning
  <2>2. Cleared(meas)
    BY <2>1, ClearCleared DEF Init
  <2>3. Sound(meas) /\ Fits(meas)
    BY <2>2, ClearedInit
  <2>4. level \in [Cells -> Levels]
    BY DEF Init, Levels
  <2>5. cfg \in Configs /\ serving \in Cells /\ joining \in BOOLEAN /\ configs \in 0..MaxConfigs
    <3>1. joining \in BOOLEAN
      BY Zenon DEF Init
    <3>2. cfg \in Configs /\ serving \in Cells /\ configs \in 0..MaxConfigs
      BY MeasAssumption DEF Init
    <3> QED
      BY <3>1, <3>2
  <2>6. MeasTypeOK
    <3>1. meas \in Meas
      BY <2>2 DEF Cleared
    <3> QED
      BY <2>4, <2>5, <3>1 DEF MeasTypeOK
  <2> QED
    BY <2>3, <2>6 DEF MeasInv
<1>2. MeasInv /\ [Next]_vars => MeasInv'
  <2> SUFFICES ASSUME MeasInv, [Next]_vars PROVE MeasInv'
    OBVIOUS
  <2>1. CASE DoReportUeMeasurements
    BY <2>1, ReportKeeps
  <2>2. CASE ExpireTrigger
    BY <2>2, ExpireKeeps
  <2>3. CASE SendMeasurementReport
    BY <2>3, SendKeeps
  <2>4. CASE \/ RecvRrcConnectionReconfiguration \/ NotifyRandomAccessSuccessful
             \/ \E c \in Cells : RecvHandoverCommand(c)
    BY <2>4, ClearKeeps
  <2>5. CASE UNCHANGED vars
    <3>1. /\ cfg' = cfg /\ serving' = serving /\ joining' = joining /\ level' = level
          /\ meas' = meas /\ configs' = configs
      BY <2>5 DEF vars
    <3>2. Sound(meas)' /\ Fits(meas)'
      BY <3>1, InvParts, GoodNext
    <3> QED
      BY <3>1, <3>2, InvParts DEF MeasInv, MeasTypeOK
  <2> QED
    BY <2>1, <2>2, <2>3, <2>4, <2>5 DEF Next
<1> QED
  BY <1>1, <1>2, PTL DEF Spec

\* The state keeps its shape: no event waits a negative time, and the handle of the
\* report is either idle or counts down to it.
THEOREM MeasTypes == Spec => []MeasTypeOK
<1>1. MeasInv => MeasTypeOK
  BY DEF MeasInv
<1> QED
  BY <1>1, MeasInvariant, PTL

\* The timer of periodic reporting runs exactly as long as there is a reporting entry
\* (VarMeasReportListAdd, VarMeasReportListErase, SendMeasurementReport).
THEOREM MeasEntryIsTimed == Spec => []EntryIsTimed
<1>1. MeasInv => EntryIsTimed
  BY DEF MeasInv, Fits, EntryIsTimed
<1> QED
  BY <1>1, MeasInvariant, PTL

\* What waits to enter the reporting entry is not in it, what waits to leave it is,
\* and an event about the serving cell has no other cell in it.
THEOREM MeasTriggersMatch == Spec => []TriggersMatchEntry
<1>1. MeasInv => TriggersMatchEntry
  BY DEF MeasInv, Fits, TriggersMatchEntry
<1> QED
  BY <1>1, MeasInvariant, PTL

-----------------------------------------------------------------------------
(* The callers of a queue.                                                 *)

\* An increasing list of positive numbers runs ahead of its indices.
LEMMA Ahead ==
  ASSUME NEW n \in Nat, NEW f, \A i \in 1..n : f[i] \in Nat \ {0},
         \A i, j \in 1..n : i < j => f[i] < f[j], NEW i \in 1..n
  PROVE  i <= f[i]
<1> DEFINE S == {k \in Nat : k \in 1..n => k <= f[k]}
<1>1. 0 \in S
  OBVIOUS
<1>2. ASSUME NEW k \in Nat, k \in S PROVE k + 1 \in S
  <2> SUFFICES ASSUME k + 1 \in 1..n PROVE k + 1 <= f[k + 1]
    OBVIOUS
  <2>1. f[k + 1] \in Nat \ {0}
    OBVIOUS
  <2>2. CASE k = 0
    BY <2>1, <2>2
  <2>3. CASE k # 0
    <3>1. k \in 1..n /\ k < k + 1
      BY <2>3
    <3>2. k <= f[k] /\ f[k] < f[k + 1] /\ f[k] \in Nat
      BY <1>2, <3>1
    <3> QED
      BY <2>1, <3>2
  <2> QED
    BY <2>2, <2>3
<1> HIDE DEF S
<1>3. i \in S
  BY <1>1, <1>2, NatInd
<1> QED
  BY <1>3 DEF S

\* Records and events with the same numbers in the same order go together one by one.
LEMMA OneByOne ==
  ASSUME NEW q \in Seq(Trigger), NEW t \in Seq(Event), InOrder(q, t), Numbered(t),
         \A i \in DOMAIN q : \E a \in DOMAIN t : t[a].id = q[i].id,
         \A a \in DOMAIN t : \E i \in DOMAIN q : t[a].id = q[i].id
  PROVE  Len(t) = Len(q) /\ \A i \in DOMAIN t : t[i].id = q[i].id
<1> DEFINE h == [i \in DOMAIN q |-> CHOOSE a \in DOMAIN t : t[a].id = q[i].id]
           k == [a \in DOMAIN t |-> CHOOSE i \in DOMAIN q : t[a].id = q[i].id]
<1>0. /\ DOMAIN q = 1..Len(q) /\ DOMAIN t = 1..Len(t) /\ Len(q) \in Nat /\ Len(t) \in Nat
      /\ \A x \in DOMAIN q : x \in Nat \ {0}
      /\ \A x \in DOMAIN t : x \in Nat \ {0}
  OBVIOUS
<1>1. \A i \in DOMAIN q : h[i] \in DOMAIN t /\ t[h[i]].id = q[i].id
  OBVIOUS
<1>2. \A a \in DOMAIN t : k[a] \in DOMAIN q /\ t[a].id = q[k[a]].id
  OBVIOUS
<1> HIDE DEF h, k
<1>3. ASSUME NEW i \in DOMAIN q, NEW j \in DOMAIN q, i < j PROVE h[i] < h[j]
  BY <1>1, <1>3 DEF InOrder
<1>4. ASSUME NEW a \in DOMAIN t, NEW b \in DOMAIN t, a < b PROVE k[a] < k[b]
  <2>1. /\ k[a] \in DOMAIN q /\ k[b] \in DOMAIN q
        /\ t[a].id = q[k[a]].id /\ t[b].id = q[k[b]].id
    BY <1>2
  <2>2. a \in Nat /\ b \in Nat /\ k[a] \in Nat /\ k[b] \in Nat
    <3>1. \A x : x \in DOMAIN q \/ x \in DOMAIN t => x \in Nat
      BY <1>0
    <3> QED
      BY <2>1, <3>1, Zenon
  <2>3. ~(b < a) /\ a # b
    <3>1. \A x, y \in Nat : x < y => ~(y < x) /\ x # y
      OBVIOUS
    <3> QED
      BY <1>4, <2>2, <3>1, Zenon
  <2>4. ~(k[b] < k[a])
    BY <2>1, <2>3 DEF InOrder
  <2>5. k[a] # k[b]
    BY <2>1, <2>3 DEF Numbered
  <2>6. \A x, y \in Nat : ~(y < x) /\ x # y => x < y
    OBVIOUS
  <2> QED
    BY <2>2, <2>4, <2>5, <2>6, Zenon
<1>5. \A i \in DOMAIN q : i <= h[i]
  <2>1. \A i \in 1..Len(q) : h[i] \in Nat \ {0}
    BY <1>0, <1>1, Zenon
  <2>2. \A i, j \in 1..Len(q) : i < j => h[i] < h[j]
    BY <1>0, <1>3
  <2> QED
    BY <1>0, <2>1, <2>2, Ahead
<1>6. \A a \in DOMAIN t : a <= k[a]
  <2>1. \A a \in 1..Len(t) : k[a] \in Nat \ {0}
    BY <1>0, <1>2, Zenon
  <2>2. \A a, b \in 1..Len(t) : a < b => k[a] < k[b]
    BY <1>0, <1>4
  <2> QED
    BY <1>0, <2>1, <2>2, Ahead
<1>7. ASSUME NEW i \in DOMAIN q PROVE h[i] = i
  <2>1. /\ h[i] \in DOMAIN t /\ k[h[i]] \in DOMAIN q
        /\ t[h[i]].id = q[i].id /\ q[k[h[i]]].id = q[i].id
    BY <1>1, <1>2
  <2>2. h[i] \in Nat /\ i \in Nat /\ k[h[i]] \in Nat
    <3>1. \A x : x \in DOMAIN q \/ x \in DOMAIN t => x \in Nat
      BY <1>0
    <3> QED
      BY <2>1, <3>1, Zenon
  <2>3. ~(h[i] < h[i])
    BY <2>2
  <2>4. ~(i < k[h[i]]) /\ ~(k[h[i]] < i)
    BY <2>1, <2>3 DEF InOrder
  <2>5. k[h[i]] = i
    BY <2>2, <2>4
  <2>6. i <= h[i] /\ h[i] <= i
    BY <1>5, <1>6, <2>1, <2>5
  <2> QED
    BY <2>2, <2>6
<1>8. \A i \in DOMAIN q : i \in DOMAIN t /\ t[i].id = q[i].id
  BY <1>1, <1>7
<1>9. \A a \in DOMAIN t : a \in DOMAIN q
  <2> SUFFICES ASSUME NEW a \in DOMAIN t PROVE a \in DOMAIN q
    OBVIOUS
  <2>1. k[a] \in DOMAIN q /\ a <= k[a]
    BY <1>2, <1>6
  <2> QED
    BY <1>0, <2>1
<1>10. Len(t) = Len(q)
  <2> DEFINE n == Len(q)
             m == Len(t)
  <2>1. n \in Nat /\ m \in Nat /\ 1..n \subseteq 1..m /\ 1..m \subseteq 1..n
    BY <1>0, <1>8, <1>9, Zenon
  <2> HIDE DEF n, m
  <2>2. \A x, y \in Nat : 1..x \subseteq 1..y => x <= y
    <3> SUFFICES ASSUME NEW x \in Nat, NEW y \in Nat, 1..x \subseteq 1..y PROVE x <= y
      OBVIOUS
    <3>1. x # 0 => x \in 1..x
      OBVIOUS
    <3>2. x # 0 => x \in 1..y
      BY <3>1, Zenon
    <3> QED
      BY <3>2
  <2>3. n <= m /\ m <= n
    BY <2>1, <2>2, Zenon
  <2>4. n = m
    BY <2>1, <2>3
  <2> QED
    BY <2>4 DEF n, m
<1> QED
  BY <1>8, <1>9, <1>10

\* The first record of a queue is the one of the first of its events, and so on for
\* all others: VarMeasReportListAdd and VarMeasReportListErase take the record of the
\* event that calls them.
THEOREM MeasFirstRecord == Spec => []FirstRecordIsCallers
<1>1. MeasInv => FirstRecordIsCallers
  <2> SUFFICES ASSUME MeasInv, NEW kind \in Kinds
               PROVE  LET events == Entries(meas.scheduled,
                                            {i \in DOMAIN meas.scheduled : meas.scheduled[i].kind = kind})
                      IN  /\ Len(events) = Len(meas.queue[kind])
                          /\ \A i \in DOMAIN events : events[i].id = meas.queue[kind][i].id
    BY DEF FirstRecordIsCallers, Kinds
  <2> DEFINE s == meas.scheduled
             q == meas.queue[kind]
             P == {i \in DOMAIN s : s[i].kind = kind}
             t == Entries(s, P)
  <2>1. s \in Seq(Event) /\ q \in Seq(Trigger) /\ Matched(q, s, kind) /\ Numbered(s)
    BY InvParts DEF Sound, Meas, Kinds
  <2> HIDE DEF s, q
  <2>2. P \subseteq DOMAIN s /\ \A a \in P : s[a].kind = kind
    OBVIOUS
  <2>3. \A a \in DOMAIN s : s[a].kind = kind => a \in P
    OBVIOUS
  <2> HIDE DEF P
  <2>4. t \in Seq(Event) /\ \E g : Picks(t, s, g, P)
    BY <2>1, <2>2, EntriesPicks
  <2> HIDE DEF t
  <2>5. PICK g : Picks(t, s, g, P)
    BY <2>4
  <2>6. /\ g \in [DOMAIN t -> P] /\ \A p \in P : \E a \in DOMAIN t : g[a] = p
        /\ \A a, b \in DOMAIN t : a < b => g[a] < g[b]
        /\ \A a \in DOMAIN t : t[a] = s[g[a]]
    BY <2>5 DEF Picks
  <2>7. \A a \in DOMAIN t : g[a] \in P /\ g[a] \in DOMAIN s /\ s[g[a]].kind = kind /\ t[a].id = s[g[a]].id
    BY <2>2, <2>6
  <2>8. Embeds(t, s, g)
    <3>1. g \in [DOMAIN t -> DOMAIN s]
      BY <2>2, <2>6
    <3> QED
      BY <2>6, <2>7, <3>1 DEF Embeds
  <2>9. Embeds(q, q, [i \in DOMAIN q |-> i])
    BY DEF Embeds
  <2>10. InOrder(q, t)
    BY <2>1, <2>4, <2>8, <2>9, EmbedsInOrder DEF Matched
  <2>11. Numbered(t)
    <3> SUFFICES ASSUME NEW a \in DOMAIN t, NEW b \in DOMAIN t, t[a].id = t[b].id PROVE a = b
      BY DEF Numbered
    <3>1. g[a] = g[b]
      BY <2>1, <2>7 DEF Numbered
    <3>2. a \in Nat /\ b \in Nat /\ g[a] \in Nat
      BY <2>1, <2>4, <2>7, DomainNat
    <3>3. ~(a < b) /\ ~(b < a)
      BY <2>6, <3>1, <3>2
    <3> QED
      BY <3>2, <3>3
  <2>12. \A i \in DOMAIN q : \E a \in DOMAIN t : t[a].id = q[i].id
    <3> SUFFICES ASSUME NEW i \in DOMAIN q PROVE \E a \in DOMAIN t : t[a].id = q[i].id
      OBVIOUS
    <3>1. PICK b \in DOMAIN s : s[b].kind = kind /\ s[b].id = q[i].id
      BY <2>1 DEF Matched, Paired
    <3>2. PICK a \in DOMAIN t : g[a] = b
      BY <2>3, <2>6, <3>1
    <3> QED
      BY <2>7, <3>1, <3>2
  <2>13. \A a \in DOMAIN t : \E i \in DOMAIN q : t[a].id = q[i].id
    BY SMTT(40), <2>1, <2>7 DEF Matched, Paired
  <2>14. Len(t) = Len(q) /\ \A i \in DOMAIN t : t[i].id = q[i].id
    BY <2>1, <2>4, <2>10, <2>11, <2>12, <2>13, OneByOne
  <2> QED
    BY <2>14 DEF t, P, q, s
<1> QED
  BY <1>1, MeasInvariant, PTL
=============================================================================
