--------------------------- MODULE VmaMoveProofs ----------------------------
(***************************************************************************)
(* Theorems about VmaMove, for every number of tasks, every address space  *)
(* and every number of vm_area_structs.                                    *)
(***************************************************************************)
EXTENDS VmaMove, WellFoundedInduction, TLAPS

-----------------------------------------------------------------------------
(***************************************************************************)
(* Areas and sets of areas.  The page offset start - shift of an area      *)
(* stays one of an area of the address space, wherever it is moved, which  *)
(* is why shift keeps its bounds.                                          *)
(***************************************************************************)
Sane(v) ==
  /\ v \in Vma
  /\ v.start < v.end
  /\ 0 <= v.start - v.shift /\ v.end - v.shift <= Top

Apart(v, w) == v.end <= w.start \/ w.end <= v.start

Inside(v, w) == w.start <= v.start /\ v.end <= w.end

Sound(vs) ==
  /\ vs \in [Struct -> Vma \cup {NULL}]
  /\ \A i \in Live(vs) : Sane(vs[i])
  /\ \A i, j \in Live(vs) : i # j => Apart(vs[i], vs[j])

\* The numbers of an area, and what makes a record an area.
LEMMA SaneNumbers ==
  ASSUME NEW v, Sane(v), MoveAssumption
  PROVE  /\ v.start \in Nat /\ v.end \in Nat /\ v.shift \in Int /\ v.anon \in BOOLEAN
         /\ v.start < v.end /\ v.end <= Top /\ Top \in Nat
         /\ 0 <= v.start - v.shift /\ v.end - v.shift <= Top
         /\ v # NULL
BY DEF Sane, Vma, Addr, MoveAssumption

LEMMA SaneRecord ==
  ASSUME MoveAssumption, NEW s \in Nat, NEW e \in Nat, NEW h \in Int, NEW b \in BOOLEAN,
         s < e, e <= Top, 0 <= s - h, e - h <= Top
  PROVE  Sane([start |-> s, end |-> e, shift |-> h, anon |-> b])
<1>1. s \in Addr /\ e \in 1 .. Top /\ h \in -Top .. Top
  BY DEF Addr, MoveAssumption
<1>. QED
  BY <1>1 DEF Sane, Vma

LEMMA RangeIs ==
  ASSUME NEW v, Sane(v), MoveAssumption
  PROVE  /\ \A a : a \in Range(v) <=> a \in Int /\ v.start <= a /\ a < v.end
         /\ Range(v) \subseteq Addr
<1>1. v.start \in Nat /\ v.end \in Nat /\ v.end <= Top /\ Top \in Nat
  BY SaneNumbers
<1>2. \A a : a \in Range(v) <=> a \in Int /\ v.start <= a /\ a < v.end
  BY <1>1 DEF Range
<1>. QED
  BY <1>1, <1>2 DEF Addr

LEMMA MappedIs ==
  ASSUME NEW vs
  PROVE  \A a : a \in MappedBy(vs) <=> \E i \in Live(vs) : a \in Range(vs[i])
BY DEF MappedBy

LEMMA LiveSane ==
  ASSUME NEW vs, Sound(vs), NEW i \in Live(vs)
  PROVE  i \in Struct /\ vs[i] # NULL /\ Sane(vs[i])
BY DEF Sound, Live

\* What is apart from two stretches that touch is apart from both together.
LEMMA ApartFromBoth ==
  ASSUME NEW s \in Int, NEW e \in Int, NEW a \in Int, NEW b \in Int, NEW c \in Int,
         s < e, a <= b, b <= c, e <= a \/ b <= s, e <= b \/ c <= s
  PROVE  e <= a \/ c <= s
OBVIOUS

LEMMA ApartNotInside ==
  ASSUME NEW v, NEW w, Sane(v), Sane(w), Apart(v, w), MoveAssumption
  PROVE  ~ Inside(v, w)
BY SaneNumbers DEF Apart, Inside

LEMMA ApartSymmetric == ASSUME NEW v, NEW w, Apart(v, w) PROVE Apart(w, v)
BY DEF Apart

\* Two neighbours make one area.
LEMMA JoinedSane ==
  ASSUME MoveAssumption, NEW l, NEW r, Sane(l), Sane(r), Joins(l, r)
  PROVE  /\ Sane(Joined(l, r))
         /\ Inside(l, Joined(l, r)) /\ Inside(r, Joined(l, r))
         /\ Joined(l, r).start = l.start /\ Joined(l, r).end = r.end
         /\ Joined(l, r).shift = l.shift /\ Joined(l, r).anon = (l.anon \/ r.anon)
<1>1. /\ l.start \in Nat /\ l.end \in Nat /\ l.shift \in Int /\ l.anon \in BOOLEAN
      /\ r.start \in Nat /\ r.end \in Nat /\ r.shift \in Int /\ r.anon \in BOOLEAN
      /\ l.start < l.end /\ r.start < r.end /\ r.end <= Top
      /\ 0 <= l.start - l.shift /\ r.end - r.shift <= Top
      /\ l.end = r.start /\ l.shift = r.shift
  BY SaneNumbers DEF Joins
<1>2. (l.anon \/ r.anon) \in BOOLEAN
  BY <1>1
<1>3. l.start < r.end /\ r.end - l.shift <= Top
  BY <1>1
<1>4. Sane(Joined(l, r))
  BY <1>1, <1>2, <1>3, SaneRecord DEF Joined
<1>. QED
  BY <1>1, <1>4 DEF Joined, Inside

LEMMA JoinedApart ==
  ASSUME MoveAssumption, NEW l, NEW r, Sane(l), Sane(r), Joins(l, r),
         NEW u, Sane(u), Apart(u, l), Apart(u, r)
  PROVE  Apart(u, Joined(l, r))
<1>1. /\ l.start \in Nat /\ l.end \in Nat /\ l.start < l.end
      /\ r.start \in Nat /\ r.end \in Nat /\ r.start < r.end /\ l.end = r.start
      /\ u.start \in Nat /\ u.end \in Nat /\ u.start < u.end
  BY SaneNumbers DEF Joins
<1>2. u.end <= l.start \/ r.end <= u.start
  BY <1>1, ApartFromBoth DEF Apart
<1>. QED
  BY <1>2 DEF Apart, Joined

LEMMA NoOverlapApart ==
  ASSUME MoveAssumption, NEW vs, Sound(vs), NEW v, Sane(v), ~ Overlaps(vs, v.start, v.end),
         NEW i \in Live(vs)
  PROVE  Apart(vs[i], v)
<1>1. Sane(vs[i])
  BY LiveSane
<1>. QED
  BY <1>1, SaneNumbers DEF Overlaps, Apart

\* An area that has been written to.
Written(v) == [v EXCEPT !.anon = TRUE]

LEMMA WrittenSane ==
  ASSUME MoveAssumption, NEW v, Sane(v)
  PROVE  Sane(Written(v)) /\ Written(v).start = v.start /\ Written(v).end = v.end
<1>1. /\ v.start \in Nat /\ v.end \in Nat /\ v.shift \in Int /\ v.anon \in BOOLEAN
      /\ v.start < v.end /\ v.end <= Top
      /\ 0 <= v.start - v.shift /\ v.end - v.shift <= Top
      /\ v = [start |-> v.start, end |-> v.end, shift |-> v.shift, anon |-> v.anon]
  BY SaneNumbers DEF Sane, Vma
<1>2. ASSUME NEW b \in BOOLEAN
      PROVE  LET w == [v EXCEPT !.anon = b]
             IN  Sane(w) /\ w.start = v.start /\ w.end = v.end
  <2>. DEFINE r == [start |-> v.start, end |-> v.end, shift |-> v.shift, anon |-> b]
  <2>1. [v EXCEPT !.anon = b] = r
    BY <1>1
  <2>2. Sane(r) /\ r.start = v.start /\ r.end = v.end
    BY <1>1, SaneRecord
  <2>. HIDE DEF r
  <2>. QED
    BY <2>1, <2>2
<1>3. TRUE \in BOOLEAN
  OBVIOUS
<1>. QED
  BY <1>2, <1>3 DEF Written

-----------------------------------------------------------------------------
(***************************************************************************)
(* vma_merge: the area that was added ends up in an area w, which takes    *)
(* the place of all areas inside it.                                       *)
(***************************************************************************)
PlacedAs(vs, v, new, w) ==
  /\ new.structs \in [Struct -> Vma \cup {NULL}]
  /\ new.id \in Struct /\ new.structs[new.id] = w
  /\ new.id \in Live(vs) => Inside(vs[new.id], w)
  /\ \A i \in Struct \ {new.id} :
       new.structs[i] = IF i \in Live(vs) /\ Inside(vs[i], w) THEN NULL ELSE vs[i]
  /\ \A i \in Live(vs) : Inside(vs[i], w) \/ Apart(vs[i], w)
  /\ Sane(w) /\ Inside(v, w)
  /\ w.start = v.start \/ \E l \in Live(vs) : Joins(vs[l], v) /\ vs[l].start = w.start
  /\ w.end = v.end \/ \E r \in Live(vs) : Joins(v, vs[r]) /\ vs[r].end = w.end

\* An area that nothing joins takes a free struct.
LEMMA PlacedFree ==
  ASSUME MoveAssumption, NEW vs, Sound(vs), NEW v, Sane(v), ~ Overlaps(vs, v.start, v.end),
         NEW i \in Struct \ Live(vs)
  PROVE  PlacedAs(vs, v, [structs |-> [vs EXCEPT ![i] = v], id |-> i], v)
<1>. DEFINE ns == [vs EXCEPT ![i] = v]
<1>1. v \in Vma /\ Inside(v, v)
  BY SaneNumbers DEF Sane, Inside
<1>2. \A k \in Live(vs) : Apart(vs[k], v) /\ ~ Inside(vs[k], v)
  BY NoOverlapApart, ApartNotInside, LiveSane
<1>3. ns \in [Struct -> Vma \cup {NULL}] /\ ns[i] = v /\ \A k \in Struct \ {i} : ns[k] = vs[k]
  BY <1>1 DEF Sound
<1>4. \A k \in Struct \ {i} :
        ns[k] = IF k \in Live(vs) /\ Inside(vs[k], v) THEN NULL ELSE vs[k]
  BY <1>2, <1>3
<1>. SUFFICES PlacedAs(vs, v, [structs |-> ns, id |-> i], v)
  OBVIOUS
<1>. HIDE DEF ns
<1>. QED
  BY <1>1, <1>2, <1>3, <1>4 DEF PlacedAs

\* One neighbour is extended.
LEMMA PlacedOne ==
  ASSUME MoveAssumption, NEW vs, Sound(vs), NEW v, Sane(v), ~ Overlaps(vs, v.start, v.end),
         NEW n \in Live(vs), NEW w,
         \/ Joins(vs[n], v) /\ w = Joined(vs[n], v)
         \/ Joins(v, vs[n]) /\ w = Joined(v, vs[n]),
         NEW ns, ns = [i \in Struct |-> ns[i]],
         ns[n] = w, \A k \in Struct \ {n} : ns[k] = vs[k]
  PROVE  PlacedAs(vs, v, [structs |-> ns, id |-> n], w)
<1>1. n \in Struct /\ Sane(vs[n]) /\ Apart(vs[n], v)
  BY LiveSane, NoOverlapApart
<1>2. /\ Sane(w) /\ Inside(v, w) /\ Inside(vs[n], w)
      /\ \/ Joins(vs[n], v) /\ w.start = vs[n].start /\ w.end = v.end
         \/ Joins(v, vs[n]) /\ w.start = v.start /\ w.end = vs[n].end
  BY <1>1, JoinedSane
<1>3. ASSUME NEW k \in Live(vs), k # n PROVE Apart(vs[k], w) /\ ~ Inside(vs[k], w)
  <2>1. Sane(vs[k]) /\ Apart(vs[k], v) /\ Apart(vs[k], vs[n])
    BY <1>3, LiveSane, NoOverlapApart DEF Sound
  <2>2. Apart(vs[k], w)
    BY <1>1, <2>1, JoinedApart
  <2>. QED
    BY <1>2, <2>1, <2>2, ApartNotInside
<1>4. ns \in [Struct -> Vma \cup {NULL}]
  <2>1. \A k \in Struct : ns[k] \in Vma \cup {NULL}
    BY <1>2 DEF Sound, Sane
  <2>. QED
    BY <2>1
<1>5. \A k \in Struct \ {n} :
        ns[k] = IF k \in Live(vs) /\ Inside(vs[k], w) THEN NULL ELSE vs[k]
  BY <1>3
<1>6. \A k \in Live(vs) : Inside(vs[k], w) \/ Apart(vs[k], w)
  BY <1>2, <1>3
<1>. QED
  BY <1>1, <1>2, <1>4, <1>5, <1>6 DEF PlacedAs

\* Both neighbours become one with the area.
LEMMA PlacedTwo ==
  ASSUME MoveAssumption, NEW vs, Sound(vs), NEW v, Sane(v), ~ Overlaps(vs, v.start, v.end),
         NEW b \in Live(vs), Joins(vs[b], v), NEW n \in Live(vs), Joins(v, vs[n]),
         Joins(Joined(vs[b], v), vs[n]),
         NEW w, w = Joined(Joined(vs[b], v), vs[n]),
         NEW ns, ns = [i \in Struct |-> IF i = b THEN w ELSE IF i = n THEN NULL ELSE vs[i]]
  PROVE  PlacedAs(vs, v, [structs |-> ns, id |-> b], w)
<1>. DEFINE half == Joined(vs[b], v)
<1>1. /\ b \in Struct /\ Sane(vs[b]) /\ n \in Struct /\ Sane(vs[n])
  BY LiveSane
<1>2. /\ Sane(half) /\ Inside(v, half) /\ Inside(vs[b], half)
      /\ half.start = vs[b].start /\ half.end = v.end
  BY <1>1, JoinedSane
<1>3. /\ Sane(w) /\ Inside(half, w) /\ Inside(vs[n], w)
      /\ w.start = vs[b].start /\ w.end = vs[n].end
  BY <1>1, <1>2, JoinedSane
<1>4. Inside(v, w) /\ Inside(vs[b], w)
  <2>. HIDE DEF half
  <2>. QED
    BY <1>1, <1>2, <1>3, SaneNumbers DEF Inside
<1>5. ASSUME NEW k \in Live(vs), k # b, k # n PROVE Apart(vs[k], w) /\ ~ Inside(vs[k], w)
  <2>1. Sane(vs[k]) /\ Apart(vs[k], v) /\ Apart(vs[k], vs[n]) /\ Apart(vs[k], vs[b])
    BY <1>5, LiveSane, NoOverlapApart DEF Sound
  <2>2. Apart(vs[k], half)
    BY <1>1, <2>1, JoinedApart
  <2>3. Apart(vs[k], w)
    BY <1>1, <1>2, <2>1, <2>2, JoinedApart
  <2>. QED
    BY <1>3, <2>1, <2>3, ApartNotInside
<1>6. b # n
  BY <1>1, SaneNumbers DEF Joins
<1>7. ns \in [Struct -> Vma \cup {NULL}]
  BY <1>3 DEF Sound, Sane
<1>8. ns[b] = w /\ \A k \in Struct \ {b} :
        ns[k] = IF k \in Live(vs) /\ Inside(vs[k], w) THEN NULL ELSE vs[k]
  BY <1>1, <1>3, <1>5, <1>6
<1>9. \A k \in Live(vs) : Inside(vs[k], w) \/ Apart(vs[k], w)
  BY <1>3, <1>4, <1>5
<1>. QED
  BY <1>1, <1>3, <1>4, <1>7, <1>8, <1>9 DEF PlacedAs

LEMMA Placed ==
  ASSUME MoveAssumption, NEW vs, Sound(vs), NEW v, Sane(v), ~ Overlaps(vs, v.start, v.end),
         NEW new \in Placements(vs, v)
  PROVE  \E w : PlacedAs(vs, v, new, w)
<1>. DEFINE below == {i \in Live(vs) : Joins(vs[i], v)}
            above == {i \in Live(vs) : Joins(v, vs[i])}
<1>0. vs = [i \in Struct |-> vs[i]]
  BY DEF Sound
<1>1. CASE below # {}
  <2>1. PICK b \in below : new =
          LET w == Joined(vs[b], v)
              next == {i \in above : Joins(w, vs[i])}
          IN  [structs |-> [i \in Struct |->
                 IF i = b
                 THEN IF next = {} THEN w ELSE Joined(w, vs[CHOOSE n \in next : TRUE])
                 ELSE IF i \in next THEN NULL ELSE vs[i]],
               id |-> b]
    BY <1>1 DEF Placements
  <2>. DEFINE half == Joined(vs[b], v)
              next == {i \in above : Joins(half, vs[i])}
  <2>2. CASE next = {}
    <3>. DEFINE ns == [i \in Struct |-> IF i = b THEN half ELSE vs[i]]
    <3>1. new = [structs |-> ns, id |-> b]
      BY <2>1, <2>2
    <3>2. ns[b] = half /\ \A k \in Struct \ {b} : ns[k] = vs[k]
      BY DEF Live
    <3>3. ns = [i \in Struct |-> ns[i]]
      OBVIOUS
    <3>4. b \in Live(vs) /\ Joins(vs[b], v)
      OBVIOUS
    <3>. HIDE DEF ns, half
    <3>5. PlacedAs(vs, v, [structs |-> ns, id |-> b], half)
      BY <3>2, <3>3, <3>4, PlacedOne DEF half
    <3>. QED
      BY <3>1, <3>5
  <2>3. CASE next # {}
    <3>. DEFINE n == CHOOSE k \in next : TRUE
                w == Joined(half, vs[n])
                ns == [i \in Struct |-> IF i = b THEN w ELSE IF i = n THEN NULL ELSE vs[i]]
    <3>1. n \in next
      BY <2>3
    <3>2. \A k \in next : k = n
      <4>1. ASSUME NEW k \in next, NEW l \in next, k # l PROVE FALSE
        <5>1. /\ Sane(vs[k]) /\ Sane(vs[l]) /\ Apart(vs[k], vs[l])
              /\ vs[k].start = v.end /\ vs[l].start = v.end
          BY <4>1, LiveSane DEF Sound, Joins
        <5>. QED
          BY <5>1, SaneNumbers DEF Apart
      <4>. QED
        BY <3>1, <4>1
    <3>3. new = [structs |-> [i \in Struct |->
                   IF i = b THEN w ELSE IF i \in next THEN NULL ELSE vs[i]], id |-> b]
      BY <2>1, <2>3
    <3>4. next = {n}
      BY <3>1, <3>2
    <3>5. new = [structs |-> ns, id |-> b]
      <4>. HIDE DEF next, n, w
      <4>. QED
        BY <3>3, <3>4
    <3>6. /\ b \in Live(vs) /\ Joins(vs[b], v) /\ n \in Live(vs) /\ Joins(v, vs[n])
          /\ Joins(half, vs[n])
      BY <3>1
    <3>. HIDE DEF n, next
    <3>7. PlacedAs(vs, v, [structs |-> ns, id |-> b], w)
      BY <3>6, PlacedTwo
    <3>. QED
      BY <3>5, <3>7
  <2>. QED
    BY <2>2, <2>3
<1>2. CASE below = {} /\ above # {}
  <2>1. PICK n \in above : new = [structs |-> [vs EXCEPT ![n] = Joined(v, vs[n])], id |-> n]
    BY <1>2 DEF Placements
  <2>. DEFINE w == Joined(v, vs[n])
              ns == [vs EXCEPT ![n] = w]
  <2>2. ns[n] = w /\ \A k \in Struct \ {n} : ns[k] = vs[k]
    BY <1>0 DEF Live
  <2>3. ns = [i \in Struct |-> ns[i]]
    BY <1>0
  <2>4. n \in Live(vs) /\ Joins(v, vs[n])
    OBVIOUS
  <2>5. new = [structs |-> ns, id |-> n]
    BY <2>1
  <2>. HIDE DEF ns, w
  <2>6. PlacedAs(vs, v, [structs |-> ns, id |-> n], w)
    BY <2>2, <2>3, <2>4, PlacedOne DEF w
  <2>. QED
    BY <2>5, <2>6
<1>3. CASE below = {} /\ above = {}
  <2>1. PICK i \in Struct \ Live(vs) : new = [structs |-> [vs EXCEPT ![i] = v], id |-> i]
    BY <1>3 DEF Placements
  <2>. QED
    BY <2>1, PlacedFree
<1>. QED
  BY <1>1, <1>2, <1>3

\* The structs still describe areas that do not overlap, and exactly the pages
\* of the new area have become mapped.
LEMMA PlacedSound ==
  ASSUME MoveAssumption, NEW vs, Sound(vs), NEW v, Sane(v), NEW new, NEW w,
         PlacedAs(vs, v, new, w)
  PROVE  /\ Sound(new.structs)
         /\ MappedBy(new.structs) = MappedBy(vs) \cup Range(v)
<1>. DEFINE ns == new.structs
            b == new.id
<1>1. /\ ns \in [Struct -> Vma \cup {NULL}] /\ b \in Struct /\ ns[b] = w
      /\ b \in Live(vs) => Inside(vs[b], w)
      /\ \A i \in Struct \ {b} :
           ns[i] = IF i \in Live(vs) /\ Inside(vs[i], w) THEN NULL ELSE vs[i]
      /\ \A i \in Live(vs) : Inside(vs[i], w) \/ Apart(vs[i], w)
      /\ Sane(w) /\ Inside(v, w)
  BY DEF PlacedAs
<1>2. b \in Live(ns)
  BY <1>1, SaneNumbers DEF Live
<1>. HIDE DEF ns, b
<1>3. ASSUME NEW i \in Live(ns), i # b
      PROVE  i \in Live(vs) /\ ns[i] = vs[i] /\ Sane(vs[i]) /\ Apart(vs[i], w)
  <2>1. i \in Live(vs) /\ ns[i] = vs[i] /\ ~ Inside(vs[i], w)
    BY <1>1, <1>3 DEF Live
  <2>. QED
    BY <1>1, <2>1, LiveSane
<1>4. Sound(ns)
  <2>1. \A i \in Live(ns) : Sane(ns[i])
    BY <1>1, <1>3
  <2>2. ASSUME NEW i \in Live(ns), NEW j \in Live(ns), i # j PROVE Apart(ns[i], ns[j])
    <3>1. CASE i = b
      BY <1>1, <1>3, <2>2, <3>1, ApartSymmetric
    <3>2. CASE j = b
      BY <1>1, <1>3, <2>2, <3>2
    <3>3. CASE i # b /\ j # b
      BY <1>3, <2>2, <3>3 DEF Sound
    <3>. QED
      BY <3>1, <3>2, <3>3
  <2>. QED
    BY <1>1, <2>1, <2>2 DEF Sound
<1>5. ASSUME NEW a PROVE a \in MappedBy(ns) <=> a \in MappedBy(vs) \/ a \in Range(v)
  <2>1. ASSUME a \in MappedBy(ns) PROVE a \in MappedBy(vs) \/ a \in Range(v)
    <3>1. PICK i \in Live(ns) : a \in Range(ns[i])
      BY <2>1, MappedIs
    <3>2. CASE i # b
      BY <1>3, <3>1, <3>2, MappedIs
    <3>3. CASE i = b
      <4>1. a \in Int /\ w.start <= a /\ a < w.end
        BY <1>1, <3>1, <3>3, RangeIs
      <4>2. CASE v.start <= a /\ a < v.end
        BY <4>1, <4>2, RangeIs
      <4>3. CASE a < v.start
        <5>1. PICK l \in Live(vs) : Joins(vs[l], v) /\ vs[l].start = w.start
          BY <1>1, <4>1, <4>3, SaneNumbers DEF PlacedAs
        <5>2. vs[l].start <= a /\ a < vs[l].end
          BY <4>1, <4>3, <5>1 DEF Joins
        <5>. QED
          BY <4>1, <5>2, LiveSane, RangeIs, MappedIs
      <4>4. CASE v.end <= a
        <5>1. PICK r \in Live(vs) : Joins(v, vs[r]) /\ vs[r].end = w.end
          BY <1>1, <4>1, <4>4, SaneNumbers DEF PlacedAs
        <5>2. vs[r].start <= a /\ a < vs[r].end
          BY <4>1, <4>4, <5>1 DEF Joins
        <5>. QED
          BY <4>1, <5>2, LiveSane, RangeIs, MappedIs
      <4>5. v.start \in Nat /\ v.end \in Nat
        BY SaneNumbers
      <4>. QED
        BY <4>1, <4>2, <4>3, <4>4, <4>5
    <3>. QED
      BY <3>2, <3>3
  <2>2. ASSUME a \in Range(v) PROVE a \in MappedBy(ns)
    <3>1. a \in Range(w)
      BY <1>1, <2>2, RangeIs, SaneNumbers DEF Inside
    <3>. QED
      BY <1>1, <1>2, <3>1, MappedIs
  <2>3. ASSUME a \in MappedBy(vs) PROVE a \in MappedBy(ns)
    <3>1. PICK i \in Live(vs) : a \in Range(vs[i])
      BY <2>3, MappedIs
    <3>2. CASE Inside(vs[i], w)
      <4>1. a \in Range(w)
        BY <1>1, <3>1, <3>2, LiveSane, RangeIs, SaneNumbers DEF Inside
      <4>. QED
        BY <1>1, <1>2, <4>1, MappedIs
    <3>3. CASE ~ Inside(vs[i], w)
      <4>1. i # b /\ ns[i] = vs[i] /\ i \in Live(ns)
        BY <1>1, <3>3 DEF Live
      <4>. QED
        BY <3>1, <4>1, MappedIs
    <3>. QED
      BY <3>2, <3>3
  <2>. QED
    BY <2>1, <2>2, <2>3
<1>. QED
  BY <1>4, <1>5 DEF ns

-----------------------------------------------------------------------------
(***************************************************************************)
(* do_munmap.                                                              *)
(***************************************************************************)
\* Nothing of an area reaches beyond both ends of what is cut out of it.
Splits(v, s, e) == v.start < s /\ e < v.end

LEMMA CutIs ==
  ASSUME MoveAssumption, NEW v, Sane(v), NEW s \in Int, NEW e \in Int, s < e
  PROVE  /\ Cut(v, s, e) # NULL =>
              /\ Sane(Cut(v, s, e)) /\ Inside(Cut(v, s, e), v)
              /\ Cut(v, s, e).anon = v.anon
         /\ ~ Splits(v, s, e) =>
              \A a : Cut(v, s, e) # NULL /\ a \in Range(Cut(v, s, e))
                       <=> a \in Range(v) /\ ~ (s <= a /\ a < e)
         /\ Splits(v, s, e) =>
              /\ Cut(v, s, e) = [v EXCEPT !.end = s] /\ Cut(v, s, e) # NULL
              /\ Sane([v EXCEPT !.start = e])
<1>1. /\ v.start \in Nat /\ v.end \in Nat /\ v.shift \in Int /\ v.anon \in BOOLEAN
      /\ v.start < v.end /\ v.end <= Top /\ v # NULL
      /\ 0 <= v.start - v.shift /\ v.end - v.shift <= Top
      /\ v = [start |-> v.start, end |-> v.end, shift |-> v.shift, anon |-> v.anon]
  BY SaneNumbers DEF Sane, Vma
<1>. DEFINE low  == [start |-> v.start, end |-> s, shift |-> v.shift, anon |-> v.anon]
            high == [start |-> e, end |-> v.end, shift |-> v.shift, anon |-> v.anon]
<1>2. [v EXCEPT !.end = s] = low /\ [v EXCEPT !.start = e] = high
  BY <1>1
<1>3. v.start < s /\ s < v.end => Sane(low) /\ Inside(low, v)
  <2>. SUFFICES ASSUME v.start < s, s < v.end PROVE Sane(low) /\ Inside(low, v)
    OBVIOUS
  <2>1. s \in Nat /\ s <= Top /\ s - v.shift <= Top
    BY <1>1
  <2>2. Sane(low)
    BY <1>1, <2>1, SaneRecord
  <2>. QED
    BY <1>1, <2>2 DEF Inside
<1>4. v.start < e /\ e < v.end => Sane(high) /\ Inside(high, v)
  <2>. SUFFICES ASSUME v.start < e, e < v.end PROVE Sane(high) /\ Inside(high, v)
    OBVIOUS
  <2>1. e \in Nat /\ 0 <= e - v.shift
    BY <1>1
  <2>2. Sane(high)
    BY <1>1, <2>1, SaneRecord
  <2>. QED
    BY <1>1, <2>2 DEF Inside
<1>5. low.start = v.start /\ low.end = s /\ low.anon = v.anon
      /\ high.start = e /\ high.end = v.end /\ high.anon = v.anon
  OBVIOUS
<1>. HIDE DEF low, high
<1>6. Splits(v, s, e) => Cut(v, s, e) = low /\ low # NULL /\ Sane(high)
  BY <1>1, <1>2, <1>3, <1>4, SaneNumbers DEF Splits, Cut
<1>7. CASE v.end <= s \/ e <= v.start
  <2>1. Cut(v, s, e) = v /\ ~ Splits(v, s, e)
    BY <1>1, <1>7 DEF Cut, Splits
  <2>2. \A a : a \in Range(v) => ~ (s <= a /\ a < e)
    BY <1>1, <1>7, RangeIs
  <2>. QED
    BY <1>1, <2>1, <2>2 DEF Inside
<1>8. CASE ~ (v.end <= s \/ e <= v.start) /\ v.start < s
  <2>1. Cut(v, s, e) = low /\ Sane(low) /\ Inside(low, v)
    BY <1>1, <1>2, <1>3, <1>8 DEF Cut
  <2>2. ~ Splits(v, s, e) => v.end <= e
    BY <1>1, <1>8 DEF Splits
  <2>3. \A a : a \in Range(low) <=> a \in Int /\ v.start <= a /\ a < s
    BY <1>5, <2>1, RangeIs
  <2>4. \A a : a \in Range(v) <=> a \in Int /\ v.start <= a /\ a < v.end
    BY RangeIs
  <2>5. low # NULL
    BY <2>1, SaneNumbers
  <2>6. ~ Splits(v, s, e) => \A a : a \in Range(low) <=> a \in Range(v) /\ ~ (s <= a /\ a < e)
    BY <1>1, <1>8, <2>2, <2>3, <2>4
  <2>. QED
    BY <1>2, <1>5, <1>6, <2>1, <2>5, <2>6
<1>9. CASE ~ (v.end <= s \/ e <= v.start) /\ ~ (v.start < s) /\ e < v.end
  <2>1. Cut(v, s, e) = high /\ Sane(high) /\ Inside(high, v) /\ ~ Splits(v, s, e)
    BY <1>1, <1>2, <1>4, <1>9 DEF Cut, Splits
  <2>2. \A a : a \in Range(high) <=> a \in Int /\ e <= a /\ a < v.end
    BY <1>5, <2>1, RangeIs
  <2>3. \A a : a \in Range(v) <=> a \in Int /\ v.start <= a /\ a < v.end
    BY RangeIs
  <2>4. high # NULL
    BY <2>1, SaneNumbers
  <2>5. \A a : a \in Range(high) <=> a \in Range(v) /\ ~ (s <= a /\ a < e)
    BY <1>1, <1>9, <2>2, <2>3
  <2>. QED
    BY <1>5, <2>1, <2>4, <2>5
<1>10. CASE ~ (v.end <= s \/ e <= v.start) /\ ~ (v.start < s) /\ ~ (e < v.end)
  <2>1. Cut(v, s, e) = NULL /\ ~ Splits(v, s, e)
    BY <1>1, <1>10 DEF Cut, Splits
  <2>2. \A a : a \in Range(v) => s <= a /\ a < e
    BY <1>1, <1>10, RangeIs
  <2>. QED
    BY <2>1, <2>2
<1>. QED
  BY <1>7, <1>8, <1>9, <1>10

LEMMA CutSound ==
  ASSUME MoveAssumption, NEW vs, Sound(vs), NEW s \in Int, NEW e \in Int, s < e
  PROVE  /\ Sound(do_munmap(vs, s, e))
         /\ \A i \in Live(do_munmap(vs, s, e)) :
              i \in Live(vs) /\ do_munmap(vs, s, e)[i] = Cut(vs[i], s, e)
         /\ (\A i \in Live(vs) : ~ Splits(vs[i], s, e)) =>
              MappedBy(do_munmap(vs, s, e)) = MappedBy(vs) \ (s .. e - 1)
<1>. DEFINE ns == do_munmap(vs, s, e)
<1>1. ns = [i \in Struct |-> IF vs[i] = NULL THEN NULL ELSE Cut(vs[i], s, e)]
  BY DEF do_munmap
<1>. HIDE DEF ns
<1>2. ASSUME NEW i \in Live(ns)
      PROVE  i \in Live(vs) /\ ns[i] = Cut(vs[i], s, e) /\ ns[i] # NULL
  BY <1>1 DEF Live
<1>3. ASSUME NEW i \in Live(ns) PROVE Sane(ns[i]) /\ Inside(ns[i], vs[i])
  <2>1. Sane(vs[i]) /\ ns[i] = Cut(vs[i], s, e) /\ Cut(vs[i], s, e) # NULL
    BY <1>2, LiveSane
  <2>2. Sane(Cut(vs[i], s, e)) /\ Inside(Cut(vs[i], s, e), vs[i])
    BY <2>1, CutIs
  <2>. QED
    BY <2>1, <2>2
<1>4. Sound(ns)
  <2>1. \A i \in Struct : ns[i] \in Vma \cup {NULL}
    BY <1>3 DEF Live, Sane
  <2>2. ASSUME NEW i \in Live(ns), NEW j \in Live(ns), i # j PROVE Apart(ns[i], ns[j])
    <3>1. Apart(vs[i], vs[j]) /\ Sane(vs[i]) /\ Sane(vs[j])
      BY <1>2, <2>2, LiveSane DEF Sound
    <3>2. Sane(ns[i]) /\ Sane(ns[j]) /\ Inside(ns[i], vs[i]) /\ Inside(ns[j], vs[j])
      BY <1>3
    <3>. QED
      BY <3>1, <3>2, SaneNumbers DEF Apart, Inside
  <2>. QED
    BY <1>1, <1>3, <2>1, <2>2 DEF Sound
<1>5. ASSUME \A i \in Live(vs) : ~ Splits(vs[i], s, e)
      PROVE  MappedBy(ns) = MappedBy(vs) \ (s .. e - 1)
  <2>1. ASSUME NEW a, a \in MappedBy(ns) PROVE a \in MappedBy(vs) \ (s .. e - 1)
    <3>1. PICK i \in Live(ns) : a \in Range(ns[i])
      BY <2>1, MappedIs
    <3>2. i \in Live(vs) /\ Sane(vs[i]) /\ a \in Range(vs[i]) /\ ~ (s <= a /\ a < e)
      BY <1>2, <1>5, <3>1, CutIs, LiveSane
    <3>. QED
      BY <3>2, MappedIs
  <2>2. ASSUME NEW a, a \in MappedBy(vs) \ (s .. e - 1) PROVE a \in MappedBy(ns)
    <3>1. PICK i \in Live(vs) : a \in Range(vs[i])
      BY <2>2, MappedIs
    <3>2. a \in Int /\ ~ (s <= a /\ a < e) /\ Sane(vs[i])
      BY <2>2, <3>1, LiveSane, RangeIs
    <3>3. Cut(vs[i], s, e) # NULL /\ a \in Range(Cut(vs[i], s, e))
      BY <1>5, <3>1, <3>2, CutIs
    <3>4. i \in Live(ns) /\ ns[i] = Cut(vs[i], s, e)
      BY <1>1, <3>3 DEF Live
    <3>. QED
      BY <3>3, <3>4, MappedIs
  <2>. QED
    BY <2>1, <2>2
<1>. QED
  BY <1>2, <1>4, <1>5 DEF ns

\* The area that is cut in two takes a second struct.
InTwo(vs, s, e, i, j) == [do_munmap(vs, s, e) EXCEPT ![j] = [vs[i] EXCEPT !.start = e]]

LEMMA SplitSound ==
  ASSUME MoveAssumption, NEW vs, Sound(vs), NEW s \in Int, NEW e \in Int, s < e,
         NEW i \in Live(vs), Splits(vs[i], s, e), NEW j \in Struct \ Live(vs)
  PROVE  /\ Sound(InTwo(vs, s, e, i, j))
         /\ MappedBy(InTwo(vs, s, e, i, j)) = MappedBy(vs) \ (s .. e - 1)
<1>. DEFINE ns == InTwo(vs, s, e, i, j)
            cut == do_munmap(vs, s, e)
            high == [vs[i] EXCEPT !.start = e]
<1>1. /\ cut = [k \in Struct |-> IF vs[k] = NULL THEN NULL ELSE Cut(vs[k], s, e)]
      /\ ns = [cut EXCEPT ![j] = high]
  BY DEF do_munmap, InTwo
<1>2. Sound(cut) /\ \A k \in Live(cut) : k \in Live(vs) /\ cut[k] = Cut(vs[k], s, e)
  BY CutSound
<1>3. /\ Sane(vs[i]) /\ Sane(high) /\ high.start = e /\ high.end = vs[i].end
      /\ Cut(vs[i], s, e) = [vs[i] EXCEPT !.end = s] /\ Cut(vs[i], s, e) # NULL
      /\ Cut(vs[i], s, e).start = vs[i].start /\ Cut(vs[i], s, e).end = s
      /\ vs[i].start < s /\ e < vs[i].end /\ vs[i].start \in Nat /\ vs[i].end \in Nat
  <2>1. Sane(vs[i]) /\ vs[i] \in Vma
    BY LiveSane DEF Sane
  <2>2. Sane(high) /\ Cut(vs[i], s, e) = [vs[i] EXCEPT !.end = s] /\ Cut(vs[i], s, e) # NULL
    BY <2>1, CutIs
  <2>. QED
    BY <2>1, <2>2, SaneNumbers DEF Splits, Vma
<1>4. ASSUME NEW k \in Live(vs), k # i
      PROVE  /\ Sane(vs[k]) /\ Apart(vs[k], vs[i]) /\ Cut(vs[k], s, e) = vs[k] /\ vs[k] # NULL
             /\ Apart(vs[k], high)
  <2>1. Sane(vs[k]) /\ Apart(vs[k], vs[i]) /\ vs[k] # NULL
    BY <1>4, LiveSane DEF Sound
  <2>2. vs[k].start \in Nat /\ vs[k].end \in Nat
    BY <2>1, SaneNumbers
  <2>. QED
    BY <1>3, <2>1, <2>2 DEF Apart, Cut
<1>. HIDE DEF high, cut, ns
<1>5. i # j /\ i \in Live(cut) /\ cut[i] = Cut(vs[i], s, e)
  BY <1>1, <1>3 DEF Live
<1>6. /\ ns[j] = high /\ j \in Struct /\ high # NULL /\ j \in Live(ns) /\ j \notin Live(cut)
      /\ \A k \in Struct \ {j} : ns[k] = cut[k]
      /\ ns \in [Struct -> Vma \cup {NULL}]
  <2>1. high # NULL /\ high \in Vma /\ j \in Struct /\ j \notin Live(cut)
    BY <1>2, <1>3, SaneNumbers DEF Sane
  <2>2. cut \in [Struct -> Vma \cup {NULL}]
    BY <1>2 DEF Sound
  <2>3. ns[j] = high /\ \A k \in Struct \ {j} : ns[k] = cut[k]
    BY <1>1, <2>1, <2>2
  <2>4. ns \in [Struct -> Vma \cup {NULL}]
    BY <1>1, <2>1, <2>2
  <2>. QED
    BY <2>1, <2>3, <2>4 DEF Live
<1>7. \A k : k \in Live(ns) <=> k \in Live(cut) \/ k = j
  BY <1>6 DEF Live
<1>8. ASSUME NEW k \in Live(cut) PROVE Apart(ns[k], high) /\ ns[k] = cut[k] /\ Sane(cut[k])
  <2>1. ns[k] = cut[k] /\ k \in Live(vs) /\ cut[k] = Cut(vs[k], s, e) /\ Sane(cut[k])
    BY <1>2, <1>6, LiveSane DEF Live
  <2>2. CASE k = i
    <3>1. ns[k].end = s /\ high.start = e
      BY <1>3, <2>1, <2>2
    <3>2. ns[k].end <= high.start
      BY <3>1
    <3>. QED
      BY <2>1, <3>2 DEF Apart
  <2>3. CASE k # i
    BY <1>4, <2>1, <2>3
  <2>. QED
    BY <2>1, <2>2, <2>3
<1>9. Sound(ns)
  <2>1. \A k \in Live(ns) : Sane(ns[k])
    BY <1>3, <1>6, <1>7, <1>8
  <2>2. ASSUME NEW k \in Live(ns), NEW l \in Live(ns), k # l PROVE Apart(ns[k], ns[l])
    <3>1. CASE k = j
      BY <1>6, <1>7, <1>8, <2>2, <3>1, ApartSymmetric
    <3>2. CASE l = j
      BY <1>6, <1>7, <1>8, <2>2, <3>2
    <3>3. CASE k # j /\ l # j
      BY <1>2, <1>7, <1>8, <2>2, <3>3 DEF Sound
    <3>. QED
      BY <3>1, <3>2, <3>3
  <2>. QED
    BY <1>6, <2>1, <2>2 DEF Sound
<1>10. ASSUME NEW a PROVE a \in MappedBy(ns) <=> a \in MappedBy(vs) \ (s .. e - 1)
  <2>1. ASSUME a \in MappedBy(ns) PROVE a \in MappedBy(vs) \ (s .. e - 1)
    <3>1. PICK k \in Live(ns) : a \in Range(ns[k])
      BY <2>1, MappedIs
    <3>2. CASE k = j
      <4>1. a \in Int /\ e <= a /\ a < vs[i].end
        BY <1>3, <1>6, <3>1, <3>2, RangeIs
      <4>2. a \in Range(vs[i])
        BY <1>3, <4>1, RangeIs
      <4>. QED
        BY <4>1, <4>2, MappedIs
    <3>3. CASE k = i
      <4>1. ns[i] = cut[i] /\ Sane(cut[i]) /\ cut[i].start = vs[i].start /\ cut[i].end = s
        BY <1>3, <1>5, <1>8
      <4>2. a \in Int /\ vs[i].start <= a /\ a < s
        BY <3>1, <3>3, <4>1, RangeIs
      <4>3. a \in Range(vs[i])
        BY <1>3, <4>2, RangeIs
      <4>. QED
        BY <4>2, <4>3, MappedIs
    <3>4. CASE k # i /\ k # j
      <4>1. k \in Live(vs) /\ ns[k] = vs[k] /\ Sane(vs[k]) /\ Apart(vs[k], vs[i])
        BY <1>2, <1>4, <1>7, <1>8, <3>4
      <4>2. a \in Int /\ vs[k].start <= a /\ a < vs[k].end
            /\ vs[k].start \in Nat /\ vs[k].end \in Nat
        BY <3>1, <4>1, RangeIs, SaneNumbers
      <4>3. a \notin s .. e - 1
        BY <1>3, <4>1, <4>2 DEF Apart
      <4>. QED
        BY <3>1, <4>1, <4>3, MappedIs
    <3>. QED
      BY <3>2, <3>3, <3>4
  <2>2. ASSUME a \in MappedBy(vs) \ (s .. e - 1) PROVE a \in MappedBy(ns)
    <3>1. PICK k \in Live(vs) : a \in Range(vs[k])
      BY <2>2, MappedIs
    <3>2. CASE k = i
      <4>1. a \in Int /\ vs[i].start <= a /\ a < vs[i].end /\ ~ (s <= a /\ a < e)
        BY <1>3, <2>2, <3>1, <3>2, RangeIs
      <4>2. CASE a < s
        <5>1. ns[i] = cut[i] /\ Sane(cut[i]) /\ cut[i].start = vs[i].start /\ cut[i].end = s
          BY <1>3, <1>5, <1>8
        <5>2. a \in Range(ns[i])
          BY <4>1, <4>2, <5>1, RangeIs
        <5>. QED
          BY <1>5, <1>7, <5>2, MappedIs
      <4>3. CASE e <= a
        <5>1. a \in Range(ns[j])
          BY <1>3, <1>6, <4>1, <4>3, RangeIs
        <5>. QED
          BY <1>6, <5>1, MappedIs
      <4>. QED
        BY <4>1, <4>2, <4>3
    <3>3. CASE k # i
      <4>1. k \in Live(cut) /\ cut[k] = vs[k]
        BY <1>1, <1>4, <3>3 DEF Live
      <4>2. ns[k] = vs[k] /\ k \in Live(ns)
        BY <1>7, <1>8, <4>1
      <4>. QED
        BY <3>1, <4>2, MappedIs
    <3>. QED
      BY <3>2, <3>3
  <2>. QED
    BY <2>1, <2>2
<1>. QED
  BY <1>9, <1>10 DEF ns

-----------------------------------------------------------------------------
(***************************************************************************)
(* move_page_tables, by induction on the number of pages.                  *)
(***************************************************************************)
LEMMA SetInduction ==
  ASSUME NEW S, 0 \in S, \A n \in Nat : n \in S => n + 1 \in S
  PROVE  Nat \subseteq S
<1>. DEFINE T == Nat \ S
<1>1. SUFFICES ASSUME T # {} PROVE FALSE
  OBVIOUS
<1>2. PICK x \in T : \A y \in T : ~ (<<y, x>> \in OpToRel(<, Nat))
  BY <1>1, WFMin, NatLessThanWellFounded, Zenon
<1>3. \A y \in T : ~ (y < x)
  BY <1>2 DEF OpToRel
<1>4. x # 0 /\ x - 1 \in Nat /\ x - 1 < x /\ x - 1 + 1 = x
  OBVIOUS
<1>. QED
  BY <1>3, <1>4

\* One page goes from a to b.
PageMoved(m, a, b) == [[m EXCEPT ![a] = Empty] EXCEPT ![b] = m[a]]

\* The function that move_page_tables defines by recursion.
IsRun(f, m, old, new, n) ==
  f = [j \in 0 .. n |-> IF j = 0 THEN m ELSE PageMoved(f[j - 1], old + j - 1, new + j - 1)]

LEMMA RunExists ==
  ASSUME NEW m, NEW old, NEW new
  PROVE  \A n \in Nat : \E f : IsRun(f, m, old, new, n)
<1>. DEFINE S == {n \in Nat : \E f : IsRun(f, m, old, new, n)}
<1>1. 0 \in S
  <2>. DEFINE f == [j \in 0 .. 0 |-> m]
  <2>1. IsRun(f, m, old, new, 0)
    BY DEF IsRun
  <2>. QED
    BY <2>1
<1>2. ASSUME NEW n \in Nat, n \in S PROVE n + 1 \in S
  <2>1. PICK f : IsRun(f, m, old, new, n)
    BY <1>2
  <2>. DEFINE last == PageMoved(f[n], old + (n + 1) - 1, new + (n + 1) - 1)
              g == [j \in 0 .. n + 1 |-> IF j = n + 1 THEN last ELSE f[j]]
  <2>2. \A j \in 0 .. n : f[j] = IF j = 0 THEN m ELSE PageMoved(f[j - 1], old + j - 1, new + j - 1)
    BY <2>1 DEF IsRun
  <2>3. g = [j \in 0 .. n + 1 |->
               IF j = 0 THEN m ELSE PageMoved(g[j - 1], old + j - 1, new + j - 1)]
    <3>1. \A j \in 0 .. n : g[j] = f[j]
      OBVIOUS
    <3>2. g[n + 1] = last
      OBVIOUS
    <3>. DEFINE h == [j \in 0 .. n + 1 |->
                        IF j = 0 THEN m ELSE PageMoved(g[j - 1], old + j - 1, new + j - 1)]
    <3>3. ASSUME NEW j \in 0 .. n + 1 PROVE g[j] = h[j]
      <4>1. CASE j = n + 1
        <5>1. j # 0 /\ j - 1 = n /\ n \in 0 .. n
          BY <4>1
        <5>2. h[j] = PageMoved(g[n], old + (n + 1) - 1, new + (n + 1) - 1)
          BY <4>1, <5>1
        <5>. QED
          BY <3>1, <3>2, <4>1, <5>1, <5>2
      <4>2. CASE j # n + 1
        <5>1. j \in 0 .. n /\ (j # 0 => j - 1 \in 0 .. n)
          BY <3>3, <4>2
        <5>. HIDE DEF g
        <5>2. j # 0 => g[j - 1] = f[j - 1]
          BY <3>1, <5>1
        <5>. QED
          BY <2>2, <3>1, <5>1, <5>2
      <4>. QED
        BY <4>1, <4>2
    <3>4. g = [j \in 0 .. n + 1 |-> g[j]] /\ h = [j \in 0 .. n + 1 |-> h[j]]
      OBVIOUS
    <3>. HIDE DEF g, h
    <3>5. g = h
      BY <3>3, <3>4
    <3>. QED
      BY <3>5 DEF h
  <2>. HIDE DEF g
  <2>4. IsRun(g, m, old, new, n + 1)
    BY <2>3 DEF IsRun
  <2>. QED
    BY <2>4
<1>. HIDE DEF S
<1>3. Nat \subseteq S
  BY <1>1, <1>2, SetInduction
<1>. QED
  BY <1>3 DEF S

LEMMA MoveRuns ==
  ASSUME NEW m, NEW old, NEW new, NEW n \in Nat
  PROVE  \E f : IsRun(f, m, old, new, n) /\ move_page_tables(m, old, new, n) = f[n]
<1>. DEFINE f == CHOOSE g : IsRun(g, m, old, new, n)
<1>1. IsRun(f, m, old, new, n)
  BY RunExists
<1>2. move_page_tables(m, old, new, n) = f[n]
  BY DEF move_page_tables, IsRun, PageMoved
<1>. QED
  BY <1>1, <1>2

Memory == [Addr -> Content \cup {Empty}]

Contents(m) == {m[a] : a \in Addr} \ {Empty}

\* To a page that holds nothing, or to itself.
LEMMA PageMovedIs ==
  ASSUME NEW m \in Memory, NEW a \in Addr, NEW b \in Addr, m[b] = Empty \/ a = b
  PROVE  /\ PageMoved(m, a, b) \in Memory
         /\ PageMoved(m, a, b)[b] = m[a]
         /\ a # b => PageMoved(m, a, b)[a] = Empty
         /\ a = b => PageMoved(m, a, b) = m
         /\ \A c \in Addr \ {a, b} : PageMoved(m, a, b)[c] = m[c]
         /\ Contents(PageMoved(m, a, b)) = Contents(m)
<1>. DEFINE p == PageMoved(m, a, b)
<1>1. /\ p \in Memory /\ p[b] = m[a] /\ (a # b => p[a] = Empty)
      /\ \A c \in Addr \ {a, b} : p[c] = m[c]
  BY DEF PageMoved, Memory
<1>2. a = b => p = m
  BY DEF PageMoved, Memory
<1>. HIDE DEF p
<1>3. ASSUME a # b PROVE Contents(p) = Contents(m)
  <2>1. ASSUME NEW x, x \in Contents(m) PROVE x \in Contents(p)
    <3>1. PICK c \in Addr : x = m[c] /\ x # Empty
      BY <2>1 DEF Contents
    <3>2. x = p[IF c = a THEN b ELSE c] /\ (IF c = a THEN b ELSE c) \in Addr
      BY <1>1, <1>3, <3>1
    <3>. QED
      BY <3>1, <3>2 DEF Contents
  <2>2. ASSUME NEW x, x \in Contents(p) PROVE x \in Contents(m)
    <3>1. PICK c \in Addr : x = p[c] /\ x # Empty
      BY <2>2 DEF Contents
    <3>2. x = m[IF c = b THEN a ELSE c] /\ (IF c = b THEN a ELSE c) \in Addr
      BY <1>1, <1>3, <3>1
    <3>. QED
      BY <3>1, <3>2 DEF Contents
  <2>. QED
    BY <2>1, <2>2
<1>. QED
  BY <1>1, <1>2, <1>3 DEF p

\* A stretch that can be moved: to free pages that are not below the old ones,
\* unless the two are apart.
Movable(m, old, new, len) ==
  /\ m \in Memory
  /\ old \in Nat /\ new \in Nat /\ len \in Nat
  /\ old + len <= Top /\ new + len <= Top
  /\ old <= new \/ new + len <= old
  /\ \A k \in 0 .. len - 1 : m[new + k] = Empty

\* The memory f after the first j of the len pages.
Moved(f, m, old, new, len, j) ==
  /\ f \in Memory
  /\ Contents(f) = Contents(m)
  /\ old = new => f = m
  /\ \A k \in j .. len - 1 : f[new + k] = Empty
  /\ old # new => \A k \in 0 .. j - 1 : f[old + k] = Empty
  /\ \A a \in Addr : f[a] # Empty => (new <= a /\ a < new + j) \/ m[a] # Empty
  /\ old + len <= new \/ new + len <= old =>
       \A a \in Addr : f[a] = IF new <= a /\ a < new + j THEN m[a - new + old]
                              ELSE IF old <= a /\ a < old + j THEN Empty ELSE m[a]

LEMMA MovedStep ==
  ASSUME MoveAssumption, NEW m, NEW old, NEW new, NEW len, Movable(m, old, new, len),
         NEW j \in Nat, j < len, NEW f, Moved(f, m, old, new, len, j)
  PROVE  Moved(PageMoved(f, old + j, new + j), m, old, new, len, j + 1)
<1>. DEFINE a == old + j
            b == new + j
            g == PageMoved(f, a, b)
<1>1. /\ old \in Nat /\ new \in Nat /\ len \in Nat /\ Top \in Nat
      /\ old + len <= Top /\ new + len <= Top /\ (old <= new \/ new + len <= old)
      /\ f \in Memory /\ m \in Memory
  BY DEF Movable, Moved, MoveAssumption
<1>2. a \in Addr /\ b \in Addr /\ (a = b <=> old = new)
  BY <1>1 DEF Addr
<1>3. f[b] = Empty
  BY <1>1 DEF Moved
<1>4. /\ g \in Memory /\ g[b] = f[a] /\ (a # b => g[a] = Empty) /\ (a = b => g = f)
      /\ \A c \in Addr \ {a, b} : g[c] = f[c]
      /\ Contents(g) = Contents(f)
  BY <1>1, <1>2, <1>3, PageMovedIs
<1>. HIDE DEF g
<1>5. Contents(g) = Contents(m) /\ (old = new => g = m)
  BY <1>2, <1>4 DEF Moved
<1>6. ASSUME NEW k \in j + 1 .. len - 1 PROVE g[new + k] = Empty
  <2>1. k \in j .. len - 1 /\ new + k \in Addr /\ new + k # b
    BY <1>1 DEF Addr
  <2>2. f[new + k] = Empty
    BY <2>1 DEF Moved
  <2>3. CASE new + k = a
    BY <1>4, <2>1, <2>3
  <2>4. CASE new + k # a
    BY <1>4, <2>1, <2>2, <2>4
  <2>. QED
    BY <2>3, <2>4
<1>7. ASSUME old # new, NEW k \in 0 .. j PROVE g[old + k] = Empty
  <2>1. k \in Nat /\ k <= j /\ old + k \in Addr
    BY <1>1 DEF Addr
  <2>2. CASE k = j
    BY <1>2, <1>4, <1>7, <2>2
  <2>3. CASE k # j
    <3>1. k \in 0 .. j - 1 /\ old + k # a /\ old + k # b
      BY <1>1, <2>1, <2>3
    <3>2. f[old + k] = Empty
      BY <1>7, <3>1 DEF Moved
    <3>. QED
      BY <1>4, <2>1, <3>1, <3>2
  <2>. QED
    BY <2>2, <2>3
<1>8. ASSUME NEW c \in Addr, g[c] # Empty PROVE (new <= c /\ c < new + (j + 1)) \/ m[c] # Empty
  <2>0. c \in Nat
    BY <1>1 DEF Addr
  <2>1. CASE c = b
    BY <1>1, <2>1
  <2>2. CASE c # b
    <3>1. f[c] # Empty
      <4>1. CASE c = a
        BY <1>4, <1>8, <2>2, <4>1
      <4>2. CASE c # a
        BY <1>4, <1>8, <2>2, <4>2
      <4>. QED
        BY <4>1, <4>2
    <3>2. (new <= c /\ c < new + j) \/ m[c] # Empty
      BY <3>1 DEF Moved
    <3>. QED
      BY <1>1, <2>0, <3>2
  <2>. QED
    BY <2>1, <2>2
<1>9. ASSUME old + len <= new \/ new + len <= old, NEW c \in Addr
      PROVE  g[c] = IF new <= c /\ c < new + (j + 1) THEN m[c - new + old]
                    ELSE IF old <= c /\ c < old + (j + 1) THEN Empty ELSE m[c]
  <2>0. c \in Nat /\ a # b
    BY <1>1, <1>9 DEF Addr
  <2>1. \A d \in Addr : f[d] = IF new <= d /\ d < new + j THEN m[d - new + old]
                               ELSE IF old <= d /\ d < old + j THEN Empty ELSE m[d]
    BY <1>9 DEF Moved
  <2>2. CASE c = b
    <3>1. f[a] = m[a]
      BY <1>1, <1>2, <1>9, <2>1
    <3>2. c - new + old = a /\ new <= c /\ c < new + (j + 1)
      BY <1>1, <2>2
    <3>. QED
      BY <1>4, <2>2, <3>1, <3>2
  <2>3. CASE c = a
    <3>1. ~ (new <= c /\ c < new + (j + 1)) /\ old <= c /\ c < old + (j + 1)
      BY <1>1, <1>9, <2>3
    <3>. QED
      BY <1>4, <2>0, <2>3, <3>1
  <2>4. CASE c # a /\ c # b
    <3>1. g[c] = f[c]
      BY <1>4, <2>4
    <3>2. /\ new <= c /\ c < new + (j + 1) <=> new <= c /\ c < new + j
          /\ old <= c /\ c < old + (j + 1) <=> old <= c /\ c < old + j
      BY <1>1, <2>0, <2>4
    <3>. QED
      BY <2>1, <3>1, <3>2
  <2>. QED
    BY <2>2, <2>3, <2>4
<1>10. j + 1 - 1 = j
  OBVIOUS
<1>. QED
  BY <1>4, <1>5, <1>6, <1>7, <1>8, <1>9, <1>10 DEF Moved, g

LEMMA MoveDoes ==
  ASSUME MoveAssumption, NEW m, NEW old, NEW new, NEW len, Movable(m, old, new, len),
         NEW n \in 0 .. len
  PROVE  Moved(move_page_tables(m, old, new, n), m, old, new, len, n)
<1>1. n \in Nat /\ len \in Nat /\ n <= len /\ old \in Nat /\ new \in Nat
  BY DEF Movable
<1>2. PICK f : IsRun(f, m, old, new, n) /\ move_page_tables(m, old, new, n) = f[n]
  BY <1>1, MoveRuns
<1>3. \A j \in 0 .. n : f[j] = IF j = 0 THEN m ELSE PageMoved(f[j - 1], old + j - 1, new + j - 1)
  BY <1>2 DEF IsRun
<1>. DEFINE S == {j \in Nat : j <= n => Moved(f[j], m, old, new, len, j)}
<1>4. 0 \in S
  <2>1. f[0] = m
    BY <1>1, <1>3
  <2>2. Moved(m, m, old, new, len, 0)
    BY <1>1 DEF Moved, Movable, Addr
  <2>. QED
    BY <2>1, <2>2
<1>5. ASSUME NEW j \in Nat, j \in S PROVE j + 1 \in S
  <2>. SUFFICES ASSUME j + 1 <= n PROVE Moved(f[j + 1], m, old, new, len, j + 1)
    OBVIOUS
  <2>1. j <= n /\ j < len /\ j + 1 \in 0 .. n /\ j + 1 # 0 /\ j + 1 - 1 = j
        /\ old + (j + 1) - 1 = old + j /\ new + (j + 1) - 1 = new + j
    BY <1>1
  <2>2. Moved(f[j], m, old, new, len, j)
    BY <1>5, <2>1
  <2>3. f[j + 1] = PageMoved(f[j], old + j, new + j)
    BY <1>3, <2>1
  <2>. QED
    BY <2>1, <2>2, <2>3, MovedStep
<1>. HIDE DEF S
<1>6. n \in S
  BY <1>1, <1>4, <1>5, SetInduction
<1>7. Moved(f[n], m, old, new, len, n)
  BY <1>1, <1>6 DEF S
<1>. QED
  BY <1>2, <1>7

LEMMA ZappedIs ==
  ASSUME NEW m, NEW s, NEW e
  PROVE  /\ Zapped(m, s, e) = [a \in Addr |-> Zapped(m, s, e)[a]]
         /\ \A a \in Addr : Zapped(m, s, e)[a] = IF a \in s .. e - 1 THEN Empty ELSE m[a]
BY DEF Zapped

\* The whole stretch was moved: where it was nothing is left, so that to unmap
\* the old area loses nothing.
LEMMA MoveLeavesNothing ==
  ASSUME MoveAssumption, NEW m, NEW old, NEW new, NEW len, Movable(m, old, new, len)
  PROVE  LET g == move_page_tables(m, old, new, len) IN Zapped(g, old, old + len) = g
<1>. DEFINE g == move_page_tables(m, old, new, len)
<1>1. /\ old \in Nat /\ new \in Nat /\ len \in Nat /\ len \in 0 .. len
      /\ \A k \in 0 .. len - 1 : m[new + k] = Empty
  BY DEF Movable
<1>2. Moved(g, m, old, new, len, len)
  BY <1>1, MoveDoes
<1>. HIDE DEF g
<1>3. \A k \in 0 .. len - 1 : g[old + k] = Empty
  BY <1>1, <1>2 DEF Moved
<1>4. ASSUME NEW a \in old .. (old + len) - 1 PROVE g[a] = Empty
  <2>1. a - old \in 0 .. len - 1 /\ old + (a - old) = a
    BY <1>1
  <2>. QED
    BY <1>3, <2>1
<1>5. g = [a \in Addr |-> g[a]]
  BY <1>2 DEF Moved, Memory
<1>. DEFINE e == old + len
<1>6. \A a \in old .. e - 1 : g[a] = Empty
  BY <1>4
<1>. HIDE DEF e
<1>7. Zapped(g, old, e) = g
  <2>. DEFINE h == Zapped(g, old, e)
  <2>1. h = [a \in Addr |-> h[a]]
    BY ZappedIs
  <2>2. \A a \in Addr : h[a] = IF a \in old .. e - 1 THEN Empty ELSE g[a]
    BY ZappedIs
  <2>. HIDE DEF h
  <2>3. \A a \in Addr : h[a] = g[a]
    BY <1>6, <2>2
  <2>4. h = g
    BY <1>5, <2>1, <2>3
  <2>. QED
    BY <2>4 DEF h
<1>. QED
  BY <1>7 DEF g, e

-----------------------------------------------------------------------------
(***************************************************************************)
(* The memory of the process.                                              *)
(***************************************************************************)
MemoryInv ==
  /\ Sound(vma)
  /\ mem \in Memory
  /\ \A a \in Addr : mem[a] # Empty => a \in Mapped

Under == {"area", "tell", "remap"}

CallInv ==
  /\ alone \in BOOLEAN
  /\ pc \in [Task -> {"user", "area", "tell", "remap", "return", "kept", "oops", "astray"}]
  /\ ovma \in [Task -> Struct \cup {NULL}]
  /\ from \in [Task -> Addr]
  /\ to \in [Task -> -Top .. 2 * Top]
  /\ told \in [Task -> 0 .. 2 * Top + Wrap]
  /\ \A t \in Task : /\ pc[t] \in Under => ovma[t] \in Struct
                     /\ pc[t] = "tell" => to[t] \in Addr

\* What my_mremap works on: the area that was found, and a place for it where
\* nothing is mapped.
Prepared(t) ==
  LET v == vma[ovma[t]]
  IN  /\ ovma[t] \in Live(vma) /\ Sane(v)
      /\ to[t] \in Nat /\ Size(v) \in Nat \ {0} /\ to[t] + Size(v) <= Top
      /\ Sane(Target(t)) /\ Apart(v, Target(t))
      /\ ~ Overlaps(vma, to[t], to[t] + Size(v))
      /\ Range(Target(t)) \cap Mapped = {}

LEMMA TargetIs ==
  ASSUME MoveAssumption, MemoryInv, CallInv, NEW t \in Task, NEW place,
         Remapping(t, place), copy_vma(t) # {}
  PROVE  Prepared(t)
<1>. DEFINE o == ovma[t]
            v == vma[o]
<1>1. o \in Live(vma) /\ Sane(v)
  BY LiveSane DEF Remapping, Holds, CallInv, Under, Live, MemoryInv
<1>2. Fits(v, to[t])
  <2>1. Lies(v, to[t])
    BY DEF Remapping
  <2>2. to[t] >= 0
    BY <2>1 DEF Lies, Addr, MoveAssumption
  <2>. QED
    BY <2>1, <2>2 DEF copy_vma, Fits
<1>3. /\ v.start \in Nat /\ v.end \in Nat /\ v.start < v.end /\ v.end <= Top /\ Top \in Nat
      /\ v.shift \in Int /\ v.anon \in BOOLEAN
      /\ 0 <= v.start - v.shift /\ v.end - v.shift <= Top
  BY <1>1, SaneNumbers
<1>. HIDE DEF v, o
<1>. DEFINE b == to[t]
            len == v.end - v.start
            h == IF v.anon THEN v.shift + b - v.start ELSE 0
            tg == [start |-> b, end |-> b + len, shift |-> h, anon |-> v.anon]
<1>4. b \in Nat /\ b + len <= Top /\ len \in Nat \ {0} /\ ~ Overlaps(vma, b, b + len)
  BY <1>2, <1>3 DEF Fits, Lies, Addr, Size
<1>5. Target(t) = tg
  BY DEF Target, Size, v, o
<1>. HIDE DEF b, len
<1>6. h \in Int /\ 0 <= b - h /\ b + len - h <= Top
  <2>1. len = v.end - v.start
    BY DEF len
  <2>2. CASE v.anon
    BY <1>3, <1>4, <2>1, <2>2
  <2>3. CASE ~ v.anon
    BY <1>4, <2>3
  <2>. QED
    BY <2>2, <2>3
<1>. HIDE DEF h
<1>7. Sane(tg) /\ tg.start = b /\ tg.end = b + len
  <2>1. b + len \in Nat /\ b < b + len
    BY <1>4
  <2>. QED
    BY <1>3, <1>4, <1>6, <2>1, SaneRecord
<1>. HIDE DEF tg
<1>8. Sound(vma)
  BY DEF MemoryInv
<1>9. \A i \in Live(vma) : Apart(vma[i], tg)
  BY <1>4, <1>7, <1>8, NoOverlapApart
<1>10. ASSUME NEW a \in Range(tg), a \in Mapped PROVE FALSE
  <2>1. PICK i \in Live(vma) : a \in Range(vma[i])
    BY <1>10, MappedIs DEF Mapped
  <2>2. Sane(vma[i]) /\ Apart(vma[i], tg)
    BY <1>8, <1>9, LiveSane
  <2>. QED
    BY <1>7, <2>1, <2>2, RangeIs, SaneNumbers DEF Apart
<1>11. Apart(v, tg)
  BY <1>1, <1>9 DEF v
<1>12. Size(v) = len /\ to[t] = b /\ Target(t) = tg
  BY <1>5 DEF Size, len, b
<1>. QED
  BY <1>1, <1>4, <1>7, <1>10, <1>11, <1>12 DEF Prepared, v, o

\* my_mremap goes on with the start of the area that was found, unless it has
\* grown downwards; no area reaches beyond both ends of what it will unmap.
LEMMA OldStartIs ==
  ASSUME MoveAssumption, MemoryInv, NEW t \in Task, Prepared(t), NEW new \in copy_vma(t)
  PROVE  LET v   == vma[ovma[t]]
             old == OldStart(t, new)
         IN  /\ Sound(new.structs)
             /\ MappedBy(new.structs) = Mapped \cup Range(Target(t))
             /\ old = v.start \/ (GrowsDown(t) /\ old \in Nat /\ old <= to[t])
             /\ \A k \in Live(new.structs) : ~ Splits(new.structs[k], old, old + Size(v))
<1>. DEFINE o == ovma[t]
            v == vma[o]
            tg == Target(t)
            ns == new.structs
            b == new.id
            old == OldStart(t, new)
<1>1. /\ o \in Live(vma) /\ Sane(v) /\ Sane(tg) /\ Apart(v, tg) /\ Sound(vma)
      /\ tg.start = to[t] /\ tg.end = to[t] + Size(v) /\ tg.anon = v.anon
      /\ ~ Overlaps(vma, tg.start, tg.end) /\ new \in Placements(vma, tg)
      /\ Size(v) \in Nat \ {0}
  BY DEF Prepared, Target, MemoryInv, copy_vma
<1>2. PICK w : PlacedAs(vma, tg, new, w)
  <2>. HIDE DEF tg
  <2>. QED
    BY <1>1, Placed
<1>3. Sound(ns) /\ MappedBy(ns) = Mapped \cup Range(tg)
  <2>. HIDE DEF tg
  <2>. QED
    BY <1>1, <1>2, PlacedSound DEF Mapped
<1>4. /\ b \in Struct /\ ns[b] = w /\ (b \in Live(vma) => Inside(vma[b], w)) /\ Sane(w)
      /\ Inside(v, w) \/ Apart(v, w)
      /\ \A i \in Struct \ {b} :
           ns[i] = IF i \in Live(vma) /\ Inside(vma[i], w) THEN NULL ELSE vma[i]
      /\ Inside(tg, w)
      /\ w.start = tg.start \/ \E l \in Live(vma) : Joins(vma[l], tg) /\ vma[l].start = w.start
      /\ w.end = tg.end \/ \E r \in Live(vma) : Joins(tg, vma[r]) /\ vma[r].end = w.end
  BY <1>1, <1>2 DEF PlacedAs
<1>5. old = IF v.start \in Range(w) THEN w.start ELSE v.start
  BY <1>4 DEF OldStart
<1>. HIDE DEF old, tg, ns, b
<1>6. /\ v.start \in Nat /\ v.end \in Nat /\ v.start < v.end
      /\ w.start \in Nat /\ w.end \in Nat /\ w.start < w.end
      /\ tg.start \in Nat /\ tg.end \in Nat /\ tg.start < tg.end
  BY <1>1, <1>4, SaneNumbers
<1>7. ASSUME v.start \in Range(w), w.start # v.start PROVE GrowsDown(t) /\ w.start <= to[t]
  <2>1. w.start <= v.start /\ v.start < w.end /\ v.start \in Range(v)
    BY <1>1, <1>4, <1>6, <1>7, RangeIs
  <2>2. w.start <= tg.start
    BY <1>4 DEF Inside
  <2>3. CASE v.start < tg.start
    <3>1. PICK l \in Live(vma) : Joins(vma[l], tg) /\ vma[l].start = w.start
      BY <1>4, <1>6, <2>1, <2>3
    <3>2. Sane(vma[l]) /\ vma[l].end = tg.start
      BY <1>1, <3>1, LiveSane DEF Joins
    <3>3. l # o => Apart(vma[l], v)
      BY <1>1 DEF Sound
    <3>4. l = o
      BY <1>6, <2>1, <2>3, <3>1, <3>2, <3>3 DEF Apart
    <3>. QED
      BY <1>7, <3>1, <3>4
  <2>4. CASE tg.start <= v.start
    <3>1. tg.end <= v.start
      BY <1>1, <1>6, <2>4 DEF Apart
    <3>2. PICK r \in Live(vma) : Joins(tg, vma[r]) /\ vma[r].end = w.end
      BY <1>4, <1>6, <2>1, <3>1
    <3>3. Sane(vma[r]) /\ vma[r].start = tg.end /\ ~ (tg.anon /\ vma[r].anon)
      BY <1>1, <3>2, LiveSane DEF Joins
    <3>4. r # o => Apart(vma[r], v)
      BY <1>1 DEF Sound
    <3>5. r = o
      BY <1>6, <2>1, <3>1, <3>2, <3>3, <3>4 DEF Apart
    <3>. QED
      BY <1>1, <2>2, <3>3, <3>5 DEF GrowsDown
  <2>. QED
    BY <1>6, <2>3, <2>4
<1>10. old = v.start \/ (GrowsDown(t) /\ old \in Nat /\ old <= to[t])
  <2>1. CASE v.start \in Range(w) /\ w.start # v.start
    BY <1>5, <1>6, <1>7, <2>1
  <2>2. CASE v.start \in Range(w) /\ w.start = v.start
    <3>1. old = v.start
      BY <1>5, <2>2
    <3>. QED
      BY <3>1
  <2>3. CASE v.start \notin Range(w)
    <3>1. old = v.start
      BY <1>5, <2>3
    <3>. QED
      BY <3>1
  <2>. QED
    BY <2>1, <2>2, <2>3
<1>8. \E k \in Live(ns) : ns[k].start = old
  <2>1. CASE v.start \in Range(w)
    <3>1. b \in Live(ns)
      BY <1>4, SaneNumbers DEF Live
    <3>. QED
      BY <1>4, <1>5, <2>1, <3>1
  <2>2. CASE v.start \notin Range(w)
    <3>1. ~ Inside(v, w)
      BY <1>4, <1>6, <2>2, RangeIs DEF Inside
    <3>2. o # b /\ ns[o] = v /\ o \in Live(ns)
      BY <1>1, <1>4, <3>1 DEF Live
    <3>. QED
      BY <1>5, <2>2, <3>2
  <2>. QED
    BY <2>1, <2>2
<1>9. ASSUME NEW k \in Live(ns), Splits(ns[k], old, old + Size(v)) PROVE FALSE
  <2>1. PICK j \in Live(ns) : ns[j].start = old
    BY <1>8
  <2>2. Sane(ns[j]) /\ Sane(ns[k]) /\ (j # k => Apart(ns[j], ns[k]))
    BY <1>3, LiveSane DEF Sound
  <2>3. /\ ns[j].start \in Nat /\ ns[j].end \in Nat /\ ns[j].start < ns[j].end
        /\ ns[k].start \in Nat /\ ns[k].end \in Nat /\ ns[k].start < ns[k].end
    BY <2>2, SaneNumbers
  <2>4. ns[k].start < old /\ old < ns[k].end
    BY <1>1, <1>9, <2>1, <2>3 DEF Splits
  <2>. QED
    BY <2>1, <2>2, <2>3, <2>4 DEF Apart
<1>. QED
  BY <1>3, <1>9, <1>10 DEF old, ns, tg

LEMMA StretchMovable ==
  ASSUME MoveAssumption, MemoryInv, NEW t \in Task, Prepared(t), NEW new \in copy_vma(t)
  PROVE  Movable(mem, OldStart(t, new), to[t], Size(vma[ovma[t]]))
<1>. DEFINE v == vma[ovma[t]]
            len == Size(v)
            tg == Target(t)
            old == OldStart(t, new)
            b == to[t]
<1>1. /\ Sane(v) /\ b \in Nat /\ len \in Nat /\ b + len <= Top /\ Apart(v, tg) /\ Sane(tg)
      /\ tg.start = b /\ tg.end = b + len
      /\ \A a \in Range(tg) : a \notin Mapped
  BY DEF Prepared, Target
<1>2. /\ v.start \in Nat /\ v.end \in Nat /\ v.start + len = v.end /\ v.end <= Top /\ Top \in Nat
  BY <1>1, SaneNumbers DEF Size
<1>3. old = v.start \/ (old \in Nat /\ old <= b)
  BY OldStartIs
<1>. HIDE DEF old, tg, len, v, b
<1>4. /\ old \in Nat /\ old + len <= Top /\ (old <= b \/ b + len <= old)
  <2>1. CASE old = v.start
    <3>1. v.end <= b \/ b + len <= v.start
      BY <1>1 DEF Apart
    <3>. QED
      BY <1>1, <1>2, <2>1, <3>1
  <2>2. CASE old \in Nat /\ old <= b
    BY <1>1, <1>2, <2>2
  <2>. QED
    BY <1>3, <2>1, <2>2
<1>5. ASSUME NEW k \in 0 .. len - 1 PROVE mem[b + k] = Empty
  <2>1. b + k \in Int /\ b <= b + k /\ b + k < b + len
    BY <1>1
  <2>2. b + k \in Range(tg) /\ b + k \in Addr
    BY <1>1, <2>1, RangeIs
  <2>. QED
    BY <1>1, <2>2 DEF MemoryInv
<1>6. mem \in Memory
  BY DEF MemoryInv
<1>. QED
  BY <1>1, <1>4, <1>5, <1>6 DEF Movable, old, len, v, b

-----------------------------------------------------------------------------
(***************************************************************************)
(* What the steps that change the memory do to it.                         *)
(***************************************************************************)
LEMMA RangeEmptyOrNot ==
  ASSUME NEW s \in Nat, NEW len \in Nat, NEW a
  PROVE  a \in s .. (s + len) - 1 <=> a \in Int /\ s <= a /\ a < s + len
OBVIOUS

LEMMA RemapEffect ==
  ASSUME MoveAssumption, MemoryInv, CallInv, NEW t \in Task, Remap(t)
  PROVE  LET v == vma[ovma[t]]
             tg == Target(t)
         IN  /\ Prepared(t)
             /\ MemoryInv'
             /\ Contents(mem') = Contents(mem)
             /\ ~ GrowsDown(t) =>
                  /\ Mapped' = (Mapped \ Range(v)) \cup Range(tg)
                  /\ \A a \in Addr : mem'[a] = IF a \in Range(tg) THEN mem[a - to[t] + v.start]
                                               ELSE IF a \in Range(v) THEN Empty ELSE mem[a]
<1>. DEFINE v == vma[ovma[t]]
            tg == Target(t)
            len == Size(v)
            b == to[t]
<1>1. Remapping(t, "return") /\ copy_vma(t) # {}
  BY DEF Remap
<1>2. Prepared(t)
  BY <1>1, TargetIs
<1>3. PICK new \in copy_vma(t) :
        /\ vma' = do_munmap(new.structs, OldStart(t, new), OldStart(t, new) + len)
        /\ mem' = Zapped(move_page_tables(mem, OldStart(t, new), b, len),
                         OldStart(t, new), OldStart(t, new) + len)
  BY DEF Remap
<1>. DEFINE old == OldStart(t, new)
            ns == new.structs
<1>4. /\ Sound(ns)
      /\ MappedBy(ns) = Mapped \cup Range(tg)
      /\ old = v.start \/ GrowsDown(t)
      /\ \A k \in Live(ns) : ~ Splits(ns[k], old, old + len)
  BY <1>2, OldStartIs
<1>5. Movable(mem, old, b, len)
  BY <1>2, StretchMovable
<1>6. /\ Sane(v) /\ Sane(tg) /\ tg.start = b /\ tg.end = b + len /\ len \in Nat \ {0}
      /\ b \in Nat /\ Apart(v, tg) /\ Range(tg) \cap Mapped = {}
  BY <1>2 DEF Prepared, Target
<1>7. vma' = do_munmap(ns, old, old + len) /\ mem' = Zapped(move_page_tables(mem, old, b, len), old, old + len)
  BY <1>3
<1>8. v.start \in Nat /\ v.end \in Nat /\ len = v.end - v.start
  BY <1>6, SaneNumbers DEF Size
<1>. HIDE DEF v, tg, len, b, old, ns
<1>9. old \in Nat /\ old + len \in Int /\ old < old + len /\ len \in 0 .. len
  BY <1>5, <1>6 DEF Movable
<1>10. Sound(vma') /\ MappedBy(vma') = (Mapped \cup Range(tg)) \ (old .. (old + len) - 1)
  BY <1>4, <1>7, <1>9, CutSound
<1>. DEFINE g == move_page_tables(mem, old, b, len)
<1>11. Moved(g, mem, old, b, len, len) /\ Zapped(g, old, old + len) = g
  BY <1>5, <1>9, MoveDoes, MoveLeavesNothing
<1>12. mem' = g
  BY <1>7, <1>11
<1>. HIDE DEF g
<1>13. /\ g \in Memory /\ Contents(g) = Contents(mem)
       /\ \A a \in Addr : g[a] # Empty => (b <= a /\ a < b + len) \/ mem[a] # Empty
  BY <1>11 DEF Moved
<1>14. ASSUME NEW a \in Addr, g[a] # Empty PROVE a \in MappedBy(vma')
  <2>1. a \in Int
    BY DEF Addr, MoveAssumption
  <2>2. a \in Mapped \cup Range(tg)
    BY <1>6, <1>13, <1>14, <2>1, RangeIs DEF MemoryInv
  <2>3. a \notin old .. (old + len) - 1
    BY <1>11, <1>14, ZappedIs
  <2>. QED
    BY <1>10, <2>2, <2>3
<1>15. MemoryInv'
  <2>1. mem' \in Memory /\ \A a \in Addr : mem'[a] # Empty => a \in MappedBy(vma')
    BY <1>12, <1>13, <1>14
  <2>. QED
    BY <1>10, <2>1 DEF MemoryInv, Mapped
<1>16. ASSUME ~ GrowsDown(t)
       PROVE  /\ Mapped' = (Mapped \ Range(v)) \cup Range(tg)
              /\ \A a \in Addr : mem'[a] = IF a \in Range(tg) THEN mem[a - b + v.start]
                                           ELSE IF a \in Range(v) THEN Empty ELSE mem[a]
  <2>1. old = v.start
    BY <1>4, <1>16
  <2>2. \A a : a \in old .. (old + len) - 1 <=> a \in Range(v)
    BY <1>6, <1>8, <2>1, RangeIs
  <2>3. \A a \in Range(tg) : a \notin Range(v)
    BY <1>6, RangeIs, SaneNumbers DEF Apart
  <2>4. Mapped' = (Mapped \ Range(v)) \cup Range(tg)
    BY <1>10, <2>2, <2>3 DEF Mapped
  <2>5. old + len <= b \/ b + len <= old
    BY <1>6, <1>8, <2>1 DEF Apart
  <2>6. \A a \in Addr : g[a] = IF b <= a /\ a < b + len THEN mem[a - b + old]
                               ELSE IF old <= a /\ a < old + len THEN Empty ELSE mem[a]
    BY <1>11, <2>5 DEF Moved
  <2>7. ASSUME NEW a \in Addr
        PROVE  /\ b <= a /\ a < b + len <=> a \in Range(tg)
               /\ old <= a /\ a < old + len <=> a \in Range(v)
    <3>1. a \in Int
      BY DEF Addr, MoveAssumption
    <3>. QED
      BY <1>6, <1>8, <2>1, <3>1, RangeIs
  <2>. QED
    BY <1>12, <2>1, <2>4, <2>6, <2>7
<1>. QED
  BY <1>2, <1>12, <1>13, <1>15, <1>16 DEF v, tg, b

\* A move that is cut short after n pages, or whose do_munmap fails.
Stays(t, kept) == IF kept THEN RemapKeepsOld(t) ELSE RemapShort(t)

LEMMA StaysEffect ==
  ASSUME MoveAssumption, MemoryInv, CallInv, NEW t \in Task, NEW kept \in BOOLEAN, Stays(t, kept)
  PROVE  LET v == vma[ovma[t]]
             tg == Target(t)
         IN  /\ Prepared(t)
             /\ MemoryInv'
             /\ Contents(mem') = Contents(mem)
             /\ ~ GrowsDown(t) =>
                  /\ Mapped' = Mapped \cup Range(tg)
                  /\ \E n \in 0 .. Size(v) :
                       /\ kept => n = Size(v)
                       /\ \A a \in Addr :
                            mem'[a] = IF to[t] <= a /\ a < to[t] + n THEN mem[a - to[t] + v.start]
                                      ELSE IF v.start <= a /\ a < v.start + n THEN Empty
                                      ELSE mem[a]
<1>. DEFINE v == vma[ovma[t]]
            tg == Target(t)
            len == Size(v)
            b == to[t]
<1>1. copy_vma(t) # {} /\ Remapping(t, IF kept THEN "kept" ELSE "user")
  BY DEF Stays, RemapKeepsOld, RemapShort
<1>2. Prepared(t)
  BY <1>1, TargetIs
<1>6. /\ Sane(v) /\ Sane(tg) /\ tg.start = b /\ tg.end = b + len /\ len \in Nat \ {0}
      /\ b \in Nat /\ Apart(v, tg)
  BY <1>2 DEF Prepared, Target
<1>3. PICK new \in copy_vma(t), n \in 0 .. len :
        /\ kept => n = len
        /\ vma' = new.structs
        /\ mem' = move_page_tables(mem, OldStart(t, new), b, n)
  <2>1. CASE kept
    <3>1. PICK new \in copy_vma(t) : /\ vma' = new.structs
                                     /\ mem' = move_page_tables(mem, OldStart(t, new), b, len)
      BY <2>1 DEF Stays, RemapKeepsOld
    <3>2. len \in 0 .. len
      BY <1>6
    <3>. QED
      BY <3>1, <3>2
  <2>2. CASE ~ kept
    <3>1. PICK new \in copy_vma(t), n \in 0 .. len - 1 :
            /\ vma' = new.structs
            /\ mem' = move_page_tables(mem, OldStart(t, new), b, n)
      BY <2>2 DEF Stays, RemapShort
    <3>2. n \in 0 .. len
      BY <1>6, <3>1
    <3>. QED
      BY <2>2, <3>1, <3>2
  <2>. QED
    BY <2>1, <2>2
<1>. DEFINE old == OldStart(t, new)
            g == move_page_tables(mem, old, b, n)
<1>4. /\ Sound(vma')
      /\ MappedBy(vma') = Mapped \cup Range(tg)
      /\ old = v.start \/ GrowsDown(t)
  BY <1>2, <1>3, OldStartIs
<1>5. Movable(mem, old, b, len)
  BY <1>2, StretchMovable
<1>8. v.start \in Nat /\ v.end \in Nat /\ len = v.end - v.start
  BY <1>6, SaneNumbers DEF Size
<1>12. mem' = g
  BY <1>3
<1>. HIDE DEF v, tg, len, b, old
<1>9. n \in 0 .. len /\ n \in Nat /\ n <= len /\ (kept => n = len)
  BY <1>3, <1>6
<1>11. Moved(g, mem, old, b, len, n)
  BY <1>5, <1>9, MoveDoes
<1>. HIDE DEF g
<1>13. /\ g \in Memory /\ Contents(g) = Contents(mem)
       /\ \A a \in Addr : g[a] # Empty => (b <= a /\ a < b + n) \/ mem[a] # Empty
  BY <1>11 DEF Moved
<1>14. ASSUME NEW a \in Addr, g[a] # Empty PROVE a \in MappedBy(vma')
  <2>1. a \in Int
    BY DEF Addr, MoveAssumption
  <2>2. a < b + n => a < b + len
    BY <1>6, <1>9, <2>1
  <2>3. a \in Mapped \cup Range(tg)
    BY <1>6, <1>13, <1>14, <2>1, <2>2, RangeIs DEF MemoryInv
  <2>. QED
    BY <1>4, <2>3
<1>15. MemoryInv'
  <2>1. mem' \in Memory /\ \A a \in Addr : mem'[a] # Empty => a \in MappedBy(vma')
    BY <1>12, <1>13, <1>14
  <2>. QED
    BY <1>4, <2>1 DEF MemoryInv, Mapped
<1>16. ASSUME ~ GrowsDown(t)
       PROVE  /\ Mapped' = Mapped \cup Range(tg)
              /\ \A a \in Addr : mem'[a] = IF b <= a /\ a < b + n THEN mem[a - b + v.start]
                                           ELSE IF v.start <= a /\ a < v.start + n THEN Empty
                                           ELSE mem[a]
  <2>1. old = v.start
    BY <1>4, <1>16
  <2>2. old + len <= b \/ b + len <= old
    BY <1>6, <1>8, <2>1 DEF Apart
  <2>. QED
    BY <1>4, <1>11, <1>12, <2>1, <2>2 DEF Moved, Mapped
<1>. QED
  BY <1>2, <1>9, <1>12, <1>13, <1>15, <1>16 DEF v, tg, b, len

LEMMA MmapEffect ==
  ASSUME MoveAssumption, MemoryInv, NEW s \in Addr, NEW e \in s + 1 .. Top, Mmap(s, e)
  PROVE  /\ MemoryInv' /\ mem' = mem
         /\ Mapped' = Mapped \cup s .. e - 1
<1>. DEFINE v == [start |-> s, end |-> e, shift |-> 0, anon |-> FALSE]
<1>1. s \in Nat /\ e \in Nat /\ s < e /\ e <= Top
  BY DEF Addr, MoveAssumption
<1>2. Sane(v) /\ v.start = s /\ v.end = e
  <2>1. 0 \in Int /\ 0 <= s - 0 /\ e - 0 <= Top /\ FALSE \in BOOLEAN
    BY <1>1
  <2>2. Sane(v)
    BY <1>1, <2>1, SaneRecord
  <2>. QED
    BY <2>2
<1>3. ~ Overlaps(vma, v.start, v.end) /\ mem' = mem
  BY DEF Mmap
<1>4. PICK new \in Placements(vma, v) : vma' = new.structs
  BY DEF Mmap
<1>5. Range(v) = s .. e - 1
  BY DEF Range
<1>. HIDE DEF v
<1>6. Sound(vma)
  BY DEF MemoryInv
<1>7. PICK w : PlacedAs(vma, v, new, w)
  BY <1>2, <1>3, <1>6, Placed
<1>8. Sound(vma') /\ MappedBy(vma') = Mapped \cup s .. e - 1
  BY <1>2, <1>4, <1>5, <1>6, <1>7, PlacedSound DEF Mapped
<1>. QED
  BY <1>3, <1>8 DEF MemoryInv, Mapped

LEMMA MunmapEffect ==
  ASSUME MoveAssumption, MemoryInv, NEW s \in Addr, NEW e \in s + 1 .. Top, Munmap(s, e)
  PROVE  /\ MemoryInv' /\ Mapped' = Mapped \ (s .. e - 1)
         /\ mem' = Zapped(mem, s, e)
<1>1. s \in Int /\ e \in Int /\ s < e /\ Sound(vma) /\ mem \in Memory
  BY DEF Addr, MoveAssumption, MemoryInv
<1>. DEFINE cut == do_munmap(vma, s, e)
            split == {i \in Live(vma) : vma[i].start < s /\ e < vma[i].end}
<1>2. /\ IF split = {} THEN vma' = cut
         ELSE \E i \in split, j \in Struct \ Live(vma) :
                vma' = [cut EXCEPT ![j] = [vma[i] EXCEPT !.start = e]]
      /\ mem' = Zapped(mem, s, e)
  BY DEF Munmap
<1>3. Sound(vma') /\ MappedBy(vma') = MappedBy(vma) \ (s .. e - 1)
  <2>1. CASE split = {}
    <3>1. \A i \in Live(vma) : ~ Splits(vma[i], s, e)
      BY <2>1 DEF Splits
    <3>2. vma' = cut
      BY <1>2, <2>1
    <3>. QED
      BY <1>1, <3>1, <3>2, CutSound
  <2>2. CASE split # {}
    <3>1. PICK i \in split, j \in Struct \ Live(vma) :
            vma' = [cut EXCEPT ![j] = [vma[i] EXCEPT !.start = e]]
      BY <1>2, <2>2
    <3>2. i \in Live(vma) /\ Splits(vma[i], s, e)
      BY DEF Splits
    <3>3. vma' = InTwo(vma, s, e, i, j)
      BY <3>1 DEF InTwo
    <3>. QED
      BY <1>1, <3>2, <3>3, SplitSound
  <2>. QED
    BY <2>1, <2>2
<1>4. mem' \in Memory /\ \A a \in Addr : mem'[a] # Empty => a \in MappedBy(vma')
  <2>1. mem' \in Memory
    BY <1>1, <1>2 DEF Zapped, Memory
  <2>2. \A a \in Addr : mem'[a] # Empty => mem[a] # Empty /\ a \notin s .. e - 1
    BY <1>2, ZappedIs
  <2>. QED
    BY <1>3, <2>1, <2>2 DEF MemoryInv, Mapped
<1>. QED
  BY <1>2, <1>3, <1>4 DEF MemoryInv, Mapped

LEMMA WriteEffect ==
  ASSUME MoveAssumption, MemoryInv, NEW a \in Addr, NEW c \in Content, Write(a, c)
  PROVE  /\ MemoryInv' /\ Mapped' = Mapped
         /\ a \in Mapped /\ mem[a] = Empty /\ mem' = [mem EXCEPT ![a] = c]
<1>1. PICK i \in Live(vma) : a \in Range(vma[i]) /\ vma' = [vma EXCEPT ![i].anon = TRUE]
  BY DEF Write
<1>2. mem[a] = Empty /\ mem' = [mem EXCEPT ![a] = c] /\ Sound(vma) /\ mem \in Memory
  BY DEF Write, MemoryInv
<1>3. i \in Struct /\ Sane(vma[i]) /\ vma[i] # NULL
  BY <1>2, LiveSane
<1>. DEFINE w == Written(vma[i])
<1>4. Sane(w) /\ w.start = vma[i].start /\ w.end = vma[i].end
  BY <1>3, WrittenSane
<1>5. w # NULL /\ w \in Vma
  BY <1>4, SaneNumbers DEF Sane
<1>6. vma' = [vma EXCEPT ![i] = w]
  BY <1>1 DEF Written
<1>. HIDE DEF w
<1>7. /\ vma' \in [Struct -> Vma \cup {NULL}] /\ vma'[i] = w
      /\ \A k \in Struct \ {i} : vma'[k] = vma[k]
      /\ \A k : k \in Live(vma') <=> k \in Live(vma)
  BY <1>2, <1>3, <1>5, <1>6 DEF Sound, Live
<1>8. \A k \in Live(vma) : Sane(vma'[k]) /\ vma'[k].start = vma[k].start /\ vma'[k].end = vma[k].end
  <2>1. ASSUME NEW k \in Live(vma)
        PROVE  Sane(vma'[k]) /\ vma'[k].start = vma[k].start /\ vma'[k].end = vma[k].end
    <3>1. CASE k = i
      BY <1>4, <1>5, <1>7, <3>1
    <3>2. CASE k # i
      BY <1>2, <1>7, <3>2, LiveSane
    <3>. QED
      BY <3>1, <3>2
  <2>. QED
    BY <2>1
<1>9. Sound(vma')
  BY <1>2, <1>7, <1>8 DEF Sound, Apart
<1>10. MappedBy(vma') = MappedBy(vma)
  <2>1. \A k \in Live(vma) : Range(vma'[k]) = Range(vma[k])
    BY <1>8 DEF Range
  <2>2. \A x : x \in MappedBy(vma') <=> x \in MappedBy(vma)
    BY <1>7, <2>1, MappedIs
  <2>. QED
    BY <2>2
<1>11. a \in MappedBy(vma)
  BY <1>1, MappedIs
<1>12. mem' \in Memory /\ \A x \in Addr : mem'[x] # Empty => x \in MappedBy(vma')
  <2>1. mem' \in Memory
    BY <1>2 DEF Memory
  <2>2. \A x \in Addr : x # a => mem'[x] = mem[x]
    BY <1>2 DEF Memory
  <2>. QED
    BY <1>10, <1>11, <2>1, <2>2 DEF MemoryInv, Mapped
<1>. QED
  BY <1>2, <1>9, <1>10, <1>11, <1>12 DEF MemoryInv, Mapped

-----------------------------------------------------------------------------
(***************************************************************************)
(* The invariant is kept.                                                  *)
(***************************************************************************)
VmaInv == MemoryInv /\ CallInv

LEMMA InitVma == ASSUME MoveAssumption, Init PROVE VmaInv
<1>1. Sound(vma)
  BY DEF Init, Sound, Live
<1>2. mem \in Memory /\ \A a \in Addr : mem[a] = Empty
  BY DEF Init, Memory
<1>3. 0 \in Addr /\ 0 \in -Top .. 2 * Top /\ 0 \in 0 .. 2 * Top + Wrap
  BY DEF MoveAssumption, Addr
<1>4. CallInv
  BY <1>3 DEF Init, CallInv, Under
<1>. QED
  BY <1>1, <1>2, <1>4 DEF VmaInv, MemoryInv

\* The steps of a call that do not change the memory.
Quiet(t) ==
  \/ \E a \in Addr : \/ FindMiss(t, a)
                     \/ MVE_VMA(t, a)
                     \/ \E b \in Dest : MVE_VMA_TO(t, a, b)
  \/ GetUnmappedArea(t) \/ NoUnmappedArea(t) \/ TellAddress(t) \/ TellFault(t)
  \/ RemapRefused(t) \/ RemapAstray(t) \/ Return(t) \/ Oops(t)

LEMMA CallIs ==
  ASSUME NEW t \in Task, Call(t)
  PROVE  \/ Quiet(t) /\ UNCHANGED <<alone, vma, mem>>
         \/ Remap(t)
         \/ \E kept \in BOOLEAN : Stays(t, kept)
<1>1. RemapShort(t) \/ RemapKeepsOld(t) => \E kept \in BOOLEAN : Stays(t, kept)
  BY DEF Stays
<1>. QED
  BY <1>1 DEF Call, Quiet, FindMiss, MVE_VMA, MVE_VMA_TO, GetUnmappedArea, NoUnmappedArea,
     TellAddress, TellFault, RemapRefused, RemapAstray, Return, Oops, memory

LEMMA SameMemory ==
  ASSUME MemoryInv, UNCHANGED <<vma, mem>>
  PROVE  MemoryInv' /\ Mapped' = Mapped
BY DEF MemoryInv, Mapped

LEMMA OutsideKeeps ==
  ASSUME MoveAssumption, MemoryInv, Outside
  PROVE  MemoryInv' /\ UNCHANGED <<alone, pc, locals>>
<1>1. ASSUME NEW s \in Addr, NEW e \in s + 1 .. Top, Mmap(s, e)
      PROVE  MemoryInv' /\ UNCHANGED <<alone, pc, locals>>
  BY <1>1, MmapEffect DEF Mmap
<1>2. ASSUME NEW s \in Addr, NEW e \in s + 1 .. Top, Munmap(s, e)
      PROVE  MemoryInv' /\ UNCHANGED <<alone, pc, locals>>
  BY <1>2, MunmapEffect DEF Munmap
<1>3. ASSUME NEW a \in Addr, NEW c \in Content, Write(a, c)
      PROVE  MemoryInv' /\ UNCHANGED <<alone, pc, locals>>
  BY <1>3, WriteEffect DEF Write
<1>. QED
  BY <1>1, <1>2, <1>3 DEF Outside

LEMMA NextMemory ==
  ASSUME MoveAssumption, VmaInv, [Next]_vars
  PROVE  MemoryInv'
<1>1. MemoryInv /\ CallInv
  BY DEF VmaInv
<1>2. ASSUME NEW t \in Task, Call(t) PROVE MemoryInv'
  BY <1>1, <1>2, CallIs, SameMemory, RemapEffect, StaysEffect
<1>3. CASE UNCHANGED vars
  BY <1>1, <1>3, SameMemory DEF vars, memory
<1>. QED
  BY <1>1, <1>2, <1>3, OutsideKeeps DEF Next

LEMMA ForgetKeeps ==
  ASSUME MoveAssumption, CallInv, NEW t \in Task, Forget(t), alone' = alone,
         NEW here \in {"user", "oops", "astray"}, pc' = [pc EXCEPT ![t] = here]
  PROVE  CallInv'
<1>1. 0 \in Addr /\ 0 \in -Top .. 2 * Top /\ 0 \in 0 .. 2 * Top + Wrap
  BY DEF MoveAssumption, Addr
<1>. QED
  BY <1>1 DEF Forget, CallInv, Under

LEMMA RemapIs ==
  ASSUME NEW t \in Task, Remap(t)
  PROVE  /\ pc[t] = "remap" /\ pc' = [pc EXCEPT ![t] = "return"]
         /\ UNCHANGED <<alone, ovma, from, to, told>>
BY DEF Remap, Remapping, Holds, locals

LEMMA KeepsOldIs ==
  ASSUME NEW t \in Task, RemapKeepsOld(t)
  PROVE  /\ pc[t] = "remap" /\ pc' = [pc EXCEPT ![t] = "kept"]
         /\ UNCHANGED <<alone, ovma, from, to, told>>
BY DEF RemapKeepsOld, Remapping, Holds, locals

LEMMA ShortIs ==
  ASSUME NEW t \in Task, RemapShort(t)
  PROVE  /\ pc[t] = "remap" /\ pc' = [pc EXCEPT ![t] = "user"]
         /\ alone' = alone /\ Forget(t)
BY DEF RemapShort, Remapping, Holds

LEMMA CallKeeps ==
  ASSUME MoveAssumption, VmaInv, NEW t \in Task, Call(t)
  PROVE  CallInv'
<1>0. /\ CallInv /\ Top \in Nat \ {0} /\ Wrap \in Nat \ {0} /\ Sound(vma)
      /\ \A a : a \in Addr <=> a \in Nat /\ a < Top
  BY DEF VmaInv, MemoryInv, MoveAssumption, Addr
<1>1. ASSUME NEW a \in Addr, FindMiss(t, a) PROVE CallInv'
  BY <1>0, <1>1 DEF FindMiss, Enter, locals, CallInv, Under
<1>2. ASSUME NEW a \in Addr, NEW b \in Dest, MVE_VMA_TO(t, a, b) PROVE CallInv'
  <2>1. PICK i \in Live(vma) :
          /\ a \in Range(vma[i]) /\ pc' = [pc EXCEPT ![t] = "remap"]
          /\ ovma' = [ovma EXCEPT ![t] = i] /\ from' = [from EXCEPT ![t] = a]
          /\ to' = [to EXCEPT ![t] = b - (a - vma[i].start)]
          /\ told' = [told EXCEPT ![t] = b] /\ alone' = alone
    BY <1>2 DEF MVE_VMA_TO, Enter
  <2>2. i \in Struct /\ Sane(vma[i])
    BY <1>0, LiveSane
  <2>3. vma[i].start \in Nat /\ vma[i].start <= a
    BY <2>1, <2>2, RangeIs, SaneNumbers
  <2>4. b \in Nat /\ b < 2 * Top
    BY <1>0 DEF Dest
  <2>5. b - (a - vma[i].start) \in -Top .. 2 * Top /\ b \in 0 .. 2 * Top + Wrap
    BY <1>0, <2>3, <2>4
  <2>. QED
    BY <1>0, <2>1, <2>2, <2>5 DEF CallInv, Under
<1>3. ASSUME NEW a \in Addr, MVE_VMA(t, a) PROVE CallInv'
  <2>1. PICK i \in Live(vma) :
          /\ pc' = [pc EXCEPT ![t] = "area"] /\ ovma' = [ovma EXCEPT ![t] = i]
          /\ from' = [from EXCEPT ![t] = a] /\ UNCHANGED <<alone, to, told>>
    BY <1>3 DEF MVE_VMA, Enter
  <2>2. i \in Struct
    BY DEF Live
  <2>. QED
    BY <1>0, <2>1, <2>2 DEF CallInv, Under
<1>4. CASE GetUnmappedArea(t)
  <2>1. PICK b \in Addr : to' = [to EXCEPT ![t] = b]
    BY <1>4 DEF GetUnmappedArea
  <2>2. b \in -Top .. 2 * Top
    BY <1>0
  <2>3. pc[t] = "area" /\ pc' = [pc EXCEPT ![t] = "tell"] /\ UNCHANGED <<alone, ovma, from, told>>
    BY <1>4 DEF GetUnmappedArea, Holds
  <2>. QED
    BY <1>0, <2>1, <2>2, <2>3 DEF CallInv, Under
<1>5. CASE TellAddress(t)
  <2>1. /\ pc[t] = "tell" /\ pc' = [pc EXCEPT ![t] = "remap"] /\ UNCHANGED <<alone, ovma, from, to>>
        /\ told' = [told EXCEPT ![t] = to[t] + ((from[t] - vma[ovma[t]].start) % Wrap)]
        /\ vma[ovma[t]] # NULL
    BY <1>5 DEF TellAddress, Holds
  <2>2. to[t] \in Addr /\ from[t] \in Addr /\ ovma[t] \in Live(vma)
    BY <1>0, <2>1 DEF CallInv, Under, Live
  <2>3. vma[ovma[t]].start \in Nat
    BY <1>0, <2>2, LiveSane, SaneNumbers
  <2>. DEFINE d == from[t] - vma[ovma[t]].start
  <2>4. d \in Int
    BY <1>0, <2>2, <2>3
  <2>. HIDE DEF d
  <2>5. d % Wrap \in 0 .. Wrap - 1
    BY <1>0, <2>4
  <2>. DEFINE m == d % Wrap
  <2>. HIDE DEF m
  <2>6. to[t] + m \in 0 .. 2 * Top + Wrap
    BY <1>0, <2>2, <2>5 DEF m
  <2>7. told' = [told EXCEPT ![t] = to[t] + m]
    BY <2>1 DEF d, m
  <2>. QED
    BY <1>0, <2>1, <2>6, <2>7 DEF CallInv, Under
<1>6. CASE NoUnmappedArea(t) \/ TellFault(t) \/ RemapRefused(t) \/ RemapShort(t) \/ Return(t)
  <2>1. pc' = [pc EXCEPT ![t] = "user"] /\ Forget(t) /\ alone' = alone
    BY <1>6, ShortIs DEF NoUnmappedArea, TellFault, RemapRefused, Return, Fail
  <2>. QED
    BY <1>0, <2>1, ForgetKeeps
<1>7. CASE Oops(t) \/ RemapAstray(t)
  <2>1. PICK here \in {"oops", "astray"} :
          pc' = [pc EXCEPT ![t] = here] /\ Forget(t) /\ alone' = alone
    BY <1>7 DEF Oops, RemapAstray
  <2>. QED
    BY <1>0, <2>1, ForgetKeeps
<1>8. CASE Remap(t) \/ RemapKeepsOld(t)
  BY <1>0, <1>8, RemapIs, KeepsOldIs DEF CallInv, Under
<1>. QED
  BY <1>1, <1>2, <1>3, <1>4, <1>5, <1>6, <1>7, <1>8 DEF Call

LEMMA NextVma ==
  ASSUME MoveAssumption, VmaInv, [Next]_vars
  PROVE  VmaInv'
<1>1. MemoryInv'
  BY NextMemory
<1>2. UNCHANGED vars => CallInv'
  BY DEF vars, locals, VmaInv, CallInv, Under
<1>3. CASE Outside
  <2>1. UNCHANGED <<alone, pc, ovma, from, to, told>>
    BY <1>3, OutsideKeeps DEF VmaInv, locals
  <2>2. CallInv'
    BY <2>1 DEF VmaInv, CallInv, Under
  <2>. QED
    BY <1>1, <2>2 DEF VmaInv
<1>4. ASSUME NEW t \in Task, Call(t) PROVE VmaInv'
  BY <1>1, <1>4, CallKeeps DEF VmaInv
<1>. QED
  BY <1>1, <1>2, <1>3, <1>4 DEF Next, VmaInv

THEOREM MoveInvariance == Spec => []VmaInv
<1>1. Init => VmaInv
  BY MoveAssumption, InitVma
<1>2. VmaInv /\ [Next]_vars => VmaInv'
  BY MoveAssumption, NextVma
<1>. QED
  BY <1>1, <1>2, PTL DEF Spec

\* my_mremap, device_ioctl: every variable keeps its type; in particular the
\* page offset of an area stays in bounds however often it is moved, and the
\* address the caller is told is never negative.
THEOREM MoveTypeOK == Spec => []TypeOK
<1>1. VmaInv => TypeOK
  BY DEF VmaInv, MemoryInv, CallInv, TypeOK, Sound, Memory
<1>. QED
  BY <1>1, MoveInvariance, PTL

\* my_mremap: no two areas ever overlap and no page that holds something is
\* outside them, also when a move goes through a pointer to an area that was
\* unmapped, moved, cut or merged since it was found, until a call has gone
\* through a freed struct or beyond user space.
THEOREM MoveAreasDisjoint == Spec => []AreasDisjoint
<1>1. VmaInv => AreasDisjoint
  <2>. SUFFICES ASSUME VmaInv PROVE AreasDisjoint
    OBVIOUS
  <2>1. Sound(vma) /\ \A a \in Addr : mem[a] # Empty => a \in MappedBy(vma)
    BY DEF VmaInv, MemoryInv, Mapped
  <2>2. \A i \in Live(vma) : vma[i].start < vma[i].end
    BY <2>1 DEF Sound, Sane
  <2>3. ASSUME NEW i \in Live(vma), NEW j \in Live(vma), i # j
        PROVE  Range(vma[i]) \cap Range(vma[j]) = {}
    <3>1. Sane(vma[i]) /\ Sane(vma[j]) /\ Apart(vma[i], vma[j])
      BY <2>1, <2>3, LiveSane DEF Sound
    <3>2. /\ vma[i].start \in Nat /\ vma[i].end \in Nat
          /\ vma[j].start \in Nat /\ vma[j].end \in Nat
      BY <3>1, MoveAssumption, SaneNumbers
    <3>3. ASSUME NEW a, a \in Range(vma[i]), a \in Range(vma[j]) PROVE FALSE
      <4>1. /\ a \in Int /\ vma[i].start <= a /\ a < vma[i].end
            /\ vma[j].start <= a /\ a < vma[j].end
        BY <3>1, <3>3, MoveAssumption, RangeIs
      <4>. QED
        BY <3>1, <3>2, <4>1 DEF Apart
    <3>. QED
      BY <3>3
  <2>. QED
    BY <2>1, <2>2, <2>3 DEF AreasDisjoint
<1>. QED
  BY <1>1, MoveInvariance, PTL

\* my_mremap: no step of either ioctl loses what a page held, whatever the
\* pointer it goes through leads to by then, wherever move_page_tables stops
\* and whether or not do_munmap fails.  The steps after which the model ends
\* are excepted.
THEOREM MoveNothingLost == Spec => NothingLost
<1>1. VmaInv /\ [Next]_vars => [pc' # pc /\ Intact' => Held' = Held]_vars
  <2>. SUFFICES ASSUME VmaInv, Next, pc' # pc PROVE Held' = Held
    BY DEF vars
  <2>1. MemoryInv /\ CallInv
    BY DEF VmaInv
  <2>2. PICK t \in Task : Call(t)
    BY <2>1, MoveAssumption, OutsideKeeps DEF Next
  <2>3. Contents(mem') = Contents(mem)
    BY <2>1, <2>2, MoveAssumption, CallIs, RemapEffect, StaysEffect
  <2>. QED
    BY <2>3 DEF Held, Contents
<1>. QED
  BY <1>1, MoveInvariance, PTL DEF Spec, NothingLost

-----------------------------------------------------------------------------
(***************************************************************************)
(* A process with one thread: the area that was found is still the area of *)
(* the address when it is moved, and the caller was told the distance it   *)
(* moves by.                                                               *)
(***************************************************************************)
AloneInv == alone =>
  /\ \A t, u \in Task : pc[t] # "user" /\ pc[u] # "user" => t = u
  /\ \A t \in Task : pc[t] \in Under =>
       ovma[t] \in Live(vma) /\ from[t] \in Range(vma[ovma[t]])
  /\ \A t \in Task : pc[t] = "remap" /\ ~ Far(t) =>
       told[t] - from[t] = to[t] - vma[ovma[t]].start

\* The call of t goes on while the other tasks are outside the module.
OnlyOne(t, place) ==
  /\ pc' = [pc EXCEPT ![t] = place]
  /\ \A u \in Task \ {t} : pc[u] = "user"

LEMMA CallAlone ==
  ASSUME MoveAssumption, VmaInv, AloneInv, alone, NEW t \in Task, Call(t)
  PROVE  \A u \in Task \ {t} : pc[u] = "user"
<1>1. CASE pc[t] = "user"
  <2>1. alone => Nobody
    BY <1>1 DEF Call, FindMiss, MVE_VMA, MVE_VMA_TO, Enter, GetUnmappedArea, NoUnmappedArea,
       TellAddress, TellFault, RemapRefused, RemapShort, Remap, RemapKeepsOld, Remapping,
       RemapAstray, Return, Oops, Holds
  <2>. QED
    BY <2>1 DEF Nobody
<1>2. CASE pc[t] # "user"
  BY <1>2 DEF AloneInv
<1>. QED
  BY <1>1, <1>2

LEMMA AloneLeaves ==
  ASSUME VmaInv, alone, alone' = alone, NEW t \in Task, NEW place, place \notin Under,
         OnlyOne(t, place)
  PROVE  AloneInv'
<1>1. pc \in [Task -> {"user", "area", "tell", "remap", "return", "kept", "oops", "astray"}]
  BY DEF VmaInv, CallInv
<1>2. pc'[t] = place /\ \A u \in Task \ {t} : pc'[u] = "user"
  BY <1>1 DEF OnlyOne
<1>. QED
  BY <1>2 DEF AloneInv, Under

LEMMA AloneGoesOn ==
  ASSUME VmaInv, alone, alone' = alone, vma' = vma, NEW t \in Task, NEW place,
         OnlyOne(t, place),
         ovma'[t] \in Live(vma), from'[t] \in Range(vma[ovma'[t]]),
         place = "remap" /\ from'[t] - vma[ovma'[t]].start < Wrap =>
           told'[t] - from'[t] = to'[t] - vma[ovma'[t]].start,
         from'[t] - vma[ovma'[t]].start \in Int, Wrap \in Int
  PROVE  AloneInv'
<1>1. pc \in [Task -> {"user", "area", "tell", "remap", "return", "kept", "oops", "astray"}]
  BY DEF VmaInv, CallInv
<1>2. pc'[t] = place /\ \A u \in Task \ {t} : pc'[u] = "user"
  BY <1>1 DEF OnlyOne
<1>3. \A u, x \in Task : pc'[u] # "user" /\ pc'[x] # "user" => u = x
  BY <1>2
<1>4. \A u \in Task : pc'[u] \in Under => u = t
  BY <1>2 DEF Under
<1>5. vma[ovma[t]]' = vma[ovma'[t]]
  OBVIOUS
<1>6. ~ Far(t)' => from'[t] - vma[ovma'[t]].start < Wrap
  BY DEF Far
<1>7. pc'[t] = "remap" /\ ~ Far(t)' => told'[t] - from'[t] = to'[t] - vma'[ovma'[t]].start
  BY <1>2, <1>6
<1>8. \A u \in Task : pc'[u] = "remap" => u = t
  BY <1>4 DEF Under
<1>. QED
  BY <1>3, <1>4, <1>7, <1>8 DEF AloneInv, Far

LEMMA NextAlone ==
  ASSUME MoveAssumption, VmaInv, AloneInv, [Next]_vars
  PROVE  AloneInv'
<1>0. /\ CallInv /\ Top \in Nat \ {0} /\ Wrap \in Nat \ {0} /\ Sound(vma)
      /\ \A a : a \in Addr <=> a \in Nat /\ a < Top
  BY DEF VmaInv, MemoryInv, MoveAssumption, Addr
<1>1. alone' = alone
  <2>1. Outside => alone' = alone
    BY OutsideKeeps DEF VmaInv
  <2>2. ASSUME NEW t \in Task, Call(t) PROVE alone' = alone
    BY <2>2, CallIs, RemapIs, KeepsOldIs, ShortIs DEF Stays
  <2>. QED
    BY <2>1, <2>2 DEF Next, vars
<1>. SUFFICES ASSUME alone PROVE AloneInv'
  BY <1>1 DEF AloneInv
<1>2. CASE UNCHANGED vars
  BY <1>2 DEF AloneInv, vars, memory, locals, Far
<1>3. CASE Nobody /\ Outside
  <2>1. pc' = pc
    BY <1>3, OutsideKeeps DEF VmaInv
  <2>2. \A t \in Task : pc'[t] = "user"
    BY <1>3, <2>1 DEF Nobody
  <2>. QED
    BY <2>2 DEF AloneInv, Under
<1>4. ASSUME NEW t \in Task, Call(t) PROVE AloneInv'
  <2>0. \A u \in Task \ {t} : pc[u] = "user"
    BY <1>4, CallAlone
  <2>1. ASSUME NEW a \in Addr, FindMiss(t, a) PROVE AloneInv'
    <3>1. OnlyOne(t, "user")
      BY <2>0, <2>1 DEF FindMiss, Enter, OnlyOne
    <3>. QED
      BY <1>1, <3>1, AloneLeaves DEF Under
  <2>2. ASSUME NEW a \in Addr, NEW b \in Dest, MVE_VMA_TO(t, a, b) PROVE AloneInv'
    <3>1. PICK i \in Live(vma) :
            /\ a \in Range(vma[i]) /\ pc' = [pc EXCEPT ![t] = "remap"]
            /\ ovma' = [ovma EXCEPT ![t] = i] /\ from' = [from EXCEPT ![t] = a]
            /\ to' = [to EXCEPT ![t] = b - (a - vma[i].start)]
            /\ told' = [told EXCEPT ![t] = b] /\ vma' = vma
      BY <2>2 DEF MVE_VMA_TO, Enter, memory
    <3>2. /\ ovma'[t] = i /\ from'[t] = a /\ told'[t] = b
          /\ to'[t] = b - (a - vma[i].start)
      BY <1>0, <3>1 DEF CallInv
    <3>3. vma[i].start \in Nat /\ a \in Nat /\ b \in Nat
      BY <1>0, <3>1, LiveSane, SaneNumbers DEF Dest
    <3>4. b - a = b - (a - vma[i].start) - vma[i].start /\ a - vma[i].start \in Int
      BY <3>3
    <3>5. OnlyOne(t, "remap")
      BY <2>0, <3>1 DEF OnlyOne
    <3>. QED
      BY <1>0, <1>1, <3>1, <3>2, <3>4, <3>5, AloneGoesOn
  <2>3. ASSUME NEW a \in Addr, MVE_VMA(t, a) PROVE AloneInv'
    <3>1. PICK i \in Live(vma) :
            /\ a \in Range(vma[i]) /\ pc' = [pc EXCEPT ![t] = "area"]
            /\ ovma' = [ovma EXCEPT ![t] = i] /\ from' = [from EXCEPT ![t] = a] /\ vma' = vma
      BY <2>3 DEF MVE_VMA, Enter, memory
    <3>2. ovma'[t] = i /\ from'[t] = a
      BY <1>0, <3>1 DEF CallInv
    <3>3. vma[i].start \in Nat /\ a \in Nat
      BY <1>0, <3>1, LiveSane, SaneNumbers
    <3>4. OnlyOne(t, "area")
      BY <2>0, <3>1 DEF OnlyOne
    <3>. QED
      BY <1>0, <1>1, <3>1, <3>2, <3>3, <3>4, AloneGoesOn
  <2>4. CASE GetUnmappedArea(t)
    <3>1. /\ pc[t] = "area" /\ pc' = [pc EXCEPT ![t] = "tell"]
          /\ UNCHANGED <<vma, ovma, from>>
      BY <2>4 DEF GetUnmappedArea, Holds, memory
    <3>2. ovma[t] \in Live(vma) /\ from[t] \in Range(vma[ovma[t]])
      BY <3>1 DEF AloneInv, Under
    <3>3. from[t] \in Nat /\ vma[ovma[t]].start \in Nat
      BY <1>0, <3>2, LiveSane, SaneNumbers DEF CallInv
    <3>4. OnlyOne(t, "tell")
      BY <2>0, <3>1 DEF OnlyOne
    <3>. QED
      BY <1>0, <1>1, <3>1, <3>2, <3>3, <3>4, AloneGoesOn
  <2>5. CASE TellAddress(t)
    <3>1. /\ pc[t] = "tell" /\ pc' = [pc EXCEPT ![t] = "remap"]
          /\ UNCHANGED <<vma, ovma, from, to>>
          /\ told' = [told EXCEPT ![t] = to[t] + ((from[t] - vma[ovma[t]].start) % Wrap)]
      BY <2>5 DEF TellAddress, Holds, memory
    <3>2. ovma[t] \in Live(vma) /\ from[t] \in Range(vma[ovma[t]])
      BY <3>1 DEF AloneInv, Under
    <3>3. /\ from[t] \in Nat /\ vma[ovma[t]].start \in Nat /\ to[t] \in Int
          /\ vma[ovma[t]].start <= from[t]
      BY <1>0, <3>1, <3>2, LiveSane, SaneNumbers, RangeIs DEF CallInv
    <3>4. OnlyOne(t, "remap")
      BY <2>0, <3>1 DEF OnlyOne
    <3>. DEFINE s == vma[ovma[t]].start
                d == from[t] - s
    <3>5. told'[t] = to[t] + (d % Wrap)
      BY <1>0, <3>1 DEF CallInv
    <3>6. d \in Nat /\ d = from[t] - s /\ s \in Nat
      BY <3>3
    <3>7. from'[t] = from[t] /\ to'[t] = to[t] /\ ovma'[t] = ovma[t]
          /\ vma[ovma'[t]].start = s
      BY <3>1
    <3>. HIDE DEF s, d
    <3>8. d < Wrap => told'[t] - from[t] = to[t] - s
      <4>1. d < Wrap => d % Wrap = d
        BY <1>0, <3>6
      <4>. QED
        BY <3>3, <3>5, <3>6, <4>1
    <3>9. from'[t] - vma[ovma'[t]].start = d
      BY <3>6, <3>7
    <3>10. d < Wrap => told'[t] - from'[t] = to'[t] - vma[ovma'[t]].start
      BY <3>7, <3>8
    <3>11. ovma'[t] \in Live(vma) /\ from'[t] \in Range(vma[ovma'[t]])
      BY <3>2, <3>7
    <3>. QED
      BY <1>0, <1>1, <3>1, <3>4, <3>6, <3>9, <3>10, <3>11, AloneGoesOn
  <2>6. CASE NoUnmappedArea(t) \/ TellFault(t) \/ RemapRefused(t) \/ RemapShort(t) \/ Return(t)
    <3>1. OnlyOne(t, "user")
      BY <2>0, <2>6, ShortIs DEF NoUnmappedArea, TellFault, RemapRefused, Return, Fail, OnlyOne
    <3>. QED
      BY <1>1, <3>1, AloneLeaves DEF Under
  <2>7. CASE Oops(t) \/ RemapAstray(t)
    <3>1. OnlyOne(t, "oops") \/ OnlyOne(t, "astray")
      BY <2>0, <2>7 DEF Oops, RemapAstray, OnlyOne
    <3>. QED
      BY <1>1, <3>1, AloneLeaves DEF Under
  <2>8. CASE Remap(t) \/ RemapKeepsOld(t)
    <3>1. OnlyOne(t, "return") \/ OnlyOne(t, "kept")
      BY <2>0, <2>8, RemapIs, KeepsOldIs DEF OnlyOne
    <3>. QED
      BY <1>1, <3>1, AloneLeaves DEF Under
  <2>. QED
    BY <1>4, <2>1, <2>2, <2>3, <2>4, <2>5, <2>6, <2>7, <2>8 DEF Call
<1>. QED
  BY <1>2, <1>3, <1>4 DEF Next

LEMMA AloneInvariance == Spec => []AloneInv
<1>1. Init => AloneInv
  BY DEF Init, AloneInv, Under
<1>2. VmaInv /\ AloneInv /\ [Next]_vars => AloneInv'
  BY MoveAssumption, NextAlone
<1>. QED
  BY <1>1, <1>2, MoveInvariance, PTL DEF Spec

\* The task whose move has just worked.
LEMMA ReturnsFromRemap ==
  ASSUME VmaInv, Next, NEW t \in Task, pc[t] = "remap", pc'[t] \in {"return", "kept"}
  PROVE  IF pc'[t] = "kept" THEN RemapKeepsOld(t) ELSE Remap(t)
<1>0. pc \in [Task -> {"user", "area", "tell", "remap", "return", "kept", "oops", "astray"}]
  BY DEF VmaInv, CallInv
<1>1. Outside => FALSE
  BY MoveAssumption, OutsideKeeps DEF VmaInv
<1>2. PICK u \in Task : Call(u)
  BY <1>1 DEF Next
<1>3. ASSUME ~ Remap(u), ~ RemapKeepsOld(u)
      PROVE  \E place \in {"user", "area", "tell", "remap", "oops", "astray"} :
               pc' = [pc EXCEPT ![u] = place]
  BY <1>2, <1>3, ShortIs DEF Call, FindMiss, MVE_VMA, MVE_VMA_TO, Enter, GetUnmappedArea,
     NoUnmappedArea, TellAddress, TellFault, RemapRefused, RemapAstray, Return, Oops, Fail
<1>4. Remap(u) \/ RemapKeepsOld(u)
  BY <1>0, <1>3
<1>5. u = t
  BY <1>0, <1>4, RemapIs, KeepsOldIs
<1>. QED
  BY <1>0, <1>4, <1>5, RemapIs, KeepsOldIs

\* my_mremap, IOCTL_MVE_VMA and IOCTL_MVE_VMA_TO: a move within user space
\* that returns 0 in a process with one thread has taken exactly the area of
\* the address, by the distance the caller was told, each page with what it
\* held; the old range is unmapped unless do_munmap has failed.  The areas
\* that grow downwards and the distances that do not fit delta are excepted.
THEOREM MoveMovesWhole == Spec => MovesWhole
<1>. DEFINE Whole(t) ==
       LET old  == Range(vma[ovma[t]])
           d    == told[t] - from[t]
           new  == {a + d : a \in old}
           gone == IF pc'[t] = "kept" THEN {} ELSE old
       IN  /\ from[t] \in old
           /\ Mapped' = (Mapped \ gone) \cup new
           /\ \A a \in old : mem'[a + d] = mem[a]
           /\ \A a \in Addr \ (old \cup new) : mem'[a] = mem[a]
<1>1. ASSUME VmaInv, AloneInv, Next, NEW t \in Task,
             alone, pc[t] = "remap", pc'[t] \in {"return", "kept"}, ~ GrowsDown(t), ~ Far(t)
      PROVE  Whole(t)
  <2>. DEFINE v == vma[ovma[t]]
              tg == Target(t)
              b == to[t]
              d == told[t] - from[t]
              gone == IF pc'[t] = "kept" THEN {} ELSE Range(v)
  <2>0. MemoryInv /\ CallInv
    BY <1>1 DEF VmaInv
  <2>1. IF pc'[t] = "kept" THEN Stays(t, TRUE) ELSE Remap(t)
    BY <1>1, ReturnsFromRemap DEF Stays
  <2>2. from[t] \in Range(v) /\ d = b - v.start
    BY <1>1 DEF AloneInv, Under
  <2>3. Prepared(t)
    BY <2>0, <2>1, MoveAssumption, RemapEffect, StaysEffect
  <2>4. /\ Sane(v) /\ Sane(tg) /\ tg.start = b /\ tg.end = b + Size(v) /\ b \in Nat
    BY <2>3 DEF Prepared, Target
  <2>5. v.start \in Nat /\ v.end \in Nat /\ Size(v) = v.end - v.start
    BY <2>4, MoveAssumption, SaneNumbers DEF Size
  <2>6. /\ Mapped' = (Mapped \ gone) \cup Range(tg)
        /\ \A a \in Addr : mem'[a] = IF a \in Range(tg) THEN mem[a - b + v.start]
                                     ELSE IF a \in Range(v) THEN Empty ELSE mem[a]
    <3>1. CASE pc'[t] # "kept"
      BY <1>1, <2>0, <2>1, <3>1, MoveAssumption, RemapEffect
    <3>2. CASE pc'[t] = "kept"
      <4>1. /\ Mapped' = Mapped \cup Range(tg)
            /\ \A a \in Addr :
                 mem'[a] = IF b <= a /\ a < b + Size(v) THEN mem[a - b + v.start]
                           ELSE IF v.start <= a /\ a < v.start + Size(v) THEN Empty
                           ELSE mem[a]
        BY <1>1, <2>0, <2>1, <3>2, MoveAssumption, StaysEffect
      <4>. HIDE DEF v, tg, b
      <4>2. ASSUME NEW a \in Addr
            PROVE  /\ b <= a /\ a < b + Size(v) <=> a \in Range(tg)
                   /\ v.start <= a /\ a < v.start + Size(v) <=> a \in Range(v)
        <5>1. a \in Int
          BY MoveAssumption DEF Addr, MoveAssumption
        <5>. QED
          BY <2>4, <2>5, <5>1, MoveAssumption, RangeIs
      <4>. QED
        BY <3>2, <4>1, <4>2
    <3>. QED
      BY <3>1, <3>2
  <2>. HIDE DEF v, tg, b, d, gone
  <2>7. d \in Int
    BY <2>2, <2>4, <2>5
  <2>8. /\ \A a \in Range(v) : a \in Int /\ a + d \in Range(tg) /\ (a + d) - b + v.start = a
        /\ \A c \in Range(tg) : c - d \in Range(v) /\ (c - d) + d = c
    BY <2>2, <2>4, <2>5, MoveAssumption, RangeIs
  <2>9. {a + d : a \in Range(v)} = Range(tg)
    BY <2>8
  <2>10. Range(tg) \subseteq Addr
    BY <2>4, MoveAssumption, RangeIs
  <2>11. \A a \in Range(v) : mem'[a + d] = mem[a]
    BY <2>6, <2>8, <2>10
  <2>12. \A a \in Addr \ (Range(v) \cup Range(tg)) : mem'[a] = mem[a]
    BY <2>6
  <2>. QED
    BY <2>2, <2>6, <2>9, <2>11, <2>12 DEF v, d, gone
<1>2. VmaInv /\ AloneInv /\ [Next]_vars => [\A t \in Task :
        /\ alone /\ pc[t] = "remap" /\ pc'[t] \in {"return", "kept"}
        /\ ~ GrowsDown(t) /\ ~ Far(t)
        => Whole(t)]_vars
  BY <1>1
<1>. QED
  BY <1>2, MoveInvariance, AloneInvariance, PTL DEF Spec, MovesWhole

-----------------------------------------------------------------------------
(***************************************************************************)
(* AddressSpace is implemented: one lemma for each of its operations.      *)
(***************************************************************************)
LEMMA StretchIs ==
  ASSUME MoveAssumption, NEW s \in Addr, NEW e \in 1 .. Top
  PROVE  s .. e - 1 \in Space!Stretch
<1>1. e - 1 \in Addr
  BY DEF Addr, MoveAssumption
<1>. QED
  BY <1>1 DEF Space!Stretch

LEMMA RangeStretch ==
  ASSUME MoveAssumption, NEW v, Sane(v)
  PROVE  Range(v) \in Space!Stretch
BY StretchIs DEF Sane, Vma, Range

LEMMA InitIsSpaceInit == ASSUME Init PROVE Space!Init
<1>1. MappedBy(vma) = {}
  BY DEF Init, MappedBy, Live
<1>. QED
  BY <1>1 DEF Init, Space!Init, Mapped

LEMMA MmapIsMap ==
  ASSUME MoveAssumption, MemoryInv, NEW s \in Addr, NEW e \in s + 1 .. Top, Mmap(s, e)
  PROVE  Space!Map
<1>1. s \in Nat /\ e \in 1 .. Top /\ Sound(vma) /\ ~ Overlaps(vma, s, e)
  BY DEF Addr, MoveAssumption, MemoryInv, Mmap
<1>2. Mapped' = Mapped \cup s .. e - 1 /\ mem' = mem
  BY MmapEffect
<1>3. ASSUME NEW a \in s .. e - 1, a \in Mapped PROVE FALSE
  <2>1. PICK i \in Live(vma) : a \in Range(vma[i])
    BY <1>3, MappedIs DEF Mapped
  <2>2. /\ a \in Int /\ s <= a /\ a < e /\ vma[i].start <= a /\ a < vma[i].end
        /\ vma[i].start \in Nat /\ vma[i].end \in Nat
    BY <1>1, <2>1, LiveSane, RangeIs, SaneNumbers
  <2>3. vma[i].start < e /\ s < vma[i].end
    BY <1>1, <2>2
  <2>. QED
    BY <1>1, <2>3 DEF Overlaps
<1>4. Mapped \ Mapped' = {} /\ Mapped' \ Mapped = s .. e - 1
  BY <1>2, <1>3
<1>. QED
  BY <1>1, <1>2, <1>4, StretchIs DEF Space!Map, Space!Gone, Space!New

LEMMA MunmapIsUnmap ==
  ASSUME MoveAssumption, MemoryInv, NEW s \in Addr, NEW e \in s + 1 .. Top, Munmap(s, e)
  PROVE  Space!Unmap
<1>1. Mapped' = Mapped \ (s .. e - 1) /\ mem' = Zapped(mem, s, e)
  BY MunmapEffect
<1>2. \A a \in Addr : mem[a] # Empty => a \in Mapped
  BY DEF MemoryInv
<1>3. \A a \in Addr : mem'[a] = IF a \in Mapped' THEN mem[a] ELSE Empty
  BY <1>1, <1>2, ZappedIs
<1>4. mem' = [a \in Addr |-> mem'[a]]
  BY <1>1, ZappedIs
<1>5. mem' = [a \in Addr |-> IF a \in Mapped' THEN mem[a] ELSE Empty]
  BY <1>3, <1>4
<1>. QED
  BY <1>1, <1>5 DEF Space!Unmap, Space!New

LEMMA WriteIsFill ==
  ASSUME MoveAssumption, MemoryInv, NEW a \in Addr, NEW c \in Content, Write(a, c)
  PROVE  Space!Fill(a, c)
BY WriteEffect DEF Space!Fill

\* Where the area is and where it goes.
LEMMA PreparedPlaces ==
  ASSUME MoveAssumption, MemoryInv, NEW t \in Task, Prepared(t)
  PROVE  LET v == vma[ovma[t]]
             tg == Target(t)
             d == to[t] - v.start
         IN  /\ v.start \in Addr /\ to[t] \in Addr /\ d \in {b - a : a \in Addr, b \in Addr}
             /\ Range(v) \subseteq Mapped /\ Range(tg) \cap Mapped = {}
             /\ Range(v) \in Space!Stretch /\ Range(tg) \in Space!Stretch
             /\ \A a : a \in Range(v) => a \in Addr /\ a + d \in Range(tg) /\ (a + d) - d = a
             /\ \A a : a \in Range(tg) => a \in Addr /\ a - d \in Range(v) /\ (a - d) + d = a
             /\ \A a \in Addr : a + d \in Range(tg) => a \in Range(v)
             /\ \A a \in Addr : a - to[t] + v.start = a - d
<1>. DEFINE v == vma[ovma[t]]
            tg == Target(t)
            b == to[t]
            len == Size(v)
            d == b - v.start
<1>1. /\ ovma[t] \in Live(vma) /\ Sane(v) /\ Sane(tg) /\ tg.start = b /\ tg.end = b + len
      /\ b \in Nat /\ len \in Nat \ {0} /\ b + len <= Top /\ Range(tg) \cap Mapped = {}
  BY DEF Prepared, Target
<1>2. v.start \in Nat /\ v.end \in Nat /\ v.end <= Top /\ len = v.end - v.start /\ Top \in Nat
  BY <1>1, SaneNumbers DEF Size
<1>3. Range(v) \subseteq Mapped
  BY <1>1 DEF Mapped, MappedBy
<1>4. Range(v) \in Space!Stretch /\ Range(tg) \in Space!Stretch
  BY <1>1, RangeStretch
<1>. HIDE DEF v, tg, b, len
<1>5. v.start \in Addr /\ b \in Addr
  BY <1>1, <1>2 DEF Addr
<1>6. d \in {y - x : x \in Addr, y \in Addr}
  BY <1>5
<1>7. /\ \A a : a \in Range(v) => a \in Addr /\ a + d \in Range(tg) /\ (a + d) - d = a
      /\ \A a : a \in Range(tg) => a \in Addr /\ a - d \in Range(v) /\ (a - d) + d = a
  BY <1>1, <1>2, RangeIs
<1>8. ASSUME NEW a \in Addr PROVE (a + d \in Range(tg) => a \in Range(v)) /\ a - b + v.start = a - d
  <2>1. a \in Int
    BY DEF Addr, MoveAssumption
  <2>. QED
    BY <1>1, <1>2, <2>1, RangeIs
<1>. QED
  BY <1>1, <1>3, <1>4, <1>5, <1>6, <1>7, <1>8 DEF v, tg, b

LEMMA RemapIsMove ==
  ASSUME MoveAssumption, MemoryInv, CallInv, NEW t \in Task, Remap(t), ~ GrowsDown(t)
  PROVE  Space!Move(to[t] - vma[ovma[t]].start)
<1>. DEFINE v == vma[ovma[t]]
            tg == Target(t)
            d == to[t] - v.start
<1>1. /\ Prepared(t)
      /\ mem' \in Memory
      /\ Mapped' = (Mapped \ Range(v)) \cup Range(tg)
      /\ \A a \in Addr : mem'[a] = IF a \in Range(tg) THEN mem[a - to[t] + v.start]
                                   ELSE IF a \in Range(v) THEN Empty ELSE mem[a]
  BY RemapEffect DEF MemoryInv
<1>2. /\ Range(v) \subseteq Mapped /\ Range(tg) \cap Mapped = {}
      /\ Range(v) \in Space!Stretch
      /\ \A a : a \in Range(v) => a + d \in Range(tg)
      /\ \A a : a \in Range(tg) => a - d \in Range(v) /\ (a - d) + d = a
      /\ \A a \in Addr : a - to[t] + v.start = a - d
  BY <1>1, PreparedPlaces
<1>. HIDE DEF v, tg, d
<1>3. Mapped \ Mapped' = Range(v) /\ Mapped' \ Mapped = Range(tg)
  BY <1>1, <1>2
<1>4. Range(tg) = {a + d : a \in Range(v)}
  BY <1>2
<1>5. \A a \in Addr : mem'[a] = IF a \in Range(v) THEN Empty
                                ELSE IF a \in Range(tg) THEN mem[a - d] ELSE mem[a]
  BY <1>1, <1>2
<1>6. mem' = [a \in Addr |-> mem'[a]]
  BY <1>1 DEF Memory
<1>7. mem' = [a \in Addr |-> IF a \in Range(v) THEN Empty
                             ELSE IF a \in Range(tg) THEN mem[a - d] ELSE mem[a]]
  BY <1>5, <1>6
<1>8. Space!Move(d)
  BY <1>2, <1>3, <1>4, <1>7 DEF Space!Move, Space!Gone, Space!New
<1>. QED
  BY <1>8 DEF d, v

LEMMA StaysIsGiveUp ==
  ASSUME MoveAssumption, MemoryInv, CallInv, NEW t \in Task, NEW kept \in BOOLEAN,
         Stays(t, kept), ~ GrowsDown(t)
  PROVE  \E moved \in SUBSET Space!New : Space!GiveUp(to[t] - vma[ovma[t]].start, moved)
<1>. DEFINE v == vma[ovma[t]]
            tg == Target(t)
            b == to[t]
            len == Size(v)
            d == b - v.start
<1>1. /\ Prepared(t) /\ mem' \in Memory
      /\ Mapped' = Mapped \cup Range(tg)
  BY StaysEffect DEF MemoryInv
<1>2. PICK n \in 0 .. len : \A a \in Addr :
        mem'[a] = IF b <= a /\ a < b + n THEN mem[a - b + v.start]
                  ELSE IF v.start <= a /\ a < v.start + n THEN Empty ELSE mem[a]
  BY StaysEffect
<1>3. /\ Range(v) \subseteq Mapped /\ Range(tg) \cap Mapped = {}
      /\ Range(tg) \in Space!Stretch
      /\ \A a : a \in Range(v) => a + d \in Range(tg)
      /\ \A a : a \in Range(tg) => a \in Addr /\ a - d \in Range(v)
      /\ \A a \in Addr : a + d \in Range(tg) => a \in Range(v)
      /\ \A a \in Addr : a - b + v.start = a - d
  BY <1>1, PreparedPlaces
<1>4. /\ Sane(v) /\ Sane(tg) /\ tg.start = b /\ tg.end = b + len
      /\ b \in Nat /\ len \in Nat \ {0} /\ b + len <= Top
  BY <1>1 DEF Prepared, Target
<1>5. v.start \in Nat /\ v.end \in Nat /\ len = v.end - v.start /\ Top \in Nat
  BY <1>4, SaneNumbers DEF Size
<1>6. \A a \in Addr : a \in Int /\ (mem[a] # Empty => a \in Mapped)
  BY DEF MemoryInv, Addr, MoveAssumption
<1>. HIDE DEF v, tg, b, len
<1>7. n \in Nat /\ n <= len
  BY <1>4
<1>. DEFINE moved == {a \in Range(tg) : a < b + n}
<1>8. Mapped \ Mapped' = {} /\ Mapped' \ Mapped = Range(tg)
  BY <1>1, <1>3
<1>9. ASSUME NEW a \in Addr
      PROVE  mem'[a] = IF a \in Range(tg) THEN (IF a \in moved THEN mem[a - d] ELSE Empty)
                       ELSE IF a + d \in moved THEN Empty ELSE mem[a]
  <2>1. /\ a \in Range(tg) <=> b <= a /\ a < b + len
        /\ a \in Range(v) <=> v.start <= a /\ a < v.end
    BY <1>4, <1>6, RangeIs
  <2>2. CASE a \in Range(tg)
    <3>1. a \notin Range(v) /\ mem[a] = Empty
      BY <1>3, <1>6, <2>2
    <3>2. ~ (v.start <= a /\ a < v.start + n)
      BY <1>5, <1>6, <1>7, <2>1, <3>1
    <3>. QED
      BY <1>2, <1>3, <2>1, <2>2, <3>1, <3>2
  <2>3. CASE a \notin Range(tg)
    <3>1. ~ (b <= a /\ a < b + n)
      BY <1>4, <1>6, <1>7, <2>1, <2>3
    <3>2. a + d \in moved <=> v.start <= a /\ a < v.start + n
      <4>1. a + d < b + n <=> a < v.start + n
        BY <1>4, <1>5, <1>6, <1>7
      <4>2. v.start <= a /\ a < v.start + n => a \in Range(v)
        BY <1>5, <1>6, <1>7, <2>1
      <4>. QED
        BY <1>3, <2>1, <4>1, <4>2
    <3>. QED
      BY <1>2, <2>3, <3>1, <3>2
  <2>. QED
    BY <2>2, <2>3
<1>10. mem' = [a \in Addr |-> mem'[a]]
  BY <1>1 DEF Memory
<1>. HIDE DEF moved
<1>11. mem' = [a \in Addr |->
                 IF a \in Range(tg) THEN (IF a \in moved THEN mem[a - d] ELSE Empty)
                 ELSE IF a + d \in moved THEN Empty ELSE mem[a]]
  BY <1>9, <1>10
<1>12. {a - d : a \in Range(tg)} \subseteq Mapped
  BY <1>3
<1>. HIDE DEF d
<1>13. Space!GiveUp(d, moved)
  BY <1>3, <1>8, <1>11, <1>12 DEF Space!GiveUp, Space!Gone, Space!New
<1>14. moved \in SUBSET Space!New
  BY <1>8 DEF Space!New, moved
<1>15. \E m \in SUBSET Space!New : Space!GiveUp(d, m)
  BY <1>13, <1>14
<1>. QED
  BY <1>15 DEF d, b, v

\* The moves the refinement excepts.
Downwards == \E t \in Task : Holds(t, "remap") /\ GrowsDown(t)

LEMMA CallIsSpaceStep ==
  ASSUME MoveAssumption, VmaInv, NEW t \in Task, Call(t)
  PROVE  Space!Ioctl \/ Downwards \/ UNCHANGED <<Mapped, mem>>
<1>1. MemoryInv /\ CallInv
  BY DEF VmaInv
<1>2. CASE UNCHANGED <<vma, mem>>
  BY <1>1, <1>2, SameMemory
<1>3. CASE Remap(t)
  <2>1. CASE GrowsDown(t)
    BY <1>3, <2>1 DEF Downwards, Remap, Remapping
  <2>2. CASE ~ GrowsDown(t)
    <3>1. to[t] - vma[ovma[t]].start \in {b - a : a \in Addr, b \in Addr}
      BY <1>1, <1>3, MoveAssumption, RemapEffect, PreparedPlaces
    <3>2. Space!Move(to[t] - vma[ovma[t]].start)
      BY <1>1, <1>3, <2>2, MoveAssumption, RemapIsMove
    <3>. QED
      BY <3>1, <3>2 DEF Space!Ioctl
  <2>. QED
    BY <2>1, <2>2
<1>4. ASSUME NEW kept \in BOOLEAN, Stays(t, kept)
      PROVE  Space!Ioctl \/ Downwards
  <2>1. CASE GrowsDown(t)
    BY <1>4, <2>1 DEF Downwards, Stays, RemapShort, RemapKeepsOld, Remapping
  <2>2. CASE ~ GrowsDown(t)
    <3>1. to[t] - vma[ovma[t]].start \in {b - a : a \in Addr, b \in Addr}
      BY <1>1, <1>4, MoveAssumption, StaysEffect, PreparedPlaces
    <3>2. \E moved \in SUBSET Space!New : Space!GiveUp(to[t] - vma[ovma[t]].start, moved)
      BY <1>1, <1>4, <2>2, MoveAssumption, StaysIsGiveUp
    <3>. QED
      BY <3>1, <3>2 DEF Space!Ioctl
  <2>. QED
    BY <2>1, <2>2
<1>. QED
  BY <1>2, <1>3, <1>4, CallIs

\* A call that is left where it is changes nothing, so that what leaves every
\* task where it is, is a step of the process.
LEMMA CallMoves ==
  ASSUME MoveAssumption, VmaInv, NEW t \in Task, Call(t), pc' = pc
  PROVE  UNCHANGED <<vma, mem>>
<1>1. pc[t]' = pc[t] /\ pc \in [Task -> {"user", "area", "tell", "remap", "return", "kept",
                                         "oops", "astray"}]
  BY DEF VmaInv, CallInv
<1>2. ~ Remap(t) /\ ~ RemapShort(t) /\ ~ RemapKeepsOld(t)
  BY <1>1, RemapIs, ShortIs, KeepsOldIs
<1>. QED
  BY <1>2, CallIs DEF Stays

LEMMA NextIsSpaceStep ==
  ASSUME MoveAssumption, VmaInv, [Next]_vars
  PROVE  \/ UNCHANGED <<Mapped, mem>>
         \/ IF pc' = pc THEN Space!Process ELSE Space!Ioctl \/ Downwards
<1>1. MemoryInv
  BY DEF VmaInv
<1>2. CASE UNCHANGED vars
  BY <1>1, <1>2, SameMemory DEF vars, memory
<1>3. CASE Outside
  <2>0. pc' = pc
    BY <1>1, <1>3, MoveAssumption, OutsideKeeps
  <2>1. ASSUME NEW s \in Addr, NEW e \in s + 1 .. Top, Mmap(s, e) \/ Munmap(s, e)
        PROVE  Space!Process
    BY <1>1, <2>1, MoveAssumption, MmapIsMap, MunmapIsUnmap DEF Space!Process
  <2>2. ASSUME NEW a \in Addr, NEW c \in Content, Write(a, c)
        PROVE  Space!Process
    BY <1>1, <2>2, MoveAssumption, WriteIsFill DEF Space!Process
  <2>. QED
    BY <1>3, <2>0, <2>1, <2>2 DEF Outside
<1>4. ASSUME NEW t \in Task, Call(t)
      PROVE  \/ UNCHANGED <<Mapped, mem>>
             \/ IF pc' = pc THEN Space!Process ELSE Space!Ioctl \/ Downwards
  <2>1. CASE pc' = pc
    BY <1>1, <1>4, <2>1, MoveAssumption, CallMoves, SameMemory
  <2>2. CASE pc' # pc
    BY <1>4, <2>2, MoveAssumption, CallIsSpaceStep
  <2>. QED
    BY <2>1, <2>2
<1>. QED
  BY <1>2, <1>3, <1>4 DEF Next

\* my_mremap under any interleaving of the callers with mmap, munmap and
\* writes: every step of an ioctl, those through a pointer that is no longer
\* valid, those cut short and those whose do_munmap fails included, is a Move
\* or a GiveUp of AddressSpace or leaves the memory as it is.  The areas that
\* grow downwards and the steps after which the model ends are excepted.
THEOREM MoveRefinesAddressSpace == Spec => RefinesAddressSpace
<1>1. Init => Space!Init
  BY InitIsSpaceInit
<1>2. VmaInv /\ [Next]_vars =>
        [IF pc' = pc THEN Space!Process
         ELSE \/ Space!Ioctl
              \/ ~ Intact'
              \/ \E t \in Task : Holds(t, "remap") /\ GrowsDown(t)]_<<Mapped, mem>>
  BY MoveAssumption, NextIsSpaceStep DEF Downwards
<1>. QED
  BY <1>1, <1>2, MoveInvariance, PTL DEF Spec, RefinesAddressSpace
=============================================================================
