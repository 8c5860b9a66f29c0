-------------------------- MODULE CompactVmaProofs --------------------------
(***************************************************************************)
(* CompactVma: the scans of pfn_array stay inside the range and the table  *)
(* is a permutation, for every length, whatever fails and whatever the     *)
(* other threads of the process do.                                        *)
(***************************************************************************)
EXTENDS CompactVma, FiniteSetTheorems, TLAPS

\* Pages are numbers, there are finitely many of them, and count_allocated is
\* at most the length.
LEMMA Counting ==
  ASSUME length \in Nat, present \in [Page -> BOOLEAN]
  PROVE  /\ IsFiniteSet(Page) /\ Cardinality(Page) = length
         /\ IsFiniteSet(Allocated)
         /\ count_allocated \in Nat
         /\ count_allocated <= length
<1>1. IsFiniteSet(Page) /\ Cardinality(Page) = length
  BY FS_Interval DEF Page
<1>2. Allocated \in SUBSET Page
  BY DEF Allocated
<1>3. IsFiniteSet(Allocated) /\ Cardinality(Allocated) <= length
  BY <1>1, <1>2, FS_Subset
<1> QED
  BY <1>1, <1>3, FS_CardinalityType DEF count_allocated

\* The sets that are counted are finite.
LEMMA FiniteRemainders ==
  ASSUME length \in Nat, present \in [Page -> BOOLEAN], NEW g \in Nat, NEW s \in Nat
  PROVE  IsFiniteSet(Holes(g)) /\ IsFiniteSet(Movers(s))
<1>1. count_allocated \in Nat
  BY Counting
<1>2. IsFiniteSet(g .. count_allocated - 1) /\ IsFiniteSet(s .. length - 1)
  BY <1>1, FS_Interval
<1>3. /\ Holes(g) \in SUBSET (g .. count_allocated - 1)
      /\ Movers(s) \in SUBSET (s .. length - 1)
  BY DEF Holes, Movers
<1> QED
  BY <1>2, <1>3, FS_Subset

\* As many of the first Cardinality(S) numbers are not in S as numbers of S are
\* not among them.
LEMMA AsManyOutAsIn ==
  ASSUME NEW S, IsFiniteSet(S)
  PROVE  LET low == 0 .. Cardinality(S) - 1
         IN  Cardinality(low \ S) = Cardinality(S \ low)
<1> DEFINE low == 0 .. Cardinality(S) - 1
<1>1. Cardinality(S) \in Nat
  BY FS_CardinalityType
<1>2. IsFiniteSet(low) /\ Cardinality(low) = Cardinality(S)
  BY <1>1, FS_Interval
<1> HIDE DEF low
<1>3. Cardinality(low \ S) = Cardinality(low) - Cardinality(low \cap S)
  BY <1>2, FS_Difference
<1>4. Cardinality(S \ low) = Cardinality(S) - Cardinality(S \cap low)
  BY FS_Difference
<1>5. low \cap S = S \cap low
  OBVIOUS
<1>6. Cardinality(low \ S) = Cardinality(S \ low)
  BY <1>2, <1>3, <1>4, <1>5
<1> QED
  BY <1>6 DEF low

\* When the first scan stops there are as many absent pages from there on and
\* below the count of present pages, as there are present pages from it on.
LEMMA HolesMatchMovers ==
  ASSUME CompactAssumption, length \in Nat,
         NEW has \in [Page -> BOOLEAN], NEW e \in Stops(has, 0)
  PROVE  LET c == Cardinality({p \in Page : has[p]})
         IN  /\ c \in Nat /\ c <= length
             /\ e \in Nat /\ e <= length + Slack
             /\ e \in Page => ~ has[e]
             /\ Cardinality({h \in e .. c - 1 : ~ has[h]})
                  = Cardinality({p \in c .. length - 1 : has[p]})
<1> DEFINE here == {p \in Page : has[p]}
           c == Cardinality(here)
<1>1. IsFiniteSet(Page) /\ Cardinality(Page) = length
  BY FS_Interval DEF Page
<1>2. here \in SUBSET Page
  OBVIOUS
<1>3. IsFiniteSet(here) /\ c \in Nat /\ c <= length
  <2> HIDE DEF here
  <2> QED
    BY <1>1, <1>2, FS_Subset, FS_CardinalityType
<1>4. /\ e \in Nat /\ e <= length + Slack
      /\ \A i \in 0 .. e - 1 : i \in Page => has[i]
      /\ e \in Page => ~ has[e]
  BY DEF Stops, CompactAssumption
<1>5. Cardinality((0 .. c - 1) \ here) = Cardinality(here \ (0 .. c - 1))
  <2> HIDE DEF here
  <2> QED
    BY <1>3, AsManyOutAsIn
<1> HIDE DEF c
<1>6. (0 .. c - 1) \ here = {h \in e .. c - 1 : ~ has[h]}
  <2>1. ASSUME NEW h \in (0 .. c - 1) \ here PROVE h \in e .. c - 1 /\ ~ has[h]
    BY <1>3, <1>4, <2>1 DEF Page
  <2>2. ASSUME NEW h \in e .. c - 1, ~ has[h] PROVE h \in (0 .. c - 1) \ here
    BY <1>3, <1>4, <2>2
  <2> QED
    BY <2>1, <2>2
<1>7. here \ (0 .. c - 1) = {p \in c .. length - 1 : has[p]}
  BY <1>3 DEF Page
<1> QED
  BY <1>3, <1>4, <1>5, <1>6, <1>7 DEF c

\* A scan passes no hole.
LEMMA ScanPassesNoHole ==
  ASSUME length \in Nat, present \in [Page -> BOOLEAN],
         CompactAssumption, NEW g \in Nat, NEW e \in Stops(present, g)
  PROVE  /\ e \in Nat /\ g <= e /\ e <= length + Slack
         /\ e \in Page => ~ present[e]
         /\ Holes(e) = Holes(g)
<1>1. count_allocated \in Nat /\ count_allocated <= length
  BY Counting
<1>2. /\ e \in Nat /\ g <= e /\ e <= length + Slack
      /\ \A i \in g .. e - 1 : i \in Page => present[i]
      /\ e \in Page => ~ present[e]
  BY DEF Stops, CompactAssumption
<1>3. ASSUME NEW h \in Holes(g) PROVE h \in Holes(e)
  <2>1. h \in Int /\ g <= h /\ h <= count_allocated - 1 /\ ~ present[h]
    BY <1>1 DEF Holes
  <2>2. h \in Page
    BY <1>1, <2>1 DEF Page
  <2>3. h \notin g .. e - 1
    BY <1>2, <2>1, <2>2
  <2> QED
    BY <1>1, <1>2, <2>1, <2>3 DEF Holes
<1>4. ASSUME NEW h \in Holes(e) PROVE h \in Holes(g)
  BY <1>1, <1>2 DEF Holes
<1> QED
  BY <1>2, <1>3, <1>4

\* While a page is still to be moved there is a hole for it, and the scan has
\* stopped at it.
LEMMA HoleForMover ==
  ASSUME CompactAssumption, Inv, pc = "remap"
  PROVE  /\ glob \in Nat /\ glob < count_allocated /\ glob \in Page
         /\ count_allocated <= t /\ t \in Page /\ present[t]
         /\ ~ present[glob]
         /\ count_allocated \in Nat /\ count_allocated <= length
<1> USE DEF CompactAssumption
<1>1. /\ length \in Nat /\ glob \in Nat /\ t \in Nat
      /\ present \in [Page -> BOOLEAN]
  BY DEF Inv, TypeOK
<1>2. /\ count_allocated \in Nat /\ count_allocated <= length
  BY <1>1, Counting
<1>3. /\ count_allocated <= t /\ t \in Page /\ present[t]
      /\ glob \in Page => ~ present[glob]
      /\ Cardinality(Holes(glob)) = Cardinality(Movers(t))
  BY DEF Inv, ScanInv
<1>4. t \in Movers(t)
  BY <1>1, <1>3 DEF Movers, Page
<1>5. IsFiniteSet(Holes(glob)) /\ IsFiniteSet(Movers(t))
  BY <1>1, FiniteRemainders
<1>6. Holes(glob) # {}
  BY <1>3, <1>4, <1>5, FS_EmptySet
<1>7. glob < count_allocated
  BY <1>1, <1>2, <1>6 DEF Holes
<1>8. glob \in Page
  BY <1>1, <1>2, <1>7 DEF Page
<1> QED
  BY <1>1, <1>2, <1>3, <1>7, <1>8

\* The scan position and the counts do not depend on the page tables.
LEMMA SameScan ==
  ASSUME UNCHANGED <<length, present>>
  PROVE  /\ Page' = Page
         /\ count_allocated' = count_allocated
         /\ \A g : Holes(g)' = Holes(g)
         /\ \A s : Movers(s)' = Movers(s)
BY DEF Page, count_allocated, Allocated, Holes, Movers

\* One move keeps the invariant, whether remap_pfn_range works or fails.
LEMMA ExchangeKeeps ==
  ASSUME CompactAssumption, Inv, pc = "remap", Exchange,
         UNCHANGED <<length, present>>
  PROVE  /\ ScanInv' /\ UnmovedInv' /\ TablePermutes'
         /\ t' \in 0 .. length /\ glob' \in 0 .. length + Slack
         /\ to' \in [Page -> 0 .. length + Slack]
<1>1. /\ length \in Nat /\ glob \in Nat /\ t \in Nat /\ Slack \in Nat
      /\ present \in [Page -> BOOLEAN]
      /\ to \in [Page -> 0 .. length + Slack]
  BY DEF Inv, TypeOK, CompactAssumption
<1>2. /\ glob < count_allocated /\ glob \in Page
      /\ count_allocated <= t /\ t \in Page /\ present[t]
      /\ ~ present[glob]
      /\ count_allocated \in Nat /\ count_allocated <= length
  BY HoleForMover
<1>3. /\ Page' = Page
      /\ count_allocated' = count_allocated
      /\ \A g : Holes(g)' = Holes(g)
      /\ \A s : Movers(s)' = Movers(s)
  BY SameScan
<1>4. /\ pc' = "loop" /\ t' = t + 1 /\ t' \in Nat
      /\ to' = [p \in Page |-> IF p = glob THEN t ELSE IF p = t THEN glob ELSE to[p]]
      /\ glob' \in Stops(present, glob + 1)
  BY <1>1 DEF Exchange
<1>5. /\ glob' \in Nat /\ glob + 1 <= glob' /\ glob' <= length + Slack
      /\ glob' \in Page => ~ present[glob']
      /\ Holes(glob') = Holes(glob + 1)
  BY <1>1, <1>4, ScanPassesNoHole
<1>6. ScanInv'
  <2>1. Holes(glob + 1) = Holes(glob) \ {glob}
    BY <1>1, <1>2 DEF Holes
  <2>2. Movers(t + 1) = Movers(t) \ {t}
    BY <1>1, <1>2 DEF Movers, Page
  <2>3. glob \in Holes(glob) /\ t \in Movers(t)
    BY <1>1, <1>2 DEF Holes, Movers, Page
  <2>4. IsFiniteSet(Holes(glob)) /\ IsFiniteSet(Movers(t))
    BY <1>1, FiniteRemainders
  <2>5. Cardinality(Holes(glob)) = Cardinality(Movers(t))
    BY DEF Inv, ScanInv
  <2>6. Cardinality(Holes(glob')) = Cardinality(Movers(t'))
    <3>1. Cardinality(Holes(glob) \ {glob}) = Cardinality(Holes(glob)) - 1
      BY <2>3, <2>4, FS_RemoveElement
    <3>2. Cardinality(Movers(t) \ {t}) = Cardinality(Movers(t)) - 1
      BY <2>3, <2>4, FS_RemoveElement
    <3> QED
      BY <1>4, <1>5, <2>1, <2>2, <2>5, <3>1, <3>2
  <2> QED
    BY <1>1, <1>2, <1>3, <1>4, <1>5, <2>6 DEF ScanInv
<1>7. /\ \A p \in Page : p >= t => to[p] = p
      /\ \A p \in Page : p >= glob /\ p < count_allocated => to[p] = p
      /\ \A p \in Page : to[p] \in Page /\ to[to[p]] = p
  BY DEF Inv, UnmovedInv, TablePermutes
<1>8. Page \subseteq Nat /\ Page \subseteq 0 .. length + Slack
  BY <1>1 DEF Page
<1>9. UnmovedInv'
  <2>1. ASSUME NEW p \in Page, p >= t' PROVE to'[p] = p
    BY <1>1, <1>2, <1>4, <1>7, <1>8, <2>1
  <2>2. ASSUME NEW p \in Page, p >= glob', p < count_allocated PROVE to'[p] = p
    BY <1>1, <1>2, <1>4, <1>5, <1>7, <1>8, <2>2
  <2> QED
    BY <1>3, <2>1, <2>2 DEF UnmovedInv
<1>10. TablePermutes'
  <2>1. to[t] = t /\ to[glob] = glob /\ t # glob
    BY <1>1, <1>2, <1>7
  <2>2. ASSUME NEW p \in Page PROVE to'[p] \in Page /\ to'[to'[p]] = p
    <3>1. CASE p = glob \/ p = t
      BY <1>2, <1>4, <2>1, <3>1
    <3>2. CASE p # glob /\ p # t
      <4>1. to'[p] = to[p] /\ to[p] \in Page /\ to[to[p]] = p
        BY <1>4, <1>7, <3>2
      <4>2. to[p] # glob /\ to[p] # t
        BY <2>1, <3>2, <4>1
      <4> QED
        BY <1>4, <4>1, <4>2
    <3> QED
      BY <3>1, <3>2
  <2> QED
    BY <1>3, <2>2 DEF TablePermutes
<1>11. to' \in [Page -> 0 .. length + Slack]
  BY <1>2, <1>4, <1>7, <1>8
<1>12. t' \in 0 .. length /\ glob' \in 0 .. length + Slack
  BY <1>1, <1>2, <1>4, <1>5 DEF Page
<1> QED
  BY <1>6, <1>9, <1>10, <1>11, <1>12

\* The beginning of the call establishes the invariant of the scans.
LEMMA CollectKeeps ==
  ASSUME CompactAssumption, Inv, Collect
  PROVE  /\ ScanInv' /\ UnmovedInv' /\ TablePermutes'
         /\ t' \in 0 .. length /\ glob' \in 0 .. length + Slack
<1>1. /\ length \in Nat /\ Slack \in Nat
      /\ present' \in [Page -> BOOLEAN]
      /\ length' = length /\ Page' = Page
      /\ pc = "start" /\ pc' = "loop" /\ to' = to
      /\ glob' \in Stops(present', 0)
  BY DEF Inv, TypeOK, CompactAssumption, Collect, range, memory, Page, return_pfn
<1>2. count_allocated' = Cardinality({p \in Page : present'[p]})
  BY <1>1 DEF count_allocated, Allocated
<1>3. t' = count_allocated'
  <2>1. {p \in Page : present'[p]} = {p \in Page : return_pfn(p)}
    BY DEF Collect
  <2> QED
    BY <1>2, <2>1 DEF Collect
<1> DEFINE c == count_allocated'
           has == present'
           e == glob'
<1>4. /\ c \in Nat /\ c <= length
      /\ e \in Nat /\ e <= length + Slack
      /\ e \in Page => ~ has[e]
      /\ Cardinality({h \in e .. c - 1 : ~ has[h]})
           = Cardinality({p \in c .. length - 1 : has[p]})
  <2> HIDE DEF c, has, e
  <2>1. c = Cardinality({p \in Page : has[p]})
    BY <1>2 DEF c, has
  <2>2. has \in [Page -> BOOLEAN] /\ e \in Stops(has, 0)
    BY <1>1 DEF has, e
  <2> QED
    BY <1>1, <2>1, <2>2, HolesMatchMovers
<1>5. Holes(glob)' = {h \in glob' .. count_allocated' - 1 : ~ present'[h]}
  BY DEF Holes
<1>6. Movers(t)' = {p \in count_allocated' .. length - 1 : present'[p]}
  BY <1>1, <1>3 DEF Movers
<1>7. ScanInv'
  BY <1>1, <1>3, <1>4, <1>5, <1>6 DEF ScanInv
<1>8. \A p \in Page : to[p] = p
  <2>1. t = 0
    BY <1>1 DEF Inv, StartInv
  <2> QED
    BY <1>1, <2>1 DEF Inv, UnmovedInv, Page
<1>9. UnmovedInv'
  BY <1>1, <1>8 DEF UnmovedInv
<1>10. TablePermutes'
  BY <1>1, <1>8 DEF TablePermutes
<1> QED
  BY <1>1, <1>3, <1>4, <1>7, <1>9, <1>10

\* Inv holds at first.
LEMMA InitEstablishesInv == ASSUME CompactAssumption, Init PROVE Inv
<1>1. length \in Nat /\ Page \subseteq 0 .. length + Slack /\ Page \subseteq Frame
  BY DEF Init, Page, Frame, CompactAssumption
<1>2. TypeOK
  <2>1. frame \in [Page -> Frame \cup {None}]
    BY <1>1 DEF Init
  <2>2. to \in [Page -> 0 .. length + Slack]
    BY <1>1 DEF Init
  <2>3. present \in [Page -> BOOLEAN]
    BY DEF Init
  <2>4. Slack \in Nat
    BY DEF CompactAssumption
  <2>5. glob \in 0 .. length + Slack /\ t \in 0 .. length
    BY <1>1, <2>4 DEF Init
  <2> QED
    BY <2>1, <2>2, <2>3, <2>5 DEF Init, TypeOK
<1>3. ScanInv /\ StartInv /\ UnmovedInv /\ TablePermutes
  BY DEF Init, ScanInv, StartInv, UnmovedInv, TablePermutes, Page
<1> QED
  BY <1>2, <1>3 DEF Inv

\* A step that writes neither the table nor what the scans use keeps the
\* invariants that are about them.
LEMMA ScanUndisturbed ==
  ASSUME Inv, UNCHANGED <<length, present, t, glob, to>>,
         \/ pc' = pc
         \/ pc' \in {"done", "oops"}
  PROVE  ScanInv' /\ StartInv' /\ UnmovedInv' /\ TablePermutes'
<1>1. /\ Page' = Page
      /\ count_allocated' = count_allocated
      /\ \A g : Holes(g)' = Holes(g)
      /\ \A s : Movers(s)' = Movers(s)
  BY SameScan
<1>2. /\ ScanInv /\ StartInv /\ UnmovedInv /\ TablePermutes
      /\ length' = length /\ present' = present /\ t' = t /\ glob' = glob /\ to' = to
  BY DEF Inv
<1>3. Cardinality(Holes(glob))' = Cardinality(Holes(glob))
  BY <1>2 DEF Holes, count_allocated, Allocated, Page
<1>4. Cardinality(Movers(t))' = Cardinality(Movers(t))
  BY <1>2 DEF Movers
<1>5. ScanInv'
  BY <1>1, <1>2, <1>3, <1>4 DEF ScanInv
<1>6. StartInv' /\ UnmovedInv' /\ TablePermutes'
  BY <1>1, <1>2 DEF StartInv, UnmovedInv, TablePermutes
<1> QED
  BY <1>5, <1>6

\* Every step of the call keeps the types.
LEMMA StepKeepsTypes ==
  ASSUME CompactAssumption, Inv, Advance
  PROVE  TypeOK'
<1>1. /\ TypeOK
      /\ length \in Nat /\ Slack \in Nat
  BY DEF Inv, TypeOK, CompactAssumption
<1>2. CASE RefuseInput
  BY <1>1, <1>2 DEF RefuseInput, TypeOK, range, memory, Page
<1>3. CASE Collect
  <2>1. t' \in 0 .. length /\ glob' \in 0 .. length + Slack
    BY <1>3, CollectKeeps
  <2>2. vm_area' \in {"own", "below", "none"}
    BY <1>3 DEF Collect, FindVma
  <2>3. present' \in [Page -> BOOLEAN]
    BY <1>3 DEF Collect, return_pfn
  <2> QED
    BY <1>1, <1>3, <2>1, <2>2, <2>3 DEF Collect, TypeOK, range, memory, Page
<1>4. CASE SkipAbsent
  <2>1. t' \in 0 .. length
    BY <1>1, <1>4 DEF SkipAbsent, Page, TypeOK
  <2> QED
    BY <1>1, <1>4, <2>1 DEF SkipAbsent, TypeOK, range, memory, Page
<1>5. CASE LoadPte
  <2>1. pfn' \in Frame \cup {None}
    BY <1>1, <1>5 DEF LoadPte, Frame, TypeOK
  <2> QED
    BY <1>1, <1>5, <2>1 DEF LoadPte, TypeOK, range, memory, Page, Frame
<1>6. CASE Oops
  BY <1>1, <1>6 DEF Oops, TypeOK, range, memory, locals, Page
<1>7. CASE Remap \/ RemapOverHuge
  <2>1. /\ pc = "remap" /\ Exchange /\ pc' = "loop"
        /\ UNCHANGED <<range, huge, vm_area, present, pfn, error, ret>>
    BY <1>7 DEF Remap, RemapOverHuge, Exchange
  <2>2. frame' \in [Page -> Frame \cup {None}]
    <3>1. Fresh \in Frame /\ pfn \in Frame \cup {None}
      BY <1>1 DEF TypeOK, Frame
    <3> QED
      BY <1>1, <1>7, <3>1 DEF Remap, RemapOverHuge, TypeOK
  <2>3. /\ t' \in 0 .. length /\ glob' \in 0 .. length + Slack
        /\ to' \in [Page -> 0 .. length + Slack]
    BY <2>1, ExchangeKeeps DEF range, memory
  <2> QED
    BY <1>1, <2>1, <2>2, <2>3 DEF TypeOK, range, memory, Page
<1>8. CASE RemapFails
  <2>1. /\ pc = "remap" /\ Exchange /\ pc' = "loop" /\ error' = TRUE
        /\ UNCHANGED <<range, memory, vm_area, present, pfn, ret>>
    BY <1>8 DEF RemapFails, Exchange
  <2>2. /\ t' \in 0 .. length /\ glob' \in 0 .. length + Slack
        /\ to' \in [Page -> 0 .. length + Slack]
    BY <2>1, ExchangeKeeps DEF range, memory
  <2> QED
    BY <1>1, <2>1, <2>2 DEF TypeOK, range, memory, Page
<1>9. CASE CopyTable
  BY <1>1, <1>9 DEF CopyTable, TypeOK, range, memory, Page
<1> QED
  BY <1>2, <1>3, <1>4, <1>5, <1>6, <1>7, <1>8, <1>9 DEF Advance

\* A page that is not to be moved is passed over.
LEMMA SkipKeeps ==
  ASSUME CompactAssumption, Inv, SkipAbsent
  PROVE  ScanInv' /\ StartInv' /\ UnmovedInv' /\ TablePermutes'
<1>1. /\ length \in Nat /\ t \in Nat /\ glob \in Nat
      /\ present \in [Page -> BOOLEAN]
      /\ ScanInv /\ UnmovedInv /\ TablePermutes
  BY DEF Inv, TypeOK, CompactAssumption
<1>2. /\ pc = "loop" /\ pc' = "loop" /\ t \in Page /\ ~ present[t] /\ t' = t + 1
      /\ length' = length /\ present' = present /\ glob' = glob /\ to' = to
  BY DEF SkipAbsent, range, memory
<1>3. /\ Page' = Page
      /\ count_allocated' = count_allocated
      /\ Holes(glob)' = Holes(glob)
  BY <1>2 DEF Page, Holes, count_allocated, Allocated
<1>4. count_allocated \in Nat
  BY <1>1, Counting
<1>5. Movers(t)' = Movers(t)
  <2>1. Movers(t)' = {p \in t + 1 .. length - 1 : present[p]}
    BY <1>2 DEF Movers
  <2>2. ASSUME NEW p \in t .. length - 1, present[p] PROVE p \in t + 1 .. length - 1
    BY <1>1, <1>2, <2>2
  <2>3. ASSUME NEW p \in t + 1 .. length - 1 PROVE p \in t .. length - 1
    BY <1>1, <2>3
  <2> QED
    BY <2>1, <2>2, <2>3 DEF Movers
<1>6. ScanInv'
  <2>1. Cardinality(Holes(glob))' = Cardinality(Holes(glob))
    BY <1>3
  <2>2. Cardinality(Movers(t))' = Cardinality(Movers(t))
    BY <1>5
  <2>3. count_allocated' <= t'
    BY <1>1, <1>2, <1>3, <1>4 DEF ScanInv
  <2> QED
    BY <1>1, <1>2, <1>3, <2>1, <2>2, <2>3 DEF ScanInv
<1>7. UnmovedInv'
  <2>1. Page \subseteq Nat
    BY <1>1 DEF Page
  <2> QED
    BY <1>1, <1>2, <1>3, <2>1 DEF UnmovedInv
<1>8. StartInv' /\ TablePermutes'
  BY <1>1, <1>2, <1>3 DEF StartInv, TablePermutes
<1> QED
  BY <1>6, <1>7, <1>8

\* A present page is about to be moved.
LEMMA LoadKeeps ==
  ASSUME Inv, LoadPte
  PROVE  ScanInv' /\ StartInv' /\ UnmovedInv' /\ TablePermutes'
<1>1. ScanInv /\ UnmovedInv /\ TablePermutes
  BY DEF Inv
<1>2. /\ pc = "loop" /\ pc' = "remap" /\ t \in Page /\ present[t]
      /\ length' = length /\ present' = present /\ glob' = glob /\ to' = to /\ t' = t
  BY DEF LoadPte, range, memory
<1>3. /\ Page' = Page
      /\ count_allocated' = count_allocated
      /\ Cardinality(Holes(glob))' = Cardinality(Holes(glob))
      /\ Cardinality(Movers(t))' = Cardinality(Movers(t))
  BY <1>2 DEF Page, Holes, Movers, count_allocated, Allocated
<1>4. ScanInv'
  BY <1>1, <1>2, <1>3 DEF ScanInv
<1>5. StartInv' /\ UnmovedInv' /\ TablePermutes'
  BY <1>1, <1>2, <1>3 DEF StartInv, UnmovedInv, TablePermutes
<1> QED
  BY <1>4, <1>5

\* Every step of the call, of another thread and of nobody keeps Inv.
LEMMA StepKeepsInv ==
  ASSUME CompactAssumption, Inv, [Next]_vars
  PROVE  Inv'
<1>1. CASE RefuseInput \/ Oops \/ CopyTable
  <2>1. /\ UNCHANGED <<length, present, t, glob, to>>
        /\ pc' \in {"done", "oops"}
    BY <1>1 DEF RefuseInput, Oops, CopyTable, range, memory, locals
  <2>2. TypeOK'
    BY <1>1, StepKeepsTypes DEF Advance
  <2> QED
    BY <2>1, <2>2, ScanUndisturbed DEF Inv
<1>2. CASE Collect
  BY <1>2, CollectKeeps, StepKeepsTypes DEF Inv, Advance, StartInv, Collect
<1>3. CASE SkipAbsent
  BY <1>3, SkipKeeps, StepKeepsTypes DEF Inv, Advance
<1>4. CASE LoadPte
  BY <1>4, LoadKeeps, StepKeepsTypes DEF Inv, Advance
<1>5. CASE Remap \/ RemapOverHuge \/ RemapFails
  <2>1. pc = "remap" /\ Exchange /\ pc' = "loop" /\ UNCHANGED <<length, present>>
    BY <1>5 DEF Remap, RemapOverHuge, RemapFails, Exchange, range, memory
  <2>2. ScanInv' /\ UnmovedInv' /\ TablePermutes'
    BY <2>1, ExchangeKeeps
  <2>3. StartInv'
    BY <2>1 DEF StartInv
  <2>4. TypeOK'
    BY <1>5, StepKeepsTypes DEF Advance
  <2> QED
    BY <2>2, <2>3, <2>4 DEF Inv
<1>6. CASE \E p \in Page : Touch(p) \/ Discard(p) \/ Promote(p)
  <2>1. PICK p \in Page : Touch(p) \/ Discard(p) \/ Promote(p)
    BY <1>6
  <2>2. /\ UNCHANGED <<range, pc, locals, ret>>
        /\ frame' \in [Page -> Frame \cup {None}]
        /\ huge' \subseteq Page
    <3>1. /\ frame \in [Page -> Frame \cup {None}] /\ Fresh \in Frame
          /\ huge \subseteq Page /\ InRegion(p) \subseteq Page
      BY DEF Inv, TypeOK, Frame, InRegion
    <3> QED
      BY <2>1, <3>1 DEF Touch, Discard, Promote
  <2>3. TypeOK'
    BY <2>2 DEF Inv, TypeOK, range, locals, Page
  <2>4. UNCHANGED <<length, present, t, glob, to>> /\ pc' = pc
    BY <2>2 DEF range, locals
  <2> QED
    BY <2>3, <2>4, ScanUndisturbed DEF Inv
<1>7. CASE UNCHANGED vars
  <2>1. TypeOK'
    BY <1>7 DEF Inv, TypeOK, vars, range, memory, locals, Page
  <2>2. UNCHANGED <<length, present, t, glob, to>> /\ pc' = pc
    BY <1>7 DEF vars, range, memory, locals
  <2> QED
    BY <2>1, <2>2, ScanUndisturbed DEF Inv
<1> QED
  BY <1>1, <1>2, <1>3, <1>4, <1>5, <1>6, <1>7 DEF Next, Advance

(***************************************************************************)
(* The invariant holds of every run of compact_vma beside other threads.   *)
(***************************************************************************)
THEOREM Invariance == Spec => []Inv
<1>1. Init => Inv
  BY CompactAssumption, InitEstablishesInv
<1>2. Inv /\ [Next]_vars => Inv'
  BY CompactAssumption, StepKeepsInv
<1> QED
  BY <1>1, <1>2, PTL DEF Spec

\* compact_vma: the variables keep their types whatever runs beside it.
THEOREM TypeCorrect == Spec => []TypeOK
<1>1. Inv => TypeOK
  BY DEF Inv
<1> QED
  BY <1>1, Invariance, PTL

\* compact_vma, the two scans for a NULL entry of pfn_array: for every length
\* a page is moved down into a page without an entry of 4KB, inside the range.
THEOREM ScansStayInRange == Spec => []MovesFillHoles
<1>1. Inv => MovesFillHoles
  BY CompactAssumption, HoleForMover DEF MovesFillHoles
<1> QED
  BY <1>1, Invariance, PTL

\* compact_vma, the mapping table: for every length it is a permutation that
\* is its own inverse, even when remap_pfn_range fails.
THEOREM TableIsPermutation == Spec => []TablePermutes
<1>1. Inv => TablePermutes
  BY DEF Inv
<1> QED
  BY <1>1, Invariance, PTL
-----------------------------------------------------------------------------
(***************************************************************************)
(* What the pages hold, as long as no other thread runs and nothing fails. *)
(***************************************************************************)
\* No huge page lies where the call is to move pages to.
Clear == huge \cap (0 .. count_allocated - 1) = {}

ContentsInv == Undisturbed =>
  /\ pc = "start" => /\ frame = [p \in Page |-> IF p \in given THEN p ELSE None]
                     /\ huge \subseteq given
  /\ pc \in {"loop", "remap"} /\ Clear =>
       /\ Allocated = given \ huge
       /\ \A p \in given : frame[to[p]] = p
       /\ \A p \in Allocated : p < t => to[p] < count_allocated
       /\ pc = "remap" => pfn = t
  /\ pc = "done" /\ Clear => TableBacked /\ (huge = {} => Compacted)

\* The call finds exactly the pages that had a frame when it started and were not
\* in a huge page.
LEMMA CollectsGiven ==
  ASSUME CompactAssumption, Inv, ContentsInv, Collect
  PROVE  ContentsInv'
<1>. SUFFICES ASSUME Undisturbed' PROVE ContentsInv'
  BY DEF ContentsInv
<1>1. /\ pc = "start" /\ pc' = "loop" /\ given' = given /\ Page' = Page /\ frame' = frame
      /\ to' = to /\ given \subseteq Page /\ Undisturbed /\ huge' = huge
      /\ present' = [p \in Page |-> return_pfn(p)]
  BY DEF Collect, Inv, TypeOK, range, memory, Page, Undisturbed
<1>2. frame = [p \in Page |-> IF p \in given THEN p ELSE None] /\ huge \subseteq given
  BY <1>1 DEF ContentsInv
<1>3. Page \subseteq Nat /\ None \notin Nat
  BY DEF Inv, TypeOK, Page, CompactAssumption
<1>4. Allocated' = given' \ huge'
  BY <1>1, <1>2, <1>3 DEF Allocated, return_pfn
<1>5. t' = count_allocated' /\ \A p \in Page : to[p] = p
  <2>1. {p \in Page : return_pfn(p)} = Allocated'
    BY <1>1 DEF Allocated
  <2>2. t = 0
    BY <1>1 DEF Inv, StartInv
  <2>. QED
    BY <1>1, <1>3, <2>1, <2>2 DEF Collect, count_allocated, Inv, UnmovedInv
<1>6. /\ \A p \in given : frame[to[p]] = p
      /\ \A p \in Allocated' : p < t' => to[p] < count_allocated'
  BY <1>1, <1>2, <1>4, <1>5
<1>. QED
  BY <1>1, <1>4, <1>6 DEF ContentsInv

\* A page that is moved takes its frame to the hole, and the table says so.
LEMMA MovesOne ==
  ASSUME CompactAssumption, Inv, ContentsInv, Remap
  PROVE  ContentsInv'
<1>1. /\ pc = "remap" /\ pc' = "loop" /\ UNCHANGED <<range, huge, present>> /\ t' = t + 1
      /\ frame' = [p \in Page |-> IF p = glob THEN pfn ELSE frame[p]]
      /\ to' = [p \in Page |-> IF p = glob THEN t ELSE IF p = t THEN glob ELSE to[p]]
  BY DEF Remap, Exchange
<1>2. /\ Page' = Page /\ given' = given /\ count_allocated' = count_allocated
      /\ Allocated' = Allocated /\ given \subseteq Page /\ Page \subseteq Nat
      /\ Clear' = Clear
  <2>1. given' = given /\ length' = length /\ present' = present
    BY <1>1 DEF range
  <2>2. Page' = Page /\ count_allocated' = count_allocated
    BY <2>1, SameScan
  <2>. QED
    BY <1>1, <2>1, <2>2 DEF Allocated, Inv, TypeOK, Page, Clear
<1>. SUFFICES ASSUME Undisturbed', Clear PROVE ContentsInv'
  BY <1>1, <1>2 DEF ContentsInv
<1>3. Undisturbed
  BY DEF Remap, Undisturbed, range
<1>4. /\ Allocated = given \ huge /\ pfn = t
      /\ \A p \in given : frame[to[p]] = p
      /\ \A p \in Allocated : p < t => to[p] < count_allocated
  BY <1>1, <1>3 DEF ContentsInv
<1>5. /\ glob < count_allocated /\ glob \in Page /\ ~ present[glob]
      /\ t \in Page /\ present[t] /\ count_allocated \in Nat
  BY <1>1, HoleForMover
<1>6. \A p \in Page : to[p] \in Page /\ to[to[p]] = p
  BY DEF Inv, TablePermutes
<1>7. to[glob] = glob
  BY <1>1, <1>5, <1>2 DEF Inv, UnmovedInv
<1>8. glob \notin given
  <2>1. glob \in 0 .. count_allocated - 1
    BY <1>2, <1>5
  <2>2. glob \notin huge
    BY <2>1 DEF Clear
  <2>. QED
    BY <1>4, <1>5, <2>2 DEF Allocated
<1>9. ASSUME NEW p \in given
      PROVE  /\ frame'[to'[p]] = p
             /\ p \in Allocated /\ p < t' => to'[p] < count_allocated
  <2>1. p \in Page /\ p # glob
    BY <1>2, <1>8
  <2>2. CASE p = t
    BY <1>1, <1>4, <1>5, <2>1, <2>2
  <2>3. CASE p # t
    <3>1. to'[p] = to[p] /\ to[p] \in Page /\ to[p] # glob
      BY <1>1, <1>6, <1>7, <2>1, <2>3
    <3>2. p < t' => p < t
      BY <1>1, <1>2, <1>5, <2>1, <2>3
    <3>. QED
      BY <1>1, <1>4, <3>1, <3>2
  <2>. QED
    BY <2>2, <2>3
<1>. QED
  BY <1>1, <1>2, <1>4, <1>9 DEF ContentsInv

\* A page is moved onto a huge page only where one is in the way.
LEMMA OverHugeNotClear ==
  ASSUME CompactAssumption, Inv, RemapOverHuge
  PROVE  ContentsInv'
<1>1. pc = "remap" /\ pc' = "loop" /\ glob \in huge /\ UNCHANGED <<length, huge, present>>
  BY DEF RemapOverHuge, Exchange, range
<1>2. count_allocated' = count_allocated
  BY <1>1, SameScan
<1>3. glob \in 0 .. count_allocated - 1
  BY <1>1, HoleForMover
<1>4. ~ Clear'
  BY <1>1, <1>2, <1>3 DEF Clear
<1>. QED
  BY <1>1, <1>4 DEF ContentsInv

\* When the loop has passed the whole range, as many pages as were given lie
\* below count_allocated, each in a place of its own: they fill it.
LEMMA TableComplete ==
  ASSUME CompactAssumption, Inv, ContentsInv, CopyTable
  PROVE  ContentsInv'
<1>1. /\ pc = "loop" /\ t = length /\ pc' = "done" /\ UNCHANGED <<range, frame, huge, to>>
      /\ Page' = Page /\ given' = given /\ present' = present
  BY DEF CopyTable, range, memory, Page
<1>2. Clear' = Clear
  BY <1>1 DEF Clear, count_allocated, Allocated
<1>. SUFFICES ASSUME Undisturbed', Clear
              PROVE  TableBacked' /\ (huge = {} => Compacted')
  BY <1>1, <1>2 DEF ContentsInv
<1>3. Undisturbed
  BY <1>1 DEF CopyTable, Undisturbed, range
<1>4. /\ Allocated = given \ huge
      /\ \A p \in given : frame[to[p]] = p
      /\ \A p \in Allocated : p < t => to[p] < count_allocated
  BY <1>1, <1>3 DEF ContentsInv
<1>5. length \in Nat /\ given \subseteq Page /\ Page \subseteq Nat
      /\ present \in [Page -> BOOLEAN]
  BY DEF Inv, TypeOK, Page, CompactAssumption
<1>6. \A p \in Page : to[p] \in Page /\ to[to[p]] = p
  BY DEF Inv, TablePermutes
<1>7. TableBacked'
  BY <1>1, <1>4, <1>5, <1>6 DEF TableBacked
<1>8. ASSUME huge = {} PROVE Compacted'
  <2>1. /\ IsFiniteSet(given) /\ count_allocated \in Nat
        /\ count_allocated = Cardinality(given) /\ Allocated = given
    BY <1>4, <1>5, <1>8, Counting DEF count_allocated
  <2>2. \A p \in given : to[p] \in Page /\ to[p] < count_allocated
    BY <1>1, <1>4, <1>5, <1>6, <2>1 DEF Page
  <2>. DEFINE image == {to[p] : p \in given}
              places == 0 .. count_allocated - 1
              move == [p \in given |-> to[p]]
  <2>3. move \in Bijection(given, image)
    <3>1. move \in [given -> image]
      OBVIOUS
    <3>2. \A p, q \in given : move[p] = move[q] => p = q
      BY <1>5, <1>6
    <3>3. \A e \in image : \E p \in given : move[p] = e
      OBVIOUS
    <3>. QED
      BY <3>1, <3>2, <3>3 DEF Bijection, Injection, Surjection, IsInjective
  <2>4. IsFiniteSet(image) /\ Cardinality(image) = count_allocated
    <3>1. ExistsBijection(given, image)
      BY <2>3 DEF ExistsBijection
    <3>. HIDE DEF image, move
    <3>. QED
      BY <2>1, <3>1, FS_Bijection
  <2>5. image \subseteq places
    <3>1. \A p \in given : to[p] \in Nat /\ to[p] < count_allocated
      BY <1>5, <2>2
    <3>. QED
      BY ONLY <2>1, <3>1
  <2>6. IsFiniteSet(places) /\ Cardinality(places) = count_allocated
    <3>1. count_allocated - 1 \in Int /\ count_allocated - 1 - 0 + 1 = count_allocated
      BY ONLY <2>1
    <3>2. 0 > count_allocated - 1 => count_allocated = 0
      BY ONLY <2>1
    <3>. HIDE DEF count_allocated
    <3>. QED
      BY <2>1, <3>1, <3>2, FS_Interval
  <2>7. image = places
    <3>. HIDE DEF image, places
    <3>. QED
      BY <2>4, <2>5, <2>6, FS_Subset
  <2>. QED
    BY <1>1, <2>1, <2>7 DEF Compacted
<1>. QED
  BY <1>7, <1>8

LEMMA StepKeepsContents ==
  ASSUME CompactAssumption, Inv, ContentsInv, [Next]_vars
  PROVE  ContentsInv'
<1>1. CASE RefuseInput \/ RemapFails
  BY <1>1 DEF RefuseInput, RemapFails, ContentsInv, Undisturbed
<1>2. CASE Oops
  BY <1>2 DEF Oops, ContentsInv, Undisturbed, range, locals
<1>3. CASE Collect
  BY <1>3, CollectsGiven
<1>4. CASE SkipAbsent
  <2>1. /\ pc = "loop" /\ pc' = "loop" /\ t' = t + 1 /\ t \in Page /\ ~ present[t]
        /\ UNCHANGED <<range, frame, huge, present, to, error>>
    BY <1>4 DEF SkipAbsent, memory
  <2>2. /\ Page' = Page /\ given' = given /\ Allocated' = Allocated
        /\ count_allocated' = count_allocated /\ Clear' = Clear
        /\ Undisturbed' = Undisturbed /\ Allocated \subseteq Page /\ Page \subseteq Nat
    BY <2>1 DEF Page, range, Allocated, count_allocated, Undisturbed, Inv, TypeOK, Clear
  <2>3. \A p \in Allocated : p # t /\ (p < t' => p < t)
    BY <2>1, <2>2 DEF Allocated
  <2>. QED
    BY <2>1, <2>2, <2>3 DEF ContentsInv
<1>5. CASE LoadPte
  <2>1. /\ pc = "loop" /\ pc' = "remap" /\ t \in Page /\ present[t]
        /\ pfn' = (IF frame[t] = None THEN PfnZero ELSE frame[t])
        /\ UNCHANGED <<range, frame, huge, present, to, error, t>>
    BY <1>5 DEF LoadPte, memory
  <2>2. /\ Page' = Page /\ given' = given /\ Allocated' = Allocated
        /\ count_allocated' = count_allocated /\ Clear' = Clear
        /\ Undisturbed' = Undisturbed /\ Page \subseteq Nat /\ None \notin Nat
    BY <2>1 DEF Page, range, Allocated, count_allocated, Undisturbed, Inv, TypeOK,
       CompactAssumption, Clear
  <2>3. to[t] = t
    BY <2>1, <2>2 DEF Inv, UnmovedInv
  <2>4. Undisturbed /\ Clear => pfn' = t'
    BY <2>1, <2>2, <2>3 DEF ContentsInv, Allocated
  <2>. QED
    BY <2>1, <2>2, <2>4 DEF ContentsInv
<1>6. CASE Remap
  BY <1>6, MovesOne
<1>7. CASE RemapOverHuge
  BY <1>7, OverHugeNotClear
<1>8. CASE CopyTable
  BY <1>8, TableComplete
<1>9. CASE ~ alone /\ \E p \in Page : Touch(p) \/ Discard(p) \/ Promote(p)
  BY <1>9 DEF Touch, Discard, Promote, ContentsInv, Undisturbed, range
<1>10. CASE UNCHANGED vars
  <2>1. UNCHANGED <<given, length, alone, frame, huge, pc, present, t, pfn, to, error>>
    BY <1>10 DEF vars, range, memory, locals
  <2>2. Page' = Page /\ Allocated' = Allocated /\ count_allocated' = count_allocated
    BY <2>1 DEF Page, Allocated, count_allocated
  <2>. QED
    BY <2>1, <2>2 DEF ContentsInv, Undisturbed, TableBacked, Compacted, Clear
<1>. QED
  BY <1>1, <1>2, <1>3, <1>4, <1>5, <1>6, <1>7, <1>8, <1>9, <1>10 DEF Next, Advance

\* compact_vma, the promise of the command and its limit: when no other thread
\* runs, no call fails and no huge page lies in the part the range is compacted
\* to, every page that had a frame is found through the table with what it held;
\* and if the range has no huge page, the places the table names are the first
\* of the range, for every length and every pattern of present pages.
THEOREM ContentsMove == Spec => []MovesContents
<1>1. Init => ContentsInv
  BY DEF Init, ContentsInv
<1>2. Inv /\ ContentsInv /\ [Next]_vars => ContentsInv'
  BY CompactAssumption, StepKeepsContents
<1>3. ContentsInv => MovesContents
  BY DEF ContentsInv, MovesContents, TableBacked, Compacted, Clear
<1> QED
  BY <1>1, <1>2, <1>3, Invariance, PTL DEF Spec
=============================================================================
