--------------------------- MODULE PromoteProofs ----------------------------
(***************************************************************************)
(* Theorems about Promote, for every number of threads, processors,        *)
(* regions and pages of a region.                                          *)
(***************************************************************************)
EXTENDS Promote, TLAPS

LEMMA Constants ==
  /\ Regions \in Nat
  /\ \A p \in Page : RegionOf[p] \in Region
  /\ \A r \in Region : VmaOf[r] \in Vma /\ r + 1 \in 0 .. Regions
  /\ \A r \in 0 .. Regions : r < Regions => r \in Region /\ r + 1 \in 0 .. Regions
  /\ "small" \notin Task /\ "none" \notin Task /\ NoTask \notin Task
BY PromoteAssumption DEF Region, Vma

\* What thread k may do in a step; a TLB may lose an entry besides.
Step(k) ==
  \/ sysfs_store(k) \/ MmapWriteLock(k) \/ Compacted(k)
  \/ MmapWriteUnlock(k) \/ Reset(k)
  \/ NextVma(k) \/ SkipRegion(k) \/ Allocate(k)
  \/ \E p \in Page : Copy(k, p)
  \/ remap_huge_page(k) \/ Flush(k)
  \/ \E p \in Page : Write(k, p) \/ PageFault(k, p) \/ Discard(k, p)
  \/ \E c \in Cpu : Migrate(k, c)

LEMMA NextCases ==
  ASSUME Next
  PROVE  \/ \E k \in threads : Step(k)
         \/ \E c \in Cpu, p \in Page : Evict(c, p)
BY DEF Next, Advance, Use, Step

LEMMA InitInv == Init => Inv
<1>. SUFFICES ASSUME Init PROVE Inv
  OBVIOUS
<1>1. \A k \in Task : cpu[k] \in Cpu
  BY DEF Init
<1>2. visited \subseteq Cpu /\ \A k \in threads : cpu[k] \in visited
  BY <1>1 DEF Init
<1>3. TypeOK
  <2>1. tlb \in [Cpu -> [Page -> Frame \cup {"none"}]]
    BY DEF Init
  <2>2. cpu \in [Task -> Cpu] /\ visited \subseteq Cpu /\ behind \subseteq visited
    BY <1>2 DEF Init
  <2>3. /\ threads \subseteq Task /\ ways \subseteq {"sysfs", "compact"}
        /\ lock \in Task \cup {NoTask} /\ strayed \in BOOLEAN /\ promote \in {0, 1}
    BY DEF Init
  <2>4. /\ pte \in [Page -> BOOLEAN] /\ latest \in [Page -> SUBSET Frame]
        /\ hugepage \in [Vma -> BOOLEAN] /\ pmd \in [Region -> Frame]
    BY DEF Init, Frame
  <2>5. at \in [Task -> 0 .. Regions] /\ todo \in [Task -> SUBSET Page]
    BY Constants DEF Init
  <2>. QED
    BY <2>1, <2>2, <2>3, <2>4, <2>5 DEF Init, TypeOK
<1>4. LockInv /\ CopyInv /\ CpuInv
  BY <1>2, <1>3, Constants DEF Init, TypeOK, LockInv, CopyInv, CpuInv, Region
<1>5. MemoryInv
  BY Constants DEF Init, MemoryInv
<1>. QED
  BY <1>3, <1>4, <1>5 DEF Inv

LEMMA TranslationType ==
  ASSUME TypeOK, NEW c \in Cpu, NEW p \in Page
  PROVE  /\ Walk(p) \in Frame \cup {"none"}
         /\ Translation(c, p) \in Frame \cup {"none"}
BY Constants DEF TypeOK, Translation, Walk, Frame

LEMMA AfterType ==
  ASSUME NEW r \in Region
  PROVE  /\ After(r) \in {"region", "vma"}
         /\ After(r) = "region" => r + 1 < Regions
BY DEF After

-----------------------------------------------------------------------------
(***************************************************************************)
(* The types.                                                              *)
(***************************************************************************)
LEMMA TypeStep == TypeOK /\ CopyInv /\ [Next]_vars => TypeOK'
<1>. SUFFICES ASSUME TypeOK, CopyInv, [Next]_vars PROVE TypeOK'
  OBVIOUS
<1>. USE Constants DEF process, processors, memory, Goto
<1>1. CASE UNCHANGED vars
  BY <1>1 DEF vars, TypeOK
<1>4. strayed' \in BOOLEAN
  BY DEF Next, vars, TypeOK
<1>2. CASE \E k \in threads : Step(k)
  <2>1. PICK k \in threads : Step(k)
    BY <1>2
  <2>2. k \in Task /\ cpu[k] \in Cpu
    BY DEF TypeOK
  <2>3. CASE sysfs_store(k) \/ MmapWriteLock(k) \/ Compacted(k) \/ MmapWriteUnlock(k) \/ Reset(k)
    BY <1>4, <2>2, <2>3 DEF TypeOK, sysfs_store, MmapWriteLock, Compacted, MmapWriteUnlock, Reset
  <2>4. CASE NextVma(k)
    BY <1>4, <2>2, <2>4 DEF TypeOK, NextVma
  <2>5. CASE SkipRegion(k)
    <3>1. at[k] \in Region
      BY <2>2, <2>5 DEF SkipRegion, TypeOK, CopyInv
    <3>. QED
      BY <1>4, <2>2, <2>5, <3>1, AfterType DEF TypeOK, SkipRegion
  <2>6. CASE Allocate(k)
    <3>1. latest' \in [Page -> SUBSET Frame]
      BY <2>6 DEF TypeOK, Allocate
    <3>2. todo' \in [Task -> SUBSET Page]
      BY <2>6 DEF TypeOK, Allocate, PagesOf
    <3>. QED
      BY <1>4, <2>2, <2>6, <3>1, <3>2 DEF TypeOK, Allocate
  <2>7. ASSUME NEW p \in Page, Copy(k, p) PROVE TypeOK'
    <3>1. CASE return_pfn(p)
      <4>1. Translation(cpu[k], p) \in Frame \cup {"none"} /\ k \in Frame
        BY <2>2, TranslationType DEF Frame
      <4>2. latest' \in [Page -> SUBSET Frame]
        BY <2>7, <3>1, <4>1 DEF TypeOK, Copy
      <4>3. tlb[cpu[k]] \in [Page -> Frame \cup {"none"}]
        BY <2>2 DEF TypeOK
      <4>4. [tlb[cpu[k]] EXCEPT ![p] = Translation(cpu[k], p)] \in [Page -> Frame \cup {"none"}]
        BY <4>1, <4>3
      <4>5. tlb' = [tlb EXCEPT ![cpu[k]] = [tlb[cpu[k]] EXCEPT ![p] = Translation(cpu[k], p)]]
        BY <2>7, <3>1 DEF Copy
      <4>6. tlb' \in [Cpu -> [Page -> Frame \cup {"none"}]]
        BY <4>4, <4>5 DEF TypeOK
      <4>7. todo' \in [Task -> SUBSET Page]
        BY <2>2, <2>7 DEF TypeOK, Copy
      <4>. QED
        BY <1>4, <2>2, <2>7, <4>2, <4>6, <4>7 DEF TypeOK, Copy
    <3>2. CASE ~ return_pfn(p)
      BY <1>4, <2>2, <2>7, <3>2 DEF TypeOK, Copy
    <3>. QED
      BY <3>1, <3>2
  <2>8. CASE remap_huge_page(k)
    <3>1. at[k] \in Region
      BY <2>2, <2>8 DEF remap_huge_page, TypeOK, CopyInv
    <3>. QED
      BY <1>4, <2>2, <2>8, <3>1, AfterType DEF TypeOK, remap_huge_page, Frame
  <2>9. CASE Flush(k)
    BY <1>4, <2>2, <2>9 DEF TypeOK, Flush
  <2>10. ASSUME NEW p \in Page, Write(k, p) \/ PageFault(k, p) \/ Discard(k, p)
         PROVE  TypeOK'
    <3>1. Translation(cpu[k], p) \in Frame \cup {"none"}
      BY <2>2, TranslationType
    <3>2. tlb[cpu[k]] \in [Page -> Frame \cup {"none"}]
      BY <2>2 DEF TypeOK
    <3>3. CASE Write(k, p)
      <4>1. latest' \in [Page -> SUBSET Frame]
        BY <2>10, <3>1, <3>3 DEF TypeOK, Write, Frame
      <4>2. [tlb[cpu[k]] EXCEPT ![p] = Translation(cpu[k], p)] \in [Page -> Frame \cup {"none"}]
        BY <3>1, <3>2
      <4>3. tlb' = [tlb EXCEPT ![cpu[k]] = [tlb[cpu[k]] EXCEPT ![p] = Translation(cpu[k], p)]]
        BY <3>3 DEF Write
      <4>4. tlb' \in [Cpu -> [Page -> Frame \cup {"none"}]]
        BY <4>2, <4>3 DEF TypeOK
      <4>. QED
        BY <1>4, <3>3, <4>1, <4>4 DEF TypeOK, Write
    <3>4. CASE PageFault(k, p)
      BY <1>4, <2>2, <3>4 DEF TypeOK, PageFault, Frame
    <3>5. CASE Discard(k, p)
      <4>1. \A c \in Cpu : [tlb[c] EXCEPT ![p] = "none"] \in [Page -> Frame \cup {"none"}]
        BY DEF TypeOK
      <4>2. tlb' \in [Cpu -> [Page -> Frame \cup {"none"}]]
        BY <3>5, <4>1 DEF Discard
      <4>. QED
        BY <1>4, <3>5, <4>2 DEF TypeOK, Discard
    <3>. QED
      BY <2>10, <3>3, <3>4, <3>5
  <2>11. ASSUME NEW c \in Cpu, Migrate(k, c) PROVE TypeOK'
    BY <1>4, <2>2, <2>11 DEF TypeOK, Migrate
  <2>. QED
    BY <2>1, <2>3, <2>4, <2>5, <2>6, <2>7, <2>8, <2>9, <2>10, <2>11 DEF Step
<1>3. ASSUME NEW c \in Cpu, NEW p \in Page, Evict(c, p) PROVE TypeOK'
  <2>1. [tlb[c] EXCEPT ![p] = "none"] \in [Page -> Frame \cup {"none"}]
    BY DEF TypeOK
  <2>2. tlb' = [tlb EXCEPT ![c] = [tlb[c] EXCEPT ![p] = "none"]]
    BY <1>3 DEF Evict
  <2>3. tlb' \in [Cpu -> [Page -> Frame \cup {"none"}]]
    BY <2>1, <2>2 DEF TypeOK
  <2>. QED
    BY <1>3, <1>4, <2>3 DEF TypeOK, Evict
<1>. QED
  BY <1>1, <1>2, <1>3, NextCases

-----------------------------------------------------------------------------
(***************************************************************************)
(* The lock and the sysfs file.                                            *)
(***************************************************************************)
LEMMA LockStep == TypeOK /\ CopyInv /\ LockInv /\ [Next]_vars => LockInv'
<1>. SUFFICES ASSUME TypeOK, CopyInv, LockInv, [Next]_vars PROVE LockInv'
  OBVIOUS
<1>. USE Constants DEF process, processors, memory, Goto, LockInv, TypeOK
<1>1. CASE UNCHANGED vars
  BY <1>1 DEF vars
<1>2. CASE \E k \in threads : Step(k)
  <2>1. PICK k \in threads : Step(k)
    BY <1>2
  <2>2. k \in Task
    OBVIOUS
  <2>3. CASE sysfs_store(k)
    BY <2>2, <2>3 DEF sysfs_store
  <2>4. CASE MmapWriteLock(k)
    BY <2>2, <2>4 DEF MmapWriteLock
  <2>5. CASE Compacted(k)
    BY <2>2, <2>5 DEF Compacted
  <2>6. CASE MmapWriteUnlock(k)
    BY <2>2, <2>6 DEF MmapWriteUnlock
  <2>7. CASE Reset(k)
    BY <2>2, <2>7 DEF Reset
  <2>8. CASE NextVma(k)
    BY <2>2, <2>8 DEF NextVma
  <2>9. CASE SkipRegion(k) \/ remap_huge_page(k)
    <3>1. After(at[k]) \in {"region", "vma"}
      BY DEF After
    <3>. QED
      BY <2>2, <2>9, <3>1 DEF SkipRegion, remap_huge_page
  <2>10. CASE Allocate(k)
    BY <2>2, <2>10 DEF Allocate
  <2>11. CASE Flush(k)
    BY <2>2, <2>11 DEF Flush
  <2>12. ASSUME NEW p \in Page, Copy(k, p) \/ Write(k, p) \/ PageFault(k, p) \/ Discard(k, p)
         PROVE  LockInv'
    BY <2>12 DEF Copy, Write, PageFault, Discard
  <2>13. ASSUME NEW c \in Cpu, Migrate(k, c) PROVE LockInv'
    BY <2>13 DEF Migrate
  <2>. QED
    BY <2>1, <2>3, <2>4, <2>5, <2>6, <2>7, <2>8, <2>9, <2>10, <2>11, <2>12, <2>13 DEF Step
<1>3. ASSUME NEW c \in Cpu, NEW p \in Page, Evict(c, p) PROVE LockInv'
  BY <1>3 DEF Evict
<1>. QED
  BY <1>1, <1>2, <1>3, NextCases

-----------------------------------------------------------------------------
(***************************************************************************)
(* The pages of the region that is copied.                                 *)
(***************************************************************************)
\* Of two callers of do_promote in a quiet process one waits for the lock.
LEMMA QuietAlone ==
  ASSUME LockInv, TypeOK, Quiet, NEW k \in Task, pc[k] = "copy"
  PROVE  /\ lock = NoTask => threads = {k}
         /\ \A j \in threads : pc[j] \in {"vma", "region", "copy", "unlock"} => j = k
<1>1. k \in threads /\ path[k] # "none" /\ path[k] \in ways
  BY DEF LockInv
<1>2. CASE Single
  BY <1>1, <1>2 DEF Single
<1>3. CASE ways = {"sysfs"}
  <2>1. lock = k
    BY <1>1, <1>3 DEF LockInv
  <2>2. ASSUME NEW j \in threads, pc[j] \in {"vma", "region", "copy", "unlock"}
        PROVE  j = k
    <3>1. j \in Task /\ path[j] = "sysfs"
      BY <1>3, <2>2 DEF LockInv, TypeOK
    <3>2. lock = j
      BY <2>2, <3>1 DEF LockInv
    <3>. QED
      BY <2>1, <3>2
  <2>. QED
    BY <2>1, <2>2, Constants
<1>. QED
  BY <1>2, <1>3 DEF Quiet

LEMMA CopyStep == TypeOK /\ LockInv /\ CopyInv /\ [Next]_vars => CopyInv'
<1>. SUFFICES ASSUME TypeOK, LockInv, CopyInv, [Next]_vars PROVE CopyInv'
  OBVIOUS
<1>. USE Constants DEF process, processors, memory, Goto, TypeOK
<1>1. CASE UNCHANGED vars
  BY <1>1 DEF vars, CopyInv, Quiet, Single, return_pfn
<1>2. CASE \E k \in threads : Step(k)
  <2>1. PICK k \in threads : Step(k)
    BY <1>2
  <2>2. k \in Task /\ (Quiet <=> Quiet')
    BY <2>1 DEF Quiet, Single, sysfs_store, MmapWriteLock, Compacted, MmapWriteUnlock,
        Reset, NextVma, SkipRegion, Allocate, Copy, remap_huge_page, Flush, Write,
        PageFault, Discard, Migrate, Step
  <2>3. CASE sysfs_store(k) \/ MmapWriteLock(k) \/ Compacted(k) \/ MmapWriteUnlock(k) \/ Reset(k)
    BY <2>2, <2>3 DEF CopyInv, return_pfn, sysfs_store, MmapWriteLock, Compacted,
        MmapWriteUnlock, Reset
  <2>4. CASE NextVma(k)
    BY <2>2, <2>4 DEF CopyInv, return_pfn, NextVma
  <2>5. CASE SkipRegion(k)
    BY <2>2, <2>5, AfterType DEF CopyInv, return_pfn, SkipRegion
  <2>6. CASE Allocate(k)
    BY <2>2, <2>6 DEF CopyInv, return_pfn, Allocate
  <2>7. ASSUME NEW p \in Page, Copy(k, p) \/ Write(k, p) PROVE CopyInv'
    BY <2>2, <2>7 DEF CopyInv, return_pfn, Copy, Write
  <2>8. CASE remap_huge_page(k)
    <3>1. ASSUME NEW j \in Task, pc'[j] \in {"region", "copy"} PROVE at'[j] < Regions
      BY <2>2, <2>8, <3>1, AfterType DEF CopyInv, remap_huge_page
    <3>2. ASSUME NEW j \in Task, Quiet', pc'[j] = "copy" PROVE FALSE
      <4>1. j # k /\ pc[j] = "copy" /\ pc[k] = "copy"
        BY <2>2, <2>8, <3>2 DEF remap_huge_page, After
      <4>. QED
        BY <2>2, <3>2, <4>1, QuietAlone
    <3>. QED
      BY <3>1, <3>2 DEF CopyInv
  <2>9. CASE Flush(k)
    BY <2>2, <2>9 DEF CopyInv, return_pfn, Flush
  <2>10. ASSUME NEW p \in Page, PageFault(k, p) PROVE CopyInv'
    BY <2>2, <2>10 DEF CopyInv, return_pfn, PageFault
  <2>11. ASSUME NEW p \in Page, Discard(k, p) PROVE CopyInv'
    <3>1. ASSUME NEW j \in Task, Quiet', pc'[j] = "copy" PROVE FALSE
      <4>1. pc[j] = "copy" /\ pc[k] = "user" /\ lock = NoTask
        BY <2>11, <3>1 DEF Discard
      <4>2. threads = {j}
        BY <2>2, <3>1, <4>1, QuietAlone
      <4>. QED
        BY <4>1, <4>2
    <3>. QED
      BY <2>11, <3>1 DEF CopyInv, Discard
  <2>12. ASSUME NEW c \in Cpu, Migrate(k, c) PROVE CopyInv'
    BY <2>2, <2>12 DEF CopyInv, return_pfn, Migrate
  <2>. QED
    BY <2>1, <2>3, <2>4, <2>5, <2>6, <2>7, <2>8, <2>9, <2>10, <2>11, <2>12 DEF Step
<1>3. ASSUME NEW c \in Cpu, NEW p \in Page, Evict(c, p) PROVE CopyInv'
  BY <1>3 DEF CopyInv, Quiet, Single, return_pfn, Evict
<1>. QED
  BY <1>1, <1>2, <1>3, NextCases

-----------------------------------------------------------------------------
(***************************************************************************)
(* The processors.                                                         *)
(***************************************************************************)
LEMMA ThreadsStay == Next => threads' = threads
BY NextCases DEF Step, process, processors, sysfs_store, MmapWriteLock, Compacted,
   MmapWriteUnlock, Reset, NextVma, SkipRegion, Allocate, Copy, remap_huge_page, Flush,
   Write, PageFault, Discard, Migrate, Evict

LEMMA CpuStep == TypeOK /\ CpuInv /\ [Next]_vars => CpuInv'
<1>. SUFFICES ASSUME TypeOK, CpuInv, [Next]_vars PROVE CpuInv'
  OBVIOUS
<1>. USE DEF process, processors, memory, Goto
<1>1. CASE UNCHANGED vars
  BY <1>1 DEF vars, CpuInv
<1>2. CASE Next
  <2>1. threads' = threads
    BY <1>2, ThreadsStay
  <2>2. ~ strayed' => \A k \in threads' : pc'[k] = "user" => cpu'[k] \notin behind'
    BY <1>2, <2>1 DEF Next
  <2>3. ASSUME UNCHANGED <<cpu, visited>>,
               \A c \in Cpu \ visited : \A p \in Page : tlb'[c][p] = "none"
        PROVE  CpuInv'
    BY <2>1, <2>2, <2>3 DEF CpuInv
  <2>4. ASSUME NEW k \in threads, Step(k) PROVE CpuInv'
    <3>1. k \in Task /\ cpu[k] \in visited
      BY DEF TypeOK, CpuInv
    <3>2. CASE \/ sysfs_store(k) \/ MmapWriteLock(k) \/ Compacted(k) \/ MmapWriteUnlock(k)
               \/ Reset(k) \/ NextVma(k) \/ SkipRegion(k) \/ Allocate(k) \/ remap_huge_page(k)
               \/ \E p \in Page : PageFault(k, p)
      <4>1. UNCHANGED <<cpu, visited, tlb>>
        BY <3>2 DEF sysfs_store, MmapWriteLock, Compacted, MmapWriteUnlock, Reset, NextVma,
            SkipRegion, Allocate, remap_huge_page, PageFault
      <4>. QED
        BY <2>3, <4>1 DEF CpuInv
    <3>3. ASSUME NEW p \in Page, Copy(k, p) \/ Write(k, p) PROVE CpuInv'
      <4>1. \A c \in Cpu \ {cpu[k]} : tlb'[c] = tlb[c]
        BY <3>3 DEF Copy, Write, TypeOK
      <4>. QED
        BY <2>3, <3>1, <3>3, <4>1 DEF CpuInv, Copy, Write
    <3>4. CASE Flush(k)
      <4>1. \A c \in Cpu \ {cpu[k]} : tlb'[c] = tlb[c]
        BY <3>4 DEF Flush, TypeOK
      <4>. QED
        BY <2>3, <3>1, <3>4, <4>1 DEF CpuInv, Flush
    <3>5. ASSUME NEW p \in Page, Discard(k, p) PROVE CpuInv'
      <4>1. \A c \in Cpu, q \in Page : tlb'[c][q] \in {tlb[c][q], "none"}
        BY <3>5 DEF Discard, TypeOK
      <4>. QED
        BY <2>3, <3>5, <4>1 DEF CpuInv, Discard
    <3>6. ASSUME NEW c \in Cpu, Migrate(k, c) PROVE CpuInv'
      <4>1. \A j \in threads : cpu'[j] \in {cpu[j], c}
        BY <3>1, <3>6 DEF Migrate, TypeOK
      <4>. QED
        BY <2>1, <2>2, <3>6, <4>1 DEF CpuInv, Migrate
    <3>. QED
      BY <2>4, <3>2, <3>3, <3>4, <3>5, <3>6 DEF Step
  <2>5. ASSUME NEW c \in Cpu, NEW p \in Page, Evict(c, p) PROVE CpuInv'
    <3>1. \A d \in Cpu, q \in Page : tlb'[d][q] \in {tlb[d][q], "none"}
      BY <2>5 DEF Evict, TypeOK
    <3>. QED
      BY <2>3, <2>5, <3>1 DEF CpuInv, Evict
  <2>. QED
    BY <1>2, <2>4, <2>5, NextCases
<1>. QED
  BY <1>1, <1>2

-----------------------------------------------------------------------------
(***************************************************************************)
(* The memory of a process with one thread.                                *)
(***************************************************************************)
\* The parts of MemoryInv, for its thread u.
RegionsPart(u) == \A r \in Region : pmd[r] \in {"small", u}

SmallPart(u) == \A p \in Page : pmd[RegionOf[p]] = "small" =>
  /\ \A c \in Cpu : tlb[c][p] = "none" \/ (tlb[c][p] = "small" /\ pte[p])
  /\ pte[p] => "small" \in latest[p]

HugePart(u) == \A p \in Page : pmd[RegionOf[p]] = u =>
  /\ u \in latest[p]
  /\ \A c \in Cpu \ behind : tlb[c][p] \in {"none", u}

CopiedPart(u) ==
  pc[u] = "copy" => \A p \in PagesOf(at[u]) \ todo[u] : u \in latest[p]

LEMMA MemoryParts ==
  MemoryInv <=> \A u \in Task : threads = {u} /\ ~ strayed =>
    RegionsPart(u) /\ SmallPart(u) /\ HugePart(u) /\ CopiedPart(u)
BY DEF MemoryInv, RegionsPart, SmallPart, HugePart, CopiedPart

\* The TLB of a CPU that is not behind agrees with the page table.
LEMMA TranslationIsLatest ==
  ASSUME TypeOK, NEW u \in Task, RegionsPart(u), SmallPart(u), HugePart(u),
         NEW c \in Cpu \ behind, NEW p \in Page
  PROVE  /\ Translation(c, p) = Walk(p)
         /\ Translation(c, p) # "none" => Translation(c, p) \in latest[p]
<1>1. CASE pmd[RegionOf[p]] = "small"
  BY <1>1 DEF SmallPart, Translation, Walk
<1>2. CASE pmd[RegionOf[p]] = u
  BY <1>2, Constants DEF HugePart, Translation, Walk
<1>. QED
  BY <1>1, <1>2, Constants DEF RegionsPart

LEMMA UserStep ==
  ASSUME TypeOK, NEW u \in Task, RegionsPart(u), SmallPart(u), HugePart(u),
         cpu[u] \notin behind, NEW p \in Page,
         Write(u, p) \/ PageFault(u, p) \/ Discard(u, p)
  PROVE  RegionsPart(u)' /\ SmallPart(u)' /\ HugePart(u)'
<1>. USE Constants DEF TypeOK
<1>1. UNCHANGED <<pmd, pc, behind>> /\ RegionsPart(u)' /\ cpu[u] \in Cpu
  BY DEF Write, PageFault, Discard, RegionsPart, processors
<1>2. CASE Write(u, p)
  <2>1. /\ Translation(cpu[u], p) = Walk(p) /\ Walk(p) # "none"
        /\ pte' = pte
    BY <1>1, <1>2, TranslationIsLatest DEF Write
  <2>2. \A q \in Page :
          /\ q # p => latest'[q] = latest[q] /\ \A c \in Cpu : tlb'[c][q] = tlb[c][q]
          /\ latest'[p] = {Walk(p)}
          /\ \A c \in Cpu : tlb'[c][p] \in {tlb[c][p], Walk(p)}
    BY <1>1, <1>2, <2>1 DEF Write
  <2>3. /\ pmd[RegionOf[p]] = "small" => Walk(p) = "small" /\ pte[p]
        /\ pmd[RegionOf[p]] = u => Walk(p) = u
    BY <2>1 DEF Walk
  <2>4. SmallPart(u)'
    BY <1>1, <2>1, <2>2, <2>3 DEF SmallPart
  <2>5. HugePart(u)'
    BY <1>1, <2>1, <2>2, <2>3 DEF HugePart
  <2>. QED
    BY <1>1, <2>4, <2>5
<1>3. CASE PageFault(u, p)
  <2>1. tlb' = tlb /\ pmd[RegionOf[p]] = "small"
    BY <1>3 DEF PageFault, Translation, Walk, RegionsPart
  <2>2. \A q \in Page :
          /\ q # p => pte'[q] = pte[q] /\ latest'[q] = latest[q]
          /\ pte'[p] /\ latest'[p] = {"small"}
    BY <1>3 DEF PageFault
  <2>3. SmallPart(u)'
    <3>1. ASSUME NEW q \in Page, pmd[RegionOf[q]] = "small"
          PROVE  /\ \A c \in Cpu : tlb[c][q] = "none" \/ (tlb[c][q] = "small" /\ pte'[q])
                 /\ pte'[q] => "small" \in latest'[q]
      BY <2>1, <2>2, <3>1 DEF SmallPart
    <3>. QED
      BY <1>1, <2>1, <3>1 DEF SmallPart
  <2>4. HugePart(u)'
    <3>1. ASSUME NEW q \in Page, pmd[RegionOf[q]] = u PROVE q # p
      BY <2>1, <3>1
    <3>. QED
      BY <1>1, <2>1, <2>2, <3>1 DEF HugePart
  <2>. QED
    BY <1>1, <2>3, <2>4
<1>4. CASE Discard(u, p)
  <2>1. pmd[RegionOf[p]] = "small"
    BY <1>4 DEF Discard, return_pfn
  <2>2. \A q \in Page :
          /\ q # p => /\ pte'[q] = pte[q] /\ latest'[q] = latest[q]
                     /\ \A c \in Cpu : tlb'[c][q] = tlb[c][q]
          /\ ~ pte'[p] /\ \A c \in Cpu : tlb'[c][p] = "none"
    BY <1>4 DEF Discard
  <2>3. SmallPart(u)'
    <3>1. ASSUME NEW q \in Page, pmd[RegionOf[q]] = "small"
          PROVE  /\ \A c \in Cpu : tlb'[c][q] = "none" \/ (tlb'[c][q] = "small" /\ pte'[q])
                 /\ pte'[q] => "small" \in latest'[q]
      <4>1. CASE q = p
        BY <2>2, <4>1
      <4>2. CASE q # p
        BY <2>2, <3>1, <4>2 DEF SmallPart
      <4>. QED
        BY <4>1, <4>2
    <3>. QED
      BY <1>1, <3>1 DEF SmallPart
  <2>4. HugePart(u)'
    <3>1. ASSUME NEW q \in Page, pmd[RegionOf[q]] = u PROVE q # p
      BY <2>1, <3>1
    <3>. QED
      BY <1>1, <2>2, <3>1 DEF HugePart
  <2>. QED
    BY <1>1, <2>3, <2>4
<1>. QED
  BY <1>2, <1>3, <1>4

LEMMA MemoryStep ==
  TypeOK /\ LockInv /\ CopyInv /\ CpuInv /\ MemoryInv /\ [Next]_vars => MemoryInv'
<1>. SUFFICES ASSUME TypeOK, LockInv, CopyInv, CpuInv, MemoryInv, [Next]_vars,
                     NEW u \in Task, threads' = {u}, ~ strayed'
              PROVE  RegionsPart(u)' /\ SmallPart(u)' /\ HugePart(u)' /\ CopiedPart(u)'
  BY DEF MemoryInv, RegionsPart, SmallPart, HugePart, CopiedPart
<1>. USE Constants DEF process, processors, memory, Goto
<1>1. CASE UNCHANGED vars
  <2>1. RegionsPart(u) /\ SmallPart(u) /\ HugePart(u) /\ CopiedPart(u)
    BY <1>1, MemoryParts DEF vars
  <2>. QED
    BY <1>1, <2>1 DEF vars, RegionsPart, SmallPart, HugePart, CopiedPart, PagesOf
<1>2. CASE Next
  <2>1. threads = {u} /\ ~ strayed /\ Quiet
    BY <1>2, ThreadsStay DEF Next, Quiet, Single
  <2>2. RegionsPart(u) /\ SmallPart(u) /\ HugePart(u) /\ CopiedPart(u)
    BY <2>1, MemoryParts
  <2>3. /\ u \in Task /\ cpu[u] \in Cpu /\ cpu[u] \in visited
        /\ pc \in [Task -> {"user", "lock", "vma", "region", "copy", "unlock", "reset"}]
    BY <2>1 DEF TypeOK, CpuInv
  <2>4. Step(u) \/ \E c \in Cpu, p \in Page : Evict(c, p)
    BY <1>2, <2>1, NextCases
  <2>6. CASE \/ sysfs_store(u) \/ MmapWriteLock(u) \/ Compacted(u) \/ MmapWriteUnlock(u)
             \/ Reset(u) \/ NextVma(u) \/ SkipRegion(u)
    <3>1. UNCHANGED <<memory, behind>>
      BY <2>6 DEF sysfs_store, MmapWriteLock, Compacted, MmapWriteUnlock, Reset,
          NextVma, SkipRegion
    <3>2. RegionsPart(u)' /\ SmallPart(u)' /\ HugePart(u)'
      BY <2>2, <3>1 DEF RegionsPart, SmallPart, HugePart
    <3>3. pc'[u] # "copy"
      BY <2>3, <2>6, AfterType DEF sysfs_store, MmapWriteLock, Compacted, MmapWriteUnlock,
          Reset, NextVma, SkipRegion, After
    <3>. QED
      BY <3>2, <3>3 DEF CopiedPart
  <2>7. CASE Allocate(u)
    <3>1. /\ pc'[u] = "copy" /\ todo'[u] = PagesOf(at[u])
          /\ UNCHANGED <<pte, pmd, tlb, at, behind>>
          /\ \A p \in Page : latest'[p] =
               IF p \in PagesOf(at[u]) THEN latest[p] \ {u} ELSE latest[p]
      BY <2>3, <2>7 DEF Allocate, TypeOK
    <3>2. \A p \in PagesOf(at[u]) : pmd[RegionOf[p]] = "small"
      BY <2>7 DEF Allocate, return_pfn
    <3>3. RegionsPart(u)' /\ SmallPart(u)'
      BY <2>2, <3>1 DEF RegionsPart, SmallPart
    <3>4. HugePart(u)'
      BY <2>2, <3>1, <3>2 DEF HugePart
    <3>5. CopiedPart(u)'
      BY <3>1 DEF CopiedPart, PagesOf
    <3>. QED
      BY <3>3, <3>4, <3>5
  <2>8. ASSUME NEW p \in Page, Copy(u, p)
        PROVE  RegionsPart(u)' /\ SmallPart(u)' /\ HugePart(u)' /\ CopiedPart(u)'
    <3>1. /\ pc[u] = "copy" /\ UNCHANGED <<pte, pmd, at, pc, behind>>
          /\ todo'[u] = todo[u] \ {p}
      BY <2>3, <2>8 DEF Copy, TypeOK
    <3>2. CASE return_pfn(p)
      <4>1. /\ pmd[RegionOf[p]] = "small" /\ pte[p]
            /\ Translation(cpu[u], p) = "small" /\ "small" \in latest[p]
        BY <2>2, <2>3, <3>2 DEF return_pfn, SmallPart, Translation, Walk
      <4>2. \A q \in Page : latest'[q] = IF q = p THEN latest[p] \cup {u} ELSE latest[q]
        BY <2>3, <2>8, <3>2, <4>1 DEF Copy, TypeOK
      <4>3. \A c \in Cpu, q \in Page :
              tlb'[c][q] = IF c = cpu[u] /\ q = p THEN "small" ELSE tlb[c][q]
        <5>1. tlb' = [tlb EXCEPT ![cpu[u]] = [tlb[cpu[u]] EXCEPT ![p] = "small"]]
          BY <2>8, <3>2, <4>1 DEF Copy
        <5>2. \A c \in Cpu : tlb[c] \in [Page -> Frame \cup {"none"}]
          BY DEF TypeOK
        <5>. QED
          BY <2>3, <5>1, <5>2 DEF TypeOK
      <4>4. RegionsPart(u)' /\ SmallPart(u)'
        BY <2>2, <3>1, <4>1, <4>2, <4>3 DEF RegionsPart, SmallPart
      <4>5. HugePart(u)'
        <5>1. ASSUME NEW q \in Page, pmd[RegionOf[q]] = u PROVE q # p
          BY <4>1, <5>1
        <5>. QED
          BY <2>2, <3>1, <4>2, <4>3, <5>1 DEF HugePart
      <4>6. CopiedPart(u)'
        BY <2>2, <3>1, <4>2 DEF CopiedPart, PagesOf
      <4>. QED
        BY <4>4, <4>5, <4>6
    <3>3. CASE ~ return_pfn(p)
      <4>1. p \in todo[u] /\ UNCHANGED <<latest, tlb>>
        BY <2>8, <3>3 DEF Copy
      <4>2. p \notin PagesOf(at[u])
        BY <2>1, <3>1, <3>3 DEF CopyInv
      <4>3. RegionsPart(u)' /\ SmallPart(u)' /\ HugePart(u)'
        BY <2>2, <3>1, <4>1 DEF RegionsPart, SmallPart, HugePart
      <4>4. CopiedPart(u)'
        BY <2>2, <3>1, <4>1, <4>2 DEF CopiedPart, PagesOf
      <4>. QED
        BY <4>3, <4>4
    <3>. QED
      BY <3>2, <3>3
  <2>9. CASE remap_huge_page(u)
    <3>1. /\ pc[u] = "copy" /\ todo[u] = {} /\ pc'[u] \in {"region", "vma"}
          /\ UNCHANGED <<pte, latest, tlb>> /\ behind' = behind \cup visited
          /\ \A r \in Region : pmd'[r] = IF r = at[u] THEN u ELSE pmd[r]
      BY <2>3, <2>9 DEF remap_huge_page, TypeOK, After
    <3>2. RegionsPart(u)' /\ SmallPart(u)'
      BY <2>2, <3>1 DEF RegionsPart, SmallPart
    <3>3. \A p \in PagesOf(at[u]) : u \in latest[p]
      BY <2>2, <3>1 DEF CopiedPart
    <3>4. \A c \in Cpu \ behind', p \in Page : c \notin behind /\ tlb'[c][p] = "none"
      BY <3>1 DEF CpuInv
    <3>5. HugePart(u)'
      BY <2>2, <3>1, <3>3, <3>4 DEF HugePart, PagesOf
    <3>. QED
      BY <3>1, <3>2, <3>5 DEF CopiedPart
  <2>10. CASE Flush(u)
    <3>1. /\ pc'[u] \in {"unlock", "user"} /\ UNCHANGED <<pte, pmd, latest>>
          /\ behind' = behind \ {cpu[u]}
          /\ \A c \in Cpu, p \in Page :
               tlb'[c][p] = IF c = cpu[u] THEN "none" ELSE tlb[c][p]
      BY <2>3, <2>10 DEF Flush, TypeOK
    <3>2. RegionsPart(u)' /\ SmallPart(u)'
      BY <2>2, <3>1 DEF RegionsPart, SmallPart
    <3>3. HugePart(u)'
      BY <2>2, <3>1 DEF HugePart
    <3>. QED
      BY <3>1, <3>2, <3>3 DEF CopiedPart
  <2>11. ASSUME NEW p \in Page, Write(u, p) \/ PageFault(u, p) \/ Discard(u, p)
         PROVE  RegionsPart(u)' /\ SmallPart(u)' /\ HugePart(u)' /\ CopiedPart(u)'
    <3>1. cpu[u] \notin behind /\ pc'[u] = "user"
      BY <2>1, <2>11 DEF CpuInv, Write, PageFault, Discard
    <3>2. RegionsPart(u)' /\ SmallPart(u)' /\ HugePart(u)'
      BY <2>2, <2>11, <3>1, UserStep
    <3>. QED
      BY <3>1, <3>2 DEF CopiedPart
  <2>12. ASSUME NEW c \in Cpu, Migrate(u, c)
         PROVE  RegionsPart(u)' /\ SmallPart(u)' /\ HugePart(u)' /\ CopiedPart(u)'
    <3>1. UNCHANGED <<memory, behind, pc, at, todo>>
      BY <2>12 DEF Migrate
    <3>. QED
      BY <2>2, <3>1 DEF RegionsPart, SmallPart, HugePart, CopiedPart, PagesOf
  <2>13. ASSUME NEW c \in Cpu, NEW p \in Page, Evict(c, p)
         PROVE  RegionsPart(u)' /\ SmallPart(u)' /\ HugePart(u)' /\ CopiedPart(u)'
    <3>1. /\ UNCHANGED <<pte, pmd, latest, behind, pc, at, todo>>
          /\ \A d \in Cpu, q \in Page : tlb'[d][q] \in {tlb[d][q], "none"}
      BY <2>13 DEF Evict, TypeOK
    <3>. QED
      BY <2>2, <3>1 DEF RegionsPart, SmallPart, HugePart, CopiedPart, PagesOf
  <2>. QED
    BY <2>4, <2>6, <2>7, <2>8, <2>9, <2>10, <2>11, <2>12, <2>13 DEF Step
<1>. QED
  BY <1>1, <1>2

-----------------------------------------------------------------------------
(***************************************************************************)
(* The theorems.                                                           *)
(***************************************************************************)
\* The inductive invariant of do_promote and its callers holds in every
\* reachable state.
THEOREM Invariance == Spec => []Inv
<1>1. Inv /\ [Next]_vars => Inv'
  BY TypeStep, LockStep, CopyStep, CpuStep, MemoryStep DEF Inv
<1>. QED
  BY <1>1, InitInv, PTL DEF Spec

\* Every variable keeps its type: no walk over the regions leaves the address
\* space.
THEOREM TypeCorrect == Spec => []TypeOK
<1>1. Inv => TypeOK
  BY DEF Inv
<1>. QED
  BY <1>1, Invariance, PTL

\* do_promote keeps the contents of the memory of every process with one
\* thread, on any number of CPUs, as long as the thread has not come back in
\* user mode to a CPU that is behind: __flush_tlb_all leaves the TLBs of the
\* others as they are.
THEOREM ContentsKept == Spec => []ReadsLatest
<1>1. Inv => ReadsLatest
  <2>. SUFFICES ASSUME Inv, Single, ~ strayed, NEW u \in threads, pc[u] = "user",
                       NEW p \in Page, Translation(cpu[u], p) # "none"
                PROVE  Translation(cpu[u], p) \in latest[p]
    BY DEF ReadsLatest
  <2>1. u \in Task /\ threads = {u} /\ cpu[u] \in Cpu \ behind
    BY DEF Inv, TypeOK, Single, CpuInv
  <2>2. RegionsPart(u) /\ SmallPart(u) /\ HugePart(u)
    BY <2>1, MemoryParts DEF Inv
  <2>. QED
    BY <2>1, <2>2, TranslationIsLatest DEF Inv
<1>. QED
  BY <1>1, Invariance, PTL

\* In a quiet process no PMD is switched unless every page of its region is
\* allocated and mapped by small pages at that moment.
THEOREM OnlyAllocatedPromoted == Spec => PromotesAllocated
<1>1. Inv /\ [Next]_vars => [\A k \in Task : Quiet => Promotes(k)]_vars
  <2>. SUFFICES ASSUME Inv, NEW k \in Task, Quiet, remap_huge_page(k)
                PROVE  \A p \in PagesOf(at[k]) : return_pfn(p)
    BY DEF Promotes
  <2>1. pc[k] = "copy"
    BY DEF remap_huge_page, Goto
  <2>. QED
    BY <2>1 DEF Inv, CopyInv
<1>. QED
  BY <1>1, Invariance, PTL DEF Spec, PromotesAllocated

\* When the last call has ended the lock is free and the sysfs file reads 0,
\* for any number of overlapping calls of both kinds.
THEOREM CallsSettle == Spec => []Settled
<1>1. Inv => Settled
  <2>. SUFFICES ASSUME Inv, \A k \in Task : pc[k] = "user" PROVE promote = 0 /\ lock = NoTask
    BY DEF Settled
  <2>1. \A k \in Task : path[k] = "none"
    BY DEF Inv, LockInv
  <2>2. promote # 1
    BY <2>1 DEF Inv, LockInv
  <2>3. \A k \in Task : lock # k
    BY <2>1 DEF Inv, LockInv
  <2>. QED
    BY <2>2, <2>3 DEF Inv, TypeOK
<1>. QED
  BY <1>1, Invariance, PTL
=============================================================================
