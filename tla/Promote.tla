------------------------------ MODULE Promote -------------------------------
(***************************************************************************)
(* The promotion of A2/module/btplus.c: do_promote copies each 2MB region  *)
(* whose pages are all allocated to a huge page and switches its PMD.  It  *)
(* is called by a write to the sysfs file promote, under the mmap lock,    *)
(* and at the end of IOCTL_COMPACT_VMA, without it.  The threads of the    *)
(* process go on using its memory, each through the TLB of the CPU it runs *)
(* on, and the scheduler moves them from one CPU to another.               *)
(***************************************************************************)
EXTENDS Naturals

CONSTANTS
  Task,      \* the threads a process may have
  NoTask,    \* the mmap lock is free
  Cpu,       \* the processors, each with its TLB
  Page,      \* pages of 4KB
  Regions,   \* number of 2MB regions, in the order of their addresses
  RegionOf,  \* RegionOf[p]: the region page p lies in
  VmaOf,     \* VmaOf[r]: the VMA of region r
  Stack      \* the VMA that holds the stack of the caller

Region == 0 .. Regions - 1

Vma == {VmaOf[r] : r \in Region}

ASSUME PromoteAssumption ==
  /\ Regions \in Nat
  /\ RegionOf \in [Page -> Region]
  /\ DOMAIN VmaOf = Region
  /\ NoTask \notin Task
  /\ Task \cap {"small", "none"} = {}

VARIABLES
  threads,   \* the threads the process has
  ways,      \* the callers of do_promote it uses: "sysfs", "compact"
  lock,      \* who has the mmap lock for writing
  pte,       \* pte[p]: the entry of p in the table of 4KB pages is present
  pmd,       \* pmd[r]: "small" for that table, or the task whose huge page it is
  latest,    \* latest[p]: the frames whose contents are what p should hold
  cpu,       \* cpu[k]: the CPU thread k runs on
  tlb,       \* tlb[c][p]: the frame CPU c has cached for p, or "none"
  hugepage,  \* hugepage[v]: VM_HUGEPAGE is set in vm_flags
  promote,   \* the value of the sysfs file
  pc,        \* pc[k]: where task k is, "user" outside the module
  path,      \* path[k]: which way k has come into do_promote
  at,        \* at[k]: the region k looks at
  todo,      \* todo[k]: the pages of the region that are still to be copied

  \* What has happened so far, which no action depends on:
  visited,   \* the CPUs threads of the process have run on
  behind,    \* those whose TLB has not been flushed since a PMD was switched
  strayed    \* a thread has been in user mode on one of these

process == <<threads, ways>>
memory == <<pte, pmd, latest, tlb>>
processors == <<cpu, visited, behind>>
vars == <<process, processors, strayed, lock, memory, hugepage, promote, pc, path, at, todo>>

\* The frame of 4KB behind p, and the part that is p's of the huge page a task
\* has allocated for its region.
Frame == {"small"} \cup Task

PagesOf(r) == {p \in Page : RegionOf[p] = r}

\* What a walk of the page table finds for p.
Walk(p) ==
  IF pmd[RegionOf[p]] # "small" THEN pmd[RegionOf[p]]
  ELSE IF pte[p] THEN "small" ELSE "none"

\* Where an access on CPU c to p goes.
Translation(c, p) == IF tlb[c][p] # "none" THEN tlb[c][p] ELSE Walk(p)

\* return_pfn: a PMD that maps a huge page is bad to pmd_bad.
return_pfn(p) == pmd[RegionOf[p]] = "small" /\ pte[p]

Init ==
  /\ threads \in SUBSET Task \ {{}}
  /\ ways \in SUBSET {"sysfs", "compact"}
  /\ lock = NoTask
  /\ pte = [p \in Page |-> FALSE]
  /\ pmd = [r \in Region |-> "small"]
  /\ latest = [p \in Page |-> {}]
  /\ cpu \in [Task -> Cpu]
  /\ tlb = [c \in Cpu |-> [p \in Page |-> "none"]]
  /\ hugepage = [v \in Vma |-> FALSE]
  /\ promote = 0
  /\ pc = [k \in Task |-> "user"]
  /\ path = [k \in Task |-> "none"]
  /\ at = [k \in Task |-> 0]
  /\ todo = [k \in Task |-> {}]
  /\ visited = {cpu[k] : k \in threads}
  /\ behind = {}
  /\ strayed = FALSE

Goto(k, from, to) ==
  /\ pc[k] = from
  /\ pc' = [pc EXCEPT ![k] = to]

-----------------------------------------------------------------------------
(***************************************************************************)
(* The callers of do_promote.                                              *)
(***************************************************************************)
sysfs_store(k) ==
  /\ "sysfs" \in ways
  /\ Goto(k, "user", "lock")
  /\ path' = [path EXCEPT ![k] = "sysfs"]
  /\ promote' = 1
  /\ UNCHANGED <<process, processors, lock, memory, hugepage, at, todo>>

\* Mutant: as in the other caller, no lock is taken.
MmapWriteLockNever(k) ==
  /\ Goto(k, "lock", "vma")
  /\ UNCHANGED <<process, processors, lock, memory, hugepage, promote, path, at, todo>>

MmapWriteLock(k) ==
  /\ Goto(k, "lock", "vma")
  /\ lock = NoTask
  /\ lock' = k
  /\ UNCHANGED <<process, processors, memory, hugepage, promote, path, at, todo>>

\* The end of IOCTL_COMPACT_VMA.
Compacted(k) ==
  /\ "compact" \in ways
  /\ Goto(k, "user", "vma")
  /\ path' = [path EXCEPT ![k] = "compact"]
  /\ UNCHANGED <<process, processors, lock, memory, hugepage, promote, at, todo>>

MmapWriteUnlock(k) ==
  /\ Goto(k, "unlock", "reset")
  /\ lock' = NoTask
  /\ UNCHANGED <<process, processors, memory, hugepage, promote, path, at, todo>>

\* Mutant: the value is left to the reader to reset.
ResetNever(k) ==
  /\ Goto(k, "reset", "user")
  /\ path' = [path EXCEPT ![k] = "none"]
  /\ UNCHANGED <<process, processors, lock, memory, hugepage, promote, at, todo>>

Reset(k) ==
  /\ Goto(k, "reset", "user")
  /\ path' = [path EXCEPT ![k] = "none"]
  /\ promote' = 0
  /\ UNCHANGED <<process, processors, lock, memory, hugepage, at, todo>>

-----------------------------------------------------------------------------
(***************************************************************************)
(* do_promote.                                                             *)
(***************************************************************************)
Skipped(v) == v = Stack \/ hugepage[v]

\* A VMA that is passed over is left region by region: nothing that makes it
\* skipped is ever undone, so that it stays skipped meanwhile.
NextVma(k) ==
  /\ at[k] < Regions
  /\ LET skip == Skipped(VmaOf[at[k]]) IN
     /\ Goto(k, "vma", IF skip THEN "vma" ELSE "region")
     /\ at' = IF skip THEN [at EXCEPT ![k] = at[k] + 1] ELSE at
  /\ UNCHANGED <<process, processors, lock, memory, hugepage, promote, path, todo>>

\* Where the loop goes on behind region r: the flag of a VMA is looked at
\* before its first region only.
After(r) ==
  IF r + 1 < Regions /\ VmaOf[r + 1] = VmaOf[r] THEN "region" ELSE "vma"

\* Mutant: the loop goes on with the region behind the next one.
SkipRegionTwice(k) ==
  /\ Goto(k, "region", After(at[k]))
  /\ at' = [at EXCEPT ![k] = at[k] + 2]
  /\ UNCHANGED <<process, processors, lock, memory, hugepage, promote, path, todo>>

\* A page is absent, or there is no huge page to be had.
SkipRegion(k) ==
  /\ Goto(k, "region", After(at[k]))
  /\ at' = [at EXCEPT ![k] = at[k] + 1]
  /\ UNCHANGED <<process, processors, lock, memory, hugepage, promote, path, todo>>

\* Mutant: one allocated page is enough.
AllocateAny(k) ==
  /\ \E p \in PagesOf(at[k]) : return_pfn(p)
  /\ Goto(k, "region", "copy")
  /\ latest' = [p \in Page |->
       IF p \in PagesOf(at[k]) THEN latest[p] \ {k} ELSE latest[p]]
  /\ todo' = [todo EXCEPT ![k] = PagesOf(at[k])]
  /\ UNCHANGED <<process, processors, lock, pte, pmd, tlb, hugepage, promote, path, at>>

\* Every page is allocated, which is looked at in one step; the huge page is
\* filled with zeros.
Allocate(k) ==
  /\ \A p \in PagesOf(at[k]) : return_pfn(p)
  /\ Goto(k, "region", "copy")
  /\ latest' = [p \in Page |->
       IF p \in PagesOf(at[k]) THEN latest[p] \ {k} ELSE latest[p]]
  /\ todo' = [todo EXCEPT ![k] = PagesOf(at[k])]
  /\ UNCHANGED <<process, processors, lock, pte, pmd, tlb, hugepage, promote, path, at>>

\* memcpy reads through the address of the caller.
Copy(k, p) ==
  /\ pc[k] = "copy"
  /\ p \in todo[k]
  /\ todo' = [todo EXCEPT ![k] = @ \ {p}]
  /\ IF return_pfn(p)
     THEN /\ latest' = [latest EXCEPT ![p] =
               IF Translation(cpu[k], p) \in @ THEN @ \cup {k} ELSE @ \ {k}]
          /\ tlb' = [tlb EXCEPT ![cpu[k]][p] = Translation(cpu[k], p)]
     ELSE UNCHANGED <<latest, tlb>>
  /\ UNCHANGED <<process, processors, lock, pte, pmd, hugepage, promote, pc, path, at>>

\* remap_huge_page writes the PMD, whatever it holds by now; do_promote sets
\* the flag of the VMA and goes on with the next region.  Until it is flushed
\* the TLB of a CPU the process has run on may still map the small pages.
remap_huge_page(k) ==
  /\ todo[k] = {}
  /\ Goto(k, "copy", After(at[k]))
  /\ pmd' = [pmd EXCEPT ![at[k]] = k]
  /\ behind' = behind \cup visited
  /\ hugepage' = [hugepage EXCEPT ![VmaOf[at[k]]] = TRUE]
  /\ at' = [at EXCEPT ![k] = at[k] + 1]
  /\ UNCHANGED <<process, cpu, visited, lock, pte, latest, tlb, promote, path, todo>>

\* Mutant: the TLB is not flushed.
FlushNever(k) ==
  /\ at[k] = Regions
  /\ Goto(k, "vma", IF path[k] = "sysfs" THEN "unlock" ELSE "user")
  /\ behind' = behind \ {cpu[k]}
  /\ at' = [at EXCEPT ![k] = 0]
  /\ path' = [path EXCEPT ![k] = IF @ = "sysfs" THEN @ ELSE "none"]
  /\ UNCHANGED <<process, cpu, visited, lock, memory, hugepage, promote, todo>>

\* __flush_tlb_all flushes the TLB of the CPU it runs on, and of no other.
Flush(k) ==
  /\ at[k] = Regions
  /\ Goto(k, "vma", IF path[k] = "sysfs" THEN "unlock" ELSE "user")
  /\ tlb' = [tlb EXCEPT ![cpu[k]] = [p \in Page |-> "none"]]
  /\ behind' = behind \ {cpu[k]}
  /\ at' = [at EXCEPT ![k] = 0]
  /\ path' = [path EXCEPT ![k] = IF @ = "sysfs" THEN @ ELSE "none"]
  /\ UNCHANGED <<process, cpu, visited, lock, pte, pmd, latest, hugepage, promote, todo>>

Advance(k) ==
  \/ MmapWriteLock(k) \/ MmapWriteUnlock(k) \/ Reset(k)
  \/ NextVma(k) \/ SkipRegion(k) \/ Allocate(k)
  \/ \E p \in Page : Copy(k, p)
  \/ remap_huge_page(k) \/ Flush(k)

-----------------------------------------------------------------------------
(***************************************************************************)
(* The process and the rest of the kernel, outside src/.  A thread in user *)
(* mode writes to a page that is mapped without any lock; a page fault and *)
(* madvise wait for the mmap lock, and madvise has every TLB flushed; a    *)
(* thread is moved to another CPU at any moment, which keeps its TLB for   *)
(* when the thread comes back; a CPU drops a TLB entry when it likes.      *)
(***************************************************************************)
Write(u, p) ==
  /\ pc[u] = "user"
  /\ Translation(cpu[u], p) # "none"
  /\ latest' = [latest EXCEPT ![p] = {Translation(cpu[u], p)}]
  /\ tlb' = [tlb EXCEPT ![cpu[u]][p] = Translation(cpu[u], p)]
  /\ UNCHANGED <<process, processors, lock, pte, pmd, hugepage, promote, pc, path, at, todo>>

PageFault(u, p) ==
  /\ pc[u] = "user"
  /\ Translation(cpu[u], p) = "none"
  /\ lock = NoTask
  /\ pte' = [pte EXCEPT ![p] = TRUE]
  /\ latest' = [latest EXCEPT ![p] = {"small"}]
  /\ UNCHANGED <<process, processors, lock, pmd, tlb, hugepage, promote, pc, path, at, todo>>

Discard(u, p) ==
  /\ pc[u] = "user"
  /\ return_pfn(p)
  /\ lock = NoTask
  /\ pte' = [pte EXCEPT ![p] = FALSE]
  /\ latest' = [latest EXCEPT ![p] = {}]
  /\ tlb' = [c \in Cpu |-> [tlb[c] EXCEPT ![p] = "none"]]
  /\ UNCHANGED <<process, processors, lock, pmd, hugepage, promote, pc, path, at, todo>>

Migrate(k, c) ==
  /\ c # cpu[k]
  /\ cpu' = [cpu EXCEPT ![k] = c]
  /\ visited' = visited \cup {c}
  /\ UNCHANGED <<process, behind, lock, memory, hugepage, promote, pc, path, at, todo>>

Evict(c, p) ==
  /\ tlb[c][p] # "none"
  /\ tlb' = [tlb EXCEPT ![c][p] = "none"]
  /\ UNCHANGED <<process, processors, lock, pte, pmd, latest, hugepage, promote, pc, path,
                 at, todo>>

Use(u) ==
  \/ \E p \in Page : Write(u, p) \/ PageFault(u, p) \/ Discard(u, p)
  \/ \E c \in Cpu : Migrate(u, c)

Next ==
  /\ \/ \E k \in threads : sysfs_store(k) \/ Compacted(k) \/ Advance(k) \/ Use(k)
     \/ \E c \in Cpu, p \in Page : Evict(c, p)
  /\ strayed' = (strayed \/ \E k \in threads : pc'[k] = "user" /\ cpu'[k] \in behind')

Spec == Init /\ [][Next]_vars

-----------------------------------------------------------------------------
(***************************************************************************)
(* Properties.                                                             *)
(***************************************************************************)
Single == \E k \in Task : threads = {k}

\* A process that leaves nothing to chance: it has one thread, or it promotes
\* under the lock only.
Quiet == Single \/ ways = {"sysfs"}

\* Every variable has its type.
TypeOK ==
  /\ threads \subseteq Task
  /\ ways \subseteq {"sysfs", "compact"}
  /\ lock \in Task \cup {NoTask}
  /\ pte \in [Page -> BOOLEAN]
  /\ pmd \in [Region -> Frame]
  /\ latest \in [Page -> SUBSET Frame]
  /\ cpu \in [Task -> Cpu]
  /\ tlb \in [Cpu -> [Page -> Frame \cup {"none"}]]
  /\ hugepage \in [Vma -> BOOLEAN]
  /\ promote \in {0, 1}
  /\ pc \in [Task -> {"user", "lock", "vma", "region", "copy", "unlock", "reset"}]
  /\ path \in [Task -> {"none", "sysfs", "compact"}]
  /\ at \in [Task -> 0 .. Regions]
  /\ todo \in [Task -> SUBSET Page]
  /\ visited \subseteq Cpu
  /\ behind \subseteq visited
  /\ strayed \in BOOLEAN

\* A process with one thread reads and writes the contents its memory should
\* have, wherever a TLB and its page table send it, through any series of
\* writes, page faults, discarded pages, promotions, migrations and lost TLB
\* entries, as long as it does not come back in user mode to a CPU it has run on
\* before a promotion and whose TLB no promotion has flushed since.
ReadsLatest ==
  Single /\ ~ strayed => \A u \in threads : pc[u] = "user" =>
    \A p \in Page : Translation(cpu[u], p) # "none" => Translation(cpu[u], p) \in latest[p]

\* What part 3 of the assignment asks, that an access provides correct data,
\* whichever CPU the only thread of the process is on.
ReadsCorrect ==
  Single => \A u \in threads : pc[u] = "user" =>
    \A p \in Page : Translation(cpu[u], p) # "none" => Translation(cpu[u], p) \in latest[p]

\* A region becomes a huge page only while each of its pages is allocated and
\* mapped by the table of 4KB pages, so that no other promotion is undone.
Promotes(k) == remap_huge_page(k) => \A p \in PagesOf(at[k]) : return_pfn(p)

\* That holds for processes that are quiet, from the check of the pages to the
\* switch of the PMD.
PromotesAllocated == [][\A k \in Task : Quiet => Promotes(k)]_vars

\* What part 2 of the assignment asks of every process.
PromotesOnlyAllocated == [][\A k \in Task : Promotes(k)]_vars

\* Who has the lock, and who has yet to reset the sysfs file.
LockInv ==
  /\ \A k \in Task : k \notin threads => pc[k] = "user"
  /\ \A k \in Task : pc[k] = "user" <=> path[k] = "none"
  /\ \A k \in Task : path[k] \in ways \cup {"none"}
  /\ \A k \in Task : pc[k] \in {"lock", "unlock", "reset"} => path[k] = "sysfs"
  /\ \A k \in Task : lock = k <=>
       path[k] = "sysfs" /\ pc[k] \in {"vma", "region", "copy", "unlock"}
  /\ promote = 1 => \E k \in Task : path[k] = "sysfs"

\* What a promotion has found of its region still holds.
CopyInv ==
  \A k \in Task :
    /\ pc[k] \in {"region", "copy"} => at[k] < Regions
    /\ Quiet /\ pc[k] = "copy" => \A p \in PagesOf(at[k]) : return_pfn(p)

\* A TLB holds something only where a thread has run.
CpuInv ==
  /\ \A k \in threads : cpu[k] \in visited
  /\ \A c \in Cpu \ visited : \A p \in Page : tlb[c][p] = "none"
  /\ ~ strayed => \A k \in threads : pc[k] = "user" => cpu[k] \notin behind

\* Where the contents of the pages are while u is the only thread: only the TLB
\* of a CPU that is behind is stale.
MemoryInv ==
  \A u \in Task : threads = {u} /\ ~ strayed =>
    /\ \A r \in Region : pmd[r] \in {"small", u}
    /\ \A p \in Page : pmd[RegionOf[p]] = "small" =>
         /\ \A c \in Cpu : tlb[c][p] = "none" \/ (tlb[c][p] = "small" /\ pte[p])
         /\ pte[p] => "small" \in latest[p]
    /\ \A p \in Page : pmd[RegionOf[p]] = u =>
         /\ u \in latest[p]
         /\ \A c \in Cpu \ behind : tlb[c][p] \in {"none", u}
    /\ pc[u] = "copy" => \A p \in PagesOf(at[u]) \ todo[u] : u \in latest[p]

\* The invariant that is inductive under Next.
Inv == TypeOK /\ LockInv /\ CopyInv /\ CpuInv /\ MemoryInv

\* When no call is under way the lock is free and the sysfs file reads 0, as
\* the user program expects, however the calls overlapped.
Settled == (\A k \in Task : pc[k] = "user") => promote = 0 /\ lock = NoTask

\* What part 2 of the assignment says of the sysfs file, and the user program
\* reads it for: it is 0 only when the rounds of scanning and promotion that
\* were asked for are complete.
ZeroWhenComplete ==
  promote = 0 => \A k \in Task : pc[k] \notin {"lock", "vma", "region", "copy"} \/ path[k] # "sysfs"
=============================================================================
