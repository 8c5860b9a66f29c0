----------------------------- MODULE CompactVma -----------------------------
(***************************************************************************)
(* IOCTL_COMPACT_VMA of A2/module/btplus.c: compact_vma brings the pages   *)
(* of a range that have a frame to its start and fills in the mapping      *)
(* table the caller gets.  Addresses are page numbers relative to the      *)
(* start of the range.  The mmap lock is dropped between two steps, so     *)
(* that the other threads of the process run in between.  An earlier       *)
(* promotion may have left huge pages in the range, which return_pfn does  *)
(* not see.                                                                *)
(***************************************************************************)
EXTENDS Integers, FiniteSets

CONSTANTS
  MaxLength,  \* bound on the length of the range
  MaxShared,  \* bound on the length of a range that other threads use
  HugeSize,   \* pages of 4KB in a huge page
  Slack,      \* bound on how far a scan runs past the end of pfn_array
  Faults,     \* what may fail: "copy_in", "remap", "copy_out"
  Fresh,      \* a frame with contents no page of the range had before
  PfnZero,    \* the frame an empty page table entry seems to name
  None        \* no frame

ASSUME CompactAssumption ==
  /\ MaxLength \in Nat
  /\ MaxShared \in Nat
  /\ HugeSize \in Nat \ {0}
  /\ Slack \in Nat \ {0}
  /\ None \notin Nat \cup {Fresh, PfnZero}

VARIABLES
  length,   \* the number of pages the caller passes
  inside,   \* how many pages of the range the VMA at its start holds
  touching, \* another VMA ends where the range starts
  alone,    \* the process has no other thread
  shift,    \* where in its 2MB region the range starts
  given,    \* the pages that had a frame when the call started
  huge,     \* the pages that a PMD maps as part of a huge page
  frame,    \* frame[p]: the frame of page p, named after its first owner
  pc,       \* where the call is
  vm_area,  \* the VMA the search has stopped at
  present,  \* present[p]: pfn_array[p] # NULL
  t,        \* the loop counter
  glob,     \* glob_addr, the page the next frame goes to
  pfn,      \* the frame read from the page table
  to,       \* to[p]: ker_buff[p].to_addr
  error,    \* one of the calls has failed
  ret       \* what ioctl returns to the caller

range == <<length, inside, touching, alone, shift, given>>
memory == <<frame, huge>>
locals == <<vm_area, present, t, glob, pfn, to, error>>
vars == <<range, memory, pc, locals, ret>>

Page == 0 .. length - 1

Frame == (0 .. MaxLength - 1) \cup {Fresh, PfnZero}

Region(p) == (p + shift) \div HugeSize

\* The pages of the range in the 2MB region of page p, and its first page, which
\* may lie below the range.
InRegion(p) == {q \in Page : Region(q) = Region(p)}

FirstOf(p) == Region(p) * HugeSize - shift

\* Any range: its pages may be absent or parts of huge pages, it may run past
\* the end of its VMA, it may start where no VMA is.
Init ==
  /\ length \in 0 .. MaxLength
  /\ inside \in 0 .. length
  /\ touching \in BOOLEAN
  /\ alone \in BOOLEAN
  /\ alone \/ length <= MaxShared
  /\ shift \in 0 .. HugeSize - 1
  /\ given \in SUBSET Page
  /\ inside = 0 => 0 \notin given
  /\ frame = [p \in Page |-> IF p \in given THEN p ELSE None]
  /\ huge \in SUBSET given
  /\ \A p \in huge : InRegion(p) \subseteq huge
  /\ pc = "start"
  /\ vm_area = "none"
  /\ present = [p \in Page |-> FALSE]
  /\ t = 0
  /\ glob = 0
  /\ pfn = None
  /\ to = [p \in Page |-> p]
  /\ error = FALSE
  /\ ret = 0

\* for_each_vma stops at the first VMA that ends at or after the start of the
\* range, which is the one below when they touch.
FindVma == IF touching THEN "below" ELSE IF inside > 0 THEN "own" ELSE "none"

\* Whether the page is found in a table of 4KB pages: to pmd_bad a PMD that maps
\* a huge page is bad.
return_pfn(p) == frame[p] # None /\ p \notin huge

Allocated == {p \in Page : present[p]}

count_allocated == Cardinality(Allocated)

\* Mutant: the scan stops at the next page, present or not.
StopsAtOnce(has, g) == {g}

\* Where a scan for a NULL entry of pfn_array that starts at g can stop: no
\* bound on g holds it back, and what lies behind the array is arbitrary.
Stops(has, g) == {e \in g .. length + Slack :
  /\ \A i \in g .. e - 1 : i \in Page => has[i]
  /\ e \in Page => ~ has[e]}

-----------------------------------------------------------------------------
\* The caller's struct input cannot be read: ret has its first value.
RefuseInput ==
  /\ pc = "start"
  /\ "copy_in" \in Faults
  /\ pc' = "done"
  /\ error' = TRUE
  /\ UNCHANGED <<range, memory, vm_area, present, t, glob, pfn, to, ret>>

\* Mutant: the loop starts behind the first page that may have to move.
CollectStartsLate ==
  /\ pc = "start"
  /\ length > 0
  /\ pc' = "loop"
  /\ vm_area' = FindVma
  /\ present' = [p \in Page |-> return_pfn(p)]
  /\ t' = Cardinality({p \in Page : return_pfn(p)}) + 1
  /\ glob' \in Stops(present', 0)
  /\ UNCHANGED <<range, memory, pfn, to, error, ret>>

\* One section under mmap_read_lock, then only local work.
Collect ==
  /\ pc = "start"
  /\ length > 0
  /\ pc' = "loop"
  /\ vm_area' = FindVma
  /\ present' = [p \in Page |-> return_pfn(p)]
  /\ t' = Cardinality({p \in Page : return_pfn(p)})
  /\ glob' \in Stops(present', 0)
  /\ UNCHANGED <<range, memory, pfn, to, error, ret>>

SkipAbsent ==
  /\ pc = "loop"
  /\ t \in Page
  /\ ~ present[t]
  /\ t' = t + 1
  /\ UNCHANGED <<range, memory, pc, vm_area, present, glob, pfn, to, error, ret>>

\* pfn_array[t]->pte is read again, without the lock.
LoadPte ==
  /\ pc = "loop"
  /\ t \in Page
  /\ present[t]
  /\ pc' = "remap"
  /\ pfn' = IF frame[t] = None THEN PfnZero ELSE frame[t]
  /\ UNCHANGED <<range, memory, vm_area, present, t, glob, to, error, ret>>

\* An array of no elements is read; vm_area is dereferenced though no VMA was
\* found; remap_pfn_range has a BUG_ON for an entry that is in use, and for an
\* address in a huge page it takes the contents of this for the entries.
Oops ==
  /\ \/ pc = "start" /\ length = 0
     \/ pc = "remap" /\ vm_area = "none"
     \/ pc = "remap" /\ glob \in Page /\ frame[glob] # None
  /\ pc' = "oops"
  /\ UNCHANGED <<range, memory, locals, ret>>

\* Mutant: only the entry of the page that moves is written.
ExchangeOneEntry ==
  /\ pc' = "loop"
  /\ to' = [p \in Page |-> IF p = t THEN glob ELSE to[p]]
  /\ t' = t + 1
  /\ glob' \in Stops(present, glob + 1)

\* Mutant: glob_addr moves on before the table is written.
ExchangeAfterAdvance ==
  /\ pc' = "loop"
  /\ glob' \in Stops(present, glob + 1)
  /\ to' = [p \in Page |-> IF p = glob' THEN t ELSE IF p = t THEN glob' ELSE to[p]]
  /\ t' = t + 1

\* Both entries of the table are exchanged and the next hole is looked for,
\* whether or not the remapping has worked.
Exchange ==
  /\ pc' = "loop"
  /\ to' = [p \in Page |-> IF p = glob THEN t ELSE IF p = t THEN glob ELSE to[p]]
  /\ t' = t + 1
  /\ glob' \in Stops(present, glob + 1)

Remap ==
  /\ pc = "remap"
  /\ vm_area # "none"
  /\ glob \in Page => frame[glob] = None
  /\ frame' = [p \in Page |-> IF p = glob THEN pfn ELSE frame[p]]
  /\ Exchange
  /\ UNCHANGED <<range, huge, vm_area, present, pfn, error, ret>>

\* The entry is written into the first 4KB of the huge page: what is mapped
\* there loses its contents, and nothing is mapped at glob_addr.
RemapOverHuge ==
  /\ pc = "remap"
  /\ vm_area # "none"
  /\ glob \in huge
  /\ frame' = [p \in Page |-> IF p = FirstOf(glob) THEN Fresh ELSE frame[p]]
  /\ Exchange
  /\ UNCHANGED <<range, huge, vm_area, present, pfn, error, ret>>

\* remap_pfn_range refuses, as it does for a part of a private writable VMA.
RemapFails ==
  /\ pc = "remap"
  /\ "remap" \in Faults
  /\ vm_area # "none"
  /\ error' = TRUE
  /\ Exchange
  /\ UNCHANGED <<range, memory, vm_area, present, pfn, ret>>

\* copy_to_user and the end of device_ioctl, which ignores what compact_vma
\* returns.  The promotion that follows is not part of this module.
CopyTable ==
  /\ pc = "loop"
  /\ t = length
  /\ pc' = "done"
  /\ \/ error' = error
     \/ "copy_out" \in Faults /\ error' = TRUE
  /\ ret' = 0
  /\ UNCHANGED <<range, memory, vm_area, present, t, glob, pfn, to>>

Advance ==
  \/ RefuseInput
  \/ Collect
  \/ SkipAbsent
  \/ LoadPte
  \/ Oops
  \/ Remap
  \/ RemapOverHuge
  \/ RemapFails
  \/ CopyTable

(***************************************************************************)
(* The other threads of the process: outside src/ a page fault gives a     *)
(* page a frame and madvise takes it away; a write to the sysfs file       *)
(* promotes a region of which every page has a frame.                      *)
(***************************************************************************)
Touch(p) ==
  /\ frame[p] = None
  /\ frame' = [frame EXCEPT ![p] = Fresh]
  /\ UNCHANGED <<range, huge, pc, locals, ret>>

Discard(p) ==
  /\ return_pfn(p)
  /\ frame' = [frame EXCEPT ![p] = None]
  /\ UNCHANGED <<range, huge, pc, locals, ret>>

\* The contents are copied, and the tables of 4KB pages stay as they are.
Promote(p) ==
  /\ \A q \in InRegion(p) : return_pfn(q)
  /\ huge' = huge \cup InRegion(p)
  /\ UNCHANGED <<range, frame, pc, locals, ret>>

Ended == pc \in {"done", "oops"}

Next ==
  \/ Advance
  \/ ~ alone /\ ~ Ended /\ \E p \in Page : Touch(p) \/ Discard(p) \/ Promote(p)

Spec == Init /\ [][Next]_vars

-----------------------------------------------------------------------------
(***************************************************************************)
(* Properties.                                                             *)
(***************************************************************************)
\* Every variable has its type.
TypeOK ==
  /\ length \in 0 .. MaxLength
  /\ inside \in 0 .. length
  /\ touching \in BOOLEAN
  /\ alone \in BOOLEAN
  /\ shift \in 0 .. HugeSize - 1
  /\ given \subseteq Page
  /\ huge \subseteq Page
  /\ frame \in [Page -> Frame \cup {None}]
  /\ pc \in {"start", "loop", "remap", "done", "oops"}
  /\ vm_area \in {"own", "below", "none"}
  /\ present \in [Page -> BOOLEAN]
  /\ t \in 0 .. length
  /\ glob \in 0 .. length + Slack
  /\ pfn \in Frame \cup {None}
  /\ to \in [Page -> 0 .. length + Slack]
  /\ error \in BOOLEAN
  /\ ret \in {0, -1}

\* A page is only ever moved down, into a page of the part the range is to be
\* compacted to for which no entry of 4KB was found when the call looked: the
\* scans, which nothing bounds, never carry glob_addr out of the range while a
\* page is still to be moved.  (After the last move a scan may leave it.)
MovesFillHoles ==
  pc = "remap" => /\ glob < count_allocated
                  /\ count_allocated <= t
                  /\ ~ present[glob]

\* The mapping table is a permutation that is its own inverse at every moment,
\* whatever fails and whatever the other threads do: no two old addresses are
\* given one new address, and a moved page and the hole it fills change places.
TablePermutes == \A p \in Page : to[p] \in Page /\ to[to[p]] = p

(***************************************************************************)
(* Why a scan stays in the range: the holes it may still meet below        *)
(* count_allocated are as many as the pages that are still to be moved.    *)
(***************************************************************************)
Holes(g) == {h \in g .. count_allocated - 1 : ~ present[h]}

Movers(s) == {p \in s .. length - 1 : present[p]}

ScanInv ==
  pc \in {"loop", "remap"} =>
    /\ count_allocated <= t
    /\ glob \in Page => ~ present[glob]
    /\ Cardinality(Holes(glob)) = Cardinality(Movers(t))
    /\ pc = "remap" => t \in Page /\ present[t]

\* The entries of the table that have not been written yet.
UnmovedInv ==
  pc \in {"start", "loop", "remap"} =>
    /\ \A p \in Page : p >= t => to[p] = p
    /\ \A p \in Page : p >= glob /\ p < count_allocated => to[p] = p

\* Before the call has looked at the range.
StartInv == pc = "start" => t = 0

\* The invariant that is inductive under Next.
Inv ==
  /\ TypeOK
  /\ StartInv
  /\ ScanInv
  /\ UnmovedInv
  /\ TablePermutes

\* What every page held is found through the table when the call has ended:
\* part3.c reads the range that way.
TableBacked ==
  pc = "done" => \A p \in given : to[p] \in Page /\ frame[to[p]] = p

\* The pages that had a frame lie at the start of the range, as far as the
\* table tells.
Compacted == pc = "done" => {to[p] : p \in given} = 0 .. Cardinality(given) - 1

\* Nothing has disturbed the call: no other thread has run, no call it makes
\* has failed.
Undisturbed == alone /\ ~ error

\* An undisturbed call does both, for every pattern of present pages, except
\* where huge pages are in the way: the contents are found as long as none lies
\* in the part the range is to be compacted to, and the range is compacted if
\* it has none.
MovesContents ==
  /\ Undisturbed /\ huge \cap (0 .. count_allocated - 1) = {} => TableBacked
  /\ Undisturbed /\ huge = {} => Compacted

\* What part 3 of the assignment asks of every undisturbed call: an access
\* through the mapping table provides the data of an address with a physical
\* mapping.  A range that an earlier call has compacted has huge pages.
ProvidesData == Undisturbed => TableBacked

\* An access through the table faults after the call if it faulted before.
\* The entry of a page that has moved away is never cleared.
HolesFault == pc = "done" => \A p \in Page \ given : frame[to[p]] = None

\* A call that has failed, had nothing to compact or was given a range that is
\* too long says so.
ErrorsReported ==
  pc = "done" /\ (error \/ given = {} \/ inside < length) => ret = -1
=============================================================================
