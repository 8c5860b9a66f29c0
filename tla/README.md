# CS614: models, model checking and proofs

TLA+ models of the kernel modules in this repository, the TLC configurations that
check them, and TLAPS proofs of what holds for every size. The modules follow the
source, not the assignment sheets; the sheets, the comments and the test programs
say what callers may expect, and the properties are taken from them.

Run `tlc -config TgidSafety.cfg MCTgidTable` (and so on, see the table of runs)
and `tlapm TgidTableProofs.tla` in this directory.

## 1. The system

### A1: character drivers (`src/A1/Part1..3/driver.c`)

A process writes a command number into a sysfs file and reads the answer, about
itself, from a character device. The three parts are three generations of one driver.

| component | state | operations | interaction | hard behaviour | correct when |
|---|---|---|---|---|---|
| Part1 driver | `curid`, `d_buf` | `cs614sys_set`, `demo_read`/`resolve` | every process shares the command and the buffer, **no lock** | two reads format into `d_buf` at once, a set comes between a set and a read of another process | one command for all (`CommandStore` with one group); what a read returns was formatted during the read |
| Part2 table | `hash_tbl` (1024 chains keyed by pid), each node with `curid`, `buf` | `cs614sys_set` -> `find_and_update`, `demo_read` -> `resolve` -> `getans` | processes of one bucket share a chain, **no lock** | every load and store interleaves with those of other tasks; stores go through `hash_tbl[key]`, which may have moved on | `SetThenRead`; chains stay acyclic |
| Part3 table | the same keyed by tgid, `locks[BUCKETS]` | the same under a mutex per bucket | threads share a node, processes share a bucket | races for the first command of a process; a half-built head; **`buf` is used after `mutex_unlock`** | one node per process, one command per process (`CommandStore`), a read shows one whole answer |
| Part3 group commands | none of its own | NOT, NFO (`read_file`), MSU (`get_cur`) of `getans` | the thread list without a lock, the descriptors under `files->file_lock`, the VMAs under the mmap lock | threads start, exit, open, close and move during the loops | NFO answers the number at one moment; MSU names the thread with the largest stack |
| life of the drivers | `major`, class, device, sysfs group, `device_opened`, `d_buf` | `init_module`, `cleanup_module`, `demo_open`, `demo_release` | sysfs calls do not hold a reference on the module, device calls do | calls before `init_locks` and after `cleanup_hash`; `try_module_get` whose result is ignored; error paths | nothing freed is used through a file opened in time, nothing is left behind, `rmmod` ends |

### A2: memory management module (`src/A2/module/btplus.c`)

| component | state | operations | interaction | hard behaviour | correct when |
|---|---|---|---|---|---|
| `compact_vma`, `return_pfn` | `pfn_array` (pointers to page table entries), `ker_buff` (the mapping table), `glob_addr`, the page tables | `IOCTL_COMPACT_VMA` | read lock for the snapshot, write lock for each move, nothing in between | entries read after the unlock, scans without a bound, failures that are ignored | the pages that are present lie at the start and are found through the table |
| `my_mremap` | VMAs and page tables | `IOCTL_MVE_VMA`, `IOCTL_MVE_VMA_TO` | search under the read lock, move under the write lock | the VMA that was found can be gone; a move cut short | the contents are at the new address, one VMA is left |
| `do_promote`, `remap_huge_page`, `break_at`, `my_munmap` | PMDs, frames, TLBs, `VM_HUGEPAGE`, `promote` | `IOCTL_PROMOTE_VMA`, the sysfs file, the end of `IOCTL_COMPACT_VMA`, a hooked `munmap` | other threads write while pages are copied | lost writes, stale TLBs, huge pages broken at both ends of a range | every address keeps its contents |
| module | `major`, `kthread_task`, the hook | `init_module`, `cleanup_module`, `device_open`, `device_release` | kernel threads of several calls | `kthread_task` is overwritten between `kthread_create` and `wake_up_process`, and may be an `ERR_PTR` | no thread outlives the module |

`promote_pages` sleeps two seconds at a time until it should stop and does nothing else,
`remap_custom_pfn` has no caller, ioctl 6 prints, and `cd.txt` is an older copy that is
not built. The user programs are sequential tests.

### A3: crypto device (`src/A3/template`)

A template: each function of `crypter.c` returns `ERROR` or `NULL`, the driver
directory has a note only, and the benchmarks call the stubs. There is no logic yet.

`PROJECT.json` lists the hazards of each component at their lines.

## 2. The modules

| module | models |
|---|---|
| `CommandStore` | what the A1 drivers promise: one command per group, each call at one instant |
| `TgidTable`, `MCTgidTable`, `TgidTableProofs` | A1/Part3 table, implements `CommandStore` with a group per thread group |
| `PidTable`, `MCPidTable`, `PidTableProofs` | A1/Part2 table at the grain of single loads and stores |
| `SharedCommand`, `MCSharedCommand`, `SharedCommandProofs` | A1/Part1, implements `CommandStore` with every process in one group |
| `GroupAnswers`, `MCGroupAnswers`, `GroupAnswersProofs` | A1/Part3 NOT, NFO and MSU beside the other threads of the group |
| `DriverLife`, `MCDriverLife`, `DriverLifeProofs` | load, open, calls, release and unload of all four modules, the kernel threads of A2 |
| `CompactVma`, `MCCompactVma`, `CompactVmaProofs` | A2 `compact_vma` beside other threads |
| `AddressSpace` | what the two move ioctls of A2 may do to the memory of a process |
| `VmaMove`, `MCVmaMove`, `VmaMoveProofs` | A2 `my_mremap` with both its ioctls, implements `AddressSpace` |
| `Promote`, `MCPromote`, `PromoteProofs` | A2 `do_promote` with both its callers, over page table, PMDs, contents and one TLB per CPU |

The modules meet at the functions of the kernel modules: `TgidTable` and `PidTable` treat
what `getans` computes as one value, which `GroupAnswers` opens up for the commands that
take time; `DriverLife` treats a call as a use of the memory that a table or a buffer
needs. Nothing else is shared between the two assignments.

### TgidTable (A1/Part3)

* `chain[b]` is `hash_tbl[b]` with the `next` pointers; `tgid`, `curid`, `buf` are the
  fields of the nodes; `locks[b]` is the holder of `locks[b]`. `pc`, `arg`, `temp`,
  `next`, `out` are a task's place in the code and its locals (`arg` is the `id` of
  `find_and_update` and, for a read, the command `getans` was called with).
* An action is a stretch of code between two points where another task can notice:
  `SetLock`, `SetExisting` / `SetMissing` (the walk), `SetPublish` (line 176: the zeroed
  node is the head), `SetLink` (177-180), `SetUnlock`; `ReadLock`, `ResolveHit` /
  `ResolveMiss`, `Format`, `ReadUnlock`, `Strlen`, `CopyToUser`, `ReadReturn`. A walk is
  one step since it runs under the mutex of its bucket, which `MutualExclusion` confirms.
* An answer is abstracted to the command and the task it is about, and a buffer to its
  leading and its trailing bytes, so that a half-overwritten buffer can be told from a
  whole one. `sprintf` is two steps (`ResolveHit` writes `first`, `Format` writes `last`).
* Not modelled: what the answers say, a failing `kzalloc` (the code does not test it),
  a failing `copy_to_user` (it returns the same -EINVAL and changes nothing).

### PidTable (A1/Part2)

One action per access to shared memory; nodes are numbered as they become heads.
`find_and_update` assigns the fields of the new node through `hash_tbl[key]`; the
compiler may reuse the pointer or load the head again, and the head may by then be
the node of another process, so `Target` offers both. `raced` is a history: it records
that a process was in the driver, to insert, to update or to read, while another one of
its bucket inserted its first node. As long as it is FALSE every process reads the result
of its last command (`SetThenReadAlone`), however all the other calls overlap. An
insertion that overlaps nothing but a read is enough to break it: between lines 86 and
90 the reader finds a head that leads nowhere.
Not modelled: the end of a process. The driver never frees a node, so that a process that
is given a used pid finds the command of the former one; the same goes for the thread
groups of `TgidTable`.

### SharedCommand (A1/Part1)

`curid` and `d_buf` are the shared words; `d_buf` is its leading and its trailing bytes,
as in `TgidTable`, and an answer is the command and the process it is about. A set is
`cs614sys_set` (the range check) and `StoreCurid`, a read is `demo_read` (the length),
`LoadCurid`, `FormatFirst`, `FormatLast` (which returns the length), `CopyFirst`,
`CopyLast` or `CopyFails`. The refinement puts every process into one group whose first
command is PID, since `curid` starts as 0. Two histories are recorded: `overlapped[t]`,
that another read ran during t's, and `since[t]`, what was formatted during t's read.

### GroupAnswers (A1/Part3 NOT, NFO, MSU)

One call of `getans` by the thread `current`, from the call to the value. NFO takes
`file_lock`, looks at one descriptor after the other (`ScanFile`) and counts; the other
threads open and close when the lock is free. MSU starts with the leader
(`StartMaximum`) and follows `link`, the list of `for_each_thread`, one thread per
`Visit` and `NextThread`; `get_cur` is the difference of the end of the VMA that holds
the stack pointer, or of 0, and the pointer, as an unsigned long. Between the steps the
others clone threads, exit (first without an mm, then out of the list), move their stack
pointers, map and unmap. The code holds no reference on the thread it looks at: `Oops` is
what may follow when that thread has no mm any more or was freed. `moved`, `remapped` and
`opened` are histories of the call. `link` is any list that leads from the leader through
every thread in the group once (`Linked`), so that each order of the threads is covered.
`NamesLargest` compares what `get_cur` answers: a thread whose stack pointer no VMA holds
has 0 minus the pointer, a huge number, and is the largest by it. The one exception is
the leader, who is measured to `start_stack`, which means nothing when its pointer is
elsewhere.

### DriverLife (all four modules)

`InitP1` .. `InitBt` and `CleanupP1` .. `CleanupBt` are the calls of `init_module` and
`cleanup_module` in the order of the source, `OnError` what each `goto` of an error path
undoes. `todo` is what is left of them, `has` what exists, `freed` what is gone again.
`module` is the state the kernel keeps. The file operations name no owner, so an `open`
that has found them runs `demo_open` at any later moment, even when the module is going:
`try_module_get` then fails, which the code ignores. `file[t]` therefore tells how the
file was opened: `early` (during `init_module`), `live`, or `none`. Stores into the
sysfs file hold no reference on the module; removing the file waits for them (`Drain`).
`bad` is a history of accesses to memory that is not there, with the kind of file they
came through; the model goes on after them but the module is not loaded again.
`demo_release` calls `module_put` on its own module and then goes on to its return
(`ReleaseReturn`): from the put on nothing keeps the text, and `bad` marks what is run of it
after it was freed as `released`. `LiveFilesSafe` ends at the put.
For A2, `thread` has the kernel threads the ioctls create, each use of `kthread_task`
loads the global variable again, and `cleanup_module` stops the thread it names.
`device_opened` is left out: it is incremented and decremented, and nothing reads it.
The order of the steps is where the code goes wrong: A1/Part2 and Part3 clean the table up
before they remove the sysfs file, so a store may still add or use a node
(`NothingLeft` allows `hash`); a load that failed leaves the sysfs group behind; in A1/Part3
a store that comes before `init_locks` uses mutexes that are not initialised; A2 leaks
each thread whose pointer a later ioctl has overwritten (`OnlyOverwrittenLeft`;
`NothingLeft` is about A1 and does not look at threads), and `rmmod` dies on the `ERR_PTR` of a failed `kthread_create`.

### CompactVma (A2)

Pages are numbers relative to the start of the range. `present` is "`pfn_array[p]` is
not NULL", `frame[p]` what the page table has for `p`, named after the page that had it
at first; `to` is `ker_buff[].to_addr`; `glob` is `glob_addr`. `Collect` is everything
up to the loop (the lock is held until the locals are computed); then each page to be
moved is `LoadPte` (line 421, without the lock) followed by `Remap`, `RemapFails` or
`Oops`. `Exchange` is the rest of the loop's body and runs in either case, as in the
code. `huge` has the pages that a PMD maps as part of a huge page, as an earlier
compaction leaves them since it ends with a promotion: `return_pfn` takes them for
absent, and `remap_pfn_range`, given an address among them, takes the data of the huge
page for a page table, so that the entry lands in its first 4KB (`RemapOverHuge`) or
stops the kernel (`Oops`). `shift` says how the range lies in the 2MB regions. Unless
the caller is `alone`, `Touch`, `Discard` and `Promote`, page faults, `madvise` and
promotions of other threads, happen between its steps. `Faults` says which calls may
fail.
Not modelled: entries that are swapped out (absent for `return_pfn`, not for
`remap_pfn_range`), the protection bits, a table that user space unmaps while its
entries are still pointed to, failing allocations, and the promotion that follows
(which is in `Promote`).

### VmaMove (A2)

Addresses are page numbers. `vma[i]` is a `vm_area_struct`: its area, whether it has an
anon_vma (`anon`), and `shift`, its `vm_start - vm_pgoff`. `mem` is the page table. The
search (`MVE_VMA_TO`, `MVE_VMA`) keeps the struct it found in `ovma`, `GetUnmappedArea` and
`TellAddress` belong to `IOCTL_MVE_VMA` only, and `Remap`, `RemapShort`, `RemapKeepsOld`,
`RemapRefused` or `RemapAstray` is `my_mremap` under the write lock. The caller passes any
address as `to_addr` (`Dest`); only an overlap is refused, as by `copy_vma`. A VMA that
would then lie beyond user space, or below address 0 after the subtraction of line 498,
is moved there by the code; `RemapAstray` ends the model at that point (pc `astray`),
since what the page tables of the kernel become is not known. `RemapKeepsOld` is a move
whose `do_munmap` fails, which the code does not look at: the ioctl returns 0 with both
ranges mapped. Between these steps the process maps, unmaps and writes; the struct may
be freed (`Oops`) or describe another area by then. `copy_vma`, `vma_merge`,
`move_page_tables` and `do_munmap` are kernel functions, modelled from how `my_mremap`
uses them: `copy_vma` extends a neighbour where the `vm_pgoff`s match and then changes
the caller's `ovma` (`OldStart`). `RefinesAddressSpace` maps an address space to the
addresses that are mapped and their contents; each step is one operation of
`AddressSpace`. Two cases are excepted by name: `GrowsDown` (see Disagreements), and
`Far`, an address so far into its VMA that `delta`, an unsigned int, wraps. With `alone`
the process has one thread and nothing comes between; `MovesWhole` is about that case.
Not modelled: what follows once a freed struct was used or a VMA was moved beyond user
space; a `to_addr` inside a page (the assignment says "The destination address will be page
aligned", the code does not check it); VMAs of files, special and huge page VMAs (outside
the calls of the user programs), limits and accounting.

### Promote (A2)

The memory is kept by region of 2MB: `pte[p]` says that the table of small pages has `p`,
`pmd[r]` whether that table or a huge page is in use, named after the thread that
allocated it. Contents are abstracted to what matters: `latest[p]` is the set of frames
that hold what `p` should hold, so that a write leaves one frame and a copy adds one.
Each CPU has a TLB, filled by the accesses of the thread that runs on it; any entry may be
dropped at any time (`Evict`), and a thread may be moved to another CPU at any time
(`Migrate`). `Flush` is line 331 and empties the TLB of the current CPU only. `behind` is a
history: the CPUs on which the process has run whose TLB was not flushed since a PMD
was switched; `strayed` records that a thread was in user mode on one of these.
`ReadsLatest` holds until then, and `ReadsCorrect`, without that exception, does not.
`sysfs_store` takes the lock and resets the file in steps of its own; `Compacted` enters
`do_promote` without a lock, as line 613 does. In `do_promote` a region is one of
`SkipRegion`, or `Allocate`, one `Copy` per page and `remap_huge_page`, and `Flush` ends the
walk. Threads in user mode write, take page faults and discard pages; `threads` and `ways`
fix at the start which threads there are and which callers they use.
Not modelled: the check of a region is one step (without the lock the code may combine
looks at different moments, which only adds to the ways it can go wrong); reclaim,
swapping and huge page faults; the splitting of a huge PMD by `madvise`; VMAs that come
and go during a walk without the lock; other values than 1 in the sysfs file.

### Not modelled

* Demotion, `break_at`, `is_pmd_huge_page` and the munmap hook `my_munmap`: `break_at` calls
  `remap_pfn_range` on a range whose PMD is a huge page, and for a part of a private
  writable mapping, where the kernel returns -EINVAL before it does anything. Both
  outcomes are decided by kernel code outside this repository (a BUG, a leaked table or an
  error), and nothing in the source says which the authors met; a model would only
  restate a guess.
* What the answers say, their lengths, the wording of errors, and entries that are swapped out.
* `remap_custom_pfn`, ioctl 6 and `cd.txt` (see above), the user programs (sequential; the
  properties are taken from what they expect), and A3, a template without logic.

## 3. What is checked

| run | bounds | shows |
|---|---|---|
| `TgidSafety` | 3 tasks: two threads of process 1, process 3 in the same one of 2 buckets, 3 nodes (symmetric) | `Inv`, `MutualExclusion`, `OneNodePerGroup`, `ResultsStayInGroup`, `LoneReadsIntact`; the table implements `CommandStore` (`RefinesStore`) |
| `TgidLiveness` | 3 processes, two of them in one bucket, 3 nodes | every call returns |
| `TgidReadsIntact` | 2 threads of one process | **violated**: an answer mixed from two |
| `PidChains` | 2 processes in one bucket, 3 nodes | chains are acyclic whatever the race (`OlderNext`), so every unlocked call returns (`CallsReturn`), after a number of steps that no other process can raise (`WaitFree`); as long as no call of its bucket has overlapped a first insertion, every process reads the result of its last command (`SetThenReadAlone`) |
| `PidSimultaneous` | 2 processes, 4 nodes | **violated**: a lost insertion |
| `SharedReads` | 3 processes (symmetric), a command and a number out of range | one store for all (`RefinesOneStore`), no stale bytes (`FreshAnswers`), whole answers for reads that do not overlap (`UndisturbedReads`) |
| `GroupAnswers` | 3 threads, 3 descriptors, two areas of an address space of 8, 4 stack pointers | `FilesCountedTogether`, `NamesLargest` |
| `DriverLife` | 4 drivers, 2 tasks, 2 loads, 2 kernel threads | `LiveFilesSafe`, `NothingLeft`, `OnlyOverwrittenLeft`; `rmmod` ends (`UnloadEnds`) |
| `CompactRange` | up to 6 pages alone, up to 3 beside other threads, every pattern of pages and huge pages (of 2), every failure | scans stay in the range while a page is to be moved, the table is a permutation; undisturbed and with no huge page in the way, contents are found through the table and lie at the start (`MovesContents`) |
| `VmaMoves` | 1 caller beside the rest of the process, 4 addresses and as many beyond them, 3 structs, 2 contents, `delta` wraps at 3 | `AreasDisjoint`, `NothingLost`, `MovesWhole`; the ioctls implement `AddressSpace`, until a move leaves user space or uses a freed struct |
| `VmaOldValid` | the same, `delta` does not wrap | **violated**: the old range stays valid and the new one is not |
| `PromoteQuiet` | 2 threads on one CPU, or 1 on 2 CPUs, a VMA with regions of 2 pages and 1 page, the stack behind it | contents kept for one thread (`ReadsLatest`), promotions under the lock switch allocated regions only (`PromotesAllocated`), the lock and the sysfs file settle, `Inv` |

The bounds. What goes wrong in a table needs two tasks of one bucket and a third to see
it; more tasks repeat the same patterns, and the theorems below do not depend on the
number. The inputs hold a command, a number out of range and, where an old command must
be told from a new one, a second command; the lengths lie on both sides of 16. `MaxNode`
bounds the nodes that are ever published in `PidTable`, whose races can add one for
every call; with one more than the processes a lost process can insert itself again.
Three processes of `SharedCommand` are a reader, one that overlaps it and one that sets.
In `GroupAnswers` the two areas are the stack of a thread and that of the leader, the
pointers lie in the first, below both and in the second, so that differences wrap; three
threads let a thread leave between two others of the list. In `DriverLife` two loads
show what a first one leaves behind, two kernel threads that one can be overwritten, and
a second task is every other task. In `VmaMove` four addresses hold a VMA of two pages
with a neighbour or a hole on either side, and three structs let one be freed and used
again while a second one is kept; a second caller would add only steps that `Outside`
also offers: to map and unmap. `Slack` bounds how far a scan may run past the end of
`pfn_array`; the theorem shows that the bound does not matter while a page is to be
moved. Six pages contain every order of holes and pages for up to three moves. In
`CompactVma` huge pages of two let one lie in the range, across either end of it, and
beside small pages. In `Promote` two pages tell a region that is partly allocated from
one that is, two regions in a VMA make the flag and the late flush matter, a second
thread is every other thread, and a second CPU every CPU that is not flushed. No
property of a process with several threads is about the TLBs, so that the constraint
`SmallProcess` leaves them on one CPU. `Dest` goes as far beyond the last address as the
address space is long, which lets a VMA go across its end or behind it, and the
subtraction goes below 0.

Each property has a mutant, a plausible mistake in the code that breaks it (the definitions
whose comment starts with "Mutant").

Deadlock is checked except for `CompactVma` and `GroupAnswers`, where one call is run to its
end or to the stop of the kernel, `VmaMove`, which ends where a call leaves user space or
uses a freed struct, and `DriverLife`, which stops at the bound on loads or with
a kernel in which `rmmod` has died.

Fairness. `TgidTable`: weak fairness of a task's own steps (a task in the kernel keeps
running) and strong fairness of taking a mutex: a kernel mutex hands itself over to its
longest waiter, so nobody is passed over for ever. `PidTable` needs weak fairness of each
task only. `DriverLife`: weak fairness of the steps of `insmod`'s error paths and `rmmod`, of each
call that has begun, and of each kernel thread, whose loop looks at `kthread_should_stop`
every two seconds. Starting a call, closing a file and unloading are never fair. The other
modules are checked for safety only.

### Disagreements

Three runs are violated; `PROJECT.json` quotes the lines: `demo_read` of Part3 uses the
buffer after the unlock (`TgidReadsIntact`); `find_and_update` of Part2 loses an insertion
(`PidSimultaneous`); a VMA that was never written to and is moved directly below itself
stays where it was, although the ioctl returns 0 (`VmaOldValid`): `copy_vma` extends it
downwards and sets `ovma` to the result, `my_mremap` takes the `vm_start` of that for the
old address, and unmaps the new range.

Others have a statement in a module but no run of their own. To see one violated, put it
under INVARIANTS (`PromotesOnlyAllocated` and `NoRoomRefused` under PROPERTIES) of the cfg
that is named:

* `HolesFault` (`CompactRange.cfg`): the old entry of a page that was moved is never
  cleared, so an absent page reads another page's contents;
* `ErrorsReported` (`CompactRange.cfg`): `device_ioctl` drops the result of `compact_vma`;
* `TableBacked` (`CompactRange.cfg`): the table is filled in after a remapping that failed,
  which is always the case for a part of a private writable mapping such as that of `part3.c`;
* `ProvidesData` (`CompactRange.cfg`): `compact_vma` takes the huge pages that the promotion at
  the end of an earlier call has left in the range for holes, and writes into them, in a
  mapping of which `remap_pfn_range` accepts a part, such as a shared one; the assignment says
  "access to an address with physical mapping through the mapping table from the user space
  should succeed and provide correct data";
* `ReadsCorrect` (`PromoteQuiet.cfg`): `do_promote` flushes the TLB of one CPU, and a thread
  that migrates back to another reads the small pages it has overwritten since;
* `ZeroWhenComplete` (`PromoteQuiet.cfg`): of two writers of the promote file the first to end
  resets it, although the assignment says this happens "after completing one round of
  scanning and promotion" and `part2.c` reads the file to see that the work is done;
* `PromotesOnlyAllocated` (`PromoteQuiet.cfg`): the promotion after a compaction runs
  without the mmap lock, and switches a region that has lost a page since the check;
* `NoRoomRefused` (`VmaOldValid.cfg`): `IOCTL_MVE_VMA_TO` does not look whether the destination
  lies in user space; the assignment says "If free space (hole) to accommodate the VMA is
  unavailable at the destination address or the start address is invalid, return -1".

And one has no statement: part 1 of the second assignment asks `IOCTL_MVE_VMA` for the first
hole after the VMA, the code takes whatever `get_unmapped_area` offers.

## 4. What is proved

TLAPS proves these for every value of the constants that satisfies the named
assumptions: `BucketsAssumption`, `TaskAssumption`, `CommandAssumption`, `PidAssumption`,
`SharedAssumption`, `GroupAssumption`, `LifeAssumption`, `CompactAssumption`,
`PromoteAssumption` and `MoveAssumption`. They say that counts are numbers, that ids are
positive, that the tasks of an instance are finitely many or not none, that VMAs do not
overlap, that an address space has a page, and that the values standing for "nothing"
are nothing else. Every safety property of a passing run is proved: all invariants, all
action properties and the three refinements.

* `TgidTableProofs`: `Spec => []Inv`, hence `TypeOK`, `MutualExclusion`, `OneNodePerGroup`,
  `ResultsStayInGroup`, `LoneReadsIntact`. None of the last four is inductive. `LocalInv`
  says which locals a place in the code has set; `ChainInv` that the nodes of a chain
  belong to distinct groups that hash to it, except while its head is a node not filled in,
  when that holds of the local `next`, and that two tasks never publish the same node;
  `BufInv` that a buffer is written by its own group only; `FilledInv` and
  `LoneInv` follow a read from `sprintf` to the end. The proof has one lemma per action
  group and part of the invariant. The second half is `Spec => RefinesStore`. `StoredInv`
  says that the command of a group is that of its one node in the linked chain of its
  bucket, or nothing; it follows from `Inv` in every state, so that a step only has to say
  what it does to the chain and to the nodes in it. `PublishStores` is the heart: between
  line 176 and 180 the chain hangs on the local `next` of the one task that inserts, and
  the commands of all others are still found.
* `PidTableProofs`: `Spec => []Inv`, hence `OlderNext`. Acyclicity survives the races because a
  task has read its `next` before it publishes, so that every node it may assign to
  is younger than `next`. So each round of a loop goes to an older node, and `Spec => WaitFree`:
  with `StepsLeft` a call that begins at node n returns after at most n + 6 steps of its own,
  whatever the others do. `SetThenReadAlone` needs `AloneInv`, about the states in which nothing,
  be it a read, has overlapped a first insertion. Then a process has at most one node and a chain leads from the
  newest node to the oldest, so that "the chain leads from n to m" is m <= n (`Fresh`,
  `ChainInv`); a traversal has not passed the node of its process (`CallInv`), and that node
  carries its last command once it is filled in (`CommandInv`).
* `SharedCommandProofs`: `TypeOK`, `FreshAnswers`, `UndisturbedReads` and `Spec => RefinesOneStore`.
  The two properties of reads follow from what a read has made of each part of the
  buffer at each place of the code (`Pieces`): it lies in `since` whoever wrote it, and
  it is the reader's own as long as no other read overlaps.
* `GroupAnswersProofs`: `TypeOK` (what `get_cur` computes fits an unsigned long, also when it
  wraps) and `FilesCountedTogether`: under the lock `count` is the number of open files
  below `fd` (`CountInv`). `NamesLargest` needs the list: `ListInv` gives every thread a rank
  that grows along `link` and skips no thread of the group (`Ranked`). A thread that has left keeps its
  rank and its pointer, through which the walk may still go on. So every thread with a lower rank
  than the one the walk is at was compared, or has moved, come or gone during the call
  (`Passed`, `MaxInv`); ranks take the place of an induction over the list.
* `DriverLifeProofs`: `TypeOK`, `LiveFilesSafe`, `OnlyOverwrittenLeft`, `NothingLeft`. `LiveFilesSafe` is about a file from its `demo_open` to the
  `module_put` of its release. `LiveInv`
  counts: while the module has its text, `refs` is the number of files whose `demo_open` got a
  reference, and when the module is going there is none, so that the releases of files
  without one never take a reference from another. `ThreadInv` says that from the moment
  `cleanup_module` has looked at `kthread_task`, only a file without a reference can put a
  new thread there. For `NothingLeft`, `LeftInv` says at each place of `init_module` that what exists was made by
  the steps before it, and at each place of its error paths and of `cleanup_module` that what exists is
  still to be undone (`Due`) or may stay.
* `CompactVmaProofs`: `Spec => []Inv`, hence `MovesFillHoles` and `TablePermutes`. The scans have
  no bound; they stay inside the range by counting: below `count_allocated` there are
  as many absent pages as there are present pages from it on (`HolesMatchMovers`), and
  each move uses up one of each (`ExchangeKeeps`). So while a page is left to move there is
  a hole in front of the scan. The table stays an involution because the two entries
  that are exchanged have not been written before (`UnmovedInv`). `MovesContents` rests on
  `ContentsInv`: as long as nothing failed and nobody interfered, the frame a page had is where
  the table says, for the pages moved so far, and where it was, for the others; in the
  end no page is left beyond `count_allocated` (`TableComplete`). No huge page may lie below
  `count_allocated` for the first half, and none in the range for the second; nothing in the
  call makes one, so that `glob` never meets one.
* `PromoteProofs`: `Spec => []Inv`, hence `TypeOK`, `ReadsLatest`, `Settled` and
  `Spec => PromotesAllocated`.
  `LockInv` ties the holder of the lock and the sysfs file to the place of the callers;
  `CopyInv` says that what the check of a region found still holds while it is copied, if
  nobody can come in between (`QuietAlone`); `MemoryInv` says for the only thread of a process
  where the contents are: in the small page, or in the huge page once it has been copied,
  and that only the TLB of a CPU that is `behind` maps a small page that was replaced.
  `CpuInv` says that the thread is on no such CPU in user mode unless it has `strayed`, and
  that a CPU it never ran on has cached nothing. Without that exception the contents are
  not kept (`ReadsCorrect`, see Disagreements).
* `VmaMoveProofs`: `Spec => []VmaInv`, hence `TypeOK` and `AreasDisjoint`; `Spec => NothingLost`,
  `Spec => MovesWhole` and `Spec => RefinesAddressSpace`. `Sound` says of a set of areas that
  they are apart and that `start - shift`, the page offset, is one of an area inside the
  address space: without that `TypeOK` is not inductive, since an area that moves takes
  its offset along. `PlacedSound`, `CutSound` and `SplitSound` say what the merging of
  `copy_vma` and the cutting of `do_munmap` make of sound areas. `move_page_tables` is a
  recursion over the pages; `MoveDoes` proves by induction what the first `n` of them have
  become, if the target is free and not below the source unless the two are apart
  (`Movable`), which `StretchMovable` shows to be so for the merged area of `GrowsDown` too:
  that is why this case moves the wrong range but loses nothing. `RemapEffect` and
  `StaysEffect` (a move that was cut short or whose old range stays) put the pieces together,
  and each operation of `AddressSpace` has a lemma (`RemapIsMove`, `StaysIsGiveUp`, ...). All
  of it is about states in which no call has left user space (`Intact`): of a destination
  nothing is assumed, and each property names the step `RemapAstray` as its end. `AloneInv` adds for a process with one thread that the pointer
  is still the area of the address, and what the caller was told.

Induction. The provers cannot instantiate a theorem that takes an operator as a
parameter, which the induction theorems of the library do. Where the proofs need
induction over numbers they use its first-order form: a set that contains 0 and n + 1 with
every n contains all of `Nat` (`SetInduction`, from the fact that every nonempty subset of
`Nat` has a least element), applied to the set of the numbers that have the property.

Only model-checked: liveness under fairness (`CallsReturn`, `UnloadEnds`), which the prover
does not reach. What it rests on in `PidTable` is the theorem `CallsAreWaitFree`; that a step is
there to be taken is left to TLC. The runs that are violated are counterexamples and
have nothing to prove.
`BUCKETS` is a power of two in the code and `&` is written as a remainder; the proofs do
not use that it is a power of two.
