------------------------------ MODULE VmaMove -------------------------------
(***************************************************************************)
(* IOCTL_MVE_VMA_TO and IOCTL_MVE_VMA of A2/module/btplus.c: the VMA that  *)
(* holds an address is looked up under the read lock, the lock is dropped, *)
(* and my_mremap moves the VMA the pointer leads to under the write lock.  *)
(* In between the other threads of the process map, unmap, write and move. *)
(* Addresses are page numbers.                                             *)
(***************************************************************************)
EXTENDS Integers, FiniteSets

CONSTANTS
  Task,     \* threads that call the two ioctls
  Top,      \* the number of pages of the address space
  Wrap,     \* the number of pages an unsigned int can count the bytes of
  Struct,   \* the vm_area_struct objects; freed ones are used again
  Content,  \* what user space writes into a page
  Empty,    \* a page that is mapped and was never written
  NULL

Addr == 0 .. Top - 1

\* What a user may pass as to_addr, in range or not.
Dest == 0 .. 2 * Top - 1

Vma == [start : Addr, end : 1 .. Top, shift : -Top .. Top, anon : BOOLEAN]

ASSUME MoveAssumption ==
  /\ Top \in Nat \ {0}
  /\ Wrap \in Nat \ {0}
  /\ NULL \notin Struct
  /\ NULL \notin Vma
  /\ Empty \notin Content

VARIABLES
  alone,  \* the process has one thread: nothing happens during a call
  vma,    \* vma[i]: the area a struct describes, NULL when it is free
  mem,    \* mem[a]: what the page table has for a, Empty for no entry
  pc,     \* pc[t]: where task t is, "user" outside the module
  ovma,   \* ovma[t]: the struct the search has found
  from,   \* from[t]: the address t passes as from_addr
  to,     \* to[t]: to_addr, where the start of the VMA is to go
  told    \* told[t]: where from[t] is to be found after the move

memory == <<vma, mem>>
locals == <<ovma, from, to, told>>
vars == <<alone, memory, pc, locals>>

Live(vs) == {i \in Struct : vs[i] # NULL}

Range(v) == v.start .. v.end - 1

Size(v) == v.end - v.start

MappedBy(vs) == UNION {Range(vs[i]) : i \in Live(vs)}

Init ==
  /\ alone \in BOOLEAN
  /\ vma = [i \in Struct |-> NULL]
  /\ mem = [a \in Addr |-> Empty]
  /\ pc = [t \in Task |-> "user"]
  /\ ovma = [t \in Task |-> NULL]
  /\ from = [t \in Task |-> 0]
  /\ to = [t \in Task |-> 0]
  /\ told = [t \in Task |-> 0]

-----------------------------------------------------------------------------
(***************************************************************************)
(* vma_merge and copy_vma, outside src/.  shift is vm_start - vm_pgoff: it *)
(* is 0 for an anonymous VMA where mmap has put it, and a VMA that was     *)
(* written to takes its vm_pgoff along when it moves.  Two neighbours      *)
(* merge when their vm_pgoff match and one of them has no anon_vma; two    *)
(* anon_vmas are taken for different ones.                                 *)
(***************************************************************************)
Joins(l, r) == l.end = r.start /\ l.shift = r.shift /\ ~ (l.anon /\ r.anon)

Joined(l, r) == [start |-> l.start, end |-> r.end, shift |-> l.shift,
                 anon |-> l.anon \/ r.anon]

\* The structs after area v was added, and the struct that describes it: a
\* neighbour that was extended, or one that was free.  The lower neighbour
\* stays when both are merged.
Placements(vs, v) ==
  LET below == {i \in Live(vs) : Joins(vs[i], v)}
      above == {i \in Live(vs) : Joins(v, vs[i])}
  IN  IF below # {} THEN
        {LET w == Joined(vs[b], v)
             next == {i \in above : Joins(w, vs[i])}
         IN  [structs |-> [i \in Struct |->
                IF i = b
                THEN IF next = {} THEN w ELSE Joined(w, vs[CHOOSE n \in next : TRUE])
                ELSE IF i \in next THEN NULL ELSE vs[i]],
              id |-> b] : b \in below}
      ELSE IF above # {} THEN
        {[structs |-> [vs EXCEPT ![n] = Joined(v, vs[n])], id |-> n] : n \in above}
      ELSE
        {[structs |-> [vs EXCEPT ![i] = v], id |-> i] : i \in Struct \ Live(vs)}

Overlaps(vs, s, e) == \E i \in Live(vs) : vs[i].start < e /\ s < vs[i].end

\* What is left of v when s .. e - 1 is unmapped; of two parts the lower one
\* keeps the struct.
Cut(v, s, e) ==
  IF v.end <= s \/ e <= v.start THEN v
  ELSE IF v.start < s THEN [v EXCEPT !.end = s]
  ELSE IF e < v.end THEN [v EXCEPT !.start = e] ELSE NULL

do_munmap(vs, s, e) ==
  [i \in Struct |-> IF vs[i] = NULL THEN NULL ELSE Cut(vs[i], s, e)]

Zapped(m, s, e) == [a \in Addr |-> IF a \in s .. e - 1 THEN Empty ELSE m[a]]

\* move_page_tables, page after page, n of them.
move_page_tables(m, old, new, n) ==
  LET moved[j \in 0 .. n] ==
        IF j = 0 THEN m
        ELSE [[moved[j - 1] EXCEPT ![old + j - 1] = Empty]
                EXCEPT ![new + j - 1] = moved[j - 1][old + j - 1]]
  IN  moved[n]

-----------------------------------------------------------------------------
(***************************************************************************)
(* The two ioctls.                                                         *)
(***************************************************************************)
Nobody == \A t \in Task : pc[t] = "user"

\* No call has gone through a freed struct or beyond user space; after that
\* the model ends.
Intact == \A t \in Task : pc[t] \notin {"oops", "astray"}

Enter(t, place) ==
  /\ Intact
  /\ pc[t] = "user"
  /\ alone => Nobody
  /\ pc' = [pc EXCEPT ![t] = place]

\* The struct that was found describes an area, be it the same one or not.
Holds(t, place) ==
  /\ Intact
  /\ pc[t] = place
  /\ vma[ovma[t]] # NULL

Forget(t) ==
  /\ ovma' = [ovma EXCEPT ![t] = NULL]
  /\ from' = [from EXCEPT ![t] = 0]
  /\ to'   = [to EXCEPT ![t] = 0]
  /\ told' = [told EXCEPT ![t] = 0]

\* ioctl returns -1.
Fail(t) ==
  /\ pc' = [pc EXCEPT ![t] = "user"]
  /\ Forget(t)

\* copy_from_user fails, or no VMA holds the address.
FindMiss(t, a) ==
  /\ Enter(t, "user")
  /\ \A i \in Live(vma) : a \notin Range(vma[i])
  /\ UNCHANGED <<alone, memory, locals>>

\* Mutant: the caller's address is taken for that of the start of the VMA.
MVE_VMA_TO_Start(t, a, b) ==
  \E i \in Live(vma) :
    /\ a \in Range(vma[i])
    /\ Enter(t, "remap")
    /\ ovma' = [ovma EXCEPT ![t] = i]
    /\ from' = [from EXCEPT ![t] = a]
    /\ to'   = [to EXCEPT ![t] = b]
    /\ told' = [told EXCEPT ![t] = b]
    /\ UNCHANGED <<alone, memory>>

\* Mutant: the offset is added to to_addr.
MVE_VMA_TO_Adds(t, a, b) ==
  \E i \in Live(vma) :
    /\ a \in Range(vma[i])
    /\ Enter(t, "remap")
    /\ ovma' = [ovma EXCEPT ![t] = i]
    /\ from' = [from EXCEPT ![t] = a]
    /\ to'   = [to EXCEPT ![t] = b + (a - vma[i].start)]
    /\ told' = [told EXCEPT ![t] = b]
    /\ UNCHANGED <<alone, memory>>

\* The search of IOCTL_MVE_VMA_TO, under the read lock.  What is subtracted
\* from to_addr may be more than it is: a negative number stands for the
\* address unsigned arithmetic makes of it.
MVE_VMA_TO(t, a, b) ==
  \E i \in Live(vma) :
    /\ a \in Range(vma[i])
    /\ Enter(t, "remap")
    /\ ovma' = [ovma EXCEPT ![t] = i]
    /\ from' = [from EXCEPT ![t] = a]
    /\ to'   = [to EXCEPT ![t] = b - (a - vma[i].start)]
    /\ told' = [told EXCEPT ![t] = b]
    /\ UNCHANGED <<alone, memory>>

\* The search of IOCTL_MVE_VMA.
MVE_VMA(t, a) ==
  \E i \in Live(vma) :
    /\ a \in Range(vma[i])
    /\ Enter(t, "area")
    /\ ovma' = [ovma EXCEPT ![t] = i]
    /\ from' = [from EXCEPT ![t] = a]
    /\ UNCHANGED <<alone, memory, to, told>>

\* At b area v lies among the addresses of user space, ...
Lies(v, b) == b \in Addr /\ b + Size(v) <= Top

\* ... and there is room for it.
Fits(v, b) == Lies(v, b) /\ ~ Overlaps(vma, b, b + Size(v))

\* get_unmapped_area, without the lock.
GetUnmappedArea(t) ==
  /\ Holds(t, "area")
  /\ \E b \in Addr : /\ Fits(vma[ovma[t]], b)
                     /\ to' = [to EXCEPT ![t] = b]
  /\ pc' = [pc EXCEPT ![t] = "tell"]
  /\ UNCHANGED <<alone, memory, ovma, from, told>>

NoUnmappedArea(t) ==
  /\ Holds(t, "area")
  /\ \A b \in Addr : ~ Fits(vma[ovma[t]], b)
  /\ Fail(t)
  /\ UNCHANGED <<alone, memory>>

\* The new address is computed from vm_start as it is now and copied to the
\* caller before the move.  delta is an unsigned int.
TellAddress(t) ==
  /\ Holds(t, "tell")
  /\ pc' = [pc EXCEPT ![t] = "remap"]
  /\ told' = [told EXCEPT ![t] = to[t] + ((from[t] - vma[ovma[t]].start) % Wrap)]
  /\ UNCHANGED <<alone, memory, ovma, from, to>>

\* copy_to_user fails.
TellFault(t) ==
  /\ Holds(t, "tell")
  /\ Fail(t)
  /\ UNCHANGED <<alone, memory>>

\* The struct has been freed since the search: the kernel may do anything.
Oops(t) ==
  /\ Intact
  /\ pc[t] \in {"area", "tell", "remap"}
  /\ vma[ovma[t]] = NULL
  /\ pc' = [pc EXCEPT ![t] = "oops"]
  /\ Forget(t)
  /\ UNCHANGED <<alone, memory>>

\* The new area copy_vma asks for.
Target(t) ==
  LET v == vma[ovma[t]]
  IN  [start |-> to[t], end |-> to[t] + Size(v), anon |-> v.anon,
       shift |-> IF v.anon THEN v.shift + to[t] - v.start ELSE 0]

\* Only an area that is there is a reason to refuse: neither my_mremap nor
\* copy_vma looks at the bounds of user space.
copy_vma(t) ==
  IF to[t] >= 0 /\ Overlaps(vma, to[t], to[t] + Size(vma[ovma[t]])) THEN {}
  ELSE Placements(vma, Target(t))

\* ovma->vm_start after copy_vma, which makes ovma point to the area the VMA
\* was merged into.
OldStart(t, new) ==
  LET start == vma[ovma[t]].start
  IN  IF start \in Range(new.structs[new.id]) THEN new.structs[new.id].start ELSE start

RemapRefused(t) ==
  /\ Holds(t, "remap")
  /\ copy_vma(t) = {}
  /\ Fail(t)
  /\ UNCHANGED <<alone, memory>>

\* The VMA goes, in part or as a whole, where user space has no addresses, or
\* its end wraps below its start.  The page tables that are moved are not
\* those of the process any more: nothing is known from here on.
RemapAstray(t) ==
  /\ Holds(t, "remap")
  /\ ~ Lies(vma[ovma[t]], to[t])
  /\ copy_vma(t) # {}
  /\ pc' = [pc EXCEPT ![t] = "astray"]
  /\ Forget(t)
  /\ UNCHANGED <<alone, memory>>

\* The move takes place, and the task is at place after it.
Remapping(t, place) ==
  /\ Holds(t, "remap")
  /\ Lies(vma[ovma[t]], to[t])
  /\ pc' = [pc EXCEPT ![t] = place]

\* Mutant: what was moved is not looked at before the old area is unmapped.
RemapShortUnmaps(t) ==
  /\ Remapping(t, "user")
  /\ Forget(t)
  /\ \E new \in copy_vma(t), n \in 0 .. Size(vma[ovma[t]]) - 1 :
       LET old == OldStart(t, new)
           len == Size(vma[ovma[t]])
       IN  /\ vma' = do_munmap(new.structs, old, old + len)
           /\ mem' = Zapped(move_page_tables(mem, old, to[t], n), old, old + len)
  /\ UNCHANGED alone

\* Mutant: the new area is dropped, and the pages are not moved back.
RemapShortDropsNew(t) ==
  /\ Remapping(t, "user")
  /\ Forget(t)
  /\ \E new \in copy_vma(t), n \in 0 .. Size(vma[ovma[t]]) - 1 :
       mem' = move_page_tables(mem, OldStart(t, new), to[t], n)
  /\ UNCHANGED <<alone, vma>>

\* move_page_tables stops early, when a page table cannot be allocated.
RemapShort(t) ==
  /\ Remapping(t, "user")
  /\ Forget(t)
  /\ \E new \in copy_vma(t), n \in 0 .. Size(vma[ovma[t]]) - 1 :
       /\ vma' = new.structs
       /\ mem' = move_page_tables(mem, OldStart(t, new), to[t], n)
  /\ UNCHANGED alone

\* Mutant: do_munmap is given one page less.
RemapKeepsPage(t) ==
  /\ Remapping(t, "return")
  /\ \E new \in copy_vma(t) :
       LET old == OldStart(t, new)
           len == Size(vma[ovma[t]])
       IN  /\ vma' = do_munmap(new.structs, old, old + len - 1)
           /\ mem' = Zapped(move_page_tables(mem, old, to[t], len), old, old + len - 1)
  /\ UNCHANGED <<alone, locals>>

\* my_mremap under the write lock.
Remap(t) ==
  /\ Remapping(t, "return")
  /\ \E new \in copy_vma(t) :
       LET old == OldStart(t, new)
           len == Size(vma[ovma[t]])
       IN  /\ vma' = do_munmap(new.structs, old, old + len)
           /\ mem' = Zapped(move_page_tables(mem, old, to[t], len), old, old + len)
  /\ UNCHANGED <<alone, locals>>

\* do_munmap fails, and nobody looks at what it returns.
RemapKeepsOld(t) ==
  /\ Remapping(t, "kept")
  /\ \E new \in copy_vma(t) :
       /\ vma' = new.structs
       /\ mem' = move_page_tables(mem, OldStart(t, new), to[t], Size(vma[ovma[t]]))
  /\ UNCHANGED <<alone, locals>>

\* ioctl returns 0.
Return(t) ==
  /\ Intact
  /\ pc[t] \in {"return", "kept"}
  /\ pc' = [pc EXCEPT ![t] = "user"]
  /\ Forget(t)
  /\ UNCHANGED <<alone, memory>>

-----------------------------------------------------------------------------
(***************************************************************************)
(* The process outside the module: mmap and munmap of a fixed range, the   *)
(* first write to a page.                                                  *)
(***************************************************************************)
Mmap(s, e) ==
  /\ ~ Overlaps(vma, s, e)
  /\ \E new \in Placements(vma, [start |-> s, end |-> e, shift |-> 0, anon |-> FALSE]) :
       vma' = new.structs
  /\ UNCHANGED <<alone, mem, pc, locals>>

Munmap(s, e) ==
  /\ Overlaps(vma, s, e)
  /\ LET cut   == do_munmap(vma, s, e)
         split == {i \in Live(vma) : vma[i].start < s /\ e < vma[i].end}
     IN  IF split = {} THEN vma' = cut
         ELSE \E i \in split, j \in Struct \ Live(vma) :
                vma' = [cut EXCEPT ![j] = [vma[i] EXCEPT !.start = e]]
  /\ mem' = Zapped(mem, s, e)
  /\ UNCHANGED <<alone, pc, locals>>

Write(a, c) ==
  /\ mem[a] = Empty
  /\ \A b \in Addr : mem[b] # c
  /\ \E i \in Live(vma) : /\ a \in Range(vma[i])
                          /\ vma' = [vma EXCEPT ![i].anon = TRUE]
  /\ mem' = [mem EXCEPT ![a] = c]
  /\ UNCHANGED <<alone, pc, locals>>

Outside ==
  \/ \E s \in Addr : \E e \in s + 1 .. Top : Mmap(s, e) \/ Munmap(s, e)
  \/ \E a \in Addr, c \in Content : Write(a, c)

Call(t) ==
  \/ \E a \in Addr : \/ FindMiss(t, a)
                     \/ MVE_VMA(t, a)
                     \/ \E b \in Dest : MVE_VMA_TO(t, a, b)
  \/ GetUnmappedArea(t) \/ NoUnmappedArea(t) \/ TellAddress(t) \/ TellFault(t)
  \/ RemapRefused(t) \/ RemapShort(t) \/ Remap(t) \/ RemapKeepsOld(t) \/ Return(t)
  \/ Oops(t) \/ RemapAstray(t)

Next ==
  \/ \E t \in Task : Call(t)
  \/ Intact /\ (alone => Nobody) /\ Outside

Spec == Init /\ [][Next]_vars

-----------------------------------------------------------------------------
(***************************************************************************)
(* Properties.                                                             *)
(***************************************************************************)
TypeOK ==
  /\ alone \in BOOLEAN
  /\ vma \in [Struct -> Vma \cup {NULL}]
  /\ mem \in [Addr -> Content \cup {Empty}]
  /\ pc \in [Task -> {"user", "area", "tell", "remap", "return", "kept", "oops", "astray"}]
  /\ ovma \in [Task -> Struct \cup {NULL}]
  /\ from \in [Task -> Addr]
  /\ to \in [Task -> -Top .. 2 * Top]
  /\ told \in [Task -> 0 .. 2 * Top + Wrap]

\* However moves through stale pointers, munmap and mmap interleave, no two
\* VMAs overlap, and every page that holds something lies in one, until a
\* call has gone through a freed struct or beyond user space.
AreasDisjoint == Intact =>
  /\ \A i \in Live(vma) : vma[i].start < vma[i].end
  /\ \A i, j \in Live(vma) : i # j => Range(vma[i]) \cap Range(vma[j]) = {}
  /\ \A a \in Addr : mem[a] # Empty => a \in MappedBy(vma)

Held == {mem[a] : a \in Addr} \ {Empty}

\* A step of either ioctl never loses what a page held, even when it moves a
\* VMA that is not the one the caller meant, is cut short, keeps the old range
\* or is refused.  A step that goes through a freed struct or beyond user
\* space is excepted.
NothingLost == [][pc' # pc /\ Intact' => Held' = Held]_vars

\* The VMA was never written to and is to go directly below itself: copy_vma
\* extends it downwards and my_mremap goes on with the start of the merged one.
GrowsDown(t) ==
  LET v == vma[ovma[t]] IN ~ v.anon /\ to[t] + Size(v) = v.start

Mapped == MappedBy(vma)

\* The address lies so far behind the start of its VMA that delta wraps.
Far(t) == from[t] - vma[ovma[t]].start >= Wrap

\* In a process with one thread a move within user space that returns 0 has
\* taken the whole VMA of the address, and nothing else, by the distance the
\* caller was told: every page is found at its new address, and there is no
\* access to the old range, unless do_munmap has failed.  The cases GrowsDown
\* and Far are excepted.
MovesWhole == [][\A t \in Task :
  /\ alone /\ pc[t] = "remap" /\ pc'[t] \in {"return", "kept"}
  /\ ~ GrowsDown(t) /\ ~ Far(t)
  =>
  LET old  == Range(vma[ovma[t]])
      d    == told[t] - from[t]
      new  == {a + d : a \in old}
      gone == IF pc'[t] = "kept" THEN {} ELSE old
  IN  /\ from[t] \in old
      /\ Mapped' = (Mapped \ gone) \cup new
      /\ \A a \in old : mem'[a + d] = mem[a]
      /\ \A a \in Addr \ (old \cup new) : mem'[a] = mem[a]]_vars

\* What the assignment asks for: after a successful move the old address is
\* invalid and the new one is valid.  Moves whose do_munmap failed are left
\* out.
OldInvalidNewValid == \A t \in Task :
  alone /\ pc[t] = "return" => from[t] \notin Mapped /\ told[t] \in Mapped

\* What the assignment asks for: a VMA for which there is no room at the
\* destination stays where it is, and the ioctl returns -1.
NoRoomRefused == [][\A t \in Task :
  Holds(t, "remap") /\ ~ Fits(vma[ovma[t]], to[t]) /\ pc'[t] # "remap"
    => pc'[t] = "user" /\ UNCHANGED memory]_vars

Space == INSTANCE AddressSpace WITH mapped <- Mapped, page <- mem

\* Every step, those on a stale pointer and those cut short included, does to
\* the memory what AddressSpace allows: a step of an ioctl what one of its
\* operations Move and GiveUp does, one stretch going to free addresses or
\* staying where it is; a step of the process what Map, Unmap or Fill does.
\* The case GrowsDown and steps through a freed struct or beyond user space
\* are excepted.
RefinesAddressSpace ==
  Space!Init /\ [][IF pc' = pc THEN Space!Process
                   ELSE \/ Space!Ioctl
                        \/ ~ Intact'
                        \/ \E t \in Task : Holds(t, "remap") /\ GrowsDown(t)
                  ]_<<Mapped, mem>>
=============================================================================
