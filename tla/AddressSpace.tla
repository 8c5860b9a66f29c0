---------------------------- MODULE AddressSpace ----------------------------
(***************************************************************************)
(* What IOCTL_MVE_VMA and IOCTL_MVE_VMA_TO of A2/module/btplus.c may do to *)
(* the memory of a process, without VMAs, locks or pointers: a move takes  *)
(* a stretch of pages to free addresses, each page with what it holds; a   *)
(* move that is given up, or whose old range stays mapped, leaves every    *)
(* page readable at one of the two places.                                 *)
(***************************************************************************)
EXTENDS Integers

CONSTANTS
  Addr,     \* page numbers of the address space
  Content,  \* what a page may hold
  Empty     \* nothing was written to the page

VARIABLES
  mapped,  \* the addresses that user space may access
  page     \* page[a]: what it finds there

Stretch == {s .. e : s \in Addr, e \in Addr}

\* The addresses a step unmaps and those it maps.
Gone == mapped \ mapped'
New  == mapped' \ mapped

Init ==
  /\ mapped = {}
  /\ page = [a \in Addr |-> Empty]

Map ==
  /\ Gone = {}
  /\ New \in Stretch
  /\ page' = page

Unmap ==
  /\ New = {}
  /\ page' = [a \in Addr |-> IF a \in mapped' THEN page[a] ELSE Empty]

Fill(a, c) ==
  /\ a \in mapped
  /\ page[a] = Empty
  /\ page' = [page EXCEPT ![a] = c]
  /\ mapped' = mapped

Move(d) ==
  LET old == Gone
      new == New
  IN  /\ old \in Stretch
      /\ new = {a + d : a \in old}
      /\ page' = [a \in Addr |-> IF a \in old THEN Empty
                                 ELSE IF a \in new THEN page[a - d] ELSE page[a]]

\* Nothing is unmapped, and of the pages that should have moved those that
\* are to be found in moved have.
GiveUp(d, moved) ==
  LET new == New
  IN  /\ Gone = {}
      /\ new \in Stretch
      /\ {a - d : a \in new} \subseteq mapped
      /\ page' = [a \in Addr |->
           IF a \in new THEN (IF a \in moved THEN page[a - d] ELSE Empty)
           ELSE IF a + d \in moved THEN Empty ELSE page[a]]

\* What the process does itself ...
Process ==
  \/ Map
  \/ Unmap
  \/ \E a \in Addr, c \in Content : Fill(a, c)

\* ... and what the ioctls do for it.
Ioctl == \E d \in {b - a : a \in Addr, b \in Addr} :
  \/ Move(d)
  \/ \E moved \in SUBSET New : GiveUp(d, moved)

Next == Process \/ Ioctl
=============================================================================
