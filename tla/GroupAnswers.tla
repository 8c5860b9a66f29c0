---------------------------- MODULE GroupAnswers ----------------------------
(***************************************************************************)
(* The commands of A1/Part3/driver.c whose answer depends on all threads   *)
(* of the group: NOT counts them, NFO counts their open files, MSU names   *)
(* the one that uses most of its stack.  One thread runs getans while the  *)
(* others start, exit, open, close, map, unmap and move their stack        *)
(* pointers.                                                               *)
(***************************************************************************)
EXTENDS Integers, FiniteSets

CONSTANTS
  Thread,      \* threads the group may have
  Leader,      \* its group leader
  Word,        \* the number of addresses, 2^64 in the code
  Area,        \* <<vm_start, vm_end>> of the VMAs the process may have
  StartStack,  \* mm->start_stack, in the VMA of the stack of the leader
  StackPtr,    \* the values stack pointers take
  max_fds,     \* the size of the table of open files
  NULL

ASSUME GroupAssumption ==
  /\ Word \in Nat \ {0}
  /\ max_fds \in Nat
  /\ IsFiniteSet(Thread) /\ Leader \in Thread /\ NULL \notin Thread
  /\ StartStack \in 0 .. Word - 1
  /\ StackPtr \subseteq 0 .. Word - 1
  /\ \A a \in Area : a \in (0 .. Word - 1) \X (1 .. Word - 1) /\ a[1] < a[2]
  /\ \A a, b \in Area : a = b \/ a[2] <= b[1] \/ b[2] <= a[1]

NOT == 5
NFO == 6
MSU == 7

Fd == 0 .. max_fds - 1

VARIABLES
  state,     \* state[t]: "none", "live", "exiting" (without mm), "gone"
  link,      \* link[t]: the next thread of the list for_each_thread follows
  sp,        \* sp[t]: task_pt_regs(t)->sp
  mapped,    \* the VMAs there are
  open,      \* the file descriptors in use
  locked,    \* files->file_lock is taken by read_file
  current,   \* the thread that runs getans
  id,        \* the command
  pc,        \* where getans is
  fd,        \* locals of read_file
  count,
  child,     \* locals of the command MSU
  maxm,
  maxm_pid,
  moved,     \* history: threads that came, left or moved sp during the call
  remapped,  \* history: VMAs came or went during the call
  opened     \* history: how many files were open, at each moment of the call

group == <<state, link, sp, mapped>>
files == <<open, locked>>
locals == <<fd, count, child, maxm, maxm_pid>>
vars == <<group, files, current, id, pc, locals, moved, remapped, opened>>

InGroup == {t \in Thread : state[t] \in {"live", "exiting"}}

\* The leader comes first, and the others in any order.
Linked(l, S) ==
  \E place \in [S -> 1 .. Cardinality(S)] :
    /\ place[Leader] = 1
    /\ \A t, u \in S : place[t] = place[u] => t = u
    /\ \A t \in S : IF place[t] = Cardinality(S) THEN l[t] = NULL
                    ELSE l[t] \in S /\ place[l[t]] = place[t] + 1
    /\ \A t \in Thread \ S : l[t] = NULL

Init ==
  /\ \E S \in SUBSET Thread :
       /\ Leader \in S
       /\ state = [t \in Thread |-> IF t \in S THEN "live" ELSE "none"]
       /\ link \in [Thread -> Thread \cup {NULL}]
       /\ Linked(link, S)
       /\ current \in S
  /\ sp \in [Thread -> StackPtr]
  /\ mapped \in SUBSET Area
  /\ open \in SUBSET Fd
  /\ locked = FALSE
  /\ id \in {NOT, NFO, MSU}
  /\ pc = "getans"
  /\ fd = 0 /\ count = 0
  /\ child = NULL /\ maxm = 0 /\ maxm_pid = NULL
  /\ moved = {} /\ remapped = FALSE
  /\ opened = {Cardinality(open)}

-----------------------------------------------------------------------------
(***************************************************************************)
(* getans.                                                                 *)
(***************************************************************************)
At(here) == pc = here /\ UNCHANGED <<group, current, id, moved, remapped, open, opened>>

\* get_nr_threads counts a thread until it has left the list.
CountThreads ==
  /\ At("getans") /\ id = NOT
  /\ count' = Cardinality(InGroup)
  /\ pc' = "return"
  /\ UNCHANGED <<locked, fd, child, maxm, maxm_pid>>

\* Mutant: the descriptors are counted without the lock.
LockFilesNever ==
  /\ At("getans") /\ id = NFO
  /\ pc' = "scan"
  /\ UNCHANGED <<locked, locals>>

LockFiles ==
  /\ At("getans") /\ id = NFO
  /\ locked' = TRUE
  /\ pc' = "scan"
  /\ UNCHANGED locals

\* Mutant: the bit behind the table is looked at, too.
ScanFileOneMore ==
  /\ At("scan")
  /\ fd <= max_fds
  /\ count' = IF fd \in open THEN count + 1 ELSE count
  /\ fd' = fd + 1
  /\ UNCHANGED <<pc, locked, child, maxm, maxm_pid>>

ScanFile ==
  /\ At("scan")
  /\ fd < max_fds
  /\ count' = IF fd \in open THEN count + 1 ELSE count
  /\ fd' = fd + 1
  /\ UNCHANGED <<pc, locked, child, maxm, maxm_pid>>

UnlockFiles ==
  /\ At("scan")
  /\ fd = max_fds
  /\ locked' = FALSE
  /\ pc' = "return"
  /\ UNCHANGED locals

\* end - sp, where end is 0 for a pointer that no VMA holds; unsigned.
get_cur(s) ==
  LET ends == {a[2] : a \in {b \in mapped : b[1] <= s /\ s < b[2]}}
  IN  IF ends = {} THEN (0 - s) % Word ELSE (CHOOSE e \in ends : TRUE) - s

StartMaximum ==
  /\ At("getans") /\ id = MSU
  /\ state[Leader] = "live"
  /\ maxm' = (StartStack - sp[Leader]) % Word
  /\ maxm_pid' = Leader
  /\ child' = Leader
  /\ pc' = "visit"
  /\ UNCHANGED <<locked, fd, count>>

\* Mutant: the maximum is not remembered.
VisitForgets ==
  /\ At("visit")
  /\ state[child] = "live"
  /\ maxm_pid' = IF get_cur(sp[child]) > maxm THEN child ELSE maxm_pid
  /\ pc' = "next"
  /\ UNCHANGED <<locked, fd, count, child, maxm>>

\* get_cur sleeps for the mmap lock, with no reference to the thread.
Visit ==
  /\ At("visit")
  /\ state[child] = "live"
  /\ LET curval == get_cur(sp[child])
     IN  IF curval > maxm THEN maxm' = curval /\ maxm_pid' = child
                          ELSE UNCHANGED <<maxm, maxm_pid>>
  /\ pc' = "next"
  /\ UNCHANGED <<locked, fd, count, child>>

\* The pointer of a thread that has left the list is still there, if the
\* thread has not been freed.
NextThread ==
  /\ At("next")
  /\ child' = link[child]
  /\ pc' = IF child' = NULL THEN "return" ELSE "visit"
  /\ UNCHANGED <<locked, fd, count, maxm, maxm_pid>>

\* mm is NULL, or the thread has been freed.
Oops ==
  /\ \/ At("getans") /\ id = MSU /\ state[Leader] # "live"
     \/ At("visit") /\ state[child] # "live"
     \/ At("next") /\ state[child] = "gone"
  /\ pc' = "oops"
  /\ UNCHANGED <<locked, locals>>

getans ==
  \/ CountThreads
  \/ LockFiles \/ ScanFile \/ UnlockFiles
  \/ StartMaximum \/ Visit \/ NextThread \/ Oops

-----------------------------------------------------------------------------
(***************************************************************************)
(* The other threads, while the call is under way.                         *)
(***************************************************************************)
Others == {t \in Thread : state[t] = "live"} \ {current}

Busy(command) ==
  /\ id = command
  /\ pc \notin {"return", "oops"}
  /\ UNCHANGED <<current, id, pc, locals>>

Clone(t) ==
  /\ Busy(MSU)
  /\ Others # {} /\ state[t] = "none"
  /\ state' = [state EXCEPT ![t] = "live"]
  /\ \E last \in InGroup : /\ link[last] = NULL
                           /\ link' = [link EXCEPT ![last] = t]
  /\ moved' = moved \cup {t}
  /\ UNCHANGED <<sp, mapped, files, remapped, opened>>

Exit(t) ==
  /\ Busy(MSU)
  /\ t \in Others
  /\ state' = [state EXCEPT ![t] = "exiting"]
  /\ moved' = moved \cup {t}
  /\ UNCHANGED <<link, sp, mapped, files, remapped, opened>>

\* The leader stays in the list as long as there is another thread.
Unlink(t) ==
  /\ Busy(MSU)
  /\ t # Leader /\ state[t] = "exiting"
  /\ state' = [state EXCEPT ![t] = "gone"]
  /\ \E before \in InGroup : /\ link[before] = t
                             /\ link' = [link EXCEPT ![before] = link[t]]
  /\ UNCHANGED <<sp, mapped, files, moved, remapped, opened>>

MoveStack(t) ==
  /\ Busy(MSU)
  /\ t \in Others
  /\ \E s \in StackPtr \ {sp[t]} : sp' = [sp EXCEPT ![t] = s]
  /\ moved' = moved \cup {t}
  /\ UNCHANGED <<state, link, mapped, files, remapped, opened>>

MapArea(a) ==
  /\ Busy(MSU)
  /\ Others # {}
  /\ mapped' = IF a \in mapped THEN mapped \ {a} ELSE mapped \cup {a}
  /\ remapped' = TRUE
  /\ UNCHANGED <<state, link, sp, files, moved, opened>>

\* open and close take file_lock.
UseFd(f) ==
  /\ Busy(NFO)
  /\ Others # {} /\ ~ locked
  /\ open' = IF f \in open THEN open \ {f} ELSE open \cup {f}
  /\ opened' = opened \cup {Cardinality(open')}
  /\ UNCHANGED <<group, locked, moved, remapped>>

Next ==
  \/ getans
  \/ \E t \in Thread : Clone(t) \/ Exit(t) \/ Unlink(t) \/ MoveStack(t)
  \/ \E a \in Area : MapArea(a)
  \/ \E f \in Fd : UseFd(f)

Spec == Init /\ [][Next]_vars

-----------------------------------------------------------------------------
(***************************************************************************)
(* Properties.                                                             *)
(***************************************************************************)
TypeOK ==
  /\ state \in [Thread -> {"none", "live", "exiting", "gone"}]
  /\ link \in [Thread -> Thread \cup {NULL}]
  /\ sp \in [Thread -> StackPtr]
  /\ mapped \subseteq Area /\ open \subseteq Fd /\ locked \in BOOLEAN
  /\ current \in Thread /\ id \in {NOT, NFO, MSU}
  /\ pc \in {"getans", "scan", "visit", "next", "return", "oops"}
  /\ fd \in 0 .. max_fds /\ count \in 0 .. max_fds + Cardinality(Thread)
  /\ child \in Thread \cup {NULL} /\ maxm_pid \in Thread \cup {NULL}
  /\ maxm \in 0 .. Word - 1
  /\ moved \subseteq Thread /\ remapped \in BOOLEAN
  /\ opened \subseteq 0 .. max_fds

\* However the other threads open and close files, NFO answers a number of
\* files that were open together at a moment of the call.
FilesCountedTogether == pc = "return" /\ id = NFO => count \in opened

\* The stack pointer is on the stack the leader was started with.
OnStartStack(s) ==
  s <= StartStack /\ \E a \in mapped : a[1] <= s /\ StartStack < a[2]

\* Whichever threads start, exit and move during the call, the thread MSU
\* names has no less between its stack pointer and the end of the VMA than any
\* other thread that stayed as it was, when it stayed as it was itself and, if
\* it is the leader, is on the stack it was started with.
NamesLargest ==
  pc = "return" /\ id = MSU /\ ~ remapped /\ maxm_pid \notin moved
    /\ (maxm_pid = Leader => OnStartStack(sp[Leader]))
  => \A u \in InGroup \ moved : get_cur(sp[u]) <= get_cur(sp[maxm_pid])
=============================================================================
