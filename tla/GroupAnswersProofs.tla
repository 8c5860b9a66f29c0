------------------------- MODULE GroupAnswersProofs -------------------------
(***************************************************************************)
(* Theorems about GroupAnswers, for every group of threads, every address  *)
(* space and every size of the table of open files.                        *)
(***************************************************************************)
EXTENDS GroupAnswers, FiniteSetTheorems, TLAPS

USE GroupAssumption

-----------------------------------------------------------------------------
(***************************************************************************)
(* Lemmas about the operators.                                             *)
(***************************************************************************)

\* What get_cur returns fits an unsigned long, also when no VMA holds the
\* pointer and the difference wraps.
LEMMA CurFits ==
  ASSUME mapped \subseteq Area, NEW s \in StackPtr
  PROVE  get_cur(s) \in 0 .. Word - 1
<1>. DEFINE ends == {a[2] : a \in {b \in mapped : b[1] <= s /\ s < b[2]}}
<1>1. s \in 0 .. Word - 1
  OBVIOUS
<1>2. CASE ends = {}
  <2>1. get_cur(s) = (0 - s) % Word
    BY <1>2 DEF get_cur
  <2>2. 0 - s \in Int /\ Word \in Nat \ {0}
    BY <1>1
  <2>. QED
    BY <2>1, <2>2
<1>3. CASE ends # {}
  <2>. DEFINE e == CHOOSE x \in ends : TRUE
  <2>1. e \in ends
    BY <1>3
  <2>2. get_cur(s) = e - s
    BY <1>3 DEF get_cur
  <2>3. \A x \in ends : x \in 1 .. Word - 1 /\ s < x
    OBVIOUS
  <2>. HIDE DEF e, ends
  <2>. QED
    BY <1>1, <2>1, <2>2, <2>3
<1>. QED
  BY <1>2, <1>3

LEMMA DifferenceFits ==
  ASSUME NEW s \in StackPtr
  PROVE  (StartStack - s) % Word \in 0 .. Word - 1
<1>1. s \in Int /\ StartStack \in Int /\ Word \in Nat \ {0}
  OBVIOUS
<1>. QED
  BY <1>1

LEMMA OpenFits ==
  ASSUME NEW S \in SUBSET Fd
  PROVE  IsFiniteSet(S) /\ Cardinality(S) \in 0 .. max_fds
<1>1. IsFiniteSet(Fd) /\ Cardinality(Fd) = max_fds
  BY FS_Interval DEF Fd
<1>. QED
  BY <1>1, FS_Subset, FS_CardinalityType

LEMMA GroupFits ==
  IsFiniteSet(InGroup) /\ Cardinality(InGroup) \in 0 .. Cardinality(Thread)
<1>1. InGroup \subseteq Thread
  BY DEF InGroup
<1>. QED
  BY <1>1, FS_Subset, FS_CardinalityType

-----------------------------------------------------------------------------
(***************************************************************************)
(* What read_file has counted: while it holds the lock the files that are  *)
(* open do not change, and those below fd are counted.                     *)
(***************************************************************************)
Below == {f \in open : f < fd}

CountInv ==
  /\ Cardinality(open) \in opened
  /\ pc = "scan" => id = NFO /\ locked /\ count = Cardinality(Below)
  /\ pc = "getans" => fd = 0 /\ count = 0
  /\ pc \in {"visit", "next"} => id = MSU /\ child \in Thread
  /\ FilesCountedTogether

GroupInv == TypeOK /\ CountInv

LEMMA InitGroup == Init => GroupInv
<1>. SUFFICES ASSUME Init PROVE GroupInv
  OBVIOUS
<1>1. Cardinality(open) \in 0 .. max_fds
  BY OpenFits DEF Init
<1>2. Cardinality(Thread) \in Nat
  BY FS_CardinalityType
<1>3. TypeOK
  <2>1. /\ state \in [Thread -> {"none", "live", "exiting", "gone"}]
        /\ link \in [Thread -> Thread \cup {NULL}] /\ current \in Thread
    BY DEF Init
  <2>2. opened \subseteq 0 .. max_fds
    BY <1>1 DEF Init
  <2>3. /\ sp \in [Thread -> StackPtr] /\ mapped \subseteq Area
        /\ open \subseteq Fd /\ locked \in BOOLEAN /\ id \in {NOT, NFO, MSU}
        /\ pc = "getans" /\ child = NULL /\ maxm_pid = NULL
        /\ moved = {} /\ remapped = FALSE
    BY DEF Init
  <2>4. /\ fd \in 0 .. max_fds /\ maxm \in 0 .. Word - 1
        /\ count \in 0 .. max_fds + Cardinality(Thread)
    BY <1>2 DEF Init
  <2>. QED
    BY <2>1, <2>2, <2>3, <2>4 DEF TypeOK
<1>4. CountInv
  BY DEF Init, CountInv, FilesCountedTogether
<1>. QED
  BY <1>3, <1>4 DEF GroupInv

LEMMA ScanCounts ==
  ASSUME GroupInv, ScanFile
  PROVE  GroupInv'
<1>1. open \subseteq Fd /\ fd \in Nat /\ fd < max_fds /\ open' = open /\ fd' = fd + 1
      /\ count = Cardinality(Below) /\ pc = "scan"
      /\ count' = IF fd \in open THEN count + 1 ELSE count
  BY DEF GroupInv, TypeOK, CountInv, ScanFile, At, group
<1>0. IsFiniteSet(Below) /\ \A f \in open : f \in Nat
  BY <1>1, OpenFits DEF Below, Fd
<1>2. count' = Cardinality(Below')
  <2>1. CASE fd \in open
    <3>0. \A f \in open : f < fd + 1 <=> f < fd \/ f = fd
      BY <1>0, <1>1
    <3>1. Below' = Below \cup {fd} /\ fd \notin Below
      <4>1. \A f : f \in Below' <=> f \in open /\ f < fd + 1
        BY <1>1 DEF Below
      <4>2. \A f : f \in Below <=> f \in open /\ f < fd
        BY DEF Below
      <4>3. \A f : f \in Below' <=> f \in Below \cup {fd}
        BY <2>1, <3>0, <4>1, <4>2
      <4>4. ~ (fd < fd)
        BY <1>1
      <4>. QED
        BY <4>2, <4>3, <4>4
    <3>2. Cardinality(Below') = Cardinality(Below) + 1
      BY <1>0, <3>1, FS_AddElement
    <3>. QED
      BY <1>1, <2>1, <3>2
  <2>2. CASE fd \notin open
    <3>1. Below' = Below
      BY <1>0, <1>1, <2>2 DEF Below
    <3>. QED
      BY <1>1, <2>2, <3>1
  <2>. QED
    BY <2>1, <2>2
<1>3. Below' \in SUBSET Fd
  BY <1>1 DEF Below
<1>4. count' \in 0 .. max_fds
  BY <1>2, <1>3, OpenFits
<1>5. Cardinality(Thread) \in Nat
  BY FS_CardinalityType
<1>. USE DEF GroupInv, TypeOK, CountInv, ScanFile, At, group
<1>6. TypeOK'
  BY <1>1, <1>4, <1>5
<1>7. CountInv'
  BY <1>1, <1>2 DEF FilesCountedTogether
<1>. QED
  BY <1>6, <1>7

\* When the scan is over, what is below fd is what is open.
LEMMA ScanEnds ==
  ASSUME GroupInv, UnlockFiles
  PROVE  GroupInv'
<1>. USE DEF GroupInv, TypeOK, CountInv, UnlockFiles, At, group, locals
<1>1. Below = open
  BY DEF Below, Fd
<1>2. count \in opened
  BY <1>1
<1>3. TypeOK'
  OBVIOUS
<1>4. CountInv'
  BY <1>2 DEF FilesCountedTogether
<1>. QED
  BY <1>3, <1>4

LEMMA AnswerStep ==
  ASSUME GroupInv, getans
  PROVE  GroupInv'
<1>. USE DEF GroupInv, At, group, locals
<1>1. CASE CountThreads
  <2>1. count' \in 0 .. max_fds + Cardinality(Thread)
    BY <1>1, GroupFits, FS_CardinalityType DEF CountThreads
  <2>. QED
    BY <1>1, <2>1 DEF CountThreads, TypeOK, CountInv, FilesCountedTogether, NOT, NFO
<1>2. CASE LockFiles
  <2>1. pc = "getans" /\ id = NFO /\ locked' = TRUE /\ pc' = "scan"
        /\ UNCHANGED <<group, current, id, moved, remapped, open, opened, locals>>
    BY <1>2 DEF LockFiles
  <2>2. TypeOK'
    BY <2>1 DEF TypeOK
  <2>3. Below' = {} /\ count' = 0
    <3>1. fd' = 0 /\ count' = 0 /\ open' \subseteq Nat
      BY <2>1 DEF CountInv, TypeOK, Fd, locals
    <3>2. \A f \in Nat : ~ (f < 0)
      OBVIOUS
    <3>3. \A f : f \in Below' => f \in open' /\ f < fd'
      BY DEF Below
    <3>4. \A f : f \notin Below'
      BY <3>1, <3>2, <3>3
    <3>. QED
      BY <3>1, <3>4
  <2>4. count' = Cardinality(Below')
    BY <2>3, FS_EmptySet
  <2>. QED
    BY <2>1, <2>2, <2>4 DEF CountInv, FilesCountedTogether
<1>3. CASE ScanFile
  BY <1>3, ScanCounts
<1>4. CASE UnlockFiles
  BY <1>4, ScanEnds
<1>5. CASE StartMaximum
  <2>1. maxm' \in 0 .. Word - 1
    BY <1>5, DifferenceFits DEF StartMaximum, TypeOK
  <2>. QED
    BY <1>5, <2>1 DEF StartMaximum, TypeOK, CountInv, FilesCountedTogether, NFO, MSU
<1>6. CASE Visit
  <2>1. child \in Thread /\ get_cur(sp[child]) \in 0 .. Word - 1
    BY <1>6, CurFits DEF Visit, TypeOK, CountInv
  <2>. QED
    BY <1>6, <2>1 DEF Visit, TypeOK, CountInv, FilesCountedTogether, NFO, MSU
<1>7. CASE NextThread
  BY <1>7 DEF NextThread, TypeOK, CountInv, FilesCountedTogether, NFO, MSU
<1>8. CASE Oops
  BY <1>8 DEF Oops, TypeOK, CountInv, FilesCountedTogether
<1>. QED
  BY <1>1, <1>2, <1>3, <1>4, <1>5, <1>6, <1>7, <1>8 DEF getans

LEMMA OtherStep ==
  ASSUME GroupInv,
         \/ \E t \in Thread : Clone(t) \/ Exit(t) \/ Unlink(t) \/ MoveStack(t)
         \/ \E a \in Area : MapArea(a)
         \/ \E f \in Fd : UseFd(f)
  PROVE  GroupInv'
<1>. USE DEF GroupInv, Busy, group, files, locals
<1>1. ASSUME NEW t \in Thread, Clone(t) PROVE GroupInv'
  <2>1. PICK last : link' = [link EXCEPT ![last] = t]
    BY <1>1 DEF Clone
  <2>2. link \in [Thread -> Thread \cup {NULL}]
    BY DEF TypeOK
  <2>3. link' \in [Thread -> Thread \cup {NULL}]
    BY ONLY <2>1, <2>2, t \in Thread
  <2>4. /\ state' = [state EXCEPT ![t] = "live"] /\ moved' = moved \cup {t}
        /\ UNCHANGED <<sp, mapped, files, remapped, opened, current, id, pc, locals>>
    BY <1>1 DEF Clone
  <2>. QED
    BY <2>3, <2>4 DEF TypeOK, CountInv, Below, FilesCountedTogether
<1>2. ASSUME NEW t \in Thread, Exit(t) PROVE GroupInv'
  BY <1>2 DEF Exit, TypeOK, CountInv, Below, FilesCountedTogether
<1>3. ASSUME NEW t \in Thread, Unlink(t) PROVE GroupInv'
  <2>1. /\ state' = [state EXCEPT ![t] = "gone"]
        /\ link' \in [Thread -> Thread \cup {NULL}]
        /\ UNCHANGED <<sp, mapped, files, moved, remapped, opened, current, id, pc, locals>>
    BY <1>3 DEF Unlink, TypeOK
  <2>. QED
    BY <2>1 DEF TypeOK, CountInv, Below, FilesCountedTogether
<1>4. ASSUME NEW t \in Thread, MoveStack(t) PROVE GroupInv'
  BY <1>4 DEF MoveStack, TypeOK, CountInv, Below, FilesCountedTogether
<1>5. ASSUME NEW a \in Area, MapArea(a) PROVE GroupInv'
  BY <1>5 DEF MapArea, TypeOK, CountInv, Below, FilesCountedTogether
<1>6. ASSUME NEW f \in Fd, UseFd(f) PROVE GroupInv'
  <2>1. open' \in SUBSET Fd
    BY <1>6 DEF UseFd, TypeOK
  <2>2. Cardinality(open') \in 0 .. max_fds
    BY <2>1, OpenFits
  <2>3. /\ ~ locked /\ locked' = locked /\ id = NFO /\ pc \notin {"return", "oops"}
        /\ opened' = opened \cup {Cardinality(open')}
        /\ UNCHANGED <<group, moved, remapped, current, id, pc, locals>>
    BY <1>6 DEF UseFd
  <2>4. TypeOK'
    BY <2>1, <2>2, <2>3 DEF TypeOK
  <2>. QED
    BY <2>3, <2>4 DEF CountInv, FilesCountedTogether
<1>. QED
  BY <1>1, <1>2, <1>3, <1>4, <1>5, <1>6

LEMMA NextGroup == GroupInv /\ [Next]_vars => GroupInv'
<1>1. ASSUME GroupInv, UNCHANGED vars PROVE GroupInv'
  BY <1>1 DEF vars, group, files, locals, GroupInv, TypeOK, CountInv, Below, FilesCountedTogether
<1>. QED
  BY <1>1, AnswerStep, OtherStep DEF Next

\* Every variable keeps its type: what getans computes fits its variables,
\* however the threads and the VMAs change.
THEOREM GroupTypeOK == Spec => []TypeOK
<1>1. GroupInv => TypeOK
  BY DEF GroupInv
<1>. QED
  BY <1>1, InitGroup, NextGroup, PTL DEF Spec

\* NFO answers how many files were open at one moment of the call, whatever
\* the other threads open and close.
THEOREM GroupFilesCounted == Spec => []FilesCountedTogether
<1>1. GroupInv => FilesCountedTogether
  BY DEF GroupInv, CountInv
<1>. QED
  BY <1>1, InitGroup, NextGroup, PTL DEF Spec

-----------------------------------------------------------------------------
(***************************************************************************)
(* The list of threads.  A rank grows along the list, and a thread that    *)
(* has left keeps its rank and its pointer, through which a call may still *)
(* go on: it misses no thread that was there all the time.  Ranks spare    *)
(* the proof from following the pointers.                                  *)
(***************************************************************************)
Seen == {t \in Thread : state[t] # "none"}

Ranked(r) ==
  /\ Leader \in InGroup
  /\ \A t \in InGroup : r[Leader] <= r[t]
  /\ \A t, u \in InGroup : r[t] = r[u] => t = u
  /\ \A t \in Thread \ Seen : link[t] = NULL
  /\ \A t \in Seen : link[t] # NULL => link[t] \in Seen /\ r[t] < r[link[t]]
  /\ \A t \in InGroup : link[t] # NULL => link[t] \in InGroup
  /\ \A t \in Seen, u \in InGroup :
       r[t] < r[u] /\ (t \in InGroup \/ u \notin moved) =>
         link[t] # NULL /\ r[link[t]] <= r[u]

\* The threads that have stayed as they were and that the call has passed.
Passed(r) ==
  {u \in InGroup \ moved :
     \/ pc = "visit" /\ r[u] < r[child]
     \/ pc = "next" /\ r[u] <= r[child]
     \/ pc = "return"}

\* The maximum is at least what every thread that was passed uses, and no more
\* than what the thread uses that it is ascribed to.
MaxInv(r) ==
  /\ pc \in {"visit", "next"} => child \in Seen
  /\ id = MSU /\ pc \in {"visit", "next", "return"} => maxm_pid \in Thread
  /\ id = MSU /\ ~ remapped =>
       /\ \A u \in Passed(r) : get_cur(sp[u]) <= maxm
       /\ /\ pc \in {"visit", "next", "return"} /\ maxm_pid \notin moved
          /\ maxm_pid = Leader => OnStartStack(sp[Leader])
          => maxm <= get_cur(sp[maxm_pid])

ListInv == \E r \in [Thread -> Nat] : Ranked(r) /\ MaxInv(r)

LEMMA InitList == Init => ListInv
<1>. SUFFICES ASSUME Init PROVE ListInv
  OBVIOUS
<1>1. PICK S \in SUBSET Thread :
        /\ Leader \in S
        /\ state = [t \in Thread |-> IF t \in S THEN "live" ELSE "none"]
        /\ Linked(link, S)
  BY DEF Init
<1>2. InGroup = S /\ Seen = S
  BY <1>1 DEF InGroup, Seen
<1>3. IsFiniteSet(S) /\ Cardinality(S) \in Nat
  BY FS_Subset, FS_CardinalityType
<1>4. PICK place \in [S -> 1 .. Cardinality(S)] :
        /\ place[Leader] = 1
        /\ \A t, u \in S : place[t] = place[u] => t = u
        /\ \A t \in S : IF place[t] = Cardinality(S) THEN link[t] = NULL
                        ELSE link[t] \in S /\ place[link[t]] = place[t] + 1
        /\ \A t \in Thread \ S : link[t] = NULL
  BY <1>1 DEF Linked
<1>. DEFINE r == [t \in Thread |-> IF t \in S THEN place[t] ELSE 0]
<1>5. r \in [Thread -> Nat] /\ \A t \in S : r[t] = place[t] /\ r[t] \in 1 .. Cardinality(S)
  OBVIOUS
<1>. HIDE DEF r
<1>6. Ranked(r)
  <2>1. \A t \in S : link[t] # NULL => link[t] \in S /\ r[link[t]] = r[t] + 1
    BY <1>4, <1>5
  <2>2. \A t, u \in S : r[t] < r[u] => link[t] # NULL /\ r[link[t]] <= r[u]
    BY <1>3, <1>4, <1>5
  <2>3. Leader \in S /\ \A t \in S : r[Leader] <= r[t]
    BY <1>1, <1>4, <1>5
  <2>. QED
    BY <1>2, <1>4, <1>5, <2>1, <2>2, <2>3 DEF Ranked
<1>7. MaxInv(r)
  <2>1. pc = "getans" /\ Passed(r) = {}
    BY DEF Init, Passed
  <2>. QED
    BY <2>1 DEF MaxInv
<1>. QED
  BY <1>5, <1>6, <1>7 DEF ListInv

-----------------------------------------------------------------------------
(***************************************************************************)
(* The steps of the call.                                                  *)
(***************************************************************************)

\* What the leader uses, as it is computed before the loop.
LEMMA LeaderMaximum ==
  ASSUME mapped \subseteq Area, NEW s \in StackPtr, OnStartStack(s)
  PROVE  (StartStack - s) % Word <= get_cur(s)
<1>. DEFINE here == {b \in mapped : b[1] <= s /\ s < b[2]}
            ends == {a[2] : a \in here}
<1>1. PICK a \in mapped : a[1] <= s /\ StartStack < a[2] /\ s <= StartStack
  BY DEF OnStartStack
<1>2. s \in 0 .. Word - 1 /\ StartStack \in 0 .. Word - 1 /\ a[1] \in Nat /\ a[2] \in Nat
  BY <1>1
<1>3. \A b \in here : b[2] = a[2]
  <2>1. ASSUME NEW b \in here PROVE b = a
    <3>1. b \in Area /\ b[1] \in Nat /\ b[2] \in Nat /\ b[1] <= s /\ s < b[2]
      BY <2>1
    <3>. QED
      BY <1>1, <1>2, <3>1
  <2>. QED
    BY <2>1
<1>4. a \in here
  BY <1>1, <1>2
<1>5. ends = {a[2]}
  BY <1>3, <1>4
<1>6. get_cur(s) = a[2] - s
  BY <1>5 DEF get_cur
<1>7. (StartStack - s) % Word = StartStack - s
  <2>1. StartStack - s \in 0 .. Word - 1
    BY <1>1, <1>2
  <2>. QED
    BY <2>1
<1>. QED
  BY <1>1, <1>2, <1>6, <1>7

LEMMA AnswerKeepsRanks ==
  ASSUME getans, NEW r, Ranked(r)
  PROVE  Ranked(r)'
<1>1. UNCHANGED <<state, link, moved>>
  BY DEF getans, At, group, CountThreads, LockFiles, ScanFile, UnlockFiles, StartMaximum,
     Visit, NextThread, Oops
<1>. QED
  BY <1>1 DEF Ranked, InGroup, Seen

LEMMA AnswerList ==
  ASSUME GroupInv, GroupInv', getans, NEW r \in [Thread -> Nat], Ranked(r), MaxInv(r)
  PROVE  MaxInv(r)'
<1>. USE DEF GroupInv, TypeOK, CountInv
<1>0. /\ UNCHANGED <<state, link, sp, mapped, id, moved, remapped>>
      /\ InGroup' = InGroup /\ Seen' = Seen
      /\ \A s : get_cur(s)' = get_cur(s) /\ OnStartStack(s)' = OnStartStack(s)
  <2>1. UNCHANGED <<state, link, sp, mapped, id, moved, remapped>>
    BY DEF getans, At, group, CountThreads, LockFiles, ScanFile, UnlockFiles, StartMaximum,
       Visit, NextThread, Oops
  <2>2. InGroup' = InGroup /\ Seen' = Seen
    BY <2>1 DEF InGroup, Seen
  <2>3. \A s : get_cur(s)' = get_cur(s) /\ OnStartStack(s)' = OnStartStack(s)
    <3>1. mapped' = mapped
      BY <2>1
    <3>. QED
      BY ONLY <3>1 DEF get_cur, OnStartStack
  <2>. QED
    BY <2>1, <2>2, <2>3
<1>1. CASE CountThreads \/ LockFiles \/ ScanFile \/ UnlockFiles
  <2>1. id # MSU /\ pc' \notin {"visit", "next"}
    BY <1>1, <1>0 DEF CountThreads, LockFiles, ScanFile, UnlockFiles, At, NOT, NFO, MSU
  <2>. QED
    BY <1>0, <2>1 DEF MaxInv
<1>2. CASE StartMaximum
  <2>1. /\ maxm' = (StartStack - sp[Leader]) % Word /\ maxm_pid' = Leader
        /\ child' = Leader /\ pc' = "visit"
    BY <1>2 DEF StartMaximum
  <2>2. Passed(r)' = {}
    <3>1. \A u \in InGroup : r[u] \in Nat /\ r[Leader] \in Nat /\ r[Leader] <= r[u]
      BY DEF Ranked, InGroup
    <3>2. \A u \in InGroup : ~ (r[u] < r[Leader])
      BY <3>1
    <3>. QED
      BY <1>0, <2>1, <3>2 DEF Passed
  <2>3. Leader \in Seen
    BY DEF Ranked, InGroup, Seen
  <2>4. OnStartStack(sp[Leader]) => maxm' <= get_cur(sp[Leader])
    BY <2>1, LeaderMaximum
  <2>. QED
    BY <1>0, <2>1, <2>2, <2>3, <2>4 DEF MaxInv
<1>3. CASE Visit
  <2>1. /\ pc = "visit" /\ pc' = "next" /\ child' = child /\ child \in Thread
        /\ state[child] = "live" /\ child \in InGroup
    BY <1>3 DEF Visit, At, InGroup
  <2>2. maxm \in Nat /\ maxm' \in Nat /\ \A s \in StackPtr : get_cur(s) \in Nat
    BY CurFits
  <2>3. /\ maxm <= maxm' /\ get_cur(sp[child]) <= maxm'
        /\ \/ maxm' = maxm /\ maxm_pid' = maxm_pid
           \/ maxm' = get_cur(sp[child]) /\ maxm_pid' = child
    <3>1. get_cur(sp[child]) \in Nat
      BY <2>1, <2>2
    <3>2. IF get_cur(sp[child]) > maxm THEN maxm' = get_cur(sp[child]) /\ maxm_pid' = child
                                       ELSE UNCHANGED <<maxm, maxm_pid>>
      BY <1>3 DEF Visit
    <3>. HIDE DEF GroupInv
    <3>. DEFINE cur == get_cur(sp[child])
    <3>. HIDE DEF cur
    <3>3. cur \in Nat /\ IF cur > maxm THEN maxm' = cur /\ maxm_pid' = child
                                       ELSE UNCHANGED <<maxm, maxm_pid>>
      BY <3>1, <3>2 DEF cur
    <3>4. /\ maxm <= maxm' /\ cur <= maxm'
          /\ \/ maxm' = maxm /\ maxm_pid' = maxm_pid
             \/ maxm' = cur /\ maxm_pid' = child
      BY ONLY <3>3, <2>2
    <3>. QED
      BY <3>4 DEF cur
  <2>4. ASSUME NEW u \in Passed(r)' PROVE u = child \/ u \in Passed(r)
    <3>1. u \in InGroup \ moved /\ r[u] <= r[child] /\ r[u] \in Nat /\ r[child] \in Nat
      BY <1>0, <2>1 DEF Passed, InGroup
    <3>2. r[u] < r[child] \/ r[u] = r[child]
      BY <3>1
    <3>3. r[u] = r[child] => u = child
      BY <2>1, <3>1 DEF Ranked
    <3>4. r[u] < r[child] => u \in Passed(r)
      BY <2>1, <3>1 DEF Passed
    <3>. QED
      BY <3>2, <3>3, <3>4
  <2>5. id = MSU
    BY <2>1
  <2>6. ASSUME ~ remapped, NEW u \in Passed(r)' PROVE get_cur(sp[u]) <= maxm'
    <3>1. u \in Thread /\ sp[u] \in StackPtr
      BY DEF Passed, InGroup
    <3>2. u # child => get_cur(sp[u]) <= maxm
      BY <2>4, <2>5, <2>6 DEF MaxInv
    <3>3. get_cur(sp[u]) \in Nat
      BY <2>2, <3>1
    <3>4. CASE u = child
      BY <2>3, <3>4
    <3>5. CASE u # child
      <4>1. get_cur(sp[u]) <= maxm /\ maxm <= maxm'
        BY <2>3, <3>2, <3>5
      <4>. QED
        BY ONLY <2>2, <3>3, <4>1
    <3>. QED
      BY <3>4, <3>5
  <2>7. ASSUME ~ remapped, maxm_pid' \notin moved, maxm_pid' = Leader => OnStartStack(sp[Leader])
        PROVE  maxm' <= get_cur(sp[maxm_pid'])
    BY <2>1, <2>2, <2>3, <2>5, <2>7 DEF MaxInv
  <2>8. maxm_pid' \in Thread
    BY <2>1, <2>3, <2>5 DEF MaxInv
  <2>. QED
    BY <1>0, <2>1, <2>6, <2>7, <2>8 DEF MaxInv, Seen
<1>4. CASE NextThread
  <2>1. /\ pc = "next" /\ child \in Thread /\ child' = link[child] /\ UNCHANGED <<maxm, maxm_pid>>
        /\ pc' = (IF child' = NULL THEN "return" ELSE "visit") /\ id = MSU /\ child \in Seen
    BY <1>4 DEF NextThread, At, MaxInv
  <2>2. ASSUME NEW u \in Passed(r)' PROVE u \in Passed(r)
    <3>1. u \in InGroup \ moved /\ r[u] \in Nat /\ r[child] \in Nat
      BY <1>0, <2>1 DEF Passed, InGroup
    <3>2. r[child] < r[u] => link[child] # NULL /\ r[link[child]] <= r[u]
      BY <2>1, <3>1 DEF Ranked
    <3>3. child' # NULL => child' \in Thread /\ r[child'] \in Nat /\ r[u] < r[child']
      BY <2>1, <2>2 DEF Passed
    <3>4. r[u] <= r[child]
      BY <2>1, <3>1, <3>2, <3>3
    <3>. QED
      BY <2>1, <3>1, <3>4 DEF Passed
  <2>3. pc' = "visit" => child' \in Seen
    BY <2>1 DEF Ranked
  <2>. QED
    BY <1>0, <2>1, <2>2, <2>3 DEF MaxInv
<1>5. CASE Oops
  <2>1. pc' = "oops" /\ Passed(r)' = {}
    BY <1>5 DEF Oops, Passed
  <2>. QED
    BY <1>0, <2>1 DEF MaxInv
<1>. QED
  BY <1>1, <1>2, <1>3, <1>4, <1>5 DEF getans

-----------------------------------------------------------------------------
(***************************************************************************)
(* The steps of the other threads.                                         *)
(***************************************************************************)

\* A thread that comes takes its place behind the last one.
LEMMA CloneKeepsRanks ==
  ASSUME GroupInv, NEW r \in [Thread -> Nat], Ranked(r), NEW t \in Thread, Clone(t)
  PROVE  \E s \in [Thread -> Nat] :
           /\ Ranked(s)'
           /\ \A u \in Thread \ {t} : s[u] = r[u]
<1>. USE DEF GroupInv, TypeOK
<1>1. PICK last \in InGroup : link[last] = NULL /\ link' = [link EXCEPT ![last] = t]
  BY DEF Clone
<1>2. /\ state[t] = "none" /\ state' = [state EXCEPT ![t] = "live"] /\ moved' = moved \cup {t}
      /\ last \in Thread /\ last # t /\ t # NULL
  BY <1>1 DEF Clone, InGroup
<1>. DEFINE s == [r EXCEPT ![t] = r[last] + 1]
<1>3. /\ s \in [Thread -> Nat] /\ s[t] = r[last] + 1 /\ \A u \in Thread \ {t} : s[u] = r[u]
      /\ r[last] \in Nat /\ \A u \in Thread : r[u] \in Nat /\ s[u] \in Nat
  BY <1>2
<1>. HIDE DEF s
<1>4. InGroup' = InGroup \cup {t} /\ Seen' = Seen \cup {t} /\ t \notin Seen /\ t \notin InGroup
  BY <1>2 DEF InGroup, Seen
<1>5. InGroup \subseteq Seen /\ Seen \subseteq Thread
  BY DEF InGroup, Seen
<1>6. /\ link'[last] = t /\ \A u \in Thread \ {last} : link'[u] = link[u]
      /\ link[t] = NULL /\ \A u \in Thread : link[u] # t
  BY <1>1, <1>2, <1>4 DEF Ranked
<1>7. \A u \in InGroup : r[u] <= r[last]
  BY <1>1, <1>3, <1>5 DEF Ranked
<1>8. Leader \in InGroup' /\ \A u \in InGroup' : s[Leader] <= s[u]
  <2>1. Leader \in InGroup /\ s[Leader] = r[Leader] /\ \A u \in InGroup : r[Leader] <= r[u]
    BY <1>3, <1>4, <1>5 DEF Ranked
  <2>. QED
    BY <1>3, <1>4, <1>5, <1>7, <2>1
<1>9. \A u, v \in InGroup' : s[u] = s[v] => u = v
  <2>1. \A u, v \in InGroup : r[u] = r[v] => u = v
    BY DEF Ranked
  <2>. QED
    BY <1>3, <1>4, <1>5, <1>7, <2>1
<1>10. \A u \in Thread \ Seen' : link'[u] = NULL
  BY <1>1, <1>4, <1>5, <1>6 DEF Ranked
<1>11. \A u \in Seen' : link'[u] # NULL => link'[u] \in Seen' /\ s[u] < s[link'[u]]
  <2>. SUFFICES ASSUME NEW u \in Seen', link'[u] # NULL
                PROVE  link'[u] \in Seen' /\ s[u] < s[link'[u]]
    OBVIOUS
  <2>1. CASE u = last
    BY <1>2, <1>3, <1>4, <1>6, <2>1
  <2>2. CASE u # last
    <3>1. u # t /\ u \in Seen /\ link'[u] = link[u]
      BY <1>4, <1>5, <1>6, <2>2
    <3>2. link[u] \in Seen /\ r[u] < r[link[u]] /\ link[u] # t
      BY <1>4, <3>1 DEF Ranked
    <3>. QED
      BY <1>3, <1>4, <1>5, <3>1, <3>2
  <2>. QED
    BY <2>1, <2>2
<1>12. \A u \in InGroup' : link'[u] # NULL => link'[u] \in InGroup'
  BY <1>1, <1>4, <1>5, <1>6 DEF Ranked
<1>13. \A u \in Seen', v \in InGroup' :
         s[u] < s[v] /\ (u \in InGroup' \/ v \notin moved') =>
           link'[u] # NULL /\ s[link'[u]] <= s[v]
  <2>. SUFFICES ASSUME NEW u \in Seen', NEW v \in InGroup', s[u] < s[v],
                       u \in InGroup' \/ v \notin moved'
                PROVE  link'[u] # NULL /\ s[link'[u]] <= s[v]
    OBVIOUS
  <2>1. CASE u = last
    <3>1. v = t
      BY <1>2, <1>3, <1>4, <1>5, <1>7, <2>1
    <3>. QED
      BY <1>2, <1>3, <1>6, <2>1, <3>1
  <2>2. CASE u # last /\ v = t
    <3>1. u \in InGroup /\ u # t
      BY <1>2, <1>3, <1>4, <2>2
    <3>2. r[u] < r[last] /\ link'[u] = link[u]
      BY <1>3, <1>5, <1>6, <1>7, <2>2, <3>1 DEF Ranked
    <3>3. link[u] # NULL /\ r[link[u]] <= r[last] /\ link[u] \in InGroup
      BY <1>1, <1>5, <3>1, <3>2 DEF Ranked
    <3>. QED
      BY <1>3, <1>4, <1>5, <2>2, <3>2, <3>3
  <2>3. CASE u # last /\ v # t
    <3>0. v \in InGroup /\ v # t
      BY <1>4, <2>3
    <3>1. u # t
      BY <1>3, <1>5, <1>7, <3>0
    <3>2. /\ u \in Seen /\ link'[u] = link[u] /\ r[u] < r[v]
          /\ u \in InGroup \/ v \notin moved
      BY <1>2, <1>3, <1>4, <1>5, <1>6, <2>3, <3>0, <3>1
    <3>3. link[u] # NULL /\ r[link[u]] <= r[v] /\ link[u] \in Seen
      BY <3>0, <3>2 DEF Ranked
    <3>. QED
      BY <1>3, <1>4, <1>5, <3>0, <3>2, <3>3
  <2>. QED
    BY <2>1, <2>2, <2>3
<1>14. Ranked(s)'
  BY <1>8, <1>9, <1>10, <1>11, <1>12, <1>13 DEF Ranked
<1>. QED
  BY <1>3, <1>14

\* A thread that leaves keeps its rank.
LEMMA UnlinkKeepsRanks ==
  ASSUME GroupInv, NEW r \in [Thread -> Nat], Ranked(r), NEW t \in Thread, Unlink(t)
  PROVE  Ranked(r)'
<1>. USE DEF GroupInv, TypeOK
<1>1. PICK before \in InGroup : link[before] = t /\ link' = [link EXCEPT ![before] = link[t]]
  BY DEF Unlink
<1>2. /\ state[t] = "exiting" /\ state' = [state EXCEPT ![t] = "gone"] /\ moved' = moved
      /\ before \in Thread /\ t # Leader /\ t # NULL
  BY <1>1 DEF Unlink, InGroup
<1>3. InGroup' = InGroup \ {t} /\ Seen' = Seen /\ t \in InGroup
  BY <1>2 DEF InGroup, Seen
<1>4. InGroup \subseteq Seen /\ Seen \subseteq Thread /\ \A u \in Thread : r[u] \in Nat
  BY DEF InGroup, Seen
<1>5. r[before] < r[t] /\ before # t /\ (link[t] # NULL => link[t] \in InGroup /\ r[t] < r[link[t]])
  BY <1>1, <1>2, <1>3, <1>4 DEF Ranked
<1>6. /\ link'[before] = link[t] /\ \A u \in Thread \ {before} : link'[u] = link[u]
  BY <1>1, <1>2
<1>7. \A w \in InGroup : link[w] = t => w = before
  <2>. SUFFICES ASSUME NEW w \in InGroup, link[w] = t, w # before PROVE FALSE
    OBVIOUS
  <2>1. r[w] # r[before] /\ r[w] < r[t]
    BY <1>1, <1>2, <1>4 DEF Ranked
  <2>2. r[w] < r[before] => r[t] <= r[before]
    BY <1>1, <1>4 DEF Ranked
  <2>3. r[before] < r[w] => r[t] <= r[w]
    BY <1>1, <1>4 DEF Ranked
  <2>. QED
    BY <1>4, <1>5, <2>1, <2>2, <2>3
<1>8. Leader \in InGroup' /\ \A u \in InGroup' : r[Leader] <= r[u]
  BY <1>2, <1>3 DEF Ranked
<1>9. \A u, v \in InGroup' : r[u] = r[v] => u = v
  BY <1>3 DEF Ranked
<1>10. \A u \in Thread \ Seen' : link'[u] = NULL
  BY <1>1, <1>3, <1>4, <1>6 DEF Ranked
<1>11. \A u \in Seen' : link'[u] # NULL => link'[u] \in Seen' /\ r[u] < r[link'[u]]
  <2>. SUFFICES ASSUME NEW u \in Seen', link'[u] # NULL
                PROVE  link'[u] \in Seen' /\ r[u] < r[link'[u]]
    OBVIOUS
  <2>1. CASE u = before
    BY <1>3, <1>4, <1>5, <1>6, <2>1
  <2>2. CASE u # before
    BY <1>3, <1>4, <1>6, <2>2 DEF Ranked
  <2>. QED
    BY <2>1, <2>2
<1>12. \A u \in InGroup' : link'[u] # NULL => link'[u] \in InGroup'
  <2>. SUFFICES ASSUME NEW u \in InGroup', link'[u] # NULL PROVE link'[u] \in InGroup'
    OBVIOUS
  <2>1. CASE u = before
    BY <1>3, <1>4, <1>5, <1>6, <2>1
  <2>2. CASE u # before
    BY <1>3, <1>4, <1>6, <1>7, <2>2 DEF Ranked
  <2>. QED
    BY <2>1, <2>2
<1>13. \A u \in Seen', v \in InGroup' :
         r[u] < r[v] /\ (u \in InGroup' \/ v \notin moved') =>
           link'[u] # NULL /\ r[link'[u]] <= r[v]
  <2>. SUFFICES ASSUME NEW u \in Seen', NEW v \in InGroup', r[u] < r[v],
                       u \in InGroup' \/ v \notin moved'
                PROVE  link'[u] # NULL /\ r[link'[u]] <= r[v]
    OBVIOUS
  <2>1. v \in InGroup /\ v # t /\ u \in Seen /\ (u \in InGroup \/ v \notin moved)
    BY <1>2, <1>3
  <2>2. link[u] # NULL /\ r[link[u]] <= r[v]
    BY <2>1 DEF Ranked
  <2>3. CASE u = before
    <3>1. r[t] <= r[v] /\ r[t] # r[v]
      BY <1>1, <1>3, <2>1, <2>2, <2>3 DEF Ranked
    <3>2. link[t] # NULL /\ r[link[t]] <= r[v]
      BY <1>3, <1>4, <2>1, <3>1 DEF Ranked
    <3>. QED
      BY <1>6, <2>3, <3>2
  <2>4. CASE u # before
    BY <1>4, <1>6, <2>1, <2>2, <2>4
  <2>. QED
    BY <2>3, <2>4
<1>. QED
  BY <1>8, <1>9, <1>10, <1>11, <1>12, <1>13 DEF Ranked

\* Steps that leave the list alone.
LEMMA SameRanks ==
  ASSUME NEW r, Ranked(r), UNCHANGED link, InGroup' = InGroup, Seen' = Seen,
         moved \subseteq moved'
  PROVE  Ranked(r)'
BY DEF Ranked

\* Whatever the others do to threads that count as moved afterwards.
LEMMA OthersKeepMaximum ==
  ASSUME GroupInv, NEW r \in [Thread -> Nat], NEW s \in [Thread -> Nat], MaxInv(r),
         UNCHANGED <<pc, child, maxm, maxm_pid, id>>, moved \subseteq moved',
         remapped' \/ UNCHANGED <<mapped, remapped>>,
         \A u \in Thread \ moved' : sp'[u] = sp[u] /\ (u \in InGroup' => u \in InGroup),
         Seen \subseteq Seen', \A u \in Seen : s[u] = r[u],
         Leader \notin moved' => Leader \in Thread
  PROVE  MaxInv(s)'
<1>. USE DEF GroupInv, TypeOK
<1>1. child \in Seen => child \in Seen'
  OBVIOUS
<1>2. ASSUME ~ remapped' PROVE \A x : get_cur(x)' = get_cur(x) /\ OnStartStack(x)' = OnStartStack(x)
  <2>1. mapped' = mapped
    BY <1>2
  <2>. QED
    BY ONLY <2>1 DEF get_cur, OnStartStack
<1>3. ASSUME NEW u \in Passed(s)' PROVE u \in Passed(r) /\ sp'[u] = sp[u]
  <2>1. u \in InGroup /\ u \notin moved /\ u \in Seen /\ u \in Thread /\ sp'[u] = sp[u]
    BY <1>3 DEF Passed, InGroup, Seen
  <2>2. pc \in {"visit", "next"} => child \in Seen /\ s[child] = r[child] /\ s[u] = r[u]
    BY <2>1 DEF MaxInv
  <2>. QED
    BY <1>3, <2>1, <2>2 DEF Passed
<1>4. ASSUME id = MSU, ~ remapped', pc \in {"visit", "next", "return"}, maxm_pid \notin moved',
             maxm_pid = Leader => OnStartStack(sp[Leader])'
      PROVE  maxm <= get_cur(sp[maxm_pid])'
  <2>1. maxm_pid \in Thread /\ sp'[maxm_pid] = sp[maxm_pid] /\ ~ remapped /\ maxm_pid \notin moved
    BY <1>4 DEF MaxInv
  <2>2. maxm_pid = Leader => OnStartStack(sp[Leader])
    BY <1>2, <1>4, <2>1
  <2>. QED
    BY <1>2, <1>4, <2>1, <2>2 DEF MaxInv
<1>5. ASSUME id = MSU, ~ remapped', NEW u \in Passed(s)' PROVE get_cur(sp[u])' <= maxm
  <2>1. ~ remapped /\ u \in Passed(r) /\ sp'[u] = sp[u]
    BY <1>3, <1>5
  <2>. QED
    BY <1>2, <1>5, <2>1 DEF MaxInv
<1>. QED
  BY <1>1, <1>4, <1>5 DEF MaxInv

LEMMA OtherList ==
  ASSUME GroupInv, NEW r \in [Thread -> Nat], Ranked(r), MaxInv(r),
         \/ \E t \in Thread : Clone(t) \/ Exit(t) \/ Unlink(t) \/ MoveStack(t)
         \/ \E a \in Area : MapArea(a)
         \/ \E f \in Fd : UseFd(f)
  PROVE  ListInv'
<1>. USE DEF Busy, locals, group
<1>0. GroupInv => /\ state \in [Thread -> {"none", "live", "exiting", "gone"}]
                  /\ sp \in [Thread -> StackPtr]
  BY DEF GroupInv, TypeOK
<1>1. ASSUME NEW t \in Thread, Clone(t) PROVE ListInv'
  <2>1. PICK s \in [Thread -> Nat] : Ranked(s)' /\ \A u \in Thread \ {t} : s[u] = r[u]
    BY <1>1, CloneKeepsRanks
  <2>2. /\ state[t] = "none" /\ state' = [state EXCEPT ![t] = "live"] /\ moved' = moved \cup {t}
        /\ UNCHANGED <<sp, mapped, remapped, id, pc, child, maxm, maxm_pid>>
    BY <1>1 DEF Clone
  <2>3. /\ \A u \in Thread \ moved' : u \in InGroup' => u \in InGroup
        /\ Seen \subseteq Seen' /\ \A u \in Seen : s[u] = r[u]
    BY <1>0, <2>1, <2>2 DEF InGroup, Seen
  <2>4. MaxInv(s)'
    BY <2>2, <2>3, OthersKeepMaximum
  <2>. QED
    BY <2>1, <2>4 DEF ListInv
<1>2. ASSUME NEW t \in Thread, Exit(t) PROVE ListInv'
  <2>1. /\ state[t] = "live" /\ state' = [state EXCEPT ![t] = "exiting"] /\ moved' = moved \cup {t}
        /\ UNCHANGED <<link, sp, mapped, remapped, id, pc, child, maxm, maxm_pid>>
    BY <1>2 DEF Exit, Others
  <2>2. InGroup' = InGroup /\ Seen' = Seen
    BY <1>0, <2>1 DEF InGroup, Seen
  <2>3. Ranked(r)'
    BY <2>1, <2>2, SameRanks
  <2>4. MaxInv(r)'
    BY <2>1, <2>2, OthersKeepMaximum
  <2>. QED
    BY <2>3, <2>4 DEF ListInv
<1>3. ASSUME NEW t \in Thread, Unlink(t) PROVE ListInv'
  <2>1. /\ state[t] = "exiting" /\ state' = [state EXCEPT ![t] = "gone"]
        /\ UNCHANGED <<sp, mapped, moved, remapped, id, pc, child, maxm, maxm_pid>>
    BY <1>3 DEF Unlink
  <2>2. InGroup' \subseteq InGroup /\ Seen' = Seen
    BY <1>0, <2>1 DEF InGroup, Seen
  <2>3. Ranked(r)'
    BY <1>3, UnlinkKeepsRanks
  <2>4. MaxInv(r)'
    BY <2>1, <2>2, OthersKeepMaximum
  <2>. QED
    BY <2>3, <2>4 DEF ListInv
<1>4. ASSUME NEW t \in Thread, MoveStack(t) PROVE ListInv'
  <2>1. /\ moved' = moved \cup {t} /\ \A u \in Thread \ {t} : sp'[u] = sp[u]
        /\ UNCHANGED <<state, link, mapped, remapped, id, pc, child, maxm, maxm_pid>>
    BY <1>0, <1>4 DEF MoveStack
  <2>2. InGroup' = InGroup /\ Seen' = Seen
    BY <2>1 DEF InGroup, Seen
  <2>3. Ranked(r)'
    BY <2>1, <2>2, SameRanks
  <2>4. MaxInv(r)'
    BY <2>1, <2>2, OthersKeepMaximum
  <2>. QED
    BY <2>3, <2>4 DEF ListInv
<1>5. ASSUME NEW a \in Area, MapArea(a) PROVE ListInv'
  <2>1. remapped' /\ UNCHANGED <<state, link, sp, moved, id, pc, child, maxm, maxm_pid>>
    BY <1>5 DEF MapArea
  <2>2. InGroup' = InGroup /\ Seen' = Seen
    BY <2>1 DEF InGroup, Seen
  <2>3. Ranked(r)'
    BY <2>1, <2>2, SameRanks
  <2>4. MaxInv(r)'
    BY <2>1, <2>2, OthersKeepMaximum
  <2>. QED
    BY <2>3, <2>4 DEF ListInv
<1>6. ASSUME NEW f \in Fd, UseFd(f) PROVE ListInv'
  <2>1. UNCHANGED <<state, link, sp, mapped, moved, remapped, id, pc, child, maxm, maxm_pid>>
    BY <1>6 DEF UseFd
  <2>2. InGroup' = InGroup /\ Seen' = Seen
    BY <2>1 DEF InGroup, Seen
  <2>3. Ranked(r)'
    BY <2>1, <2>2, SameRanks
  <2>4. MaxInv(r)'
    BY <2>1, <2>2, OthersKeepMaximum
  <2>. QED
    BY <2>3, <2>4 DEF ListInv
<1>. QED
  BY <1>1, <1>2, <1>3, <1>4, <1>5, <1>6

LEMMA NextList == GroupInv /\ GroupInv' /\ ListInv /\ [Next]_vars => ListInv'
<1>. SUFFICES ASSUME GroupInv, GroupInv', ListInv, [Next]_vars PROVE ListInv'
  OBVIOUS
<1>1. PICK r \in [Thread -> Nat] : Ranked(r) /\ MaxInv(r)
  BY DEF ListInv
<1>2. CASE UNCHANGED vars
  <2>1. UNCHANGED <<state, link, sp, mapped, moved, remapped, id, pc, child, maxm, maxm_pid>>
    BY <1>2 DEF vars, group, locals
  <2>2. InGroup' = InGroup /\ Seen' = Seen
    BY <2>1 DEF InGroup, Seen
  <2>3. Ranked(r)'
    BY <1>1, <2>1, <2>2, SameRanks
  <2>4. MaxInv(r)'
    BY <1>1, <2>1, <2>2, OthersKeepMaximum
  <2>. QED
    BY <2>3, <2>4 DEF ListInv
<1>3. CASE getans
  BY <1>1, <1>3, AnswerKeepsRanks, AnswerList DEF ListInv
<1>. QED
  BY <1>1, <1>2, <1>3, OtherList DEF Next

\* MSU names the thread with most of its stack in use, as far as the threads
\* stayed as they were, whichever others start, exit and move during the call.
THEOREM GroupNamesLargest == Spec => []NamesLargest
<1>1. GroupInv /\ ListInv => NamesLargest
  <2>. SUFFICES ASSUME GroupInv, ListInv, pc = "return", id = MSU, ~ remapped,
                       maxm_pid \notin moved, maxm_pid = Leader => OnStartStack(sp[Leader]),
                       NEW u \in InGroup \ moved
                PROVE  get_cur(sp[u]) <= get_cur(sp[maxm_pid])
    BY DEF NamesLargest
  <2>1. PICK r \in [Thread -> Nat] : MaxInv(r)
    BY DEF ListInv
  <2>2. u \in Passed(r) /\ u \in Thread /\ maxm_pid \in Thread
    BY <2>1 DEF Passed, MaxInv, InGroup
  <2>3. get_cur(sp[u]) <= maxm /\ maxm <= get_cur(sp[maxm_pid])
    BY <2>1, <2>2 DEF MaxInv
  <2>4. get_cur(sp[u]) \in Nat /\ get_cur(sp[maxm_pid]) \in Nat /\ maxm \in Nat
    <3>1. /\ mapped \subseteq Area /\ maxm \in Nat
          /\ sp[u] \in StackPtr /\ sp[maxm_pid] \in StackPtr
      BY <2>2 DEF GroupInv, TypeOK
    <3>2. get_cur(sp[u]) \in 0 .. Word - 1 /\ get_cur(sp[maxm_pid]) \in 0 .. Word - 1
      BY <3>1, CurFits
    <3>. QED
      BY <3>1, <3>2
  <2>. QED
    BY ONLY <2>3, <2>4
<1>. QED
  BY <1>1, InitGroup, NextGroup, InitList, NextList, PTL DEF Spec
=============================================================================
