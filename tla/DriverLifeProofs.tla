-------------------------- MODULE DriverLifeProofs --------------------------
(***************************************************************************)
(* Theorems about DriverLife, for every set of tasks and every number of   *)
(* loads and kernel threads.                                               *)
(***************************************************************************)
EXTENDS DriverLife, FiniteSetTheorems, TLAPS

USE LifeAssumption

-----------------------------------------------------------------------------
(***************************************************************************)
(* The steps of init_module and cleanup_module.                            *)
(***************************************************************************)
Names == Resource \cup {"thread", "wait", "drain"}

LEMMA StepsAreResources ==
  ASSUME NEW p \in DOMAIN Steps
  PROVE  Steps[p] \in Seq(Resource)
<1>1. InitP1 \in Seq(Resource)
  BY DEF InitP1, Resource
<1>2. InitP2 \in Seq(Resource)
  BY DEF InitP2, Resource
<1>3. InitP3 \in Seq(Resource)
  BY DEF InitP3, Resource
<1>4. InitBt \in Seq(Resource)
  BY DEF InitBt, Resource
<1>. QED
  BY <1>1, <1>2, <1>3, <1>4 DEF Steps

LEMMA CleanupAreNames ==
  ASSUME NEW p \in DOMAIN Steps
  PROVE  Cleanup[p] \in Seq(Names)
<1>1. CleanupP1 \in Seq(Names)
  BY DEF CleanupP1, Resource, Names
<1>2. CleanupP2 \in Seq(Names)
  BY DEF CleanupP2, Resource, Names
<1>3. CleanupP3 \in Seq(Names)
  BY DEF CleanupP3, Resource, Names
<1>4. CleanupBt \in Seq(Names)
  BY DEF CleanupBt, Resource, Names
<1>. QED
  BY <1>1, <1>2, <1>3, <1>4 DEF Cleanup, Steps

LEMMA OnErrorAreNames ==
  ASSUME NEW p, NEW step
  PROVE  OnError(p, step) \in Seq(Names)
<1>1. /\ <<"chrdev">> \in Seq(Names) /\ <<>> \in Seq(Names)
  BY DEF Resource, Names
<1>2. <<"class", "chrdev">> \in Seq(Names)
  BY DEF Resource, Names
<1>3. <<"kobject", "class", "chrdev">> \in Seq(Names)
  BY DEF Resource, Names
<1>. QED
  BY <1>1, <1>2, <1>3 DEF OnError

\* cleanup_module of A2 begins with the thread.
LEMMA ThreadFirst ==
  /\ Cleanup["A2"] # <<>> /\ Head(Cleanup["A2"]) = "thread"
<1>1. CleanupBt # <<>> /\ Head(CleanupBt) = "thread"
  BY DEF CleanupBt
<1>. QED
  BY <1>1 DEF Cleanup

-----------------------------------------------------------------------------
(***************************************************************************)
(* The types.  LifeTypes has no bound on the reference count, which takes  *)
(* the counting below, and knows what init_module has still to do.         *)
(***************************************************************************)
LifeTypes ==
  /\ part \in DOMAIN Steps
  /\ module \in {"absent", "coming", "live", "failing", "refused", "going", "unloaded"}
  /\ loads \in 0 .. MaxLoad
  /\ todo \in Seq(Names)
  /\ module = "coming" => todo \in Seq(Resource)
  /\ has \subseteq Resource /\ freed \subseteq Resource
  /\ refs \in Nat
  /\ file \in [Task -> {"closed", "opening"} \cup Open]
  /\ call \in [Task -> {"none", "store", "release", "check", "wake"}]
  /\ kthread_task \in Thread \cup {NULL, ERR_PTR}
  /\ thread \in [Thread -> {"none", "created", "running", "asked", "ended"}]
  /\ maker \in [Thread -> {"closed"} \cup Open]

LEMMA InitTypes == Init => LifeTypes
BY DEF Init, LifeTypes, Steps

LEMMA TailOfNames ==
  ASSUME NEW S, NEW q \in Seq(S), q # <<>>
  PROVE  Head(q) \in S /\ Tail(q) \in Seq(S)
OBVIOUS

LEMMA NextTypes == LifeTypes /\ [Next]_vars => LifeTypes'
<1>. SUFFICES ASSUME LifeTypes, [Next]_vars PROVE LifeTypes'
  OBVIOUS
<1>. USE DEF LifeTypes, kernel, threads
<1>1. CASE UNCHANGED vars
  BY <1>1 DEF vars
<1>2. CASE Load
  BY <1>2, StepsAreResources DEF Load, NULL, Names
<1>3. CASE Succeed
  BY <1>3, TailOfNames DEF Succeed
<1>4. CASE Fail
  BY <1>4, OnErrorAreNames DEF Fail
<1>5. CASE NoBuffer
  BY <1>5, TailOfNames DEF NoBuffer
<1>6. CASE Loaded
  BY <1>6 DEF Loaded
<1>7. CASE Unload
  BY <1>7, CleanupAreNames DEF Unload
<1>8. ASSUME NEW step \in Resource, Destroy(step) PROVE LifeTypes'
  <2>1. /\ module \in {"failing", "going"} /\ todo # <<>>
        /\ UNCHANGED <<part, module, loads, refs, file, call, threads, bad>>
    BY <1>8 DEF Destroy, Undoing
  <2>2. has' \subseteq Resource /\ freed' \subseteq Resource
    BY <1>8 DEF Destroy
  <2>3. Tail(todo) \in Seq(Names)
    BY <2>1, TailOfNames
  <2>4. \A q \in Seq(Names) : <<"drain">> \o q \in Seq(Names) /\ <<>> \o q \in Seq(Names)
    BY DEF Names
  <2>5. todo' \in Seq(Names)
    BY <1>8, <2>3, <2>4 DEF Destroy
  <2>. QED
    BY <2>1, <2>2, <2>5
<1>9. CASE Drain
  BY <1>9, TailOfNames DEF Drain, Undoing
<1>10. CASE NoThread
  BY <1>10, TailOfNames DEF NoThread, Undoing
<1>11. CASE StopThread
  <2>1. Tail(todo) \in Seq(Names)
    BY <1>11, TailOfNames DEF StopThread, Undoing
  <2>2. <<"wait">> \o Tail(todo) \in Seq(Names)
    BY <2>1 DEF Names
  <2>. QED
    BY <1>11, <2>2 DEF StopThread, Undoing
<1>12. CASE ThreadStopped
  BY <1>12, TailOfNames DEF ThreadStopped, Undoing
<1>13. CASE StopErrPtr
  BY <1>13 DEF StopErrPtr
<1>14. CASE Gone
  BY <1>14 DEF Gone
<1>15. ASSUME NEW t \in Task, Use(t) PROVE LifeTypes'
  <2>1. CASE OpenDevice(t)
    BY <2>1 DEF OpenDevice
  <2>2. CASE demo_open(t)
    BY <2>2 DEF demo_open, Open
  <2>3. CASE demo_release(t)
    BY <2>3 DEF demo_release
  <2>4. CASE Stale(t)
    BY <2>4 DEF Stale
  <2>5. CASE Read(t)
    BY <2>5 DEF Read
  <2>6. CASE StartStore(t)
    BY <2>6 DEF StartStore
  <2>7. CASE kthread_create(t)
    BY <2>7 DEF kthread_create, Within
  <2>8. CASE kthread_createFails(t)
    BY <2>8 DEF kthread_createFails, Within
  <2>. QED
    BY <1>15, <2>1, <2>2, <2>3, <2>4, <2>5, <2>6, <2>7, <2>8 DEF Use
<1>16. ASSUME NEW t \in Task, Finish(t) PROVE LifeTypes'
  <2>1. CASE Store(t)
    <3>1. "hash" \in Resource
      BY DEF Resource
    <3>. QED
      BY <2>1, <3>1 DEF Store
  <2>2. CASE StoreFreed(t)
    BY <2>2 DEF StoreFreed
  <2>3. CASE CheckThread(t)
    BY <2>3 DEF CheckThread, Within
  <2>4. CASE WakeThread(t)
    BY <2>4 DEF WakeThread, Within
  <2>5. CASE WakeErrPtr(t)
    BY <2>5 DEF WakeErrPtr, Within
  <2>6. CASE ReleaseReturn(t)
    BY <2>6 DEF ReleaseReturn
  <2>. QED
    BY <1>16, <2>1, <2>2, <2>3, <2>4, <2>5, <2>6 DEF Finish
<1>17. ASSUME NEW i \in Thread, promote_pages(i) PROVE LifeTypes'
  BY <1>17 DEF promote_pages
<1>. QED
  BY <1>1, <1>2, <1>3, <1>4, <1>5, <1>6, <1>7, <1>8, <1>9, <1>10, <1>11, <1>12,
     <1>13, <1>14, <1>15, <1>16, <1>17 DEF Next, Insmod, Rmmod

THEOREM LifeTypesHold == Spec => []LifeTypes
BY InitTypes, NextTypes, PTL DEF Spec

-----------------------------------------------------------------------------
(***************************************************************************)
(* The reference count is the number of files whose demo_open took a       *)
(* reference, so that the module is live as long as a file is that was     *)
(* opened while it was live.                                               *)
(***************************************************************************)
Holders == {t \in Task : file[t] \in {"early", "live"}}

LiveInv ==
  /\ Text => refs = Cardinality(Holders)
  /\ module = "going" => Holders = {}
  /\ module \in {"coming", "live", "failing"} => \A t \in Task : file[t] # "none"
  /\ module \in {"coming", "live"} => freed = {}
  /\ LiveFilesSafe

LEMMA HoldersFinite == IsFiniteSet(Holders) /\ Cardinality(Holders) \in Nat
BY FS_Subset, FS_CardinalityType DEF Holders

LEMMA InitLive == Init => LiveInv
BY DEF Init, LiveInv, LiveFilesSafe, Text

\* Steps that leave the files, the count and the state of the module alone.
LEMMA QuietSteps ==
  ASSUME LiveInv, UNCHANGED <<module, refs, file>>, UNCHANGED freed \/ module \in {"failing", "going"},
         \A e \in bad' : e \in bad \/ e.how # "live" \/ e.what \notin {"text", "freed"}
  PROVE  LiveInv'
<1>1. Holders' = Holders
  BY DEF Holders
<1>. QED
  BY <1>1 DEF LiveInv, LiveFilesSafe, Text

LEMMA OpenCounts ==
  ASSUME LifeTypes, LiveInv, NEW t \in Task, demo_open(t)
  PROVE  LiveInv'
<1>. USE DEF demo_open, LifeTypes, kernel
<1>1. CASE module = "going"
  <2>1. file' = [file EXCEPT ![t] = "none"] /\ refs' = refs
    BY <1>1
  <2>2. Holders' = Holders
    BY <2>1 DEF Holders
  <2>. QED
    BY <1>1, <2>1, <2>2 DEF LiveInv, LiveFilesSafe, Text
<1>2. CASE module # "going"
  <2>1. /\ refs' = refs + 1
        /\ file' = [file EXCEPT ![t] = IF module = "live" THEN "live" ELSE "early"]
    BY <1>2
  <2>2. Holders' = Holders \cup {t} /\ t \notin Holders
    BY <2>1 DEF Holders
  <2>3. Cardinality(Holders') = Cardinality(Holders) + 1
    BY <2>2, HoldersFinite, FS_AddElement
  <2>. QED
    BY <1>2, <2>1, <2>3 DEF LiveInv, LiveFilesSafe, Text
<1>. QED
  BY <1>1, <1>2

LEMMA ReleaseCounts ==
  ASSUME LifeTypes, LiveInv, NEW t \in Task, demo_release(t)
  PROVE  LiveInv'
<1>. USE DEF demo_release, LifeTypes, kernel
<1>1. file' = [file EXCEPT ![t] = "closed"] /\ Text /\ refs = Cardinality(Holders)
  BY DEF LiveInv
<1>2. Holders' = Holders \ {t}
  BY <1>1 DEF Holders
<1>3. CASE t \in Holders
  <2>1. Cardinality(Holders') = refs - 1
    BY <1>1, <1>2, <1>3, HoldersFinite, FS_RemoveElement
  <2>2. refs # 0
    BY <1>1, <1>3, HoldersFinite, FS_EmptySet
  <2>. QED
    BY <1>1, <1>2, <2>1, <2>2 DEF LiveInv, LiveFilesSafe, Text
<1>4. CASE t \notin Holders
  <2>1. file[t] = "none"
    BY <1>4 DEF Holders, Open
  <2>2. module = "going" /\ Holders = {}
    BY <1>1, <2>1 DEF LiveInv, Text
  <2>3. refs = 0 /\ Holders' = {} /\ refs' = 0
    BY <1>1, <1>2, <2>2, FS_EmptySet
  <2>4. Cardinality(Holders') = 0
    BY <2>3, FS_EmptySet
  <2>. QED
    BY <1>1, <2>2, <2>3, <2>4 DEF LiveInv, LiveFilesSafe, Text
<1>. QED
  BY <1>3, <1>4

LEMMA NextLive == LifeTypes /\ LiveInv /\ [Next]_vars => LiveInv'
<1>. SUFFICES ASSUME LifeTypes, LiveInv, [Next]_vars PROVE LiveInv'
  OBVIOUS
<1>. USE DEF kernel, threads
<1>1. CASE UNCHANGED vars
  BY <1>1, QuietSteps DEF vars
<1>2. CASE Load
  <2>1. Holders' = {}
    BY <1>2 DEF Load, Holders
  <2>2. Cardinality({}) = 0
    BY FS_EmptySet
  <2>. QED
    BY <1>2, <2>1, <2>2 DEF Load, LiveInv, LiveFilesSafe, Text
<1>3. CASE Succeed
  BY <1>3, QuietSteps DEF Succeed
<1>4. CASE Fail
  <2>1. Holders' = Holders
    BY <1>4 DEF Fail, Holders
  <2>. QED
    BY <1>4, <2>1 DEF Fail, LiveInv, LiveFilesSafe, Text
<1>5. CASE NoBuffer
  BY <1>5, QuietSteps DEF NoBuffer
<1>6. CASE Loaded
  <2>1. Holders' = Holders
    BY <1>6 DEF Loaded, Holders
  <2>. QED
    BY <1>6, <2>1 DEF Loaded, LiveInv, LiveFilesSafe, Text
<1>7. CASE Unload
  <2>1. Holders' = Holders
    BY <1>7 DEF Unload, Holders
  <2>2. Holders = {}
    BY <1>7, HoldersFinite, FS_EmptySet DEF Unload, LiveInv, Text
  <2>3. \A t \in Task : file[t] # "live"
    BY <2>2 DEF Holders
  <2>. QED
    BY <1>7, <2>1, <2>2, <2>3 DEF Unload, LiveInv, LiveFilesSafe, Text
<1>8. ASSUME NEW step \in Resource, Destroy(step) PROVE LiveInv'
  BY <1>8, QuietSteps DEF Destroy, Undoing
<1>9. CASE Drain
  BY <1>9, QuietSteps DEF Drain
<1>10. CASE NoThread
  BY <1>10, QuietSteps DEF NoThread
<1>11. CASE StopThread
  BY <1>11, QuietSteps DEF StopThread
<1>12. CASE ThreadStopped
  BY <1>12, QuietSteps DEF ThreadStopped
<1>13. CASE StopErrPtr
  BY <1>13, QuietSteps DEF StopErrPtr, Touch
<1>14. CASE Gone
  <2>1. Holders' = Holders
    BY <1>14 DEF Gone, Holders
  <2>. QED
    BY <1>14, <2>1 DEF Gone, LiveInv, LiveFilesSafe, Text
<1>15. ASSUME NEW t \in Task, Use(t) PROVE LiveInv'
  <2>1. CASE OpenDevice(t)
    <3>1. Holders' = Holders
      BY <2>1 DEF OpenDevice, Holders, LifeTypes
    <3>. QED
      BY <2>1, <3>1 DEF OpenDevice, LiveInv, LiveFilesSafe, Text, LifeTypes
  <2>2. CASE demo_open(t)
    BY <2>2, OpenCounts
  <2>3. CASE demo_release(t)
    BY <2>3, ReleaseCounts
  <2>4. CASE Stale(t)
    <3>1. file[t] # "live"
      BY <2>4 DEF Stale, LiveInv, LiveFilesSafe, Text
    <3>2. \A e \in bad' : e \in bad \/ e.how # "live"
      BY <2>4, <3>1 DEF Stale, Touch
    <3>. QED
      BY <2>4, <3>2 DEF Stale, LiveInv, LiveFilesSafe, Text, LifeTypes
  <2>5. CASE Read(t)
    <3>1. file[t] = "live" => freed = {}
      BY DEF LiveInv, LiveFilesSafe
    <3>2. \A e \in bad' : e \in bad \/ e.how # "live" \/ e.what \notin {"text", "freed"}
      BY <2>5, <3>1 DEF Read, Touch
    <3>. QED
      BY <2>5, <3>2, QuietSteps DEF Read
  <2>6. CASE StartStore(t)
    BY <2>6, QuietSteps DEF StartStore
  <2>7. CASE kthread_create(t)
    BY <2>7, QuietSteps DEF kthread_create
  <2>8. CASE kthread_createFails(t)
    BY <2>8, QuietSteps DEF kthread_createFails
  <2>. QED
    BY <1>15, <2>1, <2>2, <2>3, <2>4, <2>5, <2>6, <2>7, <2>8 DEF Use
<1>16. ASSUME NEW t \in Task, Finish(t) PROVE LiveInv'
  <2>1. CASE Store(t)
    BY <2>1, QuietSteps DEF Store, Touch
  <2>2. CASE StoreFreed(t)
    BY <2>2, QuietSteps DEF StoreFreed, Touch
  <2>3. CASE CheckThread(t)
    BY <2>3, QuietSteps DEF CheckThread
  <2>4. CASE WakeThread(t)
    BY <2>4, QuietSteps DEF WakeThread
  <2>5. CASE WakeErrPtr(t)
    BY <2>5, QuietSteps DEF WakeErrPtr, Touch
  <2>6. CASE ReleaseReturn(t)
    BY <2>6, QuietSteps DEF ReleaseReturn, Touch
  <2>. QED
    BY <1>16, <2>1, <2>2, <2>3, <2>4, <2>5, <2>6 DEF Finish
<1>17. ASSUME NEW i \in Thread, promote_pages(i) PROVE LiveInv'
  BY <1>17, QuietSteps DEF promote_pages
<1>. QED
  BY <1>1, <1>2, <1>3, <1>4, <1>5, <1>6, <1>7, <1>8, <1>9, <1>10, <1>11, <1>12,
     <1>13, <1>14, <1>15, <1>16, <1>17 DEF Next, Insmod, Rmmod

\* A file whose demo_open took its reference while the module was live keeps
\* the module live, whatever insmod, rmmod and other tasks do, and no call
\* through it meets freed memory up to the module_put of its release; what
\* demo_release runs after that is not covered.
THEOREM LifeLiveFilesSafe == Spec => []LiveFilesSafe
<1>1. LiveInv => LiveFilesSafe
  BY DEF LiveInv
<1>. QED
  BY <1>1, InitTypes, NextTypes, InitLive, NextLive, PTL DEF Spec

-----------------------------------------------------------------------------
(***************************************************************************)
(* The bound on the reference count follows from the counting.             *)
(***************************************************************************)
Bounded == refs <= Cardinality(Task)

LEMMA HoldersBounded == Cardinality(Holders) <= Cardinality(Task)
BY FS_Subset DEF Holders

LEMMA HoldersBoundedNext == Cardinality(Holders') <= Cardinality(Task)
BY FS_Subset DEF Holders

LEMMA InitBounded == Init => Bounded
BY FS_CardinalityType DEF Init, Bounded

\* Only while the module has its text does the count change, or to 0.
LEMMA CountChanges ==
  ASSUME [Next]_vars
  PROVE  refs' = refs \/ refs' = 0 \/ Text'
BY DEF Next, vars, kernel, threads, Text, Insmod, Load, Succeed, Fail, NoBuffer, Loaded, Unload,
   Rmmod, Destroy, Drain, NoThread, StopThread, ThreadStopped, StopErrPtr, Gone,
   Use, OpenDevice, demo_open, demo_release, Stale, Read, StartStore,
   kthread_create, kthread_createFails, Within,
   Finish, Store, StoreFreed, ReleaseReturn, CheckThread, WakeThread, WakeErrPtr, promote_pages

LEMMA NextBounded == Bounded /\ LiveInv' /\ [Next]_vars => Bounded'
BY CountChanges, HoldersBoundedNext, FS_CardinalityType DEF Bounded, LiveInv

\* Every variable keeps its type; the count never exceeds the number of tasks.
THEOREM LifeTypeOK == Spec => []TypeOK
<1>1. LifeTypes /\ Bounded => TypeOK
  BY FS_CardinalityType DEF LifeTypes, Bounded, TypeOK, Names
<1>. QED
  BY <1>1, InitTypes, NextTypes, InitLive, NextLive, InitBounded, NextBounded, PTL DEF Spec

-----------------------------------------------------------------------------
(***************************************************************************)
(* After cleanup_module has looked at kthread_task, the variable only      *)
(* names a thread that has been asked to end, or one that a file without a *)
(* reference has made since.                                               *)
(***************************************************************************)
Looked == module = "going" /\ ~ (todo # <<>> /\ Head(todo) = "thread")

NamedEnds == \A i \in Thread :
  thread[i] \in {"created", "running"} /\ maker[i] # "none" => kthread_task # i

ThreadInv ==
  /\ part # "A2" => kthread_task = NULL
  /\ Looked \/ module = "unloaded" => NamedEnds

LEMMA InitThread == Init => ThreadInv
BY DEF Init, ThreadInv, Looked

\* Steps that leave the threads alone.
LEMMA SameThreads ==
  ASSUME ThreadInv, UNCHANGED <<part, threads>>,
         Looked' \/ module' = "unloaded" => Looked \/ module = "unloaded"
  PROVE  ThreadInv'
BY DEF ThreadInv, threads, NamedEnds

LEMMA NextThread == LifeTypes /\ LiveInv /\ ThreadInv /\ [Next]_vars => ThreadInv'
<1>. SUFFICES ASSUME LifeTypes, LiveInv, ThreadInv, [Next]_vars PROVE ThreadInv'
  OBVIOUS
<1>. USE DEF kernel
<1>1. CASE UNCHANGED vars
  BY <1>1, SameThreads DEF vars, Looked
<1>2. CASE Load
  BY <1>2 DEF Load, threads, ThreadInv, Looked
<1>3. CASE Succeed
  BY <1>3, SameThreads DEF Succeed, Looked
<1>4. CASE Fail
  BY <1>4, SameThreads DEF Fail, Looked
<1>5. CASE NoBuffer
  BY <1>5, SameThreads DEF NoBuffer, Looked
<1>6. CASE Loaded
  BY <1>6, SameThreads DEF Loaded, Looked
<1>7. CASE Unload
  <2>1. CASE part = "A2"
    <3>1. ~ Looked' /\ module' # "unloaded"
      BY <1>7, <2>1, ThreadFirst DEF Unload, Looked
    <3>. QED
      BY <1>7, <3>1 DEF Unload, threads, ThreadInv
  <2>2. CASE part # "A2"
    <3>1. part' # "A2" /\ kthread_task' = NULL
      BY <1>7, <2>2 DEF Unload, threads, ThreadInv
    <3>. QED
      BY <3>1 DEF ThreadInv, NamedEnds, NULL, Thread
  <2>. QED
    BY <2>1, <2>2
<1>8. ASSUME NEW step \in Resource, Destroy(step) PROVE ThreadInv'
  <2>1. step # "thread"
    BY DEF Resource
  <2>. QED
    BY <1>8, <2>1, SameThreads DEF Destroy, Undoing, Looked
<1>9. CASE Drain
  BY <1>9, SameThreads DEF Drain, Undoing, Looked
<1>10. CASE NoThread
  BY <1>10 DEF NoThread, threads, ThreadInv, NamedEnds, NULL, Thread
<1>11. CASE StopThread
  BY <1>11 DEF StopThread, LifeTypes, ThreadInv, NamedEnds, NULL, Thread
<1>12. CASE ThreadStopped
  BY <1>12, SameThreads DEF ThreadStopped, Undoing, Looked
<1>13. CASE StopErrPtr
  BY <1>13, SameThreads DEF StopErrPtr, Looked
<1>14. CASE Gone
  BY <1>14, SameThreads DEF Gone, Looked
<1>15. ASSUME NEW t \in Task, Use(t) PROVE ThreadInv'
  <2>1. CASE OpenDevice(t)
    BY <2>1, SameThreads DEF OpenDevice, Looked
  <2>2. CASE demo_open(t)
    BY <2>2, SameThreads DEF demo_open, Looked
  <2>3. CASE demo_release(t)
    BY <2>3, SameThreads DEF demo_release, Looked
  <2>4. CASE Stale(t)
    BY <2>4, SameThreads DEF Stale, Looked
  <2>5. CASE Read(t)
    BY <2>5, SameThreads DEF Read, Looked
  <2>6. CASE StartStore(t)
    BY <2>6, SameThreads DEF StartStore, Looked
  <2>7. CASE kthread_create(t)
    <3>1. PICK i \in Thread : /\ kthread_task' = i
                              /\ thread' = [thread EXCEPT ![i] = "created"]
                              /\ maker' = [maker EXCEPT ![i] = file[t]]
      BY <2>7 DEF kthread_create
    <3>2. /\ part = "A2" /\ Text /\ file[t] \in Open
          /\ UNCHANGED <<part, module, todo>>
      BY <2>7 DEF kthread_create, Within
    <3>3. Looked \/ module = "unloaded" => file[t] = "none"
      BY <3>2 DEF Looked, Text, LiveInv, Holders, Open
    <3>4. maker'[i] = file[t]
      BY <3>1 DEF LifeTypes
    <3>. QED
      BY <3>1, <3>2, <3>3, <3>4 DEF ThreadInv, NamedEnds, Looked
  <2>8. CASE kthread_createFails(t)
    BY <2>8 DEF kthread_createFails, Within, ThreadInv, NamedEnds, Looked, ERR_PTR, Thread
  <2>. QED
    BY <1>15, <2>1, <2>2, <2>3, <2>4, <2>5, <2>6, <2>7, <2>8 DEF Use
<1>16. ASSUME NEW t \in Task, Finish(t) PROVE ThreadInv'
  <2>1. CASE Store(t)
    BY <2>1, SameThreads DEF Store, Looked
  <2>2. CASE StoreFreed(t)
    BY <2>2, SameThreads DEF StoreFreed, Looked
  <2>3. CASE CheckThread(t)
    BY <2>3, SameThreads DEF CheckThread, Looked
  <2>4. CASE WakeThread(t)
    BY <2>4 DEF WakeThread, Within, LifeTypes, ThreadInv, NamedEnds, Looked
  <2>5. CASE WakeErrPtr(t)
    BY <2>5, SameThreads DEF WakeErrPtr, Looked
  <2>6. CASE ReleaseReturn(t)
    BY <2>6, SameThreads DEF ReleaseReturn, Looked
  <2>. QED
    BY <1>16, <2>1, <2>2, <2>3, <2>4, <2>5, <2>6 DEF Finish
<1>17. ASSUME NEW i \in Thread, promote_pages(i) PROVE ThreadInv'
  BY <1>17 DEF promote_pages, LifeTypes, ThreadInv, NamedEnds, Looked
<1>. QED
  BY <1>1, <1>2, <1>3, <1>4, <1>5, <1>6, <1>7, <1>8, <1>9, <1>10, <1>11, <1>12,
     <1>13, <1>14, <1>15, <1>16, <1>17 DEF Next, Insmod, Rmmod

\* When rmmod has ended, kthread_task names no thread that goes on, unless a
\* file without a reference made it: the others were overwritten.
THEOREM LifeOnlyOverwrittenLeft == Spec => []OnlyOverwrittenLeft
<1>1. ThreadInv => OnlyOverwrittenLeft
  BY DEF ThreadInv, NamedEnds, OnlyOverwrittenLeft
<1>. QED
  BY <1>1, InitTypes, NextTypes, InitLive, NextLive, InitThread, NextThread, PTL DEF Spec

-----------------------------------------------------------------------------
(***************************************************************************)
(* What exists is what init_module has made so far, and what is still to   *)
(* be destroyed is in todo.                                                *)
(***************************************************************************)
Made(p) == {Steps[p][i] : i \in 1 .. Len(Steps[p])}

Nodes == IF Hashed THEN {"hash"} ELSE {}

\* What the steps of q destroy.
Due(q) == {x \in Resource : \E i \in 1 .. Len(q) :
             q[i] = x \/ (x = "file" /\ q[i] = "kobject")}

\* init_module of A1 stands before its k-th step.
Before(k) ==
  /\ Len(todo) = Len(Steps[part]) + 1 - k
  /\ \A j \in 1 .. Len(todo) : todo[j] = Steps[part][k + j - 1]
  /\ has \subseteq {Steps[part][i] : i \in 1 .. k - 1} \cup {"sysfs", "hash"}

LeftInv ==
  /\ has \subseteq Made(part) \cup Nodes
  /\ module = "coming" /\ part # "A2" => \E k \in 1 .. Len(Steps[part]) + 1 : Before(k)
  /\ module = "coming" => \A i \in 1 .. Len(todo) : todo[i] \in Made(part)
  /\ module = "failing" /\ part # "A2" => has \subseteq Due(todo) \cup {"sysfs", "locks", "hash"}
  /\ module = "going" => has \subseteq Due(todo) \cup Static \cup Nodes
  /\ NothingLeft

\* The steps one by one, for the provers.
LEMMA InitSteps ==
  /\ Steps["A1P1"] = InitP1 /\ Steps["A1P2"] = InitP2
  /\ Steps["A1P3"] = InitP3 /\ Steps["A2"] = InitBt
  /\ Len(InitP1) = 5 /\ InitP1[1] = "sysfs" /\ InitP1[2] = "chrdev" /\ InitP1[3] = "class"
  /\ InitP1[4] = "device" /\ InitP1[5] = "d_buf" /\ InitP2 = InitP1
  /\ Len(InitP3) = 6 /\ InitP3[1] = "sysfs" /\ InitP3[2] = "locks" /\ InitP3[3] = "chrdev"
  /\ InitP3[4] = "class" /\ InitP3[5] = "device" /\ InitP3[6] = "d_buf"
  /\ Len(InitBt) = 7 /\ InitBt[1] = "symbols" /\ InitBt[2] = "kprobe" /\ InitBt[3] = "chrdev"
  /\ InitBt[4] = "class" /\ InitBt[5] = "device" /\ InitBt[6] = "kobject" /\ InitBt[7] = "file"
BY DEF Steps, InitP1, InitP2, InitP3, InitBt

LEMMA CleanupSteps ==
  /\ Cleanup["A1P1"] = CleanupP1 /\ Cleanup["A1P2"] = CleanupP2
  /\ Cleanup["A1P3"] = CleanupP2 /\ Cleanup["A2"] = CleanupBt
  /\ Len(CleanupP1) = 5 /\ CleanupP1[1] = "sysfs" /\ CleanupP1[2] = "d_buf"
  /\ CleanupP1[3] = "device" /\ CleanupP1[4] = "class" /\ CleanupP1[5] = "chrdev"
  /\ Len(CleanupP2) = 6 /\ CleanupP2[1] = "hash" /\ CleanupP2[2] = "sysfs"
  /\ CleanupP2[3] = "d_buf" /\ CleanupP2[4] = "device" /\ CleanupP2[5] = "class"
  /\ CleanupP2[6] = "chrdev"
  /\ Len(CleanupBt) = 6 /\ CleanupBt[1] = "thread" /\ CleanupBt[2] = "kprobe"
  /\ CleanupBt[3] = "device" /\ CleanupBt[4] = "class" /\ CleanupBt[5] = "chrdev"
  /\ CleanupBt[6] = "kobject"
BY DEF Cleanup, CleanupP1, CleanupP2, CleanupP3, CleanupBt

\* What a failed init_module of A1 leaves: every step but those is undone.
LEMMA ErrorPathUndoes ==
  ASSUME NEW p \in DOMAIN Steps, p # "A2", NEW k \in 1 .. Len(Steps[p]),
         Steps[p][k] \notin Unchecked
  PROVE  {Steps[p][i] : i \in 1 .. k - 1} \subseteq Due(OnError(p, Steps[p][k])) \cup {"sysfs", "locks"}
<1>1. /\ Due(<<"class", "chrdev">>) = {"class", "chrdev"}
      /\ Due(<<"chrdev">>) = {"chrdev"}
  BY DEF Due, Resource
<1>2. p \in {"A1P1", "A1P2", "A1P3"}
  BY DEF Steps
<1>3. CASE p \in {"A1P1", "A1P2"}
  <2>1. Steps[p] = InitP1
    BY <1>3, InitSteps
  <2>2. k \in {1, 2, 3, 4}
    BY <2>1, InitSteps DEF Unchecked
  <2>. QED
    BY <1>1, <2>1, <2>2, InitSteps DEF OnError
<1>4. CASE p = "A1P3"
  <2>1. Steps[p] = InitP3
    BY <1>4, InitSteps
  <2>2. k \in {1, 3, 4, 5}
    BY <2>1, InitSteps DEF Unchecked
  <2>. QED
    BY <1>1, <2>1, <2>2, InitSteps DEF OnError
<1>. QED
  BY <1>2, <1>3, <1>4

\* cleanup_module undoes every step of init_module.
LEMMA CleanupUndoes ==
  ASSUME NEW p \in DOMAIN Steps
  PROVE  Made(p) \subseteq Due(Cleanup[p]) \cup Static
<1>1. p \in {"A1P1", "A1P2", "A1P3", "A2"}
  BY DEF Steps
<1>2. CASE p = "A1P1"
  <2>1. Made(p) = {"sysfs", "chrdev", "class", "device", "d_buf"}
    BY <1>2, InitSteps DEF Made
  <2>. QED
    BY <1>2, <2>1, CleanupSteps DEF Due, Resource
<1>3. CASE p = "A1P2"
  <2>1. Made(p) = {"sysfs", "chrdev", "class", "device", "d_buf"}
    <3>1. Steps[p] = InitP1
      BY <1>3, InitSteps
    <3>. QED
      BY <3>1, InitSteps DEF Made
  <2>. QED
    BY <1>3, <2>1, CleanupSteps DEF Due, Resource
<1>4. CASE p = "A1P3"
  <2>1. Made(p) = {"sysfs", "locks", "chrdev", "class", "device", "d_buf"}
    BY <1>4, InitSteps DEF Made
  <2>. QED
    BY <1>4, <2>1, CleanupSteps DEF Due, Resource, Static
<1>5. CASE p = "A2"
  <2>1. Made(p) = {"symbols", "kprobe", "chrdev", "class", "device", "kobject", "file"}
    BY <1>5, InitSteps DEF Made
  <2>. QED
    BY <1>5, <2>1, CleanupSteps DEF Due, Resource, Static
<1>. QED
  BY <1>1, <1>2, <1>3, <1>4, <1>5

\* A step of q takes no more than its own resource out of what is due.
LEMMA DueTail ==
  ASSUME NEW q \in Seq(Names), q # <<>>
  PROVE  Due(q) \subseteq Due(Tail(q)) \cup {Head(q)} \cup
                          (IF Head(q) = "kobject" THEN {"file"} ELSE {})
<1>. SUFFICES ASSUME NEW x \in Due(q), x # Head(q), ~ (x = "file" /\ Head(q) = "kobject")
              PROVE  x \in Due(Tail(q))
  OBVIOUS
<1>1. PICK i \in 1 .. Len(q) : q[i] = x \/ (x = "file" /\ q[i] = "kobject")
  BY DEF Due
<1>2. i # 1 /\ i - 1 \in 1 .. Len(Tail(q)) /\ Tail(q)[i - 1] = q[i]
  BY <1>1
<1>. QED
  BY <1>1, <1>2 DEF Due

LEMMA DuePut ==
  ASSUME NEW q \in Seq(Names), NEW name \in Names
  PROVE  Due(q) \subseteq Due(<<name>> \o q) /\ Due(q) \subseteq Due(<<>> \o q)
<1>. SUFFICES ASSUME NEW x \in Due(q) PROVE x \in Due(<<name>> \o q) /\ x \in Due(<<>> \o q)
  OBVIOUS
<1>1. PICK i \in 1 .. Len(q) : q[i] = x \/ (x = "file" /\ q[i] = "kobject")
  BY DEF Due
<1>2. /\ i + 1 \in 1 .. Len(<<name>> \o q) /\ (<<name>> \o q)[i + 1] = q[i]
      /\ i \in 1 .. Len(<<>> \o q) /\ (<<>> \o q)[i] = q[i]
  OBVIOUS
<1>. QED
  BY <1>1, <1>2 DEF Due

LEMMA DueNothing == Due(<<>>) = {}
BY DEF Due

LEMMA InitLeft == Init => LeftInv
BY DEF Init, LeftInv, NothingLeft

\* Steps that neither make nor destroy anything.
LEMMA SameLeft ==
  ASSUME LeftInv, UNCHANGED <<part, module, todo, has>>
  PROVE  LeftInv'
<1>1. \A k : Before(k)' <=> Before(k)
  BY DEF Before
<1>2. Due(todo)' = Due(todo) /\ Made(part)' = Made(part) /\ Nodes' = Nodes
  BY DEF Due, Made, Nodes, Hashed
<1>3. (\E k \in 1 .. Len(Steps[part]) + 1 : Before(k)) =>
        (\E k \in 1 .. Len(Steps[part]) + 1 : Before(k))'
  BY <1>1
<1>4. NothingLeft'
  BY DEF LeftInv, NothingLeft, Hashed
<1>. QED
  BY <1>2, <1>3, <1>4 DEF LeftInv

\* Steps of rmmod that pass over an entry of todo which is no resource.
LEMMA PassedLeft ==
  ASSUME LifeTypes, LeftInv, module \in {"failing", "going"}, todo # <<>>, Head(todo) \notin Resource,
         UNCHANGED <<part, module, has>>, todo' = Tail(todo) \/ todo' = <<"wait">> \o Tail(todo)
  PROVE  LeftInv'
<1>1. Tail(todo) \in Seq(Names) /\ "wait" \in Names
  BY TailOfNames DEF LifeTypes, Names
<1>2. Due(todo) \subseteq Due(Tail(todo))
  <2>1. Due(todo) \subseteq Resource
    BY DEF Due
  <2>2. Head(todo) # "kobject"
    BY DEF Resource
  <2>. QED
    BY <2>1, <2>2, DueTail DEF LifeTypes
<1>3. Due(Tail(todo)) \subseteq Due(todo')
  BY <1>1, DuePut
<1>. QED
  BY <1>2, <1>3 DEF LeftInv, NothingLeft, Made, Nodes, Hashed

LEMMA NextLeft == LifeTypes /\ LeftInv /\ [Next]_vars => LeftInv'
<1>. SUFFICES ASSUME LifeTypes, LeftInv, [Next]_vars PROVE LeftInv'
  OBVIOUS
<1>. USE DEF kernel, threads
<1>1. CASE UNCHANGED vars
  BY <1>1, SameLeft DEF vars
<1>2. CASE Load
  <2>1. /\ module' = "coming" /\ todo' = Steps[part] /\ part' = part
        /\ has' \subseteq has \ {"hash"} /\ has' \subseteq {"sysfs", "hash"} /\ part \in DOMAIN Steps
    BY <1>2 DEF Load, LifeTypes
  <2>2. Steps[part] \in Seq(Resource)
    BY <2>1, StepsAreResources
  <2>3. Before(1)'
    BY <2>1, <2>2 DEF Before
  <2>4. 1 \in 1 .. Len(Steps[part]) + 1
    BY <2>2
  <2>5. \A i \in 1 .. Len(todo') : todo'[i] \in Made(part')
    BY <2>1 DEF Made
  <2>6. has' \subseteq Made(part)' \cup Nodes'
    BY <2>1 DEF LeftInv, Made, Nodes, Hashed
  <2>. QED
    BY <2>1, <2>3, <2>4, <2>5, <2>6 DEF LeftInv, NothingLeft
<1>3. CASE Succeed \/ NoBuffer
  <2>1. /\ module = "coming" /\ todo # <<>> /\ todo' = Tail(todo) /\ todo \in Seq(Resource)
        /\ has' \subseteq has \cup {Head(todo)} /\ UNCHANGED <<part, module>>
        /\ part \in DOMAIN Steps
    BY <1>3 DEF Succeed, NoBuffer, LifeTypes
  <2>2. /\ Len(todo) \in Nat \ {0} /\ Head(todo) = todo[1] /\ Len(Tail(todo)) = Len(todo) - 1
        /\ \A j \in 1 .. Len(Tail(todo)) : Tail(todo)[j] = todo[j + 1]
    BY <2>1
  <2>3. ASSUME part # "A2"
        PROVE  \E k \in 1 .. Len(Steps[part]) + 1 : Before(k)'
    <3>1. PICK k \in 1 .. Len(Steps[part]) + 1 : Before(k)
      BY <2>1, <2>3 DEF LeftInv
    <3>2. Steps[part] \in Seq(Resource) /\ Len(Steps[part]) \in Nat
      BY <2>1, StepsAreResources
    <3>3. k + 1 \in 1 .. Len(Steps[part]) + 1 /\ Head(todo) = Steps[part][k]
      BY <2>2, <3>1, <3>2 DEF Before
    <3>4. Len(todo') = Len(Steps[part]) + 1 - (k + 1)
      BY <2>1, <2>2, <3>1, <3>2 DEF Before
    <3>5. \A j \in 1 .. Len(todo') : todo'[j] = Steps[part][(k + 1) + j - 1]
      <4>. SUFFICES ASSUME NEW j \in 1 .. Len(todo')
                    PROVE  todo'[j] = Steps[part][(k + 1) + j - 1]
        OBVIOUS
      <4>1. todo'[j] = todo[j + 1] /\ j + 1 \in 1 .. Len(todo)
        BY <2>1, <2>2
      <4>2. todo[j + 1] = Steps[part][k + (j + 1) - 1]
        BY <3>1, <4>1 DEF Before
      <4>3. k + (j + 1) - 1 = (k + 1) + j - 1
        BY <2>2, <3>2
      <4>. QED
        BY <4>1, <4>2, <4>3
    <3>6. has' \subseteq {Steps[part][i] : i \in 1 .. (k + 1) - 1} \cup {"sysfs", "hash"}
      <4>1. k \in 1 .. (k + 1) - 1 /\ 1 .. k - 1 \subseteq 1 .. (k + 1) - 1
        BY <3>2
      <4>. QED
        BY <2>1, <3>1, <3>3, <4>1 DEF Before
    <3>7. Before(k + 1)'
      BY <2>1, <3>4, <3>5, <3>6 DEF Before
    <3>. QED
      BY <3>3, <3>7
  <2>4. \A i \in 1 .. Len(todo') : todo'[i] \in Made(part)
    BY <2>1, <2>2 DEF LeftInv
  <2>5. has' \subseteq Made(part)' \cup Nodes'
    BY <2>1, <2>2 DEF LeftInv, Made, Nodes, Hashed
  <2>. QED
    BY <2>1, <2>3, <2>4, <2>5 DEF LeftInv, NothingLeft, Made
<1>4. CASE Fail
  <2>1. /\ module = "coming" /\ module' = "failing" /\ todo # <<>> /\ todo \in Seq(Resource)
        /\ Head(todo) \notin Unchecked /\ todo' = OnError(part, Head(todo))
        /\ UNCHANGED <<part, has>> /\ part \in DOMAIN Steps
    BY <1>4 DEF Fail, LifeTypes
  <2>2. ASSUME part # "A2" PROVE has \subseteq Due(todo') \cup {"sysfs", "locks", "hash"}
    <3>1. PICK k \in 1 .. Len(Steps[part]) + 1 : Before(k)
      BY <2>1, <2>2 DEF LeftInv
    <3>2. Steps[part] \in Seq(Resource) /\ Len(Steps[part]) \in Nat
      BY <2>1, StepsAreResources
    <3>3. /\ Len(todo) \in Nat \ {0} /\ Head(todo) = todo[1]
      BY <2>1
    <3>4. k \in 1 .. Len(Steps[part]) /\ Head(todo) = Steps[part][k]
      BY <3>1, <3>2, <3>3 DEF Before
    <3>. QED
      BY <2>1, <2>2, <3>1, <3>4, ErrorPathUndoes DEF Before
  <2>. QED
    BY <2>1, <2>2 DEF LeftInv, NothingLeft, Made, Nodes, Hashed, Due
<1>5. CASE Loaded
  BY <1>5 DEF Loaded, LeftInv, NothingLeft, Made, Nodes, Hashed
<1>6. CASE Unload
  <2>1. module' = "going" /\ todo' = Cleanup[part] /\ UNCHANGED <<part, has>> /\ part \in DOMAIN Steps
    BY <1>6 DEF Unload, LifeTypes
  <2>2. Made(part) \subseteq Due(todo') \cup Static
    BY <2>1, CleanupUndoes
  <2>. QED
    BY <2>1, <2>2 DEF LeftInv, NothingLeft, Made, Nodes, Hashed
<1>7. ASSUME NEW step \in Resource, Destroy(step) PROVE LeftInv'
  <2>1. /\ module \in {"failing", "going"} /\ todo # <<>> /\ Head(todo) = step
        /\ UNCHANGED <<part, module>> /\ todo \in Seq(Names)
    BY <1>7 DEF Destroy, Undoing, LifeTypes
  <2>2. has' = has \ (IF step = "kobject" THEN {"kobject", "file"} ELSE {step})
    BY <1>7 DEF Destroy
  <2>3. Tail(todo) \in Seq(Names) /\ "drain" \in Names
    BY <2>1, TailOfNames DEF Names
  <2>4. Due(Tail(todo)) \subseteq Due(todo')
    BY <1>7, <2>3, DuePut DEF Destroy
  <2>5. Due(todo) \cap has' \subseteq Due(todo')
    BY <2>1, <2>2, <2>4, DueTail
  <2>. QED
    BY <2>1, <2>2, <2>5 DEF LeftInv, NothingLeft, Made, Nodes, Hashed
<1>8. CASE Drain
  BY <1>8, PassedLeft DEF Drain, Undoing, Resource
<1>9. CASE NoThread
  BY <1>9, PassedLeft DEF NoThread, Undoing, Resource
<1>10. CASE StopThread
  BY <1>10, PassedLeft DEF StopThread, Undoing, Resource
<1>11. CASE ThreadStopped
  BY <1>11, PassedLeft DEF ThreadStopped, Undoing, Resource
<1>12. CASE StopErrPtr
  BY <1>12, SameLeft DEF StopErrPtr
<1>13. CASE Gone
  <2>1. /\ todo = <<>> /\ has' = has \ Static /\ UNCHANGED <<part, todo>>
        /\ module \in {"failing", "going"}
        /\ module' = IF module = "going" THEN "unloaded" ELSE "refused"
    BY <1>13 DEF Gone
  <2>2. Due(todo) = {} /\ "locks" \in Static
    BY <2>1, DueNothing DEF Static
  <2>. QED
    BY <2>1, <2>2 DEF LeftInv, NothingLeft, Made, Nodes, Hashed
<1>14. ASSUME NEW t \in Task, Use(t) PROVE LeftInv'
  <2>1. UNCHANGED <<part, module, todo, has>>
    BY <1>14 DEF Use, OpenDevice, demo_open, demo_release, Stale, Read, StartStore,
       kthread_create, kthread_createFails
  <2>. QED
    BY <2>1, SameLeft
<1>15. ASSUME NEW t \in Task, Finish(t) PROVE LeftInv'
  <2>1. CASE Store(t)
    <3>1. /\ UNCHANGED <<part, module, todo>> /\ has' \subseteq has \cup Nodes
          /\ module \notin {"refused", "unloaded"}
      BY <2>1 DEF Store, Nodes, Text
    <3>2. Nodes \subseteq {"hash"} /\ Nodes' = Nodes
      BY <3>1 DEF Nodes, Hashed
    <3>3. \A k : Before(k) => Before(k)'
      BY <3>1, <3>2 DEF Before
    <3>4. Due(todo)' = Due(todo) /\ Made(part)' = Made(part)
      BY <3>1 DEF Due, Made
    <3>5. (\E k \in 1 .. Len(Steps[part]) + 1 : Before(k)) =>
            (\E k \in 1 .. Len(Steps[part]) + 1 : Before(k))'
      BY <3>1, <3>3
    <3>6. NothingLeft'
      BY <3>1 DEF NothingLeft
    <3>. QED
      BY <3>1, <3>2, <3>4, <3>5, <3>6 DEF LeftInv
  <2>2. CASE StoreFreed(t) \/ ReleaseReturn(t) \/ CheckThread(t) \/ WakeThread(t) \/ WakeErrPtr(t)
    BY <2>2, SameLeft DEF StoreFreed, ReleaseReturn, CheckThread, WakeThread, WakeErrPtr
  <2>. QED
    BY <1>15, <2>1, <2>2 DEF Finish
<1>16. ASSUME NEW i \in Thread, promote_pages(i) PROVE LeftInv'
  BY <1>16, SameLeft DEF promote_pages
<1>. QED
  BY <1>1, <1>2, <1>3, <1>4, <1>5, <1>6, <1>7, <1>8, <1>9, <1>10, <1>11, <1>12,
     <1>13, <1>14, <1>15, <1>16 DEF Next, Insmod, Rmmod

\* rmmod leaves nothing behind but nodes that were added after cleanup_hash,
\* and a load of A1 that failed nothing but the sysfs group and such nodes,
\* whichever step failed, however often the module was loaded before.
THEOREM LifeNothingLeft == Spec => []NothingLeft
<1>1. LeftInv => NothingLeft
  BY DEF LeftInv
<1>. QED
  BY <1>1, InitTypes, NextTypes, InitLeft, NextLeft, PTL DEF Spec
=============================================================================
