----------------------------- MODULE DriverLife -----------------------------
(***************************************************************************)
(* The life of the modules: init_module with its error paths,              *)
(* cleanup_module, open and release, the kernel threads of                 *)
(* A2/module/btplus.c, against tasks that use the sysfs file and the       *)
(* device meanwhile.  The four drivers share the actions and differ in the *)
(* order of their steps; one of them is chosen in Init.                    *)
(***************************************************************************)
EXTENDS Integers, Sequences, FiniteSets

CONSTANTS
  Task,      \* tasks that use the driver
  MaxLoad,   \* bound on the number of times the module is loaded
  MaxThread  \* bound on the number of kernel threads that are created

ASSUME LifeAssumption == MaxLoad \in Nat /\ MaxThread \in Nat /\ IsFiniteSet(Task)

Thread == 1 .. MaxThread
NULL == 0
ERR_PTR == -1

VARIABLES
  part,          \* which driver it is
  module,        \* its state in the kernel
  loads,         \* how often it has been loaded
  todo,          \* what init_module or cleanup_module has still to do
  has,           \* what exists of what they create
  freed,         \* what existed and was destroyed since the last load
  refs,          \* the reference count of the module
  file,          \* file[t]: the device as t has it open
  call,          \* call[t]: the call t is in
  kthread_task,  \* the thread cleanup_module would stop
  thread,        \* thread[i]: the state of a kernel thread
  maker,         \* maker[i]: how the file was open through which i was made
  bad            \* history: accesses to what is not there

kernel == <<module, loads, todo>>
threads == <<kthread_task, thread, maker>>
vars == <<part, kernel, has, freed, refs, file, call, threads, bad>>

-----------------------------------------------------------------------------
(***************************************************************************)
(* The steps, in their order.                                              *)
(***************************************************************************)
InitP1 == <<"sysfs", "chrdev", "class", "device", "d_buf">>
InitP2 == <<"sysfs", "chrdev", "class", "device", "d_buf">>
InitP3 == <<"sysfs", "locks", "chrdev", "class", "device", "d_buf">>
InitBt == <<"symbols", "kprobe", "chrdev", "class", "device", "kobject", "file">>

CleanupP1 == <<"sysfs", "d_buf", "device", "class", "chrdev">>
CleanupP2 == <<"hash", "sysfs", "d_buf", "device", "class", "chrdev">>
CleanupP3 == <<"hash", "sysfs", "d_buf", "device", "class", "chrdev">>
CleanupBt == <<"thread", "kprobe", "device", "class", "chrdev", "kobject">>

Steps == [A1P1 |-> InitP1, A1P2 |-> InitP2, A1P3 |-> InitP3, A2 |-> InitBt]

Cleanup == [A1P1 |-> CleanupP1, A1P2 |-> CleanupP2, A1P3 |-> CleanupP3, A2 |-> CleanupBt]

\* Mutant: error_device returns after class_destroy.
OnErrorReturns(p, step) ==
  CASE step = "class"  -> <<"chrdev">>
    [] step = "device" -> <<"class">>
    [] step = "file"   -> <<"kobject", "class", "chrdev">>
    [] OTHER           -> <<>>

\* What is undone when a step of init_module fails; the sysfs group, the probe
\* and the device never are.
OnError(p, step) ==
  CASE step = "class"  -> <<"chrdev">>
    [] step = "device" -> <<"class", "chrdev">>
    [] step = "file"   -> <<"kobject", "class", "chrdev">>
    [] OTHER           -> <<>>

\* Nothing checks what kzalloc returns, and mutex_init cannot fail.
Unchecked == {"locks", "d_buf"}

\* What is part of the module's own memory.
Static == {"symbols", "locks"}

Resource == {"symbols", "locks", "sysfs", "chrdev", "class", "device", "d_buf",
             "kprobe", "kobject", "file", "hash"}

Hashed == part \in {"A1P2", "A1P3"}

Init ==
  /\ part \in DOMAIN Steps
  /\ module = "absent" /\ loads = 0 /\ todo = <<>>
  /\ has = {} /\ freed = {} /\ refs = 0
  /\ file = [t \in Task |-> "closed"]
  /\ call = [t \in Task |-> "none"]
  /\ kthread_task = NULL
  /\ thread = [i \in Thread |-> "none"]
  /\ maker = [i \in Thread |-> "closed"]
  /\ bad = {}

Text == module \in {"coming", "live", "failing", "going"}

Touch(what, how) == bad' = bad \cup {[what |-> what, how |-> how]}

-----------------------------------------------------------------------------
(***************************************************************************)
(* insmod.                                                                 *)
(***************************************************************************)

\* The bounds: a kernel in which something went wrong or a probe was left is
\* rebooted.
Load ==
  /\ ~ Text
  /\ loads < MaxLoad /\ bad = {} /\ has \subseteq {"sysfs", "hash"}
  /\ \A t \in Task : file[t] = "closed" /\ call[t] = "none"
  /\ module' = "coming" /\ loads' = loads + 1
  /\ todo' = Steps[part]
  /\ has' = has \ {"hash"} /\ freed' = {} /\ refs' = 0
  /\ kthread_task' = NULL
  /\ UNCHANGED <<part, file, call, thread, maker, bad>>

Succeed ==
  /\ module = "coming"
  /\ todo # <<>>
  /\ Head(todo) \notin has
  /\ has' = has \cup {Head(todo)}
  /\ todo' = Tail(todo)
  /\ UNCHANGED <<part, module, loads, freed, refs, file, call, threads, bad>>

\* A failure, also because an earlier load has left the name behind.
Fail ==
  /\ module = "coming"
  /\ todo # <<>>
  /\ Head(todo) \notin Unchecked
  /\ module' = "failing"
  /\ todo' = OnError(part, Head(todo))
  /\ UNCHANGED <<part, loads, has, freed, refs, file, call, threads, bad>>

NoBuffer ==
  /\ module = "coming"
  /\ todo # <<>>
  /\ Head(todo) = "d_buf"
  /\ todo' = Tail(todo)
  /\ UNCHANGED <<part, module, loads, has, freed, refs, file, call, threads, bad>>

Loaded ==
  /\ module = "coming"
  /\ todo = <<>>
  /\ module' = "live"
  /\ UNCHANGED <<part, loads, todo, has, freed, refs, file, call, threads, bad>>

-----------------------------------------------------------------------------
(***************************************************************************)
(* rmmod, and the error paths of insmod.                                   *)
(***************************************************************************)

\* delete_module refuses while there are references.
Unload ==
  /\ module = "live"
  /\ refs = 0
  /\ module' = "going"
  /\ todo' = Cleanup[part]
  /\ UNCHANGED <<part, loads, has, freed, refs, file, call, threads, bad>>

Undoing(step) ==
  /\ module \in {"failing", "going"}
  /\ todo # <<>>
  /\ Head(todo) = step

\* A sysfs file that is removed lets no new store in, ...
Destroy(step) ==
  /\ Undoing(step)
  /\ LET gone == IF step = "kobject" THEN {"kobject", "file"} ELSE {step}
     IN  /\ has' = has \ gone
         /\ freed' = freed \cup (has \cap gone)
  /\ todo' = (IF step \in {"sysfs", "kobject"} THEN <<"drain">> ELSE <<>>) \o Tail(todo)
  /\ UNCHANGED <<part, module, loads, refs, file, call, threads, bad>>

\* ... and its removal waits for the stores that are under way.
Drain ==
  /\ Undoing("drain")
  /\ \A t \in Task : call[t] # "store"
  /\ todo' = Tail(todo)
  /\ UNCHANGED <<part, module, loads, has, freed, refs, file, call, threads, bad>>

NoThread ==
  /\ Undoing("thread")
  /\ kthread_task = NULL
  /\ todo' = Tail(todo)
  /\ UNCHANGED <<part, module, loads, has, freed, refs, file, call, threads, bad>>

\* Mutant: nobody asks the thread to end.
StopThreadNever ==
  /\ Undoing("thread")
  /\ kthread_task \in Thread
  /\ todo' = Tail(todo)
  /\ UNCHANGED <<part, module, loads, has, freed, refs, file, call, threads, bad>>

\* kthread_stop asks the thread to end, which wakes it if nobody has, ...
StopThread ==
  /\ Undoing("thread")
  /\ kthread_task \in Thread
  /\ thread' = [thread EXCEPT ![kthread_task] = "asked"]
  /\ todo' = <<"wait">> \o Tail(todo)
  /\ UNCHANGED <<part, module, loads, has, freed, refs, file, call, kthread_task, maker, bad>>

\* ... and waits for it.
ThreadStopped ==
  /\ Undoing("wait")
  /\ \A i \in Thread : thread[i] # "asked"
  /\ todo' = Tail(todo)
  /\ UNCHANGED <<part, module, loads, has, freed, refs, file, call, threads, bad>>

\* kthread_stop of the ERR_PTR a failed kthread_create has left: rmmod dies.
StopErrPtr ==
  /\ Undoing("thread")
  /\ kthread_task = ERR_PTR
  /\ Touch("pointer", "rmmod")
  /\ UNCHANGED <<part, kernel, has, freed, refs, file, call, threads>>

\* The memory of the module is freed, whoever still has the device open.
Gone ==
  /\ module \in {"failing", "going"}
  /\ todo = <<>>
  /\ module' = IF module = "going" THEN "unloaded" ELSE "refused"
  /\ has' = has \ Static
  /\ UNCHANGED <<part, loads, todo, freed, refs, file, call, threads, bad>>

-----------------------------------------------------------------------------
(***************************************************************************)
(* The tasks.  file[t] tells when demo_open took its reference: "early"    *)
(* while init_module was running, "live", or "none" because the module was *)
(* going; demo_open ignores the result.                                    *)
(***************************************************************************)
Open == {"early", "live", "none"}

\* The kernel finds the file operations, which name no owner.
OpenDevice(t) ==
  /\ file[t] = "closed" /\ call[t] = "none"
  /\ {"chrdev", "device"} \subseteq has
  /\ file' = [file EXCEPT ![t] = "opening"]
  /\ UNCHANGED <<part, kernel, has, freed, refs, call, threads, bad>>

\* Mutant: demo_open takes no reference.
demo_openFree(t) ==
  /\ file[t] = "opening" /\ Text
  /\ file' = [file EXCEPT ![t] = IF module = "live" THEN "live" ELSE
                                 IF module = "going" THEN "none" ELSE "early"]
  /\ UNCHANGED <<part, kernel, has, freed, refs, call, threads, bad>>

\* Mutant: demo_release, too, takes a reference.
demo_releaseGets(t) ==
  /\ file[t] \in Open /\ call[t] = "none" /\ Text
  /\ file' = [file EXCEPT ![t] = "closed"]
  /\ refs' = refs + 1
  /\ call' = [call EXCEPT ![t] = "release"]
  /\ UNCHANGED <<part, kernel, has, freed, threads, bad>>

demo_open(t) ==
  /\ file[t] = "opening" /\ Text
  /\ file' = [file EXCEPT ![t] = IF module = "live" THEN "live" ELSE
                                 IF module = "going" THEN "none" ELSE "early"]
  /\ refs' = IF module = "going" THEN refs ELSE refs + 1
  /\ UNCHANGED <<part, kernel, has, freed, call, threads, bad>>

\* module_put, which the module calls on itself, ...
demo_release(t) ==
  /\ file[t] \in Open /\ call[t] = "none" /\ Text
  /\ file' = [file EXCEPT ![t] = "closed"]
  /\ refs' = IF refs = 0 THEN 0 ELSE refs - 1
  /\ call' = [call EXCEPT ![t] = "release"]
  /\ UNCHANGED <<part, kernel, has, freed, threads, bad>>

\* ... and what follows it, a printk and the return, for which nothing keeps
\* the text any more.
ReleaseReturn(t) ==
  /\ call[t] = "release"
  /\ call' = [call EXCEPT ![t] = "none"]
  /\ IF Text THEN bad' = bad ELSE Touch("text", "released")
  /\ UNCHANGED <<part, kernel, has, freed, refs, file, threads>>

\* The code the file leads to has been freed.
Stale(t) ==
  /\ file[t] # "closed" /\ ~ Text
  /\ file' = [file EXCEPT ![t] = "closed"]
  /\ call' = [call EXCEPT ![t] = "none"]
  /\ Touch("text", file[t])
  /\ UNCHANGED <<part, kernel, has, freed, refs, threads>>

\* d_buf in A1/Part1, the nodes of the table in A1/Part2 and A1/Part3.
Read(t) ==
  LET used == IF Hashed THEN "hash" ELSE "d_buf"
  IN  /\ part # "A2"
      /\ file[t] \in Open /\ call[t] = "none" /\ Text
      /\ used \in freed \/ (~ Hashed /\ used \notin has)
      /\ Touch(IF used \in freed THEN "freed" ELSE "null", file[t])
      /\ UNCHANGED <<part, kernel, has, freed, refs, file, call, threads>>

StartStore(t) ==
  /\ call[t] = "none"
  /\ has \cap {"sysfs", "file"} # {}
  /\ call' = [call EXCEPT ![t] = "store"]
  /\ UNCHANGED <<part, kernel, has, freed, refs, file, threads, bad>>

\* A bucket without a node, and in the other drivers no memory that may be
\* missing.
Store(t) ==
  /\ call[t] = "store" /\ Text
  /\ call' = [call EXCEPT ![t] = "none"]
  /\ has' = IF Hashed THEN has \cup {"hash"} ELSE has
  /\ IF part = "A1P3" /\ "locks" \notin has
     THEN Touch("lock", "store") ELSE bad' = bad
  /\ UNCHANGED <<part, kernel, freed, refs, file, threads>>

\* A bucket that cleanup_hash has gone over, or the group that a load that
\* failed has left behind.
StoreFreed(t) ==
  /\ call[t] = "store"
  /\ ~ Text \/ (Hashed /\ "hash" \in freed)
  /\ call' = [call EXCEPT ![t] = "none"]
  /\ Touch(IF Text THEN "freed" ELSE "text", "store")
  /\ UNCHANGED <<part, kernel, has, freed, refs, file, threads>>

-----------------------------------------------------------------------------
(***************************************************************************)
(* The ioctls PROMOTE_VMA and COMPACT_VMA make a kernel thread; each use   *)
(* of kthread_task loads the variable again.                               *)
(***************************************************************************)
Within(t, here, there) ==
  /\ part = "A2" /\ Text
  /\ file[t] \in Open
  /\ call[t] = here
  /\ call' = [call EXCEPT ![t] = there]

kthread_create(t) ==
  /\ Within(t, "none", "check")
  /\ \E i \in Thread :
       /\ \A j \in Thread : thread[j] = "none" <=> j >= i
       /\ kthread_task' = i
       /\ thread' = [thread EXCEPT ![i] = "created"]
       /\ maker' = [maker EXCEPT ![i] = file[t]]
  /\ UNCHANGED <<part, kernel, has, freed, refs, file, bad>>

kthread_createFails(t) ==
  /\ Within(t, "none", "check")
  /\ kthread_task' = ERR_PTR
  /\ UNCHANGED <<part, kernel, has, freed, refs, file, thread, maker, bad>>

CheckThread(t) ==
  /\ Within(t, "check", IF kthread_task = ERR_PTR THEN "none" ELSE "wake")
  /\ UNCHANGED <<part, kernel, has, freed, refs, file, threads, bad>>

WakeThread(t) ==
  /\ Within(t, "wake", "none")
  /\ kthread_task \in Thread
  /\ thread' = [thread EXCEPT ![kthread_task] = IF @ = "created" THEN "running" ELSE @]
  /\ UNCHANGED <<part, kernel, has, freed, refs, file, kthread_task, maker, bad>>

WakeErrPtr(t) ==
  /\ Within(t, "wake", "none")
  /\ kthread_task = ERR_PTR
  /\ Touch("pointer", file[t])
  /\ UNCHANGED <<part, kernel, has, freed, refs, file, threads>>

\* Mutant: the loop of promote_pages only looks at promote.
promote_pagesForever(i) ==
  /\ thread[i] = "running"
  /\ UNCHANGED vars

\* promote_pages sleeps and looks whether it should stop.
promote_pages(i) ==
  /\ thread[i] = "asked"
  /\ thread' = [thread EXCEPT ![i] = "ended"]
  /\ UNCHANGED <<part, kernel, has, freed, refs, file, call, kthread_task, maker, bad>>

-----------------------------------------------------------------------------
Insmod == Load \/ Succeed \/ Fail \/ NoBuffer \/ Loaded

Rmmod ==
  \/ \E step \in Resource : Destroy(step)
  \/ Drain \/ NoThread \/ StopThread \/ ThreadStopped \/ StopErrPtr \/ Gone

Finish(t) ==
  \/ Store(t) \/ StoreFreed(t) \/ ReleaseReturn(t)
  \/ CheckThread(t) \/ WakeThread(t) \/ WakeErrPtr(t)

Use(t) ==
  \/ OpenDevice(t) \/ demo_open(t) \/ demo_release(t) \/ Stale(t)
  \/ Read(t) \/ StartStore(t)
  \/ kthread_create(t) \/ kthread_createFails(t)

Next ==
  \/ Insmod \/ Unload \/ Rmmod
  \/ \E t \in Task : Use(t) \/ Finish(t)
  \/ \E i \in Thread : promote_pages(i)

Spec == Init /\ [][Next]_vars

(***************************************************************************)
(* A call into the kernel goes on, and a kernel thread is scheduled; no    *)
(* user has to start, or to end, the use of the device.                    *)
(***************************************************************************)
Fairness ==
  /\ WF_vars(Rmmod)
  /\ \A t \in Task : WF_vars(Finish(t))
  /\ \A i \in Thread : WF_vars(promote_pages(i))

FairSpec == Spec /\ Fairness

-----------------------------------------------------------------------------
(***************************************************************************)
(* Properties.                                                             *)
(***************************************************************************)
TypeOK ==
  /\ part \in DOMAIN Steps
  /\ module \in {"absent", "coming", "live", "failing", "refused", "going", "unloaded"}
  /\ loads \in 0 .. MaxLoad
  /\ todo \in Seq(Resource \cup {"thread", "wait", "drain"})
  /\ has \subseteq Resource /\ freed \subseteq Resource
  /\ refs \in 0 .. Cardinality(Task)
  /\ file \in [Task -> {"closed", "opening"} \cup Open]
  /\ call \in [Task -> {"none", "store", "release", "check", "wake"}]
  /\ kthread_task \in Thread \cup {NULL, ERR_PTR}
  /\ thread \in [Thread -> {"none", "created", "running", "asked", "ended"}]
  /\ maker \in [Thread -> {"closed"} \cup Open]

\* However opens, reads and rmmod overlap, a file whose reference was taken
\* while the module was live keeps the module, and no call through it meets
\* freed memory up to the module_put of its release.  What demo_release runs
\* after it has no such protection and is left out: ReleaseReturn marks it
\* "released".
LiveFilesSafe ==
  /\ \A t \in Task : file[t] = "live" => module = "live"
  /\ \A e \in bad : e.how = "live" => e.what \notin {"text", "freed"}

\* rmmod leaves nothing behind but the nodes that a store has added after
\* cleanup_hash, and in A1 a load that failed nothing but the sysfs group and
\* what was written through it.
NothingLeft ==
  /\ module = "unloaded" => has \subseteq IF Hashed THEN {"hash"} ELSE {}
  /\ module = "refused" /\ part # "A2" => has \subseteq {"sysfs", "hash"}

\* Of the threads made through files with a reference, rmmod leaves running
\* only those whose kthread_task a later ioctl has overwritten.
OnlyOverwrittenLeft ==
  module = "unloaded" => \A i \in Thread :
    thread[i] \in {"created", "running"} /\ maker[i] # "none" => kthread_task # i

\* rmmod comes to its end, after the stores and the thread it waits for,
\* unless it was given an ERR_PTR.
UnloadEnds ==
  module = "going" ~> module = "unloaded" \/ [what |-> "pointer", how |-> "rmmod"] \in bad
=============================================================================
