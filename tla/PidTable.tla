------------------------------ MODULE PidTable ------------------------------
(***************************************************************************)
(* The driver of A1/Part2/driver.c: a hash table of commands keyed by pid, *)
(* without any lock.  Each action is one access to a word that another     *)
(* task may be using at the same time.  Processes do not exit: that a pid  *)
(* which is used again finds the node of its former owner is left out.     *)
(***************************************************************************)
EXTENDS Naturals, FiniteSets

CONSTANTS
  Task,      \* tasks that call into the driver
  PidOf,     \* PidOf[t]: current->pid while t runs
  BUCKETS,   \* number of buckets of hash_tbl, 1024 in the code
  Command,   \* 0..4 in the code
  Input,     \* integers that user space writes into the sysfs file
  Length,    \* lengths user space passes to read()
  MaxNode,   \* bound on the nodes that are ever allocated
  None       \* no command, no answer

ASSUME PidAssumption ==
  /\ 0 \in Command /\ None \notin Command
  /\ BUCKETS \in Nat \ {0}
  /\ MaxNode \in Nat
  /\ PidOf \in [Task -> Nat \ {0}]
  /\ \A t, u \in Task : PidOf[t] = PidOf[u] => t = u

\* The nodes are numbered in the order in which they became the head of a bucket.
Node == 1 .. MaxNode
NULL == 0

VARIABLES
  hash_tbl,  \* hash_tbl[b]: the head of bucket b
  count,     \* how many nodes have been published
  pid,       \* pid[n]: n->pid
  curid,     \* curid[n]: n->curid
  link,      \* link[n]: n->next
  buf,       \* buf[n]: n->buf, the answer it holds
  pc,        \* pc[t]: where task t is
  arg,       \* arg[t]: the last command t passed to find_and_update
  cur,       \* cur[t]: the local cur of find_and_update and of resolve
  next,      \* next[t]: the local next of find_and_update
  mine,      \* mine[t]: the node t has allocated last
  out,       \* out[t]: what t's read has copied to user space
  raced      \* history: a call of its bucket has overlapped an insertion

table == <<hash_tbl, count, pid, curid, link, buf>>
vars == <<table, pc, arg, cur, next, mine, out, raced>>

Bucket == 0 .. BUCKETS - 1

\* pid & ((1<<10) - 1).
myhash(p) == p % BUCKETS

Key(t) == myhash(PidOf[t])

Answer == [id : Command, by : Task]

getans(id, t) == [id |-> id, by |-> t]

Init ==
  /\ hash_tbl = [b \in Bucket |-> NULL]
  /\ count = 0
  /\ pid   = [n \in Node |-> 0]
  /\ curid = [n \in Node |-> 0]
  /\ link  = [n \in Node |-> NULL]
  /\ buf   = [n \in Node |-> None]
  /\ pc    = [t \in Task |-> "idle"]
  /\ arg   = [t \in Task |-> None]
  /\ cur   = [t \in Task |-> NULL]
  /\ next  = [t \in Task |-> NULL]
  /\ mine  = [t \in Task |-> NULL]
  /\ out   = [t \in Task |-> None]
  /\ raced = FALSE

Goto(t, from, to) ==
  /\ pc[t] = from
  /\ pc' = [pc EXCEPT ![t] = to]

Updating == {"set_walk", "set_store", "set_next", "set_publish"}
Filling  == {"set_pid", "set_curid", "set_link"}

-----------------------------------------------------------------------------
(***************************************************************************)
(* cs614sys_set, find_and_update.                                          *)
(***************************************************************************)

\* The bound MaxNode: a set starts only if every set under way can still get a
\* node, so that kzalloc never fails half-way.
Room == count + Cardinality({t \in Task : pc[t] \in Updating}) < MaxNode

\* Mutant: the range check is forgotten.
cs614sys_setUnchecked(t, newval) ==
  /\ Room
  /\ Goto(t, "idle", "set_walk")
  /\ arg' = [arg EXCEPT ![t] = newval]
  /\ cur' = [cur EXCEPT ![t] = hash_tbl[Key(t)]]
  /\ UNCHANGED <<table, next, mine, out>>

\* kstrtoint, the range check and cur = hash_tbl[key]; a value out of range
\* returns -EINVAL and changes nothing.
cs614sys_set(t, newval) ==
  /\ newval \in Command
  /\ Room
  /\ Goto(t, "idle", "set_walk")
  /\ arg' = [arg EXCEPT ![t] = newval]
  /\ cur' = [cur EXCEPT ![t] = hash_tbl[Key(t)]]
  /\ UNCHANGED <<table, next, mine, out>>

\* One round of either while loop: the node is another process's.
Walk(t) ==
  /\ pc[t] \in {"set_walk", "read_walk"}
  /\ cur[t] # NULL
  /\ pid[cur[t]] # PidOf[t]
  /\ cur' = [cur EXCEPT ![t] = link[cur[t]]]
  /\ UNCHANGED <<table, pc, arg, next, mine, out>>

SetHit(t) ==
  /\ cur[t] # NULL
  /\ pid[cur[t]] = PidOf[t]
  /\ Goto(t, "set_walk", "set_store")
  /\ UNCHANGED <<table, arg, cur, next, mine, out>>

SetStore(t) ==
  /\ Goto(t, "set_store", "idle")
  /\ curid' = [curid EXCEPT ![cur[t]] = arg[t]]
  /\ cur' = [cur EXCEPT ![t] = NULL]
  /\ UNCHANGED <<hash_tbl, count, pid, link, buf, arg, next, mine, out>>

SetMiss(t) ==
  /\ cur[t] = NULL
  /\ Goto(t, "set_walk", "set_next")
  /\ UNCHANGED <<table, arg, cur, next, mine, out>>

SetNext(t) ==
  /\ Goto(t, "set_next", "set_publish")
  /\ next' = [next EXCEPT ![t] = hash_tbl[Key(t)]]
  /\ UNCHANGED <<table, arg, cur, mine, out>>

\* Mutant: the walk starts over when the head was replaced meanwhile.
SetPublishAgain(t) ==
  /\ count < MaxNode
  /\ IF hash_tbl[Key(t)] = next[t] THEN
       /\ Goto(t, "set_publish", "set_pid")
       /\ count' = count + 1
       /\ hash_tbl' = [hash_tbl EXCEPT ![Key(t)] = count + 1]
       /\ mine' = [mine EXCEPT ![t] = count + 1]
       /\ cur' = cur
     ELSE
       /\ Goto(t, "set_publish", "set_walk")
       /\ cur' = [cur EXCEPT ![t] = hash_tbl[Key(t)]]
       /\ UNCHANGED <<count, hash_tbl, mine>>
  /\ UNCHANGED <<pid, curid, link, buf, arg, next, out>>

\* kzalloc may sleep between the read of the old head and this store.
SetPublish(t) ==
  /\ count < MaxNode
  /\ Goto(t, "set_publish", "set_pid")
  /\ count' = count + 1
  /\ hash_tbl' = [hash_tbl EXCEPT ![Key(t)] = count + 1]
  /\ mine' = [mine EXCEPT ![t] = count + 1]
  /\ UNCHANGED <<pid, curid, link, buf, arg, cur, next, out>>

\* The fields are assigned through hash_tbl[key]: the compiler may keep the
\* pointer kzalloc returned or load the head again, which by then may be the
\* node of another process.
Target(t) == {mine[t], hash_tbl[Key(t)]}

SetPid(t) ==
  /\ Goto(t, "set_pid", "set_curid")
  /\ \E n \in Target(t) : pid' = [pid EXCEPT ![n] = PidOf[t]]
  /\ UNCHANGED <<hash_tbl, count, curid, link, buf, arg, cur, next, mine, out>>

SetCurid(t) ==
  /\ Goto(t, "set_curid", "set_link")
  /\ \E n \in Target(t) : curid' = [curid EXCEPT ![n] = arg[t]]
  /\ UNCHANGED <<hash_tbl, count, pid, link, buf, arg, cur, next, mine, out>>

\* Mutant: the field is set to the head as it is now.
SetLinkHead(t) ==
  /\ Goto(t, "set_link", "idle")
  /\ \E n \in Target(t) : link' = [link EXCEPT ![n] = hash_tbl[Key(t)]]
  /\ UNCHANGED <<hash_tbl, count, pid, curid, buf, arg, cur, next, mine, out>>

\* Mutant: the assignment to next is forgotten.
SetLinkNever(t) ==
  /\ Goto(t, "set_link", "idle")
  /\ UNCHANGED <<table, arg, cur, next, mine, out>>

SetLink(t) ==
  /\ Goto(t, "set_link", "idle")
  /\ \E n \in Target(t) : link' = [link EXCEPT ![n] = next[t]]
  /\ UNCHANGED <<hash_tbl, count, pid, curid, buf, arg, cur, next, mine, out>>

-----------------------------------------------------------------------------
(***************************************************************************)
(* demo_read, resolve, getans.                                             *)
(***************************************************************************)

demo_read(t, length) ==
  /\ length <= 16
  /\ Goto(t, "idle", "read_walk")
  /\ cur' = [cur EXCEPT ![t] = hash_tbl[Key(t)]]
  /\ UNCHANGED <<table, arg, next, mine, out>>

ReadMiss(t) ==
  /\ cur[t] = NULL
  /\ Goto(t, "read_walk", "return")
  /\ UNCHANGED <<table, arg, cur, next, mine, out>>

ReadHit(t) ==
  /\ cur[t] # NULL
  /\ pid[cur[t]] = PidOf[t]
  /\ Goto(t, "read_walk", "format")
  /\ UNCHANGED <<table, arg, cur, next, mine, out>>

Format(t) ==
  /\ Goto(t, "format", "copy")
  /\ buf' = [buf EXCEPT ![cur[t]] = getans(curid[cur[t]], t)]
  /\ UNCHANGED <<hash_tbl, count, pid, curid, link, arg, cur, next, mine, out>>

CopyToUser(t) ==
  /\ Goto(t, "copy", "return")
  /\ out' = [out EXCEPT ![t] = buf[cur[t]]]
  /\ UNCHANGED <<table, arg, cur, next, mine>>

\* -EINVAL when nothing was resolved, otherwise the number of bytes copied.
ReadReturn(t) ==
  /\ Goto(t, "return", "idle")
  /\ cur' = [cur EXCEPT ![t] = NULL]
  /\ out' = [out EXCEPT ![t] = None]
  /\ UNCHANGED <<table, arg, next, mine>>

-----------------------------------------------------------------------------
Start(t) ==
  \/ \E newval \in Input : cs614sys_set(t, newval)
  \/ \E length \in Length : demo_read(t, length)

Advance(t) ==
  \/ Walk(t) \/ SetHit(t) \/ SetStore(t) \/ SetMiss(t) \/ SetNext(t)
  \/ SetPublish(t) \/ SetPid(t) \/ SetCurid(t) \/ SetLink(t)
  \/ ReadMiss(t) \/ ReadHit(t) \/ Format(t) \/ CopyToUser(t) \/ ReadReturn(t)

(***************************************************************************)
(* raced is not part of the driver: it records whether a process was ever  *)
(* inside the driver while another one of its bucket was setting its first *)
(* command.  All other calls may overlap without being recorded.           *)
(***************************************************************************)
Inserting(t) == \/ pc[t] \in Updating /\ mine[t] = NULL
                \/ pc[t] \in Filling

InsertionsAlone == \A t \in Task : Inserting(t) =>
  \A u \in Task \ {t} : Key(u) = Key(t) => pc[u] = "idle"

Record == raced' = (raced \/ ~ InsertionsAlone')

Next == \E t \in Task : (Start(t) \/ Advance(t)) /\ Record

Spec == Init /\ [][Next]_vars

\* A task that runs in the kernel keeps running; nobody has to start a call.
FairSpec == Spec /\ \A t \in Task : WF_vars(Advance(t) /\ Record)

-----------------------------------------------------------------------------
(***************************************************************************)
(* Properties.                                                             *)
(***************************************************************************)

TypeOK ==
  /\ hash_tbl \in [Bucket -> Node \cup {NULL}]
  /\ count \in 0 .. MaxNode
  /\ pid   \in [Node -> {PidOf[t] : t \in Task} \cup {0}]
  /\ curid \in [Node -> Command]
  /\ link  \in [Node -> Node \cup {NULL}]
  /\ buf   \in [Node -> Answer \cup {None}]
  /\ pc    \in [Task -> {"idle", "read_walk", "format", "copy", "return"}
                       \cup Updating \cup Filling]
  /\ arg   \in [Task -> Command \cup {None}]
  /\ cur   \in [Task -> Node \cup {NULL}]
  /\ next  \in [Task -> Node \cup {NULL}]
  /\ mine  \in [Task -> Node \cup {NULL}]
  /\ out   \in [Task -> Answer \cup {None}]
  /\ raced \in BOOLEAN

\* However the unlocked insertions race, even when one process assigns the
\* fields of the node of another, next always leads to a node that was
\* published earlier: no chain ever becomes a cycle.
OlderNext == \A n \in Node : link[n] < n

\* The inductive invariant: pointers that another task may load are no younger
\* than the newest node, and a task that fills in a node got its next before
\* any node it may assign to was published.
Inv ==
  /\ TypeOK
  /\ OlderNext
  /\ \A b \in Bucket : hash_tbl[b] <= count
  /\ \A t \in Task :
       /\ pc[t] \in {"set_walk", "set_store", "set_next", "set_publish",
                    "set_pid", "set_curid", "set_link"} => arg[t] \in Command
       /\ pc[t] \in {"set_store", "format", "copy"} => cur[t] # NULL
       /\ pc[t] = "set_publish" => next[t] <= count
       /\ pc[t] \in Filling =>
            next[t] < mine[t] /\ mine[t] <= hash_tbl[Key(t)]

\* At most so many steps has a call of t left: a round of a loop for every node
\* that is not younger than cur[t], and those after the loop.
AfterLoop == [idle |-> 0,
              set_walk |-> 6, set_next |-> 5, set_publish |-> 4,
              set_pid |-> 3, set_curid |-> 2, set_link |-> 1, set_store |-> 1,
              read_walk |-> 4, format |-> 3, copy |-> 2, return |-> 1]

StepsLeft(t) == cur[t] + AfterLoop[pc[t]]

\* No task has to wait for another one, and none can keep it in a loop: what
\* the others do to the chain under a call never gives it more steps to take.
WaitFree == [][\A t \in Task : pc[t] # "idle" =>
                 \/ UNCHANGED <<pc[t], cur[t]>>
                 \/ StepsLeft(t)' < StepsLeft(t)]_vars

\* So every write of the sysfs file and every read of the device returns.
CallsReturn == \A t \in Task : pc[t] # "idle" ~> pc[t] = "idle"

\* What the assignment asks for: a process reads the result of the command it
\* wrote last, computed for itself, and -EINVAL if it wrote none.
SetThenRead == \A t \in Task : pc[t] = "return" =>
  out[t] = IF arg[t] = None THEN None ELSE getans(arg[t], t)

\* It holds as long as every process sets its first command while no other
\* process of its bucket is inside the driver, be it to set a command or to
\* read, however all later calls overlap.
SetThenReadAlone == ~ raced => SetThenRead
=============================================================================
