------------------------------ MODULE TgidTable ------------------------------
(***************************************************************************)
(* The driver of A1/Part3/driver.c: a hash table of commands keyed by the  *)
(* thread-group id, with one mutex per bucket.  Writing the sysfs file     *)
(* runs cs614sys_set and find_and_update, reading the device runs          *)
(* demo_read and resolve.  Each action is one stretch of code between two  *)
(* points where another task can interfere.                                *)
(***************************************************************************)
EXTENDS Naturals, Sequences

CONSTANTS
  Task,      \* tasks (threads) that call into the driver
  TgidOf,    \* TgidOf[t]: current->tgid while t runs
  BUCKETS,   \* number of buckets of hash_tbl, a power of two
  Command,   \* 0..7 in the code
  Input,     \* integers that user space writes into the sysfs file
  Length,    \* lengths user space passes to read()
  Node,      \* the struct hash_node objects kzalloc can hand out
  NoTask,    \* a mutex nobody holds
  None       \* NULL, and the contents of memory kzalloc has cleared

ASSUME BucketsAssumption == BUCKETS \in Nat \ {0}

ASSUME TaskAssumption ==
  /\ TgidOf \in [Task -> Nat \ {0}]
  /\ NoTask \notin Task

\* What getans formats is told apart by the command it answers and by the task
\* that runs it, whose pid, priority or counters it shows.
Answer == [id : Command, by : Task]

ASSUME CommandAssumption ==
  /\ Command \subseteq Input
  /\ 0 \in Command
  /\ None \notin Input
  /\ None \notin Node \cup Nat \cup Answer

VARIABLES
  locks,   \* locks[b]: the holder of the mutex of bucket b
  chain,   \* chain[b]: hash_tbl[b] and the next pointers, newest node first
  tgid,    \* tgid[n]: n->tgid, None while n is not allocated
  curid,   \* curid[n]: n->curid
  buf,     \* buf[n]: n->buf, the answer its first and its last bytes come from
  pc,      \* pc[t]: where task t is
  arg,     \* arg[t]: the command t sets, or the one its read resolved
  temp,    \* temp[t]: the node whose buf demo_read keeps a pointer to
  next,    \* next[t]: the local next of find_and_update, a chain
  out      \* out[t]: what t's read has measured and copied to user space

shared == <<locks, chain, tgid, curid, buf>>
local  == <<arg, temp, next, out>>
vars   == <<shared, pc, local>>

Bucket == 0 .. BUCKETS - 1

\* tgid & (BUCKETS - 1), for BUCKETS a power of two.
myhash(g) == g % BUCKETS

Key(t) == myhash(TgidOf[t])

\* sprintf writes a buf front to back: first stands for the leading bytes, last
\* for the trailing ones with the terminating NUL.
Buffer == [first : Answer \cup {None}, last : Answer \cup {None}]

Measured == [len   : Answer \cup {None},
             first : Answer \cup {None},
             last  : Answer \cup {None}]

Blank == [first |-> None, last |-> None]

Unread == [len |-> None, first |-> None, last |-> None]

getans(id, t) == [id |-> id, by |-> t]

Init ==
  /\ locks = [b \in Bucket |-> NoTask]
  /\ chain = [b \in Bucket |-> <<>>]
  /\ tgid  = [n \in Node |-> None]
  /\ curid = [n \in Node |-> 0]
  /\ buf   = [n \in Node |-> Blank]
  /\ pc    = [t \in Task |-> "idle"]
  /\ arg   = [t \in Task |-> None]
  /\ temp  = [t \in Task |-> None]
  /\ next  = [t \in Task |-> <<>>]
  /\ out   = [t \in Task |-> Unread]

Goto(t, from, to) ==
  /\ pc[t] = from
  /\ pc' = [pc EXCEPT ![t] = to]

mutex_lock(t) ==
  /\ locks[Key(t)] = NoTask
  /\ locks' = [locks EXCEPT ![Key(t)] = t]

mutex_unlock(t) == locks' = [locks EXCEPT ![Key(t)] = NoTask]

\* Mutant: the bucket is taken for the key.
MatchBucket(c, g) == DOMAIN c

\* The positions in chain c of the nodes that belong to group g.
Match(c, g) == {i \in DOMAIN c : tgid[c[i]] = g}

\* The node the traversal of a chain stops at: the first that matches.
FirstMatch(c, g) ==
  c[CHOOSE i \in Match(c, g) : \A j \in Match(c, g) : i <= j]

-----------------------------------------------------------------------------
(***************************************************************************)
(* cs614sys_set, find_and_update.                                          *)
(***************************************************************************)

\* Mutant: the range check is forgotten.
cs614sys_setUnchecked(t, newval) ==
  /\ Goto(t, "idle", "set_lock")
  /\ arg' = [arg EXCEPT ![t] = newval]
  /\ UNCHANGED <<shared, temp, next, out>>

\* kstrtoint and the range check; a value out of range returns -EINVAL and
\* changes nothing.
cs614sys_set(t, newval) ==
  /\ newval \in Command
  /\ Goto(t, "idle", "set_lock")
  /\ arg' = [arg EXCEPT ![t] = newval]
  /\ UNCHANGED <<shared, temp, next, out>>

\* Mutant: find_and_update takes no mutex, as in A1/Part2.
SetLockNever(t) ==
  /\ Goto(t, "set_lock", "set_find")
  /\ UNCHANGED <<shared, local>>

SetLock(t) ==
  /\ Goto(t, "set_lock", "set_find")
  /\ mutex_lock(t)
  /\ UNCHANGED <<chain, tgid, curid, buf, local>>

SetExisting(t) ==
  /\ Match(chain[Key(t)], TgidOf[t]) # {}
  /\ Goto(t, "set_find", "set_unlock")
  /\ curid' = [curid EXCEPT ![FirstMatch(chain[Key(t)], TgidOf[t])] = arg[t]]
  /\ UNCHANGED <<locks, chain, tgid, buf, local>>

\* Mutant: only the head of the bucket is compared.
SetMissingHead(t) ==
  /\ 1 \notin Match(chain[Key(t)], TgidOf[t])
  /\ Goto(t, "set_find", "set_publish")
  /\ UNCHANGED <<shared, local>>

SetMissing(t) ==
  /\ Match(chain[Key(t)], TgidOf[t]) = {}
  /\ Goto(t, "set_find", "set_publish")
  /\ UNCHANGED <<shared, local>>

\* Mutant: next is read after the head has been replaced.
SetPublishLost(t) ==
  /\ Goto(t, "set_publish", "set_link")
  /\ \E n \in Node :
       /\ tgid[n] = None
       /\ chain' = [chain EXCEPT ![Key(t)] = <<n>>]
       /\ tgid'  = [tgid EXCEPT ![n] = 0]
       /\ curid' = [curid EXCEPT ![n] = 0]
       /\ buf'   = [buf EXCEPT ![n] = Blank]
  /\ next' = [next EXCEPT ![t] = <<>>]
  /\ UNCHANGED <<locks, arg, temp, out>>

\* The zeroed node becomes the head of the bucket before it is filled in;
\* its next is NULL, so the rest of the chain hangs on the local variable.
SetPublish(t) ==
  /\ Goto(t, "set_publish", "set_link")
  /\ \E n \in Node :
       /\ tgid[n] = None
       /\ chain' = [chain EXCEPT ![Key(t)] = <<n>>]
       /\ tgid'  = [tgid EXCEPT ![n] = 0]
       /\ curid' = [curid EXCEPT ![n] = 0]
       /\ buf'   = [buf EXCEPT ![n] = Blank]
  /\ next' = [next EXCEPT ![t] = chain[Key(t)]]
  /\ UNCHANGED <<locks, arg, temp, out>>

\* hash_tbl[key]->tgid, ->curid and ->next are assigned through the head.
SetLink(t) ==
  LET n == Head(chain[Key(t)]) IN
  /\ Goto(t, "set_link", "set_unlock")
  /\ tgid'  = [tgid EXCEPT ![n] = TgidOf[t]]
  /\ curid' = [curid EXCEPT ![n] = arg[t]]
  /\ chain' = [chain EXCEPT ![Key(t)] = <<n>> \o next[t]]
  /\ UNCHANGED <<locks, buf, local>>

SetUnlock(t) ==
  /\ Goto(t, "set_unlock", "idle")
  /\ mutex_unlock(t)
  /\ arg'  = [arg EXCEPT ![t] = None]
  /\ next' = [next EXCEPT ![t] = <<>>]
  /\ UNCHANGED <<chain, tgid, curid, buf, temp, out>>

-----------------------------------------------------------------------------
(***************************************************************************)
(* demo_read, resolve, getans.                                             *)
(***************************************************************************)

\* A length above 16 returns -EINVAL and changes nothing.
demo_read(t, length) ==
  /\ length <= 16
  /\ Goto(t, "idle", "read_lock")
  /\ UNCHANGED <<shared, local>>

ReadLock(t) ==
  /\ Goto(t, "read_lock", "resolve")
  /\ mutex_lock(t)
  /\ UNCHANGED <<chain, tgid, curid, buf, local>>

\* Mutant: an answer already in buf is not computed again.
ResolveHitCached(t) ==
  LET n == FirstMatch(chain[Key(t)], TgidOf[t]) IN
  /\ Match(chain[Key(t)], TgidOf[t]) # {}
  /\ Goto(t, "resolve", "format")
  /\ temp' = [temp EXCEPT ![t] = n]
  /\ arg'  = [arg EXCEPT ![t] = curid[n]]
  /\ buf'  = IF buf[n].first # None THEN buf
             ELSE [buf EXCEPT ![n].first = getans(curid[n], t)]
  /\ UNCHANGED <<locks, chain, tgid, curid, next, out>>

\* The node is found and sprintf starts to overwrite its buf.
ResolveHit(t) ==
  LET n == FirstMatch(chain[Key(t)], TgidOf[t]) IN
  /\ Match(chain[Key(t)], TgidOf[t]) # {}
  /\ Goto(t, "resolve", "format")
  /\ temp' = [temp EXCEPT ![t] = n]
  /\ arg'  = [arg EXCEPT ![t] = curid[n]]
  /\ buf'  = [buf EXCEPT ![n].first = getans(curid[n], t)]
  /\ UNCHANGED <<locks, chain, tgid, curid, next, out>>

ResolveMiss(t) ==
  /\ Match(chain[Key(t)], TgidOf[t]) = {}
  /\ Goto(t, "resolve", "read_unlock")
  /\ UNCHANGED <<shared, local>>

Format(t) ==
  /\ Goto(t, "format", "read_unlock")
  /\ buf' = [buf EXCEPT ![temp[t]].last = getans(arg[t], t)]
  /\ UNCHANGED <<locks, chain, tgid, curid, local>>

\* Mutant: the early return of an unknown group skips mutex_unlock.
ReadUnlockEarly(t) ==
  /\ Goto(t, "read_unlock", IF temp[t] = None THEN "return" ELSE "strlen")
  /\ IF temp[t] = None THEN locks' = locks ELSE mutex_unlock(t)
  /\ UNCHANGED <<chain, tgid, curid, buf, local>>

ReadUnlock(t) ==
  /\ Goto(t, "read_unlock", IF temp[t] = None THEN "return" ELSE "strlen")
  /\ mutex_unlock(t)
  /\ UNCHANGED <<chain, tgid, curid, buf, local>>

\* From here on demo_read uses cur->buf without the mutex.
Strlen(t) ==
  /\ Goto(t, "strlen", "copy")
  /\ out' = [out EXCEPT ![t].len = buf[temp[t]].last]
  /\ UNCHANGED <<shared, arg, temp, next>>

CopyToUser(t) ==
  /\ Goto(t, "copy", "return")
  /\ out' = [out EXCEPT ![t].first = buf[temp[t]].first,
                        ![t].last  = buf[temp[t]].last]
  /\ UNCHANGED <<shared, arg, temp, next>>

\* -EINVAL when nothing was resolved, otherwise the number of bytes copied.
ReadReturn(t) ==
  /\ Goto(t, "return", "idle")
  /\ arg'  = [arg EXCEPT ![t] = None]
  /\ temp' = [temp EXCEPT ![t] = None]
  /\ out'  = [out EXCEPT ![t] = Unread]
  /\ UNCHANGED <<shared, next>>

-----------------------------------------------------------------------------
Acquire(t) == SetLock(t) \/ ReadLock(t)

Advance(t) ==
  \/ SetExisting(t) \/ SetMissing(t) \/ SetPublish(t) \/ SetLink(t)
  \/ SetUnlock(t)
  \/ ResolveHit(t) \/ ResolveMiss(t) \/ Format(t) \/ ReadUnlock(t)
  \/ Strlen(t) \/ CopyToUser(t) \/ ReadReturn(t)

Start(t) ==
  \/ \E newval \in Input : cs614sys_set(t, newval)
  \/ \E length \in Length : demo_read(t, length)

Next == \E t \in Task : Start(t) \/ Acquire(t) \/ Advance(t)

Spec == Init /\ [][Next]_vars

(***************************************************************************)
(* A task inside the driver keeps running, and a kernel mutex hands itself *)
(* to its longest waiter, so no waiter is passed over for ever.  Nobody is *)
(* obliged to start a call.                                                *)
(***************************************************************************)
Fairness == \A t \in Task : WF_vars(Advance(t)) /\ SF_vars(Acquire(t))

FairSpec == Spec /\ Fairness

-----------------------------------------------------------------------------
(***************************************************************************)
(* Properties.                                                             *)
(***************************************************************************)

Location == {"idle", "set_lock", "set_find", "set_publish", "set_link",
             "set_unlock", "read_lock", "resolve", "format", "read_unlock",
             "strlen", "copy", "return"}

\* The code between mutex_lock and mutex_unlock.
Critical == {"set_find", "set_publish", "set_link", "set_unlock",
             "resolve", "format", "read_unlock"}

\* The type of every variable; in particular no id out of 0..7 is stored or
\* answered.
TypeOK ==
  /\ locks \in [Bucket -> Task \cup {NoTask}]
  /\ chain \in [Bucket -> Seq(Node)]
  /\ tgid  \in [Node -> {TgidOf[t] : t \in Task} \cup {0, None}]
  /\ curid \in [Node -> Command]
  /\ buf   \in [Node -> Buffer]
  /\ pc    \in [Task -> Location]
  /\ arg   \in [Task -> Command \cup {None}]
  /\ temp  \in [Task -> Node \cup {None}]
  /\ next  \in [Task -> Seq(Node)]
  /\ out   \in [Task -> Measured]

\* A task is between mutex_lock and mutex_unlock exactly when it is the holder
\* of the mutex of its own bucket, and of no other: no two tasks walk or
\* change one chain at the same time.
MutualExclusion ==
  /\ \A t \in Task : pc[t] \in Critical <=> locks[Key(t)] = t
  /\ \A b \in Bucket : locks[b] # NoTask => Key(locks[b]) = b

\* However the threads of a process race to set its first command, and
\* whatever other processes share its bucket, the process has one node.
OneNodePerGroup ==
  \A b \in Bucket : \A i, j \in DOMAIN chain[b] :
    tgid[chain[b][i]] = tgid[chain[b][j]] => i = j

\* A read that succeeds never shows the answer of another process, however
\* the processes that share the bucket interleave.
ResultsStayInGroup ==
  \A t \in Task : pc[t] = "return" /\ arg[t] # None =>
    \A piece \in {"len", "first", "last"} :
      /\ out[t][piece] \in Answer
      /\ TgidOf[out[t][piece].by] = TgidOf[t]

\* The bytes and the length a read returns are those of the answer it
\* resolved.
Intact(t) ==
  pc[t] = "return" /\ arg[t] # None =>
    out[t] = [len   |-> getans(arg[t], t),
              first |-> getans(arg[t], t),
              last  |-> getans(arg[t], t)]

Alone(t) == \A u \in Task \ {t} : TgidOf[u] # TgidOf[t]

\* In a process with a single thread a read returns the whole answer to the
\* command it resolved, although buf is used after mutex_unlock.
LoneReadsIntact ==
  \A t \in Task : Alone(t) => Intact(t)

\* What the assignment asks of the driver of a multi-threaded process: the
\* value a thread reads is the result of the command.
ReadsIntact == \A t \in Task : Intact(t)

\* Every write of the sysfs file and every read of the device returns.
CallsReturn == \A t \in Task : pc[t] # "idle" ~> pc[t] = "idle"

-----------------------------------------------------------------------------
(***************************************************************************)
(* The inductive invariant.                                                *)
(***************************************************************************)
Unique(c) == \A i, j \in DOMAIN c : tgid[c[i]] = tgid[c[j]] => i = j

Hashed(c, b) == \A i \in DOMAIN c : tgid[c[i]] \in Nat \ {0} /\ myhash(tgid[c[i]]) = b

\* What the local variables hold while a call is under way.
LocalInv == \A t \in Task :
  /\ pc[t] \in {"set_lock", "set_find", "set_publish", "set_link"} =>
       arg[t] \in Command
  /\ pc[t] \in {"idle", "set_lock", "set_find", "set_publish", "set_link",
                "set_unlock", "read_lock", "resolve"} => temp[t] = None
  /\ pc[t] \in {"idle", "read_lock", "resolve"} => arg[t] = None
  /\ pc[t] \in {"format", "strlen", "copy"} => temp[t] \in Node
  /\ pc[t] \in {"format", "read_unlock", "strlen", "copy", "return"} =>
       (temp[t] = None <=> arg[t] = None)

\* The nodes of a bucket belong to distinct groups that hash to it, except
\* while its head is a node that is not filled in yet.
ChainInv ==
  /\ \A b \in Bucket :
       (\A t \in Task : pc[t] = "set_link" => Key(t) # b) => Hashed(chain[b], b)
  /\ \A t \in Task : pc[t] = "set_publish" => Match(chain[Key(t)], TgidOf[t]) = {}
  /\ \A t \in Task : pc[t] = "set_link" =>
       /\ Len(chain[Key(t)]) = 1
       /\ tgid[chain[Key(t)][1]] = 0
       /\ Unique(next[t])
       /\ Hashed(next[t], Key(t))
       /\ Match(next[t], TgidOf[t]) = {}
  /\ \A t, u \in Task :
       /\ pc[t] = "set_link"
       /\ pc[u] = "set_link"
       /\ chain[Key(t)][1] = chain[Key(u)][1]
       => t = u

\* Only threads of the owning process write into the buf of a node.
BufInv ==
  /\ \A n \in Node : \A piece \in {"first", "last"} :
       buf[n][piece] # None => TgidOf[buf[n][piece].by] = tgid[n]
  /\ \A t \in Task : temp[t] # None => tgid[temp[t]] = TgidOf[t]
  /\ \A t \in Task : \A piece \in {"len", "first", "last"} :
       out[t][piece] # None => TgidOf[out[t][piece].by] = TgidOf[t]

\* The progress of every read that found its node.
FilledInv == \A t \in Task : temp[t] # None =>
  /\ pc[t] # "return" => buf[temp[t]].first # None
  /\ pc[t] \in {"read_unlock", "strlen", "copy"} => buf[temp[t]].last # None
  /\ pc[t] = "copy" => out[t].len # None
  /\ pc[t] = "return" => None \notin {out[t].len, out[t].first, out[t].last}

\* The progress of the read of a task that is alone in its process.
LoneInv == \A t \in Task : Alone(t) /\ temp[t] # None =>
  /\ pc[t] # "return" => buf[temp[t]].first = getans(arg[t], t)
  /\ pc[t] \in {"read_unlock", "strlen", "copy"} =>
       buf[temp[t]].last = getans(arg[t], t)
  /\ pc[t] = "copy" => out[t].len = getans(arg[t], t)
  /\ Intact(t)

Inv == TypeOK /\ MutualExclusion /\ OneNodePerGroup /\ LocalInv /\ ChainInv
       /\ BufInv /\ FilledInv /\ LoneInv

-----------------------------------------------------------------------------
(***************************************************************************)
(* The driver implements CommandStore.  Between SetPublish and SetLink the *)
(* chain of a bucket is the local next of the task that inserts.           *)
(***************************************************************************)
Inserting(b) == {t \in Task : pc[t] = "set_link" /\ Key(t) = b}

LinkedChain(b) ==
  IF Inserting(b) = {} THEN chain[b]
  ELSE next[CHOOSE t \in Inserting(b) : TRUE]

StoredCommand(g) ==
  LET c == LinkedChain(myhash(g)) IN
  IF Match(c, g) = {} THEN None ELSE curid[FirstMatch(c, g)]

CallOf(t) ==
  CASE pc[t] = "idle" -> <<"idle", None>>
    [] pc[t] \in {"set_lock", "set_find", "set_publish", "set_link"} ->
         <<"set", arg[t]>>
    [] pc[t] \in {"read_lock", "resolve"} -> <<"read", None>>
    [] OTHER -> <<"done", arg[t]>>

Store == INSTANCE CommandStore WITH
  GroupOf   <- TgidOf,
  NoCommand <- None,
  cmd       <- [g \in {TgidOf[t] : t \in Task} |-> StoredCommand(g)],
  call      <- [t \in Task |-> CallOf(t)]

\* The command each read answers is the last one its process set, and every
\* call takes effect at one instant between its start and its return: no set
\* is lost to a race or to a neighbour's insertion into the same bucket.
RefinesStore == Store!Spec
=============================================================================
