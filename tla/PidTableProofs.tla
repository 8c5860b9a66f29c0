--------------------------- MODULE PidTableProofs ---------------------------
(***************************************************************************)
(* Theorems about PidTable, for every number of processes, buckets and     *)
(* nodes.                                                                  *)
(***************************************************************************)
EXTENDS PidTable, TLAPS

USE PidAssumption

LEMMA KeyInBucket == \A t \in Task : Key(t) \in Bucket
BY DEF Key, myhash, Bucket

\* Every step is a stutter or an action of one task.
LEMMA NextCases ==
  ASSUME Next
  PROVE  \E t \in Task :
           \/ \E c \in Input : cs614sys_set(t, c)
           \/ \E l \in Length : demo_read(t, l)
           \/ Walk(t) \/ SetHit(t) \/ SetStore(t) \/ SetMiss(t) \/ SetNext(t)
           \/ SetPublish(t) \/ SetPid(t) \/ SetCurid(t) \/ SetLink(t)
           \/ ReadMiss(t) \/ ReadHit(t) \/ Format(t) \/ CopyToUser(t)
           \/ ReadReturn(t)
BY DEF Next, Start, Advance

LEMMA NextRecords ==
  ASSUME Inv, Next
  PROVE  raced' \in BOOLEAN
BY DEF Next, Record, Inv, TypeOK

LEMMA InitInv == Init => Inv
<1>. SUFFICES ASSUME Init PROVE Inv
  OBVIOUS
<1>1. raced \in BOOLEAN
  BY DEF Init
<1>. QED
  BY <1>1, KeyInBucket DEF Init, Inv, TypeOK, OlderNext, Node, NULL, Filling

\* The fields of a node are only assigned through the node the task has
\* allocated or through a younger one.
LEMMA TargetLemma ==
  ASSUME Inv, NEW t \in Task, pc[t] \in Filling
  PROVE  /\ Target(t) \subseteq Node
         /\ \A n \in Target(t) : next[t] < n
<1>. USE KeyInBucket DEF Inv, TypeOK
<1>1. /\ next[t] \in Nat /\ mine[t] \in Nat /\ hash_tbl[Key(t)] \in Nat
      /\ mine[t] <= MaxNode /\ hash_tbl[Key(t)] <= MaxNode
  BY DEF Node, NULL
<1>2. next[t] < mine[t] /\ mine[t] <= hash_tbl[Key(t)]
  OBVIOUS
<1>. QED
  BY <1>1, <1>2 DEF Target, Node

LEMMA NextInv == Inv /\ [Next]_vars => Inv'
<1>. SUFFICES ASSUME Inv, [Next]_vars PROVE Inv'
  OBVIOUS
<1>. USE KeyInBucket DEF Inv, TypeOK, OlderNext, table, Goto, Updating, Filling
<1>1. CASE UNCHANGED vars
  BY <1>1 DEF vars
<1>. SUFFICES ASSUME raced' \in BOOLEAN, Next PROVE Inv'
  BY <1>1, NextRecords
<1>2. ASSUME NEW t \in Task, NEW c \in Input, cs614sys_set(t, c) PROVE Inv'
  BY <1>2 DEF cs614sys_set
<1>3. ASSUME NEW t \in Task, NEW l \in Length, demo_read(t, l) PROVE Inv'
  BY <1>3 DEF demo_read
<1>4. ASSUME NEW t \in Task, Walk(t) PROVE Inv'
  BY <1>4 DEF Walk
<1>5. ASSUME NEW t \in Task, SetHit(t) \/ ReadHit(t) PROVE Inv'
  BY <1>5 DEF SetHit, ReadHit
<1>6. ASSUME NEW t \in Task, SetStore(t) PROVE Inv'
  BY <1>6 DEF SetStore
<1>7. ASSUME NEW t \in Task, SetMiss(t) \/ ReadMiss(t) PROVE Inv'
  BY <1>7 DEF SetMiss, ReadMiss
<1>8. ASSUME NEW t \in Task, SetNext(t) PROVE Inv'
  BY <1>8 DEF SetNext
<1>9. ASSUME NEW t \in Task, SetPublish(t) PROVE Inv'
  <2>0. /\ count \in Nat /\ count < MaxNode
        /\ \A b \in Bucket : hash_tbl[b] \in Nat /\ hash_tbl[b] <= count
        /\ \A u \in Task : mine[u] \in Nat /\ next[u] \in Nat
    BY <1>9 DEF SetPublish, Node, NULL
  <2>1. /\ count + 1 \in Node /\ count' = count + 1
        /\ \A b \in Bucket : hash_tbl'[b] = IF b = Key(t) THEN count + 1 ELSE hash_tbl[b]
    BY <1>9, <2>0 DEF SetPublish, Node
  <2>2. /\ pc[t] = "set_publish" /\ pc' = [pc EXCEPT ![t] = "set_pid"]
        /\ mine' = [mine EXCEPT ![t] = count + 1]
        /\ UNCHANGED <<pid, curid, link, buf, arg, cur, next, out>>
        /\ hash_tbl' = [hash_tbl EXCEPT ![Key(t)] = count + 1]
    BY <1>9 DEF SetPublish
  <2>3. TypeOK'
    BY <2>0, <2>1, <2>2 DEF Node
  <2>4. ASSUME NEW u \in Task, pc'[u] \in Filling
        PROVE  next'[u] < mine'[u] /\ mine'[u] <= hash_tbl'[Key(u)]
    <3>1. CASE u = t
      <4>1. /\ next'[t] = next[t] /\ next[t] <= count
            /\ mine'[t] = count + 1 /\ hash_tbl'[Key(t)] = count + 1
        BY <2>1, <2>2
      <4>. QED
        BY <2>0, <3>1, <4>1
    <3>2. CASE u # t
      <4>1. /\ next[u] < mine[u] /\ mine[u] <= hash_tbl[Key(u)]
            /\ mine'[u] = mine[u] /\ next'[u] = next[u]
        BY <2>2, <2>4, <3>2
      <4>2. /\ mine[u] \in Nat /\ hash_tbl[Key(u)] \in Nat
            /\ hash_tbl'[Key(u)] \in Nat /\ hash_tbl[Key(u)] <= hash_tbl'[Key(u)]
        BY <2>0, <2>1
      <4>. QED
        BY <4>1, <4>2
    <3>. QED
      BY <3>1, <3>2
  <2>5. ASSUME NEW u \in Task, pc'[u] = "set_publish"
        PROVE  next'[u] <= count'
    <3>1. next[u] <= count /\ next'[u] = next[u]
      BY <2>2, <2>5
    <3>. QED
      BY <2>0, <2>1, <3>1
  <2>6. \A b \in Bucket : hash_tbl'[b] <= count'
    BY <2>0, <2>1
  <2>. QED
    BY <2>2, <2>3, <2>4, <2>5, <2>6
<1>10. ASSUME NEW t \in Task, SetPid(t) PROVE Inv'
  BY <1>10, TargetLemma DEF SetPid
<1>11. ASSUME NEW t \in Task, SetCurid(t) PROVE Inv'
  BY <1>11, TargetLemma DEF SetCurid
<1>12. ASSUME NEW t \in Task, SetLink(t) PROVE Inv'
  BY <1>12, TargetLemma DEF SetLink
<1>13. ASSUME NEW t \in Task, Format(t) PROVE Inv'
  BY <1>13 DEF Format, getans, Answer, NULL
<1>14. ASSUME NEW t \in Task, CopyToUser(t) PROVE Inv'
  BY <1>14 DEF CopyToUser, NULL
<1>15. ASSUME NEW t \in Task, ReadReturn(t) PROVE Inv'
  BY <1>15 DEF ReadReturn
<1>. QED
  BY <1>1, <1>2, <1>3, <1>4, <1>5, <1>6, <1>7, <1>8, <1>9, <1>10, <1>11, <1>12,
     <1>13, <1>14, <1>15, NextCases

\* Inv is an invariant of the driver.
THEOREM Invariance == Spec => []Inv
BY InitInv, NextInv, PTL DEF Spec

\* No id out of 0..4 is ever stored, and every pointer is NULL or a node.
THEOREM TypeCorrect == Spec => []TypeOK
BY Invariance, PTL DEF Inv

\* However many processes insert without a lock, no chain ever becomes a
\* cycle, so every traversal comes to an end.
THEOREM ChainsAreAcyclic == Spec => []OlderNext
BY Invariance, PTL DEF Inv
-----------------------------------------------------------------------------
(***************************************************************************)
(* What a bucket looks like as long as nothing, neither an insertion nor a *)
(* read nor an update, has overlapped an insertion.  Each process has at   *)
(* most one node, mine[t], and the nodes of a bucket are chained from the  *)
(* newest to the oldest: since nodes are numbered as they are published,   *)
(* "the chain from n leads to m" is m <= n, and no proof has to follow     *)
(* pointers.                                                               *)
(***************************************************************************)
Peer(t, n) == \E u \in Task : Key(u) = Key(t) /\ mine[u] = n

\* What the next of t's node is, or will be.
Before(t) == IF pc[t] \in Filling THEN next[t] ELSE link[mine[t]]

Walking == {"set_walk", "read_walk"}

Fresh ==
  /\ \A t \in Task : mine[t] <= count
  /\ \A t, u \in Task : mine[t] # NULL /\ mine[t] = mine[u] => t = u

ChainInv ==
  \A t \in Task :
    /\ hash_tbl[Key(t)] = NULL \/ Peer(t, hash_tbl[Key(t)])
    /\ mine[t] <= hash_tbl[Key(t)]
    /\ mine[t] # NULL =>
         /\ Before(t) = NULL \/ Peer(t, Before(t))
         /\ \A u \in Task : Key(u) = Key(t) /\ mine[u] < mine[t] => mine[u] <= Before(t)
    /\ mine[t] # NULL /\ pc[t] # "set_pid" => pid[mine[t]] = PidOf[t]

\* Where a call is in its chain: it has not passed the node of its process.
CallInv ==
  \A t \in Task :
    /\ pc[t] \in Walking => /\ cur[t] = NULL \/ Peer(t, cur[t])
                            /\ mine[t] <= cur[t]
    /\ pc[t] \in {"set_store", "format", "copy"} => cur[t] = mine[t]
    /\ pc[t] \in {"set_next", "set_publish"} => mine[t] = NULL
    /\ pc[t] = "set_publish" => next[t] = hash_tbl[Key(t)]
    /\ pc[t] \in Filling => mine[t] # NULL /\ mine[t] = hash_tbl[Key(t)]

\* The command a process has set, in its node, in the buffer and in the answer.
CommandInv ==
  \A t \in Task :
    /\ mine[t] = NULL /\ pc[t] \notin Updating => arg[t] = None
    /\ mine[t] # NULL /\ pc[t] \notin {"set_walk", "set_store", "set_pid", "set_curid"} =>
         curid[mine[t]] = arg[t] /\ arg[t] # None
    /\ pc[t] = "copy" => buf[mine[t]] = getans(arg[t], t)
    /\ pc[t] = "return" => out[t] = IF arg[t] = None THEN None ELSE getans(arg[t], t)
    /\ pc[t] # "return" => out[t] = None

AloneInv == ~ raced => InsertionsAlone /\ Fresh /\ ChainInv /\ CallInv /\ CommandInv

-----------------------------------------------------------------------------
LEMMA AloneInit == Init => AloneInv
<1>. SUFFICES ASSUME Init PROVE AloneInv
  OBVIOUS
<1>1. \A t \in Task : Key(t) \in Bucket /\ pc[t] = "idle" /\ mine[t] = NULL
                      /\ hash_tbl[Key(t)] = NULL /\ arg[t] = None /\ out[t] = None
  BY KeyInBucket DEF Init
<1>2. InsertionsAlone
  BY <1>1 DEF InsertionsAlone, Inserting, Updating, Filling
<1>3. Fresh
  BY <1>1 DEF Fresh, Init, NULL
<1>4. ChainInv
  BY <1>1 DEF ChainInv, NULL
<1>5. CallInv
  BY <1>1 DEF CallInv, Walking, Filling
<1>6. CommandInv
  BY <1>1 DEF CommandInv, Updating
<1>. QED
  BY <1>2, <1>3, <1>4, <1>5, <1>6 DEF AloneInv

\* Numbers, so that nodes can be compared.
LEMMA Nodes ==
  ASSUME Inv, NEW t \in Task
  PROVE  /\ mine[t] \in Nat /\ cur[t] \in Nat /\ next[t] \in Nat
         /\ Key(t) \in Bucket /\ hash_tbl[Key(t)] \in Nat /\ hash_tbl[Key(t)] <= count
         /\ count \in Nat
         /\ mine[t] # NULL => mine[t] \in Node /\ link[mine[t]] \in Nat /\ link[mine[t]] < mine[t]
BY KeyInBucket DEF Inv, TypeOK, OlderNext, Node, NULL

\* A walk stands on a node whose fields have all been assigned.
LEMMA Met ==
  ASSUME Inv, Fresh, ChainInv, CallInv, InsertionsAlone,
         NEW t \in Task, pc[t] \in Walking, cur[t] # NULL
  PROVE  \E u \in Task : /\ Key(u) = Key(t) /\ mine[u] = cur[t] /\ mine[u] # NULL
                         /\ u # t => pc[u] \notin Filling
                         /\ pid[cur[t]] = PidOf[u]
<1>1. PICK u \in Task : Key(u) = Key(t) /\ mine[u] = cur[t]
  BY DEF CallInv, Peer
<1>2. pc[u] \notin Filling
  BY <1>1 DEF InsertionsAlone, Inserting, Filling, Walking
<1>. QED
  BY <1>1, <1>2 DEF ChainInv, Filling

\* A call that finds a node finds its own.
LEMMA Hit ==
  ASSUME Inv, Fresh, ChainInv, CallInv, InsertionsAlone,
         NEW t \in Task, pc[t] \in Walking, cur[t] # NULL, pid[cur[t]] = PidOf[t]
  PROVE  cur[t] = mine[t] /\ mine[t] # NULL
BY Met, PidAssumption

LEMMA AloneStep ==
  ASSUME Inv, Inv', Fresh, ChainInv, CallInv, CommandInv, InsertionsAlone, InsertionsAlone', Next
  PROVE  Fresh' /\ ChainInv' /\ CallInv' /\ CommandInv'
<1>. USE KeyInBucket, Nodes DEF table, Goto
<1>1. ASSUME NEW t \in Task, NEW c \in Input, cs614sys_set(t, c) PROVE Fresh' /\ ChainInv' /\ CallInv' /\ CommandInv'
  <2>1. Fresh'
    BY <1>1 DEF cs614sys_set, Fresh, Inv, TypeOK, Updating, Filling, Key, NULL
  <2>2. ChainInv'
    BY <1>1 DEF cs614sys_set, ChainInv, CallInv, Before, Peer, InsertionsAlone, Inserting, Inv, TypeOK, Updating, Filling, Key, NULL
  <2>3. CallInv'
    BY <1>1 DEF cs614sys_set, CallInv, ChainInv, Fresh, Walking, Peer, Before, Inv, TypeOK, Updating, Filling, Key, NULL
  <2>4. CommandInv'
    BY <1>1 DEF cs614sys_set, CommandInv, CallInv, Fresh, getans, Inv, TypeOK, Updating, Filling, Key, NULL
  <2>. QED
    BY <2>1, <2>2, <2>3, <2>4
<1>2. ASSUME NEW t \in Task, NEW l \in Length, demo_read(t, l) PROVE Fresh' /\ ChainInv' /\ CallInv' /\ CommandInv'
  <2>1. Fresh'
    BY <1>2 DEF demo_read, Fresh, Inv, TypeOK, Updating, Filling, Key, NULL
  <2>2. ChainInv'
    BY <1>2 DEF demo_read, ChainInv, CallInv, Before, Peer, InsertionsAlone, Inserting, Inv, TypeOK, Updating, Filling, Key, NULL
  <2>3. CallInv'
    BY <1>2 DEF demo_read, CallInv, ChainInv, Fresh, Walking, Peer, Before, Inv, TypeOK, Updating, Filling, Key, NULL
  <2>4. CommandInv'
    BY <1>2 DEF demo_read, CommandInv, CallInv, Fresh, getans, Inv, TypeOK, Updating, Filling, Key, NULL
  <2>. QED
    BY <2>1, <2>2, <2>3, <2>4
<1>3. ASSUME NEW t \in Task, Walk(t) PROVE Fresh' /\ ChainInv' /\ CallInv' /\ CommandInv'
  <2>1. Fresh'
    BY <1>3 DEF Walk, Fresh, Inv, TypeOK, Updating, Filling, Key, NULL
  <2>2. ChainInv'
    BY <1>3 DEF Walk, ChainInv, CallInv, Before, Peer, InsertionsAlone, Inserting, Inv, TypeOK, Updating, Filling, Key, NULL
  <2>3. CallInv'
    <3>1. PICK u \in Task : /\ Key(u) = Key(t) /\ mine[u] = cur[t] /\ mine[u] # NULL
                            /\ u # t => pc[u] \notin Filling
                            /\ pid[cur[t]] = PidOf[u]
      BY <1>3, Met DEF Walk, Walking
    <3>2. u # t /\ pc[u] \notin Filling /\ Before(u) = link[cur[t]]
      BY <1>3, <3>1 DEF Walk, Before
    <3>3. link[cur[t]] = NULL \/ Peer(t, link[cur[t]])
      BY <3>1, <3>2 DEF ChainInv, Peer
    <3>4. mine[t] <= link[cur[t]]
      <4>1. mine[t] <= cur[t] /\ mine[t] # cur[t] /\ mine[t] < mine[u]
        BY <1>3, <3>1, <3>2 DEF CallInv, Fresh, Walk, Walking
      <4>. QED
        BY <3>1, <3>2, <4>1 DEF ChainInv
    <3>5. /\ UNCHANGED <<hash_tbl, mine, next, pc>>
          /\ cur' = [cur EXCEPT ![t] = link[cur[t]]] /\ pc[t] \in Walking
      BY <1>3 DEF Walk, Walking
    <3>6. ASSUME NEW w \in Task, pc[w] \in Walking
          PROVE  (cur[w] = NULL \/ Peer(w, cur[w]))' /\ mine'[w] <= cur'[w]
      <4>1. CASE w = t
        <5>1. cur'[w] = link[cur[t]]
          BY <3>5, <4>1 DEF Inv, TypeOK
        <5>. QED
          BY <3>3, <3>4, <3>5, <4>1, <5>1 DEF Peer, Key
      <4>2. CASE w # t
        <5>1. cur'[w] = cur[w]
          BY <3>5, <4>2 DEF Inv, TypeOK
        <5>. QED
          BY <3>5, <3>6, <5>1 DEF Peer, Key, CallInv
      <4>. QED
        BY <4>1, <4>2
    <3>. QED
      BY <1>3, <3>5, <3>6 DEF CallInv, Walking, Inv, TypeOK, Filling, Key
  <2>4. CommandInv'
    BY <1>3 DEF Walk, CommandInv, CallInv, Fresh, getans, Inv, TypeOK, Updating, Filling, Key, NULL
  <2>. QED
    BY <2>1, <2>2, <2>3, <2>4
<1>4. ASSUME NEW t \in Task, SetHit(t) PROVE Fresh' /\ ChainInv' /\ CallInv' /\ CommandInv'
  <2>1. Fresh'
    BY <1>4 DEF SetHit, Fresh, Inv, TypeOK, Updating, Filling, Key, NULL
  <2>2. ChainInv'
    BY <1>4 DEF SetHit, ChainInv, CallInv, Before, Peer, InsertionsAlone, Inserting, Inv, TypeOK, Updating, Filling, Key, NULL
  <2>3. CallInv'
    <3>1. cur[t] = mine[t] /\ mine[t] # NULL
      BY <1>4, Hit DEF SetHit, Walking
    <3>. QED
      BY <1>4, <3>1 DEF SetHit, CallInv, Walking, Peer, Inv, TypeOK, Updating, Filling, Key, NULL
  <2>4. CommandInv'
    BY <1>4 DEF SetHit, CommandInv, CallInv, Fresh, getans, Inv, TypeOK, Updating, Filling, Key, NULL
  <2>. QED
    BY <2>1, <2>2, <2>3, <2>4
<1>5. ASSUME NEW t \in Task, SetStore(t) PROVE Fresh' /\ ChainInv' /\ CallInv' /\ CommandInv'
  <2>1. Fresh'
    BY <1>5 DEF SetStore, Fresh, Inv, TypeOK, Updating, Filling, Key, NULL
  <2>2. ChainInv'
    BY <1>5 DEF SetStore, ChainInv, CallInv, Before, Peer, InsertionsAlone, Inserting, Inv, TypeOK, Updating, Filling, Key, NULL
  <2>3. CallInv'
    BY <1>5 DEF SetStore, CallInv, ChainInv, Fresh, Walking, Peer, Before, Inv, TypeOK, Updating, Filling, Key, NULL
  <2>4. CommandInv'
    BY <1>5 DEF SetStore, CommandInv, CallInv, Fresh, getans, Inv, TypeOK, Updating, Filling, Key, NULL
  <2>. QED
    BY <2>1, <2>2, <2>3, <2>4
<1>6. ASSUME NEW t \in Task, SetMiss(t) PROVE Fresh' /\ ChainInv' /\ CallInv' /\ CommandInv'
  <2>1. Fresh'
    BY <1>6 DEF SetMiss, Fresh, Inv, TypeOK, Updating, Filling, Key, NULL
  <2>2. ChainInv'
    BY <1>6 DEF SetMiss, ChainInv, CallInv, Before, Peer, InsertionsAlone, Inserting, Inv, TypeOK, Updating, Filling, Key, NULL
  <2>3. CallInv'
    BY <1>6 DEF SetMiss, CallInv, ChainInv, Fresh, Walking, Peer, Before, Inv, TypeOK, Updating, Filling, Key, NULL
  <2>4. CommandInv'
    <3>1. mine[t] = NULL
      BY <1>6 DEF SetMiss, CallInv, Walking, NULL
    <3>. QED
      BY <1>6, <3>1 DEF SetMiss, CommandInv, Inv, TypeOK, Updating, Filling, Key, NULL
  <2>. QED
    BY <2>1, <2>2, <2>3, <2>4
<1>7. ASSUME NEW t \in Task, SetNext(t) PROVE Fresh' /\ ChainInv' /\ CallInv' /\ CommandInv'
  <2>1. Fresh'
    BY <1>7 DEF SetNext, Fresh, Inv, TypeOK, Updating, Filling, Key, NULL
  <2>2. ChainInv'
    BY <1>7 DEF SetNext, ChainInv, CallInv, Before, Peer, InsertionsAlone, Inserting, Inv, TypeOK, Updating, Filling, Key, NULL
  <2>3. CallInv'
    BY <1>7 DEF SetNext, CallInv, ChainInv, Fresh, Walking, Peer, Before, Inv, TypeOK, Updating, Filling, Key, NULL
  <2>4. CommandInv'
    BY <1>7 DEF SetNext, CommandInv, CallInv, Fresh, getans, Inv, TypeOK, Updating, Filling, Key, NULL
  <2>. QED
    BY <2>1, <2>2, <2>3, <2>4
<1>8. ASSUME NEW t \in Task, SetPublish(t) PROVE Fresh' /\ ChainInv' /\ CallInv' /\ CommandInv'
  <2>1. Fresh'
    BY <1>8 DEF SetPublish, Fresh, Inv, TypeOK, Updating, Filling, Key, NULL
  <2>2. ChainInv'
    BY <1>8 DEF SetPublish, ChainInv, CallInv, Before, Peer, InsertionsAlone, Inserting, Inv, TypeOK, Updating, Filling, Key, NULL
  <2>3. CallInv'
    <3>1. mine[t] = NULL /\ pc[t] = "set_publish" /\ count + 1 # NULL
      BY <1>8 DEF SetPublish, CallInv, NULL
    <3>2. /\ pc' = [pc EXCEPT ![t] = "set_pid"] /\ mine' = [mine EXCEPT ![t] = count + 1]
          /\ hash_tbl' = [hash_tbl EXCEPT ![Key(t)] = count + 1] /\ UNCHANGED <<cur, next>>
      BY <1>8 DEF SetPublish
    <3>3. /\ pc'[t] = "set_pid" /\ mine'[t] = count + 1 /\ hash_tbl'[Key(t)] = count + 1
      BY <3>2 DEF Inv, TypeOK
    <3>4. ASSUME NEW u \in Task \ {t}
          PROVE  /\ pc'[u] = pc[u] /\ mine'[u] = mine[u]
                 /\ pc[u] # "idle" => hash_tbl'[Key(u)] = hash_tbl[Key(u)]
                 /\ \A n : n # NULL /\ Peer(u, n) => Peer(u, n)'
      <4>1. pc'[u] = pc[u] /\ mine'[u] = mine[u]
        BY <3>2, <3>4 DEF Inv, TypeOK
      <4>2. pc[u] # "idle" => hash_tbl'[Key(u)] = hash_tbl[Key(u)]
        BY <3>1, <3>2, <3>4 DEF Inv, TypeOK, InsertionsAlone, Inserting, Updating
      <4>3. ASSUME NEW n, n # NULL, Peer(u, n) PROVE Peer(u, n)'
        <5>1. PICK w \in Task : Key(w) = Key(u) /\ mine[w] = n
          BY <4>3 DEF Peer
        <5>2. mine'[w] = n /\ Key(w)' = Key(u)'
          BY <3>1, <3>2, <4>3, <5>1 DEF Inv, TypeOK, Key
        <5>. QED
          BY <5>2 DEF Peer
      <4>. QED
        BY <4>1, <4>2, <4>3
    <3>. QED
      BY <3>1, <3>2, <3>3, <3>4 DEF CallInv, Walking, Filling, Key
  <2>4. CommandInv'
    BY <1>8 DEF SetPublish, CommandInv, CallInv, Fresh, getans, Inv, TypeOK, Updating, Filling, Key, NULL
  <2>. QED
    BY <2>1, <2>2, <2>3, <2>4
<1>9. ASSUME NEW t \in Task, SetPid(t) PROVE Fresh' /\ ChainInv' /\ CallInv' /\ CommandInv'
  <2>1. Fresh'
    BY <1>9 DEF SetPid, Fresh, Inv, TypeOK, Updating, Filling, Key, NULL
  <2>2. ChainInv'
    <3>1. Target(t) = {mine[t]} /\ mine[t] # NULL
      BY <1>9 DEF SetPid, Target, CallInv, Filling
    <3>. QED
      BY <1>9, <3>1 DEF SetPid, ChainInv, CallInv, Before, Peer, InsertionsAlone, Inserting, Fresh, Inv, TypeOK, Updating, Filling, Key, NULL
  <2>3. CallInv'
    BY <1>9 DEF SetPid, CallInv, ChainInv, Fresh, Walking, Peer, Before, Inv, TypeOK, Updating, Filling, Key, NULL
  <2>4. CommandInv'
    BY <1>9 DEF SetPid, CommandInv, CallInv, Fresh, getans, Inv, TypeOK, Updating, Filling, Key, NULL
  <2>. QED
    BY <2>1, <2>2, <2>3, <2>4
<1>10. ASSUME NEW t \in Task, SetCurid(t) PROVE Fresh' /\ ChainInv' /\ CallInv' /\ CommandInv'
  <2>1. Fresh'
    BY <1>10 DEF SetCurid, Fresh, Inv, TypeOK, Updating, Filling, Key, NULL
  <2>2. ChainInv'
    BY <1>10 DEF SetCurid, ChainInv, CallInv, Before, Peer, InsertionsAlone, Inserting, Inv, TypeOK, Updating, Filling, Key, NULL
  <2>3. CallInv'
    BY <1>10 DEF SetCurid, CallInv, ChainInv, Fresh, Walking, Peer, Before, Inv, TypeOK, Updating, Filling, Key, NULL
  <2>4. CommandInv'
    <3>1. Target(t) = {mine[t]} /\ mine[t] # NULL
      BY <1>10 DEF SetCurid, Target, CallInv, Filling
    <3>. QED
      BY <1>10, <3>1 DEF SetCurid, CommandInv, CallInv, Fresh, getans, Fresh, Inv, TypeOK, Updating, Filling, Key, NULL
  <2>. QED
    BY <2>1, <2>2, <2>3, <2>4
<1>11. ASSUME NEW t \in Task, SetLink(t) PROVE Fresh' /\ ChainInv' /\ CallInv' /\ CommandInv'
  <2>1. Fresh'
    BY <1>11 DEF SetLink, Fresh, Inv, TypeOK, Updating, Filling, Key, NULL
  <2>2. ChainInv'
    <3>1. Target(t) = {mine[t]} /\ mine[t] # NULL
      BY <1>11 DEF SetLink, Target, CallInv, Filling
    <3>. QED
      BY <1>11, <3>1 DEF SetLink, ChainInv, CallInv, Before, Peer, InsertionsAlone, Inserting, Fresh, Inv, TypeOK, Updating, Filling, Key, NULL
  <2>3. CallInv'
    BY <1>11 DEF SetLink, CallInv, ChainInv, Fresh, Walking, Peer, Before, Inv, TypeOK, Updating, Filling, Key, NULL
  <2>4. CommandInv'
    BY <1>11 DEF SetLink, CommandInv, CallInv, Fresh, getans, Inv, TypeOK, Updating, Filling, Key, NULL
  <2>. QED
    BY <2>1, <2>2, <2>3, <2>4
<1>12. ASSUME NEW t \in Task, ReadMiss(t) PROVE Fresh' /\ ChainInv' /\ CallInv' /\ CommandInv'
  <2>1. Fresh'
    BY <1>12 DEF ReadMiss, Fresh, Inv, TypeOK, Updating, Filling, Key, NULL
  <2>2. ChainInv'
    BY <1>12 DEF ReadMiss, ChainInv, CallInv, Before, Peer, InsertionsAlone, Inserting, Inv, TypeOK, Updating, Filling, Key, NULL
  <2>3. CallInv'
    BY <1>12 DEF ReadMiss, CallInv, ChainInv, Fresh, Walking, Peer, Before, Inv, TypeOK, Updating, Filling, Key, NULL
  <2>4. CommandInv'
    <3>1. mine[t] = NULL
      BY <1>12 DEF ReadMiss, CallInv, Walking, NULL
    <3>. QED
      BY <1>12, <3>1 DEF ReadMiss, CommandInv, Inv, TypeOK, Updating, Filling, Key, NULL
  <2>. QED
    BY <2>1, <2>2, <2>3, <2>4
<1>13. ASSUME NEW t \in Task, ReadHit(t) PROVE Fresh' /\ ChainInv' /\ CallInv' /\ CommandInv'
  <2>1. Fresh'
    BY <1>13 DEF ReadHit, Fresh, Inv, TypeOK, Updating, Filling, Key, NULL
  <2>2. ChainInv'
    BY <1>13 DEF ReadHit, ChainInv, CallInv, Before, Peer, InsertionsAlone, Inserting, Inv, TypeOK, Updating, Filling, Key, NULL
  <2>3. CallInv'
    <3>1. cur[t] = mine[t] /\ mine[t] # NULL
      BY <1>13, Hit DEF ReadHit, Walking
    <3>. QED
      BY <1>13, <3>1 DEF ReadHit, CallInv, Walking, Peer, Inv, TypeOK, Updating, Filling, Key, NULL
  <2>4. CommandInv'
    BY <1>13 DEF ReadHit, CommandInv, CallInv, Fresh, getans, Inv, TypeOK, Updating, Filling, Key, NULL
  <2>. QED
    BY <2>1, <2>2, <2>3, <2>4
<1>14. ASSUME NEW t \in Task, Format(t) PROVE Fresh' /\ ChainInv' /\ CallInv' /\ CommandInv'
  <2>1. Fresh'
    BY <1>14 DEF Format, Fresh, Inv, TypeOK, Updating, Filling, Key, NULL
  <2>2. ChainInv'
    BY <1>14 DEF Format, ChainInv, CallInv, Before, Peer, InsertionsAlone, Inserting, Inv, TypeOK, Updating, Filling, Key, NULL
  <2>3. CallInv'
    BY <1>14 DEF Format, CallInv, ChainInv, Fresh, Walking, Peer, Before, Inv, TypeOK, Updating, Filling, Key, NULL
  <2>4. CommandInv'
    BY <1>14 DEF Format, CommandInv, CallInv, Fresh, getans, Inv, TypeOK, Updating, Filling, Key, NULL
  <2>. QED
    BY <2>1, <2>2, <2>3, <2>4
<1>15. ASSUME NEW t \in Task, CopyToUser(t) PROVE Fresh' /\ ChainInv' /\ CallInv' /\ CommandInv'
  <2>1. Fresh'
    BY <1>15 DEF CopyToUser, Fresh, Inv, TypeOK, Updating, Filling, Key, NULL
  <2>2. ChainInv'
    BY <1>15 DEF CopyToUser, ChainInv, CallInv, Before, Peer, InsertionsAlone, Inserting, Inv, TypeOK, Updating, Filling, Key, NULL
  <2>3. CallInv'
    BY <1>15 DEF CopyToUser, CallInv, ChainInv, Fresh, Walking, Peer, Before, Inv, TypeOK, Updating, Filling, Key, NULL
  <2>4. CommandInv'
    BY <1>15 DEF CopyToUser, CommandInv, CallInv, Fresh, getans, Inv, TypeOK, Updating, Filling, Key, NULL
  <2>. QED
    BY <2>1, <2>2, <2>3, <2>4
<1>16. ASSUME NEW t \in Task, ReadReturn(t) PROVE Fresh' /\ ChainInv' /\ CallInv' /\ CommandInv'
  <2>1. Fresh'
    BY <1>16 DEF ReadReturn, Fresh, Inv, TypeOK, Updating, Filling, Key, NULL
  <2>2. ChainInv'
    BY <1>16 DEF ReadReturn, ChainInv, CallInv, Before, Peer, InsertionsAlone, Inserting, Inv, TypeOK, Updating, Filling, Key, NULL
  <2>3. CallInv'
    BY <1>16 DEF ReadReturn, CallInv, ChainInv, Fresh, Walking, Peer, Before, Inv, TypeOK, Updating, Filling, Key, NULL
  <2>4. CommandInv'
    BY <1>16 DEF ReadReturn, CommandInv, CallInv, Fresh, getans, Inv, TypeOK, Updating, Filling, Key, NULL
  <2>. QED
    BY <2>1, <2>2, <2>3, <2>4
<1>. QED
  BY <1>1, <1>2, <1>3, <1>4, <1>5, <1>6, <1>7, <1>8, <1>9, <1>10, <1>11, <1>12, <1>13, <1>14, <1>15, <1>16, NextCases

\* Every process reads the result of the command it wrote last, computed for
\* itself, in every chain, as long as each process set its first command while
\* no other process of its bucket was inside the driver, neither setting a
\* command nor reading.
THEOREM ReadsOwnCommand == Spec => []SetThenReadAlone
<1>1. Inv /\ AloneInv => SetThenReadAlone
  BY DEF AloneInv, CommandInv, SetThenReadAlone, SetThenRead
<1>2. Inv /\ Inv' /\ AloneInv /\ [Next]_vars => AloneInv'
  <2>. SUFFICES ASSUME Inv, Inv', AloneInv, [Next]_vars, ~ raced' PROVE AloneInv'
    BY DEF AloneInv
  <2>1. CASE UNCHANGED vars
    BY <2>1 DEF vars, table, AloneInv, InsertionsAlone, Inserting, Fresh, ChainInv, CallInv,
       CommandInv, Before, Peer, Key
  <2>2. CASE Next
    <3>1. ~ raced /\ InsertionsAlone'
      BY <2>2 DEF Next, Record
    <3>. QED
      BY <2>2, <3>1, AloneStep DEF AloneInv
  <2>. QED
    BY <2>1, <2>2
<1>. QED
  BY <1>1, <1>2, AloneInit, Invariance, PTL DEF Spec

-----------------------------------------------------------------------------
(***************************************************************************)
(* How long a call can be.                                                 *)
(***************************************************************************)
LEMMA OwnStepShortens ==
  ASSUME Inv, NEW t \in Task, Advance(t), pc[t] # "idle"
  PROVE  \/ UNCHANGED <<pc[t], cur[t]>>
         \/ StepsLeft(t)' < StepsLeft(t)
<1>1. cur[t] \in Nat /\ cur \in [Task -> Node \cup {NULL}] /\ DOMAIN pc = Task
  BY DEF Inv, TypeOK, Node, NULL
<1>2. CASE Walk(t)
  <2>1. /\ pc' = pc /\ cur[t] \in Node /\ cur'[t] = link[cur[t]]
        /\ pc[t] = "set_walk" \/ pc[t] = "read_walk"
    BY <1>1, <1>2 DEF Walk
  <2>2. link[cur[t]] < cur[t] /\ link[cur[t]] \in Nat
    BY <2>1 DEF Inv, TypeOK, OlderNext, Node, NULL
  <2>. QED
    BY <1>1, <2>1, <2>2 DEF StepsLeft, AfterLoop
<1>3. CASE ~ Walk(t)
  <2>1. /\ AfterLoop[pc'[t]] < AfterLoop[pc[t]]
        /\ AfterLoop[pc'[t]] \in Nat /\ AfterLoop[pc[t]] \in Nat
    BY <1>1, <1>3 DEF Advance, SetHit, SetStore, SetMiss, SetNext, SetPublish, SetPid, SetCurid,
       SetLink, ReadMiss, ReadHit, Format, CopyToUser, ReadReturn, Goto, AfterLoop
  <2>2. cur'[t] = cur[t] \/ cur'[t] = 0
    BY <1>1, <1>3 DEF Advance, SetHit, SetStore, SetMiss, SetNext, SetPublish, SetPid, SetCurid,
       SetLink, ReadMiss, ReadHit, Format, CopyToUser, ReadReturn, NULL
  <2>. QED
    BY <1>1, <2>1, <2>2 DEF StepsLeft
<1>. QED
  BY <1>2, <1>3

\* A task decides about its own place in the code and in the chain only.
LEMMA OthersStandStill ==
  ASSUME Inv, NEW u \in Task, Start(u) \/ Advance(u), NEW t \in Task, t # u
  PROVE  UNCHANGED <<pc[t], cur[t]>>
BY DEF Start, Advance, cs614sys_set, demo_read, Walk, SetHit, SetStore, SetMiss, SetNext,
   SetPublish, SetPid, SetCurid, SetLink, ReadMiss, ReadHit, Format, CopyToUser, ReadReturn,
   Goto, Inv, TypeOK

\* find_and_update and resolve: whatever other processes do to the chain
\* meanwhile, a call that has begun at a node n returns after at most n + 6
\* steps of its own, for any number of processes and nodes.
THEOREM CallsAreWaitFree == Spec => WaitFree
<1>1. ASSUME Inv, Next, NEW t \in Task, pc[t] # "idle"
      PROVE  \/ UNCHANGED <<pc[t], cur[t]>>
             \/ StepsLeft(t)' < StepsLeft(t)
  <2>1. PICK u \in Task : Start(u) \/ Advance(u)
    BY <1>1 DEF Next
  <2>2. CASE u = t
    <3>1. ~ Start(t)
      BY <1>1 DEF Start, cs614sys_set, demo_read, Goto
    <3>. QED
      BY <1>1, <2>1, <2>2, <3>1, OwnStepShortens
  <2>3. CASE u # t
    BY <1>1, <2>1, <2>3, OthersStandStill
  <2>. QED
    BY <2>2, <2>3
<1>2. Inv /\ [Next]_vars =>
        [\A t \in Task : pc[t] # "idle" =>
           \/ UNCHANGED <<pc[t], cur[t]>>
           \/ StepsLeft(t)' < StepsLeft(t)]_vars
  BY <1>1
<1>. QED
  BY <1>2, Invariance, PTL DEF Spec, WaitFree
=============================================================================
