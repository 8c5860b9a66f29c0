--------------------------- MODULE TgidTableProofs ---------------------------
(***************************************************************************)
(* Theorems about TgidTable, for every number of tasks, processes, buckets *)
(* and nodes.                                                              *)
(***************************************************************************)
EXTENDS TgidTable, TLAPS

USE BucketsAssumption, TaskAssumption, CommandAssumption

-----------------------------------------------------------------------------
(***************************************************************************)
(* Lemmas about the operators.                                             *)
(***************************************************************************)

\* Every task has a bucket.
LEMMA KeyInBucket == \A t \in Task : Key(t) \in Bucket
BY DEF Key, myhash, Bucket

\* When no two nodes of a chain share a group, the traversal of the chain
\* stops at the one node of the group.
LEMMA FirstMatchLemma ==
  ASSUME NEW c \in Seq(Node), NEW g, Match(c, g) # {}, Unique(c)
  PROVE  /\ FirstMatch(c, g) \in Node
         /\ tgid[FirstMatch(c, g)] = g
         /\ \E i \in DOMAIN c : FirstMatch(c, g) = c[i]
<1>1. PICK m \in DOMAIN c : Match(c, g) = {m} /\ m \in Nat
  BY DEF Match, Unique
<1>. DEFINE k == CHOOSE i \in Match(c, g) : \A j \in Match(c, g) : i <= j
<1>2. k \in Match(c, g)
  BY <1>1
<1>3. FirstMatch(c, g) = c[k]
  BY DEF FirstMatch
<1>. HIDE DEF k
<1>. QED
  BY <1>2, <1>3 DEF Match

\* The uniqueness of the nodes of a group, chain by chain.
LEMMA UniqueChain ==
  ASSUME OneNodePerGroup, NEW b \in Bucket
  PROVE  Unique(chain[b])
BY DEF OneNodePerGroup, Unique

-----------------------------------------------------------------------------
(***************************************************************************)
(* Type correctness.                                                       *)
(***************************************************************************)

LEMMA InitInv == Init => Inv
<1>. SUFFICES ASSUME Init PROVE Inv
  OBVIOUS
<1>1. TypeOK
  BY DEF Init, TypeOK, Blank, Unread, Buffer, Measured, Location
<1>2. MutualExclusion
  BY KeyInBucket DEF Init, MutualExclusion, Critical
<1>3. OneNodePerGroup
  BY DEF Init, OneNodePerGroup
<1>4. LocalInv
  BY DEF Init, LocalInv
<1>5. ChainInv
  BY DEF Init, ChainInv, Hashed
<1>6. BufInv
  BY DEF Init, BufInv, Blank, Unread
<1>7. FilledInv
  BY DEF Init, FilledInv
<1>8. LoneInv
  BY DEF Init, LoneInv
<1>. QED
  BY <1>1, <1>2, <1>3, <1>4, <1>5, <1>6, <1>7, <1>8 DEF Inv

LEMMA NextType == Inv /\ [Next]_vars => TypeOK'
<1>. SUFFICES ASSUME Inv, [Next]_vars PROVE TypeOK'
  OBVIOUS
<1>. USE DEF Inv, TypeOK, shared, local, Goto, Location
<1>1. CASE UNCHANGED vars
  BY <1>1 DEF vars
<1>2. ASSUME NEW t \in Task, Start(t) PROVE TypeOK'
  <2>1. ASSUME NEW c \in Input, cs614sys_set(t, c) PROVE TypeOK'
    BY <2>1 DEF cs614sys_set
  <2>2. ASSUME NEW l \in Length, demo_read(t, l) PROVE TypeOK'
    BY <2>2 DEF demo_read
  <2>. QED
    BY <1>2, <2>1, <2>2 DEF Start
<1>3. ASSUME NEW t \in Task, Acquire(t) PROVE TypeOK'
  <2>. Key(t) \in Bucket
    BY KeyInBucket
  <2>1. CASE SetLock(t)
    BY <2>1 DEF SetLock, mutex_lock
  <2>2. CASE ReadLock(t)
    BY <2>2 DEF ReadLock, mutex_lock
  <2>. QED
    BY <1>3, <2>1, <2>2 DEF Acquire
<1>4. ASSUME NEW t \in Task, Advance(t) PROVE TypeOK'
  <2>. Key(t) \in Bucket
    BY KeyInBucket
  <2>. DEFINE n == FirstMatch(chain[Key(t)], TgidOf[t])
  <2>0. Match(chain[Key(t)], TgidOf[t]) # {} => n \in Node
    BY FirstMatchLemma, UniqueChain
  <2>1. CASE SetExisting(t)
    BY <1>4, <2>0, <2>1 DEF SetExisting, LocalInv
  <2>2. CASE SetMissing(t)
    BY <2>2 DEF SetMissing
  <2>3. CASE SetPublish(t)
    BY <2>3 DEF SetPublish, Blank, Buffer
  <2>4. CASE SetLink(t)
    BY <2>4 DEF SetLink, LocalInv, ChainInv
  <2>5. CASE SetUnlock(t)
    BY <2>5 DEF SetUnlock, mutex_unlock
  <2>6. CASE ResolveHit(t)
    <3>. DEFINE a == getans(curid[n], t)
    <3>1. n \in Node /\ a \in Answer /\ buf[n] \in Buffer
      BY <2>0, <2>6 DEF ResolveHit, getans, Answer
    <3>2. [buf[n] EXCEPT !.first = a] \in Buffer
      BY <3>1 DEF Buffer
    <3>3. buf' = [buf EXCEPT ![n] = [buf[n] EXCEPT !.first = a]]
      BY <2>6 DEF ResolveHit
    <3>4. buf' \in [Node -> Buffer]
      BY <3>1, <3>2, <3>3
    <3>. QED
      BY <2>6, <3>1, <3>4 DEF ResolveHit
  <2>7. CASE ResolveMiss(t)
    BY <2>7 DEF ResolveMiss
  <2>8. CASE Format(t)
    <3>. DEFINE m == temp[t]
                a == getans(arg[t], t)
    <3>1. m \in Node /\ a \in Answer /\ buf[m] \in Buffer
      BY <2>8 DEF Format, getans, Answer, LocalInv
    <3>2. [buf[m] EXCEPT !.last = a] \in Buffer
      BY <3>1 DEF Buffer
    <3>3. buf' = [buf EXCEPT ![m] = [buf[m] EXCEPT !.last = a]]
      BY <2>8 DEF Format
    <3>4. buf' \in [Node -> Buffer]
      BY <3>1, <3>2, <3>3
    <3>. QED
      BY <2>8, <3>4 DEF Format
  <2>9. CASE ReadUnlock(t)
    BY <2>9 DEF ReadUnlock, mutex_unlock
  <2>10. CASE Strlen(t)
    <3>1. buf[temp[t]] \in Buffer /\ out[t] \in Measured
      BY <2>10 DEF Strlen, LocalInv
    <3>2. [out[t] EXCEPT !.len = buf[temp[t]].last] \in Measured
      BY <3>1 DEF Buffer, Measured
    <3>3. out' = [out EXCEPT ![t] = [out[t] EXCEPT !.len = buf[temp[t]].last]]
      BY <2>10 DEF Strlen
    <3>. QED
      BY <2>10, <3>2, <3>3 DEF Strlen
  <2>11. CASE CopyToUser(t)
    <3>. DEFINE o == [out[t] EXCEPT !.first = buf[temp[t]].first,
                                    !.last  = buf[temp[t]].last]
    <3>1. buf[temp[t]] \in Buffer /\ out[t] \in Measured
      BY <2>11 DEF CopyToUser, LocalInv
    <3>2. o \in Measured
      BY <3>1 DEF Buffer, Measured
    <3>3. out' = [out EXCEPT ![t] = o]
      BY <2>11 DEF CopyToUser
    <3>4. out' \in [Task -> Measured]
      BY <3>2, <3>3
    <3>. QED
      BY <2>11, <3>4 DEF CopyToUser
  <2>12. CASE ReadReturn(t)
    BY <2>12 DEF ReadReturn, Unread, Measured
  <2>. QED
    BY <1>4, <2>1, <2>2, <2>3, <2>4, <2>5, <2>6, <2>7, <2>8, <2>9, <2>10,
       <2>11, <2>12 DEF Advance
<1>. QED
  BY <1>1, <1>2, <1>3, <1>4 DEF Next

-----------------------------------------------------------------------------
(***************************************************************************)
(* The mutexes and the local variables.                                    *)
(***************************************************************************)

\* Every step is a stutter or an action of one task.
LEMMA NextCases ==
  ASSUME Next
  PROVE  \E t \in Task :
           \/ \E c \in Input : cs614sys_set(t, c)
           \/ \E l \in Length : demo_read(t, l)
           \/ SetLock(t) \/ SetExisting(t) \/ SetMissing(t) \/ SetPublish(t)
           \/ SetLink(t) \/ SetUnlock(t)
           \/ ReadLock(t) \/ ResolveHit(t) \/ ResolveMiss(t) \/ Format(t)
           \/ ReadUnlock(t) \/ Strlen(t) \/ CopyToUser(t) \/ ReadReturn(t)
BY DEF Next, Start, Acquire, Advance

LEMMA NextMutualExclusion ==
  ASSUME Inv, [Next]_vars
  PROVE  MutualExclusion'
<1>. USE KeyInBucket DEF Inv, TypeOK, MutualExclusion, Critical, Location,
                         shared, local, Goto
<1>1. CASE UNCHANGED vars
  BY <1>1 DEF vars
<1>2. ASSUME NEW t \in Task,
             pc[t] \in Critical <=> pc'[t] \in Critical,
             \A u \in Task \ {t} : pc'[u] = pc[u],
             locks' = locks
      PROVE  MutualExclusion'
  BY <1>2
<1>3. ASSUME NEW t \in Task, SetLock(t) \/ ReadLock(t)
      PROVE  MutualExclusion'
  <2>1. /\ pc' = [pc EXCEPT ![t] = pc'[t]]
        /\ pc[t] \notin Critical /\ pc'[t] \in Critical
        /\ locks[Key(t)] = NoTask
        /\ locks' = [locks EXCEPT ![Key(t)] = t]
    BY <1>3 DEF SetLock, ReadLock, mutex_lock
  <2>. HIDE DEF Critical, Location
  <2>. QED
    BY <2>1
<1>4. ASSUME NEW t \in Task, SetUnlock(t) \/ ReadUnlock(t)
      PROVE  MutualExclusion'
  <2>1. /\ pc' = [pc EXCEPT ![t] = pc'[t]]
        /\ pc[t] \in Critical /\ pc'[t] \notin Critical
        /\ locks' = [locks EXCEPT ![Key(t)] = NoTask]
    BY <1>4 DEF SetUnlock, ReadUnlock, mutex_unlock
  <2>. HIDE DEF Critical, Location
  <2>. QED
    BY <2>1
<1>5. CASE Next
  <2>1. ASSUME NEW t \in Task,
               \/ \E c \in Input : cs614sys_set(t, c)
               \/ \E l \in Length : demo_read(t, l)
        PROVE  MutualExclusion'
    BY <1>2, <2>1 DEF cs614sys_set, demo_read
  <2>2. ASSUME NEW t \in Task,
               SetExisting(t) \/ SetMissing(t) \/ SetPublish(t) \/ SetLink(t)
        PROVE  MutualExclusion'
    <3>. pc[t] \in Critical /\ pc' = [pc EXCEPT ![t] = pc'[t]]
         /\ pc'[t] \in Critical /\ locks' = locks
      BY <2>2 DEF SetExisting, SetMissing, SetPublish, SetLink
    <3>. QED
      BY <1>2
  <2>3. ASSUME NEW t \in Task,
               ResolveHit(t) \/ ResolveMiss(t) \/ Format(t)
        PROVE  MutualExclusion'
    BY <1>2, <2>3 DEF ResolveHit, ResolveMiss, Format
  <2>4. ASSUME NEW t \in Task, Strlen(t) \/ CopyToUser(t) \/ ReadReturn(t)
        PROVE  MutualExclusion'
    BY <1>2, <2>4 DEF Strlen, CopyToUser, ReadReturn
  <2>. QED
    BY <1>3, <1>4, <1>5, <2>1, <2>2, <2>3, <2>4, NextCases
<1>. QED
  BY <1>1, <1>5

LEMMA NextLocal ==
  ASSUME Inv, [Next]_vars
  PROVE  LocalInv'
<1>. USE DEF Inv, TypeOK, LocalInv, Location, shared, local, Goto
<1>1. CASE UNCHANGED vars
  BY <1>1 DEF vars
<1>2. CASE Next
  <2>1. ASSUME NEW t \in Task,
               \/ \E c \in Input : cs614sys_set(t, c)
               \/ \E l \in Length : demo_read(t, l)
        PROVE  LocalInv'
    <3>1. ASSUME NEW c \in Input, cs614sys_set(t, c) PROVE LocalInv'
      BY <3>1 DEF cs614sys_set
    <3>2. ASSUME NEW l \in Length, demo_read(t, l) PROVE LocalInv'
      BY <3>2 DEF demo_read
    <3>. QED
      BY <2>1, <3>1, <3>2
  <2>2. ASSUME NEW t \in Task,
               SetLock(t) \/ SetExisting(t) \/ SetMissing(t) \/ SetUnlock(t)
        PROVE  LocalInv'
    BY <2>2 DEF SetLock, SetExisting, SetMissing, SetUnlock
  <2>3. ASSUME NEW t \in Task, SetPublish(t) \/ SetLink(t)
        PROVE  LocalInv'
    BY <2>3 DEF SetPublish, SetLink
  <2>4. ASSUME NEW t \in Task, ReadLock(t) \/ ResolveMiss(t) \/ Format(t)
        PROVE  LocalInv'
    BY <2>4 DEF ReadLock, ResolveMiss, Format
  <2>5. ASSUME NEW t \in Task, ResolveHit(t)
        PROVE  LocalInv'
    <3>. DEFINE n == FirstMatch(chain[Key(t)], TgidOf[t])
    <3>1. n \in Node
      BY <2>5, KeyInBucket, FirstMatchLemma, UniqueChain DEF ResolveHit
    <3>. QED
      BY <2>5, <3>1 DEF ResolveHit
  <2>6. ASSUME NEW t \in Task,
               ReadUnlock(t) \/ Strlen(t) \/ CopyToUser(t) \/ ReadReturn(t)
        PROVE  LocalInv'
    BY <2>6 DEF ReadUnlock, Strlen, CopyToUser, ReadReturn
  <2>. QED
    BY <1>2, <2>1, <2>2, <2>3, <2>4, <2>5, <2>6, NextCases
<1>. QED
  BY <1>1, <1>2

-----------------------------------------------------------------------------
(***************************************************************************)
(* The chains.                                                             *)
(***************************************************************************)

\* Only one task at a time is in the critical section of a bucket.
LEMMA OneInBucket ==
  ASSUME MutualExclusion, NEW t \in Task, NEW u \in Task,
         pc[t] \in Critical, pc[u] \in Critical, Key(t) = Key(u)
  PROVE  t = u
BY DEF MutualExclusion

\* The nodes of a chain are allocated; a node that is not filled in yet heads
\* the bucket of the task that inserts it.
LEMMA ChainNodes ==
  ASSUME Inv, NEW b \in Bucket, NEW i \in DOMAIN chain[b]
  PROVE  /\ chain[b][i] \in Node
         /\ tgid[chain[b][i]] # None
         /\ tgid[chain[b][i]] = 0 =>
              \E u \in Task : /\ pc[u] = "set_link" /\ Key(u) = b
                             /\ chain[b] = <<chain[b][i]>>
<1>. USE DEF Inv, TypeOK
<1>1. chain[b] \in Seq(Node)
  OBVIOUS
<1>2. CASE \A u \in Task : pc[u] = "set_link" => Key(u) # b
  <2>1. Hashed(chain[b], b)
    BY <1>2 DEF ChainInv
  <2>. HIDE DEF TypeOK, Inv
  <2>. QED
    BY <1>1, <2>1 DEF Hashed
<1>3. CASE \E u \in Task : pc[u] = "set_link" /\ Key(u) = b
  <2>1. PICK u \in Task : pc[u] = "set_link" /\ Key(u) = b
    BY <1>3
  <2>2. Len(chain[b]) = 1 /\ tgid[chain[b][1]] = 0
    BY <2>1 DEF ChainInv
  <2>3. i = 1 /\ chain[b] = <<chain[b][1]>>
    BY <1>1, <2>2
  <2>4. chain[b][1] \in Node
    <3>. HIDE DEF TypeOK, Inv
    <3>. QED
      BY <1>1, <2>2
  <2>5. 0 # None
    OBVIOUS
  <2>. QED
    BY <2>1, <2>2, <2>3, <2>4, <2>5
<1>. QED
  BY <1>2, <1>3

LEMMA NextChain ==
  ASSUME Inv, [Next]_vars
  PROVE  OneNodePerGroup' /\ ChainInv'
<1>. USE DEF Inv, TypeOK, Location, shared, local, Goto
<1>1. CASE UNCHANGED vars
  BY <1>1 DEF vars, OneNodePerGroup, ChainInv, Unique, Hashed, Match
<1>2. ASSUME NEW t \in Task,
             chain' = chain, tgid' = tgid,
             \A u \in Task \ {t} : pc'[u] = pc[u] /\ next'[u] = next[u],
             pc[t] # "set_link", pc'[t] # "set_link",
             pc'[t] = "set_publish" => Match(chain[Key(t)], TgidOf[t]) = {}
      PROVE  OneNodePerGroup' /\ ChainInv'
  <2>1. OneNodePerGroup'
    BY <1>2 DEF OneNodePerGroup
  <2>2. ASSUME NEW b \in Bucket, \A u \in Task : pc'[u] = "set_link" => Key(u) # b
        PROVE  Hashed(chain[b], b)'
    <3>1. \A u \in Task : pc[u] = "set_link" => Key(u) # b
      BY <1>2, <2>2
    <3>2. Hashed(chain[b], b)
      BY <3>1 DEF ChainInv
    <3>. QED
      BY <1>2, <3>2 DEF Hashed
  <2>3. ASSUME NEW u \in Task, pc'[u] = "set_publish"
        PROVE  (Match(chain[Key(u)], TgidOf[u]) = {})'
    <3>1. Match(chain[Key(u)], TgidOf[u]) = {}
      BY <1>2, <2>3 DEF ChainInv
    <3>. QED
      BY <1>2, <3>1 DEF Match
  <2>4. ASSUME NEW u \in Task, pc'[u] = "set_link"
        PROVE  /\ u # t /\ pc[u] = "set_link"
               /\ (/\ Len(chain[Key(u)]) = 1
                   /\ tgid[chain[Key(u)][1]] = 0
                   /\ Unique(next[u])
                   /\ Hashed(next[u], Key(u))
                   /\ Match(next[u], TgidOf[u]) = {})'
    <3>1. u # t /\ pc[u] = "set_link" /\ next'[u] = next[u]
      BY <1>2, <2>4
    <3>2. /\ Len(chain[Key(u)]) = 1
          /\ tgid[chain[Key(u)][1]] = 0
          /\ Unique(next[u])
          /\ Hashed(next[u], Key(u))
          /\ Match(next[u], TgidOf[u]) = {}
      BY <3>1 DEF ChainInv
    <3>. HIDE DEF TypeOK, Inv
    <3>. QED
      BY <1>2, <3>1, <3>2 DEF Unique, Hashed, Match
  <2>5. ASSUME NEW u \in Task, NEW v \in Task,
               pc'[u] = "set_link", pc'[v] = "set_link",
               chain'[Key(u)][1] = chain'[Key(v)][1]
        PROVE  u = v
    BY <1>2, <2>4, <2>5 DEF ChainInv
  <2>. QED
    BY <2>1, <2>2, <2>3, <2>4, <2>5 DEF ChainInv
<1>3. ASSUME NEW t \in Task, SetMissing(t)
      PROVE  OneNodePerGroup' /\ ChainInv'
  BY <1>2, <1>3 DEF SetMissing
<1>4. ASSUME NEW t \in Task, SetPublish(t)
      PROVE  OneNodePerGroup' /\ ChainInv'
  <2>. DEFINE b == Key(t)
  <2>1. PICK n \in Node :
          /\ tgid[n] = None
          /\ chain' = [chain EXCEPT ![b] = <<n>>]
          /\ tgid' = [tgid EXCEPT ![n] = 0]
    BY <1>4 DEF SetPublish
  <2>2. /\ pc[t] = "set_publish" /\ pc' = [pc EXCEPT ![t] = "set_link"]
        /\ next' = [next EXCEPT ![t] = chain[b]]
    BY <1>4 DEF SetPublish
  <2>. b \in Bucket
    BY KeyInBucket
  <2>3. \A c \in Bucket : \A i \in DOMAIN chain[c] :
          /\ chain[c][i] # n
          /\ tgid'[chain[c][i]] = tgid[chain[c][i]]
    BY <2>1, ChainNodes
  <2>4. \A u \in Task : pc[u] \in Critical /\ Key(u) = b => u = t
    BY <2>2, OneInBucket DEF Critical
  <2>5. /\ chain'[b] = <<n>>
        /\ Len(chain'[b]) = 1 /\ chain'[b][1] = n /\ DOMAIN chain'[b] = {1}
        /\ tgid'[n] = 0
        /\ \A c \in Bucket \ {b} : chain'[c] = chain[c]
    BY <2>1
  <2>6. OneNodePerGroup'
    <3>1. OneNodePerGroup
      OBVIOUS
    <3>2. ASSUME NEW c \in Bucket, NEW i \in DOMAIN chain'[c],
                 NEW j \in DOMAIN chain'[c],
                 tgid'[chain'[c][i]] = tgid'[chain'[c][j]]
          PROVE  i = j
      <4>. HIDE DEF TypeOK, Inv
      <4>1. CASE c = b
        BY <2>5, <3>2, <4>1
      <4>2. CASE c # b
        <5>1. chain'[c] = chain[c]
          BY <2>5, <4>2
        <5>2. tgid[chain[c][i]] = tgid[chain[c][j]]
          BY <2>3, <3>2, <5>1
        <5>. QED
          BY <3>1, <5>1, <5>2 DEF OneNodePerGroup
      <4>. QED
        BY <4>1, <4>2
    <3>. QED
      BY <3>2 DEF OneNodePerGroup
  <2>7. ASSUME NEW c \in Bucket, \A u \in Task : pc'[u] = "set_link" => Key(u) # c
        PROVE  Hashed(chain[c], c)'
    <3>1. c # b /\ \A u \in Task : pc[u] = "set_link" => Key(u) # c
      BY <2>2, <2>7
    <3>2. Hashed(chain[c], c)
      BY <3>1 DEF ChainInv
    <3>. QED
      BY <2>3, <2>5, <3>1, <3>2 DEF Hashed
  <2>8. ASSUME NEW u \in Task, pc'[u] = "set_publish"
        PROVE  (Match(chain[Key(u)], TgidOf[u]) = {})'
    <3>1. u # t /\ pc[u] = "set_publish"
      BY <2>2, <2>8
    <3>2. Key(u) \in Bucket \ {b}
      BY <2>4, <3>1, KeyInBucket DEF Critical
    <3>3. Match(chain[Key(u)], TgidOf[u]) = {}
      BY <3>1 DEF ChainInv
    <3>. QED
      BY <2>3, <2>5, <3>2, <3>3 DEF Match
  <2>9. (/\ Len(chain[b]) = 1
         /\ tgid[chain[b][1]] = 0
         /\ Unique(next[t])
         /\ Hashed(next[t], b)
         /\ Match(next[t], TgidOf[t]) = {})'
    <3>1. Unique(chain[b])
      BY UniqueChain
    <3>2. \A u \in Task : pc[u] = "set_link" => Key(u) # b
      BY <2>2, <2>4 DEF Critical
    <3>3. Hashed(chain[b], b)
      BY <3>2 DEF ChainInv
    <3>4. Match(chain[b], TgidOf[t]) = {}
      BY <2>2 DEF ChainInv
    <3>5. next'[t] = chain[b]
      BY <2>2
    <3>6. Unique(next[t])' /\ Hashed(next[t], b)'
      BY <2>3, <3>1, <3>3, <3>5 DEF Unique, Hashed
    <3>7. (Match(next[t], TgidOf[t]) = {})'
      BY <2>3, <3>4, <3>5 DEF Match
    <3>. QED
      BY <2>5, <3>6, <3>7
  <2>10. ASSUME NEW u \in Task \ {t}, pc'[u] = "set_link"
         PROVE  /\ pc[u] = "set_link"
                /\ Key(u) \in Bucket \ {b}
                /\ chain'[Key(u)][1] = chain[Key(u)][1]
                /\ chain'[Key(u)][1] # n
                /\ (/\ Len(chain[Key(u)]) = 1
                    /\ tgid[chain[Key(u)][1]] = 0
                    /\ Unique(next[u])
                    /\ Hashed(next[u], Key(u))
                    /\ Match(next[u], TgidOf[u]) = {})'
    <3>1. pc[u] = "set_link" /\ next'[u] = next[u]
      BY <2>2, <2>10
    <3>2. Key(u) \in Bucket \ {b}
      BY <2>4, <3>1, KeyInBucket DEF Critical
    <3>3. /\ Len(chain[Key(u)]) = 1
          /\ tgid[chain[Key(u)][1]] = 0
          /\ Unique(next[u])
          /\ Hashed(next[u], Key(u))
          /\ Match(next[u], TgidOf[u]) = {}
      BY <3>1 DEF ChainInv
    <3>4. chain[Key(u)] \in Seq(Node)
      BY <3>2
    <3>5. 1 \in DOMAIN chain[Key(u)]
      <4>. HIDE DEF TypeOK, Inv
      <4>. QED
        BY <3>3, <3>4
    <3>6. \A i \in DOMAIN next[u] : tgid'[next[u][i]] = tgid[next[u][i]]
      BY <2>1, <3>3 DEF Hashed
    <3>7. Unique(next[u])' /\ Hashed(next[u], Key(u))'
      BY <3>1, <3>3, <3>6 DEF Unique, Hashed
    <3>8. (Match(next[u], TgidOf[u]) = {})'
      BY <3>1, <3>3, <3>6 DEF Match
    <3>. QED
      BY <2>3, <2>5, <3>1, <3>2, <3>3, <3>5, <3>7, <3>8
  <2>11. ASSUME NEW u \in Task, NEW v \in Task,
                pc'[u] = "set_link", pc'[v] = "set_link",
                chain'[Key(u)][1] = chain'[Key(v)][1]
         PROVE  u = v
    <3>1. CASE u = t \/ v = t
      BY <2>5, <2>10, <2>11, <3>1
    <3>2. CASE u # t /\ v # t
      BY <2>10, <2>11, <3>2 DEF ChainInv
    <3>. QED
      BY <3>1, <3>2
  <2>. QED
    BY <2>6, <2>7, <2>8, <2>9, <2>10, <2>11 DEF ChainInv
<1>5. ASSUME NEW t \in Task, SetLink(t)
      PROVE  OneNodePerGroup' /\ ChainInv'
  <2>. DEFINE b == Key(t)
              n == chain[b][1]
              s == next[t]
              c1 == <<n>> \o s
  <2>. b \in Bucket
    BY KeyInBucket
  <2>1. /\ pc[t] = "set_link" /\ pc' = [pc EXCEPT ![t] = "set_unlock"]
        /\ tgid' = [tgid EXCEPT ![n] = TgidOf[t]]
        /\ chain' = [chain EXCEPT ![b] = c1]
        /\ next' = next
    BY <1>5 DEF SetLink
  <2>2. /\ Len(chain[b]) = 1 /\ tgid[n] = 0
        /\ Unique(s) /\ Hashed(s, b) /\ Match(s, TgidOf[t]) = {}
    BY <2>1 DEF ChainInv
  <2>3. chain[b] \in Seq(Node) /\ s \in Seq(Node)
    OBVIOUS
  <2>4. n \in Node
    <3>. HIDE DEF TypeOK, Inv
    <3>. QED
      BY <2>2, <2>3
  <2>5. \A u \in Task : pc[u] \in Critical /\ Key(u) = b => u = t
    BY <2>1, OneInBucket DEF Critical
  <2>6. /\ \A c \in Bucket \ {b} : chain'[c] = chain[c]
        /\ chain'[b] = c1
        /\ \A m \in Node \ {n} : tgid'[m] = tgid[m]
        /\ tgid'[n] = TgidOf[t]
    BY <2>1, <2>4
  <2>7. ASSUME NEW c \in Bucket \ {b}, NEW i \in DOMAIN chain[c]
        PROVE  chain[c][i] \in Node \ {n}
    <3>1. SUFFICES ASSUME chain[c][i] = n PROVE FALSE
      BY ChainNodes
    <3>2. PICK u \in Task : pc[u] = "set_link" /\ Key(u) = c /\ chain[c] = <<n>>
      BY <2>2, <3>1, ChainNodes
    <3>3. chain[Key(u)][1] = n
      BY <3>2
    <3>. QED
      BY <2>1, <3>2, <3>3 DEF ChainInv
  <2>8. ASSUME NEW u \in Task, pc[u] = "set_link", NEW i \in DOMAIN next[u]
        PROVE  next[u][i] \in Node \ {n}
    <3>1. Hashed(next[u], Key(u)) /\ next[u] \in Seq(Node)
      BY <2>8 DEF ChainInv
    <3>2. tgid[next[u][i]] # 0 /\ next[u][i] \in Node
      <4>. HIDE DEF TypeOK, Inv
      <4>. QED
        BY <3>1 DEF Hashed
    <3>. QED
      BY <2>2, <3>2
  <2>9. /\ DOMAIN c1 = 1 .. Len(s) + 1
        /\ c1[1] = n
        /\ \A i \in 2 .. Len(s) + 1 : i - 1 \in DOMAIN s /\ c1[i] = s[i - 1]
    <3>. HIDE DEF n, s, TypeOK, Inv
    <3>. QED
      BY <2>3, <2>4
  <2>10. \A i \in DOMAIN c1 : i # 1 =>
           /\ i \in 2 .. Len(s) + 1
           /\ tgid'[c1[i]] = tgid[s[i - 1]]
           /\ tgid[s[i - 1]] # TgidOf[t]
    <3>1. Len(s) \in Nat
      BY <2>3
    <3>2. ASSUME NEW i \in DOMAIN c1, i # 1 PROVE i \in 2 .. Len(s) + 1
      BY <2>9, <3>1, <3>2
    <3>3. ASSUME NEW i \in 2 .. Len(s) + 1
          PROVE  tgid'[c1[i]] = tgid[s[i - 1]] /\ tgid[s[i - 1]] # TgidOf[t]
      <4>1. i - 1 \in DOMAIN s /\ c1[i] = s[i - 1]
        BY <2>9
      <4>2. s[i - 1] \in Node \ {n}
        BY <2>1, <2>8, <4>1
      <4>. QED
        BY <2>2, <2>6, <4>1, <4>2 DEF Match
    <3>. QED
      BY <3>2, <3>3
  <2>11. OneNodePerGroup'
    <3>1. ASSUME NEW i \in DOMAIN c1, NEW j \in DOMAIN c1,
                 tgid'[c1[i]] = tgid'[c1[j]]
          PROVE  i = j
      <4>1. CASE i = 1 \/ j = 1
        BY <2>6, <2>9, <2>10, <3>1, <4>1
      <4>2. CASE i # 1 /\ j # 1
        <5>1. i - 1 \in DOMAIN s /\ j - 1 \in DOMAIN s
          BY <2>9, <2>10, <4>2
        <5>2. tgid[s[i - 1]] = tgid[s[j - 1]]
          BY <2>10, <3>1, <4>2
        <5>3. i - 1 = j - 1
          BY <2>2, <5>1, <5>2 DEF Unique
        <5>. QED
          BY <2>10, <4>2, <5>3
      <4>. QED
        BY <4>1, <4>2
    <3>2. ASSUME NEW c \in Bucket \ {b},
                 NEW i \in DOMAIN chain[c], NEW j \in DOMAIN chain[c],
                 tgid'[chain[c][i]] = tgid'[chain[c][j]]
          PROVE  i = j
      <4>1. OneNodePerGroup
        OBVIOUS
      <4>2. tgid[chain[c][i]] = tgid[chain[c][j]]
        BY <2>6, <2>7, <3>2
      <4>. HIDE DEF TypeOK, Inv
      <4>. QED
        BY <4>1, <4>2 DEF OneNodePerGroup
    <3>3. ASSUME NEW c \in Bucket, NEW i \in DOMAIN chain'[c],
                 NEW j \in DOMAIN chain'[c],
                 tgid'[chain'[c][i]] = tgid'[chain'[c][j]]
          PROVE  i = j
      <4>. HIDE DEF TypeOK, Inv, c1
      <4>1. CASE c = b
        BY <2>6, <3>1, <3>3, <4>1
      <4>2. CASE c # b
        BY <2>6, <3>2, <3>3, <4>2
      <4>. QED
        BY <4>1, <4>2
    <3>. QED
      BY <3>3 DEF OneNodePerGroup
  <2>12. ASSUME NEW c \in Bucket, \A u \in Task : pc'[u] = "set_link" => Key(u) # c
         PROVE  Hashed(chain[c], c)'
    <3>1. CASE c = b
      <4>1. ASSUME NEW i \in DOMAIN c1
            PROVE  tgid'[c1[i]] \in Nat \ {0} /\ myhash(tgid'[c1[i]]) = b
        <5>1. CASE i = 1
          BY <2>6, <2>9, <5>1 DEF Key
        <5>2. CASE i # 1
          BY <2>2, <2>9, <2>10, <5>2 DEF Hashed
        <5>. QED
          BY <5>1, <5>2
      <4>. QED
        BY <2>6, <3>1, <4>1 DEF Hashed
    <3>2. CASE c # b
      <4>1. \A u \in Task : pc[u] = "set_link" => Key(u) # c
        BY <2>1, <2>12, <3>2
      <4>2. Hashed(chain[c], c)
        BY <4>1 DEF ChainInv
      <4>. QED
        BY <2>6, <2>7, <3>2, <4>2 DEF Hashed
    <3>. QED
      BY <3>1, <3>2
  <2>13. ASSUME NEW u \in Task, pc'[u] = "set_publish"
         PROVE  (Match(chain[Key(u)], TgidOf[u]) = {})'
    <3>1. u # t /\ pc[u] = "set_publish"
      BY <2>1, <2>13
    <3>2. Key(u) \in Bucket \ {b}
      BY <2>5, <3>1, KeyInBucket DEF Critical
    <3>3. Match(chain[Key(u)], TgidOf[u]) = {}
      BY <3>1 DEF ChainInv
    <3>. QED
      BY <2>6, <2>7, <3>2, <3>3 DEF Match
  <2>14. ASSUME NEW u \in Task, pc'[u] = "set_link"
         PROVE  /\ u # t /\ pc[u] = "set_link"
                /\ chain'[Key(u)] = chain[Key(u)]
                /\ (/\ Len(chain[Key(u)]) = 1
                    /\ tgid[chain[Key(u)][1]] = 0
                    /\ Unique(next[u])
                    /\ Hashed(next[u], Key(u))
                    /\ Match(next[u], TgidOf[u]) = {})'
    <3>1. u # t /\ pc[u] = "set_link" /\ next'[u] = next[u]
      BY <2>1, <2>14
    <3>2. Key(u) \in Bucket \ {b}
      BY <2>5, <3>1, KeyInBucket DEF Critical
    <3>3. /\ Len(chain[Key(u)]) = 1
          /\ tgid[chain[Key(u)][1]] = 0
          /\ Unique(next[u])
          /\ Hashed(next[u], Key(u))
          /\ Match(next[u], TgidOf[u]) = {}
      BY <3>1 DEF ChainInv
    <3>4. chain[Key(u)] \in Seq(Node)
      BY <3>2
    <3>5. 1 \in DOMAIN chain[Key(u)]
      <4>. HIDE DEF TypeOK, Inv
      <4>. QED
        BY <3>3, <3>4
    <3>6. \A i \in DOMAIN next[u] : tgid'[next[u][i]] = tgid[next[u][i]]
      BY <2>6, <2>8, <3>1
    <3>7. Unique(next[u])' /\ Hashed(next[u], Key(u))'
      BY <3>1, <3>3, <3>6 DEF Unique, Hashed
    <3>8. (Match(next[u], TgidOf[u]) = {})'
      BY <3>1, <3>3, <3>6 DEF Match
    <3>9. tgid'[chain[Key(u)][1]] = 0
      BY <2>6, <2>7, <3>2, <3>3, <3>5
    <3>. QED
      BY <2>6, <3>1, <3>2, <3>3, <3>7, <3>8, <3>9
  <2>15. ASSUME NEW u \in Task, NEW v \in Task,
                pc'[u] = "set_link", pc'[v] = "set_link",
                chain'[Key(u)][1] = chain'[Key(v)][1]
         PROVE  u = v
    BY <2>14, <2>15 DEF ChainInv
  <2>. QED
    BY <2>11, <2>12, <2>13, <2>14, <2>15 DEF ChainInv
<1>6. CASE Next
  <2>1. ASSUME NEW t \in Task,
               \/ \E c \in Input : cs614sys_set(t, c)
               \/ \E l \in Length : demo_read(t, l)
               \/ SetLock(t) \/ SetExisting(t)
        PROVE  OneNodePerGroup' /\ ChainInv'
    BY <1>2, <2>1 DEF cs614sys_set, demo_read, SetLock, SetExisting
  <2>2. ASSUME NEW t \in Task,
               SetUnlock(t) \/ ReadLock(t) \/ ResolveHit(t) \/ ResolveMiss(t)
        PROVE  OneNodePerGroup' /\ ChainInv'
    BY <1>2, <2>2 DEF SetUnlock, ReadLock, ResolveHit, ResolveMiss
  <2>3. ASSUME NEW t \in Task,
               \/ Format(t) \/ ReadUnlock(t) \/ Strlen(t) \/ CopyToUser(t)
               \/ ReadReturn(t)
        PROVE  OneNodePerGroup' /\ ChainInv'
    BY <1>2, <2>3 DEF Format, ReadUnlock, Strlen, CopyToUser, ReadReturn
  <2>. QED
    BY <1>3, <1>4, <1>5, <1>6, <2>1, <2>2, <2>3, NextCases
<1>. QED
  BY <1>1, <1>6

-----------------------------------------------------------------------------
(***************************************************************************)
(* The buffers.                                                            *)
(***************************************************************************)

\* The node a task finds in its bucket belongs to its group.
LEMMA FoundNode ==
  ASSUME Inv, NEW t \in Task, Match(chain[Key(t)], TgidOf[t]) # {}
  PROVE  /\ FirstMatch(chain[Key(t)], TgidOf[t]) \in Node
         /\ tgid[FirstMatch(chain[Key(t)], TgidOf[t])] = TgidOf[t]
<1>1. chain[Key(t)] \in Seq(Node) /\ Unique(chain[Key(t)])
  BY KeyInBucket, UniqueChain DEF Inv, TypeOK
<1>. QED
  BY <1>1, FirstMatchLemma

\* The node a task is about to fill in.
LEMMA PublishedNode ==
  ASSUME Inv, NEW t \in Task, pc[t] = "set_link"
  PROVE  Head(chain[Key(t)]) \in Node /\ tgid[Head(chain[Key(t)])] = 0
<1>1. chain[Key(t)] \in Seq(Node) /\ Len(chain[Key(t)]) = 1
      /\ tgid[chain[Key(t)][1]] = 0
  BY KeyInBucket DEF Inv, TypeOK, ChainInv
<1>. QED
  BY <1>1

LEMMA NextBuf ==
  ASSUME Inv, [Next]_vars
  PROVE  BufInv'
<1>. USE DEF Inv, TypeOK, Location, shared, local, Goto
<1>1. CASE UNCHANGED vars
  BY <1>1 DEF vars, BufInv
<1>2. ASSUME buf' = buf, tgid' = tgid, temp' = temp, out' = out
      PROVE  BufInv'
  BY <1>2 DEF BufInv
<1>3. ASSUME NEW t \in Task, SetPublish(t)
      PROVE  BufInv'
  <2>1. PICK n \in Node :
          /\ tgid[n] = None
          /\ tgid' = [tgid EXCEPT ![n] = 0]
          /\ buf' = [buf EXCEPT ![n] = Blank]
    BY <1>3 DEF SetPublish
  <2>2. temp' = temp /\ out' = out
    BY <1>3 DEF SetPublish
  <2>3. \A u \in Task : temp[u] # None => temp[u] \in Node \ {n}
    BY <2>1 DEF BufInv
  <2>4. \A piece \in {"first", "last"} : buf'[n][piece] = None
    BY <2>1 DEF Blank
  <2>. QED
    BY <2>1, <2>2, <2>3, <2>4 DEF BufInv
<1>4. ASSUME NEW t \in Task, SetLink(t)
      PROVE  BufInv'
  <2>. DEFINE n == Head(chain[Key(t)])
  <2>1. n \in Node /\ tgid[n] = 0
    BY <1>4, PublishedNode DEF SetLink
  <2>2. /\ tgid' = [tgid EXCEPT ![n] = TgidOf[t]]
        /\ buf' = buf /\ temp' = temp /\ out' = out
    BY <1>4 DEF SetLink
  <2>3. \A u \in Task : temp[u] # None => temp[u] \in Node \ {n}
    BY <2>1 DEF BufInv
  <2>4. \A piece \in {"first", "last"} : buf[n][piece] = None
    BY <2>1 DEF BufInv, Buffer, Answer
  <2>. QED
    BY <2>1, <2>2, <2>3, <2>4 DEF BufInv
<1>5. ASSUME NEW t \in Task, NEW n \in Node, tgid[n] = TgidOf[t],
             NEW a \in Answer, a.by = t,
             \/ buf' = [buf EXCEPT ![n].first = a]
             \/ buf' = [buf EXCEPT ![n].last = a],
             \A u \in Task \ {t} : temp'[u] = temp[u],
             temp'[t] = n, tgid' = tgid, out' = out
      PROVE  BufInv'
  <2>1. \A m \in Node \ {n} : buf'[m] = buf[m]
    BY <1>5
  <2>2. \A piece \in {"first", "last"} : buf'[n][piece] \in {a, buf[n][piece]}
    BY <1>5 DEF Buffer
  <2>3. \A m \in Node : \A piece \in {"first", "last"} :
          buf'[m][piece] # None => TgidOf[buf'[m][piece].by] = tgid[m]
    <3>. SUFFICES ASSUME NEW m \in Node, NEW piece \in {"first", "last"},
                         buf'[m][piece] # None
                  PROVE  TgidOf[buf'[m][piece].by] = tgid[m]
      OBVIOUS
    <3>1. buf[m][piece] # None => TgidOf[buf[m][piece].by] = tgid[m]
      BY DEF BufInv
    <3>. HIDE DEF TypeOK, Inv
    <3>2. CASE m = n
      BY <1>5, <2>2, <3>1, <3>2
    <3>3. CASE m # n
      BY <2>1, <3>1, <3>3
    <3>. QED
      BY <3>2, <3>3
  <2>4. \A u \in Task : temp'[u] # None => tgid'[temp'[u]] = TgidOf[u]
    <3>1. \A u \in Task : temp[u] # None => tgid[temp[u]] = TgidOf[u]
      BY DEF BufInv
    <3>. HIDE DEF TypeOK, Inv
    <3>. QED
      BY <1>5, <3>1
  <2>5. \A u \in Task : \A piece \in {"len", "first", "last"} :
          out'[u][piece] # None => TgidOf[out'[u][piece].by] = TgidOf[u]
    BY <1>5 DEF BufInv
  <2>. QED
    BY <1>5, <2>3, <2>4, <2>5 DEF BufInv
<1>6. ASSUME NEW t \in Task, ResolveHit(t)
      PROVE  BufInv'
  <2>. DEFINE n == FirstMatch(chain[Key(t)], TgidOf[t])
              a == getans(curid[n], t)
  <2>1. n \in Node /\ tgid[n] = TgidOf[t] /\ a \in Answer /\ a.by = t
    BY <1>6, FoundNode DEF ResolveHit, getans, Answer
  <2>2. /\ buf' = [buf EXCEPT ![n].first = a]
        /\ temp' = [temp EXCEPT ![t] = n]
        /\ tgid' = tgid /\ out' = out
    BY <1>6 DEF ResolveHit
  <2>. HIDE DEF n, a
  <2>. QED
    BY <1>5, <2>1, <2>2
<1>7. ASSUME NEW t \in Task, Format(t)
      PROVE  BufInv'
  <2>. DEFINE n == temp[t]
              a == getans(arg[t], t)
  <2>1. n \in Node /\ tgid[n] = TgidOf[t] /\ a \in Answer /\ a.by = t
    BY <1>7 DEF Format, getans, Answer, LocalInv, BufInv
  <2>2. buf' = [buf EXCEPT ![n].last = a] /\ temp' = temp /\ tgid' = tgid /\ out' = out
    BY <1>7 DEF Format
  <2>. QED
    BY <1>5, <2>1, <2>2
<1>8. ASSUME NEW t \in Task, Strlen(t) \/ CopyToUser(t) \/ ReadReturn(t)
      PROVE  BufInv'
  <2>1. ASSUME NEW piece \in {"len", "first", "last"}, out'[t][piece] # None
        PROVE  TgidOf[out'[t][piece].by] = TgidOf[t]
    <3>1. out[t] \in Measured
      OBVIOUS
    <3>2. CASE ReadReturn(t)
      BY <2>1, <3>2 DEF ReadReturn, Unread
    <3>3. CASE Strlen(t)
      <4>1. temp[t] \in Node /\ tgid[temp[t]] = TgidOf[t]
        BY <3>3 DEF Strlen, LocalInv, BufInv
      <4>2. out'[t] = [out[t] EXCEPT !.len = buf[temp[t]].last]
        BY <3>3 DEF Strlen
      <4>. QED
        BY <2>1, <3>1, <4>1, <4>2 DEF Measured, BufInv
    <3>4. CASE CopyToUser(t)
      <4>1. temp[t] \in Node /\ tgid[temp[t]] = TgidOf[t]
        BY <3>4 DEF CopyToUser, LocalInv, BufInv
      <4>2. out'[t] = [out[t] EXCEPT !.first = buf[temp[t]].first,
                                     !.last  = buf[temp[t]].last]
        BY <3>4 DEF CopyToUser
      <4>. QED
        BY <2>1, <3>1, <4>1, <4>2 DEF Measured, BufInv
    <3>. QED
      BY <1>8, <3>2, <3>3, <3>4
  <2>2. /\ buf' = buf /\ tgid' = tgid
        /\ \A u \in Task : temp'[u] \in {temp[u], None}
        /\ \A u \in Task \ {t} : out'[u] = out[u]
    <3>1. CASE Strlen(t)
      BY <3>1 DEF Strlen
    <3>2. CASE CopyToUser(t)
      BY <3>2 DEF CopyToUser
    <3>3. CASE ReadReturn(t)
      BY <3>3 DEF ReadReturn
    <3>. QED
      BY <1>8, <3>1, <3>2, <3>3
  <2>3. \A u \in Task : \A piece \in {"len", "first", "last"} :
          out'[u][piece] # None => TgidOf[out'[u][piece].by] = TgidOf[u]
    BY <2>1, <2>2 DEF BufInv
  <2>. QED
    BY <2>2, <2>3 DEF BufInv
<1>9. CASE Next
  <2>1. ASSUME NEW t \in Task,
               \/ \E c \in Input : cs614sys_set(t, c)
               \/ \E l \in Length : demo_read(t, l)
               \/ SetLock(t) \/ SetExisting(t) \/ SetMissing(t)
        PROVE  BufInv'
    BY <1>2, <2>1 DEF cs614sys_set, demo_read, SetLock, SetExisting, SetMissing
  <2>2. ASSUME NEW t \in Task,
               SetUnlock(t) \/ ReadLock(t) \/ ResolveMiss(t) \/ ReadUnlock(t)
        PROVE  BufInv'
    BY <1>2, <2>2 DEF SetUnlock, ReadLock, ResolveMiss, ReadUnlock
  <2>. QED
    BY <1>3, <1>4, <1>6, <1>7, <1>8, <1>9, <2>1, <2>2, NextCases
<1>. QED
  BY <1>1, <1>9

LEMMA NextFilled ==
  ASSUME Inv, [Next]_vars
  PROVE  FilledInv'
<1>. USE DEF Inv, TypeOK, Location, shared, local, Goto
<1>1. CASE UNCHANGED vars
  BY <1>1 DEF vars, FilledInv
<1>. DEFINE
     Own(v) == temp[v] # None =>
       /\ pc[v] # "return" => buf[temp[v]].first # None
       /\ pc[v] \in {"read_unlock", "strlen", "copy"} => buf[temp[v]].last # None
       /\ pc[v] = "copy" => out[v].len # None
       /\ pc[v] = "return" => None \notin {out[v].len, out[v].first, out[v].last}
     Others(t) ==
       /\ \A v \in Task \ {t} : /\ pc'[v] = pc[v] /\ temp'[v] = temp[v]
                              /\ out'[v] = out[v]
       /\ \A n \in Node : tgid[n] # None =>
            /\ buf[n].first # None => buf'[n].first # None
            /\ buf[n].last # None => buf'[n].last # None
\* A step of t empties no buf that another task reads.
<1>2. ASSUME NEW t \in Task, Others(t), Own(t)'
      PROVE  FilledInv'
  <2>. SUFFICES ASSUME NEW v \in Task PROVE Own(v)'
    BY DEF FilledInv
  <2>1. CASE v = t
    BY <1>2, <2>1
  <2>2. CASE v # t
    <3>1. Own(v)
      BY DEF FilledInv
    <3>2. pc'[v] = pc[v] /\ temp'[v] = temp[v] /\ out'[v] = out[v]
      BY <1>2, <2>2
    <3>3. temp[v] # None => temp[v] \in Node /\ tgid[temp[v]] # None
      BY DEF BufInv
    <3>. HIDE DEF TypeOK, Inv
    <3>. QED
      BY <1>2, <3>1, <3>2, <3>3
  <2>. QED
    BY <2>1, <2>2
<1>3. ASSUME NEW t \in Task, SetPublish(t)
      PROVE  FilledInv'
  <2>1. PICK n \in Node : tgid[n] = None /\ buf' = [buf EXCEPT ![n] = Blank]
    BY <1>3 DEF SetPublish
  <2>2. Others(t)
    BY <1>3, <2>1 DEF SetPublish
  <2>3. Own(t)'
    BY <1>3 DEF SetPublish, LocalInv
  <2>. QED
    BY <1>2, <2>2, <2>3
<1>4. ASSUME NEW t \in Task,
             \/ \E c \in Input : cs614sys_set(t, c)
             \/ \E l \in Length : demo_read(t, l)
             \/ SetLock(t) \/ SetExisting(t) \/ SetMissing(t) \/ SetLink(t)
             \/ SetUnlock(t) \/ ReadLock(t) \/ ResolveMiss(t)
      PROVE  FilledInv'
  <2>1. /\ pc[t] \in {"idle", "set_lock", "set_find", "set_link",
                      "set_unlock", "read_lock", "resolve"}
        /\ temp' = temp /\ buf' = buf
    BY <1>4 DEF cs614sys_set, demo_read, SetLock, SetExisting, SetMissing,
                SetLink, SetUnlock, ReadLock, ResolveMiss
  <2>2. \A v \in Task \ {t} : pc'[v] = pc[v] /\ out'[v] = out[v]
    BY <1>4 DEF cs614sys_set, demo_read, SetLock, SetExisting, SetMissing,
                SetLink, SetUnlock, ReadLock, ResolveMiss
  <2>3. Others(t)
    BY <2>1, <2>2
  <2>4. Own(t)'
    BY <2>1 DEF LocalInv
  <2>. QED
    BY <1>2, <2>3, <2>4
<1>5. ASSUME NEW t \in Task, ResolveHit(t)
      PROVE  FilledInv'
  <2>. DEFINE n == FirstMatch(chain[Key(t)], TgidOf[t])
              a == getans(curid[n], t)
  <2>1. n \in Node /\ a # None
    <3>1. n \in Node /\ a \in Answer
      BY <1>5, FoundNode DEF ResolveHit, getans, Answer
    <3>. QED
      BY <3>1
  <2>2. /\ pc' = [pc EXCEPT ![t] = "format"]
        /\ temp' = [temp EXCEPT ![t] = n]
        /\ buf' = [buf EXCEPT ![n].first = a]
        /\ out' = out
    BY <1>5 DEF ResolveHit
  <2>3. /\ buf'[n].first = a /\ buf'[n].last = buf[n].last
        /\ \A m \in Node \ {n} : buf'[m] = buf[m]
    BY <2>1, <2>2 DEF Buffer
  <2>. HIDE DEF n, a
  <2>4. Others(t)
    BY <2>1, <2>2, <2>3
  <2>5. Own(t)'
    BY <2>1, <2>2, <2>3
  <2>. QED
    BY <1>2, <2>4, <2>5
<1>6. ASSUME NEW t \in Task, Format(t)
      PROVE  FilledInv'
  <2>. DEFINE n == temp[t]
              a == getans(arg[t], t)
  <2>1. n \in Node /\ a # None
    <3>1. n \in Node /\ a \in Answer
      BY <1>6 DEF Format, LocalInv, getans, Answer
    <3>. QED
      BY <3>1
  <2>2. /\ pc[t] = "format"
        /\ pc' = [pc EXCEPT ![t] = "read_unlock"]
        /\ buf' = [buf EXCEPT ![n].last = a]
        /\ temp' = temp /\ out' = out
    BY <1>6 DEF Format
  <2>3. /\ buf'[n].first = buf[n].first /\ buf'[n].last = a
        /\ \A m \in Node \ {n} : buf'[m] = buf[m]
    BY <2>1, <2>2 DEF Buffer
  <2>4. Own(t)
    BY DEF FilledInv
  <2>. HIDE DEF a
  <2>5. Others(t)
    BY <2>1, <2>2, <2>3
  <2>6. Own(t)'
    BY <2>1, <2>2, <2>3, <2>4
  <2>. QED
    BY <1>2, <2>5, <2>6
<1>7. ASSUME NEW t \in Task,
             ReadUnlock(t) \/ Strlen(t) \/ CopyToUser(t)
      PROVE  FilledInv'
  <2>1. temp' = temp /\ buf' = buf
    BY <1>7 DEF ReadUnlock, Strlen, CopyToUser
  <2>2. \A v \in Task \ {t} : pc'[v] = pc[v] /\ out'[v] = out[v]
    BY <1>7 DEF ReadUnlock, Strlen, CopyToUser
  <2>3. Others(t)
    BY <2>1, <2>2
  <2>4. Own(t) /\ out[t] \in Measured
    BY DEF FilledInv
  <2>5. Own(t)'
    <3>1. CASE ReadUnlock(t)
      BY <2>4, <3>1 DEF ReadUnlock
    <3>2. CASE Strlen(t)
      <4>1. out'[t].len = buf[temp[t]].last
        BY <3>2 DEF Strlen, Measured
      <4>. QED
        BY <2>4, <3>2, <4>1 DEF Strlen
    <3>3. CASE CopyToUser(t)
      <4>1. /\ out'[t].len = out[t].len
            /\ out'[t].first = buf[temp[t]].first
            /\ out'[t].last = buf[temp[t]].last
        BY <2>4, <3>3 DEF CopyToUser, Measured
      <4>. QED
        BY <2>4, <3>3, <4>1 DEF CopyToUser
    <3>. QED
      BY <1>7, <3>1, <3>2, <3>3
  <2>. QED
    BY <1>2, <2>3, <2>5
<1>8. ASSUME NEW t \in Task, ReadReturn(t)
      PROVE  FilledInv'
  <2>1. Others(t) /\ temp'[t] = None
    BY <1>8 DEF ReadReturn
  <2>. QED
    BY <1>2, <2>1
<1>. QED
  BY <1>1, <1>3, <1>4, <1>5, <1>6, <1>7, <1>8, NextCases

LEMMA NextLone ==
  ASSUME Inv, [Next]_vars
  PROVE  LoneInv'
<1>. USE DEF Inv, TypeOK, Location, shared, local, Goto
<1>1. CASE UNCHANGED vars
  BY <1>1 DEF vars, LoneInv, Intact
<1>. DEFINE
     Own(v) == temp[v] # None =>
       /\ pc[v] # "return" => buf[temp[v]].first = getans(arg[v], v)
       /\ pc[v] \in {"read_unlock", "strlen", "copy"} =>
            buf[temp[v]].last = getans(arg[v], v)
       /\ pc[v] = "copy" => out[v].len = getans(arg[v], v)
       /\ Intact(v)
     Others(t) ==
       /\ \A v \in Task \ {t} : /\ pc'[v] = pc[v] /\ arg'[v] = arg[v]
                              /\ temp'[v] = temp[v] /\ out'[v] = out[v]
       /\ \A n \in Node :
            tgid[n] \in Nat \ {0, TgidOf[t]} => buf'[n] = buf[n]
\* A step of t leaves the reads of the other groups alone.
<1>2. ASSUME NEW t \in Task, Others(t), Alone(t) => Own(t)'
      PROVE  LoneInv'
  <2>. SUFFICES ASSUME NEW v \in Task, Alone(v) PROVE Own(v)'
    BY DEF LoneInv, Alone
  <2>1. CASE v = t
    BY <1>2, <2>1
  <2>2. CASE v # t
    <3>1. Own(v)
      BY DEF LoneInv
    <3>2. /\ pc'[v] = pc[v] /\ arg'[v] = arg[v]
          /\ temp'[v] = temp[v] /\ out'[v] = out[v]
      BY <1>2, <2>2
    <3>3. temp[v] # None => buf'[temp[v]] = buf[temp[v]]
      <4>1. TgidOf[v] \in Nat \ {0, TgidOf[t]}
        BY <2>2 DEF Alone
      <4>. QED
        BY <1>2, <4>1 DEF BufInv
    <3>. QED
      BY <3>1, <3>2, <3>3 DEF Intact
  <2>. QED
    BY <2>1, <2>2
<1>3. ASSUME NEW t \in Task, SetPublish(t)
      PROVE  LoneInv'
  <2>1. PICK n \in Node : tgid[n] = None /\ buf' = [buf EXCEPT ![n] = Blank]
    BY <1>3 DEF SetPublish
  <2>2. Others(t)
    BY <1>3, <2>1 DEF SetPublish
  <2>3. Own(t)'
    BY <1>3 DEF SetPublish, LocalInv
  <2>. QED
    BY <1>2, <2>2, <2>3
<1>4. ASSUME NEW t \in Task,
             \/ \E c \in Input : cs614sys_set(t, c)
             \/ \E l \in Length : demo_read(t, l)
             \/ SetLock(t) \/ SetExisting(t) \/ SetMissing(t) \/ SetLink(t)
             \/ SetUnlock(t) \/ ReadLock(t) \/ ResolveMiss(t)
      PROVE  LoneInv'
  <2>1. /\ pc[t] \in {"idle", "set_lock", "set_find", "set_link",
                      "set_unlock", "read_lock", "resolve"}
        /\ temp' = temp /\ buf' = buf
    BY <1>4 DEF cs614sys_set, demo_read, SetLock, SetExisting, SetMissing,
                SetLink, SetUnlock, ReadLock, ResolveMiss
  <2>2. \A v \in Task \ {t} : /\ pc'[v] = pc[v] /\ arg'[v] = arg[v]
                             /\ out'[v] = out[v]
    BY <1>4 DEF cs614sys_set, demo_read, SetLock, SetExisting, SetMissing,
                SetLink, SetUnlock, ReadLock, ResolveMiss
  <2>3. Others(t)
    BY <2>1, <2>2
  <2>4. Own(t)'
    BY <2>1 DEF LocalInv
  <2>. QED
    BY <1>2, <2>3, <2>4
<1>5. ASSUME NEW t \in Task, ResolveHit(t)
      PROVE  LoneInv'
  <2>. DEFINE n == FirstMatch(chain[Key(t)], TgidOf[t])
              a == getans(curid[n], t)
  <2>1. n \in Node /\ tgid[n] = TgidOf[t]
    BY <1>5, FoundNode DEF ResolveHit
  <2>2. /\ pc' = [pc EXCEPT ![t] = "format"]
        /\ temp' = [temp EXCEPT ![t] = n]
        /\ arg' = [arg EXCEPT ![t] = curid[n]]
        /\ buf' = [buf EXCEPT ![n].first = a]
        /\ out' = out
    BY <1>5 DEF ResolveHit
  <2>3. buf'[n].first = a
    BY <2>1, <2>2 DEF Buffer
  <2>. HIDE DEF n
  <2>4. Others(t)
    BY <2>1, <2>2
  <2>5. Own(t)'
    BY <2>1, <2>2, <2>3 DEF Intact
  <2>. QED
    BY <1>2, <2>4, <2>5
<1>6. ASSUME NEW t \in Task, Format(t)
      PROVE  LoneInv'
  <2>. DEFINE n == temp[t]
              a == getans(arg[t], t)
  <2>1. n \in Node /\ tgid[n] = TgidOf[t]
    BY <1>6 DEF Format, LocalInv, BufInv
  <2>2. /\ pc[t] = "format"
        /\ pc' = [pc EXCEPT ![t] = "read_unlock"]
        /\ buf' = [buf EXCEPT ![n].last = a]
        /\ temp' = temp /\ arg' = arg /\ out' = out
    BY <1>6 DEF Format
  <2>3. buf'[n].first = buf[n].first /\ buf'[n].last = a
    BY <2>1, <2>2 DEF Buffer
  <2>4. Others(t)
    BY <2>1, <2>2
  <2>5. Alone(t) => Own(t)'
    BY <2>1, <2>2, <2>3 DEF LoneInv, Intact
  <2>. QED
    BY <1>2, <2>4, <2>5
<1>7. ASSUME NEW t \in Task, ReadUnlock(t)
      PROVE  LoneInv'
  <2>1. /\ pc[t] = "read_unlock"
        /\ pc' = [pc EXCEPT ![t] = IF temp[t] = None THEN "return" ELSE "strlen"]
        /\ temp' = temp /\ arg' = arg /\ out' = out /\ buf' = buf
    BY <1>7 DEF ReadUnlock
  <2>2. Others(t)
    BY <2>1
  <2>3. Alone(t) => Own(t)'
    BY <2>1 DEF LoneInv, Intact
  <2>. QED
    BY <1>2, <2>2, <2>3
<1>8. ASSUME NEW t \in Task, Strlen(t)
      PROVE  LoneInv'
  <2>1. /\ pc[t] = "strlen" /\ pc' = [pc EXCEPT ![t] = "copy"]
        /\ out' = [out EXCEPT ![t].len = buf[temp[t]].last]
        /\ temp' = temp /\ arg' = arg /\ buf' = buf
    BY <1>8 DEF Strlen
  <2>2. out'[t].len = buf[temp[t]].last
    BY <2>1 DEF Measured
  <2>3. Others(t)
    BY <2>1
  <2>4. Alone(t) => Own(t)'
    BY <2>1, <2>2 DEF LoneInv, Intact
  <2>. QED
    BY <1>2, <2>3, <2>4
<1>9. ASSUME NEW t \in Task, CopyToUser(t)
      PROVE  LoneInv'
  <2>1. /\ pc[t] = "copy" /\ pc' = [pc EXCEPT ![t] = "return"]
        /\ out' = [out EXCEPT ![t].first = buf[temp[t]].first,
                              ![t].last  = buf[temp[t]].last]
        /\ temp' = temp /\ arg' = arg /\ buf' = buf
    BY <1>9 DEF CopyToUser
  <2>2. out[t] \in Measured
    OBVIOUS
  <2>3. out'[t] = [len |-> out[t].len, first |-> buf[temp[t]].first,
                   last |-> buf[temp[t]].last]
    BY <2>1, <2>2 DEF Measured
  <2>4. Others(t)
    BY <2>1
  <2>5. Alone(t) => Own(t)'
    BY <2>1, <2>3 DEF LoneInv, Intact
  <2>. QED
    BY <1>2, <2>4, <2>5
<1>10. ASSUME NEW t \in Task, ReadReturn(t)
       PROVE  LoneInv'
  <2>1. Others(t) /\ temp'[t] = None
    BY <1>10 DEF ReadReturn
  <2>. QED
    BY <1>2, <2>1
<1>. QED
  BY <1>1, <1>3, <1>4, <1>5, <1>6, <1>7, <1>8, <1>9, <1>10, NextCases

-----------------------------------------------------------------------------
(***************************************************************************)
(* The theorems.                                                           *)
(***************************************************************************)

\* Inv is an invariant of the driver.
THEOREM Invariance == Spec => []Inv
<1>1. Inv /\ [Next]_vars => Inv'
  BY NextType, NextMutualExclusion, NextLocal, NextChain, NextBuf,
     NextFilled, NextLone DEF Inv
<1>. QED
  BY <1>1, InitInv, PTL DEF Spec

\* No id out of 0..7 is ever stored or answered, whatever user space writes,
\* and every variable has its type.
THEOREM TypeCorrect == Spec => []TypeOK
BY Invariance, PTL DEF Inv

\* At most one task at a time walks or changes the chain of a bucket.
THEOREM BucketsAreExclusive == Spec => []MutualExclusion
BY Invariance, PTL DEF Inv

\* A process never gets a second node, so cs614sys_set and demo_read of its
\* threads always meet in the same one.
THEOREM OneNode == Spec => []OneNodePerGroup
BY Invariance, PTL DEF Inv

\* A read that succeeds answers for a thread of the reader's own process.
THEOREM NoForeignAnswer == Spec => []ResultsStayInGroup
<1>1. ASSUME Inv PROVE ResultsStayInGroup
  <2>. SUFFICES ASSUME NEW t \in Task, pc[t] = "return", arg[t] # None,
                       NEW piece \in {"len", "first", "last"}
                PROVE  /\ out[t][piece] \in Answer
                       /\ TgidOf[out[t][piece].by] = TgidOf[t]
    BY DEF ResultsStayInGroup
  <2>1. temp[t] # None
    BY <1>1 DEF Inv, LocalInv
  <2>2. out[t] \in Measured /\ out[t][piece] # None
    BY <1>1, <2>1 DEF Inv, TypeOK, FilledInv
  <2>. QED
    BY <1>1, <2>2 DEF Inv, BufInv, Measured
<1>. QED
  BY <1>1, Invariance, PTL

\* A process with a single thread reads its whole answer, whatever the other
\* processes in its bucket do while it uses buf without the mutex.
THEOREM SingleThreadedReads == Spec => []LoneReadsIntact
<1>1. Inv => LoneReadsIntact
  BY DEF Inv, LoneInv, LoneReadsIntact, LocalInv, Intact
<1>. QED
  BY <1>1, Invariance, PTL

-----------------------------------------------------------------------------
(***************************************************************************)
(* The table implements CommandStore.                                      *)
(***************************************************************************)
Groups == {TgidOf[t] : t \in Task}

-----------------------------------------------------------------------------
(***************************************************************************)
(* The command the table stores for a group is that of the one node of the *)
(* group in the linked chain of its bucket.                                *)
(***************************************************************************)
StoredIs(g, c) ==
  /\ c \in Seq(Node)
  /\ \A i \in DOMAIN c : tgid[c[i]] \in Nat \ {0}
  /\ \A i \in DOMAIN c : tgid[c[i]] = g => StoredCommand(g) = curid[c[i]]
  /\ (\A i \in DOMAIN c : tgid[c[i]] # g) => StoredCommand(g) = None

StoredInv == \A g \in Groups : StoredIs(g, LinkedChain(myhash(g)))

\* Inside a bucket nobody else is inserting.
LEMMA InsertingLemma ==
  ASSUME Inv, NEW t \in Task, pc[t] \in Critical
  PROVE  Inserting(Key(t)) = IF pc[t] = "set_link" THEN {t} ELSE {}
<1>1. \A u \in Inserting(Key(t)) : u = t
  BY OneInBucket DEF Inserting, Inv, Critical
<1>. QED
  BY <1>1 DEF Inserting

LEMMA LinkedLemma ==
  ASSUME Inv, NEW b \in Bucket
  PROVE  /\ LinkedChain(b) \in Seq(Node)
         /\ Unique(LinkedChain(b))
         /\ Hashed(LinkedChain(b), b)
<1>1. CASE Inserting(b) = {}
  <2>1. LinkedChain(b) = chain[b]
    BY <1>1 DEF LinkedChain
  <2>2. \A t \in Task : pc[t] = "set_link" => Key(t) # b
    BY <1>1 DEF Inserting
  <2>3. chain[b] \in Seq(Node)
    BY DEF Inv, TypeOK
  <2>4. Hashed(chain[b], b)
    BY <2>2 DEF Inv, ChainInv
  <2>. QED
    BY <2>1, <2>3, <2>4, UniqueChain DEF Inv
<1>2. CASE Inserting(b) # {}
  <2>1. PICK t \in Inserting(b) : LinkedChain(b) = next[t]
    BY <1>2 DEF LinkedChain
  <2>2. t \in Task /\ pc[t] = "set_link" /\ Key(t) = b
    BY DEF Inserting
  <2>3. next[t] \in Seq(Node)
    BY <2>2 DEF Inv, TypeOK
  <2>4. Unique(next[t]) /\ Hashed(next[t], b)
    BY <2>2 DEF Inv, ChainInv
  <2>. QED
    BY <2>1, <2>3, <2>4
<1>. QED
  BY <1>1, <1>2

LEMMA GroupBucket == \A g \in Groups : myhash(g) \in Bucket
BY DEF Groups, myhash, Bucket

LEMMA StoredHolds == Inv => StoredInv
<1>. SUFFICES ASSUME Inv, NEW g \in Groups, NEW c, c = LinkedChain(myhash(g))
              PROVE  StoredIs(g, c)
  BY DEF StoredInv
<1>1. c \in Seq(Node) /\ Unique(c) /\ Hashed(c, myhash(g))
  BY LinkedLemma, GroupBucket
<1>2. StoredCommand(g) = IF Match(c, g) = {} THEN None ELSE curid[FirstMatch(c, g)]
  BY DEF StoredCommand
<1>3. ASSUME NEW i \in DOMAIN c, tgid[c[i]] = g PROVE StoredCommand(g) = curid[c[i]]
  <2>1. Match(c, g) # {}
    BY <1>3 DEF Match
  <2>2. PICK j \in DOMAIN c : FirstMatch(c, g) = c[j] /\ tgid[c[j]] = g
    BY <1>1, <2>1, FirstMatchLemma
  <2>3. i = j
    BY <1>1, <1>3, <2>2 DEF Unique
  <2>. QED
    BY <1>2, <2>1, <2>2, <2>3
<1>4. (\A i \in DOMAIN c : tgid[c[i]] # g) => StoredCommand(g) = None
  BY <1>2 DEF Match
<1>5. \A i \in DOMAIN c : tgid[c[i]] \in Nat \ {0}
  BY <1>1 DEF Hashed
<1>. QED
  BY <1>1, <1>3, <1>4, <1>5 DEF StoredIs

LEMMA NextStored == Inv /\ [Next]_vars => StoredInv /\ StoredInv' /\ Inv'
<1>1. Inv /\ [Next]_vars => Inv'
  BY NextType, NextMutualExclusion, NextLocal, NextChain, NextBuf,
     NextFilled, NextLone DEF Inv
<1>. QED
  BY <1>1, StoredHolds, PTL

-----------------------------------------------------------------------------
(***************************************************************************)
(* Steps that change no stored command.                                    *)
(***************************************************************************)
LEMMA SameStored ==
  ASSUME StoredInv, StoredInv', NEW g \in Groups,
         LinkedChain(myhash(g))' = LinkedChain(myhash(g)),
         \A i \in DOMAIN LinkedChain(myhash(g)) :
           LET n == LinkedChain(myhash(g))[i] IN
           tgid'[n] = tgid[n] /\ (tgid[n] = g => curid'[n] = curid[n])
  PROVE  StoredCommand(g)' = StoredCommand(g)
<1>. DEFINE c == LinkedChain(myhash(g))
<1>1. StoredIs(g, c)
  BY DEF StoredInv
<1>2. /\ \A i \in DOMAIN c : tgid'[c[i]] = g => StoredCommand(g)' = curid'[c[i]]
      /\ (\A i \in DOMAIN c : tgid'[c[i]] # g) => StoredCommand(g)' = None
  BY DEF StoredInv, StoredIs
<1>3. \A i \in DOMAIN c : tgid'[c[i]] = tgid[c[i]] /\ (tgid[c[i]] = g => curid'[c[i]] = curid[c[i]])
  OBVIOUS
<1>. HIDE DEF c
<1>4. CASE \E i \in DOMAIN c : tgid[c[i]] = g
  BY <1>1, <1>2, <1>3, <1>4 DEF StoredIs
<1>5. CASE \A i \in DOMAIN c : tgid[c[i]] # g
  BY <1>1, <1>2, <1>3, <1>5 DEF StoredIs
<1>. QED
  BY <1>4, <1>5

LEMMA SameLinked ==
  ASSUME NEW b, Inserting(b)' = Inserting(b), chain'[b] = chain[b],
         \A u \in Inserting(b) : next'[u] = next[u]
  PROVE  LinkedChain(b)' = LinkedChain(b)
BY DEF LinkedChain

\* A step that touches no chain and no node, and is none of an insertion.
LEMMA QuietStep ==
  ASSUME Inv, [Next]_vars, NEW t \in Task, UNCHANGED <<chain, tgid, curid>>,
         pc[t] # "set_link", pc'[t] # "set_link",
         \A u \in Task \ {t} : pc'[u] = pc[u] /\ next'[u] = next[u]
  PROVE  \A g \in Groups : StoredCommand(g)' = StoredCommand(g)
<1>1. StoredInv /\ StoredInv'
  BY NextStored
<1>2. ASSUME NEW b PROVE LinkedChain(b)' = LinkedChain(b)
  <2>1. Inserting(b)' = Inserting(b) /\ \A u \in Inserting(b) : next'[u] = next[u]
    BY DEF Inserting
  <2>. QED
    BY <2>1, SameLinked
<1>. QED
  BY <1>1, <1>2, SameStored

-----------------------------------------------------------------------------
(***************************************************************************)
(* The three steps that change a chain or a node.                          *)
(***************************************************************************)
LEMMA ExistingStores ==
  ASSUME Inv, [Next]_vars, NEW t \in Task, SetExisting(t)
  PROVE  \A g \in Groups :
           StoredCommand(g)' = IF g = TgidOf[t] THEN arg[t] ELSE StoredCommand(g)
<1>. DEFINE n == FirstMatch(chain[Key(t)], TgidOf[t])
<1>1. StoredInv /\ StoredInv'
  BY NextStored
<1>2. /\ pc[t] = "set_find" /\ pc' = [pc EXCEPT ![t] = "set_unlock"]
      /\ curid' = [curid EXCEPT ![n] = arg[t]]
      /\ UNCHANGED <<chain, tgid, next>>
      /\ Match(chain[Key(t)], TgidOf[t]) # {}
  BY DEF SetExisting, Goto, local
<1>3. /\ n \in Node /\ tgid[n] = TgidOf[t]
      /\ \E i \in DOMAIN chain[Key(t)] : n = chain[Key(t)][i]
  <2>1. chain[Key(t)] \in Seq(Node) /\ Unique(chain[Key(t)])
    BY KeyInBucket, UniqueChain DEF Inv, TypeOK
  <2>. QED
    BY <1>2, <2>1, FirstMatchLemma
<1>. HIDE DEF n
<1>4. ASSUME NEW b PROVE LinkedChain(b)' = LinkedChain(b)
  <2>1. Inserting(b)' = Inserting(b)
    BY <1>2 DEF Inserting, Inv, TypeOK
  <2>. QED
    BY <1>2, <2>1, SameLinked
<1>5. LinkedChain(Key(t)) = chain[Key(t)]
  BY <1>2, InsertingLemma DEF LinkedChain, Critical
<1>6. ASSUME NEW g \in Groups, g # TgidOf[t] PROVE StoredCommand(g)' = StoredCommand(g)
  <2>1. \A m : tgid[m] = g => m # n
    BY <1>3, <1>6
  <2>2. LinkedChain(myhash(g)) \in Seq(Node)
    BY <1>1 DEF StoredInv, StoredIs
  <2>3. \A i \in DOMAIN LinkedChain(myhash(g)) : LinkedChain(myhash(g))[i] \in Node
    BY <2>2
  <2>4. \A m \in Node : m # n => curid'[m] = curid[m]
    BY <1>2 DEF Inv, TypeOK
  <2>. QED
    BY <1>1, <1>2, <1>4, <2>1, <2>3, <2>4, SameStored
<1>7. StoredCommand(TgidOf[t])' = arg[t]
  <2>1. TgidOf[t] \in Groups /\ myhash(TgidOf[t]) = Key(t)
    BY DEF Groups, Key
  <2>2. LinkedChain(myhash(TgidOf[t]))' = chain[Key(t)]
    BY <1>4, <1>5, <2>1
  <2>3. PICK i \in DOMAIN chain[Key(t)] : n = chain[Key(t)][i]
    BY <1>3
  <2>4. tgid'[n] = TgidOf[t] /\ curid'[n] = arg[t]
    BY <1>2, <1>3 DEF Inv, TypeOK
  <2>. QED
    BY <1>1, <2>1, <2>2, <2>3, <2>4 DEF StoredInv, StoredIs
<1>. QED
  BY <1>6, <1>7

LEMMA PublishStores ==
  ASSUME Inv, [Next]_vars, NEW t \in Task, SetPublish(t)
  PROVE  \A g \in Groups : StoredCommand(g)' = StoredCommand(g)
<1>1. StoredInv /\ StoredInv' /\ Inv'
  BY NextStored
<1>2. PICK n \in Node : /\ tgid[n] = None
                        /\ chain' = [chain EXCEPT ![Key(t)] = <<n>>]
                        /\ tgid'  = [tgid EXCEPT ![n] = 0]
                        /\ curid' = [curid EXCEPT ![n] = 0]
  BY DEF SetPublish
<1>3. /\ pc[t] = "set_publish" /\ pc' = [pc EXCEPT ![t] = "set_link"]
      /\ next' = [next EXCEPT ![t] = chain[Key(t)]]
  BY DEF SetPublish, Goto
<1>4. pc'[t] = "set_link" /\ next'[t] = chain[Key(t)] /\ \A u \in Task : u # t => pc'[u] = pc[u] /\ next'[u] = next[u]
  BY <1>3 DEF Inv, TypeOK
<1>5. ASSUME NEW b \in Bucket PROVE LinkedChain(b)' = LinkedChain(b)
  <2>1. CASE b = Key(t)
    <3>1. Inserting(b) = {}
      BY <1>3, <2>1, InsertingLemma DEF Critical
    <3>2. Inserting(b)' = {t}
      BY <1>4, <2>1, <3>1 DEF Inserting
    <3>. QED
      BY <1>4, <2>1, <3>1, <3>2 DEF LinkedChain
  <2>2. CASE b # Key(t)
    <3>1. Inserting(b)' = Inserting(b) /\ \A u \in Inserting(b) : next'[u] = next[u]
      BY <1>3, <1>4, <2>2 DEF Inserting
    <3>2. chain'[b] = chain[b]
      BY <1>2, <2>2 DEF Inv, TypeOK
    <3>. QED
      BY <3>1, <3>2, SameLinked
  <2>. QED
    BY <2>1, <2>2
<1>6. ASSUME NEW g \in Groups PROVE StoredCommand(g)' = StoredCommand(g)
  <2>. DEFINE c == LinkedChain(myhash(g))
  <2>1. c \in Seq(Node) /\ \A i \in DOMAIN c : tgid[c[i]] \in Nat \ {0}
    BY <1>1 DEF StoredInv, StoredIs
  <2>2. LinkedChain(myhash(g))' = c
    BY <1>5, GroupBucket
  <2>. HIDE DEF c
  <2>3. \A i \in DOMAIN c : c[i] \in Node /\ c[i] # n
    BY <1>2, <2>1
  <2>4. \A m \in Node : m # n => tgid'[m] = tgid[m] /\ curid'[m] = curid[m]
    BY <1>2 DEF Inv, TypeOK
  <2>. QED
    BY <1>1, <2>2, <2>3, <2>4, SameStored DEF c
<1>. QED
  BY <1>6

LEMMA LinkStores ==
  ASSUME Inv, [Next]_vars, NEW t \in Task, SetLink(t)
  PROVE  \A g \in Groups :
           StoredCommand(g)' = IF g = TgidOf[t] THEN arg[t] ELSE StoredCommand(g)
<1>. DEFINE n == Head(chain[Key(t)])
            new == <<n>> \o next[t]
<1>1. StoredInv /\ StoredInv' /\ Inv'
  BY NextStored
<1>2. /\ pc[t] = "set_link" /\ pc' = [pc EXCEPT ![t] = "set_unlock"]
      /\ tgid'  = [tgid EXCEPT ![n] = TgidOf[t]]
      /\ curid' = [curid EXCEPT ![n] = arg[t]]
      /\ chain' = [chain EXCEPT ![Key(t)] = new]
      /\ next' = next
  BY DEF SetLink, Goto, local
<1>3. n \in Node /\ tgid[n] = 0
  BY <1>2, PublishedNode
<1>4. next[t] \in Seq(Node)
  BY DEF Inv, TypeOK
<1>5. /\ new \in Seq(Node) /\ 1 \in DOMAIN new /\ new[1] = n
      /\ \A i \in DOMAIN next[t] : i + 1 \in DOMAIN new /\ new[i + 1] = next[t][i]
      /\ \A i \in DOMAIN new : i # 1 => i - 1 \in DOMAIN next[t] /\ new[i] = next[t][i - 1]
  BY <1>3, <1>4
<1>. HIDE DEF n, new
<1>6. /\ tgid'[n] = TgidOf[t] /\ curid'[n] = arg[t]
      /\ \A m \in Node : m # n => tgid'[m] = tgid[m] /\ curid'[m] = curid[m]
  BY <1>2, <1>3 DEF Inv, TypeOK
<1>7. /\ Inserting(Key(t)) = {t} /\ LinkedChain(Key(t)) = next[t]
  BY <1>2, InsertingLemma DEF LinkedChain, Critical
<1>8. LinkedChain(Key(t))' = new
  <2>1. Inserting(Key(t))' = {}
    BY <1>2, <1>7 DEF Inserting, Inv, TypeOK
  <2>2. chain'[Key(t)] = new
    BY <1>2, KeyInBucket DEF Inv, TypeOK
  <2>. QED
    BY <2>1, <2>2 DEF LinkedChain
<1>9. ASSUME NEW b \in Bucket, b # Key(t) PROVE LinkedChain(b)' = LinkedChain(b)
  <2>1. Inserting(b)' = Inserting(b)
    BY <1>2, <1>9 DEF Inserting, Inv, TypeOK
  <2>2. chain'[b] = chain[b]
    BY <1>2, <1>9 DEF Inv, TypeOK
  <2>. QED
    BY <1>2, <2>1, <2>2, SameLinked
<1>10. StoredCommand(TgidOf[t])' = arg[t]
  <2>1. TgidOf[t] \in Groups /\ myhash(TgidOf[t]) = Key(t)
    BY DEF Groups, Key
  <2>2. \A i \in DOMAIN new : tgid'[new[i]] = TgidOf[t] =>
          StoredCommand(TgidOf[t])' = curid'[new[i]]
    BY <1>1, <1>8, <2>1 DEF StoredInv, StoredIs
  <2>. QED
    BY <1>5, <1>6, <2>2
<1>11. ASSUME NEW g \in Groups, g # TgidOf[t], myhash(g) = Key(t)
       PROVE  StoredCommand(g)' = StoredCommand(g)
  <2>1. /\ \A i \in DOMAIN next[t] : tgid[next[t][i]] \in Nat \ {0} /\ next[t][i] \in Node
        /\ \A i \in DOMAIN next[t] : tgid[next[t][i]] = g => StoredCommand(g) = curid[next[t][i]]
        /\ (\A i \in DOMAIN next[t] : tgid[next[t][i]] # g) => StoredCommand(g) = None
    BY <1>1, <1>4, <1>7, <1>11 DEF StoredInv, StoredIs
  <2>2. /\ \A i \in DOMAIN new : tgid'[new[i]] = g => StoredCommand(g)' = curid'[new[i]]
        /\ (\A i \in DOMAIN new : tgid'[new[i]] # g) => StoredCommand(g)' = None
    BY <1>1, <1>8, <1>11 DEF StoredInv, StoredIs
  <2>3. \A i \in DOMAIN next[t] : next[t][i] # n
    BY <1>3, <2>1
  <2>4. \A i \in DOMAIN next[t] : /\ tgid'[next[t][i]] = tgid[next[t][i]]
                                  /\ curid'[next[t][i]] = curid[next[t][i]]
    BY <1>6, <2>1, <2>3
  <2>5. CASE \E i \in DOMAIN next[t] : tgid[next[t][i]] = g
    <3>1. PICK i \in DOMAIN next[t] : tgid[next[t][i]] = g
      BY <2>5
    <3>2. i + 1 \in DOMAIN new /\ new[i + 1] = next[t][i]
      BY <1>5
    <3>. QED
      BY <2>1, <2>2, <2>4, <3>1, <3>2
  <2>6. CASE \A i \in DOMAIN next[t] : tgid[next[t][i]] # g
    <3>1. \A i \in DOMAIN new : tgid'[new[i]] # g
      <4>. SUFFICES ASSUME NEW i \in DOMAIN new PROVE tgid'[new[i]] # g
        OBVIOUS
      <4>1. CASE i = 1
        BY <1>5, <1>6, <1>11, <4>1
      <4>2. CASE i # 1
        <5>1. PICK j \in DOMAIN next[t] : new[i] = next[t][j]
          BY <1>5, <4>2
        <5>. QED
          BY <2>4, <2>6, <5>1
      <4>. QED
        BY <4>1, <4>2
    <3>. QED
      BY <2>1, <2>2, <2>6, <3>1
  <2>. QED
    BY <2>5, <2>6
<1>12. ASSUME NEW g \in Groups, myhash(g) # Key(t)
       PROVE  StoredCommand(g)' = StoredCommand(g)
  <2>. DEFINE c == LinkedChain(myhash(g))
  <2>1. c \in Seq(Node) /\ \A i \in DOMAIN c : tgid[c[i]] \in Nat \ {0}
    BY <1>1 DEF StoredInv, StoredIs
  <2>2. LinkedChain(myhash(g))' = c
    BY <1>9, <1>12, GroupBucket
  <2>. HIDE DEF c
  <2>3. \A i \in DOMAIN c : c[i] \in Node /\ c[i] # n
    BY <1>3, <2>1
  <2>. QED
    BY <1>1, <1>6, <2>2, <2>3, SameStored DEF c
<1>13. \A g \in Groups : g = TgidOf[t] => myhash(g) = Key(t)
  BY DEF Key
<1>. QED
  BY <1>10, <1>11, <1>12, <1>13

-----------------------------------------------------------------------------
(***************************************************************************)
(* The refinement mapping, and what a step has to do to it.                *)
(***************************************************************************)
Calls == [t \in Task |-> CallOf(t)]
Stored == [g \in Groups |-> StoredCommand(g)]

LEMMA CallIs ==
  ASSUME NEW t \in Task
  PROVE  /\ pc[t] = "idle" => Calls[t] = <<"idle", None>>
         /\ pc[t] \in {"set_lock", "set_find", "set_publish", "set_link"} =>
              Calls[t] = <<"set", arg[t]>>
         /\ pc[t] \in {"read_lock", "resolve"} => Calls[t] = <<"read", None>>
         /\ pc[t] \in {"set_unlock", "format", "read_unlock", "strlen", "copy", "return"} =>
              Calls[t] = <<"done", arg[t]>>
BY DEF Calls, CallOf

LEMMA CallIsNext ==
  ASSUME NEW t \in Task
  PROVE  /\ pc'[t] = "idle" => Calls'[t] = <<"idle", None>>
         /\ pc'[t] \in {"set_lock", "set_find", "set_publish", "set_link"} =>
              Calls'[t] = <<"set", arg'[t]>>
         /\ pc'[t] \in {"read_lock", "resolve"} => Calls'[t] = <<"read", None>>
         /\ pc'[t] \in {"set_unlock", "format", "read_unlock", "strlen", "copy", "return"} =>
              Calls'[t] = <<"done", arg'[t]>>
BY DEF Calls, CallOf

\* A step of t changes the call of t only.
LEMMA CallsNext ==
  ASSUME NEW t \in Task, \A u \in Task \ {t} : pc'[u] = pc[u] /\ arg'[u] = arg[u]
  PROVE  Calls' = [Calls EXCEPT ![t] = Calls'[t]]
<1>1. \A u \in Task : u # t => CallOf(u)' = CallOf(u)
  BY DEF CallOf
<1>. QED
  BY <1>1 DEF Calls

LEMMA SameCalls ==
  ASSUME NEW t \in Task, Calls' = [Calls EXCEPT ![t] = Calls'[t]], Calls'[t] = Calls[t]
  PROVE  Calls' = Calls
BY DEF Calls

\* The actions of the store in terms of the mapping.
LEMMA StoreActions ==
  ASSUME NEW t \in Task
  PROVE  /\ \A c \in Command :
              Calls[t] = <<"idle", None>> /\ Stored' = Stored
                /\ Calls' = [Calls EXCEPT ![t] = <<"set", c>>] => Store!Next
         /\ Calls[t] = <<"idle", None>> /\ Stored' = Stored
              /\ Calls' = [Calls EXCEPT ![t] = <<"read", None>>] => Store!Next
         /\ Calls[t][1] = "done" /\ Stored' = Stored
              /\ Calls' = [Calls EXCEPT ![t] = <<"idle", None>>] => Store!Next
         /\ Calls[t][1] = "set" /\ Stored' = [Stored EXCEPT ![TgidOf[t]] = Calls[t][2]]
              /\ Calls' = [Calls EXCEPT ![t] = <<"done", Calls[t][2]>>] => Store!Next
         /\ Calls[t][1] = "read" /\ Stored' = Stored
              /\ Calls' = [Calls EXCEPT ![t] = <<"done", Stored[TgidOf[t]]>>] => Store!Next
         /\ Calls' = Calls /\ Stored' = Stored => UNCHANGED Store!vars
<1>1. ASSUME NEW c, Calls[t] = <<"idle", None>>,
             Calls' = [Calls EXCEPT ![t] = <<"set", c>>], Stored' = Stored
      PROVE  Store!StartSet(t, c)
  BY <1>1 DEF Store!StartSet, Store!Idle, Calls, Stored, Groups
<1>2. ASSUME Calls[t] = <<"idle", None>>,
             Calls' = [Calls EXCEPT ![t] = <<"read", None>>], Stored' = Stored
      PROVE  Store!StartRead(t)
  BY <1>2 DEF Store!StartRead, Store!Idle, Calls, Stored, Groups
<1>3. ASSUME Calls[t][1] = "done",
             Calls' = [Calls EXCEPT ![t] = <<"idle", None>>], Stored' = Stored
      PROVE  Store!Return(t)
  BY <1>3 DEF Store!Return, Store!Idle, Calls, Stored, Groups
<1>4. ASSUME Calls[t][1] = "set",
             Stored' = [Stored EXCEPT ![TgidOf[t]] = Calls[t][2]],
             Calls' = [Calls EXCEPT ![t] = <<"done", Calls[t][2]>>]
      PROVE  Store!TakeSet(t)
  BY <1>4 DEF Store!TakeSet, Calls, Stored, Groups
<1>5. ASSUME Calls[t][1] = "read",
             Calls' = [Calls EXCEPT ![t] = <<"done", Stored[TgidOf[t]]>>], Stored' = Stored
      PROVE  Store!TakeRead(t)
  BY <1>5 DEF Store!TakeRead, Calls, Stored, Groups
<1>6. Calls' = Calls /\ Stored' = Stored => UNCHANGED Store!vars
  BY DEF Store!vars, Calls, Stored, Groups
<1>7. /\ \A c \in Command : Store!StartSet(t, c) => Store!Next
      /\ Store!StartRead(t) \/ Store!Return(t) \/ Store!TakeSet(t) \/ Store!TakeRead(t) => Store!Next
  BY DEF Store!Next
<1>. QED
  BY <1>1, <1>2, <1>3, <1>4, <1>5, <1>6, <1>7

LEMMA SameStoredFunction ==
  ASSUME \A g \in Groups : StoredCommand(g)' = StoredCommand(g)
  PROVE  Stored' = Stored
BY DEF Stored

LEMMA SetStoredFunction ==
  ASSUME NEW h \in Groups, NEW c,
         \A g \in Groups : StoredCommand(g)' = IF g = h THEN c ELSE StoredCommand(g)
  PROVE  Stored' = [Stored EXCEPT ![h] = c]
BY DEF Stored

-----------------------------------------------------------------------------
(***************************************************************************)
(* Every step of the driver is a step or a stutter of the store.           *)
(***************************************************************************)
Maps == Store!Next \/ UNCHANGED Store!vars

\* The steps that change a command, and those that answer it.
LEMMA SetMaps ==
  ASSUME Inv, [Next]_vars, NEW t \in Task, SetExisting(t) \/ SetLink(t)
  PROVE  Maps
<1>1. /\ pc[t] \in {"set_find", "set_link"} /\ pc' = [pc EXCEPT ![t] = "set_unlock"]
      /\ arg' = arg
  BY DEF SetExisting, SetLink, Goto, local
<1>2. /\ pc'[t] = "set_unlock" /\ arg'[t] = arg[t]
      /\ \A u \in Task \ {t} : pc'[u] = pc[u] /\ arg'[u] = arg[u]
  BY <1>1 DEF Inv, TypeOK
<1>3. TgidOf[t] \in Groups
  BY DEF Groups
<1>4. Stored' = [Stored EXCEPT ![TgidOf[t]] = arg[t]]
  BY <1>3, ExistingStores, LinkStores, SetStoredFunction
<1>5. Calls[t] = <<"set", arg[t]>> /\ Calls'[t] = <<"done", arg[t]>>
  BY <1>1, <1>2, CallIs, CallIsNext
<1>6. Calls[t][1] = "set" /\ Calls[t][2] = arg[t]
  BY <1>5
<1>7. Calls' = [Calls EXCEPT ![t] = <<"done", Calls[t][2]>>]
  BY <1>2, <1>5, <1>6, CallsNext
<1>. QED
  BY <1>4, <1>6, <1>7, StoreActions DEF Maps

LEMMA ResolveMaps ==
  ASSUME Inv, [Next]_vars, NEW t \in Task, ResolveHit(t) \/ ResolveMiss(t)
  PROVE  Maps
<1>. DEFINE c == chain[Key(t)]
            n == FirstMatch(c, TgidOf[t])
<1>1. /\ pc[t] = "resolve" /\ pc'[t] \in {"format", "read_unlock"}
      /\ \A u \in Task \ {t} : pc'[u] = pc[u] /\ arg'[u] = arg[u]
      /\ UNCHANGED <<chain, tgid, curid, next>>
  BY DEF ResolveHit, ResolveMiss, Goto, shared, local, Inv, TypeOK
<1>2. Stored' = Stored
  BY <1>1, QuietStep, SameStoredFunction
<1>3. LinkedChain(Key(t)) = c
  BY <1>1, InsertingLemma DEF LinkedChain, Critical
<1>4. TgidOf[t] \in Groups /\ myhash(TgidOf[t]) = Key(t)
  BY DEF Groups, Key
<1>5. arg'[t] = StoredCommand(TgidOf[t])
  <2>1. CASE ResolveHit(t)
    <3>1. Match(c, TgidOf[t]) # {} /\ arg'[t] = curid[n]
      BY <2>1 DEF ResolveHit, Inv, TypeOK
    <3>. QED
      BY <1>3, <1>4, <3>1 DEF StoredCommand
  <2>2. CASE ResolveMiss(t)
    <3>1. Match(c, TgidOf[t]) = {} /\ arg'[t] = arg[t]
      BY <2>2 DEF ResolveMiss, local
    <3>2. arg[t] = None
      BY <1>1 DEF Inv, LocalInv
    <3>. QED
      BY <1>3, <1>4, <3>1, <3>2 DEF StoredCommand
  <2>. QED
    BY <2>1, <2>2
<1>6. Stored[TgidOf[t]] = arg'[t]
  BY <1>4, <1>5 DEF Stored
<1>7. Calls[t] = <<"read", None>> /\ Calls'[t] = <<"done", arg'[t]>>
  BY <1>1, CallIs, CallIsNext
<1>8. Calls[t][1] = "read"
  BY <1>7
<1>9. Calls' = [Calls EXCEPT ![t] = <<"done", Stored[TgidOf[t]]>>]
  BY <1>1, <1>6, <1>7, CallsNext
<1>. QED
  BY <1>2, <1>8, <1>9, StoreActions DEF Maps

\* The steps that begin or end a call.
LEMMA CallMaps ==
  ASSUME Inv, [Next]_vars, NEW t \in Task,
         \/ \E newval \in Input : cs614sys_set(t, newval)
         \/ \E length \in Length : demo_read(t, length)
         \/ SetUnlock(t) \/ ReadReturn(t)
  PROVE  Maps
<1>1. /\ UNCHANGED <<chain, tgid, curid>> /\ pc[t] # "set_link" /\ pc'[t] # "set_link"
      /\ \A u \in Task \ {t} : pc'[u] = pc[u] /\ next'[u] = next[u] /\ arg'[u] = arg[u]
  BY DEF cs614sys_set, demo_read, SetUnlock, ReadReturn, Goto, shared, local, Inv, TypeOK
<1>2. Stored' = Stored
  BY <1>1, QuietStep, SameStoredFunction
<1>3. Calls' = [Calls EXCEPT ![t] = Calls'[t]]
  BY <1>1, CallsNext
<1>4. CASE \E newval \in Input : cs614sys_set(t, newval)
  <2>1. pc[t] = "idle" /\ pc'[t] = "set_lock" /\ arg'[t] \in Command
    BY <1>4 DEF cs614sys_set, Goto, Inv, TypeOK
  <2>2. Calls[t] = <<"idle", None>> /\ Calls'[t] = <<"set", arg'[t]>>
    BY <2>1, CallIs, CallIsNext
  <2>. QED
    BY <1>2, <1>3, <2>1, <2>2, StoreActions DEF Maps
<1>5. CASE \E length \in Length : demo_read(t, length)
  <2>1. pc[t] = "idle" /\ pc'[t] = "read_lock"
    BY <1>5 DEF demo_read, Goto, Inv, TypeOK
  <2>2. Calls[t] = <<"idle", None>> /\ Calls'[t] = <<"read", None>>
    BY <2>1, CallIs, CallIsNext
  <2>. QED
    BY <1>2, <1>3, <2>2, StoreActions DEF Maps
<1>6. CASE SetUnlock(t) \/ ReadReturn(t)
  <2>1. pc[t] \in {"set_unlock", "return"} /\ pc'[t] = "idle"
    BY <1>6 DEF SetUnlock, ReadReturn, Goto, Inv, TypeOK
  <2>2. Calls[t] = <<"done", arg[t]>> /\ Calls'[t] = <<"idle", None>>
    BY <2>1, CallIs, CallIsNext
  <2>3. Calls[t][1] = "done"
    BY <2>2
  <2>. QED
    BY <1>2, <1>3, <2>2, <2>3, StoreActions DEF Maps
<1>. QED
  BY <1>4, <1>5, <1>6

\* The steps the store does not see.
LEMMA SilentMaps ==
  ASSUME Inv, [Next]_vars, NEW t \in Task,
         \/ SetLock(t) \/ SetMissing(t) \/ SetPublish(t) \/ ReadLock(t)
         \/ Format(t) \/ ReadUnlock(t) \/ Strlen(t) \/ CopyToUser(t)
  PROVE  Maps
<1>1. /\ arg' = arg
      /\ \A u \in Task \ {t} : pc'[u] = pc[u]
      /\ \/ /\ pc[t] \in {"set_lock", "set_find", "set_publish"}
            /\ pc'[t] \in {"set_find", "set_publish", "set_link"}
         \/ pc[t] = "read_lock" /\ pc'[t] = "resolve"
         \/ /\ pc[t] \in {"format", "read_unlock", "strlen", "copy"}
            /\ pc'[t] \in {"read_unlock", "strlen", "copy", "return"}
  BY DEF SetLock, SetMissing, SetPublish, ReadLock, Format, ReadUnlock, Strlen, CopyToUser,
     Goto, shared, local, Inv, TypeOK
<1>2. Calls'[t] = Calls[t]
  BY <1>1, CallIs, CallIsNext
<1>3. Calls' = Calls
  BY <1>1, <1>2, CallsNext, SameCalls
<1>4. Stored' = Stored
  <2>1. CASE SetPublish(t)
    BY <2>1, PublishStores, SameStoredFunction
  <2>2. CASE ~ SetPublish(t)
    <3>1. /\ UNCHANGED <<chain, tgid, curid>> /\ pc[t] # "set_link" /\ pc'[t] # "set_link"
          /\ \A u \in Task \ {t} : pc'[u] = pc[u] /\ next'[u] = next[u]
      BY <1>1, <2>2 DEF SetLock, SetMissing, ReadLock, Format, ReadUnlock, Strlen, CopyToUser,
         Goto, shared, local, Inv, TypeOK
    <3>. QED
      BY <3>1, QuietStep, SameStoredFunction
  <2>. QED
    BY <2>1, <2>2
<1>. QED
  BY <1>3, <1>4, StoreActions DEF Maps

LEMMA NextMaps == Inv /\ [Next]_vars => [Store!Next]_(Store!vars)
<1>1. ASSUME UNCHANGED vars PROVE UNCHANGED Store!vars
  <2>1. \A t \in Task : CallOf(t)' = CallOf(t)
    BY <1>1 DEF vars, shared, local, CallOf
  <2>2. \A g : StoredCommand(g)' = StoredCommand(g)
    BY <1>1 DEF vars, shared, local, StoredCommand, LinkedChain, Inserting, Match, FirstMatch
  <2>. QED
    BY <2>1, <2>2 DEF Store!vars
<1>2. ASSUME Inv, Next PROVE Maps
  BY <1>2, NextCases, SetMaps, ResolveMaps, CallMaps, SilentMaps
<1>. QED
  BY <1>1, <1>2 DEF Maps

LEMMA InitMaps == Init => Store!Init
<1>. SUFFICES ASSUME Init PROVE Store!Init
  OBVIOUS
<1>1. \A t \in Task : CallOf(t) = <<"idle", None>>
  BY DEF Init, CallOf
<1>2. \A g \in Groups : StoredCommand(g) = None
  <2>1. \A b : Inserting(b) = {}
    BY DEF Init, Inserting
  <2>2. \A g \in Groups : LinkedChain(myhash(g)) = <<>>
    BY <2>1, GroupBucket DEF Init, LinkedChain
  <2>. QED
    BY <2>2 DEF StoredCommand, Match
<1>. QED
  BY <1>1, <1>2 DEF Store!Init, Store!Idle, Store!Group, Groups

\* However the threads of the processes interleave in the buckets, the driver
\* is one command per process that each write replaces and each read answers,
\* at one instant between the call and its return.
THEOREM TableIsStore == Spec => RefinesStore
<1>1. Spec => []Inv
  BY Invariance
<1>. QED
  BY <1>1, InitMaps, NextMaps, PTL DEF Spec, RefinesStore, Store!Spec
=============================================================================
