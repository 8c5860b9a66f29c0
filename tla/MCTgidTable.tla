---------------------------- MODULE MCTgidTable ----------------------------
(***************************************************************************)
(* Instances of TgidTable for TLC: two threads of process 1 and the single *)
(* thread of process 3, whose tgids fall into the same one of two buckets. *)
(***************************************************************************)
EXTENDS TgidTable, TLC

CONSTANTS t1, t2, t3, n1, n2, n3

\* Two threads of one process and a process that shares their bucket.
Threads == {t1, t2, t3}
TgidOfThreads == t1 :> 1 @@ t2 :> 1 @@ t3 :> 3

\* Two processes of one thread each in one bucket and a third in the other.
Processes == {t1, t2, t3}
TgidOfProcesses == t1 :> 1 @@ t2 :> 2 @@ t3 :> 3

\* Two threads of one process.
Pair == {t1, t2}
TgidOfPair == t1 :> 1 @@ t2 :> 1

\* A node more than there are processes, so that a second node for one of
\* them would find memory.
TwoNodes == {n1, n2}
ThreeNodes == {n1, n2, n3}
NodeSymmetry == Permutations(ThreeNodes)
=============================================================================
