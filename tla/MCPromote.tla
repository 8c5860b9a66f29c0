----------------------------- MODULE MCPromote ------------------------------
(***************************************************************************)
(* The instance of Promote for TLC: one thread on two CPUs, or two on one  *)
(* (no property of a process with several threads is about the TLBs), and  *)
(* a VMA with a region of two pages and one of a single page, where the    *)
(* code has regions of 512, and behind it the stack.                       *)
(***************************************************************************)
EXTENDS Promote, FiniteSets, TLC

CONSTANTS k1, k2, c1, c2

Two == {k1, k2}
TwoCpus == {c1, c2}

\* A bound: the threads of a process with two stay on one CPU.
SmallProcess == Single \/ Cardinality(visited) = 1

Symmetric == Permutations(Two) \cup Permutations(TwoCpus)

Pages == {"a", "b", "c"}
RegionOfPages == "a" :> 0 @@ "b" :> 0 @@ "c" :> 1
HeapAndStack == 0 :> "heap" @@ 1 :> "heap" @@ 2 :> "stack"
=============================================================================
