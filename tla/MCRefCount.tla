----------------------------- MODULE MCRefCount -----------------------------
(* RefCount.tla for TLC. *)
EXTENDS RefCount, TLC

\* The threads are interchangeable.
ThreadSymmetry == Permutations(Thread)
=============================================================================
