------------------------------ MODULE MCKernel ------------------------------
(* Kernel for TLC: threads are interchangeable in the safety runs.         *)
EXTENDS Kernel, TLC

AnyThread == Permutations(Tid)
=============================================================================
