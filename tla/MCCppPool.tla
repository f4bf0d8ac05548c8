----------------------------- MODULE MCCppPool -----------------------------
(* Instances of CppPool small enough for TLC.                              *)
EXTENDS CppPool

(* Ports in increasing order; the values themselves do not matter.         *)
MCItems == [i \in 0 .. TaskCount - 1 |-> 20 + i]

(* The documented cap of 512 threads, scaled down with the port list: two  *)
(* threads where three ports and a concurrency of three are at hand.       *)
DocumentedCap == ThreadCap(2)
=============================================================================
