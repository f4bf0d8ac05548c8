------------------------------ MODULE MCCsScan ------------------------------
(* Instances of CsScan small enough for TLC.                               *)
EXTENDS CsScan

(* Ports in increasing order; the values themselves do not matter.         *)
MCItems == [i \in 0 .. TaskCount - 1 |-> 20 + i]
=============================================================================
