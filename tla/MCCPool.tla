------------------------------ MODULE MCCPool ------------------------------
(* Instances of CPool small enough for TLC.                                *)
EXTENDS CPool

(* Ports in increasing order; the values themselves do not matter.         *)
MCItems == [i \in 0 .. TaskCount - 1 |-> 20 + i]
=============================================================================
