----------------------------- MODULE MCRustScan -----------------------------
(* Instances of RustScan small enough for TLC.                             *)
EXTENDS RustScan

(* Ports in increasing order; the values themselves do not matter.         *)
MCItems == [i \in 0 .. TaskCount - 1 |-> 20 + i]
=============================================================================
