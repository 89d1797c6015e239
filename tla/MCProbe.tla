------------------------------ MODULE MCProbe ------------------------------
(* Instances of Probe for TLC. *)
EXTENDS Probe

(* Few in a sweep, where answers may be late as well. *)
FewPushes == [probe |-> 1, listen |-> 3]
=============================================================================
