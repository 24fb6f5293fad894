-------------------------- MODULE MCConfiguration --------------------------
(* An instance of Configuration for TLC: two parameters, an int of two bits *)
(* and a ULONG of three, and requests on both sides of the int's sign bit:  *)
(* 3 is written as -1 and loaded as 7.                                      *)
EXTENDS Configuration

Defaults == [p \in Para |-> IF p = 1 THEN 0 ELSE 7]

=============================================================================
