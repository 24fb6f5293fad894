-------------------------- MODULE MCGracefulReboot --------------------------
(* Instances of GracefulReboot for TLC: one component in each subsystem, or *)
(* two in the first.                                                        *)
EXTENDS GracefulReboot

CONSTANTS c1, c2

OnlyFirst  == <<c1>>
OnlySecond == <<c2>>
Both       == <<c1, c2>>
Nothing    == <<>>

=============================================================================
