-------------------------- MODULE MCRebootManager --------------------------
EXTENDS RebootManager
Defaults == [p \in 1 .. N |-> IF p = 1 THEN 2 ELSE 0]
=============================================================================
