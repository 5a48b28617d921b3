---------------------------- MODULE MCToolChange ----------------------------
(* Small instances of ToolChange.                                          *)
EXTENDS ToolChange

InOrder == {[h \in Heads |-> h]}
Swapped == {[h \in Heads |-> IF h = 0 THEN 1 ELSE IF h = 1 THEN 0 ELSE h]}
AnyOrder == InOrder \cup Swapped
=============================================================================
