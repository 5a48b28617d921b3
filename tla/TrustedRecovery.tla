-------------------------- MODULE TrustedRecovery --------------------------
(***************************************************************************)
(* What the checkpoint guard of the touchscreen promises: a power-loss     *)
(* recovery needs a permission, one for each, and moves only to a position *)
(* that was recorded in G-code coordinates, unless another load has        *)
(* overtaken it since the permission was given.  Which record it takes,    *)
(* and whether the newest survives, is left open.                          *)
(***************************************************************************)
CONSTANTS Records, None
VARIABLES written,    \* the records written in G-code coordinates so far
          starting,   \* a recovery is permitted and has not begun to move
          overtaken,  \* a record was loaded since it was permitted
          started     \* the record this client's last recovery started from

Init == written = {} /\ starting = FALSE /\ overtaken = FALSE /\ started = None

Write(c) == written' = written \cup {c} /\ UNCHANGED <<starting, overtaken, started>>
Permit ==
  /\ ~starting /\ starting' = TRUE /\ started' = None
  /\ UNCHANGED <<written, overtaken>>
Overtake ==
  /\ starting /\ overtaken' = TRUE
  /\ UNCHANGED <<written, starting, started>>
Start ==
  /\ starting /\ starting' = FALSE /\ overtaken' = FALSE
  /\ overtaken \/ started' \in written
  /\ UNCHANGED written
\* The client ends, before or after it moved.
End ==
  /\ starting' = FALSE /\ overtaken' = FALSE /\ started' = None
  /\ UNCHANGED written

Next == Permit \/ Overtake \/ Start \/ End \/ \E c \in Records : Write(c)
Spec == Init /\ [][Next]_<<written, starting, overtaken, started>>
=============================================================================
