--------------------------- MODULE MCScreenMirror ---------------------------
(***************************************************************************)
(* A small instance of ScreenMirror: two rows, so that an update can leave *)
(* one out, and two connections, so that one lingers while the next opens. *)
(***************************************************************************)
EXTENDS ScreenMirror, TLC

CONSTANTS c1, c2, top, bottom, dark, light

Interchangeable == Permutations(Conns) \cup Permutations(Rows) \cup Permutations(Colours)
=============================================================================
