--------------------------- MODULE MCScreenStream ---------------------------
(***************************************************************************)
(* A small instance of ScreenStream: two rows, so that an update can leave *)
(* one out, and one connection after the other.                            *)
(***************************************************************************)
EXTENDS ScreenStream

CONSTANTS c1, top, bottom, dark, light
=============================================================================
