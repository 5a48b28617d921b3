----------------------------- MODULE MCBottomZ -----------------------------
(* BottomZ is finite as it stands; its runs differ in Relabels only.       *)
EXTENDS BottomZ
=============================================================================
