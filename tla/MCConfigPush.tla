---------------------------- MODULE MCConfigPush ----------------------------
(* ConfigPush for two files, printer.cfg and one that it includes. *)
EXTENDS ConfigPush
=============================================================================
