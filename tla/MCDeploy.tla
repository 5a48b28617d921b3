------------------------------ MODULE MCDeploy ------------------------------
(* Deploy for printer.cfg, two files of the repository and wm_material.cfg. *)
EXTENDS Deploy, TLC

CONSTANTS P, M, N, W

Text(needs, globs, sections, uses) ==
  [needs |-> needs, globs |-> globs, sections |-> sections, uses |-> uses]
MCNames  == {P, M, N, W}
MCExtras == {"wmp_recovery", "wm_material", "collision"}
\* printer.cfg includes both macro files, and wm_material.cfg by a glob.
MCRepo == (P :> Text({M, N}, {W}, {"wmp_recovery"}, {}))
          @@ (M :> Text({}, {}, {}, {"wmp_recovery"}))
          @@ (N :> Text({}, {}, {"collision"}, {}))
MCMaterial == Text({}, {}, {"wm_material"}, {})
MCVendor   == {"collision"}
Printer(p, m, n, w, es) ==
  [conf |-> (P :> p) @@ (M :> m) @@ (N :> n) @@ (W :> w), extras |-> es]
OldP == Text({M}, {}, {}, {})
OldM == Text({}, {}, {}, {})
\* The vendor's, with old and new firmware, one with old macros, and a complete one.
MCPrinters ==
  {Printer(OldP, OldM, Absent, Absent, {}),
   Printer(OldP, Text({}, {}, {"collision"}, {}), Absent, Absent, {"collision"}),
   Printer(MCRepo[P], OldM, MCRepo[N], Absent, {"wmp_recovery", "collision"}),
   Printer(MCRepo[P], MCRepo[M], MCRepo[N], MCMaterial, MCExtras)}
Request(act, cs, fs, h, q, o) ==
  [action |-> act, comps |-> cs, chosen |-> fs, http |-> h, quiet |-> q, only |-> o]
\* Everything, everything but the configuration, the configuration over HTTP, or
\* some of its files; with and without restart; and the removals.
MCCommands ==
  {Request("install", Components, {}, FALSE, q, o) : q, o \in BOOLEAN}
  \cup {Request("install", {"config"}, fs, h, FALSE, FALSE) : fs \in {{}, {M}, {P, N}}, h \in BOOLEAN}
  \cup {Request("install", {"material", "preload"}, {}, FALSE, FALSE, FALSE)}
  \cup {Request("uninstall", Components, {}, FALSE, q, FALSE) : q \in BOOLEAN}
=============================================================================
