----------------------------- MODULE ConfigPlan -----------------------------
(***************************************************************************)
(* config_plan of tools/preflight.py: whether the configuration that an    *)
(* installation will leave on the printer can be loaded.  A configuration  *)
(* maps each name to its text or to Absent.  Of a text only this matters:  *)
(* the files it includes by name and by glob, the sections it has of       *)
(* Klipper extras, and the extras its macros use.                          *)
(***************************************************************************)
EXTENDS FiniteSets

CONSTANTS
  Names,   \* of configuration files
  Root,    \* printer.cfg
  Extras,  \* the Klipper extras that sections name
  Repo,    \* the texts of config/live, but for the printer's own files
  Absent   \* for a file that is not there

Managed == DOMAIN Repo
Texts == [needs : SUBSET Names, globs : SUBSET Names,
          sections : SUBSET Extras, uses : SUBSET Extras]

ASSUME PlanAssumption ==
  /\ Root \in Names /\ Managed \subseteq Names /\ Repo \in [Managed -> Texts]
  /\ Absent \notin Texts

Available(conf) == {n \in Names : conf[n] # Absent}
\* No names given: everything of config/live.
Targets(chosen) == IF chosen = {} THEN Managed ELSE chosen
\* What the printer will have once the targets are uploaded.
Leaves(conf, chosen) ==
  [n \in Names |-> IF n \in Targets(chosen) THEN Repo[n] ELSE conf[n]]

\* visit: the file and all that it includes, which is in every set of files
\* that has the file and what its members include.
Included(conf, n) == (conf[n].needs \cup conf[n].globs) \cap Available(conf)
Visited(conf, name) ==
  {n \in Available(conf) :
     \A files \in SUBSET Available(conf) :
       name \in files /\ (\A m \in files : Included(conf, m) \subseteq files) => n \in files}

Resolves(conf, name) ==
  \A n \in Visited(conf, name) : conf[n].needs \subseteq Available(conf)
\* What Klipper meets when it loads the configuration.
Active(conf) == UNION {conf[n].sections : n \in Visited(conf, Root)}
InUse(conf)  == UNION {conf[n].uses : n \in Visited(conf, Root)}

\* Every check of config_plan, against the configuration to come.
Accepted(conf, chosen) ==
  LET next == Leaves(conf, chosen)
  IN  /\ \A n \in chosen : n \in Managed /\ conf[n] # Repo[n]
      /\ next[Root] # Absent
      /\ \A n \in Targets(chosen) \cup {Root} : Resolves(next, n)
      /\ "wmp_recovery" \in InUse(next) => "wmp_recovery" \in Active(next)
=============================================================================
