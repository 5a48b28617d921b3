------------------------------ MODULE BasePlan ------------------------------
(***************************************************************************)
(* tools/update_config_base.py: carries the site's changes over to a new   *)
(* vendor configuration.  It reads three directories (the old and the new  *)
(* vendor files and the live ones), merges file by file, lists what a      *)
(* person has to decide, and publishes a candidate for review.             *)
(*                                                                         *)
(* A text is divided into regions, and two texts differ in whole regions.  *)
(* git merge-file settles each region by itself; a conflict keeps all      *)
(* three versions (--diff3).  A marked piece of text is a local change     *)
(* between "wondermaker+ begin" and "end".                                 *)
(***************************************************************************)
EXTENDS Integers, FiniteSets

CONSTANTS
  ConfigFiles,  \* the names that are not excluded
  Regions,
  Marked,       \* pieces of text with a marker, each its own ID
  ConfigTexts,  \* functions from Regions to pieces
  Missing,      \* no such file
  Unreadable,   \* a symbolic link, or not text
  PrintFails    \* may a decision fail to be printed?

Pieces == {text[r] : text \in ConfigTexts, r \in Regions}

ASSUME BaseAssumption ==
  /\ IsFiniteSet(Regions) /\ Missing \notin [Regions -> SUBSET Pieces]
  /\ Missing # Unreadable /\ {Missing, Unreadable} \cap ConfigTexts = {}
  /\ PrintFails \in BOOLEAN

VARIABLES
  old, new, live,   \* the three directories
  stage,            \* main's next step
  published,        \* the candidate at the output path, or Missing
  exit              \* the exit status; 0, 1 or 2

inputs == <<old, new, live>>
updateVars == <<inputs, stage, published, exit>>

Directories == [ConfigFiles -> ConfigTexts \cup {Missing, Unreadable}]
Nothing     == [n \in ConfigFiles |-> Missing]

UpdateInit ==
  /\ old = Nothing /\ new = Nothing /\ live = Nothing
  /\ stage = "off" /\ published = Missing /\ exit = -1

---------------------------------------------------------------------------
(* merge_text *)

\* A piece of the live, old and new text, or all three in conflict.
Settled(l, o, n) ==
  IF l = o THEN {n} ELSE IF n \in {o, l} THEN {l} ELSE {l, o, n}
MergedText(l, o, n) == [r \in Regions |-> Settled(l[r], o[r], n[r])]
Conflicts(text) == {r \in Regions : Cardinality(text[r]) > 1}

\* MARKER.findall, with repetitions, of a text and of a merged text.
Marks(text, m)       == Cardinality({r \in Regions : text[r] = m})
MergedMarks(text, m) == Cardinality({r \in Regions : m \in text[r]})
Dropped(l, o, n) == {m \in Marked : MergedMarks(MergedText(l, o, n), m) < Marks(l, m)}

Alone(text) == [r \in Regions |-> {text[r]}]

---------------------------------------------------------------------------
(* plan: what becomes of one file *)

\* A bug: what the vendor removed goes.
CandidateObeys(l, o, n) ==
  CASE n = Missing -> Missing
    [] l = Missing /\ n # Missing -> IF o = Missing THEN Alone(n) ELSE Missing
    [] l # Missing /\ n # Missing -> IF o = Missing THEN Alone(l) ELSE MergedText(l, o, n)
Candidate(l, o, n) ==
  CASE l = Missing /\ (o # Missing \/ n = Missing) -> Missing
    [] l = Missing /\ o = Missing /\ n # Missing   -> Alone(n)
    [] l # Missing /\ Missing \in {o, n}           -> Alone(l)
    [] OTHER                                       -> MergedText(l, o, n)

\* A bug: a new vendor file that a local one hides is no decision.
DecisionHidden(l, o, n) ==
  \/ l = Missing /\ n # Missing
  \/ l # Missing /\ o # Missing /\ n = Missing
  \/ /\ Missing \notin {l, o, n}
     /\ Conflicts(MergedText(l, o, n)) # {} \/ Dropped(l, o, n) # {}
\* ADD or SKIP, COLLISION, REMOVED, and CONFLICT or WARNING.
Decision(l, o, n) ==
  \/ l = Missing /\ n # Missing
  \/ l # Missing /\ o = Missing /\ n \notin {Missing, l}
  \/ l # Missing /\ o # Missing /\ n = Missing
  \/ /\ Missing \notin {l, o, n}
     /\ Conflicts(MergedText(l, o, n)) # {} \/ Dropped(l, o, n) # {}

Plan == [n \in ConfigFiles |-> Candidate(live[n], old[n], new[n])]
Undecided == \E n \in ConfigFiles : Decision(live[n], old[n], new[n])

---------------------------------------------------------------------------
(* main *)

Exit(status) == exit' = status /\ stage' = "ended"
Invoke ==
  /\ stage = "off" /\ stage' = "read"
  /\ \E d \in [{"old", "new", "live"} -> Directories] :
       old' = d["old"] /\ new' = d["new"] /\ live' = d["live"]
  /\ UNCHANGED <<published, exit>>

\* A file is not one the tool merges.
Mergeable == \A n \in ConfigFiles : Unreadable \notin {old[n], new[n], live[n]}
Refuse ==
  /\ stage = "read" /\ ~Mergeable /\ Exit(2)
  /\ UNCHANGED <<inputs, published>>
\* All three directories are read and all files merged before anything is
\* written; without --output nothing is.
Prepare ==
  /\ stage = "read" /\ Mergeable /\ stage' \in {"publish", "report"}
  /\ UNCHANGED <<inputs, published, exit>>
\* git fails, a directory cannot be read, the disk is full, or the output
\* exists, before or by now.
Fail ==
  /\ stage \in {"read", "publish"} /\ Exit(2)
  /\ UNCHANGED <<inputs, published>>
\* Staged beside the output and renamed.
Publish ==
  /\ stage = "publish" /\ stage' = "report" /\ published' = Plan
  /\ UNCHANGED <<inputs, exit>>
Report ==
  /\ stage = "report" /\ Exit(IF Undecided THEN 1 ELSE 0)
  /\ UNCHANGED <<inputs, published>>

\* A name that cannot be written to the terminal: the same except clause.
ReportFails ==
  /\ stage = "report" /\ PrintFails /\ Undecided /\ Exit(2)
  /\ UNCHANGED <<inputs, published>>

UpdateNext == Invoke \/ Refuse \/ Prepare \/ Fail \/ Publish
                \/ Report \/ ReportFails
UpdateSpec == UpdateInit /\ [][UpdateNext]_updateVars

---------------------------------------------------------------------------
(* Properties *)

\* Status 0: every vendor file and every live file is in the candidate, each
\* region as the vendor changed it if the vendor did, and as the site changed
\* it if the site did.
CleanIsComplete ==
  exit = 0 => \A n \in ConfigFiles :
    /\ live[n] = Missing => new[n] = Missing
    /\ live[n] # Missing => \A r \in Regions :
         /\ new[n] # Missing /\ (old[n] = Missing \/ new[n][r] # old[n][r])
              => Plan[n][r] = {new[n][r]}
         /\ old[n] = Missing \/ live[n][r] # old[n][r] => Plan[n][r] = {live[n][r]}

\* A candidate has every live file, and in it what the site wrote: only an
\* unchanged vendor text gives way, and a mark that goes with it is reported.
\* Status 2 leaves no candidate.
NothingLost ==
  /\ published # Missing => \A n \in ConfigFiles : live[n] # Missing =>
       /\ published[n] # Missing
       /\ \A r \in Regions :
            live[n][r] \in published[n][r] \/ (old[n] # Missing /\ live[n][r] = old[n][r])
       /\ exit = 0 => \A m \in Marked : MergedMarks(published[n], m) >= Marks(live[n], m)
  /\ exit = 2 => published = Missing
=============================================================================
