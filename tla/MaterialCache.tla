--------------------------- MODULE MaterialCache ---------------------------
(***************************************************************************)
(* klipper_extras/wm_material.py: which filament the touchscreen says is   *)
(* in which slot.  The extra keeps what it parsed from tmt1.ini with the   *)
(* modification time of the file, and looks at the file again before every *)
(* status.  The touchscreen may write the file between any two steps.      *)
(***************************************************************************)
EXTENDS Integers, Sequences

CONSTANTS
  Slots,      \* those a status shows
  Heats,      \* the materials' indices with their unload temperatures
  Lines,      \* of a file: see IsLine
  MaxLines, MaxStamp,   \* bounds
  NoFile,     \* no file, no time
  Unparsable,
  Coarse      \* may two contents have one modification time?

\* A section, or a setting "material<slot> = <value>" where a number that
\* cannot be parsed is Unparsable, as is any other line.
IsLine(x) ==
  \/ x.kind = "section" /\ x.name \in {"slot", "other"}
  \/ x.kind = "setting" /\ x.slot \in Int \cup {Unparsable} /\ x.value \in Int \cup {Unparsable}

ASSUME MaterialAssumption ==
  /\ \A x \in Lines : IsLine(x)
  /\ Unparsable \notin Slots /\ NoFile \notin Int /\ NoFile \notin Seq(Lines)
  /\ MaxLines \in Nat /\ Coarse \in BOOLEAN

VARIABLES
  file, stamp, readable,     \* tmt1.ini: its lines or NoFile, its time
  now,                       \* the clock of the file system
  mtime, slots,              \* _mtime and _slots
  look, seen                 \* _refresh: its step, and the time it saw

cacheVars == <<file, stamp, readable, now, mtime, slots, look, seen>>

CacheInit ==
  /\ file = NoFile /\ stamp = NoFile /\ readable = TRUE /\ now = 0
  /\ mtime = NoFile /\ slots = <<>> /\ look = "idle" /\ seen = NoFile

---------------------------------------------------------------------------
(* parse_slot_materials *)

\* One more line; found maps slots to materials.
With(found, slot, value) ==
  [s \in DOMAIN found \cup {slot} |-> IF s = slot THEN value ELSE found[s]]
Parsed(acc, line) ==
  CASE line.kind = "section" -> [acc EXCEPT !.section = line.name]
    [] line.kind = "setting" /\ acc.section = "slot" /\ Unparsable \notin {line.slot, line.value} ->
         [acc EXCEPT !.found = With(@, line.slot, line.value)]
    [] OTHER -> acc
NoSection == [section |-> "none", found |-> <<>>]
Materials(text) ==
  LET after[i \in 0 .. Len(text)] ==
        IF i = 0 THEN NoSection ELSE Parsed(after[i - 1], text[i])
  IN  after[Len(text)].found

\* get_status: the index of a slot, and its temperature.
Index(s) == IF s \in DOMAIN slots THEN slots[s] ELSE -1
Temp(s)  == IF Index(s) \in DOMAIN Heats THEN Heats[Index(s)] ELSE 0

---------------------------------------------------------------------------
(* _refresh *)

Forgotten == mtime' = NoFile /\ slots' = <<>> /\ look' = "idle" /\ seen' = NoFile
Stat ==
  /\ look = "idle"
  /\ \/ file = NoFile /\ Forgotten
     \/ file # NoFile /\ stamp # mtime /\ look' = "read" /\ seen' = stamp
        /\ UNCHANGED <<mtime, slots>>
  /\ UNCHANGED <<file, stamp, readable, now>>
\* A bug: a slot the file no longer names stays.
ReadUpdates ==
  /\ look = "read" /\ file # NoFile /\ readable
  /\ slots' = [s \in DOMAIN slots \cup DOMAIN Materials(file) |->
                 IF s \in DOMAIN Materials(file) THEN Materials(file)[s] ELSE slots[s]]
  /\ mtime' = seen /\ look' = "idle" /\ seen' = NoFile
  /\ UNCHANGED <<file, stamp, readable, now>>
Read ==
  /\ look = "read" /\ file # NoFile /\ readable
  /\ slots' = Materials(file) /\ mtime' = seen /\ look' = "idle" /\ seen' = NoFile
  /\ UNCHANGED <<file, stamp, readable, now>>
ReadFails ==
  /\ look = "read" /\ (file = NoFile \/ ~readable) /\ Forgotten
  /\ UNCHANGED <<file, stamp, readable, now>>

---------------------------------------------------------------------------
(* The touchscreen and the file system *)

Rewrite(text) ==
  /\ now' \in {now + 1} \cup (IF Coarse THEN {now} ELSE {})
  /\ now' <= MaxStamp
  /\ file' = text /\ stamp' = now'
  /\ UNCHANGED <<readable, mtime, slots, look, seen>>
Deleted ==
  /\ file # NoFile /\ file' = NoFile /\ stamp' = NoFile
  /\ UNCHANGED <<readable, now, mtime, slots, look, seen>>
Permit ==
  /\ readable' = ~readable
  /\ UNCHANGED <<file, stamp, now, mtime, slots, look, seen>>

CacheNext ==
  \/ Stat \/ Read \/ ReadFails \/ Deleted \/ Permit
  \/ \E text \in UNION {[1 .. n -> Lines] : n \in 0 .. MaxLines} : Rewrite(text)
CacheSpec == CacheInit /\ [][CacheNext]_cacheVars

---------------------------------------------------------------------------
(* Properties *)

\* The reference: the last parsable setting of a slot that stands under [slot].
Section(text, i, j) ==
  /\ j \in 1 .. i /\ text[j].kind = "section"
  /\ \A k \in j + 1 .. i : text[k].kind # "section"
Sets(text, i, s) ==
  /\ text[i].kind = "setting" /\ text[i].slot = s /\ text[i].value # Unparsable
  /\ \E j \in 1 .. i : Section(text, i, j) /\ text[j].name = "slot"
LastSets(text, i, s, n) == Sets(text, i, s) /\ \A j \in i + 1 .. n : ~Sets(text, j, s)
Says(text, s) ==
  LET last(i) == LastSets(text, i, s, Len(text))
  IN  IF \E i \in DOMAIN text : last(i) THEN text[CHOOSE i \in DOMAIN text : last(i)].value ELSE -1

\* A status whose time is the file's shows what the file says: a file that
\* was rewritten while it was looked at is looked at again.  Without a time
\* nothing is shown, and only a material of the table has a temperature.
StatusOfFile ==
  /\ mtime = NoFile => \A s \in Slots : Index(s) = -1
  /\ mtime # NoFile /\ mtime = stamp => \A s \in Slots :
       /\ Index(s) = Says(file, s)
       /\ Temp(s) # 0 => Says(file, s) \in DOMAIN Heats
=============================================================================
