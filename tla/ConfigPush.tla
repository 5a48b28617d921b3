----------------------------- MODULE ConfigPush -----------------------------
(***************************************************************************)
(* utils/config_sync.py: the push of config/live to a printer that goes on *)
(* living meanwhile.  The repository owns the body of printer.cfg, the     *)
(* printer its SAVE_CONFIG block, the calibration.  A push scans the       *)
(* files, asks whether a print runs, asks its user, and then copies,       *)
(* reads and writes file by file; Klipper may run SAVE_CONFIG, people may  *)
(* edit files and start prints between any two of these requests.  The     *)
(* code takes the files by name; here they come in any order, and a file   *)
(* that is named more than once comes twice.                               *)
(***************************************************************************)
EXTENDS Naturals, FiniteSets

CONSTANTS
  Files,       \* the files of config/live that are not excluded
  PrinterCfg,  \* the one of split ownership
  Others,      \* bodies the repository does not hold
  Transports,  \* a subset of {"http", "ssh"}
  Faults,      \* what may fail, see below
  Tries,       \* of wait_ready
  MaxSaves, MaxPushes   \* bounds

\* "stop": a request fails, and the push ends there.  "query": whether a print
\* runs cannot be asked.  "read": SFTP cannot read a file that is there.
\* "cut": an SFTP write ends half-way.
ASSUME PushAssumption ==
  /\ PrinterCfg \in Files /\ Others \cap {"none", "empty", "repo"} = {}
  /\ Transports \subseteq {"http", "ssh"} /\ Faults \subseteq {"stop", "query", "read", "cut"}
  /\ Tries \in Nat /\ MaxSaves \in Nat /\ MaxPushes \in Nat

Bodies == Others \cup {"none", "empty", "repo"}
\* A file is its body and, in printer.cfg, the calibration's version.
Contents == [body : Bodies, calib : Nat]

VARIABLES
  disk, backups,       \* the printer's files, and the copy that a push keeps of each
  saved,               \* the version of the last SAVE_CONFIG
  klipper,             \* ready, or starting or failed
  loaded,              \* files of which it read the repository's, from a push's restart on
  print,               \* print_stats; a paused print counts as idle
  pc, rc,              \* the push: next step and exit status
  via, asked, twice, quiet, pushes,  \* its transport, files, those named twice and
                                     \* --no-restart; how many
  unseen, differs, missing,        \* files to scan, found different or absent
  left, again,                     \* to write, and those of them to write twice
  file, current,       \* the file in work and the calibration read for it
  tries,               \* of wait_ready
  touched,  \* history: files that others changed after the push secured them,
            \* or that were there and could not be read
  missed,   \* history: a push did not get to read what the last SAVE_CONFIG wrote,
            \* or it wrote what others had replaced
  replaced  \* history: what the push overwrote that others did not put there since

files   == <<disk, backups>>
host    == <<klipper, print>>
option  == <<via, asked, twice, quiet>>
plan    == <<unseen, differs, missing>>
work    == <<left, again, file, current, tries>>
history == <<touched, missed, replaced>>
local   == <<option, plan, work>>
vars == <<files, saved, host, loaded, pc, rc, pushes, local, history>>

Targets    == differs \cup missing
Wanted     == IF asked = {} THEN Targets ELSE asked
Present(n) == disk[n].body # "none"
Nothing    == [body |-> "none", calib |-> 0]
Uploads    == {n \in Files : disk[n].body = "repo"}

TypeOK ==
  /\ disk \in [Files -> Contents] /\ backups \in [Files -> Contents]
  /\ saved \in Nat /\ klipper \in {"ready", "down"}
  /\ loaded \subseteq Files /\ print \in {"idle", "printing"}
  /\ pc \in {"idle", "scan", "check", "confirm", "next", "read", "write", "fill", "wait"}
  /\ rc \in {0, 1} /\ via \in Transports /\ asked \subseteq Files /\ twice \subseteq asked
  /\ quiet \in BOOLEAN
  /\ pushes \in Nat /\ unseen \subseteq Files /\ Targets \subseteq Files
  /\ left \subseteq Targets /\ again \subseteq left /\ file \in Files /\ current \in Nat /\ tries \in Nat
  /\ touched \subseteq Files /\ missed \in BOOLEAN
  /\ replaced \in [Files -> SUBSET Contents]

\* Any mixture of files.
Init ==
  /\ disk \in [Files -> [body : Bodies \ {"empty"}, calib : {0}]]
  /\ backups = [n \in Files |-> Nothing] /\ saved = 0
  /\ klipper = "ready" /\ loaded = {} /\ print = "idle"
  /\ pc = "idle" /\ rc = 0 /\ pushes = 0
  /\ via \in Transports /\ asked = {} /\ twice = {} /\ quiet = FALSE
  /\ unseen = {} /\ differs = {} /\ missing = {}
  /\ left = {} /\ again = {} /\ file = PrinterCfg /\ current = 0 /\ tries = 0
  /\ touched = {} /\ missed = FALSE /\ replaced = [n \in Files |-> {}]

---------------------------------------------------------------------------
(* The push *)

\* The process ends; the next one makes its own copies, under another time.
Ends(status) ==
  /\ pc' = "idle" /\ rc' = status /\ asked' = {} /\ twice' = {} /\ quiet' = FALSE
  /\ unseen' = {} /\ differs' = {} /\ missing' = {}
  /\ left' = {} /\ again' = {} /\ file' = PrinterCfg /\ current' = 0 /\ tries' = 0
  /\ touched' = {}
  /\ loaded' = {} /\ backups' = [n \in Files |-> Nothing] /\ replaced' = [n \in Files |-> {}]
  /\ UNCHANGED <<disk, saved, host, via, pushes, missed>>

\* Files may be named, and some more than once.
PushStarts(t, names, repeated, q) ==
  /\ pc = "idle" /\ pushes < MaxPushes /\ pushes' = pushes + 1
  /\ via' = t /\ asked' = names /\ twice' = repeated /\ quiet' = q
  /\ pc' = "scan" /\ unseen' = Files /\ differs' = {} /\ missing' = {}
  /\ left' = {} /\ again' = {} /\ touched' = {} /\ rc' = 0
  /\ UNCHANGED <<files, saved, host, loaded, file, current, tries, missed, replaced>>

\* changed_files reads one file and compares it; of printer.cfg the body only.
Found(n, absent, differing) ==
  /\ pc = "scan" /\ n \in unseen /\ unseen' = unseen \ {n}
  /\ missing' = missing \cup (IF absent THEN {n} ELSE {})
  /\ differs' = differs \cup (IF differing THEN {n} ELSE {})
  /\ UNCHANGED <<files, saved, host, loaded, pc, rc, pushes, option, work, missed, replaced>>
Scan(n) ==
  /\ Found(n, ~Present(n), Present(n) /\ disk[n].body # "repo") /\ touched' = touched \ {n}
\* The SFTP transport reports every failed read as a missing file.
ScanUnreadable(n) ==
  /\ via = "ssh" /\ "read" \in Faults /\ Present(n)
  /\ Found(n, TRUE, FALSE) /\ touched' = touched \cup {n}

\* Without names all changes go.  Names that are unchanged or unknown are refused.
Choose ==
  /\ pc = "scan" /\ unseen = {} /\ Targets # {} /\ asked \subseteq Targets
  /\ pc' = "check" /\ left' = Wanted /\ again' = twice
  /\ UNCHANGED <<files, saved, host, loaded, rc, pushes, option, plan, file, current, tries, history>>
NothingToPush ==
  /\ pc = "scan" /\ unseen = {} /\ (Targets = {} \/ ~(asked \subseteq Targets))
  /\ Ends(IF asked = {} THEN 0 ELSE 1)
\* printing_now: only "printing" counts, a query that fails counts as idle.
CheckPrint ==
  /\ pc = "check" /\ (print # "printing" \/ "query" \in Faults) /\ pc' = "confirm"
  /\ UNCHANGED <<files, saved, host, loaded, rc, pushes, local, history>>
\* The question waits as long as its user likes.
Confirm ==
  /\ pc = "confirm" /\ pc' = "next"
  /\ UNCHANGED <<files, saved, host, loaded, rc, pushes, local, history>>
Refuse ==
  /\ \/ pc = "check" /\ print = "printing"
     \/ pc = "confirm"
  /\ Ends(1)

Prepared(n) ==
  /\ pc = "next" /\ n \in left /\ file' = n
  /\ pc' = IF n = PrinterCfg THEN "read" ELSE "write"
\* A bug: printer.cfg is not copied, as it keeps its calibration anyway.
BackupSpares(n) ==
  /\ Prepared(n) /\ n \in differs /\ Present(n)
  /\ backups' = IF n = PrinterCfg THEN backups ELSE [backups EXCEPT ![n] = disk[n]]
  /\ touched' = touched \ {n}
  /\ UNCHANGED <<disk, saved, host, loaded, rc, pushes, option, plan, left, again, current, tries,
                 missed, replaced>>
\* The copy is made on the printer; a file that has vanished cannot be copied.
\* A second copy of the same push has the name of the first and replaces it.
Backup(n) ==
  /\ Prepared(n) /\ n \in differs /\ Present(n)
  /\ backups' = [backups EXCEPT ![n] = disk[n]]
  /\ touched' = touched \ {n}
  /\ UNCHANGED <<disk, saved, host, loaded, rc, pushes, option, plan, left, again, current, tries,
                 missed, replaced>>
NoBackup(n) ==
  /\ Prepared(n) /\ n \notin differs
  /\ UNCHANGED <<files, saved, host, loaded, rc, pushes, option, plan, left, again, current, tries, history>>
\* A bug: the calibration is the repository's own.
ReadLocal ==
  /\ pc = "read" /\ pc' = "write" /\ current' = 0
  /\ UNCHANGED <<files, saved, host, loaded, rc, pushes, option, plan, left, again, file, tries, history>>
ReadCalibration ==
  /\ pc = "read" /\ pc' = "write"
  /\ \/ current' = disk[PrinterCfg].calib /\ UNCHANGED missed
     \/ via = "ssh" /\ "read" \in Faults /\ current' = 0 /\ missed' = TRUE
  /\ UNCHANGED <<files, saved, host, loaded, rc, pushes, option, plan, left, again, file, tries,
                 touched, replaced>>

Spliced == [body |-> "repo", calib |-> IF file = PrinterCfg THEN current ELSE 0]
\* The file in work is done, or comes once more.
FileDone ==
  /\ pc' = "next" /\ again' = again \ {file}
  /\ left' = (IF file \in again THEN left ELSE left \ {file})
  /\ file' = PrinterCfg /\ current' = 0
  /\ UNCHANGED <<backups, saved, host, loaded, rc, pushes, option, plan, tries>>
Written == disk' = [disk EXCEPT ![file] = Spliced] /\ touched' = touched \ {file} /\ FileDone
Replaces ==
  replaced' = [replaced EXCEPT ![file] =
                 @ \cup IF Present(file) /\ file \notin touched THEN {disk[file]} ELSE {}]
\* Moonraker replaces the file in one step.
Upload == pc = "write" /\ via = "http" /\ Replaces /\ Written /\ UNCHANGED missed
\* SFTP opens it for writing, which empties it, and then fills it.
Truncate ==
  /\ pc = "write" /\ via = "ssh" /\ pc' = "fill"
  /\ disk' = [disk EXCEPT ![file] = [body |-> "empty", calib |-> 0]]
  /\ touched' = touched \ {file} /\ Replaces
  /\ UNCHANGED <<backups, saved, host, loaded, rc, pushes, option, plan, work, missed>>
\* If others put another file in its place meanwhile, it fills the one it opened.
Fill ==
  /\ pc = "fill" /\ UNCHANGED replaced
  /\ \/ Present(file) /\ Written /\ UNCHANGED missed
     \/ file \in touched /\ FileDone /\ missed' = (missed \/ file = PrinterCfg)
        /\ UNCHANGED <<disk, touched>>

\* A bug: it restarts for every file.
RestartEarly ==
  /\ pc = "next" /\ ~quiet
  /\ klipper' = "down" /\ loaded' = Uploads /\ print' = "idle"
  /\ pc' = "wait" /\ tries' = Tries
  /\ UNCHANGED <<files, saved, rc, pushes, option, plan, left, again, file, current, history>>
\* FIRMWARE_RESTART loads the files anew and ends a print that runs.
Restart ==
  /\ pc = "next" /\ left = {} /\ ~quiet
  /\ klipper' = "down" /\ loaded' = Uploads /\ print' = "idle"
  /\ pc' = "wait" /\ tries' = Tries
  /\ UNCHANGED <<files, saved, rc, pushes, option, plan, left, again, file, current, history>>
NoRestart == pc = "next" /\ left = {} /\ quiet /\ Ends(0)
\* wait_ready asks idle_timeout, which may say Idle also of a Klipper that starts
\* or has failed, and may also be late or busy.
Ready == pc = "wait" /\ tries > 0 /\ Ends(0)
NotReady ==
  /\ pc = "wait" /\ tries > 0 /\ tries' = tries - 1
  /\ UNCHANGED <<files, saved, host, loaded, pc, rc, pushes, option, plan, left, again, file, current, history>>
GivesUp == pc = "wait" /\ tries = 0 /\ Ends(1)
\* An exception leaves everything as it is.
Stops ==
  /\ \/ "stop" \in Faults /\ pc \in {"scan", "next", "read", "write"}
     \/ "cut" \in Faults /\ pc = "fill"
  /\ Ends(1)

---------------------------------------------------------------------------
(* The rest of the printer *)

Touches(n) == IF pc = "idle" THEN {} ELSE touched \cup {n}
rest == <<pc, rc, pushes, local>>

\* Klipper keeps the body it finds, emptied or not, and appends the new calibration.
SaveConfig ==
  /\ klipper = "ready" /\ saved < MaxSaves /\ Present(PrinterCfg)
  /\ saved' = saved + 1 /\ disk' = [disk EXCEPT ![PrinterCfg].calib = saved + 1]
  /\ touched' = Touches(PrinterCfg)
  /\ missed' = (pc \in {"write", "fill"} /\ file = PrinterCfg)
  /\ UNCHANGED <<backups, host, loaded, replaced, rest>>
\* Someone edits, creates or removes a file; printer.cfg is not removed.
Edit(n, b) ==
  /\ b # disk[n].body /\ (n = PrinterCfg => Present(n) /\ b # "none")
  /\ disk' = [disk EXCEPT ![n].body = b] /\ touched' = Touches(n)
  /\ UNCHANGED <<backups, saved, host, loaded, missed, replaced, rest>>
PrintStep ==
  /\ klipper = "ready" /\ print' \in {"idle", "printing"} \ {print}
  /\ UNCHANGED <<files, saved, klipper, loaded, history, rest>>
PowerCycle ==
  /\ klipper' = "down" /\ loaded' = (IF pc = "wait" THEN Uploads ELSE loaded) /\ print' = "idle"
  /\ UNCHANGED <<files, saved, history, rest>>
\* Or it does not, if it finds an error.
KlipperStarts ==
  /\ klipper = "down" /\ klipper' = "ready"
  /\ UNCHANGED <<files, saved, loaded, print, history, rest>>

Push ==
  \/ \E t \in Transports, names \in SUBSET Files, q \in BOOLEAN :
       \E repeated \in SUBSET names : PushStarts(t, names, repeated, q)
  \/ \E n \in Files : Scan(n) \/ ScanUnreadable(n) \/ Backup(n) \/ NoBackup(n)
  \/ Choose \/ NothingToPush \/ CheckPrint \/ Confirm \/ Refuse
  \/ ReadCalibration \/ Upload \/ Truncate \/ Fill
  \/ Restart \/ NoRestart \/ Ready \/ NotReady \/ GivesUp \/ Stops
Next ==
  \/ Push \/ SaveConfig \/ PrintStep \/ PowerCycle \/ KlipperStarts
  \/ \E n \in Files, b \in Others \cup {"none"} : Edit(n, b)

Spec == Init /\ [][Next]_vars

---------------------------------------------------------------------------
(* Properties *)

\* "Push ... keeps this printer's calibration": printer.cfg holds what the last
\* SAVE_CONFIG wrote, unless the push could not know: that fell between its read
\* and the end of its write, SFTP failed to read the file, or others put another
\* in its place while SFTP wrote.
CalibrationKept ==
  \/ missed \/ disk[PrinterCfg].calib = saved
  \/ pc = "fill" /\ file = PrinterCfg

\* "Push backs up replaced files": whatever it has overwritten of a file that was
\* named once is in its backup and stays there, unless others put it there after
\* the copy was made or the file was found absent, or SFTP found it absent
\* because it could not read it.  Of a file named twice the backup is the upload.
OverwrittenIsBackedUp ==
  \A n \in Files \ twice : replaced[n] \subseteq {backups[n]}

\* "Configuration upload complete" is said only after Klipper was started with
\* every file of the push, but for those that others changed meanwhile.  That it
\* is ready, as the line also says, does not follow.
CompleteIsLoaded ==
  [][pc = "wait" /\ pc' = "idle" /\ rc' = 0 =>
       Wanted \ touched \subseteq loaded]_vars
=============================================================================
