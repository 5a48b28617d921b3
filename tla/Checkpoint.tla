----------------------------- MODULE Checkpoint -----------------------------
(***************************************************************************)
(* The checkpoint guard client-preload/recovery-fix adds to the touchscreen *)
(* client.  The client keeps its position in two files, A and B.  Stock     *)
(* clients record raw toolhead coordinates, the patched one G-code          *)
(* coordinates; a file does not say which.  So the patch puts beside each   *)
(* file it wrote a marker that holds a hash of it, and recovery starts only *)
(* from a file whose marker matches, and only while the values the client   *)
(* has in memory are the ones of that file.                                *)
(*                                                                         *)
(* A save runs under record_lock in four steps, a load in three, and the   *)
(* client may be killed, or the power cut, between any two of them.  Other *)
(* programs do not take the lock: a file may be replaced inside a load.    *)
(* start_recovery gives the lock back before the vendor's code moves, so a *)
(* load may come between its check and the start.  What was not synced     *)
(* when the power goes may be kept, lost or torn.  The FNV hash of a file  *)
(* is its content here.                                                    *)
(***************************************************************************)
CONSTANTS
  Slots,     \* plr_dataA.ini and plr_dataB.ini
  Good,      \* contents the patched writer produces: G-code coordinates
  Stock,     \* contents a stock writer produces: raw coordinates
  Torn,      \* an incomplete record
  Absent,    \* no file, or an empty one
  None,      \* no marker, no hash, nothing loaded
  Faults     \* "blind": a readable file may fail to be hashed before the
             \* write; "short": the writer may return with part of it written;
             \* "twice": files may be replaced more than once within a load

Contents == Good \cup Stock \cup {Torn}

ASSUME CheckpointAssumption ==
  /\ Good \cap Stock = {} /\ Torn \notin Good \cup Stock
  /\ Absent \notin Contents /\ None \notin Contents /\ None # Absent
  /\ None \notin Slots /\ Faults \subseteq {"blind", "short", "twice"}

VARIABLES
  file, disk,       \* each slot as programs see it, and as synced
  mark, markDisk,   \* its marker, and as it would survive a power cut
  client,           \* "off", "stock" or "patched": the running client
  pc, slot, before, \* what holds the lock; a save's file and its hash before
  loadedPath, loadedHash, loadedValid,
  memory,           \* the values the client has loaded
  starting,         \* start_recovery has passed its check
  written, started, overtaken,  \* history, as in TrustedRecovery
  replaced          \* history: a file was replaced within the present load

files  == <<file, disk>>
marks  == <<mark, markDisk>>
saving == <<pc, slot, before>>
loaded == <<loadedPath, loadedHash, loadedValid, memory, starting>>
history == <<written, started, overtaken, replaced>>
vars == <<files, marks, client, saving, loaded, history>>

TypeOK ==
  /\ file \in [Slots -> Contents \cup {Absent}]
  /\ disk \in [Slots -> Contents \cup {Absent}]
  /\ mark \in [Slots -> Contents \cup {None}]
  /\ markDisk \in [Slots -> Contents \cup {None}]
  /\ client \in {"off", "stock", "patched"}
  /\ pc \in {"idle", "write", "after", "stamp", "publish", "read", "confirm"}
  /\ slot \in Slots \cup {None} /\ before \in Contents \cup {None}
  /\ loadedPath \in Slots \cup {None} /\ loadedHash \in Contents \cup {None}
  /\ loadedValid \in BOOLEAN /\ memory \in Contents \cup {Absent, None}
  /\ starting \in BOOLEAN
  /\ written \subseteq Good /\ started \in Contents \cup {Absent, None}
  /\ overtaken \in BOOLEAN /\ replaced \in BOOLEAN

Init ==
  /\ file \in [Slots -> Stock \cup {Absent}] /\ disk = file
  /\ mark = [s \in Slots |-> None] /\ markDisk = mark
  /\ client = "off" /\ pc = "idle" /\ slot = None /\ before = None
  /\ loadedPath = None /\ loadedHash = None /\ loadedValid = FALSE
  /\ memory = None /\ starting = FALSE
  /\ written = {} /\ started = None /\ overtaken = FALSE /\ replaced = FALSE

---------------------------------------------------------------------------
Hash(c)   == IF c = Absent THEN None ELSE c
Verify(s) == Hash(file[s]) # None /\ mark[s] = Hash(file[s])
Unlocked  == pc = "idle"
Patched   == client = "patched"

\* save_checkpoint is over; it takes the lock and hashes the file.
Saved == pc' = "idle" /\ slot' = None /\ before' = None
Save(s) ==
  /\ Patched /\ Unlocked
  /\ slot' = s /\ pc' = "write"
  /\ before' \in {Hash(file[s])} \cup IF "blind" \in Faults THEN {None} ELSE {}
  /\ UNCHANGED <<files, marks, client, loaded, history>>

\* The vendor's writer: a record, or none, or with the fault a part of one.
SaveWrites(c) ==
  /\ pc = "write" /\ pc' = "after"
  /\ file' = [file EXCEPT ![slot] = c] /\ written' = written \cup {c}
  /\ UNCHANGED <<disk, marks, client, slot, before, loaded, started, overtaken, replaced>>
SaveSkips ==
  /\ pc = "write" /\ pc' = "after"
  /\ file' \in {file} \cup IF "short" \in Faults THEN {[file EXCEPT ![slot] = Torn]} ELSE {}
  /\ UNCHANGED <<disk, marks, client, slot, before, loaded, history>>

\* A bug: stamps whatever is there after a save.
SaveChecksNothing ==
  /\ pc = "after" /\ pc' = "stamp"
  /\ UNCHANGED <<files, marks, client, slot, before, loaded, history>>

\* Only a file that the writer changed is stamped.
SaveChecks ==
  /\ pc = "after"
  /\ IF Hash(file[slot]) \notin {None, before}
     THEN pc' = "stamp" /\ UNCHANGED <<slot, before>>
     ELSE Saved
  /\ UNCHANGED <<files, marks, client, loaded, history>>

\* A bug: no fsync of the record.
StampHurries ==
  /\ pc = "stamp" /\ pc' = "publish"
  /\ UNCHANGED <<files, marks, client, slot, before, loaded, history>>

\* stamp_record: sync the record, then a synced marker with its hash takes
\* the old one's place.  Any of these calls may fail; the old marker stays.
StampSyncs ==
  /\ pc = "stamp" /\ pc' = "publish"
  /\ disk' = [disk EXCEPT ![slot] = file[slot]]
  /\ UNCHANGED <<file, marks, client, slot, before, loaded, history>>
StampPublishes ==
  /\ pc = "publish" /\ Saved
  /\ mark' = [mark EXCEPT ![slot] = Hash(file[slot])]
  /\ markDisk' \in {markDisk, [markDisk EXCEPT ![slot] = Hash(file[slot])]}
  /\ UNCHANGED <<files, client, loaded, history>>
StampFails ==
  /\ pc \in {"stamp", "publish"} /\ Saved
  /\ UNCHANGED <<files, marks, client, loaded, history>>

\* load_checkpoint: the file is verified, read by the vendor's loader, and
\* verified again.  It may run between start_recovery's check and the start.
LoadVerifies(s) ==
  /\ Patched /\ Unlocked /\ pc' = "read"
  /\ loadedPath' = s /\ loadedHash' = Hash(file[s]) /\ loadedValid' = Verify(s)
  /\ overtaken' = (overtaken \/ starting) /\ replaced' = FALSE
  /\ UNCHANGED <<files, marks, client, slot, before, memory, starting, written, started>>
LoadReads ==
  /\ pc = "read" /\ pc' = "confirm" /\ memory' = file[loadedPath]
  /\ UNCHANGED <<files, marks, client, slot, before, loadedPath, loadedHash,
                 loadedValid, starting, history>>

\* A bug: what was verified before the read is not verified after it.
LoadConfirmsNothing ==
  /\ pc = "confirm" /\ pc' = "idle" /\ replaced' = FALSE
  /\ UNCHANGED <<files, marks, client, slot, before, loaded, written, started, overtaken>>

StillLoaded == Verify(loadedPath) /\ Hash(file[loadedPath]) = loadedHash
LoadConfirms ==
  /\ pc = "confirm" /\ pc' = "idle" /\ replaced' = FALSE
  /\ loadedValid' = (loadedValid /\ StillLoaded)
  /\ UNCHANGED <<files, marks, client, slot, before, loadedPath, loadedHash,
                 memory, starting, written, started, overtaken>>

\* start_recovery: the loaded file must still be the file, and its marker too.
StartRecovery ==
  /\ Patched /\ Unlocked /\ ~starting /\ loadedValid /\ StillLoaded
  /\ starting' = TRUE /\ started' = None
  /\ UNCHANGED <<files, marks, client, saving, loadedPath, loadedHash,
                 loadedValid, memory, written, overtaken, replaced>>
\* The lock is free again when the vendor's recovery starts to move.
Recover ==
  /\ Patched /\ starting /\ starting' = FALSE
  /\ started' = memory /\ overtaken' = FALSE
  /\ UNCHANGED <<files, marks, client, saving, loadedPath, loadedHash,
                 loadedValid, memory, written, replaced>>

---------------------------------------------------------------------------
(* Around the patch *)

Forget ==
  /\ Saved /\ loadedPath' = None /\ loadedHash' = None
  /\ loadedValid' = FALSE /\ memory' = None /\ starting' = FALSE
  /\ started' = None /\ overtaken' = FALSE /\ replaced' = FALSE
  /\ UNCHANGED written

\* The client is killed, inside a write too.
Killed ==
  /\ client # "off" /\ client' = "off" /\ Forget
  /\ \/ UNCHANGED file
     \/ pc = "write" /\ file' = [file EXCEPT ![slot] = Torn]
  /\ UNCHANGED <<disk, marks>>
PowerCut ==
  /\ client' = "off" /\ Forget
  /\ file' \in [Slots -> Contents \cup {Absent}]
  /\ \A s \in Slots :
       file'[s] \in {file[s], disk[s]} \cup IF file[s] # disk[s] \/ (pc = "write" /\ s = slot)
                                            THEN {Torn} ELSE {}
  /\ disk' = file'
  /\ mark' \in [Slots -> Contents \cup {None}]
  /\ \A s \in Slots : mark'[s] \in {mark[s], markDisk[s]}
  /\ markDisk' = mark'

\* The preload patches only a client it recognises; otherwise it stays stock.
ClientStarts ==
  /\ client = "off" /\ client' \in {"patched", "stock"}
  /\ UNCHANGED <<files, marks, saving, loaded, history>>
StockWrites(s) ==
  /\ client = "stock" /\ \E c \in Stock \cup {Torn} : file' = [file EXCEPT ![s] = c]
  /\ UNCHANGED <<disk, marks, client, saving, loaded, history>>
\* An operator puts another file in place, or removes it or its marker.
FileReplaced(s) ==
  /\ \/ Unlocked /\ UNCHANGED replaced
     \/ pc \in {"read", "confirm"} /\ replaced' = TRUE
        /\ (replaced => "twice" \in Faults)
  /\ \/ \E c \in Stock \cup written \cup {Absent} :
          file' = [file EXCEPT ![s] = c] /\ UNCHANGED mark
     \/ mark' = [mark EXCEPT ![s] = None] /\ UNCHANGED file
  /\ UNCHANGED <<disk, markDisk, client, saving, loaded, written, started, overtaken>>

SaveStep == SaveSkips \/ SaveChecks \/ StampSyncs
              \/ StampPublishes \/ StampFails \/ \E c \in Good : SaveWrites(c)
Next ==
  \/ \E s \in Slots : Save(s) \/ LoadVerifies(s) \/ StockWrites(s) \/ FileReplaced(s)
  \/ SaveStep \/ LoadReads \/ LoadConfirms \/ StartRecovery \/ Recover
  \/ Killed \/ PowerCut \/ ClientStarts

Spec == Init /\ [][Next]_vars

---------------------------------------------------------------------------
(* Properties *)

\* A marker only ever names a whole record in G-code coordinates that was
\* written under the patch: never an untouched legacy file, a torn one or a
\* later file of a stock client, before and after any crash.
MarkerTrusted ==
  \A s \in Slots : {mark[s], markDisk[s]} \subseteq written \cup {None}

\* A recovery that passed its check starts from such a record, and from the
\* one that was verified on both sides of its reading, though the file was
\* replaced meanwhile; unless another load overtakes the start.
StartTrusted ==
  starting /\ ~overtaken => memory \in written /\ memory = loadedHash

\* A marker is published only once the record it names is on the disk.
PublishedAfterSync ==
  [][\A s \in Slots :
       mark'[s] # mark[s] /\ mark'[s] # None /\ Patched /\ Patched'
         => disk'[s] = mark'[s]]_vars

\* The guard implements TrustedRecovery.
Abstract == INSTANCE TrustedRecovery WITH Records <- Good
RecoversTrusted == Abstract!Spec
=============================================================================
