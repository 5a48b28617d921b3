--------------------------- MODULE PrintRecovery ---------------------------
(***************************************************************************)
(* The print lifecycle of the printer macros (config/live/macros.cfg and   *)
(* the homing macros of printer.cfg): START_PRINT, PAUSE, RESUME, M24,     *)
(* PRINT_END, CANCEL_PRINT, G29, homing and mesh commands by hand, a power *)
(* cut at any moment and the recovery that follows it.                     *)
(*                                                                         *)
(* A print body is only right under the reference it was started with: the *)
(* bed mesh, the physical head that probed the bed (every tool offset is   *)
(* relative to it) and the slicer-to-head mapping.  Saved variables and    *)
(* saved mesh profiles survive a power cut, everything else does not, and  *)
(* the touchscreen writes identity mappings and asks for its own meshes    *)
(* while it recovers.                                                      *)
(*                                                                         *)
(* Klipper renders a whole macro on entry, then runs its commands: what    *)
(* START_PRINT reads on entry is kept in "run"; what a nested macro reads  *)
(* is read when its step is reached.  A macro holds the gcode lock, so     *)
(* only a power cut and the rendering of a delayed macro fall between two  *)
(* steps of it.                                                            *)
(***************************************************************************)
EXTENDS Naturals

CONSTANTS
  Heads,           \* physical heads, and the slicer's tool numbers
  Files,           \* G-code file names
  Cals,            \* values of the four saved tool-offset vectors
  Shapes,          \* what a probed mesh can look like
  None,            \* no mesh, no record, no file, no head
  EarlyStart,      \* may a job begin before the start-up timer has run?
  RepeatPause,     \* may PAUSE run again while the print is paused?
  PickFails,       \* where tool changes may fail twice: "start", "recover"
                   \* (in a print body, G29 and a homing by hand they always may)
  HandNames        \* mesh profiles that are calibrated by hand

Identity == [t \in Heads |-> t]
Mapping  == [Heads -> Heads]
Mesh     == [head : Heads, shape : Shapes]
Context  == [tool : Heads, offsets : Cals, mapping : Mapping, file : Files]
\* The part on the plate: what it was started with ("tool" is the head that
\* probed its mesh, or T0 for a saved default mesh), the mapping its body last
\* ran with, and the mapping the operator wants from the next resume on.
Job      == [tool : Heads, offsets : Cals, file : Files, mesh : Mesh,
             mapping : Mapping, want : Mapping]
Run      == [initial : Heads, t0 : Heads, probe : Heads, adaptive : BOOLEAN,
             mapping : Mapping]
Profiles == {"default", "wmp_print"}
NoMesh   == [name |-> "unloaded", data |-> None]

ASSUME RecoveryAssumption ==
  /\ 0 \in Heads
  /\ None \notin Mesh \cup Context \cup Job \cup Run
  /\ None \notin Files \cup Heads /\ None \notin Profiles
  /\ EarlyStart \in BOOLEAN /\ RepeatPause \in BOOLEAN
  /\ PickFails \subseteq {"start", "recover"} /\ HandNames \subseteq Profiles

VARIABLES
  (* saved variables and saved configuration: survive a power cut *)
  mapping,     \* box_modify_t<n>
  backup,      \* box_modify_t<n>_backup
  probe,       \* probe_tool
  context,     \* wmp_print_context
  offsets,     \* t<n>_offset
  disk,        \* the mesh profiles in printer.cfg
  (* Klipper's memory *)
  profiles,    \* bed_mesh.profiles
  mesh,        \* the loaded mesh: its profile name and its data
  active,      \* _WMP_RECOVERY_BEGIN.active
  ready,       \* START_PRINT.print_body_ready
  adaptive,    \* START_PRINT.adaptive_mesh_enable
  zraise,      \* Z_HOMING.z_raise
  state,       \* print_stats.state
  file,        \* print_stats.filename
  timer,       \* _probe_tool_startup_reset: waiting, rendered a reset, done
  pc,          \* the macro step in progress, or the touchscreen's next step
  run,         \* what START_PRINT rendered on entry
  pausing,     \* M25 was executed inside START_PRINT
  (* the machine *)
  head,        \* the head on the carriage
  applied,     \* the head the applied tool offset is relative to
  (* the touchscreen *)
  record,      \* the file its last checkpoint names
  (* history *)
  job          \* the part on the plate

tools  == <<mapping, backup>>
meshes == <<disk, profiles, mesh>>
flags  == <<active, ready, adaptive, zraise>>
sdcard == <<state, file>>
start  == <<run, pausing>>
machine == <<head, applied>>
vars == <<tools, probe, context, offsets, meshes, flags, sdcard, timer, pc,
          start, machine, record, job>>

StartSteps == {"s_zero", "s_aim", "s_home", "s_mesh", "s_save", "s_flush",
               "s_unzero", "s_pick", "s_again", "s_commit", "s_ready"}
RecoverySteps == {"r_arm", "r_begin", "r_home", "r_reselect", "r_mesh",
                  "r_file", "r_m24"}
MacroSteps == StartSteps \cup {"r_home", "resume_m24", "ending", "g29"}

TypeOK ==
  /\ mapping \in Mapping /\ backup \in Mapping
  /\ probe \in Heads
  /\ context \in Context \cup {None}
  /\ offsets \in Cals
  /\ disk \in [Profiles -> Mesh \cup {None}]
  /\ profiles \in [Profiles -> Mesh \cup {None}]
  /\ mesh \in [name : Profiles \cup {"unloaded", "adaptive"}, data : Mesh \cup {None}]
  /\ active \in BOOLEAN /\ ready \in BOOLEAN /\ adaptive \in BOOLEAN
  /\ zraise \in {0, 1}
  /\ state \in {"standby", "printing", "paused", "error"}
  /\ file \in Files \cup {None}
  /\ timer \in {"waiting", "reset", "done"}
  /\ pc \in MacroSteps \cup RecoverySteps \cup {"idle", "body"}
  /\ run \in Run \cup {None} /\ pausing \in BOOLEAN
  /\ head \in Heads \cup {None} /\ applied \in Heads
  /\ record \in Files \cup {None}
  /\ job \in Job \cup {None}

Init ==
  /\ mapping = Identity /\ backup = Identity
  /\ probe = 0 /\ context = None /\ offsets \in Cals
  /\ disk = [p \in Profiles |-> None] /\ profiles = disk /\ mesh = NoMesh
  /\ active = FALSE /\ ready = FALSE /\ adaptive = TRUE /\ zraise = 1
  /\ state = "standby" /\ file = None
  /\ timer = "waiting"
  /\ pc = "idle" /\ run = None /\ pausing = FALSE
  /\ head = None /\ applied = 0
  /\ record = None /\ job = None

-----------------------------------------------------------------------------
(***************************************************************************)
(* Restart, the start-up timer and the operator's settings.                *)
(***************************************************************************)

\* Klipper's memory after a restart from the given saved profiles.  A power cut
\* and an emergency stop both end here: nothing else follows a shutdown.
RestartFrom(p) ==
  /\ profiles' = p /\ mesh' = NoMesh
  /\ active' = FALSE /\ ready' = FALSE /\ adaptive' = TRUE /\ zraise' = 1
  /\ state' = "standby" /\ file' = None
  /\ timer' = "waiting"
  /\ pc' = "idle" /\ run' = None /\ pausing' = FALSE
  /\ applied' = 0

Restart ==
  /\ RestartFrom(disk)
  /\ UNCHANGED <<tools, probe, context, offsets, disk, head, record, job>>

PowerCut == Restart

\* The delayed macro is rendered without the gcode lock, at any point of
\* whatever runs; the command it renders then waits for the lock.
TimerRenders ==
  /\ timer = "waiting"
  /\ timer' = IF probe # 0 /\ ~active THEN "reset" ELSE "done"
  /\ UNCHANGED <<tools, probe, context, offsets, meshes, flags, sdcard, pc,
                 start, machine, record, job>>

TimerWrites ==
  /\ timer = "reset" /\ pc \notin MacroSteps
  /\ probe' = 0 /\ timer' = "done"
  /\ UNCHANGED <<tools, context, offsets, meshes, flags, sdcard, pc, start,
                 machine, record, job>>

Idle == pc = "idle" /\ state \in {"standby", "error"}

\* The touchscreen assigns spools to the slicer's tools before a print.
AssignSpools(m) ==
  /\ Idle
  /\ mapping' = m
  /\ UNCHANGED <<backup, probe, context, offsets, meshes, flags, sdcard, timer,
                 pc, start, machine, record, job>>

Recalibrate(c) ==
  /\ Idle
  /\ offsets' = c
  /\ UNCHANGED <<tools, probe, context, meshes, flags, sdcard, timer, pc,
                 start, machine, record, job>>

\* G30 and G31.
ChooseMesh(on) ==
  /\ Idle
  /\ adaptive' = on
  /\ UNCHANGED <<tools, probe, context, offsets, meshes, active, ready, zraise,
                 sdcard, timer, pc, start, machine, record, job>>

\* SAVE_CONFIG writes the pending profiles and restarts Klipper.
SaveConfig ==
  /\ Idle
  /\ disk' = profiles /\ RestartFrom(profiles)
  /\ UNCHANGED <<tools, probe, context, offsets, head, record, job>>

-----------------------------------------------------------------------------
(***************************************************************************)
(* Shared pieces.                                                          *)
(***************************************************************************)

\* A tool change to h that succeeds: the head is mounted and _OFFSET_SET
\* applies its offset relative to probe_tool.
Select(h) == head' = h /\ applied' = probe

\* A tool change that fails twice: the old head was not released, no head was
\* picked up, or it is not the one asked for.  The macro only reports it and,
\* while print_stats says "printing", runs PAUSE, which snapshots the mapping
\* and sets identity.
SelectFails == head' \in Heads \cup {None} /\ applied' = applied

SnapshotMapping == backup' = mapping /\ mapping' = Identity

\* Mutant of LoadedBy: recovery does not redirect the touchscreen's request.
LoadedAsAsked(name) ==
  IF name = "wmp_print" \/ (name = "default" /\ probe # 0) THEN None ELSE name

\* What BED_MESH_PROFILE LOAD=name loads; None is an error.
LoadedBy(name) ==
  IF active THEN "wmp_print"
  ELSE IF name = "default" /\ probe # 0 THEN None
  ELSE IF name = "wmp_print" THEN None
  ELSE name

Profile(name) == [name |-> name, data |-> profiles[name]]

\* BED_MESH_CALIBRATE PROFILE=name refuses "default" under a nonzero reference.
MayCalibrate(name) == name = "default" => probe = 0

-----------------------------------------------------------------------------
(***************************************************************************)
(* START_PRINT.                                                            *)
(***************************************************************************)

\* The physical head START_PRINT aims probing at: the mapped head of the
\* print's first tool, unless the saved preference or G31 says T0.
ProbeTool(t, prefer) == IF prefer /\ adaptive THEN mapping[t] ELSE 0

\* Mutant of StartPrint: the record of an earlier part survives.
StartPrintKeepsRecord(f, t, prefer) ==
  /\ Idle /\ timer = "done"
  /\ state' = "printing" /\ file' = f
  /\ run' = [initial |-> t, t0 |-> mapping[0], probe |-> ProbeTool(t, prefer),
             adaptive |-> adaptive, mapping |-> mapping]
  /\ ready' = FALSE /\ active' = FALSE /\ mesh' = NoMesh /\ job' = None
  /\ pc' = "s_zero"
  /\ UNCHANGED <<tools, probe, context, offsets, disk, profiles, adaptive,
                 zraise, timer, pausing, machine, record>>

StartPrint(f, t, prefer) ==
  /\ Idle
  /\ EarlyStart \/ timer = "done"
  /\ state' = "printing" /\ file' = f
  /\ run' = [initial |-> t, t0 |-> mapping[0], probe |-> ProbeTool(t, prefer),
             adaptive |-> adaptive, mapping |-> mapping]
  /\ ready' = FALSE /\ context' = None /\ active' = FALSE
  /\ mesh' = NoMesh
  /\ job' = None
  /\ pc' = "s_zero"
  /\ UNCHANGED <<tools, probe, offsets, disk, profiles, adaptive, zraise,
                 timer, pausing, machine, record>>

StartZeroT0 ==
  /\ pc = "s_zero"
  /\ mapping' = [mapping EXCEPT ![0] = 0]
  /\ pc' = "s_aim"
  /\ UNCHANGED <<backup, probe, context, offsets, meshes, flags, sdcard, timer,
                 start, machine, record, job>>

StartAim ==
  /\ pc = "s_aim"
  /\ probe' = run.probe
  /\ pc' = "s_home"
  /\ UNCHANGED <<tools, context, offsets, meshes, flags, sdcard, timer, start,
                 machine, record, job>>

\* G28 with z_raise left at 0 is taken for recovery homing, and there is no
\* saved print to recover: an emergency stop.
StartHomeBlocked ==
  /\ pc = "s_home" /\ zraise = 0
  /\ Restart

\* Heating and homing take longer than the timer's two seconds.
StartHome ==
  /\ pc = "s_home" /\ zraise = 1 /\ timer # "waiting"
  /\ Select(probe)
  /\ mesh' = NoMesh
  /\ pc' = "s_mesh"
  /\ UNCHANGED <<tools, probe, context, offsets, disk, profiles, flags, sdcard,
                 timer, start, record, job>>

\* The macros go on after a failed tool change: the bed is probed with the head
\* that is on the carriage, and cannot be probed with none.
StartHomePickFails ==
  /\ "start" \in PickFails
  /\ pc = "s_home" /\ zraise = 1 /\ timer # "waiting"
  /\ SelectFails /\ SnapshotMapping
  /\ mesh' = NoMesh
  /\ IF head' = None
     THEN state' = "error" /\ pc' = "idle" /\ run' = None /\ pausing' = FALSE
     ELSE pausing' = TRUE /\ pc' = "s_mesh" /\ UNCHANGED <<run, state>>
  /\ UNCHANGED <<probe, context, offsets, disk, profiles, flags, file, timer,
                 record, job>>

\* A fresh mesh; a native ADAPTIVE=1 mesh is not saved as a profile by itself.
StartProbe(s, native) ==
  /\ pc = "s_mesh" /\ run.adaptive /\ MayCalibrate("wmp_print")
  /\ LET m == [head |-> head, shape |-> s] IN
       /\ mesh' = [name |-> IF native THEN "adaptive" ELSE "wmp_print",
                   data |-> m]
       /\ profiles' = IF native THEN profiles
                      ELSE [profiles EXCEPT !["wmp_print"] = m]
  /\ pc' = "s_save"
  /\ UNCHANGED <<tools, probe, context, offsets, disk, flags, sdcard, timer,
                 start, machine, record, job>>

StartLoadDefault ==
  /\ pc = "s_mesh" /\ ~run.adaptive
  /\ LoadedBy("default") = "default" /\ profiles["default"] # None
  /\ mesh' = Profile("default")
  /\ pc' = "s_save"
  /\ UNCHANGED <<tools, probe, context, offsets, disk, profiles, flags, sdcard,
                 timer, start, machine, record, job>>

StartSaveMesh ==
  /\ pc = "s_save"
  /\ profiles' = [profiles EXCEPT !["wmp_print"] = mesh.data]
  /\ mesh' = [name |-> "wmp_print", data |-> mesh.data]
  /\ pc' = "s_flush"
  /\ UNCHANGED <<tools, probe, context, offsets, disk, flags, sdcard, timer,
                 start, machine, record, job>>

\* Mutant of StartFlush: the stock profile is flushed under the private name.
StartFlushDefault ==
  /\ pc = "s_flush"
  /\ disk' = [profiles EXCEPT !["wmp_print"] = profiles["default"]]
  /\ pc' = "s_unzero"
  /\ UNCHANGED <<tools, probe, context, offsets, profiles, mesh, flags, sdcard,
                 timer, start, machine, record, job>>

\* SAVE_CONFIG_NO_RESTART.
StartFlush ==
  /\ pc = "s_flush"
  /\ disk' = profiles
  /\ pc' = "s_unzero"
  /\ UNCHANGED <<tools, probe, context, offsets, profiles, mesh, flags, sdcard,
                 timer, start, machine, record, job>>

\* Mutant of StartRestoreT0: T0 stays zeroed.
StartRestoreForgotten ==
  /\ pc = "s_unzero"
  /\ pc' = "s_pick"
  /\ UNCHANGED <<tools, probe, context, offsets, meshes, flags, sdcard, timer,
                 start, machine, record, job>>

StartRestoreT0 ==
  /\ pc = "s_unzero"
  /\ mapping' = [mapping EXCEPT ![0] = run.t0]
  /\ pc' = "s_pick"
  /\ UNCHANGED <<backup, probe, context, offsets, meshes, flags, sdcard, timer,
                 start, machine, record, job>>

\* T<INITIAL_TOOL> before the purge, and again after it.
StartPick ==
  /\ pc \in {"s_pick", "s_again"}
  /\ Select(mapping[run.initial])
  /\ pc' = IF pc = "s_pick" THEN "s_again" ELSE "s_commit"
  /\ UNCHANGED <<tools, probe, context, offsets, meshes, flags, sdcard, timer,
                 start, record, job>>

StartPickFailsTwice ==
  /\ "start" \in PickFails
  /\ pc \in {"s_pick", "s_again"}
  /\ SelectFails
  /\ SnapshotMapping /\ pausing' = TRUE
  /\ pc' = IF pc = "s_pick" THEN "s_again" ELSE "s_commit"
  /\ UNCHANGED <<probe, context, offsets, meshes, flags, sdcard, timer, run,
                 record, job>>

\* _WMP_PRINT_CONTEXT_COMMIT.  From here on there is a part on the plate.
StartCommit ==
  /\ pc = "s_commit" /\ mesh.name = "wmp_print"
  /\ context' = [tool |-> probe, offsets |-> offsets, mapping |-> mapping,
                 file |-> file]
  /\ job' = [tool |-> IF run.adaptive THEN mesh.data.head ELSE 0, offsets |-> offsets, file |-> file,
             mesh |-> mesh.data, mapping |-> run.mapping, want |-> run.mapping]
  /\ pc' = "s_ready"
  /\ UNCHANGED <<tools, probe, offsets, meshes, flags, sdcard, timer, start,
                 machine, record>>

StartReady ==
  /\ pc = "s_ready"
  /\ adaptive' = TRUE /\ ready' = TRUE
  /\ pc' = "body" /\ run' = None /\ pausing' = FALSE
  /\ state' = IF pausing THEN "paused" ELSE state
  /\ UNCHANGED <<tools, probe, context, offsets, meshes, active, zraise, file,
                 timer, machine, record, job>>

\* A heater, a probe, a missing profile or the mesh check stops START_PRINT:
\* the file is abandoned with everything already written left as it is.
StartFails ==
  /\ pc \in {"s_home", "s_mesh", "s_save", "s_pick", "s_again", "s_commit"}
  /\ state' = "error" /\ pc' = "idle" /\ run' = None /\ pausing' = FALSE
  /\ UNCHANGED <<tools, probe, context, offsets, meshes, flags, file, timer,
                 machine, record, job>>

-----------------------------------------------------------------------------
(***************************************************************************)
(* The print body, PAUSE, RESUME, M24 and the end of the print.            *)
(***************************************************************************)

Printing == pc = "body" /\ state = "printing"
Paused   == pc = "body" /\ state = "paused"

\* The touchscreen writes a checkpoint of the running file.
Checkpoint ==
  /\ Printing
  /\ record' = file
  /\ UNCHANGED <<tools, probe, context, offsets, meshes, flags, sdcard, timer,
                 pc, start, machine, job>>

ChangeTool(t) ==
  /\ Printing
  /\ Select(mapping[t])
  /\ UNCHANGED <<tools, probe, context, offsets, meshes, flags, sdcard, timer,
                 pc, start, record, job>>

ChangeToolFails ==
  /\ Printing
  /\ SelectFails
  /\ SnapshotMapping /\ state' = "paused"
  /\ UNCHANGED <<probe, context, offsets, meshes, flags, file, timer, pc,
                 start, record, job>>

Pause ==
  /\ Printing \/ (RepeatPause /\ Paused)
  /\ SnapshotMapping /\ state' = "paused"
  /\ UNCHANGED <<probe, context, offsets, meshes, flags, file, timer, pc,
                 start, machine, record, job>>

\* The touchscreen's spool change while paused goes to the backups.
RemapWhilePaused(m) ==
  /\ Paused
  /\ backup' = m
  /\ job' = [job EXCEPT !.want = m]
  /\ UNCHANGED <<mapping, probe, context, offsets, meshes, flags, sdcard,
                 timer, pc, start, machine, record>>

\* Mutant of Resume: the backups are not restored.
ResumeKeepsMapping ==
  /\ Paused
  /\ pc' = "resume_m24"
  /\ UNCHANGED <<tools, probe, context, offsets, meshes, flags, sdcard, timer,
                 start, machine, record, job>>

Resume ==
  /\ Paused
  /\ mapping' = backup
  /\ pc' = "resume_m24"
  /\ UNCHANGED <<backup, probe, context, offsets, meshes, flags, sdcard, timer,
                 start, machine, record, job>>

\* The wipe or the return move fails after the mapping was restored.
ResumeFails ==
  /\ pc = "resume_m24"
  /\ pc' = "body"
  /\ UNCHANGED <<tools, probe, context, offsets, meshes, flags, sdcard, timer,
                 start, machine, record, job>>

RecoveryMatches ==
  /\ context # None /\ file = context.file
  /\ mesh.name = "wmp_print" /\ probe = context.tool

\* M24: recovery restores the saved mapping; an ordinary resume keeps the
\* record up with a remap.  Then the native M9924 runs the file.
M24 ==
  /\ pc \in {"resume_m24", "r_m24"}
  /\ IF active
     THEN /\ RecoveryMatches
          /\ mapping' = context.mapping /\ backup' = context.mapping
          /\ active' = FALSE
          /\ job' = [job EXCEPT !.want = job.mapping]
          /\ UNCHANGED context
     ELSE /\ context' = IF context # None /\ context.file = file
                        THEN [context EXCEPT !.mapping = mapping]
                        ELSE context
          /\ job' = [job EXCEPT !.mapping = job.want]
          /\ UNCHANGED <<tools, active>>
  /\ state' = "printing" /\ pc' = "body"
  /\ UNCHANGED <<probe, offsets, meshes, ready, adaptive, zraise, file, timer,
                 start, machine, record>>

M24Blocked ==
  /\ pc \in {"resume_m24", "r_m24"} /\ active /\ ~RecoveryMatches
  /\ Restart

\* Mutant of EndPrint: the record outlives its part.
EndPrintKeepsRecord ==
  /\ pc \in {"body", "idle"}
  /\ active' = FALSE /\ job' = None
  /\ pc' = "ending"
  /\ UNCHANGED <<tools, probe, context, offsets, meshes, ready, adaptive,
                 zraise, sdcard, timer, start, machine, record>>

\* A command of the file fails: Klipper abandons the file and leaves the rest.
BodyFails ==
  /\ Printing
  /\ state' = "error" /\ pc' = "idle"
  /\ UNCHANGED <<tools, probe, context, offsets, meshes, flags, file, timer,
                 start, machine, record, job>>

\* PRINT_END and CANCEL_PRINT clear the record first and reset the rest last.
\* CANCEL_PRINT also runs with nothing printing, to decline a recovery.
EndPrint ==
  /\ pc \in {"body", "idle"}
  /\ context' = None /\ active' = FALSE /\ job' = None
  /\ pc' = "ending"
  /\ UNCHANGED <<tools, probe, offsets, meshes, ready, adaptive, zraise,
                 sdcard, timer, start, machine, record>>

\* The touchscreen may or may not drop its checkpoint.
EndReset ==
  /\ pc = "ending"
  /\ probe' = 0 /\ mapping' = Identity
  /\ mesh' = NoMesh /\ ready' = FALSE
  /\ state' = "standby" /\ file' = None
  /\ record' \in {record, None}
  /\ pc' = "idle"
  /\ UNCHANGED <<backup, context, offsets, disk, profiles, active, adaptive,
                 zraise, timer, start, machine, job>>

-----------------------------------------------------------------------------
(***************************************************************************)
(* G29: the default mesh, on a clear bed.                                  *)
(***************************************************************************)

G29 ==
  /\ Idle
  /\ context' = None /\ active' = FALSE /\ job' = None
  /\ probe' = 0
  /\ pc' = "g29"
  /\ UNCHANGED <<tools, offsets, meshes, ready, adaptive, zraise, sdcard,
                 timer, start, machine, record>>

\* _CHANGE_TOOL T=0 unless T0 is mounted, then BED_MESH_CALIBRATE, which homes,
\* and so applies the offset, only if Z was not homed.
G29Probe(s) ==
  /\ pc = "g29" /\ MayCalibrate("default")
  /\ \/ head # 0 /\ Select(0)
     \/ head = 0 /\ head' = 0 /\ applied' \in {applied, probe}
     \/ head # 0 /\ SelectFails /\ head' # None
  /\ LET m == [head |-> head', shape |-> s] IN
       /\ profiles' = [profiles EXCEPT !["default"] = m]
       /\ mesh' = [name |-> "default", data |-> m]
  /\ pc' = "idle"
  /\ UNCHANGED <<tools, probe, context, offsets, disk, flags, sdcard, timer,
                 start, record, job>>

G29Fails ==
  /\ pc = "g29"
  /\ pc' = "idle"
  /\ UNCHANGED <<tools, probe, context, offsets, meshes, flags, sdcard, timer,
                 start, machine, record, job>>

-----------------------------------------------------------------------------
(***************************************************************************)
(* The operator's own homing and mesh commands.                            *)
(***************************************************************************)

\* G28, whose tool change may fail.
HandHome ==
  /\ Idle /\ zraise = 1
  /\ Select(probe) \/ SelectFails
  /\ mesh' = NoMesh
  /\ UNCHANGED <<tools, probe, context, offsets, disk, profiles, flags, sdcard,
                 timer, pc, start, record, job>>

\* BED_MESH_CALIBRATE PROFILE=name, with the head that is on the carriage.
\* Its own G28 may have begun a recovery after the reference was checked.
HandCalibrate(name, s) ==
  /\ Idle /\ head # None /\ (MayCalibrate(name) \/ active)
  /\ LET m == [head |-> head, shape |-> s] IN
       /\ profiles' = [profiles EXCEPT ![name] = m]
       /\ mesh' = [name |-> name, data |-> m]
  /\ UNCHANGED <<tools, probe, context, offsets, disk, flags, sdcard, timer, pc,
                 start, machine, record, job>>

\* BED_MESH_PROFILE SAVE=default, whatever mesh is loaded.
HandSave ==
  /\ Idle /\ mesh.data # None
  /\ profiles' = [profiles EXCEPT !["default"] = mesh.data]
  /\ mesh' = [name |-> "default", data |-> mesh.data]
  /\ UNCHANGED <<tools, probe, context, offsets, disk, flags, sdcard, timer, pc,
                 start, machine, record, job>>

\* BED_MESH_PROFILE LOAD=default.
HandLoad ==
  /\ Idle
  /\ LET name == LoadedBy("default") IN
       name # None /\ profiles[name] # None /\ mesh' = Profile(name)
  /\ UNCHANGED <<tools, probe, context, offsets, disk, profiles, flags, sdcard,
                 timer, pc, start, machine, record, job>>

-----------------------------------------------------------------------------
(***************************************************************************)
(* Recovery: what the touchscreen sends, and what the macros make of it.   *)
(***************************************************************************)

\* Early T: identity mappings, and the interrupted head is picked up.
RecoverPick(h) ==
  /\ pc = "idle" /\ state = "standby" /\ record # None
  /\ EarlyStart \/ timer = "done"
  /\ mapping' = Identity /\ Select(h)
  /\ pc' = "r_arm"
  /\ UNCHANGED <<backup, probe, context, offsets, meshes, flags, sdcard, timer,
                 start, record, job>>

\* Z_HOMING.z_raise=0 marks the G28 that follows as recovery homing.
RecoverArm ==
  /\ pc = "r_arm" /\ timer # "waiting"
  /\ zraise' = 0 /\ pc' = "r_begin"
  /\ UNCHANGED <<tools, probe, context, offsets, meshes, active, ready,
                 adaptive, sdcard, timer, start, machine, record, job>>

\* Mutant of Recoverable: a calibration newer than the record is accepted.
RecoverableAnyOffsets == context # None /\ profiles["wmp_print"] # None

Recoverable ==
  /\ context # None /\ context.offsets = offsets
  /\ profiles["wmp_print"] # None

\* _WMP_RECOVERY_BEGIN.
RecoverBegin ==
  /\ pc = "r_begin" /\ Recoverable
  /\ active' = TRUE /\ ready' = FALSE
  /\ probe' = context.tool
  /\ pc' = "r_home"
  /\ UNCHANGED <<tools, context, offsets, meshes, adaptive, zraise, sdcard,
                 timer, start, machine, record, job>>

RecoverBlocked ==
  /\ pc = "r_begin" /\ ~Recoverable
  /\ Restart

\* Homing, _WMP_RECOVERY_RESTORE_MESH and _OFFSET_SET.
RecoverHome ==
  /\ pc = "r_home"
  /\ mesh' = Profile("wmp_print") /\ applied' = probe /\ zraise' = 1
  /\ pc' = "r_reselect"
  /\ UNCHANGED <<tools, probe, context, offsets, disk, profiles, active, ready,
                 adaptive, sdcard, timer, start, head, record, job>>

\* A homing error leaves the branch, but not the touchscreen, which goes on.
RecoverHomeFails ==
  /\ pc = "r_home"
  /\ pc' = "r_reselect"
  /\ UNCHANGED <<tools, probe, context, offsets, meshes, flags, sdcard, timer,
                 start, machine, record, job>>

RecoverReselect(h) ==
  /\ pc = "r_reselect"
  /\ mapping' = Identity
  /\ Select(h) \/ ("recover" \in PickFails /\ SelectFails)
  /\ pc' = "r_mesh"
  /\ UNCHANGED <<backup, probe, context, offsets, meshes, flags, sdcard, timer,
                 start, record, job>>

\* The touchscreen asks for its legacy mesh.
RecoverMesh ==
  /\ pc = "r_mesh"
  /\ LET name == LoadedBy("default") IN
       mesh' = IF name # None /\ profiles[name] # None THEN Profile(name)
               ELSE mesh
  /\ pc' = "r_file"
  /\ UNCHANGED <<tools, probe, context, offsets, disk, profiles, flags, sdcard,
                 timer, start, machine, record, job>>

\* It selects the file of its checkpoint, writes identity mappings once more
\* and marks the body ready.
RecoverFile ==
  /\ pc = "r_file"
  /\ file' = record /\ mapping' = Identity /\ ready' = TRUE
  /\ pc' = "r_m24"
  /\ UNCHANGED <<backup, probe, context, offsets, meshes, active, adaptive,
                 zraise, state, timer, start, machine, record, job>>

\* The touchscreen stops, or the operator gives up, between two commands.
RecoverAbandoned ==
  /\ pc \in RecoverySteps \ MacroSteps
  /\ pc' = "idle"
  /\ UNCHANGED <<tools, probe, context, offsets, meshes, flags, sdcard, timer,
                 start, machine, record, job>>

\* G28 by hand after the touchscreen announced a recovery and stopped: the
\* recovery's homing, which may fail half-way, without what follows it.
HandRecover ==
  /\ Idle /\ zraise = 0 /\ Recoverable
  /\ active' = TRUE /\ ready' = FALSE /\ probe' = context.tool
  /\ \/ mesh' = Profile("wmp_print") /\ applied' = probe' /\ zraise' = 1
     \/ UNCHANGED <<mesh, applied, zraise>>
  /\ UNCHANGED <<tools, context, offsets, disk, profiles, adaptive, sdcard,
                 timer, pc, start, head, record, job>>

HandRecoverBlocked ==
  /\ Idle /\ zraise = 0 /\ ~Recoverable
  /\ Restart

-----------------------------------------------------------------------------
StartNext ==
  \/ \E f \in Files, t \in Heads, p \in BOOLEAN : StartPrint(f, t, p)
  \/ StartZeroT0 \/ StartAim
  \/ StartHome \/ StartHomeBlocked \/ StartHomePickFails
  \/ \E s \in Shapes, native \in BOOLEAN : StartProbe(s, native)
  \/ StartLoadDefault \/ StartSaveMesh \/ StartFlush \/ StartRestoreT0
  \/ StartPick \/ StartPickFailsTwice
  \/ StartCommit \/ StartReady \/ StartFails

BodyNext ==
  \/ Checkpoint \/ Pause \/ Resume \/ ResumeFails \/ M24 \/ M24Blocked
  \/ ChangeToolFails \/ \E t \in Heads : ChangeTool(t)
  \/ \E m \in Mapping : RemapWhilePaused(m)
  \/ BodyFails \/ EndPrint \/ EndReset

RecoverNext ==
  \/ \E h \in Heads : RecoverPick(h) \/ RecoverReselect(h)
  \/ RecoverArm \/ RecoverBegin \/ RecoverBlocked
  \/ RecoverHome \/ RecoverHomeFails
  \/ RecoverMesh \/ RecoverFile \/ RecoverAbandoned

OperatorNext ==
  \/ \E m \in Mapping : AssignSpools(m)
  \/ \E c \in Cals : Recalibrate(c)
  \/ \E on \in BOOLEAN : ChooseMesh(on)
  \/ SaveConfig
  \/ G29 \/ G29Fails \/ \E s \in Shapes : G29Probe(s)
  \/ HandHome \/ HandRecover \/ HandRecoverBlocked
  \/ \E name \in HandNames, s \in Shapes : HandCalibrate(name, s)
  \/ HandSave \/ HandLoad

Next ==
  \/ StartNext \/ BodyNext \/ RecoverNext \/ OperatorNext
  \/ PowerCut \/ TimerRenders \/ TimerWrites

Spec == Init /\ [][Next]_vars

-----------------------------------------------------------------------------
(***************************************************************************)
(* Properties.                                                             *)
(***************************************************************************)

\* While a file executes it is the file of the part on the plate, under the mesh
\* that part was started with, loaded from the profile the touchscreen knows.
BodyMesh ==
  Printing => /\ job # None /\ file = job.file
              /\ mesh = [name |-> "wmp_print", data |-> job.mesh]

\* While a file executes, tool offsets are taken, and will be taken by the next
\* tool change, relative to the head that probed the part's mesh, or to T0 if it
\* was started with the saved default, under the calibration of that moment.
BodyDatum ==
  Printing => /\ job # None
              /\ probe = job.tool /\ applied = job.tool
              /\ offsets = job.offsets

\* While a file executes, the slicer's tools map to the heads the operator last
\* asked for: at the start of the print, or by a spool change while paused.
BodyMapping == Printing => job # None /\ mapping = job.want

\* There is a recovery record exactly while there is a part on the plate, and
\* the mesh it names is on disk as that part was started with.
RecordExists ==
  /\ (context = None) <=> (job = None)
  /\ job # None => disk["wmp_print"] = job.mesh /\ context.file = job.file

\* The record describes the part: its head, its calibration and the mapping its
\* body last ran with, so a power cut at any moment loses none of them.
RecordFaithful ==
  job # None => context = [tool |-> job.tool, offsets |-> job.offsets,
                           mapping |-> job.mapping, file |-> job.file]

\* Once recovery homing accepted the record, M24 refuses only another file.
RecoveryAcceptedOnce ==
  pc = "r_m24" /\ active /\ file = context.file => RecoveryMatches

=============================================================================
