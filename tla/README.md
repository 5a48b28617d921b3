# Wondermaker+ verification project

TLA+ models of Wondermaker+ (WM+), the macros, services and patches that extend
a tool-changing 3D printer: Klipper macros, a Klipper extra, preload patches for
the touchscreen client, a screen mirror with remote touch, and deployment tools.
TLC checks the modules on small instances. TLAPS proves all their safety
properties for every value of the constants. Paths below are relative to `src/`.

## 1. The system

| Component | State it keeps | Operations | What is hard about it | What makes it correct |
|---|---|---|---|---|
| Print lifecycle and recovery macros, `config/live/macros.cfg`, `printer.cfg` | saved variables (mapping, backup, `probe_tool`, `wmp_print_context`), mesh profiles in memory and on disk, macro variables | START_PRINT, G29, PAUSE, RESUME, M24, PRINT_END, CANCEL_PRINT, recovery begin/home/mesh | a macro is rendered on entry and a power cut may fall between any two of its commands; failing tool changes do not stop their caller; the screen rewrites the mapping during recovery | a body only runs under the mesh, datum and mapping its part was started with, and the record says which |
| Tool change macros, `config/live/change_macros.cfg` | `current_extruder`, `fail_flag`, retry, the captured return, the lift | `_CHANGE_TOOL`, release, pickup, checks, retry, return, PARK_CURRENT_TOOL | belief (a saved variable) and carriage (sensors) diverge after faults and power cuts; the retry runs inside the check | the head selected is the head mounted, nothing falls, the nozzle returns to where it left the part |
| Bottom Z homing and Z diagnostics, `klipper_extras/wmp_recovery.py`, `wmp_z_diagnostics.py` | `valid`, `active`; the diagnostic's `active` and `phase` | event handlers, `cmd_home`; `WMP_Z_MAX_TEST` | a failed command does not cancel the screen's queued requests; a diagnostic home that fails shuts nothing down | no sideways move on a guessed Z; a home ends referenced or shut down |
| Checkpoint guard, `client-preload/recovery-fix/` | marker files, loaded hash | save, load, start | crash points, another writer of the files, check and use apart | recovery starts only from a complete record in G-code coordinates |
| Screen stream, `device/wmp_screen.py`, `device/www/index.html` | numbered updates, viewers, the page's canvas | capture loop, snapshot, handlers, paint | deltas that are skipped, late or broken off, threads that share the mapping | the page shows the last frame; an unwatched bridge rests |
| Remote touch, `device/wmp_screen.py` | the lock, the contact, `armed` | tap, swipe, wake, arm | concurrent requests, a screen that wakes on the first press, failing writes | a request answered with success is one gesture |
| Part-fan, Wi-Fi, head-config and OpenACE preloads, `client-preload/` | an allowance per print; a two-second cache | monitor, hooks | two threads and one allowance; stale cache | the fan is started once per print and an explicit OFF is kept |
| Slot materials, `klipper_extras/wm_material.py` | materials and the file's modification time | refresh, status | the touchscreen rewrites the file between the look at its time and the reading, and within one time stamp | a status shows the materials of the file whose time it has |
| Configuration sync, `utils/config_sync.py` | none (the printer's files) | diff, push, pull | many requests to a printer that goes on: SAVE_CONFIG between read and write, an edit, a print, a restart; reads that fail | calibration survives, what is overwritten has a copy, "complete" means loaded |
| Deployment, `tools/deploy.py`, `tools/components/`, `tools/preflight.py`, `scripts/` | none (the printer's files, services and Klipper) | preflight, install and uninstall of four components, restart | failures and power cuts half-way, prints that start between components | nothing changes before every check passed, nor under a print; what is left can start; success means that all is there |
| Base update, `tools/update_config_base.py` | none | three-way plan, publication | files only one side has, marked changes that a merge drops | no file and no local change is lost without a decision |
| Resonance tools, command line clients | none | | numerical or pure I/O | |

The vendor's client, Klipper, Moonraker and nginx are external. They appear as
what the code above sees of them: Klipper's gcode lock, its shutdown, saved
variables and `SAVE_CONFIG`; the client's requests and its loader and writer.

The components interact through Klipper. The client sends G-code to the macros;
START_PRINT, recovery and G29 call the tool change; the tool change, homing and
recovery call bottom homing when Z is not referenced; the client decides to
recover from the checkpoint the guard vouches for, and the macros decide again
from their own record. The screen bridge is independent of all of them. The
deployment tools change what the others run: `deploy.py` runs the components in
order, its `config` component runs a push of `config_sync`, and Klipper meets
the new files at its next restart, whoever asks for it.

## 2. Modules

| Module | Stands for | How state and actions correspond |
|---|---|---|
| `PrintRecovery` | lifecycle macros | `mapping`, `backup`, `probe`, `context`, `offsets`, `disk` are what survives a power cut; `profiles`, `mesh`, `active`, `ready` and the rest are lost in it. START_PRINT is one action per command that changes state (`StartZeroT0` ... `StartReady`); `run` is what it rendered on entry. `job` is the part on the plate, a history variable. The `Hand...` actions are the operator's own G28, BED_MESH_CALIBRATE and BED_MESH_PROFILE between prints; `HandNames` says which profiles are calibrated so. |
| `PrintRecoveryInv`, `PrintRecoveryProofs` | | the inductive invariants and the proofs |
| `ToolChange`, `ToolChangeProofs` | tool change macros | `ce` and `flag` are the saved variables, `carriage`, `latched`, `away` the machine. One action per part of a change that works on one reading of the sensors. |
| `BottomZ`, `BottomZProofs` | two Klipper extras (the proofs also those of `MaterialCache`) | `valid` and `active` are the fields of bottom homing, `phase` that of the diagnostic; `real` says whether Z is where Klipper thinks. `cmd_home` is the steps `call`, `settle`, `begin`, `seek`, `wait`; the diagnostic is one more script that holds the gcode lock. |
| `TrustedRecovery` | what the guard promises | a recovery starts only from a record that was written whole in G-code coordinates |
| `Checkpoint`, `CheckpointProofs` | the guard | every file twice, as programs see it and as synced. A save is hash, write, sync and publish, with a kill or a power cut between any two; a load is verify, read and verify again, and other programs may replace the file between. The start comes after the lock was given back, so another load may come before it. It implements `TrustedRecovery` by `RecoversTrusted`. |
| `ScreenStream`, `ScreenStreamProofs` | capture, handlers, page (the proofs also those of `RowRuns`) | what happens under `Screen.cond` is one step, the rest (seek, read, publish, handler decisions, socket writes) are steps of their own |
| `Mirror` | what a screen mirror promises | frames are captured; what is shown is one of them, whole, and never an older one than before |
| `ScreenMirror` | | `ScreenStream` with a memory: the frames captured so far, and the number of the one that each chunk on its way completes. It restricts nothing, and implements `Mirror` by `ShowsCaptured`. |
| `RowRuns` | `_changed_row_runs`, `encode_update` | the functions over every set of changed rows, against a declarative reference: the loops over rows and runs are recursive functions, what a frame changes is one variable |
| `MaterialCache` | `wm_material.py` | `mtime` and `slots` are its fields; `_refresh` is the steps `Stat` and `Read`, and the touchscreen writes the file between any two. `Materials` reads the file line by line, `Says` is its reference. |
| `BasePlan` | `update_config_base.py` | three directories, the plan as operators on one file's three texts, and `main` as steps with its exit status |
| `ConfigPush`, `ConfigPushProofs` | `config_sync.py push` | one step per request: scan of a file, the print query, the question, copy, read, write (two steps over SFTP), restart and each query of `wait_ready`. Files are named as on the command line, some perhaps `twice`; those come `again`. `missed`, `touched` and `replaced` are history: what a push could not read, what others changed behind its back, and what it overwrote. |
| `ConfigPlan` | `preflight.config_plan` | the include closure and the checks of the configuration that an installation will leave; no state. The traversal is stated by what it ends with, the least set with the root and with what its members include. |
| `Deploy`, `DeployProofs` | `deploy.py`, the components, the shell scripts (the proofs also those of `BasePlan`) | one step per check and per change to the printer. `conf`, `extras`, `libs`, `dropin`, `bridge` survive a power cut; `klipper`, `running`, `preloaded` are what runs; `half` is history, what was taken away, or opened for writing, before what refers to it. It uses `ConfigPlan` twice: for the preflight, and for what Klipper finds when it loads. |
| `RemoteTouch`, `RemoteTouchProofs` | `Touch` and `do_POST` | one thread per request, one step per device write |
| `MC...` | | model values and symmetry for TLC; `MCAlgorithms` puts `RowRuns`, `BasePlan` and `MaterialCache`, which do not interact, into one state space |

Every definition's source lines are in `PROJECT.json` under `map`. Definitions
whose comment begins with "A bug:" or "Mutant of" are deliberate faults, used to see that each property
can fail.

### Abstractions

- Positions, offsets, meshes, temperatures and names are values that are only
  compared; heating, purging, feed rates and messages are left out.
- A lift of 2 mm is a counter up to `Headroom`; a nozzle position is one of a few places.
- The FNV hash of a checkpoint is the file's content: collisions are not modelled.
- Another program replaces a checkpoint file while no save holds the lock: also
  within a load, there once unless `Faults` has `"twice"`.
- The operator's own homing and mesh commands come between prints; there,
  `BED_MESH_PROFILE REMOVE` is left out, as it only takes a profile away.
- `BED_MESH_PROFILE SAVE` is modelled for `default`, the name the docs speak of.
- `ToolChange` has no calibration mode: with `is_nozzle_setting` set the macros
  skip their dock and sequence checks (`change_macros.cfg:66`, `187`, `231`).
- A Klipper that is not `"ready"` in `ConfigPush` is starting, failed or shut
  down; `wait_ready` does not tell these apart from ready either.
- A frame is a function from rows to colours, one step changes one row; so a
  torn capture is a capture between two such steps.
- A capture that raises sleeps and tries again, so it is no step. The cached
  full frame is the frame.
- A broken connection lingers until a write to it fails.
- A backlight that cannot be read counts as bright and is not modelled apart;
  nobody touches the panel by hand in the middle of a remote gesture.
- A configuration text in `ConfigPush` is a body and, in `printer.cfg`, the
  version of its SAVE_CONFIG block; in `ConfigPlan` it is what it includes, the
  sections it has of Klipper extras and the extras its macros use. Which of the
  sections conflict, values and templates are left out.
- In `BasePlan` texts differ in whole regions, and `git merge-file` settles each
  region by itself. It turns CRLF into LF in what it merges, which is left out.
- `preflight` failing in `Deploy` stands for every check that is not about the
  configuration's text: commands, directories, free ports, the identity of the
  touchscreen's client. What the printer has of these is the constant `Has`.
- That a webcam cannot be registered is reported and no error, so it is a choice.
- The clock of a file system ticks between two writes of `tmt1.ini`, unless
  `Coarse` says otherwise.

## 3. Runs

| Run | Question | Bounds |
|---|---|---|
| `print_recovery` | does the body run under the part's datum and mapping, and is the record faithful, with power cuts everywhere? | 2 heads, 2 files, 2 calibrations, 1 mesh shape, `default` calibrated by hand, no tool change of START_PRINT or recovery failing twice |
| `print_faults` | does it still run on the part's own mesh, with a record exactly while there is a part, when tool changes fail? | 2 heads, 1 file, 1 mesh shape, `default` calibrated by hand, failures at every site |
| `print_repeat_pause` | *violation*: a second PAUSE loses the mapping | 1 file |
| `tool_change` | is the selected head mounted, does nothing fall, does the nozzle return? | 3 heads, the docks of two of them in either order, 1 of them moved by hand, 2 faults, head-room for 2 lifts |
| `bottom_z` | does every bottom home end referenced or shut down, with no move on a guess, whatever fails and whoever tests the diagnostics? | none: the state is finite |
| `checkpoint` | does recovery only start from trusted records, and is what is stamped synced first? | both slots; one good, one stock and the torn content; hashing and writing do not fail unnoticed, a file is replaced at most once within a load |
| `screen_stream` | does the page that got the newest update show the newest frame, and only whole frames in their order? | 2 rows, 2 colours, 2 connections, 1 chunk buffered and 1 at the write, 2 changes, 1 snapshot, 2 connects |
| `screen_rest` | does it converge, and does the bridge rest? | 1 connection, again and again, otherwise the same |
| `algorithms` | do updates carry the right rows, does a base update lose nothing, does a material status match its file? | ten rows in bands of 2, 6 and 2: every set of changed rows; two files of two regions, three directories in every combination of four texts, missing and unreadable; files of up to 3 lines rewritten up to 3 times |
| `remote_touch` | is a gesture sent once, and every request answered? | 3 threads, 3 requests, swipes with 1 intermediate move |
| `config_push` | is calibration kept, everything overwritten copied, and a completed push loaded? | `printer.cfg` and one file, each named once, twice or not at all, both transports, 2 pushes, 1 SAVE_CONFIG, 1 query of `wait_ready`; requests, the print query and SFTP reads fail; Klipper fails or is shut down at any time |
| `deploy` | does nothing change before the checks or under a print, can what is left start, is success complete? | 2 of 13 command lines one after the other; 4 kinds of printer; 2 libraries; 4 files; every failure but the unnoticed one of `preload`; a removal whose steps fail unnoticed |

Why these are enough. Two heads let a mapping, a probe head and a mounted head
all differ from T0 (`ToolChange` has three: only then can one be mounted and
another lie about while a third is asked for); two files let a recovery be offered the wrong one; a third
value of either would only repeat a comparison. Meshes are only compared, and one shape leaves two of them, one for each head. Two faults are one that breaks
belief or sensor and one that meets the retry; the properties that assume a single fault say so
(`Ordinary`, `faults <= 1`). Two rows let an update leave one out, two changes
let a handler skip one, a second connection can outlive the first,
and one chunk in the channel and one at the write are two on their way. In `RowRuns` the middle band has
room for a gap that is absorbed and for one that is not. Three threads let two wait for the lock.
Two files let a push stop between them, with `printer.cfg` the first or the second; the second push repairs
what the first left. Two commands let an installation meet what an installation
or a removal broke off left behind; four printers have the vendor's configuration
with and without its extra, an older release, and everything. Three lines of a
material file put a setting before, under and after its section, or twice; three time stamps
let the file change between look, read and next look.

`screen_stream` and `screen_rest` say `CHECK_DEADLOCK FALSE`: when nobody
watches, the bound on changes is used up and the screen is still, the bridge
really stops. So does `algorithms`, where a base update ends. Every other run checks deadlock.

### Fairness

- `BottomZ`: weak fairness of the script that holds the gcode lock; its waits
  are for moves that end, by finishing or by a shutdown.
- `ScreenStream`: weak fairness of the capture thread, of each handler and of
  painting. Operating system threads and browser promises are scheduled; nobody
  has to connect, draw or ask for a snapshot. Timeouts only shorten waits.
- `RemoteTouch`: weak fairness of each handler thread. A Python lock is no queue, so a thread
  could be passed by for ever; requests are bounded in the model, as they come from a person's hand.

## 4. Disagreements of code and text

One is a run (and `findings` in `PROJECT.json`): a second PAUSE of a paused
print snapshots the identity mapping the first left, and RESUME restores that
(`macros.cfg:282`).

Others are reproduced by a constant, a property or a history variable of a
module; they are boundaries of what the passing runs claim:

| Module | Set | What happens |
|---|---|---|
| `PrintRecovery` | `EarlyStart = TRUE` | a job begins before the start-up timer ran; the timer then resets `probe_tool` under the body, or under a recovery: `BodyDatum` and `RecoveryAcceptedOnce` fail |
| | `PickFails` not empty | a tool change that fails inside START_PRINT or recovery does not stop the caller: `BodyDatum` or `RecordFaithful` fail. `BodyMesh` and `RecordExists` hold all the same (`print_faults`) and are proved so |
| | `job.tool` of a saved default | `docs/print-mesh-recovery.md:46-48` want the default mesh to be T0's, and the comment at `macros.cfg:459` says that G29 makes it so. BED_MESH_CALIBRATE checks `probe_tool` and not the mounted head (`macros.cfg:630-655`), SAVE=default passes through with any mesh loaded (`590`), and G29 goes on after a failed tool change: a default mesh can be another head's. The macros take it for T0's all the same, and so does `BodyDatum`, which relates the offset to the datum the print was started with, not to the head that once probed the default |
| | `HandNames` with `"wmp_print"` | the docs give that name to the macros (`docs/print-mesh-recovery.md:50`), which block loading, saving and removing it by hand but not calibrating it: that takes the place of the part's mesh: `BodyMesh` and `RecordExists` fail |
| `ToolChange` | check `UnlocksNothing` | after a power cut between locking a head and saving `current_extruder`, PARK_CURRENT_TOOL says that no tool is attached and opens the latch under a mounted head (`change_macros.cfg:50-55`) |
| | `Ordinary` without `away = {}` | the head dropped like that, or any other that is in no dock, counts as undocked: the next correction of an unknown `current_extruder` takes the last undocked head (`change_macros.cfg:620-627`), which may be the one that is gone, and a change to it then reports success with another head mounted: `DropsWhatItCarries` and `SelectedIsMounted` fail with three heads |
| | check `AlreadySelected`, `FailureKeepsLift` | a message and a comment the code does not always keep |
| `BottomZ` | `Relabels = TRUE` | `SET_KINEMATIC_POSITION` keeps the reference valid with a coordinate no home found: `ReferenceReal` fails |
| | check `BlockedWhilePaused` | bottom homing is documented as blocked during a paused print, but PAUSE never pauses in the sense `cmd_home` looks at (`wmp_recovery.py:57`) |
| `Checkpoint` | `Faults = {"blind"}`, `{"short"}` | a failed hash counts as an absent file, a half-written record as a new one: an untrusted record is stamped, `MarkerTrusted` fails |
| | `Faults = {"twice"}` | a file replaced after the first verification and put back before the second passes both (`wmp_recoveryfix.c:196-198`), and the client holds values of the file in between: `StartTrusted` fails |
| | history `overtaken` | `start_recovery` checks under the lock and calls the vendor's start after it (`wmp_recoveryfix.c:209-224`): a load in between changes what is started. `StartTrusted` and `RecoversTrusted` except such a start, and only it |
| `ScreenStream` | `LatePaint = TRUE` | chunks of an aborted connection are painted over the new one's: `LastFrameShown` and `ShowsCaptured` fail |
| | check `WholeFrames`, `BeatsWhenQuiet` | capture and snapshot share the position of one memory map; a viewer before the first capture gets heartbeats without pause |
| `RemoteTouch` | `Races = TRUE` | the screen blanks or wakes between look and press: `GestureOnce` fails |
| | check `BlockedWhenOff` | a gesture that waits for the lock is sent after Touch was switched off |
| `ConfigPush` | history `missed`, `touched` | a SAVE_CONFIG between the push's read and its write is lost (`config_sync.py:321-325`); over SFTP every failed read counts as a missing file (`config_sync.py:125`), so `printer.cfg` can be written without its calibration and without a copy, though the module says "backs up replaced files and keeps this printer's calibration" |
| | `Faults` with `"cut"` | an SFTP write that breaks off leaves a file half-written, in `printer.cfg` without calibration: `CalibrationKept` fails; the copy has it |
| | `twice` | `push macros.cfg macros.cfg` copies the file twice to one name with one time stamp (`config_sync.py:310-326`): the second copy is the upload, and the file as it was is lost. `OverwrittenIsBackedUp` is about the others |
| | action `Ready` | `wait_ready` prints "Klipper is Ready" when `idle_timeout` says Idle or Ready (`config_sync.py:186-190`), which it does from the moment its object is loaded, also in start-up and in a shutdown; `deploy.py:116-122` asks `/printer/info` instead. `CompleteIsLoaded` claims that Klipper has read the files after the restart, not that it is ready |
| `Deploy` | `Faults = {"silent"}` | the status of the commands that write the drop-in and restart the service is thrown away (`preload.py:50-56`), and `is-active` then passes for the old process: an installation ends with status 0 without the patches loaded, `SuccessIsComplete` fails |
| | history `half` | `material` rewrites `wm_material.py` in place (`material.py:51`), where `config.py:43` writes beside and renames: what breaks off there leaves a section without a whole extra. Its removal takes the extra before the section (`material.py:58`), and `exists` takes any failed look for an absent file (`16-21`), so that a removal may overlook either file and end with status 0. `SectionsHaveExtras` excepts these windows by name |
| | `Faults` with `"ignored"`, history `half` | `uninstall.sh` runs without `-e` (line 4): it goes on to remove the payload when the site could not be restored (`38`, `41`, `46`, `54`), and nginx, whose site still includes it, will not load. `NginxLoads` excepts a payload removed like that (`"include"` in `half`), which the next installation repairs |
| | history `late` | a print that starts after the last question and before the change is not seen |
| `MaterialCache` | `Coarse = TRUE` | a second content with the same modification time is never read: `StatusOfFile` fails |
| `BasePlan` | `PrintFails = TRUE` | a decision that cannot be printed ends in status 2, after the candidate was published: `NothingLost` fails |

Known and outside the properties: `material` succeeds although `printer.cfg`
may not include `wm_material.cfg`; `uninstall.sh` restores the site file of the
day of installation, and later edits of it are lost; the vendor's updates may
remove extras that an installation has put there.

## 5. Proofs

All proofs are for any constants that satisfy the module's ASSUME. Those of
`PrintRecoveryProofs` also assume that nobody calibrates a mesh named
`wmp_print` by hand (`"wmp_print" \notin HandNames`).

| Theorem | Says | Assuming | Argument |
|---|---|---|---|
| `PrintRecoveryProofs!TypeCorrect` | `TypeOK` | | inductive |
| `RecordCorrect`, `MeshCorrect` | `RecordExists`, `BodyMesh` | nothing more: every fault is on | `RecordInv`: what START_PRINT has established at each command (probed, saved, flushed), that nothing replaces a part's mesh, and that recovery has a record. Neither property is inductive alone: each only looks at the body, the invariant at the way there. |
| `MappingCorrect` | `BodyMapping` | `~RepeatPause`, START_PRINT's tool changes do not fail twice | `MappingInv`: where the original mapping is while START_PRINT has zeroed T0, and that what the operator wants is in force or in the backups, and what the body last ran with in the record. Tool changes of the body, of G29, of a G28 by hand and of recovery may fail, jobs may start early |
| `DatumCorrect` | `BodyDatum` | `~EarlyStart`, `PickFails = {}`; G29 and a G28 by hand may fail | `DatumInv`: which head the offset is relative to at each step of START_PRINT and recovery; PAUSE may repeat |
| `FaithfulCorrect` | `RecordFaithful` | `~RepeatPause`, START_PRINT's tool changes do not fail twice | `MappingInv` with `HeadInv`: the timer cannot reset `probe_tool` inside START_PRINT, so the record is right even when the body that follows is not |
| `AcceptedCorrect` | `RecoveryAcceptedOnce` | `~EarlyStart` | `RecoveryInv`: from `_WMP_RECOVERY_BEGIN` on the head is the record's |
| `BottomZProofs!TypeCorrect`, `SettledCorrect`, `ReferenceCorrect`, `GuessFree` | `TypeOK`, `EndsSettled`, `ReferenceReal`, `NoGuess` | `~Relabels`, except for `TypeOK` | `Safe`: what a script knows at its step, and that a queued move follows a failed selection only into a shut-down, unhomed or referenced printer |
| `ToolChangeProofs!ReturnCorrect`, `LiftKeptCorrect` | `ReturnsToPart`, `LiftKept` | every fault is on | `WayBack`: a return is pending exactly when a body asked for another head, its position is the one captured, and between lift and descent the nozzle is one lift above where the change began |
| `PickupCorrect` | `PickupIsEmpty` | at most one fault, which the property says | `Pickup`: what each fault so far has to answer for, and that an attempt that thinks the carriage is empty has looked with a good sensor |
| `DropCorrect`, `SelectionCorrect`, `FallCorrect` | `DropsWhatItCarries`, `SelectedIsMounted`, `NothingFalls` | `Ordinary`, which the properties say | `Believes`: after one fault `current_extruder` may have forgotten the mounted head, but names no other one. No single property is inductive: that the belief is right at the docks rests on the correction before, and that on what earlier changes left behind |
| `CheckpointProofs!TypeCorrect`, `SyncCorrect` | `TypeOK`, `PublishedAfterSync` | every fault is on | |
| `MarkerCorrect`, `StartCorrect` | `MarkerTrusted`, `StartTrusted` | `Faults = {}` | `Safe`: what the file can hold at each step of a save, because the lock keeps other saves out, and what each step of a load has verified and read while the file may be replaced before any of them |
| `Implements` | `Checkpoint` implements `TrustedRecovery` | `Faults = {}` | each step is a step of the abstract module or a stutter; a load between check and start is the abstract `overtaken`, which the start must admit |
| `RemoteTouchProofs!TypeCorrect`, `FingerCorrect` | `TypeOK`, `FingerOwned` | | `Owned`: the lock is held exactly while a gesture is being sent |
| `GestureCorrect` | `GestureOnce` | `~Races` | `Safe`: what the thread has seen of the screen is still so |
| `ConfigPushProofs!TypeCorrect`, `CompletionCorrect`, `BackupCorrect` | `TypeOK`, `CompleteIsLoaded`, `OverwrittenIsBackedUp` | every fault is on | `Bookkeeping`: how options, plan and remaining files fit together at each step. On it stand `Delivered` (files done are the repository's, on disk and once loaded) and `Secured` (what is about to be written is absent, copied or others' business, and what was written of a file named once is its copy). |
| `CalibrationCorrect` | `CalibrationKept` | no fault `"cut"` | `Calibrated`: what the push has read is what the last SAVE_CONFIG wrote, or `missed` says otherwise; also while SFTP is filling the file |
| `DeployProofs!TypeCorrect`, `PreflightCorrect`, `PrintCorrect`, `NginxCorrect` | `TypeOK`, `PreflightFirst`, `NoPrintDisturbed`, `NginxLoads` | every fault is on | `Checked` (past the preflight, nothing is unchecked or failed), `Watched` (between a look at the print and the next, a print is one that started late) and `Scripted` (which parts of the bridge are there at each line of a script, with a removal whose steps fail unnoticed) |
| `SectionsCorrect` | `SectionsHaveExtras` | every fault is on | `Owned`: a file with a section of the project's own is there only with its extra, up to the material's rewriting and removal (`half`); `Helped`: past its preflight an update has the helper |
| `SuccessCorrect` | `SuccessIsComplete` | no fault `"silent"` | `Planned` (the preflight's verdict is about the files the push will leave), `Position` (which component runs), `Placed` (what each finished component put there is still there) |
| `ReviewKeeps`, `ReviewComplete` | `NothingLost`, `CleanIsComplete` of `BasePlan` | `PrintFails = FALSE` | `ReviewInv`: how candidate, decisions and status come out of the three directories |
| `ScreenStreamProofs!TypeCorrect` | `TypeOK` | | `TypeInv`: a channel never holds more than its buffer, viewers are counted over every connect and every failed write |
| `FrameCorrect` | `LastFrameShown` | `LatePaint = FALSE` | `FrameInv`: the newest update has the newest frame's rows, and a panel one update behind has every row right that is not in it; what a panel will show counts what is held and in the channel |
| `MirrorImplemented` | `ScreenMirror` implements `Mirror` (`ShowsCaptured`) | `LatePaint = FALSE` | `MemoryInv` on top of `FrameInv`: each prefix of what is in the channel and held, painted on the canvas, gives the captured frame with the number of its last chunk, and the numbers do not fall. Appending a chunk, capturing a frame and painting the first chunk keep that (`CarryAppend`, `CarryCapture`, `CarryPaint`) |
| `RowsCorrect`, `UpdateCorrect` | `RunsAreReference`, `UpdateSound` of `RowRuns` | | by induction over the rows of a band, over the bands and over the runs |
| `NeverMerges` | `Runs = Unmerged` | | two runs of a band are at least one row apart after padding, because nearer rows were absorbed. The comment at `wmp_screen.py:288` says that padding can make runs overlap; it cannot, and the pass below it changes nothing |
| `MaterialsSay` | the parser of `wm_material.py` | | induction over the lines: for each slot the last setting under `[slot]` that can be parsed |
| `StatusCorrect` | `StatusOfFile` | `Coarse = FALSE` | `Fresh`: no time lies ahead of the clock, and what was read at the file's own time was read from this file |

The hypotheses are the boundaries of section 4 and no wider ones: where a
property needs only one of several faults to be absent, the theorem assumes just
that one, and with the fault TLC finds the property violated. `OwnAssumption` of
`Deploy` says which files name the project's own extras: in the repository
`printer.cfg` and the material's file, as they do, and on a printer before the
first command only with the extra at hand.

Induction over data is done without the library's induction theorems: a
statement about all numbers that fails has a least number at which it fails
(`Least`), and a recursive function has its defining equation because some
function satisfies it (`ReadingExists`, `FoldExists`).

Only model-checked: the four liveness properties, `HomeEnds`, `FreshAtRest`,
`RestsUnwatched` and `Answered`. Liveness under fairness and ENABLED are beyond
the prover. Every other property of a passing run is stated by a theorem.

## 6. What is not modelled, and the plan

Not modelled for a reason that stays: instruction patching (Wi-Fi fix,
head-config guard, hook installation), numerical tools, clients that send one
request, codecs, static files, heating and geometry.

Still to do, in this order:

1. Composition: one module in which `PrintRecovery`'s tool changes are those of
   `ToolChange`, by an abstract specification both share (a change ends with the
   head mounted or reports failure), shown as a refinement of `ToolChange`.
2. A gesture as one atomic step, implemented by `RemoteTouch`.
3. The two-second cache of openace-compat, the filament service and the offset
   calibration macros.

Fan-fix is left out: its two entries hold one mutex and decide in one step. What
can go wrong there is the age of the client's copy of the print state, which
only the vendor's client knows; the hazard is listed.

Of the deployment tools, `status`, argument parsing and what a person answers
beyond yes and no are left out; of the preflight, how it identifies the client
binary and its version. `diff` and `pull` change nothing on the printer.

The number of runs stays near a dozen: a new module's properties share one run
where they ask one question, and the violation runs that only reproduce a
finding may be replaced by a note in section 4.
