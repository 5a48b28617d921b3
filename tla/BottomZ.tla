------------------------------ MODULE BottomZ ------------------------------
(***************************************************************************)
(* klipper_extras/wmp_recovery.py: whether Z is physically referenced, and *)
(* the bottom home that every head selection, z_rise and recovery home     *)
(* runs first when it is not.  klipper_extras/wmp_z_diagnostics.py runs    *)
(* the same home as a test of an idle printer; its errors stop nothing.    *)
(*                                                                         *)
(* Klipper runs one script at a time, but cmd_home waits for moves, and in *)
(* a wait the printer can shut down.  After a shutdown every command fails *)
(* until the restart.  The touchscreen sends the move that follows a       *)
(* selection as a request of its own, whether the selection failed or not. *)
(***************************************************************************)
CONSTANT Relabels   \* SET_KINEMATIC_POSITION is used on a referenced Z

ASSUME BottomZAssumption == Relabels \in BOOLEAN

VARIABLES
  valid,    \* the extra's mark
  active,   \* cmd_home is running
  homed,    \* 'z' in Klipper's homed_axes
  real,     \* the Z coordinate is where the bed is
  down,     \* Klipper is shut down
  job,      \* print_stats and START_PRINT.print_body_ready
  who, pc,  \* the script that holds the gcode lock, and its next step
  queued,   \* the move the touchscreen sends after its selection
  phase,    \* of the diagnostic test
  guessed   \* history: a head moved sideways without a Z reference

extra   == <<valid, active>>
machine == <<homed, real>>
script  == <<who, pc>>
vars == <<extra, machine, down, job, script, queued, phase, guessed>>

TypeOK ==
  /\ valid \in BOOLEAN /\ active \in BOOLEAN
  /\ homed \in BOOLEAN /\ real \in BOOLEAN /\ down \in BOOLEAN
  /\ job \in {"none", "starting", "body", "paused"}
  /\ who \in {"none", "select", "home", "g28", "diag"}
  /\ pc \in {"idle", "call", "settle", "begin", "seek", "wait", "travel"}
  /\ queued \in {"no", "after", "now"} /\ guessed \in BOOLEAN
  /\ phase \in {"idle", "homing", "complete", "failed"}
  /\ (who = "none") = (pc = "idle") /\ (who = "g28" => pc \in {"begin", "seek"})
  /\ (who = "diag") = (phase = "homing") /\ (who = "diag" => pc \in {"settle", "begin", "seek", "wait"})
  /\ active = (who \notin {"g28", "diag"} /\ pc \in {"settle", "begin", "seek", "wait"})

Init ==
  /\ valid = FALSE /\ active = FALSE /\ homed = FALSE /\ real = FALSE
  /\ down = FALSE /\ job = "none" /\ who = "none" /\ pc = "idle"
  /\ queued = "no" /\ phase = "idle" /\ guessed = FALSE

Referenced == valid /\ homed       \* get_status: z_reference_valid
LockFree   == pc = "idle" /\ ~down
Done == who' = "none" /\ pc' = "idle" /\ queued' = IF queued = "after" THEN "now" ELSE queued

---------------------------------------------------------------------------
(* Callers *)

\* A bug: the macro trusts homed_axes.
SelectHomed(q) ==
  /\ LockFree /\ queued = "no" /\ queued' = q
  /\ who' = "select" /\ pc' = IF homed THEN "travel" ELSE "call"
  /\ UNCHANGED <<extra, machine, down, job, phase, guessed>>

\* T, z_rise and the recovery G28: the mark is read when the macro is
\* rendered.  The touchscreen's selection has a move queued behind it.
Select(q) ==
  /\ LockFree /\ queued = "no" /\ queued' = q
  /\ who' = "select" /\ pc' = IF Referenced THEN "travel" ELSE "call"
  /\ UNCHANGED <<extra, machine, down, job, phase, guessed>>
HomeBottom ==
  /\ LockFree /\ who' = "home" /\ pc' = "call"
  /\ UNCHANGED <<extra, machine, down, job, phase, queued, guessed>>
\* G28 Z of the ordinary homing override.
HomeNative ==
  /\ LockFree /\ who' = "g28" /\ pc' = "begin"
  /\ UNCHANGED <<extra, machine, down, job, phase, queued, guessed>>

\* The macro goes on to X and Y, unless Klipper has shut down.
Travel ==
  /\ pc = "travel" /\ Done
  /\ guessed' = (guessed \/ (~down /\ ~real))
  /\ UNCHANGED <<extra, machine, down, job, phase>>
\* The touchscreen's next request; Klipper refuses an unhomed axis.
QueuedMove ==
  /\ pc = "idle" /\ queued = "now" /\ queued' = "no"
  /\ guessed' = (guessed \/ (~down /\ homed /\ ~real))
  /\ UNCHANGED <<extra, machine, down, job, phase, script>>

---------------------------------------------------------------------------
(* cmd_home *)

\* A bug: the error is left to the caller.
RaisesOnly ==
  /\ valid' = FALSE /\ active' = FALSE /\ Done /\ UNCHANGED <<down, phase>>
\* A bug: no finally clause.
RaisesActive ==
  /\ valid' = FALSE /\ down' = TRUE /\ Done /\ UNCHANGED <<active, phase>>
\* The except and finally clauses: any error shuts Klipper down.
Raises ==
  /\ valid' = FALSE /\ active' = FALSE /\ down' = TRUE /\ Done /\ UNCHANGED phase
\* The diagnostic test raises its error and no more.
TestFails == phase' = "failed" /\ Done /\ UNCHANGED <<active, down>>

\* print_stats says printing, and the body is ready.  pause_resume's is_paused
\* stays false: PAUSE stops the file with M25 and never calls BASE_PAUSE.
Blocked == active \/ job = "body"
Accepted ==
  /\ pc = "call" /\ ~down /\ ~Blocked
  /\ active' = TRUE /\ valid' = FALSE /\ pc' = "settle"
  /\ UNCHANGED <<machine, down, job, phase, who, queued, guessed>>
\* A print body, an unsupported configuration or an active pulse pin.
Rejected ==
  /\ pc = "call" /\ Raises
  /\ UNCHANGED <<machine, job, guessed>>
\* wait_moves, BED_MESH_CLEAR, STEPPER_DIAG_ENABLE.
Settled ==
  /\ pc = "settle" /\ ~down /\ pc' = "begin"
  /\ UNCHANGED <<extra, machine, down, job, phase, who, queued, guessed>>
SettleFails ==
  /\ pc = "settle"
  /\ IF who = "diag" THEN TestFails /\ UNCHANGED valid ELSE Raises
  /\ UNCHANGED <<machine, job, guessed>>

\* A bug: an old mark survives until the new one.
HomeBeginKeeps ==
  /\ pc = "begin" /\ ~down /\ pc' = "seek"
  /\ homed' = TRUE /\ real' = FALSE
  /\ UNCHANGED <<extra, down, job, phase, who, queued, guessed>>
\* homing:home_rails_begin with the Z rail: Klipper assumes a position.
HomeBegin ==
  /\ pc = "begin" /\ ~down /\ pc' = "seek"
  /\ valid' = FALSE /\ homed' = TRUE /\ real' = FALSE
  /\ UNCHANGED <<active, down, job, phase, who, queued, guessed>>
\* homing:home_rails_end: the endstop was hit.
HomeEnd ==
  /\ pc = "seek" /\ ~down /\ valid' = TRUE /\ real' = TRUE
  /\ IF who = "g28" THEN Done ELSE pc' = "wait" /\ UNCHANGED <<who, queued>>
  /\ UNCHANGED <<active, homed, down, job, phase, guessed>>
\* No endstop, or a shutdown: Klipper turns the motors off and raises.
HomeFails ==
  /\ pc \in {"begin", "seek"}
  /\ homed' = FALSE /\ real' = FALSE
  /\ \/ who = "g28" /\ valid' = FALSE /\ Done /\ UNCHANGED <<active, down, phase>>
     \/ who = "diag" /\ valid' = FALSE /\ TestFails
     \/ who \notin {"g28", "diag"} /\ Raises
  /\ UNCHANGED <<job, guessed>>

\* A bug: the mark is set although a shutdown came during the wait.
FinishedLate ==
  /\ pc = "wait" /\ who # "diag" /\ valid' = TRUE /\ active' = FALSE
  /\ IF who = "select" THEN pc' = "travel" /\ UNCHANGED <<who, queued>> ELSE Done
  /\ UNCHANGED <<machine, down, job, phase, guessed>>
\* The last wait_moves and STEPPER_DIAG_DISABLE, which a shutdown fails.
Finished ==
  /\ pc = "wait" /\ who # "diag" /\ ~down /\ valid' = TRUE /\ active' = FALSE
  /\ IF who = "select" THEN pc' = "travel" /\ UNCHANGED <<who, queued>> ELSE Done
  /\ UNCHANGED <<machine, down, job, phase, guessed>>
FinishFails ==
  /\ pc = "wait"
  /\ IF who = "diag" THEN TestFails /\ UNCHANGED valid ELSE Raises
  /\ UNCHANGED <<machine, job, guessed>>

---------------------------------------------------------------------------
(* WMP_Z_MAX_TEST: idle printer, no paused print, supported configuration; *)
(* then settle, begin, seek and wait as above, with the native G28.        *)

Test ==
  /\ LockFree /\ job = "none"
  /\ who' = "diag" /\ pc' = "settle" /\ phase' = "homing"
  /\ UNCHANGED <<extra, machine, down, job, queued, guessed>>
TestEnds ==
  /\ pc = "wait" /\ who = "diag" /\ ~down
  /\ phase' = "complete" /\ Done
  /\ UNCHANGED <<extra, machine, down, job, guessed>>

---------------------------------------------------------------------------
(* The rest of the printer *)

\* A bug: only M84 is noticed.
MotorIgnored ==
  /\ LockFree /\ queued = "no" /\ real' = FALSE
  /\ \/ homed' = FALSE /\ valid' = FALSE
     \/ UNCHANGED <<homed, valid>>
  /\ UNCHANGED <<active, down, job, phase, script, queued, guessed>>
\* M84 forgets the axes; SET_STEPPER_ENABLE of the one motor does not.
MotorOff ==
  /\ LockFree /\ queued = "no"
  /\ real' = FALSE /\ homed' \in {homed, FALSE} /\ valid' = FALSE
  /\ UNCHANGED <<active, down, job, phase, script, queued, guessed>>

\* SET_KINEMATIC_POSITION, as in WIPE_NOZZLE_SIMPLE: homed without homing.
Label ==
  /\ LockFree /\ queued = "no" /\ (Relabels \/ ~Referenced)
  /\ homed' = TRUE /\ real' = FALSE
  /\ UNCHANGED <<extra, down, job, phase, script, queued, guessed>>
Shutdown ==
  /\ ~down /\ down' = TRUE /\ valid' = FALSE /\ real' = FALSE
  /\ UNCHANGED <<active, homed, job, phase, script, queued, guessed>>
Restart ==
  /\ down /\ pc = "idle" /\ down' = FALSE /\ homed' = FALSE /\ job' = "none"
  /\ valid' = FALSE /\ active' = FALSE /\ queued' = "no" /\ phase' = "idle"
  /\ UNCHANGED <<real, script, guessed>>

JobStep ==
  /\ LockFree
  /\ \/ job = "none" /\ job' = "starting"
     \/ job \in {"starting", "paused"} /\ job' = "body"
     \/ job = "body" /\ job' = "paused"
     \/ job # "none" /\ job' = "none"
  /\ UNCHANGED <<extra, machine, down, script, queued, phase, guessed>>

HomeStep ==
  \/ Accepted \/ Rejected \/ Settled \/ SettleFails \/ HomeBegin \/ HomeEnd
  \/ HomeFails \/ Finished \/ FinishFails \/ TestEnds \/ Travel
Next ==
  \/ HomeStep \/ HomeBottom \/ HomeNative \/ Test \/ QueuedMove
  \/ \E q \in {"no", "after"} : Select(q)
  \/ MotorOff \/ Label \/ Shutdown \/ Restart \/ JobStep

Spec == Init /\ [][Next]_vars
\* A script that runs goes on: its waits end.
FairSpec == Spec /\ WF_vars(HomeStep)

---------------------------------------------------------------------------
(* Properties *)

\* The status other macros read says Z is referenced only while it is.
ReferenceReal == Referenced => real

\* No head goes sideways on a guessed Z: not after a failed bottom home, not
\* by the queued request behind it, not on a synthetic homed flag.
NoGuess == ~guessed

\* A bottom home that ends has either referenced Z or shut Klipper down.
EndsSettled == [][active /\ ~active' => (Referenced' /\ real') \/ down']_vars

\* It does end.
HomeEnds == active ~> ~active

---------------------------------------------------------------------------
(* What the text says and the code does not keep: TLC finds a behaviour    *)
(* against it.                                                             *)

\* "Bottom homing is blocked during a paused print" (docs/print-mesh-recovery.md).
BlockedWhilePaused == [][~active /\ active' => job # "paused"]_vars
=============================================================================
