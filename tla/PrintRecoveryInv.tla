-------------------------- MODULE PrintRecoveryInv --------------------------
(***************************************************************************)
(* The inductive invariants behind the properties of PrintRecovery.  They  *)
(* say, for each point of START_PRINT, of the body and of recovery, what   *)
(* has been established so far; the properties only look at a few of these *)
(* points.                                                                 *)
(***************************************************************************)
EXTENDS PrintRecovery

\* While START_PRINT runs there is no part, no record, and it knows what it
\* rendered; it probes with a head on the carriage.
NoPartWhileStarting ==
  /\ pc \in StartSteps \ {"s_ready"} => job = None
  /\ pc \in StartSteps => run # None /\ file # None /\ ~active
  /\ pc = "s_mesh" => head # None

\* How far the print's mesh has come: probed, a profile, on disk.
MeshSoFar ==
  /\ pc \in {"s_save", "s_flush", "s_unzero", "s_pick", "s_again", "s_commit"}
       => mesh.data # None
  /\ pc \in {"s_flush", "s_unzero", "s_pick", "s_again", "s_commit"}
       => mesh = Profile("wmp_print")
  /\ pc \in {"s_unzero", "s_pick", "s_again", "s_commit"}
       => disk["wmp_print"] = profiles["wmp_print"]

\* Nothing replaces the mesh of a part, in memory or on disk.
PartKeepsMesh ==
  job # None => /\ profiles["wmp_print"] = job.mesh
                /\ disk["wmp_print"] = job.mesh

PartHasRecord ==
  /\ (context = None) <=> (job = None)
  /\ job # None => context.file = job.file

\* The printer prints or is paused only with a part whose file is selected.
BodyHasPart ==
  pc \in {"s_ready", "body", "resume_m24"} =>
    /\ job # None /\ file = job.file /\ ~active
    /\ mesh = [name |-> "wmp_print", data |-> job.mesh]

RecoveryHasRecord ==
  /\ pc \in RecoverySteps \ {"r_arm", "r_begin"} => active /\ context # None
  /\ pc \in {"r_file", "r_m24"} => mesh = Profile("wmp_print")
  /\ pc \in RecoverySteps => record # None

StateOfStep ==
  /\ pc \in StartSteps => state = "printing"
  /\ pc \in RecoverySteps => state = "standby"
  /\ pc = "resume_m24" => state = "paused"
  /\ pc = "body" => state \in {"printing", "paused"}
  /\ pc \in {"idle", "g29"} => state \in {"standby", "error"}

RecordInv ==
  /\ TypeOK
  /\ NoPartWhileStarting /\ MeshSoFar /\ PartKeepsMesh /\ PartHasRecord
  /\ BodyHasPart /\ RecoveryHasRecord /\ StateOfStep

-----------------------------------------------------------------------------
(* The mapping, as long as PAUSE is not repeated and START_PRINT's own tool *)
(* changes do not fail twice.                                               *)

\* Where the mapping START_PRINT found is.
StartKnowsMapping ==
  /\ pc \in {"s_zero", "s_pick", "s_again", "s_commit"} => mapping = run.mapping
  /\ pc \in {"s_aim", "s_home", "s_mesh", "s_save", "s_flush", "s_unzero"}
       => mapping = [run.mapping EXCEPT ![0] = 0]
  /\ pc \in StartSteps => run.t0 = run.mapping[0]
  /\ ~pausing

\* The operator's mapping is in force or in the backups; the one the body last
\* ran with is in the record.
BodyKeepsMapping ==
  /\ pc \in {"s_ready", "resume_m24"} \/ Printing => mapping = job.want
  /\ pc = "resume_m24" \/ Paused => backup = job.want
  /\ job # None => context.mapping = job.mapping

MappingInv == RecordInv /\ StartKnowsMapping /\ BodyKeepsMapping

-----------------------------------------------------------------------------
(* The reference head, as long as the tool changes before a probe do not   *)
(* fail twice.  The start-up timer cannot reset it inside START_PRINT.     *)

StartKnowsHead ==
  /\ pc = "s_mesh" => head = probe
  /\ pc \in StartSteps => run.adaptive \/ run.probe = 0
  /\ pc \in StartSteps \ {"s_zero", "s_aim"} => probe = run.probe
  /\ pc \in StartSteps \ {"s_zero", "s_aim", "s_home", "s_mesh"} /\ run.adaptive
       => mesh.data.head = probe

RecordKnowsHead ==
  job # None => context.tool = job.tool /\ context.offsets = job.offsets

HeadInv == RecordInv /\ StartKnowsHead /\ RecordKnowsHead

-----------------------------------------------------------------------------
(* Recovery, as long as nothing starts before the start-up timer ran.      *)

TimerDone ==
  pc \in StartSteps \cup RecoverySteps \cup {"body", "resume_m24"}
    => timer = "done"

RecoveryKeepsHead ==
  pc \in RecoverySteps \ {"r_arm", "r_begin"} =>
    probe = context.tool /\ context.offsets = offsets

RecoveryInv == RecordInv /\ TimerDone /\ RecoveryKeepsHead

-----------------------------------------------------------------------------
(* The datum of the body, when no tool change outside it fails twice.      *)

BodyKeepsDatum ==
  /\ pc \in {"s_again", "s_commit", "r_mesh", "r_file", "r_m24"}
       => applied = probe
  /\ pc \in {"s_ready", "body", "resume_m24"} =>
       probe = job.tool /\ applied = job.tool /\ offsets = job.offsets

DatumInv == HeadInv /\ RecoveryInv /\ BodyKeepsDatum

=============================================================================
