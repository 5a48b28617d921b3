------------------------ MODULE PrintRecoveryProofs ------------------------
(***************************************************************************)
(* Proofs about PrintRecovery for any set of heads, files, calibrations    *)
(* and mesh shapes.  RecordInv carries what must hold under every fault;   *)
(* MappingInv, HeadInv, RecoveryInv and DatumInv add what needs some fault *)
(* to be absent, each under the weakest such hypothesis.  Each is proved   *)
(* inductive with one step per action; the properties follow from them.    *)
(***************************************************************************)
EXTENDS PrintRecoveryInv, TLAPS

\* The mapping PRINT_END and the touchscreen write is a mapping.
LEMMA IdentityType == Identity \in Mapping
BY DEF Identity, Mapping

\* Every step keeps the types: what START_PRINT and recovery dereference is there.
LEMMA TypeStep == RecordInv /\ [Next]_vars => TypeOK'
<1> SUFFICES ASSUME TypeOK, NoPartWhileStarting, MeshSoFar, PartHasRecord,
                      BodyHasPart, RecoveryHasRecord, [Next]_vars
               PROVE TypeOK'
  BY DEF RecordInv
<1> USE RecoveryAssumption, IdentityType DEF TypeOK, Mapping, Mesh, Context,
    Job, Run, Profiles, MacroSteps, StartSteps, RecoverySteps
<1>1. ASSUME NEW f \in Files, NEW t \in Heads, NEW p \in BOOLEAN, StartPrint(f,
    t, p) PROVE TypeOK'
  BY <1>1 DEF StartPrint, Idle, ProbeTool, NoMesh, start, machine, tools
<1>2. CASE StartZeroT0
  BY <1>2 DEF StartZeroT0, meshes, flags, sdcard, start, machine
<1>3. CASE StartAim
  BY <1>3 DEF NoPartWhileStarting, StartAim, tools, meshes, flags, sdcard,
      start, machine
<1>4. CASE StartHome
  BY <1>4 DEF NoPartWhileStarting, StartHome, Select, NoMesh, start, machine,
      tools, flags,
      sdcard
<1>5. CASE StartHomeBlocked
  BY <1>5 DEF StartHomeBlocked, Restart, RestartFrom, NoMesh, start,
      machine, tools
<1>6. CASE StartHomePickFails
  <2>1. pausing' \in BOOLEAN
    BY <1>6 DEF StartHomePickFails
  <2> QED BY <1>6, <2>1 DEF NoPartWhileStarting, StartHomePickFails,
      SelectFails, SnapshotMapping, Identity, NoMesh, start, machine, flags
<1>7. ASSUME NEW s \in Shapes, NEW native \in BOOLEAN, StartProbe(s, native)
      PROVE TypeOK'
  BY <1>7 DEF NoPartWhileStarting, StartProbe, MayCalibrate, tools, flags,
      sdcard, start, machine
<1>8. CASE StartLoadDefault
  BY <1>8 DEF StartLoadDefault, LoadedBy, Profile, tools, flags, sdcard,
      start, machine
<1>9. CASE StartSaveMesh
  BY <1>9 DEF StartSaveMesh, tools, flags, sdcard, start, machine
<1>10. CASE StartFlush
  BY <1>10 DEF StartFlush, tools, flags, sdcard, start, machine
<1>11. CASE StartRestoreT0
  BY <1>11 DEF NoPartWhileStarting, StartRestoreT0, meshes, flags, sdcard,
      start, machine
<1>12. CASE StartPick
  BY <1>12 DEF NoPartWhileStarting, StartPick, Select, tools, meshes, flags,
      sdcard, start
<1>13. CASE StartPickFailsTwice
  BY <1>13 DEF NoPartWhileStarting, StartPickFailsTwice, SelectFails,
      SnapshotMapping, Identity,
      meshes, flags, sdcard, start
<1>14. CASE StartCommit
  BY <1>14 DEF MeshSoFar, NoPartWhileStarting, StartCommit, tools, meshes,
      flags, sdcard, start, machine
<1>15. CASE StartReady
  <2>1. ready' \in BOOLEAN /\ adaptive' \in BOOLEAN /\ pausing' \in BOOLEAN
    BY <1>15 DEF StartReady
  <2> QED BY <1>15, <2>1 DEF StartReady, tools, meshes, machine
<1>16. CASE StartFails
  <2>1. pausing' \in BOOLEAN
    BY <1>16 DEF StartFails
  <2> QED BY <1>16, <2>1 DEF StartFails, tools, meshes, flags, machine
<1>17. CASE Checkpoint
  BY <1>17 DEF Checkpoint, Printing, tools, meshes, flags, sdcard, start,
      machine
<1>18. CASE Pause
  BY <1>18 DEF Pause, SnapshotMapping, Identity, Printing, Paused, meshes,
      flags, start, machine
<1>19. CASE Resume
  BY <1>19 DEF Resume, Paused, meshes, flags, sdcard, start, machine
<1>20. CASE ResumeFails
  BY <1>20 DEF ResumeFails, tools, meshes, flags, sdcard, start, machine
<1>21. CASE M24
  <2>1. active' \in BOOLEAN
    BY <1>21 DEF M24
  <2> QED BY <1>21, <2>1 DEF PartHasRecord, BodyHasPart, RecoveryHasRecord,
      M24, RecoveryMatches, tools, meshes, start, machine
<1>22. CASE M24Blocked
  BY <1>22 DEF M24Blocked, Restart, RestartFrom, NoMesh, start, machine,
      tools, RecoveryMatches
<1>23. CASE ChangeToolFails
  BY <1>23 DEF ChangeToolFails, SelectFails, SnapshotMapping, Identity,
      Printing, meshes, flags, start
<1>24. ASSUME NEW t \in Heads, ChangeTool(t) PROVE TypeOK'
  BY <1>24 DEF ChangeTool, Select, Printing, tools, meshes, flags, sdcard,
      start
<1>25. ASSUME NEW m \in Mapping, RemapWhilePaused(m) PROVE TypeOK'
  BY <1>25 DEF BodyHasPart, RemapWhilePaused, Paused, meshes, flags, sdcard,
      start,
      machine
<1>26. CASE EndPrint
  <2>1. active' \in BOOLEAN
    BY <1>26 DEF EndPrint
  <2> QED BY <1>26, <2>1 DEF EndPrint, tools, meshes, sdcard, start, machine
<1>27. CASE EndReset
  <2>1. ready' \in BOOLEAN
    BY <1>27 DEF EndReset
  <2> QED BY <1>27, <2>1 DEF EndReset, NoMesh, start, machine, Identity
<1>28. ASSUME NEW h \in Heads, RecoverPick(h) PROVE TypeOK'
  BY <1>28 DEF RecoverPick, Select, Identity, meshes, flags, sdcard, start
<1>29. ASSUME NEW h \in Heads, RecoverReselect(h) PROVE TypeOK'
  BY <1>29 DEF RecoverReselect, Select, SelectFails, Identity, meshes,
      flags, sdcard, start
<1>30. CASE RecoverArm
  BY <1>30 DEF RecoverArm, tools, meshes, sdcard, start, machine
<1>31. CASE RecoverBegin
  <2>1. active' \in BOOLEAN /\ ready' \in BOOLEAN
    BY <1>31 DEF RecoverBegin
  <2> QED BY <1>31, <2>1 DEF RecoverBegin, Recoverable, tools, meshes,
      sdcard, start, machine
<1>32. CASE RecoverBlocked
  BY <1>32 DEF RecoverBlocked, Restart, RestartFrom, NoMesh, start, machine,
      tools, Recoverable
<1>33. CASE RecoverHome
  BY <1>33 DEF RecoverHome, Profile, tools, sdcard, start
<1>34. CASE RecoverHomeFails
  BY <1>34 DEF RecoverHomeFails, tools, meshes, flags, sdcard, start,
      machine
<1>35. CASE RecoverMesh
  BY <1>35 DEF RecoverMesh, LoadedBy, Profile, tools, flags, sdcard, start,
      machine
<1>36. CASE RecoverFile
  BY <1>36 DEF RecoverFile, Identity, meshes, start, machine
<1>37. CASE RecoverAbandoned
  BY <1>37 DEF RecoverAbandoned, tools, meshes, flags, sdcard, start,
      machine
<1>38. ASSUME NEW m \in Mapping, AssignSpools(m) PROVE TypeOK'
  BY <1>38 DEF AssignSpools, Idle, meshes, flags, sdcard, start, machine
<1>39. ASSUME NEW c \in Cals, Recalibrate(c) PROVE TypeOK'
  BY <1>39 DEF Recalibrate, Idle, tools, meshes, flags, sdcard, start,
      machine
<1>40. ASSUME NEW on \in BOOLEAN, ChooseMesh(on) PROVE TypeOK'
  BY <1>40 DEF ChooseMesh, Idle, tools, meshes, sdcard, start, machine
<1>41. CASE SaveConfig
  BY <1>41 DEF SaveConfig, RestartFrom, NoMesh, start, machine, Idle, tools
<1>42. CASE G29
  <2>1. active' \in BOOLEAN
    BY <1>42 DEF G29
  <2> QED BY <1>42, <2>1 DEF G29, Idle, tools, meshes, sdcard, start,
      machine
<1>43. CASE G29Fails
  BY <1>43 DEF G29Fails, tools, meshes, flags, sdcard, start, machine
<1>44. ASSUME NEW s \in Shapes, G29Probe(s) PROVE TypeOK'
  BY <1>44 DEF G29Probe, Select, SelectFails, MayCalibrate, tools, flags,
      sdcard, start
<1>45. CASE PowerCut
  BY <1>45 DEF PowerCut, Restart, RestartFrom, NoMesh, start, machine, tools
<1>46. CASE TimerRenders
  BY <1>46 DEF TimerRenders, tools, meshes, flags, sdcard, start, machine
<1>47. CASE TimerWrites
  BY <1>47 DEF TimerWrites, tools, meshes, flags, sdcard, start, machine
<1>48. CASE UNCHANGED vars
  BY <1>48 DEF vars, tools, meshes, flags, sdcard, start, machine
<1>49. CASE BodyFails
  BY <1>49 DEF BodyFails, Printing, tools, meshes, flags, start, machine
<1>50. CASE HandHome
  BY <1>50 DEF HandHome, Idle, Select, SelectFails, NoMesh, tools, meshes, flags, sdcard, start, machine
<1>51. CASE HandRecover
  <2>1. active' \in BOOLEAN /\ ready' \in BOOLEAN
    BY <1>51 DEF HandRecover
  <2>2. context \in Context /\ probe' \in Heads
    BY <1>51 DEF HandRecover, Recoverable, Context
  <2>3. mesh' \in [name : Profiles \cup {"unloaded", "adaptive"},
                   data : Mesh \cup {None}]
    BY <1>51 DEF HandRecover, Profile, Profiles
  <2>4. applied' \in Heads /\ zraise' \in {0, 1}
    BY <1>51, <2>2 DEF HandRecover
  <2> QED
    BY <1>51, <2>1, <2>2, <2>3, <2>4
    DEF HandRecover, tools, meshes, sdcard, start, machine
<1>52. CASE HandRecoverBlocked
  BY <1>52 DEF HandRecoverBlocked, Restart, RestartFrom, NoMesh, tools, meshes, flags, sdcard, start, machine
<1>53. ASSUME NEW name \in HandNames, NEW s \in Shapes, HandCalibrate(name, s)
       PROVE  TypeOK'
  <2>1. head \in Heads /\ name \in Profiles
    BY <1>53 DEF HandCalibrate, RecoveryAssumption
  <2>2. [head |-> head, shape |-> s] \in Mesh
    BY <2>1 DEF Mesh
  <2>3. profiles' \in [Profiles -> Mesh \cup {None}]
    BY <1>53, <2>1, <2>2 DEF HandCalibrate
  <2>4. mesh' \in [name : Profiles \cup {"unloaded", "adaptive"},
                   data : Mesh \cup {None}]
    BY <1>53, <2>1, <2>2 DEF HandCalibrate
  <2> QED
    BY <1>53, <2>3, <2>4
    DEF HandCalibrate, tools, flags, sdcard, start, machine
<1>54. CASE HandSave
  BY <1>54 DEF HandSave, Idle, tools, meshes, flags, sdcard, start, machine
<1>55. CASE HandLoad
  BY <1>55 DEF HandLoad, Idle, LoadedBy, Profile, tools, meshes, flags, sdcard, start, machine
<1> HIDE RecoveryAssumption DEF TypeOK
<1> QED
  BY <1>1, <1>2, <1>3, <1>4, <1>5, <1>6, <1>7, <1>8, <1>9, <1>10, <1>11,
      <1>12, <1>13, <1>14, <1>15, <1>16, <1>17, <1>18, <1>19, <1>20, <1>21,
      <1>22, <1>23, <1>24, <1>25, <1>26, <1>27, <1>28, <1>29, <1>30, <1>31,
      <1>32, <1>33, <1>34, <1>35, <1>36, <1>37, <1>38, <1>39, <1>40, <1>41,
      <1>42, <1>43, <1>44, <1>45, <1>46, <1>47, <1>48, <1>49,
      <1>50, <1>51, <1>52, <1>53, <1>54, <1>55
  DEF Next, StartNext, BodyNext, RecoverNext, OperatorNext

\* Every step, faulty or not, keeps part, record and mesh on disk together.
LEMMA RecordStep ==
  ASSUME "wmp_print" \notin HandNames, RecordInv, [Next]_vars PROVE RecordInv'
<1>0. TypeOK'
  BY TypeStep
<1> USE RecoveryAssumption, <1>0
    DEF RecordInv, NoPartWhileStarting, MeshSoFar, PartKeepsMesh,
        PartHasRecord, BodyHasPart, RecoveryHasRecord, StateOfStep, Profile,
        StartSteps, RecoverySteps, MacroSteps, Context, Job, Mesh,
            Profiles, TypeOK,
        tools, meshes, flags, sdcard, start, machine, NoMesh
<1>1. ASSUME NEW f \in Files, NEW t \in Heads, NEW p \in BOOLEAN,
      StartPrint(f, t, p) PROVE RecordInv'
  <2>1. run' # None
    BY <1>1, IdentityType DEF StartPrint, ProbeTool, Run, Mapping
  <2> QED BY <1>1, <2>1 DEF StartPrint, Idle
<1>2. CASE StartZeroT0
  BY <1>2 DEF StartZeroT0
<1>3. CASE StartAim
  BY <1>3 DEF StartAim
<1>4. CASE StartHome
  BY <1>4 DEF StartHome, Select
<1>5. CASE StartHomeBlocked
  BY <1>5 DEF StartHomeBlocked, Restart, RestartFrom, NoMesh
<1>6. CASE StartHomePickFails
  <2>1. CASE head' = None
    BY <1>6, <2>1 DEF StartHomePickFails
  <2>2. CASE head' # None
    BY <1>6, <2>2 DEF StartHomePickFails
  <2> QED BY <2>1, <2>2
<1>7. ASSUME NEW s \in Shapes, NEW native \in BOOLEAN, StartProbe(s, native)
      PROVE RecordInv'
  BY <1>7 DEF StartProbe, MayCalibrate
<1>8. CASE StartLoadDefault
  BY <1>8 DEF StartLoadDefault, LoadedBy, Profile
<1>9. CASE StartSaveMesh
  BY <1>9 DEF StartSaveMesh
<1>10. CASE StartFlush
  BY <1>10 DEF StartFlush
<1>11. CASE StartRestoreT0
  BY <1>11 DEF StartRestoreT0
<1>12. CASE StartPick
  BY <1>12 DEF StartPick, Select
<1>13. CASE StartPickFailsTwice
  BY <1>13 DEF StartPickFailsTwice, SelectFails, SnapshotMapping, Identity
<1>14. CASE StartCommit
  <2>1. context' # None /\ context' = [tool |-> probe, offsets |-> offsets,
                                      mapping |-> mapping, file |-> file]
    BY <1>14 DEF StartCommit
  <2>2. job' # None /\ job'.file = file /\ job'.mesh = mesh.data
    BY <1>14 DEF StartCommit, Run
  <2> QED BY <1>14, <2>1, <2>2 DEF StartCommit
<1>15. CASE StartReady
  BY <1>15 DEF StartReady
<1>16. CASE StartFails
  BY <1>16 DEF StartFails
<1>17. CASE Checkpoint
  BY <1>17 DEF Checkpoint, Printing
<1>18. CASE Pause
  BY <1>18 DEF Pause, SnapshotMapping, Identity, Printing, Paused
<1>19. CASE Resume
  BY <1>19 DEF Resume, Paused
<1>20. CASE ResumeFails
  BY <1>20 DEF ResumeFails
<1>21. CASE M24
  BY <1>21 DEF M24, RecoveryMatches
<1>22. CASE M24Blocked
  BY <1>22 DEF M24Blocked, Restart, RestartFrom, NoMesh, RecoveryMatches
<1>23. CASE ChangeToolFails
  BY <1>23 DEF ChangeToolFails, SelectFails, SnapshotMapping, Identity,
      Printing
<1>24. ASSUME NEW t \in Heads, ChangeTool(t) PROVE RecordInv'
  BY <1>24 DEF ChangeTool, Select, Printing
<1>25. ASSUME NEW m \in Mapping, RemapWhilePaused(m) PROVE RecordInv'
  BY <1>25 DEF RemapWhilePaused, Paused
<1>26. CASE EndPrint
  BY <1>26 DEF EndPrint
<1>27. CASE EndReset
  BY <1>27 DEF EndReset, NoMesh, Identity
<1>28. ASSUME NEW h \in Heads, RecoverPick(h) PROVE RecordInv'
  BY <1>28 DEF RecoverPick, Select, Identity
<1>29. ASSUME NEW h \in Heads, RecoverReselect(h) PROVE RecordInv'
  BY <1>29 DEF RecoverReselect, Select, SelectFails, Identity
<1>30. CASE RecoverArm
  BY <1>30 DEF RecoverArm
<1>31. CASE RecoverBegin
  BY <1>31 DEF RecoverBegin, Recoverable
<1>32. CASE RecoverBlocked
  BY <1>32 DEF RecoverBlocked, Restart, RestartFrom, NoMesh, Recoverable
<1>33. CASE RecoverHome
  BY <1>33 DEF RecoverHome, Profile
<1>34. CASE RecoverHomeFails
  BY <1>34 DEF RecoverHomeFails
<1>35. CASE RecoverMesh
  <2>1. active /\ context # None /\ job # None
    BY <1>35 DEF RecoverMesh
  <2>2. mesh' = Profile("wmp_print")
    <3>1. profiles["wmp_print"] # None
      BY <2>1
    <3>2. LoadedBy("default") = "wmp_print"
      BY <2>1 DEF LoadedBy
    <3> QED BY <1>35, <3>1, <3>2 DEF RecoverMesh
  <2> QED BY <1>35, <2>1, <2>2 DEF RecoverMesh
<1>36. CASE RecoverFile
  BY <1>36 DEF RecoverFile, Identity
<1>37. CASE RecoverAbandoned
  BY <1>37 DEF RecoverAbandoned
<1>38. ASSUME NEW m \in Mapping, AssignSpools(m) PROVE RecordInv'
  BY <1>38 DEF AssignSpools, Idle
<1>39. ASSUME NEW c \in Cals, Recalibrate(c) PROVE RecordInv'
  BY <1>39 DEF Recalibrate, Idle
<1>40. ASSUME NEW on \in BOOLEAN, ChooseMesh(on) PROVE RecordInv'
  BY <1>40 DEF ChooseMesh, Idle
<1>41. CASE SaveConfig
  BY <1>41 DEF SaveConfig, RestartFrom, NoMesh, Idle
<1>42. CASE G29
  BY <1>42 DEF G29, Idle
<1>43. CASE G29Fails
  BY <1>43 DEF G29Fails
<1>44. ASSUME NEW s \in Shapes, G29Probe(s) PROVE RecordInv'
  BY <1>44 DEF G29Probe, Select, SelectFails, MayCalibrate
<1>45. CASE PowerCut
  BY <1>45 DEF PowerCut, Restart, RestartFrom, NoMesh
<1>46. CASE TimerRenders
  BY <1>46 DEF TimerRenders
<1>47. CASE TimerWrites
  BY <1>47 DEF TimerWrites
<1>48. CASE UNCHANGED vars
  BY <1>48 DEF vars
<1>49. CASE BodyFails
  BY <1>49 DEF BodyFails, Printing
<1>50. CASE HandHome
  BY <1>50 DEF HandHome, Idle, Select, SelectFails, NoMesh
<1>51. CASE HandRecover
  BY <1>51 DEF HandRecover, Idle, Recoverable, Profile
<1>52. CASE HandRecoverBlocked
  BY <1>52 DEF HandRecoverBlocked, Restart, RestartFrom, NoMesh
<1>53. ASSUME NEW name \in HandNames, NEW s \in Shapes, HandCalibrate(name, s)
       PROVE  RecordInv'
  BY <1>53 DEF HandCalibrate, Idle
<1>54. CASE HandSave
  BY <1>54 DEF HandSave, Idle
<1>55. CASE HandLoad
  BY <1>55 DEF HandLoad, Idle, LoadedBy, Profile
<1> HIDE RecoveryAssumption, <1>0 DEF RecordInv
<1> QED BY <1>1, <1>2, <1>3, <1>4, <1>5, <1>6, <1>7, <1>8, <1>9, <1>10,
      <1>11, <1>12, <1>13, <1>14, <1>15, <1>16, <1>17, <1>18, <1>19, <1>20,
      <1>21, <1>22, <1>23, <1>24, <1>25, <1>26, <1>27, <1>28, <1>29, <1>30,
      <1>31, <1>32, <1>33, <1>34, <1>35, <1>36, <1>37, <1>38, <1>39, <1>40,
      <1>41, <1>42, <1>43, <1>44, <1>45, <1>46, <1>47, <1>48, <1>49,
      <1>50, <1>51, <1>52, <1>53, <1>54, <1>55 DEF Next,
      StartNext, BodyNext, RecoverNext, OperatorNext

\* Every step keeps the mapping, in force, in the backups and in the record.
LEMMA MappingStep ==
  ASSUME "wmp_print" \notin HandNames, ~RepeatPause, "start" \notin PickFails,
         MappingInv, [Next]_vars
  PROVE  MappingInv'
<1>0. RecordInv'
  BY RecordStep DEF MappingInv
<1> USE RecoveryAssumption, <1>0
    DEF MappingInv, StartKnowsMapping, BodyKeepsMapping, RecordInv,
        Printing, Paused, NoPartWhileStarting, PartHasRecord, BodyHasPart,
        RecoveryHasRecord, StateOfStep, StartSteps, RecoverySteps,
        MacroSteps, Context, Job, Run, Mapping, TypeOK,
        tools, meshes, flags, sdcard, start, machine
<1>1. ASSUME NEW f \in Files, NEW t \in Heads, NEW p \in BOOLEAN,
      StartPrint(f, t, p) PROVE MappingInv'
  <2>1. run'.mapping = mapping /\ run'.t0 = mapping[0]
    BY <1>1 DEF StartPrint
  <2> QED BY <1>1, <2>1 DEF StartPrint, Idle
<1>2. CASE StartZeroT0
  BY <1>2 DEF StartZeroT0
<1>3. CASE StartAim
  BY <1>3 DEF StartAim
<1>4. CASE StartHome
  BY <1>4 DEF StartHome, Select, NoMesh
<1>5. CASE StartHomeBlocked
  BY <1>5 DEF StartHomeBlocked, Restart, RestartFrom, NoMesh
<1>6. CASE StartHomePickFails
  BY <1>6 DEF StartHomePickFails, SelectFails, SnapshotMapping, Identity,
      NoMesh
<1>7. ASSUME NEW s \in Shapes, NEW native \in BOOLEAN, StartProbe(s, native)
      PROVE MappingInv'
  BY <1>7 DEF StartProbe, MayCalibrate
<1>8. CASE StartLoadDefault
  BY <1>8 DEF StartLoadDefault
<1>9. CASE StartSaveMesh
  BY <1>9 DEF StartSaveMesh
<1>10. CASE StartFlush
  BY <1>10 DEF StartFlush
<1>11. CASE StartRestoreT0
  <2>1. /\ run.mapping \in [Heads -> Heads] /\ run.t0 = run.mapping[0]
        /\ mapping = [run.mapping EXCEPT ![0] = 0]
        /\ mapping' = [mapping EXCEPT ![0] = run.t0]
    BY <1>11 DEF StartRestoreT0
  <2>2. mapping' = [h \in Heads |-> run.mapping[h]]
    BY <2>1
  <2>3. mapping' = run.mapping
    BY <2>1, <2>2
  <2> QED BY <1>11, <2>3 DEF StartRestoreT0
<1>12. CASE StartPick
  BY <1>12 DEF StartPick, Select
<1>13. CASE StartPickFailsTwice
  BY <1>13 DEF StartPickFailsTwice, SelectFails, SnapshotMapping, Identity
<1>14. CASE StartCommit
  BY <1>14 DEF StartCommit
<1>15. CASE StartReady
  BY <1>15 DEF StartReady
<1>16. CASE StartFails
  BY <1>16 DEF StartFails
<1>17. CASE Checkpoint
  BY <1>17 DEF Checkpoint, Printing
<1>18. CASE Pause
  BY <1>18 DEF Pause, SnapshotMapping, Identity, Printing, Paused
<1>19. CASE Resume
  BY <1>19 DEF Resume, Paused
<1>20. CASE ResumeFails
  BY <1>20 DEF ResumeFails
<1>21. CASE M24
  BY <1>21 DEF M24, RecoveryMatches
<1>22. CASE M24Blocked
  BY <1>22 DEF M24Blocked, Restart, RestartFrom, NoMesh, RecoveryMatches
<1>23. CASE ChangeToolFails
  BY <1>23 DEF ChangeToolFails, SelectFails, SnapshotMapping, Identity,
      Printing
<1>24. ASSUME NEW t \in Heads, ChangeTool(t) PROVE MappingInv'
  BY <1>24 DEF ChangeTool, Select, Printing
<1>25. ASSUME NEW m \in Mapping, RemapWhilePaused(m) PROVE MappingInv'
  BY <1>25 DEF RemapWhilePaused, Paused
<1>26. CASE EndPrint
  BY <1>26 DEF EndPrint
<1>27. CASE EndReset
  BY <1>27 DEF EndReset, NoMesh, Identity
<1>28. ASSUME NEW h \in Heads, RecoverPick(h) PROVE MappingInv'
  BY <1>28 DEF RecoverPick, Select, Identity
<1>29. ASSUME NEW h \in Heads, RecoverReselect(h) PROVE MappingInv'
  BY <1>29 DEF RecoverReselect, Select, SelectFails, Identity
<1>30. CASE RecoverArm
  BY <1>30 DEF RecoverArm
<1>31. CASE RecoverBegin
  BY <1>31 DEF RecoverBegin, Recoverable
<1>32. CASE RecoverBlocked
  BY <1>32 DEF RecoverBlocked, Restart, RestartFrom, NoMesh, Recoverable
<1>33. CASE RecoverHome
  BY <1>33 DEF RecoverHome, Profile
<1>34. CASE RecoverHomeFails
  BY <1>34 DEF RecoverHomeFails
<1>35. CASE RecoverMesh
  BY <1>35 DEF RecoverMesh, LoadedBy, Profile
<1>36. CASE RecoverFile
  BY <1>36 DEF RecoverFile, Identity
<1>37. CASE RecoverAbandoned
  BY <1>37 DEF RecoverAbandoned
<1>38. ASSUME NEW m \in Mapping, AssignSpools(m) PROVE MappingInv'
  BY <1>38 DEF AssignSpools, Idle
<1>39. ASSUME NEW c \in Cals, Recalibrate(c) PROVE MappingInv'
  BY <1>39 DEF Recalibrate, Idle
<1>40. ASSUME NEW on \in BOOLEAN, ChooseMesh(on) PROVE MappingInv'
  BY <1>40 DEF ChooseMesh, Idle
<1>41. CASE SaveConfig
  BY <1>41 DEF SaveConfig, RestartFrom, NoMesh, Idle
<1>42. CASE G29
  BY <1>42 DEF G29, Idle
<1>43. CASE G29Fails
  BY <1>43 DEF G29Fails
<1>44. ASSUME NEW s \in Shapes, G29Probe(s) PROVE MappingInv'
  BY <1>44 DEF G29Probe, Select, SelectFails, MayCalibrate
<1>45. CASE PowerCut
  BY <1>45 DEF PowerCut, Restart, RestartFrom, NoMesh
<1>46. CASE TimerRenders
  BY <1>46 DEF TimerRenders
<1>47. CASE TimerWrites
  BY <1>47 DEF TimerWrites
<1>48. CASE UNCHANGED vars
  BY <1>48 DEF vars
<1>49. CASE BodyFails
  BY <1>49 DEF BodyFails, Printing
<1>50. CASE HandHome
  BY <1>50 DEF HandHome, Idle, Select, SelectFails, NoMesh
<1>51. CASE HandRecover
  BY <1>51 DEF HandRecover, Idle, Recoverable, Profile
<1>52. CASE HandRecoverBlocked
  BY <1>52 DEF HandRecoverBlocked, Restart, RestartFrom, NoMesh
<1>53. ASSUME NEW name \in HandNames, NEW s \in Shapes, HandCalibrate(name, s)
       PROVE  MappingInv'
  BY <1>53 DEF HandCalibrate, Idle
<1>54. CASE HandSave
  BY <1>54 DEF HandSave, Idle
<1>55. CASE HandLoad
  BY <1>55 DEF HandLoad, Idle, LoadedBy, Profile
<1> HIDE RecoveryAssumption, <1>0 DEF MappingInv
<1> QED BY <1>1, <1>2, <1>3, <1>4, <1>5, <1>6, <1>7, <1>8, <1>9, <1>10,
      <1>11, <1>12, <1>13, <1>14, <1>15, <1>16, <1>17, <1>18, <1>19, <1>20,
      <1>21, <1>22, <1>23, <1>24, <1>25, <1>26, <1>27, <1>28, <1>29, <1>30,
      <1>31, <1>32, <1>33, <1>34, <1>35, <1>36, <1>37, <1>38, <1>39, <1>40,
      <1>41, <1>42, <1>43, <1>44, <1>45, <1>46, <1>47, <1>48, <1>49,
      <1>50, <1>51, <1>52, <1>53, <1>54, <1>55 DEF Next,
      StartNext, BodyNext, RecoverNext, OperatorNext

\* Every step keeps what START_PRINT and the record know of the reference head.
LEMMA HeadStep ==
  ASSUME "wmp_print" \notin HandNames, "start" \notin PickFails, HeadInv, [Next]_vars
  PROVE  HeadInv'
<1>0. RecordInv'
  BY RecordStep DEF HeadInv
<1> USE RecoveryAssumption, <1>0
    DEF HeadInv, StartKnowsHead, RecordKnowsHead, RecordInv, MeshSoFar,
        Mesh, NoPartWhileStarting, PartHasRecord, BodyHasPart,
        RecoveryHasRecord, StateOfStep, StartSteps, RecoverySteps,
        MacroSteps, Context, Job, Run, Mapping, TypeOK,
        tools, meshes, flags, sdcard, start, machine
<1>1. ASSUME NEW f \in Files, NEW t \in Heads, NEW p \in BOOLEAN,
      StartPrint(f, t, p) PROVE HeadInv'
  <2>1. run'.adaptive \/ run'.probe = 0
    BY <1>1 DEF StartPrint, ProbeTool
  <2> QED BY <1>1, <2>1 DEF StartPrint, Idle
<1>2. CASE StartZeroT0
  BY <1>2 DEF StartZeroT0
<1>3. CASE StartAim
  BY <1>3 DEF StartAim
<1>4. CASE StartHome
  BY <1>4 DEF StartHome, Select, NoMesh
<1>5. CASE StartHomeBlocked
  BY <1>5 DEF StartHomeBlocked, Restart, RestartFrom, NoMesh
<1>6. CASE StartHomePickFails
  BY <1>6 DEF StartHomePickFails, SelectFails, SnapshotMapping, Identity,
      NoMesh
<1>7. ASSUME NEW s \in Shapes, NEW native \in BOOLEAN, StartProbe(s, native)
      PROVE HeadInv'
  BY <1>7 DEF StartProbe, MayCalibrate
<1>8. CASE StartLoadDefault
  BY <1>8 DEF StartLoadDefault
<1>9. CASE StartSaveMesh
  BY <1>9 DEF StartSaveMesh
<1>10. CASE StartFlush
  BY <1>10 DEF StartFlush
<1>11. CASE StartRestoreT0
  BY <1>11 DEF StartRestoreT0
<1>12. CASE StartPick
  BY <1>12 DEF StartPick, Select
<1>13. CASE StartPickFailsTwice
  BY <1>13 DEF StartPickFailsTwice, SelectFails, SnapshotMapping, Identity
<1>14. CASE StartCommit
  BY <1>14 DEF StartCommit
<1>15. CASE StartReady
  BY <1>15 DEF StartReady
<1>16. CASE StartFails
  BY <1>16 DEF StartFails
<1>17. CASE Checkpoint
  BY <1>17 DEF Checkpoint, Printing
<1>18. CASE Pause
  BY <1>18 DEF Pause, SnapshotMapping, Identity, Printing, Paused
<1>19. CASE Resume
  BY <1>19 DEF Resume, Paused
<1>20. CASE ResumeFails
  BY <1>20 DEF ResumeFails
<1>21. CASE M24
  BY <1>21 DEF M24, RecoveryMatches
<1>22. CASE M24Blocked
  BY <1>22 DEF M24Blocked, Restart, RestartFrom, NoMesh, RecoveryMatches
<1>23. CASE ChangeToolFails
  BY <1>23 DEF ChangeToolFails, SelectFails, SnapshotMapping, Identity,
      Printing
<1>24. ASSUME NEW t \in Heads, ChangeTool(t) PROVE HeadInv'
  BY <1>24 DEF ChangeTool, Select, Printing
<1>25. ASSUME NEW m \in Mapping, RemapWhilePaused(m) PROVE HeadInv'
  BY <1>25 DEF RemapWhilePaused, Paused
<1>26. CASE EndPrint
  BY <1>26 DEF EndPrint
<1>27. CASE EndReset
  BY <1>27 DEF EndReset, NoMesh, Identity
<1>28. ASSUME NEW h \in Heads, RecoverPick(h) PROVE HeadInv'
  BY <1>28 DEF RecoverPick, Select, Identity
<1>29. ASSUME NEW h \in Heads, RecoverReselect(h) PROVE HeadInv'
  BY <1>29 DEF RecoverReselect, Select, SelectFails, Identity
<1>30. CASE RecoverArm
  BY <1>30 DEF RecoverArm
<1>31. CASE RecoverBegin
  BY <1>31 DEF RecoverBegin, Recoverable
<1>32. CASE RecoverBlocked
  BY <1>32 DEF RecoverBlocked, Restart, RestartFrom, NoMesh, Recoverable
<1>33. CASE RecoverHome
  BY <1>33 DEF RecoverHome, Profile
<1>34. CASE RecoverHomeFails
  BY <1>34 DEF RecoverHomeFails
<1>35. CASE RecoverMesh
  BY <1>35 DEF RecoverMesh, LoadedBy, Profile
<1>36. CASE RecoverFile
  BY <1>36 DEF RecoverFile, Identity
<1>37. CASE RecoverAbandoned
  BY <1>37 DEF RecoverAbandoned
<1>38. ASSUME NEW m \in Mapping, AssignSpools(m) PROVE HeadInv'
  BY <1>38 DEF AssignSpools, Idle
<1>39. ASSUME NEW c \in Cals, Recalibrate(c) PROVE HeadInv'
  BY <1>39 DEF Recalibrate, Idle
<1>40. ASSUME NEW on \in BOOLEAN, ChooseMesh(on) PROVE HeadInv'
  BY <1>40 DEF ChooseMesh, Idle
<1>41. CASE SaveConfig
  BY <1>41 DEF SaveConfig, RestartFrom, NoMesh, Idle
<1>42. CASE G29
  BY <1>42 DEF G29, Idle
<1>43. CASE G29Fails
  BY <1>43 DEF G29Fails
<1>44. ASSUME NEW s \in Shapes, G29Probe(s) PROVE HeadInv'
  BY <1>44 DEF G29Probe, Select, SelectFails, MayCalibrate
<1>45. CASE PowerCut
  BY <1>45 DEF PowerCut, Restart, RestartFrom, NoMesh
<1>46. CASE TimerRenders
  BY <1>46 DEF TimerRenders
<1>47. CASE TimerWrites
  BY <1>47 DEF TimerWrites
<1>48. CASE UNCHANGED vars
  BY <1>48 DEF vars
<1>49. CASE BodyFails
  BY <1>49 DEF BodyFails, Printing
<1>50. CASE HandHome
  BY <1>50 DEF HandHome, Idle, Select, SelectFails, NoMesh
<1>51. CASE HandRecover
  BY <1>51 DEF HandRecover, Idle, Recoverable, Profile
<1>52. CASE HandRecoverBlocked
  BY <1>52 DEF HandRecoverBlocked, Restart, RestartFrom, NoMesh
<1>53. ASSUME NEW name \in HandNames, NEW s \in Shapes, HandCalibrate(name, s)
       PROVE  HeadInv'
  BY <1>53 DEF HandCalibrate, Idle
<1>54. CASE HandSave
  BY <1>54 DEF HandSave, Idle
<1>55. CASE HandLoad
  BY <1>55 DEF HandLoad, Idle, LoadedBy, Profile
<1> HIDE RecoveryAssumption, <1>0 DEF HeadInv
<1> QED BY <1>1, <1>2, <1>3, <1>4, <1>5, <1>6, <1>7, <1>8, <1>9, <1>10,
      <1>11, <1>12, <1>13, <1>14, <1>15, <1>16, <1>17, <1>18, <1>19, <1>20,
      <1>21, <1>22, <1>23, <1>24, <1>25, <1>26, <1>27, <1>28, <1>29, <1>30,
      <1>31, <1>32, <1>33, <1>34, <1>35, <1>36, <1>37, <1>38, <1>39, <1>40,
      <1>41, <1>42, <1>43, <1>44, <1>45, <1>46, <1>47, <1>48, <1>49,
      <1>50, <1>51, <1>52, <1>53, <1>54, <1>55 DEF Next,
      StartNext, BodyNext, RecoverNext, OperatorNext

\* Every step keeps the recovery under the head its record names.
LEMMA RecoveryStep ==
  ASSUME "wmp_print" \notin HandNames, ~EarlyStart, RecoveryInv, [Next]_vars PROVE RecoveryInv'
<1>0. RecordInv'
  BY RecordStep DEF RecoveryInv
<1> USE RecoveryAssumption, <1>0
    DEF RecoveryInv, TimerDone, RecoveryKeepsHead, RecordInv,
        NoPartWhileStarting, PartHasRecord, BodyHasPart,
        RecoveryHasRecord, StateOfStep, StartSteps, RecoverySteps,
        MacroSteps, Context, Job, Run, Mapping, TypeOK,
        tools, meshes, flags, sdcard, start, machine
<1>1. ASSUME NEW f \in Files, NEW t \in Heads, NEW p \in BOOLEAN,
      StartPrint(f, t, p) PROVE RecoveryInv'
  BY <1>1 DEF StartPrint, Idle
<1>2. CASE StartZeroT0
  BY <1>2 DEF StartZeroT0
<1>3. CASE StartAim
  BY <1>3 DEF StartAim
<1>4. CASE StartHome
  BY <1>4 DEF StartHome, Select, NoMesh
<1>5. CASE StartHomeBlocked
  BY <1>5 DEF StartHomeBlocked, Restart, RestartFrom, NoMesh
<1>6. CASE StartHomePickFails
  BY <1>6 DEF StartHomePickFails, SelectFails, SnapshotMapping, Identity,
      NoMesh
<1>7. ASSUME NEW s \in Shapes, NEW native \in BOOLEAN, StartProbe(s, native)
      PROVE RecoveryInv'
  BY <1>7 DEF StartProbe, MayCalibrate
<1>8. CASE StartLoadDefault
  BY <1>8 DEF StartLoadDefault
<1>9. CASE StartSaveMesh
  BY <1>9 DEF StartSaveMesh
<1>10. CASE StartFlush
  BY <1>10 DEF StartFlush
<1>11. CASE StartRestoreT0
  BY <1>11 DEF StartRestoreT0
<1>12. CASE StartPick
  BY <1>12 DEF StartPick, Select
<1>13. CASE StartPickFailsTwice
  BY <1>13 DEF StartPickFailsTwice, SelectFails, SnapshotMapping, Identity
<1>14. CASE StartCommit
  BY <1>14 DEF StartCommit
<1>15. CASE StartReady
  BY <1>15 DEF StartReady
<1>16. CASE StartFails
  BY <1>16 DEF StartFails
<1>17. CASE Checkpoint
  BY <1>17 DEF Checkpoint, Printing
<1>18. CASE Pause
  BY <1>18 DEF Pause, SnapshotMapping, Identity, Printing, Paused
<1>19. CASE Resume
  BY <1>19 DEF Resume, Paused
<1>20. CASE ResumeFails
  BY <1>20 DEF ResumeFails
<1>21. CASE M24
  BY <1>21 DEF M24, RecoveryMatches
<1>22. CASE M24Blocked
  BY <1>22 DEF M24Blocked, Restart, RestartFrom, NoMesh, RecoveryMatches
<1>23. CASE ChangeToolFails
  BY <1>23 DEF ChangeToolFails, SelectFails, SnapshotMapping, Identity,
      Printing
<1>24. ASSUME NEW t \in Heads, ChangeTool(t) PROVE RecoveryInv'
  BY <1>24 DEF ChangeTool, Select, Printing
<1>25. ASSUME NEW m \in Mapping, RemapWhilePaused(m) PROVE RecoveryInv'
  BY <1>25 DEF RemapWhilePaused, Paused
<1>26. CASE EndPrint
  BY <1>26 DEF EndPrint
<1>27. CASE EndReset
  BY <1>27 DEF EndReset, NoMesh, Identity
<1>28. ASSUME NEW h \in Heads, RecoverPick(h) PROVE RecoveryInv'
  BY <1>28 DEF RecoverPick, Select, Identity
<1>29. ASSUME NEW h \in Heads, RecoverReselect(h) PROVE RecoveryInv'
  BY <1>29 DEF RecoverReselect, Select, SelectFails, Identity
<1>30. CASE RecoverArm
  BY <1>30 DEF RecoverArm
<1>31. CASE RecoverBegin
  BY <1>31 DEF RecoverBegin, Recoverable
<1>32. CASE RecoverBlocked
  BY <1>32 DEF RecoverBlocked, Restart, RestartFrom, NoMesh, Recoverable
<1>33. CASE RecoverHome
  BY <1>33 DEF RecoverHome, Profile
<1>34. CASE RecoverHomeFails
  BY <1>34 DEF RecoverHomeFails
<1>35. CASE RecoverMesh
  BY <1>35 DEF RecoverMesh, LoadedBy, Profile
<1>36. CASE RecoverFile
  BY <1>36 DEF RecoverFile, Identity
<1>37. CASE RecoverAbandoned
  BY <1>37 DEF RecoverAbandoned
<1>38. ASSUME NEW m \in Mapping, AssignSpools(m) PROVE RecoveryInv'
  BY <1>38 DEF AssignSpools, Idle
<1>39. ASSUME NEW c \in Cals, Recalibrate(c) PROVE RecoveryInv'
  BY <1>39 DEF Recalibrate, Idle
<1>40. ASSUME NEW on \in BOOLEAN, ChooseMesh(on) PROVE RecoveryInv'
  BY <1>40 DEF ChooseMesh, Idle
<1>41. CASE SaveConfig
  BY <1>41 DEF SaveConfig, RestartFrom, NoMesh, Idle
<1>42. CASE G29
  BY <1>42 DEF G29, Idle
<1>43. CASE G29Fails
  BY <1>43 DEF G29Fails
<1>44. ASSUME NEW s \in Shapes, G29Probe(s) PROVE RecoveryInv'
  BY <1>44 DEF G29Probe, Select, SelectFails, MayCalibrate
<1>45. CASE PowerCut
  BY <1>45 DEF PowerCut, Restart, RestartFrom, NoMesh
<1>46. CASE TimerRenders
  BY <1>46 DEF TimerRenders
<1>47. CASE TimerWrites
  BY <1>47 DEF TimerWrites
<1>48. CASE UNCHANGED vars
  BY <1>48 DEF vars
<1>49. CASE BodyFails
  BY <1>49 DEF BodyFails, Printing
<1>50. CASE HandHome
  BY <1>50 DEF HandHome, Idle, Select, SelectFails, NoMesh
<1>51. CASE HandRecover
  BY <1>51 DEF HandRecover, Idle, Recoverable, Profile
<1>52. CASE HandRecoverBlocked
  BY <1>52 DEF HandRecoverBlocked, Restart, RestartFrom, NoMesh
<1>53. ASSUME NEW name \in HandNames, NEW s \in Shapes, HandCalibrate(name, s)
       PROVE  RecoveryInv'
  BY <1>53 DEF HandCalibrate, Idle
<1>54. CASE HandSave
  BY <1>54 DEF HandSave, Idle
<1>55. CASE HandLoad
  BY <1>55 DEF HandLoad, Idle, LoadedBy, Profile
<1> HIDE RecoveryAssumption, <1>0 DEF RecoveryInv
<1> QED BY <1>1, <1>2, <1>3, <1>4, <1>5, <1>6, <1>7, <1>8, <1>9, <1>10,
      <1>11, <1>12, <1>13, <1>14, <1>15, <1>16, <1>17, <1>18, <1>19, <1>20,
      <1>21, <1>22, <1>23, <1>24, <1>25, <1>26, <1>27, <1>28, <1>29, <1>30,
      <1>31, <1>32, <1>33, <1>34, <1>35, <1>36, <1>37, <1>38, <1>39, <1>40,
      <1>41, <1>42, <1>43, <1>44, <1>45, <1>46, <1>47, <1>48, <1>49,
      <1>50, <1>51, <1>52, <1>53, <1>54, <1>55 DEF Next,
      StartNext, BodyNext, RecoverNext, OperatorNext

\* Every step keeps the datum the body runs under.
LEMMA DatumStep ==
  ASSUME "wmp_print" \notin HandNames, ~EarlyStart, PickFails = {},
         DatumInv, [Next]_vars
  PROVE  DatumInv'
<1>0. HeadInv' /\ RecoveryInv'
  BY HeadStep, RecoveryStep DEF DatumInv
<1> USE RecoveryAssumption, <1>0
    DEF DatumInv, BodyKeepsDatum, HeadInv, StartKnowsHead, RecordKnowsHead,
        RecoveryInv, TimerDone, RecoveryKeepsHead, RecordInv,
            NoPartWhileStarting, PartHasRecord, BodyHasPart,
        RecoveryHasRecord, StateOfStep, StartSteps, RecoverySteps,
        MacroSteps, Context, Job, Run, Mapping, TypeOK,
        tools, meshes, flags, sdcard, start, machine
<1>1. ASSUME NEW f \in Files, NEW t \in Heads, NEW p \in BOOLEAN,
      StartPrint(f, t, p) PROVE DatumInv'
  BY <1>1 DEF StartPrint, Idle
<1>2. CASE StartZeroT0
  BY <1>2 DEF StartZeroT0
<1>3. CASE StartAim
  BY <1>3 DEF StartAim
<1>4. CASE StartHome
  BY <1>4 DEF StartHome, Select, NoMesh
<1>5. CASE StartHomeBlocked
  BY <1>5 DEF StartHomeBlocked, Restart, RestartFrom, NoMesh
<1>6. CASE StartHomePickFails
  BY <1>6 DEF StartHomePickFails, SelectFails, SnapshotMapping, Identity,
      NoMesh
<1>7. ASSUME NEW s \in Shapes, NEW native \in BOOLEAN, StartProbe(s, native)
      PROVE DatumInv'
  BY <1>7 DEF StartProbe, MayCalibrate
<1>8. CASE StartLoadDefault
  BY <1>8 DEF StartLoadDefault
<1>9. CASE StartSaveMesh
  BY <1>9 DEF StartSaveMesh
<1>10. CASE StartFlush
  BY <1>10 DEF StartFlush
<1>11. CASE StartRestoreT0
  BY <1>11 DEF StartRestoreT0
<1>12. CASE StartPick
  BY <1>12 DEF StartPick, Select
<1>13. CASE StartPickFailsTwice
  BY <1>13 DEF StartPickFailsTwice, SelectFails, SnapshotMapping, Identity
<1>14. CASE StartCommit
  BY <1>14 DEF StartCommit
<1>15. CASE StartReady
  BY <1>15 DEF StartReady
<1>16. CASE StartFails
  BY <1>16 DEF StartFails
<1>17. CASE Checkpoint
  BY <1>17 DEF Checkpoint, Printing
<1>18. CASE Pause
  BY <1>18 DEF Pause, SnapshotMapping, Identity, Printing, Paused
<1>19. CASE Resume
  BY <1>19 DEF Resume, Paused
<1>20. CASE ResumeFails
  BY <1>20 DEF ResumeFails
<1>21. CASE M24
  BY <1>21 DEF M24, RecoveryMatches
<1>22. CASE M24Blocked
  BY <1>22 DEF M24Blocked, Restart, RestartFrom, NoMesh, RecoveryMatches
<1>23. CASE ChangeToolFails
  BY <1>23 DEF ChangeToolFails, SelectFails, SnapshotMapping, Identity,
      Printing
<1>24. ASSUME NEW t \in Heads, ChangeTool(t) PROVE DatumInv'
  BY <1>24 DEF ChangeTool, Select, Printing
<1>25. ASSUME NEW m \in Mapping, RemapWhilePaused(m) PROVE DatumInv'
  BY <1>25 DEF RemapWhilePaused, Paused
<1>26. CASE EndPrint
  BY <1>26 DEF EndPrint
<1>27. CASE EndReset
  BY <1>27 DEF EndReset, NoMesh, Identity
<1>28. ASSUME NEW h \in Heads, RecoverPick(h) PROVE DatumInv'
  BY <1>28 DEF RecoverPick, Select, Identity
<1>29. ASSUME NEW h \in Heads, RecoverReselect(h) PROVE DatumInv'
  BY <1>29 DEF RecoverReselect, Select, SelectFails, Identity
<1>30. CASE RecoverArm
  BY <1>30 DEF RecoverArm
<1>31. CASE RecoverBegin
  BY <1>31 DEF RecoverBegin, Recoverable
<1>32. CASE RecoverBlocked
  BY <1>32 DEF RecoverBlocked, Restart, RestartFrom, NoMesh, Recoverable
<1>33. CASE RecoverHome
  BY <1>33 DEF RecoverHome, Profile
<1>34. CASE RecoverHomeFails
  BY <1>34 DEF RecoverHomeFails
<1>35. CASE RecoverMesh
  BY <1>35 DEF RecoverMesh, LoadedBy, Profile
<1>36. CASE RecoverFile
  BY <1>36 DEF RecoverFile, Identity
<1>37. CASE RecoverAbandoned
  BY <1>37 DEF RecoverAbandoned
<1>38. ASSUME NEW m \in Mapping, AssignSpools(m) PROVE DatumInv'
  BY <1>38 DEF AssignSpools, Idle
<1>39. ASSUME NEW c \in Cals, Recalibrate(c) PROVE DatumInv'
  BY <1>39 DEF Recalibrate, Idle
<1>40. ASSUME NEW on \in BOOLEAN, ChooseMesh(on) PROVE DatumInv'
  BY <1>40 DEF ChooseMesh, Idle
<1>41. CASE SaveConfig
  BY <1>41 DEF SaveConfig, RestartFrom, NoMesh, Idle
<1>42. CASE G29
  BY <1>42 DEF G29, Idle
<1>43. CASE G29Fails
  BY <1>43 DEF G29Fails
<1>44. ASSUME NEW s \in Shapes, G29Probe(s) PROVE DatumInv'
  BY <1>44 DEF G29Probe, Select, SelectFails, MayCalibrate
<1>45. CASE PowerCut
  BY <1>45 DEF PowerCut, Restart, RestartFrom, NoMesh
<1>46. CASE TimerRenders
  BY <1>46 DEF TimerRenders
<1>47. CASE TimerWrites
  BY <1>47 DEF TimerWrites
<1>48. CASE UNCHANGED vars
  BY <1>48 DEF vars
<1>49. CASE BodyFails
  BY <1>49 DEF BodyFails, Printing
<1>50. CASE HandHome
  BY <1>50 DEF HandHome, Idle, Select, SelectFails, NoMesh
<1>51. CASE HandRecover
  BY <1>51 DEF HandRecover, Idle, Recoverable, Profile
<1>52. CASE HandRecoverBlocked
  BY <1>52 DEF HandRecoverBlocked, Restart, RestartFrom, NoMesh
<1>53. ASSUME NEW name \in HandNames, NEW s \in Shapes, HandCalibrate(name, s)
       PROVE  DatumInv'
  BY <1>53 DEF HandCalibrate, Idle
<1>54. CASE HandSave
  BY <1>54 DEF HandSave, Idle
<1>55. CASE HandLoad
  BY <1>55 DEF HandLoad, Idle, LoadedBy, Profile
<1> HIDE RecoveryAssumption, <1>0 DEF DatumInv
<1> QED BY <1>1, <1>2, <1>3, <1>4, <1>5, <1>6, <1>7, <1>8, <1>9, <1>10,
      <1>11, <1>12, <1>13, <1>14, <1>15, <1>16, <1>17, <1>18, <1>19, <1>20,
      <1>21, <1>22, <1>23, <1>24, <1>25, <1>26, <1>27, <1>28, <1>29, <1>30,
      <1>31, <1>32, <1>33, <1>34, <1>35, <1>36, <1>37, <1>38, <1>39, <1>40,
      <1>41, <1>42, <1>43, <1>44, <1>45, <1>46, <1>47, <1>48, <1>49,
      <1>50, <1>51, <1>52, <1>53, <1>54, <1>55 DEF Next,
      StartNext, BodyNext, RecoverNext, OperatorNext

-----------------------------------------------------------------------------
\* A printer that was never used has no part and no record.
LEMMA InitialRecord == Init => RecordInv
<1> SUFFICES ASSUME Init PROVE RecordInv
  OBVIOUS
<1>1. active \in BOOLEAN /\ ready \in BOOLEAN /\ adaptive \in BOOLEAN
      /\ pausing \in BOOLEAN
  BY DEF Init
<1>2. TypeOK
  BY <1>1, RecoveryAssumption, IdentityType DEF Init, TypeOK, NoMesh, Profiles
<1> QED
  BY <1>2 DEF Init, RecordInv, NoPartWhileStarting, MeshSoFar, PartKeepsMesh,
    PartHasRecord, BodyHasPart, RecoveryHasRecord, StateOfStep, StartSteps,
    RecoverySteps

\* So part, record and mesh on disk stay together.
LEMMA RecordAlways == ASSUME "wmp_print" \notin HandNames PROVE Spec => []RecordInv
BY InitialRecord, RecordStep, PTL DEF Spec

\* So the mapping is kept.
LEMMA MappingAlways ==
  ASSUME "wmp_print" \notin HandNames, ~RepeatPause, "start" \notin PickFails
  PROVE  Spec => []MappingInv
<1>1. Init => MappingInv
  BY InitialRecord DEF Init, MappingInv, StartKnowsMapping, BodyKeepsMapping,
    Printing, Paused, StartSteps
<1> QED BY <1>1, MappingStep, PTL DEF Spec

\* So START_PRINT and the record know the head.
LEMMA HeadAlways ==
  ASSUME "wmp_print" \notin HandNames, "start" \notin PickFails
  PROVE  Spec => []HeadInv
<1>1. Init => HeadInv
  BY InitialRecord DEF Init, HeadInv, StartKnowsHead,
    RecordKnowsHead, StartSteps
<1> QED BY <1>1, HeadStep, PTL DEF Spec

\* So recovery runs under the head of its record.
LEMMA RecoveryAlways ==
  ASSUME "wmp_print" \notin HandNames, ~EarlyStart PROVE Spec => []RecoveryInv
<1>1. Init => RecoveryInv
  BY InitialRecord DEF Init, RecoveryInv, TimerDone, RecoveryKeepsHead,
    StartSteps, RecoverySteps
<1> QED BY <1>1, RecoveryStep, PTL DEF Spec

\* So the body runs under its datum.
LEMMA DatumAlways ==
  ASSUME "wmp_print" \notin HandNames, ~EarlyStart, PickFails = {} PROVE Spec => []DatumInv
<1>1. Init => BodyKeepsDatum
  BY DEF Init, BodyKeepsDatum
<1>2. BodyKeepsDatum /\ HeadInv /\ RecoveryInv => DatumInv
  BY DEF DatumInv
<1>3. Spec => []HeadInv
  BY HeadAlways
<1>4. Spec => []RecoveryInv
  BY RecoveryAlways
<1> QED BY <1>1, <1>2, <1>3, <1>4, DatumStep, PTL DEF Spec

\* Whatever fails and whenever the power goes, the state stays well typed: no
\* step of START_PRINT reads what it did not render, no recovery step reads a
\* record that is not there.
THEOREM TypeCorrect ==
  ASSUME "wmp_print" \notin HandNames PROVE Spec => []TypeOK
<1>1. RecordInv => TypeOK
  BY DEF RecordInv
<1> QED BY <1>1, RecordAlways, PTL

\* There is a record exactly while there is a part, with that part's mesh on
\* disk: tool changes may fail anywhere, PAUSE may repeat, a job may start
\* before the start-up timer.
THEOREM RecordCorrect ==
  ASSUME "wmp_print" \notin HandNames PROVE Spec => []RecordExists
<1>1. RecordInv => RecordExists
  BY DEF RecordInv, RecordExists, PartHasRecord, PartKeepsMesh
<1> QED BY <1>1, RecordAlways, PTL

\* Under the same faults, the file that executes is the part's own and runs
\* under the mesh the part was started with, also after a recovery.
THEOREM MeshCorrect ==
  ASSUME "wmp_print" \notin HandNames PROVE Spec => []BodyMesh
<1>1. RecordInv => BodyMesh
  BY DEF RecordInv, BodyMesh, BodyHasPart, Printing
<1> QED BY <1>1, RecordAlways, PTL

\* Each slicer tool maps to the head the operator last asked for while a file
\* executes: across pauses, remaps, power cuts and recoveries, and whatever
\* tool changes of the body, of G29 or of recovery fail, unless PAUSE repeats.
THEOREM MappingCorrect ==
  ASSUME "wmp_print" \notin HandNames, ~RepeatPause, "start" \notin PickFails
  PROVE  Spec => []BodyMapping
<1>1. MappingInv => BodyMapping
  BY DEF MappingInv, RecordInv, BodyHasPart, BodyKeepsMapping, BodyMapping,
     Printing
<1> QED BY <1>1, MappingAlways, PTL

\* A file executes under the head that probed its part's mesh and under the
\* calibration of that moment, also if PAUSE repeats.
THEOREM DatumCorrect ==
  ASSUME "wmp_print" \notin HandNames, ~EarlyStart, PickFails = {}
  PROVE  Spec => []BodyDatum
<1>1. DatumInv => BodyDatum
  BY DEF DatumInv, HeadInv, RecordInv, BodyHasPart, BodyKeepsDatum, BodyDatum,
     Printing
<1> QED BY <1>1, DatumAlways, PTL

\* The record describes the part at every moment the power may go: a job that
\* starts before the start-up timer and a recovery that loses its tool change
\* do not harm it.
THEOREM FaithfulCorrect ==
  ASSUME "wmp_print" \notin HandNames, ~RepeatPause, "start" \notin PickFails
  PROVE  Spec => []RecordFaithful
<1>1. MappingInv /\ HeadInv => RecordFaithful
  BY DEF MappingInv, HeadInv, RecordInv, TypeOK, Context, PartHasRecord,
     BodyKeepsMapping, RecordKnowsHead, RecordFaithful
<1>2. Spec => []MappingInv
  BY MappingAlways
<1>3. Spec => []HeadInv
  BY HeadAlways
<1> QED BY <1>1, <1>2, <1>3, PTL

\* M24 does not refuse a recovery that homing accepted, whatever tool changes
\* fail, if no job starts before the start-up timer ran.
THEOREM AcceptedCorrect ==
  ASSUME "wmp_print" \notin HandNames, ~EarlyStart PROVE Spec => []RecoveryAcceptedOnce
<1>1. RecoveryInv => RecoveryAcceptedOnce
  BY DEF RecoveryInv, RecordInv, RecoveryHasRecord, RecoveryKeepsHead,
     RecoveryAcceptedOnce, RecoveryMatches, RecoverySteps, Profile
<1> QED BY <1>1, RecoveryAlways, PTL
=============================================================================
