-------------------------- MODULE CheckpointProofs --------------------------
(***************************************************************************)
(* Proofs about Checkpoint for any set of slots and of record contents.    *)
(* TypeOK is inductive as it stands.  MarkerTrusted is not: what is        *)
(* stamped is trusted because the lock keeps other writers of the process  *)
(* out between the hash before the write and the stamp, so Safe says what  *)
(* the file can be at each step of a save.  StartTrusted needs what a load *)
(* knows at each of its steps: that what it verified first is still the    *)
(* file, or that the one replacement it did not see will show when it      *)
(* verifies again.                                                         *)
(***************************************************************************)
EXTENDS Checkpoint, TLAPS

\* A save holds the lock.
Saving == {"write", "after", "stamp", "publish"}

\* The strengthening of MarkerTrusted and StartTrusted.
Safe ==
  /\ MarkerTrusted /\ StartTrusted
  /\ pc # "idle" => client = "patched"
  /\ pc \in Saving => slot \in Slots
  /\ pc = "write" => before = Hash(file[slot])
  /\ pc = "after" => Hash(file[slot]) \in {None, before} \cup written
  /\ pc \in {"stamp", "publish"} => file[slot] \in written
  /\ pc \in {"read", "confirm"} => loadedPath \in Slots /\ (starting => overtaken)
  /\ loadedValid => loadedPath # None /\ loadedHash \in written
  /\ pc = "read" /\ loadedValid => replaced \/ file[loadedPath] = loadedHash
  /\ pc = "confirm" /\ loadedValid /\ memory # loadedHash
       => replaced /\ file[loadedPath] # loadedHash
  /\ pc \notin {"read", "confirm"} /\ loadedValid => memory = loadedHash

USE DEF Contents

\* A save in progress has a slot, a load one it has verified.
Located ==
  /\ pc \in Saving => slot \in Slots
  /\ pc \in {"read", "confirm"} => loadedPath \in Slots

\* Every step keeps the types.
LEMMA TypeStep ==
  ASSUME TypeOK, Located, [Next]_vars, CheckpointAssumption
  PROVE  TypeOK' /\ Located'
<1> USE DEF TypeOK, vars, files, marks, saving, loaded, history, Hash, Saved,
            Forget, Verify, Saving, Located
<1>1. ASSUME NEW s \in Slots, Save(s) PROVE TypeOK' /\ Located'
  BY <1>1 DEF Save
<1>2. ASSUME NEW s \in Slots, LoadVerifies(s) PROVE TypeOK' /\ Located'
  <2>1. loadedValid' \in BOOLEAN /\ overtaken' \in BOOLEAN /\ replaced' \in BOOLEAN
    BY <1>2 DEF LoadVerifies
  <2> QED BY <1>2, <2>1 DEF LoadVerifies, CheckpointAssumption
<1>18. CASE LoadReads BY <1>18 DEF LoadReads
<1>19. CASE LoadConfirms
  <2>1. loadedValid' \in BOOLEAN /\ replaced' \in BOOLEAN BY <1>19 DEF LoadConfirms
  <2> QED BY <1>19, <2>1 DEF LoadConfirms
<1>3. ASSUME NEW s \in Slots, StockWrites(s) PROVE TypeOK' /\ Located'
  BY <1>3 DEF StockWrites
<1>4. ASSUME NEW s \in Slots, FileReplaced(s) PROVE TypeOK' /\ Located'
  <2>1. replaced' \in BOOLEAN BY <1>4 DEF FileReplaced
  <2> QED BY <1>4, <2>1 DEF FileReplaced
<1>5. ASSUME NEW c \in Good, SaveWrites(c) PROVE TypeOK' /\ Located'
  BY <1>5 DEF SaveWrites
<1>6. CASE SaveSkips BY <1>6 DEF SaveSkips
<1>8. CASE SaveChecks BY <1>8 DEF SaveChecks
<1>9. CASE StampSyncs BY <1>9 DEF StampSyncs
<1>10. CASE StampPublishes BY <1>10 DEF StampPublishes
<1>11. CASE StampFails BY <1>11 DEF StampFails
<1>12. CASE StartRecovery
  <2>1. starting' \in BOOLEAN BY <1>12 DEF StartRecovery
  <2> QED BY <1>12, <2>1 DEF StartRecovery
<1>13. CASE Recover
  <2>1. starting' \in BOOLEAN /\ overtaken' \in BOOLEAN BY <1>13 DEF Recover
  <2> QED BY <1>13, <2>1 DEF Recover
<1>14. CASE Killed
  <2>1. /\ starting' \in BOOLEAN /\ loadedValid' \in BOOLEAN
        /\ overtaken' \in BOOLEAN /\ replaced' \in BOOLEAN
    BY <1>14 DEF Killed
  <2> QED BY <1>14, <2>1 DEF Killed
<1>15. CASE PowerCut
  <2>1. /\ starting' \in BOOLEAN /\ loadedValid' \in BOOLEAN
        /\ overtaken' \in BOOLEAN /\ replaced' \in BOOLEAN
    BY <1>15 DEF PowerCut
  <2> QED BY <1>15, <2>1 DEF PowerCut
<1>16. CASE ClientStarts BY <1>16 DEF ClientStarts
<1>17. CASE UNCHANGED vars BY <1>17
<1> QED BY <1>1, <1>2, <1>3, <1>4, <1>5, <1>6, <1>8, <1>9, <1>10, <1>11,
           <1>12, <1>13, <1>14, <1>15, <1>16, <1>17, <1>18, <1>19 DEF Next, SaveStep

\* Without the three faults every step keeps Safe.
LEMMA SafeStep ==
  ASSUME TypeOK, Safe, [Next]_vars, CheckpointAssumption, Faults = {}
  PROVE  Safe'
<1> USE DEF TypeOK, vars, files, marks, saving, loaded, history, Hash, Saved,
            Forget, Verify, Safe, MarkerTrusted, StartTrusted, Patched, Unlocked,
            Saving, CheckpointAssumption
<1>1. ASSUME NEW s \in Slots, Save(s) PROVE Safe'
  BY <1>1 DEF Save
<1>2. ASSUME NEW s \in Slots, LoadVerifies(s) PROVE Safe'
  BY <1>2 DEF LoadVerifies
<1>18. CASE LoadReads BY <1>18 DEF LoadReads
<1>19. CASE LoadConfirms
  <2>1. loadedValid' => loadedValid /\ StillLoaded BY <1>19 DEF LoadConfirms
  <2>2. loadedValid' => memory = loadedHash BY <1>19, <2>1 DEF LoadConfirms, StillLoaded
  <2>3. /\ pc' = "idle" /\ UNCHANGED <<file, disk, mark, markDisk, client, slot, before>>
        /\ UNCHANGED <<loadedPath, loadedHash, memory, starting, written, overtaken>>
    BY <1>19 DEF LoadConfirms
  <2> QED BY <2>1, <2>2, <2>3
<1>3. ASSUME NEW s \in Slots, StockWrites(s) PROVE Safe'
  BY <1>3 DEF StockWrites
<1>4. ASSUME NEW s \in Slots, FileReplaced(s) PROVE Safe'
  BY <1>4 DEF FileReplaced
<1>5. ASSUME NEW c \in Good, SaveWrites(c) PROVE Safe'
  BY <1>5 DEF SaveWrites
<1>6. CASE SaveSkips BY <1>6 DEF SaveSkips
<1>8. CASE SaveChecks BY <1>8 DEF SaveChecks
<1>9. CASE StampSyncs BY <1>9 DEF StampSyncs
<1>10. CASE StampPublishes BY <1>10 DEF StampPublishes
<1>11. CASE StampFails BY <1>11 DEF StampFails
<1>12. CASE StartRecovery BY <1>12 DEF StartRecovery, StillLoaded
<1>13. CASE Recover BY <1>13 DEF Recover
<1>14. CASE Killed BY <1>14 DEF Killed
<1>15. CASE PowerCut BY <1>15 DEF PowerCut
<1>16. CASE ClientStarts BY <1>16 DEF ClientStarts
<1>17. CASE UNCHANGED vars BY <1>17
<1> QED BY <1>1, <1>2, <1>3, <1>4, <1>5, <1>6, <1>8, <1>9, <1>10, <1>11,
           <1>12, <1>13, <1>14, <1>15, <1>16, <1>17, <1>18, <1>19 DEF Next, SaveStep

\* Init establishes both invariants.
LEMMA Initially ==
  ASSUME Init, CheckpointAssumption
  PROVE  TypeOK /\ Safe
BY DEF Init, TypeOK, Safe, MarkerTrusted, StartTrusted, Saving, CheckpointAssumption

\* The types hold in every state, whatever the faults.
THEOREM TypeCorrect == Spec => []TypeOK
<1> DEFINE I == TypeOK /\ Located
<1>1. Init => I BY CheckpointAssumption, Initially DEF Safe, Located
<1>2. I /\ [Next]_vars => I' BY CheckpointAssumption, TypeStep
<1>3. I => TypeOK OBVIOUS
<1> QED BY <1>1, <1>2, <1>3, PTL DEF Spec

\* Both invariants hold in every state of a run without the faults.
LEMMA SafeAlways == Faults = {} /\ Spec => [](TypeOK /\ Safe)
<1> SUFFICES ASSUME Faults = {} PROVE Spec => [](TypeOK /\ Safe)
  OBVIOUS
<1>1. Init => TypeOK /\ Safe BY CheckpointAssumption, Initially
<1>2. TypeOK /\ Safe /\ [Next]_vars => (TypeOK /\ Safe)'
  BY CheckpointAssumption, TypeStep, SafeStep DEF Safe, Located
<1> QED BY <1>1, <1>2, PTL DEF Spec

\* A marker only ever names a record the patched writer completed.
THEOREM MarkerCorrect == Faults = {} /\ Spec => []MarkerTrusted
<1>1. TypeOK /\ Safe => MarkerTrusted BY DEF Safe
<1> QED BY <1>1, SafeAlways, PTL

\* A recovery that starts has loaded such a record, the one that was verified
\* before and after, unless another load overtook it; the file may be replaced
\* at any moment of a load, once.
THEOREM StartCorrect == Faults = {} /\ Spec => []StartTrusted
<1>1. TypeOK /\ Safe => StartTrusted BY DEF Safe
<1> QED BY <1>1, SafeAlways, PTL

\* While a save holds the lock the synced record stays the file.
Synced ==
  /\ pc # "idle" => client = "patched"
  /\ pc = "publish" => disk[slot] = file[slot]

\* Every step keeps Synced, and a marker appears only by StampPublishes.
LEMMA SyncedStep ==
  ASSUME TypeOK, Located, Synced, [Next]_vars, CheckpointAssumption
  PROVE  /\ Synced'
         /\ \A s \in Slots :
              mark'[s] # mark[s] /\ mark'[s] # None /\ Patched /\ Patched'
                => disk'[s] = mark'[s]
<1> DEFINE Goal == /\ Synced'
                   /\ \A s \in Slots :
                        mark'[s] # mark[s] /\ mark'[s] # None /\ Patched /\ Patched'
                          => disk'[s] = mark'[s]
<1> USE DEF TypeOK, vars, files, marks, saving, loaded, history, Hash, Saved,
            Forget, Synced, Patched, Unlocked, Saving, Located, CheckpointAssumption
<1>1. ASSUME NEW s \in Slots, Save(s) PROVE Goal
  BY <1>1 DEF Save
<1>2. ASSUME NEW s \in Slots, LoadVerifies(s) PROVE Goal
  BY <1>2 DEF LoadVerifies
<1>3. ASSUME NEW s \in Slots, StockWrites(s) PROVE Goal
  BY <1>3 DEF StockWrites
<1>4. ASSUME NEW s \in Slots, FileReplaced(s) PROVE Goal
  BY <1>4 DEF FileReplaced
<1>5. ASSUME NEW c \in Good, SaveWrites(c) PROVE Goal
  BY <1>5 DEF SaveWrites
<1>6. CASE SaveSkips \/ SaveChecks
  BY <1>6 DEF SaveSkips, SaveChecks
<1>7. CASE StampSyncs BY <1>7 DEF StampSyncs
<1>8. CASE StampPublishes BY <1>8 DEF StampPublishes
<1>9. CASE StampFails BY <1>9 DEF StampFails
<1>10. CASE LoadReads \/ LoadConfirms \/ StartRecovery \/ Recover
  BY <1>10 DEF LoadReads, LoadConfirms, StartRecovery, Recover
<1>11. CASE Killed \/ PowerCut BY <1>11 DEF Killed, PowerCut
<1>12. CASE ClientStarts BY <1>12 DEF ClientStarts
<1>13. CASE UNCHANGED vars BY <1>13
<1> QED BY <1>1, <1>2, <1>3, <1>4, <1>5, <1>6, <1>7, <1>8, <1>9, <1>10, <1>11,
           <1>12, <1>13 DEF Next, SaveStep

\* A marker is published only once the record it names is on the disk, with
\* every fault as well.
THEOREM SyncCorrect == Spec => PublishedAfterSync
<1> DEFINE I == TypeOK /\ Located /\ Synced
<1>1. Init => I BY CheckpointAssumption, Initially DEF Safe, Init, Synced, Located
<1>2. I /\ [Next]_vars => I' BY CheckpointAssumption, TypeStep, SyncedStep
<1>3. I /\ [Next]_vars =>
        [\A s \in Slots :
           mark'[s] # mark[s] /\ mark'[s] # None /\ Patched /\ Patched'
             => disk'[s] = mark'[s]]_vars
  BY CheckpointAssumption, SyncedStep
<1> QED BY <1>1, <1>2, <1>3, PTL DEF Spec, PublishedAfterSync

\* The guard implements TrustedRecovery: every step writes a record in G-code
\* coordinates, permits, overtakes, starts or ends a recovery, or stutters.
THEOREM Implements == Faults = {} /\ Spec => RecoversTrusted
<1> SUFFICES ASSUME Faults = {} PROVE Spec => RecoversTrusted
  OBVIOUS
<1>1. Init => Abstract!Init BY DEF Init, Abstract!Init
<1>2. ASSUME TypeOK, Safe, [Next]_vars
      PROVE  [Abstract!Next]_<<written, starting, overtaken, started>>
  <2> USE DEF vars, files, marks, saving, loaded, history, Abstract!Next
  <2>1. ASSUME NEW c \in Good, SaveWrites(c) PROVE Abstract!Write(c)
    BY <2>1 DEF SaveWrites, Abstract!Write
  <2>2. CASE StartRecovery
    BY <2>2 DEF StartRecovery, Abstract!Permit
  <2>3. ASSUME NEW s \in Slots, LoadVerifies(s)
        PROVE  [Abstract!Overtake]_<<written, starting, overtaken, started>>
    BY <1>2, <2>3 DEF LoadVerifies, Abstract!Overtake, TypeOK
  <2>4. CASE Recover
    BY <1>2, <2>4 DEF Recover, Abstract!Start, Safe, StartTrusted
  <2>5. CASE Killed \/ PowerCut
    BY <2>5 DEF Killed, PowerCut, Forget, Abstract!End
  <2>6. ASSUME NEW s \in Slots, Save(s) \/ StockWrites(s) \/ FileReplaced(s)
        PROVE  UNCHANGED <<written, starting, overtaken, started>>
    BY <2>6 DEF Save, StockWrites, FileReplaced
  <2>7. CASE SaveSkips \/ SaveChecks \/ StampSyncs \/ StampPublishes
               \/ StampFails \/ LoadReads \/ LoadConfirms \/ ClientStarts
               \/ UNCHANGED vars
    BY <2>7 DEF SaveSkips, SaveChecks, StampSyncs, StampPublishes, StampFails,
                LoadReads, LoadConfirms, ClientStarts
  <2> QED BY <1>2, <2>1, <2>2, <2>3, <2>4, <2>5, <2>6, <2>7 DEF Next, SaveStep
<1> QED BY <1>1, <1>2, SafeAlways, PTL DEF Spec, RecoversTrusted, Abstract!Spec
=============================================================================
