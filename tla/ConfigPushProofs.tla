-------------------------- MODULE ConfigPushProofs --------------------------
(***************************************************************************)
(* What a push owes the printer, for any files, edits and SAVE_CONFIGs.    *)
(***************************************************************************)
EXTENDS ConfigPush, TLAPS

(* The options, plan and remaining files of a push fit together. *)
Bookkeeping ==
  /\ unseen \cap Targets = {} /\ differs \cap missing = {} /\ left \subseteq Wanted
  /\ again \subseteq twice
  /\ pc = "idle" => Targets = {}
  /\ pc = "scan" => left = {}
  /\ pc \in {"check", "confirm"} => left = Wanted
  /\ pc \in {"read", "write", "fill"} => file \in left
  /\ pc = "read" => file = PrinterCfg
  /\ pc = "wait" => left = {}
  /\ pc \in {"check", "confirm", "next", "read", "write", "fill", "wait"} =>
       asked \subseteq Targets

(* What the push has read is what the last SAVE_CONFIG wrote. *)
Calibrated ==
  /\ CalibrationKept
  /\ pc \in {"write", "fill"} /\ file = PrinterCfg => missed \/ current = saved

(* A file about to be written, unless it is named twice, is absent, copied or
   others' business, and was not yet overwritten. *)
Secured ==
  /\ OverwrittenIsBackedUp
  /\ pc \in {"read", "write"} =>
       \/ ~Present(file) \/ file \in touched \cup twice
       \/ disk[file] = backups[file]
  /\ \A n \in missing \ twice :
       /\ pc = "scan" \/ n \in left
       /\ ~(pc = "fill" /\ n = file)
       => ~Present(n) \/ n \in touched
  /\ pc \in {"idle", "scan", "check", "confirm"} => \A n \in Files : replaced[n] = {}
  /\ \A n \in left \ twice : replaced[n] = {} \/ (pc = "fill" /\ n = file)

(* Files that are done are the repository's, on the disk and once loaded. *)
Delivered ==
  /\ pc \in {"next", "read", "write", "fill", "wait"} =>
       \A n \in (Wanted \ left) \ touched : disk[n].body = "repo"
  /\ pc = "wait" => Wanted \ touched \subseteq loaded

\* Every step keeps the types.
LEMMA TypeStep == TypeOK /\ [Next]_vars => TypeOK'
<1> SUFFICES ASSUME TypeOK, [Next]_vars PROVE TypeOK'
  OBVIOUS
<1> USE PushAssumption
<1> USE DEF TypeOK, Targets, Contents, Bodies, Nothing, files, host, option, plan, work, history, local, rest
<1>1. ASSUME NEW t \in Transports, NEW names \in SUBSET Files, NEW q \in BOOLEAN,
             NEW repeated \in SUBSET names, PushStarts(t, names, repeated, q)
      PROVE  TypeOK'
  BY <1>1 DEF PushStarts
<1>2. ASSUME NEW n \in Files, Scan(n) PROVE TypeOK'
  BY <1>2 DEF Scan, Found
<1>3. ASSUME NEW n \in Files, ScanUnreadable(n) PROVE TypeOK'
  BY <1>3 DEF ScanUnreadable, Found
<1>4. ASSUME NEW n \in Files, Backup(n) PROVE TypeOK'
  BY <1>4 DEF Backup, Prepared
<1>5. ASSUME NEW n \in Files, NoBackup(n) PROVE TypeOK'
  BY <1>5 DEF NoBackup, Prepared
<1>6. ASSUME NEW n \in Files, NEW b \in Others \cup {"none"}, Edit(n, b) PROVE TypeOK'
  BY <1>6 DEF Edit, Touches
<1>7. CASE Choose
  BY <1>7 DEF Choose, Wanted
<1>8. CASE NothingToPush
  BY <1>8 DEF NothingToPush, Ends
<1>9. CASE CheckPrint
  BY <1>9 DEF CheckPrint
<1>10. CASE Confirm
  BY <1>10 DEF Confirm
<1>11. CASE Refuse
  BY <1>11 DEF Refuse, Ends
<1>12. CASE ReadCalibration
  <2>1. disk[PrinterCfg].calib \in Nat
    OBVIOUS
  <2>2. current' \in Nat
    BY <1>12, <2>1 DEF ReadCalibration
  <2>3. missed' \in BOOLEAN
    <3>1. CASE missed' = missed
      BY <3>1
    <3>2. CASE missed' = TRUE
      BY <3>2
    <3> QED BY <1>12, <3>1, <3>2 DEF ReadCalibration
  <2> QED BY <1>12, <2>2, <2>3 DEF ReadCalibration
<1>13. CASE Upload
  BY <1>13 DEF Upload, Written, FileDone, Replaces, Spliced
<1>14. CASE Truncate
  BY <1>14 DEF Truncate, Replaces
<1>15. CASE Fill
  <2>1. CASE Written /\ UNCHANGED missed
    BY <1>15, <2>1 DEF Fill, Written, FileDone, Spliced
  <2>2. CASE file \in touched /\ FileDone /\ missed' = (missed \/ file = PrinterCfg) /\ UNCHANGED <<disk, touched>>
    <3>1. (missed \/ file = PrinterCfg) \in BOOLEAN
      OBVIOUS
    <3> QED BY <1>15, <2>2, <3>1 DEF Fill, FileDone
  <2> QED BY <1>15, <2>1, <2>2 DEF Fill
<1>16. CASE Restart
  BY <1>16 DEF Restart, Uploads
<1>17. CASE NoRestart
  BY <1>17 DEF NoRestart, Ends
<1>18. CASE Ready
  BY <1>18 DEF Ready, Ends
<1>19. CASE NotReady
  BY <1>19 DEF NotReady
<1>20. CASE GivesUp
  BY <1>20 DEF GivesUp, Ends
<1>21. CASE Stops
  BY <1>21 DEF Stops, Ends
<1>22. CASE SaveConfig
  BY <1>22 DEF SaveConfig, Touches
<1>23. CASE PrintStep
  BY <1>23 DEF PrintStep
<1>24. CASE PowerCycle
  BY <1>24 DEF PowerCycle, Uploads
<1>25. CASE KlipperStarts
  BY <1>25 DEF KlipperStarts
<1>26. CASE UNCHANGED vars
  BY <1>26 DEF vars
<1> HIDE DEF TypeOK
<1> QED
  BY <1>1, <1>2, <1>3, <1>4, <1>5, <1>6, <1>7, <1>8, <1>9, <1>10, <1>11,
     <1>12, <1>13, <1>14, <1>15, <1>16, <1>17, <1>18, <1>19, <1>20, <1>21,
     <1>22, <1>23, <1>24, <1>25, <1>26 DEF Next, Push

\* Every step keeps the books of the push.
LEMMA BookStep == TypeOK /\ Bookkeeping /\ [Next]_vars => Bookkeeping'
<1> SUFFICES ASSUME TypeOK, Bookkeeping, [Next]_vars PROVE Bookkeeping'
  OBVIOUS
<1> USE DEF TypeOK, Bookkeeping, Targets, Wanted, files, host, option, plan, work, history, local, rest
<1>1. ASSUME NEW t \in Transports, NEW names \in SUBSET Files, NEW q \in BOOLEAN,
             NEW repeated \in SUBSET names, PushStarts(t, names, repeated, q)
      PROVE  Bookkeeping'
  BY <1>1 DEF PushStarts
<1>2. ASSUME NEW n \in Files, Scan(n) PROVE Bookkeeping'
  BY <1>2 DEF Scan, Found
<1>3. ASSUME NEW n \in Files, ScanUnreadable(n) PROVE Bookkeeping'
  BY <1>3 DEF ScanUnreadable, Found
<1>4. ASSUME NEW n \in Files, Backup(n) PROVE Bookkeeping'
  BY <1>4 DEF Backup, Prepared
<1>5. ASSUME NEW n \in Files, NoBackup(n) PROVE Bookkeeping'
  BY <1>5 DEF NoBackup, Prepared
<1>6. ASSUME NEW n \in Files, NEW b \in Others \cup {"none"}, Edit(n, b) PROVE Bookkeeping'
  BY <1>6 DEF Edit, Touches
<1>7. CASE Choose
  BY <1>7 DEF Choose, Wanted
<1>8. CASE NothingToPush
  BY <1>8 DEF NothingToPush, Ends
<1>9. CASE CheckPrint
  BY <1>9 DEF CheckPrint
<1>10. CASE Confirm
  BY <1>10 DEF Confirm
<1>11. CASE Refuse
  BY <1>11 DEF Refuse, Ends
<1>12. CASE ReadCalibration
  BY <1>12 DEF ReadCalibration
<1>13. CASE Upload
  BY <1>13 DEF Upload, Written, FileDone, Replaces, Spliced
<1>14. CASE Truncate
  BY <1>14 DEF Truncate, Replaces
<1>15. CASE Fill
  BY <1>15 DEF Fill, Written, FileDone, Spliced
<1>16. CASE Restart
  BY <1>16 DEF Restart, Uploads
<1>17. CASE NoRestart
  BY <1>17 DEF NoRestart, Ends
<1>18. CASE Ready
  BY <1>18 DEF Ready, Ends
<1>19. CASE NotReady
  BY <1>19 DEF NotReady
<1>20. CASE GivesUp
  BY <1>20 DEF GivesUp, Ends
<1>21. CASE Stops
  BY <1>21 DEF Stops, Ends
<1>22. CASE SaveConfig
  BY <1>22 DEF SaveConfig, Touches
<1>23. CASE PrintStep
  BY <1>23 DEF PrintStep
<1>24. CASE PowerCycle
  BY <1>24 DEF PowerCycle, Uploads
<1>25. CASE KlipperStarts
  BY <1>25 DEF KlipperStarts
<1>26. CASE UNCHANGED vars
  BY <1>26 DEF vars
<1> HIDE DEF TypeOK, Bookkeeping
<1> QED
  BY <1>1, <1>2, <1>3, <1>4, <1>5, <1>6, <1>7, <1>8, <1>9, <1>10, <1>11,
     <1>12, <1>13, <1>14, <1>15, <1>16, <1>17, <1>18, <1>19, <1>20, <1>21,
     <1>22, <1>23, <1>24, <1>25, <1>26 DEF Next, Push

\* Calibration is kept unless a write breaks off.
LEMMA CalibrationStep ==
  ASSUME TypeOK, Bookkeeping, Calibrated, [Next]_vars, "cut" \notin Faults
  PROVE  Calibrated'
<1> USE DEF TypeOK, Bookkeeping, Calibrated, CalibrationKept, Contents, Targets, Wanted, Present, files, host, option, plan, work, history, local, rest
<1> USE PushAssumption
<1>1. ASSUME NEW t \in Transports, NEW names \in SUBSET Files, NEW q \in BOOLEAN,
             NEW repeated \in SUBSET names, PushStarts(t, names, repeated, q)
      PROVE  Calibrated'
  BY <1>1 DEF PushStarts
<1>2. ASSUME NEW n \in Files, Scan(n) PROVE Calibrated'
  BY <1>2 DEF Scan, Found
<1>3. ASSUME NEW n \in Files, ScanUnreadable(n) PROVE Calibrated'
  BY <1>3 DEF ScanUnreadable, Found
<1>4. ASSUME NEW n \in Files, Backup(n) PROVE Calibrated'
  BY <1>4 DEF Backup, Prepared
<1>5. ASSUME NEW n \in Files, NoBackup(n) PROVE Calibrated'
  BY <1>5 DEF NoBackup, Prepared
<1>6. ASSUME NEW n \in Files, NEW b \in Others \cup {"none"}, Edit(n, b) PROVE Calibrated'
  BY <1>6 DEF Edit, Touches
<1>7. CASE Choose
  BY <1>7 DEF Choose, Wanted
<1>8. CASE NothingToPush
  BY <1>8 DEF NothingToPush, Ends
<1>9. CASE CheckPrint
  BY <1>9 DEF CheckPrint
<1>10. CASE Confirm
  BY <1>10 DEF Confirm
<1>11. CASE Refuse
  BY <1>11 DEF Refuse, Ends
<1>12. CASE ReadCalibration
  BY <1>12 DEF ReadCalibration
<1>13. CASE Upload
  BY <1>13 DEF Upload, Written, FileDone, Replaces, Spliced
<1>14. CASE Truncate
  BY <1>14 DEF Truncate, Replaces
<1>15. CASE Fill
  <2>1. CASE Present(file) /\ Written /\ UNCHANGED missed
    BY <1>15, <2>1 DEF Fill, Written, FileDone, Spliced
  <2>2. CASE file \in touched /\ FileDone /\ missed' = (missed \/ file = PrinterCfg) /\ UNCHANGED <<disk, touched>>
    <3>1. CASE missed \/ file = PrinterCfg
      BY <1>15, <2>2, <3>1 DEF Fill, FileDone
    <3>2. CASE ~missed /\ file # PrinterCfg
      BY <1>15, <2>2, <3>2 DEF Fill, FileDone
    <3> QED BY <3>1, <3>2
  <2> QED BY <1>15, <2>1, <2>2 DEF Fill
<1>16. CASE Restart
  BY <1>16 DEF Restart, Uploads
<1>17. CASE NoRestart
  BY <1>17 DEF NoRestart, Ends
<1>18. CASE Ready
  BY <1>18 DEF Ready, Ends
<1>19. CASE NotReady
  BY <1>19 DEF NotReady
<1>20. CASE GivesUp
  BY <1>20 DEF GivesUp, Ends
<1>21. CASE Stops
  BY <1>21 DEF Stops, Ends
<1>22. CASE SaveConfig
  BY <1>22 DEF SaveConfig, Touches
<1>23. CASE PrintStep
  BY <1>23 DEF PrintStep
<1>24. CASE PowerCycle
  BY <1>24 DEF PowerCycle, Uploads
<1>25. CASE KlipperStarts
  BY <1>25 DEF KlipperStarts
<1>26. CASE UNCHANGED vars
  BY <1>26 DEF vars
<1> HIDE DEF TypeOK, Bookkeeping, Calibrated
<1> QED
  BY <1>1, <1>2, <1>3, <1>4, <1>5, <1>6, <1>7, <1>8, <1>9, <1>10, <1>11,
     <1>12, <1>13, <1>14, <1>15, <1>16, <1>17, <1>18, <1>19, <1>20, <1>21,
     <1>22, <1>23, <1>24, <1>25, <1>26 DEF Next, Push

\* What is about to be written stays secured.
LEMMA SecuredStep ==
  ASSUME TypeOK, Bookkeeping, Secured, [Next]_vars
  PROVE  Secured'
<1> USE DEF TypeOK, Bookkeeping, Secured, OverwrittenIsBackedUp, Targets, Wanted, Present, files, host, option, plan, work, history, local, rest
<1>1. ASSUME NEW t \in Transports, NEW names \in SUBSET Files, NEW q \in BOOLEAN,
             NEW repeated \in SUBSET names, PushStarts(t, names, repeated, q)
      PROVE  Secured'
  BY <1>1 DEF PushStarts
<1>2. ASSUME NEW n \in Files, Scan(n) PROVE Secured'
  BY <1>2 DEF Scan, Found
<1>3. ASSUME NEW n \in Files, ScanUnreadable(n) PROVE Secured'
  BY <1>3 DEF ScanUnreadable, Found
<1>4. ASSUME NEW n \in Files, Backup(n) PROVE Secured'
  BY <1>4 DEF Backup, Prepared
<1>5. ASSUME NEW n \in Files, NoBackup(n) PROVE Secured'
  BY <1>5 DEF NoBackup, Prepared
<1>6. ASSUME NEW n \in Files, NEW b \in Others \cup {"none"}, Edit(n, b) PROVE Secured'
  BY <1>6 DEF Edit, Touches
<1>7. CASE Choose
  BY <1>7 DEF Choose, Wanted
<1>8. CASE NothingToPush
  BY <1>8 DEF NothingToPush, Ends
<1>9. CASE CheckPrint
  BY <1>9 DEF CheckPrint
<1>10. CASE Confirm
  BY <1>10 DEF Confirm
<1>11. CASE Refuse
  BY <1>11 DEF Refuse, Ends
<1>12. CASE ReadCalibration
  BY <1>12 DEF ReadCalibration
<1>13. CASE Upload
  BY <1>13 DEF Upload, Written, FileDone, Replaces, Spliced
<1>14. CASE Truncate
  BY <1>14 DEF Truncate, Replaces
<1>15. CASE Fill
  BY <1>15 DEF Fill, Written, FileDone, Spliced
<1>16. CASE Restart
  BY <1>16 DEF Restart, Uploads
<1>17. CASE NoRestart
  BY <1>17 DEF NoRestart, Ends
<1>18. CASE Ready
  BY <1>18 DEF Ready, Ends
<1>19. CASE NotReady
  BY <1>19 DEF NotReady
<1>20. CASE GivesUp
  BY <1>20 DEF GivesUp, Ends
<1>21. CASE Stops
  BY <1>21 DEF Stops, Ends
<1>22. CASE SaveConfig
  BY <1>22 DEF SaveConfig, Touches
<1>23. CASE PrintStep
  BY <1>23 DEF PrintStep
<1>24. CASE PowerCycle
  BY <1>24 DEF PowerCycle, Uploads
<1>25. CASE KlipperStarts
  BY <1>25 DEF KlipperStarts
<1>26. CASE UNCHANGED vars
  BY <1>26 DEF vars
<1> HIDE DEF TypeOK, Bookkeeping, Secured
<1> QED
  BY <1>1, <1>2, <1>3, <1>4, <1>5, <1>6, <1>7, <1>8, <1>9, <1>10, <1>11,
     <1>12, <1>13, <1>14, <1>15, <1>16, <1>17, <1>18, <1>19, <1>20, <1>21,
     <1>22, <1>23, <1>24, <1>25, <1>26 DEF Next, Push

\* What is done stays delivered.
LEMMA DeliveredStep ==
  ASSUME TypeOK, Bookkeeping, Delivered, [Next]_vars
  PROVE  Delivered'
<1> USE DEF TypeOK, Bookkeeping, Delivered, Targets, Wanted, Present, files, host, option, plan, work, history, local, rest
<1>1. ASSUME NEW t \in Transports, NEW names \in SUBSET Files, NEW q \in BOOLEAN,
             NEW repeated \in SUBSET names, PushStarts(t, names, repeated, q)
      PROVE  Delivered'
  BY <1>1 DEF PushStarts
<1>2. ASSUME NEW n \in Files, Scan(n) PROVE Delivered'
  BY <1>2 DEF Scan, Found
<1>3. ASSUME NEW n \in Files, ScanUnreadable(n) PROVE Delivered'
  BY <1>3 DEF ScanUnreadable, Found
<1>4. ASSUME NEW n \in Files, Backup(n) PROVE Delivered'
  BY <1>4 DEF Backup, Prepared
<1>5. ASSUME NEW n \in Files, NoBackup(n) PROVE Delivered'
  BY <1>5 DEF NoBackup, Prepared
<1>6. ASSUME NEW n \in Files, NEW b \in Others \cup {"none"}, Edit(n, b) PROVE Delivered'
  BY <1>6 DEF Edit, Touches
<1>7. CASE Choose
  BY <1>7 DEF Choose, Wanted
<1>8. CASE NothingToPush
  BY <1>8 DEF NothingToPush, Ends
<1>9. CASE CheckPrint
  BY <1>9 DEF CheckPrint
<1>10. CASE Confirm
  BY <1>10 DEF Confirm
<1>11. CASE Refuse
  BY <1>11 DEF Refuse, Ends
<1>12. CASE ReadCalibration
  BY <1>12 DEF ReadCalibration
<1>13. CASE Upload
  BY <1>13 DEF Upload, Written, FileDone, Replaces, Spliced
<1>14. CASE Truncate
  BY <1>14 DEF Truncate, Replaces
<1>15. CASE Fill
  BY <1>15 DEF Fill, Written, FileDone, Spliced
<1>16. CASE Restart
  BY <1>16 DEF Restart, Uploads
<1>17. CASE NoRestart
  BY <1>17 DEF NoRestart, Ends
<1>18. CASE Ready
  BY <1>18 DEF Ready, Ends
<1>19. CASE NotReady
  BY <1>19 DEF NotReady
<1>20. CASE GivesUp
  BY <1>20 DEF GivesUp, Ends
<1>21. CASE Stops
  BY <1>21 DEF Stops, Ends
<1>22. CASE SaveConfig
  BY <1>22 DEF SaveConfig, Touches
<1>23. CASE PrintStep
  BY <1>23 DEF PrintStep
<1>24. CASE PowerCycle
  BY <1>24 DEF PowerCycle, Uploads
<1>25. CASE KlipperStarts
  BY <1>25 DEF KlipperStarts
<1>26. CASE UNCHANGED vars
  BY <1>26 DEF vars
<1> HIDE DEF TypeOK, Bookkeeping, Delivered
<1> QED
  BY <1>1, <1>2, <1>3, <1>4, <1>5, <1>6, <1>7, <1>8, <1>9, <1>10, <1>11,
     <1>12, <1>13, <1>14, <1>15, <1>16, <1>17, <1>18, <1>19, <1>20, <1>21,
     <1>22, <1>23, <1>24, <1>25, <1>26 DEF Next, Push

---------------------------------------------------------------------------
\* The types hold in every state.
THEOREM TypeCorrect == Spec => []TypeOK
<1>1. Init => TypeOK
  <2> SUFFICES ASSUME Init PROVE TypeOK
    OBVIOUS
  <2>1. disk \in [Files -> Contents] BY DEF Init, Contents, Bodies
  <2>2. Nothing \in Contents BY DEF Nothing, Contents, Bodies
  <2> QED BY <2>1, <2>2, PushAssumption DEF Init, TypeOK, Targets
<1> QED BY <1>1, TypeStep, PTL DEF Spec

\* So do the books.
LEMMA Booked == Spec => []Bookkeeping
<1>1. Init => Bookkeeping
  BY DEF Init, Bookkeeping, Targets, Wanted
<1> QED BY <1>1, BookStep, TypeCorrect, PTL DEF Spec

\* Whatever Klipper and people do meanwhile, a push loses no calibration but
\* one that it could not read in time, provided that no SFTP write breaks off.
THEOREM CalibrationCorrect ==
  ASSUME "cut" \notin Faults
  PROVE  Spec => []CalibrationKept
<1>1. Init => Calibrated
  BY PushAssumption DEF Init, Calibrated, CalibrationKept
<1>2. TypeOK /\ Bookkeeping /\ Calibrated /\ [Next]_vars => Calibrated'
  BY CalibrationStep
<1>3. Calibrated => CalibrationKept
  BY DEF Calibrated
<1> QED BY <1>1, <1>2, <1>3, TypeCorrect, Booked, PTL DEF Spec

\* What a push has overwritten of files that are named once is in their backups,
\* but for what others put there after it looked and what SFTP could not read.
THEOREM BackupCorrect == Spec => []OverwrittenIsBackedUp
<1>1. Init => Secured
  BY DEF Init, Secured, OverwrittenIsBackedUp
<1>2. TypeOK /\ Bookkeeping /\ Secured /\ [Next]_vars => Secured'
  BY SecuredStep
<1>3. Secured => OverwrittenIsBackedUp
  BY DEF Secured
<1> QED BY <1>1, <1>2, <1>3, TypeCorrect, Booked, PTL DEF Spec

\* A push that reports completion has had Klipper read all its files.
THEOREM CompletionCorrect == Spec => CompleteIsLoaded
<1>1. Init => Delivered
  BY DEF Init, Delivered
<1>2. TypeOK /\ Bookkeeping /\ Delivered /\ [Next]_vars => Delivered'
  BY DeliveredStep
<1>3. Delivered => (pc = "wait" /\ pc' = "idle" /\ rc' = 0 => Wanted \ touched \subseteq loaded)
  BY DEF Delivered
<1> QED BY <1>1, <1>2, <1>3, TypeCorrect, Booked, PTL DEF Spec, CompleteIsLoaded
=============================================================================
