-------------------------- MODULE ToolChangeProofs --------------------------
(***************************************************************************)
(* What a tool change keeps, for any number of heads, order of the docks,  *)
(* head-room and faults: where the nozzle comes back to, which lifts are   *)
(* taken back, that no pickup is made with a head on the carriage, and     *)
(* that what the macros believe is what is mounted.                        *)
(***************************************************************************)
EXTENDS ToolChange, TLAPS

\* A T command is under way (not PARK_CURRENT_TOOL, which shares its steps).
Changing == pc # "idle" /\ ~parking

---------------------------------------------------------------------------
(* The way back.  What a change asked for in the body of a print must      *)
(* remember is fixed when it begins; a lift that nobody is to take back on *)
(* the way home is taken back by the attempt that made it.                 *)

Numbers ==
  /\ lift \in Int /\ from \in Int
  /\ at # "none" /\ position # "none"

\* The return is prepared exactly when a body asked for another head.
Prepared ==
  /\ parking => pc \in {"drop", "dropped", "parkcheck"}
  /\ pc = "parkcheck" => parking
  /\ mode = "body" => save
  /\ pc = "idle" /\ outcome = "selected" => save
  /\ Changing /\ origin # "none" => pending
  /\ Changing /\ pending => position = origin /\ mode # "idle"
  /\ pc # "idle" /\ outcome = "selected" => success /\ pc \in {"again", "finish"}

\* Between the lift of an attempt and its descent the nozzle is at most one
\* lift above where the change began; otherwise it is where it began.
OneLift ==
  Changing /\ ~pending =>
    IF pc \in {"drop", "dropped", "grab", "grabbed"} /\ need
    THEN lift = from + 1 ELSE lift = from

WayBack == Numbers /\ Prepared /\ OneLift /\ ReturnsToPart

LEMMA WayBackInit == Init => WayBack
BY DEF Init, WayBack, Numbers, Prepared, OneLift, Changing, ReturnsToPart

LEMMA WayBackStep == WayBack /\ [Next]_vars => WayBack'
<1> SUFFICES ASSUME WayBack, [Next]_vars PROVE WayBack'
  OBVIOUS
<1> USE DEF WayBack, Numbers, Prepared, OneLift, Changing, ReturnsToPart, Places,
            belief, return, control, physics, motion, docks, world, history
<1>1. ASSUME NEW t \in Targets, Begin(t) PROVE WayBack'
  BY <1>1 DEF Begin, Capture, Precheck
<1>2. ASSUME NEW t \in Targets, BeginRefused(t) PROVE WayBack'
  BY <1>2 DEF BeginRefused, Capture
<1>3. CASE Attempt
  BY <1>3 DEF Attempt, AfterAttempt, LiftStep
<1>4. CASE Drop
  BY <1>4 DEF Drop, AfterUnlock, Release, Docked
<1>5. CASE Dropped
  BY <1>5 DEF Dropped, AfterUnlock, Attached
<1>6. CASE Grab
  BY <1>6 DEF Grab, AfterAttempt, Descend, Docked
<1>7. CASE Grabbed
  BY <1>7 DEF Grabbed, AfterAttempt, Descend, Release
<1>8. CASE TryAgain
  BY <1>8 DEF TryAgain, Precheck
<1>9. CASE GiveUp
  BY <1>9 DEF GiveUp, AfterCheck, Checking
<1>10. CASE Select
  BY <1>10 DEF Select, AfterCheck, Checking
<1>11. CASE NoSecondCheck
  BY <1>11 DEF NoSecondCheck
<1>12. CASE Finish
  BY <1>12 DEF Finish, Returning
<1>13. CASE Abort
  BY <1>13 DEF Abort
<1>14. CASE Park
  BY <1>14 DEF Park
<1>15. CASE ParkCheck
  <2>1. CASE flag # 0 /\ ~second
    BY <1>15, <2>1 DEF ParkCheck
  <2>2. CASE ~(flag # 0 /\ ~second)
    BY <1>15, <2>2 DEF ParkCheck
  <2> QED BY <2>1, <2>2
<1>16. CASE FileStarts
  BY <1>16 DEF FileStarts
<1>17. CASE FileEnds
  BY <1>17 DEF FileEnds
<1>18. ASSUME NEW p \in Places, BodyRuns(p) PROVE WayBack'
  BY <1>18 DEF BodyRuns
<1>19. CASE HallChanges
  BY <1>19 DEF HallChanges
<1>20. CASE PowerCut
  BY <1>20 DEF PowerCut
<1>21. ASSUME NEW h \in Removable, Remove(h) PROVE WayBack'
  BY <1>21 DEF Remove, Docked
<1>22. ASSUME NEW h \in Removable, PutBack(h) PROVE WayBack'
  BY <1>22 DEF PutBack
<1>23. CASE UNCHANGED vars
  BY <1>23 DEF vars
<1> QED
  BY <1>1, <1>2, <1>3, <1>4, <1>5, <1>6, <1>7, <1>8, <1>9, <1>10, <1>11,
     <1>12, <1>13, <1>14, <1>15, <1>16, <1>17, <1>18, <1>19, <1>20, <1>21,
     <1>22, <1>23 DEF Next

\* A lower nozzle means the change is back where it began, or nothing is to
\* return to.
LEMMA KeptStep == WayBack /\ [Next]_vars
                    => (pending /\ pc # "idle" /\ mode' # "idle" /\ lift' < lift => at' = origin)
<1> SUFFICES ASSUME WayBack, [Next]_vars,
                    pending, pc # "idle", mode' # "idle", lift' < lift
             PROVE  at' = origin
  OBVIOUS
<1> USE DEF WayBack, Numbers, Prepared, Changing,
            belief, return, control, physics, motion, docks, world, history
<1>1. ASSUME NEW t \in Targets, Begin(t) PROVE at' = origin
  BY <1>1 DEF Begin, Capture, Precheck
<1>2. ASSUME NEW t \in Targets, BeginRefused(t) PROVE at' = origin
  BY <1>2 DEF BeginRefused, Capture
<1>3. CASE Attempt
  BY <1>3 DEF Attempt, AfterAttempt, LiftStep
<1>4. CASE Drop
  BY <1>4 DEF Drop, AfterUnlock, Release, Docked
<1>5. CASE Dropped
  BY <1>5 DEF Dropped, AfterUnlock, Attached
<1>6. CASE Grab
  BY <1>6 DEF Grab, AfterAttempt, Descend, Docked
<1>7. CASE Grabbed
  BY <1>7 DEF Grabbed, AfterAttempt, Descend, Release
<1>8. CASE TryAgain
  BY <1>8 DEF TryAgain, Precheck
<1>9. CASE GiveUp
  BY <1>9 DEF GiveUp, AfterCheck, Checking
<1>10. CASE Select
  BY <1>10 DEF Select, AfterCheck, Checking
<1>11. CASE NoSecondCheck
  BY <1>11 DEF NoSecondCheck
<1>12. CASE Finish
  BY <1>12 DEF Finish, Returning
<1>13. CASE Abort
  BY <1>13 DEF Abort
<1>14. CASE Park
  BY <1>14 DEF Park
<1>15. CASE ParkCheck
  <2>1. CASE flag # 0 /\ ~second
    BY <1>15, <2>1 DEF ParkCheck
  <2>2. CASE ~(flag # 0 /\ ~second)
    BY <1>15, <2>2 DEF ParkCheck
  <2> QED BY <2>1, <2>2
<1>16. CASE FileStarts
  BY <1>16 DEF FileStarts
<1>17. CASE FileEnds
  BY <1>17 DEF FileEnds
<1>18. ASSUME NEW p \in Places, BodyRuns(p) PROVE at' = origin
  BY <1>18 DEF BodyRuns
<1>19. CASE HallChanges
  BY <1>19 DEF HallChanges
<1>20. CASE PowerCut
  BY <1>20 DEF PowerCut
<1>21. ASSUME NEW h \in Removable, Remove(h) PROVE at' = origin
  BY <1>21 DEF Remove, Docked
<1>22. ASSUME NEW h \in Removable, PutBack(h) PROVE at' = origin
  BY <1>22 DEF PutBack
<1>23. CASE UNCHANGED vars
  BY <1>23 DEF vars
<1> QED
  BY <1>1, <1>2, <1>3, <1>4, <1>5, <1>6, <1>7, <1>8, <1>9, <1>10, <1>11,
     <1>12, <1>13, <1>14, <1>15, <1>16, <1>17, <1>18, <1>19, <1>20, <1>21,
     <1>22, <1>23 DEF Next

\* The nozzle of a change that a print body asked for ends where that body
\* stood, with every lift taken back (_WMP_TOOL_RETURN_BEGIN and _FINISH), and
\* any other change ends as high as it began (_descend_z).
THEOREM ReturnCorrect == Spec => []ReturnsToPart
<1>1. WayBack => ReturnsToPart
  BY DEF WayBack
<1> QED BY <1>1, WayBackInit, WayBackStep, PTL DEF Spec

\* The lift of a change that is to return is kept, through the retry and after
\* a failure, until the nozzle is back (_WMP_TOOL_RETURN_FINISH).
THEOREM LiftKeptCorrect == Spec => LiftKept
<1>1. WayBack /\ [Next]_vars => [pending /\ pc # "idle" /\ mode' # "idle" /\ lift' < lift => at' = origin]_vars
  BY KeptStep
<1> QED BY <1>1, WayBackInit, WayBackStep, PTL DEF Spec, LiftKept

---------------------------------------------------------------------------
(* The pickup.  A head may still be on the carriage when the latch is to   *)
(* close on the next one only if the release failed and the hall sensor    *)
(* hid it: two faults.                                                     *)

OnCarriage ==
  /\ faults \in Int /\ flag \in Int /\ target \in Targets
  /\ carriage \in Heads \cup {NoHead} /\ order \in Orders
  /\ pc \in {"attempt", "drop", "dropped", "grab"} /\ ~parking /\ flag = 0
       => target \in Heads

\* What each fault has to answer for.
Blamed ==
  /\ faults >= 0
  /\ hall # "ok" => faults >= 1
  /\ pc = "dropped" /\ carriage # NoHead => faults >= IF hall = "ok" THEN 1 ELSE 2
  /\ pc = "grab" /\ flag = 0 /\ carriage # NoHead => faults >= 2

\* An attempt that thinks the carriage is empty looked with a good sensor.
Looked ==
  /\ parking => pc \in {"drop", "dropped", "parkcheck"}
  /\ pc = "parkcheck" => parking
  /\ pc = "attempt" /\ flag = 0 /\ ce = NoHead => carriage = NoHead
  /\ pc = "drop" /\ ~parking /\ flag = 0 /\ current = NoHead => carriage = NoHead

Pickup == OnCarriage /\ Blamed /\ Looked

\* Of the undocked heads there is a last one.
LEMMA LastOne ==
  ASSUME NEW S \in SUBSET Heads, S # {}
  PROVE  \E h \in S : \A g \in S : g <= h
<1>1. \A g \in S : g \in {0, 1, 2, 3}
  BY ToolAssumption DEF Heads
<1>2. PICK h \in S : TRUE
  OBVIOUS
<1>3. CASE 3 \in S
  BY <1>1, <1>3
<1>4. CASE 3 \notin S /\ 2 \in S
  BY <1>1, <1>4
<1>5. CASE 3 \notin S /\ 2 \notin S /\ 1 \in S
  BY <1>1, <1>5
<1>6. CASE 3 \notin S /\ 2 \notin S /\ 1 \notin S
  BY <1>1, <1>2, <1>6
<1> QED BY <1>3, <1>4, <1>5, <1>6

\* With the sensor in range a correction leaves no head only if the carriage
\* is empty (_check_current_extruder_value).
LEMMA Correction ==
  ASSUME carriage \in Heads \cup {NoHead}, InRange, Corrected = NoHead
  PROVE  carriage = NoHead
<1> DEFINE last == CHOOSE h \in Undocked : \A g \in Undocked : g <= h
<1>1. Undocked # {} => last \in Undocked
  BY LastOne DEF Undocked
<1>2. Undocked \subseteq Heads
  BY DEF Undocked
<1>3. NoHead \notin Heads
  BY ToolAssumption DEF NoHead, Heads
<1>4. carriage # NoHead => carriage \in Undocked
  BY DEF Undocked, Docked
<1> HIDE DEF last
<1>5. Corrected = IF ~Attached THEN NoHead
                  ELSE IF ce = NoHead /\ Undocked # {} THEN last ELSE ce
  BY DEF Corrected, last
<1> QED BY <1>1, <1>2, <1>3, <1>4, <1>5 DEF InRange, Attached

LEMMA PickupInit == Init => Pickup
BY ToolAssumption DEF Init, Pickup, OnCarriage, Blamed, Looked, Heads, Targets

LEMMA PickupStep == Pickup /\ [Next]_vars => Pickup'
<1> SUFFICES ASSUME Pickup, [Next]_vars PROVE Pickup'
  OBVIOUS
<1>c. InRange /\ Corrected = NoHead => carriage = NoHead
  BY Correction DEF Pickup, OnCarriage
<1>h. NoHead \notin Heads /\ \A t \in Targets : t < Installed => t \in Heads
  BY ToolAssumption DEF Heads, Targets, NoHead
<1>t. \A t \in Targets : t \in Int /\ Installed \in Int
  BY ToolAssumption DEF Targets
<1>o. \A t \in Heads : order[t] \in Heads
  BY ToolAssumption DEF Pickup, OnCarriage
<1>m. MaxFaults \in Int
  BY ToolAssumption
<1> USE <1>m DEF Pickup, OnCarriage, Blamed, Looked, Fault, NoFault,
            belief, return, control, physics, motion, docks, world, history
<1>1. ASSUME NEW t \in Targets, Begin(t) PROVE Pickup'
  BY <1>1, <1>c, <1>h, <1>t DEF Begin, Capture, Precheck, InRange
<1>2. ASSUME NEW t \in Targets, BeginRefused(t) PROVE Pickup'
  BY <1>2 DEF BeginRefused, Capture
<1>3. CASE Attempt
  BY <1>3 DEF Attempt, AfterAttempt, LiftStep
<1>4. CASE Drop
  <2>a. /\ UNCHANGED <<hall, order, target, parking, ce>> /\ pc = "drop"
        /\ carriage' \in {carriage, NoHead} /\ flag' \in {flag, -3}
    BY <1>4 DEF Drop, Release
  <2>b. faults' = faults \/ faults' = faults + 1
    BY <1>4 DEF Drop, Release
  <2>c. pc' \in {"dropped", "parkcheck", "grab"} /\ (pc' = "grab" => ~parking)
        /\ (pc' = "parkcheck" => parking)
    BY <1>4 DEF Drop, AfterUnlock
  <2>d. pc' = "dropped" \/ flag' = -3 \/ (flag' = flag /\ (flag # 0 \/ current = NoHead))
    BY <1>4 DEF Drop
  <2>e. pc' = "dropped" => flag = 0 /\ (carriage' = NoHead \/ faults' = faults + 1)
    BY <1>4 DEF Drop, AfterUnlock, Release
  <2>1. OnCarriage'
    BY <2>a, <2>b, <2>c
  <2>2. Blamed'
    BY <2>a, <2>b, <2>c, <2>d, <2>e
  <2>3. Looked'
    BY <2>a, <2>c
  <2> QED BY <2>1, <2>2, <2>3
<1>5. CASE Dropped
  BY <1>5 DEF Dropped, AfterUnlock, Attached
<1>6. CASE Grab
  BY <1>6, <1>o, <1>h DEF Grab, AfterAttempt, Descend, Docked
<1>7. CASE Grabbed
  <2>a. /\ UNCHANGED <<hall, order, target, parking, ce>> /\ pc = "grabbed"
        /\ carriage' \in {carriage, NoHead} /\ flag' \in {flag, -2, -5}
    BY <1>7 DEF Grabbed, Release
  <2>b. faults' = faults \/ faults' = faults + 1
    BY <1>7 DEF Grabbed, Release
  <2>c. pc' \in {"again", "check"}
    BY <1>7 DEF Grabbed, AfterAttempt
  <2> QED BY <2>a, <2>b, <2>c
<1>8. CASE TryAgain
  <2>1. OnCarriage'
    BY <1>8, <1>c, <1>h, <1>t DEF TryAgain, Precheck, InRange
  <2>2. Blamed'
    BY <1>8, <1>c, <1>h, <1>t DEF TryAgain, Precheck, InRange
  <2>3. Looked'
    BY <1>8, <1>c, <1>h, <1>t DEF TryAgain, Precheck, InRange
  <2> QED BY <2>1, <2>2, <2>3
<1>9. CASE GiveUp
  BY <1>9 DEF GiveUp, AfterCheck, Checking
<1>10. CASE Select
  BY <1>10 DEF Select, AfterCheck, Checking
<1>11. CASE NoSecondCheck
  BY <1>11 DEF NoSecondCheck
<1>12. CASE Finish
  BY <1>12 DEF Finish, Returning
<1>13. CASE Abort
  BY <1>13 DEF Abort
<1>14. CASE Park
  BY <1>14 DEF Park
<1>15. CASE ParkCheck
  <2>1. CASE flag # 0 /\ ~second
    BY <1>15, <2>1 DEF ParkCheck
  <2>2. CASE ~(flag # 0 /\ ~second)
    BY <1>15, <2>2 DEF ParkCheck
  <2> QED BY <2>1, <2>2
<1>16. CASE FileStarts
  BY <1>16 DEF FileStarts
<1>17. CASE FileEnds
  BY <1>17 DEF FileEnds
<1>18. ASSUME NEW p \in Places, BodyRuns(p) PROVE Pickup'
  BY <1>18 DEF BodyRuns
<1>19. CASE HallChanges
  BY <1>19 DEF HallChanges
<1>20. CASE PowerCut
  BY <1>20 DEF PowerCut
<1>21. ASSUME NEW h \in Removable, Remove(h) PROVE Pickup'
  BY <1>21 DEF Remove, Docked
<1>22. ASSUME NEW h \in Removable, PutBack(h) PROVE Pickup'
  BY <1>22 DEF PutBack
<1>23. CASE UNCHANGED vars
  BY <1>23 DEF vars
<1> QED
  BY <1>1, <1>2, <1>3, <1>4, <1>5, <1>6, <1>7, <1>8, <1>9, <1>10, <1>11,
     <1>12, <1>13, <1>14, <1>15, <1>16, <1>17, <1>18, <1>19, <1>20, <1>21,
     <1>22, <1>23 DEF Next

\* With at most one fault no pickup is made with a head on the carriage.
THEOREM PickupCorrect == Spec => []PickupIsEmpty
<1>1. Pickup => PickupIsEmpty
  BY DEF Pickup, OnCarriage, Blamed, PickupIsEmpty
<1> QED BY <1>1, PickupInit, PickupStep, PTL DEF Spec

---------------------------------------------------------------------------
(* The belief.  After one fault current_extruder may have forgotten the    *)
(* head on the carriage, but it never names another one; a correction with *)
(* a good sensor makes the two equal, and a head is only named after the   *)
(* docks have shown that it is the one that left.                          *)

Believes ==
  /\ ce # NoHead /\ carriage # NoHead => ce = carriage
  /\ pc = "attempt" /\ flag = 0 => ce = carriage
  /\ pc = "drop" /\ flag = 0 /\ ~parking => ce = carriage /\ current = carriage
  /\ pc \in {"grab", "grabbed"} /\ flag = 0 => ce = NoHead
  /\ Checking /\ flag = 0 => carriage = target
  /\ outcome = "selected" => /\ carriage = target /\ ce = target
                             /\ pc \in {"again", "finish", "idle"}

Trusted ==
  /\ faults \in Int
  /\ carriage \in Heads \cup {NoHead}
  /\ parking => pc \in {"drop", "dropped", "parkcheck"}
  /\ pc = "parkcheck" => parking
  /\ Ordinary => Believes

\* With all heads in their places a correction finds the one on the carriage;
\* with a faulty sensor it may forget it.
LEMMA CorrectionFinds ==
  ASSUME carriage \in Heads \cup {NoHead}, away = {},
         ce # NoHead /\ carriage # NoHead => ce = carriage
  PROVE  /\ Corrected \in {NoHead, ce, carriage}
         /\ InRange => Corrected = carriage
<1> DEFINE last == CHOOSE h \in Undocked : \A g \in Undocked : g <= h
<1>1. NoHead \notin Heads /\ Heads \subseteq Int
  BY ToolAssumption DEF NoHead, Heads
<1>2. Undocked = IF carriage = NoHead THEN {} ELSE {carriage}
  BY <1>1 DEF Undocked, Docked
<1>3. carriage # NoHead => last = carriage
  BY <1>1, <1>2
<1> HIDE DEF last
<1>4. Corrected = IF ~Attached THEN NoHead
                  ELSE IF ce = NoHead /\ Undocked # {} THEN last ELSE ce
  BY DEF Corrected, last
<1> QED BY <1>1, <1>2, <1>3, <1>4 DEF InRange, Attached

LEMMA TrustedInit == Init => Trusted
BY ToolAssumption DEF Init, Trusted, Believes, Ordinary, Checking, Heads

LEMMA TrustedStep == Pickup /\ Trusted /\ [Next]_vars => Trusted'
<1> SUFFICES ASSUME Pickup, Trusted, [Next]_vars PROVE Trusted'
  OBVIOUS
<1>k. carriage' \in Heads \cup {NoHead}
  BY PickupStep DEF Pickup, OnCarriage
<1>c. Ordinary => /\ Corrected \in {NoHead, ce, carriage}
                  /\ InRange => Corrected = carriage
  BY CorrectionFinds DEF Trusted, Ordinary, Believes
<1>m. MaxFaults \in Int
  BY ToolAssumption
<1> USE <1>m, <1>k DEF Trusted, Believes, Ordinary, Checking, Fault, NoFault,
            belief, return, control, physics, motion, docks, world, history
<1>1. ASSUME NEW t \in Targets, Begin(t) PROVE Trusted'
  BY <1>1, <1>c DEF Begin, Capture, Precheck
<1>2. ASSUME NEW t \in Targets, BeginRefused(t) PROVE Trusted'
  BY <1>2 DEF BeginRefused, Capture
<1>3. CASE Attempt
  BY <1>3 DEF Attempt, AfterAttempt, LiftStep
<1>4. CASE Drop
  <2>a. /\ UNCHANGED <<ce, current, parking, target, outcome, handled>> /\ pc = "drop"
        /\ carriage' \in {carriage, NoHead} /\ flag' \in {flag, -3}
        /\ faults' \in {faults, faults + 1} /\ (away = away' \/ away' # {})
    BY <1>4 DEF Drop, Release
  <2>b. pc' \in {"dropped", "parkcheck", "grab"} /\ (pc' = "grab" => ~parking)
        /\ (pc' = "parkcheck" => parking)
    BY <1>4 DEF Drop, AfterUnlock
  <2>c. pc' = "dropped" \/ flag' = -3 \/ (flag' = flag /\ (flag # 0 \/ current = NoHead))
    BY <1>4 DEF Drop
  <2> QED BY <2>a, <2>b, <2>c
<1>5. CASE Dropped
  BY <1>5 DEF Dropped, AfterUnlock, Attached
<1>6. CASE Grab
  BY <1>6 DEF Grab, AfterAttempt, Descend, Docked
<1>7. CASE Grabbed
  <2>a. /\ UNCHANGED <<ce, parking, target, outcome, handled>> /\ pc = "grabbed"
        /\ carriage' \in {carriage, NoHead} /\ pc' \in {"again", "check"}
        /\ faults' \in {faults, faults + 1} /\ (away = away' \/ away' # {})
    BY <1>7 DEF Grabbed, AfterAttempt, Release
  <2>b. flag' = 0 => ~Docked(target) /\ UNCHANGED <<away, carriage, flag>> /\ Attached /\ latched
    BY <1>7 DEF Grabbed
  <2>c. flag' = 0 /\ away = {} => carriage' = target
    BY <2>b DEF Docked
  <2> QED BY <2>a, <2>c
<1>8. CASE TryAgain
  BY <1>8, <1>c DEF TryAgain, Precheck
<1>9. CASE GiveUp
  BY <1>9 DEF GiveUp, AfterCheck, Checking
<1>10. CASE Select
  BY <1>10 DEF Select, AfterCheck, Checking
<1>11. CASE NoSecondCheck
  BY <1>11 DEF NoSecondCheck
<1>12. CASE Finish
  BY <1>12 DEF Finish, Returning
<1>13. CASE Abort
  BY <1>13 DEF Abort
<1>14. CASE Park
  BY <1>14 DEF Park
<1>15. CASE ParkCheck
  <2>1. CASE flag # 0 /\ ~second
    BY <1>15, <2>1 DEF ParkCheck
  <2>2. CASE ~(flag # 0 /\ ~second)
    BY <1>15, <2>2 DEF ParkCheck
  <2> QED BY <2>1, <2>2
<1>16. CASE FileStarts
  BY <1>16 DEF FileStarts
<1>17. CASE FileEnds
  BY <1>17 DEF FileEnds
<1>18. ASSUME NEW p \in Places, BodyRuns(p) PROVE Trusted'
  BY <1>18 DEF BodyRuns
<1>19. CASE HallChanges
  BY <1>19 DEF HallChanges
<1>20. CASE PowerCut
  BY <1>20 DEF PowerCut
<1>21. ASSUME NEW h \in Removable, Remove(h) PROVE Trusted'
  BY <1>21 DEF Remove, Docked
<1>22. ASSUME NEW h \in Removable, PutBack(h) PROVE Trusted'
  BY <1>22 DEF PutBack
<1>23. CASE UNCHANGED vars
  BY <1>23 DEF vars
<1> QED
  BY <1>1, <1>2, <1>3, <1>4, <1>5, <1>6, <1>7, <1>8, <1>9, <1>10, <1>11,
     <1>12, <1>13, <1>14, <1>15, <1>16, <1>17, <1>18, <1>19, <1>20, <1>21,
     <1>22, <1>23 DEF Next

\* One step of a change lets no head fall.
LEMMA FallStep == Trusted /\ [Next]_vars
                    => (Ordinary /\ ~parking /\ faults' <= 1 /\ ~handled' => away' = {})
<1> SUFFICES ASSUME Trusted, [Next]_vars, Ordinary, ~parking, ~handled'
             PROVE  away' = {}
  OBVIOUS
<1> USE DEF Trusted, Believes, Ordinary,
            belief, return, control, physics, motion, docks, world, history
<1>1. ASSUME NEW t \in Targets, Begin(t) PROVE away' = {}
  BY <1>1 DEF Begin, Capture, Precheck
<1>2. ASSUME NEW t \in Targets, BeginRefused(t) PROVE away' = {}
  BY <1>2 DEF BeginRefused, Capture
<1>3. CASE Attempt
  BY <1>3 DEF Attempt, AfterAttempt, LiftStep
<1>4. CASE Drop
  BY <1>4 DEF Drop, AfterUnlock, Release, Docked
<1>5. CASE Dropped
  BY <1>5 DEF Dropped, AfterUnlock, Attached
<1>6. CASE Grab
  BY <1>6 DEF Grab, AfterAttempt, Descend, Docked
<1>7. CASE Grabbed
  BY <1>7 DEF Grabbed, AfterAttempt, Descend, Release
<1>8. CASE TryAgain
  BY <1>8 DEF TryAgain, Precheck
<1>9. CASE GiveUp
  BY <1>9 DEF GiveUp, AfterCheck, Checking
<1>10. CASE Select
  BY <1>10 DEF Select, AfterCheck, Checking
<1>11. CASE NoSecondCheck
  BY <1>11 DEF NoSecondCheck
<1>12. CASE Finish
  BY <1>12 DEF Finish, Returning
<1>13. CASE Abort
  BY <1>13 DEF Abort
<1>14. CASE Park
  BY <1>14 DEF Park
<1>15. CASE ParkCheck
  <2>1. CASE flag # 0 /\ ~second
    BY <1>15, <2>1 DEF ParkCheck
  <2>2. CASE ~(flag # 0 /\ ~second)
    BY <1>15, <2>2 DEF ParkCheck
  <2> QED BY <2>1, <2>2
<1>16. CASE FileStarts
  BY <1>16 DEF FileStarts
<1>17. CASE FileEnds
  BY <1>17 DEF FileEnds
<1>18. ASSUME NEW p \in Places, BodyRuns(p) PROVE away' = {}
  BY <1>18 DEF BodyRuns
<1>19. CASE HallChanges
  BY <1>19 DEF HallChanges
<1>20. CASE PowerCut
  BY <1>20 DEF PowerCut
<1>21. ASSUME NEW h \in Removable, Remove(h) PROVE away' = {}
  BY <1>21 DEF Remove, Docked
<1>22. ASSUME NEW h \in Removable, PutBack(h) PROVE away' = {}
  BY <1>22 DEF PutBack
<1>23. CASE UNCHANGED vars
  BY <1>23 DEF vars
<1> QED
  BY <1>1, <1>2, <1>3, <1>4, <1>5, <1>6, <1>7, <1>8, <1>9, <1>10, <1>11,
     <1>12, <1>13, <1>14, <1>15, <1>16, <1>17, <1>18, <1>19, <1>20, <1>21,
     <1>22, <1>23 DEF Next

\* The change puts back what it carries: it never turns the latch for a head
\* that is not there, nor in the air under one it does not know of.
THEOREM DropCorrect == Spec => []DropsWhatItCarries
<1>1. Trusted => DropsWhatItCarries
  BY DEF Trusted, Believes, DropsWhatItCarries
<1> QED BY <1>1, PickupInit, PickupStep, TrustedInit, TrustedStep, PTL DEF Spec

\* A change that reports success has the head it was asked for on the carriage
\* and in current_extruder.
THEOREM SelectionCorrect == Spec => []SelectedIsMounted
<1>1. Trusted => SelectedIsMounted
  BY DEF Trusted, Believes, SelectedIsMounted
<1> QED BY <1>1, PickupInit, PickupStep, TrustedInit, TrustedStep, PTL DEF Spec

\* No head falls in a change with at most one fault.
THEOREM FallCorrect == Spec => NothingFalls
<1>1. Trusted /\ [Next]_vars => [Ordinary /\ ~parking /\ faults' <= 1 /\ ~handled' => away' = {}]_vars
  BY FallStep
<1> QED BY <1>1, PickupInit, PickupStep, TrustedInit, TrustedStep, PTL DEF Spec, NothingFalls
=============================================================================
