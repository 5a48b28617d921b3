---------------------------- MODULE ToolChange ----------------------------
(***************************************************************************)
(* The tool change of config/live/change_macros.cfg: T<n> puts the mounted *)
(* head back into its dock and picks another one up, checks every step     *)
(* with three kinds of sensor, tries once more when a step failed, and in  *)
(* the body of a print returns the new head to where the old one left.     *)
(*                                                                         *)
(* Two things are kept apart on purpose: what is on the carriage           *)
(* ("carriage", "away") and what the macros believe ("ce", the saved       *)
(* current_extruder, which survives a power cut).  Moving to a dock and    *)
(* turning the latch under a wrong belief rams a dock or drops a head.     *)
(*                                                                         *)
(* A macro is rendered on entry, so one step below is the part of the      *)
(* change that works on one reading of the sensors.                        *)
(***************************************************************************)
EXTENDS Integers

CONSTANTS
  Installed,   \* thr_number: heads 0 .. Installed - 1 exist
  Orders,      \* which head hangs at the saved dock position of which head
  Removable,   \* heads an operator may take out of their docks
  Headroom,    \* how many lifts fit below the top of the Z travel
  MaxFaults    \* bound: how many faults of the hardware a behaviour has

NoHead  == 99
Heads   == 0 .. Installed - 1
Targets == 0 .. Installed          \* a mapping can name a missing head
Places  == {"p1", "p2"}            \* positions of a print body
Points  == Places \cup {"dock", "park", "wiper", "xyhome"}

ASSUME ToolAssumption ==
  /\ Installed \in 1 .. 4 /\ Removable \subseteq Heads
  /\ Orders \subseteq [Heads -> Heads] /\ Orders # {}
  /\ \A o \in Orders, g, h \in Heads : o[g] = o[h] => g = h
  /\ Headroom \in Nat \ {0} /\ MaxFaults \in Nat

VARIABLES
  (* saved variables *)
  ce,        \* current_extruder
  flag,      \* fail_flag: 0, or -1 no head in the dock, -2 not locked,
             \* -3 not released, -4 hall sensor, -5 another head picked up
  (* Klipper's memory *)
  retry,     \* _CHECK_CHANGE_TOOL.retry
  pending, success, position,   \* of _WMP_TOOL_RETURN_BEGIN
  need,      \* _descend_z.need_descend
  save,      \* _CHANGE_TOOL.save_position
  mode,      \* "idle", "startup" (printing, body not ready), "body"
  halt,      \* PAUSE ran inside the change
  pc, target,
  current,   \* current_tool as rendered on entry of _CHANGING_TOOL
  second,    \* inside the attempt of the retry
  parking,   \* the change is PARK_CURRENT_TOOL
  (* the machine *)
  carriage,  \* the head on the carriage
  latched,   \* sensor_b
  away,      \* heads in no dock and not on the carriage
  order,     \* the docks' contents by saved position
  hall,      \* "ok", or the reading a faulty sensor gives: "low", "high"
  at, lift,  \* the nozzle: a place of the part or elsewhere; lifts kept
  faults,
  (* history *)
  handled,   \* an operator has moved a head
  origin,    \* where a body stood when it asked for another head, or "none"
  from,      \* the lift when the change began
  outcome    \* of the last change

belief  == <<ce, flag>>
return  == <<pending, success, position, need>>
control == <<target, current, second, parking>>
physics == <<carriage, latched, away>>
motion  == <<at, lift>>
docks   == <<order, handled>>
world   == <<docks, hall, faults>>
history == <<origin, from, outcome>>
vars == <<belief, retry, return, save, mode, halt, pc, control, physics,
          motion, world, history>>

TypeOK ==
  /\ ce \in Targets \cup {NoHead} /\ flag \in -5 .. 0
  /\ retry \in BOOLEAN /\ pending \in BOOLEAN /\ success \in BOOLEAN
  /\ position \in Points /\ need \in BOOLEAN /\ save \in BOOLEAN
  /\ mode \in {"idle", "startup", "body"} /\ halt \in BOOLEAN
  /\ pc \in {"idle", "attempt", "drop", "dropped", "grab", "grabbed",
             "check", "again", "finish", "parkcheck"}
  /\ target \in Targets /\ current \in Heads \cup {NoHead}
  /\ second \in BOOLEAN /\ parking \in BOOLEAN
  /\ carriage \in Heads \cup {NoHead} /\ latched \in BOOLEAN
  /\ away \subseteq Heads /\ carriage \notin away
  /\ order \in Orders /\ hall \in {"ok", "low", "high"}
  /\ at \in Points
  /\ lift \in 0 .. Headroom /\ from \in 0 .. Headroom
  /\ faults \in 0 .. MaxFaults /\ handled \in BOOLEAN
  /\ origin \in Points \cup {"none"}
  /\ outcome \in {"none", "selected", "failed"}

Init ==
  /\ ce = NoHead /\ flag = 0 /\ retry = FALSE
  /\ pending = FALSE /\ success = FALSE /\ position = "p1" /\ need = FALSE
  /\ save = FALSE /\ mode = "idle" /\ halt = FALSE /\ pc = "idle"
  /\ target = 0 /\ current = NoHead /\ second = FALSE /\ parking = FALSE
  /\ carriage = NoHead /\ latched = FALSE /\ away = {}
  /\ order \in Orders /\ handled = FALSE /\ hall = "ok" /\ at = "park" /\ lift = 0
  /\ faults = 0 /\ origin = "none" /\ from = 0 /\ outcome = "none"

---------------------------------------------------------------------------
(* The sensors *)

\* Each head reports whether it sits in a dock.
Docked(h)   == h # carriage /\ h \notin away
Undocked    == {h \in Heads : ~Docked(h)}
InRange     == hall = "ok"
\* custom_hall.Raw < 4700: a magnet of a head is near.
Attached    == hall = "low" \/ (hall = "ok" /\ carriage # NoHead)

\* A bug: never corrects to a mounted head.
CorrectedDown == IF ~Attached THEN NoHead ELSE ce

\* _check_current_extruder_value: a stale belief is corrected from the hall
\* sensor and the docks; of several undocked heads the last one is taken.
Corrected ==
  IF ~Attached THEN NoHead
  ELSE IF ce = NoHead /\ Undocked # {}
       THEN CHOOSE h \in Undocked : \A g \in Undocked : g <= h
       ELSE ce

\* A bug: without _check_hall_sensor.
PrecheckNoHall(t) == IF t >= Installed THEN -1 ELSE 0

\* _check_hall_sensor, then _check_tool_exist, starting from fail_flag 0.
Precheck(t) == IF ~InRange THEN -4 ELSE IF t >= Installed THEN -1 ELSE 0

Fault == faults < MaxFaults /\ faults' = faults + 1
NoFault == faults' = faults

---------------------------------------------------------------------------
(* _CHANGE_TOOL *)

\* _WMP_TOOL_RETURN_BEGIN decides from what current_extruder says before it
\* is corrected; then the flags are reset and the three checks run.
Capture(t) == mode = "body" /\ save /\ ce # t
Begin(t) ==
  /\ pc = "idle" /\ pc' = "attempt" /\ target' = t /\ second' = FALSE
  /\ pending' = Capture(t) /\ success' = FALSE
  /\ position' = IF Capture(t) THEN at ELSE position
  /\ need' = IF Capture(t) THEN FALSE ELSE need
  /\ ce' = Corrected /\ flag' = Precheck(t) /\ retry' = FALSE
  /\ origin' = IF mode = "body" /\ ce # t THEN at ELSE "none"
  /\ from' = lift /\ outcome' = "none"
  /\ UNCHANGED <<save, mode, halt, current, parking, physics, motion, world>>

\* A return cannot be prepared (position unknown, no clearance): the T
\* command raises an error and the file stops.
BeginRefused(t) ==
  /\ pc = "idle" /\ Capture(t) /\ mode' = "idle" /\ outcome' = "failed"
  /\ UNCHANGED <<belief, retry, return, save, halt, pc, control, physics,
                 motion, world, origin, from>>

\* _CHANGING_TOOL up to the docks: XY is homed again for a retry, whatever
\* the flag says; the lift of a captured change is made once.
AfterAttempt == IF second THEN "again" ELSE "check"
LiftStep ==
  IF pending /\ need THEN UNCHANGED <<lift, need>>
  ELSE \/ lift < Headroom /\ lift' = lift + 1 /\ need' = TRUE
       \/ lift = Headroom /\ lift' = lift /\ need' = FALSE
Attempt ==
  /\ pc = "attempt" /\ current' = ce
  /\ IF flag = 0 /\ ce # target
     THEN LiftStep /\ pc' = "drop" /\ at' = "dock"
     ELSE /\ pc' = AfterAttempt /\ UNCHANGED <<lift, need>>
          /\ at' = IF retry THEN "xyhome" ELSE at
  /\ UNCHANGED <<belief, retry, pending, success, position, save, mode, halt,
                 target, second, parking, physics, world, history>>

\* UNLOCK turns the latch: the head stays behind, or sticks to the carriage.
\* Away from its dock it falls.
Release(docking) ==
  \/ /\ latched' = FALSE /\ carriage' = NoHead /\ NoFault
     /\ away' = IF docking \/ carriage = NoHead THEN away
                ELSE away \cup {carriage}
  \/ /\ carriage # NoHead /\ Fault /\ latched' \in {latched, FALSE}
     /\ UNCHANGED <<carriage, away>>

\* _UNLOCK_TOOL and _CHECK_AND_UNLOCK: with no head to put back only the
\* latch turns; otherwise the head must sit in its dock.
AfterUnlock == IF parking THEN "parkcheck" ELSE "grab"
Drop ==
  /\ pc = "drop"
  /\ \/ /\ flag # 0 /\ pc' = AfterUnlock
        /\ NoFault /\ UNCHANGED <<flag, physics>>
     \/ /\ flag = 0 /\ current = NoHead
        /\ Release(FALSE) /\ pc' = AfterUnlock /\ UNCHANGED flag
     \/ /\ flag = 0 /\ current # NoHead
        /\ (current = carriage /\ order[current] = current) \/ Docked(current)
        /\ Release(current = carriage)
        /\ pc' = "dropped" /\ UNCHANGED flag
     \/ /\ flag = 0 /\ current # NoHead /\ ~Docked(current)
        /\ IF current = carriage /\ order[current] = current
           THEN Fault ELSE NoFault                      \* badly seated
        /\ flag' = -3 /\ pc' = AfterUnlock /\ UNCHANGED physics
  /\ UNCHANGED <<ce, retry, return, save, mode, halt, control, motion, docks,
                 hall, history>>

\* A bug: takes the head for released without looking.
UnlockUnchecked ==
  /\ pc = "dropped" /\ pc' = AfterUnlock /\ ce' = NoHead /\ UNCHANGED flag
  /\ UNCHANGED <<retry, return, save, mode, halt, control, physics, motion,
                 world, history>>

\* UNLOCK_TOOL_FINISH, read after moving away from the dock.
Dropped ==
  /\ pc = "dropped" /\ pc' = AfterUnlock
  /\ IF ~Attached /\ ~latched
     THEN ce' = NoHead /\ UNCHANGED flag
     ELSE flag' = -3 /\ UNCHANGED ce
  /\ UNCHANGED <<retry, return, save, mode, halt, control, physics, motion,
                 world, history>>

\* A bug: descends at the docks in a print body too.
DescendCaptured ==
  IF need THEN lift' = lift - 1 /\ need' = FALSE ELSE UNCHANGED <<lift, need>>

\* _descend_z at the end of an attempt that is not to return.
Descend ==
  IF ~pending /\ need THEN lift' = lift - 1 /\ need' = FALSE
  ELSE UNCHANGED <<lift, need>>

\* _LOCK_TOOL and _CHECK_AND_LOCK: the target must hang in a dock, then the
\* latch closes on whatever hangs at the target's saved position.
Grab ==
  /\ pc = "grab"
  /\ \/ /\ flag = 0 /\ Docked(target) /\ pc' = "grabbed"
        /\ \/ /\ carriage = NoHead /\ Docked(order[target])
              /\ carriage' = order[target] /\ latched' = TRUE /\ NoFault
           \/ /\ carriage = NoHead /\ Docked(order[target]) /\ Fault
              /\ UNCHANGED <<carriage, latched>>
           \/ /\ carriage = NoHead /\ ~Docked(order[target]) /\ NoFault
              /\ latched' \in BOOLEAN /\ UNCHANGED carriage
           \/ /\ carriage # NoHead /\ UNCHANGED <<carriage, latched>> /\ NoFault
        /\ UNCHANGED <<flag, need, lift>>
     \/ /\ flag # 0 \/ ~Docked(target)
        /\ flag' = (IF flag = 0 THEN -1 ELSE flag) /\ pc' = AfterAttempt
        /\ Descend /\ NoFault /\ UNCHANGED <<carriage, latched>>
  /\ UNCHANGED <<ce, retry, pending, success, position, save, mode, halt,
                 control, away, at, docks, hall, history>>

\* A bug: without _CHECK_T_SEQUENCE.
SequenceUnchecked ==
  /\ pc = "grabbed" /\ pc' = AfterAttempt /\ Descend
  /\ IF Attached /\ latched
     THEN NoFault /\ UNCHANGED <<flag, retry, physics>>
     ELSE flag' = -2 /\ Release(TRUE) /\ UNCHANGED retry
  /\ UNCHANGED <<ce, pending, success, position, save, mode, halt, control,
                 at, docks, hall, history>>

\* _LOCK_TOOL_FINISH turns the latch back unless hall sensor and latch agree
\* that a head is held; _CHECK_T_SEQUENCE then looks whether the target has
\* left its dock.
Grabbed ==
  /\ pc = "grabbed" /\ pc' = AfterAttempt /\ Descend
  /\ IF Attached /\ latched
     THEN IF Docked(target) THEN flag' = -5 /\ retry' = TRUE /\ NoFault /\ UNCHANGED physics
          ELSE NoFault /\ UNCHANGED <<flag, retry, physics>>
     ELSE flag' = -2 /\ Release(TRUE) /\ UNCHANGED retry
  /\ UNCHANGED <<ce, pending, success, position, save, mode, halt, control,
                 at, docks, hall, history>>

---------------------------------------------------------------------------
(* _CHECK_CHANGE_TOOL, run once, and once more by _CHECK_CHANGE_TOOL_AGAIN *)

TryAgain ==
  /\ pc = "check" /\ flag # 0 /\ ~retry
  /\ retry' = TRUE /\ second' = TRUE /\ pc' = "attempt"
  /\ ce' = Corrected /\ flag' = Precheck(target)
  /\ UNCHANGED <<return, save, mode, halt, target, current, parking, physics,
                 motion, world, history>>

AfterCheck == IF pc = "check" THEN "again" ELSE "finish"
Checking == pc = "check" \/ (pc = "again" /\ retry)

\* The second failure: homed, parked and paused when a file is printing.
GiveUp ==
  /\ Checking /\ flag # 0 /\ retry
  /\ retry' = FALSE /\ success' = FALSE /\ flag' = 0 /\ pc' = AfterCheck
  /\ IF mode = "idle" THEN UNCHANGED <<at, halt>>
                      ELSE at' = "park" /\ halt' = TRUE
  /\ outcome' = "failed"
  /\ UNCHANGED <<ce, pending, position, need, save, mode, control, physics,
                 lift, world, origin, from>>

\* Offsets, flow and extruder of the new head, its temperature, and a wipe
\* unless current_extruder named the head all along.
Select ==
  /\ Checking /\ flag = 0
  /\ ce' = target /\ success' = TRUE /\ pc' = AfterCheck
  /\ at' = IF ce # target THEN "wiper" ELSE at
  /\ outcome' = "selected"
  /\ UNCHANGED <<flag, retry, pending, position, need, save, mode, halt,
                 control, physics, lift, world, origin, from>>

NoSecondCheck ==
  /\ pc = "again" /\ ~retry /\ pc' = "finish"
  /\ UNCHANGED <<belief, retry, return, save, mode, halt, control, physics,
                 motion, world, history>>

\* A bug: forgets the return after a retry.
ReturningFirstTry == pending /\ success /\ ~retry /\ mode # "idle"

\* _WMP_TOOL_RETURN_FINISH and the end of _CHANGE_TOOL; a file that PAUSE
\* stopped stands still once the T command is over.
Returning == pending /\ success /\ mode # "idle"
Finish ==
  /\ pc = "finish" /\ pc' = "idle"
  /\ at' = IF Returning THEN position ELSE at
  /\ lift' = IF Returning THEN 0 ELSE lift
  /\ pending' = FALSE /\ success' = FALSE /\ need' = FALSE /\ save' = TRUE
  /\ mode' = (IF halt THEN "idle" ELSE mode) /\ halt' = FALSE
  /\ UNCHANGED <<belief, retry, position, control, physics, world, history>>

\* A command inside the change fails (a move, homing, a heater): the rest of
\* T<n> is not run, and a file that ran it stops.
Abort ==
  /\ pc # "idle" /\ Fault
  /\ pc' = "idle" /\ mode' = "idle" /\ halt' = FALSE /\ outcome' = "failed"
  /\ parking' = FALSE
  /\ UNCHANGED <<belief, retry, return, save, target, current, second,
                 physics, motion, docks, hall, origin, from>>

---------------------------------------------------------------------------
(* PARK_CURRENT_TOOL: put the mounted head back, and try that once more *)

Park ==
  /\ pc = "idle" /\ mode = "idle"
  /\ flag' = 0 /\ current' = ce /\ second' = FALSE /\ parking' = TRUE
  /\ pc' = "drop" /\ at' = "dock" /\ outcome' = "none"
  /\ UNCHANGED <<ce, retry, return, save, mode, halt, target, physics, lift,
                 world, origin, from>>

\* PARK_CURRENT_TOOL_RETRY: current_extruder is read again, not corrected.
ParkCheck ==
  /\ pc = "parkcheck"
  /\ IF flag # 0 /\ ~second
     THEN /\ flag' = 0 /\ current' = ce /\ second' = TRUE /\ pc' = "drop"
          /\ UNCHANGED parking
     ELSE /\ pc' = "idle" /\ parking' = FALSE
          /\ UNCHANGED <<flag, current, second>>
  /\ UNCHANGED <<ce, retry, return, save, mode, halt, target, physics, motion,
                 world, history>>

---------------------------------------------------------------------------
(* Everything around the change *)

\* START_PRINT homes and picks a head, RESUME picks one: only then the body
\* goes on from some place of the part.
FileStarts ==
  /\ pc = "idle" /\ mode = "idle" /\ mode' = "startup"
  /\ at' = "park" /\ lift' = 0 /\ outcome' = "none" /\ origin' = "none"
  /\ UNCHANGED <<belief, retry, return, save, halt, pc, control, physics,
                 world, from>>
BodyRuns(p) ==
  /\ pc = "idle" /\ (mode = "body" \/ outcome = "selected")
  /\ mode' = "body" /\ at' = p /\ lift' = 0 /\ outcome' = "none"
  /\ origin' = "none"
  /\ UNCHANGED <<belief, retry, return, save, halt, pc, control, physics,
                 world, from>>
FileEnds ==
  /\ pc = "idle" /\ mode \in {"startup", "body"} /\ mode' = "idle"
  /\ at' = "park" /\ lift' = 0 /\ outcome' = "none" /\ origin' = "none"
  /\ UNCHANGED <<belief, retry, return, save, halt, pc, control, physics,
                 world, from>>

HallChanges ==
  /\ \/ hall = "ok" /\ Fault /\ hall' \in {"low", "high"}
     \/ hall # "ok" /\ hall' = "ok" /\ NoFault
  /\ UNCHANGED <<belief, retry, return, save, mode, halt, pc, control,
                 physics, motion, docks, history>>
Remove(h) ==
  /\ Docked(h) /\ away' = away \cup {h} /\ handled' = TRUE
  /\ UNCHANGED <<belief, retry, return, save, mode, halt, pc, control,
                 carriage, latched, motion, order, hall, faults, history>>
PutBack(h) ==
  /\ h \in away /\ away' = away \ {h} /\ handled' = TRUE
  /\ UNCHANGED <<belief, retry, return, save, mode, halt, pc, control,
                 carriage, latched, motion, order, hall, faults, history>>
PowerCut ==
  /\ Fault /\ pc' = "idle" /\ mode' = "idle" /\ halt' = FALSE
  /\ retry' = FALSE /\ pending' = FALSE /\ success' = FALSE /\ need' = FALSE
  /\ save' = FALSE /\ position' = "p1" /\ outcome' = "none" /\ origin' = "none"
  /\ at' = "park" /\ lift' = 0
  /\ parking' = FALSE
  /\ UNCHANGED <<belief, target, current, second, physics, docks, hall, from>>

Next ==
  \/ \E t \in Targets : Begin(t) \/ BeginRefused(t)
  \/ Attempt \/ Drop \/ Dropped \/ Grab \/ Grabbed
  \/ TryAgain \/ GiveUp \/ Select \/ NoSecondCheck \/ Finish \/ Abort
  \/ Park \/ ParkCheck
  \/ FileStarts \/ FileEnds \/ \E p \in Places : BodyRuns(p)
  \/ HallChanges \/ PowerCut
  \/ \E h \in Removable : Remove(h) \/ PutBack(h)

Spec == Init /\ [][Next]_vars

---------------------------------------------------------------------------
(* Properties *)

\* What the macros are built for: any one fault, heads that nobody else moves,
\* and each of them in a dock or on the carriage.  (PARK_CURRENT_TOOL can drop
\* one after an aborted change; the docks' sensors then count two heads as
\* undocked, and the correction may believe in the wrong one.)
Ordinary == faults <= 1 /\ ~handled /\ away = {}

\* A change that ends in success leaves the head it was asked for locked on
\* the carriage and named by current_extruder, whatever one fault there was on
\* the way, also when the heads hang in the wrong order.
SelectedIsMounted ==
  pc = "idle" /\ outcome = "selected" /\ Ordinary
    => carriage = target /\ ce = target

\* What _check_current_extruder_value leaves is what is on the carriage: no
\* head is put back that is not there, and the latch never turns in the air
\* under a head the macros do not know of.
DropsWhatItCarries ==
  pc = "drop" /\ flag = 0 /\ ~parking /\ Ordinary => current = carriage

\* No pickup with a head on the carriage.
PickupIsEmpty == pc = "grab" /\ flag = 0 /\ faults <= 1 => carriage = NoHead

\* No change lets a head fall: the latch opens only in a dock or under none.
NothingFalls ==
  [][Ordinary /\ ~parking /\ faults' <= 1 /\ ~handled' => away' = {}]_vars

\* The nozzle of a change to another head in a print body comes back to the
\* place of the part it left, with its lift taken back; any other change takes
\* back every lift that an attempt of it made.
ReturnsToPart ==
  pc = "idle" /\ outcome = "selected" =>
    IF origin # "none" THEN at = origin /\ lift = 0 ELSE lift = from

\* The lift a captured change makes is kept until the return, through the
\* retry, and after a failure.
LiftKept == [][pending /\ pc # "idle" /\ mode' # "idle" /\ lift' < lift => at' = origin]_vars

---------------------------------------------------------------------------
(* What the text says and the code does not keep: TLC finds a behaviour    *)
(* that violates each of these.                                            *)

\* "Cannot unlock: no tool is attached": when _UNLOCK_TOOL says so and turns
\* the latch, no head is on the carriage.
UnlocksNothing ==
  pc = "drop" /\ flag = 0 /\ current = NoHead => carriage = NoHead

\* "The requested head is already selected": when _check_tool_exist says so,
\* the head is on the carriage.
AlreadySelected ==
  pc = "attempt" /\ flag = 0 /\ Attached /\ ce = target /\ ~Docked(target)
    => carriage = target

\* "A terminal failure ... leaves the lift in place."
FailureKeepsLift ==
  pc \in {"again", "finish"} /\ outcome = "failed" /\ origin # "none" => lift > 0
=============================================================================
