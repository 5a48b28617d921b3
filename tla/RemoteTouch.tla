---------------------------- MODULE RemoteTouch ----------------------------
(***************************************************************************)
(* Remote taps and swipes: Touch and the POST handlers of                  *)
(* device/wmp_screen.py.  A handler thread checks that touch is on, takes  *)
(* the lock, looks at the backlight, wakes a dark screen with a press of   *)
(* its own, and then writes the gesture to the panel's input device, where *)
(* any write may fail.  The vendor's client takes the first press on a     *)
(* dark screen for a wish to wake it and for nothing else.                 *)
(***************************************************************************)
EXTENDS Integers

CONSTANTS
  Threads,     \* handler threads
  None,        \* no thread
  Races,       \* may the screen go dark or bright while a gesture is sent?
  Moves,       \* positions a swipe reports on its way
  MaxAsks      \* bound on requests

ASSUME TouchAssumption ==
  /\ None \notin Threads /\ Races \in BOOLEAN
  /\ Moves \in Nat /\ MaxAsks \in Nat

VARIABLES
  armed,       \* Handler.armed
  lock,        \* who holds Touch.lock
  pc, left,    \* by thread: its step, and the moves it has still to report
  swipe,       \* by thread: a swipe, not a tap
  answer,      \* by thread: what its last request was answered
  finger,      \* the panel: whose contact is down
  dark,        \* the backlight is off
  heard,       \* the client takes the contact for input
  (* history *)
  done,        \* by thread: gestures the client got for its request
  stuck,       \* a write failed while the contact was down
  asks

request == <<pc, left, swipe, answer>>
panel   == <<finger, dark, heard, stuck>>
vars == <<armed, lock, request, panel, done, asks>>

Sending == {"look", "wake", "waking", "press", "held"}

TypeOK ==
  /\ armed \in BOOLEAN /\ dark \in BOOLEAN /\ heard \in BOOLEAN /\ stuck \in BOOLEAN
  /\ pc \in [Threads -> Sending \cup {"idle", "queued"}]
  /\ left \in [Threads -> 0 .. Moves] /\ swipe \in [Threads -> BOOLEAN]
  /\ answer \in [Threads -> {"none", "done", "blocked", "error"}]
  /\ lock \in Threads \cup {None} /\ finger \in Threads \cup {None}
  /\ done \in [Threads -> Nat] /\ asks \in 0 .. MaxAsks

Init ==
  /\ armed \in BOOLEAN /\ lock = None
  /\ pc = [t \in Threads |-> "idle"] /\ left = [t \in Threads |-> 0]
  /\ swipe = [t \in Threads |-> FALSE] /\ answer = [t \in Threads |-> "none"]
  /\ finger = None /\ dark \in BOOLEAN /\ heard = FALSE /\ stuck = FALSE
  /\ done = [t \in Threads |-> 0] /\ asks = 0

Goto(t, step) == pc' = [pc EXCEPT ![t] = step]
Answer(t, a)  == answer' = [answer EXCEPT ![t] = a]

---------------------------------------------------------------------------
(* The requests *)

\* POST /api/arm
Arm(on) ==
  /\ armed # on /\ armed' = on
  /\ UNCHANGED <<lock, request, panel, done, asks>>

\* POST /api/tap and /api/swipe: the check comes before the lock.
Ask(t, s) ==
  /\ pc[t] = "idle" /\ asks < MaxAsks /\ asks' = asks + 1
  /\ IF armed THEN Goto(t, "queued") /\ Answer(t, "none")
              ELSE Answer(t, "blocked") /\ UNCHANGED pc
  /\ swipe' = [swipe EXCEPT ![t] = s] /\ done' = [done EXCEPT ![t] = 0]
  /\ UNCHANGED <<armed, lock, left, panel>>

\* A bug: no lock.
TakeUnlocked(t) ==
  /\ pc[t] = "queued"
  /\ lock' = t /\ Goto(t, "look")
  /\ UNCHANGED <<armed, left, swipe, answer, panel, done, asks>>
Take(t) ==
  /\ pc[t] = "queued" /\ lock = None
  /\ lock' = t /\ Goto(t, "look")
  /\ UNCHANGED <<armed, left, swipe, answer, panel, done, asks>>
\* The device does not open: the lock is free again at once.
OpenFails(t) ==
  /\ pc[t] = "queued" /\ lock = None
  /\ Goto(t, "idle") /\ Answer(t, "error")
  /\ UNCHANGED <<armed, lock, left, swipe, panel, done, asks>>

\* _wake_if_dark reads the backlight
Look(t) ==
  /\ pc[t] = "look" /\ Goto(t, IF dark THEN "wake" ELSE "press")
  /\ UNCHANGED <<armed, lock, left, swipe, answer, panel, done, asks>>

\* _down.  A contact left behind is replaced: the tracking number is new.
Down(t) ==
  /\ finger' = t /\ dark' = FALSE /\ heard' = ~dark /\ stuck' = FALSE
\* _up
Up(t) ==
  /\ finger' = None /\ heard' = FALSE /\ stuck' = FALSE
  /\ done' = IF heard THEN [done EXCEPT ![t] = @ + 1] ELSE done
  /\ UNCHANGED dark

Wake(t) ==
  /\ pc[t] = "wake" /\ Down(t) /\ Goto(t, "waking")
  /\ UNCHANGED <<armed, lock, left, swipe, answer, done, asks>>
\* A bug: the press that wakes is not lifted.
WokenPressed(t) ==
  /\ pc[t] = "waking" /\ Goto(t, "press")
  /\ UNCHANGED <<armed, lock, left, swipe, answer, panel, done, asks>>
Woken(t) ==
  /\ pc[t] = "waking" /\ Up(t) /\ Goto(t, "press")
  /\ UNCHANGED <<armed, lock, left, swipe, answer, asks>>
Press(t) ==
  /\ pc[t] = "press" /\ Down(t) /\ Goto(t, "held")
  /\ left' = [left EXCEPT ![t] = IF swipe[t] THEN Moves ELSE 0]
  /\ UNCHANGED <<armed, lock, swipe, answer, done, asks>>
Move(t) ==
  /\ pc[t] = "held" /\ left[t] > 0 /\ left' = [left EXCEPT ![t] = @ - 1]
  /\ UNCHANGED <<armed, lock, pc, swipe, answer, panel, done, asks>>
Lift(t) ==
  /\ pc[t] = "held" /\ left[t] = 0 /\ Up(t)
  /\ lock' = None /\ Goto(t, "idle") /\ Answer(t, "done")
  /\ UNCHANGED <<armed, left, swipe, asks>>

\* A bug: the lock is not released.
FailsHolding(t) ==
  /\ pc[t] \in Sending \ {"look"}
  /\ Goto(t, "idle") /\ Answer(t, "error")
  /\ left' = [left EXCEPT ![t] = 0] /\ stuck' = (finger # None)
  /\ UNCHANGED <<armed, lock, swipe, finger, dark, heard, done, asks>>
\* A write fails: lock and device are given up as they are.
Fails(t) ==
  /\ pc[t] \in Sending \ {"look"}
  /\ lock' = None /\ Goto(t, "idle") /\ Answer(t, "error")
  /\ left' = [left EXCEPT ![t] = 0] /\ stuck' = (finger # None)
  /\ UNCHANGED <<armed, swipe, finger, dark, heard, done, asks>>

\* Nobody touches the screen for a while, or somebody does.
Blanks ==
  /\ finger = None /\ (Races \/ lock = None) /\ dark' = ~dark
  /\ UNCHANGED <<armed, lock, request, finger, heard, stuck, done, asks>>

Sends(t) ==
  \/ Take(t) \/ OpenFails(t) \/ Look(t) \/ Wake(t) \/ Woken(t)
  \/ Press(t) \/ Move(t) \/ Lift(t) \/ Fails(t)
Next ==
  \/ \E on \in BOOLEAN : Arm(on)
  \/ \E t \in Threads : Sends(t) \/ \E s \in BOOLEAN : Ask(t, s)
  \/ Blanks

\* Threads run.  Touch.lock is not a queue; the requests are bounded, so that
\* nobody is passed by for ever.
Spec == Init /\ [][Next]_vars
FairSpec == Spec /\ \A t \in Threads : WF_vars(Sends(t))

---------------------------------------------------------------------------
(* Properties *)

\* A request that is answered with success reached the client as exactly one
\* gesture: the press that wakes a dark screen is not one, also when several
\* requests find it dark.
GestureOnce == \A t \in Threads : answer[t] = "done" => done[t] = 1

\* The contact on the panel is of the thread that holds the lock, at the point
\* of its gesture where it should be down; only a failed write leaves one.
FingerOwned ==
  /\ \A t \in Threads : pc[t] \in {"waking", "held"} => finger = t
  /\ finger # None => stuck \/ (lock = finger /\ pc[finger] \in {"waking", "held"})

\* Every request is answered: whatever fails, the lock is free again.
Answered == \A t \in Threads : pc[t] = "queued" ~> pc[t] = "idle"

---------------------------------------------------------------------------
(* What the text says and the code does not keep: TLC finds a behaviour    *)
(* that violates each of these.                                            *)

\* "Touch off ... blocks remote input."
BlockedWhenOff ==
  [][finger' \notin {None, finger} => armed]_vars
=============================================================================
