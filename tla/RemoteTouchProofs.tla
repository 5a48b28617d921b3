------------------------- MODULE RemoteTouchProofs -------------------------
(***************************************************************************)
(* Proofs about RemoteTouch for any number of threads, requests and moves. *)
(* Safe says that the lock is held exactly while a gesture is being sent,  *)
(* what a thread that holds it knows of the screen at its step, and that   *)
(* the client has nothing of its request before it lifts the contact.      *)
(***************************************************************************)
EXTENDS RemoteTouch, TLAPS

Locked == \A t \in Threads : pc[t] \in Sending <=> lock = t

\* The strengthening of FingerOwned, which needs no more than the lock.
Owned == TypeOK /\ Locked /\ FingerOwned

Known ==
  \A t \in Threads :
    /\ pc[t] = "wake" => dark
    /\ pc[t] \in {"waking", "press", "held"} => ~dark
    /\ pc[t] = "waking" => ~heard
    /\ pc[t] = "held" => heard
    /\ pc[t] # "idle" => done[t] = 0 /\ answer[t] # "done"

\* The strengthening of GestureOnce.
Safe == Owned /\ Known /\ GestureOnce

\* Every step keeps the types, the lock and the owner of the contact.
LEMMA OwnedStep == Owned /\ [Next]_vars => Owned'
<1> SUFFICES ASSUME Owned, [Next]_vars PROVE Owned'
  OBVIOUS
<1> USE TouchAssumption DEF Owned, TypeOK, Locked, FingerOwned, Sending,
        vars, request, panel, Goto, Answer
<1>1. ASSUME NEW on \in BOOLEAN, Arm(on) PROVE Owned'
  BY <1>1 DEF Arm
<1>2. ASSUME NEW t \in Threads, NEW s \in BOOLEAN, Ask(t, s) PROVE Owned'
  BY <1>2 DEF Ask
<1>3. ASSUME NEW t \in Threads, Take(t) PROVE Owned'
  BY <1>3 DEF Take
<1>4. ASSUME NEW t \in Threads, OpenFails(t) PROVE Owned'
  BY <1>4 DEF OpenFails
<1>5. ASSUME NEW t \in Threads, Look(t) PROVE Owned'
  BY <1>5 DEF Look
<1>6. ASSUME NEW t \in Threads, Wake(t) PROVE Owned'
  <2>1. heard' \in BOOLEAN BY <1>6 DEF Wake, Down
  <2> QED BY <1>6, <2>1 DEF Wake, Down
<1>7. ASSUME NEW t \in Threads, Woken(t) PROVE Owned'
  <2>1. done' \in [Threads -> Nat] BY <1>7 DEF Woken, Up
  <2> QED BY <1>7, <2>1 DEF Woken, Up
<1>8. ASSUME NEW t \in Threads, Press(t) PROVE Owned'
  <2>1. heard' \in BOOLEAN BY <1>8 DEF Press, Down
  <2>2. left' \in [Threads -> 0 .. Moves] BY <1>8 DEF Press
  <2> HIDE DEF TypeOK
  <2>3. TypeOK' BY <1>8, <2>1, <2>2 DEF TypeOK, Press, Down
  <2>4. pc \in [Threads -> Sending \cup {"idle", "queued"}] BY DEF TypeOK
  <2>5. Locked' /\ FingerOwned' BY <1>8, <2>4 DEF Press, Down
  <2> QED BY <2>3, <2>5
<1>9. ASSUME NEW t \in Threads, Move(t) PROVE Owned'
  BY <1>9 DEF Move
<1>10. ASSUME NEW t \in Threads, Lift(t) PROVE Owned'
  <2>1. done' \in [Threads -> Nat] BY <1>10 DEF Lift, Up
  <2> QED BY <1>10, <2>1 DEF Lift, Up
<1>11. ASSUME NEW t \in Threads, Fails(t) PROVE Owned'
  <2>1. stuck' \in BOOLEAN BY <1>11 DEF Fails
  <2>2. left' \in [Threads -> 0 .. Moves] BY <1>11 DEF Fails
  <2> HIDE DEF TypeOK
  <2>3. TypeOK' BY <1>11, <2>1, <2>2 DEF TypeOK, Fails
  <2>4. pc \in [Threads -> Sending \cup {"idle", "queued"}] BY DEF TypeOK
  <2>5. Locked' /\ FingerOwned' BY <1>11, <2>4 DEF Fails
  <2> QED BY <2>3, <2>5
<1>12. CASE Blanks
  <2>1. dark' \in BOOLEAN BY <1>12 DEF Blanks
  <2> QED BY <1>12, <2>1 DEF Blanks
<1>13. CASE UNCHANGED vars BY <1>13
<1> QED BY <1>1, <1>2, <1>3, <1>4, <1>5, <1>6, <1>7, <1>8, <1>9, <1>10, <1>11,
           <1>12, <1>13 DEF Next, Sends

\* While the screen does not change under a gesture, every step keeps Safe.
LEMMA SafeStep == ASSUME ~Races PROVE Safe /\ [Next]_vars => Safe'
<1> SUFFICES ASSUME Safe, [Next]_vars PROVE Safe'
  OBVIOUS
<1>0. Owned' BY OwnedStep DEF Safe
<1> SUFFICES (Known /\ GestureOnce)'
  BY <1>0 DEF Safe
<1> USE TouchAssumption DEF Safe, Owned, TypeOK, Locked, Known, GestureOnce,
        Sending, vars, request, panel, Goto, Answer
<1>1. ASSUME NEW on \in BOOLEAN, Arm(on) PROVE (Known /\ GestureOnce)'
  BY <1>1 DEF Arm
<1>2. ASSUME NEW t \in Threads, NEW s \in BOOLEAN, Ask(t, s) PROVE (Known /\ GestureOnce)'
  BY <1>2 DEF Ask
<1>3. ASSUME NEW t \in Threads, Take(t) PROVE (Known /\ GestureOnce)'
  BY <1>3 DEF Take
<1>4. ASSUME NEW t \in Threads, OpenFails(t) PROVE (Known /\ GestureOnce)'
  BY <1>4 DEF OpenFails
<1>5. ASSUME NEW t \in Threads, Look(t) PROVE (Known /\ GestureOnce)'
  BY <1>5 DEF Look
<1>6. ASSUME NEW t \in Threads, Wake(t) PROVE (Known /\ GestureOnce)'
  BY <1>6 DEF Wake, Down
<1>7. ASSUME NEW t \in Threads, Woken(t) PROVE (Known /\ GestureOnce)'
  BY <1>7 DEF Woken, Up
<1>8. ASSUME NEW t \in Threads, Press(t) PROVE (Known /\ GestureOnce)'
  BY <1>8 DEF Press, Down
<1>9. ASSUME NEW t \in Threads, Move(t) PROVE (Known /\ GestureOnce)'
  BY <1>9 DEF Move
<1>10. ASSUME NEW t \in Threads, Lift(t) PROVE (Known /\ GestureOnce)'
  BY <1>10 DEF Lift, Up
<1>11. ASSUME NEW t \in Threads, Fails(t) PROVE (Known /\ GestureOnce)'
  BY <1>11 DEF Fails
<1>12. CASE Blanks BY <1>12 DEF Blanks
<1>13. CASE UNCHANGED vars BY <1>13
<1> QED BY <1>1, <1>2, <1>3, <1>4, <1>5, <1>6, <1>7, <1>8, <1>9, <1>10, <1>11,
           <1>12, <1>13 DEF Next, Sends

\* The bridge starts with no request and no contact.
LEMMA Initially == Init => Safe
<1> SUFFICES ASSUME Init PROVE Safe
  OBVIOUS
<1> USE TouchAssumption DEF Init, Sending
<1>1. TypeOK
  <2>1. left \in [Threads -> 0 .. Moves] OBVIOUS
  <2>2. armed \in BOOLEAN /\ dark \in BOOLEAN /\ heard \in BOOLEAN /\ stuck \in BOOLEAN
    OBVIOUS
  <2> QED BY <2>1, <2>2 DEF TypeOK
<1>2. Locked BY DEF Locked
<1>3. FingerOwned BY DEF FingerOwned
<1>4. Known /\ GestureOnce BY DEF Known, GestureOnce
<1> QED BY <1>1, <1>2, <1>3, <1>4 DEF Safe, Owned

\* Types and the owner of the contact, whatever fails and whoever races.
LEMMA OwnedAlways == Spec => []Owned
<1>1. Init => Owned BY Initially DEF Safe
<1> QED BY <1>1, OwnedStep, PTL DEF Spec

\* The types hold in every state.
THEOREM TypeCorrect == Spec => []TypeOK
<1>1. Owned => TypeOK BY DEF Owned
<1> QED BY <1>1, OwnedAlways, PTL

\* A contact is down only at the step of the gesture that holds the lock where
\* it should be, or left by a failed write.
THEOREM FingerCorrect == Spec => []FingerOwned
<1>1. Owned => FingerOwned BY DEF Owned
<1> QED BY <1>1, OwnedAlways, PTL

\* A gesture answered with success reached the client exactly once, unless the
\* screen went dark or bright while it was sent.
THEOREM GestureCorrect == ASSUME ~Races PROVE Spec => []GestureOnce
<1>1. Init => Safe BY Initially
<1>2. Safe /\ [Next]_vars => Safe' BY SafeStep
<1>3. Safe => GestureOnce BY DEF Safe
<1> QED BY <1>1, <1>2, <1>3, PTL DEF Spec
=============================================================================
