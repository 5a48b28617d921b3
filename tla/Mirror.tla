------------------------------- MODULE Mirror -------------------------------
(***************************************************************************)
(* What a screen mirror promises its viewer: it shows captured frames, and *)
(* each of them whole, never a mix of two.  It may leave frames out, but   *)
(* never goes back to an older one, whatever connections come and go.      *)
(***************************************************************************)
EXTENDS Naturals, Sequences

CONSTANTS Frames, Blank, Failed   \* "Failed": a capture that got no frame
VARIABLES captured,   \* the frames in the order of their capture
          at,         \* which of them is shown; 0 at first
          shown

Init    == captured = <<>> /\ at = 0 /\ shown = Blank
Capture == /\ \E f \in Frames \cup {Failed} : captured' = Append(captured, f)
           /\ UNCHANGED <<at, shown>>
Show    == /\ at' \in at .. Len(captured) /\ at' > 0
           /\ captured[at'] \in Frames /\ shown' = captured[at']
           /\ UNCHANGED captured
Next == Capture \/ Show
Spec == Init /\ [][Next]_<<captured, at, shown>>
=============================================================================
