---------------------------- MODULE ScreenMirror ----------------------------
(***************************************************************************)
(* ScreenStream with a memory of what it captured, and which capture each  *)
(* chunk on its way and the canvas stand for: so it implements Mirror.     *)
(* Nothing here restricts ScreenStream.                                    *)
(***************************************************************************)
EXTENDS ScreenStream

VARIABLES
  captured,   \* the published frames; the n-th has number n
  numbers,    \* by connection: the number of each chunk in chan
  at          \* the number of the frame on the canvas

memory == <<captured, numbers, at>>

Remembers(c, n) == numbers' = [numbers EXCEPT ![c] = n]
Mark(x) == x \in {Beat, Short}

Publishes == LoopPublish /\ captured' = Append(captured, raw') /\ UNCHANGED <<numbers, at>>
Writes(c) ==
  Write(c) /\ Remembers(c, Append(numbers[c], last[c])) /\ UNCHANGED <<captured, at>>
PaintsNext(c) ==
  /\ Paint(c) /\ Remembers(c, Tail(numbers[c]))
  /\ at' = IF Mark(Head(chan[c])) THEN at ELSE Head(numbers[c])
  /\ UNCHANGED captured
Breaks ==
  /\ Disconnect /\ Remembers(current, SubSeq(numbers[current], 1, Len(chan'[current])))
  /\ UNCHANGED <<captured, at>>
Others ==
  \/ LoopCheck \/ LoopSeek \/ LoopRead \/ SnapSeek \/ SnapRead
  \/ \E r \in Rows, c \in Colours : Draw(r, c)
  \/ \E c \in Conns : NextUpdate(c) \/ Quiet(c) \/ FullFrame(c) \/ WriteFails(c) \/ Connect(c)

MirrorNext ==
  \/ Publishes \/ Breaks \/ \E c \in Conns : Writes(c) \/ PaintsNext(c)
  \/ Others /\ UNCHANGED memory
MirrorSpec ==
  /\ Init /\ captured = <<>> /\ numbers = [c \in Conns |-> <<>>] /\ at = 0
  /\ [][MirrorNext]_<<vars, memory>>

\* The panel shows whole captured frames in their order: no row is left of an
\* older one by an update that was skipped, sent late or made from another
\* frame, and no reconnect shows an older frame again.
Abstract == INSTANCE Mirror
  WITH Frames <- Frame, Blank <- [r \in Rows |-> Blank], Failed <- Short, shown <- canvas
ShowsCaptured == Abstract!Spec
=============================================================================
