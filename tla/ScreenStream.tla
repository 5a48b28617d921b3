---------------------------- MODULE ScreenStream ----------------------------
(***************************************************************************)
(* The frame stream of device/wmp_screen.py and the panel that shows it,   *)
(* device/www/index.html.  A capture thread publishes numbered updates,    *)
(* each the rows that differ from the update before; a handler thread per  *)
(* connection sends them on, or a full frame when it has skipped one; the  *)
(* panel inflates what arrives and paints it, chunk after chunk.           *)
(*                                                                         *)
(* Everything under Screen.cond is one step.  What is not: the capture     *)
(* (check, seek, read, publish), the snapshot that shares the position of  *)
(* the memory map with it, and the handler between reading an update,      *)
(* asking for a full frame and writing to the socket.  A frame is a        *)
(* function from rows to colours, an update its restriction to some rows.  *)
(***************************************************************************)
EXTENDS Integers, FiniteSets, Sequences

CONSTANTS
  Rows, Colours,
  Blank,       \* what the panel's canvas holds before the first frame
  None,        \* nothing captured yet, nothing to compare with
  Short,       \* a read from the end of the memory map: an empty frame
  Beat,        \* a zero-length chunk
  Conns,       \* handler threads
  Buffer,      \* how many chunks a connection holds before a write blocks
  LatePaint,   \* may chunks of an aborted connection still be painted?
  MaxDraws, MaxSnaps, MaxConnects   \* bounds

Frame   == [Rows -> Colours]
Updates == UNION {[S -> Colours] : S \in SUBSET Rows}
Chunks  == Updates \cup {Short, Beat}

ASSUME StreamAssumption ==
  /\ Rows # {} /\ Blank \notin Colours /\ None \notin Conns
  /\ None # Short /\ None # Beat /\ Short # Beat
  /\ Updates \cap {None, Short, Beat} = {}
  /\ IsFiniteSet(Conns) /\ Buffer \in Nat \ {0} /\ LatePaint \in BOOLEAN

VARIABLES
  fb,            \* /dev/fb0
  pos,           \* the position of the memory map: "start" or "end"
  lpc, shot,     \* _loop: its step, and the frame it has read
  prev,          \* _prev
  raw, blob, seq, viewers,      \* published under cond
  spc,           \* Snapshotter.get
  hpc, last, hold,              \* _stream, by connection
  chan,          \* by connection: written, not yet painted
  current, canvas,              \* the panel
  draws, snaps, connects        \* bounded counters

screen  == <<raw, blob, seq, viewers>>
capture == <<lpc, shot, prev>>
handler == <<hpc, last, hold>>
panel   == <<chan, current, canvas>>
counters == <<draws, snaps, connects>>
vars == <<fb, pos, capture, screen, spc, handler, panel, counters>>

Running == {c \in Conns : hpc[c] # "off"}

TypeOK ==
  /\ fb \in Frame /\ pos \in {"start", "end"}
  /\ lpc \in {"check", "seek", "read", "publish"}
  /\ shot \in Frame \cup {None, Short} /\ prev \in Frame \cup {None, Short}
  /\ raw \in Frame \cup {None, Short} /\ blob \in Updates \cup {None, Short}
  /\ seq \in Nat /\ last \in [Conns -> Int] /\ \A c \in Conns : last[c] \in -1 .. seq
  /\ viewers = Cardinality(Running)
  /\ spc \in {"idle", "read"}
  /\ hpc \in [Conns -> {"off", "wait", "full", "write"}]
  /\ hold \in [Conns -> Chunks] /\ chan \in [Conns -> Seq(Chunks)]
  /\ \A c \in Conns : Len(chan[c]) <= Buffer
  /\ current \in Conns \cup {None}
  /\ canvas \in [Rows -> Colours \cup {Blank}]

Init ==
  /\ fb \in Frame /\ pos = "start"
  /\ lpc = "check" /\ shot = None /\ prev = None
  /\ raw = None /\ blob = None /\ seq = 0 /\ viewers = 0 /\ spc = "idle"
  /\ hpc = [c \in Conns |-> "off"] /\ last = [c \in Conns |-> -1]
  /\ hold = [c \in Conns |-> Beat] /\ chan = [c \in Conns |-> <<>>]
  /\ current = None /\ canvas = [r \in Rows |-> Blank]
  /\ draws = 0 /\ snaps = 0 /\ connects = 0

---------------------------------------------------------------------------
(* The capture thread *)

\* encode_update: the changed rows, or a full frame when there is nothing
\* comparable to compare with.  RowRuns has the choice of the rows.
Encode(new, old) ==
  IF new = Short \/ old \in {None, Short} THEN new
  ELSE [r \in {r \in Rows : new[r] # old[r]} |-> new[r]]

\* The vendor's client draws; a larger change is several of these.
Draw(r, c) ==
  /\ draws < MaxDraws /\ fb[r] # c
  /\ fb' = [fb EXCEPT ![r] = c] /\ draws' = draws + 1
  /\ UNCHANGED <<pos, capture, screen, spc, handler, panel, snaps, connects>>

LoopCheck ==
  /\ lpc = "check"
  /\ IF viewers = 0 THEN prev' = None /\ UNCHANGED lpc
                    ELSE lpc' = "seek" /\ UNCHANGED prev
  /\ UNCHANGED <<fb, pos, shot, screen, spc, handler, panel, counters>>
LoopSeek ==
  /\ lpc = "seek" /\ lpc' = "read" /\ pos' = "start"
  /\ UNCHANGED <<fb, shot, prev, screen, spc, handler, panel, counters>>
LoopRead ==
  /\ lpc = "read" /\ pos' = "end"
  /\ shot' = IF pos = "start" THEN fb ELSE Short
  /\ lpc' = IF shot' = prev THEN "check" ELSE "publish"
  /\ UNCHANGED <<fb, prev, screen, spc, handler, panel, counters>>

\* A bug: the number stays.
LoopPublishSilently ==
  /\ lpc = "publish" /\ lpc' = "check"
  /\ raw' = shot /\ blob' = Encode(shot, prev) /\ prev' = shot
  /\ UNCHANGED <<fb, pos, shot, seq, viewers, spc, handler, panel, counters>>
LoopPublish ==
  /\ lpc = "publish" /\ lpc' = "check"
  /\ raw' = shot /\ blob' = Encode(shot, prev) /\ prev' = shot
  /\ seq' = seq + 1
  /\ UNCHANGED <<fb, pos, shot, viewers, spc, handler, panel, counters>>

\* Snapshotter.get under its own lock: another seek and read of the same map.
SnapSeek ==
  /\ spc = "idle" /\ snaps < MaxSnaps
  /\ spc' = "read" /\ pos' = "start" /\ snaps' = snaps + 1
  /\ UNCHANGED <<fb, capture, screen, handler, panel, draws, connects>>
SnapRead ==
  /\ spc = "read" /\ spc' = "idle" /\ pos' = "end"
  /\ UNCHANGED <<fb, capture, screen, handler, panel, counters>>

---------------------------------------------------------------------------
(* A handler thread: _stream, wait_for, full *)

Hold(c, x, s) ==
  hold' = [hold EXCEPT ![c] = x] /\ last' = [last EXCEPT ![c] = s]
  /\ hpc' = [hpc EXCEPT ![c] = "write"]

\* A bug: any update is taken for the next one.
NextUpdateAny(c) ==
  /\ hpc[c] = "wait" /\ seq # last[c]
  /\ \/ blob = None /\ Hold(c, Beat, last[c])
     \/ blob # None /\ last[c] >= 0 /\ Hold(c, blob, seq)
     \/ /\ blob # None /\ last[c] < 0
        /\ hpc' = [hpc EXCEPT ![c] = "full"] /\ UNCHANGED <<last, hold>>
  /\ UNCHANGED <<fb, pos, capture, screen, spc, panel, counters>>

\* wait_for returns a newer update, or there is none at all yet.
NextUpdate(c) ==
  /\ hpc[c] = "wait" /\ seq # last[c]
  /\ \/ blob = None /\ Hold(c, Beat, last[c])
     \/ blob # None /\ last[c] >= 0 /\ seq = last[c] + 1 /\ Hold(c, blob, seq)
     \/ /\ blob # None /\ (last[c] < 0 \/ seq # last[c] + 1)
        /\ hpc' = [hpc EXCEPT ![c] = "full"] /\ UNCHANGED <<last, hold>>
  /\ UNCHANGED <<fb, pos, capture, screen, spc, panel, counters>>
\* wait_for returns after HEARTBEAT_S without one.
Quiet(c) ==
  /\ hpc[c] = "wait" /\ seq = last[c] /\ Hold(c, Beat, seq)
  /\ UNCHANGED <<fb, pos, capture, screen, spc, panel, counters>>
\* full: the frame of this moment, which may be newer than the update seen.
FullFrame(c) ==
  /\ hpc[c] = "full" /\ Hold(c, raw, seq)
  /\ UNCHANGED <<fb, pos, capture, screen, spc, panel, counters>>
Write(c) ==
  /\ hpc[c] = "write" /\ current = c /\ Len(chan[c]) < Buffer
  /\ chan' = [chan EXCEPT ![c] = Append(@, hold[c])]
  /\ hpc' = [hpc EXCEPT ![c] = "wait"]
  /\ UNCHANGED <<fb, pos, capture, screen, spc, last, hold, current, canvas,
                 counters>>

\* A bug: no finally clause.
WriteFailsUncounted(c) ==
  /\ hpc[c] = "write" /\ current # c /\ hpc' = [hpc EXCEPT ![c] = "off"]
  /\ UNCHANGED <<fb, pos, capture, screen, spc, last, hold, panel, counters>>
\* The other end is gone, which only a write notices.
WriteFails(c) ==
  /\ hpc[c] = "write" /\ current # c /\ hpc' = [hpc EXCEPT ![c] = "off"]
  /\ viewers' = viewers - 1
  /\ UNCHANGED <<fb, pos, capture, raw, blob, seq, spc, last, hold, panel,
                 counters>>

---------------------------------------------------------------------------
(* The panel *)

\* A bug: a new connection goes on where the last one was.
ConnectResumes(c) ==
  /\ current = None /\ hpc[c] = "off" /\ chan[c] = <<>>
  /\ connects < MaxConnects /\ connects' = connects + 1
  /\ current' = c /\ viewers' = viewers + 1 /\ hpc' = [hpc EXCEPT ![c] = "wait"]
  /\ UNCHANGED <<fb, pos, capture, raw, blob, seq, spc, last, hold, chan, canvas,
                 draws, snaps>>
\* connect: the canvas keeps what it showed.
Connect(c) ==
  /\ current = None /\ hpc[c] = "off" /\ chan[c] = <<>>
  /\ connects < MaxConnects /\ connects' = connects + 1
  /\ current' = c /\ viewers' = viewers + 1
  /\ hpc' = [hpc EXCEPT ![c] = "wait"] /\ last' = [last EXCEPT ![c] = -1]
  /\ UNCHANGED <<fb, pos, capture, raw, blob, seq, spc, hold, chan, canvas,
                 draws, snaps>>
\* The panel is hidden, or the network goes.  Chunks already on the decode
\* chain are not cancelled; they finish in order, but not before a new chain.
Disconnect ==
  /\ current # None /\ current' = None
  /\ \E n \in 0 .. IF LatePaint THEN Len(chan[current]) ELSE 0 :
       chan' = [chan EXCEPT ![current] = SubSeq(@, 1, n)]
  /\ UNCHANGED <<fb, pos, capture, screen, spc, handler, canvas, counters>>

\* paint: a chunk of the wrong length is ignored.
Paints(x, r)   == x \notin {Beat, Short} /\ r \in DOMAIN x
Painted(cv, x) == [r \in Rows |-> IF Paints(x, r) THEN x[r] ELSE cv[r]]
Paint(c) ==
  /\ chan[c] # <<>>
  /\ canvas' = Painted(canvas, Head(chan[c]))
  /\ chan' = [chan EXCEPT ![c] = Tail(@)]
  /\ UNCHANGED <<fb, pos, capture, screen, spc, handler, current, counters>>

LoopStep == LoopCheck \/ LoopSeek \/ LoopRead \/ LoopPublish
HandlerStep(c) ==
  NextUpdate(c) \/ Quiet(c) \/ FullFrame(c) \/ Write(c) \/ WriteFails(c)
Next ==
  \/ LoopStep \/ SnapSeek \/ SnapRead \/ Disconnect
  \/ \E r \in Rows, c \in Colours : Draw(r, c)
  \/ \E c \in Conns : HandlerStep(c) \/ Connect(c) \/ Paint(c)

\* The threads are scheduled and the browser's promises resolve; nobody has
\* to connect, draw or take a snapshot.
Spec == Init /\ [][Next]_vars
FairSpec == /\ Spec /\ WF_vars(LoopStep)
            /\ \A c \in Conns : WF_vars(HandlerStep(c)) /\ WF_vars(Paint(c))

---------------------------------------------------------------------------
(* Properties *)

\* What is on its way to the panel, and the colour of a row once it has all
\* been painted: that of the last chunk with the row, or of the canvas.
Sent(c) == IF hpc[c] = "write" THEN Append(chan[c], hold[c]) ELSE chan[c]
RowBecomes(cv, chunks, r, v) ==
  \/ cv[r] = v /\ \A i \in DOMAIN chunks : ~Paints(chunks[i], r)
  \/ \E i \in DOMAIN chunks :
       /\ Paints(chunks[i], r) /\ chunks[i][r] = v
       /\ \A j \in i + 1 .. Len(chunks) : ~Paints(chunks[j], r)
Shows(c, r, v) == RowBecomes(canvas, Sent(c), r, v)

\* A panel that was sent the newest update shows the newest frame, row for
\* row: no update is applied to a frame it was not made from.
LastFrameShown ==
  \A c \in Conns :
    current = c /\ last[c] = seq /\ raw \notin {None, Short}
      => \A r \in Rows : Shows(c, r, raw[r])

\* A panel that stays connected shows the screen once that is still, also if
\* the screen changed while nobody watched.
FreshAtRest == <>[](current # None) => <>[](canvas = fb)

\* "When no viewers remain, the bridge stops reading screen pixels."
RestsUnwatched == <>[](current = None) => <>[](lpc = "check")

---------------------------------------------------------------------------
(* What the text says and the code does not keep: TLC finds a behaviour    *)
(* that violates each of these.                                            *)

\* What tools/verify_stream.py asserts of a full frame.
WholeFrames == raw # Short

\* A heartbeat stands for "a screen that simply is not changing".
BeatsWhenQuiet ==
  [][\A c \in Conns : hpc[c] = "wait" /\ hpc'[c] = "write" /\ hold'[c] = Beat
                        => last[c] = seq]_vars
=============================================================================
