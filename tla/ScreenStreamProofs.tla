-------------------------- MODULE ScreenStreamProofs --------------------------
(***************************************************************************)
(* Of ScreenStream, for every set of rows, colours and connections and     *)
(* every buffer size: the types with the viewer count, that the panel      *)
(* shows the frame it was last sent, and that ScreenMirror implements      *)
(* Mirror.  The last two need that an aborted connection paints nothing    *)
(* more (LatePaint = FALSE).                                               *)
(*                                                                         *)
(* Of RowRuns, for every list of bands and any changed rows: what the runs *)
(* of an update cover, by induction over the rows of a band, over the      *)
(* bands, and over the runs.                                               *)
(***************************************************************************)
EXTENDS ScreenMirror, RowRuns, FiniteSetTheorems, SequenceTheorems, WellFoundedInduction,
        TLAPS

\* A full frame is an update of every row, and no update is a mark.
LEMMA FramesAreUpdates ==
  /\ Frame \subseteq Updates
  /\ \A x \in Updates : x \notin {None, Short, Beat}
  /\ \A x \in Chunks : x # None
  /\ \A f \in Frame, r \in Rows : Paints(f, r)
<1>1. Frame \subseteq Updates
  BY DEF Frame, Updates
<1>2. \A x \in Updates : x \notin {None, Short, Beat}
  BY StreamAssumption
<1>3. \A x \in Chunks : x # None
  BY <1>2, StreamAssumption DEF Chunks
<1>4. \A f \in Frame : DOMAIN f = Rows
  BY DEF Frame
<1> QED BY <1>1, <1>2, <1>3, <1>4 DEF Paints

\* What an update leaves out is what the two frames have in common.
LEMMA EncodeIsTheDifference ==
  ASSUME NEW new \in Frame \cup {Short}, NEW old \in Frame \cup {None, Short}
  PROVE  /\ Encode(new, old) \in Updates \cup {Short}
         /\ new # Short => \A r \in Rows :
              IF Paints(Encode(new, old), r) THEN Encode(new, old)[r] = new[r]
              ELSE old \notin {None, Short} /\ old[r] = new[r]
<1>1. CASE new = Short
  BY <1>1 DEF Encode
<1>2. CASE new # Short /\ old \in {None, Short}
  BY <1>2, FramesAreUpdates DEF Encode
<1>3. CASE new # Short /\ old \notin {None, Short}
  <2> DEFINE differ == {r \in Rows : new[r] # old[r]}
  <2> DEFINE u == [r \in differ |-> new[r]]
  <2>1. Encode(new, old) = u
    BY <1>3 DEF Encode
  <2>2. u \in [differ -> Colours]
    BY <1>3 DEF Frame
  <2>3. u \in Updates
    BY <2>2 DEF Updates
  <2>4. u \notin {Beat, Short} /\ DOMAIN u = differ
    BY <2>3, FramesAreUpdates
  <2>5. \A r \in Rows : IF Paints(u, r) THEN u[r] = new[r] ELSE old[r] = new[r]
    BY <2>4 DEF Paints
  <2> QED BY <1>3, <2>1, <2>3, <2>5
<1> QED BY <1>1, <1>2, <1>3

---------------------------------------------------------------------------
(* Types, the viewer count, and what has been captured *)

\* Nothing published, nothing to send in full; the capture compares with
\* what it published or with nothing.
Captured ==
  /\ raw = None <=> seq = 0
  /\ blob = None <=> seq = 0
  /\ prev \in {None, raw}
  /\ lpc = "publish" => shot \in Frame \cup {Short}
  /\ \A c \in Conns : hpc[c] = "full" => blob # None
TypeInv == TypeOK /\ Captured

LEMMA RunningIsFinite == IsFiniteSet(Running)
BY StreamAssumption, FS_Subset DEF Running

LEMMA InitTypes == Init => TypeInv
<1> SUFFICES ASSUME Init PROVE TypeInv
  OBVIOUS
<1>1. Running = {}
  BY DEF Init, Running
<1>2. viewers = Cardinality(Running)
  BY <1>1, FS_EmptySet DEF Init
<1>3. TypeOK
  <2>1. \A c \in Conns : Len(chan[c]) = 0 /\ chan[c] \in Seq(Chunks) /\ last[c] = -1
    BY DEF Init
  <2>2. chan \in [Conns -> Seq(Chunks)] /\ \A c \in Conns : Len(chan[c]) <= Buffer
    BY <2>1, StreamAssumption DEF Init
  <2>3. last \in [Conns -> Int] /\ seq \in Nat /\ \A c \in Conns : last[c] \in -1 .. seq
    BY DEF Init
  <2>4. hold \in [Conns -> Chunks] /\ hpc \in [Conns -> {"off", "wait", "full", "write"}]
    BY DEF Init, Chunks
  <2>5. canvas \in [Rows -> Colours \cup {Blank}]
    BY DEF Init
  <2> QED BY <1>2, <2>2, <2>3, <2>4, <2>5 DEF Init, TypeOK
<1>4. Captured
  BY DEF Init, Captured
<1> QED BY <1>3, <1>4 DEF TypeInv

\* A step that leaves the handlers' states alone keeps the viewer count.
LEMMA SameRunning ==
  ASSUME TypeOK, UNCHANGED <<hpc, viewers>>
  PROVE  viewers' = Cardinality(Running)'
BY DEF TypeOK, Running

\* One that moves a running handler, but not to "off", also does.
LEMMA StillRunning ==
  ASSUME TypeOK, NEW c \in Conns, hpc[c] # "off", NEW p \in {"wait", "full", "write"},
         hpc' = [hpc EXCEPT ![c] = p], UNCHANGED viewers
  PROVE  /\ viewers' = Cardinality(Running)'
         /\ hpc' \in [Conns -> {"off", "wait", "full", "write"}]
<1>1. hpc' \in [Conns -> {"off", "wait", "full", "write"}]
  BY DEF TypeOK
<1>2. \A d \in Conns : hpc'[d] # "off" <=> hpc[d] # "off"
  BY DEF TypeOK
<1>3. Running' = Running
  BY <1>2 DEF Running
<1> QED BY <1>1, <1>3 DEF TypeOK

\* What the capture and the snapshot leave alone.
HandlersTyped ==
  /\ last \in [Conns -> Int]
  /\ viewers = Cardinality(Running)
  /\ hpc \in [Conns -> {"off", "wait", "full", "write"}]
  /\ hold \in [Conns -> Chunks] /\ chan \in [Conns -> Seq(Chunks)]
  /\ \A c \in Conns : Len(chan[c]) <= Buffer
  /\ current \in Conns \cup {None}
  /\ canvas \in [Rows -> Colours \cup {Blank}]

LEMMA CaptureTypes ==
  ASSUME TypeInv, LoopStep \/ SnapSeek \/ SnapRead \/ \E r \in Rows, c \in Colours : Draw(r, c)
  PROVE  TypeInv'
<1>1. UNCHANGED <<handler, panel, viewers>>
  BY DEF LoopStep, LoopCheck, LoopSeek, LoopRead, LoopPublish, SnapSeek, SnapRead, Draw,
         screen, handler, panel
<1>2. HandlersTyped'
  BY <1>1, SameRunning DEF TypeInv, TypeOK, HandlersTyped, handler, panel
<1>3. seq' \in Nat /\ seq' >= seq
  BY DEF TypeInv, TypeOK, LoopStep, LoopCheck, LoopSeek, LoopRead, LoopPublish, SnapSeek,
         SnapRead, Draw, screen
<1>4. \A c \in Conns : last'[c] \in -1 .. seq'
  BY <1>1, <1>3 DEF TypeInv, TypeOK, handler
<1>5. CASE LoopPublish
  <2>1. shot \in Frame \cup {Short} /\ prev \in Frame \cup {None, Short}
    BY <1>5 DEF TypeInv, TypeOK, Captured, LoopPublish
  <2>2. blob' \in Updates \cup {Short}
    BY <1>5, <2>1, EncodeIsTheDifference DEF LoopPublish
  <2>3. raw' # None /\ blob' # None /\ seq' # 0
    BY <1>5, <2>1, <2>2, FramesAreUpdates, StreamAssumption DEF LoopPublish, TypeInv, TypeOK
  <2>4. TypeOK'
    BY <1>2, <1>3, <1>4, <1>5, <2>1, <2>2
       DEF LoopPublish, TypeInv, TypeOK, HandlersTyped
  <2>5. Captured'
    BY <1>5, <2>3 DEF LoopPublish, TypeInv, Captured
  <2> QED BY <2>4, <2>5 DEF TypeInv
<1>6. CASE LoopRead
  <2>1. shot' \in Frame \cup {Short}
    BY <1>6 DEF LoopRead, TypeInv, TypeOK
  <2>2. TypeOK'
    BY <1>2, <1>3, <1>4, <1>6, <2>1
       DEF LoopRead, TypeInv, TypeOK, HandlersTyped, screen, counters
  <2>3. Captured'
    BY <1>6, <2>1 DEF LoopRead, TypeInv, Captured, screen, handler
  <2> QED BY <2>2, <2>3 DEF TypeInv
<1>7. CASE LoopCheck \/ LoopSeek \/ SnapSeek \/ SnapRead
  <2>1. TypeOK'
    BY <1>2, <1>3, <1>4, <1>7
       DEF LoopCheck, LoopSeek, SnapSeek, SnapRead, TypeInv, TypeOK, HandlersTyped,
           capture, screen, counters
  <2>2. Captured'
    BY <1>7 DEF LoopCheck, LoopSeek, SnapSeek, SnapRead, TypeInv, Captured, capture,
                screen, handler
  <2> QED BY <2>1, <2>2 DEF TypeInv
<1>8. ASSUME NEW r \in Rows, NEW c \in Colours, Draw(r, c) PROVE TypeInv'
  <2>1. fb' \in Frame
    BY <1>8 DEF Draw, TypeInv, TypeOK, Frame
  <2>2. TypeOK'
    BY <1>2, <1>3, <1>4, <1>8, <2>1
       DEF Draw, TypeInv, TypeOK, HandlersTyped, capture, screen
  <2>3. Captured'
    BY <1>8 DEF Draw, TypeInv, Captured, capture, screen, handler
  <2> QED BY <2>2, <2>3 DEF TypeInv
<1> QED BY <1>5, <1>6, <1>7, <1>8 DEF LoopStep

LEMMA HandlerTypes ==
  ASSUME TypeInv, NEW c \in Conns, HandlerStep(c)
  PROVE  TypeInv'
<1>1. UNCHANGED <<fb, pos, capture, raw, blob, seq, spc, current, canvas>>
  BY DEF HandlerStep, NextUpdate, Quiet, FullFrame, Write, WriteFails, screen, panel
<1>2. \A s \in -1 .. seq : \A x \in Chunks :
        Hold(c, x, s) => /\ hold' \in [Conns -> Chunks]
                         /\ last' \in [Conns -> Int]
                         /\ \A d \in Conns : last'[d] \in -1 .. seq
  BY DEF Hold, TypeInv, TypeOK
<1>3. /\ Beat \in Chunks /\ seq \in -1 .. seq /\ last[c] \in -1 .. seq
      /\ blob # None => blob \in Chunks /\ raw \in Chunks
  BY FramesAreUpdates DEF TypeInv, TypeOK, Captured, Chunks
<1>4. /\ hold' \in [Conns -> Chunks] /\ last' \in [Conns -> Int]
      /\ \A d \in Conns : last'[d] \in -1 .. seq
      /\ \A d \in Conns : hpc'[d] = "full" => blob # None
  <2>1. CASE NextUpdate(c)
    <3>1. hold' \in [Conns -> Chunks] /\ last' \in [Conns -> Int]
          /\ \A d \in Conns : last'[d] \in -1 .. seq
      BY <1>2, <1>3, <2>1 DEF NextUpdate, TypeInv, TypeOK
    <3>2. \A d \in Conns : hpc'[d] = "full" => blob # None
      BY <2>1 DEF NextUpdate, Hold, TypeInv, TypeOK, Captured
    <3> QED BY <3>1, <3>2
  <2>2. CASE Quiet(c)
    BY <1>2, <1>3, <2>2 DEF Quiet, Hold, TypeInv, TypeOK, Captured
  <2>3. CASE FullFrame(c)
    BY <1>2, <1>3, <2>3 DEF FullFrame, Hold, TypeInv, TypeOK, Captured
  <2>4. CASE Write(c) \/ WriteFails(c)
    BY <2>4 DEF Write, WriteFails, TypeInv, TypeOK, Captured
  <2> QED BY <2>1, <2>2, <2>3, <2>4 DEF HandlerStep
<1>5. /\ viewers' = Cardinality(Running)'
      /\ hpc' \in [Conns -> {"off", "wait", "full", "write"}]
  <2>1. CASE WriteFails(c)
    <3>1. Running' = Running \ {c} /\ c \in Running
      BY <2>1 DEF WriteFails, Running, TypeInv, TypeOK
    <3>2. Cardinality(Running)' = Cardinality(Running) - 1
      BY <3>1, RunningIsFinite, FS_RemoveElement
    <3> QED BY <2>1, <3>2 DEF WriteFails, TypeInv, TypeOK
  <2>2. CASE ~ WriteFails(c)
    <3>1. hpc[c] # "off" /\ UNCHANGED viewers
      BY <2>2 DEF HandlerStep, NextUpdate, Quiet, FullFrame, Write, screen
    <3>2. \E p \in {"wait", "full", "write"} : hpc' = [hpc EXCEPT ![c] = p]
      BY <2>2 DEF HandlerStep, NextUpdate, Quiet, FullFrame, Write, Hold
    <3> QED BY <3>1, <3>2, StillRunning DEF TypeInv
  <2> QED BY <2>1, <2>2
<1>6. chan' \in [Conns -> Seq(Chunks)] /\ \A d \in Conns : Len(chan'[d]) <= Buffer
  <2>1. CASE Write(c)
    <3>1. chan[c] \in Seq(Chunks) /\ hold[c] \in Chunks /\ Buffer \in Nat
      BY StreamAssumption DEF TypeInv, TypeOK
    <3>2. Append(chan[c], hold[c]) \in Seq(Chunks)
          /\ Len(Append(chan[c], hold[c])) = Len(chan[c]) + 1
      BY <3>1
    <3>3. Len(chan[c]) + 1 <= Buffer
      BY <2>1, <3>1 DEF Write
    <3> QED BY <2>1, <3>2, <3>3 DEF Write, TypeInv, TypeOK
  <2>2. CASE ~ Write(c)
    BY <2>2 DEF HandlerStep, NextUpdate, Quiet, FullFrame, WriteFails, panel, TypeInv, TypeOK
  <2> QED BY <2>1, <2>2
<1>7. TypeOK'
  BY <1>1, <1>4, <1>5, <1>6 DEF TypeInv, TypeOK, capture
<1>8. Captured'
  BY <1>1, <1>4 DEF TypeInv, Captured, capture
<1> QED BY <1>7, <1>8 DEF TypeInv

LEMMA PanelTypes ==
  ASSUME TypeInv, Disconnect \/ \E c \in Conns : Connect(c) \/ Paint(c)
  PROVE  TypeInv'
<1>1. UNCHANGED <<fb, pos, capture, raw, blob, seq, spc, hold>>
  BY DEF Disconnect, Connect, Paint, screen, handler
<1>2. CASE Disconnect
  <2>1. PICK n \in 0 .. (IF LatePaint THEN Len(chan[current]) ELSE 0) :
          chan' = [chan EXCEPT ![current] = SubSeq(@, 1, n)]
    BY <1>2 DEF Disconnect
  <2>2. current \in Conns /\ current' = None /\ UNCHANGED <<handler, viewers, canvas>>
    BY <1>2 DEF Disconnect, TypeInv, TypeOK, screen
  <2>3. chan[current] \in Seq(Chunks) /\ n \in 0 .. Len(chan[current])
    BY <2>1, <2>2 DEF TypeInv, TypeOK
  <2>4. /\ SubSeq(chan[current], 1, n) \in Seq(Chunks)
        /\ Len(SubSeq(chan[current], 1, n)) <= Len(chan[current])
    BY <2>3
  <2>5. chan' \in [Conns -> Seq(Chunks)] /\ \A c \in Conns : Len(chan'[c]) <= Buffer
    BY <2>1, <2>2, <2>4, StreamAssumption DEF TypeInv, TypeOK
  <2>6. viewers' = Cardinality(Running)'
    BY <2>2, SameRunning DEF TypeInv, handler
  <2> QED BY <1>1, <2>2, <2>5, <2>6 DEF TypeInv, TypeOK, Captured, capture, handler
<1>3. ASSUME NEW c \in Conns, Paint(c) PROVE TypeInv'
  <2>1. chan[c] \in Seq(Chunks) /\ chan[c] # <<>>
    BY <1>3 DEF Paint, TypeInv, TypeOK
  <2>2. Head(chan[c]) \in Chunks /\ Tail(chan[c]) \in Seq(Chunks)
        /\ Len(Tail(chan[c])) <= Len(chan[c])
    BY <2>1
  <2>3. chan' \in [Conns -> Seq(Chunks)] /\ \A d \in Conns : Len(chan'[d]) <= Buffer
    BY <1>3, <2>2, StreamAssumption DEF Paint, TypeInv, TypeOK
  <2>4. \A r \in Rows : Paints(Head(chan[c]), r) => Head(chan[c])[r] \in Colours
    BY <2>2 DEF Paints, Chunks, Updates
  <2>5. canvas' \in [Rows -> Colours \cup {Blank}]
    BY <1>3, <2>4 DEF Paint, Painted, TypeInv, TypeOK
  <2>6. viewers' = Cardinality(Running)' /\ UNCHANGED <<handler, current>>
    BY <1>3, SameRunning DEF Paint, TypeInv, handler, screen
  <2> QED BY <1>1, <2>3, <2>5, <2>6 DEF TypeInv, TypeOK, Captured, capture, handler
<1>4. ASSUME NEW c \in Conns, Connect(c) PROVE TypeInv'
  <2>1. Running' = Running \cup {c} /\ c \notin Running
    BY <1>4 DEF Connect, Running, TypeInv, TypeOK
  <2>2. viewers' = Cardinality(Running)'
    <3>1. Cardinality(Running)' = Cardinality(Running) + 1
      BY <2>1, RunningIsFinite, FS_AddElement
    <3> QED BY <1>4, <3>1 DEF Connect, TypeInv, TypeOK
  <2>3. last' \in [Conns -> Int] /\ \A d \in Conns : last'[d] \in -1 .. seq
    BY <1>4 DEF Connect, TypeInv, TypeOK
  <2>4. hpc' \in [Conns -> {"off", "wait", "full", "write"}]
        /\ \A d \in Conns : hpc'[d] = "full" => hpc[d] = "full"
    BY <1>4 DEF Connect, TypeInv, TypeOK
  <2>5. UNCHANGED <<chan, canvas>> /\ current' \in Conns
    BY <1>4 DEF Connect
  <2> QED BY <1>1, <2>2, <2>3, <2>4, <2>5 DEF TypeInv, TypeOK, Captured, capture
<1> QED BY <1>2, <1>3, <1>4

LEMMA TypeStep ==
  ASSUME TypeInv, [Next]_vars
  PROVE  TypeInv'
<1>1. CASE UNCHANGED vars
  <2>1. viewers' = Cardinality(Running)'
    BY <1>1, SameRunning DEF TypeInv, vars, screen, handler
  <2> QED BY <1>1, <2>1
             DEF TypeInv, TypeOK, Captured, vars, capture, screen, handler, panel
<1> QED BY <1>1, CaptureTypes, HandlerTypes, PanelTypes DEF Next

\* TypeOK always holds: the channel of a connection never holds more than the
\* buffer, no connection is ahead of what was published, and the viewers are
\* counted right over every connect and every failed write.
THEOREM TypeCorrect == Spec => []TypeOK
<1>1. TypeInv => TypeOK
  BY DEF TypeInv
<1> QED BY <1>1, InitTypes, TypeStep, PTL DEF Spec

---------------------------------------------------------------------------
(* What becomes of a row *)

\* A chunk without the row changes nothing for it,
LEMMA AppendQuiet ==
  ASSUME NEW cv, NEW chunks \in Seq(Chunks), NEW x \in Chunks, NEW r, NEW v,
         ~ Paints(x, r), RowBecomes(cv, chunks, r, v)
  PROVE  RowBecomes(cv, Append(chunks, x), r, v)
<1> DEFINE more == Append(chunks, x)
<1> DEFINE n == Len(chunks)
<1>1. /\ n \in Nat /\ Len(more) = n + 1 /\ DOMAIN chunks = 1 .. n /\ DOMAIN more = 1 .. n + 1
      /\ more[n + 1] = x /\ \A i \in 1 .. n : more[i] = chunks[i]
  OBVIOUS
<1> HIDE DEF more, n
<1>2. CASE cv[r] = v /\ \A i \in DOMAIN chunks : ~ Paints(chunks[i], r)
  <2>1. \A i \in 1 .. n + 1 : i = n + 1 \/ i \in 1 .. n
    BY <1>1
  <2>2. \A i \in DOMAIN more : ~ Paints(more[i], r)
    BY <1>1, <1>2, <2>1
  <2> QED BY <1>2, <2>2 DEF RowBecomes, more
<1>3. CASE \E i \in DOMAIN chunks : /\ Paints(chunks[i], r) /\ chunks[i][r] = v
                                    /\ \A j \in i + 1 .. Len(chunks) : ~ Paints(chunks[j], r)
  <2>1. PICK i \in 1 .. n : /\ Paints(chunks[i], r) /\ chunks[i][r] = v
                            /\ \A j \in i + 1 .. n : ~ Paints(chunks[j], r)
    BY <1>1, <1>3 DEF n
  <2>2. \A j \in i + 1 .. n + 1 : j = n + 1 \/ (j \in i + 1 .. n /\ j \in 1 .. n)
    <3>1. i \in Nat /\ i >= 1 /\ n \in Nat
      BY <1>1, <2>1
    <3> QED BY <3>1
  <2>3. \A j \in i + 1 .. n + 1 : ~ Paints(more[j], r)
    BY <1>1, <2>1, <2>2
  <2>4. i \in DOMAIN more /\ Paints(more[i], r) /\ more[i][r] = v
    BY <1>1, <2>1
  <2>5. \A j \in i + 1 .. Len(more) : ~ Paints(more[j], r)
    BY <1>1, <2>3
  <2> QED BY <2>4, <2>5 DEF RowBecomes, more
<1> QED BY <1>2, <1>3 DEF RowBecomes

\* one with the row decides it,
LEMMA AppendPaints ==
  ASSUME NEW cv, NEW chunks \in Seq(Chunks), NEW x \in Chunks, NEW r, Paints(x, r)
  PROVE  RowBecomes(cv, Append(chunks, x), r, x[r])
<1> DEFINE more == Append(chunks, x)
<1>1. /\ Len(more) \in DOMAIN more /\ more[Len(more)] = x
      /\ \A j \in Len(more) + 1 .. Len(more) : FALSE
  OBVIOUS
<1> QED BY <1>1 DEF RowBecomes

\* and painting the first chunk only carries out what was to become of it.
LEMMA HeadPainted ==
  ASSUME NEW cv, NEW chunks \in Seq(Chunks), chunks # <<>>, NEW r \in Rows, NEW v,
         RowBecomes(cv, chunks, r, v)
  PROVE  RowBecomes(Painted(cv, Head(chunks)), Tail(chunks), r, v)
<1> DEFINE x == Head(chunks)
<1> DEFINE rest == Tail(chunks)
<1> DEFINE n == Len(rest)
<1>1. /\ n \in Nat /\ Len(chunks) = n + 1 /\ DOMAIN chunks = 1 .. n + 1 /\ DOMAIN rest = 1 .. n
      /\ chunks[1] = x /\ \A i \in 1 .. n : rest[i] = chunks[i + 1]
  OBVIOUS
<1>2. Painted(cv, x)[r] = IF Paints(x, r) THEN x[r] ELSE cv[r]
  BY DEF Painted
<1> HIDE DEF x, rest, n
<1>3. CASE cv[r] = v /\ \A i \in DOMAIN chunks : ~ Paints(chunks[i], r)
  <2>1. ~ Paints(x, r) /\ \A i \in 1 .. n : i + 1 \in DOMAIN chunks
    BY <1>1, <1>3
  <2>2. \A i \in DOMAIN rest : ~ Paints(rest[i], r)
    BY <1>1, <1>3, <2>1
  <2> QED BY <1>2, <1>3, <2>1, <2>2 DEF RowBecomes, x, rest
<1>4. CASE \E i \in DOMAIN chunks : /\ Paints(chunks[i], r) /\ chunks[i][r] = v
                                    /\ \A j \in i + 1 .. Len(chunks) : ~ Paints(chunks[j], r)
  <2>1. PICK i \in 1 .. n + 1 : /\ Paints(chunks[i], r) /\ chunks[i][r] = v
                                /\ \A j \in i + 1 .. n + 1 : ~ Paints(chunks[j], r)
    BY <1>1, <1>4
  <2>2. CASE i = 1
    <3>1. \A j \in 1 .. n : j + 1 \in i + 1 .. n + 1
      BY <1>1, <2>2
    <3>2. \A j \in DOMAIN rest : ~ Paints(rest[j], r)
      BY <1>1, <2>1, <3>1
    <3>3. Painted(cv, x)[r] = v
      BY <1>1, <1>2, <2>1, <2>2
    <3> QED BY <3>2, <3>3 DEF RowBecomes, x, rest
  <2>3. CASE i # 1
    <3> DEFINE k == i - 1
    <3>1. k \in 1 .. n /\ k + 1 = i /\ \A j \in k + 1 .. n : j + 1 \in i + 1 .. n + 1 /\ j \in 1 .. n
      BY <1>1, <2>3
    <3>2. Paints(rest[k], r) /\ rest[k][r] = v /\ k \in DOMAIN rest
      BY <1>1, <2>1, <3>1
    <3>3. \A j \in k + 1 .. Len(rest) : ~ Paints(rest[j], r)
      BY <1>1, <2>1, <3>1 DEF n
    <3> QED BY <3>2, <3>3 DEF RowBecomes, x, rest
  <2> QED BY <2>2, <2>3
<1> QED BY <1>3, <1>4 DEF RowBecomes, x, rest

LEMMA SentIsChunks ==
  ASSUME TypeOK, NEW c \in Conns
  PROVE  Sent(c) \in Seq(Chunks)
<1>1. chan[c] \in Seq(Chunks) /\ hold[c] \in Chunks
  BY DEF TypeOK
<1>2. Append(chan[c], hold[c]) \in Seq(Chunks)
  BY <1>1
<1> QED BY <1>1, <1>2 DEF Sent

---------------------------------------------------------------------------
(* The frame that is shown *)

Captures == raw \notin {None, Short}

\* The newest update has the newest frame's rows; what is not in it is in the
\* frame before, so a panel one update behind has those rows right.
Behind(c) == last[c] >= 0 /\ last[c] + 1 = seq
FrameInv ==
  /\ Captures => \A r \in Rows : Paints(blob, r) => blob[r] = raw[r]
  /\ \A c \in Conns : current # c => chan[c] = <<>>
  /\ \A c \in Conns : current = c /\ Captures /\ last[c] = seq
       => \A r \in Rows : Shows(c, r, raw[r])
  /\ \A c \in Conns : current = c /\ Captures /\ Behind(c)
       => \A r \in Rows : Paints(blob, r) \/ Shows(c, r, raw[r])

\* Steps that leave the panel's side alone keep what is shown.
LEMMA SameShown ==
  ASSUME UNCHANGED <<hpc, hold, chan, canvas>>, NEW c \in Conns, NEW r, NEW v, Shows(c, r, v)
  PROVE  Shows(c, r, v)'
BY DEF Shows, Sent

\* A handler at its next write: the chunk it will write counts as sent.
LEMMA HoldShown ==
  ASSUME TypeOK, NEW c \in Conns, hpc[c] # "write", NEW x \in Chunks, NEW s, Hold(c, x, s),
         UNCHANGED panel, NEW r \in Rows
  PROVE  /\ Paints(x, r) => Shows(c, r, x[r])'
         /\ \A v : ~ Paints(x, r) /\ Shows(c, r, v) => Shows(c, r, v)'
<1>1. Sent(c) = chan[c] /\ chan[c] \in Seq(Chunks)
  BY DEF Sent, TypeOK
<1>2. Sent(c)' = Append(chan[c], x) /\ canvas' = canvas
  BY DEF Sent, Hold, TypeOK, panel
<1>3. Paints(x, r) => RowBecomes(canvas, Append(chan[c], x), r, x[r])
  BY <1>1, AppendPaints
<1>4. \A v : ~ Paints(x, r) /\ RowBecomes(canvas, chan[c], r, v)
               => RowBecomes(canvas, Append(chan[c], x), r, v)
  BY <1>1, AppendQuiet
<1> QED BY <1>1, <1>2, <1>3, <1>4 DEF Shows

LEMMA FrameCapture ==
  ASSUME TypeInv, FrameInv,
         LoopStep \/ SnapSeek \/ SnapRead \/ \E r \in Rows, c \in Colours : Draw(r, c)
  PROVE  FrameInv'
<1>1. UNCHANGED <<hpc, last, hold, chan, current, canvas>>
  BY DEF LoopStep, LoopCheck, LoopSeek, LoopRead, LoopPublish, SnapSeek, SnapRead, Draw,
         screen, handler, panel
<1>2. CASE LoopPublish
  <2>1. /\ shot \in Frame \cup {Short} /\ prev \in Frame \cup {None, Short}
        /\ prev \in {None, raw} /\ raw' = shot /\ blob' = Encode(shot, prev) /\ seq' = seq + 1
    BY <1>2 DEF TypeInv, TypeOK, Captured, LoopPublish
  <2>2. Captures' => \A r \in Rows :
          IF Paints(blob', r) THEN blob'[r] = raw'[r]
          ELSE prev = raw /\ Captures /\ raw[r] = raw'[r]
    BY <2>1, EncodeIsTheDifference DEF Captures
  <2>3. \A c \in Conns : last[c] \in -1 .. seq /\ seq \in Nat
    BY DEF TypeInv, TypeOK
  <2>4. \A c \in Conns : last'[c] # seq'
    BY <1>1, <2>1, <2>3
  <2>5. ASSUME NEW c \in Conns, current' = c, Captures', Behind(c)'
        PROVE  \A r \in Rows : Paints(blob', r) \/ Shows(c, r, raw[r])'
    <3>1. last[c] = seq /\ current = c
      BY <1>1, <2>1, <2>3, <2>5 DEF Behind
    <3>2. ASSUME NEW r \in Rows, ~ Paints(blob', r) PROVE Shows(c, r, raw[r])'
      <4>1. prev = raw /\ Captures /\ raw[r] = raw'[r]
        BY <2>2, <2>5, <3>2
      <4>2. Shows(c, r, raw[r])
        BY <3>1, <4>1 DEF FrameInv
      <4>3. Shows(c, r, raw'[r])
        BY <4>1, <4>2
      <4> QED BY <1>1, <4>3 DEF Shows, Sent
    <3> QED BY <3>2
  <2>6. \A c \in Conns : current' # c => chan'[c] = <<>>
    BY <1>1 DEF FrameInv
  <2> QED BY <2>2, <2>4, <2>5, <2>6 DEF FrameInv
<1>3. CASE ~ LoopPublish
  <2>1. UNCHANGED <<raw, blob, seq>>
    BY <1>3 DEF LoopStep, LoopCheck, LoopSeek, LoopRead, SnapSeek, SnapRead, Draw, screen
  <2> QED BY <1>1, <2>1 DEF FrameInv, Captures, Behind, Shows, Sent
<1> QED BY <1>2, <1>3

LEMMA FrameHandler ==
  ASSUME TypeInv, FrameInv, NEW c \in Conns, HandlerStep(c)
  PROVE  FrameInv'
<1>1. UNCHANGED <<raw, blob, seq, current, canvas>>
  BY DEF HandlerStep, NextUpdate, Quiet, FullFrame, Write, WriteFails, screen, panel
<1>2. \A d \in Conns \ {c} : UNCHANGED <<hpc[d], last[d], hold[d], chan[d]>>
  BY DEF HandlerStep, NextUpdate, Quiet, FullFrame, Write, WriteFails, Hold, panel, TypeInv, TypeOK
<1>3. \A d \in Conns \ {c} : \A r, v : Shows(d, r, v)' <=> Shows(d, r, v)
  BY <1>1, <1>2 DEF Shows, Sent
<1>4. /\ Captures' <=> Captures
      /\ \A d \in Conns \ {c} : Behind(d)' <=> Behind(d)
  BY <1>1, <1>2 DEF Captures, Behind
<1>5. SUFFICES
        /\ current # c => chan'[c] = <<>>
        /\ current = c /\ Captures /\ last'[c] = seq => \A r \in Rows : Shows(c, r, raw[r])'
        /\ current = c /\ Captures /\ Behind(c)'
             => \A r \in Rows : Paints(blob, r) \/ Shows(c, r, raw[r])'
  <2>1. Captures' => \A r \in Rows : Paints(blob', r) => blob'[r] = raw'[r]
    BY <1>1, <1>4 DEF FrameInv
  <2>2. \A d \in Conns \ {c} : current' # d => chan'[d] = <<>>
    BY <1>1, <1>2 DEF FrameInv
  <2>3. \A d \in Conns \ {c} : current' = d /\ Captures' /\ last'[d] = seq'
          => \A r \in Rows : Shows(d, r, raw[r])'
    BY <1>1, <1>2, <1>3, <1>4 DEF FrameInv
  <2>4. \A d \in Conns \ {c} : current' = d /\ Captures' /\ Behind(d)'
          => \A r \in Rows : Paints(blob', r) \/ Shows(d, r, raw[r])'
    BY <1>1, <1>3, <1>4 DEF FrameInv
  <2> QED BY <1>1, <1>4, <1>5, <2>1, <2>2, <2>3, <2>4 DEF FrameInv
<1>6. seq \in Nat /\ last[c] \in Int /\ raw' = raw /\ TypeOK
  BY <1>1 DEF TypeInv, TypeOK
<1>7. Beat \in Chunks /\ \A r : ~ Paints(Beat, r)
  BY DEF Chunks, Paints
<1>8. CASE Write(c)
  <2>1. last'[c] = last[c] /\ current = c /\ Sent(c)' = Sent(c)
    BY <1>8 DEF Write, Sent, TypeInv, TypeOK
  <2> QED BY <1>1, <2>1 DEF FrameInv, Behind, Shows
<1>9. CASE WriteFails(c)
  BY <1>9 DEF WriteFails, FrameInv, panel
<1>10. CASE Quiet(c)
  <2>1. last[c] = seq /\ last'[c] = seq /\ hpc[c] # "write" /\ Hold(c, Beat, seq) /\ UNCHANGED panel
    BY <1>10 DEF Quiet, Hold, TypeInv, TypeOK
  <2>2. \A r \in Rows : \A v : Shows(c, r, v) => Shows(c, r, v)'
    BY <1>6, <1>7, <2>1, HoldShown
  <2>3. ~ Behind(c)'
    BY <1>1, <1>6, <2>1 DEF Behind
  <2> QED BY <1>1, <2>1, <2>2, <2>3 DEF FrameInv, panel
<1>11. CASE FullFrame(c)
  <2>1. last'[c] = seq /\ hpc[c] # "write" /\ Hold(c, raw, seq) /\ UNCHANGED panel
    BY <1>11 DEF FullFrame, Hold, TypeInv, TypeOK
  <2>2. ~ Behind(c)'
    BY <1>1, <1>6, <2>1 DEF Behind
  <2>3. Captures => raw \in Frame /\ raw \in Chunks
    BY FramesAreUpdates DEF TypeInv, TypeOK, Captures, Chunks
  <2>4. Captures => \A r \in Rows : Shows(c, r, raw[r])'
    BY <1>6, <2>1, <2>3, HoldShown, FramesAreUpdates
  <2>5. current # c => chan'[c] = <<>>
    BY <2>1 DEF FrameInv, panel
  <2> QED BY <2>2, <2>4, <2>5
<1>12. CASE NextUpdate(c)
  <2>1. hpc[c] # "write" /\ UNCHANGED panel /\ last[c] # seq
    BY <1>12 DEF NextUpdate
  <2>2. current # c => chan'[c] = <<>>
    BY <2>1 DEF FrameInv, panel
  <2>3. CASE blob = None
    <3>1. ~ Captures
      BY <2>3 DEF Captures, TypeInv, Captured
    <3> QED BY <2>2, <3>1
  <2>4. CASE blob # None /\ last[c] >= 0 /\ seq = last[c] + 1 /\ Hold(c, blob, seq)
    <3>1. last'[c] = seq /\ ~ Behind(c)' /\ Behind(c)
      BY <1>1, <1>6, <2>4 DEF Hold, Behind, TypeInv, TypeOK
    <3>2. blob \in Chunks
      BY <2>4 DEF TypeInv, TypeOK, Chunks
    <3>3. ASSUME current = c, Captures, NEW r \in Rows PROVE Shows(c, r, raw[r])'
      <4>1. /\ Paints(blob, r) => blob[r] = raw[r]
            /\ Paints(blob, r) => Shows(c, r, blob[r])'
        <5>1. Paints(blob, r) => blob[r] = raw[r]
          BY <3>3 DEF FrameInv
        <5>2. Paints(blob, r) => Shows(c, r, blob[r])'
          BY <1>1, <1>6, <2>1, <2>4, <3>2, HoldShown
        <5> QED BY <5>1, <5>2
      <4>2. ~ Paints(blob, r) => Shows(c, r, raw[r])
        BY <3>1, <3>3 DEF FrameInv
      <4>3. ~ Paints(blob, r) => \A v : Shows(c, r, v) => Shows(c, r, v)'
        BY <1>6, <2>1, <2>4, <3>2, HoldShown
      <4>4. blob[r] = raw[r] => (Shows(c, r, blob[r])' <=> Shows(c, r, raw[r])')
        BY <1>1 DEF Shows
      <4>5. CASE Paints(blob, r)
        BY <4>1, <4>4, <4>5
      <4>6. CASE ~ Paints(blob, r)
        <5>1. RowBecomes(canvas, Sent(c), r, raw[r]) => RowBecomes(canvas, Sent(c), r, raw[r])'
          BY <4>3, <4>6, <1>1 DEF Shows
        <5> QED BY <4>2, <4>6, <5>1 DEF Shows
      <4> QED BY <4>5, <4>6
    <3> QED BY <2>2, <3>1, <3>3
  <2>5. CASE /\ blob # None /\ (last[c] < 0 \/ seq # last[c] + 1)
             /\ hpc' = [hpc EXCEPT ![c] = "full"] /\ UNCHANGED <<last, hold>>
    <3>1. last'[c] # seq /\ ~ Behind(c)'
      BY <1>1, <1>6, <2>1, <2>5 DEF Behind
    <3> QED BY <2>2, <3>1
  <2> QED BY <1>12, <2>3, <2>4, <2>5 DEF NextUpdate
<1> QED BY <1>8, <1>9, <1>10, <1>11, <1>12 DEF HandlerStep

\* Nothing of another connection is left when one opens, and nothing of one
\* that was aborted is painted after it.
LEMMA FramePanel ==
  ASSUME TypeInv, FrameInv, LatePaint = FALSE,
         Disconnect \/ \E c \in Conns : Connect(c) \/ Paint(c)
  PROVE  FrameInv'
<1>1. UNCHANGED <<raw, blob, seq>> /\ (Captures' <=> Captures)
  BY DEF Disconnect, Connect, Paint, Captures, screen
<1>2. Captures' => \A r \in Rows : Paints(blob', r) => blob'[r] = raw'[r]
  BY <1>1 DEF FrameInv
<1>3. CASE Disconnect
  <2>1. current \in Conns /\ current' = None /\ None \notin Conns
    BY <1>3, StreamAssumption DEF Disconnect, TypeInv, TypeOK
  <2>2. chan' = [chan EXCEPT ![current] = SubSeq(@, 1, 0)]
    <3>1. (IF LatePaint THEN Len(chan[current]) ELSE 0) = 0 /\ \A n \in 0 .. 0 : n = 0
      OBVIOUS
    <3> QED BY <1>3, <3>1 DEF Disconnect
  <2>3. SubSeq(chan[current], 1, 0) = <<>>
    BY <2>1 DEF TypeInv, TypeOK
  <2>4. \A c \in Conns : chan'[c] = <<>>
    BY <2>1, <2>2, <2>3 DEF FrameInv, TypeInv, TypeOK
  <2> QED BY <1>2, <2>1, <2>4 DEF FrameInv
<1>4. ASSUME NEW c \in Conns, Connect(c) PROVE FrameInv'
  <2>1. current' = c /\ last'[c] = -1 /\ UNCHANGED chan /\ chan[c] = <<>> /\ current = None
    BY <1>4 DEF Connect, TypeInv, TypeOK
  <2>2. seq' \in Nat
    BY <1>1 DEF TypeInv, TypeOK
  <2>3. last'[c] # seq' /\ ~ Behind(c)'
    BY <2>1, <2>2 DEF Behind
  <2>4. \A d \in Conns : current' # d => chan'[d] = <<>>
    BY <2>1, StreamAssumption DEF FrameInv
  <2> QED BY <1>2, <2>1, <2>3, <2>4 DEF FrameInv
<1>5. ASSUME NEW c \in Conns, Paint(c) PROVE FrameInv'
  <2>1. /\ current = c /\ UNCHANGED <<current, hpc, last, hold>>
        /\ chan[c] # <<>> /\ chan[c] \in Seq(Chunks) /\ hold[c] \in Chunks
        /\ chan' = [chan EXCEPT ![c] = Tail(@)]
        /\ canvas' = Painted(canvas, Head(chan[c]))
    BY <1>5 DEF Paint, FrameInv, TypeInv, TypeOK, handler
  <2>2. /\ Sent(c) \in Seq(Chunks) /\ Sent(c) # <<>>
        /\ Sent(c)' = Tail(Sent(c)) /\ Head(Sent(c)) = Head(chan[c])
    <3>1. chan'[c] = Tail(chan[c])
      BY <2>1 DEF TypeInv, TypeOK
    <3>2. /\ Append(chan[c], hold[c]) \in Seq(Chunks) /\ Append(chan[c], hold[c]) # <<>>
          /\ Head(Append(chan[c], hold[c])) = Head(chan[c])
          /\ Append(Tail(chan[c]), hold[c]) = Tail(Append(chan[c], hold[c]))
      BY <2>1
    <3> QED BY <2>1, <3>1, <3>2 DEF Sent
  <2>3. ASSUME NEW r \in Rows, Shows(c, r, raw[r]) PROVE Shows(c, r, raw[r])'
    <3>1. RowBecomes(canvas, Sent(c), r, raw[r])
      BY <2>3 DEF Shows
    <3>2. RowBecomes(Painted(canvas, Head(Sent(c))), Tail(Sent(c)), r, raw[r])
      BY <2>2, <3>1, HeadPainted
    <3> QED BY <1>1, <2>1, <2>2, <3>2 DEF Shows
  <2>4. \A d \in Conns : current' # d => chan'[d] = <<>>
    BY <2>1 DEF FrameInv, TypeInv, TypeOK
  <2> QED BY <1>1, <1>2, <2>1, <2>3, <2>4 DEF FrameInv, Behind
<1> QED BY <1>3, <1>4, <1>5

LEMMA FrameStep ==
  ASSUME TypeInv, FrameInv, LatePaint = FALSE, [Next]_vars
  PROVE  FrameInv'
<1>1. CASE UNCHANGED vars
  BY <1>1 DEF FrameInv, Captures, Behind, Shows, Sent, vars, screen, handler, panel
<1> QED BY <1>1, FrameCapture, FrameHandler, FramePanel DEF Next

\* LastFrameShown always holds: for any rows, colours, connections and buffer,
\* and however captures, snapshots, writes and paints interleave, a panel that
\* was sent the newest update shows the newest frame once it has painted, so
\* long as an aborted connection paints nothing more.
THEOREM FrameCorrect == LatePaint = FALSE /\ Spec => []LastFrameShown
<1> SUFFICES ASSUME LatePaint = FALSE PROVE Spec => []LastFrameShown
  OBVIOUS
<1>1. Init => FrameInv
  BY DEF Init, FrameInv, Captures
<1>2. FrameInv => LastFrameShown
  BY DEF FrameInv, LastFrameShown, Captures
<1>3. TypeInv /\ FrameInv /\ [Next]_vars => FrameInv'
  BY FrameStep
<1>4. TypeInv /\ [Next]_vars => TypeInv'
  BY TypeStep
<1> QED BY <1>1, <1>2, <1>3, <1>4, InitTypes, PTL DEF Spec

---------------------------------------------------------------------------
(* The refinement of Mirror *)

\* Of chunks xs with the numbers ns, to be painted on the canvas cv: once the
\* i-th is painted, the canvas is the frame with its number, which is not older
\* than that of any chunk before it, nor than the frame "old" on the canvas.
Carry(cv, xs, ns, frames, old) ==
  \A i \in DOMAIN xs : ~ Mark(xs[i]) =>
    /\ ns[i] \in old .. Len(frames) /\ ns[i] > 0 /\ frames[ns[i]] \in Frame
    /\ \A j \in 1 .. i : ~ Mark(xs[j]) => ns[j] <= ns[i]
    /\ \A r \in Rows : RowBecomes(cv, SubSeq(xs, 1, i), r, frames[ns[i]][r])

\* It stays true when another frame is captured,
LEMMA CarryCapture ==
  ASSUME NEW cv, NEW xs, NEW ns, NEW frames \in Seq(Frame \cup {Short}), NEW old \in Nat,
         NEW f \in Frame \cup {Short}, Carry(cv, xs, ns, frames, old)
  PROVE  Carry(cv, xs, ns, Append(frames, f), old)
<1> DEFINE more == Append(frames, f)
<1>1. /\ Len(frames) \in Nat /\ Len(more) = Len(frames) + 1
      /\ \A n \in 1 .. Len(frames) : more[n] = frames[n]
  OBVIOUS
<1> HIDE DEF more
<1>2. ASSUME NEW n \in old .. Len(frames), n > 0
      PROVE  n \in old .. Len(more) /\ more[n] = frames[n]
  BY <1>1, <1>2
<1> SUFFICES Carry(cv, xs, ns, more, old)
  BY DEF more
<1> QED BY <1>2 DEF Carry

\* when a chunk is put behind the others that is a mark or makes the canvas the
\* newest frame,
LEMMA CarryAppend ==
  ASSUME NEW cv, NEW xs \in Seq(Chunks), NEW ns \in Seq(Int), Len(ns) = Len(xs),
         NEW frames \in Seq(Frame \cup {Short}), NEW old \in 0 .. Len(frames),
         NEW x \in Chunks, NEW n \in Int, Carry(cv, xs, ns, frames, old),
         ~ Mark(x) => /\ n = Len(frames) /\ n > 0 /\ frames[n] \in Frame
                      /\ \A r \in Rows : RowBecomes(cv, Append(xs, x), r, frames[n][r])
  PROVE  Carry(cv, Append(xs, x), Append(ns, n), frames, old)
<1> DEFINE ys == Append(xs, x)
<1> DEFINE ms == Append(ns, n)
<1> DEFINE k == Len(xs) + 1
<1>1. /\ k \in Nat /\ DOMAIN xs = 1 .. k - 1 /\ DOMAIN ys = 1 .. k /\ ys[k] = x /\ ms[k] = n
      /\ ys \in Seq(Chunks) /\ Len(ys) = k
      /\ \A i \in 1 .. k - 1 : ys[i] = xs[i] /\ ms[i] = ns[i]
      /\ Len(frames) \in Nat /\ old \in Nat /\ old <= Len(frames)
  OBVIOUS
<1>2. SubSeq(ys, 1, k) = ys
  BY <1>1, SubSeqFull
<1>3. ASSUME NEW i \in 1 .. k - 1 PROVE SubSeq(ys, 1, i) = SubSeq(xs, 1, i)
  <2>1. i \in Int /\ \A j \in 1 .. i : ys[j] = xs[j]
    BY <1>1
  <2> HIDE DEF ys
  <2> QED BY <2>1
<1> HIDE DEF ys, ms, k
<1>4. ASSUME NEW i \in 1 .. k, i # k PROVE i \in 1 .. k - 1 /\ \A j \in 1 .. i : j \in 1 .. k - 1
  BY <1>1, <1>4
<1>5. ASSUME NEW i \in 1 .. k, i # k, ~ Mark(ys[i])
      PROVE  /\ ms[i] \in old .. Len(frames) /\ ms[i] > 0 /\ frames[ms[i]] \in Frame
             /\ \A j \in 1 .. i : ~ Mark(ys[j]) => ms[j] <= ms[i]
             /\ \A r \in Rows : RowBecomes(cv, SubSeq(ys, 1, i), r, frames[ms[i]][r])
  BY <1>1, <1>3, <1>4, <1>5 DEF Carry
<1>6. ASSUME ~ Mark(x)
      PROVE  /\ n \in old .. Len(frames) /\ n > 0 /\ frames[n] \in Frame
             /\ \A j \in 1 .. k : ~ Mark(ys[j]) => ms[j] <= n
             /\ \A r \in Rows : RowBecomes(cv, SubSeq(ys, 1, k), r, frames[n][r])
  <2>1. \A r \in Rows : RowBecomes(cv, SubSeq(ys, 1, k), r, frames[n][r])
    BY <1>2, <1>6 DEF ys
  <2>2. ASSUME NEW j \in 1 .. k, ~ Mark(ys[j]) PROVE ms[j] <= n
    <3>1. CASE j = k
      BY <1>1, <3>1
    <3>2. CASE j # k
      <4>1. ms[j] \in old .. Len(frames)
        BY <1>5, <2>2, <3>2
      <4> QED BY <1>1, <1>6, <4>1
    <3> QED BY <3>1, <3>2
  <2> QED BY <1>1, <1>6, <2>1, <2>2
<1>7. \A i \in 1 .. k : ~ Mark(ys[i]) =>
        /\ ms[i] \in old .. Len(frames) /\ ms[i] > 0 /\ frames[ms[i]] \in Frame
        /\ \A j \in 1 .. i : ~ Mark(ys[j]) => ms[j] <= ms[i]
        /\ \A r \in Rows : RowBecomes(cv, SubSeq(ys, 1, i), r, frames[ms[i]][r])
  <2> TAKE i \in 1 .. k
  <2>1. CASE i = k
    BY <1>1, <1>6, <2>1
  <2>2. CASE i # k
    BY <1>5, <2>2
  <2> QED BY <2>1, <2>2
<1> QED BY <1>1, <1>7 DEF Carry, ys, ms

\* and when the first chunk is painted.
LEMMA CarryPaint ==
  ASSUME NEW cv, NEW xs \in Seq(Chunks), xs # <<>>, NEW ns \in Seq(Int), Len(ns) = Len(xs),
         NEW frames, NEW old, Carry(cv, xs, ns, frames, old)
  PROVE  Carry(Painted(cv, Head(xs)), Tail(xs), Tail(ns), frames,
               IF Mark(Head(xs)) THEN old ELSE Head(ns))
<1> DEFINE ys == Tail(xs)
<1> DEFINE ms == Tail(ns)
<1> DEFINE k == Len(ys)
<1> DEFINE new == IF Mark(Head(xs)) THEN old ELSE Head(ns)
<1>1. /\ k \in Nat /\ Len(xs) = k + 1 /\ DOMAIN xs = 1 .. k + 1 /\ DOMAIN ys = 1 .. k
      /\ xs[1] = Head(xs) /\ ns[1] = Head(ns) /\ ns[1] \in Int
      /\ \A i \in 1 .. k : ys[i] = xs[i + 1] /\ ms[i] = ns[i + 1] /\ ms[i] \in Int
  OBVIOUS
<1>2. ASSUME NEW i \in 1 .. k, NEW r \in Rows, NEW v, RowBecomes(cv, SubSeq(xs, 1, i + 1), r, v)
      PROVE  RowBecomes(Painted(cv, Head(xs)), SubSeq(ys, 1, i), r, v)
  <2>1. i \in Nat /\ i + 1 \in 1 .. Len(xs) /\ 1 \in 1 .. Len(xs)
    BY <1>1
  <2>2. /\ SubSeq(xs, 1, i + 1) \in Seq(Chunks) /\ SubSeq(xs, 1, i + 1) # <<>>
        /\ Head(SubSeq(xs, 1, i + 1)) = Head(xs)
    <3>1. \A j \in 1 .. i + 1 : xs[j] \in Chunks
      BY <1>1, <2>1
    <3>2. /\ SubSeq(xs, 1, i + 1) \in Seq(Chunks) /\ Len(SubSeq(xs, 1, i + 1)) = i + 1
          /\ SubSeq(xs, 1, i + 1)[1] = xs[1]
      BY <2>1, <3>1
    <3>3. i + 1 # 0
      BY <2>1
    <3> QED BY <1>1, <3>2, <3>3
  <2>3. Tail(SubSeq(xs, 1, i + 1)) = SubSeq(ys, 1, i)
    BY <1>1, <2>1
  <2> HIDE DEF ys
  <2> QED BY <1>2, <2>2, <2>3, HeadPainted
<1> HIDE DEF ys, ms, k
<1>3. ASSUME NEW i \in 1 .. k, ~ Mark(ys[i])
      PROVE  /\ ms[i] \in new .. Len(frames) /\ ms[i] > 0 /\ frames[ms[i]] \in Frame
             /\ \A j \in 1 .. i : ~ Mark(ys[j]) => ms[j] <= ms[i]
             /\ \A r \in Rows : RowBecomes(Painted(cv, Head(xs)), SubSeq(ys, 1, i), r,
                                           frames[ms[i]][r])
  <2>1. i + 1 \in DOMAIN xs /\ ys[i] = xs[i + 1] /\ ms[i] = ns[i + 1] /\ ms[i] \in Int
    BY <1>1
  <2>2. /\ ns[i + 1] \in old .. Len(frames) /\ ns[i + 1] > 0 /\ frames[ns[i + 1]] \in Frame
        /\ \A j \in 1 .. i + 1 : ~ Mark(xs[j]) => ns[j] <= ns[i + 1]
        /\ \A r \in Rows : RowBecomes(cv, SubSeq(xs, 1, i + 1), r, frames[ns[i + 1]][r])
    BY <1>3, <2>1 DEF Carry
  <2>3. \A j \in 1 .. i : j + 1 \in 1 .. i + 1 /\ j \in 1 .. k
    BY <1>1
  <2>4. \A j \in 1 .. i : ~ Mark(ys[j]) => ms[j] <= ms[i]
    BY <1>1, <2>1, <2>2, <2>3
  <2>5. 1 \in 1 .. i + 1
    BY <1>1
  <2>6. ms[i] \in new .. Len(frames)
    <3>1. CASE Mark(Head(xs))
      BY <2>1, <2>2, <3>1
    <3>2. CASE ~ Mark(Head(xs))
      <4>1. ns[1] <= ns[i + 1] /\ new = ns[1]
        BY <1>1, <2>2, <2>5, <3>2
      <4> QED BY <1>1, <2>1, <2>2, <4>1
    <3> QED BY <3>1, <3>2
  <2> QED BY <1>2, <2>1, <2>2, <2>4, <2>6
<1> HIDE DEF new
<1>4. Carry(Painted(cv, Head(xs)), ys, ms, frames, new)
  BY <1>1, <1>3 DEF Carry
<1> QED BY <1>4 DEF ys, ms, new

\* Every chunk on its way has the number of the frame it completes.
Numbers(c) == IF hpc[c] = "write" THEN Append(numbers[c], last[c]) ELSE numbers[c]
MemoryInv ==
  /\ captured \in Seq(Frame \cup {Short}) /\ Len(captured) = seq
  /\ seq > 0 => captured[seq] = raw
  /\ blob \in Updates => raw \in Frame
  /\ at \in 0 .. seq
  /\ numbers \in [Conns -> Seq(Int)] /\ \A c \in Conns : Len(numbers[c]) = Len(chan[c])
  /\ \A c \in Conns : current = c => Carry(canvas, Sent(c), Numbers(c), captured, at)

LEMMA MirrorSteps ==
  ASSUME [MirrorNext]_<<vars, memory>>
  PROVE  [Next]_vars
BY DEF MirrorNext, Publishes, Breaks, Writes, PaintsNext, Others, Next, LoopStep, HandlerStep

LEMMA MemoryInit ==
  ASSUME Init, captured = <<>>, numbers = [c \in Conns |-> <<>>], at = 0
  PROVE  MemoryInv
<1>1. blob = None /\ blob \notin Updates
  BY FramesAreUpdates DEF Init
<1>2. current = None /\ None \notin Conns
  BY StreamAssumption DEF Init
<1>3. \A c \in Conns : numbers[c] = <<>> /\ chan[c] = <<>>
  BY DEF Init
<1>4. numbers \in [Conns -> Seq(Int)]
  OBVIOUS
<1>5. captured \in Seq(Frame \cup {Short}) /\ Len(captured) = 0 /\ seq = 0
  BY DEF Init
<1> QED BY <1>1, <1>2, <1>3, <1>4, <1>5 DEF MemoryInv

LEMMA NumbersMatch ==
  ASSUME TypeOK, MemoryInv, NEW c \in Conns
  PROVE  /\ Sent(c) \in Seq(Chunks) /\ Numbers(c) \in Seq(Int)
         /\ Len(Numbers(c)) = Len(Sent(c))
<1>1. /\ chan[c] \in Seq(Chunks) /\ hold[c] \in Chunks /\ numbers[c] \in Seq(Int)
      /\ last[c] \in Int /\ Len(numbers[c]) = Len(chan[c])
  BY DEF TypeOK, MemoryInv
<1>2. /\ Append(chan[c], hold[c]) \in Seq(Chunks) /\ Append(numbers[c], last[c]) \in Seq(Int)
      /\ Len(Append(numbers[c], last[c])) = Len(Append(chan[c], hold[c]))
  BY <1>1
<1> QED BY <1>1, <1>2 DEF Sent, Numbers

LEMMA MemoryPublishes ==
  ASSUME TypeInv, MemoryInv, Publishes
  PROVE  MemoryInv'
<1>1. /\ raw' = shot /\ shot \in Frame \cup {Short} /\ blob' = Encode(shot, prev)
      /\ seq' = seq + 1 /\ seq \in Nat /\ prev \in Frame \cup {None, Short}
      /\ captured' = Append(captured, raw') /\ UNCHANGED <<numbers, at>>
      /\ UNCHANGED <<hpc, last, hold, chan, current, canvas>>
  BY DEF Publishes, LoopPublish, TypeInv, TypeOK, Captured, handler, panel
<1>2. blob' \in Updates => raw' \in Frame
  BY <1>1, FramesAreUpdates DEF Encode
<1>3. captured \in Seq(Frame \cup {Short}) /\ Len(captured) = seq /\ at \in 0 .. seq
  BY DEF MemoryInv
<1>4. captured' \in Seq(Frame \cup {Short}) /\ Len(captured') = seq' /\ captured'[seq'] = raw'
  BY <1>1, <1>3
<1>5. \A c \in Conns : current' = c => Carry(canvas', Sent(c)', Numbers(c)', captured', at')
  <2> TAKE c \in Conns
  <2> HAVE current' = c
  <2>1. Carry(canvas, Sent(c), Numbers(c), captured, at)
    BY <1>1 DEF MemoryInv
  <2>2. Carry(canvas, Sent(c), Numbers(c), Append(captured, shot), at)
    BY <1>1, <1>3, <2>1, CarryCapture
  <2>3. Sent(c)' = Sent(c) /\ Numbers(c)' = Numbers(c)
    BY <1>1 DEF Sent, Numbers
  <2> QED BY <1>1, <2>2, <2>3
<1>6. numbers' \in [Conns -> Seq(Int)] /\ \A c \in Conns : Len(numbers'[c]) = Len(chan'[c])
  BY <1>1 DEF MemoryInv
<1> QED BY <1>1, <1>2, <1>3, <1>4, <1>5, <1>6 DEF MemoryInv

LEMMA MemoryWrites ==
  ASSUME TypeInv, MemoryInv, NEW c \in Conns, Writes(c)
  PROVE  MemoryInv'
<1>1. /\ current = c /\ hpc[c] = "write" /\ hpc' = [hpc EXCEPT ![c] = "wait"]
      /\ chan' = [chan EXCEPT ![c] = Append(@, hold[c])]
      /\ numbers' = [numbers EXCEPT ![c] = Append(numbers[c], last[c])]
      /\ UNCHANGED <<raw, blob, seq, last, hold, current, canvas, captured, at>>
  BY DEF Writes, Write, Remembers, screen
<1>2. /\ chan \in [Conns -> Seq(Chunks)] /\ hpc \in [Conns -> {"off", "wait", "full", "write"}]
      /\ hold[c] \in Chunks /\ last[c] \in Int /\ numbers \in [Conns -> Seq(Int)]
      /\ \A d \in Conns : Len(numbers[d]) = Len(chan[d])
  BY DEF TypeInv, TypeOK, MemoryInv
<1>3. Sent(c)' = Sent(c) /\ Numbers(c)' = Numbers(c)
  BY <1>1, <1>2 DEF Sent, Numbers
<1>4. numbers' \in [Conns -> Seq(Int)] /\ \A d \in Conns : Len(numbers'[d]) = Len(chan'[d])
  <2>1. /\ Append(numbers[c], last[c]) \in Seq(Int)
        /\ Len(Append(numbers[c], last[c])) = Len(Append(chan[c], hold[c]))
    BY <1>2
  <2> QED BY <1>1, <1>2, <2>1
<1>5. \A d \in Conns : current' = d => Carry(canvas', Sent(d)', Numbers(d)', captured', at')
  BY <1>1, <1>3 DEF MemoryInv
<1> QED BY <1>1, <1>4, <1>5 DEF MemoryInv

\* A painted chunk is a mark, or it makes the canvas the frame it stands for.
LEMMA MemoryPaints ==
  ASSUME TypeInv, FrameInv, MemoryInv, NEW c \in Conns, PaintsNext(c)
  PROVE  /\ MemoryInv'
         /\ \/ UNCHANGED <<captured, at, canvas>>
            \/ /\ at' \in at .. Len(captured) /\ at' > 0 /\ captured[at'] \in Frame
               /\ canvas' = captured[at'] /\ UNCHANGED captured
<1>1. /\ current = c /\ chan[c] # <<>> /\ chan[c] \in Seq(Chunks) /\ hold[c] \in Chunks
      /\ chan' = [chan EXCEPT ![c] = Tail(@)]
      /\ canvas' = Painted(canvas, Head(chan[c]))
      /\ numbers' = [numbers EXCEPT ![c] = Tail(numbers[c])]
      /\ at' = IF Mark(Head(chan[c])) THEN at ELSE Head(numbers[c])
      /\ UNCHANGED <<raw, blob, seq, hpc, last, hold, current, captured>>
  BY DEF PaintsNext, Paint, Remembers, FrameInv, TypeInv, TypeOK, screen, handler
<1>2. /\ numbers \in [Conns -> Seq(Int)] /\ chan \in [Conns -> Seq(Chunks)] /\ last[c] \in Int
      /\ \A d \in Conns : Len(numbers[d]) = Len(chan[d])
  BY DEF TypeInv, TypeOK, MemoryInv
<1>3. numbers[c] \in Seq(Int) /\ numbers[c] # <<>> /\ Len(numbers[c]) = Len(chan[c])
  <2>1. Len(chan[c]) # 0
    BY <1>1
  <2>2. numbers[c] \in Seq(Int) /\ Len(numbers[c]) = Len(chan[c])
    BY <1>2
  <2> QED BY <2>1, <2>2
<1>4. /\ Sent(c) \in Seq(Chunks) /\ Sent(c) # <<>>
      /\ Sent(c)' = Tail(Sent(c)) /\ Head(Sent(c)) = Head(chan[c])
  <2>1. chan'[c] = Tail(chan[c])
    BY <1>1, <1>2
  <2>2. /\ Append(chan[c], hold[c]) \in Seq(Chunks) /\ Append(chan[c], hold[c]) # <<>>
        /\ Head(Append(chan[c], hold[c])) = Head(chan[c])
        /\ Append(Tail(chan[c]), hold[c]) = Tail(Append(chan[c], hold[c]))
    BY <1>1
  <2> QED BY <1>1, <2>1, <2>2 DEF Sent
<1>5. /\ Numbers(c) \in Seq(Int) /\ Numbers(c) # <<>> /\ Len(Numbers(c)) = Len(Sent(c))
      /\ Numbers(c)' = Tail(Numbers(c)) /\ Head(Numbers(c)) = Head(numbers[c])
  <2>1. numbers'[c] = Tail(numbers[c])
    BY <1>1, <1>2
  <2>2. /\ Append(numbers[c], last[c]) \in Seq(Int) /\ Append(numbers[c], last[c]) # <<>>
        /\ Head(Append(numbers[c], last[c])) = Head(numbers[c])
        /\ Append(Tail(numbers[c]), last[c]) = Tail(Append(numbers[c], last[c]))
    <3>1. \A xs \in Seq(Int), n \in Int : xs # <<>> =>
            /\ Append(xs, n) \in Seq(Int) /\ Append(xs, n) # <<>> /\ Head(Append(xs, n)) = Head(xs)
            /\ Append(Tail(xs), n) = Tail(Append(xs, n))
      OBVIOUS
    <3> QED BY <1>2, <1>3, <3>1
  <2>3. Len(Numbers(c)) = Len(Sent(c))
    BY NumbersMatch DEF TypeInv
  <2>4. CASE hpc[c] = "write"
    BY <1>1, <2>1, <2>2, <2>3, <2>4 DEF Numbers
  <2>5. CASE hpc[c] # "write"
    BY <1>1, <1>3, <2>1, <2>3, <2>5 DEF Numbers
  <2> QED BY <2>4, <2>5
<1>6. Carry(canvas, Sent(c), Numbers(c), captured, at)
  BY <1>1 DEF MemoryInv
<1>7. Carry(canvas', Sent(c)', Numbers(c)', captured', at')
  <2>1. Carry(Painted(canvas, Head(Sent(c))), Tail(Sent(c)), Tail(Numbers(c)), captured,
              IF Mark(Head(Sent(c))) THEN at ELSE Head(Numbers(c)))
    BY <1>4, <1>5, <1>6, CarryPaint
  <2> QED BY <1>1, <1>4, <1>5, <2>1
<1>8. /\ at \in 0 .. seq /\ Len(captured) = seq /\ seq \in Nat
      /\ canvas \in [Rows -> Colours \cup {Blank}]
  BY DEF MemoryInv, TypeInv, TypeOK
<1>9. ASSUME Mark(Head(chan[c])) PROVE UNCHANGED <<captured, at, canvas>>
  <2>1. \A r \in Rows : ~ Paints(Head(chan[c]), r)
    BY <1>9 DEF Mark, Paints
  <2>2. canvas' = canvas
    BY <1>1, <1>8, <2>1 DEF Painted
  <2> QED BY <1>1, <1>9, <2>2
<1>10. ASSUME ~ Mark(Head(chan[c]))
       PROVE  /\ at' \in at .. Len(captured) /\ at' > 0 /\ captured[at'] \in Frame
              /\ canvas' = captured[at'] /\ UNCHANGED captured
  <2>1. /\ 1 \in DOMAIN Sent(c) /\ Sent(c)[1] = Head(Sent(c))
        /\ Numbers(c)[1] = Head(Numbers(c))
    BY <1>4, <1>5
  <2>2. at' = Numbers(c)[1] /\ ~ Mark(Sent(c)[1])
    BY <1>1, <1>4, <1>5, <1>10, <2>1
  <2>3. /\ at' \in at .. seq /\ at' > 0 /\ captured[at'] \in Frame
        /\ \A r \in Rows : RowBecomes(canvas, SubSeq(Sent(c), 1, 1), r, captured[at'][r])
    BY <1>6, <1>8, <2>1, <2>2 DEF Carry
  <2>4. /\ SubSeq(Sent(c), 1, 1) \in Seq(Chunks) /\ SubSeq(Sent(c), 1, 1) # <<>>
        /\ Head(SubSeq(Sent(c), 1, 1)) = Head(Sent(c)) /\ Tail(SubSeq(Sent(c), 1, 1)) = <<>>
    BY <1>4, <2>1
  <2>5. ASSUME NEW r \in Rows PROVE canvas'[r] = captured[at'][r]
    <3>1. RowBecomes(Painted(canvas, Head(Sent(c))), <<>>, r, captured[at'][r])
      BY <2>3, <2>4, HeadPainted
    <3>2. DOMAIN <<>> = {}
      OBVIOUS
    <3> QED BY <1>1, <1>4, <3>1, <3>2 DEF RowBecomes
  <2>6. canvas' = [r \in Rows |-> canvas'[r]]
    BY <1>1 DEF Painted
  <2>7. captured[at'] = [r \in Rows |-> captured[at'][r]]
    BY <2>3 DEF Frame
  <2>8. canvas' = captured[at']
    BY <2>5, <2>6, <2>7
  <2> QED BY <1>1, <1>8, <2>3, <2>8
<1>11. at' \in 0 .. seq
  BY <1>8, <1>9, <1>10
<1>12. numbers' \in [Conns -> Seq(Int)] /\ \A d \in Conns : Len(numbers'[d]) = Len(chan'[d])
  <2>1. /\ Tail(numbers[c]) \in Seq(Int)
        /\ Len(Tail(numbers[c])) = Len(Tail(chan[c]))
    BY <1>1, <1>3
  <2> QED BY <1>1, <1>2, <2>1
<1>13. MemoryInv'
  BY <1>1, <1>7, <1>11, <1>12 DEF MemoryInv
<1> QED BY <1>9, <1>10, <1>13

\* A handler takes its next chunk: a mark, or what completes the newest frame.
LEMMA MemoryHolds ==
  ASSUME TypeInv, MemoryInv, FrameInv', NEW c \in Conns, hpc[c] # "write",
         NEW x \in Chunks, NEW s \in Int, Hold(c, x, s),
         ~ Mark(x) => s = seq /\ seq > 0 /\ raw \in Frame,
         UNCHANGED <<raw, blob, seq, chan, current, canvas, memory>>
  PROVE  MemoryInv'
<1>1. /\ Sent(c) = chan[c] /\ Numbers(c) = numbers[c]
      /\ Sent(c)' = Append(chan[c], x) /\ Numbers(c)' = Append(numbers[c], s)
      /\ last'[c] = s /\ UNCHANGED <<captured, numbers, at>>
  BY DEF Sent, Numbers, Hold, TypeInv, TypeOK, memory
<1>2. /\ chan[c] \in Seq(Chunks) /\ numbers[c] \in Seq(Int) /\ Len(numbers[c]) = Len(chan[c])
      /\ captured \in Seq(Frame \cup {Short}) /\ Len(captured) = seq /\ at \in 0 .. seq
      /\ seq > 0 => captured[seq] = raw
  BY DEF MemoryInv, TypeInv, TypeOK
<1>3. ASSUME current = c PROVE Carry(canvas', Sent(c)', Numbers(c)', captured', at')
  <2>1. Carry(canvas, chan[c], numbers[c], captured, at)
    BY <1>1, <1>3 DEF MemoryInv
  <2>2. ASSUME ~ Mark(x)
        PROVE  /\ s = Len(captured) /\ s > 0 /\ captured[s] \in Frame
               /\ \A r \in Rows : RowBecomes(canvas, Append(chan[c], x), r, captured[s][r])
    <3>1. s = seq /\ seq > 0 /\ raw \in Frame /\ captured[s] = raw
      BY <1>2, <2>2
    <3>2. current' = c /\ Captures' /\ last'[c] = seq'
      BY <1>1, <1>3, <3>1, FramesAreUpdates DEF Captures
    <3>3. \A r \in Rows : Shows(c, r, raw[r])'
      BY <3>2 DEF FrameInv
    <3>4. \A r \in Rows : RowBecomes(canvas, Append(chan[c], x), r, raw[r])
      BY <1>1, <3>3 DEF Shows
    <3> QED BY <1>2, <3>1, <3>4
  <2>3. Carry(canvas, Append(chan[c], x), Append(numbers[c], s), captured, at)
    BY <1>2, <2>1, <2>2, CarryAppend
  <2> QED BY <1>1, <2>3
<1>4. \A d \in Conns : current' = d => Carry(canvas', Sent(d)', Numbers(d)', captured', at')
  <2> TAKE d \in Conns
  <2>1. CASE d = c
    BY <1>3, <2>1
  <2>2. CASE d # c
    <3>1. Sent(d)' = Sent(d) /\ Numbers(d)' = Numbers(d)
      BY <1>1, <2>2 DEF Sent, Numbers, Hold, TypeInv, TypeOK
    <3> QED BY <1>1, <3>1 DEF MemoryInv
  <2> QED BY <2>1, <2>2
<1> QED BY <1>1, <1>4 DEF MemoryInv

LEMMA MemoryOthers ==
  ASSUME TypeInv, FrameInv, FrameInv', MemoryInv, Others, UNCHANGED memory
  PROVE  MemoryInv'
<1>0. UNCHANGED <<captured, numbers, at>>
  BY DEF memory
<1>1. CASE \/ LoopCheck \/ LoopSeek \/ LoopRead \/ SnapSeek \/ SnapRead
           \/ \E r \in Rows, c \in Colours : Draw(r, c)
  <2>1. UNCHANGED <<raw, blob, seq, hpc, last, hold, chan, current, canvas>>
    BY <1>1 DEF LoopCheck, LoopSeek, LoopRead, SnapSeek, SnapRead, Draw, screen, handler, panel
  <2>2. \A c \in Conns : Sent(c)' = Sent(c) /\ Numbers(c)' = Numbers(c)
    BY <1>0, <2>1 DEF Sent, Numbers
  <2> QED BY <1>0, <2>1, <2>2 DEF MemoryInv
<1>2. ASSUME NEW c \in Conns, NextUpdate(c) PROVE MemoryInv'
  <2>1. UNCHANGED <<raw, blob, seq, chan, current, canvas>> /\ hpc[c] # "write"
    BY <1>2 DEF NextUpdate, screen, panel
  <2>2. CASE blob = None /\ Hold(c, Beat, last[c])
    <3>1. Beat \in Chunks /\ Mark(Beat) /\ last[c] \in Int
      BY DEF Chunks, Mark, TypeInv, TypeOK
    <3> QED BY <1>0, <2>1, <2>2, <3>1, MemoryHolds DEF memory
  <2>3. CASE blob # None /\ last[c] >= 0 /\ seq = last[c] + 1 /\ Hold(c, blob, seq)
    <3>1. blob \in Updates \cup {Short} /\ blob \in Chunks /\ seq \in Int /\ seq > 0
      BY <2>3 DEF TypeInv, TypeOK, Chunks
    <3>2. ~ Mark(blob) => raw \in Frame
      BY <3>1 DEF Mark, MemoryInv
    <3> QED BY <1>0, <2>1, <2>3, <3>1, <3>2, MemoryHolds DEF memory
  <2>4. CASE hpc' = [hpc EXCEPT ![c] = "full"] /\ UNCHANGED <<last, hold>>
    <3>1. \A d \in Conns : hpc'[d] = "write" <=> hpc[d] = "write"
      BY <2>1, <2>4 DEF TypeInv, TypeOK
    <3>2. \A d \in Conns : Sent(d)' = Sent(d) /\ Numbers(d)' = Numbers(d)
      BY <1>0, <2>1, <2>4, <3>1 DEF Sent, Numbers
    <3> QED BY <1>0, <2>1, <3>2 DEF MemoryInv
  <2> QED BY <1>2, <2>2, <2>3, <2>4 DEF NextUpdate
<1>3. ASSUME NEW c \in Conns, Quiet(c) PROVE MemoryInv'
  <2>1. /\ UNCHANGED <<raw, blob, seq, chan, current, canvas>> /\ hpc[c] # "write"
        /\ Hold(c, Beat, seq) /\ Beat \in Chunks /\ Mark(Beat) /\ seq \in Int
    BY <1>3 DEF Quiet, screen, panel, Chunks, Mark, TypeInv, TypeOK
  <2> QED BY <1>0, <2>1, MemoryHolds DEF memory
<1>4. ASSUME NEW c \in Conns, FullFrame(c) PROVE MemoryInv'
  <2>1. /\ UNCHANGED <<raw, blob, seq, chan, current, canvas>> /\ hpc[c] # "write"
        /\ Hold(c, raw, seq) /\ seq \in Int
    BY <1>4 DEF FullFrame, screen, panel, TypeInv, TypeOK
  <2>2. raw # None /\ seq > 0
    BY <1>4 DEF FullFrame, TypeInv, TypeOK, Captured
  <2>3. raw \in Chunks /\ (~ Mark(raw) => raw \in Frame)
    BY <2>2, FramesAreUpdates DEF TypeInv, TypeOK, Chunks, Mark
  <2> QED BY <1>0, <2>1, <2>2, <2>3, MemoryHolds DEF memory
<1>5. ASSUME NEW c \in Conns, WriteFails(c) PROVE MemoryInv'
  <2>1. /\ current # c /\ UNCHANGED <<raw, blob, seq, last, hold, chan, current, canvas>>
        /\ hpc' = [hpc EXCEPT ![c] = "off"]
    BY <1>5 DEF WriteFails, panel
  <2>2. \A d \in Conns : current' = d => Sent(d)' = Sent(d) /\ Numbers(d)' = Numbers(d)
    BY <1>0, <2>1 DEF Sent, Numbers, TypeInv, TypeOK
  <2> QED BY <1>0, <2>1, <2>2 DEF MemoryInv
<1>6. ASSUME NEW c \in Conns, Connect(c) PROVE MemoryInv'
  <2>1. /\ current' = c /\ chan[c] = <<>> /\ hpc' = [hpc EXCEPT ![c] = "wait"]
        /\ UNCHANGED <<raw, blob, seq, hold, chan, canvas>>
    BY <1>6 DEF Connect
  <2>2. Sent(c)' = <<>>
    BY <2>1 DEF Sent, TypeInv, TypeOK
  <2>3. DOMAIN Sent(c)' = {}
    BY <2>2
  <2>4. Carry(canvas', Sent(c)', Numbers(c)', captured', at')
    BY <2>3 DEF Carry
  <2>5. \A d \in Conns : current' = d => Carry(canvas', Sent(d)', Numbers(d)', captured', at')
    BY <2>1, <2>4
  <2> QED BY <1>0, <2>1, <2>5 DEF MemoryInv
<1> QED BY <1>1, <1>2, <1>3, <1>4, <1>5, <1>6 DEF Others

LEMMA MemoryBreaks ==
  ASSUME TypeInv, FrameInv, MemoryInv, LatePaint = FALSE, Breaks
  PROVE  MemoryInv'
<1>1. /\ current \in Conns /\ current' = None /\ None \notin Conns
      /\ UNCHANGED <<raw, blob, seq, canvas, captured, at>>
      /\ numbers' = [numbers EXCEPT ![current] = SubSeq(numbers[current], 1, Len(chan'[current]))]
  BY StreamAssumption DEF Breaks, Disconnect, Remembers, TypeInv, TypeOK, screen
<1>2. chan' = [chan EXCEPT ![current] = SubSeq(@, 1, 0)]
  <2>1. (IF LatePaint THEN Len(chan[current]) ELSE 0) = 0 /\ \A n \in 0 .. 0 : n = 0
    OBVIOUS
  <2> QED BY <2>1 DEF Breaks, Disconnect
<1>3. /\ chan \in [Conns -> Seq(Chunks)] /\ numbers \in [Conns -> Seq(Int)]
      /\ \A c \in Conns : Len(numbers[c]) = Len(chan[c])
  BY DEF TypeInv, TypeOK, MemoryInv
<1>4. SubSeq(chan[current], 1, 0) = <<>> /\ SubSeq(numbers[current], 1, 0) = <<>>
  BY <1>1, <1>3
<1>5. chan'[current] = <<>> /\ Len(<<>>) = 0
  BY <1>1, <1>2, <1>3, <1>4
<1>6. numbers' = [numbers EXCEPT ![current] = <<>>]
  BY <1>1, <1>4, <1>5
<1>7. numbers' \in [Conns -> Seq(Int)] /\ \A c \in Conns : Len(numbers'[c]) = Len(chan'[c])
  BY <1>1, <1>2, <1>3, <1>4, <1>6
<1> QED BY <1>1, <1>7 DEF MemoryInv

LEMMA MemoryStep ==
  ASSUME TypeInv, FrameInv, MemoryInv, LatePaint = FALSE, [MirrorNext]_<<vars, memory>>
  PROVE  /\ MemoryInv'
         /\ [Abstract!Next]_<<captured, at, canvas>>
<1>1. FrameInv'
  BY FrameStep, MirrorSteps
<1>2. CASE Publishes
  <2>1. raw' \in Frame \cup {Short} /\ UNCHANGED <<at, canvas>> /\ captured' = Append(captured, raw')
    BY <1>2 DEF Publishes, LoopPublish, TypeInv, Captured, panel
  <2> QED BY <1>2, <2>1, MemoryPublishes DEF Abstract!Next, Abstract!Capture
<1>3. CASE Breaks
  BY <1>3, MemoryBreaks DEF Breaks, Disconnect
<1>4. ASSUME NEW c \in Conns, Writes(c) PROVE MemoryInv' /\ UNCHANGED <<captured, at, canvas>>
  BY <1>4, MemoryWrites DEF Writes, Write
<1>5. ASSUME NEW c \in Conns, PaintsNext(c)
      PROVE  MemoryInv' /\ [Abstract!Next]_<<captured, at, canvas>>
  BY <1>5, MemoryPaints DEF Abstract!Next, Abstract!Show
<1>6. CASE Others /\ UNCHANGED memory
  <2>1. UNCHANGED canvas
    BY <1>6 DEF Others, LoopCheck, LoopSeek, LoopRead, SnapSeek, SnapRead, Draw, NextUpdate,
                Quiet, FullFrame, WriteFails, Connect, panel
  <2> QED BY <1>1, <1>6, <2>1, MemoryOthers DEF memory
<1>7. CASE UNCHANGED <<vars, memory>>
  <2>1. \A c \in Conns : Sent(c)' = Sent(c) /\ Numbers(c)' = Numbers(c)
    BY <1>7 DEF Sent, Numbers, vars, memory, handler, panel
  <2> QED BY <1>7, <2>1 DEF MemoryInv, vars, memory, screen, handler, panel
<1> QED BY <1>2, <1>3, <1>4, <1>5, <1>6, <1>7 DEF MirrorNext

\* ShowsCaptured: the stream and the panel implement Mirror.  For any rows,
\* colours, connections and buffer, whatever is skipped, encoded again or cut
\* off, each painted chunk makes the canvas one whole captured frame, and not
\* an older one than before; if an aborted connection paints nothing more.
THEOREM MirrorImplemented == LatePaint = FALSE /\ MirrorSpec => ShowsCaptured
<1> SUFFICES ASSUME LatePaint = FALSE PROVE MirrorSpec => ShowsCaptured
  OBVIOUS
<1> DEFINE I == TypeInv /\ FrameInv /\ MemoryInv
<1>1. Init /\ captured = <<>> /\ numbers = [c \in Conns |-> <<>>] /\ at = 0 => I
  BY InitTypes, MemoryInit DEF Init, FrameInv, Captures
<1>2. I /\ [MirrorNext]_<<vars, memory>> => I'
  BY MirrorSteps, TypeStep, FrameStep, MemoryStep
<1>3. I /\ [MirrorNext]_<<vars, memory>> => [Abstract!Next]_<<captured, at, canvas>>
  BY MemoryStep
<1>4. Init /\ captured = <<>> /\ at = 0 => Abstract!Init
  BY DEF Init, Abstract!Init
<1> QED BY <1>1, <1>2, <1>3, <1>4, PTL DEF MirrorSpec, ShowsCaptured, Abstract!Spec

---------------------------------------------------------------------------
(* RowRuns: induction over the values of recursive functions *)

\* A set of natural numbers has a least element.  Facts about the recursive
\* functions are proved with it, by the least argument at which they fail.
LEMMA Least ==
  ASSUME NEW S \in SUBSET Nat, S # {}
  PROVE  \E m \in S : \A k \in S : m <= k
<1> DEFINE R == OpToRel(<, Nat)
<1>1. IsWellFoundedOn(R, Nat)
  BY NatLessThanWellFounded
<1>2. \A x, y \in Nat : (x < y) => <<x, y>> \in R
  BY DEF OpToRel
<1> HIDE DEF R
<1>3. PICK m \in S : \A y \in S : ~ (<<y, m>> \in R)
  BY <1>1, WFMin
<1>4. ASSUME NEW k \in S PROVE m <= k
  <2>1. m \in Nat /\ k \in Nat
    OBVIOUS
  <2>2. ~ (k < m)
    BY <2>1, <1>2, <1>3
  <2> QED BY <2>1, <2>2
<1> QED BY <1>4

\* What holds at the first argument and, after any, at the next holds at all.
LEMMA Everywhere ==
  ASSUME NEW m \in Nat, NEW n \in Nat, NEW T,
         m <= n => m \in T,
         \A i \in m + 1 .. n : i - 1 \in T => i \in T
  PROVE  m .. n \subseteq T
<1> DEFINE Wrong == {i \in m .. n : i \notin T}
<1>1. Wrong = {}
  <2> SUFFICES ASSUME Wrong # {} PROVE FALSE
    OBVIOUS
  <2>1. PICK i \in Wrong : \A k \in Wrong : i <= k
    <3> HIDE DEF Wrong
    <3>1. Wrong \in SUBSET Nat BY DEF Wrong
    <3> QED BY <3>1, Least
  <2>2. i # m /\ m <= n
    BY <2>1
  <2>3. i \in m + 1 .. n /\ i - 1 \in m .. n /\ ~ (i <= i - 1)
    BY <2>1, <2>2
  <2>4. i - 1 \in T
    BY <2>1, <2>3
  <2> QED BY <2>1, <2>3, <2>4
<1> QED BY <1>1

\* f is what the steps make of base, from m to n.
Folds(f, m, n, base, step) ==
  f = [i \in m .. n |-> IF i = m THEN base ELSE step[i][f[i - 1]]]

LEMMA FoldExists ==
  ASSUME NEW m \in Nat, NEW n \in Nat, m <= n, NEW S, NEW base \in S,
         NEW step \in [m + 1 .. n -> [S -> S]]
  PROVE  \E f \in [m .. n -> S] : Folds(f, m, n, base, step)
<1> DEFINE T == {k \in m .. n : \E f \in [m .. k -> S] : Folds(f, m, k, base, step)}
<1>1. m \in T
  <2> DEFINE f == [i \in m .. m |-> base]
  <2>1. f = [i \in m .. m |-> IF i = m THEN base ELSE step[i][f[i - 1]]]
    OBVIOUS
  <2>2. f \in [m .. m -> S]
    OBVIOUS
  <2>3. Folds(f, m, m, base, step)
    <3> HIDE DEF f
    <3> QED BY <2>1 DEF Folds
  <2> HIDE DEF f
  <2> QED BY <2>2, <2>3
<1>2. ASSUME NEW k \in m + 1 .. n, k - 1 \in T PROVE k \in T
  <2>1. PICK f \in [m .. k - 1 -> S] : Folds(f, m, k - 1, base, step)
    BY <1>2
  <2> DEFINE g == [i \in m .. k |-> IF i = k THEN step[k][f[k - 1]] ELSE f[i]]
  <2>2. k \in m .. n /\ k - 1 \in m .. k - 1
    OBVIOUS
  <2>3. g \in [m .. k -> S]
    BY <2>2
  <2>4. ASSUME NEW i \in m .. k
        PROVE  g[i] = IF i = m THEN base ELSE step[i][g[i - 1]]
    <3>1. CASE i = m
      <4>1. f[m] = base /\ m # k
        BY <2>1, <2>2 DEF Folds
      <4> QED BY <3>1, <4>1
    <3>2. CASE i # m /\ i # k
      <4>1. i \in m .. k - 1 /\ i - 1 \in m .. k /\ i - 1 # k
        BY <3>2
      <4>2. f[i] = step[i][f[i - 1]]
        BY <2>1, <3>2, <4>1 DEF Folds
      <4> QED BY <3>2, <4>1, <4>2
    <3>3. CASE i = k
      BY <2>2, <3>3
    <3> QED BY <3>1, <3>2, <3>3
  <2>5. Folds(g, m, k, base, step)
    <3> HIDE DEF g
    <3>1. g = [i \in m .. k |-> g[i]]
      BY <2>3
    <3> QED BY <2>4, <3>1 DEF Folds
  <2> QED BY <2>2, <2>3, <2>5
<1>3. m .. n \subseteq T
  <2> HIDE DEF T
  <2> QED BY <1>1, <1>2, Everywhere
<1> QED BY <1>3

---------------------------------------------------------------------------
(* The runs of one band *)

RunSeq == Seq(Int \X Int)

\* What a run sequence is after one more changed row.
LEMMA ExtendedIs ==
  ASSUME NEW runs \in RunSeq, NEW y \in Int
  PROVE  LET e == Extended(runs, y)
             n == Len(runs)
         IN  /\ e \in RunSeq
             /\ IF Absorbs(runs, y)
                THEN /\ n >= 1 /\ Len(e) = n /\ e[n] = <<runs[n][1], y>>
                     /\ \A k \in 1 .. n - 1 : e[k] = runs[k]
                ELSE /\ Len(e) = n + 1 /\ e[n + 1] = <<y, y>>
                     /\ \A k \in 1 .. n : e[k] = runs[k]
<1> DEFINE e == Extended(runs, y)
<1> DEFINE n == Len(runs)
<1>0. n \in Nat /\ DOMAIN runs = 1 .. n /\ runs \in [1 .. n -> Int \X Int]
  BY DEF RunSeq
<1>1. CASE Absorbs(runs, y)
  <2>1. n >= 1
    BY <1>0, <1>1 DEF Absorbs, RunSeq
  <2>2. e = [runs EXCEPT ![n] = <<runs[n][1], y>>]
    BY <1>1 DEF Extended
  <2>3. <<runs[n][1], y>> \in Int \X Int
    BY <1>0, <2>1
  <2>4. e \in [1 .. n -> Int \X Int] /\ e[n] = <<runs[n][1], y>>
        /\ \A k \in 1 .. n - 1 : e[k] = runs[k]
    BY <1>0, <2>1, <2>2, <2>3
  <2> HIDE DEF e
  <2>5. e \in RunSeq /\ Len(e) = n
    BY <1>0, <2>4 DEF RunSeq
  <2> QED BY <1>1, <2>1, <2>4, <2>5 DEF e
<1>2. CASE ~ Absorbs(runs, y)
  <2>1. e = Append(runs, <<y, y>>)
    BY <1>2 DEF Extended
  <2>2. <<y, y>> \in Int \X Int
    OBVIOUS
  <2>3. e \in RunSeq /\ Len(e) = n + 1 /\ e[n + 1] = <<y, y>>
        /\ \A k \in 1 .. n : e[k] = runs[k]
    BY <1>0, <2>1, <2>2 DEF RunSeq
  <2> QED BY <1>2, <2>3
<1> QED BY <1>1, <1>2

Covers(runs, z) == \E k \in DOMAIN runs : runs[k][1] <= z /\ z <= runs[k][2]
Before(a, y) == {x \in changed : a <= x /\ x < y}
Between(X, z) == \E x, w \in X : x < z /\ z < w /\ w - x <= 3

\* The found runs of the rows from a on and before y.
Grown(runs, a, y) ==
  /\ runs \in RunSeq
  /\ \A k \in DOMAIN runs : runs[k][1] <= runs[k][2] /\ {runs[k][1], runs[k][2]} \subseteq Before(a, y)
  /\ \A j, k \in DOMAIN runs : j < k => runs[j][2] + 4 <= runs[k][1]
  /\ \A x \in Before(a, y) : runs # <<>> /\ x <= runs[Len(runs)][2]
  /\ \A z \in Int : Covers(runs, z) <=> z \in Before(a, y) \/ Between(Before(a, y), z)

LEMMA GrowsBy ==
  ASSUME changed \subseteq Int, NEW a \in Nat, NEW y \in Nat, a <= y,
         NEW runs, Grown(runs, a, y)
  PROVE  Grown(IF y \in changed THEN Extended(runs, y) ELSE runs, a, y + 1)
<1> DEFINE X == Before(a, y)
<1> DEFINE n == Len(runs)
<1>0. /\ n \in Nat /\ DOMAIN runs = 1 .. n
      /\ \A k \in 1 .. n : runs[k][1] \in Int /\ runs[k][2] \in Int
      /\ runs = <<>> <=> n = 0
  BY DEF Grown, RunSeq
<1>00. runs \in RunSeq /\ \A x \in changed : x \in Int /\ (x < y + 1 <=> x < y \/ x = y)
  BY DEF Grown
<1>01. n \in Nat
  BY <1>0
<1>1. CASE y \notin changed
  <2>1. Before(a, y + 1) = X
    BY <1>00, <1>1 DEF Before
  <2> QED BY <1>1, <2>1 DEF Grown
<1>2. CASE y \in changed
  <2> DEFINE e == Extended(runs, y)
  <2>1. Before(a, y + 1) = X \cup {y}
    <3>1. a <= y /\ y \in changed BY <1>2
    <3> QED BY <1>00, <3>1 DEF Before
  <2>2. \A x \in X : x \in Int /\ a <= x /\ x < y
    BY DEF Before
  <2>3. CASE Absorbs(runs, y)
    <3>1. /\ e \in RunSeq /\ n >= 1 /\ Len(e) = n /\ DOMAIN e = 1 .. n
          /\ e[n] = <<runs[n][1], y>> /\ \A k \in 1 .. n - 1 : e[k] = runs[k]
      <4>1. y \in Int /\ runs \in RunSeq
        BY <1>00
      <4>2. /\ e \in RunSeq /\ n >= 1 /\ Len(e) = n
            /\ e[n] = <<runs[n][1], y>> /\ \A k \in 1 .. n - 1 : e[k] = runs[k]
        BY <2>3, <4>1, ExtendedIs
      <4> HIDE DEF e
      <4>3. DOMAIN e = 1 .. n
        BY <4>2 DEF RunSeq
      <4> QED BY <4>2, <4>3
    <3> HIDE DEF e
    <3>10. \A k \in 1 .. n : /\ e[k][1] = runs[k][1]
                             /\ IF k = n THEN e[k][2] = y ELSE e[k][2] = runs[k][2]
      <4>1. e[n][1] = runs[n][1] /\ e[n][2] = y
        BY <3>1
      <4>2. ASSUME NEW k \in 1 .. n, k # n PROVE e[k] = runs[k]
        <5>1. k \in 1 .. n - 1
          BY <1>01, <4>2
        <5> QED BY <3>1, <5>1
      <4> QED BY <4>1, <4>2
    <3>2. runs[n][2] \in X /\ runs[n][1] \in X /\ y <= runs[n][2] + 3
      BY <1>0, <2>3, <3>1 DEF Grown, Absorbs
    <3>3. \A k \in DOMAIN e : e[k][1] <= e[k][2] /\ {e[k][1], e[k][2]} \subseteq X \cup {y}
      BY <1>0, <2>2, <3>1, <3>2 DEF Grown
    <3>4. \A j, k \in DOMAIN e : j < k => e[j][2] + 4 <= e[k][1]
      <4>1. \A j, k \in 1 .. n : j < k => runs[j][2] + 4 <= runs[k][1]
        BY <1>0 DEF Grown
      <4>2. ASSUME NEW j \in 1 .. n, NEW k \in 1 .. n, j < k PROVE e[j][2] + 4 <= e[k][1]
        <5>1. j # n
          BY <1>01, <4>2
        <5>2. e[j][2] = runs[j][2] /\ e[k][1] = runs[k][1]
          BY <3>10, <5>1
        <5> QED BY <4>1, <4>2, <5>2
      <4> QED BY <3>1, <4>2
    <3>5. \A z \in Int : Covers(e, z) <=> Covers(runs, z) \/ (runs[n][2] < z /\ z <= y)
      <4>2. runs[n][1] <= runs[n][2] /\ runs[n][2] < y /\ n \in 1 .. n
        BY <1>0, <2>2, <3>1, <3>2 DEF Grown
      <4> HIDE DEF X
      <4>3. \A z \in Int : (e[n][1] <= z /\ z <= e[n][2]) <=>
              (runs[n][1] <= z /\ z <= runs[n][2]) \/ (runs[n][2] < z /\ z <= y)
        <5>1. runs[n][1] \in Int /\ runs[n][2] \in Int
          BY <1>0, <4>2
        <5> QED BY <3>10, <4>2, <5>1
      <4> QED BY <1>0, <3>1, <3>10, <4>2, <4>3 DEF Covers
    <3>6. \A x \in X : x <= runs[n][2]
      BY DEF Grown
    <3>7. \A z \in Int : Between(X \cup {y}, z) <=> Between(X, z) \/ (\E x \in X : x < z /\ z < y /\ y - x <= 3)
      BY <1>0, <2>2 DEF Between
    <3>8. ASSUME NEW z \in Int PROVE Covers(e, z) <=> z \in X \cup {y} \/ Between(X \cup {y}, z)
      <4>1. CASE z = y
        BY <2>2, <3>2, <3>5, <4>1
      <4>2. CASE z > y
        BY <1>0, <2>2, <3>5, <4>2 DEF Between, Grown
      <4>3. CASE z < y /\ z > runs[n][2]
        <5>1. runs[n][2] \in X /\ y - runs[n][2] <= 3
          BY <1>0, <2>2, <3>1, <3>2
        <5>2. Covers(e, z)
          BY <1>0, <3>1, <3>5, <4>3
        <5>3. Between(X \cup {y}, z)
          BY <3>7, <4>3, <5>1
        <5> QED BY <5>2, <5>3
      <4>4. CASE z <= runs[n][2]
        <5>1. Covers(e, z) <=> z \in X \/ Between(X, z)
          BY <1>0, <3>1, <3>5, <4>4 DEF Grown
        <5>2. z # y
          BY <2>2, <3>2, <4>4
        <5>3. ASSUME NEW x \in X, x < z, z < y, y - x <= 3 PROVE z \in X \/ Between(X, z)
          <6>1. CASE z = runs[n][2]
            BY <3>2, <6>1
          <6>2. CASE z # runs[n][2]
            <7>1. runs[n][2] \in X /\ z < runs[n][2] /\ runs[n][2] - x <= 3
              BY <2>2, <3>2, <4>4, <5>3, <6>2
            <7> QED BY <5>3, <7>1 DEF Between
          <6> QED BY <6>1, <6>2
        <5> QED BY <3>7, <5>1, <5>2, <5>3
      <4> QED BY <1>0, <2>2, <3>2, <4>1, <4>2, <4>3, <4>4
    <3>9. \A x \in X \cup {y} : e # <<>> /\ x <= e[Len(e)][2]
      BY <2>2, <3>1
    <3> QED BY <1>2, <2>1, <3>1, <3>3, <3>4, <3>8, <3>9 DEF Grown, e
  <2>4. CASE ~ Absorbs(runs, y)
    <3>1. /\ e \in RunSeq /\ Len(e) = n + 1 /\ DOMAIN e = 1 .. n + 1
          /\ e[n + 1] = <<y, y>> /\ \A k \in 1 .. n : e[k] = runs[k]
      <4>1. y \in Int /\ runs \in RunSeq
        BY <1>00
      <4>2. /\ e \in RunSeq /\ Len(e) = n + 1
            /\ e[n + 1] = <<y, y>> /\ \A k \in 1 .. n : e[k] = runs[k]
        BY <2>4, <4>1, ExtendedIs
      <4> HIDE DEF e
      <4>3. DOMAIN e = 1 .. n + 1
        BY <4>2 DEF RunSeq
      <4> QED BY <4>2, <4>3
    <3> HIDE DEF e
    <3>2. \A x \in X : n >= 1 /\ x <= runs[n][2] /\ runs[n][2] + 4 <= y
      BY <1>0, <2>4 DEF Grown, Absorbs
    <3>3. \A k \in DOMAIN e : e[k][1] <= e[k][2] /\ {e[k][1], e[k][2]} \subseteq X \cup {y}
      BY <1>0, <3>1 DEF Grown
    <3>4. \A j, k \in DOMAIN e : j < k => e[j][2] + 4 <= e[k][1]
      <4>1. \A j \in 1 .. n : runs[j][2] \in X
        BY <1>0 DEF Grown
      <4>2. \A j \in 1 .. n : runs[j][2] + 4 <= y
        BY <1>0, <2>2, <3>2, <4>1
      <4> QED BY <1>0, <3>1, <4>2 DEF Grown
    <3>5. \A z \in Int : Covers(e, z) <=> Covers(runs, z) \/ z = y
      <4>1. \A k \in 1 .. n + 1 : k \in 1 .. n \/ k = n + 1
        BY <1>0
      <4>2. n + 1 \in 1 .. n + 1 /\ \A k \in 1 .. n : k \in 1 .. n + 1
        BY <1>0
      <4>3. e[n + 1][1] = y /\ e[n + 1][2] = y
        BY <3>1
      <4>4. \A z \in Int : (y <= z /\ z <= y) <=> z = y
        OBVIOUS
      <4> QED BY <1>0, <3>1, <4>1, <4>2, <4>3, <4>4 DEF Covers
    <3>6. \A z \in Int : Between(X \cup {y}, z) <=> Between(X, z)
      <4>1. \A x \in X : ~ (y - x <= 3)
        BY <1>0, <2>2, <3>2
      <4> QED BY <2>2, <4>1 DEF Between
    <3>7. \A z \in Int : Covers(e, z) <=> z \in X \cup {y} \/ Between(X \cup {y}, z)
      BY <3>5, <3>6 DEF Grown
    <3>8. \A x \in X \cup {y} : e # <<>> /\ x <= e[Len(e)][2]
      BY <2>2, <3>1
    <3> QED BY <1>2, <2>1, <3>1, <3>3, <3>4, <3>7, <3>8 DEF Grown, e
  <2> QED BY <2>3, <2>4
<1> QED BY <1>1, <1>2

\* By induction over the rows of the band.
LEMMA RawRunsGrown ==
  ASSUME changed \subseteq Int, NEW b \in Nat \X Nat, b[1] <= b[2]
  PROVE  Grown(RawRuns(b), b[1], b[2])
<1> DEFINE Next1(runs, y) == IF y - 1 \in changed THEN Extended(runs, y - 1) ELSE runs
<1> DEFINE step == [y \in b[1] + 1 .. b[2] |-> [runs \in RunSeq |-> Next1(runs, y)]]
<1>0. b[1] \in Nat /\ b[2] \in Nat /\ <<>> \in RunSeq
  BY DEF RunSeq
<1>1. step \in [b[1] + 1 .. b[2] -> [RunSeq -> RunSeq]]
  <2>1. ASSUME NEW y \in b[1] + 1 .. b[2], NEW runs \in RunSeq PROVE Next1(runs, y) \in RunSeq
    <3>1. y - 1 \in Int
      BY <1>0
    <3> QED BY <3>1, ExtendedIs
  <2> HIDE DEF Next1
  <2> QED BY <2>1
<1>2. PICK f \in [b[1] .. b[2] -> RunSeq] : Folds(f, b[1], b[2], <<>>, step)
  <2> HIDE DEF step
  <2> QED BY <1>0, <1>1, FoldExists
<1> DEFINE before[y \in b[1] .. b[2]] ==
             IF y = b[1] THEN <<>>
             ELSE IF y - 1 \in changed THEN Extended(before[y - 1], y - 1) ELSE before[y - 1]
<1>3. before = [y \in b[1] .. b[2] |-> IF y = b[1] THEN <<>> ELSE Next1(before[y - 1], y)]
  <2>1. ASSUME NEW y \in b[1] .. b[2]
        PROVE  f[y] = IF y = b[1] THEN <<>>
                      ELSE IF y - 1 \in changed THEN Extended(f[y - 1], y - 1) ELSE f[y - 1]
    <3>1. f[y] = IF y = b[1] THEN <<>> ELSE step[y][f[y - 1]]
      <4> HIDE DEF step
      <4> QED BY <1>2 DEF Folds
    <3>2. CASE y # b[1]
      <4>1. y \in b[1] + 1 .. b[2] /\ y - 1 \in b[1] .. b[2]
        BY <1>0, <3>2
      <4>2. f[y - 1] \in RunSeq
        BY <1>2, <4>1
      <4>3. step[y][f[y - 1]] = Next1(f[y - 1], y)
        BY <4>1, <4>2
      <4> QED BY <3>1, <3>2, <4>3
    <3> QED BY <3>1, <3>2
  <2>2. f = [y \in b[1] .. b[2] |-> f[y]]
    OBVIOUS
  <2>3. f = [y \in b[1] .. b[2] |->
               IF y = b[1] THEN <<>>
               ELSE IF y - 1 \in changed THEN Extended(f[y - 1], y - 1) ELSE f[y - 1]]
    BY <2>1, <2>2
  <2> QED BY <2>3
<1>4. RawRuns(b) = before[b[2]]
  BY DEF RawRuns
<1> HIDE DEF before
<1> DEFINE T == {y \in b[1] .. b[2] : Grown(before[y], b[1], y)}
<1>5. b[1] \in T
  <2>1. before[b[1]] = <<>>
    BY <1>0, <1>3
  <2>2. Before(b[1], b[1]) = {}
    <3>1. \A x \in changed : ~ (b[1] <= x /\ x < b[1])
      BY <1>0
    <3> QED BY <3>1 DEF Before
  <2>3. \A k \in DOMAIN <<>> : FALSE
    OBVIOUS
  <2>4. Grown(<<>>, b[1], b[1])
    BY <1>0, <2>2, <2>3 DEF Grown, Covers, Between
  <2> QED BY <1>0, <2>1, <2>4
<1>6. ASSUME NEW y \in b[1] + 1 .. b[2], y - 1 \in T PROVE y \in T
  <2>1. y \in b[1] .. b[2] /\ y # b[1] /\ y - 1 \in Nat /\ b[1] <= y - 1 /\ y - 1 + 1 = y
    BY <1>0
  <2>2. before[y] = Next1(before[y - 1], y)
    BY <1>3, <2>1
  <2>3. Grown(Next1(before[y - 1], y), b[1], y - 1 + 1)
    BY <1>0, <1>6, <2>1, GrowsBy
  <2> QED BY <2>1, <2>2, <2>3
<1>7. b[1] .. b[2] \subseteq T
  <2> HIDE DEF T
  <2>1. \A m, n \in Nat : m \in T /\ (\A i \in m + 1 .. n : i - 1 \in T => i \in T) => m .. n \subseteq T
    BY Everywhere
  <2>2. \A y \in b[1] + 1 .. b[2] : y - 1 \in T => y \in T
    BY <1>6
  <2> QED BY <1>0, <1>5, <2>1, <2>2
<1>8. b[2] \in b[1] .. b[2]
  BY <1>0
<1> QED BY <1>4, <1>7, <1>8

\* The reference in one band.
Wanted(b) ==
  {y \in Band(b) : \/ \E x \in changed \cap Band(b) : x - y \in -1 .. 1
                   \/ \E x, z \in changed \cap Band(b) : x < y /\ y < z /\ z - x <= 3}

Inside(run, b) == b[1] <= run[1] /\ run[1] < run[2] /\ run[2] <= b[2]

\* The padded runs of a band lie apart in it and are what is wanted of it.
LEMMA RunsOfWanted ==
  ASSUME changed \subseteq Int, NEW b \in Nat \X Nat, b[1] < b[2]
  PROVE  /\ RunsOf(b) \in RunSeq
         /\ \A k \in DOMAIN RunsOf(b) : Inside(RunsOf(b)[k], b)
         /\ \A j, k \in DOMAIN RunsOf(b) : j < k => RunsOf(b)[j][2] < RunsOf(b)[k][1]
         /\ Carried(RunsOf(b)) = Wanted(b)
<1> DEFINE found == RawRuns(b)
<1> DEFINE n == Len(found)
<1> DEFINE p == RunsOf(b)
<1> DEFINE X == Before(b[1], b[2])
<1>0. b[1] \in Nat /\ b[2] \in Nat /\ b[1] <= b[2]
  OBVIOUS
<1>1. Grown(found, b[1], b[2])
  BY <1>0, RawRunsGrown
<1>2. p = [k \in DOMAIN found |-> Padded(b, found[k])]
  BY DEF RunsOf
<1> HIDE DEF found, p
<1>3. n \in Nat /\ DOMAIN found = 1 .. n /\ \A k \in 1 .. n : found[k][1] \in Int /\ found[k][2] \in Int
  BY <1>1 DEF Grown, RunSeq
<1>4. \A k \in 1 .. n : b[1] <= found[k][1] /\ found[k][1] <= found[k][2] /\ found[k][2] < b[2]
  BY <1>1, <1>3 DEF Grown, Before
<1>5. \A j, k \in 1 .. n : j < k => found[j][2] + 4 <= found[k][1]
  BY <1>1, <1>3 DEF Grown
<1>6. \A k \in 1 .. n : /\ p[k][1] = Larger(b[1], found[k][1] - 1)
                        /\ p[k][2] = Smaller(b[2], found[k][2] + 2)
                        /\ p[k] = <<p[k][1], p[k][2]>>
  BY <1>2, <1>3 DEF Padded
<1>7. \A k \in 1 .. n : /\ p[k][1] \in Int /\ p[k][2] \in Int /\ Inside(p[k], b)
                        /\ found[k][1] - 1 <= p[k][1] /\ p[k][1] <= found[k][1]
                        /\ found[k][2] < p[k][2] /\ p[k][2] <= found[k][2] + 2
                        /\ \A z \in b[1] .. b[2] - 1 :
                             z \in Band(p[k]) <=> found[k][1] - 1 <= z /\ z <= found[k][2] + 1
  <2> SUFFICES ASSUME NEW k \in 1 .. n
               PROVE  /\ p[k][1] \in Int /\ p[k][2] \in Int /\ Inside(p[k], b)
                      /\ found[k][1] - 1 <= p[k][1] /\ p[k][1] <= found[k][1]
                      /\ found[k][2] < p[k][2] /\ p[k][2] <= found[k][2] + 2
                      /\ \A z \in b[1] .. b[2] - 1 :
                           z \in Band(p[k]) <=> found[k][1] - 1 <= z /\ z <= found[k][2] + 1
    OBVIOUS
  <2>1. /\ p[k][1] = IF b[1] > found[k][1] - 1 THEN b[1] ELSE found[k][1] - 1
        /\ p[k][2] = IF b[2] < found[k][2] + 2 THEN b[2] ELSE found[k][2] + 2
    BY <1>6 DEF Larger, Smaller
  <2>2. /\ found[k][1] \in Int /\ found[k][2] \in Int
        /\ b[1] <= found[k][1] /\ found[k][1] <= found[k][2] /\ found[k][2] < b[2]
    BY <1>3, <1>4
  <2>3. p[k][1] \in Int /\ p[k][2] \in Int
    BY <1>0, <2>1, <2>2
  <2>4. Inside(p[k], b)
    BY <1>0, <2>1, <2>2 DEF Inside
  <2>5. /\ found[k][1] - 1 <= p[k][1] /\ p[k][1] <= found[k][1]
        /\ found[k][2] < p[k][2] /\ p[k][2] <= found[k][2] + 2
    BY <1>0, <2>1, <2>2
  <2>6. \A z \in b[1] .. b[2] - 1 :
          z \in Band(p[k]) <=> found[k][1] - 1 <= z /\ z <= found[k][2] + 1
    BY <1>0, <2>1, <2>2 DEF Band
  <2> QED BY <2>3, <2>4, <2>5, <2>6
<1>8. DOMAIN p = 1 .. n
  BY <1>2, <1>3
<1>9. p \in RunSeq
  <2>1. ASSUME NEW k \in 1 .. n PROVE p[k] \in Int \X Int
    <3>1. p[k][1] \in Int /\ p[k][2] \in Int
      BY <1>7
    <3>2. <<p[k][1], p[k][2]>> \in Int \X Int
      BY <3>1
    <3> QED BY <1>6, <3>2
  <2>2. p = [k \in 1 .. n |-> p[k]]
    BY <1>2, <1>3
  <2> QED BY <1>3, <2>1, <2>2 DEF RunSeq
<1>10. \A j, k \in 1 .. n : j < k => p[j][2] < p[k][1]
  <2> SUFFICES ASSUME NEW j \in 1 .. n, NEW k \in 1 .. n, j < k PROVE p[j][2] < p[k][1]
    OBVIOUS
  <2>1. found[j][2] + 4 <= found[k][1]
    BY <1>5
  <2>2. p[j][2] <= found[j][2] + 2 /\ found[k][1] - 1 <= p[k][1] /\ p[j][2] \in Int /\ p[k][1] \in Int
    BY <1>7
  <2>3. found[j][2] \in Int /\ found[k][1] \in Int
    BY <1>3
  <2>4. \A end, bottom, top, start \in Int :
          end <= bottom + 2 /\ bottom + 4 <= top /\ top - 1 <= start => end < start
    OBVIOUS
  <2> HIDE DEF n
  <2> QED BY <2>1, <2>2, <2>3, <2>4
<1>11. X = changed \cap Band(b)
  <2>1. \A x \in changed : x \in Int /\ (x \in b[1] .. b[2] - 1 <=> b[1] <= x /\ x < b[2])
    BY <1>0
  <2> QED BY <2>1 DEF Before, Band
<1>12. ASSUME NEW z \in Band(b)
       PROVE  (\E k \in 1 .. n : z \in Band(p[k])) <=> z \in Wanted(b)
  <2>0. z \in Int /\ z \in b[1] .. b[2] - 1
    BY <1>0 DEF Band
  <2>1. \A x \in X : x \in Int
    BY DEF Before
  <2>2. z \in Wanted(b) <=> (\E x \in X : x - z \in -1 .. 1) \/ Between(X, z)
    BY <1>11 DEF Wanted, Between
  <2>3. \A y \in Int : (\E k \in 1 .. n : found[k][1] <= y /\ y <= found[k][2]) <=> y \in X \/ Between(X, y)
    BY <1>1, <1>3 DEF Grown, Covers
  <2>4. (\E k \in 1 .. n : z \in Band(p[k])) <=>
           \E k \in 1 .. n : found[k][1] - 1 <= z /\ z <= found[k][2] + 1
    BY <1>7, <2>0
  <2>5. ASSUME NEW k \in 1 .. n, found[k][1] - 1 <= z, z <= found[k][2] + 1 PROVE z \in Wanted(b)
    <3>1. found[k][1] \in X /\ found[k][2] \in X
      BY <1>1, <1>3 DEF Grown
    <3>2. CASE found[k][1] <= z /\ z <= found[k][2]
      <4>1. z \in X \/ Between(X, z)
        BY <2>0, <2>3, <3>2
      <4>2. z - z \in -1 .. 1
        BY <2>0
      <4> QED BY <2>2, <4>1, <4>2
    <3>3. CASE z = found[k][1] - 1
      <4>1. found[k][1] - z \in -1 .. 1
        BY <1>3, <3>3
      <4> QED BY <2>2, <3>1, <4>1
    <3>4. CASE z = found[k][2] + 1
      <4>1. found[k][2] - z \in -1 .. 1
        BY <1>3, <3>4
      <4> QED BY <2>2, <3>1, <4>1
    <3>5. \A top, bottom, y \in Int : top - 1 <= y /\ y <= bottom + 1 =>
            (top <= y /\ y <= bottom) \/ y = top - 1 \/ y = bottom + 1
      OBVIOUS
    <3>6. found[k][1] \in Int /\ found[k][2] \in Int
      BY <1>3
    <3> HIDE DEF n
    <3>7. (found[k][1] <= z /\ z <= found[k][2]) \/ z = found[k][1] - 1 \/ z = found[k][2] + 1
      BY <2>0, <2>5, <3>5, <3>6
    <3> QED BY <3>2, <3>3, <3>4, <3>7
  <2>6. ASSUME NEW x \in X, x - z \in -1 .. 1
        PROVE  \E k \in 1 .. n : found[k][1] - 1 <= z /\ z <= found[k][2] + 1
    <3>1. PICK k \in 1 .. n : found[k][1] <= x /\ x <= found[k][2]
      BY <2>1, <2>3
    <3>2. x \in Int /\ found[k][1] \in Int /\ found[k][2] \in Int
      BY <1>3, <2>1
    <3>3. found[k][1] - 1 <= z /\ z <= found[k][2] + 1
      BY <2>0, <2>6, <3>1, <3>2
    <3> QED BY <3>3
  <2>7. ASSUME Between(X, z)
        PROVE  \E k \in 1 .. n : found[k][1] - 1 <= z /\ z <= found[k][2] + 1
    <3>1. PICK k \in 1 .. n : found[k][1] <= z /\ z <= found[k][2]
      BY <2>0, <2>3, <2>7
    <3>2. found[k][1] - 1 <= z /\ z <= found[k][2] + 1
      BY <1>3, <2>0, <3>1
    <3> QED BY <3>2
  <2> QED BY <2>2, <2>4, <2>5, <2>6, <2>7
<1>13. Carried(p) = Wanted(b)
  <2>1. ASSUME NEW k \in 1 .. n, NEW z \in Band(p[k]) PROVE z \in Band(b)
    <3>1. p[k][1] \in Int /\ p[k][2] \in Int /\ b[1] <= p[k][1] /\ p[k][2] <= b[2]
      BY <1>7 DEF Inside
    <3> QED BY <1>0, <2>1, <3>1 DEF Band
  <2>2. Wanted(b) \subseteq Band(b)
    BY DEF Wanted
  <2>3. Carried(p) = UNION {Band(p[k]) : k \in 1 .. n}
    BY <1>8 DEF Carried
  <2> QED BY <1>12, <2>1, <2>2, <2>3
<1> QED BY <1>7, <1>8, <1>9, <1>10, <1>13 DEF p

---------------------------------------------------------------------------
(* The runs of all bands *)

LEMMA BandsAre ==
  /\ Len(Bands) \in Nat /\ Len(Bands) >= 1 /\ DOMAIN Bands = 1 .. Len(Bands)
  /\ \A i \in DOMAIN Bands : Bands[i] \in Nat \X Nat /\ Bands[i][1] \in Nat /\ Bands[i][2] \in Nat
  /\ Height \in Nat
<1>1. Len(Bands) \in Nat /\ Len(Bands) >= 1 /\ DOMAIN Bands = 1 .. Len(Bands)
  BY RunsAssumption
<1>2. \A i \in DOMAIN Bands : Bands[i] \in Nat \X Nat
  BY RunsAssumption
<1>3. Len(Bands) \in DOMAIN Bands
  BY <1>1
<1> QED BY <1>1, <1>2, <1>3 DEF Height

\* One run ends before the other starts, and does not touch it in one band.
Apart(r1, r2) ==
  /\ r1[2] <= r2[1]
  /\ \A i \in DOMAIN Bands : Bands[i][1] <= r1[1] /\ r2[2] <= Bands[i][2] => r1[2] < r2[1]

LEMMA BandsApart ==
  ASSUME NEW i \in DOMAIN Bands, NEW j \in DOMAIN Bands, i < j,
         NEW r1 \in Int \X Int, Inside(r1, Bands[i]), NEW r2 \in Int \X Int, Inside(r2, Bands[j])
  PROVE  Apart(r1, r2)
<1>1. Bands[i][2] <= Bands[j][1]
  BY RunsAssumption
<1>2. /\ Bands[i][1] \in Nat /\ Bands[i][2] \in Nat /\ Bands[j][1] \in Nat /\ Bands[j][2] \in Nat
      /\ r1[1] \in Int /\ r1[2] \in Int /\ r2[1] \in Int /\ r2[2] \in Int
  BY BandsAre
<1>3. r1[2] <= r2[1]
  BY <1>1, <1>2 DEF Inside
<1>4. ASSUME NEW k \in DOMAIN Bands, Bands[k][1] <= r1[1], r2[2] <= Bands[k][2] PROVE FALSE
  <2>1. Bands[k][1] \in Nat /\ Bands[k][2] \in Nat /\ i \in Int /\ k \in Int
    BY BandsAre
  <2>2. CASE k <= i
    <3>1. Bands[k][2] <= Bands[i][2]
      <4>1. CASE k = i BY <2>1, <4>1
      <4>2. CASE k < i
        <5>1. Bands[k][2] <= Bands[i][1] /\ Bands[i][1] < Bands[i][2]
          BY <4>2, RunsAssumption
        <5> QED BY <1>2, <2>1, <5>1
      <4> QED BY <2>1, <2>2, <4>1, <4>2
    <3> QED BY <1>1, <1>2, <1>4, <2>1, <3>1 DEF Inside
  <2>3. CASE i < k
    <3>1. Bands[i][2] <= Bands[k][1]
      BY <2>3, RunsAssumption
    <3> QED BY <1>2, <1>4, <2>1, <3>1 DEF Inside
  <2> QED BY <2>1, <2>2, <2>3
<1> QED BY <1>3, <1>4 DEF Apart

\* Runs of the first i bands: in order, apart, and what is wanted there.
Listed(runs, i) ==
  /\ runs \in RunSeq
  /\ \A k \in DOMAIN runs : \E j \in 1 .. i : Inside(runs[k], Bands[j])
  /\ \A j, k \in DOMAIN runs : j < k => Apart(runs[j], runs[k])
  /\ Carried(runs) = UNION {Wanted(Bands[j]) : j \in 1 .. i}

LEMMA ListsNext ==
  ASSUME changed \subseteq Int, NEW i \in DOMAIN Bands, NEW runs, Listed(runs, i - 1)
  PROVE  Listed(runs \o RunsOf(Bands[i]), i)
<1> DEFINE more == RunsOf(Bands[i])
<1> DEFINE all == runs \o more
<1> DEFINE m == Len(runs)
<1> DEFINE n == Len(more)
<1>1. /\ more \in RunSeq
      /\ \A k \in DOMAIN more : Inside(more[k], Bands[i])
      /\ \A j, k \in DOMAIN more : j < k => more[j][2] < more[k][1]
      /\ Carried(more) = Wanted(Bands[i])
  <2>1. Bands[i] \in Nat \X Nat /\ Bands[i][1] < Bands[i][2]
    BY BandsAre, RunsAssumption
  <2> QED BY <2>1, RunsOfWanted
<1> HIDE DEF more
<1>2. i \in 1 .. Len(Bands) /\ i - 1 \in Nat /\ Len(Bands) \in Nat
  BY BandsAre
<1>3. /\ m \in Nat /\ DOMAIN runs = 1 .. m /\ \A k \in 1 .. m : runs[k] \in Int \X Int
      /\ n \in Nat /\ DOMAIN more = 1 .. n /\ \A k \in 1 .. n : more[k] \in Int \X Int
  BY <1>1 DEF Listed, RunSeq
<1>4. /\ all \in RunSeq /\ DOMAIN all = 1 .. m + n
      /\ \A k \in 1 .. m : all[k] = runs[k]
      /\ \A k \in 1 .. n : all[m + k] = more[k]
  <2>1. runs \in Seq(Int \X Int) /\ more \in Seq(Int \X Int)
    BY <1>1 DEF Listed, RunSeq
  <2>2. all \in Seq(Int \X Int) /\ Len(all) = m + n
    BY <2>1
  <2>3. DOMAIN all = 1 .. m + n
    BY <2>2
  <2>4. \A k \in 1 .. m : all[k] = runs[k]
    BY <2>1
  <2>5. \A k \in 1 .. n : all[m + k] = more[k]
    BY <2>1
  <2> QED BY <2>2, <2>3, <2>4, <2>5 DEF RunSeq
<1> HIDE DEF all
<1>5. \A k \in 1 .. m + n : k \in 1 .. m \/ (k - m \in 1 .. n /\ k = m + (k - m))
  <2>1. m \in Nat /\ n \in Nat BY <1>3
  <2> HIDE DEF m, n
  <2> QED BY <2>1
<1>6. ASSUME NEW k \in DOMAIN all PROVE \E j \in 1 .. i : Inside(all[k], Bands[j])
  <2>1. CASE k \in 1 .. m
    <3>1. PICK j \in 1 .. i - 1 : Inside(runs[k], Bands[j])
      BY <1>3, <2>1 DEF Listed
    <3>2. j \in 1 .. i
      BY <1>2
    <3> QED BY <1>4, <2>1, <3>1, <3>2
  <2>2. CASE k \notin 1 .. m
    <3>0. k \in 1 .. m + n
      BY <1>4
    <3>01. k - m \in 1 .. n /\ all[k] = more[k - m]
      BY <1>4, <1>5, <2>2, <3>0
    <3>1. Inside(all[k], Bands[i])
      BY <1>1, <1>3, <3>01
    <3>2. i \in 1 .. i
      BY <1>2
    <3> QED BY <3>1, <3>2
  <2> QED BY <2>1, <2>2
<1>7. ASSUME NEW j \in DOMAIN all, NEW k \in DOMAIN all, j < k PROVE Apart(all[j], all[k])
  <2>0. m \in Nat /\ n \in Nat /\ j \in 1 .. m + n /\ k \in 1 .. m + n
    BY <1>3, <1>4
  <2>1. CASE k \in 1 .. m
    <3>1. j \in 1 .. m
      <4> HIDE DEF m, n
      <4> QED BY <1>7, <2>0, <2>1
    <3> QED BY <1>3, <1>4, <1>7, <2>1, <3>1 DEF Listed
  <2>2. CASE j \in 1 .. m /\ k \notin 1 .. m
    <3>1. PICK b \in 1 .. i - 1 : Inside(runs[j], Bands[b])
      BY <1>3, <2>2 DEF Listed
    <3>2. b \in DOMAIN Bands /\ b < i
      BY <1>2, BandsAre
    <3>3. k - m \in 1 .. n /\ all[k] = more[k - m] /\ all[j] = runs[j]
      BY <1>4, <1>5, <2>0, <2>2
    <3>4. Inside(more[k - m], Bands[i])
      BY <1>1, <1>3, <3>3
    <3>5. Apart(runs[j], more[k - m])
      BY <1>3, <2>2, <3>1, <3>2, <3>3, <3>4, BandsApart
    <3> QED BY <3>3, <3>5
  <2>3. CASE j \notin 1 .. m
    <3>1. j - m \in 1 .. n /\ k - m \in 1 .. n /\ j - m < k - m
      <4>1. k \notin 1 .. m
        <5> HIDE DEF m, n
        <5> QED BY <1>7, <2>0, <2>3
      <4>2. j - m \in 1 .. n /\ k - m \in 1 .. n
        BY <1>5, <2>0, <2>3, <4>1
      <4>3. j - m < k - m
        <5> HIDE DEF m, n
        <5> QED BY <1>7, <2>0
      <4> QED BY <4>2, <4>3
    <3>2. all[j] = more[j - m] /\ all[k] = more[k - m]
      BY <1>4, <1>5, <2>0, <2>3, <3>1
    <3>3. more[j - m][2] < more[k - m][1]
      BY <1>1, <1>3, <3>1
    <3>4. more[j - m][2] \in Int /\ more[k - m][1] \in Int
      BY <1>3, <3>1
    <3> QED BY <3>2, <3>3, <3>4 DEF Apart
  <2> QED BY <2>1, <2>2, <2>3
<1>8. Carried(all) = Carried(runs) \cup Carried(more)
  <2>1. Carried(all) \subseteq Carried(runs) \cup Carried(more)
    <3> SUFFICES ASSUME NEW k \in 1 .. m + n
                 PROVE  Band(all[k]) \subseteq Carried(runs) \cup Carried(more)
      BY <1>4 DEF Carried
    <3>1. CASE k \in 1 .. m
      BY <1>3, <1>4, <3>1 DEF Carried
    <3>2. CASE k \notin 1 .. m
      <4>1. k - m \in 1 .. n /\ all[k] = more[k - m]
        BY <1>4, <1>5, <3>2
      <4> QED BY <1>3, <4>1 DEF Carried
    <3> QED BY <3>1, <3>2
  <2>2. 1 .. m \subseteq 1 .. m + n /\ \A k \in 1 .. n : m + k \in 1 .. m + n
    <3>1. m \in Nat /\ n \in Nat BY <1>3
    <3> HIDE DEF m, n
    <3> QED BY <3>1
  <2>3. Carried(runs) \subseteq Carried(all)
    BY <1>3, <1>4, <2>2 DEF Carried
  <2>4. Carried(more) \subseteq Carried(all)
    <3> SUFFICES ASSUME NEW k \in 1 .. n PROVE Band(more[k]) \subseteq Carried(all)
      BY <1>3 DEF Carried
    <3>1. m + k \in DOMAIN all /\ all[m + k] = more[k]
      BY <1>4, <2>2
    <3> QED BY <3>1 DEF Carried
  <2> QED BY <2>1, <2>3, <2>4
<1>9. Carried(all) = UNION {Wanted(Bands[j]) : j \in 1 .. i}
  <2>1. 1 .. i = (1 .. i - 1) \cup {i}
    BY <1>2
  <2> QED BY <1>1, <1>8, <2>1 DEF Listed
<1> QED BY <1>4, <1>6, <1>7, <1>9 DEF Listed, all, more

\* By induction over the bands.
LEMMA UnmergedListed ==
  ASSUME changed \subseteq Int
  PROVE  Listed(Unmerged, Len(Bands))
<1> DEFINE n == Len(Bands)
<1> DEFINE step == [i \in 1 .. n |-> [runs \in RunSeq |-> runs \o RunsOf(Bands[i])]]
<1>0. n \in Nat /\ 0 \in Nat /\ 0 <= n /\ DOMAIN Bands = 1 .. n /\ <<>> \in RunSeq
  BY BandsAre DEF RunSeq
<1>1. step \in [0 + 1 .. n -> [RunSeq -> RunSeq]]
  <2>1. ASSUME NEW i \in 1 .. n, NEW runs \in RunSeq PROVE runs \o RunsOf(Bands[i]) \in RunSeq
    <3>1. Bands[i] \in Nat \X Nat /\ Bands[i][1] < Bands[i][2]
      BY <1>0, BandsAre, RunsAssumption
    <3>2. RunsOf(Bands[i]) \in RunSeq
      BY <3>1, RunsOfWanted
    <3> QED BY <3>2 DEF RunSeq
  <2> QED BY <2>1
<1>2. PICK f \in [0 .. n -> RunSeq] : Folds(f, 0, n, <<>>, step)
  <2> HIDE DEF step, n
  <2> QED BY <1>0, <1>1, FoldExists
<1> DEFINE upTo[i \in 0 .. n] == IF i = 0 THEN <<>> ELSE upTo[i - 1] \o RunsOf(Bands[i])
<1>3. upTo = [i \in 0 .. n |-> IF i = 0 THEN <<>> ELSE upTo[i - 1] \o RunsOf(Bands[i])]
  <2>1. ASSUME NEW i \in 0 .. n
        PROVE  f[i] = IF i = 0 THEN <<>> ELSE f[i - 1] \o RunsOf(Bands[i])
    <3>1. f[i] = IF i = 0 THEN <<>> ELSE step[i][f[i - 1]]
      <4> HIDE DEF step
      <4> QED BY <1>2 DEF Folds
    <3>2. CASE i # 0
      <4>1. i \in 1 .. n /\ i - 1 \in 0 .. n
        BY <1>0, <3>2
      <4>2. f[i - 1] \in RunSeq
        BY <1>2, <4>1
      <4>3. step[i][f[i - 1]] = f[i - 1] \o RunsOf(Bands[i])
        BY <4>1, <4>2
      <4> QED BY <3>1, <3>2, <4>3
    <3> QED BY <3>1, <3>2
  <2>2. f = [i \in 0 .. n |-> f[i]]
    OBVIOUS
  <2>3. f = [i \in 0 .. n |-> IF i = 0 THEN <<>> ELSE f[i - 1] \o RunsOf(Bands[i])]
    BY <2>1, <2>2
  <2> QED BY <2>3
<1>4. Unmerged = upTo[n]
  BY DEF Unmerged
<1> HIDE DEF upTo
<1> DEFINE T == {i \in 0 .. n : Listed(upTo[i], i)}
<1>5. 0 \in T
  <2>1. upTo[0] = <<>>
    BY <1>0, <1>3
  <2>2. \A k \in DOMAIN <<>> : FALSE
    OBVIOUS
  <2>3. Carried(<<>>) = {}
    BY <2>2 DEF Carried
  <2>4. UNION {Wanted(Bands[j]) : j \in 1 .. 0} = {}
    OBVIOUS
  <2>5. Listed(<<>>, 0)
    BY <1>0, <2>2, <2>3, <2>4 DEF Listed
  <2> QED BY <1>0, <2>1, <2>5
<1>6. ASSUME NEW i \in 0 + 1 .. n, i - 1 \in T PROVE i \in T
  <2>1. i \in 0 .. n /\ i # 0 /\ i \in DOMAIN Bands
    BY <1>0
  <2>2. upTo[i] = upTo[i - 1] \o RunsOf(Bands[i])
    BY <1>3, <2>1
  <2>3. Listed(upTo[i - 1] \o RunsOf(Bands[i]), i)
    BY <1>6, <2>1, ListsNext
  <2> QED BY <2>1, <2>2, <2>3
<1>7. 0 .. n \subseteq T
  <2> HIDE DEF T, n
  <2> QED BY <1>0, <1>5, <1>6, Everywhere
<1>8. n \in 0 .. n
  BY <1>0
<1> QED BY <1>4, <1>7, <1>8

\* Runs that are apart are not merged, so the merging never does anything.
LEMMA ApartStay ==
  ASSUME NEW runs \in RunSeq, \A j, k \in DOMAIN runs : j < k => Apart(runs[j], runs[k])
  PROVE  AllMerged(runs) = runs
<1> DEFINE n == Len(runs)
<1> DEFINE first(i) == [k \in 1 .. i |-> runs[k]]
<1>0. /\ n \in Nat /\ DOMAIN runs = 1 .. n /\ runs = first(n)
      /\ \A k \in 1 .. n : runs[k] \in Int \X Int /\ runs[k][1] \in Int /\ runs[k][2] \in Int
  BY DEF RunSeq
<1>1. ASSUME NEW i \in 1 .. n PROVE Merged(first(i - 1), runs[i]) = first(i)
  <2>0. n \in Nat /\ i \in 1 .. n /\ i - 1 \in Nat
    BY <1>0
  <2>1. first(i - 1) \in Seq(Int \X Int) /\ Len(first(i - 1)) = i - 1
    <3>1. \A k \in 1 .. i - 1 : runs[k] \in Int \X Int
      <4>1. \A k \in 1 .. i - 1 : k \in 1 .. n
        <5> HIDE DEF n
        <5> QED BY <2>0
      <4> QED BY <1>0, <4>1
    <3> QED BY <2>0, <3>1
  <2>2. ~ Meets(first(i - 1), runs[i])
    <3>1. CASE i = 1
      BY <2>1, <3>1 DEF Meets
    <3>2. CASE i # 1
      <4>1. i - 1 \in 1 .. n /\ i - 1 < i /\ i - 1 \in 1 .. i - 1
        <5> HIDE DEF n
        <5> QED BY <2>0, <3>2
      <4>2. Apart(runs[i - 1], runs[i])
        BY <1>0, <4>1
      <4>3. first(i - 1)[Len(first(i - 1))] = runs[i - 1]
        BY <2>1, <4>1
      <4>4. runs[i - 1][2] \in Int /\ runs[i][1] \in Int
        BY <1>0, <4>1
      <4>5. runs[i][1] <= runs[i - 1][2] =>
              \A j \in DOMAIN Bands : ~ (Bands[j][1] <= runs[i - 1][1] /\ runs[i][2] <= Bands[j][2])
        BY <4>2, <4>4 DEF Apart
      <4>6. ASSUME Meets(first(i - 1), runs[i]) PROVE FALSE
        <5>1. runs[i][1] <= runs[i - 1][2]
          BY <4>3, <4>6 DEF Meets
        <5>2. PICK j \in DOMAIN Bands : runs[i][2] <= Bands[j][2] /\ runs[i - 1][1] >= Bands[j][1]
          BY <4>3, <4>6 DEF Meets
        <5>3. runs[i - 1][1] \in Int /\ Bands[j][1] \in Nat
          BY <1>0, <4>1, BandsAre
        <5> QED BY <4>5, <5>1, <5>2, <5>3
      <4> QED BY <4>6
    <3> QED BY <3>1, <3>2
  <2>3. Merged(first(i - 1), runs[i]) = Append(first(i - 1), runs[i])
    BY <2>2 DEF Merged
  <2>4. Append(first(i - 1), runs[i]) = first(i)
    <3>1. runs[i] \in Int \X Int
      BY <1>0
    <3>2. Append(first(i - 1), runs[i]) = [k \in 1 .. i |-> IF k = i THEN runs[i] ELSE first(i - 1)[k]]
      BY <2>0, <2>1, <3>1
    <3>3. \A k \in 1 .. i : k = i \/ k \in 1 .. i - 1
      BY <2>0
    <3> QED BY <3>2, <3>3
  <2> QED BY <2>3, <2>4
<1> DEFINE merged[i \in 0 .. n] == IF i = 0 THEN <<>> ELSE Merged(merged[i - 1], runs[i])
<1> DEFINE f == [i \in 0 .. n |-> first(i)]
<1>2. f = [i \in 0 .. n |-> IF i = 0 THEN <<>> ELSE Merged(f[i - 1], runs[i])]
  <2>1. ASSUME NEW i \in 0 .. n PROVE f[i] = IF i = 0 THEN <<>> ELSE Merged(f[i - 1], runs[i])
    <3>1. CASE i = 0
      <4>1. first(0) = <<>>
        OBVIOUS
      <4> QED BY <3>1, <4>1
    <3>2. CASE i # 0
      <4>1. i \in 1 .. n /\ i - 1 \in 0 .. n
        BY <1>0, <3>2
      <4>2. f[i] = first(i) /\ f[i - 1] = first(i - 1)
        BY <4>1
      <4> QED BY <1>1, <3>2, <4>1, <4>2
    <3> QED BY <3>1, <3>2
  <2>2. f = [i \in 0 .. n |-> f[i]]
    OBVIOUS
  <2> HIDE DEF f
  <2> QED BY <2>1, <2>2
<1> HIDE DEF f
<1>3. merged = [i \in 0 .. n |-> IF i = 0 THEN <<>> ELSE Merged(merged[i - 1], runs[i])]
  BY <1>2
<1>4. AllMerged(runs) = merged[n]
  BY DEF AllMerged
<1> HIDE DEF merged
<1> DEFINE T == {i \in 0 .. n : merged[i] = first(i)}
<1>5. 0 \in T
  <2>1. first(0) = <<>>
    OBVIOUS
  <2> QED BY <1>0, <1>3, <2>1
<1>6. ASSUME NEW i \in 0 + 1 .. n, i - 1 \in T PROVE i \in T
  <2>1. i \in 0 .. n /\ i # 0 /\ i \in 1 .. n
    BY <1>0
  <2>2. merged[i] = Merged(merged[i - 1], runs[i])
    BY <1>3, <2>1
  <2> QED BY <1>1, <1>6, <2>1, <2>2
<1>7. 0 .. n \subseteq T
  <2>1. 0 \in Nat /\ n \in Nat
    BY <1>0
  <2> HIDE DEF T, n
  <2> QED BY <2>1, <1>5, <1>6, Everywhere
<1>8. n \in 0 .. n
  BY <1>0
<1> QED BY <1>0, <1>4, <1>7, <1>8

\* The count of the rows of runs that do not overlap.
LEMMA SizeCounts ==
  ASSUME NEW runs \in RunSeq, \A k \in DOMAIN runs : runs[k][1] <= runs[k][2],
         \A j, k \in DOMAIN runs : j < k => runs[j][2] <= runs[k][1]
  PROVE  Size(runs) = Cardinality(Carried(runs))
<1> DEFINE n == Len(runs)
<1> DEFINE upTo(i) == UNION {Band(runs[k]) : k \in 1 .. i}
<1>0. /\ n \in Nat /\ 0 \in Nat /\ 0 <= n /\ DOMAIN runs = 1 .. n
      /\ \A k \in 1 .. n : runs[k][1] \in Int /\ runs[k][2] \in Int
  BY DEF RunSeq
<1> DEFINE plus(c, i) == c + runs[i][2] - runs[i][1]
<1> DEFINE step == [i \in 1 .. n |-> [c \in Int |-> plus(c, i)]]
<1>1. step \in [0 + 1 .. n -> [Int -> Int]]
  <2>1. ASSUME NEW i \in 1 .. n, NEW c \in Int PROVE plus(c, i) \in Int
    <3>1. runs[i][1] \in Int /\ runs[i][2] \in Int
      BY <1>0
    <3> QED BY <3>1
  <2> HIDE DEF plus, n
  <2> QED BY <2>1
<1>2. PICK f \in [0 .. n -> Int] : Folds(f, 0, n, 0, step)
  <2>1. n \in Nat /\ 0 \in Nat /\ 0 <= n /\ 0 \in Int
    BY <1>0
  <2> HIDE DEF step, n
  <2>2. \A base \in Int : \E f \in [0 .. n -> Int] : Folds(f, 0, n, base, step)
    BY <1>1, <2>1, FoldExists
  <2> QED BY <2>2
<1> DEFINE rows[i \in 0 .. n] == IF i = 0 THEN 0 ELSE rows[i - 1] + runs[i][2] - runs[i][1]
<1>3. rows = [i \in 0 .. n |-> IF i = 0 THEN 0 ELSE rows[i - 1] + runs[i][2] - runs[i][1]]
  <2>1. ASSUME NEW i \in 0 .. n
        PROVE  f[i] = IF i = 0 THEN 0 ELSE f[i - 1] + runs[i][2] - runs[i][1]
    <3>1. f[i] = IF i = 0 THEN 0 ELSE step[i][f[i - 1]]
      <4> HIDE DEF step
      <4> QED BY <1>2 DEF Folds
    <3>2. CASE i # 0
      <4>1. i \in 1 .. n /\ i - 1 \in 0 .. n
        BY <1>0, <3>2
      <4>2. f[i - 1] \in Int
        BY <1>2, <4>1
      <4>3. step[i][f[i - 1]] = f[i - 1] + runs[i][2] - runs[i][1]
        BY <4>1, <4>2
      <4> QED BY <3>1, <3>2, <4>3
    <3> QED BY <3>1, <3>2
  <2>2. f = [i \in 0 .. n |-> f[i]]
    OBVIOUS
  <2>3. f = [i \in 0 .. n |-> IF i = 0 THEN 0 ELSE f[i - 1] + runs[i][2] - runs[i][1]]
    BY <2>1, <2>2
  <2> QED BY <2>3
<1>4. Size(runs) = rows[n]
  BY DEF Size
<1> HIDE DEF rows, step
<1> DEFINE T == {i \in 0 .. n : IsFiniteSet(upTo(i)) /\ Cardinality(upTo(i)) = rows[i]}
<1>5. 0 \in T
  <2>1. upTo(0) = {}
    OBVIOUS
  <2>2. rows[0] = 0
    BY <1>0, <1>3
  <2>3. 0 \in 0 .. n
    BY <1>0
  <2> HIDE DEF upTo
  <2> QED BY <2>1, <2>2, <2>3, FS_EmptySet
<1>6. ASSUME NEW i \in 0 + 1 .. n, i - 1 \in T PROVE i \in T
  <2>1. i \in 0 .. n /\ i # 0 /\ i \in 1 .. n /\ i - 1 \in 0 .. n
    BY <1>0
  <2>2. rows[i] = rows[i - 1] + runs[i][2] - runs[i][1]
    BY <1>3, <2>1
  <2>3. upTo(i) = upTo(i - 1) \cup Band(runs[i])
    <3>1. 1 .. i = (1 .. i - 1) \cup {i}
      BY <2>1
    <3> QED BY <3>1
  <2>4. runs[i][1] \in Int /\ runs[i][2] \in Int /\ runs[i][1] <= runs[i][2]
    BY <1>0, <2>1
  <2>5. upTo(i - 1) \cap Band(runs[i]) = {}
    <3> SUFFICES ASSUME NEW k \in 1 .. i - 1, NEW z \in Band(runs[k]), z \in Band(runs[i])
                 PROVE  FALSE
      OBVIOUS
    <3>1. k \in 1 .. n /\ k < i
      <4>1. n \in Nat BY <1>0
      <4> HIDE DEF n
      <4> QED BY <2>1, <4>1
    <3>2. runs[k][2] <= runs[i][1] /\ runs[k][1] \in Int /\ runs[k][2] \in Int
      BY <1>0, <2>1, <3>1
    <3> QED BY <2>4, <3>2 DEF Band
  <2>6. /\ IsFiniteSet(Band(runs[i]))
        /\ Cardinality(Band(runs[i])) = runs[i][2] - runs[i][1]
    <3>1. \A a, b \in Int : a <= b => /\ IsFiniteSet(a .. b - 1)
                                      /\ Cardinality(a .. b - 1) = b - a
      <4> SUFFICES ASSUME NEW a \in Int, NEW b \in Int, a <= b
                   PROVE  IsFiniteSet(a .. b - 1) /\ Cardinality(a .. b - 1) = b - a
        OBVIOUS
      <4>1. b - 1 \in Int
        OBVIOUS
      <4>2. /\ IsFiniteSet(a .. b - 1)
            /\ Cardinality(a .. b - 1) = IF a > b - 1 THEN 0 ELSE b - 1 - a + 1
        BY <4>1, FS_Interval
      <4> QED BY <4>2
    <3> QED BY <2>4, <3>1 DEF Band
  <2>7. IsFiniteSet(upTo(i - 1)) /\ Cardinality(upTo(i - 1)) = rows[i - 1]
    BY <1>6
  <2> HIDE DEF upTo
  <2>8. /\ IsFiniteSet(upTo(i))
        /\ Cardinality(upTo(i)) = Cardinality(upTo(i - 1)) + Cardinality(Band(runs[i])) - Cardinality({})
    BY <2>3, <2>5, <2>6, <2>7, FS_Union
  <2>9. Cardinality(upTo(i - 1)) \in Nat /\ Cardinality({}) = 0
    BY <2>7, FS_CardinalityType, FS_EmptySet
  <2>10. Cardinality(upTo(i)) = rows[i]
    BY <2>2, <2>4, <2>6, <2>7, <2>8, <2>9
  <2> QED BY <2>1, <2>8, <2>10
<1>7. 0 .. n \subseteq T
  <2> HIDE DEF T, n
  <2> QED BY <1>0, <1>5, <1>6, Everywhere
<1>8. n \in 0 .. n /\ Carried(runs) = upTo(n)
  BY <1>0 DEF Carried
<1> QED BY <1>4, <1>7, <1>8

---------------------------------------------------------------------------
(* The theorems *)

RowsTyped == changed \subseteq ScreenRows

LEMMA RowsStay == RowsSpec => []RowsTyped
<1>1. RowsInit => RowsTyped
  BY DEF RowsInit, RowsTyped
<1>2. RowsTyped /\ [RowsNext]_changed => RowsTyped'
  BY DEF RowsTyped, RowsNext, Redraw, ScreenRows, Height
<1> QED BY <1>1, <1>2, PTL DEF RowsSpec

\* What the update lists, in any frame.
LEMMA RunsListed ==
  ASSUME RowsTyped
  PROVE  /\ Runs = Unmerged /\ Listed(Runs, Len(Bands))
         /\ Reference = UNION {Wanted(Bands[j]) : j \in DOMAIN Bands}
<1>1. changed \subseteq Int
  BY BandsAre DEF RowsTyped, ScreenRows
<1>2. Listed(Unmerged, Len(Bands))
  BY <1>1, UnmergedListed
<1>3. AllMerged(Unmerged) = Unmerged
  BY <1>2, ApartStay DEF Listed
<1>4. Reference = UNION {Wanted(Bands[j]) : j \in DOMAIN Bands}
  BY DEF Reference, Wanted
<1> QED BY <1>2, <1>3, <1>4 DEF Runs

\* The merging pass of _changed_row_runs never merges anything: the rows that
\* a run absorbs are those that its padding could reach.
THEOREM NeverMerges == RowsSpec => [](Runs = Unmerged)
<1>1. RowsTyped => Runs = Unmerged
  BY RunsListed
<1> QED BY <1>1, RowsStay, PTL

\* For any bands and any two frames, an update carries the rows that changed,
\* their neighbours in the band and the gaps of at most two rows, and no other.
THEOREM RowsCorrect == RowsSpec => []RunsAreReference
<1>1. RowsTyped => RunsAreReference
  BY RunsListed, BandsAre DEF Listed, RunsAreReference
<1> QED BY <1>1, RowsStay, PTL

\* It carries every changed row, each row once and none off the screen, and
\* the full frame is chosen by the number of rows that would be sent.
THEOREM UpdateCorrect == RowsSpec => []UpdateSound
<1>1. ASSUME RowsTyped PROVE UpdateSound
  <2>1. Listed(Runs, Len(Bands))
    BY <1>1, RunsListed
  <2>2. Carried(Runs) = UNION {Wanted(Bands[j]) : j \in DOMAIN Bands}
    BY <2>1, BandsAre DEF Listed
  <2>3. ASSUME NEW y \in changed PROVE y \in Carried(Runs)
    <3>1. y \in ScreenRows /\ y \in Int
      BY <1>1, BandsAre DEF RowsTyped, ScreenRows
    <3>2. PICK i \in DOMAIN Bands : y \in Band(Bands[i])
      BY <3>1, RunsAssumption
    <3>3. y - y \in -1 .. 1
      BY <3>1
    <3>4. y \in Wanted(Bands[i])
      BY <3>2, <3>3 DEF Wanted
    <3> QED BY <2>2, <3>4
  <2>4. \A i \in DOMAIN Bands : Band(Bands[i]) \subseteq ScreenRows
    <3> SUFFICES ASSUME NEW i \in DOMAIN Bands PROVE Band(Bands[i]) \subseteq ScreenRows
      OBVIOUS
    <3> DEFINE n == Len(Bands)
    <3>1. /\ n \in DOMAIN Bands /\ Bands[n][1] \in Nat /\ Bands[n][2] \in Nat
          /\ Bands[i][1] \in Nat /\ Bands[i][2] \in Nat
          /\ i \in 1 .. n /\ n \in Nat
      BY BandsAre
    <3>2. Bands[i][2] <= Bands[n][2]
      <4>1. CASE i = n BY <3>1, <4>1
      <4>2. CASE i # n
        <5>1. i < n BY <3>1, <4>2
        <5>2. Bands[i][2] <= Bands[n][1] /\ Bands[n][1] < Bands[n][2]
          BY <3>1, <5>1, RunsAssumption
        <5> QED BY <3>1, <5>2
      <4> QED BY <4>1, <4>2
    <3> QED BY <3>1, <3>2 DEF Band, ScreenRows, Height
  <2>5. Carried(Runs) \subseteq ScreenRows
    BY <2>2, <2>4 DEF Wanted
  <2>6. Size(Runs) = Cardinality(Carried(Runs))
    <3>1. Runs \in RunSeq
      BY <2>1 DEF Listed
    <3>2. \A k \in DOMAIN Runs : Runs[k][1] \in Int /\ Runs[k][2] \in Int
      BY <3>1 DEF RunSeq
    <3>3. \A k \in DOMAIN Runs : Runs[k][1] <= Runs[k][2]
      BY <2>1, <3>2 DEF Listed, Inside
    <3>4. \A j, k \in DOMAIN Runs : j < k => Runs[j][2] <= Runs[k][1]
      BY <2>1 DEF Listed, Apart
    <3> QED BY <3>1, <3>3, <3>4, SizeCounts
  <2>7. CASE Update = Runs
    BY <2>3, <2>5, <2>6, <2>7 DEF UpdateSound
  <2>8. CASE Update = <<<<0, Height>>>>
    <3> DEFINE full == <<<<0, Height>>>>
    <3>1. Height \in Nat
      BY BandsAre
    <3>2. full \in RunSeq /\ DOMAIN full = 1 .. 1 /\ full[1][1] = 0 /\ full[1][2] = Height
      BY <3>1 DEF RunSeq
    <3> HIDE DEF full
    <3>3. \A k \in DOMAIN full : k = 1
      BY <3>2
    <3>4. Size(full) = Cardinality(Carried(full))
      BY <3>1, <3>2, <3>3, SizeCounts
    <3>5. Carried(full) = ScreenRows
      <4>1. Carried(full) = Band(full[1])
        BY <3>2, <3>3 DEF Carried
      <4> QED BY <3>2, <4>1 DEF Band, ScreenRows
    <3>6. changed \subseteq ScreenRows
      BY <1>1 DEF RowsTyped
    <3> QED BY <2>8, <3>4, <3>5, <3>6 DEF UpdateSound, full
  <2> QED BY <2>7, <2>8 DEF Update
<1> QED BY <1>1, RowsStay, PTL
=============================================================================
