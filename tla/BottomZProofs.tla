--------------------------- MODULE BottomZProofs ---------------------------
(***************************************************************************)
(* Proofs about the two Klipper extras, BottomZ and MaterialCache.         *)
(*                                                                         *)
(* Of BottomZ, Safe adds to the two invariants what a script that holds    *)
(* the gcode lock knows at its step: that Z is referenced when it is about *)
(* to travel, and that a failed selection left Klipper down or Z unhomed   *)
(* or referenced when the queued move comes.                               *)
(*                                                                         *)
(* Of MaterialCache, Fresh relates the modification times, and an          *)
(* induction over the lines of a file shows that what the parser has found *)
(* after each is what the lines before it say.                             *)
(***************************************************************************)
EXTENDS BottomZ, MaterialCache, WellFoundedInduction, TLAPS

Safe ==
  /\ ReferenceReal /\ NoGuess
  /\ (down => ~valid) /\ (valid => homed)
  /\ pc = "travel" => down \/ (valid /\ homed)
  /\ pc = "wait" => down \/ (valid /\ homed)
  /\ pc = "seek" => homed
  /\ queued = "after" => who = "select"
  /\ queued = "now" /\ homed /\ ~down => valid \/ ~(pc = "idle" \/ (who = "diag" /\ pc = "settle"))

\* Every step keeps the types.
LEMMA TypeStep == TypeOK /\ [Next]_vars => TypeOK'
<1> SUFFICES ASSUME TypeOK, [Next]_vars PROVE TypeOK'
  OBVIOUS
<1> USE DEF TypeOK, vars, extra, machine, script, LockFree, Done, Referenced
<1>1. ASSUME NEW q \in {"no", "after"}, Select(q) PROVE TypeOK'
  BY <1>1 DEF Select
<1>2. CASE HomeBottom BY <1>2 DEF HomeBottom
<1>3. CASE HomeNative BY <1>3 DEF HomeNative
<1>4. CASE Travel
  <2>1. guessed' \in BOOLEAN BY <1>4 DEF Travel
  <2> QED BY <1>4, <2>1 DEF Travel
<1>5. CASE QueuedMove
  <2>1. guessed' \in BOOLEAN BY <1>5 DEF QueuedMove
  <2> QED BY <1>5, <2>1 DEF QueuedMove
<1>6. CASE Accepted BY <1>6 DEF Accepted, Blocked
<1>7. CASE Rejected \/ SettleFails \/ FinishFails
  BY <1>7 DEF Rejected, SettleFails, FinishFails, Raises, TestFails
<1>8. CASE Settled BY <1>8 DEF Settled
<1>9. CASE HomeBegin BY <1>9 DEF HomeBegin
<1>10. CASE HomeEnd BY <1>10 DEF HomeEnd
<1>11. CASE HomeFails BY <1>11 DEF HomeFails, Raises, TestFails
<1>12. CASE Finished BY <1>12 DEF Finished
<1>13. CASE MotorOff BY <1>13 DEF MotorOff
<1>14. CASE Label BY <1>14 DEF Label
<1>15. CASE Shutdown
  <2>1. UNCHANGED <<active, who, pc, phase>> BY <1>15 DEF Shutdown
  <2>2. valid' \in BOOLEAN /\ homed' \in BOOLEAN /\ real' \in BOOLEAN /\ down' \in BOOLEAN
    BY <1>15 DEF Shutdown
  <2> QED BY <1>15, <2>1, <2>2 DEF Shutdown
<1>16. CASE Restart BY <1>16 DEF Restart
<1>17. CASE JobStep BY <1>17 DEF JobStep
<1>18. CASE UNCHANGED vars BY <1>18
<1>19. CASE Test BY <1>19 DEF Test
<1>20. CASE TestEnds BY <1>20 DEF TestEnds
<1> QED BY <1>1, <1>2, <1>3, <1>4, <1>5, <1>6, <1>7, <1>8, <1>9, <1>10, <1>11,
           <1>12, <1>13, <1>14, <1>15, <1>16, <1>17, <1>18, <1>19, <1>20 DEF Next, HomeStep

\* Every step keeps Safe while nobody relabels a referenced Z, and a bottom
\* home that ends in it has settled.
LEMMA SafeStep ==
  ASSUME TypeOK, Safe, [Next]_vars, Relabels = FALSE
  PROVE  Safe' /\ (active /\ ~active' => (Referenced' /\ real') \/ down')
<1> DEFINE Goal == Safe' /\ (active /\ ~active' => (Referenced' /\ real') \/ down')
<1> USE DEF TypeOK, Safe, ReferenceReal, NoGuess, vars, extra, machine, script,
            LockFree, Done, Referenced
<1>1. ASSUME NEW q \in {"no", "after"}, Select(q) PROVE Goal
  BY <1>1 DEF Select
<1>2. CASE HomeBottom BY <1>2 DEF HomeBottom
<1>3. CASE HomeNative BY <1>3 DEF HomeNative
<1>4. CASE Travel BY <1>4 DEF Travel
<1>5. CASE QueuedMove BY <1>5 DEF QueuedMove
<1>6. CASE Accepted BY <1>6 DEF Accepted, Blocked
<1>7. CASE Rejected \/ SettleFails \/ FinishFails
  BY <1>7 DEF Rejected, SettleFails, FinishFails, Raises, TestFails
<1>8. CASE Settled BY <1>8 DEF Settled
<1>9. CASE HomeBegin BY <1>9 DEF HomeBegin
<1>10. CASE HomeEnd BY <1>10 DEF HomeEnd
<1>11. CASE HomeFails BY <1>11 DEF HomeFails, Raises, TestFails
<1>12. CASE Finished BY <1>12 DEF Finished
<1>13. CASE MotorOff BY <1>13 DEF MotorOff
<1>14. CASE Label BY <1>14 DEF Label
<1>15. CASE Shutdown BY <1>15 DEF Shutdown
<1>16. CASE Restart BY <1>16 DEF Restart
<1>17. CASE JobStep BY <1>17 DEF JobStep
<1>18. CASE UNCHANGED vars BY <1>18
<1>19. CASE Test BY <1>19 DEF Test
<1>20. CASE TestEnds BY <1>20 DEF TestEnds
<1> QED BY <1>1, <1>2, <1>3, <1>4, <1>5, <1>6, <1>7, <1>8, <1>9, <1>10, <1>11,
           <1>12, <1>13, <1>14, <1>15, <1>16, <1>17, <1>18, <1>19, <1>20 DEF Next, HomeStep

\* Types, whatever is relabelled.
THEOREM TypeCorrect == Spec => []TypeOK
<1>1. Init => TypeOK BY DEF Init, TypeOK
<1> QED BY <1>1, TypeStep, PTL DEF Spec

\* The strengthening holds in every state.
LEMMA SafeAlways == ~Relabels /\ Spec => [](TypeOK /\ Safe)
<1> SUFFICES ASSUME ~Relabels PROVE Spec => [](TypeOK /\ Safe)
  OBVIOUS
<1>1. Init => TypeOK /\ Safe
  BY DEF Init, TypeOK, Safe, ReferenceReal, NoGuess, Referenced
<1>2. TypeOK /\ Safe /\ [Next]_vars => (TypeOK /\ Safe)'
  BY TypeStep, SafeStep, BottomZAssumption
<1> QED BY <1>1, <1>2, PTL DEF Spec

\* The status says Z is referenced only while it is.
THEOREM ReferenceCorrect == ~Relabels /\ Spec => []ReferenceReal
<1>1. TypeOK /\ Safe => ReferenceReal BY DEF Safe
<1> QED BY <1>1, SafeAlways, PTL

\* No head goes sideways on a guessed Z.
THEOREM GuessFree == ~Relabels /\ Spec => []NoGuess
<1>1. TypeOK /\ Safe => NoGuess BY DEF Safe
<1> QED BY <1>1, SafeAlways, PTL

\* A bottom home that ends has referenced Z or shut Klipper down.
THEOREM SettledCorrect == ~Relabels /\ Spec => EndsSettled
<1> SUFFICES ASSUME ~Relabels PROVE Spec => EndsSettled
  OBVIOUS
<1>1. TypeOK /\ Safe /\ [Next]_vars
        => [active /\ ~active' => (Referenced' /\ real') \/ down']_vars
  BY SafeStep, BottomZAssumption
<1> QED BY <1>1, SafeAlways, PTL DEF Spec, EndsSettled

---------------------------------------------------------------------------
(* Reading a material file *)

\* A set of natural numbers has a least element: how facts about recursive
\* functions are proved here, by the least input without them.
LEMMA Least ==
  ASSUME NEW S \in SUBSET Nat, S # {}
  PROVE  \E m \in S : \A k \in S : m <= k
<1> DEFINE R == OpToRel(<, Nat)
<1>1. IsWellFoundedOn(R, Nat)
  BY NatLessThanWellFounded
<1>2. \A x, y \in Nat : (x < y) => <<x, y>> \in R
  BY DEF OpToRel
<1> HIDE DEF R
<1>3. PICK m \in S : \A y \in S : ~ (<<y, m>> \in R)
  BY <1>1, WFMin
<1>4. ASSUME NEW k \in S PROVE m <= k
  <2>1. m \in Nat /\ k \in Nat
    OBVIOUS
  <2>2. ~ (k < m)
    BY <2>1, <1>2, <1>3
  <2> QED BY <2>1, <2>2
<1> QED BY <1>4

\* The reading f of the first n lines of a text: what is known after each.
IsReading(f, text, n) ==
  /\ f = [i \in 0 .. n |-> f[i]] /\ f[0] = NoSection
  /\ \A i \in 1 .. n : f[i] = Parsed(f[i - 1], text[i])

\* There is a reading of every text, and Materials is what one has found at the
\* end.
LEMMA ReadingExists ==
  ASSUME NEW text, NEW n \in Nat
  PROVE  \E f : IsReading(f, text, n)
<1> DEFINE Missed == {m \in Nat : ~ \E f : IsReading(f, text, m)}
<1>1. Missed = {}
  <2> SUFFICES ASSUME Missed # {} PROVE FALSE
    OBVIOUS
  <2>1. PICK m \in Missed : \A k \in Missed : m <= k
    <3> HIDE DEF Missed
    <3>1. Missed \in SUBSET Nat BY DEF Missed
    <3> QED BY <3>1, Least
  <2>2. CASE m = 0
    <3>1. IsReading([i \in 0 .. 0 |-> NoSection], text, 0)
      BY DEF IsReading
    <3> QED BY <2>1, <2>2, <3>1
  <2>3. CASE m # 0
    <3>1. m - 1 \in Nat /\ m \in Nat /\ ~ (m <= m - 1)
      BY <2>3
    <3>2. m - 1 \notin Missed
      BY <2>1, <3>1
    <3>3. PICK f : IsReading(f, text, m - 1)
      BY <3>1, <3>2
    <3> DEFINE g == [i \in 0 .. m |-> IF i = m THEN Parsed(f[m - 1], text[m]) ELSE f[i]]
    <3>4. g[0] = NoSection /\ g = [i \in 0 .. m |-> g[i]]
      BY <2>3, <3>1, <3>3 DEF IsReading
    <3>5. ASSUME NEW i \in 1 .. m PROVE g[i] = Parsed(g[i - 1], text[i])
      <4>1. i - 1 \in 0 .. m - 1 /\ i \in 0 .. m /\ i - 1 \in 0 .. m /\ i - 1 # m
        BY <3>1
      <4>2. g[i - 1] = f[i - 1]
        BY <4>1
      <4>3. CASE i = m
        BY <4>1, <4>2, <4>3
      <4>4. CASE i # m
        <5>1. i \in 1 .. m - 1 BY <3>1, <4>4
        <5> QED BY <3>3, <4>1, <4>2, <4>4, <5>1 DEF IsReading
      <4> QED BY <4>3, <4>4
    <3> HIDE DEF g
    <3>6. IsReading(g, text, m)
      BY <3>4, <3>5 DEF IsReading
    <3> QED BY <2>1, <3>6
  <2> QED BY <2>2, <2>3
<1> QED BY <1>1

LEMMA MaterialsRead ==
  ASSUME NEW text, Len(text) \in Nat
  PROVE  \E f : IsReading(f, text, Len(text)) /\ Materials(text) = f[Len(text)].found
<1> DEFINE n == Len(text)
<1>1. PICK f : IsReading(f, text, n)
  BY ReadingExists
<1>2. f = [i \in 0 .. n |-> IF i = 0 THEN NoSection ELSE Parsed(f[i - 1], text[i])]
  <2> DEFINE e == [i \in 0 .. n |-> IF i = 0 THEN NoSection ELSE Parsed(f[i - 1], text[i])]
  <2>1. \A i \in 0 .. n : i = 0 \/ i \in 1 .. n
    OBVIOUS
  <2>2. \A i \in 0 .. n : f[i] = e[i]
    BY <1>1, <2>1 DEF IsReading
  <2>3. f = [i \in 0 .. n |-> f[i]]
    BY <1>1 DEF IsReading
  <2> QED BY <2>2, <2>3
<1> DEFINE after[i \in 0 .. n] == IF i = 0 THEN NoSection ELSE Parsed(after[i - 1], text[i])
<1>3. Materials(text) = after[n].found
  BY DEF Materials
<1>4. after = [i \in 0 .. n |-> IF i = 0 THEN NoSection ELSE Parsed(after[i - 1], text[i])]
  BY <1>2
<1>5. IsReading(after, text, n)
  <2> HIDE DEF after
  <2>1. 0 \in 0 .. n /\ \A i \in 1 .. n : i \in 0 .. n /\ i # 0
    OBVIOUS
  <2>2. after[0] = NoSection
    BY <1>4, <2>1
  <2>3. \A i \in 1 .. n : after[i] = Parsed(after[i - 1], text[i])
    BY <1>4, <2>1
  <2>4. after = [i \in 0 .. n |-> after[i]]
    BY <1>4
  <2> QED BY <2>2, <2>3, <2>4 DEF IsReading
<1> HIDE DEF after
<1> QED BY <1>3, <1>5
\* What is known of slot s after i lines is what they say.
Right(f, text, i, s) ==
  /\ f[i] = [section |-> f[i].section, found |-> f[i].found]
  /\ f[i].section = "slot" <=> \E j \in 1 .. i : Section(text, i, j) /\ text[j].name = "slot"
  /\ s \in DOMAIN f[i].found =>
       \E j \in 1 .. i : LastSets(text, j, s, i) /\ f[i].found[s] = text[j].value
  /\ s \notin DOMAIN f[i].found => \A j \in 1 .. i : ~ Sets(text, j, s)

LEMMA ReadsSection ==
  ASSUME NEW text \in Seq(Lines), NEW f, IsReading(f, text, Len(text)), NEW s \in Slots,
         NEW i \in 1 .. Len(text), Right(f, text, i - 1, s), text[i].kind = "section"
  PROVE  Right(f, text, i, s)
<1>1. f[i] = [f[i - 1] EXCEPT !.section = text[i].name]
  BY DEF IsReading, Parsed
<1>2. /\ f[i].section = text[i].name /\ f[i].found = f[i - 1].found
      /\ f[i] = [section |-> f[i].section, found |-> f[i].found]
  BY <1>1 DEF Right
<1>3. i \in 1 .. i /\ Section(text, i, i)
  BY DEF Section
<1>4. ASSUME NEW j \in 1 .. i, Section(text, i, j) PROVE j = i
  <2>1. j < i => i \in j + 1 .. i
    OBVIOUS
  <2>2. ~ (j < i)
    BY <1>4, <2>1 DEF Section
  <2> QED BY <2>2
<1>5. f[i].section = "slot" <=> \E j \in 1 .. i : Section(text, i, j) /\ text[j].name = "slot"
  BY <1>2, <1>3, <1>4
<1>6. ~ Sets(text, i, s)
  BY DEF Sets
<1>7. \A j \in 1 .. i : j = i \/ j \in 1 .. i - 1
  OBVIOUS
<1>8. s \notin DOMAIN f[i].found => \A j \in 1 .. i : ~ Sets(text, j, s)
  BY <1>2, <1>6, <1>7 DEF Right
<1>9. ASSUME NEW j \in 1 .. i - 1, LastSets(text, j, s, i - 1) PROVE LastSets(text, j, s, i) /\ j \in 1 .. i
  <2>1. \A k \in j + 1 .. i : k = i \/ k \in j + 1 .. i - 1
    OBVIOUS
  <2> QED BY <1>6, <1>9, <2>1 DEF LastSets
<1>10. s \in DOMAIN f[i].found =>
         \E j \in 1 .. i : LastSets(text, j, s, i) /\ f[i].found[s] = text[j].value
  BY <1>2, <1>9 DEF Right
<1> QED BY <1>2, <1>5, <1>8, <1>10 DEF Right

LEMMA ReadsSetting ==
  ASSUME NEW text \in Seq(Lines), NEW f, IsReading(f, text, Len(text)), NEW s \in Slots,
         NEW i \in 1 .. Len(text), Right(f, text, i - 1, s), text[i].kind = "setting"
  PROVE  Right(f, text, i, s)
<1> DEFINE line == text[i]
<1> DEFINE counts == f[i - 1].section = "slot" /\ Unparsable \notin {line.slot, line.value}
<1>1. f[i] = IF counts THEN [f[i - 1] EXCEPT !.found = With(@, line.slot, line.value)] ELSE f[i - 1]
  <2>1. f[i] = Parsed(f[i - 1], line) /\ line.kind # "section"
    BY DEF IsReading
  <2> QED BY <2>1 DEF Parsed
<1>2. /\ f[i].section = f[i - 1].section
      /\ f[i].found = IF counts THEN With(f[i - 1].found, line.slot, line.value) ELSE f[i - 1].found
      /\ f[i] = [section |-> f[i].section, found |-> f[i].found]
  BY <1>1 DEF Right
<1>3. \A j \in 1 .. i : j = i \/ j \in 1 .. i - 1
  OBVIOUS
<1>4. \A j \in 1 .. i - 1 : j \in 1 .. i /\ \A k \in j + 1 .. i : k = i \/ k \in j + 1 .. i - 1
  OBVIOUS
<1>5. \A j \in 1 .. i - 1 : \A k \in j + 1 .. i - 1 : k \in j + 1 .. i
  OBVIOUS
<1>6. \A j \in 1 .. i - 1 : Section(text, i, j) <=> Section(text, i - 1, j)
  BY <1>4, <1>5 DEF Section
<1>7. ~ Section(text, i, i)
  BY DEF Section
<1>8. f[i].section = "slot" <=> \E j \in 1 .. i : Section(text, i, j) /\ text[j].name = "slot"
  BY <1>2, <1>3, <1>4, <1>6, <1>7 DEF Right
<1>9. s # Unparsable
  BY MaterialAssumption
<1>10. Sets(text, i, s) <=> counts /\ line.slot = s
  BY <1>2, <1>8, <1>9 DEF Sets
<1>11. CASE Sets(text, i, s)
  <2>1. f[i].found = With(f[i - 1].found, s, line.value)
    BY <1>2, <1>10, <1>11
  <2>2. s \in DOMAIN f[i].found /\ f[i].found[s] = line.value
    BY <2>1 DEF With
  <2>3. i \in 1 .. i /\ LastSets(text, i, s, i)
    BY <1>11 DEF LastSets
  <2> QED BY <1>2, <1>8, <2>2, <2>3 DEF Right
<1>12. CASE ~ Sets(text, i, s)
  <2>1. /\ s \in DOMAIN f[i].found <=> s \in DOMAIN f[i - 1].found
        /\ s \in DOMAIN f[i].found => f[i].found[s] = f[i - 1].found[s]
    BY <1>2, <1>10, <1>12 DEF With
  <2>2. \A j \in 1 .. i - 1 : LastSets(text, j, s, i - 1) => LastSets(text, j, s, i)
    BY <1>4, <1>12 DEF LastSets
  <2>3. s \in DOMAIN f[i].found =>
          \E j \in 1 .. i : LastSets(text, j, s, i) /\ f[i].found[s] = text[j].value
    BY <1>4, <2>1, <2>2 DEF Right
  <2>4. s \notin DOMAIN f[i].found => \A j \in 1 .. i : ~ Sets(text, j, s)
    BY <1>3, <1>12, <2>1 DEF Right
  <2> QED BY <1>2, <1>8, <2>3, <2>4 DEF Right
<1> QED BY <1>11, <1>12

\* By induction over the lines.
LEMMA ReadsRight ==
  ASSUME NEW text \in Seq(Lines), NEW f, IsReading(f, text, Len(text)), NEW s \in Slots
  PROVE  Right(f, text, Len(text), s)
<1> DEFINE n == Len(text)
<1> DEFINE Wrong == {i \in 0 .. n : ~ Right(f, text, i, s)}
<1>1. n \in Nat
  OBVIOUS
<1>2. Wrong = {}
  <2> SUFFICES ASSUME Wrong # {} PROVE FALSE
    OBVIOUS
  <2>1. PICK i \in Wrong : \A k \in Wrong : i <= k
    <3> HIDE DEF Wrong
    <3>1. Wrong \in SUBSET Nat BY <1>1 DEF Wrong
    <3> QED BY <3>1, Least
  <2>2. CASE i = 0
    <3>1. f[0] = NoSection
      BY DEF IsReading
    <3>2. Right(f, text, 0, s)
      BY <3>1 DEF Right, NoSection
    <3> QED BY <2>1, <2>2, <3>2
  <2>3. CASE i # 0
    <3>1. i \in 1 .. n /\ i - 1 \in 0 .. n /\ ~ (i <= i - 1)
      BY <1>1, <2>3
    <3>2. i - 1 \notin Wrong
      BY <2>1, <3>1
    <3>3. Right(f, text, i - 1, s)
      BY <3>1, <3>2
    <3>4. text[i] \in Lines
      BY <3>1
    <3>5. text[i].kind = "section" \/ text[i].kind = "setting"
      BY <3>4, MaterialAssumption DEF IsLine
    <3>6. Right(f, text, i, s)
      BY <3>1, <3>3, <3>5, ReadsSection, ReadsSetting
    <3> QED BY <2>1, <3>6
  <2> QED BY <2>2, <2>3
<1> QED BY <1>1, <1>2

\* parse_slot_materials finds what the file says: for each slot the last setting
\* under [slot] whose number can be parsed, or nothing.
THEOREM MaterialsSay ==
  ASSUME NEW text \in Seq(Lines), NEW s \in Slots
  PROVE  Says(text, s) = IF s \in DOMAIN Materials(text) THEN Materials(text)[s] ELSE -1
<1> DEFINE n == Len(text)
<1>1. PICK f : IsReading(f, text, n) /\ Materials(text) = f[n].found
  BY MaterialsRead
<1>2. Right(f, text, n, s)
  BY <1>1, ReadsRight
<1>3. DOMAIN text = 1 .. n /\ n \in Nat
  OBVIOUS
<1>4. \A i, j \in 1 .. n : LastSets(text, i, s, n) /\ LastSets(text, j, s, n) => i = j
  <2> SUFFICES ASSUME NEW i \in 1 .. n, NEW j \in 1 .. n,
                      LastSets(text, i, s, n), LastSets(text, j, s, n), i # j
               PROVE  FALSE
    OBVIOUS
  <2>1. i \in j + 1 .. n \/ j \in i + 1 .. n
    OBVIOUS
  <2> QED BY <2>1 DEF LastSets
<1>5. CASE s \in DOMAIN Materials(text)
  <2>1. PICK i \in 1 .. n : LastSets(text, i, s, n) /\ Materials(text)[s] = text[i].value
    BY <1>1, <1>2, <1>5 DEF Right
  <2>2. (CHOOSE j \in 1 .. n : LastSets(text, j, s, n)) = i
    BY <1>4, <2>1
  <2> QED BY <1>3, <1>5, <2>1, <2>2 DEF Says
<1>6. CASE s \notin DOMAIN Materials(text)
  <2>1. \A i \in 1 .. n : ~ LastSets(text, i, s, n)
    BY <1>1, <1>2, <1>6 DEF Right, LastSets
  <2> QED BY <1>3, <1>6, <2>1 DEF Says
<1> QED BY <1>5, <1>6

---------------------------------------------------------------------------
(* The cache *)

\* No time lies ahead of the clock, and what was read at the file's own time
\* was read from this file.
Fresh ==
  /\ now \in Nat /\ file \in Seq(Lines) \cup {NoFile}
  /\ stamp \in Nat \cup {NoFile} /\ (stamp = NoFile <=> file = NoFile)
  /\ mtime \in Nat \cup {NoFile} /\ seen \in Nat \cup {NoFile}
  /\ \A time \in {stamp, mtime, seen} \ {NoFile} : time <= now
  /\ look = "read" => seen # NoFile
  /\ mtime = NoFile => slots = <<>>
  /\ mtime # NoFile /\ mtime = stamp => slots = Materials(file)

LEMMA FreshStart == CacheInit => Fresh
  BY MaterialAssumption DEF CacheInit, Fresh

\* A file that is written gets a time no one has seen, if each second, or
\* whatever the clock counts, has one content.
LEMMA FreshStep ==
  ASSUME Coarse = FALSE, Fresh, [CacheNext]_cacheVars
  PROVE  Fresh'
<1>1. CASE Stat
  <2>1. UNCHANGED <<file, stamp, now>> BY <1>1 DEF Stat
  <2>2. CASE file = NoFile /\ Forgotten
    BY <2>1, <2>2 DEF Fresh, Forgotten
  <2>3. CASE file # NoFile /\ look' = "read" /\ seen' = stamp /\ UNCHANGED <<mtime, slots>>
    BY <2>1, <2>3 DEF Fresh
  <2> QED BY <1>1, <2>2, <2>3 DEF Stat
<1>2. CASE Read
  BY <1>2 DEF Fresh, Read
<1>3. CASE ReadFails
  BY <1>3 DEF Fresh, ReadFails, Forgotten
<1>4. CASE Deleted
  BY <1>4 DEF Fresh, Deleted
<1>5. CASE Permit
  BY <1>5 DEF Fresh, Permit
<1>6. ASSUME NEW n \in 0 .. MaxLines, NEW text \in [1 .. n -> Lines], Rewrite(text) PROVE Fresh'
  <2>1. /\ now' = now + 1 /\ file' = text /\ stamp' = now'
        /\ UNCHANGED <<mtime, slots, look, seen>>
    BY <1>6 DEF Rewrite
  <2>2. text \in Seq(Lines) /\ text # NoFile
    BY MaterialAssumption
  <2>3. now' \in Nat /\ stamp' # NoFile /\ stamp' # mtime
    BY <2>1, MaterialAssumption DEF Fresh
  <2>4. \A time \in {stamp, mtime, seen}' \ {NoFile} : time <= now'
    BY <2>1, MaterialAssumption DEF Fresh
  <2> QED BY <2>1, <2>2, <2>3, <2>4 DEF Fresh
<1>7. CASE UNCHANGED cacheVars
  BY <1>7 DEF Fresh, cacheVars
<1> QED BY <1>1, <1>2, <1>3, <1>4, <1>5, <1>6, <1>7 DEF CacheNext

LEMMA FreshShows == Fresh => StatusOfFile
<1> SUFFICES ASSUME Fresh PROVE StatusOfFile
  OBVIOUS
<1>1. ASSUME mtime = NoFile, NEW s \in Slots PROVE Index(s) = -1
  BY <1>1 DEF Fresh, Index
<1>2. ASSUME mtime # NoFile, mtime = stamp, NEW s \in Slots
      PROVE  Index(s) = Says(file, s) /\ (Temp(s) # 0 => Says(file, s) \in DOMAIN Heats)
  <2>1. slots = Materials(file) /\ file \in Seq(Lines)
    BY <1>2 DEF Fresh
  <2>2. Index(s) = Says(file, s)
    BY <2>1, MaterialsSay DEF Index
  <2> QED BY <2>2 DEF Temp
<1> QED BY <1>1, <1>2 DEF StatusOfFile

\* The filament the touchscreen is told to be in a slot is the one its file
\* names there, for any file and any order of writes, looks and reads, if the
\* file system gives two contents two times (wm_material.py compares times).
THEOREM StatusCorrect == Coarse = FALSE /\ CacheSpec => []StatusOfFile
<1>1. Coarse = FALSE /\ Fresh /\ [CacheNext]_cacheVars => Fresh'
  BY FreshStep
<1>2. Coarse = FALSE /\ CacheSpec => []Fresh
  <2> SUFFICES ASSUME Coarse = FALSE PROVE CacheSpec => []Fresh
    OBVIOUS
  <2>1. Fresh /\ [CacheNext]_cacheVars => Fresh'
    BY <1>1
  <2> QED BY FreshStart, <2>1, PTL DEF CacheSpec
<1> QED BY <1>2, FreshShows, PTL
=============================================================================
