------------------------ MODULE FrameHandoverProofs ------------------------
(***************************************************************************)
(* Proofs about FrameHandover for any framebuffers and any number of       *)
(* pictures, in every mode: copies arrive in order and are numbered when   *)
(* made, one thread presents, an idle screen shows what VI scans, and      *)
(* pictures are handed on in the order they were made.                     *)
(***************************************************************************)
EXTENDS FrameHandover, TLAPS

USE FrameAssumption

-----------------------------------------------------------------------------
(* The inductive invariant *)

\* Outstanding, of any queue: the places of the copies to buffer b.
To(queue, b) == {i \in DOMAIN queue : queue[i].buf = b}

Drawn == IF drawing THEN 1 ELSE 0

\* Copies begun or to come are pictures made; a drawing thread has one in hand.
Counted ==
  /\ copies + Len(commands) - Drawn <= frames
  /\ drawing => commands # <<>> /\ copies > 0

\* What is in a buffer, what VI was promised of it and the newest picture made
\* for it; only what was copied, or came after a copy, is in one.
Made == \A b \in Buffers :
  /\ memory[b] <= newest[b] /\ promised[b] <= newest[b] /\ newest[b] <= frames
  /\ memory[b] > 0 => copies > 0

\* The newest picture made for a buffer is the last on its way there.
NewestSent ==
  /\ \A i \in DOMAIN commands : commands[i].frame <= newest[commands[i].buf]
  /\ \A b \in Buffers : To(commands, b) # {} =>
       \E i \in To(commands, b) : commands[i].frame = newest[b]

\* The presenter reads a buffer.
Reading == reader.at \in {"pixels", "reading"} => reader.buf \in Buffers

\* An inline run that was interrupted has seen its window closed and presents
\* no more.
Quitting == Inline /\ interrupted
QuitSeen == Quitting => closed /\ game = "run"

\* Between pumps VI has moved since the last one exactly when its address is
\* not the pump's; from the drain to the end of the pump they are the same.
Settled ==
  /\ game = "run" /\ ~Quitting => (moved <=> vi # lastVi)
  /\ game \in {"decide", "present"} => vi = lastVi
  /\ game # "run" => ~moved

\* VI scans the buffer of the last key after a pump that could not be refused.
LastKey ==
  mode \in {"threaded", "inline"} /\ ~interrupted /\ ~moved /\ game \in {"run", "present"}
    => shown = <<>> \/ shown[1] = vi[1]

\* A key has the number of a copy that was in its buffer, VI does not go back to no
\* buffer, and a buffer it scans was promised a picture.
Keys ==
  /\ shown # <<>> => shown[2] <= copies - Drawn
  /\ shown # <<>> /\ shown[1] \in Buffers => vi[1] \in Buffers
  /\ vi[1] \in Buffers => promised[vi[1]] > 0

\* Once VI was taken to another buffer than the last key's, the newest picture
\* for that one is the older, for as long as no copy goes there.
Overtaken ==
  (/\ shown # <<>> /\ shown[1] \in Buffers /\ shown[1] # vi[1] /\ AllCopied
   /\ frameIn[shown[1]] = shown[2] /\ To(commands, shown[1]) = {})
  => newest[shown[1]] < newest[vi[1]]

\* IdleMeansShown on the way there: the picture of a key that still stands has been
\* announced, is being presented, or is on the screen.
OnItsWay ==
  (/\ mode # "headless" /\ ~interrupted /\ NoneRefused
   /\ vi[1] \in Buffers /\ Key = shown /\ To(commands, vi[1]) = {})
  => \/ pending \/ reader.at = "address"
     \/ reader.at = "pixels" /\ reader.buf = vi[1]
     \/ reader.at = "reading" /\ reader.buf = vi[1] /\ reader.met = memory[vi[1]] /\ reader.whole
     \/ reader.at = "no" /\ screen = [frame |-> memory[vi[1]], whole |-> TRUE]

\* What was promised is in the buffer once VI's address has been through a pump.
Kept == ~Quitting /\ vi = lastVi /\ vi[1] \in Buffers => memory[vi[1]] >= promised[vi[1]]

\* What was handed on is in its buffer or was overwritten by something newer, and
\* what VI was pointed at since then is newer.
HandedOlder ==
  /\ shown = <<>> \/ shown[1] \notin Buffers => handed = 0
  /\ shown # <<>> /\ shown[1] \in Buffers =>
       /\ memory[shown[1]] >= handed
       /\ frameIn[shown[1]] # shown[2] => memory[shown[1]] > handed
       /\ shown[1] # vi[1] => promised[vi[1]] > handed

IInv == /\ FrameInv /\ Counted /\ Made /\ NewestSent /\ Reading /\ QuitSeen /\ Settled /\ LastKey
        /\ Keys /\ Overtaken /\ OnItsWay /\ Kept /\ HandedOlder
-----------------------------------------------------------------------------
(* The type invariant in parts *)

PumpTypes ==
  /\ mode \in Modes /\ game \in {"run", "drain", "decide", "present"}
  /\ lastVi \in (Buffers \cup {NoBuffer}) \X (0..1)
  /\ shown = <<>> \/ shown \in (Buffers \cup {NoBuffer}) \X Serials
  /\ early \in -3..3 /\ handed \in Serials
ViTypes ==
  /\ vi \in (Buffers \cup {NoBuffer}) \X (0..1) /\ moved \in BOOLEAN
  /\ promised \in [Buffers -> Serials]
RenderTypes ==
  /\ commands \in Seq([buf : Buffers, frame : Serials])
  /\ drawing \in BOOLEAN /\ copies \in Serials /\ frameIn \in [Buffers -> Serials]
DrawnTypes == memory \in [Buffers -> Serials] /\ newest \in [Buffers -> Serials] /\ frames \in Serials
ShowTypes ==
  /\ pending \in BOOLEAN
  /\ reader \in [at : {"no", "address", "pixels", "reading"},
                 buf : Buffers \cup {NoBuffer}, met : Serials, whole : BOOLEAN]
  /\ screen \in [frame : Serials, whole : BOOLEAN]
RunTypes == closed \in BOOLEAN /\ interrupted \in BOOLEAN /\ done \in BOOLEAN

LEMMA TypeParts ==
  TypeOK <=> PumpTypes /\ ViTypes /\ RenderTypes /\ DrawnTypes /\ ShowTypes /\ RunTypes
BY DEF TypeOK, PumpTypes, ViTypes, RenderTypes, DrawnTypes, ShowTypes, RunTypes

LEMMA TypePartsNext ==
  TypeOK' <=> PumpTypes' /\ ViTypes' /\ RenderTypes' /\ DrawnTypes' /\ ShowTypes' /\ RunTypes'
BY DEF TypeOK, PumpTypes, ViTypes, RenderTypes, DrawnTypes, ShowTypes, RunTypes

-----------------------------------------------------------------------------
(* Queues and keys *)

Copies == [buf : Buffers, frame : Serials]

\* What the render thread has been sent, once one more command follows.
LEMMA Sent ==
  ASSUME NEW T, NEW s \in Seq(T), NEW e \in T
  PROVE  /\ Append(s, e) \in Seq(T) /\ Len(Append(s, e)) = Len(s) + 1 /\ Len(s) \in Nat
         /\ DOMAIN s = 1..Len(s) /\ DOMAIN Append(s, e) = DOMAIN s \cup {Len(s) + 1}
         /\ Append(s, e)[Len(s) + 1] = e
         /\ \A i \in DOMAIN s : i \in Nat /\ i < Len(s) + 1 /\ Append(s, e)[i] = s[i]
  OBVIOUS

\* And once its first command is done.
LEMMA Taken ==
  ASSUME NEW T, NEW s \in Seq(T), s # <<>>
  PROVE  /\ Tail(s) \in Seq(T) /\ Len(Tail(s)) = Len(s) - 1 /\ Len(s) \in Nat /\ Len(s) > 0
         /\ Head(s) = s[1] /\ 1 \in DOMAIN s /\ Head(s) \in T
         /\ \A i \in DOMAIN Tail(s) : i \in Nat /\ i + 1 \in DOMAIN s /\ Tail(s)[i] = s[i + 1]
         /\ \A i \in DOMAIN s : i \in Nat /\ (i # 1 => i - 1 \in DOMAIN Tail(s) /\ i > 1)
  OBVIOUS

\* A key is never the empty one, and is known by its two parts.
LEMMA Pairs ==
  ASSUME NEW S, NEW T, NEW s, s = <<>> \/ s \in S \X T, NEW a, NEW n
  PROVE  /\ <<a, n>> # <<>>
         /\ <<a, n>> = s <=> s # <<>> /\ s[1] = a /\ s[2] = n
<1>1. <<a, n>> # <<>> OBVIOUS
<1>2. CASE s = <<>> BY <1>1, <1>2
<1>3. CASE s \in S \X T
  <2>1. s = <<s[1], s[2]>> BY <1>3
  <2>2. s # <<>> BY <2>1
  <2> QED BY <2>1, <2>2
<1> QED BY <1>1, <1>2, <1>3

\* What the types say of numbers, addresses and commands.
LEMMA Ranges ==
  ASSUME PumpTypes, ViTypes, RenderTypes, DrawnTypes
  PROVE  /\ frames \in Nat /\ copies \in Nat /\ handed \in Nat /\ frames <= MaxFrames /\ copies <= MaxFrames
         /\ commands \in Seq(Copies) /\ Len(commands) \in Nat /\ DOMAIN commands = 1..Len(commands)
         /\ \A i \in DOMAIN commands : commands[i].buf \in Buffers /\ commands[i].frame \in Nat
         /\ \A b \in Buffers : memory[b] \in Nat /\ newest[b] \in Nat /\ promised[b] \in Nat /\ frameIn[b] \in Nat
         /\ shown # <<>> => shown[2] \in Nat
<1>1. \A n \in Serials : n \in Nat /\ n <= MaxFrames BY DEF Serials
<1>2. commands \in Seq(Copies) BY DEF RenderTypes, Copies
<1>3. \A i \in DOMAIN commands : commands[i] \in Copies BY <1>2
<1>4. \A c \in Copies : c.buf \in Buffers /\ c.frame \in Nat BY <1>1 DEF Copies
<1>5. shown # <<>> => shown[2] \in Serials BY DEF PumpTypes
<1>6. \A b \in Buffers : /\ memory[b] \in Serials /\ newest[b] \in Serials
                         /\ promised[b] \in Serials /\ frameIn[b] \in Serials
  BY DEF ViTypes, RenderTypes, DrawnTypes
<1>7. frames \in Serials /\ copies \in Serials /\ handed \in Serials
  BY DEF PumpTypes, RenderTypes, DrawnTypes
<1>8. Len(commands) \in Nat /\ DOMAIN commands = 1..Len(commands) BY <1>2
<1> QED BY <1>1, <1>2, <1>3, <1>4, <1>5, <1>6, <1>7, <1>8

\* Whether VI scans what the last key names.
LEMMA SameKey ==
  ASSUME PumpTypes
  PROVE  Key = shown <=> shown # <<>> /\ shown[1] = vi[1] /\ shown[2] = FrameIn(vi[1])
BY Pairs DEF Key, PumpTypes

\* What a pump makes of VI's address: a key of the types, with the number of a
\* copy that is made, and the picture there.
LEMMA Scanning ==
  ASSUME PumpTypes, ViTypes, RenderTypes, DrawnTypes, NotedWhenMade, Counted
  PROVE  /\ Key \in (Buffers \cup {NoBuffer}) \X Serials /\ Key # <<>>
         /\ Key[1] = vi[1] /\ Key[2] = FrameIn(vi[1]) /\ FrameIn(vi[1]) <= copies - Drawn
         /\ PictureAt(vi[1]) \in Serials
<1>1. vi[1] \in Buffers \cup {NoBuffer} BY DEF ViTypes
<1>2. FrameIn(vi[1]) \in Serials /\ PictureAt(vi[1]) \in Serials
  BY <1>1 DEF FrameIn, PictureAt, RenderTypes, DrawnTypes, Serials
<1>3. FrameIn(vi[1]) <= copies - Drawn
  <2>1. copies \in Nat BY Ranges
  <2>2. copies - Drawn >= 0 BY <2>1 DEF Counted, Drawn
  <2> QED BY <2>2 DEF FrameIn, Drawn, NotedWhenMade
<1> QED BY <1>1, <1>2, <1>3 DEF Key

-----------------------------------------------------------------------------
(* Every action keeps the invariant *)

LEMMA CopyIInv ==
  ASSUME IInv, NEW b \in Buffers, Copy(b)
  PROVE  IInv'
<1> USE DEF Copy, gameVars, viVars, renderVars, drawnVars, showVars, runVars
<1>i. /\ PumpTypes /\ ViTypes /\ RenderTypes /\ DrawnTypes /\ ShowTypes /\ RunTypes
      /\ CommandsInOrder /\ NotedWhenMade /\ OnePresenter /\ Counted /\ Made /\ NewestSent
      /\ Reading /\ QuitSeen /\ Settled /\ LastKey /\ Keys /\ Overtaken
      /\ OnItsWay /\ Kept /\ HandedOlder
  BY TypeParts DEF IInv, FrameInv
<1> DEFINE n == frames + 1
           e == [buf |-> b, frame |-> n]
           last == Len(commands) + 1
<1>n. n \in Serials /\ n \in Nat /\ frames \in Nat /\ n > frames BY <1>i, Ranges DEF Serials
<1>e. e \in Copies /\ e.buf = b /\ e.frame = n BY <1>n DEF Copies
<1>c. /\ commands' \in Seq(Copies) /\ Len(commands') = Len(commands) + 1 /\ Len(commands) \in Nat
      /\ DOMAIN commands' = DOMAIN commands \cup {last} /\ commands'[last] = e /\ last \notin DOMAIN commands /\ last \in Nat
      /\ \A i \in DOMAIN commands : i \in Nat /\ i < last /\ commands'[i] = commands[i]
  <2>1. commands' = Append(commands, e) /\ commands \in Seq(Copies) BY <1>i, Ranges
  <2> HIDE DEF e
  <2> QED BY <2>1, <1>e, Sent
<1>m. newest' = [newest EXCEPT ![b] = n] /\ newest \in [Buffers -> Serials] /\ frames' = n
  BY <1>i DEF DrawnTypes
<1>k. UNCHANGED <<mode, game, lastVi, shown, early, handed, vi, moved, promised, drawing, copies, frameIn, memory,
                  pending, reader, screen, closed, interrupted, done>>
  OBVIOUS
<1>g. /\ \A c \in Buffers : newest'[c] = IF c = b THEN n ELSE newest[c]
      /\ \A c \in Buffers : newest[c] < n /\ newest[c] \in Nat /\ memory[c] \in Nat /\ memory[c] <= newest[c]
      /\ \A i \in DOMAIN commands : commands[i].frame < n /\ commands[i].frame \in Nat /\ commands[i].buf \in Buffers
  <2>1. \A c \in Buffers : newest'[c] = IF c = b THEN n ELSE newest[c] BY <1>m
  <2>2. \A c \in Buffers : newest[c] <= frames /\ newest[c] \in Nat /\ memory[c] \in Nat /\ memory[c] <= newest[c]
    BY <1>i, Ranges DEF Made
  <2>3. \A i \in DOMAIN commands :
          commands[i].frame <= newest[commands[i].buf] /\ commands[i].frame \in Nat /\ commands[i].buf \in Buffers
    BY <1>i, Ranges DEF NewestSent
  <2> QED BY <2>1, <2>2, <2>3, <1>n
<1> HIDE DEF Copy, n, e, last
<1>o. \A c \in Buffers : To(commands', c) = IF c = b THEN To(commands, c) \cup {last} ELSE To(commands, c)
  <2> TAKE c \in Buffers
  <2>1. \A i \in DOMAIN commands : commands'[i].buf = commands[i].buf BY <1>c
  <2>2. commands'[last].buf = b BY <1>c, <1>e
  <2> QED BY <1>c, <2>1, <2>2 DEF To
<1>a. AllCopied' <=> AllCopied
  <2>1. copies \in Nat /\ frames' = frames + 1 BY <1>i, <1>m, Ranges DEF n
  <2> QED BY <2>1, <1>c, <1>k, <1>n DEF AllCopied
<1>1. TypeOK'
  <2>1. PumpTypes' BY <1>i, <1>k DEF PumpTypes
  <2>2. ViTypes' BY <1>i, <1>k DEF ViTypes
  <2>3. RenderTypes' BY <1>i, <1>c, <1>k DEF RenderTypes, Copies
  <2>4. DrawnTypes' BY <1>i, <1>m, <1>k, <1>n DEF DrawnTypes
  <2>5. ShowTypes' BY <1>i, <1>k DEF ShowTypes
  <2>6. RunTypes' BY <1>i, <1>k DEF RunTypes
  <2> QED BY <2>1, <2>2, <2>3, <2>4, <2>5, <2>6, TypePartsNext
<1>u. /\ NotedWhenMade'
      /\ OnePresenter'
      /\ Reading'
      /\ QuitSeen'
      /\ Settled'
      /\ LastKey'
      /\ Keys'
      /\ Kept'
      /\ HandedOlder'
  BY <1>i, <1>k DEF NotedWhenMade, OnePresenter, Inline, Idle, Reading, QuitSeen, Quitting,
    Settled, LastKey, Keys, Drawn, Kept, HandedOlder
<1>2. CommandsInOrder'
  <2>1. \A i, j \in DOMAIN commands' : i < j => commands'[i].frame < commands'[j].frame
    <3> SUFFICES ASSUME NEW i \in DOMAIN commands', NEW j \in DOMAIN commands', i < j
                 PROVE  commands'[i].frame < commands'[j].frame
      OBVIOUS
    <3>1. i \in DOMAIN commands BY <1>c
    <3>2. CASE j \in DOMAIN commands BY <3>1, <3>2, <1>c, <1>i DEF CommandsInOrder
    <3>3. CASE j = last BY <3>1, <3>3, <1>c, <1>e, <1>g
    <3> QED BY <3>2, <3>3, <1>c
  <2>2. ASSUME NEW i \in DOMAIN commands' PROVE commands'[i].frame > memory'[commands'[i].buf]
    <3>1. CASE i \in DOMAIN commands BY <3>1, <1>c, <1>k, <1>i DEF CommandsInOrder
    <3>2. CASE i = last BY <3>2, <1>c, <1>e, <1>g, <1>k, <1>n
    <3> QED BY <3>1, <3>2, <1>c
  <2>3. ASSUME NEW c \in Buffers, To(commands', c) = {} PROVE memory'[c] = newest'[c]
    <3>1. c # b /\ To(commands, c) = {} BY <2>3, <1>o
    <3> QED BY <3>1, <1>g, <1>k, <1>i DEF CommandsInOrder, Outstanding, To
  <2> QED BY <2>1, <2>2, <2>3 DEF CommandsInOrder, Outstanding, To
<1>5. Counted'
  <2>1. commands' # <<>> BY <1>c
  <2>2. copies \in Nat /\ frames \in Nat BY <1>i, Ranges
  <2> QED BY <2>1, <2>2, <1>c, <1>k, <1>m, <1>i DEF Counted, Drawn, n
<1>6. Made'
  <2>1. \A c \in Buffers : promised[c] <= newest[c] /\ promised[c] \in Nat BY <1>i, Ranges DEF Made
  <2>2. \A c \in Buffers : memory[c] > 0 => copies > 0 BY <1>i DEF Made
  <2> QED BY <2>1, <2>2, <1>g, <1>k, <1>m, <1>n DEF Made
<1>7. NewestSent'
  <2>1. ASSUME NEW i \in DOMAIN commands' PROVE commands'[i].frame <= newest'[commands'[i].buf]
    <3>1. CASE i \in DOMAIN commands
      <4>1. commands'[i] = commands[i] /\ commands[i].frame <= newest[commands[i].buf]
        BY <3>1, <1>c, <1>i DEF NewestSent
      <4> QED BY <4>1, <3>1, <1>g, <1>n
    <3>2. CASE i = last BY <3>2, <1>c, <1>e, <1>g, <1>n
    <3> QED BY <3>1, <3>2, <1>c
  <2>2. ASSUME NEW c \in Buffers, To(commands', c) # {}
        PROVE  \E i \in To(commands', c) : commands'[i].frame = newest'[c]
    <3>1. CASE c = b BY <3>1, <1>c, <1>e, <1>g, <1>o
    <3>2. CASE c # b
      <4>1. PICK i \in To(commands, c) : commands[i].frame = newest[c]
        BY <3>2, <2>2, <1>o, <1>i DEF NewestSent
      <4>2. i \in DOMAIN commands BY <4>1 DEF To
      <4> QED BY <4>1, <4>2, <3>2, <1>c, <1>g, <1>o
    <3> QED BY <3>1, <3>2
  <2> QED BY <2>1, <2>2 DEF NewestSent
<1>13. Overtaken'
  <2> SUFFICES ASSUME NEW s \in Buffers, NEW v, s = shown[1], v = vi[1], shown # <<>>, s # v, AllCopied,
                      frameIn[s] = shown[2], To(commands', s) = {}
               PROVE  newest'[s] < newest'[v]
    BY <1>a, <1>k DEF Overtaken
  <2>1. s # b /\ To(commands, s) = {} BY <1>o
  <2>2. v \in Buffers BY <1>i DEF Keys
  <2>3. newest[s] < newest[v] BY <2>1, <1>i DEF Overtaken
  <2> QED BY <2>1, <2>2, <2>3, <1>g, <1>n
<1>14. OnItsWay'
  <2>1. (NoneRefused' <=> NoneRefused) /\ Key' = Key BY <1>a, <1>k DEF NoneRefused, Key, FrameIn
  <2>2. vi[1] \in Buffers /\ To(commands', vi[1]) = {} => To(commands, vi[1]) = {} BY <1>o
  <2> QED BY <2>1, <2>2, <1>i, <1>k DEF OnItsWay
<1> QED BY <1>1, <1>u, <1>2, <1>5, <1>6, <1>7, <1>13, <1>14 DEF IInv, FrameInv

LEMMA WriteDirectlyIInv ==
  ASSUME IInv, NEW b \in Buffers, WriteDirectly(b)
  PROVE  IInv'
<1> USE DEF WriteDirectly, Geometry, Outstanding, gameVars, viVars, renderVars, drawnVars, showVars, runVars
<1>i. /\ PumpTypes /\ ViTypes /\ RenderTypes /\ DrawnTypes /\ ShowTypes /\ RunTypes
      /\ CommandsInOrder /\ NotedWhenMade /\ OnePresenter /\ Counted /\ Made /\ NewestSent
      /\ Reading /\ QuitSeen /\ Settled /\ LastKey /\ Keys /\ Overtaken
      /\ OnItsWay /\ Kept /\ HandedOlder
  BY TypeParts DEF IInv, FrameInv
<1> DEFINE n == frames + 1
<1>n. n \in Serials /\ n \in Nat /\ frames \in Nat /\ n > frames BY <1>i, Ranges DEF Serials
<1>k. /\ UNCHANGED <<mode, game, lastVi, shown, early, handed, vi, moved, promised, commands, drawing, copies,
                     frameIn, pending, reader, screen, closed, interrupted, done>>
      /\ vi[1] # b /\ To(commands, b) = {} /\ copies > 0
  BY DEF To
<1>m. /\ newest' = [newest EXCEPT ![b] = n] /\ newest \in [Buffers -> Serials] /\ frames' = n
      /\ memory' = [memory EXCEPT ![b] = n] /\ memory \in [Buffers -> Serials]
  BY <1>i DEF DrawnTypes
<1>g. /\ \A c \in Buffers : newest'[c] = IF c = b THEN n ELSE newest[c]
      /\ \A c \in Buffers : memory'[c] = IF c = b THEN n ELSE memory[c]
      /\ \A c \in Buffers : newest[c] < n /\ newest[c] \in Nat /\ memory[c] \in Nat /\ memory[c] <= newest[c]
      /\ \A c \in Buffers : promised[c] <= newest[c] /\ promised[c] \in Nat
  <2>1. \A c \in Buffers : newest'[c] = IF c = b THEN n ELSE newest[c] BY <1>m
  <2>2. \A c \in Buffers : memory'[c] = IF c = b THEN n ELSE memory[c] BY <1>m
  <2>3. \A c \in Buffers : newest[c] <= frames /\ memory[c] <= newest[c] /\ promised[c] <= newest[c] BY <1>i DEF Made
  <2>4. \A c \in Buffers : newest[c] \in Nat /\ memory[c] \in Nat /\ promised[c] \in Nat BY <1>i, Ranges
  <2> QED BY <2>1, <2>2, <2>3, <2>4, <1>n
<1> HIDE DEF WriteDirectly, n
<1>a. ~AllCopied'
  <2>1. copies \in Nat /\ Len(commands) \in Nat BY <1>i, Ranges
  <2> QED BY <2>1, <1>i, <1>k, <1>m, <1>n DEF AllCopied, Counted, Drawn, n
<1>1. TypeOK'
  <2>1. PumpTypes' BY <1>i, <1>k DEF PumpTypes
  <2>2. ViTypes' BY <1>i, <1>k DEF ViTypes
  <2>3. RenderTypes' BY <1>i, <1>k DEF RenderTypes
  <2>4. DrawnTypes' BY <1>m, <1>n DEF DrawnTypes
  <2>5. ShowTypes' BY <1>i, <1>k DEF ShowTypes
  <2>6. RunTypes' BY <1>i, <1>k DEF RunTypes
  <2> QED BY <2>1, <2>2, <2>3, <2>4, <2>5, <2>6, TypePartsNext
<1>u. /\ NotedWhenMade'
      /\ OnePresenter'
      /\ Reading'
      /\ QuitSeen'
      /\ Settled'
      /\ LastKey'
      /\ Keys'
  BY <1>i, <1>k DEF NotedWhenMade, OnePresenter, Inline, Idle, Reading, QuitSeen, Quitting,
    Settled, LastKey, Keys, Drawn
<1>2. CommandsInOrder'
  <2>1. ASSUME NEW i \in DOMAIN commands PROVE commands[i].frame > memory'[commands[i].buf]
    <3>1. commands[i].buf \in Buffers /\ commands[i].buf # b BY <1>i, <1>k, Ranges DEF To
    <3> QED BY <3>1, <1>g, <1>i DEF CommandsInOrder
  <2>2. ASSUME NEW c \in Buffers, Outstanding(c) = {} PROVE memory'[c] = newest'[c]
    BY <2>2, <1>g, <1>i DEF CommandsInOrder
  <2>3. \A c \in Buffers : Outstanding(c)' = Outstanding(c) BY <1>k DEF Outstanding
  <2> QED BY <2>1, <2>2, <2>3, <1>i, <1>k DEF CommandsInOrder
<1>5. Counted' BY <1>i, <1>k, <1>m, <1>n, Ranges DEF Counted, Drawn, n
<1>6. Made' BY <1>g, <1>k, <1>m, <1>n, <1>i DEF Made
<1>7. NewestSent'
  <2>1. ASSUME NEW i \in DOMAIN commands PROVE commands[i].frame <= newest'[commands[i].buf]
    <3>1. commands[i].buf \in Buffers /\ commands[i].buf # b BY <1>i, <1>k, Ranges DEF To
    <3> QED BY <3>1, <1>g, <1>i DEF NewestSent
  <2>2. ASSUME NEW c \in Buffers, To(commands, c) # {}
        PROVE  \E i \in To(commands, c) : commands[i].frame = newest'[c]
    BY <2>2, <1>g, <1>k, <1>i DEF NewestSent
  <2> QED BY <2>1, <2>2, <1>k DEF NewestSent
<1>13. Overtaken' BY <1>a DEF Overtaken
<1>14. OnItsWay'
  <2>1. NoneRefused' => NoneRefused /\ Key' = Key BY <1>a, <1>k DEF NoneRefused, Key, FrameIn
  <2>2. vi[1] \in Buffers => memory'[vi[1]] = memory[vi[1]] BY <1>g, <1>k
  <2> QED BY <2>1, <2>2, <1>i, <1>k DEF OnItsWay
<1>15. Kept'
  <2>1. Quitting' = Quitting BY <1>k DEF Quitting, Inline
  <2> QED BY <2>1, <1>g, <1>k, <1>i DEF Kept
<1>16. HandedOlder'
  <2>1. \A c \in Buffers : memory'[c] >= memory[c] /\ memory'[c] \in Nat /\ memory[c] \in Nat BY <1>g, <1>n
  <2>2. handed \in Nat BY <1>i, Ranges
  <2> QED BY <2>1, <2>2, <1>k, <1>i DEF HandedOlder
<1> QED BY <1>1, <1>u, <1>2, <1>5, <1>6, <1>7, <1>13, <1>14, <1>15, <1>16 DEF IInv, FrameInv

LEMMA PointViIInv ==
  ASSUME IInv, NEW b \in Buffers, NEW field \in 0..1, PointVi(b, field)
  PROVE  IInv'
<1> USE DEF PointVi, gameVars, viVars, renderVars, drawnVars, showVars, runVars
<1>i. /\ PumpTypes /\ ViTypes /\ RenderTypes /\ DrawnTypes /\ ShowTypes /\ RunTypes
      /\ CommandsInOrder /\ NotedWhenMade /\ OnePresenter /\ Counted /\ Made /\ NewestSent
      /\ Reading /\ QuitSeen /\ Settled /\ LastKey /\ Keys /\ Overtaken
      /\ OnItsWay /\ Kept /\ HandedOlder
  BY TypeParts DEF IInv, FrameInv
<1> DEFINE v == vi[1]
<1>k. /\ UNCHANGED <<mode, game, lastVi, shown, early, handed, commands, drawing, copies, frameIn, memory, newest,
                     frames, pending, reader, screen, closed, interrupted, done>>
      /\ game = "run" /\ ~moved /\ moved' /\ vi' # vi /\ vi' = <<b, field>> /\ vi'[1] = b
      /\ v \in Buffers /\ b # v => newest[b] > newest[v]
      /\ v \notin Buffers /\ b # v => newest[b] > 0
  OBVIOUS
<1>p. \A c \in Buffers : promised'[c] = IF b # v /\ c = b THEN newest[b] ELSE promised[c]
  BY <1>i DEF ViTypes
<1>v. moved' = TRUE /\ promised' \in [Buffers -> Serials] /\ vi' \in (Buffers \cup {NoBuffer}) \X (0..1)
  BY <1>i DEF ViTypes, DrawnTypes
<1>n. \A c \in Buffers : /\ newest[c] \in Nat /\ promised[c] \in Nat /\ memory[c] \in Nat /\ newest[c] <= frames
                         /\ promised[c] <= newest[c] /\ memory[c] <= newest[c]
  BY <1>i, Ranges DEF Made
<1> HIDE DEF PointVi, v
<1>1. TypeOK'
  <2>1. PumpTypes' BY <1>i, <1>k DEF PumpTypes
  <2>2. ViTypes' BY <1>v DEF ViTypes
  <2>3. RenderTypes' BY <1>i, <1>k DEF RenderTypes
  <2>4. DrawnTypes' BY <1>i, <1>k DEF DrawnTypes
  <2>5. ShowTypes' BY <1>i, <1>k DEF ShowTypes
  <2>6. RunTypes' BY <1>i, <1>k DEF RunTypes
  <2> QED BY <2>1, <2>2, <2>3, <2>4, <2>5, <2>6, TypePartsNext
<1>u. /\ CommandsInOrder'
      /\ NotedWhenMade'
      /\ OnePresenter'
      /\ Counted'
      /\ NewestSent'
      /\ Reading'
      /\ QuitSeen'
  BY <1>i, <1>k DEF CommandsInOrder, Outstanding, NotedWhenMade, OnePresenter, Inline, Idle,
    Counted, Drawn, NewestSent, To, Reading, QuitSeen, Quitting
<1>6. Made' BY <1>i, <1>k, <1>n, <1>p DEF Made
<1>10. Settled'
  <2>1. Quitting' = Quitting BY <1>k DEF Quitting, Inline
  <2> QED BY <2>1, <1>i, <1>k DEF Settled
<1>11. LastKey' BY <1>i, <1>k DEF LastKey
<1>12. Keys'
  <2>1. promised'[b] > 0 BY <1>i, <1>k, <1>n, <1>p DEF Keys, v
  <2> QED BY <2>1, <1>i, <1>k DEF Keys, Drawn
<1>13. Overtaken'
  <2> SUFFICES ASSUME NEW s \in Buffers, s = shown[1], shown # <<>>, s # b, AllCopied,
                      frameIn[s] = shown[2], To(commands, s) = {}
               PROVE  newest[s] < newest[b]
    BY <1>k DEF Overtaken, AllCopied
  <2>1. v \in Buffers BY <1>i DEF Keys, v
  <2>2. s # v => newest[s] < newest[v] BY <1>i DEF Overtaken, v
  <2> QED BY <2>1, <2>2, <1>k, <1>n
<1>14. OnItsWay'
  <2> SUFFICES ASSUME mode # "headless", ~interrupted, NoneRefused, Key' = shown, To(commands, b) = {}, b # v
               PROVE  FALSE
    BY <1>i, <1>k DEF OnItsWay, NoneRefused, AllCopied, Key, FrameIn, v
  <2>1. shown # <<>> /\ shown[1] = b /\ shown[2] = frameIn[b]
    <3>1. Key' = <<b, frameIn[b]>> BY <1>k DEF Key, FrameIn
    <3> QED BY <3>1, <1>i, Pairs DEF PumpTypes
  <2>2. v \in Buffers BY <2>1, <1>i DEF Keys, v
  <2>3. CASE mode \in {"threaded", "inline"} BY <2>1, <2>3, <1>i, <1>k DEF LastKey, v
  <2>4. CASE mode = "capped"
    <3>1. AllCopied BY <2>4 DEF NoneRefused
    <3>2. newest[b] < newest[v] BY <2>1, <3>1, <1>i DEF Overtaken, v
    <3> QED BY <3>2, <2>2, <1>k, <1>n
  <2> QED BY <2>3, <2>4, <1>i DEF PumpTypes, Modes
<1>15. Kept'
  <2>1. Quitting' = Quitting BY <1>k DEF Quitting, Inline
  <2> QED BY <2>1, <1>i, <1>k DEF Kept, Settled
<1>16. HandedOlder'
  <2> SUFFICES ASSUME NEW s \in Buffers, s = shown[1], shown # <<>>, s # b
               PROVE  promised'[b] > handed
    BY <1>i, <1>k DEF HandedOlder
  <2>1. v \in Buffers /\ handed \in Nat BY <1>i, Ranges DEF Keys, v
  <2>2. memory[s] >= handed /\ (s # v => promised[v] > handed) BY <1>i DEF HandedOlder, v
  <2>3. CASE b = v BY <2>1, <2>2, <2>3, <1>p
  <2>4. CASE b # v BY <2>1, <2>2, <2>4, <1>k, <1>n, <1>p
  <2> QED BY <2>3, <2>4
<1> QED BY <1>1, <1>u, <1>6, <1>10, <1>11, <1>12, <1>13, <1>14, <1>15, <1>16 DEF IInv, FrameInv

LEMMA BeginCopyIInv ==
  ASSUME IInv, BeginCopy
  PROVE  IInv'
<1> USE DEF BeginCopy, gameVars, viVars, renderVars, drawnVars, showVars, runVars
<1>i. /\ PumpTypes /\ ViTypes /\ RenderTypes /\ DrawnTypes /\ ShowTypes /\ RunTypes
      /\ CommandsInOrder /\ NotedWhenMade /\ OnePresenter /\ Counted /\ Made /\ NewestSent
      /\ Reading /\ QuitSeen /\ Settled /\ LastKey /\ Keys /\ Overtaken
      /\ OnItsWay /\ Kept /\ HandedOlder
  BY TypeParts DEF IInv, FrameInv
<1>a. /\ AllCopied' <=> AllCopied
      /\ copies' - 1 = copies /\ copies' \in Serials /\ copies \in Nat
      /\ commands # <<>> /\ drawing = FALSE /\ drawing' = TRUE
  <2>1. /\ copies \in Nat /\ Len(commands) \in Nat /\ frames \in Nat /\ frames <= MaxFrames
        /\ commands \in Seq(Copies)
    BY <1>i, Ranges
  <2>2. Len(commands) > 0 BY <2>1
  <2>3. copies + Len(commands) <= frames BY <1>i DEF Counted, Drawn
  <2>4. copies' - 1 = copies /\ copies' \in Nat /\ copies' <= MaxFrames BY <2>1, <2>2, <2>3
  <2>5. commands' = commands /\ frames' = frames /\ drawing = FALSE /\ drawing' = TRUE
    BY <1>i DEF RenderTypes
  <2>6. copies' \in Serials BY <2>4 DEF Serials
  <2>7. AllCopied' <=> AllCopied
    <3> DEFINE n == Len(commands)
    <3>1. n \in Nat /\ Len(commands') = n BY <2>1, <2>5
    <3> HIDE DEF n
    <3>2. AllCopied <=> frames = copies + n - 0 BY <2>5 DEF AllCopied, n
    <3>3. AllCopied' <=> frames = copies' + n - 1 BY <2>5, <3>1 DEF AllCopied
    <3> QED BY <2>1, <2>4, <3>1, <3>2, <3>3
  <2> QED BY <2>1, <2>2, <2>4, <2>5, <2>6, <2>7
<1>1. TypeOK'
  <2>1. PumpTypes' BY <1>i DEF PumpTypes
  <2>2. ViTypes' BY <1>i DEF ViTypes
  <2>3. RenderTypes' BY <1>i, <1>a DEF RenderTypes
  <2>4. DrawnTypes' BY <1>i DEF DrawnTypes
  <2>5. ShowTypes' BY <1>i DEF ShowTypes
  <2>6. RunTypes' BY <1>i DEF RunTypes
  <2> QED BY <2>1, <2>2, <2>3, <2>4, <2>5, <2>6, TypePartsNext
<1>u. /\ CommandsInOrder'
      /\ OnePresenter'
      /\ NewestSent'
      /\ Reading'
      /\ QuitSeen'
      /\ Settled'
      /\ LastKey'
      /\ Kept'
      /\ HandedOlder'
  BY <1>i DEF CommandsInOrder, Outstanding, OnePresenter, Inline, Idle, NewestSent, To, Reading,
    QuitSeen, Quitting, Settled, LastKey, Kept, HandedOlder
<1>3. NotedWhenMade' BY <1>i, <1>a, Ranges DEF NotedWhenMade
<1>5. Counted' BY <1>i, <1>a, Ranges DEF Counted, Drawn
<1>6. Made' BY <1>i, <1>a, Ranges DEF Made
<1>12. Keys' BY <1>i, <1>a, Ranges DEF Keys, Drawn
<1>13. Overtaken' BY <1>i, <1>a DEF Overtaken, To
<1>14. OnItsWay'
  <2>1. (NoneRefused' <=> NoneRefused) /\ Key' = Key BY <1>a DEF NoneRefused, Key, FrameIn
  <2> QED BY <2>1, <1>i DEF OnItsWay
<1> QED BY <1>1, <1>u, <1>3, <1>5, <1>6, <1>12, <1>13, <1>14 DEF IInv, FrameInv

LEMMA EndCopyIInv ==
  ASSUME IInv, EndCopy
  PROVE  IInv'
<1> USE DEF EndCopy, Noted, gameVars, viVars, renderVars, drawnVars, showVars, runVars
<1>i. /\ PumpTypes /\ ViTypes /\ RenderTypes /\ DrawnTypes /\ ShowTypes /\ RunTypes
      /\ CommandsInOrder /\ NotedWhenMade /\ OnePresenter /\ Counted /\ Made /\ NewestSent
      /\ Reading /\ QuitSeen /\ Settled /\ LastKey /\ Keys /\ Overtaken
      /\ OnItsWay /\ Kept /\ HandedOlder
  BY TypeParts DEF IInv, FrameInv
<1> DEFINE h == Head(commands)
           x == h.buf
<1>k. /\ UNCHANGED <<mode, game, lastVi, shown, early, handed, vi, moved, promised, copies, newest, frames,
                     pending, reader, screen, closed, interrupted, done>>
      /\ drawing = TRUE /\ drawing' = FALSE /\ commands' = Tail(commands)
  BY <1>i DEF RenderTypes
<1>c. /\ commands' \in Seq(Copies) /\ Len(commands') = Len(commands) - 1 /\ Len(commands) \in Nat
      /\ h = commands[1] /\ 1 \in DOMAIN commands /\ h \in Copies
      /\ \A i \in DOMAIN commands' : i \in Nat /\ i + 1 \in DOMAIN commands /\ commands'[i] = commands[i + 1]
      /\ \A i \in DOMAIN commands : i \in Nat /\ (i # 1 => i - 1 \in DOMAIN commands' /\ i > 1)
  <2>1. commands \in Seq(Copies) /\ commands # <<>> BY <1>i, Ranges DEF Counted
  <2> QED BY <2>1, Taken, <1>k
<1>m. /\ memory' = [memory EXCEPT ![x] = h.frame] /\ memory \in [Buffers -> Serials]
      /\ frameIn' = [frameIn EXCEPT ![x] = copies] /\ frameIn \in [Buffers -> Serials]
      /\ x \in Buffers /\ h.frame \in Serials /\ copies \in Serials
  BY <1>i, <1>c DEF DrawnTypes, RenderTypes, Copies
<1>g. /\ \A c \in Buffers : memory'[c] = IF c = x THEN h.frame ELSE memory[c]
      /\ \A c \in Buffers : frameIn'[c] = IF c = x THEN copies ELSE frameIn[c]
      /\ h.frame \in Nat /\ h.frame > memory[x] /\ h.frame <= newest[x] /\ copies \in Nat /\ copies > 0
      /\ \A c \in Buffers : frameIn[c] \in Nat /\ frameIn[c] <= copies - 1 /\ memory[c] \in Nat /\ newest[c] \in Nat
  <2>1. \A c \in Buffers : memory'[c] = IF c = x THEN h.frame ELSE memory[c] BY <1>m
  <2>2. \A c \in Buffers : frameIn'[c] = IF c = x THEN copies ELSE frameIn[c] BY <1>m
  <2>3. h.frame > memory[x] /\ h.frame <= newest[x] BY <1>i, <1>c DEF CommandsInOrder, NewestSent
  <2>4. copies > 0 BY <1>i, <1>k DEF Counted
  <2>5. /\ h.frame \in Nat /\ copies \in Nat
        /\ \A c \in Buffers : frameIn[c] \in Nat /\ memory[c] \in Nat /\ newest[c] \in Nat
    BY <1>i, <1>c, Ranges
  <2>6. \A c \in Buffers : frameIn[c] <= copies - 1 BY <1>i, <1>k DEF NotedWhenMade
  <2> QED BY <2>1, <2>2, <2>3, <2>4, <2>5, <2>6
<1> HIDE DEF EndCopy, h, Noted
<1>o. \A c \in Buffers : /\ \A i \in To(commands', c) : i + 1 \in To(commands, c) /\ i \in DOMAIN commands'
                         /\ \A i \in To(commands, c) : i # 1 => i - 1 \in To(commands', c)
                         /\ 1 \in To(commands, c) <=> c = x
  <2>1. \A i \in DOMAIN commands : i # 1 => commands'[i - 1] = commands[i]
    <3> TAKE i \in DOMAIN commands
    <3> HAVE i # 1
    <3>1. i \in Nat /\ i - 1 \in DOMAIN commands' BY <1>c
    <3>2. commands'[i - 1] = commands[(i - 1) + 1] BY <3>1, <1>c
    <3> QED BY <3>1, <3>2
  <2> QED BY <2>1, <1>c DEF To
<1>s. \A c \in Buffers : To(commands', c) = {} /\ c # x => To(commands, c) = {} BY <1>o
<1>a. AllCopied' <=> AllCopied
  <2>1. copies \in Nat BY <1>g
  <2> QED BY <2>1, <1>c, <1>k DEF AllCopied
<1>z. \A c \in Buffers : memory'[c] >= memory[c] /\ memory'[c] \in Nat BY <1>g
<1>1. TypeOK'
  <2>1. PumpTypes' BY <1>i, <1>k DEF PumpTypes
  <2>2. ViTypes' BY <1>i, <1>k DEF ViTypes
  <2>3. RenderTypes'
    <3>1. frameIn' \in [Buffers -> Serials] BY <1>m
    <3> QED BY <3>1, <1>m, <1>c, <1>k DEF RenderTypes, Copies
  <2>4. DrawnTypes'
    <3>1. memory' \in [Buffers -> Serials] BY <1>m
    <3> QED BY <3>1, <1>i, <1>k DEF DrawnTypes
  <2>5. ShowTypes' BY <1>i, <1>k DEF ShowTypes
  <2>6. RunTypes' BY <1>i, <1>k DEF RunTypes
  <2> QED BY <2>1, <2>2, <2>3, <2>4, <2>5, <2>6, TypePartsNext
<1>u. /\ OnePresenter'
      /\ Reading'
      /\ QuitSeen'
      /\ Settled'
      /\ LastKey'
  BY <1>i, <1>k DEF OnePresenter, Inline, Idle, Reading, QuitSeen, Quitting, Settled, LastKey
<1>2. CommandsInOrder'
  <2>1. ASSUME NEW i \in DOMAIN commands', NEW j \in DOMAIN commands', i < j
        PROVE  commands'[i].frame < commands'[j].frame
    <3>1. i + 1 < j + 1 /\ i + 1 \in DOMAIN commands /\ j + 1 \in DOMAIN commands BY <1>c, <2>1
    <3>2. commands[i + 1].frame < commands[j + 1].frame BY <3>1, <1>i DEF CommandsInOrder
    <3> QED BY <3>2, <1>c
  <2>2. ASSUME NEW i \in DOMAIN commands' PROVE commands'[i].frame > memory'[commands'[i].buf]
    <3>1. i + 1 \in DOMAIN commands /\ commands'[i] = commands[i + 1] /\ 1 < i + 1 /\ i \in Nat
      <4>1. i \in Nat /\ i >= 1 BY <1>c
      <4> QED BY <4>1, <1>c
    <3>2. h.frame < commands[i + 1].frame BY <3>1, <1>c, <1>i DEF CommandsInOrder
    <3>3. commands[i + 1].frame > memory[commands[i + 1].buf] BY <3>1, <1>i DEF CommandsInOrder
    <3>4. commands[i + 1].buf \in Buffers /\ commands[i + 1].frame \in Nat BY <3>1, <1>i, Ranges
    <3> QED BY <3>1, <3>2, <3>3, <3>4, <1>g
  <2>3. ASSUME NEW c \in Buffers, To(commands', c) = {} PROVE memory'[c] = newest'[c]
    <3>1. CASE c = x
      <4>1. PICK i \in To(commands, c) : commands[i].frame = newest[c]
        BY <3>1, <1>o, <1>i DEF NewestSent
      <4>2. i = 1 BY <4>1, <2>3, <1>o
      <4> QED BY <4>1, <4>2, <3>1, <1>c, <1>g, <1>k
    <3>2. CASE c # x
      <4>1. To(commands, c) = {} BY <3>2, <2>3, <1>s
      <4>2. memory[c] = newest[c] BY <4>1, <1>i DEF CommandsInOrder, Outstanding, To
      <4> QED BY <4>2, <3>2, <1>g, <1>k
    <3> QED BY <3>1, <3>2
  <2> QED BY <2>1, <2>2, <2>3 DEF CommandsInOrder, Outstanding, To
<1>3. NotedWhenMade'
  <2>1. \A b \in Buffers : frameIn'[b] <= copies BY <1>g
  <2>2. ASSUME NEW b \in Buffers, NEW c \in Buffers, b # c, frameIn'[b] # 0 PROVE frameIn'[b] # frameIn'[c]
    BY <2>2, <1>g, <1>i DEF NotedWhenMade
  <2> QED BY <2>1, <2>2, <1>k, <1>g DEF NotedWhenMade
<1>5. Counted'
  <2>1. frames \in Nat BY <1>i, Ranges
  <2> QED BY <2>1, <1>c, <1>g, <1>k, <1>i DEF Counted, Drawn
<1>6. Made'
  <2>1. \A c \in Buffers : promised[c] <= newest[c] /\ newest[c] <= frames /\ memory[c] <= newest[c] BY <1>i DEF Made
  <2> QED BY <2>1, <1>g, <1>k DEF Made
<1>7. NewestSent'
  <2>1. ASSUME NEW i \in DOMAIN commands' PROVE commands'[i].frame <= newest'[commands'[i].buf]
    BY <1>c, <1>k, <1>i DEF NewestSent
  <2>2. ASSUME NEW c \in Buffers, To(commands', c) # {}
        PROVE  \E i \in To(commands', c) : commands'[i].frame = newest'[c]
    <3>1. PICK j \in To(commands', c) : TRUE BY <2>2
    <3>2. j + 1 \in To(commands, c) /\ j \in Nat /\ j \in DOMAIN commands' /\ j >= 1 BY <3>1, <1>o, <1>c
    <3>3. PICK i \in To(commands, c) : commands[i].frame = newest[c] BY <3>2, <1>i DEF NewestSent
    <3>4. i # 1
      <4> SUFFICES ASSUME i = 1 PROVE FALSE OBVIOUS
      <4>1. commands[1].frame < commands[j + 1].frame
        BY <3>2, <1>c, <1>i, SMTT(30) DEF CommandsInOrder
      <4>2. commands[j + 1].frame <= newest[c] BY <3>2, <1>c, <1>i DEF NewestSent, To
      <4>3. commands[j + 1].frame \in Nat BY <3>2, <1>c, <1>i, Ranges
      <4> QED BY <4>1, <4>2, <4>3, <3>3, <1>g
    <3>5. i - 1 \in To(commands', c) /\ i \in Nat BY <3>3, <3>4, <1>o, <1>c DEF To
    <3>6. commands'[i - 1] = commands[(i - 1) + 1] /\ (i - 1) + 1 = i BY <3>5, <1>o, <1>c
    <3>7. commands'[i - 1].frame = newest'[c] BY <3>3, <3>6, <1>k
    <3> QED BY <3>5, <3>7
  <2> QED BY <2>1, <2>2 DEF NewestSent
<1>12. Keys' BY <1>i, <1>k, <1>g, Ranges DEF Keys, Drawn
<1>13. Overtaken'
  <2> SUFFICES ASSUME NEW s \in Buffers, NEW v, s = shown[1], v = vi[1], shown # <<>>, s # v, AllCopied,
                      frameIn'[s] = shown[2], To(commands', s) = {}
               PROVE  newest[s] < newest[v]
    BY <1>a, <1>k DEF Overtaken
  <2>1. shown[2] <= copies - 1 /\ shown[2] \in Nat BY <1>i, <1>k, Ranges DEF Keys, Drawn
  <2>2. s # x BY <2>1, <1>g
  <2>3. frameIn[s] = shown[2] /\ To(commands, s) = {} BY <2>2, <1>g, <1>s
  <2> QED BY <2>3, <1>i DEF Overtaken
<1>14. OnItsWay'
  <2> SUFFICES ASSUME NEW v \in Buffers, v = vi[1], mode # "headless", ~interrupted, NoneRefused,
                      Key' = shown, To(commands', v) = {}
               PROVE  To(commands, v) = {} /\ Key = shown /\ memory'[v] = memory[v]
    <3>1. NoneRefused' <=> NoneRefused BY <1>a, <1>k DEF NoneRefused
    <3> QED BY <3>1, <1>i, <1>k DEF OnItsWay
  <2>1. Key' = <<v, frameIn'[v]>> /\ Key = <<v, frameIn[v]>> BY <1>k DEF Key, FrameIn
  <2>2. shown # <<>> /\ shown[2] = frameIn'[v] BY <2>1, <1>i, Pairs DEF PumpTypes
  <2>3. shown[2] <= copies - 1 /\ shown[2] \in Nat BY <2>2, <1>i, <1>k, Ranges DEF Keys, Drawn
  <2>4. v # x BY <2>2, <2>3, <1>g
  <2> QED BY <2>1, <2>4, <1>g, <1>s
<1>15. Kept'
  <2>1. Quitting' = Quitting BY <1>k DEF Quitting, Inline
  <2>2. \A c \in Buffers : memory[c] \in Nat /\ promised[c] \in Nat BY <1>i, Ranges
  <2> QED BY <2>1, <2>2, <1>z, <1>k, <1>i DEF Kept
<1>16. HandedOlder'
  <2>1. handed \in Nat BY <1>i, Ranges
  <2>2. \A c \in Buffers : frameIn'[c] # frameIn[c] => memory'[c] > memory[c] BY <1>g
  <2> QED BY <2>1, <2>2, <1>z, <1>g, <1>k, <1>i DEF HandedOlder
<1> QED BY <1>1, <1>u, <1>2, <1>3, <1>5, <1>6, <1>7, <1>12, <1>13, <1>14, <1>15, <1>16
  DEF IInv, FrameInv

LEMMA RetraceIInv ==
  ASSUME IInv, Retrace
  PROVE  IInv'
<1> USE DEF Retrace, PollEvents, Elapsed, Inline, gameVars, viVars, renderVars, drawnVars, showVars, runVars
<1>i. /\ PumpTypes /\ ViTypes /\ RenderTypes /\ DrawnTypes /\ ShowTypes /\ RunTypes
      /\ CommandsInOrder /\ NotedWhenMade /\ OnePresenter /\ Counted /\ Made /\ NewestSent
      /\ Reading /\ QuitSeen /\ Settled /\ LastKey /\ Keys /\ Overtaken
      /\ OnItsWay /\ Kept /\ HandedOlder
  BY TypeParts DEF IInv, FrameInv
<1>1. TypeOK'
  <2>1. PumpTypes' BY <1>i DEF PumpTypes, Modes, Serials
  <2>2. ViTypes' BY <1>i DEF ViTypes, Serials
  <2>3. RenderTypes' BY <1>i DEF RenderTypes
  <2>4. DrawnTypes' BY <1>i DEF DrawnTypes
  <2>5. ShowTypes' BY <1>i DEF ShowTypes
  <2>6. RunTypes' BY <1>i DEF RunTypes
  <2> QED BY <2>1, <2>2, <2>3, <2>4, <2>5, <2>6, TypePartsNext
<1>u. /\ CommandsInOrder'
      /\ NotedWhenMade'
      /\ Counted'
      /\ Made'
      /\ NewestSent'
      /\ Reading'
      /\ Keys'
      /\ Overtaken'
      /\ HandedOlder'
  BY <1>i DEF CommandsInOrder, Outstanding, NotedWhenMade, Counted, Drawn, Made, NewestSent, To,
    Reading, Idle, Keys, Overtaken, AllCopied, HandedOlder
<1>4. OnePresenter' BY <1>i DEF OnePresenter, Idle
<1>9. QuitSeen' BY <1>i DEF QuitSeen, Quitting
<1>10. Settled' BY <1>i DEF Settled, Quitting
<1>11. LastKey' BY <1>i DEF LastKey
<1>14. OnItsWay' BY <1>i DEF OnItsWay, NoneRefused, AllCopied, Key, FrameIn, To
<1>15. Kept' BY <1>i DEF Kept, Quitting
<1> QED BY <1>1, <1>u, <1>4, <1>9, <1>10, <1>11, <1>14, <1>15 DEF IInv, FrameInv

LEMMA DrainIInv ==
  ASSUME IInv, Drain
  PROVE  IInv'
<1> USE DEF Drain, Drained, gameVars, viVars, renderVars, drawnVars, showVars, runVars
<1>i. /\ PumpTypes /\ ViTypes /\ RenderTypes /\ DrawnTypes /\ ShowTypes /\ RunTypes
      /\ CommandsInOrder /\ NotedWhenMade /\ OnePresenter /\ Counted /\ Made /\ NewestSent
      /\ Reading /\ QuitSeen /\ Settled /\ LastKey /\ Keys /\ Overtaken
      /\ OnItsWay /\ Kept /\ HandedOlder
  BY TypeParts DEF IInv, FrameInv
<1>1. TypeOK'
  <2>1. PumpTypes' BY <1>i DEF PumpTypes, ViTypes
  <2>2. ViTypes' BY <1>i DEF ViTypes
  <2>3. RenderTypes' BY <1>i DEF RenderTypes
  <2>4. DrawnTypes' BY <1>i DEF DrawnTypes
  <2>5. ShowTypes' BY <1>i DEF ShowTypes
  <2>6. RunTypes' BY <1>i DEF RunTypes
  <2> QED BY <2>1, <2>2, <2>3, <2>4, <2>5, <2>6, TypePartsNext
<1>u. /\ CommandsInOrder'
      /\ NotedWhenMade'
      /\ Counted'
      /\ Made'
      /\ NewestSent'
      /\ Reading'
      /\ Keys'
      /\ Overtaken'
      /\ OnItsWay'
      /\ HandedOlder'
  BY <1>i DEF CommandsInOrder, Outstanding, NotedWhenMade, Counted, Drawn, Made, NewestSent, To,
    Reading, Idle, Keys, Overtaken, AllCopied, OnItsWay, NoneRefused, Key, FrameIn, HandedOlder
<1>4. OnePresenter' BY <1>i DEF OnePresenter, Inline, Idle
<1>9. QuitSeen' BY <1>i DEF QuitSeen, Quitting, Inline
<1>10. Settled' BY <1>i DEF Settled, Quitting, Inline
<1>11. LastKey' BY <1>i DEF LastKey
<1>15. Kept'
  <2> SUFFICES ASSUME NEW v \in Buffers, v = vi[1] PROVE memory[v] >= promised[v]
    BY DEF Kept
  <2>1. To(commands, v) = {} BY DEF To
  <2>2. memory[v] = newest[v] BY <2>1, <1>i DEF CommandsInOrder, Outstanding, To
  <2>3. promised[v] <= newest[v] /\ promised[v] \in Nat /\ newest[v] \in Nat BY <1>i, Ranges DEF Made
  <2> QED BY <2>2, <2>3
<1> QED BY <1>1, <1>u, <1>4, <1>9, <1>10, <1>11, <1>15 DEF IInv, FrameInv

LEMMA NothingNewIInv ==
  ASSUME IInv, NothingNew
  PROVE  IInv'
<1> USE DEF NothingNew, gameVars, viVars, renderVars, drawnVars, showVars, runVars
<1>i. /\ PumpTypes /\ ViTypes /\ RenderTypes /\ DrawnTypes /\ ShowTypes /\ RunTypes
      /\ CommandsInOrder /\ NotedWhenMade /\ OnePresenter /\ Counted /\ Made /\ NewestSent
      /\ Reading /\ QuitSeen /\ Settled /\ LastKey /\ Keys /\ Overtaken
      /\ OnItsWay /\ Kept /\ HandedOlder
  BY TypeParts DEF IInv, FrameInv
<1>1. TypeOK'
  <2>1. PumpTypes' BY <1>i DEF PumpTypes, Modes, Serials
  <2>2. ViTypes' BY <1>i DEF ViTypes
  <2>3. RenderTypes' BY <1>i DEF RenderTypes
  <2>4. DrawnTypes' BY <1>i DEF DrawnTypes
  <2>5. ShowTypes' BY <1>i DEF ShowTypes
  <2>6. RunTypes' BY <1>i DEF RunTypes
  <2> QED BY <2>1, <2>2, <2>3, <2>4, <2>5, <2>6, TypePartsNext
<1>u. /\ CommandsInOrder'
      /\ NotedWhenMade'
      /\ Counted'
      /\ Made'
      /\ NewestSent'
      /\ Reading'
      /\ Keys'
      /\ Overtaken'
      /\ OnItsWay'
      /\ Kept'
      /\ HandedOlder'
  BY <1>i DEF CommandsInOrder, Outstanding, NotedWhenMade, Counted, Drawn, Made, NewestSent, To,
    Reading, Idle, Keys, Overtaken, AllCopied, OnItsWay, NoneRefused, Key, FrameIn, Kept,
    Quitting, Inline, HandedOlder
<1>4. OnePresenter' BY <1>i DEF OnePresenter, Inline, Idle
<1>9. QuitSeen' BY <1>i DEF QuitSeen, Quitting, Inline
<1>10. Settled' BY <1>i DEF Settled, Quitting, Inline
<1>11. LastKey'
  <2>1. shown # <<>> /\ shown[1] = vi[1] BY <1>i, SameKey
  <2> QED BY <2>1 DEF LastKey
<1> QED BY <1>1, <1>u, <1>4, <1>9, <1>10, <1>11 DEF IInv, FrameInv

LEMMA CountFrameIInv ==
  ASSUME IInv, CountFrame
  PROVE  IInv'
<1> USE DEF CountFrame, gameVars, viVars, renderVars, drawnVars, showVars, runVars
<1>i. /\ PumpTypes /\ ViTypes /\ RenderTypes /\ DrawnTypes /\ ShowTypes /\ RunTypes
      /\ CommandsInOrder /\ NotedWhenMade /\ OnePresenter /\ Counted /\ Made /\ NewestSent
      /\ Reading /\ QuitSeen /\ Settled /\ LastKey /\ Keys /\ Overtaken
      /\ OnItsWay /\ Kept /\ HandedOlder
  BY TypeParts DEF IInv, FrameInv
<1>k. /\ UNCHANGED <<mode, lastVi, vi, moved, promised, commands, drawing, copies, frameIn, memory, newest,
                     frames, early, pending, reader, screen, closed, interrupted, done>>
      /\ game = "decide" /\ vi = lastVi /\ ~moved /\ ~Quitting
      /\ shown' = Key /\ handed' = PictureAt(vi[1])
      /\ game' = "run" /\ mode = "headless"
  BY <1>i DEF Settled, QuitSeen
<1>s. /\ Key \in (Buffers \cup {NoBuffer}) \X Serials /\ Key # <<>>
      /\ Key[1] = vi[1] /\ Key[2] = FrameIn(vi[1]) /\ FrameIn(vi[1]) <= copies - Drawn
      /\ PictureAt(vi[1]) \in Serials
  BY <1>i, Scanning
<1>n. \A c \in Buffers : memory[c] \in Nat BY <1>i, Ranges
<1> HIDE DEF CountFrame
<1>1. TypeOK'
  <2>1. PumpTypes' BY <1>i, <1>k, <1>s DEF PumpTypes
  <2>2. ViTypes' BY <1>i, <1>k DEF ViTypes
  <2>3. RenderTypes' BY <1>i, <1>k DEF RenderTypes
  <2>4. DrawnTypes' BY <1>i, <1>k DEF DrawnTypes
  <2>5. ShowTypes' BY <1>i, <1>k DEF ShowTypes
  <2>6. RunTypes' BY <1>i, <1>k DEF RunTypes
  <2> QED BY <2>1, <2>2, <2>3, <2>4, <2>5, <2>6, TypePartsNext
<1>u. /\ CommandsInOrder'
      /\ NotedWhenMade'
      /\ Counted'
      /\ Made'
      /\ NewestSent'
      /\ Reading'
      /\ Kept'
  BY <1>i, <1>k DEF CommandsInOrder, Outstanding, NotedWhenMade, Counted, Drawn, Made, NewestSent,
    To, Reading, Idle, Kept, Quitting, Inline
<1>4. OnePresenter' BY <1>i, <1>k DEF OnePresenter, Inline, Idle
<1>9. QuitSeen' BY <1>i, <1>k DEF QuitSeen, Quitting, Inline
<1>10. Settled' BY <1>i, <1>k DEF Settled, Quitting, Inline
<1>11. LastKey' BY <1>k, <1>s DEF LastKey
<1>12. Keys' BY <1>i, <1>k, <1>s DEF Keys, Drawn
<1>13. Overtaken' BY <1>k, <1>s DEF Overtaken
<1>14. OnItsWay' BY <1>i, <1>k DEF OnItsWay, NoneRefused, AllCopied, Key, FrameIn, To
<1>16. HandedOlder' BY <1>k, <1>s, <1>n DEF HandedOlder, FrameIn, PictureAt
<1> QED BY <1>1, <1>u, <1>4, <1>9, <1>10, <1>11, <1>12, <1>13, <1>14, <1>16 DEF IInv, FrameInv

LEMMA HandOverIInv ==
  ASSUME IInv, HandOver
  PROVE  IInv'
<1> USE DEF HandOver, gameVars, viVars, renderVars, drawnVars, showVars, runVars
<1>i. /\ PumpTypes /\ ViTypes /\ RenderTypes /\ DrawnTypes /\ ShowTypes /\ RunTypes
      /\ CommandsInOrder /\ NotedWhenMade /\ OnePresenter /\ Counted /\ Made /\ NewestSent
      /\ Reading /\ QuitSeen /\ Settled /\ LastKey /\ Keys /\ Overtaken
      /\ OnItsWay /\ Kept /\ HandedOlder
  BY TypeParts DEF IInv, FrameInv
<1>k. /\ UNCHANGED <<mode, lastVi, vi, moved, promised, commands, drawing, copies, frameIn, memory, newest,
                     frames, early, reader, screen, closed, interrupted, done>>
      /\ game = "decide" /\ vi = lastVi /\ ~moved /\ ~Quitting
      /\ shown' = Key /\ handed' = PictureAt(vi[1])
      /\ game' = "run" /\ mode = "threaded" /\ pending' = TRUE
  BY <1>i DEF Settled, QuitSeen
<1>s. /\ Key \in (Buffers \cup {NoBuffer}) \X Serials /\ Key # <<>>
      /\ Key[1] = vi[1] /\ Key[2] = FrameIn(vi[1]) /\ FrameIn(vi[1]) <= copies - Drawn
      /\ PictureAt(vi[1]) \in Serials
  BY <1>i, Scanning
<1>n. \A c \in Buffers : memory[c] \in Nat BY <1>i, Ranges
<1> HIDE DEF HandOver
<1>1. TypeOK'
  <2>1. PumpTypes' BY <1>i, <1>k, <1>s DEF PumpTypes
  <2>2. ViTypes' BY <1>i, <1>k DEF ViTypes
  <2>3. RenderTypes' BY <1>i, <1>k DEF RenderTypes
  <2>4. DrawnTypes' BY <1>i, <1>k DEF DrawnTypes
  <2>5. ShowTypes' BY <1>i, <1>k DEF ShowTypes, Serials
  <2>6. RunTypes' BY <1>i, <1>k DEF RunTypes
  <2> QED BY <2>1, <2>2, <2>3, <2>4, <2>5, <2>6, TypePartsNext
<1>u. /\ CommandsInOrder'
      /\ NotedWhenMade'
      /\ Counted'
      /\ Made'
      /\ NewestSent'
      /\ Reading'
      /\ Kept'
  BY <1>i, <1>k DEF CommandsInOrder, Outstanding, NotedWhenMade, Counted, Drawn, Made, NewestSent,
    To, Reading, Idle, Kept, Quitting, Inline
<1>4. OnePresenter' BY <1>i, <1>k DEF OnePresenter, Inline, Idle
<1>9. QuitSeen' BY <1>i, <1>k DEF QuitSeen, Quitting, Inline
<1>10. Settled' BY <1>i, <1>k DEF Settled, Quitting, Inline
<1>11. LastKey' BY <1>k, <1>s DEF LastKey
<1>12. Keys' BY <1>i, <1>k, <1>s DEF Keys, Drawn
<1>13. Overtaken' BY <1>k, <1>s DEF Overtaken
<1>14. OnItsWay' BY <1>i, <1>k DEF OnItsWay, NoneRefused, AllCopied, Key, FrameIn, To
<1>16. HandedOlder' BY <1>k, <1>s, <1>n DEF HandedOlder, FrameIn, PictureAt
<1> QED BY <1>1, <1>u, <1>4, <1>9, <1>10, <1>11, <1>12, <1>13, <1>14, <1>16 DEF IInv, FrameInv

LEMMA PresentInlineIInv ==
  ASSUME IInv, PresentInline
  PROVE  IInv'
<1> USE DEF PresentInline, MayPresent, NextDue, Refused, Inline, Idle, gameVars, viVars, renderVars, drawnVars, showVars, runVars
<1>i. /\ PumpTypes /\ ViTypes /\ RenderTypes /\ DrawnTypes /\ ShowTypes /\ RunTypes
      /\ CommandsInOrder /\ NotedWhenMade /\ OnePresenter /\ Counted /\ Made /\ NewestSent
      /\ Reading /\ QuitSeen /\ Settled /\ LastKey /\ Keys /\ Overtaken
      /\ OnItsWay /\ Kept /\ HandedOlder
  BY TypeParts DEF IInv, FrameInv
<1>k. /\ UNCHANGED <<mode, lastVi, vi, moved, promised, commands, drawing, copies, frameIn, memory, newest,
                     frames, pending, screen, closed, interrupted, done>>
      /\ game = "decide" /\ vi = lastVi /\ ~moved /\ ~Quitting /\ Inline
      /\ early' \in -3..3
  BY <1>i DEF Settled, QuitSeen, PumpTypes
<1>p. \/ /\ shown' = Key /\ handed' = PictureAt(vi[1]) /\ game' = "present"
         /\ reader' = [at |-> "address", buf |-> NoBuffer, met |-> 0, whole |-> FALSE]
      \/ /\ shown' = shown /\ handed' = handed /\ game' = "run" /\ mode = "capped" /\ reader' = reader
  BY <1>i DEF PumpTypes, Modes
<1>s. /\ Key \in (Buffers \cup {NoBuffer}) \X Serials /\ Key # <<>>
      /\ Key[1] = vi[1] /\ Key[2] = FrameIn(vi[1]) /\ FrameIn(vi[1]) <= copies - Drawn
      /\ PictureAt(vi[1]) \in Serials
  BY <1>i, Scanning
<1>n. /\ \A c \in Buffers : memory[c] \in Nat
      /\ 0 \in Serials
  BY <1>i, Ranges DEF Serials
<1>e. OnePresenter' BY <1>i DEF OnePresenter
<1>q. /\ Reading' /\ QuitSeen' /\ Settled'
  BY <1>i DEF Reading, QuitSeen, Settled, Quitting
<1> HIDE DEF PresentInline, Inline, NextDue, MayPresent
<1>1. TypeOK'
  <2>1. PumpTypes' BY <1>i, <1>k, <1>p, <1>s DEF PumpTypes
  <2>2. ViTypes' BY <1>i, <1>k DEF ViTypes
  <2>3. RenderTypes' BY <1>i, <1>k DEF RenderTypes
  <2>4. DrawnTypes' BY <1>i, <1>k DEF DrawnTypes
  <2>5. ShowTypes'
    <3>1. CASE reader' = reader BY <3>1, <1>i, <1>k DEF ShowTypes
    <3>2. CASE reader' = [at |-> "address", buf |-> NoBuffer, met |-> 0, whole |-> FALSE]
      BY <3>2, <1>i, <1>k, <1>n DEF ShowTypes
    <3> QED BY <3>1, <3>2, <1>p
  <2>6. RunTypes' BY <1>i, <1>k DEF RunTypes
  <2> QED BY <2>1, <2>2, <2>3, <2>4, <2>5, <2>6, TypePartsNext
<1>u. /\ CommandsInOrder'
      /\ NotedWhenMade'
      /\ Counted'
      /\ Made'
      /\ NewestSent'
      /\ Kept'
  BY <1>i, <1>k DEF CommandsInOrder, Outstanding, NotedWhenMade, Counted, Drawn, Made, NewestSent,
    To, Kept, Quitting
<1>4. OnePresenter' BY <1>e
<1>8. Reading' BY <1>q
<1>9. QuitSeen' BY <1>q
<1>10. Settled' BY <1>q
<1>11. LastKey' BY <1>k, <1>p, <1>s DEF LastKey
<1>12. Keys' BY <1>i, <1>k, <1>p, <1>s DEF Keys, Drawn
<1>13. Overtaken' BY <1>i, <1>k, <1>p, <1>s DEF Overtaken, AllCopied
<1>14. OnItsWay' BY <1>i, <1>k, <1>p DEF OnItsWay, NoneRefused, AllCopied, Key, FrameIn
<1>16. HandedOlder'
  <2>1. CASE shown' = Key /\ handed' = PictureAt(vi[1])
    BY <2>1, <1>k, <1>s, <1>n DEF HandedOlder, FrameIn, PictureAt
  <2>2. CASE shown' = shown /\ handed' = handed BY <2>2, <1>i, <1>k DEF HandedOlder
  <2> QED BY <2>1, <2>2, <1>p
<1> QED BY <1>1, <1>u, <1>4, <1>8, <1>9, <1>10, <1>11, <1>12, <1>13, <1>14, <1>16 DEF IInv, FrameInv

LEMMA PresenterPollsIInv ==
  ASSUME IInv, PresenterPolls
  PROVE  IInv'
<1> USE DEF PresenterPolls, PollEvents, gameVars, viVars, renderVars, drawnVars, showVars, runVars
<1>i. /\ PumpTypes /\ ViTypes /\ RenderTypes /\ DrawnTypes /\ ShowTypes /\ RunTypes
      /\ CommandsInOrder /\ NotedWhenMade /\ OnePresenter /\ Counted /\ Made /\ NewestSent
      /\ Reading /\ QuitSeen /\ Settled /\ LastKey /\ Keys /\ Overtaken
      /\ OnItsWay /\ Kept /\ HandedOlder
  BY TypeParts DEF IInv, FrameInv
<1>1. TypeOK'
  <2>1. PumpTypes' BY <1>i DEF PumpTypes
  <2>2. ViTypes' BY <1>i DEF ViTypes
  <2>3. RenderTypes' BY <1>i DEF RenderTypes
  <2>4. DrawnTypes' BY <1>i DEF DrawnTypes
  <2>5. ShowTypes' BY <1>i DEF ShowTypes
  <2>6. RunTypes' BY <1>i DEF RunTypes
  <2> QED BY <2>1, <2>2, <2>3, <2>4, <2>5, <2>6, TypePartsNext
<1>u. /\ CommandsInOrder'
      /\ NotedWhenMade'
      /\ OnePresenter'
      /\ Counted'
      /\ Made'
      /\ NewestSent'
      /\ Reading'
      /\ Keys'
      /\ Overtaken'
      /\ HandedOlder'
  BY <1>i DEF CommandsInOrder, Outstanding, NotedWhenMade, OnePresenter, Inline, Idle, Counted,
    Drawn, Made, NewestSent, To, Reading, Keys, Overtaken, AllCopied, HandedOlder
<1>9. QuitSeen' BY <1>i DEF QuitSeen, Quitting, Inline
<1>10. Settled' BY <1>i DEF Settled, Quitting, Inline
<1>11. LastKey' BY <1>i DEF LastKey
<1>14. OnItsWay' BY <1>i DEF OnItsWay, NoneRefused, AllCopied, Key, FrameIn, To
<1>15. Kept' BY <1>i DEF Kept, Quitting, Inline
<1> QED BY <1>1, <1>u, <1>9, <1>10, <1>11, <1>14, <1>15 DEF IInv, FrameInv

LEMMA TakePendingIInv ==
  ASSUME IInv, TakePending
  PROVE  IInv'
<1> USE DEF TakePending, Idle, gameVars, viVars, renderVars, drawnVars, showVars, runVars
<1>i. /\ PumpTypes /\ ViTypes /\ RenderTypes /\ DrawnTypes /\ ShowTypes /\ RunTypes
      /\ CommandsInOrder /\ NotedWhenMade /\ OnePresenter /\ Counted /\ Made /\ NewestSent
      /\ Reading /\ QuitSeen /\ Settled /\ LastKey /\ Keys /\ Overtaken
      /\ OnItsWay /\ Kept /\ HandedOlder
  BY TypeParts DEF IInv, FrameInv
<1>1. TypeOK'
  <2>1. PumpTypes' BY <1>i DEF PumpTypes
  <2>2. ViTypes' BY <1>i DEF ViTypes
  <2>3. RenderTypes' BY <1>i DEF RenderTypes
  <2>4. DrawnTypes' BY <1>i DEF DrawnTypes
  <2>5. ShowTypes'
    <3>1. 0 \in Serials BY FrameAssumption DEF Serials
    <3> QED BY <3>1, <1>i DEF ShowTypes
  <2>6. RunTypes' BY <1>i DEF RunTypes
  <2> QED BY <2>1, <2>2, <2>3, <2>4, <2>5, <2>6, TypePartsNext
<1>u. /\ CommandsInOrder'
      /\ NotedWhenMade'
      /\ Counted'
      /\ Made'
      /\ NewestSent'
      /\ QuitSeen'
      /\ Settled'
      /\ LastKey'
      /\ Keys'
      /\ Overtaken'
      /\ Kept'
      /\ HandedOlder'
  BY <1>i DEF CommandsInOrder, Outstanding, NotedWhenMade, Counted, Drawn, Made, NewestSent, To,
    QuitSeen, Quitting, Inline, Settled, LastKey, Keys, Overtaken, AllCopied, Kept, HandedOlder
<1>4. OnePresenter' BY <1>i DEF OnePresenter, Inline
<1>8. Reading' BY <1>i DEF Reading
<1>14. OnItsWay' BY <1>i DEF OnItsWay, NoneRefused, AllCopied, Key, FrameIn, To
<1> QED BY <1>1, <1>u, <1>4, <1>8, <1>14 DEF IInv, FrameInv

LEMMA ReadAddressIInv ==
  ASSUME IInv, ReadAddress
  PROVE  IInv'
<1> USE DEF ReadAddress, Geometry, gameVars, viVars, renderVars, drawnVars, showVars, runVars
<1>i. /\ PumpTypes /\ ViTypes /\ RenderTypes /\ DrawnTypes /\ ShowTypes /\ RunTypes
      /\ CommandsInOrder /\ NotedWhenMade /\ OnePresenter /\ Counted /\ Made /\ NewestSent
      /\ Reading /\ QuitSeen /\ Settled /\ LastKey /\ Keys /\ Overtaken
      /\ OnItsWay /\ Kept /\ HandedOlder
  BY TypeParts DEF IInv, FrameInv
<1>1. TypeOK'
  <2>1. PumpTypes' BY <1>i DEF PumpTypes
  <2>2. ViTypes' BY <1>i DEF ViTypes
  <2>3. RenderTypes' BY <1>i DEF RenderTypes
  <2>4. DrawnTypes' BY <1>i DEF DrawnTypes
  <2>5. ShowTypes' BY <1>i DEF ShowTypes, Serials
  <2>6. RunTypes' BY <1>i DEF RunTypes
  <2> QED BY <2>1, <2>2, <2>3, <2>4, <2>5, <2>6, TypePartsNext
<1>u. /\ CommandsInOrder'
      /\ NotedWhenMade'
      /\ Counted'
      /\ Made'
      /\ NewestSent'
      /\ QuitSeen'
      /\ Settled'
      /\ LastKey'
      /\ Keys'
      /\ Overtaken'
      /\ Kept'
      /\ HandedOlder'
  BY <1>i DEF CommandsInOrder, Outstanding, NotedWhenMade, Counted, Drawn, Made, NewestSent, To,
    QuitSeen, Quitting, Inline, Settled, LastKey, Keys, Overtaken, AllCopied, Kept, HandedOlder
<1>4. OnePresenter' BY <1>i DEF OnePresenter, Inline, Idle
<1>8. Reading' BY <1>i DEF Reading, Idle
<1>14. OnItsWay' BY <1>i DEF OnItsWay, NoneRefused, AllCopied, Key, FrameIn, To
<1> QED BY <1>1, <1>u, <1>4, <1>8, <1>14 DEF IInv, FrameInv

LEMMA NothingToPresentIInv ==
  ASSUME IInv, NothingToPresent
  PROVE  IInv'
<1> USE DEF NothingToPresent, Presented, Idle, gameVars, viVars, renderVars, drawnVars, showVars, runVars
<1>i. /\ PumpTypes /\ ViTypes /\ RenderTypes /\ DrawnTypes /\ ShowTypes /\ RunTypes
      /\ CommandsInOrder /\ NotedWhenMade /\ OnePresenter /\ Counted /\ Made /\ NewestSent
      /\ Reading /\ QuitSeen /\ Settled /\ LastKey /\ Keys /\ Overtaken
      /\ OnItsWay /\ Kept /\ HandedOlder
  BY TypeParts DEF IInv, FrameInv
<1>1. TypeOK'
  <2>1. PumpTypes' BY <1>i DEF PumpTypes, Modes, Serials
  <2>2. ViTypes' BY <1>i DEF ViTypes
  <2>3. RenderTypes' BY <1>i DEF RenderTypes
  <2>4. DrawnTypes' BY <1>i DEF DrawnTypes
  <2>5. ShowTypes' BY <1>i DEF ShowTypes, Serials
  <2>6. RunTypes' BY <1>i DEF RunTypes
  <2> QED BY <2>1, <2>2, <2>3, <2>4, <2>5, <2>6, TypePartsNext
<1>u. /\ CommandsInOrder'
      /\ NotedWhenMade'
      /\ Counted'
      /\ Made'
      /\ NewestSent'
      /\ Keys'
      /\ Overtaken'
      /\ Kept'
      /\ HandedOlder'
  BY <1>i DEF CommandsInOrder, Outstanding, NotedWhenMade, Counted, Drawn, Made, NewestSent, To,
    Keys, Overtaken, AllCopied, Kept, Quitting, Inline, HandedOlder
<1>4. OnePresenter' BY <1>i DEF OnePresenter, Inline
<1>8. Reading' BY <1>i DEF Reading
<1>9. QuitSeen' BY <1>i DEF QuitSeen, Quitting, Inline
<1>10. Settled' BY <1>i DEF Settled, Quitting, Inline
<1>11. LastKey' BY <1>i DEF LastKey
<1>14. OnItsWay'
  <2> SUFFICES ASSUME NEW v \in Buffers, v = vi[1], ~Geometry, NoneRefused, Key = shown, To(commands, v) = {}
               PROVE  FALSE
    BY <1>i DEF OnItsWay, NoneRefused, AllCopied, Key, FrameIn
  <2>1. memory[v] = newest[v] BY <1>i DEF CommandsInOrder, Outstanding, To
  <2>2. promised[v] > 0 BY <1>i DEF Keys
  <2>3. promised[v] <= newest[v] /\ (memory[v] > 0 => copies > 0) BY <1>i DEF Made
  <2>4. memory[v] \in Nat /\ newest[v] \in Nat /\ promised[v] \in Nat BY <1>i, Ranges
  <2> QED BY <2>1, <2>2, <2>3, <2>4 DEF Geometry
<1> QED BY <1>1, <1>u, <1>4, <1>8, <1>9, <1>10, <1>11, <1>14 DEF IInv, FrameInv

LEMMA BeginReadIInv ==
  ASSUME IInv, BeginRead
  PROVE  IInv'
<1> USE DEF BeginRead, InCopy, gameVars, viVars, renderVars, drawnVars, showVars, runVars
<1>i. /\ PumpTypes /\ ViTypes /\ RenderTypes /\ DrawnTypes /\ ShowTypes /\ RunTypes
      /\ CommandsInOrder /\ NotedWhenMade /\ OnePresenter /\ Counted /\ Made /\ NewestSent
      /\ Reading /\ QuitSeen /\ Settled /\ LastKey /\ Keys /\ Overtaken
      /\ OnItsWay /\ Kept /\ HandedOlder
  BY TypeParts DEF IInv, FrameInv
<1>w. \A c \in Buffers : To(commands, c) = {} => ~InCopy(c)
  <2> SUFFICES ASSUME NEW c \in Buffers, InCopy(c) PROVE 1 \in To(commands, c)
    OBVIOUS
  <2>1. commands \in Seq(Copies) /\ commands # <<>> BY <1>i, Ranges DEF Counted
  <2>2. 1 \in DOMAIN commands /\ Head(commands) = commands[1] BY <2>1, Taken
  <2> QED BY <2>2 DEF To, InCopy
<1>1. TypeOK'
  <2>1. PumpTypes' BY <1>i DEF PumpTypes
  <2>2. ViTypes' BY <1>i DEF ViTypes
  <2>3. RenderTypes' BY <1>i DEF RenderTypes
  <2>4. DrawnTypes' BY <1>i DEF DrawnTypes
  <2>5. ShowTypes'
    <3>1. reader.buf \in Buffers BY <1>i DEF Reading
    <3>2. memory[reader.buf] \in Serials BY <3>1, <1>i DEF DrawnTypes
    <3>3. (~InCopy(reader.buf)) \in BOOLEAN OBVIOUS
    <3> HIDE DEF InCopy
    <3> QED BY <3>2, <3>3, <1>i DEF ShowTypes
  <2>6. RunTypes' BY <1>i DEF RunTypes
  <2> QED BY <2>1, <2>2, <2>3, <2>4, <2>5, <2>6, TypePartsNext
<1>u. /\ CommandsInOrder'
      /\ NotedWhenMade'
      /\ Counted'
      /\ Made'
      /\ NewestSent'
      /\ QuitSeen'
      /\ Settled'
      /\ LastKey'
      /\ Keys'
      /\ Overtaken'
      /\ Kept'
      /\ HandedOlder'
  BY <1>i DEF CommandsInOrder, Outstanding, NotedWhenMade, Counted, Drawn, Made, NewestSent, To,
    QuitSeen, Quitting, Inline, Settled, LastKey, Keys, Overtaken, AllCopied, Kept, HandedOlder
<1>4. OnePresenter' BY <1>i DEF OnePresenter, Inline, Idle
<1>8. Reading' BY <1>i DEF Reading, Idle
<1>14. OnItsWay'
  <2> SUFFICES ASSUME NEW v \in Buffers, v = vi[1], mode # "headless", ~interrupted, NoneRefused,
                      Key = shown, To(commands, v) = {}
               PROVE  pending \/ (reader'.at = "reading" /\ reader'.buf = v /\ reader'.met = memory[v] /\ reader'.whole)
    BY DEF OnItsWay, NoneRefused, AllCopied, Key, FrameIn
  <2>1. pending \/ reader.buf = v BY <1>i DEF OnItsWay
  <2>2. ~InCopy(v) BY <1>w
  <2>3. /\ reader'.at = "reading" /\ reader'.buf = reader.buf /\ reader'.met = memory[reader.buf]
        /\ reader'.whole = ~InCopy(reader.buf)
    <3> HIDE DEF InCopy
    <3> QED BY <1>i DEF ShowTypes
  <2> QED BY <2>1, <2>2, <2>3
<1> QED BY <1>1, <1>u, <1>4, <1>8, <1>14 DEF IInv, FrameInv

LEMMA EndReadIInv ==
  ASSUME IInv, EndRead
  PROVE  IInv'
<1> USE DEF EndRead, PendingKept, Presented, Idle, InCopy, gameVars, viVars, renderVars, drawnVars, showVars, runVars
<1>i. /\ PumpTypes /\ ViTypes /\ RenderTypes /\ DrawnTypes /\ ShowTypes /\ RunTypes
      /\ CommandsInOrder /\ NotedWhenMade /\ OnePresenter /\ Counted /\ Made /\ NewestSent
      /\ Reading /\ QuitSeen /\ Settled /\ LastKey /\ Keys /\ Overtaken
      /\ OnItsWay /\ Kept /\ HandedOlder
  BY TypeParts DEF IInv, FrameInv
<1>w. \A c \in Buffers : To(commands, c) = {} => ~InCopy(c)
  <2> SUFFICES ASSUME NEW c \in Buffers, InCopy(c) PROVE 1 \in To(commands, c)
    OBVIOUS
  <2>1. commands \in Seq(Copies) /\ commands # <<>> BY <1>i, Ranges DEF Counted
  <2>2. 1 \in DOMAIN commands /\ Head(commands) = commands[1] BY <2>1, Taken
  <2> QED BY <2>2 DEF To, InCopy
<1>1. TypeOK'
  <2>1. PumpTypes' BY <1>i DEF PumpTypes, Modes, Serials
  <2>2. ViTypes' BY <1>i DEF ViTypes
  <2>3. RenderTypes' BY <1>i DEF RenderTypes
  <2>4. DrawnTypes' BY <1>i DEF DrawnTypes
  <2>5. ShowTypes' BY <1>i DEF ShowTypes, Serials
  <2>6. RunTypes' BY <1>i DEF RunTypes
  <2> QED BY <2>1, <2>2, <2>3, <2>4, <2>5, <2>6, TypePartsNext
<1>u. /\ CommandsInOrder'
      /\ NotedWhenMade'
      /\ Counted'
      /\ Made'
      /\ NewestSent'
      /\ Keys'
      /\ Overtaken'
      /\ Kept'
      /\ HandedOlder'
  BY <1>i DEF CommandsInOrder, Outstanding, NotedWhenMade, Counted, Drawn, Made, NewestSent, To,
    Keys, Overtaken, AllCopied, Kept, Quitting, Inline, HandedOlder
<1>4. OnePresenter' BY <1>i DEF OnePresenter, Inline
<1>8. Reading' BY <1>i DEF Reading
<1>9. QuitSeen' BY <1>i DEF QuitSeen, Quitting, Inline
<1>10. Settled' BY <1>i DEF Settled, Quitting, Inline
<1>11. LastKey' BY <1>i DEF LastKey
<1>14. OnItsWay'
  <2> SUFFICES ASSUME NEW v \in Buffers, v = vi[1], mode # "headless", ~interrupted, NoneRefused,
                      Key = shown, To(commands, v) = {}, ~pending
               PROVE  screen' = [frame |-> memory[v], whole |-> TRUE]
    BY DEF OnItsWay, NoneRefused, AllCopied, Key, FrameIn
  <2>1. reader.buf = v /\ reader.met = memory[v] /\ reader.whole BY <1>i DEF OnItsWay
  <2>2. ~InCopy(v) BY <1>w
  <2>3. reader.whole = TRUE BY <2>1, <1>i DEF ShowTypes
  <2> HIDE DEF InCopy
  <2> QED BY <2>1, <2>2, <2>3
<1> QED BY <1>1, <1>u, <1>4, <1>8, <1>9, <1>10, <1>11, <1>14 DEF IInv, FrameInv

LEMMA CloseIInv ==
  ASSUME IInv, Close
  PROVE  IInv'
<1> USE DEF Close, gameVars, viVars, renderVars, drawnVars, showVars, runVars
<1>i. /\ PumpTypes /\ ViTypes /\ RenderTypes /\ DrawnTypes /\ ShowTypes /\ RunTypes
      /\ CommandsInOrder /\ NotedWhenMade /\ OnePresenter /\ Counted /\ Made /\ NewestSent
      /\ Reading /\ QuitSeen /\ Settled /\ LastKey /\ Keys /\ Overtaken
      /\ OnItsWay /\ Kept /\ HandedOlder
  BY TypeParts DEF IInv, FrameInv
<1>1. TypeOK'
  <2>1. PumpTypes' BY <1>i DEF PumpTypes
  <2>2. ViTypes' BY <1>i DEF ViTypes
  <2>3. RenderTypes' BY <1>i DEF RenderTypes
  <2>4. DrawnTypes' BY <1>i DEF DrawnTypes
  <2>5. ShowTypes' BY <1>i DEF ShowTypes
  <2>6. RunTypes' BY <1>i DEF RunTypes
  <2> QED BY <2>1, <2>2, <2>3, <2>4, <2>5, <2>6, TypePartsNext
<1>u. /\ CommandsInOrder'
      /\ NotedWhenMade'
      /\ OnePresenter'
      /\ Counted'
      /\ Made'
      /\ NewestSent'
      /\ Reading'
      /\ Settled'
      /\ LastKey'
      /\ Keys'
      /\ Overtaken'
      /\ OnItsWay'
      /\ Kept'
      /\ HandedOlder'
  BY <1>i DEF CommandsInOrder, Outstanding, NotedWhenMade, OnePresenter, Inline, Idle, Counted,
    Drawn, Made, NewestSent, To, Reading, Settled, Quitting, LastKey, Keys, Overtaken, AllCopied,
    OnItsWay, NoneRefused, Key, FrameIn, Kept, HandedOlder
<1>9. QuitSeen' BY <1>i DEF QuitSeen, Quitting, Inline
<1> QED BY <1>1, <1>u, <1>9 DEF IInv, FrameInv

LEMMA StopIInv ==
  ASSUME IInv, Stop
  PROVE  IInv'
<1> USE DEF Stop, gameVars, viVars, renderVars, drawnVars, showVars, runVars
<1>i. /\ PumpTypes /\ ViTypes /\ RenderTypes /\ DrawnTypes /\ ShowTypes /\ RunTypes
      /\ CommandsInOrder /\ NotedWhenMade /\ OnePresenter /\ Counted /\ Made /\ NewestSent
      /\ Reading /\ QuitSeen /\ Settled /\ LastKey /\ Keys /\ Overtaken
      /\ OnItsWay /\ Kept /\ HandedOlder
  BY TypeParts DEF IInv, FrameInv
<1>1. TypeOK'
  <2>1. PumpTypes' BY <1>i DEF PumpTypes
  <2>2. ViTypes' BY <1>i DEF ViTypes
  <2>3. RenderTypes' BY <1>i DEF RenderTypes
  <2>4. DrawnTypes' BY <1>i DEF DrawnTypes
  <2>5. ShowTypes' BY <1>i DEF ShowTypes
  <2>6. RunTypes' BY <1>i DEF RunTypes
  <2> QED BY <2>1, <2>2, <2>3, <2>4, <2>5, <2>6, TypePartsNext
<1>u. /\ CommandsInOrder'
      /\ NotedWhenMade'
      /\ OnePresenter'
      /\ Counted'
      /\ Made'
      /\ NewestSent'
      /\ Reading'
      /\ QuitSeen'
      /\ Settled'
      /\ LastKey'
      /\ Keys'
      /\ Overtaken'
      /\ OnItsWay'
      /\ Kept'
      /\ HandedOlder'
  BY <1>i DEF CommandsInOrder, Outstanding, NotedWhenMade, OnePresenter, Inline, Idle, Counted,
    Drawn, Made, NewestSent, To, Reading, QuitSeen, Quitting, Settled, LastKey, Keys, Overtaken,
    AllCopied, OnItsWay, NoneRefused, Key, FrameIn, Kept, HandedOlder
<1> QED BY <1>1, <1>u DEF IInv, FrameInv
LEMMA InitIInv == ASSUME Init PROVE IInv
<1> USE DEF Init
<1>1. 0 \in Serials /\ MaxFrames \in Nat BY DEF Serials
<1>2. TypeOK
  <2>1. PumpTypes BY <1>1 DEF PumpTypes
  <2>2. [b \in Buffers |-> 0] \in [Buffers -> Serials] BY <1>1
  <2>3. ViTypes /\ RunTypes
    <3>1. <<NoBuffer, 0>> \in (Buffers \cup {NoBuffer}) \X (0..1) OBVIOUS
    <3>2. ViTypes BY <2>2, <3>1 DEF ViTypes
    <3>3. RunTypes BY DEF RunTypes
    <3> QED BY <3>2, <3>3
  <2>4. <<>> \in Seq([buf : Buffers, frame : Serials]) OBVIOUS
  <2>5. RenderTypes /\ DrawnTypes BY <1>1, <2>2, <2>4 DEF RenderTypes, DrawnTypes
  <2>6. ShowTypes BY <1>1 DEF ShowTypes, Idle
  <2> QED BY <2>1, <2>3, <2>5, <2>6, TypeParts
<1>3. CommandsInOrder /\ NotedWhenMade /\ OnePresenter
  BY DEF CommandsInOrder, NotedWhenMade, OnePresenter, Outstanding, Idle, Inline
<1>4. Counted /\ Made /\ NewestSent /\ Reading /\ QuitSeen /\ Settled
  BY DEF Counted, Drawn, Made, NewestSent, To, Reading, Idle, QuitSeen, Quitting, Settled
<1>5. LastKey /\ Keys /\ Overtaken /\ OnItsWay /\ Kept /\ HandedOlder
  BY DEF LastKey, Keys, Drawn, Overtaken, OnItsWay, Key, Kept, HandedOlder
<1> QED BY <1>2, <1>3, <1>4, <1>5 DEF IInv, FrameInv

LEMMA StutterIInv == ASSUME IInv, UNCHANGED vars PROVE IInv'
<1> USE DEF vars, gameVars, viVars, renderVars, drawnVars, showVars, runVars
<1>1. TypeOK' BY DEF IInv, FrameInv, TypeOK
<1>2. CommandsInOrder' /\ NotedWhenMade' /\ OnePresenter'
  BY DEF IInv, FrameInv, CommandsInOrder, NotedWhenMade, OnePresenter, Outstanding, Inline
<1>3. Counted' /\ Made' /\ NewestSent' /\ Reading' /\ QuitSeen' /\ Settled'
  BY DEF IInv, Counted, Drawn, Made, NewestSent, To, Reading, QuitSeen, Quitting, Inline, Settled
<1>4. LastKey' /\ Keys' /\ Overtaken' /\ OnItsWay' /\ Kept' /\ HandedOlder'
  BY DEF IInv, LastKey, Keys, Drawn, Overtaken, OnItsWay, NoneRefused, AllCopied, Key, FrameIn,
    To, Kept,
         Quitting, Inline, HandedOlder
<1> QED BY <1>1, <1>2, <1>3, <1>4 DEF IInv, FrameInv

-----------------------------------------------------------------------------
(* The theorems *)

LEMMA NextIInv == ASSUME IInv, Next PROVE IInv'
<1>1. CASE Game BY <1>1, CopyIInv, WriteDirectlyIInv, PointViIInv DEF Game
<1>2. CASE Pump
  BY <1>2, RetraceIInv, DrainIInv, NothingNewIInv, CountFrameIInv, HandOverIInv,
    PresentInlineIInv DEF Pump
<1>3. CASE Render BY <1>3, BeginCopyIInv, EndCopyIInv DEF Render
<1>4. CASE Present
  BY <1>4, PresenterPollsIInv, TakePendingIInv, ReadAddressIInv, NothingToPresentIInv,
    BeginReadIInv, EndReadIInv
  DEF Present
<1>5. CASE Close BY <1>5, CloseIInv
<1>6. CASE Stop BY <1>6, StopIInv
<1> QED BY <1>1, <1>2, <1>3, <1>4, <1>5, <1>6 DEF Next

\* The inductive invariant holds in every reachable state: what the copies, the
\* pump's key, the presenter and the screen have to do with one another.
THEOREM Inductive == Spec => []IInv
<1>1. Init => IInv BY InitIInv
<1>2. IInv /\ [Next]_vars => IInv' BY NextIInv, StutterIInv
<1> QED BY <1>1, <1>2, PTL DEF Spec

\* Copies reach the buffers in the order the game asked for them, the table of
\* frames names no copy before it is made, and one thread presents: run_copy and
\* note_xfb_frame (display.c:1119-1129), frame_pump (main.c:447-625).
THEOREM FrameTheorem == Spec => []FrameInv
BY Inductive, PTL DEF IInv

LEMMA ShownWhenIdle == ASSUME IInv PROVE IdleMeansShown
BY DEF IInv, OnItsWay, IdleMeansShown, Outstanding, To

\* When the pump finds nothing new and nothing is on its way, the screen holds the
\* picture in the buffer VI scans, whole: no hand-over is lost between frame_pump's
\* flag (main.c:594-599) and the presenter's loop.
THEOREM IdleTheorem == Spec => []IdleMeansShown
<1>1. IInv => IdleMeansShown BY ShownWhenIdle
<1> QED BY <1>1, Inductive, PTL

LEMMA HandedByPump ==
  ASSUME IInv, Next, shown' # shown
  PROVE  game = "decide" /\ Key # shown
<1> USE DEF gameVars
<1>1. CASE Game BY <1>1 DEF Game, Copy, WriteDirectly, PointVi
<1>2. CASE Pump BY <1>2 DEF Pump, Retrace, Drain, NothingNew, CountFrame, HandOver, PresentInline, Refused
<1>3. CASE Render BY <1>3 DEF Render, BeginCopy, EndCopy
<1>4. CASE Present
  BY <1>4 DEF Present, PresenterPolls, TakePending, ReadAddress, NothingToPresent, BeginRead,
    EndRead, Presented
<1>5. CASE Close \/ Stop BY <1>5 DEF Close, Stop
<1> QED BY <1>1, <1>2, <1>3, <1>4, <1>5 DEF Next

LEMMA NewIsNewer ==
  ASSUME IInv, Next, NewPicture
  PROVE  PictureAt(vi[1]) > handed /\ memory[vi[1]] >= promised[vi[1]]
<1> DEFINE v == vi[1]
<1>i. /\ PumpTypes /\ ViTypes /\ RenderTypes /\ DrawnTypes /\ Made /\ QuitSeen /\ Settled /\ Keys /\ Kept /\ HandedOlder
  BY TypeParts DEF IInv, FrameInv
<1>1. v \in Buffers /\ game = "decide" /\ Key # shown BY HandedByPump DEF NewPicture
<1>2. memory[v] >= promised[v] BY <1>1, <1>i DEF Settled, QuitSeen, Kept
<1>3. memory[v] \in Nat /\ promised[v] \in Nat /\ handed \in Nat /\ promised[v] > 0
  BY <1>1, <1>i, Ranges DEF Keys
<1>4. memory[v] > handed
  <2>1. CASE shown = <<>> \/ shown[1] \notin Buffers BY <1>2, <1>3, <2>1, <1>i DEF HandedOlder
  <2>2. CASE shown # <<>> /\ shown[1] \in Buffers /\ shown[1] # v BY <1>2, <1>3, <2>2, <1>i DEF HandedOlder
  <2>3. CASE shown # <<>> /\ shown[1] = v
    <3>1. frameIn[v] # shown[2] BY <1>1, <2>3, <1>i, SameKey DEF FrameIn
    <3> QED BY <3>1, <1>1, <2>3, <1>i DEF HandedOlder
  <2> QED BY <2>1, <2>2, <2>3
<1> QED BY <1>1, <1>2, <1>4 DEF PictureAt

\* A picture that is handed over, shown inline or counted is newer than all before
\* it, and what VI was pointed at is in its buffer (main.c:523-575,
\* display.c:151-158).
THEOREM ForwardTheorem == Spec => HandedForward
<1>1. IInv /\ [Next]_vars => [NewPicture => /\ PictureAt(vi[1]) > handed
                                           /\ memory[vi[1]] >= promised[vi[1]]]_vars
  BY NewIsNewer
<1> QED BY <1>1, Inductive, PTL DEF Spec, HandedForward

=============================================================================
