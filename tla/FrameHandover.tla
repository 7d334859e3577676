--------------------------- MODULE FrameHandover ---------------------------
(***************************************************************************)
(* From a finished frame to the screen: host/main.c (frame_pump,           *)
(* run_with_presenter) and host/display.c (the copies, which frame each    *)
(* buffer holds, presentation).                                            *)
(*                                                                         *)
(* The game's thread asks for copies into the external framebuffers, which *)
(* the render thread makes in order, points the video interface (VI) at a  *)
(* buffer, and at each retrace decides in frame_pump whether there is a    *)
(* new picture.  Then it tells the presenter (the main thread), presents   *)
(* itself, or only counts, as the program was started.                     *)
(*                                                                         *)
(* Pictures are numbered as the game makes them.  How commands travel to   *)
(* the render thread is RenderRing's; here they are a sequence.            *)
(***************************************************************************)
EXTENDS Integers, Sequences, FiniteSets

CONSTANTS
  Buffers,    \* external framebuffers, addresses with the low 12 bits clear
  NoBuffer,   \* VI's address before the game sets one
  MaxFrames   \* bound: pictures the game makes

(***************************************************************************)
(* s_xfb_frames has eight entries, so that it is a function here.          *)
(***************************************************************************)
ASSUME FrameAssumption ==
  /\ IsFiniteSet(Buffers) /\ Cardinality(Buffers) <= 8
  /\ NoBuffer \notin Buffers
  /\ MaxFrames \in Nat

VARIABLES
  mode,        \* how the program was started
  game,        \* where the game's thread is: "run", or in frame_pump
  vi,          \* VI's address: a buffer and the field's line in it
  moved,       \* VI's address was set since the last retrace
  lastVi,      \* last_vi of frame_pump
  shown,       \* shown of frame_pump, the key of the last picture
  early,       \* s_present_due, seen from now, in halves of the cap's period
  commands,    \* copies written to the render thread and not made
  drawing,     \* the render thread is in the copy at the head of commands
  copies,      \* xfb_copies
  frameIn,     \* s_xfb_frames
  memory,      \* the picture each buffer was last filled with
  pending,     \* s_present_pending
  reader,      \* mgs_display_present: its place, its buffer, what it met
  screen,      \* what the window shows
  closed,      \* the window was closed
  interrupted, \* mgs_module_interrupted
  done,        \* the run is over
  newest,      \* history: the newest picture the game made for each buffer
  frames,      \* history: how many pictures the game made
  promised,    \* history: newest, for a buffer, when VI was pointed at it
  handed       \* history: the picture last handed over, shown or counted

gameVars   == <<game, lastVi, shown, early, handed>>
viVars     == <<vi, moved, promised>>
renderVars == <<commands, drawing, copies, frameIn>>
drawnVars  == <<memory, newest, frames>>
showVars   == <<pending, reader, screen>>
runVars    == <<closed, interrupted, done>>
vars == <<mode, gameVars, viVars, renderVars, drawnVars, showVars, runVars>>

(***************************************************************************)
(* "threaded" is the default with a window; "inline" and "capped" are      *)
(* MGS_PRESENT_INLINE=1 without and with a frame cap; "headless" has no    *)
(* window.                                                                 *)
(***************************************************************************)
Modes == {"threaded", "inline", "capped", "headless"}

Inline == mode \in {"inline", "capped"}

Serials == 0..MaxFrames

Idle == [at |-> "no", buf |-> NoBuffer, met |-> 0, whole |-> FALSE]

\* mgs_display_frame_in: 0 for a buffer never copied to.
FrameIn(b) == IF b \in Buffers THEN frameIn[b] ELSE 0

\* The picture in a buffer.
PictureAt(b) == IF b \in Buffers THEN memory[b] ELSE 0

\* Mutant: the field's line is left in the key.
KeyOfField == <<vi, FrameIn(vi[1])>>

\* The buffer VI scans, field masked off, and the copy in it.
Key == <<vi[1], FrameIn(vi[1])>>

\* Copies not yet made that go to buffer b.
Outstanding(b) == {i \in DOMAIN commands : commands[i].buf = b}

\* A copy to the framebuffer has been begun, so its geometry is known.
Geometry == copies > 0

Init ==
  /\ mode \in Modes
  /\ game = "run" /\ lastVi = <<NoBuffer, 0>> /\ shown = <<>> /\ early = -3
  /\ handed = 0
  /\ vi = <<NoBuffer, 0>> /\ moved = FALSE
  /\ promised = [b \in Buffers |-> 0]
  /\ commands = <<>> /\ drawing = FALSE /\ copies = 0
  /\ frameIn = [b \in Buffers |-> 0]
  /\ memory = [b \in Buffers |-> 0] /\ newest = [b \in Buffers |-> 0]
  /\ frames = 0
  /\ pending = FALSE /\ reader = Idle
  /\ screen = [frame |-> 0, whole |-> FALSE]
  /\ closed = FALSE /\ interrupted = FALSE /\ done = FALSE

-----------------------------------------------------------------------------
(***************************************************************************)
(* The game, which is not in the repository.  It makes a picture with a    *)
(* copy (GXCopyDisp), or writes it itself (the movie decoder) into a       *)
(* buffer that is not scanned and that no copy is on its way to, once      *)
(* frames have been drawn.  It points VI at a buffer with a newer picture, *)
(* and the SDK's retrace handler sets the address, once per field, for the *)
(* field's first line.                                                     *)
(***************************************************************************)
Copy(b) ==
  /\ game = "run" /\ ~done /\ frames < MaxFrames
  /\ frames' = frames + 1
  /\ newest' = [newest EXCEPT ![b] = frames + 1]
  /\ commands' = Append(commands, [buf |-> b, frame |-> frames + 1])
  /\ UNCHANGED <<mode, gameVars, viVars, drawing, copies, frameIn, memory,
                 showVars, runVars>>

WriteDirectly(b) ==
  /\ game = "run" /\ ~done /\ frames < MaxFrames
  /\ Geometry /\ vi[1] # b /\ Outstanding(b) = {}
  /\ frames' = frames + 1
  /\ newest' = [newest EXCEPT ![b] = frames + 1]
  /\ memory' = [memory EXCEPT ![b] = frames + 1]
  /\ UNCHANGED <<mode, gameVars, viVars, renderVars, showVars, runVars>>

PointVi(b, field) ==
  /\ game = "run" /\ ~done /\ ~moved /\ vi # <<b, field>>
  /\ b # vi[1] => newest[b] > (IF vi[1] \in Buffers THEN newest[vi[1]] ELSE 0)
  /\ vi' = <<b, field>> /\ moved' = TRUE
  /\ promised' = IF b # vi[1] THEN [promised EXCEPT ![b] = newest[b]]
                 ELSE promised
  /\ UNCHANGED <<mode, gameVars, renderVars, drawnVars, showVars, runVars>>

-----------------------------------------------------------------------------
(***************************************************************************)
(* The render thread: a copy to the external framebuffer, in two steps     *)
(* between which the buffer is partly written.                             *)
(***************************************************************************)
BeginCopy ==
  /\ commands # <<>> /\ ~drawing
  /\ drawing' = TRUE /\ copies' = copies + 1
  /\ UNCHANGED <<mode, gameVars, viVars, commands, frameIn, drawnVars,
                 showVars, runVars>>

\* Mutant: every buffer is given the new number.
NotedAll(b, serial) == [c \in Buffers |-> serial]

\* note_xfb_frame
Noted(b, serial) == [frameIn EXCEPT ![b] = serial]

EndCopy ==
  /\ drawing
  /\ drawing' = FALSE /\ commands' = Tail(commands)
  /\ memory' = [memory EXCEPT ![Head(commands).buf] = Head(commands).frame]
  /\ frameIn' = Noted(Head(commands).buf, copies)
  /\ UNCHANGED <<mode, gameVars, viVars, copies, newest, frames, showVars,
                 runVars>>

-----------------------------------------------------------------------------
(***************************************************************************)
(* frame_pump, on the game's thread at each retrace.                       *)
(***************************************************************************)
\* Mutant: what the pump of events says is thrown away.
PollEventsDiscarded == interrupted' = interrupted

\* mgs_video_pump, and what both its callers do with its answer.
PollEvents == interrupted' = (interrupted \/ closed)

\* From one retrace to the next the clock moves by a period, or half of one
\* more or less.  Further behind than a period all is one.
Elapsed(halves) == IF early - halves < -3 THEN -3 ELSE early - halves

Retrace ==
  /\ game = "run" /\ ~done
  /\ moved' = FALSE
  /\ IF mode = "capped" THEN \E halves \in 1..3 : early' = Elapsed(halves)
     ELSE early' = early
  /\ IF Inline THEN PollEvents ELSE UNCHANGED interrupted
  /\ game' = IF Inline /\ closed THEN "run"
             ELSE IF vi # lastVi THEN "drain" ELSE "decide"
  /\ UNCHANGED <<mode, lastVi, shown, handed, vi, promised, renderVars, drawnVars,
                 showVars, closed, done>>

\* Mutant: between two commands is drained enough.
DrainedBetween == ~drawing

\* mgs_display_gx_drain: the parser is where the game is.
Drained == commands = <<>>

Drain ==
  /\ game = "drain" /\ Drained
  /\ game' = "decide" /\ lastVi' = vi
  /\ UNCHANGED <<mode, shown, early, handed, viVars, renderVars, drawnVars,
                 showVars, runVars>>

NothingNew ==
  /\ game = "decide" /\ Key = shown
  /\ game' = "run"
  /\ UNCHANGED <<mode, lastVi, shown, early, handed, viVars, renderVars,
                 drawnVars, showVars, runVars>>

CountFrame ==
  /\ game = "decide" /\ Key # shown /\ mode = "headless"
  /\ game' = "run" /\ shown' = Key /\ handed' = PictureAt(vi[1])
  /\ UNCHANGED <<mode, lastVi, early, viVars, renderVars, drawnVars, showVars,
                 runVars>>

HandOver ==
  /\ game = "decide" /\ Key # shown /\ mode = "threaded"
  /\ game' = "run" /\ shown' = Key /\ handed' = PictureAt(vi[1])
  /\ pending' = TRUE
  /\ UNCHANGED <<mode, lastVi, early, viVars, renderVars, drawnVars, reader,
                 screen, runVars>>

\* mgs_display_may_present: no more than half a period before it is due.
MayPresent == mode = "inline" \/ early <= 1

\* The next is due a period later, or than now when that is long past.
NextDue == IF mode = "inline" THEN early
           ELSE (IF early < -2 THEN 0 ELSE early) + 2

\* Mutant: the picture counts as shown before the cap is asked.
RefusedShown == Key

\* What shown is when the cap refuses.
Refused == shown

PresentInline ==
  /\ game = "decide" /\ Key # shown /\ Inline
  /\ IF MayPresent
     THEN /\ game' = "present" /\ shown' = Key /\ early' = NextDue
          /\ reader' = [Idle EXCEPT !.at = "address"]
         /\ handed' = PictureAt(vi[1])
     ELSE /\ game' = "run" /\ shown' = Refused
          /\ UNCHANGED <<early, reader, handed>>
  /\ UNCHANGED <<mode, lastVi, viVars, renderVars, drawnVars, pending, screen,
                 runVars>>

-----------------------------------------------------------------------------
(***************************************************************************)
(* The presenter's loop.                                                   *)
(***************************************************************************)
PresenterPolls ==
  /\ mode = "threaded" /\ ~done /\ reader.at = "no"
  /\ PollEvents
  /\ UNCHANGED <<mode, gameVars, viVars, renderVars, drawnVars, showVars,
                 closed, done>>

TakePending ==
  /\ mode = "threaded" /\ ~done /\ reader.at = "no" /\ pending
  /\ pending' = FALSE /\ reader' = [Idle EXCEPT !.at = "address"]
  /\ UNCHANGED <<mode, gameVars, viVars, renderVars, drawnVars, screen,
                 runVars>>

(***************************************************************************)
(* mgs_display_present, on the presenter or inline: VI's address, then the *)
(* pixels.  They are whole when no copy was in the buffer as the reading   *)
(* began or ended, and the picture was the same.                           *)
(***************************************************************************)
\* The game's thread goes on when it was the one that presented.
Presented ==
  /\ reader' = Idle
  /\ game' = IF game = "present" THEN "run" ELSE game
  /\ UNCHANGED <<mode, lastVi, shown, early, handed, viVars, renderVars,
                 drawnVars, runVars>>

InCopy(b) == drawing /\ Head(commands).buf = b

ReadAddress ==
  /\ reader.at = "address" /\ vi[1] \in Buffers /\ Geometry
  /\ reader' = [reader EXCEPT !.at = "pixels", !.buf = vi[1]]
  /\ UNCHANGED <<mode, gameVars, viVars, renderVars, drawnVars, pending,
                 screen, runVars>>

NothingToPresent ==
  /\ reader.at = "address" /\ (vi[1] \notin Buffers \/ ~Geometry)
  /\ Presented
  /\ UNCHANGED <<pending, screen>>

BeginRead ==
  /\ reader.at = "pixels"
  /\ reader' = [reader EXCEPT !.at = "reading", !.met = memory[reader.buf],
                              !.whole = ~InCopy(reader.buf)]
  /\ UNCHANGED <<mode, gameVars, viVars, renderVars, drawnVars, pending,
                 screen, runVars>>

\* Mutant: the flag is reset once more after presenting.
PendingReset == FALSE

\* Presenting does not touch what was handed over meanwhile.
PendingKept == pending

EndRead ==
  /\ reader.at = "reading"
  /\ screen' = [frame |-> reader.met,
                whole |-> /\ reader.whole /\ ~InCopy(reader.buf)
                          /\ memory[reader.buf] = reader.met]
  /\ pending' = PendingKept
  /\ Presented

-----------------------------------------------------------------------------
(***************************************************************************)
(* The window is closed; the run loop ends when interrupted, or for a      *)
(* reason of its own.                                                      *)
(***************************************************************************)
Close ==
  /\ mode # "headless" /\ ~closed /\ closed' = TRUE
  /\ UNCHANGED <<mode, gameVars, viVars, renderVars, drawnVars, showVars,
                 interrupted, done>>

Stop ==
  /\ game = "run" /\ ~done
  /\ done' = TRUE
  /\ UNCHANGED <<mode, gameVars, viVars, renderVars, drawnVars, showVars,
                 closed, interrupted>>

Game == \E b \in Buffers : Copy(b) \/ WriteDirectly(b)
                           \/ \E field \in 0..1 : PointVi(b, field)

Pump == \/ Retrace \/ Drain \/ NothingNew \/ CountFrame \/ HandOver
        \/ PresentInline

Render == BeginCopy \/ EndCopy

Present == \/ PresenterPolls \/ TakePending \/ ReadAddress \/ NothingToPresent
           \/ BeginRead \/ EndRead

Next == Game \/ Pump \/ Render \/ Present \/ Close \/ Stop

Spec == Init /\ [][Next]_vars

(***************************************************************************)
(* Fairness: all three threads are scheduled, the game's meets retraces    *)
(* and looks at the flag between steps, and the presenter pumps events on  *)
(* every turn of its loop, between presents.                               *)
(***************************************************************************)
FairSpec ==
  /\ Spec
  /\ WF_vars(Pump) /\ WF_vars(Render)
  /\ WF_vars(TakePending \/ ReadAddress \/ NothingToPresent \/ BeginRead \/ EndRead)
  /\ SF_vars(PresenterPolls)
  /\ SF_vars(interrupted /\ Stop)

-----------------------------------------------------------------------------
TypeOK ==
  /\ mode \in Modes
  /\ game \in {"run", "drain", "decide", "present"}
  /\ vi \in (Buffers \cup {NoBuffer}) \X (0..1) /\ moved \in BOOLEAN
  /\ lastVi \in (Buffers \cup {NoBuffer}) \X (0..1)
  /\ shown = <<>> \/ shown \in (Buffers \cup {NoBuffer}) \X Serials
  /\ early \in -3..3
  /\ commands \in Seq([buf : Buffers, frame : Serials])
  /\ drawing \in BOOLEAN /\ copies \in Serials
  /\ frameIn \in [Buffers -> Serials] /\ memory \in [Buffers -> Serials]
  /\ newest \in [Buffers -> Serials] /\ promised \in [Buffers -> Serials]
  /\ frames \in Serials /\ handed \in Serials /\ pending \in BOOLEAN
  /\ reader \in [at : {"no", "address", "pixels", "reading"},
                 buf : Buffers \cup {NoBuffer}, met : Serials, whole : BOOLEAN]
  /\ screen \in [frame : Serials, whole : BOOLEAN]
  /\ closed \in BOOLEAN /\ interrupted \in BOOLEAN /\ done \in BOOLEAN

\* What is on its way to a buffer is newer than what is in it, and in order;
\* with nothing on its way the buffer holds the newest picture made for it.
CommandsInOrder ==
  /\ \A i, j \in DOMAIN commands : i < j => commands[i].frame < commands[j].frame
  /\ \A i \in DOMAIN commands : commands[i].frame > memory[commands[i].buf]
  /\ \A b \in Buffers : Outstanding(b) = {} => memory[b] = newest[b]

\* A copy's number is in one buffer, and no buffer is given that of a copy not
\* yet made, although the render thread has counted it.
NotedWhenMade ==
  /\ \A b \in Buffers : frameIn[b] <= copies - (IF drawing THEN 1 ELSE 0)
  /\ \A b, c \in Buffers : b # c /\ frameIn[b] # 0 => frameIn[b] # frameIn[c]

\* The game's thread and the main thread never present together, and the
\* flag is raised only with a presenter to take it.
OnePresenter ==
  /\ game = "present" <=> Inline /\ reader.at # "no"
  /\ mode = "headless" => reader = Idle
  /\ pending => mode = "threaded"

(***************************************************************************)
(* The type invariant, and: copies arrive in the order the game asked for  *)
(* them; the table of frames names no copy before it is in its buffer; one *)
(* thread presents (note_xfb_frame after mgs_efb_copy, run_copy;           *)
(* frame_pump).                                                            *)
(***************************************************************************)
FrameInv == TypeOK /\ CommandsInOrder /\ NotedWhenMade /\ OnePresenter

\* Every picture was made by a copy.
AllCopied ==
  frames = copies + Len(commands) - (IF drawing THEN 1 ELSE 0)

\* Inline with a cap a movie's picture may be lost: after the picture in the
\* other buffer was refused its key is the last one shown.
NoneRefused == mode = "capped" => AllCopied

(***************************************************************************)
(* When nothing is on its way - no hand-over, no present, no copy into the *)
(* buffer VI scans - and the game's thread has found nothing new, the      *)
(* screen holds the picture in that buffer, whole.  This is what sets      *)
(* frame_pump's key, the exchange of the pending flag and the reading of   *)
(* the buffer in the right order: a hand-over lost, or taken too early,    *)
(* leaves an old or a torn picture.                                        *)
(***************************************************************************)
IdleMeansShown ==
  (/\ mode # "headless" /\ ~interrupted /\ NoneRefused
   /\ vi[1] \in Buffers /\ Key = shown
   /\ Outstanding(vi[1]) = {} /\ ~pending /\ reader.at = "no")
  => screen = [frame |-> memory[vi[1]], whole |-> TRUE]

\* A picture goes to the screen's side: handed over, shown inline, counted.
NewPicture == shown' # shown /\ vi[1] \in Buffers

(***************************************************************************)
(* A picture handed on is newer than all before it - no frame twice        *)
(* because its other field is scanned, none old because the pump ran at    *)
(* the wrong moment - and is in its buffer: nothing the game asked for     *)
(* before it pointed VI there is still on its way (display.c:151-158,      *)
(* main.c:523-575).                                                        *)
(***************************************************************************)
HandedForward ==
  [][NewPicture => /\ PictureAt(vi[1]) > handed
                   /\ memory[vi[1]] >= promised[vi[1]]]_vars

\* The picture in the buffer VI scans.
Scanned == IF vi[1] \in Buffers THEN newest[vi[1]] ELSE 0

(***************************************************************************)
(* Every picture VI scans is shown whole, or a newer one is, unless the    *)
(* run ends; and a window that is closed ends the run (main.c:459-465).    *)
(***************************************************************************)
EveryFrameShown ==
  /\ \A n \in 1..MaxFrames :
       mode # "headless" /\ Scanned = n
         ~> done \/ ~NoneRefused \/ (screen.whole /\ screen.frame >= n)
  /\ closed ~> done

(***************************************************************************)
(* "when VI moves to another buffer, everything the game wrote before the  *)
(* flip is drawn first" (main.c:559-569): what is shown of a buffer is at  *)
(* least what it was to hold when VI was pointed at it.                    *)
(***************************************************************************)
\* The code does not keep it, and no run checks it: README, section 6.
DrawnBeforeShown ==
  [][reader.at = "reading" /\ reader'.at = "no"
       => screen'.frame >= promised[reader.buf]]_vars

=============================================================================
