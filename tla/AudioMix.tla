------------------------------ MODULE AudioMix ------------------------------
(***************************************************************************)
(* The audio mixer's thread: host/ax_dsp.c (ax_thread_main and             *)
(* mgs_ax_dsp_frame) and runtime/platform/sdl_audio.c.                     *)
(*                                                                         *)
(* The thread mixes a frame whenever the sound card (or, without one, the  *)
(* wall clock) has less than a target queued.  A frame reads a voice's     *)
(* parameter block from the game's memory, walks the voice's samples at    *)
(* its ratio, and writes back how far it got.  The game moves the same     *)
(* block at any time: it starts and stops voices, moves them, and extends  *)
(* the end of a stream once the next block of data is in.  The position    *)
(* the mixer writes is how the game tells that a block has been played.    *)
(*                                                                         *)
(* One voice stands for the 64, which share nothing but the sum.  Levels   *)
(* and sample values are left out: what matters is which positions are     *)
(* read, in what order, and how far ahead of the game.                     *)
(***************************************************************************)
EXTENDS Integers

CONSTANTS
  FrameLen,   \* AX_FRAME_SAMPLES
  One,        \* 65536: one sample, as a ratio
  MixLead,    \* MIX_LEAD
  Target,     \* target: samples to keep queued
  HistMax,    \* 4096: how far a history may be behind and still be walked on
  WordSpan,   \* 2^32
  BlockLen,   \* samples in each of the two blocks of a stream
  Ratios,     \* ratios a voice may have
  GameAhead,  \* bound: interrupts the game takes ahead of the mixer
  MaxStart    \* bound: frames counted before the first interrupt

ASSUME AudioAssumption ==
  /\ {FrameLen, One, Target, HistMax, BlockLen, WordSpan} \subseteq Nat \ {0}
  /\ {MixLead, GameAhead, MaxStart} \subseteq Nat
  /\ Ratios \subseteq Nat \ {0}
  /\ HistMax < WordSpan

VARIABLES
  pb,      \* the voice's parameter block, in the game's memory
  hist,    \* s_hpos, s_hvalid: the mixer's history of the voice
  mixer,   \* where the mixer's thread is
  voice,   \* the locals of mgs_ax_dsp_frame
  quit,    \* s_ax_stop
  device,  \* mgs_audio_have_device
  queued,  \* samples pushed and not yet played (or due, without a device)
  irqs,    \* mgs_interrupt_aid_raised is not 0
  ahead,   \* mixed, less the interrupts the game has taken
  base,    \* base and base_set
  song,    \* what the game plays: the same kind of voice all through
  stream,  \* the game: its stream's last queued block, and what it has seen
  walk     \* history: the last position the ADPCM predictor saw, whether the
           \* game has moved the voice since the frame's look at it, and
           \* whether the frame overwrote that

gameVars == <<pb, song, stream>>
paceVars == <<queued, irqs, ahead, base>>
vars == <<gameVars, hist, mixer, voice, quit, device, paceVars, walk>>

Unset == [set |-> FALSE, at |-> 0]

Silent == [state |-> 0, adpcm |-> FALSE, looping |-> FALSE, curr |-> 0,
           end |-> 0, loop |-> 0, ratio |-> 1, frac |-> 0]

NoVoice == [par |-> Silent, k |-> 0, curr |-> 0, end |-> 0, frac |-> 0, pos |-> 0, valid |-> FALSE,
            from |-> 0, jumped |-> FALSE, stopped |-> FALSE, ended |-> FALSE,
            at |-> 0, fresh |-> FALSE, touched |-> FALSE, wrong |-> FALSE]

\* A one-shot sound, a loop, or a stream.  filled: there is sound beyond the
\* end of the data queued; a stream that is not ADPCM is probed for it.
Songs ==
  {s \in [kind : {"once", "loop", "stream"}, adpcm : BOOLEAN, filled : BOOLEAN, ratio : Ratios] :
     IF s.kind = "stream" THEN s.adpcm => s.filled ELSE s.adpcm /\ ~s.filled}

Stream == song.kind = "stream"

\* mgs_ax_thread_start: the thread has been started, and nothing plays.
Init ==
  /\ pb = Silent
  /\ hist = [pos |-> 0, valid |-> FALSE]
  /\ mixer = "pace" /\ voice = NoVoice /\ quit = FALSE
  /\ device \in BOOLEAN /\ queued = 0
  /\ irqs = FALSE /\ ahead = 0 /\ base = Unset
  /\ song \in Songs
  /\ stream = [block |-> 0, round |-> FALSE]
  /\ walk = [at |-> 0, free |-> TRUE, torn |-> FALSE]

-----------------------------------------------------------------------------
(***************************************************************************)
(* Pacing.                                                                 *)
(***************************************************************************)
\* Queued is below the target; without a device `produced < due + target`.
Behind == queued < Target

\* Frames mixed beyond the interrupts taken, since the first look after one.
Lead == IF base.set THEN ahead - base.at ELSE 0

\* Mutant: the lead is compared as an unsigned number.
GateUnsigned == irqs /\ (Lead > MixLead \/ Lead < 0)

\* Mutant: the gate is withdrawn.
GateNever == irqs /\ FALSE

\* The mixer is too far ahead of the game to move its voices.
Gate == irqs /\ Lead > MixLead

\* mgs_audio_push, which drops what it is given when there is no device; the
\* thread's own count of what it produced grows all the same.
Push == queued' = queued + FrameLen

\* A turn of ax_thread_main: wait, push silence, or mix a frame.
Pace ==
  /\ mixer = "pace" /\ ~quit /\ Behind
  /\ base' = IF irqs /\ ~base.set THEN [set |-> TRUE, at |-> ahead] ELSE base
  /\ \/ Gate /\ Push /\ UNCHANGED mixer
     \/ ~Gate /\ mixer' = "frame" /\ UNCHANGED queued
  /\ UNCHANGED <<gameVars, hist, voice, quit, device, irqs, ahead, walk>>

-----------------------------------------------------------------------------
(***************************************************************************)
(* One frame of the voice.  v is the locals of mgs_ax_dsp_frame.           *)
(***************************************************************************)
\* Mutant: a history that is exactly one ahead is needed, as it once was.
CarriedExact(curr) == hist.valid /\ hist.pos = curr + 1

\* The history is carried in: it is at or behind the position, and not from
\* before a seek.
Carried(curr) ==
  hist.valid /\ hist.pos <= curr + 1
             /\ (curr - hist.pos) % WordSpan < HistMax

\* The parameter block as the frame finds it; the voice is skipped when it is
\* not running.
ReadVoice ==
  /\ mixer = "frame"
  /\ IF pb.state = 1 /\ pb.ratio # 0
     THEN /\ mixer' = "mix"
          /\ voice' = [NoVoice EXCEPT
               !.par = pb, !.curr = pb.curr, !.end = pb.end, !.frac = pb.frac,
               !.from = pb.curr, !.pos = hist.pos, !.valid = Carried(pb.curr),
               !.at = walk.at, !.fresh = walk.free, !.touched = walk.free]
          /\ walk' = [walk EXCEPT !.free = FALSE]
     ELSE mixer' = "push" /\ UNCHANGED <<voice, walk>>
  /\ UNCHANGED <<gameVars, hist, quit, device, paceVars>>

\* adpcm_step, over positions first to last: the predictor has to be at the one
\* before the first.  A frame that begins after the game has moved the voice is
\* let off.
adpcm_step(v, first, last) ==
  [v EXCEPT !.wrong = @ \/ (~v.fresh /\ first # v.at + 1),
            !.at = last, !.fresh = v.touched]

\* read_one: only ADPCM has a predictor to disturb.
read_one(v, first, last) ==
  IF v.par.adpcm /\ first <= last THEN adpcm_step(v, first, last) ELSE v

(***************************************************************************)
(* An output sample lies between two input samples, so that the history is *)
(* walked up to the one after the position, each position going through    *)
(* the decoder.  Without a history, or with one from before a jump, the    *)
(* position itself is read first.  Then the position moves by the ratio.   *)
(***************************************************************************)
Sample(v) ==
  LET seeds == ~v.valid \/ v.pos > v.curr + 1
      first == IF seeds THEN v.curr ELSE v.pos + 1
      moved == v.frac + v.par.ratio
  IN [read_one(v, first, v.curr + 1) EXCEPT
        !.valid = TRUE, !.pos = v.curr + 1,
        !.curr = v.curr + moved \div One, !.frac = moved % One]

\* How far the rest of the frame, from sample k, can still get.
FrameEnd(v, k) ==
  v.curr + ((FrameLen - k) * v.par.ratio + v.frac) \div One + 1

\* Mutant: a stream goes back to its loop point before it plays on.
AtEndEcho(v, k) ==
  IF v.end = 0 \/ v.curr <= v.end THEN v
  ELSE IF ~v.par.looping THEN [v EXCEPT !.curr = v.end, !.stopped = TRUE,
                                     !.ended = TRUE]
  ELSE IF v.par.loop <= v.end
       THEN [v EXCEPT !.curr = v.par.loop + (v.curr - v.end - 1),
                      !.valid = FALSE, !.jumped = TRUE, !.fresh = TRUE]
  ELSE IF v.par.adpcm \/ song.filled
       THEN [v EXCEPT !.curr = v.par.loop, !.fresh = TRUE,
                      !.end = FrameEnd([v EXCEPT !.curr = v.par.loop], k)]
  ELSE [v EXCEPT !.curr = v.par.loop, !.stopped = TRUE]

(***************************************************************************)
(* At the end of the voice's data a one-shot voice ends, a loop goes round *)
(* with what it was over, and a stream, whose loop point lies beyond its   *)
(* end, plays on when there is something there and stops for the frame     *)
(* when there is not.                                                      *)
(***************************************************************************)
AtEnd(v, k) ==
  IF v.end = 0 \/ v.curr <= v.end THEN v
  ELSE IF ~v.par.looping THEN [v EXCEPT !.curr = v.end, !.stopped = TRUE,
                                     !.ended = TRUE]
  ELSE IF v.par.loop <= v.end
       THEN [v EXCEPT !.curr = v.par.loop + (v.curr - v.end - 1),
                      !.valid = FALSE, !.jumped = TRUE, !.fresh = TRUE]
  ELSE IF v.par.adpcm \/ song.filled THEN [v EXCEPT !.end = FrameEnd(v, k)]
  ELSE [v EXCEPT !.curr = v.par.loop, !.stopped = TRUE]

\* Output sample k of the frame, counted in voice.k.  The end of a one-shot
\* voice is written at once.
MixSample ==
  /\ mixer = "mix"
  /\ voice' = [AtEnd(Sample(voice), voice.k) EXCEPT !.k = @ + 1]
  /\ pb' = [pb EXCEPT !.state = IF voice'.ended THEN 0 ELSE @]
  /\ mixer' = IF voice'.stopped \/ voice'.k = FrameLen THEN "write" ELSE "mix"
  /\ UNCHANGED <<song, stream, hist, quit, device, paceVars, walk>>

\* Fraction and position go back, whatever the game has written meanwhile.
WriteBack ==
  /\ mixer = "write"
  /\ pb' = [pb EXCEPT !.curr = voice.curr, !.frac = voice.frac]
  /\ hist' = [pos |-> voice.pos, valid |-> voice.valid]
  /\ walk' = [at |-> voice.at, torn |-> walk.torn \/ walk.free,
              free |-> walk.free \/ ~voice.valid]
  /\ stream' = [stream EXCEPT !.round = @ \/ voice.jumped]
  /\ mixer' = "push"
  /\ UNCHANGED <<song, voice, quit, device, paceVars>>

\* The frame goes to the card and counts as mixed.
PushFrame ==
  /\ mixer = "push"
  /\ Push
  /\ ahead' = IF irqs THEN ahead + 1
              ELSE IF ahead < MaxStart THEN ahead + 1 ELSE ahead
  /\ voice' = NoVoice
  /\ mixer' = "pace"
  /\ UNCHANGED <<gameVars, hist, quit, device, irqs, base, walk>>

\* mgs_ax_thread_stop, when the run is over; the thread looks at the flag
\* between frames only.
Stop ==
  /\ ~quit /\ mixer = "pace" /\ quit' = TRUE
  /\ UNCHANGED <<gameVars, hist, mixer, voice, device, paceVars, walk>>

Exit ==
  /\ mixer = "pace" /\ quit
  /\ mixer' = "gone"
  /\ UNCHANGED <<gameVars, hist, voice, quit, device, paceVars, walk>>

Mixer == Pace \/ ReadVoice \/ MixSample \/ WriteBack \/ PushFrame \/ Exit

-----------------------------------------------------------------------------
(***************************************************************************)
(* The card (mgs_audio_queued), or the wall clock.  A card that runs dry   *)
(* waits; the clock does not, and is bounded here.                         *)
(***************************************************************************)
Play ==
  /\ queued > IF device THEN 0 ELSE -1
  /\ queued' = queued - 1
  /\ UNCHANGED <<gameVars, hist, mixer, voice, quit, device, irqs, ahead,
                 base, walk>>

(***************************************************************************)
(* The game, which is not in the repository: AX's callback in the audio    *)
(* interrupt, and the sound driver.                                        *)
(***************************************************************************)
\* The stream has played into what the game has not queued.
Overdue ==
  /\ Stream /\ pb.state = 1
  /\ IF stream.block = 0 THEN pb.curr > pb.end ELSE stream.round

\* An audio interrupt is taken.  A game that takes interrupts also looks
\* after its stream.
Interrupt ==
  /\ ~quit /\ ~Overdue
  /\ IF base.set THEN Lead > -GameAhead ELSE ahead > -GameAhead
  /\ irqs' = TRUE /\ ahead' = ahead - 1
  /\ UNCHANGED <<gameVars, hist, mixer, voice, quit, device, queued, base,
                 walk>>

\* Bound: a voice that a frame has overwritten is not set up during another.
Clear == walk.torn => mixer \notin {"mix", "write"}

\* A voice is set up by AX's callback: a one-shot sound, a loop, or a stream
\* of which one block is queued and the next may have been read.
Start ==
  /\ ~quit /\ irqs /\ pb.state = 0 /\ Clear
  /\ pb' = [state |-> 1, adpcm |-> song.adpcm, looping |-> song.kind # "once",
            curr |-> 0, end |-> BlockLen - 1,
            loop |-> IF Stream THEN BlockLen ELSE 0,
            ratio |-> song.ratio, frac |-> 0]
  /\ stream' = [block |-> 0, round |-> FALSE]
  /\ walk' = [walk EXCEPT !.free = TRUE, !.torn = FALSE]
  /\ UNCHANGED <<song, hist, mixer, voice, quit, device, paceVars>>

StopVoice ==
  /\ ~quit /\ pb.state = 1
  /\ pb' = [pb EXCEPT !.state = 0]
  /\ UNCHANGED <<song, stream, hist, mixer, voice, quit, device, paceVars, walk>>

\* The game moves a voice back to its start.
Rewind ==
  /\ ~quit /\ pb.state = 1 /\ ~Stream /\ Clear
  /\ pb' = [pb EXCEPT !.curr = 0, !.frac = 0]
  /\ walk' = [walk EXCEPT !.free = TRUE, !.torn = FALSE]
  /\ UNCHANGED <<song, stream, hist, mixer, voice, quit, device, paceVars>>

\* The next block is in, and the game extends the stream over it.  The second
\* block's successor is the first, which is behind it.
Refill ==
  /\ ~quit /\ Stream /\ pb.state = 1
  /\ IF stream.block = 0 THEN pb.curr > 0 ELSE stream.round
  /\ pb' = [pb EXCEPT !.end = (2 - stream.block) * BlockLen - 1,
                      !.loop = stream.block * BlockLen]
  /\ stream' = [block |-> 1 - stream.block, round |-> FALSE]
  /\ UNCHANGED <<song, hist, mixer, voice, quit, device, paceVars, walk>>

Game == Interrupt \/ Start \/ StopVoice \/ Rewind \/ Refill

\* The run is over and the thread has been joined.
Over == mixer = "gone" /\ UNCHANGED vars

Next == Mixer \/ Play \/ Game \/ Stop \/ Over

Spec == Init /\ [][Next]_vars

(***************************************************************************)
(* The mixer's thread has a raised priority, the card plays what it has,   *)
(* and the game takes the interrupts it is offered and refills its stream. *)
(***************************************************************************)
FairSpec ==
  Spec /\ WF_vars(Mixer) /\ WF_vars(Play) /\ WF_vars(Interrupt)
       /\ WF_vars(Refill)
-----------------------------------------------------------------------------
(***************************************************************************)
(* Properties.                                                             *)
(***************************************************************************)
ParameterBlocks ==
  [state : {0, 1}, adpcm : BOOLEAN, looping : BOOLEAN, curr : Nat, end : Nat,
   loop : Nat, ratio : Nat \ {0}, frac : 0..(One - 1)]

TypeOK ==
  /\ pb \in ParameterBlocks
  /\ hist \in [pos : Nat, valid : BOOLEAN]
  /\ mixer \in {"pace", "frame", "mix", "write", "push", "gone"}
  /\ voice \in [par : ParameterBlocks, k : 0..FrameLen, curr : Nat, end : Nat, frac : 0..(One - 1), pos : Nat,
                valid : BOOLEAN, from : Nat, jumped : BOOLEAN,
                stopped : BOOLEAN, ended : BOOLEAN, at : Nat,
                fresh : BOOLEAN, touched : BOOLEAN, wrong : BOOLEAN]
  /\ {quit, device, irqs, base.set} \subseteq BOOLEAN
  /\ {ahead, base.at, queued} \subseteq Int

(***************************************************************************)
(* The thread never queues more than a frame past its target, so that a    *)
(* sound keeps close to its picture (ax_dsp.c:484).                        *)
(***************************************************************************)
QueueBounded == queued < Target + FrameLen

(***************************************************************************)
(* A frame is mixed only while the mixer is at most MIX_LEAD ahead of the  *)
(* interrupts the game has taken (ax_dsp.c:457), so that one more is the   *)
(* furthest it gets.                                                       *)
(***************************************************************************)
LeadBounded ==
  irqs => Lead <= MixLead + IF mixer \in {"pace", "gone"} THEN 1 ELSE 0

\* The furthest a voice moves in a frame.
Reach == (FrameLen * pb.ratio) \div One + 1

(***************************************************************************)
(* A game that stalls finds its stream no further past the data it queued  *)
(* than the frames it is allowed to be behind (ax_dsp.c:449, HANDOFF.md    *)
(* F360: past that, the game never finds its block and freezes).           *)
(***************************************************************************)
OverrunBounded ==
  pb.state = 1 /\ Stream /\ stream.block = 0 /\ ~walk.torn =>
    pb.curr <= pb.end + (MixLead + GameAhead + 2) * Reach

(***************************************************************************)
(* A loop that is at least as long as a step keeps its position inside.    *)
(***************************************************************************)
LoopContained ==
  mixer = "write" /\ voice.par.looping /\ voice.par.loop <= voice.par.end
    /\ voice.from <= voice.par.end => voice.curr <= voice.par.end

AudioInv ==
  TypeOK /\ QueueBounded /\ LeadBounded /\ OverrunBounded /\ LoopContained

(***************************************************************************)
(* What has been played is not played again, except where a loop goes      *)
(* round (the echo of ax_dsp.c:992: a stream went back to its loop point   *)
(* once a frame until its end was extended).                               *)
(***************************************************************************)
NoEcho ==
  mixer = "write" => voice.curr >= voice.from \/ voice.jumped \/ voice.stopped

(***************************************************************************)
(* At a ratio of one and more the decoder walks each position exactly once *)
(* for as long as the game leaves the voice alone (ax_dsp.c:352).          *)
(***************************************************************************)
DecodesInOrder == voice.wrong => voice.par.ratio < One

(***************************************************************************)
(* The same for every ratio, as the comment has it.  A slower voice ends a *)
(* frame without a step, one ahead; the difference of the test wraps, and  *)
(* two positions are decoded again.                                        *)
(***************************************************************************)
\* The code does not keep it, and no run checks it: README, section 6.
DecodedOnce == ~voice.wrong

(***************************************************************************)
(* A stream is played until its next block is queued: neither the gate,    *)
(* nor a full queue, nor a voice that stands still keeps it from it.       *)
(***************************************************************************)
Streaming(b) == pb.state = 1 /\ Stream /\ stream.block = b

StreamGoesOn ==
  \A b \in {0, 1} : Streaming(b) ~> (~Streaming(b) \/ quit)
=============================================================================
