--------------------------- MODULE AudioMixProofs ---------------------------
(***************************************************************************)
(* Proofs about the audio mixer's thread: how far it runs ahead, where a   *)
(* frame takes a voice, how far a stalled game's stream is outrun, and     *)
(* that the decoder goes on where it was.                                  *)
(***************************************************************************)
EXTENDS AudioMix, TLAPS

Voices ==
  [par : ParameterBlocks, k : 0..FrameLen, curr : Nat, end : Nat, frac : 0..(One - 1), pos : Nat,
   valid : BOOLEAN, from : Nat, jumped : BOOLEAN, stopped : BOOLEAN, ended : BOOLEAN, at : Nat,
   fresh : BOOLEAN, touched : BOOLEAN, wrong : BOOLEAN]

Types ==
  /\ pb \in ParameterBlocks
  /\ hist \in [pos : Nat, valid : BOOLEAN]
  /\ mixer \in {"pace", "frame", "mix", "write", "push", "gone"}
  /\ voice \in Voices
  /\ quit \in BOOLEAN /\ device \in BOOLEAN /\ irqs \in BOOLEAN
  /\ base \in [set : BOOLEAN, at : Int]
  /\ ahead \in Int /\ queued \in Int
  /\ song \in Songs
  /\ stream \in [block : {0, 1}, round : BOOLEAN]
  /\ walk \in [at : Nat, free : BOOLEAN, torn : BOOLEAN]

\* The frame under way has a voice.
Mixing == mixer \in {"mix", "write"}

-----------------------------------------------------------------------------
(* Arithmetic. *)

\* What a ratio's whole part and its fraction are.
LEMMA DivMod ==
  ASSUME NEW x \in Nat, NEW n \in Nat \ {0}
  PROVE  /\ x \div n \in Nat /\ x % n \in 0 .. n - 1
         /\ x = n * (x \div n) + (x % n)
<1>1. x \div n \in Int /\ x % n \in 0 .. n - 1 /\ x = n * (x \div n) + (x % n) OBVIOUS
<1> DEFINE q == x \div n
<1>2. q >= 0
  <2> SUFFICES ASSUME q < 0 PROVE FALSE BY <1>1
  <2> HIDE DEF q
  <2>1. q \in Int /\ q <= -1 BY <1>1 DEF q
  <2>2. n * q <= n * (-1) BY <2>1
  <2> QED BY <1>1, <2>2 DEF q
<1> QED BY <1>1, <1>2

LEMMA Product == ASSUME NEW a \in Nat, NEW b \in Nat PROVE a * b \in Nat
OBVIOUS

LEMMA Spread == ASSUME NEW a \in Int, NEW b \in Int, NEW c \in Int PROVE a * (b + c) = a * b + a * c
OBVIOUS

LEMMA Ordered == ASSUME NEW n \in Nat, NEW a \in Int, NEW b \in Int, a <= b PROVE n * a <= n * b
OBVIOUS

\* A multiple that is less is a multiple of less.
LEMMA Smaller == ASSUME NEW n \in Nat \ {0}, NEW a \in Int, NEW b \in Int, n * a < n * b PROVE a < b
<1> SUFFICES ASSUME b <= a PROVE FALSE OBVIOUS
<1> QED BY Ordered

\* What a jump does, in fractions.
LEMMA Shift ==
  ASSUME NEW n \in Int, NEW a \in Int, NEW b \in Int, NEW c \in Int
  PROVE  n * (a + (b - c - 1)) = n * a + n * b - n * c - n
OBVIOUS

-----------------------------------------------------------------------------
(* One output sample. *)

LEMMA SongIs ==
  ASSUME song \in Songs
  PROVE  /\ song.kind \in {"once", "loop", "stream"} /\ song.adpcm \in BOOLEAN /\ song.filled \in BOOLEAN
         /\ song.ratio \in Ratios /\ song.ratio \in Nat \ {0}
BY AudioAssumption DEF Songs

\* How many positions a sample moves by.
StepOf(v) == (v.frac + v.par.ratio) \div One
Seeds(v) == ~v.valid \/ v.pos > v.curr + 1
First(v) == IF Seeds(v) THEN v.curr ELSE v.pos + 1
Reads(v) == v.par.adpcm /\ First(v) <= v.curr + 1

LEMMA Read ==
  ASSUME NEW v \in Voices, NEW w \in BOOLEAN, NEW p \in Nat, NEW t \in BOOLEAN
  PROVE  [v EXCEPT !.wrong = w, !.at = p, !.fresh = t] \in Voices
BY DEF Voices

LEMMA StepIs == ASSUME NEW v \in Voices PROVE StepOf(v) \in Nat /\ One * StepOf(v) <= v.frac + v.par.ratio
<1> DEFINE x == v.frac + v.par.ratio
           q == x \div One
           f == x % One
<1>1. x \in Nat /\ One \in Nat \ {0} BY AudioAssumption DEF Voices, ParameterBlocks
<1>2. q \in Nat /\ f \in 0 .. One - 1 /\ x = One * q + f BY <1>1, DivMod
<1>3. StepOf(v) = q BY DEF StepOf
<1> HIDE DEF x, q, f
<1>4. One * q \in Nat BY <1>1, <1>2, Product
<1>5. One * q <= x BY <1>1, <1>2, <1>4
<1> QED BY <1>2, <1>3, <1>5 DEF x

LEMMA SampleIs ==
  ASSUME NEW v \in Voices
  PROVE  LET s == Sample(v)
         IN  /\ s \in Voices
             /\ s.par = v.par /\ s.k = v.k /\ s.end = v.end /\ s.from = v.from /\ s.touched = v.touched
             /\ s.jumped = v.jumped /\ s.stopped = v.stopped /\ s.ended = v.ended
             /\ s.curr = v.curr + StepOf(v) /\ s.frac = (v.frac + v.par.ratio) % One
             /\ s.pos = v.curr + 1 /\ s.valid
             /\ s.at = (IF Reads(v) THEN v.curr + 1 ELSE v.at)
             /\ s.fresh = (IF Reads(v) THEN v.touched ELSE v.fresh)
             /\ s.wrong = (v.wrong \/ (Reads(v) /\ ~v.fresh /\ First(v) # v.at + 1))
<1> DEFINE first == First(v)
           moved == v.frac + v.par.ratio
           d == read_one(v, first, v.curr + 1)
<1>1. moved \in Nat /\ v.par \in ParameterBlocks /\ v.curr \in Nat /\ v.pos \in Nat
  BY AudioAssumption DEF Voices, ParameterBlocks
<1>2. moved \div One \in Nat /\ moved % One \in 0 .. One - 1 BY <1>1, DivMod, AudioAssumption
<1>3. Sample(v) = [d EXCEPT !.valid = TRUE, !.pos = v.curr + 1, !.curr = v.curr + moved \div One, !.frac = moved % One]
  BY DEF Sample, First, Seeds
<1>4. /\ d \in Voices
      /\ d.par = v.par /\ d.k = v.k /\ d.end = v.end /\ d.from = v.from /\ d.touched = v.touched
      /\ d.jumped = v.jumped /\ d.stopped = v.stopped /\ d.ended = v.ended
      /\ d.at = (IF Reads(v) THEN v.curr + 1 ELSE v.at)
      /\ d.fresh = (IF Reads(v) THEN v.touched ELSE v.fresh)
      /\ d.wrong = (v.wrong \/ (Reads(v) /\ ~v.fresh /\ First(v) # v.at + 1))
  <2>1. CASE ~Reads(v)
    <3>1. d = v BY <2>1 DEF read_one, Reads
    <3> QED BY <2>1, <3>1 DEF Voices
  <2>2. CASE Reads(v)
    <3> DEFINE w == v.wrong \/ (~v.fresh /\ first # v.at + 1)
    <3>1. d = [v EXCEPT !.wrong = w, !.at = v.curr + 1, !.fresh = v.touched]
      BY <2>2 DEF read_one, adpcm_step, Reads
    <3>2. w \in BOOLEAN /\ w = (v.wrong \/ (Reads(v) /\ ~v.fresh /\ First(v) # v.at + 1)) BY <2>2
    <3> HIDE DEF w, first
    <3>5. v.touched \in BOOLEAN /\ v.curr + 1 \in Nat BY DEF Voices
    <3>6. [v EXCEPT !.wrong = w, !.at = v.curr + 1, !.fresh = v.touched] \in Voices
      BY <3>2, <3>5, Read, Zenon
    <3>4. d \in Voices BY <3>1, <3>6, Zenon
    <3>3. /\ d.par = v.par /\ d.k = v.k /\ d.end = v.end /\ d.from = v.from /\ d.touched = v.touched
          /\ d.jumped = v.jumped /\ d.stopped = v.stopped /\ d.ended = v.ended
          /\ d.at = v.curr + 1 /\ d.fresh = v.touched /\ d.wrong = w
      BY <1>1, <3>1, <3>2 DEF Voices
    <3> HIDE DEF d
    <3> QED BY <2>2, <3>2, <3>3, <3>4
  <2> QED BY <2>1, <2>2
<1>5. StepOf(v) = moved \div One BY DEF StepOf
<1> HIDE DEF d
<1>6. LET s == Sample(v)
      IN  /\ s \in Voices /\ s.par = d.par /\ s.k = d.k /\ s.end = d.end /\ s.from = d.from
          /\ s.touched = d.touched /\ s.jumped = d.jumped /\ s.stopped = d.stopped /\ s.ended = d.ended
          /\ s.curr = v.curr + moved \div One /\ s.frac = moved % One
          /\ s.pos = v.curr + 1 /\ s.valid /\ s.at = d.at /\ s.fresh = d.fresh /\ s.wrong = d.wrong
  <2> DEFINE f == moved % One
             c == v.curr + moved \div One
             p == v.curr + 1
  <2>1. c \in Nat /\ f \in 0 .. One - 1 /\ p \in Nat BY <1>1, <1>2
  <2>2. Sample(v) = [d EXCEPT !.valid = TRUE, !.pos = p, !.curr = c, !.frac = f] BY <1>3
  <2> HIDE DEF f, c, p
  <2>3. LET s == Sample(v)
        IN  /\ s \in Voices /\ s.par = d.par /\ s.k = d.k /\ s.end = d.end /\ s.from = d.from
            /\ s.touched = d.touched /\ s.jumped = d.jumped /\ s.stopped = d.stopped /\ s.ended = d.ended
            /\ s.curr = c /\ s.frac = f /\ s.pos = p /\ s.valid = TRUE /\ s.at = d.at
            /\ s.fresh = d.fresh /\ s.wrong = d.wrong
    BY <1>4, <2>1, <2>2 DEF Voices
  <2> QED BY <2>3 DEF f, c, p
<1> QED BY <1>4, <1>5, <1>6

\* ... and what the end of the voice's data does with it.
Past(v) == v.end # 0 /\ v.curr > v.end
Ends(v) == ~v.par.looping
Turns(v) == v.par.looping /\ v.par.loop <= v.end
PlaysOn(v) == v.par.looping /\ v.par.loop > v.end /\ (v.par.adpcm \/ song.filled)

LEMMA FrameEndIs ==
  ASSUME NEW v \in Voices, NEW k \in 0 .. FrameLen
  PROVE  /\ FrameEnd(v, k) \in Nat
         /\ One * FrameEnd(v, k) > One * v.curr + v.frac + (FrameLen - k) * v.par.ratio
<1> DEFINE left == (FrameLen - k) * v.par.ratio
           x == left + v.frac
           q == x \div One
<1>1. v.curr \in Nat /\ v.frac \in 0 .. One - 1 /\ v.par.ratio \in Nat /\ FrameLen - k \in Nat /\ One \in Nat \ {0}
  BY AudioAssumption DEF Voices, ParameterBlocks
<1>2. left \in Nat BY <1>1, Product
<1>3. x \in Nat BY <1>1, <1>2
<1>4. q \in Nat /\ x % One \in 0 .. One - 1 /\ x = One * q + (x % One) BY <1>1, <1>3, DivMod
<1>5. FrameEnd(v, k) = v.curr + q + 1 BY DEF FrameEnd
<1> HIDE DEF left, q
<1>6. One * (v.curr + q + 1) = One * v.curr + One * q + One BY <1>1, <1>4
<1>7. One * v.curr + One * q + One > One * v.curr + x
  BY <1>1, <1>3, <1>4, Product
<1> QED BY <1>1, <1>2, <1>4, <1>5, <1>6, <1>7, Product DEF left

LEMMA AtEndIs ==
  ASSUME NEW v \in Voices, NEW k \in 0 .. FrameLen, song \in Songs
  PROVE  LET e == AtEnd(v, k)
         IN  /\ e \in Voices
             /\ e.par = v.par /\ e.k = v.k /\ e.from = v.from /\ e.touched = v.touched /\ e.frac = v.frac
             /\ e.pos = v.pos /\ e.at = v.at /\ e.wrong = v.wrong
             /\ ~Past(v) => e = v
             /\ Past(v) /\ Ends(v) =>
                  /\ e.curr = v.end /\ e.end = v.end /\ e.stopped /\ e.ended
                  /\ e.jumped = v.jumped /\ e.valid = v.valid /\ e.fresh = v.fresh
             /\ Past(v) /\ Turns(v) =>
                  /\ e.curr = v.par.loop + (v.curr - v.end - 1) /\ e.end = v.end /\ ~e.valid /\ e.jumped /\ e.fresh
                  /\ e.stopped = v.stopped /\ e.ended = v.ended
             /\ Past(v) /\ PlaysOn(v) =>
                  /\ e.curr = v.curr /\ e.end = FrameEnd(v, k) /\ e.jumped = v.jumped
                  /\ e.valid = v.valid /\ e.fresh = v.fresh /\ e.stopped = v.stopped /\ e.ended = v.ended
             /\ Past(v) /\ ~Ends(v) /\ ~Turns(v) /\ ~PlaysOn(v) =>
                  /\ e.curr = v.par.loop /\ e.end = v.end /\ e.stopped /\ e.jumped = v.jumped
                  /\ e.valid = v.valid /\ e.fresh = v.fresh /\ e.ended = v.ended
<1> DEFINE c == v.par.loop + (v.curr - v.end - 1)
           f == FrameEnd(v, k)
<1>1. /\ v.curr \in Nat /\ v.end \in Nat /\ v.par.loop \in Nat /\ v.par.looping \in BOOLEAN
      /\ v.par.adpcm \in BOOLEAN
  BY DEF Voices, ParameterBlocks
<1>2. Past(v) => c \in Nat BY <1>1 DEF Past
<1>3. f \in Nat BY FrameEndIs
<1>4. v.par.loop \in Nat BY <1>1
<1>5. CASE ~Past(v)
  <2>1. AtEnd(v, k) = v BY <1>1, <1>5 DEF AtEnd, Past
  <2> QED BY <1>5, <2>1
<1>6. CASE Past(v) /\ Ends(v)
  <2>1. AtEnd(v, k) = [v EXCEPT !.curr = v.end, !.stopped = TRUE, !.ended = TRUE]
    BY <1>1, <1>6 DEF AtEnd, Past, Ends
  <2>2. ~Turns(v) /\ ~PlaysOn(v) BY <1>6 DEF Ends, Turns, PlaysOn
  <2> QED BY <1>1, <1>6, <2>1, <2>2 DEF Voices
<1>7. CASE Past(v) /\ Turns(v)
  <2>1. AtEnd(v, k) = [v EXCEPT !.curr = c, !.valid = FALSE, !.jumped = TRUE, !.fresh = TRUE]
    BY <1>1, <1>7 DEF AtEnd, Past, Turns
  <2>2. ~Ends(v) /\ ~PlaysOn(v) BY <1>1, <1>7 DEF Ends, Turns, PlaysOn
  <2>3. c \in Nat BY <1>2, <1>7
  <2> HIDE DEF c
  <2>4. LET e == AtEnd(v, k)
        IN  /\ e \in Voices
            /\ e.par = v.par /\ e.k = v.k /\ e.from = v.from /\ e.touched = v.touched /\ e.frac = v.frac
            /\ e.pos = v.pos /\ e.at = v.at /\ e.wrong = v.wrong
            /\ e.curr = c /\ e.end = v.end /\ ~e.valid /\ e.jumped /\ e.fresh
            /\ e.stopped = v.stopped /\ e.ended = v.ended
    BY <2>1, <2>3 DEF Voices
  <2> QED BY <1>7, <2>2, <2>4 DEF c
<1>8. CASE Past(v) /\ PlaysOn(v)
  <2>1. AtEnd(v, k) = [v EXCEPT !.end = f] BY <1>1, <1>8 DEF AtEnd, Past, PlaysOn
  <2>2. ~Ends(v) /\ ~Turns(v) BY <1>1, <1>8 DEF Ends, Turns, PlaysOn
  <2> HIDE DEF f
  <2>4. LET e == AtEnd(v, k)
        IN  /\ e \in Voices
            /\ e.par = v.par /\ e.k = v.k /\ e.from = v.from /\ e.touched = v.touched /\ e.frac = v.frac
            /\ e.pos = v.pos /\ e.at = v.at /\ e.wrong = v.wrong
            /\ e.curr = v.curr /\ e.end = f /\ e.jumped = v.jumped
            /\ e.valid = v.valid /\ e.fresh = v.fresh /\ e.stopped = v.stopped /\ e.ended = v.ended
    BY <1>3, <2>1 DEF Voices
  <2> QED BY <1>8, <2>2, <2>4 DEF f
<1>9. CASE Past(v) /\ ~Ends(v) /\ ~Turns(v) /\ ~PlaysOn(v)
  <2>1. AtEnd(v, k) = [v EXCEPT !.curr = v.par.loop, !.stopped = TRUE]
    BY <1>1, <1>9 DEF AtEnd, Past, Ends, Turns, PlaysOn
  <2> QED BY <1>1, <1>9, <2>1 DEF Voices
<1> QED BY <1>5, <1>6, <1>7, <1>8, <1>9

Mixed(v) == [AtEnd(Sample(v), v.k) EXCEPT !.k = @ + 1]

LEMMA MixedIs ==
  ASSUME NEW v \in Voices, v.k < FrameLen, song \in Songs
  PROVE  LET e == AtEnd(Sample(v), v.k)
             w == Mixed(v)
         IN  /\ e \in Voices /\ Sample(v) \in Voices /\ w \in Voices
             /\ w.k = v.k + 1 /\ w.par = v.par /\ w.from = v.from /\ w.touched = v.touched
             /\ w.curr = e.curr /\ w.end = e.end /\ w.frac = e.frac /\ w.pos = e.pos /\ w.valid = e.valid
             /\ w.jumped = e.jumped /\ w.stopped = e.stopped /\ w.ended = e.ended /\ w.at = e.at
             /\ w.fresh = e.fresh /\ w.wrong = e.wrong
<1> DEFINE e == AtEnd(Sample(v), v.k)
<1>1. v.k \in 0 .. FrameLen /\ v.k + 1 \in 0 .. FrameLen BY AudioAssumption DEF Voices
<1>2. Sample(v) \in Voices /\ Sample(v).par = v.par /\ Sample(v).k = v.k /\ Sample(v).from = v.from
      /\ Sample(v).touched = v.touched
  BY SampleIs
<1>3. e \in Voices /\ e.par = v.par /\ e.k = v.k /\ e.from = v.from /\ e.touched = v.touched
  BY <1>1, <1>2, AtEndIs
<1>4. Mixed(v) = [e EXCEPT !.k = v.k + 1] BY <1>3 DEF Mixed
<1> HIDE DEF e
<1>5. LET w == Mixed(v)
      IN  /\ w \in Voices
          /\ w.k = v.k + 1 /\ w.par = e.par /\ w.from = e.from /\ w.touched = e.touched
          /\ w.curr = e.curr /\ w.end = e.end /\ w.frac = e.frac /\ w.pos = e.pos /\ w.valid = e.valid
          /\ w.jumped = e.jumped /\ w.stopped = e.stopped /\ w.ended = e.ended /\ w.at = e.at
          /\ w.fresh = e.fresh /\ w.wrong = e.wrong
  BY <1>1, <1>3, <1>4 DEF Voices
<1> QED BY <1>2, <1>3, <1>5 DEF e

-----------------------------------------------------------------------------
(* Where a frame takes a voice. *)

\* Where the rest of the frame would take it, in fractions of a sample.
Left(v) == (FrameLen - v.k) * v.par.ratio
Span(v) == One * v.curr + v.frac + Left(v)

\* What a whole frame adds to a position.
Whole(b) == One - 1 + FrameLen * b.ratio

\* The loop of a parameter block is at least as long as a step.
StepFits(b) == b.end > 0 /\ b.ratio <= One * (b.end + 1 - b.loop)

InFrame(v) ==
  /\ v.curr >= v.from \/ v.jumped \/ v.stopped
  /\ ~v.jumped => Span(v) <= One * v.from + Whole(v.par)
  /\ v.jumped /\ v.from <= v.par.end => Span(v) <= One * v.par.loop + Whole(v.par)
  /\ v.par.looping /\ v.par.loop > v.par.end => ~v.jumped /\ (v.end = v.par.end \/ One * v.end > Span(v))
  /\ ~v.par.looping \/ v.par.loop <= v.par.end => v.end = v.par.end
  /\ v.par.looping /\ v.par.loop <= v.par.end /\ v.from <= v.par.end /\ StepFits(v.par) => v.curr <= v.par.end

LEMMA LeftIs ==
  ASSUME NEW v \in Voices
  PROVE  /\ Left(v) \in Nat /\ Span(v) \in Nat /\ Whole(v.par) \in Nat
         /\ One * v.curr <= Span(v)
         /\ \A w \in Voices : w.k = v.k + 1 /\ w.par = v.par => Left(v) = Left(w) + v.par.ratio
<1>1. /\ v.curr \in Nat /\ v.frac \in Nat /\ v.par.ratio \in Nat /\ FrameLen - v.k \in Nat
      /\ One \in Nat \ {0} /\ FrameLen \in Nat
  BY AudioAssumption DEF Voices, ParameterBlocks
<1>2. Left(v) \in Nat /\ One * v.curr \in Nat /\ FrameLen * v.par.ratio \in Nat BY <1>1, Product DEF Left
<1>3. ASSUME NEW w \in Voices, w.k = v.k + 1, w.par = v.par PROVE Left(v) = Left(w) + v.par.ratio
  <2>1. v.k \in Int BY DEF Voices
  <2> QED BY <1>1, <1>3, <2>1 DEF Left
<1> QED BY <1>1, <1>2, <1>3 DEF Span, Whole

\* A sample moves the voice without moving where the frame will take it.
LEMMA SampleSpan ==
  ASSUME NEW v \in Voices, v.k < FrameLen, NEW w \in Voices, w.k = v.k + 1, w.par = v.par
  PROVE  One * Sample(v).curr + Sample(v).frac + Left(w) = Span(v)
<1> DEFINE x == v.frac + v.par.ratio
           q == x \div One
           f == x % One
<1>1. x \in Nat /\ v.curr \in Nat /\ One \in Nat \ {0} /\ v.frac \in Nat /\ v.par.ratio \in Nat
  BY AudioAssumption DEF Voices, ParameterBlocks
<1>2. q \in Nat /\ f \in 0 .. One - 1 /\ x = One * q + f BY <1>1, DivMod
<1>3. Sample(v).curr = v.curr + q /\ Sample(v).frac = f BY SampleIs DEF StepOf
<1>4. Left(v) = Left(w) + v.par.ratio /\ Left(v) \in Nat /\ Left(w) \in Nat BY LeftIs
<1> HIDE DEF q, f
<1>5. One * (v.curr + q) = One * v.curr + One * q BY <1>1, <1>2
<1>6. One * v.curr \in Nat /\ One * q \in Nat BY <1>1, <1>2, Product
<1> QED BY <1>1, <1>2, <1>3, <1>4, <1>5, <1>6 DEF Span

LEMMA MixedInFrame ==
  ASSUME NEW v \in Voices, v.k < FrameLen, song \in Songs, v.par.loop <= v.par.end + 1, InFrame(v)
  PROVE  InFrame(Mixed(v))
<1> DEFINE s == Sample(v)
           e == AtEnd(s, v.k)
           w == Mixed(v)
<1>1. /\ s \in Voices /\ s.par = v.par /\ s.end = v.end /\ s.from = v.from /\ s.jumped = v.jumped
      /\ s.stopped = v.stopped /\ s.curr = v.curr + StepOf(v) /\ s.k = v.k
  BY SampleIs
<1>2. /\ w \in Voices /\ w.k = v.k + 1 /\ w.par = v.par /\ w.from = v.from
      /\ w.curr = e.curr /\ w.end = e.end /\ w.frac = e.frac /\ w.jumped = e.jumped /\ w.stopped = e.stopped
  BY MixedIs
<1>3. One * s.curr + s.frac + Left(w) = Span(v) BY <1>2, SampleSpan
<1>4. v.k \in 0 .. FrameLen /\ StepOf(v) \in Nat BY StepIs DEF Voices
<1>5. /\ v.curr \in Nat /\ v.end \in Nat /\ v.from \in Nat /\ v.par.loop \in Nat /\ v.par.end \in Nat
      /\ v.par.ratio \in Nat /\ One \in Nat \ {0} /\ s.curr \in Nat /\ s.frac \in 0 .. One - 1 /\ v.frac \in 0 .. One - 1
      /\ v.par.looping \in BOOLEAN /\ v.jumped \in BOOLEAN /\ v.stopped \in BOOLEAN
  BY <1>1, AudioAssumption DEF Voices, ParameterBlocks
<1>6. Left(w) \in Nat /\ Span(v) \in Nat /\ Whole(v.par) \in Nat /\ Span(w) = One * w.curr + w.frac + Left(w)
  BY <1>2, LeftIs DEF Span
<1>a. e.frac = s.frac BY <1>1, <1>4, AtEndIs
<1>b. One * s.curr \in Nat /\ One * v.end \in Nat /\ One * v.par.loop \in Nat /\ One * v.from \in Nat
  BY <1>5, Product
<1>7. CASE ~Past(s)
  <2>1. e = s BY <1>1, <1>4, <1>7, AtEndIs
  <2>2. Span(w) = Span(v) BY <1>2, <1>3, <1>6, <2>1
  <2>3. w.curr <= v.end \/ v.end = 0 BY <1>1, <1>2, <1>5, <1>7, <2>1 DEF Past
  <2>4. w.curr >= v.curr BY <1>1, <1>2, <1>4, <1>5, <2>1
  <2>5. w.jumped = v.jumped /\ w.end = v.end /\ w.stopped = v.stopped BY <1>1, <1>2, <2>1
  <2>6. w.curr \in Nat BY <1>2, <1>5, <2>1
  <2> QED BY <1>2, <1>5, <2>2, <2>3, <2>4, <2>5, <2>6 DEF InFrame, StepFits
<1>8. CASE Past(s) /\ Ends(s)
  <2>1. e.curr = v.end /\ e.end = v.end /\ e.stopped /\ e.jumped = v.jumped BY <1>1, <1>4, <1>8, AtEndIs
  <2>2. v.end < s.curr /\ ~v.par.looping BY <1>1, <1>8 DEF Past, Ends
  <2>3. One * v.end <= One * s.curr BY <1>5, <2>2, Ordered
  <2>4. Span(w) <= Span(v) BY <1>2, <1>3, <1>5, <1>6, <1>a, <1>b, <2>1, <2>3
  <2>5. One * v.from + Whole(v.par) \in Nat /\ One * v.par.loop + Whole(v.par) \in Nat /\ Span(w) \in Nat
    BY <1>2, <1>6, <1>b, LeftIs
  <2> QED BY <1>2, <1>5, <1>6, <2>1, <2>2, <2>4, <2>5 DEF InFrame, StepFits
<1>9. CASE Past(s) /\ Turns(s)
  <2>1. /\ e.curr = v.par.loop + (s.curr - v.end - 1) /\ e.end = v.end /\ e.jumped /\ e.stopped = v.stopped
    BY <1>1, <1>4, <1>9, AtEndIs
  <2>2. v.end < s.curr /\ v.par.looping /\ v.par.loop <= v.end BY <1>1, <1>9 DEF Past, Turns
  <2>3. v.par.loop <= v.par.end
    <3> SUFFICES ASSUME v.par.loop > v.par.end PROVE FALSE BY <1>5
    <3>1. One * v.end > Span(v) BY <2>2, <1>5 DEF InFrame
    <3>2. One * s.curr <= Span(v) BY <1>3, <1>5, <1>6, <1>b
    <3>3. One * s.curr < One * v.end BY <1>6, <1>b, <3>1, <3>2
    <3>4. s.curr < v.end BY <1>5, <3>3, Smaller
    <3> QED BY <1>5, <2>2, <3>4
  <2>4. v.end = v.par.end BY <2>2, <2>3 DEF InFrame
  <2>5. One * w.curr = One * v.par.loop + One * s.curr - One * v.end - One
    BY <1>2, <1>5, <2>1, Shift
  <2>6. Span(w) = Span(v) + One * v.par.loop - One * v.end - One
    BY <1>2, <1>3, <1>5, <1>6, <1>a, <1>b, <2>5
  <2>7. One * v.par.loop <= One * v.end BY <1>5, <2>2, Ordered
  <2>8. ASSUME v.from <= v.par.end PROVE Span(w) <= One * v.par.loop + Whole(v.par)
    <3>1. CASE v.jumped
      <4>1. Span(v) <= One * v.par.loop + Whole(v.par) BY <2>8, <3>1 DEF InFrame
      <4> QED BY <1>5, <1>6, <1>b, <2>6, <2>7, <4>1
    <3>2. CASE ~v.jumped
      <4>1. Span(v) <= One * v.from + Whole(v.par) BY <3>2 DEF InFrame
      <4>2. One * v.from <= One * v.end BY <1>5, <2>4, <2>8, Ordered
      <4> QED BY <1>5, <1>6, <1>b, <2>6, <4>1, <4>2
    <3> QED BY <1>5, <3>1, <3>2
  <2>9. ASSUME v.from <= v.par.end, StepFits(v.par) PROVE w.curr <= v.par.end
    <3> DEFINE q == StepOf(v)
               x == v.frac + v.par.ratio
               n == v.par.end + 1 - v.par.loop
    <3>1. v.curr <= v.par.end BY <2>2, <2>3, <2>9 DEF InFrame
    <3>2. x \in Nat BY <1>5
    <3>3. One * q <= x BY StepIs
    <3>4. v.par.ratio <= One * n BY <2>9 DEF StepFits
    <3>5. n \in Nat BY <1>5, <2>3
    <3> HIDE DEF n, q
    <3>6. q \in Nat BY <1>4 DEF q
    <3>7. One * n \in Nat /\ One * q \in Nat BY <1>5, <3>5, <3>6, Product
    <3>8. One * (n + 1) = One * n + One BY <1>5, <3>5
    <3>9. One * q < One * (n + 1) BY <1>5, <3>3, <3>4, <3>7, <3>8
    <3>10. q < n + 1 BY <1>5, <3>5, <3>6, <3>9, Smaller
    <3> QED BY <1>1, <1>2, <1>5, <2>1, <2>4, <3>1, <3>6, <3>10 DEF q, n
  <2> QED BY <1>2, <1>5, <2>1, <2>2, <2>3, <2>4, <2>8, <2>9 DEF InFrame
<1>10. CASE Past(s) /\ PlaysOn(s)
  <2>1. e.curr = s.curr /\ e.end = FrameEnd(s, v.k) /\ e.jumped = v.jumped /\ e.stopped = v.stopped
    BY <1>1, <1>4, <1>10, AtEndIs
  <2>2. v.par.looping /\ v.par.loop > v.end BY <1>1, <1>10 DEF PlaysOn
  <2>3. Span(w) = Span(v) BY <1>2, <1>3, <1>6, <1>a, <2>1
  <2>4. FrameEnd(s, v.k) \in Nat /\ One * FrameEnd(s, v.k) > One * s.curr + s.frac + (FrameLen - v.k) * s.par.ratio
    BY <1>1, <1>4, FrameEndIs
  <2>5. (FrameLen - v.k) * s.par.ratio = Left(w) + v.par.ratio
    BY <1>1, <1>2, LeftIs DEF Left
  <2>6. One * w.end > Span(w)
    <3>1. One * FrameEnd(s, v.k) \in Nat BY <1>5, <2>4, Product
    <3> QED BY <1>2, <1>3, <1>5, <1>6, <1>b, <2>1, <2>3, <2>4, <2>5, <3>1
  <2>7. v.par.loop > v.par.end BY <1>5, <2>2 DEF InFrame
  <2>8. w.curr >= v.curr BY <1>1, <1>2, <1>4, <1>5, <2>1
  <2>9. w.jumped = v.jumped /\ w.stopped = v.stopped /\ w.curr \in Nat BY <1>2, <1>5, <2>1
  <2> QED BY <1>2, <1>5, <2>2, <2>3, <2>6, <2>7, <2>8, <2>9 DEF InFrame
<1>11. CASE Past(s) /\ ~Ends(s) /\ ~Turns(s) /\ ~PlaysOn(s)
  <2>1. e.curr = v.par.loop /\ e.end = v.end /\ e.stopped /\ e.jumped = v.jumped
    BY <1>1, <1>4, <1>11, AtEndIs
  <2>2. v.par.looping /\ v.par.loop > v.end /\ v.end < s.curr
    BY <1>1, <1>5, <1>11 DEF Ends, Turns, Past
  <2>3. v.par.loop > v.par.end BY <1>5, <2>2 DEF InFrame
  <2>4. v.end = v.par.end
    <3> SUFFICES ASSUME One * v.end > Span(v) PROVE FALSE BY <2>2, <2>3 DEF InFrame
    <3>1. One * s.curr <= Span(v) BY <1>3, <1>5, <1>6, <1>b
    <3>2. One * s.curr < One * v.end BY <1>6, <1>b, <3>1
    <3>3. s.curr < v.end BY <1>5, <3>2, Smaller
    <3> QED BY <1>5, <2>2, <3>3
  <2>5. One * w.curr <= One * s.curr BY <1>2, <1>5, <2>1, <2>2, <2>4, Ordered
  <2>6. Span(w) <= Span(v)
    BY <1>2, <1>3, <1>5, <1>6, <1>a, <1>b, <2>1, <2>5
  <2>7. ~v.jumped BY <2>2, <2>3 DEF InFrame
  <2>8. Span(w) <= One * v.from + Whole(v.par)
    BY <1>2, <1>5, <1>6, <1>b, <2>6, <2>7, LeftIs DEF InFrame
  <2> QED BY <1>2, <1>5, <2>1, <2>2, <2>3, <2>4, <2>7, <2>8 DEF InFrame
<1> QED BY <1>7, <1>8, <1>9, <1>10, <1>11

-----------------------------------------------------------------------------
(* The invariant. *)

\* The mixer has what it needs of the clock and the game to start a frame.
Paced ==
  /\ queued < Target + IF mixer \in {"pace", "gone"} THEN FrameLen ELSE 0
  /\ base.set => irqs
  /\ LeadBounded
  /\ Lead >= -GameAhead

\* A block the game has set up: a one-shot sound or a loop of one block, or a stream
\* that plays into its second block or goes round from it.
Shape(b) ==
  /\ b.adpcm = song.adpcm /\ b.looping = (song.kind # "once") /\ b.ratio = song.ratio
  /\ \/ b.loop = 0 /\ b.end = BlockLen - 1 /\ ~Stream
     \/ b.loop = BlockLen /\ b.end = BlockLen - 1 /\ Stream
     \/ b.loop = 0 /\ b.end = 2 * BlockLen - 1 /\ Stream

Shaped ==
  /\ pb.state = 1 => irqs /\ Shape(pb) /\ (Stream => pb.loop = IF stream.block = 0 THEN BlockLen ELSE 0)
  /\ Mixing => Shape(voice.par)

Framed ==
  Mixing => /\ InFrame(voice)
            /\ mixer = "mix" => voice.k < FrameLen
            /\ mixer = "write" => voice.k = FrameLen \/ voice.stopped

IInv == Types /\ Paced /\ Shaped /\ Framed

LEMMA MixedVoice ==
  ASSUME IInv, MixSample
  PROVE  /\ voice \in Voices /\ voice.k < FrameLen /\ song \in Songs /\ Shape(voice.par)
         /\ voice' = Mixed(voice) /\ voice' \in Voices /\ voice'.par = voice.par
         /\ pb' = [pb EXCEPT !.state = IF voice'.ended THEN 0 ELSE @]
         /\ pb'.curr = pb.curr /\ pb'.end = pb.end /\ pb'.loop = pb.loop /\ pb'.ratio = pb.ratio
         /\ pb'.adpcm = pb.adpcm /\ pb'.looping = pb.looping /\ pb' \in ParameterBlocks
         /\ pb'.state = (IF voice'.ended THEN 0 ELSE pb.state)
<1>1. mixer = "mix" /\ voice \in Voices /\ voice.k < FrameLen /\ song \in Songs /\ Shape(voice.par)
  BY DEF MixSample, IInv, Types, Framed, Mixing, Shaped
<1>2. voice' = Mixed(voice) BY DEF MixSample, Mixed
<1>3. voice' \in Voices /\ voice'.par = voice.par BY <1>1, <1>2, MixedIs
<1>4. pb' = [pb EXCEPT !.state = IF voice'.ended THEN 0 ELSE @] BY DEF MixSample
<1>5. pb \in ParameterBlocks BY DEF IInv, Types
<1> QED BY <1>1, <1>2, <1>3, <1>4, <1>5 DEF ParameterBlocks

LEMMA TypesInit == Init => Types
<1> SUFFICES ASSUME Init PROVE Types OBVIOUS
<1>1. Silent \in ParameterBlocks BY AudioAssumption DEF Silent, ParameterBlocks
<1>2. NoVoice \in Voices BY <1>1, AudioAssumption DEF NoVoice, Voices
<1>3. hist \in [pos : Nat, valid : BOOLEAN] /\ base \in [set : BOOLEAN, at : Int] BY DEF Init, Unset
<1>4. stream \in [block : {0, 1}, round : BOOLEAN] /\ walk \in [at : Nat, free : BOOLEAN, torn : BOOLEAN]
  BY DEF Init
<1>5. pb \in ParameterBlocks /\ voice \in Voices /\ song \in Songs BY <1>1, <1>2 DEF Init
<1>6. mixer \in {"pace", "frame", "mix", "write", "push", "gone"} /\ ahead \in Int /\ queued \in Int
  BY DEF Init
<1>7. quit \in BOOLEAN /\ device \in BOOLEAN /\ irqs \in BOOLEAN BY Zenon DEF Init
<1> QED BY <1>3, <1>4, <1>5, <1>6, <1>7 DEF Types

LEMMA TypesStep == ASSUME IInv, [Next]_vars PROVE Types'
<1>t. Types BY DEF IInv
<1>s. song \in Songs BY <1>t DEF Types
<1>1. CASE Pace
  <2>1. base' \in [set : BOOLEAN, at : Int] BY <1>1, <1>t DEF Pace, Types
  <2>2. queued' \in Int /\ mixer' \in {"pace", "frame"} BY <1>1, <1>t, AudioAssumption DEF Pace, Push, Types
  <2> QED BY <1>1, <1>t, <2>1, <2>2 DEF Pace, Types, gameVars
<1>2. CASE ReadVoice
  <2>1. CASE pb.state = 1 /\ pb.ratio # 0
    <3> DEFINE c == Carried(pb.curr)
    <3>1. voice' = [NoVoice EXCEPT !.par = pb, !.curr = pb.curr, !.end = pb.end, !.frac = pb.frac,
               !.from = pb.curr, !.pos = hist.pos, !.valid = c,
               !.at = walk.at, !.fresh = walk.free, !.touched = walk.free]
      BY <1>2, <2>1 DEF ReadVoice
    <3>2. c \in BOOLEAN BY DEF Carried
    <3> HIDE DEF c
    <3>3. /\ pb \in ParameterBlocks /\ pb.curr \in Nat /\ pb.end \in Nat /\ pb.frac \in 0 .. One - 1
          /\ hist.pos \in Nat /\ walk.at \in Nat /\ walk.free \in BOOLEAN /\ 0 \in 0 .. FrameLen
      BY <1>t, AudioAssumption DEF Types, ParameterBlocks
    <3>5. voice' \in Voices BY <3>1, <3>2, <3>3 DEF NoVoice, Voices
    <3>4. walk' \in [at : Nat, free : BOOLEAN, torn : BOOLEAN] BY <1>2, <2>1, <1>t DEF ReadVoice, Types
    <3> QED BY <1>2, <1>t, <2>1, <3>4, <3>5 DEF ReadVoice, Types, gameVars, paceVars
  <2>2. CASE ~(pb.state = 1 /\ pb.ratio # 0) BY <1>2, <1>t, <2>2 DEF ReadVoice, Types, gameVars, paceVars
  <2> QED BY <2>1, <2>2
<1>3. CASE MixSample
  <2>1. voice' \in Voices /\ pb' \in ParameterBlocks BY <1>3, MixedVoice
  <2>2. mixer' \in {"mix", "write"} BY <1>3 DEF MixSample
  <2> QED BY <1>3, <1>t, <2>1, <2>2 DEF MixSample, Types, paceVars
<1>4. CASE WriteBack
  <2>1. pb' \in ParameterBlocks BY <1>4, <1>t DEF WriteBack, Types, ParameterBlocks, Voices
  <2>2. hist' \in [pos : Nat, valid : BOOLEAN] BY <1>4, <1>t DEF WriteBack, Types, Voices
  <2>3. walk' \in [at : Nat, free : BOOLEAN, torn : BOOLEAN]
    <3>1. (walk.torn \/ walk.free) \in BOOLEAN /\ (walk.free \/ ~voice.valid) \in BOOLEAN OBVIOUS
    <3> QED BY <1>4, <1>t, <3>1 DEF WriteBack, Types, Voices
  <2>4. stream' \in [block : {0, 1}, round : BOOLEAN] BY <1>4, <1>t DEF WriteBack, Types, Voices
  <2> QED BY <1>4, <1>t, <2>1, <2>2, <2>3, <2>4 DEF WriteBack, Types, paceVars
<1>5. CASE PushFrame
  <2>1. NoVoice \in Voices
    BY AudioAssumption DEF NoVoice, Silent, Voices, ParameterBlocks
  <2> QED BY <1>5, <1>t, <2>1, AudioAssumption DEF PushFrame, Push, Types, gameVars
<1>6. CASE Exit BY <1>6, <1>t DEF Exit, Types, gameVars, paceVars
<1>7. CASE Play BY <1>7, <1>t DEF Play, Types, gameVars
<1>8. CASE Interrupt BY <1>8, <1>t DEF Interrupt, Types, gameVars
<1>9. CASE Start
  <2>1. song.adpcm \in BOOLEAN /\ song.ratio \in Nat \ {0} BY <1>s, SongIs
  <2>2. BlockLen - 1 \in Nat /\ BlockLen \in Nat /\ One \in Nat \ {0} BY AudioAssumption
  <2>3. pb' \in ParameterBlocks
    BY <1>9, <2>1, <2>2 DEF Start, ParameterBlocks
  <2>4. walk' \in [at : Nat, free : BOOLEAN, torn : BOOLEAN] /\ stream' \in [block : {0, 1}, round : BOOLEAN]
    BY <1>9, <1>t DEF Start, Types
  <2> QED BY <1>9, <1>t, <2>3, <2>4 DEF Start, Types, paceVars
<1>10. CASE StopVoice
  <2>1. pb' \in ParameterBlocks BY <1>10, <1>t DEF StopVoice, Types, ParameterBlocks
  <2> QED BY <1>10, <1>t, <2>1 DEF StopVoice, Types, paceVars
<1>11. CASE Rewind
  <2>2. 0 \in 0 .. One - 1 BY AudioAssumption
  <2>1. pb' \in ParameterBlocks BY <1>11, <1>t, <2>2 DEF Rewind, Types, ParameterBlocks
  <2> QED BY <1>11, <1>t, <2>1 DEF Rewind, Types, paceVars
<1>12. CASE Refill
  <2> DEFINE e == (2 - stream.block) * BlockLen - 1
             l == stream.block * BlockLen
  <2>1. e \in Nat /\ l \in Nat
    <3>1. BlockLen \in Nat \ {0} /\ stream.block \in {0, 1} BY <1>t, AudioAssumption DEF Types
    <3>2. CASE stream.block = 0 BY <3>1, <3>2
    <3>3. CASE stream.block = 1 BY <3>1, <3>3
    <3> QED BY <3>1, <3>2, <3>3
  <2>2. pb' = [pb EXCEPT !.end = e, !.loop = l] BY <1>12 DEF Refill
  <2> HIDE DEF e, l
  <2>3. pb' \in ParameterBlocks BY <1>t, <2>1, <2>2 DEF Types, ParameterBlocks
  <2>4. stream' \in [block : {0, 1}, round : BOOLEAN] BY <1>12, <1>t DEF Refill, Types
  <2> QED BY <1>12, <1>t, <2>3, <2>4 DEF Refill, Types, paceVars
<1>13. CASE Stop BY <1>13, <1>t DEF Stop, Types, gameVars, paceVars
<1>14. CASE UNCHANGED vars BY <1>14, <1>t DEF vars, Types, gameVars, paceVars
<1> QED BY <1>1, <1>2, <1>3, <1>4, <1>5, <1>6, <1>7, <1>8, <1>9, <1>10, <1>11, <1>12, <1>13, <1>14
  DEF Next, Mixer, Game, Over

LEMMA PacedStep == ASSUME IInv, [Next]_vars PROVE Paced'
<1>t. Types /\ Paced BY DEF IInv
<1>c. /\ Target \in Nat \ {0} /\ FrameLen \in Nat \ {0} /\ MixLead \in Nat /\ GameAhead \in Nat
  BY AudioAssumption
<1>1. CASE Pace BY <1>1, <1>t, <1>c DEF Pace, Push, Behind, Gate, Types, Paced, LeadBounded, Lead
<1>2. CASE ReadVoice BY <1>2, <1>t, <1>c DEF ReadVoice, paceVars, Types, Paced, LeadBounded, Lead
<1>3. CASE MixSample BY <1>3, <1>t, <1>c DEF MixSample, paceVars, Types, Paced, LeadBounded, Lead
<1>4. CASE WriteBack BY <1>4, <1>t, <1>c DEF WriteBack, paceVars, Types, Paced, LeadBounded, Lead
<1>5. CASE PushFrame BY <1>5, <1>t, <1>c DEF PushFrame, Push, Types, Paced, LeadBounded, Lead
<1>6. CASE Exit BY <1>6, <1>t, <1>c DEF Exit, paceVars, Types, Paced, LeadBounded, Lead
<1>7. CASE Play BY <1>7, <1>t, <1>c DEF Play, Types, Paced, LeadBounded, Lead
<1>8. CASE Interrupt BY <1>8, <1>t, <1>c DEF Interrupt, Types, Paced, LeadBounded, Lead
<1>9. CASE (Game /\ ~Interrupt) \/ Stop \/ UNCHANGED vars
  <2>1. UNCHANGED <<mixer, paceVars>>
    BY <1>9 DEF Game, Start, StopVoice, Rewind, Refill, Stop, vars
  <2> QED BY <2>1, <1>t DEF paceVars, Paced, LeadBounded, Lead
<1> QED BY <1>1, <1>2, <1>3, <1>4, <1>5, <1>6, <1>7, <1>8, <1>9 DEF Next, Mixer, Game, Over

LEMMA ShapedStep == ASSUME IInv, [Next]_vars PROVE Shaped'
<1>t. Types /\ Shaped BY DEF IInv
<1>c. BlockLen \in Nat \ {0} BY AudioAssumption
<1>p. /\ song' = song BY DEF Next, Mixer, Game, Pace, ReadVoice, MixSample, WriteBack, PushFrame, Exit, Play,
        Interrupt, Start, StopVoice, Rewind, Refill, Stop, Over, vars, gameVars
<1>1. CASE ReadVoice BY <1>1, <1>t, <1>p DEF ReadVoice, NoVoice, Types, Shaped, Mixing, Shape, Stream, gameVars, paceVars
<1>2. CASE MixSample
  <2>1. /\ voice'.par = voice.par /\ Shape(voice.par) /\ pb'.curr = pb.curr /\ pb'.end = pb.end /\ pb'.loop = pb.loop
        /\ pb'.ratio = pb.ratio /\ pb'.adpcm = pb.adpcm /\ pb'.looping = pb.looping
        /\ pb'.state = (IF voice'.ended THEN 0 ELSE pb.state)
    BY <1>2, MixedVoice
  <2>2. stream' = stream /\ irqs' = irqs BY <1>2 DEF MixSample, paceVars
  <2> QED BY <1>t, <1>p, <2>1, <2>2 DEF Shaped, Shape, Stream
<1>3. CASE WriteBack
  <2>1. /\ pb' = [pb EXCEPT !.curr = voice.curr, !.frac = voice.frac] /\ irqs' = irqs
        /\ stream'.block = stream.block /\ mixer' = "push"
    BY <1>3, <1>t DEF WriteBack, paceVars, Types
  <2>2. /\ pb'.end = pb.end /\ pb'.loop = pb.loop /\ pb'.ratio = pb.ratio /\ pb'.adpcm = pb.adpcm
        /\ pb'.looping = pb.looping /\ pb'.state = pb.state
    BY <2>1, <1>t DEF Types, ParameterBlocks
  <2> QED BY <1>t, <1>p, <2>1, <2>2 DEF Shaped, Shape, Stream, Mixing
<1>4. CASE Start
  <2>1. /\ pb'.end = BlockLen - 1 /\ pb'.loop = (IF Stream THEN BlockLen ELSE 0) /\ pb'.ratio = song.ratio
        /\ pb'.adpcm = song.adpcm /\ pb'.looping = (song.kind # "once") /\ stream'.block = 0
        /\ irqs' /\ UNCHANGED <<mixer, voice>>
    BY <1>4 DEF Start, paceVars
  <2> QED BY <1>t, <1>p, <2>1 DEF Shaped, Shape, Stream, Mixing
<1>5. CASE Refill
  <2>1. pb.state = 1 /\ Stream /\ stream.block \in {0, 1} /\ UNCHANGED <<mixer, voice, irqs>>
    BY <1>5, <1>t DEF Refill, Types, paceVars
  <2>2. /\ pb'.end = (2 - stream.block) * BlockLen - 1 /\ pb'.loop = stream.block * BlockLen
        /\ pb'.ratio = pb.ratio /\ pb'.adpcm = pb.adpcm /\ pb'.looping = pb.looping
        /\ stream'.block = 1 - stream.block
    BY <1>5, <1>t DEF Refill, Types, ParameterBlocks
  <2>3. CASE stream.block = 0
    <3>1. pb'.end = 2 * BlockLen - 1 /\ pb'.loop = 0 /\ stream'.block = 1 BY <1>c, <2>2, <2>3
    <3> QED BY <1>t, <1>p, <2>1, <2>2, <3>1 DEF Shaped, Shape, Stream, Mixing
  <2>4. CASE stream.block = 1
    <3>1. pb'.end = BlockLen - 1 /\ pb'.loop = BlockLen /\ stream'.block = 0 BY <1>c, <2>2, <2>4
    <3> QED BY <1>t, <1>p, <2>1, <2>2, <3>1 DEF Shaped, Shape, Stream, Mixing
  <2> QED BY <2>1, <2>3, <2>4
<1>6. CASE StopVoice \/ Rewind
  <2>1. /\ pb'.end = pb.end /\ pb'.loop = pb.loop /\ pb'.ratio = pb.ratio /\ pb'.adpcm = pb.adpcm
        /\ pb'.looping = pb.looping /\ (pb'.state = 1 => pb.state = 1) /\ UNCHANGED <<mixer, voice, irqs, stream>>
    BY <1>6, <1>t DEF StopVoice, Rewind, Types, ParameterBlocks, paceVars
  <2> QED BY <1>t, <1>p, <2>1 DEF Shaped, Shape, Stream, Mixing
<1>7. CASE Pace \/ PushFrame \/ Exit \/ Play \/ Interrupt \/ Stop \/ UNCHANGED vars
  <2>1. /\ UNCHANGED <<pb, stream>> /\ (irqs => irqs') /\ (Mixing' => Mixing /\ voice' = voice)
    BY <1>7, <1>t DEF Pace, PushFrame, Exit, Play, Interrupt, Stop, vars, gameVars, paceVars, Mixing, Types
  <2> QED BY <1>t, <1>p, <2>1 DEF Shaped, Shape, Stream
<1> QED BY <1>1, <1>2, <1>3, <1>4, <1>5, <1>6, <1>7 DEF Next, Mixer, Game, Over

LEMMA FramedStep == ASSUME IInv, [Next]_vars PROVE Framed'
<1>t. Types /\ Shaped /\ Framed BY DEF IInv
<1>c. FrameLen \in Nat \ {0} /\ One \in Nat \ {0} /\ BlockLen \in Nat \ {0} BY AudioAssumption
<1>1. CASE ReadVoice
  <2> SUFFICES ASSUME Mixing' PROVE InFrame(voice)' /\ voice'.k < FrameLen /\ mixer' = "mix"
    BY DEF Framed, Mixing
  <2>1. pb.state = 1 /\ pb.ratio # 0 /\ mixer' = "mix" BY <1>1 DEF ReadVoice, Mixing
  <2>2. /\ voice'.par = pb /\ voice'.curr = pb.curr /\ voice'.end = pb.end /\ voice'.frac = pb.frac
        /\ voice'.from = pb.curr /\ voice'.k = 0 /\ ~voice'.jumped
    BY <1>1, <2>1, ZenonT(60) DEF ReadVoice, NoVoice
  <2>3. pb.curr \in Nat /\ pb.end \in Nat /\ pb.frac \in 0 .. One - 1 /\ pb.ratio \in Nat
    BY <1>t DEF Types, ParameterBlocks
  <2>4. Left(voice)' = FrameLen * pb.ratio BY <1>c, <2>2, <2>3 DEF Left
  <2>5. FrameLen * pb.ratio \in Nat /\ One * pb.curr \in Nat BY <1>c, <2>3, Product
  <2>6. Span(voice)' <= One * pb.curr + Whole(pb) BY <1>c, <2>2, <2>3, <2>4, <2>5 DEF Span, Whole
  <2> QED BY <1>c, <2>1, <2>2, <2>3, <2>6 DEF InFrame, Span, Whole
<1>2. CASE MixSample
  <2>1. /\ voice \in Voices /\ voice.k < FrameLen /\ song \in Songs /\ Shape(voice.par)
        /\ voice' = Mixed(voice) /\ voice' \in Voices
    BY <1>2, MixedVoice
  <2>2. InFrame(voice) BY <1>2, <1>t DEF Framed, Mixing, MixSample
  <2>3. voice.par.loop <= voice.par.end + 1 BY <1>c, <2>1 DEF Shape
  <2>4. InFrame(Mixed(voice)) BY <2>1, <2>2, <2>3, MixedInFrame
  <2>5. InFrame(voice)' BY <2>1, <2>4 DEF InFrame, Span, Left, Whole, StepFits
  <2>6. voice'.k = voice.k + 1 /\ voice.k \in 0 .. FrameLen BY <2>1, MixedIs DEF Voices
  <2>7. mixer' = (IF voice'.stopped \/ voice'.k = FrameLen THEN "write" ELSE "mix") BY <1>2 DEF MixSample
  <2> QED BY <1>c, <2>1, <2>5, <2>6, <2>7 DEF Framed
<1>3. CASE WriteBack BY <1>3 DEF WriteBack, Framed, Mixing
<1>4. CASE Pace \/ PushFrame \/ Exit \/ Play \/ Game \/ Stop \/ UNCHANGED vars
  <2>1. Mixing' => Mixing /\ voice' = voice /\ mixer' = mixer
    BY <1>4, <1>t DEF Pace, PushFrame, Exit, Play, Game, Interrupt, Start, StopVoice, Rewind, Refill, Stop, vars, Mixing,
      Types
  <2> QED BY <1>t, <2>1 DEF Framed, InFrame, Span, Left, Whole, StepFits
<1> QED BY <1>1, <1>2, <1>3, <1>4 DEF Next, Mixer, Over

\* Whatever the game does to the voice and whenever, the frames stay within it.
THEOREM Inductive == Spec => []IInv
<1>1. Init => IInv
  <2> SUFFICES ASSUME Init PROVE IInv OBVIOUS
  <2>1. Types BY TypesInit
  <2>2. Paced BY AudioAssumption DEF Init, Paced, LeadBounded, Lead, Unset
  <2>3. Shaped BY DEF Init, Shaped, Silent, Mixing
  <2>4. Framed BY DEF Init, Framed, Mixing
  <2> QED BY <2>1, <2>2, <2>3, <2>4 DEF IInv
<1>2. IInv /\ [Next]_vars => IInv' BY TypesStep, PacedStep, ShapedStep, FramedStep DEF IInv
<1> QED BY <1>1, <1>2, PTL DEF Spec

\* The thread queues at most a frame past its target, and mixes at most one more frame
\* than MIX_LEAD allows (ax_dsp.c:505-552).
THEOREM PaceTheorem == Spec => [](QueueBounded /\ LeadBounded)
<1>1. IInv => QueueBounded /\ LeadBounded BY AudioAssumption DEF IInv, Paced, Types, QueueBounded
<1> QED BY <1>1, Inductive, PTL

\* A frame leaves a voice at or past where it found it unless a loop went round or the
\* voice stopped, whatever the game extends or stops meanwhile (ax_dsp.c:910-1056).
THEOREM NoEchoTheorem == Spec => []NoEcho
<1>1. IInv => NoEcho BY DEF IInv, Framed, Mixing, InFrame, NoEcho
<1> QED BY <1>1, Inductive, PTL

-----------------------------------------------------------------------------
(* How far a stalled game is outrun. *)

\* The furthest a frame moves a voice of this ratio.
Furthest(r) == (FrameLen * r) \div One + 1

\* A block holds more than the mixer plays while it is as far ahead as it gets.
BlockOutlasts == \A r \in Ratios : (MixLead + GameAhead + 2) * Furthest(r) <= BlockLen

LEMMA FurthestIs ==
  ASSUME NEW r \in Nat \ {0}
  PROVE  /\ Furthest(r) \in Nat \ {0} /\ FrameLen * r \in Nat
         /\ FrameLen * r < One * Furthest(r)
         /\ r < One * Furthest(r)
<1> DEFINE x == FrameLen * r
           q == x \div One
<1>1. FrameLen \in Nat \ {0} /\ One \in Nat \ {0} BY AudioAssumption
<1>2. x \in Nat /\ r <= x
  <2>1. x \in Nat BY <1>1, Product
  <2>2. r * 1 <= r * FrameLen BY <1>1, Ordered
  <2>3. r * FrameLen = x BY <1>1
  <2> QED BY <2>1, <2>2, <2>3
<1> HIDE DEF x
<1>3. q \in Nat /\ x % One \in 0 .. One - 1 /\ x = One * q + (x % One) BY <1>1, <1>2, DivMod
<1>4. Furthest(r) = q + 1 BY DEF Furthest, x
<1> HIDE DEF q
<1>5. One * (q + 1) = One * q + One /\ One * q \in Nat BY <1>1, <1>3, Product
<1> QED BY <1>1, <1>2, <1>3, <1>4, <1>5 DEF x

LEMMA FrameReach ==
  ASSUME NEW v \in Voices, InFrame(v)
  PROVE  /\ ~v.jumped => v.curr <= v.from + Furthest(v.par.ratio)
         /\ v.jumped /\ v.from <= v.par.end => v.curr <= v.par.loop + Furthest(v.par.ratio)
<1> DEFINE f == Furthest(v.par.ratio)
<1>1. /\ v.curr \in Nat /\ v.from \in Nat /\ v.par.loop \in Nat /\ v.par.ratio \in Nat \ {0} /\ One \in Nat \ {0}
  BY AudioAssumption DEF Voices, ParameterBlocks
<1>2. f \in Nat /\ FrameLen * v.par.ratio \in Nat /\ FrameLen * v.par.ratio < One * f BY <1>1, FurthestIs
<1>3. One * v.curr <= Span(v) /\ Span(v) \in Nat BY LeftIs
<1> HIDE DEF f
<1>4. ASSUME NEW p \in Nat, Span(v) <= One * p + Whole(v.par) PROVE v.curr <= p + f
  <2>1. One * (p + f + 1) = One * p + One * f + One BY <1>1, <1>2
  <2>2. One * p \in Nat /\ One * f \in Nat /\ One * v.curr \in Nat BY <1>1, <1>2, Product
  <2>3. One * v.curr < One * (p + f + 1) BY <1>1, <1>2, <1>3, <1>4, <2>1, <2>2 DEF Whole
  <2>4. v.curr < p + f + 1 BY <1>1, <1>2, <2>3, Smaller
  <2> QED BY <1>1, <1>2, <2>4
<1>5. ~v.jumped => v.curr <= v.from + f BY <1>1, <1>4 DEF InFrame
<1>6. v.jumped /\ v.from <= v.par.end => v.curr <= v.par.loop + f BY <1>1, <1>4 DEF InFrame
<1> QED BY <1>5, <1>6 DEF f

\* How far ahead a frame may take a voice of the song.
PerFrame == Furthest(song.ratio)

\* The frames the mixer is ahead of the furthest the game gets ahead of it.
Debt == Lead + GameAhead + 1 + IF mixer = "push" THEN 1 ELSE 0

LEMMA SongFits ==
  ASSUME BlockOutlasts, song \in Songs
  PROVE  /\ PerFrame \in Nat \ {0} /\ song.ratio < One * PerFrame
         /\ (MixLead + GameAhead + 2) * PerFrame <= BlockLen /\ 2 * PerFrame <= BlockLen
         /\ \A n \in Int : n >= 1 => n * PerFrame >= PerFrame /\ (n + 1) * PerFrame = n * PerFrame + PerFrame
         /\ \A n \in Int : 1 <= n /\ n <= MixLead + GameAhead + 2 => n * PerFrame \in Nat /\ n * PerFrame <= BlockLen
<1>1. song.ratio \in Ratios /\ song.ratio \in Nat \ {0} BY SongIs
<1>2. PerFrame \in Nat \ {0} /\ song.ratio < One * PerFrame BY <1>1, FurthestIs DEF PerFrame
<1>3. MixLead \in Nat /\ GameAhead \in Nat /\ BlockLen \in Nat BY AudioAssumption
<1>4. (MixLead + GameAhead + 2) * PerFrame <= BlockLen BY <1>1 DEF BlockOutlasts, PerFrame
<1> HIDE DEF PerFrame
<1>5. ASSUME NEW n \in Int, n >= 1 PROVE n * PerFrame >= PerFrame /\ (n + 1) * PerFrame = n * PerFrame + PerFrame
  <2>1. PerFrame * 1 <= PerFrame * n BY <1>2, <1>5, Ordered
  <2> QED BY <1>2, <2>1
<1>6. ASSUME NEW n \in Int, 1 <= n, n <= MixLead + GameAhead + 2 PROVE n * PerFrame \in Nat /\ n * PerFrame <= BlockLen
  <2>1. PerFrame * n <= PerFrame * (MixLead + GameAhead + 2) BY <1>2, <1>3, <1>6, Ordered
  <2>2. PerFrame * (MixLead + GameAhead + 2) = (MixLead + GameAhead + 2) * PerFrame /\ PerFrame * n = n * PerFrame BY <1>2, <1>3
  <2>3. n * PerFrame \in Nat BY <1>2, <1>6, Product
  <2> QED BY <1>4, <2>1, <2>2, <2>3, <1>2, <1>3
<1>7. 2 * PerFrame <= BlockLen BY <1>3, <1>6
<1> QED BY <1>2, <1>4, <1>5, <1>6, <1>7

LEMMA BlockFits ==
  ASSUME BlockOutlasts, song \in Songs, NEW b \in ParameterBlocks, Shape(b), b.loop <= b.end
  PROVE  StepFits(b)
<1>1. PerFrame \in Nat \ {0} /\ song.ratio < One * PerFrame /\ 2 * PerFrame <= BlockLen BY SongFits
<1>2. One \in Nat \ {0} /\ BlockLen \in Nat /\ song.ratio \in Nat BY AudioAssumption, SongIs
<1>3. b.loop = 0 /\ (b.end = BlockLen - 1 \/ b.end = 2 * BlockLen - 1) /\ b.ratio = song.ratio
  BY <1>2 DEF Shape
<1> DEFINE n == b.end + 1 - b.loop
<1>4. n \in Nat /\ PerFrame <= n /\ b.end > 0 BY <1>1, <1>2, <1>3
<1> HIDE DEF n
<1>5. One * PerFrame <= One * n /\ One * PerFrame \in Nat /\ One * n \in Nat BY <1>1, <1>2, <1>4, Ordered, Product
<1>6. b.ratio <= One * n BY <1>1, <1>2, <1>3, <1>5
<1> QED BY <1>4, <1>6 DEF StepFits, n

Streamed ==
  Stream =>
    /\ pb.state = 1 /\ ~walk.torn =>
         /\ stream.block = 0 => pb.curr <= BlockLen - 1 + Debt * PerFrame
         /\ stream.block = 1 => pb.curr <= 2 * BlockLen - 1
         /\ stream.block = 1 /\ stream.round => pb.curr <= BlockLen - 1 + Debt * PerFrame
         /\ ~base.set => pb.curr <= IF mixer \in {"frame", "mix", "write"} THEN 0 ELSE PerFrame
    /\ Mixing /\ ~walk.free /\ ~walk.torn =>
         /\ pb.state = 1 => voice.from = pb.curr
         /\ voice.from <= 2 * BlockLen - 1
         /\ voice.par.loop = BlockLen => voice.from + PerFrame <= 2 * BlockLen - 1

LEMMA DebtIs ==
  ASSUME BlockOutlasts, IInv
  PROVE  /\ Debt \in Int /\ Debt >= 1 /\ PerFrame \in Nat \ {0} /\ Debt * PerFrame >= PerFrame /\ (Debt + 1) * PerFrame = Debt * PerFrame + PerFrame
         /\ 2 * PerFrame <= BlockLen
         /\ irqs => Debt <= MixLead + GameAhead + 2 /\ Debt * PerFrame \in Nat /\ Debt * PerFrame <= BlockLen
         /\ irqs /\ mixer \in {"frame", "mix", "write"} => Debt * PerFrame + PerFrame <= BlockLen
<1>1. Types /\ Paced BY DEF IInv
<1>2. MixLead \in Nat /\ GameAhead \in Nat /\ BlockLen \in Nat /\ song \in Songs BY <1>1, AudioAssumption DEF Types
<1>3. Debt \in Int /\ Debt >= 1 BY <1>1, <1>2 DEF Types, Paced, Debt, Lead
<1>4. irqs => Debt <= MixLead + GameAhead + 2
  BY <1>1, <1>2 DEF Types, Paced, LeadBounded, Debt, Lead
<1>5. irqs /\ mixer \in {"frame", "mix", "write"} => Debt + 1 <= MixLead + GameAhead + 2
  BY <1>1, <1>2 DEF Types, Paced, LeadBounded, Debt, Lead
<1> HIDE DEF Debt, PerFrame
<1>6. /\ PerFrame \in Nat \ {0} /\ Debt * PerFrame >= PerFrame /\ (Debt + 1) * PerFrame = Debt * PerFrame + PerFrame /\ 2 * PerFrame <= BlockLen
  BY <1>2, <1>3, SongFits
<1>7. irqs => Debt * PerFrame \in Nat /\ Debt * PerFrame <= BlockLen BY <1>2, <1>3, <1>4, SongFits
<1>8. irqs /\ mixer \in {"frame", "mix", "write"} => (Debt + 1) * PerFrame <= BlockLen
  BY <1>2, <1>3, <1>5, SongFits
<1> QED BY <1>3, <1>4, <1>6, <1>7, <1>8

\* What a frame writes back to a stream that nobody has moved meanwhile.
LEMMA WritesBack ==
  ASSUME BlockOutlasts, IInv, Streamed, mixer = "write", Stream, ~walk.free, ~walk.torn, pb.state = 1
  PROVE  /\ voice.curr <= pb.curr + PerFrame \/ voice.curr <= PerFrame
         /\ voice.jumped => voice.curr <= PerFrame
         /\ voice.curr <= 2 * BlockLen - 1
<1>1. Types /\ Shaped /\ Framed BY DEF IInv
<1>2. voice \in Voices /\ InFrame(voice) /\ Shape(voice.par) /\ song \in Songs
  BY <1>1 DEF Types, Shaped, Framed, Mixing
<1>3. /\ voice.from = pb.curr /\ voice.from <= 2 * BlockLen - 1
      /\ voice.par.loop = BlockLen => voice.from + PerFrame <= 2 * BlockLen - 1
  BY DEF Streamed, Mixing
<1>4. /\ voice.curr \in Nat /\ voice.from \in Nat /\ BlockLen \in Nat \ {0} /\ voice.par \in ParameterBlocks
      /\ voice.par.loop \in Nat /\ voice.jumped \in BOOLEAN
  BY <1>2, AudioAssumption DEF Voices, ParameterBlocks
<1>5. Furthest(voice.par.ratio) = PerFrame BY <1>2 DEF Shape, PerFrame
<1>6. /\ ~voice.jumped => voice.curr <= voice.from + PerFrame
      /\ voice.jumped /\ voice.from <= voice.par.end => voice.curr <= voice.par.loop + PerFrame
  BY <1>2, <1>5, FrameReach
<1>7. PerFrame \in Nat \ {0} /\ 2 * PerFrame <= BlockLen BY <1>2, SongFits
<1>8. CASE voice.par.loop = BlockLen
  <2>1. voice.par.end = BlockLen - 1 /\ voice.par.looping BY <1>2, <1>4, <1>8 DEF Shape, Stream
  <2>2. ~voice.jumped BY <1>2, <1>4, <1>8, <2>1 DEF InFrame
  <2> QED BY <1>3, <1>4, <1>6, <1>7, <1>8, <2>2
<1>9. CASE voice.par.loop # BlockLen
  <2>1. voice.par.loop = 0 /\ voice.par.end = 2 * BlockLen - 1 /\ voice.par.looping BY <1>2, <1>9 DEF Shape, Stream
  <2>2. StepFits(voice.par) BY <1>2, <1>4, <2>1, BlockFits
  <2>3. voice.curr <= voice.par.end BY <1>2, <1>3, <1>4, <2>1, <2>2 DEF InFrame
  <2>4. voice.jumped => voice.curr <= PerFrame BY <1>3, <1>4, <1>6, <1>7, <2>1
  <2>5. ~voice.jumped => voice.curr <= pb.curr + PerFrame BY <1>3, <1>6
  <2> QED BY <1>4, <2>1, <2>3, <2>4, <2>5
<1> QED BY <1>8, <1>9

LEMMA StreamedStep == ASSUME BlockOutlasts, IInv, Streamed, [Next]_vars PROVE Streamed'
<1>t. Types /\ Paced /\ Shaped /\ IInv BY DEF IInv
<1>c. BlockLen \in Nat \ {0} /\ song \in Songs BY <1>t, AudioAssumption DEF Types
<1>d. /\ Debt \in Int /\ Debt >= 1 /\ PerFrame \in Nat \ {0} /\ Debt * PerFrame >= PerFrame /\ (Debt + 1) * PerFrame = Debt * PerFrame + PerFrame
      /\ 2 * PerFrame <= BlockLen
      /\ irqs => Debt <= MixLead + GameAhead + 2 /\ Debt * PerFrame \in Nat /\ Debt * PerFrame <= BlockLen
      /\ irqs /\ mixer \in {"frame", "mix", "write"} => Debt * PerFrame + PerFrame <= BlockLen
  BY DebtIs
<1>p. song' = song
  BY DEF Next, Mixer, Game, Pace, ReadVoice, MixSample, WriteBack, PushFrame, Exit, Play,
        Interrupt, Start, StopVoice, Rewind, Refill, Stop, Over, vars, gameVars
<1>r. PerFrame' = PerFrame /\ (Stream' <=> Stream) BY <1>p DEF PerFrame, Furthest, Stream
<1>i. pb.state = 1 => irqs BY <1>t DEF Shaped
<1>n. pb.curr \in Nat BY <1>t DEF Types, ParameterBlocks
<1> HIDE DEF PerFrame
<1> SUFFICES ASSUME Stream PROVE Streamed' BY <1>r DEF Streamed
<1>1. CASE Pace
  <2>1. /\ UNCHANGED <<pb, stream, walk>> /\ ~Mixing' /\ mixer = "pace" /\ mixer' \in {"pace", "frame"}
    BY <1>1 DEF Pace, gameVars, Mixing
  <2>2. Debt' = Debt /\ (~base'.set => ~irqs /\ ~base.set)
    BY <1>1, <1>t DEF Pace, Debt, Lead, Types
  <2> HIDE DEF Debt
  <2>3. base.set => base'.set BY <1>1 DEF Pace
  <2> QED BY <1>d, <1>i, <1>n, <1>r, <2>1, <2>2, <2>3 DEF Streamed
<1>2. CASE ReadVoice
  <2>1. UNCHANGED <<pb, stream, ahead, irqs, base>> /\ mixer = "frame" BY <1>2 DEF ReadVoice, gameVars, paceVars
  <2>2. CASE pb.state = 1 /\ pb.ratio # 0
    <3>1. mixer' = "mix" /\ walk'.torn = walk.torn /\ voice'.par = pb /\ voice'.from = pb.curr
      BY <1>2, <1>t, <2>2, ZenonT(60) DEF ReadVoice, NoVoice, Types
    <3>2. Debt' = Debt BY <2>1, <3>1 DEF Debt, Lead
    <3> HIDE DEF Debt
    <3>3. ASSUME ~walk.torn
          PROVE  pb.curr <= 2 * BlockLen - 1 /\ (pb.loop = BlockLen => pb.curr + PerFrame <= 2 * BlockLen - 1)
      <4>1. stream.block \in {0, 1} /\ (pb.loop = IF stream.block = 0 THEN BlockLen ELSE 0)
        BY <1>t, <2>2 DEF Types, Shaped
      <4>2. Debt * PerFrame + PerFrame <= BlockLen /\ Debt * PerFrame \in Nat BY <1>d, <1>i, <2>1, <2>2
      <4>3. CASE stream.block = 0
        <5>1. pb.curr <= BlockLen - 1 + Debt * PerFrame BY <2>2, <3>3, <4>3 DEF Streamed
        <5> QED BY <1>c, <1>d, <1>n, <4>2, <5>1
      <4>4. CASE stream.block = 1 BY <1>c, <2>2, <3>3, <4>1, <4>4 DEF Streamed
      <4> QED BY <4>1, <4>3, <4>4
    <3> QED BY <1>r, <2>1, <2>2, <3>1, <3>2, <3>3 DEF Streamed, Mixing
  <2>3. CASE ~(pb.state = 1 /\ pb.ratio # 0)
    <3>1. pb.state # 1 BY <1>t, <2>3 DEF Types, ParameterBlocks
    <3>2. mixer' = "push" BY <1>2, <2>3 DEF ReadVoice
    <3> QED BY <2>1, <3>1, <3>2 DEF Streamed, Mixing
  <2> QED BY <2>2, <2>3
<1>3. CASE MixSample
  <2>1. /\ voice'.par = voice.par /\ pb'.curr = pb.curr /\ pb'.state = (IF voice'.ended THEN 0 ELSE pb.state)
        /\ voice'.from = voice.from
    BY <1>3, <1>t, MixedVoice, MixedIs
  <2>2. /\ UNCHANGED <<stream, walk, ahead, irqs, base>> /\ mixer = "mix" /\ mixer' \in {"mix", "write"}
    BY <1>3 DEF MixSample, paceVars
  <2>3. Debt' = Debt BY <2>2 DEF Debt, Lead
  <2> HIDE DEF Debt
  <2> QED BY <1>r, <2>1, <2>2, <2>3 DEF Streamed, Mixing
<1>4. CASE WriteBack
  <2>1. /\ mixer = "write" /\ mixer' = "push" /\ pb'.curr = voice.curr /\ pb'.state = pb.state
        /\ stream'.block = stream.block /\ (stream'.round => stream.round \/ voice.jumped)
        /\ (~walk'.torn => ~walk.torn /\ ~walk.free) /\ UNCHANGED <<ahead, irqs, base>>
    BY <1>4, <1>t DEF WriteBack, paceVars, Types, ParameterBlocks
  <2>2. Debt' = Debt + 1 BY <2>1, <1>t, AudioAssumption DEF Debt, Lead, Types
  <2> SUFFICES ASSUME pb.state = 1, ~walk.torn, ~walk.free
               PROVE  /\ stream.block = 0 => voice.curr <= BlockLen - 1 + Debt' * PerFrame
                      /\ stream.block = 1 => voice.curr <= 2 * BlockLen - 1
                      /\ stream.block = 1 /\ stream'.round => voice.curr <= BlockLen - 1 + Debt' * PerFrame
                      /\ ~base.set => voice.curr <= PerFrame
    BY <1>r, <2>1 DEF Streamed, Mixing
  <2>3. Debt' * PerFrame = Debt * PerFrame + PerFrame BY <1>d, <2>2
  <2>4. /\ voice.curr <= pb.curr + PerFrame \/ voice.curr <= PerFrame
        /\ voice.jumped => voice.curr <= PerFrame
        /\ voice.curr <= 2 * BlockLen - 1
    BY <1>t, <2>1, WritesBack
  <2>5. voice.curr \in Nat BY <1>t DEF Types, Voices
  <2>6. Debt * PerFrame \in Nat /\ Debt * PerFrame >= PerFrame BY <1>d, <1>i
  <2> HIDE DEF Debt
  <2>7. ~base.set => pb.curr <= 0 BY <2>1 DEF Streamed
  <2>8. stream.block = 0 \/ (stream.block = 1 /\ stream.round) => pb.curr <= BlockLen - 1 + Debt * PerFrame
    BY DEF Streamed
  <2> QED BY <1>c, <1>d, <1>n, <2>1, <2>3, <2>4, <2>5, <2>6, <2>7, <2>8
<1>5. CASE PushFrame
  <2>1. /\ UNCHANGED <<pb, stream, walk, irqs, base>> /\ mixer = "push" /\ mixer' = "pace"
    BY <1>5 DEF PushFrame, gameVars
  <2> SUFFICES ASSUME pb.state = 1, ~walk.torn
               PROVE  /\ stream.block = 0 => pb.curr <= BlockLen - 1 + Debt' * PerFrame
                      /\ stream.block = 1 => pb.curr <= 2 * BlockLen - 1
                      /\ stream.block = 1 /\ stream.round => pb.curr <= BlockLen - 1 + Debt' * PerFrame
                      /\ ~base.set => pb.curr <= PerFrame
    BY <1>r, <2>1 DEF Streamed, Mixing
  <2>2. ahead' = ahead + 1 BY <1>5, <1>i DEF PushFrame
  <2>3. CASE base.set
    <3>1. Debt' = Debt BY <1>t, <2>1, <2>2, <2>3, AudioAssumption DEF Debt, Lead, Types
    <3> HIDE DEF Debt
    <3> QED BY <2>1, <2>3, <3>1 DEF Streamed
  <2>4. CASE ~base.set
    <3>1. Debt' = GameAhead + 1 /\ GameAhead \in Nat BY <2>1, <2>4, AudioAssumption DEF Debt, Lead
    <3>2. Debt' * PerFrame >= PerFrame BY <1>c, <3>1, SongFits
    <3>3. pb.curr <= PerFrame BY <2>1, <2>4 DEF Streamed
    <3>4. Debt' * PerFrame \in Int BY <1>d, <3>1
    <3> QED BY <1>c, <1>d, <1>n, <3>2, <3>3, <3>4
  <2> QED BY <2>3, <2>4
<1>6. CASE Interrupt
  <2>1. /\ UNCHANGED <<pb, stream, walk, voice, mixer, base>> /\ ~Overdue
    BY <1>6 DEF Interrupt, gameVars
  <2>2. Debt' \in Int /\ Debt' >= 1
    BY <1>6, <1>t, AudioAssumption DEF Interrupt, Debt, Lead, Paced, Types
  <2>6. Debt' * PerFrame >= PerFrame BY <1>c, <2>2, SongFits
  <2>3. Debt' * PerFrame \in Int
    <3>1. \A a, b \in Int : a * b \in Int OBVIOUS
    <3> QED BY <1>d, <2>2, <3>1
  <2> HIDE DEF Debt
  <2>4. ASSUME pb.state = 1, stream.block = 0 PROVE pb.curr <= BlockLen - 1
    <3>1. pb.loop = BlockLen BY <1>t, <2>4 DEF Shaped
    <3>2. pb.end = BlockLen - 1 BY <1>t, <1>c, <2>4, <3>1 DEF Shaped, Shape
    <3>3. ~(pb.curr > pb.end) BY <2>1, <2>4 DEF Overdue
    <3> QED BY <1>c, <1>n, <3>2, <3>3
  <2>5. ~(pb.state = 1 /\ stream.block = 1 /\ stream.round) BY <2>1 DEF Overdue
  <2> QED BY <1>c, <1>d, <1>n, <1>r, <2>1, <2>3, <2>4, <2>5, <2>6 DEF Streamed, Mixing
<1>7. CASE Start
  <2>1. /\ pb'.curr = 0 /\ stream'.block = 0 /\ walk'.free /\ UNCHANGED <<mixer, ahead, irqs, base>>
    BY <1>7, <1>t DEF Start, paceVars, Types
  <2>2. Debt' = Debt BY <2>1 DEF Debt, Lead
  <2> HIDE DEF Debt
  <2>3. Debt * PerFrame \in Int BY <1>d
  <2> QED BY <1>c, <1>d, <1>r, <2>1, <2>2, <2>3 DEF Streamed
<1>8. CASE StopVoice
  <2>1. /\ pb'.state = 0 /\ UNCHANGED <<mixer, stream, walk, voice>>
    BY <1>8, <1>t DEF StopVoice, Types, ParameterBlocks
  <2> QED BY <1>r, <2>1 DEF Streamed, Mixing
<1>9. CASE Refill
  <2>1. /\ pb'.curr = pb.curr /\ pb'.state = pb.state /\ pb.state = 1 /\ UNCHANGED <<mixer, walk, voice, ahead, irqs, base>>
        /\ stream'.block = 1 - stream.block /\ ~stream'.round
        /\ (IF stream.block = 0 THEN pb.curr > 0 ELSE stream.round)
    BY <1>9, <1>t DEF Refill, Types, ParameterBlocks, paceVars
  <2>2. Debt' = Debt BY <2>1 DEF Debt, Lead
  <2>3. Debt * PerFrame \in Nat /\ Debt * PerFrame <= BlockLen /\ stream.block \in {0, 1} BY <1>d, <1>i, <1>t, <2>1 DEF Types
  <2> HIDE DEF Debt
  <2>4. CASE stream.block = 0
    <3>1. ~walk.torn => pb.curr <= BlockLen - 1 + Debt * PerFrame BY <2>1, <2>4 DEF Streamed
    <3> QED BY <1>c, <1>n, <1>r, <2>1, <2>2, <2>3, <2>4, <3>1 DEF Streamed, Mixing
  <2>5. CASE stream.block = 1
    BY <1>r, <2>1, <2>2, <2>5 DEF Streamed, Mixing
  <2> QED BY <2>3, <2>4, <2>5
<1>10. CASE Play \/ Stop \/ UNCHANGED vars
  <2>1. UNCHANGED <<pb, stream, walk, voice, mixer, ahead, irqs, base>>
    BY <1>10 DEF Play, Stop, vars, gameVars, paceVars
  <2>2. Debt' = Debt BY <2>1 DEF Debt, Lead
  <2> HIDE DEF Debt
  <2> QED BY <1>r, <2>1, <2>2 DEF Streamed, Mixing
<1>11. CASE Exit
  <2>1. UNCHANGED <<pb, stream, walk, voice, ahead, irqs, base>> /\ mixer = "pace" /\ mixer' = "gone"
    BY <1>11 DEF Exit, gameVars, paceVars
  <2>2. Debt' = Debt BY <2>1 DEF Debt, Lead
  <2> HIDE DEF Debt
  <2> QED BY <1>r, <2>1, <2>2 DEF Streamed, Mixing
<1>12. CASE Rewind BY <1>12 DEF Rewind
<1> QED BY <1>1, <1>2, <1>3, <1>4, <1>5, <1>6, <1>7, <1>8, <1>9, <1>10, <1>11, <1>12 DEF Next, Mixer, Game, Over

\* The mixer keeps its distance, its frames end inside a loop, and a game that stalls
\* finds its stream outrun by no more than the frames the mixer is ahead (ax_dsp.c:441-461),
\* for every stream whose blocks outlast them.
THEOREM AudioTheorem == ASSUME BlockOutlasts PROVE Spec => []AudioInv
<1>1. Init => Streamed
  <2> SUFFICES ASSUME Init PROVE Streamed OBVIOUS
  <2>1. pb.state = 0 /\ ~Mixing BY DEF Init, Silent, Mixing
  <2> QED BY <2>1 DEF Streamed
<1>2. IInv /\ Streamed /\ [Next]_vars => Streamed' BY StreamedStep
<1>3. IInv /\ Streamed => AudioInv
  <2> SUFFICES ASSUME IInv, Streamed PROVE AudioInv OBVIOUS
  <2>1. Types /\ Paced /\ Shaped /\ Framed BY DEF IInv
  <2>2. TypeOK BY <2>1 DEF Types, TypeOK, Voices
  <2>3. QueueBounded /\ LeadBounded BY <2>1, AudioAssumption DEF Paced, Types, QueueBounded
  <2>4. LoopContained
    <3> SUFFICES ASSUME mixer = "write", voice.par.looping, voice.par.loop <= voice.par.end,
                        voice.from <= voice.par.end
                 PROVE  voice.curr <= voice.par.end
      BY DEF LoopContained
    <3>1. InFrame(voice) /\ Shape(voice.par) /\ voice.par \in ParameterBlocks /\ song \in Songs
      BY <2>1 DEF Framed, Shaped, Mixing, Types, Voices
    <3>2. StepFits(voice.par) BY <3>1, BlockFits
    <3> QED BY <3>1, <3>2 DEF InFrame
  <2>5. OverrunBounded
    <3> SUFFICES ASSUME pb.state = 1, Stream, stream.block = 0, ~walk.torn
                 PROVE  pb.curr <= pb.end + (MixLead + GameAhead + 2) * Reach
      BY DEF OverrunBounded
    <3>1. song \in Songs /\ BlockLen \in Nat \ {0} /\ pb.curr \in Nat /\ irqs /\ Shape(pb) /\ pb.loop = BlockLen
      BY <2>1, AudioAssumption DEF Types, Shaped, ParameterBlocks
    <3>2. pb.end = BlockLen - 1 /\ Reach = PerFrame BY <3>1 DEF Shape, Reach, PerFrame, Furthest
    <3>3. Debt \in Int /\ Debt <= MixLead + GameAhead + 2 /\ PerFrame \in Nat \ {0} /\ Debt * PerFrame \in Nat BY <3>1, DebtIs
    <3>4. pb.curr <= BlockLen - 1 + Debt * PerFrame BY DEF Streamed
    <3> HIDE DEF Debt, PerFrame
    <3>5. MixLead + GameAhead + 2 \in Nat BY AudioAssumption
    <3>6. PerFrame * Debt <= PerFrame * (MixLead + GameAhead + 2) BY <3>3, <3>5, Ordered
    <3>7. PerFrame * Debt = Debt * PerFrame /\ PerFrame * (MixLead + GameAhead + 2) = (MixLead + GameAhead + 2) * PerFrame BY <3>3, <3>5
    <3>8. (MixLead + GameAhead + 2) * PerFrame \in Int BY <3>3, <3>5
    <3> QED BY <3>1, <3>2, <3>3, <3>4, <3>6, <3>7, <3>8
  <2> QED BY <2>2, <2>3, <2>4, <2>5 DEF AudioInv
<1> QED BY <1>1, <1>2, <1>3, Inductive, PTL DEF Spec

-----------------------------------------------------------------------------
(* The decoder goes on where it was. *)

\* No ratio steps over more positions than a history may lie behind.
WithinHistory == FrameLen > 1 /\ \A r \in Ratios : r <= One * HistMax

\* A history that the next sample reads on from.
Follows(p, c) == p <= c /\ c - p < HistMax

\* The decoder last saw the position the history stands at.
Walked ==
  /\ voice.wrong => voice.par.ratio < One
  /\ song.adpcm /\ song.ratio >= One =>
       /\ ~Mixing /\ pb.state = 1 /\ ~walk.free =>
            hist.valid /\ walk.at = hist.pos /\ Follows(hist.pos, pb.curr)
       /\ Mixing /\ voice.stopped => mixer = "write" /\ (pb.state = 0 \/ walk.free)
       /\ Mixing /\ ~voice.stopped =>
            /\ ~voice.fresh => voice.valid /\ voice.at = voice.pos /\ Follows(voice.pos, voice.curr)
            /\ voice.valid /\ voice.k > 0 => Follows(voice.pos, voice.curr)
            /\ voice.valid /\ voice.k > 1 => voice.at = voice.pos

LEMMA SmallMod ==
  ASSUME NEW n \in Nat \ {0}, NEW x \in Nat, x < n
  PROVE  x % n = x
<1> DEFINE q == x \div n
           m == x % n
<1>1. q \in Nat /\ m \in 0 .. n - 1 /\ x = n * q + m BY DivMod
<1> HIDE DEF q, m
<1>2. n * q < n * 1 BY <1>1
<1>3. q < 1 BY <1>1, <1>2, Smaller
<1>4. q = 0 BY <1>1, <1>3
<1>5. n * q = 0 BY <1>4
<1> QED BY <1>1, <1>5 DEF m

\* At a ratio of one and more each sample moves on, by no more than a history may be behind.
LEMMA StepBounds ==
  ASSUME NEW v \in Voices, WithinHistory, v.par.ratio \in Ratios, v.par.ratio >= One
  PROVE  StepOf(v) \in 1 .. HistMax
<1> DEFINE x == v.frac + v.par.ratio
           q == x \div One
           m == x % One
<1>1. /\ One \in Nat \ {0} /\ HistMax \in Nat \ {0} /\ v.frac \in 0 .. One - 1 /\ v.par.ratio \in Nat
      /\ v.par.ratio <= One * HistMax
  BY AudioAssumption DEF Voices, ParameterBlocks, WithinHistory
<1>2. x \in Nat BY <1>1
<1>3. q \in Nat /\ m \in 0 .. One - 1 /\ x = One * q + m BY <1>1, <1>2, DivMod
<1>4. StepOf(v) = q BY DEF StepOf
<1> HIDE DEF q, m
<1>5. One * (HistMax + 1) = One * HistMax + One /\ One * HistMax \in Nat /\ One * q \in Nat
  BY <1>1, <1>3, Product
<1>6. One * q < One * (HistMax + 1) BY <1>1, <1>3, <1>5
<1>7. q < HistMax + 1 BY <1>1, <1>3, <1>6, Smaller
<1>8. q # 0
  <2> SUFFICES ASSUME q = 0 PROVE FALSE OBVIOUS
  <2>1. One * q = 0 BY <1>1
  <2> QED BY <1>1, <1>3, <2>1
<1> QED BY <1>1, <1>3, <1>4, <1>7, <1>8

LEMMA WalkedMix == ASSUME WithinHistory, IInv, Walked, MixSample PROVE Walked'
<1> DEFINE v == voice
           s == Sample(v)
           e == AtEnd(s, v.k)
           w == Mixed(v)
<1>1. /\ v \in Voices /\ v.k < FrameLen /\ song \in Songs /\ Shape(v.par) /\ voice' = w /\ w \in Voices
      /\ pb'.state = (IF w.ended THEN 0 ELSE pb.state)
  BY MixedVoice
<1>2. /\ s \in Voices /\ s.par = v.par /\ s.stopped = v.stopped /\ s.k = v.k
      /\ s.curr = v.curr + StepOf(v) /\ s.pos = v.curr + 1 /\ s.valid
      /\ s.at = (IF Reads(v) THEN v.curr + 1 ELSE v.at)
      /\ s.fresh = (IF Reads(v) THEN v.touched ELSE v.fresh)
      /\ s.wrong = (v.wrong \/ (Reads(v) /\ ~v.fresh /\ First(v) # v.at + 1))
  BY <1>1, SampleIs
<1>3. /\ w.k = v.k + 1 /\ w.par = v.par /\ w.curr = e.curr /\ w.pos = e.pos /\ w.valid = e.valid
      /\ w.stopped = e.stopped /\ w.ended = e.ended /\ w.at = e.at /\ w.fresh = e.fresh /\ w.wrong = e.wrong
  BY <1>1, MixedIs
<1>4. mixer = "mix" /\ mixer' = (IF w.stopped \/ w.k = FrameLen THEN "write" ELSE "mix") /\ UNCHANGED <<song, hist, walk>>
  BY <1>1 DEF MixSample
<1>5. /\ v.k \in 0 .. FrameLen /\ v.curr \in Nat /\ v.pos \in Nat /\ v.at \in Nat /\ One \in Nat \ {0} /\ HistMax \in Nat
      /\ song.ratio \in Ratios /\ song.ratio \in Nat /\ v.par.ratio = song.ratio /\ v.par.adpcm = song.adpcm
  BY <1>1, SongIs, AudioAssumption DEF Voices, Shape
<1> HIDE DEF s
<1>a. s \in Voices /\ v.k \in 0 .. FrameLen /\ song \in Songs BY <1>1, <1>2, <1>5
<1>b. e.pos = s.pos /\ e.at = s.at /\ e.wrong = s.wrong BY <1>a, AtEndIs
<1>d. ~Past(s) => e = s BY <1>a, AtEndIs
<1>e. Past(s) /\ Ends(s) => e.stopped /\ e.ended BY <1>a, AtEndIs
<1>f. Past(s) /\ Turns(s) => ~e.valid /\ e.fresh /\ e.stopped = s.stopped BY <1>a, AtEndIs
<1>g. Past(s) /\ PlaysOn(s) => e.curr = s.curr /\ e.valid = s.valid /\ e.fresh = s.fresh /\ e.stopped = s.stopped
  BY <1>a, AtEndIs
<1>h. Past(s) /\ ~Ends(s) /\ ~Turns(s) /\ ~PlaysOn(s) => e.stopped BY <1>a, AtEndIs
<1>6. /\ e.pos = s.pos /\ e.at = s.at /\ e.wrong = s.wrong
      /\ ~Past(s) => e = s
      /\ Past(s) /\ Ends(s) => e.stopped /\ e.ended
      /\ Past(s) /\ Turns(s) => ~e.valid /\ e.fresh /\ e.stopped = s.stopped
      /\ Past(s) /\ PlaysOn(s) =>
           e.curr = s.curr /\ e.valid = s.valid /\ e.fresh = s.fresh /\ e.stopped = s.stopped
      /\ Past(s) /\ ~Ends(s) /\ ~Turns(s) /\ ~PlaysOn(s) => e.stopped
  BY <1>b, <1>d, <1>e, <1>f, <1>g, <1>h
<1> HIDE DEF e, w
<1>7. CASE ~(song.adpcm /\ song.ratio >= One)
  <2>1. voice'.wrong => voice'.par.ratio < One
    <3>1. CASE ~song.adpcm
      <4>1. ~Reads(v) BY <1>5, <3>1 DEF Reads
      <4> QED BY <1>1, <1>2, <1>3, <1>6, <4>1 DEF Walked
    <3>2. CASE ~(song.ratio >= One) BY <1>1, <1>3, <1>5, <3>2
    <3> QED BY <1>7, <3>1, <3>2
  <2> QED BY <1>4, <1>7, <2>1 DEF Walked
<1>8. CASE song.adpcm /\ song.ratio >= One
  <2>1. /\ ~v.stopped /\ ~v.wrong
        /\ ~v.fresh => v.valid /\ v.at = v.pos /\ Follows(v.pos, v.curr)
        /\ v.valid /\ v.k > 0 => Follows(v.pos, v.curr)
        /\ v.valid /\ v.k > 1 => v.at = v.pos
    BY <1>4, <1>5, <1>8 DEF Walked, Mixing
  <2>2. StepOf(v) \in 1 .. HistMax BY <1>1, <1>5, <1>8, StepBounds
  <2>3. Follows(s.pos, s.curr) BY <1>2, <1>5, <2>2 DEF Follows
  <2>4. ~v.fresh => Reads(v) /\ First(v) = v.at + 1
    BY <1>5, <1>8, <2>1 DEF Reads, First, Seeds, Follows
  <2>5. v.k > 0 => Reads(v)
    <3>1. CASE v.valid BY <1>5, <1>8, <2>1, <3>1 DEF Reads, First, Seeds, Follows
    <3>2. CASE ~v.valid BY <1>5, <1>8, <3>2 DEF Reads, First, Seeds
    <3> QED BY <3>1, <3>2
  <2>6. ~s.wrong BY <1>2, <2>1, <2>4
  <2>7. /\ ~s.fresh => s.at = s.pos
        /\ w.k > 1 => s.at = s.pos
    BY <1>2, <1>3, <1>5, <2>4, <2>5
  <2>8. ASSUME w.stopped PROVE mixer' = "write" /\ pb'.state = 0
    <3>1. CASE ~Past(s) BY <1>2, <1>3, <1>6, <2>1, <2>8, <3>1
    <3>2. CASE Past(s) /\ Ends(s) BY <1>1, <1>3, <1>4, <1>6, <2>8, <3>2
    <3>3. CASE Past(s) /\ Turns(s) BY <1>2, <1>3, <1>6, <2>1, <2>8, <3>3
    <3>4. CASE Past(s) /\ PlaysOn(s) BY <1>2, <1>3, <1>6, <2>1, <2>8, <3>4
    <3>5. CASE Past(s) /\ ~Ends(s) /\ ~Turns(s) /\ ~PlaysOn(s)
      <4>1. s.par.loop \in Nat /\ s.end \in Nat BY <1>2 DEF Voices, ParameterBlocks
      <4> QED BY <1>2, <1>5, <1>8, <3>5, <4>1 DEF Ends, Turns, PlaysOn
    <3> QED BY <3>1, <3>2, <3>3, <3>4, <3>5
  <2>9. ASSUME ~w.stopped
        PROVE  /\ ~w.fresh => w.valid /\ w.at = w.pos /\ Follows(w.pos, w.curr)
               /\ w.valid /\ w.k > 0 => Follows(w.pos, w.curr)
               /\ w.valid /\ w.k > 1 => w.at = w.pos
    <3>1. CASE ~Past(s) BY <1>2, <1>3, <1>6, <2>3, <2>7, <3>1
    <3>2. CASE Past(s) /\ Ends(s) BY <1>3, <1>6, <2>9, <3>2
    <3>3. CASE Past(s) /\ Turns(s) BY <1>3, <1>6, <3>3
    <3>4. CASE Past(s) /\ PlaysOn(s) BY <1>2, <1>3, <1>6, <2>3, <2>7, <3>4
    <3>5. CASE Past(s) /\ ~Ends(s) /\ ~Turns(s) /\ ~PlaysOn(s) BY <1>3, <1>6, <2>9, <3>5
    <3> QED BY <3>1, <3>2, <3>3, <3>4, <3>5
  <2>10. ~voice'.wrong BY <1>1, <1>3, <1>6, <2>6
  <2>11. Mixing' BY <1>4 DEF Mixing
  <2> QED BY <1>1, <1>4, <2>8, <2>9, <2>10, <2>11 DEF Walked
<1> QED BY <1>7, <1>8

LEMMA WalkedStep == ASSUME WithinHistory, IInv, Walked, [Next]_vars PROVE Walked'
<1>t. Types /\ Shaped /\ Framed BY DEF IInv
<1>c. /\ FrameLen \in Nat /\ HistMax \in Nat \ {0} /\ WordSpan \in Nat \ {0} /\ HistMax < WordSpan /\ One \in Nat \ {0}
  BY AudioAssumption
<1>p. song' = song
  BY DEF Next, Mixer, Game, Pace, ReadVoice, MixSample, WriteBack, PushFrame, Exit, Play,
        Interrupt, Start, StopVoice, Rewind, Refill, Stop, Over, vars, gameVars
<1>1. CASE ReadVoice
  <2>1. UNCHANGED <<pb, hist>> /\ mixer = "frame" /\ ~Mixing BY <1>1 DEF ReadVoice, gameVars, Mixing
  <2>2. CASE pb.state = 1 /\ pb.ratio # 0
    <3>1. /\ mixer' = "mix" /\ voice'.par = pb /\ voice'.curr = pb.curr /\ voice'.k = 0 /\ voice'.pos = hist.pos
          /\ voice'.valid = Carried(pb.curr) /\ voice'.at = walk.at /\ voice'.fresh = walk.free
          /\ ~voice'.wrong /\ ~voice'.stopped
      BY <1>1, <2>2 DEF ReadVoice, NoVoice
    <3>2. ASSUME song.adpcm, song.ratio >= One, ~walk.free
          PROVE  Carried(pb.curr) /\ walk.at = hist.pos /\ Follows(hist.pos, pb.curr)
      <4>1. hist.valid /\ walk.at = hist.pos /\ Follows(hist.pos, pb.curr) BY <2>1, <2>2, <3>2 DEF Walked
      <4>2. hist.pos \in Nat /\ pb.curr \in Nat BY <1>t DEF Types, ParameterBlocks
      <4>3. pb.curr - hist.pos \in Nat /\ pb.curr - hist.pos < HistMax BY <4>1, <4>2 DEF Follows
      <4> DEFINE d == pb.curr - hist.pos
      <4>4. d \in Nat /\ d < WordSpan BY <1>c, <4>3
      <4> HIDE DEF d
      <4>5. d % WordSpan = d BY <1>c, <4>4, SmallMod
      <4> QED BY <4>1, <4>2, <4>3, <4>5 DEF Carried, Follows, d
    <3> QED BY <1>p, <3>1, <3>2 DEF Walked, Mixing
  <2>3. CASE ~(pb.state = 1 /\ pb.ratio # 0)
    <3>1. pb.state # 1 BY <1>t, <2>3 DEF Types, ParameterBlocks
    <3>2. mixer' = "push" /\ voice' = voice BY <1>1, <2>3 DEF ReadVoice
    <3> QED BY <1>p, <2>1, <3>1, <3>2 DEF Walked, Mixing
  <2> QED BY <2>2, <2>3
<1>2. CASE MixSample BY <1>2, WalkedMix
<1>3. CASE WriteBack
  <2>1. /\ mixer = "write" /\ mixer' = "push" /\ pb'.curr = voice.curr /\ pb'.state = pb.state /\ voice' = voice
        /\ hist'.pos = voice.pos /\ hist'.valid = voice.valid /\ walk'.at = voice.at
        /\ (~walk'.free => ~walk.free /\ voice.valid)
    BY <1>3, <1>t DEF WriteBack, Types, ParameterBlocks
  <2>2. ASSUME song.adpcm, song.ratio >= One, pb.state = 1, ~walk'.free
        PROVE  voice.valid /\ voice.at = voice.pos /\ Follows(voice.pos, voice.curr)
    <3>1. ~voice.stopped BY <2>1, <2>2 DEF Walked, Mixing
    <3>2. voice.k = FrameLen /\ voice.k > 1 /\ voice.k > 0
      BY <1>c, <1>t, <2>1, <3>1 DEF Framed, Mixing, WithinHistory
    <3> QED BY <2>1, <2>2, <3>1, <3>2 DEF Walked, Mixing
  <2> QED BY <1>p, <2>1, <2>2 DEF Walked, Mixing
<1>4. CASE PushFrame
  <2>1. /\ UNCHANGED <<pb, hist, walk>> /\ ~Mixing /\ ~Mixing' /\ ~voice'.wrong
    BY <1>4 DEF PushFrame, gameVars, Mixing, NoVoice
  <2> QED BY <1>p, <2>1 DEF Walked
<1>5. CASE Pace \/ Exit
  <2>1. UNCHANGED <<pb, hist, walk, voice>> /\ ~Mixing /\ ~Mixing' BY <1>5 DEF Pace, Exit, gameVars, Mixing
  <2> QED BY <1>p, <2>1 DEF Walked
<1>6. CASE Start \/ Rewind
  <2>1. UNCHANGED <<hist, voice, mixer>> /\ walk'.free
    BY <1>6, <1>t DEF Start, Rewind, Types
  <2> QED BY <1>p, <2>1 DEF Walked, Mixing
<1>7. CASE StopVoice \/ Refill
  <2>1. UNCHANGED <<hist, voice, mixer, walk>> /\ (pb'.state = 0 \/ pb'.state = pb.state) /\ pb'.curr = pb.curr
    BY <1>7, <1>t DEF StopVoice, Refill, Types, ParameterBlocks
  <2>2. 0 # 1 OBVIOUS
  <2> QED BY <1>p, <2>1, <2>2 DEF Walked, Mixing
<1>8. CASE Play \/ Interrupt \/ Stop \/ UNCHANGED vars
  <2>1. UNCHANGED <<pb, hist, voice, mixer, walk>> BY <1>8 DEF Play, Interrupt, Stop, vars, gameVars
  <2> QED BY <1>p, <2>1 DEF Walked, Mixing
<1> QED BY <1>1, <1>2, <1>3, <1>4, <1>5, <1>6, <1>7, <1>8 DEF Next, Mixer, Game, Over

\* At a ratio of one and more the decoder sees each position once and in order, over any
\* number of frames, for as long as the game leaves the voice alone: the history carried
\* from frame to frame is where the predictor stands (ax_dsp.c:352, 726-751).
THEOREM DecodesTheorem == ASSUME WithinHistory PROVE Spec => []DecodesInOrder
<1>1. Init => Walked
  <2> SUFFICES ASSUME Init PROVE Walked OBVIOUS
  <2>1. pb.state = 0 /\ ~Mixing /\ ~voice.wrong BY DEF Init, Silent, NoVoice, Mixing
  <2> QED BY <2>1 DEF Walked
<1>2. IInv /\ Walked /\ [Next]_vars => Walked' BY WalkedStep
<1>3. Walked => DecodesInOrder BY DEF Walked, DecodesInOrder
<1> QED BY <1>1, <1>2, <1>3, Inductive, PTL DEF Spec

=============================================================================
