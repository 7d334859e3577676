----------------------------- MODULE RenderRing -----------------------------
(***************************************************************************)
(* The graphics stream between the game's thread and the render thread,    *)
(* host/display.c: a ring of bytes with one writer and one reader, lazy    *)
(* publication of the write position, a sleep/wake handshake, retrace      *)
(* marks that travel beside the stream, and the draw-done tokens that come *)
(* back.                                                                   *)
(*                                                                         *)
(* Every step is one access to a shared variable; accesses are             *)
(* sequentially consistent, as on the x86 hosts the code is built for.     *)
(* A byte is represented by its position in the stream.                    *)
(***************************************************************************)
EXTENDS Integers, FiniteSets

CONSTANTS Size,          \* GX_RING_SIZE
          PublishEvery,  \* GX_PUBLISH_EVERY
          Chunk,         \* the most one call parses, 65536
          MarkSlots,     \* GX_MARKS
          StoreSizes,    \* bytes in one store to the write-gather pipe
          MaxBytes,      \* bound: bytes the game writes
          MaxMarks,      \* bound: retraces
          MaxDones       \* bound: draw-done requests

ASSUME SizeAssumption == Size \in Nat \ {0} /\ Chunk \in Nat \ {0} /\ MarkSlots \in Nat \ {0}
ASSUME StoreAssumption == StoreSizes \subseteq 1..Size
ASSUME BoundAssumption == {PublishEvery, MaxBytes, MaxMarks, MaxDones} \subseteq Nat

VARIABLES
  ring, head, published, tail, waiting, stop,   \* s_ring, s_ring_head, ...
  marks, marksHead, marksTail,                  \* s_marks, s_marks_head, ...
  tokens,                                       \* draw_done_tokens
  mode,     \* s_gx_async and s_gx_thread: not started, on a thread, or inline
  locked,   \* the render thread holds s_gx_mutex
  gpc, gop, \* the game's thread: where it is, and in which call
  need,     \* the size of a store that has begun and not found room
  rpc,      \* the render thread
  pub, end, \* its locals: the published position it saw, where this parse ends
  at,       \* how far the stream has been parsed
  dones,    \* history: the bytes that complete a draw-done request
  answered  \* history: finish interrupts delivered

stream == <<ring, head, dones>>
marking == <<marks, marksHead, marksTail>>
render == <<rpc, pub, end, at, tail, waiting, locked>>
vars == <<ring, head, published, tail, waiting, stop, marks, marksHead, marksTail, tokens,
          mode, locked, gpc, gop, need, rpc, pub, end, at, dones, answered>>

GuestPlaces == {"play", "publish", "look", "signal", "return", "mark", "lookMark",
                "holding", "stopSignal", "join"}
GuestCalls == {"store", "flush", "poll", "retrace", "drain", "stop"}
RenderPlaces == {"off", "top", "load", "limit", "parse", "idle", "idleMarks", "idleStop", "lock", "flag",
                 "recheck", "recheckMarks", "recheckStop", "asleep", "woken", "unflag", "exited"}

Init ==
  /\ ring = [i \in 0..Size-1 |-> -1]
  /\ head = 0 /\ published = 0 /\ tail = 0 /\ waiting = FALSE /\ stop = FALSE
  /\ marks = [i \in 0..MarkSlots-1 |-> [pos |-> 0, retrace |-> -1]]
  /\ marksHead = 0 /\ marksTail = 0
  /\ tokens = 0 /\ mode = "unstarted" /\ locked = FALSE
  /\ gpc = "play" /\ gop = "store" /\ need = 0
  /\ rpc = "off" /\ pub = 0 /\ end = 0 /\ at = 0
  /\ dones = {} /\ answered = 0

MinOf(a, b) == IF a <= b THEN a ELSE b
MarksPending == marksHead # marksTail

-----------------------------------------------------------------------------
(* The game's thread. *)

\* gx_async_start succeeds, or the game parses inline from then on.
Start ==
  /\ mode = "unstarted" /\ gpc = "play" /\ need = 0
  /\ \/ mode' = "async" /\ rpc' = "top"
     \/ mode' = "inline" /\ UNCHANGED rpc
  /\ UNCHANGED <<stream, published, marking, tokens, tail, waiting, locked, stop, gpc, gop, need,
                 pub, end, at, answered>>

\* Mutant: one byte too many fits.
RoomForOneMore(size) == head + size - tail <= Size + 1
Room(size) == head + size - tail <= Size

\* The slot of the k-th byte after the head is the k-th slot after the head's, round the ring.
Written(size) == [i \in 0..Size-1 |->
  IF (i - head) % Size < size THEN head + ((i - head) % Size) ELSE ring[i]]

\* gx_push with room: the bytes go in, and a full batch is published.
Store(size, done) ==
  /\ mode = "async" /\ gpc = "play" /\ need \in {0, size}
  /\ Room(size) /\ head + size <= MaxBytes /\ (done => Cardinality(dones) < MaxDones)
  /\ ring' = Written(size)
  /\ head' = head + size
  /\ dones' = IF done THEN dones \cup {head + size - 1} ELSE dones
  /\ need' = 0 /\ gop' = "store"
  /\ gpc' = IF head' - published >= PublishEvery THEN "publish" ELSE "play"
  /\ UNCHANGED <<published, stop, marking, tokens, mode, render, answered>>

\* gx_push without room: publish what there is and look again.
StoreFull(size) ==
  /\ mode = "async" /\ gpc = "play" /\ need \in {0, size}
  /\ ~Room(size) /\ head + size <= MaxBytes
  /\ need' = size /\ gop' = "store" /\ gpc' = "publish"
  /\ UNCHANGED <<stream, published, stop, marking, tokens, mode, render, answered>>

\* With no render thread the parser consumes the store at once.
StoreInline(size, done) ==
  /\ mode = "inline" /\ gpc = "play" /\ head + size <= MaxBytes /\ (done => Cardinality(dones) < MaxDones)
  /\ head' = head + size
  /\ at' = at + size
  /\ dones' = IF done THEN dones \cup {head + size - 1} ELSE dones
  /\ tokens' = IF done THEN tokens + 1 ELSE tokens
  /\ UNCHANGED <<ring, published, stop, marking, mode, gpc, gop, need, rpc, pub, end,
                 tail, waiting, locked, answered>>

\* Mutant: the poll looks for a token without publishing first.
CallPollUnpublished(op) ==
  /\ mode # "unstarted" /\ gpc = "play" /\ need = 0
  /\ op \in {"drain", "stop"} => mode = "async"
  /\ op = "retrace" => mode = "async" /\ marksHead < MaxMarks
  /\ gop' = op /\ gpc' = IF op = "poll" THEN "return" ELSE "publish"
  /\ UNCHANGED <<stream, published, stop, marking, tokens, mode, need, render, answered>>

\* The other calls begin by publishing.
Call(op) ==
  /\ mode # "unstarted" /\ gpc = "play" /\ need = 0
  /\ op \in {"drain", "stop"} => mode = "async"
  /\ op = "retrace" => mode = "async" /\ marksHead < MaxMarks
  /\ gop' = op /\ gpc' = "publish"
  /\ UNCHANGED <<stream, published, stop, marking, tokens, mode, need, render, answered>>

\* gx_publish: the early return, or the store of the position.
Publish ==
  /\ gpc = "publish"
  /\ IF mode # "async" \/ head = published
     THEN UNCHANGED published /\ gpc' = "return"
     ELSE published' = head /\ gpc' = "look"
  /\ UNCHANGED <<stream, stop, marking, tokens, mode, gop, need, render, answered>>

\* gx_publish and mgs_display_gx_retrace both look at the flag after storing;
\* the retrace has nothing left to do then.
Look ==
  /\ gpc \in {"look", "lookMark"}
  /\ gpc' = IF waiting THEN "signal" ELSE IF gpc = "look" THEN "return" ELSE "play"
  /\ gop' = IF gpc = "lookMark" THEN "store" ELSE gop
  /\ UNCHANGED <<stream, published, stop, marking, tokens, mode, need, render, answered>>

\* SDL_SignalCondition, under the mutex.
Wake == rpc' = IF rpc = "asleep" THEN "woken" ELSE rpc

Signal ==
  /\ gpc \in {"signal", "stopSignal"} /\ ~locked
  /\ Wake
  /\ gpc' = IF gpc = "signal" THEN "return" ELSE "join"
  /\ UNCHANGED <<stream, published, stop, marking, tokens, mode, gop, need, pub, end, at,
                 tail, waiting, locked, answered>>

\* A store or a flush has published: the game goes on.
ReturnPlain ==
  /\ gpc = "return" /\ gop \in {"store", "flush"}
  /\ gpc' = "play"
  /\ UNCHANGED <<stream, published, stop, marking, tokens, mode, gop, need, render, answered>>

\* mgs_gx_take_draw_done.
TakeToken ==
  /\ gpc = "return" /\ gop = "poll"
  /\ IF tokens > 0 THEN tokens' = tokens - 1 /\ gpc' = "holding"
                   ELSE UNCHANGED tokens /\ gpc' = "play"
  /\ UNCHANGED <<stream, published, stop, marking, mode, gop, need, render, answered>>

\* Mutant: a refused finish interrupt loses its token.
OfferTokenOnce ==
  /\ gpc = "holding"
  /\ \/ answered' = answered + 1
     \/ UNCHANGED answered
  /\ gpc' = "play"
  /\ UNCHANGED <<stream, published, stop, marking, tokens, mode, gop, need, render>>

\* mgs_interrupt_pe_finish: the raise is delivered, or refused and the token put back.
OfferToken ==
  /\ gpc = "holding"
  /\ \/ answered' = answered + 1 /\ UNCHANGED tokens
     \/ tokens' = tokens + 1 /\ UNCHANGED answered
  /\ gpc' = "play"
  /\ UNCHANGED <<stream, published, stop, marking, mode, gop, need, render>>

MarkRoom == marksHead - marksTail < MarkSlots

\* mgs_display_gx_retrace: the mark, or nothing when all slots are taken.
Mark ==
  /\ gpc = "return" /\ gop = "retrace" /\ MarkRoom
  /\ marks' = [marks EXCEPT ![marksHead % MarkSlots] = [pos |-> head, retrace |-> marksHead]]
  /\ gpc' = "mark"
  /\ UNCHANGED <<stream, published, stop, marksHead, marksTail, tokens, mode, gop, need, render, answered>>

MarkDropped ==
  /\ gpc = "return" /\ gop = "retrace" /\ ~MarkRoom
  /\ gpc' = "play"
  /\ UNCHANGED <<stream, published, stop, marking, tokens, mode, gop, need, render, answered>>

\* Mutant: a retrace does not look whether the render thread sleeps.
MarkPublishQuiet ==
  /\ gpc = "mark"
  /\ marksHead' = marksHead + 1
  /\ gpc' = "play"
  /\ UNCHANGED <<stream, published, stop, marks, marksTail, tokens, mode, gop, need, render, answered>>

MarkPublish ==
  /\ gpc = "mark"
  /\ marksHead' = marksHead + 1
  /\ gpc' = "lookMark"
  /\ UNCHANGED <<stream, published, stop, marks, marksTail, tokens, mode, gop, need, render, answered>>

\* Mutant: drain is content when the last bytes have been handed to the parser.
DrainedHanded == end = head
Drained == tail = head

\* mgs_display_gx_drain's wait is over.
ReturnDrained ==
  /\ gpc = "return" /\ gop = "drain" /\ Drained
  /\ gpc' = "play"
  /\ UNCHANGED <<stream, published, stop, marking, tokens, mode, gop, need, render, answered>>

\* mgs_display_gx_stop: drained, so tell the render thread and join it.
StopStore ==
  /\ gpc = "return" /\ gop = "stop" /\ Drained
  /\ stop' = TRUE /\ gpc' = "stopSignal"
  /\ UNCHANGED <<stream, published, marking, tokens, mode, gop, need, render, answered>>

Join ==
  /\ gpc = "join" /\ rpc = "exited"
  /\ mode' = "inline" /\ gpc' = "play"
  /\ UNCHANGED <<stream, published, stop, marking, tokens, gop, need, render, answered>>

-----------------------------------------------------------------------------
(* The render thread, gx_thread_main. *)

guest == <<stream, published, stop, mode, gpc, gop, need, answered>>

\* gx_marks_run: every mark the stream has reached.
MarkReached == MarksPending /\ marks[marksTail % MarkSlots].pos <= tail

RunMark ==
  /\ rpc = "top" /\ MarkReached
  /\ marksTail' = marksTail + 1
  /\ UNCHANGED <<guest, marks, marksHead, tokens, render>>

MarksDone ==
  /\ rpc = "top" /\ ~MarkReached
  /\ rpc' = "load"
  /\ UNCHANGED <<guest, marking, tokens, pub, end, at, tail, waiting, locked>>

Load ==
  /\ rpc = "load"
  /\ pub' = published
  /\ rpc' = IF published = tail THEN "idle" ELSE "limit"
  /\ UNCHANGED <<guest, marking, tokens, end, at, tail, waiting, locked>>

\* To the published position, the end of the ring's memory, or a chunk.
ParseEnd == tail + MinOf(MinOf(pub - tail, Size - (tail % Size)), Chunk)

\* gx_marks_limit: the next mark stops the parse only when it is ahead of the tail.
Limit ==
  /\ rpc = "limit"
  /\ LET pos == marks[marksTail % MarkSlots].pos
     IN  end' = IF MarksPending /\ pos > tail THEN MinOf(ParseEnd, pos) ELSE ParseEnd
  /\ rpc' = "parse"
  /\ UNCHANGED <<guest, marking, tokens, pub, at, tail, waiting, locked>>

\* mgs_gx_write_bytes, a byte at a time: a draw-done request adds a token.
ParseByte ==
  /\ rpc = "parse" /\ at < end
  /\ at' = at + 1
  /\ tokens' = IF ring[at % Size] \in dones THEN tokens + 1 ELSE tokens
  /\ UNCHANGED <<guest, marking, rpc, pub, end, tail, waiting, locked>>

Parsed ==
  /\ rpc = "parse" /\ at = end
  /\ tail' = end /\ rpc' = "top"
  /\ UNCHANGED <<guest, marking, tokens, pub, end, at, waiting, locked>>

\* A test of the wait path: work sends the thread back to `found`.
Test(from, work, found, next) ==
  /\ rpc = from
  /\ rpc' = IF work THEN found ELSE next
  /\ UNCHANGED <<guest, marking, tokens, pub, end, at, tail, waiting>>

\* The spin has given up: the tests before the lock is taken.
Idle == /\ \/ Test("idle", published # tail, "top", "idleMarks")
           \/ Test("idleMarks", MarksPending, "top", "idleStop")
           \/ Test("idleStop", stop, "exited", "lock")
        /\ UNCHANGED locked

Lock ==
  /\ rpc = "lock"
  /\ locked' = TRUE /\ rpc' = "flag"
  /\ UNCHANGED <<guest, marking, tokens, pub, end, at, tail, waiting>>

Flag ==
  /\ rpc = "flag"
  /\ waiting' = TRUE /\ rpc' = "recheck"
  /\ UNCHANGED <<guest, marking, tokens, pub, end, at, tail, locked>>

\* Mutant: the marks are not looked at again once the flag is up.
RecheckNoMarks ==
  \/ Test("recheck", published # tail, "unflag", "recheckStop") /\ UNCHANGED locked
  \/ Test("recheckStop", stop, "unflag", "asleep") /\ locked' = stop
\* The tests under the lock; falling asleep gives it up.
Recheck ==
  \/ Test("recheck", published # tail, "unflag", "recheckMarks") /\ UNCHANGED locked
  \/ Test("recheckMarks", MarksPending, "unflag", "recheckStop") /\ UNCHANGED locked
  \/ Test("recheckStop", stop, "unflag", "asleep") /\ locked' = stop

\* SDL_WaitConditionTimeout's two milliseconds.
Timeout ==
  /\ rpc = "asleep"
  /\ rpc' = "woken"
  /\ UNCHANGED <<guest, marking, tokens, pub, end, at, tail, waiting, locked>>

Relock ==
  /\ rpc = "woken"
  /\ locked' = TRUE /\ rpc' = "unflag"
  /\ UNCHANGED <<guest, marking, tokens, pub, end, at, tail, waiting>>

Unflag ==
  /\ rpc = "unflag"
  /\ waiting' = FALSE /\ locked' = FALSE /\ rpc' = "top"
  /\ UNCHANGED <<guest, marking, tokens, pub, end, at, tail>>

-----------------------------------------------------------------------------
GuestStep == \/ Publish \/ Look \/ Signal \/ ReturnPlain \/ TakeToken \/ OfferToken
             \/ Mark \/ MarkDropped \/ MarkPublish \/ ReturnDrained \/ StopStore \/ Join
             \/ \E size \in StoreSizes : need = size /\ (StoreFull(size) \/ \E done \in BOOLEAN : Store(size, done))
GuestBegins == \/ Start
               \/ \E size \in StoreSizes : need = 0 /\ StoreFull(size)
               \/ \E size \in StoreSizes, done \in BOOLEAN :
                    \/ need = 0 /\ Store(size, done)
                    \/ StoreInline(size, done)
               \/ \E op \in GuestCalls \ {"store"} : Call(op)
RenderStep == \/ RunMark \/ MarksDone \/ Load \/ Limit \/ ParseByte \/ Parsed
              \/ Idle \/ Lock \/ Flag \/ Recheck \/ Relock \/ Unflag

Next == GuestStep \/ GuestBegins \/ RenderStep \/ Timeout

\* Both threads run, and the game's run loop keeps polling for a draw-done
\* (host/module.c, every 512 ticks).  The timeout is not relied on.
Fairness == WF_vars(GuestStep) /\ WF_vars(RenderStep) /\ SF_vars(Call("poll"))

Spec == Init /\ [][Next]_vars
FairSpec == Spec /\ Fairness

-----------------------------------------------------------------------------
(* Properties *)

\* Every variable keeps the type of its C declaration.
TypeOK ==
  /\ ring \in [0..Size-1 -> Int]
  /\ head \in Nat /\ published \in Nat /\ tail \in Nat
  /\ waiting \in BOOLEAN /\ stop \in BOOLEAN /\ locked \in BOOLEAN
  /\ marks \in [0..MarkSlots-1 -> [pos : Nat, retrace : Int]]
  /\ marksHead \in Nat /\ marksTail \in Nat
  /\ tokens \in Nat /\ mode \in {"unstarted", "async", "inline"}
  /\ gpc \in GuestPlaces /\ gop \in GuestCalls /\ need \in Nat
  /\ rpc \in RenderPlaces /\ pub \in Nat /\ end \in Nat /\ at \in Nat
  /\ dones \in SUBSET Nat /\ answered \in Nat

\* The ring's positions never cross: the reader is behind what was published,
\* what was published is behind the writer, and the writer never laps the
\* reader's published tail.
Positions == mode = "async" =>
  /\ tail <= at /\ at <= published /\ published <= head /\ head <= tail + Size
  /\ rpc = "parse" => at <= end /\ end <= published
  /\ rpc # "parse" => at = tail

\* No byte the parser still has to read has been overwritten.
Intact == mode = "async" => \A k \in at..head-1 : ring[k % Size] = k

\* One call of the parser never reads past the end of the ring's memory.
ParseContiguous == rpc = "parse" => end - tail <= Size - (tail % Size)

\* No retrace mark is overwritten before it has run.
MarksIntact == \A m \in marksTail..marksHead-1 : marks[m % MarkSlots].retrace = m

\* Each draw-done request the parser has executed is one token, one offer in
\* progress or one interrupt delivered.
TokensConserved ==
  tokens + answered + (IF gpc = "holding" THEN 1 ELSE 0) = Cardinality({k \in dones : k < at})

\* The stream's invariant: what lets two threads share the ring without a lock,
\* and the finish tokens with the game's interrupt offers.
RingInv == /\ TypeOK /\ Positions /\ Intact /\ ParseContiguous
           /\ MarksIntact /\ TokensConserved

\* The render thread never sleeps on work or on a stop without the game's
\* thread being on its way to wake it: the flag and the positions are
\* enough, the timeout is "a backstop, not the mechanism" (display.c:356).
NoLostWakeup == rpc = "asleep" =>
  /\ published # tail => gpc \in {"look", "signal"}
  /\ MarksPending => gpc \in {"lookMark", "signal", "look"}
  /\ stop => gpc = "stopSignal"

\* When mgs_display_gx_drain returns, every byte the game has written has
\* been parsed, and nothing is left when the render thread has gone.
DrainMeansParsed ==
  [][gpc = "return" /\ gop \in {"drain", "stop"} /\ gpc' \in {"play", "stopSignal"} => at = head]_vars

\* Every byte the game writes is parsed in the end, however small the batch it
\* sits in and whenever the render thread sleeps, and every retrace's mark is
\* acted on, or the render thread is being stopped.
StreamRuns ==
  /\ \A k \in 0..MaxBytes-1 : head > k ~> at > k
  /\ \A m \in 0..MaxMarks-1 : marksHead > m ~> marksTail > m \/ stop

\* No byte written after a retrace is parsed before the retrace's mark has
\* run (display.c:294: the render thread acts on a mark "when it gets there").
\* The code does not keep it, and no run checks it: README, section 6.
MarkNotPassed == mode = "async" => \A m \in marksTail..marksHead-1 : at <= marks[m % MarkSlots].pos
=============================================================================
