-------------------------- MODULE RenderRingProofs --------------------------
(***************************************************************************)
(* Proofs about RenderRing for any ring, batch, chunk and mark-table size, *)
(* any store sizes and any bounds: the ring's invariant, the wake-up       *)
(* without the timeout, and what drain promises.                           *)
(***************************************************************************)
EXTENDS RenderRing, FiniteSetTheorems, TLAPS

USE SizeAssumption, StoreAssumption, BoundAssumption

-----------------------------------------------------------------------------
(* The inductive invariant *)

Held == {"flag", "recheck", "recheckMarks", "recheckStop", "unflag"}
Flagged == {"recheck", "recheckMarks", "recheckStop", "asleep", "woken", "unflag"}

\* Which threads exist in each mode, and which calls need the render thread.
Threads ==
  /\ mode = "unstarted" => rpc = "off" /\ gpc = "play"
  /\ mode = "inline" => rpc \in {"off", "exited"}
  /\ mode = "async" => rpc # "off"
  /\ gpc \in {"publish", "look", "signal", "return"} /\ gop \in {"drain", "stop"} => mode = "async"
  /\ gpc \in {"stopSignal", "join"} => mode = "async" /\ tail = head

\* The mutex and s_gx_waiting as functions of the render thread's place.
Flags == /\ rpc \in Held => locked = TRUE
         /\ rpc \notin Held => locked = FALSE
         /\ rpc \in Flagged => waiting = TRUE
         /\ rpc \notin Flagged => waiting = FALSE

\* Without a render thread the parser is level with the writer; before the
\* start nothing has been written.
Level == /\ mode # "async" => at = head
         /\ mode = "unstarted" => head = 0 /\ published = 0 /\ tail = 0

\* A parse has something to read, and reads only what was published.
Ahead == /\ rpc = "limit" => tail < pub /\ pub <= published
         /\ rpc = "parse" => tail < end

\* The mark being written has a slot of its own until it is published.
MarkHeld == /\ marksTail <= marksHead
            /\ gpc = "mark" => /\ marksHead - marksTail < MarkSlots
                               /\ marks[marksHead % MarkSlots].retrace = marksHead

\* A request lies in what has been written.
DonesWritten == dones \subseteq 0..head-1

\* After each look the render thread takes with the flag up, what the look was
\* for is still absent or the game's thread is about to see the flag.
Watched ==
  /\ rpc \in {"recheckMarks", "recheckStop", "asleep"} /\ published # tail => gpc \in {"look", "signal"}
  /\ rpc \in {"recheckStop", "asleep"} /\ MarksPending => gpc \in {"lookMark", "signal"}
  /\ rpc = "asleep" /\ stop => gpc = "stopSignal"

IInv == /\ RingInv /\ Threads /\ Flags /\ Level /\ Ahead /\ MarkHeld /\ DonesWritten /\ Watched

-----------------------------------------------------------------------------
(* Slots of a ring *)

\* What % and \div mean.
LEMMA Division ==
  ASSUME NEW n \in Nat \ {0}, NEW x \in Int
  PROVE  /\ x % n \in 0..n-1
         /\ \E q \in Int : x = n * q + (x % n)
<1>1. x % n \in 0..n-1 OBVIOUS
<1>2. x = n * (x \div n) + (x % n) /\ x \div n \in Int OBVIOUS
<1> QED BY <1>1, <1>2

\* The first half alone, for the provers.
LEMMA SlotInRange ==
  ASSUME NEW n \in Nat \ {0}, NEW x \in Int
  PROVE  x % n \in 0..n-1
  OBVIOUS

\* The remainder is the only one in its range.
LEMMA Remainder ==
  ASSUME NEW n \in Nat \ {0}, NEW q \in Int, NEW r \in 0..n-1
  PROVE  (n * q + r) % n = r
<1> DEFINE x == n * q + r
<1>1. x \in Int OBVIOUS
<1>2. PICK p \in Int : x = n * p + (x % n) BY <1>1, Division
<1>3. x % n \in 0..n-1 BY <1>1, Division
<1> DEFINE s == x % n
<1>6. s \in 0..n-1 /\ n * q + r = n * p + s BY <1>2, <1>3
<1> HIDE DEF s, x
<1>4. \A d \in Int : d >= 1 => n * d >= n
  <2> TAKE d \in Int
  <2> HAVE d >= 1
  <2>1. n * (d - 1) >= 0 OBVIOUS
  <2>2. n * (d - 1) = n * d - n OBVIOUS
  <2>3. n * d \in Int OBVIOUS
  <2> QED BY <2>1, <2>2, <2>3
<1>5. n * (p - q) = r - s /\ n * (q - p) = s - r BY <1>6
<1>7. p = q
  <2>1. CASE p - q >= 1 BY <2>1, <1>4, <1>5, <1>6
  <2>2. CASE q - p >= 1 BY <2>2, <1>4, <1>5, <1>6
  <2> QED BY <2>1, <2>2
<1> QED BY <1>5, <1>7, <1>6 DEF s, x

\* Counted from position h, the slot of a position at most a lap away.
LEMMA SlotOffset ==
  ASSUME NEW n \in Nat \ {0}, NEW k \in Int, NEW h \in Int
  PROVE  /\ k - h \in 0..n-1 => ((k % n) - h) % n = k - h
         /\ k - h \in -n..-1 => ((k % n) - h) % n = k - h + n
<1>1. PICK q \in Int : k = n * q + (k % n) BY Division
<1>2. k % n \in Int BY Division
<1> DEFINE s == k % n
<1>3. k = n * q + s /\ s \in Int BY <1>1, <1>2
<1> HIDE DEF s
<1>4. CASE k - h \in 0..n-1
  <2> DEFINE r == k - h
  <2>1. s - h = n * (-q) + r
    <3>1. n * (-q) = -(n * q) /\ n * q \in Int OBVIOUS
    <3> QED BY <1>3, <3>1
  <2>2. r \in 0..n-1 /\ -q \in Int BY <1>4
  <2> HIDE DEF r
  <2>3. (n * (-q) + r) % n = r BY <2>2, Remainder
  <2>4. (s - h) % n = r BY <2>1, <2>3
  <2> QED BY <2>4, <1>4 DEF s, r
<1>5. CASE k - h \in -n..-1
  <2> DEFINE r == k - h + n
             p == -q - 1
  <2>1. s - h = n * p + r
    <3>1. n * (-q - 1) = -(n * q) - n /\ n * q \in Int OBVIOUS
    <3> QED BY <1>3, <3>1
  <2>2. r \in 0..n-1 /\ p \in Int BY <1>5
  <2> HIDE DEF r, p
  <2>3. (n * p + r) % n = r BY <2>2, Remainder
  <2>4. (s - h) % n = r BY <2>1, <2>3
  <2> QED BY <2>4, <1>5 DEF s, r
<1> QED BY <1>4, <1>5 DEF s

\* Positions less than a lap apart are in different slots.
LEMMA SlotsDistinct ==
  ASSUME NEW n \in Nat \ {0}, NEW a \in Int, NEW b \in Int, a < b, b - a < n
  PROVE  a % n # b % n
<1>1. b - a \in 0..n-1 /\ a - a \in 0..n-1 /\ b - a # a - a OBVIOUS
<1>2. ((b % n) - a) % n = b - a BY <1>1, SlotOffset
<1>3. ((a % n) - a) % n = a - a BY <1>1, SlotOffset
<1> QED BY <1>1, <1>2, <1>3
\* Where a store of `size` bytes at `h` puts byte k of the last lap, and where it does not.
LEMMA StoreSlots ==
  ASSUME NEW n \in Nat \ {0}, NEW h \in Int, NEW t \in Int, NEW size \in 1..n, NEW k \in Int,
         h + size <= t + n, t <= k, k < h + size
  PROVE  /\ k >= h => ((k % n) - h) % n = k - h
         /\ k < h => ((k % n) - h) % n >= size
<1>1. k - h < n /\ k - h >= -n + size /\ k - h \in Int OBVIOUS
<1>2. CASE k >= h
  <2>1. k - h \in 0..n-1 BY <1>1, <1>2
  <2>2. ((k % n) - h) % n = k - h BY <2>1, SlotOffset
  <2> QED BY <2>2, <1>2
<1>3. CASE k < h
  <2>1. k - h \in -n..-1 BY <1>1, <1>3
  <2>2. ((k % n) - h) % n = k - h + n BY <2>1, SlotOffset
  <2> QED BY <2>2, <1>1, <1>3
<1> QED BY <1>2, <1>3

-----------------------------------------------------------------------------
(* Every action keeps the invariant *)

\* The draw-done requests the parser has executed.
Executed == {k \in dones : k < at}

LEMMA ExecutedFinite ==
  ASSUME TypeOK, DonesWritten
  PROVE  IsFiniteSet(Executed) /\ Cardinality(Executed) \in Nat
<1>1. head - 1 \in Int BY DEF TypeOK
<1>2. IsFiniteSet(0..head-1) BY <1>1, FS_Interval
<1>3. Executed \in SUBSET (0..head-1) BY DEF DonesWritten, Executed
<1> QED BY <1>2, <1>3, FS_Subset, FS_CardinalityType

LEMMA StartIInv ==
  ASSUME IInv, Start
  PROVE  IInv'
<1> USE DEF Start, stream, marking, render, guest
<1>i. /\ TypeOK /\ Positions /\ Intact /\ ParseContiguous /\ MarksIntact /\ TokensConserved
      /\ Threads /\ Flags /\ Level /\ Ahead /\ MarkHeld /\ DonesWritten /\ Watched
  BY DEF IInv, RingInv
<1>1. TypeOK'
  <2>1. mode' \in {"unstarted", "async", "inline"} /\ rpc' \in RenderPlaces
    BY <1>i DEF TypeOK, RenderPlaces
  <2> QED BY <1>i, <2>1 DEF TypeOK
<1>2. Threads' /\ Flags' BY <1>i DEF TypeOK, Threads, Flags, Held, Flagged
<1>3. Watched' BY <1>i DEF TypeOK, Watched, MarksPending, Flags, Flagged, Held, Threads
<1>4. Positions' /\ Level' /\ Ahead' BY <1>i DEF TypeOK, Positions, Level, Ahead, Threads
<1>5. Intact' /\ DonesWritten' BY <1>i DEF TypeOK, Intact, DonesWritten, Positions, Level, Threads
<1>6. ParseContiguous' BY <1>i DEF TypeOK, ParseContiguous
<1>7. MarksIntact' /\ MarkHeld' BY <1>i DEF TypeOK, MarksIntact, MarkHeld
<1>8. TokensConserved' BY <1>i DEF TypeOK, TokensConserved
<1> QED BY <1>1, <1>2, <1>3, <1>4, <1>5, <1>6, <1>7, <1>8 DEF IInv, RingInv

LEMMA StoreIInv ==
  ASSUME IInv, NEW size \in StoreSizes, NEW done \in BOOLEAN, Store(size, done)
  PROVE  IInv'
<1> USE DEF Store, Room, stream, marking, render, guest
<1>i. /\ TypeOK /\ Positions /\ Intact /\ ParseContiguous /\ MarksIntact /\ TokensConserved
      /\ Threads /\ Flags /\ Level /\ Ahead /\ MarkHeld /\ DonesWritten /\ Watched
  BY DEF IInv, RingInv
<1>1. TypeOK'
  <2>1. \A i \in 0..Size-1 : (i - head) % Size \in 0..Size-1
    <3> TAKE i \in 0..Size-1
    <3>1. i - head \in Int BY <1>i DEF TypeOK
    <3> QED BY <3>1, SlotInRange
  <2>2. Written(size) \in [0..Size-1 -> Int] BY <1>i, <2>1 DEF TypeOK, Written
  <2>h. head \in Nat /\ size \in 1..Size BY <1>i DEF TypeOK
  <2>3. size \in Nat \ {0} /\ head' \in Nat BY <2>h
  <2>4. dones' \in SUBSET Nat BY <1>i, <2>3 DEF TypeOK
  <2> QED BY <1>i, <2>2, <2>3, <2>4 DEF TypeOK, GuestPlaces, GuestCalls, RenderPlaces
<1>2. Threads' /\ Flags' BY <1>i DEF TypeOK, Threads, Flags, Held, Flagged
<1>3. Watched' BY <1>i DEF TypeOK, Watched, MarksPending, Flags, Flagged, Held, Threads
<1>4. Positions' /\ Level' /\ Ahead' BY <1>i DEF TypeOK, Positions, Level, Ahead, Threads
<1>5. Intact' /\ DonesWritten'
  <2>t. size \in 1..Size /\ head \in Nat /\ tail \in Nat /\ at \in Nat /\ ring \in [0..Size-1 -> Int]
    BY <1>i DEF TypeOK
  <2>p. tail <= at /\ head <= tail + Size BY <1>i DEF Positions, TypeOK
  <2>1. ASSUME NEW k \in at..head'-1 PROVE ring'[k % Size] = k
    <3> DEFINE o == ((k % Size) - head) % Size
    <3>0. k \in Int /\ head' = head + size BY <2>t
    <3>1. k \in Int /\ k % Size \in 0..Size-1 BY <3>0, SlotInRange
    <3>2. ring'[k % Size] = IF o < size THEN head + o ELSE ring[k % Size]
      BY <3>1 DEF Written
    <3>3. /\ k >= head => o = k - head
          /\ k < head => o >= size
      <4>1. head \in Int /\ tail \in Int /\ Size \in Nat \ {0} /\ size \in 1..Size /\ k \in Int BY <3>0, <2>t
      <4>2. head + size <= tail + Size /\ tail <= k /\ k < head + size BY <3>0, <2>t, <2>p DEF Room
      <4> QED BY <4>1, <4>2, StoreSlots
    <3>4. CASE k >= head BY <3>4, <3>3, <3>2, <3>0, <2>t
    <3>5. CASE k < head
      <4>0. k \in at..head-1 BY <3>0, <2>t, <3>5
      <4>1. ring[k % Size] = k BY <4>0, <1>i DEF Intact
      <4>2. o \in Int BY <3>1, <2>t, SlotInRange
      <4> QED BY <4>1, <4>2, <3>2, <3>3, <3>5, <2>t
    <3> QED BY <3>4, <3>5, <3>0, <2>t
  <2>2. Intact' BY <2>1 DEF Intact
  <2>3. DonesWritten'
    <3>1. 0..head-1 \subseteq 0..head'-1 /\ head + size - 1 \in 0..head'-1 BY <2>t
    <3>2. dones \subseteq 0..head-1 BY <1>i DEF DonesWritten
    <3> QED BY <3>1, <3>2 DEF DonesWritten
  <2> QED BY <2>2, <2>3
<1>6. ParseContiguous' BY <1>i DEF TypeOK, ParseContiguous
<1>7. MarksIntact' /\ MarkHeld' BY <1>i DEF TypeOK, MarksIntact, MarkHeld
<1>8. TokensConserved'
  <2>0. head \in Nat /\ published \in Nat /\ at \in Nat /\ size \in 1..Size BY <1>i DEF TypeOK
  <2>p. at <= published /\ published <= head BY <1>i DEF Positions
  <2>1. head + size - 1 >= at BY <2>0, <2>p
  <2>2. Executed' = Executed BY <2>0, <2>1 DEF Executed
  <2> QED BY <1>i, <2>2 DEF TokensConserved, Executed
<1> QED BY <1>1, <1>2, <1>3, <1>4, <1>5, <1>6, <1>7, <1>8 DEF IInv, RingInv

LEMMA StoreFullIInv ==
  ASSUME IInv, NEW size \in StoreSizes, StoreFull(size)
  PROVE  IInv'
<1> USE DEF StoreFull, Room, stream, marking, render, guest
<1>i. /\ TypeOK /\ Positions /\ Intact /\ ParseContiguous /\ MarksIntact /\ TokensConserved
      /\ Threads /\ Flags /\ Level /\ Ahead /\ MarkHeld /\ DonesWritten /\ Watched
  BY DEF IInv, RingInv
<1>1. TypeOK' BY <1>i DEF TypeOK, GuestPlaces, GuestCalls, RenderPlaces
<1>2. Threads' /\ Flags' BY <1>i DEF TypeOK, Threads, Flags, Held, Flagged
<1>3. Watched' BY <1>i DEF TypeOK, Watched, MarksPending, Flags, Flagged, Held, Threads
<1>4. Positions' /\ Level' /\ Ahead' BY <1>i DEF TypeOK, Positions, Level, Ahead, Threads
<1>5. Intact' /\ DonesWritten' BY <1>i DEF TypeOK, Intact, DonesWritten, Positions, Level, Threads
<1>6. ParseContiguous' BY <1>i DEF TypeOK, ParseContiguous
<1>7. MarksIntact' /\ MarkHeld' BY <1>i DEF TypeOK, MarksIntact, MarkHeld
<1>8. TokensConserved' BY <1>i DEF TypeOK, TokensConserved
<1> QED BY <1>1, <1>2, <1>3, <1>4, <1>5, <1>6, <1>7, <1>8 DEF IInv, RingInv

LEMMA StoreInlineIInv ==
  ASSUME IInv, NEW size \in StoreSizes, NEW done \in BOOLEAN, StoreInline(size, done)
  PROVE  IInv'
<1> USE DEF StoreInline, stream, marking, render, guest
<1>i. /\ TypeOK /\ Positions /\ Intact /\ ParseContiguous /\ MarksIntact /\ TokensConserved
      /\ Threads /\ Flags /\ Level /\ Ahead /\ MarkHeld /\ DonesWritten /\ Watched
  BY DEF IInv, RingInv
<1>1. TypeOK' BY <1>i DEF TypeOK, GuestPlaces, GuestCalls, RenderPlaces
<1>2. Threads' /\ Flags' BY <1>i DEF TypeOK, Threads, Flags, Held, Flagged
<1>3. Watched' BY <1>i DEF TypeOK, Watched, MarksPending, Flags, Flagged, Held, Threads
<1>4. Positions' /\ Level' /\ Ahead' BY <1>i DEF TypeOK, Positions, Level, Ahead, Threads
<1>5. Intact' /\ DonesWritten' BY <1>i DEF TypeOK, Intact, DonesWritten, Positions, Level, Threads
<1>6. ParseContiguous' BY <1>i DEF TypeOK, ParseContiguous
<1>7. MarksIntact' /\ MarkHeld' BY <1>i DEF TypeOK, MarksIntact, MarkHeld
<1>8. TokensConserved'
  <2>1. at = head /\ at' = head' /\ size \in Nat \ {0} /\ head \in Nat BY <1>i DEF Level, TypeOK
  <2>w. \A k \in dones : k \in Int /\ k < head BY <1>i, <2>1 DEF DonesWritten
  <2>v. \A k \in dones' : k < head' BY <2>w, <2>1
  <2>2. Executed = dones /\ Executed' = dones' BY <2>1, <2>w, <2>v DEF Executed
  <2>3. IsFiniteSet(dones) /\ Cardinality(dones) \in Nat BY <1>i, <2>2, ExecutedFinite
  <2>4. head + size - 1 \notin dones BY <1>i, <2>1 DEF DonesWritten
  <2>5. Cardinality(dones') = IF done THEN Cardinality(dones) + 1 ELSE Cardinality(dones)
    BY <2>3, <2>4, FS_AddElement
  <2>6. tokens + answered + (IF gpc = "holding" THEN 1 ELSE 0) = Cardinality(dones)
    BY <1>i, <2>2 DEF TokensConserved, Executed
  <2>7. tokens' + answered' + (IF gpc' = "holding" THEN 1 ELSE 0) = Cardinality(dones')
    BY <1>i, <2>3, <2>5, <2>6 DEF TypeOK
  <2> QED BY <2>2, <2>7 DEF TokensConserved, Executed
<1> QED BY <1>1, <1>2, <1>3, <1>4, <1>5, <1>6, <1>7, <1>8 DEF IInv, RingInv

LEMMA CallIInv ==
  ASSUME IInv, NEW op \in GuestCalls \ {"store"}, Call(op)
  PROVE  IInv'
<1> USE DEF Call, stream, marking, render, guest
<1>i. /\ TypeOK /\ Positions /\ Intact /\ ParseContiguous /\ MarksIntact /\ TokensConserved
      /\ Threads /\ Flags /\ Level /\ Ahead /\ MarkHeld /\ DonesWritten /\ Watched
  BY DEF IInv, RingInv
<1>1. TypeOK' BY <1>i DEF TypeOK, GuestPlaces, GuestCalls, RenderPlaces
<1>2. Threads' /\ Flags' BY <1>i DEF TypeOK, Threads, Flags, Held, Flagged
<1>3. Watched' BY <1>i DEF TypeOK, Watched, MarksPending, Flags, Flagged, Held, Threads
<1>4. Positions' /\ Level' /\ Ahead' BY <1>i DEF TypeOK, Positions, Level, Ahead, Threads
<1>5. Intact' /\ DonesWritten' BY <1>i DEF TypeOK, Intact, DonesWritten, Positions, Level, Threads
<1>6. ParseContiguous' BY <1>i DEF TypeOK, ParseContiguous
<1>7. MarksIntact' /\ MarkHeld' BY <1>i DEF TypeOK, MarksIntact, MarkHeld
<1>8. TokensConserved' BY <1>i DEF TypeOK, TokensConserved
<1> QED BY <1>1, <1>2, <1>3, <1>4, <1>5, <1>6, <1>7, <1>8 DEF IInv, RingInv

LEMMA PublishIInv ==
  ASSUME IInv, Publish
  PROVE  IInv'
<1> USE DEF Publish, stream, marking, render, guest
<1>i. /\ TypeOK /\ Positions /\ Intact /\ ParseContiguous /\ MarksIntact /\ TokensConserved
      /\ Threads /\ Flags /\ Level /\ Ahead /\ MarkHeld /\ DonesWritten /\ Watched
  BY DEF IInv, RingInv
<1>1. TypeOK'
  <2>1. published' \in Nat /\ gpc' \in GuestPlaces BY <1>i DEF TypeOK, GuestPlaces
  <2> QED BY <1>i, <2>1 DEF TypeOK
<1>2. Threads' /\ Flags' BY <1>i DEF TypeOK, Threads, Flags, Held, Flagged
<1>3. Watched' BY <1>i DEF TypeOK, Watched, MarksPending, Flags, Flagged, Held, Threads
<1>4. Positions' /\ Level' /\ Ahead' BY <1>i DEF TypeOK, Positions, Level, Ahead, Threads
<1>5. Intact' /\ DonesWritten' BY <1>i DEF TypeOK, Intact, DonesWritten, Positions, Level, Threads
<1>6. ParseContiguous' BY <1>i DEF TypeOK, ParseContiguous
<1>7. MarksIntact' /\ MarkHeld' BY <1>i DEF TypeOK, MarksIntact, MarkHeld
<1>8. TokensConserved' BY <1>i DEF TypeOK, TokensConserved
<1> QED BY <1>1, <1>2, <1>3, <1>4, <1>5, <1>6, <1>7, <1>8 DEF IInv, RingInv

LEMMA LookIInv ==
  ASSUME IInv, Look
  PROVE  IInv'
<1> USE DEF Look, stream, marking, render, guest
<1>i. /\ TypeOK /\ Positions /\ Intact /\ ParseContiguous /\ MarksIntact /\ TokensConserved
      /\ Threads /\ Flags /\ Level /\ Ahead /\ MarkHeld /\ DonesWritten /\ Watched
  BY DEF IInv, RingInv
<1>1. TypeOK' BY <1>i DEF TypeOK, GuestPlaces, GuestCalls, RenderPlaces
<1>2. Threads' /\ Flags' BY <1>i DEF TypeOK, Threads, Flags, Held, Flagged
<1>3. Watched' BY <1>i DEF TypeOK, Watched, MarksPending, Flags, Flagged, Held, Threads
<1>4. Positions' /\ Level' /\ Ahead' BY <1>i DEF TypeOK, Positions, Level, Ahead, Threads
<1>5. Intact' /\ DonesWritten' BY <1>i DEF TypeOK, Intact, DonesWritten, Positions, Level, Threads
<1>6. ParseContiguous' BY <1>i DEF TypeOK, ParseContiguous
<1>7. MarksIntact' /\ MarkHeld' BY <1>i DEF TypeOK, MarksIntact, MarkHeld
<1>8. TokensConserved' BY <1>i DEF TypeOK, TokensConserved
<1> QED BY <1>1, <1>2, <1>3, <1>4, <1>5, <1>6, <1>7, <1>8 DEF IInv, RingInv

LEMMA SignalIInv ==
  ASSUME IInv, Signal
  PROVE  IInv'
<1> USE DEF Signal, Wake, stream, marking, render, guest
<1>i. /\ TypeOK /\ Positions /\ Intact /\ ParseContiguous /\ MarksIntact /\ TokensConserved
      /\ Threads /\ Flags /\ Level /\ Ahead /\ MarkHeld /\ DonesWritten /\ Watched
  BY DEF IInv, RingInv
<1>1. TypeOK' BY <1>i DEF TypeOK, GuestPlaces, GuestCalls, RenderPlaces
<1>2. Threads' /\ Flags' BY <1>i DEF TypeOK, Threads, Flags, Held, Flagged
<1>3. Watched' BY <1>i DEF TypeOK, Watched, MarksPending, Flags, Flagged, Held, Threads
<1>4. Positions' /\ Level' /\ Ahead' BY <1>i DEF TypeOK, Positions, Level, Ahead, Threads
<1>5. Intact' /\ DonesWritten' BY <1>i DEF TypeOK, Intact, DonesWritten, Positions, Level, Threads
<1>6. ParseContiguous' BY <1>i DEF TypeOK, ParseContiguous
<1>7. MarksIntact' /\ MarkHeld' BY <1>i DEF TypeOK, MarksIntact, MarkHeld
<1>8. TokensConserved' BY <1>i DEF TypeOK, TokensConserved
<1> QED BY <1>1, <1>2, <1>3, <1>4, <1>5, <1>6, <1>7, <1>8 DEF IInv, RingInv

LEMMA ReturnPlainIInv ==
  ASSUME IInv, ReturnPlain
  PROVE  IInv'
<1> USE DEF ReturnPlain, stream, marking, render, guest
<1>i. /\ TypeOK /\ Positions /\ Intact /\ ParseContiguous /\ MarksIntact /\ TokensConserved
      /\ Threads /\ Flags /\ Level /\ Ahead /\ MarkHeld /\ DonesWritten /\ Watched
  BY DEF IInv, RingInv
<1>1. TypeOK' BY <1>i DEF TypeOK, GuestPlaces, GuestCalls, RenderPlaces
<1>2. Threads' /\ Flags' BY <1>i DEF TypeOK, Threads, Flags, Held, Flagged
<1>3. Watched' BY <1>i DEF TypeOK, Watched, MarksPending, Flags, Flagged, Held, Threads
<1>4. Positions' /\ Level' /\ Ahead' BY <1>i DEF TypeOK, Positions, Level, Ahead, Threads
<1>5. Intact' /\ DonesWritten' BY <1>i DEF TypeOK, Intact, DonesWritten, Positions, Level, Threads
<1>6. ParseContiguous' BY <1>i DEF TypeOK, ParseContiguous
<1>7. MarksIntact' /\ MarkHeld' BY <1>i DEF TypeOK, MarksIntact, MarkHeld
<1>8. TokensConserved' BY <1>i DEF TypeOK, TokensConserved
<1> QED BY <1>1, <1>2, <1>3, <1>4, <1>5, <1>6, <1>7, <1>8 DEF IInv, RingInv

LEMMA TakeTokenIInv ==
  ASSUME IInv, TakeToken
  PROVE  IInv'
<1> USE DEF TakeToken, stream, marking, render, guest
<1>i. /\ TypeOK /\ Positions /\ Intact /\ ParseContiguous /\ MarksIntact /\ TokensConserved
      /\ Threads /\ Flags /\ Level /\ Ahead /\ MarkHeld /\ DonesWritten /\ Watched
  BY DEF IInv, RingInv
<1>1. TypeOK' BY <1>i DEF TypeOK, GuestPlaces, GuestCalls, RenderPlaces
<1>2. Threads' /\ Flags' BY <1>i DEF TypeOK, Threads, Flags, Held, Flagged
<1>3. Watched' BY <1>i DEF TypeOK, Watched, MarksPending, Flags, Flagged, Held, Threads
<1>4. Positions' /\ Level' /\ Ahead' BY <1>i DEF TypeOK, Positions, Level, Ahead, Threads
<1>5. Intact' /\ DonesWritten' BY <1>i DEF TypeOK, Intact, DonesWritten, Positions, Level, Threads
<1>6. ParseContiguous' BY <1>i DEF TypeOK, ParseContiguous
<1>7. MarksIntact' /\ MarkHeld' BY <1>i DEF TypeOK, MarksIntact, MarkHeld
<1>8. TokensConserved'
  <2>1. Executed' = Executed BY DEF Executed
  <2>2. Cardinality(Executed) \in Nat BY <1>i, ExecutedFinite
  <2>3. tokens + answered = Cardinality(Executed) BY <1>i DEF TokensConserved, Executed, TypeOK
  <2>4. tokens' + answered' + (IF gpc' = "holding" THEN 1 ELSE 0) = Cardinality(Executed)
    <3>1. CASE tokens > 0 BY <3>1, <1>i, <2>2, <2>3 DEF TypeOK
    <3>2. CASE ~(tokens > 0) BY <3>2, <1>i, <2>2, <2>3 DEF TypeOK
    <3> QED BY <3>1, <3>2
  <2> QED BY <2>1, <2>4 DEF TokensConserved, Executed
<1> QED BY <1>1, <1>2, <1>3, <1>4, <1>5, <1>6, <1>7, <1>8 DEF IInv, RingInv

LEMMA OfferTokenIInv ==
  ASSUME IInv, OfferToken
  PROVE  IInv'
<1> USE DEF OfferToken, stream, marking, render, guest
<1>i. /\ TypeOK /\ Positions /\ Intact /\ ParseContiguous /\ MarksIntact /\ TokensConserved
      /\ Threads /\ Flags /\ Level /\ Ahead /\ MarkHeld /\ DonesWritten /\ Watched
  BY DEF IInv, RingInv
<1>1. TypeOK'
  <2>1. tokens \in Nat /\ answered \in Nat BY <1>i DEF TypeOK
  <2>2. tokens' \in Nat /\ answered' \in Nat BY <2>1
  <2>3. gpc' \in GuestPlaces BY DEF GuestPlaces
  <2> QED BY <1>i, <2>2, <2>3 DEF TypeOK
<1>2. Threads' /\ Flags' BY <1>i DEF TypeOK, Threads, Flags, Held, Flagged
<1>3. Watched' BY <1>i DEF TypeOK, Watched, MarksPending, Flags, Flagged, Held, Threads
<1>4. Positions' /\ Level' /\ Ahead' BY <1>i DEF TypeOK, Positions, Level, Ahead, Threads
<1>5. Intact' /\ DonesWritten' BY <1>i DEF TypeOK, Intact, DonesWritten, Positions, Level, Threads
<1>6. ParseContiguous' BY <1>i DEF TypeOK, ParseContiguous
<1>7. MarksIntact' /\ MarkHeld' BY <1>i DEF TypeOK, MarksIntact, MarkHeld
<1>8. TokensConserved' BY <1>i DEF TypeOK, TokensConserved
<1> QED BY <1>1, <1>2, <1>3, <1>4, <1>5, <1>6, <1>7, <1>8 DEF IInv, RingInv

LEMMA MarkIInv ==
  ASSUME IInv, Mark
  PROVE  IInv'
<1> USE DEF Mark, MarkRoom, stream, marking, render, guest
<1>i. /\ TypeOK /\ Positions /\ Intact /\ ParseContiguous /\ MarksIntact /\ TokensConserved
      /\ Threads /\ Flags /\ Level /\ Ahead /\ MarkHeld /\ DonesWritten /\ Watched
  BY DEF IInv, RingInv
<1>1. TypeOK' BY <1>i DEF TypeOK, GuestPlaces, GuestCalls, RenderPlaces
<1>2. Threads' /\ Flags' BY <1>i DEF TypeOK, Threads, Flags, Held, Flagged
<1>3. Watched' BY <1>i DEF TypeOK, Watched, MarksPending, Flags, Flagged, Held, Threads
<1>4. Positions' /\ Level' /\ Ahead' BY <1>i DEF TypeOK, Positions, Level, Ahead, Threads
<1>5. Intact' /\ DonesWritten' BY <1>i DEF TypeOK, Intact, DonesWritten, Positions, Level, Threads
<1>6. ParseContiguous' BY <1>i DEF TypeOK, ParseContiguous
<1>7. MarksIntact' /\ MarkHeld'
  <2>1. marksHead \in Nat /\ marksTail \in Nat /\ marksHead % MarkSlots \in 0..MarkSlots-1
    BY <1>i, Division DEF TypeOK
  <2>2. marks'[marksHead % MarkSlots].retrace = marksHead BY <1>i, <2>1 DEF TypeOK
  <2>3. ASSUME NEW m \in marksTail..marksHead-1 PROVE marks'[m % MarkSlots].retrace = m
    <3>1. m \in Int /\ m < marksHead /\ marksHead - m < MarkSlots BY <2>1
    <3>2. m % MarkSlots # marksHead % MarkSlots BY <2>1, <3>1, SlotsDistinct
    <3>3. m % MarkSlots \in 0..MarkSlots-1 BY <3>1, Division
    <3>4. marks[m % MarkSlots].retrace = m BY <1>i DEF MarksIntact
    <3> QED BY <1>i, <2>1, <3>2, <3>3, <3>4 DEF TypeOK
  <2>4. MarksIntact' BY <2>3 DEF MarksIntact
  <2>5. MarkHeld' BY <1>i, <2>1, <2>2 DEF MarkHeld
  <2> QED BY <2>4, <2>5
<1>8. TokensConserved' BY <1>i DEF TypeOK, TokensConserved
<1> QED BY <1>1, <1>2, <1>3, <1>4, <1>5, <1>6, <1>7, <1>8 DEF IInv, RingInv

LEMMA MarkDroppedIInv ==
  ASSUME IInv, MarkDropped
  PROVE  IInv'
<1> USE DEF MarkDropped, MarkRoom, stream, marking, render, guest
<1>i. /\ TypeOK /\ Positions /\ Intact /\ ParseContiguous /\ MarksIntact /\ TokensConserved
      /\ Threads /\ Flags /\ Level /\ Ahead /\ MarkHeld /\ DonesWritten /\ Watched
  BY DEF IInv, RingInv
<1>1. TypeOK' BY <1>i DEF TypeOK, GuestPlaces, GuestCalls, RenderPlaces
<1>2. Threads' /\ Flags' BY <1>i DEF TypeOK, Threads, Flags, Held, Flagged
<1>3. Watched' BY <1>i DEF TypeOK, Watched, MarksPending, Flags, Flagged, Held, Threads
<1>4. Positions' /\ Level' /\ Ahead' BY <1>i DEF TypeOK, Positions, Level, Ahead, Threads
<1>5. Intact' /\ DonesWritten' BY <1>i DEF TypeOK, Intact, DonesWritten, Positions, Level, Threads
<1>6. ParseContiguous' BY <1>i DEF TypeOK, ParseContiguous
<1>7. MarksIntact' /\ MarkHeld' BY <1>i DEF TypeOK, MarksIntact, MarkHeld
<1>8. TokensConserved' BY <1>i DEF TypeOK, TokensConserved
<1> QED BY <1>1, <1>2, <1>3, <1>4, <1>5, <1>6, <1>7, <1>8 DEF IInv, RingInv

LEMMA MarkPublishIInv ==
  ASSUME IInv, MarkPublish
  PROVE  IInv'
<1> USE DEF MarkPublish, stream, marking, render, guest
<1>i. /\ TypeOK /\ Positions /\ Intact /\ ParseContiguous /\ MarksIntact /\ TokensConserved
      /\ Threads /\ Flags /\ Level /\ Ahead /\ MarkHeld /\ DonesWritten /\ Watched
  BY DEF IInv, RingInv
<1>1. TypeOK' BY <1>i DEF TypeOK, GuestPlaces, GuestCalls, RenderPlaces
<1>2. Threads' /\ Flags' BY <1>i DEF TypeOK, Threads, Flags, Held, Flagged
<1>3. Watched' BY <1>i DEF TypeOK, Watched, MarksPending, Flags, Flagged, Held, Threads
<1>4. Positions' /\ Level' /\ Ahead' BY <1>i DEF TypeOK, Positions, Level, Ahead, Threads
<1>5. Intact' /\ DonesWritten' BY <1>i DEF TypeOK, Intact, DonesWritten, Positions, Level, Threads
<1>6. ParseContiguous' BY <1>i DEF TypeOK, ParseContiguous
<1>7. MarksIntact' /\ MarkHeld'
  <2>1. marksHead \in Nat /\ marksTail \in Nat BY <1>i DEF TypeOK
  <2>2. ASSUME NEW m \in marksTail..marksHead'-1 PROVE marks[m % MarkSlots].retrace = m
    <3>1. CASE m = marksHead BY <3>1, <1>i DEF MarkHeld
    <3>2. CASE m # marksHead
      <4>1. m \in marksTail..marksHead-1 BY <2>1, <3>2
      <4> QED BY <4>1, <1>i DEF MarksIntact
    <3> QED BY <3>1, <3>2
  <2>3. MarksIntact' BY <2>2 DEF MarksIntact
  <2>4. MarkHeld' BY <1>i, <2>1 DEF MarkHeld
  <2> QED BY <2>3, <2>4
<1>8. TokensConserved' BY <1>i DEF TypeOK, TokensConserved
<1> QED BY <1>1, <1>2, <1>3, <1>4, <1>5, <1>6, <1>7, <1>8 DEF IInv, RingInv

LEMMA ReturnDrainedIInv ==
  ASSUME IInv, ReturnDrained
  PROVE  IInv'
<1> USE DEF ReturnDrained, Drained, stream, marking, render, guest
<1>i. /\ TypeOK /\ Positions /\ Intact /\ ParseContiguous /\ MarksIntact /\ TokensConserved
      /\ Threads /\ Flags /\ Level /\ Ahead /\ MarkHeld /\ DonesWritten /\ Watched
  BY DEF IInv, RingInv
<1>1. TypeOK' BY <1>i DEF TypeOK, GuestPlaces, GuestCalls, RenderPlaces
<1>2. Threads' /\ Flags' BY <1>i DEF TypeOK, Threads, Flags, Held, Flagged
<1>3. Watched' BY <1>i DEF TypeOK, Watched, MarksPending, Flags, Flagged, Held, Threads
<1>4. Positions' /\ Level' /\ Ahead' BY <1>i DEF TypeOK, Positions, Level, Ahead, Threads
<1>5. Intact' /\ DonesWritten' BY <1>i DEF TypeOK, Intact, DonesWritten, Positions, Level, Threads
<1>6. ParseContiguous' BY <1>i DEF TypeOK, ParseContiguous
<1>7. MarksIntact' /\ MarkHeld' BY <1>i DEF TypeOK, MarksIntact, MarkHeld
<1>8. TokensConserved' BY <1>i DEF TypeOK, TokensConserved
<1> QED BY <1>1, <1>2, <1>3, <1>4, <1>5, <1>6, <1>7, <1>8 DEF IInv, RingInv

LEMMA StopStoreIInv ==
  ASSUME IInv, StopStore
  PROVE  IInv'
<1> USE DEF StopStore, Drained, stream, marking, render, guest
<1>i. /\ TypeOK /\ Positions /\ Intact /\ ParseContiguous /\ MarksIntact /\ TokensConserved
      /\ Threads /\ Flags /\ Level /\ Ahead /\ MarkHeld /\ DonesWritten /\ Watched
  BY DEF IInv, RingInv
<1>1. TypeOK' BY <1>i DEF TypeOK, GuestPlaces, GuestCalls, RenderPlaces
<1>2. Threads' /\ Flags' BY <1>i DEF TypeOK, Threads, Flags, Held, Flagged
<1>3. Watched' BY <1>i DEF TypeOK, Watched, MarksPending, Flags, Flagged, Held, Threads
<1>4. Positions' /\ Level' /\ Ahead' BY <1>i DEF TypeOK, Positions, Level, Ahead, Threads
<1>5. Intact' /\ DonesWritten' BY <1>i DEF TypeOK, Intact, DonesWritten, Positions, Level, Threads
<1>6. ParseContiguous' BY <1>i DEF TypeOK, ParseContiguous
<1>7. MarksIntact' /\ MarkHeld' BY <1>i DEF TypeOK, MarksIntact, MarkHeld
<1>8. TokensConserved' BY <1>i DEF TypeOK, TokensConserved
<1> QED BY <1>1, <1>2, <1>3, <1>4, <1>5, <1>6, <1>7, <1>8 DEF IInv, RingInv

LEMMA JoinIInv ==
  ASSUME IInv, Join
  PROVE  IInv'
<1> USE DEF Join, stream, marking, render, guest
<1>i. /\ TypeOK /\ Positions /\ Intact /\ ParseContiguous /\ MarksIntact /\ TokensConserved
      /\ Threads /\ Flags /\ Level /\ Ahead /\ MarkHeld /\ DonesWritten /\ Watched
  BY DEF IInv, RingInv
<1>1. TypeOK' BY <1>i DEF TypeOK, GuestPlaces, GuestCalls, RenderPlaces
<1>2. Threads' /\ Flags' BY <1>i DEF TypeOK, Threads, Flags, Held, Flagged
<1>3. Watched' BY <1>i DEF TypeOK, Watched, MarksPending, Flags, Flagged, Held, Threads
<1>4. Positions' /\ Level' /\ Ahead' BY <1>i DEF TypeOK, Positions, Level, Ahead, Threads
<1>5. Intact' /\ DonesWritten' BY <1>i DEF TypeOK, Intact, DonesWritten, Positions, Level, Threads
<1>6. ParseContiguous' BY <1>i DEF TypeOK, ParseContiguous
<1>7. MarksIntact' /\ MarkHeld' BY <1>i DEF TypeOK, MarksIntact, MarkHeld
<1>8. TokensConserved' BY <1>i DEF TypeOK, TokensConserved
<1> QED BY <1>1, <1>2, <1>3, <1>4, <1>5, <1>6, <1>7, <1>8 DEF IInv, RingInv

LEMMA RunMarkIInv ==
  ASSUME IInv, RunMark
  PROVE  IInv'
<1> USE DEF RunMark, MarkReached, MarksPending, stream, marking, render, guest
<1>i. /\ TypeOK /\ Positions /\ Intact /\ ParseContiguous /\ MarksIntact /\ TokensConserved
      /\ Threads /\ Flags /\ Level /\ Ahead /\ MarkHeld /\ DonesWritten /\ Watched
  BY DEF IInv, RingInv
<1>1. TypeOK' BY <1>i DEF TypeOK, GuestPlaces, GuestCalls, RenderPlaces
<1>2. Threads' /\ Flags' BY <1>i DEF TypeOK, Threads, Flags, Held, Flagged
<1>3. Watched' BY <1>i DEF TypeOK, Watched, MarksPending, Flags, Flagged, Held, Threads
<1>4. Positions' /\ Level' /\ Ahead' BY <1>i DEF TypeOK, Positions, Level, Ahead, Threads
<1>5. Intact' /\ DonesWritten' BY <1>i DEF TypeOK, Intact, DonesWritten, Positions, Level, Threads
<1>6. ParseContiguous' BY <1>i DEF TypeOK, ParseContiguous
<1>7. MarksIntact' /\ MarkHeld'
  <2>1. marksHead \in Nat /\ marksTail \in Nat /\ marksTail < marksHead
    BY <1>i DEF TypeOK, MarkHeld
  <2>2. marksTail' \in Nat /\ marksTail' <= marksHead /\ marksTail'..marksHead-1 \subseteq marksTail..marksHead-1
    BY <2>1
  <2>3. MarksIntact' BY <1>i, <2>2 DEF MarksIntact
  <2>4. MarkHeld' BY <1>i, <2>1, <2>2 DEF MarkHeld
  <2> QED BY <2>3, <2>4
<1>8. TokensConserved' BY <1>i DEF TypeOK, TokensConserved
<1> QED BY <1>1, <1>2, <1>3, <1>4, <1>5, <1>6, <1>7, <1>8 DEF IInv, RingInv

LEMMA MarksDoneIInv ==
  ASSUME IInv, MarksDone
  PROVE  IInv'
<1> USE DEF MarksDone, MarkReached, stream, marking, render, guest
<1>i. /\ TypeOK /\ Positions /\ Intact /\ ParseContiguous /\ MarksIntact /\ TokensConserved
      /\ Threads /\ Flags /\ Level /\ Ahead /\ MarkHeld /\ DonesWritten /\ Watched
  BY DEF IInv, RingInv
<1>1. TypeOK' BY <1>i DEF TypeOK, GuestPlaces, GuestCalls, RenderPlaces
<1>2. Threads' /\ Flags' BY <1>i DEF TypeOK, Threads, Flags, Held, Flagged
<1>3. Watched' BY <1>i DEF TypeOK, Watched, MarksPending, Flags, Flagged, Held, Threads
<1>4. Positions' /\ Level' /\ Ahead' BY <1>i DEF TypeOK, Positions, Level, Ahead, Threads
<1>5. Intact' /\ DonesWritten' BY <1>i DEF TypeOK, Intact, DonesWritten, Positions, Level, Threads
<1>6. ParseContiguous' BY <1>i DEF TypeOK, ParseContiguous
<1>7. MarksIntact' /\ MarkHeld' BY <1>i DEF TypeOK, MarksIntact, MarkHeld
<1>8. TokensConserved' BY <1>i DEF TypeOK, TokensConserved
<1> QED BY <1>1, <1>2, <1>3, <1>4, <1>5, <1>6, <1>7, <1>8 DEF IInv, RingInv

LEMMA LoadIInv ==
  ASSUME IInv, Load
  PROVE  IInv'
<1> USE DEF Load, stream, marking, render, guest
<1>i. /\ TypeOK /\ Positions /\ Intact /\ ParseContiguous /\ MarksIntact /\ TokensConserved
      /\ Threads /\ Flags /\ Level /\ Ahead /\ MarkHeld /\ DonesWritten /\ Watched
  BY DEF IInv, RingInv
<1>1. TypeOK' BY <1>i DEF TypeOK, GuestPlaces, GuestCalls, RenderPlaces
<1>2. Threads' /\ Flags' BY <1>i DEF TypeOK, Threads, Flags, Held, Flagged
<1>3. Watched' BY <1>i DEF TypeOK, Watched, MarksPending, Flags, Flagged, Held, Threads
<1>4. Positions' /\ Level' /\ Ahead' BY <1>i DEF TypeOK, Positions, Level, Ahead, Threads
<1>5. Intact' /\ DonesWritten' BY <1>i DEF TypeOK, Intact, DonesWritten, Positions, Level, Threads
<1>6. ParseContiguous' BY <1>i DEF TypeOK, ParseContiguous
<1>7. MarksIntact' /\ MarkHeld' BY <1>i DEF TypeOK, MarksIntact, MarkHeld
<1>8. TokensConserved' BY <1>i DEF TypeOK, TokensConserved
<1> QED BY <1>1, <1>2, <1>3, <1>4, <1>5, <1>6, <1>7, <1>8 DEF IInv, RingInv

LEMMA LimitIInv ==
  ASSUME IInv, Limit
  PROVE  IInv'
<1> USE DEF Limit, MarksPending, ParseEnd, MinOf, stream, marking, render, guest
<1>i. /\ TypeOK /\ Positions /\ Intact /\ ParseContiguous /\ MarksIntact /\ TokensConserved
      /\ Threads /\ Flags /\ Level /\ Ahead /\ MarkHeld /\ DonesWritten /\ Watched
  BY DEF IInv, RingInv
<1>l. /\ tail \in Nat /\ pub \in Nat /\ published \in Nat /\ tail < pub /\ pub <= published
      /\ tail % Size \in 0..Size-1
      /\ \A m \in 0..MarkSlots-1 : marks[m].pos \in Nat
      /\ marksTail % MarkSlots \in 0..MarkSlots-1
  <2>1. tail \in Nat /\ pub \in Nat /\ published \in Nat /\ marksTail \in Nat BY <1>i DEF TypeOK
  <2>2. tail < pub /\ pub <= published BY <1>i DEF Ahead
  <2>3. \A m \in 0..MarkSlots-1 : marks[m].pos \in Nat BY <1>i DEF TypeOK
  <2>4. tail % Size \in 0..Size-1 /\ marksTail % MarkSlots \in 0..MarkSlots-1
    BY <2>1, SlotInRange
  <2> QED BY <2>1, <2>2, <2>3, <2>4
<1>e. /\ ParseEnd \in Nat /\ tail < ParseEnd /\ ParseEnd <= pub
      /\ ParseEnd - tail <= Size - (tail % Size)
  BY <1>l DEF ParseEnd, MinOf
<1>n. end' \in Nat /\ tail < end' /\ end' <= ParseEnd BY <1>l, <1>e DEF MinOf
<1>1. TypeOK' BY <1>i, <1>n DEF TypeOK, RenderPlaces
<1>2. Threads' /\ Flags' BY <1>i DEF TypeOK, Threads, Flags, Held, Flagged
<1>3. Watched' BY <1>i DEF TypeOK, Watched, MarksPending, Flags, Flagged, Held, Threads
<1>4. Positions' /\ Level' /\ Ahead'
  <2>1. at = tail /\ mode = "async" BY <1>i DEF Positions, Threads, TypeOK
  <2>2. end' <= published /\ at <= end' BY <1>l, <1>e, <1>n, <2>1
  <2> QED BY <1>i, <1>n, <2>1, <2>2 DEF Positions, Level, Ahead
<1>5. Intact' /\ DonesWritten' BY <1>i DEF TypeOK, Intact, DonesWritten, Positions, Level, Threads
<1>6. ParseContiguous' BY <1>l, <1>e, <1>n DEF ParseContiguous
<1>7. MarksIntact' /\ MarkHeld' BY <1>i DEF TypeOK, MarksIntact, MarkHeld
<1>8. TokensConserved' BY <1>i DEF TypeOK, TokensConserved
<1> QED BY <1>1, <1>2, <1>3, <1>4, <1>5, <1>6, <1>7, <1>8 DEF IInv, RingInv

LEMMA ParseByteIInv ==
  ASSUME IInv, ParseByte
  PROVE  IInv'
<1> USE DEF ParseByte, stream, marking, render, guest
<1>i. /\ TypeOK /\ Positions /\ Intact /\ ParseContiguous /\ MarksIntact /\ TokensConserved
      /\ Threads /\ Flags /\ Level /\ Ahead /\ MarkHeld /\ DonesWritten /\ Watched
  BY DEF IInv, RingInv
<1>1. TypeOK' BY <1>i DEF TypeOK, GuestPlaces, GuestCalls, RenderPlaces
<1>2. Threads' /\ Flags' BY <1>i DEF TypeOK, Threads, Flags, Held, Flagged
<1>3. Watched' BY <1>i DEF TypeOK, Watched, MarksPending, Flags, Flagged, Held, Threads
<1>4. Positions' /\ Level' /\ Ahead' BY <1>i DEF TypeOK, Positions, Level, Ahead, Threads
<1>5. Intact' /\ DonesWritten'
  <2>1. at' = at + 1 /\ at \in Nat /\ head \in Nat BY <1>i DEF TypeOK
  <2>2. Intact' BY <1>i, <2>1 DEF Intact
  <2>3. DonesWritten' BY <1>i DEF DonesWritten
  <2> QED BY <2>2, <2>3
<1>6. ParseContiguous' BY <1>i DEF TypeOK, ParseContiguous
<1>7. MarksIntact' /\ MarkHeld' BY <1>i DEF TypeOK, MarksIntact, MarkHeld
<1>8. TokensConserved'
  <2>0. at \in Nat /\ head \in Nat /\ mode = "async" /\ at < head BY <1>i DEF TypeOK, Positions, Threads
  <2>1. ring[at % Size] = at /\ at \in Nat BY <1>i, <2>0 DEF Intact
  <2>2. Executed' = IF at \in dones THEN Executed \cup {at} ELSE Executed
    <3>1. \A k \in dones : k \in Nat BY <1>i DEF TypeOK
    <3>2. \A k \in dones : k < at + 1 <=> k < at \/ k = at BY <3>1, <2>1
    <3> QED BY <3>2, <2>1 DEF Executed
  <2>3. IsFiniteSet(Executed) /\ Cardinality(Executed) \in Nat /\ at \notin Executed
    BY <1>i, <2>1, ExecutedFinite DEF Executed
  <2>4. Cardinality(Executed') = IF at \in dones THEN Cardinality(Executed) + 1 ELSE Cardinality(Executed)
    BY <2>2, <2>3, FS_AddElement
  <2>5. tokens + answered + (IF gpc = "holding" THEN 1 ELSE 0) = Cardinality(Executed)
    BY <1>i DEF TokensConserved, Executed
  <2>6. tokens' + answered' + (IF gpc' = "holding" THEN 1 ELSE 0) = Cardinality(Executed')
    <3>1. tokens \in Nat /\ answered \in Nat BY <1>i DEF TypeOK
    <3>2. CASE at \in dones BY <3>1, <3>2, <2>1, <2>3, <2>4, <2>5
    <3>3. CASE at \notin dones BY <3>1, <3>3, <2>1, <2>4, <2>5
    <3> QED BY <3>2, <3>3
  <2> QED BY <2>6 DEF TokensConserved, Executed
<1> QED BY <1>1, <1>2, <1>3, <1>4, <1>5, <1>6, <1>7, <1>8 DEF IInv, RingInv

LEMMA ParsedIInv ==
  ASSUME IInv, Parsed
  PROVE  IInv'
<1> USE DEF Parsed, stream, marking, render, guest
<1>i. /\ TypeOK /\ Positions /\ Intact /\ ParseContiguous /\ MarksIntact /\ TokensConserved
      /\ Threads /\ Flags /\ Level /\ Ahead /\ MarkHeld /\ DonesWritten /\ Watched
  BY DEF IInv, RingInv
<1>1. TypeOK' BY <1>i DEF TypeOK, GuestPlaces, GuestCalls, RenderPlaces
<1>2. Threads' /\ Flags'
  <2>0. tail # head /\ mode = "async" BY <1>i DEF Threads, Positions, Ahead, TypeOK
  <2>1. Threads' BY <1>i, <2>0 DEF Threads, TypeOK
  <2>2. locked = FALSE /\ waiting = FALSE BY <1>i DEF Flags, Held, Flagged, TypeOK
  <2>3. Flags' BY <2>2 DEF Flags, Held, Flagged
  <2> QED BY <2>1, <2>3
<1>3. Watched' BY <1>i DEF TypeOK, Watched, MarksPending, Flags, Flagged, Held, Threads
<1>4. Positions' /\ Level' /\ Ahead' BY <1>i DEF TypeOK, Positions, Level, Ahead, Threads
<1>5. Intact' /\ DonesWritten' BY <1>i DEF TypeOK, Intact, DonesWritten, Positions, Level, Threads
<1>6. ParseContiguous' BY <1>i DEF TypeOK, ParseContiguous
<1>7. MarksIntact' /\ MarkHeld' BY <1>i DEF TypeOK, MarksIntact, MarkHeld
<1>8. TokensConserved' BY <1>i DEF TypeOK, TokensConserved
<1> QED BY <1>1, <1>2, <1>3, <1>4, <1>5, <1>6, <1>7, <1>8 DEF IInv, RingInv

LEMMA IdleIInv ==
  ASSUME IInv, Idle
  PROVE  IInv'
<1> USE DEF Idle, Test, stream, marking, render, guest
<1>i. /\ TypeOK /\ Positions /\ Intact /\ ParseContiguous /\ MarksIntact /\ TokensConserved
      /\ Threads /\ Flags /\ Level /\ Ahead /\ MarkHeld /\ DonesWritten /\ Watched
  BY DEF IInv, RingInv
<1>c. /\ rpc \in {"idle", "idleMarks", "idleStop"} /\ locked' = locked
      /\ rpc' \in {"top", "idleMarks", "idleStop", "exited", "lock"}
      /\ rpc' = "exited" => stop
      /\ UNCHANGED <<guest, marking, tokens, pub, end, at, tail, waiting>>
  BY DEF MarksPending
<1>1. TypeOK' BY <1>i, <1>c DEF TypeOK, RenderPlaces
<1>2. Threads' /\ Flags'
  <2>1. Threads' BY <1>i, <1>c DEF Threads, TypeOK
  <2>2. locked = FALSE /\ waiting = FALSE BY <1>i, <1>c DEF Flags, Held, Flagged, TypeOK
  <2>3. Flags' BY <2>2, <1>c DEF Flags, Held, Flagged
  <2> QED BY <2>1, <2>3
<1>3. Watched' BY <1>i DEF TypeOK, Watched, MarksPending, Flags, Flagged, Held, Threads
<1>4. Positions' /\ Level' /\ Ahead' BY <1>i DEF TypeOK, Positions, Level, Ahead, Threads
<1>5. Intact' /\ DonesWritten' BY <1>i DEF TypeOK, Intact, DonesWritten, Positions, Level, Threads
<1>6. ParseContiguous' BY <1>i DEF TypeOK, ParseContiguous
<1>7. MarksIntact' /\ MarkHeld' BY <1>i DEF TypeOK, MarksIntact, MarkHeld
<1>8. TokensConserved' BY <1>i DEF TypeOK, TokensConserved
<1> QED BY <1>1, <1>2, <1>3, <1>4, <1>5, <1>6, <1>7, <1>8 DEF IInv, RingInv

LEMMA LockIInv ==
  ASSUME IInv, Lock
  PROVE  IInv'
<1> USE DEF Lock, stream, marking, render, guest
<1>i. /\ TypeOK /\ Positions /\ Intact /\ ParseContiguous /\ MarksIntact /\ TokensConserved
      /\ Threads /\ Flags /\ Level /\ Ahead /\ MarkHeld /\ DonesWritten /\ Watched
  BY DEF IInv, RingInv
<1>1. TypeOK' BY <1>i DEF TypeOK, GuestPlaces, GuestCalls, RenderPlaces
<1>2. Threads' /\ Flags'
  <2>1. Threads' BY <1>i DEF Threads, TypeOK
  <2>2. locked = FALSE /\ waiting = FALSE BY <1>i DEF Flags, Held, Flagged, TypeOK
  <2>3. Flags' BY <2>2 DEF Flags, Held, Flagged
  <2> QED BY <2>1, <2>3
<1>3. Watched' BY <1>i DEF TypeOK, Watched, MarksPending, Flags, Flagged, Held, Threads
<1>4. Positions' /\ Level' /\ Ahead' BY <1>i DEF TypeOK, Positions, Level, Ahead, Threads
<1>5. Intact' /\ DonesWritten' BY <1>i DEF TypeOK, Intact, DonesWritten, Positions, Level, Threads
<1>6. ParseContiguous' BY <1>i DEF TypeOK, ParseContiguous
<1>7. MarksIntact' /\ MarkHeld' BY <1>i DEF TypeOK, MarksIntact, MarkHeld
<1>8. TokensConserved' BY <1>i DEF TypeOK, TokensConserved
<1> QED BY <1>1, <1>2, <1>3, <1>4, <1>5, <1>6, <1>7, <1>8 DEF IInv, RingInv

LEMMA FlagIInv ==
  ASSUME IInv, Flag
  PROVE  IInv'
<1> USE DEF Flag, stream, marking, render, guest
<1>i. /\ TypeOK /\ Positions /\ Intact /\ ParseContiguous /\ MarksIntact /\ TokensConserved
      /\ Threads /\ Flags /\ Level /\ Ahead /\ MarkHeld /\ DonesWritten /\ Watched
  BY DEF IInv, RingInv
<1>1. TypeOK' BY <1>i DEF TypeOK, GuestPlaces, GuestCalls, RenderPlaces
<1>2. Threads' /\ Flags' BY <1>i DEF TypeOK, Threads, Flags, Held, Flagged
<1>3. Watched' BY <1>i DEF TypeOK, Watched, MarksPending, Flags, Flagged, Held, Threads
<1>4. Positions' /\ Level' /\ Ahead' BY <1>i DEF TypeOK, Positions, Level, Ahead, Threads
<1>5. Intact' /\ DonesWritten' BY <1>i DEF TypeOK, Intact, DonesWritten, Positions, Level, Threads
<1>6. ParseContiguous' BY <1>i DEF TypeOK, ParseContiguous
<1>7. MarksIntact' /\ MarkHeld' BY <1>i DEF TypeOK, MarksIntact, MarkHeld
<1>8. TokensConserved' BY <1>i DEF TypeOK, TokensConserved
<1> QED BY <1>1, <1>2, <1>3, <1>4, <1>5, <1>6, <1>7, <1>8 DEF IInv, RingInv

LEMMA RecheckIInv ==
  ASSUME IInv, Recheck
  PROVE  IInv'
<1> USE DEF Recheck, Test, stream, marking, render, guest
<1>i. /\ TypeOK /\ Positions /\ Intact /\ ParseContiguous /\ MarksIntact /\ TokensConserved
      /\ Threads /\ Flags /\ Level /\ Ahead /\ MarkHeld /\ DonesWritten /\ Watched
  BY DEF IInv, RingInv
<1>1. TypeOK' BY <1>i DEF TypeOK, RenderPlaces
<1>f. locked = TRUE /\ waiting = TRUE BY <1>i DEF Flags, Held, Flagged, TypeOK
<1>g. /\ waiting' = TRUE
      /\ \/ rpc' = "asleep" /\ locked' = FALSE
         \/ rpc' \in {"unflag", "recheckMarks", "recheckStop"} /\ locked' = TRUE
  <2>1. CASE rpc = "recheck" BY <2>1, <1>f
  <2>2. CASE rpc = "recheckMarks" BY <2>2, <1>f
  <2>3. CASE rpc = "recheckStop"
    <3>1. CASE stop BY <2>3, <3>1, <1>f
    <3>2. CASE ~stop BY <2>3, <3>2, <1>f, <1>i DEF TypeOK
    <3> QED BY <3>1, <3>2
  <2> QED BY <2>1, <2>2, <2>3
<1>2. Threads' /\ Flags'
  <2>1. Threads' BY <1>i DEF Threads, TypeOK
  <2>2. Flags' BY <1>g DEF Flags, Held, Flagged
  <2> QED BY <2>1, <2>2
<1>3. Watched'
  <2>1. CASE rpc = "recheck" BY <2>1, <1>i DEF Watched, TypeOK
  <2>2. CASE rpc = "recheckMarks" BY <2>2, <1>i DEF Watched, MarksPending, TypeOK
  <2>3. CASE rpc = "recheckStop"
    <3>1. CASE stop BY <2>3, <3>1, <1>i DEF Watched
    <3>2. CASE ~stop BY <2>3, <3>2, <1>i DEF Watched, MarksPending
    <3> QED BY <3>1, <3>2
  <2> QED BY <2>1, <2>2, <2>3
<1>4. Positions' /\ Level' /\ Ahead' BY <1>i DEF TypeOK, Positions, Level, Ahead, Threads
<1>5. Intact' /\ DonesWritten' BY <1>i DEF TypeOK, Intact, DonesWritten, Positions, Level, Threads
<1>6. ParseContiguous' BY <1>i DEF TypeOK, ParseContiguous
<1>7. MarksIntact' /\ MarkHeld' BY <1>i DEF TypeOK, MarksIntact, MarkHeld
<1>8. TokensConserved' BY <1>i DEF TypeOK, TokensConserved
<1> QED BY <1>1, <1>2, <1>3, <1>4, <1>5, <1>6, <1>7, <1>8 DEF IInv, RingInv

LEMMA TimeoutIInv ==
  ASSUME IInv, Timeout
  PROVE  IInv'
<1> USE DEF Timeout, stream, marking, render, guest
<1>i. /\ TypeOK /\ Positions /\ Intact /\ ParseContiguous /\ MarksIntact /\ TokensConserved
      /\ Threads /\ Flags /\ Level /\ Ahead /\ MarkHeld /\ DonesWritten /\ Watched
  BY DEF IInv, RingInv
<1>1. TypeOK' BY <1>i DEF TypeOK, GuestPlaces, GuestCalls, RenderPlaces
<1>2. Threads' /\ Flags' BY <1>i DEF TypeOK, Threads, Flags, Held, Flagged
<1>3. Watched' BY <1>i DEF TypeOK, Watched, MarksPending, Flags, Flagged, Held, Threads
<1>4. Positions' /\ Level' /\ Ahead' BY <1>i DEF TypeOK, Positions, Level, Ahead, Threads
<1>5. Intact' /\ DonesWritten' BY <1>i DEF TypeOK, Intact, DonesWritten, Positions, Level, Threads
<1>6. ParseContiguous' BY <1>i DEF TypeOK, ParseContiguous
<1>7. MarksIntact' /\ MarkHeld' BY <1>i DEF TypeOK, MarksIntact, MarkHeld
<1>8. TokensConserved' BY <1>i DEF TypeOK, TokensConserved
<1> QED BY <1>1, <1>2, <1>3, <1>4, <1>5, <1>6, <1>7, <1>8 DEF IInv, RingInv

LEMMA RelockIInv ==
  ASSUME IInv, Relock
  PROVE  IInv'
<1> USE DEF Relock, stream, marking, render, guest
<1>i. /\ TypeOK /\ Positions /\ Intact /\ ParseContiguous /\ MarksIntact /\ TokensConserved
      /\ Threads /\ Flags /\ Level /\ Ahead /\ MarkHeld /\ DonesWritten /\ Watched
  BY DEF IInv, RingInv
<1>1. TypeOK' BY <1>i DEF TypeOK, GuestPlaces, GuestCalls, RenderPlaces
<1>2. Threads' /\ Flags' BY <1>i DEF TypeOK, Threads, Flags, Held, Flagged
<1>3. Watched' BY <1>i DEF TypeOK, Watched, MarksPending, Flags, Flagged, Held, Threads
<1>4. Positions' /\ Level' /\ Ahead' BY <1>i DEF TypeOK, Positions, Level, Ahead, Threads
<1>5. Intact' /\ DonesWritten' BY <1>i DEF TypeOK, Intact, DonesWritten, Positions, Level, Threads
<1>6. ParseContiguous' BY <1>i DEF TypeOK, ParseContiguous
<1>7. MarksIntact' /\ MarkHeld' BY <1>i DEF TypeOK, MarksIntact, MarkHeld
<1>8. TokensConserved' BY <1>i DEF TypeOK, TokensConserved
<1> QED BY <1>1, <1>2, <1>3, <1>4, <1>5, <1>6, <1>7, <1>8 DEF IInv, RingInv

LEMMA UnflagIInv ==
  ASSUME IInv, Unflag
  PROVE  IInv'
<1> USE DEF Unflag, stream, marking, render, guest
<1>i. /\ TypeOK /\ Positions /\ Intact /\ ParseContiguous /\ MarksIntact /\ TokensConserved
      /\ Threads /\ Flags /\ Level /\ Ahead /\ MarkHeld /\ DonesWritten /\ Watched
  BY DEF IInv, RingInv
<1>1. TypeOK' BY <1>i DEF TypeOK, GuestPlaces, GuestCalls, RenderPlaces
<1>2. Threads' /\ Flags'
  <2>1. Threads' BY <1>i DEF Threads, TypeOK
  <2>3. Flags' BY DEF Flags, Held, Flagged
  <2> QED BY <2>1, <2>3
<1>3. Watched' BY <1>i DEF TypeOK, Watched, MarksPending, Flags, Flagged, Held, Threads
<1>4. Positions' /\ Level' /\ Ahead' BY <1>i DEF TypeOK, Positions, Level, Ahead, Threads
<1>5. Intact' /\ DonesWritten' BY <1>i DEF TypeOK, Intact, DonesWritten, Positions, Level, Threads
<1>6. ParseContiguous' BY <1>i DEF TypeOK, ParseContiguous
<1>7. MarksIntact' /\ MarkHeld' BY <1>i DEF TypeOK, MarksIntact, MarkHeld
<1>8. TokensConserved' BY <1>i DEF TypeOK, TokensConserved
<1> QED BY <1>1, <1>2, <1>3, <1>4, <1>5, <1>6, <1>7, <1>8 DEF IInv, RingInv
-----------------------------------------------------------------------------
(* The theorems *)

LEMMA InitIInv == Init => IInv
<1> SUFFICES ASSUME Init PROVE IInv OBVIOUS
<1> USE DEF Init
<1>1. TypeOK
  <2>1. ring \in [0..Size-1 -> Int] OBVIOUS
  <2>2. [pos |-> 0, retrace |-> -1] \in [pos : Nat, retrace : Int] OBVIOUS
  <2>3. marks \in [0..MarkSlots-1 -> [pos : Nat, retrace : Int]] BY <2>2
  <2> QED BY <2>1, <2>3 DEF TypeOK, GuestPlaces, GuestCalls, RenderPlaces
<1>2. Positions /\ Intact /\ ParseContiguous BY DEF Positions, Intact, ParseContiguous
<1>3. MarksIntact /\ MarkHeld BY DEF MarksIntact, MarkHeld
<1>4. TokensConserved BY FS_EmptySet DEF TokensConserved
<1>5. Threads /\ Flags /\ Level /\ Ahead
  BY DEF Threads, Flags, Held, Flagged, Level, Ahead
<1>6. DonesWritten /\ Watched BY DEF DonesWritten, Watched
<1> QED BY <1>1, <1>2, <1>3, <1>4, <1>5, <1>6 DEF IInv, RingInv

LEMMA StutterIInv ==
  ASSUME IInv, UNCHANGED vars
  PROVE  IInv'
<1> USE DEF vars
<1>1. RingInv' BY DEF IInv, RingInv, TypeOK, Positions, Intact, ParseContiguous, MarksIntact, TokensConserved
<1>2. (Threads /\ Flags /\ Level /\ Ahead)' BY DEF IInv, Threads, Flags, Level, Ahead
<1>3. (MarkHeld /\ DonesWritten /\ Watched)' BY DEF IInv, MarkHeld, DonesWritten, Watched, MarksPending
<1> QED BY <1>1, <1>2, <1>3 DEF IInv

LEMMA NextIInv == IInv /\ [Next]_vars => IInv'
<1> SUFFICES ASSUME IInv, [Next]_vars PROVE IInv' OBVIOUS
<1>1. CASE GuestStep
  BY <1>1, StoreIInv, StoreFullIInv, PublishIInv, LookIInv, SignalIInv, ReturnPlainIInv, TakeTokenIInv,
     OfferTokenIInv, MarkIInv, MarkDroppedIInv, MarkPublishIInv, ReturnDrainedIInv, StopStoreIInv,
     JoinIInv DEF GuestStep
<1>2. CASE GuestBegins
  BY <1>2, StartIInv, StoreIInv, StoreFullIInv, StoreInlineIInv, CallIInv DEF GuestBegins
<1>3. CASE RenderStep
  BY <1>3, RunMarkIInv, MarksDoneIInv, LoadIInv, LimitIInv, ParseByteIInv, ParsedIInv, IdleIInv, LockIInv,
     FlagIInv, RecheckIInv, RelockIInv, UnflagIInv DEF RenderStep
<1>4. CASE Timeout BY <1>4, TimeoutIInv
<1>5. CASE UNCHANGED vars BY <1>5, StutterIInv
<1> QED BY <1>1, <1>2, <1>3, <1>4, <1>5 DEF Next

\* The invariant the theorems below are read off.
THEOREM Inductive == Spec => []IInv
<1> QED BY InitIInv, NextIInv, PTL DEF Spec

\* The two threads share the ring without a lock: positions never cross, no
\* byte or mark is overwritten before it is read, a parse stays within the
\* ring's memory, and every draw-done request executed is exactly one token,
\* offer or interrupt (display.c:307-421, fifo.c:1159, interrupt.c:704).
THEOREM RingTheorem == Spec => []RingInv
<1>1. IInv => RingInv BY DEF IInv
<1> QED BY <1>1, Inductive, PTL

\* Whenever the render thread is asleep on work or on a stop, the game's thread
\* is on its way to wake it, so the two-millisecond timeout is never needed
\* (display.c:356-364 against :383-391, :458-464 and :472).
THEOREM WakeupTheorem == Spec => []NoLostWakeup
<1>1. IInv => NoLostWakeup BY DEF IInv, Watched, NoLostWakeup
<1> QED BY <1>1, Inductive, PTL

\* A drain or a stop that gets past its wait leaves nothing written unparsed
\* (display.c:430-436 and :466-480).
THEOREM DrainTheorem == Spec => DrainMeansParsed
<1>1. IInv /\ [Next]_vars => [gpc = "return" /\ gop \in {"drain", "stop"} /\ gpc' \in {"play", "stopSignal"} => at = head]_vars
  <2> SUFFICES ASSUME IInv, Next, gpc = "return", gop \in {"drain", "stop"}, gpc' \in {"play", "stopSignal"}
               PROVE  at = head
    OBVIOUS
  <2>1. mode = "async" /\ tail <= at /\ at <= head /\ tail \in Nat /\ head \in Nat /\ at \in Nat
    BY DEF IInv, RingInv, TypeOK, Positions, Threads
  <2>2. tail = head
    <3>1. CASE GuestStep
      BY <3>1 DEF GuestStep, Publish, Look, Signal, ReturnPlain, TakeToken, OfferToken, Mark, MarkDropped,
                  MarkPublish, ReturnDrained, StopStore, Join, StoreFull, Store, Drained
    <3>2. CASE GuestBegins BY <3>2 DEF GuestBegins, Start, StoreFull, Store, StoreInline, Call
    <3>3. CASE RenderStep
      BY <3>3 DEF RenderStep, RunMark, MarksDone, Load, Limit, ParseByte, Parsed, Idle, Lock, Flag, Recheck,
                  Relock, Unflag, Test, guest
    <3>4. CASE Timeout BY <3>4 DEF Timeout, guest
    <3> QED BY <3>1, <3>2, <3>3, <3>4 DEF Next
  <2> QED BY <2>1, <2>2
<1> QED BY <1>1, Inductive, PTL DEF Spec, DrainMeansParsed
=============================================================================
