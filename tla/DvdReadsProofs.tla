--------------------------- MODULE DvdReadsProofs ---------------------------
(***************************************************************************)
(* Proofs about DvdReads for any reads, command blocks, slots, machines    *)
(* and discs, the image shared by several workers included: workers and    *)
(* the game's thread share the table of requests safely, a block says BUSY *)
(* while a read on it is under way, each read is refused or landed and     *)
(* reported once (ReadContract), and a read gets the bytes of its own      *)
(* place unless another one moved the image's FILE under it.               *)
(***************************************************************************)
EXTENDS DvdReads, FiniteSetTheorems, WellFoundedInduction, TLAPS

USE SlotsAssumption, SelfCheckAssumption

-----------------------------------------------------------------------------
(* The inductive invariant *)

\* The self-check reads by path, and the game only what names a place.
Wanted(r) == r = SelfCheck \/ Placed(disc.table, Asks[r]) # {}

\* A read under way is in the pool in one place, and nobody else's is; it is not done
\* before a worker has it, and a worker that goes back has done it.
Pooled ==
  /\ \A j, k \in DOMAIN pending : pending[j] = pending[k] => j = k
  /\ \A r \in Reads : Queued(r) => r \notin running \cup finished /\ ~req[r].done
  /\ \A r \in Reads : ~(r \in running /\ r \in finished)
  /\ \A r \in Reads : r \in running /\ req[r].done => req[r].buffer # None
  /\ \A r \in Reads : r \in finished => req[r].done
  /\ \A r \in Reads : Queued(r) \/ r \in running => Wanted(r)
  /\ \A r \in Reads : Queued(r) \/ r \in running \/ r \in finished => status[r] \notin {"new", "refused"}
  /\ \A r \in Reads : status[r] = "busy" => Queued(r) \/ r \in running \/ r \in finished

\* A read has the slot it was given until it is released, and a slot's read is
\* under way or in the batch.
Tabled ==
  /\ \A i \in 0..Slots-1 : slot[i] # None =>
       /\ req[slot[i]].slot = i
       /\ status[slot[i]] = "busy" \/ \E k \in DOMAIN batch : batch[k] = i
  /\ \A r \in Reads : status[r] = "busy" => req[r].slot \in 0..Slots-1 /\ slot[req[r].slot] = r

\* No two reads in the table are on one block.
OnePerBlock ==
  /\ \A i, j \in 0..Slots-1 :
       slot[i] # None /\ slot[j] # None /\ req[slot[i]].block = req[slot[j]].block => i = j
  /\ \A i \in 0..Slots-1 : slot[i] # None /\ slot[i] # SelfCheck => req[slot[i]].block \in Blocks

\* The batch holds reads that landed; the first was reported when it is released.
Batched ==
  /\ \A k \in DOMAIN batch :
       /\ slot[batch[k]] # None
       /\ status[slot[batch[k]]] = IF k = 1 /\ gpc = "release" THEN "reported" ELSE "finished"
       /\ gpc = "drain" => batch[k] < scan
  /\ \A k, l \in DOMAIN batch : batch[k] = batch[l] => k = l
  /\ gpc \in {"selfcheck", "selfwait", "play"} => batch = <<>>
  /\ gpc \in {"callback", "release"} => batch # <<>>

\* The self-check comes first, alone, and its slot is free again when it is over.
SelfChecked ==
  /\ gpc = "selfcheck" => status[SelfCheck] = "new" /\ \A i \in 0..Slots-1 : slot[i] = None
  /\ gpc = "selfwait" => status[SelfCheck] = "busy" /\ req[SelfCheck].block = None
  /\ gpc \notin {"selfcheck", "selfwait"} =>
       status[SelfCheck] = "finished" /\ \A i \in 0..Slots-1 : slot[i] # SelfCheck

\* What a read left in memory is its whole answer, and nothing before that.
Delivered == \A r \in Reads :
  /\ status[r] \in {"finished", "reported"} => req[r].done /\ memory[r] = Bytes(r)
  /\ status[r] \notin {"finished", "reported"} => memory[r] = <<>>

\* Only an image's FILE is moved.
Sought == sought # {} => FromImage

IInv == /\ TypeOK /\ Sought /\ Pooled /\ Tabled /\ OnePerBlock /\ Batched /\ SelfChecked /\ Delivered /\ BlockTruth

Results == [ok : BOOLEAN, bytes : Seq(Nat)]
Requests == [slot : 0..Slots, block : Blocks \cup {None}, ready : Nat, buffer : Results \cup {None}, done : BOOLEAN]

-----------------------------------------------------------------------------
(* What a read may answer *)

\* A set of numbers that is not empty has a least one.
LEMMA LeastOf ==
  ASSUME NEW S, S \subseteq Nat, S # {}
  PROVE  \E x \in S : \A y \in S : x <= y
<1> DEFINE R == OpToRel(<, Nat)
<1>1. \A x, y \in Nat : <<x, y>> \in R <=> x < y BY DEF OpToRel
<1>2. IsWellFoundedOn(R, Nat) BY NatLessThanWellFounded
<1> HIDE DEF R
<1>3. PICK x \in S : \A y \in S : ~ (<<y, x>> \in R) BY <1>2, WFMin
<1>4. \A y \in S : ~(y < x) BY <1>1, <1>3
<1> QED BY <1>4

LEMMA MinIn ==
  ASSUME NEW S, S \subseteq Nat, S # {}
  PROVE  Min(S) \in S /\ \A y \in S : Min(S) <= y
BY LeastOf DEF Min

LEMMA MinOfTwo ==
  ASSUME NEW a \in Nat, NEW b \in Nat
  PROVE  Min({a, b}) \in {a, b} /\ Min({a, b}) <= a /\ Min({a, b}) <= b
<1>1. {a, b} \subseteq Nat /\ {a, b} # {} OBVIOUS
<1> QED BY <1>1, MinIn

LEMMA ResultsOf ==
  /\ Failed \in Results
  /\ \A bytes \in Seq(Nat) : Got(bytes) \in Results /\ Got(bytes).bytes = bytes /\ Got(bytes).ok
BY DEF Failed, Got, Results

\* A piece of a sequence of bytes is one.
LEMMA Piece ==
  ASSUME NEW s \in Seq(Nat), NEW m \in Nat, NEW n \in Int, n <= Len(s)
  PROVE  SubSeq(s, m + 1, n) \in Seq(Nat)
OBVIOUS

LEMMA Zeroes == ASSUME NEW n \in Int PROVE Zeros(n) \in Seq(Nat)
<1>1. CASE n \in Nat BY <1>1 DEF Zeros
<1>2. CASE n \notin Nat
  <2>1. 1 .. n = 1 .. 0 BY <1>2
  <2>2. Zeros(n) = [k \in 1 .. 0 |-> 0] BY <2>1 DEF Zeros
  <2>3. [k \in 1 .. 0 |-> 0] \in Seq(Nat) OBVIOUS
  <2> QED BY <2>2, <2>3
<1> QED BY <1>1, <1>2

\* What the assumptions say of a machine's first disc.
LEMMA Discs ==
  ASSUME NEW h \in DOMAIN Machines
  PROVE  /\ 0 \in DOMAIN Machines[h].discs
         /\ DiscOf(h).form \in {"image", "folder"}
         /\ entry_count(DiscOf(h).table) \in Int
         /\ \A i \in 1 .. entry_count(DiscOf(h).table) - 1 :
              DiscOf(h).table[i].offset_or_parent \in Nat /\ DiscOf(h).table[i].length_or_next \in Nat
         /\ DiscOf(h).form = "image" => DiscOf(h).image \in Seq(Nat)
         /\ DiscOf(h).form = "folder" => \A p \in DOMAIN DiscOf(h).files : DiscOf(h).files[p] \in Seq(Nat)
         /\ Machines[h].latency \in Nat
<1>1. Machines[h] \in Range(Machines) BY DEF Range
<1>2. mgs_disc_mount(DiscOf(h)) /\ 0 \in DOMAIN Machines[h].discs /\ Machines[h].latency \in Nat
  BY <1>1, MachinesAssumption DEF DiscOf
<1>3. entry_count(DiscOf(h).table) \in Int BY <1>2 DEF mgs_disc_mount, mgs_fst_load, entry_count
<1>4. DiscOf(h).form \in {"image", "folder"} BY <1>2 DEF mgs_disc_mount
<1> QED BY <1>1, <1>2, <1>3, <1>4, DataAssumption DEF DiscOf

\* A path leads to an entry of the table, and a place lies in entries of it.
LEMMA FilesOf ==
  ASSUME NEW t, entry_count(t) \in Int
  PROVE  /\ \A path : mgs_fst_file(t, path) \subseteq 1 .. entry_count(t) - 1
         /\ \A at : HoldersOf(t, at) \subseteq 1 .. entry_count(t) - 1
BY DEF mgs_fst_file, IsFile, HoldersOf

LEMMA TrimmedTo ==
  ASSUME NEW t, NEW i, t[i].length_or_next \in Nat, NEW offset \in Nat, NEW n \in Nat
  PROVE  Trimmed(t, i, offset, n) \in Nat
<1>1. CASE offset >= t[i].length_or_next BY <1>1 DEF Trimmed
<1>2. CASE ~(offset >= t[i].length_or_next)
  <2> DEFINE m == t[i].length_or_next - offset
  <2>1. m \in Nat BY <1>2
  <2> HIDE DEF m
  <2>2. Min({n, m}) \in {n, m} BY <2>1, MinOfTwo
  <2>3. Trimmed(t, i, offset, n) = Min({n, m}) BY <1>2 DEF Trimmed, m
  <2> QED BY <2>1, <2>2, <2>3
<1> QED BY <1>1, <1>2

LEMMA FolderReads ==
  ASSUME NEW h \in DOMAIN Machines, DiscOf(h).form = "folder", NEW path, NEW offset \in Nat, NEW n \in Nat
  PROVE  FolderRead(DiscOf(h), path, offset, n) \in Results
<1> DEFINE d == DiscOf(h)
           i == Min(mgs_fst_file(d.table, path))
           want == Trimmed(d.table, i, offset, n)
           f == d.files[path.names]
           end == Min({offset + want, Len(f)})
<1>1. CASE mgs_fst_file(d.table, path) = {} BY <1>1, ResultsOf DEF FolderRead
<1>2. CASE mgs_fst_file(d.table, path) # {}
  <2>1. entry_count(d.table) \in Int BY Discs
  <2>2. mgs_fst_file(d.table, path) \subseteq Nat /\ mgs_fst_file(d.table, path) \subseteq 1 .. entry_count(d.table) - 1
    BY <2>1, FilesOf
  <2>3. i \in 1 .. entry_count(d.table) - 1 BY <2>2, <1>2, MinIn
  <2>4. want \in Nat BY <2>3, Discs, TrimmedTo
  <2>5. CASE want = 0 \/ path.names \notin DOMAIN d.files
    <3>1. <<>> \in Seq(Nat) OBVIOUS
    <3>2. FolderRead(d, path, offset, n) \in {Got(<<>>), Failed} BY <1>2, <2>5 DEF FolderRead
    <3> QED BY <3>1, <3>2, ResultsOf
  <2>6. CASE want # 0 /\ path.names \in DOMAIN d.files
    <3>1. f \in Seq(Nat) BY <2>6, Discs
    <3>2. offset + want \in Nat /\ Len(f) \in Nat BY <3>1, <2>4
    <3>3. end \in Nat /\ end <= Len(f)
      <4> HIDE DEF want, f
      <4> QED BY <3>2, MinOfTwo
    <3>4. FolderRead(d, path, offset, n) = Got(SubSeq(f, offset + 1, end)) BY <1>2, <2>6 DEF FolderRead
    <3>5. SubSeq(f, offset + 1, end) \in Seq(Nat)
      <4> HIDE DEF f, end
      <4> QED BY <3>1, <3>3, Piece
    <3> QED BY <3>4, <3>5, ResultsOf
  <2> QED BY <2>5, <2>6
<1> QED BY <1>1, <1>2

LEMMA FolderAbsReads ==
  ASSUME NEW h \in DOMAIN Machines, DiscOf(h).form = "folder", NEW at \in Nat, NEW n \in Nat
  PROVE  FolderReadAbs(DiscOf(h), at, n) \in Results
<1> DEFINE d == DiscOf(h)
           i == Min(HoldersOf(d.table, at))
           offset == at - d.table[i].offset_or_parent
           got == FolderRead(d, mgs_fst_path(d.table, i), offset, n)
<1>1. CASE HoldersOf(d.table, at) = {} BY <1>1, ResultsOf DEF FolderReadAbs
<1>2. CASE HoldersOf(d.table, at) # {}
  <2>1. entry_count(d.table) \in Int BY Discs
  <2>2. HoldersOf(d.table, at) \subseteq 1 .. entry_count(d.table) - 1 BY <2>1, FilesOf
  <2>3. i \in HoldersOf(d.table, at)
    <3>1. HoldersOf(d.table, at) \subseteq Nat BY <2>1, <2>2
    <3> QED BY <3>1, <1>2, MinIn
  <2>4. offset \in Nat
    <3>1. at >= d.table[i].offset_or_parent BY <2>3 DEF HoldersOf
    <3>2. d.table[i].offset_or_parent \in Nat BY <2>2, <2>3, Discs
    <3> QED BY <3>1, <3>2
  <2>5. got \in Results
    <3> HIDE DEF offset, i
    <3> QED BY <2>4, FolderReads
  <2>6. CASE got.ok
    <3> HIDE DEF got
    <3>1. got.bytes \in Seq(Nat) BY <2>5 DEF Results
    <3>2. Zeros(n - Len(got.bytes)) \in Seq(Nat) BY <3>1, Zeroes
    <3>3. got.bytes \o Zeros(n - Len(got.bytes)) \in Seq(Nat) BY <3>1, <3>2
    <3>4. FolderReadAbs(d, at, n) = Got(got.bytes \o Zeros(n - Len(got.bytes))) BY <1>2, <2>6 DEF FolderReadAbs, got
    <3> QED BY <3>3, <3>4, ResultsOf
  <2>7. CASE ~got.ok
    <3>1. FolderReadAbs(d, at, n) = Failed BY <1>2, <2>7 DEF FolderReadAbs
    <3> QED BY <3>1, ResultsOf
  <2> QED BY <2>6, <2>7
<1> QED BY <1>1, <1>2

\* The places a read of the game's may name, and where an image is read.
LEMMA Places ==
  ASSUME NEW h \in DOMAIN Machines, NEW r \in Reads
  PROVE  /\ Placed(DiscOf(h).table, Asks[r]) \subseteq Nat
         /\ \A p \in ImagePlace(DiscOf(h), Asks[r]) : p.at \in Nat /\ p.n \in Nat
<1> DEFINE t == DiscOf(h).table
           path == Asks[r].path[1]
<1>1. Asks[r].offset \in Nat /\ Asks[r].length \in Nat BY DataAssumption
<1>2. mgs_fst_file(t, path) \subseteq 1 .. entry_count(t) - 1 BY Discs, FilesOf
<1>3. \A i \in mgs_fst_file(t, path) : t[i].offset_or_parent \in Nat /\ t[i].length_or_next \in Nat BY <1>2, Discs
<1>4. \A i \in mgs_fst_file(t, path) : /\ t[i].offset_or_parent + Asks[r].offset \in Nat
                                       /\ Trimmed(t, i, Asks[r].offset, Asks[r].length) \in Nat
  BY <1>1, <1>3, TrimmedTo
<1>5. Placed(t, Asks[r]) \subseteq Nat BY <1>1, <1>4 DEF Placed
<1>6. ASSUME NEW p \in ImagePlace(DiscOf(h), Asks[r]) PROVE p.at \in Nat /\ p.n \in Nat
  BY <1>4 DEF ImagePlace
<1> QED BY <1>5, <1>6

LEMMA PositionsOf ==
  ASSUME host \in DOMAIN Machines, NEW r \in Reads
  PROVE  \A p \in Position(r) : p.at \in Nat /\ p.n \in Nat
<1> DEFINE S == IF r = SelfCheck THEN ImagePlace(DiscOf(host), Asks[r])
                ELSE {[at |-> p, n |-> Asks[r].length] : p \in Placed(DiscOf(host).table, Asks[r])}
<1>1. Position(r) = S BY DEF Position, Positions
<1>2. Asks[r].length \in Nat BY DataAssumption
<1>3. CASE r = SelfCheck BY <1>1, <1>3, Places
<1>4. CASE r # SelfCheck BY <1>1, <1>2, <1>4, Places
<1> QED BY <1>3, <1>4

\* Every way of answering a read gives a result.
LEMMA FolderAnswer ==
  ASSUME host \in DOMAIN Machines, NEW r \in Reads, Wanted(r), ~FromImage
  PROVE  FromFolder(r) \in Results
<1> DEFINE d == DiscOf(host)
<1>1. d.form = "folder" /\ disc = d BY Discs DEF FromImage, disc, machine, DiscOf
<1>2. Asks[r].offset \in Nat /\ Asks[r].length \in Nat BY DataAssumption
<1>3. FromFolder(r) = IF r = SelfCheck THEN FolderRead(d, Asks[r].path[1], Asks[r].offset, Asks[r].length)
                      ELSE FolderReadAbs(d, Place(d, r), Asks[r].length)
  BY <1>1 DEF FromFolder, FolderAnswers
<1>4. CASE r = SelfCheck BY <1>1, <1>2, <1>3, <1>4, FolderReads
<1>5. CASE r # SelfCheck
  <2>1. Placed(d.table, Asks[r]) # {} BY <1>1, <1>5 DEF Wanted
  <2>2. Place(d, r) \in Nat BY <2>1, Places DEF Place
  <2> QED BY <1>1, <1>2, <1>3, <1>5, <2>2, FolderAbsReads
<1> QED BY <1>4, <1>5

LEMMA ImageAnswer ==
  ASSUME host \in DOMAIN Machines, NEW r \in Reads, FromImage, NEW at \in Nat
  PROVE  FromHere(r, at) \in Results
<1> DEFINE n == (CHOOSE p \in Position(r) : TRUE).n
<1>1. disc.image \in Seq(Nat) BY Discs DEF FromImage, disc, machine, DiscOf
<1>2. CASE Position(r) = {} BY <1>2, ResultsOf DEF FromHere
<1>3. CASE Position(r) # {}
  <2>1. n \in Nat BY <1>3, PositionsOf
  <2>2. <<>> \in Seq(Nat) OBVIOUS
  <2>3. CASE n = 0 BY <1>3, <2>2, <2>3, ResultsOf DEF FromHere
  <2>4. CASE n # 0
    <3>1. FromHere(r, at) = ReadHere(disc, at, n) BY <1>3, <2>4 DEF FromHere
    <3> HIDE DEF n
    <3>2. CASE at + n <= Len(disc.image)
      <4>1. SubSeq(disc.image, at + 1, at + n) \in Seq(Nat) BY <1>1, <2>1, <3>2, Piece
      <4> QED BY <3>1, <3>2, <4>1, ResultsOf DEF ReadHere
    <3>3. CASE ~(at + n <= Len(disc.image)) BY <3>1, <3>3, ResultsOf DEF ReadHere
    <3> QED BY <3>2, <3>3
  <2> QED BY <2>3, <2>4
<1> QED BY <1>2, <1>3

LEMMA InlineAnswer ==
  ASSUME host \in DOMAIN Machines, NEW r \in Reads, Wanted(r), cursor \in Nat
  PROVE  ReadInline(r) \in Results
<1>1. CASE ~FromImage BY <1>1, FolderAnswer DEF ReadInline
<1>2. CASE FromImage
  <2> DEFINE at == IF Position(r) = {} THEN cursor ELSE (CHOOSE p \in Position(r) : TRUE).at
  <2>1. at \in Nat BY PositionsOf
  <2>2. ReadInline(r) = FromHere(r, at) BY <1>2 DEF ReadInline
  <2> HIDE DEF at
  <2> QED BY <1>2, <2>1, <2>2, ImageAnswer
<1> QED BY <1>1, <1>2

-----------------------------------------------------------------------------
(* The type invariant in parts *)

PoolTypes == pending \in Seq(Reads) /\ running \subseteq Reads /\ finished \subseteq Reads
TableTypes ==
  /\ slot \in [0..Slots-1 -> Reads \cup {None}] /\ batch \in Seq(0..Slots-1)
  /\ gpc \in GuestPlaces /\ scan \in 0..Slots
RequestTypes == req \in [Reads -> Requests]
ClockTypes == dvdNow \in Nat /\ clock \in Nat /\ ee \in BOOLEAN
GameTypes ==
  /\ block \in [Blocks -> {"BUSY", "END", "FATAL_ERROR"}] /\ memory \in [Reads -> Seq(Nat)]
  /\ status \in [Reads -> {"new", "busy", "refused", "finished", "reported"}]
DriveTypes ==
  /\ host \in DOMAIN Machines /\ cursor \in Nat /\ sought \subseteq Reads /\ moved \subseteq Reads
  /\ current \in DOMAIN machine.discs /\ shown = Identity(machine.discs[current])

LEMMA TypeParts ==
  TypeOK <=> PoolTypes /\ TableTypes /\ RequestTypes /\ ClockTypes /\ GameTypes /\ DriveTypes
BY DEF TypeOK, PoolTypes, TableTypes, RequestTypes, Requests, Results, ClockTypes, GameTypes,
  DriveTypes

LEMMA TypePartsNext ==
  TypeOK' <=> PoolTypes' /\ TableTypes' /\ RequestTypes' /\ ClockTypes' /\ GameTypes' /\ DriveTypes'
BY DEF TypeOK, PoolTypes, TableTypes, RequestTypes, Requests, Results, ClockTypes, GameTypes,
  DriveTypes

-----------------------------------------------------------------------------
(* Queues and requests *)

LEMMA Appended ==
  ASSUME NEW T, NEW s \in Seq(T), NEW e \in T
  PROVE  /\ Append(s, e) \in Seq(T) /\ Len(s) \in Nat
         /\ DOMAIN Append(s, e) = DOMAIN s \cup {Len(s) + 1} /\ Append(s, e)[Len(s) + 1] = e
         /\ \A i \in DOMAIN s : i \in Nat /\ i < Len(s) + 1 /\ Append(s, e)[i] = s[i]
OBVIOUS

LEMMA Taken ==
  ASSUME NEW T, NEW s \in Seq(T), s # <<>>
  PROVE  /\ Tail(s) \in Seq(T) /\ Head(s) = s[1] /\ 1 \in DOMAIN s /\ Head(s) \in T
         /\ \A i \in DOMAIN Tail(s) : i \in Nat /\ i + 1 \in DOMAIN s /\ i + 1 # 1 /\ Tail(s)[i] = s[i + 1]
         /\ \A i \in DOMAIN s : i # 1 => i - 1 \in DOMAIN Tail(s) /\ Tail(s)[i - 1] = s[i]
<1>1. /\ Tail(s) \in Seq(T) /\ Head(s) = s[1] /\ 1 \in DOMAIN s /\ Head(s) \in T
      /\ Len(Tail(s)) = Len(s) - 1 /\ Len(s) \in Nat /\ DOMAIN s = 1 .. Len(s)
      /\ DOMAIN Tail(s) = 1 .. Len(s) - 1
  OBVIOUS
<1>2. \A i \in 1 .. Len(s) - 1 : Tail(s)[i] = s[i + 1] OBVIOUS
<1>3. ASSUME NEW i \in DOMAIN s, i # 1 PROVE i - 1 \in DOMAIN Tail(s) /\ Tail(s)[i - 1] = s[i]
  <2>1. i - 1 \in 1 .. Len(s) - 1 /\ (i - 1) + 1 = i BY <1>1, <1>3
  <2> QED BY <1>1, <1>2, <2>1
<1> QED BY <1>1, <1>2, <1>3

\* A worker writes a request's buffer, or marks it done, and nothing else of it.
LEMMA BufferSet ==
  ASSUME NEW f \in [Reads -> Requests], NEW r \in Reads, NEW a \in Results,
         NEW g, g = [f EXCEPT ![r].buffer = a]
  PROVE  /\ g \in [Reads -> Requests]
         /\ \A q \in Reads : /\ g[q].slot = f[q].slot /\ g[q].block = f[q].block /\ g[q].done = f[q].done
                             /\ g[q].buffer = IF q = r THEN a ELSE f[q].buffer
BY DEF Requests

LEMMA DoneSet ==
  ASSUME NEW f \in [Reads -> Requests], NEW r \in Reads, NEW g, g = [f EXCEPT ![r].done = TRUE]
  PROVE  /\ g \in [Reads -> Requests]
         /\ \A q \in Reads : /\ g[q].slot = f[q].slot /\ g[q].block = f[q].block /\ g[q].buffer = f[q].buffer
                             /\ g[q].done = IF q = r THEN TRUE ELSE f[q].done
BY DEF Requests

\* Submitting a read with no slot's read on its block: the types and the parts of
\* the invariant that are not about where the game's thread is.
LEMMA BuildKeeps ==
  ASSUME IInv, NEW r \in Reads, NEW b \in Blocks \cup {None}, Build(r, b), status[r] = "new", Wanted(r),
         b = None => r = SelfCheck, Unused(b), UNCHANGED <<memory, batch, host>>
  PROVE  /\ PoolTypes' /\ RequestTypes' /\ GameTypes' /\ Pooled' /\ Tabled' /\ OnePerBlock' /\ Delivered' /\ BlockTruth'
         /\ req'[r].block = b
         /\ \E f \in 0..Slots-1 : slot[f] = None /\ slot' = [slot EXCEPT ![f] = r]
         /\ \A q \in Reads : status'[q] = IF q = r THEN "busy" ELSE status[q]
<1>i. /\ PoolTypes /\ TableTypes /\ RequestTypes /\ ClockTypes /\ GameTypes /\ DriveTypes
      /\ Pooled /\ Tabled /\ OnePerBlock /\ Batched /\ SelfChecked /\ Delivered /\ BlockTruth
  BY TypeParts DEF IInv
<1> DEFINE f == FirstFree
           answer == IF Refuses THEN ReadInline(r) ELSE None
           q0 == [slot |-> f, block |-> b, ready |-> dvdNow + machine.latency, buffer |-> answer, done |-> Refuses]
           last == Len(pending) + 1
<1>f. f \in 0..Slots-1 /\ slot[f] = None
  <2>1. FreeSlots # {} /\ FreeSlots \subseteq Nat /\ FreeSlots \subseteq 0..Slots-1 BY DEF Build, FreeSlots
  <2>2. \E x \in FreeSlots : \A y \in FreeSlots : x <= y BY <2>1, LeastOf
  <2>3. f \in FreeSlots BY <2>2 DEF FirstFree
  <2> QED BY <2>1, <2>3 DEF FreeSlots
<1>a. answer \in Results \cup {None} BY <1>i, InlineAnswer DEF DriveTypes
<1>q. q0 \in Requests
  <2>1. dvdNow + machine.latency \in Nat BY <1>i, Discs DEF ClockTypes, DriveTypes, machine
  <2>2. Refuses \in BOOLEAN BY DEF Refuses
  <2>3. f \in 0..Slots BY <1>f
  <2> HIDE DEF f, answer
  <2> QED BY <1>a, <2>1, <2>2, <2>3 DEF Requests
<1>k. /\ req' = [req EXCEPT ![r] = q0] /\ slot' = [slot EXCEPT ![f] = r]
      /\ status' = [status EXCEPT ![r] = "busy"]
      /\ block' = IF b = None THEN block ELSE [block EXCEPT ![b] = "BUSY"]
      /\ q0.slot = f /\ q0.block = b /\ q0.buffer = answer /\ q0.done = Refuses
  BY DEF Build, Submit
<1>n. r \notin running /\ r \notin finished /\ ~Queued(r) BY <1>i DEF Pooled
<1>p. /\ Refuses => pending' = pending /\ running' = running /\ finished' = finished \cup {r}
      /\ ~Refuses => pending' = Append(pending, r) /\ running' = running /\ finished' = finished
  BY DEF Build, Submit, Pool!RunInline, Pool!Accept
<1>c. ~Refuses => /\ pending' \in Seq(Reads) /\ Len(pending) \in Nat
                  /\ DOMAIN pending' = DOMAIN pending \cup {last} /\ pending'[last] = r
                  /\ \A i \in DOMAIN pending : i \in Nat /\ i < last /\ pending'[i] = pending[i]
  BY <1>i, <1>p, Appended DEF PoolTypes
<1> HIDE DEF q0, f, answer, last
<1>g. /\ req' \in [Reads -> Requests] /\ req'[r] = q0 /\ \A q \in Reads : q # r => req'[q] = req[q]
      /\ slot' \in [0..Slots-1 -> Reads \cup {None}]
      /\ \A i \in 0..Slots-1 : slot'[i] = IF i = f THEN r ELSE slot[i]
      /\ status' \in [Reads -> {"new", "busy", "refused", "finished", "reported"}]
      /\ \A q \in Reads : status'[q] = IF q = r THEN "busy" ELSE status[q]
      /\ block' \in [Blocks -> {"BUSY", "END", "FATAL_ERROR"}]
      /\ \A c \in Blocks : block'[c] = IF c = b THEN "BUSY" ELSE block[c]
  BY <1>i, <1>f, <1>k, <1>q DEF RequestTypes, TableTypes, GameTypes
<1>o. \A i \in 0..Slots-1 : slot[i] # None => slot[i] # r /\ slot[i] \in Reads /\ req[slot[i]].block # b
  <2> TAKE i \in 0..Slots-1
  <2> HAVE slot[i] # None
  <2>1. status[slot[i]] = "busy" \/ \E k \in DOMAIN batch : batch[k] = i BY <1>i DEF Tabled
  <2>2. slot[i] # r BY <2>1, <1>i DEF Batched
  <2> QED BY <2>2, <1>i DEF TableTypes, Unused
<1>w. \A q \in Reads : Queued(q)' <=> Queued(q) \/ (q = r /\ ~Refuses)
  <2>1. CASE Refuses BY <2>1, <1>p DEF Queued
  <2>2. CASE ~Refuses BY <2>2, <1>c DEF Queued
  <2> QED BY <2>1, <2>2
<1>1. PoolTypes'
  <2>1. CASE Refuses BY <2>1, <1>p, <1>i DEF PoolTypes
  <2>2. CASE ~Refuses BY <2>2, <1>p, <1>c, <1>i DEF PoolTypes
  <2> QED BY <2>1, <2>2
<1>2. RequestTypes' /\ GameTypes' BY <1>g, <1>i DEF RequestTypes, GameTypes
<1>3. Pooled'
  <2>1. \A j, k \in DOMAIN pending' : pending'[j] = pending'[k] => j = k
    <3>1. CASE Refuses BY <3>1, <1>p, <1>i DEF Pooled
    <3>2. CASE ~Refuses BY <3>2, <1>c, <1>n, <1>i DEF Pooled, Queued
    <3> QED BY <3>1, <3>2
  <2>2. \A q \in Reads : Wanted(q)' <=> Wanted(q) BY DEF Wanted, disc, machine
  <2>3. running' = running /\ finished' = (IF Refuses THEN finished \cup {r} ELSE finished) BY <1>p
  <2>4. ASSUME NEW q \in Reads
        PROVE  /\ Queued(q)' => q \notin running' \cup finished' /\ ~req'[q].done
               /\ ~(q \in running' /\ q \in finished')
               /\ q \in running' /\ req'[q].done => req'[q].buffer # None
               /\ q \in finished' => req'[q].done
               /\ Queued(q)' \/ q \in running' => Wanted(q)
               /\ Queued(q)' \/ q \in running' \/ q \in finished' => status'[q] \notin {"new", "refused"}
               /\ status'[q] = "busy" => Queued(q)' \/ q \in running' \/ q \in finished'
    <3>1. CASE q = r BY <3>1, <2>3, <1>g, <1>k, <1>n, <1>w
    <3>2. CASE q # r BY <3>2, <2>3, <1>g, <1>w, <1>i DEF Pooled
    <3> QED BY <3>1, <3>2
  <2> QED BY <2>1, <2>2, <2>4 DEF Pooled
<1>4. Tabled'
  <2>1. ASSUME NEW i \in 0..Slots-1, slot'[i] # None
        PROVE  req'[slot'[i]].slot = i /\ (status'[slot'[i]] = "busy" \/ \E k \in DOMAIN batch : batch[k] = i)
    <3>1. CASE i = f BY <3>1, <1>g, <1>k
    <3>2. CASE i # f BY <3>2, <2>1, <1>g, <1>o, <1>i DEF Tabled
    <3> QED BY <3>1, <3>2
  <2>2. ASSUME NEW q \in Reads, status'[q] = "busy" PROVE req'[q].slot \in 0..Slots-1 /\ slot'[req'[q].slot] = q
    <3>1. CASE q = r BY <3>1, <1>f, <1>g, <1>k
    <3>2. CASE q # r
      <4>1. req'[q] = req[q] /\ req[q].slot \in 0..Slots-1 /\ slot[req[q].slot] = q
        BY <3>2, <2>2, <1>g, <1>i DEF Tabled
      <4>2. req[q].slot # f BY <4>1, <1>f
      <4> QED BY <4>1, <4>2, <1>g
    <3> QED BY <3>1, <3>2
  <2> QED BY <2>1, <2>2 DEF Tabled
<1>5. OnePerBlock'
  <2>1. ASSUME NEW i \in 0..Slots-1, slot'[i] # None
        PROVE  /\ i = f => req'[slot'[i]].block = b /\ slot'[i] = r
               /\ i # f => /\ slot'[i] = slot[i] /\ req'[slot'[i]].block = req[slot[i]].block
                           /\ req[slot[i]].block # b
    BY <2>1, <1>g, <1>k, <1>o
  <2>2. ASSUME NEW i \in 0..Slots-1, NEW j \in 0..Slots-1, slot'[i] # None, slot'[j] # None,
               req'[slot'[i]].block = req'[slot'[j]].block
        PROVE  i = j
    BY <2>1, <2>2, <1>i DEF OnePerBlock
  <2>3. ASSUME NEW i \in 0..Slots-1, slot'[i] # None, slot'[i] # SelfCheck PROVE req'[slot'[i]].block \in Blocks
    BY <2>1, <2>3, <1>i DEF OnePerBlock
  <2> QED BY <2>2, <2>3 DEF OnePerBlock
<1>6. Delivered'
  <2>1. \A q \in Reads : q # r => Bytes(q)' = Bytes(q) BY <1>g DEF Bytes
  <2> QED BY <2>1, <1>g, <1>i DEF Delivered
<1>7. BlockTruth'
  <2>1. ASSUME NEW c \in Blocks
        PROVE  block'[c] = "BUSY" <=> \E q \in Reads : status'[q] = "busy" /\ req'[q].block = c
    <3>1. CASE c = b BY <3>1, <1>g, <1>k
    <3>2. CASE c # b
      <4>1. \A q \in Reads : status'[q] = "busy" /\ req'[q].block = c <=> status[q] = "busy" /\ req[q].block = c
        BY <3>2, <1>g, <1>k
      <4> QED BY <3>2, <4>1, <1>g, <1>i DEF BlockTruth
    <3> QED BY <3>1, <3>2
  <2> QED BY <2>1 DEF BlockTruth
<1> QED BY <1>1, <1>2, <1>3, <1>4, <1>5, <1>6, <1>7, <1>f, <1>g, <1>k

-----------------------------------------------------------------------------
(* Every action keeps the invariant *)

LEMMA ReadRefusedIInv ==
  ASSUME IInv, NEW r \in Reads \ {SelfCheck}, NEW b \in Blocks, ReadRefused(r, b)
  PROVE  IInv'
<1> USE DEF ReadRefused, pool, drive, image
<1>i. /\ PoolTypes /\ TableTypes /\ RequestTypes /\ ClockTypes /\ GameTypes /\ DriveTypes
      /\ Sought /\ Pooled /\ Tabled /\ OnePerBlock /\ Batched /\ SelfChecked /\ Delivered /\ BlockTruth
  BY TypeParts DEF IInv
<1>1. TypeOK'
  <2>1. PoolTypes' /\ TableTypes' /\ RequestTypes' /\ ClockTypes' /\ DriveTypes'
    BY <1>i DEF PoolTypes, TableTypes, RequestTypes, ClockTypes, DriveTypes, machine
  <2>2. GameTypes' BY <1>i DEF GameTypes
  <2> QED BY <2>1, <2>2, TypePartsNext
<1>2. Sought' /\ OnePerBlock'
  BY <1>i DEF Sought, FromImage, disc, machine, OnePerBlock
<1>3. Pooled' BY <1>i DEF Pooled, Queued, Wanted, disc, machine
<1>4. Tabled' BY <1>i DEF Tabled
<1>5. Batched' BY <1>i DEF Batched
<1>6. SelfChecked' BY <1>i DEF SelfChecked
<1>7. Delivered' BY <1>i DEF Delivered, Bytes
<1>8. BlockTruth' BY <1>i DEF BlockTruth
<1> QED BY <1>1, <1>2, <1>3, <1>4, <1>5, <1>6, <1>7, <1>8 DEF IInv

LEMMA WorkerStartIInv ==
  ASSUME IInv, WorkerStart
  PROVE  IInv'
<1> USE DEF WorkerStart, Pool!Start, pool, drive, image
<1>i. /\ PoolTypes /\ TableTypes /\ RequestTypes /\ ClockTypes /\ GameTypes /\ DriveTypes
      /\ Sought /\ Pooled /\ Tabled /\ OnePerBlock /\ Batched /\ SelfChecked /\ Delivered /\ BlockTruth
  BY TypeParts DEF IInv
<1> DEFINE h == Head(pending)
<1>c. /\ pending' \in Seq(Reads) /\ h = pending[1] /\ 1 \in DOMAIN pending /\ h \in Reads
      /\ \A i \in DOMAIN pending' : i + 1 \in DOMAIN pending /\ i + 1 # 1 /\ pending'[i] = pending[i + 1] /\ i \in Nat
      /\ \A i \in DOMAIN pending : i # 1 => i - 1 \in DOMAIN pending' /\ pending'[i - 1] = pending[i]
  BY <1>i, Taken DEF PoolTypes
<1>k. /\ UNCHANGED <<finished, slot, req, dvdNow, clock, host, current, shown, cursor, sought, moved, ee, block, memory,
                     gpc, scan, batch, status>>
      /\ running' = running \cup {h}
  OBVIOUS
<1> HIDE DEF WorkerStart, h
<1>q. \A r \in Reads : Queued(r)' <=> Queued(r) /\ r # h
  <2> TAKE r \in Reads
  <2>1. ASSUME Queued(r)' PROVE Queued(r) /\ r # h
    <3>1. PICK i \in DOMAIN pending' : pending'[i] = r BY <2>1 DEF Queued
    <3>2. pending[i + 1] = r /\ i + 1 \in DOMAIN pending /\ i + 1 # 1 BY <3>1, <1>c
    <3> QED BY <3>2, <1>c, <1>i DEF Queued, Pooled
  <2>2. ASSUME Queued(r), r # h PROVE Queued(r)'
    <3>1. PICK i \in DOMAIN pending : pending[i] = r BY <2>2 DEF Queued
    <3> QED BY <3>1, <2>2, <1>c DEF Queued
  <2> QED BY <2>1, <2>2
<1>h. Queued(h) BY <1>c DEF Queued
<1>1. TypeOK'
  <2>1. TableTypes' /\ RequestTypes' /\ ClockTypes' /\ GameTypes' /\ DriveTypes'
    BY <1>i, <1>k, <1>c DEF TableTypes, RequestTypes, ClockTypes, GameTypes, DriveTypes, machine
  <2>2. PoolTypes' BY <1>i, <1>k, <1>c DEF PoolTypes
  <2> QED BY <2>1, <2>2, TypePartsNext
<1>2. Sought' /\ Tabled' /\ OnePerBlock' /\ Batched' /\ SelfChecked' /\ Delivered' /\ BlockTruth'
  BY <1>i, <1>k, <1>c
    DEF Sought, FromImage, disc, machine, Tabled, OnePerBlock, Batched, SelfChecked, Delivered,
    Bytes, BlockTruth
<1>3. Pooled'
  <2>1. \A j, k \in DOMAIN pending' : pending'[j] = pending'[k] => j = k
    <3> SUFFICES ASSUME NEW j \in DOMAIN pending', NEW k \in DOMAIN pending', pending'[j] = pending'[k]
                 PROVE  j = k
      OBVIOUS
    <3>1. j + 1 = k + 1 BY <1>c, <1>i DEF Pooled
    <3> QED BY <3>1, <1>c
  <2>2. \A r \in Reads : Wanted(r)' <=> Wanted(r) BY <1>k DEF Wanted, disc, machine
  <2>3. \A r \in Reads : Queued(r) <=> Queued(r)' \/ r = h BY <1>q, <1>h
  <2> QED BY <2>1, <2>2, <2>3, <1>q, <1>h, <1>c, <1>i, <1>k DEF Pooled
<1> QED BY <1>1, <1>2, <1>3 DEF IInv

LEMMA FillIInv ==
  ASSUME IInv, NEW r \in Reads, Fill(r)
  PROVE  IInv'
<1> USE DEF Fill, pool, drive, image
<1>i. /\ PoolTypes /\ TableTypes /\ RequestTypes /\ ClockTypes /\ GameTypes /\ DriveTypes
      /\ Sought /\ Pooled /\ Tabled /\ OnePerBlock /\ Batched /\ SelfChecked /\ Delivered /\ BlockTruth
  BY TypeParts DEF IInv
<1>a. FromFolder(r) \in Results BY <1>i, FolderAnswer DEF Pooled, DriveTypes
<1>k. /\ UNCHANGED <<pending, running, finished, slot, host, block, memory, gpc, scan, batch, status>>
      /\ r \in running /\ req[r].buffer = None /\ req' = [req EXCEPT ![r].buffer = FromFolder(r)]
  OBVIOUS
<1>g. /\ req' \in [Reads -> Requests]
      /\ \A q \in Reads : /\ req'[q].slot = req[q].slot /\ req'[q].block = req[q].block /\ req'[q].done = req[q].done
                          /\ q # r => req'[q].buffer = req[q].buffer
  BY <1>i, <1>a, <1>k, BufferSet DEF RequestTypes
<1>n. ~req[r].done /\ status[r] \notin {"finished", "reported"} BY <1>i, <1>k DEF Pooled, Delivered
<1>1. TypeOK'
  <2>1. PoolTypes' /\ TableTypes' /\ ClockTypes' /\ GameTypes' /\ DriveTypes'
    BY <1>i DEF PoolTypes, TableTypes, ClockTypes, GameTypes, DriveTypes, machine
  <2>2. RequestTypes' BY <1>g DEF RequestTypes
  <2> QED BY <2>1, <2>2, TypePartsNext
<1>2. Sought' /\ Batched'
  BY <1>i DEF Sought, FromImage, disc, machine, Batched
<1>3. Pooled'
  <2> HIDE DEF Fill
  <2> QED BY <1>i, <1>g, <1>k, <1>n DEF Pooled, Queued, Wanted, disc, machine
<1>4. Tabled'
  <2> HIDE DEF Fill
  <2> QED BY <1>i, <1>g, <1>k, <1>n DEF Tabled, TableTypes
<1>5. OnePerBlock'
  <2> HIDE DEF Fill
  <2> QED BY <1>i, <1>g, <1>k, <1>n DEF OnePerBlock, TableTypes
<1>6. SelfChecked'
  <2> HIDE DEF Fill
  <2> QED BY <1>i, <1>g, <1>k, <1>n DEF SelfChecked
<1>7. Delivered'
  <2> HIDE DEF Fill
  <2>1. \A q \in Reads : status[q] \in {"finished", "reported"} => req'[q].done /\ Bytes(q)' = Bytes(q)
    BY <1>g, <1>n, <1>i DEF Delivered, Bytes
  <2> QED BY <2>1, <1>k, <1>i DEF Delivered
<1>8. BlockTruth'
  <2> HIDE DEF Fill
  <2> QED BY <1>i, <1>g, <1>k, <1>n DEF BlockTruth
<1> QED BY <1>1, <1>2, <1>3, <1>4, <1>5, <1>6, <1>7, <1>8 DEF IInv

LEMMA SeekIInv ==
  ASSUME IInv, NEW r \in Reads, Seek(r)
  PROVE  IInv'
<1> USE DEF Seek, pool, drive, image
<1>i. /\ PoolTypes /\ TableTypes /\ RequestTypes /\ ClockTypes /\ GameTypes /\ DriveTypes
      /\ Sought /\ Pooled /\ Tabled /\ OnePerBlock /\ Batched /\ SelfChecked /\ Delivered /\ BlockTruth
  BY TypeParts DEF IInv
<1>1. TypeOK'
  <2>1. PoolTypes' /\ TableTypes' /\ RequestTypes' /\ ClockTypes' /\ GameTypes'
    BY <1>i DEF PoolTypes, TableTypes, RequestTypes, ClockTypes, GameTypes
  <2>2. DriveTypes'
    <3>1. cursor' \in Nat BY <1>i, PositionsOf DEF DriveTypes
    <3> QED BY <3>1, <1>i DEF DriveTypes, machine
  <2> QED BY <2>1, <2>2, TypePartsNext
<1>2. Pooled' /\ Tabled' /\ OnePerBlock' /\ Batched' /\ SelfChecked' /\ Delivered' /\ BlockTruth'
  BY <1>i DEF Pooled, Queued, Wanted, disc, machine, Tabled, OnePerBlock, Batched, SelfChecked,
    Delivered, Bytes, BlockTruth
<1>3. Sought' BY <1>i DEF Sought, FromImage, disc, machine
<1> QED BY <1>1, <1>2, <1>3 DEF IInv

LEMMA TransferIInv ==
  ASSUME IInv, NEW r \in Reads, Transfer(r)
  PROVE  IInv'
<1> USE DEF Transfer, pool, drive, image
<1>i. /\ PoolTypes /\ TableTypes /\ RequestTypes /\ ClockTypes /\ GameTypes /\ DriveTypes
      /\ Sought /\ Pooled /\ Tabled /\ OnePerBlock /\ Batched /\ SelfChecked /\ Delivered /\ BlockTruth
  BY TypeParts DEF IInv
<1>a. FromHere(r, cursor) \in Results /\ cursor + Len(FromHere(r, cursor).bytes) \in Nat
  <2>1. FromImage BY <1>i DEF Sought
  <2>2. FromHere(r, cursor) \in Results BY <2>1, <1>i, ImageAnswer DEF DriveTypes
  <2>3. FromHere(r, cursor).bytes \in Seq(Nat) BY <2>2 DEF Results
  <2> QED BY <2>2, <2>3, <1>i DEF DriveTypes
<1>k. /\ UNCHANGED <<pending, running, finished, slot, host, block, memory, gpc, scan, batch, status>>
      /\ r \in running /\ req[r].buffer = None /\ req' = [req EXCEPT ![r].buffer = FromHere(r, cursor)]
  OBVIOUS
<1>g. /\ req' \in [Reads -> Requests]
      /\ \A q \in Reads : /\ req'[q].slot = req[q].slot /\ req'[q].block = req[q].block /\ req'[q].done = req[q].done
                          /\ q # r => req'[q].buffer = req[q].buffer
  BY <1>i, <1>a, <1>k, BufferSet DEF RequestTypes
<1>n. ~req[r].done /\ status[r] \notin {"finished", "reported"} BY <1>i, <1>k DEF Pooled, Delivered
<1>1. TypeOK'
  <2>1. PoolTypes' /\ TableTypes' /\ ClockTypes' /\ GameTypes'
    BY <1>i DEF PoolTypes, TableTypes, ClockTypes, GameTypes
  <2>2. RequestTypes' BY <1>g DEF RequestTypes
  <2>3. DriveTypes' BY <1>i DEF DriveTypes, machine
  <2> QED BY <2>1, <2>2, <2>3, TypePartsNext
<1>2. Batched'
  BY <1>i DEF Batched
<1>3. Sought' BY <1>i DEF Sought, FromImage, disc, machine
<1>4. Pooled'
  <2> HIDE DEF Transfer
  <2> QED BY <1>i, <1>g, <1>k, <1>n DEF Pooled, Queued, Wanted, disc, machine
<1>5. Tabled'
  <2> HIDE DEF Transfer
  <2> QED BY <1>i, <1>g, <1>k, <1>n DEF Tabled, TableTypes
<1>6. OnePerBlock'
  <2> HIDE DEF Transfer
  <2> QED BY <1>i, <1>g, <1>k, <1>n DEF OnePerBlock, TableTypes
<1>7. SelfChecked'
  <2> HIDE DEF Transfer
  <2> QED BY <1>i, <1>g, <1>k, <1>n DEF SelfChecked
<1>8. Delivered'
  <2> HIDE DEF Transfer
  <2>1. \A q \in Reads : status[q] \in {"finished", "reported"} => req'[q].done /\ Bytes(q)' = Bytes(q)
    BY <1>g, <1>n, <1>i DEF Delivered, Bytes
  <2> QED BY <2>1, <1>k, <1>i DEF Delivered
<1>9. BlockTruth'
  <2> HIDE DEF Transfer
  <2> QED BY <1>i, <1>g, <1>k, <1>n DEF BlockTruth
<1> QED BY <1>1, <1>2, <1>3, <1>4, <1>5, <1>6, <1>7, <1>8, <1>9 DEF IInv

LEMMA PublishIInv ==
  ASSUME IInv, NEW r \in Reads, Publish(r)
  PROVE  IInv'
<1> USE DEF Publish, pool, drive, image
<1>i. /\ PoolTypes /\ TableTypes /\ RequestTypes /\ ClockTypes /\ GameTypes /\ DriveTypes
      /\ Sought /\ Pooled /\ Tabled /\ OnePerBlock /\ Batched /\ SelfChecked /\ Delivered /\ BlockTruth
  BY TypeParts DEF IInv
<1>1. TypeOK'
  <2>1. PoolTypes' /\ TableTypes' /\ ClockTypes' /\ GameTypes' /\ DriveTypes'
    BY <1>i DEF PoolTypes, TableTypes, ClockTypes, GameTypes, DriveTypes, machine
  <2>2. RequestTypes'
    <3>1. req' = [req EXCEPT ![r].done = TRUE] /\ req \in [Reads -> Requests] BY <1>i DEF RequestTypes
    <3> HIDE DEF Publish
    <3> QED BY <3>1, DoneSet DEF RequestTypes
  <2> QED BY <2>1, <2>2, TypePartsNext
<1>2. Sought' /\ Batched'
  BY <1>i DEF Sought, FromImage, disc, machine, Batched
<1>3. Pooled' BY <1>i DEF Pooled, Queued, Wanted, disc, machine
<1>4. Tabled' BY <1>i DEF Tabled
<1>5. OnePerBlock' BY <1>i DEF OnePerBlock
<1>6. SelfChecked' BY <1>i DEF SelfChecked
<1>7. Delivered' BY <1>i DEF Delivered, Bytes
<1>8. BlockTruth' BY <1>i DEF BlockTruth
<1> QED BY <1>1, <1>2, <1>3, <1>4, <1>5, <1>6, <1>7, <1>8 DEF IInv

LEMMA WorkerReturnIInv ==
  ASSUME IInv, NEW r \in Reads, WorkerReturn(r)
  PROVE  IInv'
<1> USE DEF WorkerReturn, Pool!Complete, pool, drive, image
<1>i. /\ PoolTypes /\ TableTypes /\ RequestTypes /\ ClockTypes /\ GameTypes /\ DriveTypes
      /\ Sought /\ Pooled /\ Tabled /\ OnePerBlock /\ Batched /\ SelfChecked /\ Delivered /\ BlockTruth
  BY TypeParts DEF IInv
<1>1. TypeOK'
  <2>1. TableTypes' /\ RequestTypes' /\ ClockTypes' /\ GameTypes' /\ DriveTypes'
    BY <1>i DEF TableTypes, RequestTypes, ClockTypes, GameTypes, DriveTypes, machine
  <2>2. PoolTypes' BY <1>i DEF PoolTypes
  <2> QED BY <2>1, <2>2, TypePartsNext
<1>2. Sought' /\ Tabled' /\ OnePerBlock' /\ Batched' /\ SelfChecked' /\ Delivered' /\ BlockTruth'
  BY <1>i DEF Sought, FromImage, disc, machine, Tabled, OnePerBlock, Batched, SelfChecked,
    Delivered, Bytes, BlockTruth
<1>3. Pooled' BY <1>i DEF Pooled, Queued, Wanted, disc, machine
<1> QED BY <1>1, <1>2, <1>3 DEF IInv

LEMMA TickIInv ==
  ASSUME IInv, Tick
  PROVE  IInv'
<1> USE DEF Tick, pool, drive, image
<1>i. /\ PoolTypes /\ TableTypes /\ RequestTypes /\ ClockTypes /\ GameTypes /\ DriveTypes
      /\ Sought /\ Pooled /\ Tabled /\ OnePerBlock /\ Batched /\ SelfChecked /\ Delivered /\ BlockTruth
  BY TypeParts DEF IInv
<1>1. TypeOK'
  <2>1. PoolTypes' /\ TableTypes' /\ RequestTypes' /\ GameTypes' /\ DriveTypes'
    BY <1>i DEF PoolTypes, TableTypes, RequestTypes, GameTypes, DriveTypes, machine
  <2>2. ClockTypes' BY <1>i DEF ClockTypes
  <2> QED BY <2>1, <2>2, TypePartsNext
<1>2. Sought' /\ Pooled' /\ Tabled' /\ OnePerBlock' /\ Batched' /\ SelfChecked' /\ Delivered' /\ BlockTruth'
  BY <1>i DEF Sought, FromImage, disc, machine, Pooled, Queued, Wanted, Tabled, OnePerBlock,
    Batched, SelfChecked, Delivered, Bytes, BlockTruth
<1> QED BY <1>1, <1>2 DEF IInv

LEMMA SetEEIInv ==
  ASSUME IInv, NEW on \in BOOLEAN, SetEE(on)
  PROVE  IInv'
<1> USE DEF SetEE, pool, drive, image
<1>i. /\ PoolTypes /\ TableTypes /\ RequestTypes /\ ClockTypes /\ GameTypes /\ DriveTypes
      /\ Sought /\ Pooled /\ Tabled /\ OnePerBlock /\ Batched /\ SelfChecked /\ Delivered /\ BlockTruth
  BY TypeParts DEF IInv
<1>1. TypeOK'
  <2>1. PoolTypes' /\ TableTypes' /\ RequestTypes' /\ GameTypes' /\ DriveTypes'
    BY <1>i DEF PoolTypes, TableTypes, RequestTypes, GameTypes, DriveTypes, machine
  <2>2. ClockTypes' BY <1>i DEF ClockTypes
  <2> QED BY <2>1, <2>2, TypePartsNext
<1>2. Sought' /\ Pooled' /\ Tabled' /\ OnePerBlock' /\ Batched' /\ SelfChecked' /\ Delivered' /\ BlockTruth'
  BY <1>i DEF Sought, FromImage, disc, machine, Pooled, Queued, Wanted, Tabled, OnePerBlock,
    Batched, SelfChecked, Delivered, Bytes, BlockTruth
<1> QED BY <1>1, <1>2 DEF IInv

LEMMA ServiceIInv ==
  ASSUME IInv, Service
  PROVE  IInv'
<1> USE DEF Service, pool, drive, image
<1>i. /\ PoolTypes /\ TableTypes /\ RequestTypes /\ ClockTypes /\ GameTypes /\ DriveTypes
      /\ Sought /\ Pooled /\ Tabled /\ OnePerBlock /\ Batched /\ SelfChecked /\ Delivered /\ BlockTruth
  BY TypeParts DEF IInv
<1>1. TypeOK'
  <2>1. PoolTypes' /\ RequestTypes' /\ GameTypes' /\ DriveTypes'
    BY <1>i DEF PoolTypes, RequestTypes, GameTypes, DriveTypes, machine
  <2>2. TableTypes' BY <1>i DEF TableTypes, GuestPlaces
  <2>3. ClockTypes' BY <1>i DEF ClockTypes
  <2> QED BY <2>1, <2>2, <2>3, TypePartsNext
<1>2. Sought' /\ Pooled' /\ Tabled' /\ OnePerBlock' /\ Delivered' /\ BlockTruth'
  BY <1>i DEF Sought, FromImage, disc, machine, Pooled, Queued, Wanted, Tabled, OnePerBlock,
    Delivered, Bytes, BlockTruth
<1>3. Batched' BY <1>i DEF Batched
<1>4. SelfChecked' BY <1>i DEF SelfChecked
<1> QED BY <1>1, <1>2, <1>3, <1>4 DEF IInv

LEMMA DrainSkipIInv ==
  ASSUME IInv, DrainSkip
  PROVE  IInv'
<1> USE DEF DrainSkip, pool, drive, image
<1>i. /\ PoolTypes /\ TableTypes /\ RequestTypes /\ ClockTypes /\ GameTypes /\ DriveTypes
      /\ Sought /\ Pooled /\ Tabled /\ OnePerBlock /\ Batched /\ SelfChecked /\ Delivered /\ BlockTruth
  BY TypeParts DEF IInv
<1>1. TypeOK'
  <2>1. PoolTypes' /\ RequestTypes' /\ ClockTypes' /\ GameTypes' /\ DriveTypes'
    BY <1>i DEF PoolTypes, RequestTypes, ClockTypes, GameTypes, DriveTypes, machine
  <2>2. TableTypes' BY <1>i DEF TableTypes, GuestPlaces
  <2> QED BY <2>1, <2>2, TypePartsNext
<1>2. Sought' /\ Pooled' /\ Tabled' /\ OnePerBlock' /\ SelfChecked' /\ Delivered' /\ BlockTruth'
  BY <1>i DEF Sought, FromImage, disc, machine, Pooled, Queued, Wanted, Tabled, OnePerBlock,
    SelfChecked, Delivered, Bytes, BlockTruth
<1>3. Batched' BY <1>i DEF Batched, TableTypes
<1> QED BY <1>1, <1>2, <1>3 DEF IInv

LEMMA DrainTakeIInv ==
  ASSUME IInv, DrainTake
  PROVE  IInv'
<1> USE DEF DrainTake, Due, Land, pool, drive, image
<1>i. /\ PoolTypes /\ TableTypes /\ RequestTypes /\ ClockTypes /\ GameTypes /\ DriveTypes
      /\ Sought /\ Pooled /\ Tabled /\ OnePerBlock /\ Batched /\ SelfChecked /\ Delivered /\ BlockTruth
  BY TypeParts DEF IInv
<1> DEFINE r == slot[scan]
           last == Len(batch) + 1
<1>k. /\ UNCHANGED <<pending, running, finished, slot, req, dvdNow, clock, host, current, shown, cursor, sought, moved, ee, gpc>>
      /\ gpc = "drain" /\ scan' = scan + 1 /\ scan < Slots /\ r # None /\ req[r].done
      /\ status' = [status EXCEPT ![r] = "finished"]
  OBVIOUS
<1>r. /\ r \in Reads /\ scan \in 0..Slots-1 /\ req[r].slot = scan /\ r # SelfCheck /\ req[r].block \in Blocks
      /\ \A k \in DOMAIN batch : batch[k] \in 0..Slots-1 /\ batch[k] # scan
      /\ status[r] = "busy"
  <2>1. scan \in 0..Slots-1 BY <1>i, <1>k DEF TableTypes
  <2>2. r \in Reads /\ r # SelfCheck BY <2>1, <1>i, <1>k DEF TableTypes, SelfChecked
  <2>3. \A k \in DOMAIN batch : batch[k] \in 0..Slots-1 /\ batch[k] # scan
    BY <2>1, <1>i, <1>k DEF TableTypes, Batched
  <2> QED BY <2>1, <2>2, <2>3, <1>i, <1>k DEF Tabled, OnePerBlock
<1>s. \A q \in Reads : status'[q] = IF q = r THEN "finished" ELSE status[q] BY <1>i, <1>k DEF GameTypes
<1>m. /\ memory' \in [Reads -> Seq(Nat)]
      /\ \A q \in Reads : memory'[q] = IF q = r THEN Bytes(r) ELSE memory[q]
  <2>1. Bytes(r) \in Seq(Nat)
    <3>1. req[r].buffer \in Results \cup {None} BY <1>i, <1>r DEF RequestTypes, Requests
    <3>2. <<>> \in Seq(Nat) OBVIOUS
    <3> QED BY <3>1, <3>2 DEF Bytes, Results
  <2>2. memory[r] = <<>> BY <1>i, <1>r DEF Delivered
  <2>3. memory' = IF Bytes(r) = <<>> THEN memory ELSE [memory EXCEPT ![r] = Bytes(r)] OBVIOUS
  <2> QED BY <2>1, <2>2, <2>3, <1>r, <1>i DEF GameTypes
<1>b. /\ block' \in [Blocks -> {"BUSY", "END", "FATAL_ERROR"}] /\ block'[req[r].block] # "BUSY"
      /\ \A b \in Blocks : b # req[r].block => block'[b] = block[b]
  <2>1. block' = [block EXCEPT ![req[r].block] = IF req[r].buffer = Failed THEN "FATAL_ERROR" ELSE "END"]
    BY <1>r
  <2> QED BY <2>1, <1>r, <1>i DEF GameTypes
<1>c. /\ batch' \in Seq(0..Slots-1) /\ DOMAIN batch' = DOMAIN batch \cup {last} /\ batch'[last] = scan
      /\ \A k \in DOMAIN batch : batch'[k] = batch[k] /\ k < last /\ k \in Nat
  <2>1. batch' = Append(batch, scan) /\ batch \in Seq(0..Slots-1) BY <1>i DEF TableTypes
  <2> QED BY <2>1, <1>r, Appended
<1> HIDE DEF DrainTake, Due, Land, last
<1>o. \A i \in 0..Slots-1 : slot[i] = r => i = scan BY <1>i, <1>k, <1>r DEF Tabled
<1>1. TypeOK'
  <2>1. PoolTypes' /\ RequestTypes' /\ ClockTypes' /\ DriveTypes'
    BY <1>i, <1>k DEF PoolTypes, RequestTypes, ClockTypes, DriveTypes, machine
  <2>2. TableTypes' BY <1>i, <1>c, <1>k, <1>r DEF TableTypes
  <2>3. GameTypes'
    <3>1. status' \in [Reads -> {"new", "busy", "refused", "finished", "reported"}] BY <1>i, <1>k DEF GameTypes
    <3> QED BY <3>1, <1>b, <1>m DEF GameTypes
  <2> QED BY <2>1, <2>2, <2>3, TypePartsNext
<1>2. Sought' /\ OnePerBlock'
  BY <1>i, <1>k DEF Sought, FromImage, disc, machine, OnePerBlock
<1>3. Pooled' BY <1>i, <1>k, <1>r, <1>s DEF Pooled, Queued, Wanted, disc, machine
<1>4. Tabled'
  <2>1. ASSUME NEW i \in 0..Slots-1, slot[i] # None
        PROVE  req[slot[i]].slot = i /\ (status'[slot[i]] = "busy" \/ \E k \in DOMAIN batch' : batch'[k] = i)
    <3>1. req[slot[i]].slot = i BY <2>1, <1>i DEF Tabled
    <3>2. CASE i = scan BY <3>1, <3>2, <1>c
    <3>3. CASE i # scan
      <4>1. slot[i] # r /\ slot[i] \in Reads BY <3>3, <2>1, <1>o, <1>i DEF TableTypes
      <4>2. status[slot[i]] = "busy" \/ \E k \in DOMAIN batch : batch[k] = i BY <2>1, <1>i DEF Tabled
      <4> QED BY <3>1, <4>1, <4>2, <1>c, <1>s
    <3> QED BY <3>2, <3>3
  <2>2. \A q \in Reads : status'[q] = "busy" => status[q] = "busy" BY <1>s
  <2> QED BY <2>1, <2>2, <1>i, <1>k DEF Tabled
<1>5. Batched'
  <2>1. ASSUME NEW k \in DOMAIN batch'
        PROVE  slot[batch'[k]] # None /\ status'[slot[batch'[k]]] = "finished" /\ batch'[k] < scan + 1
    <3>1. CASE k = last BY <3>1, <1>c, <1>k, <1>r, <1>s
    <3>2. CASE k \in DOMAIN batch
      <4>1. batch'[k] = batch[k] /\ batch[k] \in 0..Slots-1 /\ batch[k] # scan BY <3>2, <1>c, <1>r
      <4>2. slot[batch[k]] # None /\ status[slot[batch[k]]] = "finished" /\ batch[k] < scan
        BY <3>2, <1>i, <1>k DEF Batched
      <4>3. slot[batch[k]] # r /\ slot[batch[k]] \in Reads BY <4>1, <4>2, <1>o, <1>i DEF TableTypes
      <4> QED BY <4>1, <4>2, <4>3, <1>r, <1>s
    <3> QED BY <3>1, <3>2, <1>c
  <2>2. \A k, l \in DOMAIN batch' : batch'[k] = batch'[l] => k = l BY <1>c, <1>r, <1>i DEF Batched
  <2> QED BY <2>1, <2>2, <1>k DEF Batched
<1>6. SelfChecked' BY <1>i, <1>k, <1>r, <1>s DEF SelfChecked
<1>7. Delivered'
  <2>1. \A q \in Reads : Bytes(q)' = Bytes(q) BY <1>k DEF Bytes
  <2>2. ASSUME NEW q \in Reads
        PROVE  /\ status'[q] \in {"finished", "reported"} => req[q].done /\ memory'[q] = Bytes(q)
               /\ status'[q] \notin {"finished", "reported"} => memory'[q] = <<>>
    <3>1. CASE q = r BY <3>1, <1>k, <1>m, <1>s
    <3>2. CASE q # r BY <3>2, <1>m, <1>s, <1>i DEF Delivered
    <3> QED BY <3>1, <3>2
  <2> QED BY <2>1, <2>2, <1>k DEF Delivered
<1>8. BlockTruth'
  <2>1. ASSUME NEW q \in Reads, status[q] = "busy", req[q].block = req[r].block PROVE q = r
    <3>1. /\ req[q].slot \in 0..Slots-1 /\ slot[req[q].slot] = q /\ q # None
      BY <2>1, <1>i DEF Tabled
    <3>2. req[q].slot = scan BY <3>1, <2>1, <1>i, <1>k, <1>r DEF OnePerBlock
    <3> QED BY <3>1, <3>2
  <2>2. ASSUME NEW b \in Blocks PROVE block'[b] = "BUSY" <=> \E q \in Reads : status'[q] = "busy" /\ req[q].block = b
    <3>1. CASE b = req[r].block BY <3>1, <2>1, <1>b, <1>s
    <3>2. CASE b # req[r].block BY <3>2, <1>b, <1>s, <1>r, <1>i DEF BlockTruth
    <3> QED BY <3>1, <3>2
  <2> QED BY <2>2, <1>k DEF BlockTruth
<1> QED BY <1>1, <1>2, <1>3, <1>4, <1>5, <1>6, <1>7, <1>8 DEF IInv

LEMMA DrainEndIInv ==
  ASSUME IInv, DrainEnd
  PROVE  IInv'
<1> USE DEF DrainEnd, pool, drive, image
<1>i. /\ PoolTypes /\ TableTypes /\ RequestTypes /\ ClockTypes /\ GameTypes /\ DriveTypes
      /\ Sought /\ Pooled /\ Tabled /\ OnePerBlock /\ Batched /\ SelfChecked /\ Delivered /\ BlockTruth
  BY TypeParts DEF IInv
<1>1. TypeOK'
  <2>1. PoolTypes' /\ RequestTypes' /\ ClockTypes' /\ GameTypes' /\ DriveTypes'
    BY <1>i DEF PoolTypes, RequestTypes, ClockTypes, GameTypes, DriveTypes, machine
  <2>2. TableTypes' BY <1>i DEF TableTypes, GuestPlaces
  <2> QED BY <2>1, <2>2, TypePartsNext
<1>2. Sought' /\ Pooled' /\ Tabled' /\ OnePerBlock' /\ Delivered' /\ BlockTruth'
  BY <1>i DEF Sought, FromImage, disc, machine, Pooled, Queued, Wanted, Tabled, OnePerBlock,
    Delivered, Bytes, BlockTruth
<1>3. Batched' BY <1>i DEF Batched
<1>4. SelfChecked' BY <1>i DEF SelfChecked
<1> QED BY <1>1, <1>2, <1>3, <1>4 DEF IInv

LEMMA CallbackBeginIInv ==
  ASSUME IInv, CallbackBegin
  PROVE  IInv'
<1> USE DEF CallbackBegin, pool, drive, image
<1>i. /\ PoolTypes /\ TableTypes /\ RequestTypes /\ ClockTypes /\ GameTypes /\ DriveTypes
      /\ Sought /\ Pooled /\ Tabled /\ OnePerBlock /\ Batched /\ SelfChecked /\ Delivered /\ BlockTruth
  BY TypeParts DEF IInv
<1>1. TypeOK'
  <2>1. PoolTypes' /\ RequestTypes' /\ ClockTypes' /\ GameTypes' /\ DriveTypes'
    BY <1>i DEF PoolTypes, RequestTypes, ClockTypes, GameTypes, DriveTypes, machine
  <2>2. TableTypes' BY <1>i DEF TableTypes, GuestPlaces
  <2> QED BY <2>1, <2>2, TypePartsNext
<1>2. Sought' /\ Pooled' /\ Tabled' /\ OnePerBlock' /\ Delivered' /\ BlockTruth'
  BY <1>i DEF Sought, FromImage, disc, machine, Pooled, Queued, Wanted, Tabled, OnePerBlock,
    Delivered, Bytes, BlockTruth
<1>3. Batched' BY <1>i DEF Batched
<1>4. SelfChecked' BY <1>i DEF SelfChecked
<1> QED BY <1>1, <1>2, <1>3, <1>4 DEF IInv

LEMMA CallbackEndIInv ==
  ASSUME IInv, CallbackEnd
  PROVE  IInv'
<1> USE DEF CallbackEnd, pool, drive, image
<1>i. /\ PoolTypes /\ TableTypes /\ RequestTypes /\ ClockTypes /\ GameTypes /\ DriveTypes
      /\ Sought /\ Pooled /\ Tabled /\ OnePerBlock /\ Batched /\ SelfChecked /\ Delivered /\ BlockTruth
  BY TypeParts DEF IInv
<1> DEFINE h == Head(batch)
           r == slot[h]
<1>k. /\ UNCHANGED <<pending, running, finished, slot, req, dvdNow, clock, host, current, shown, cursor, sought, moved, ee,
                     block, memory, scan, batch>>
      /\ gpc = "callback" /\ gpc' = "release" /\ status' = [status EXCEPT ![r] = "reported"]
  OBVIOUS
<1>h. 1 \in DOMAIN batch /\ h = batch[1] /\ h \in 0..Slots-1
  <2>1. batch # <<>> /\ batch \in Seq(0..Slots-1) BY <1>i, <1>k DEF Batched, TableTypes
  <2> QED BY <2>1, Taken
<1>r. /\ r \in Reads /\ r # SelfCheck /\ status[r] = "finished" /\ req[r].slot = h
  BY <1>h, <1>i, <1>k DEF TableTypes, Batched, SelfChecked, Tabled
<1>s. \A q \in Reads : status'[q] = IF q = r THEN "reported" ELSE status[q] BY <1>i, <1>k DEF GameTypes
<1>o. \A i \in 0..Slots-1 : slot[i] = r => i = h BY <1>i, <1>r DEF Tabled
<1> HIDE DEF CallbackEnd, h
<1>1. TypeOK'
  <2>1. PoolTypes' /\ RequestTypes' /\ ClockTypes' /\ DriveTypes'
    BY <1>i, <1>k DEF PoolTypes, RequestTypes, ClockTypes, DriveTypes, machine
  <2>2. TableTypes' BY <1>i, <1>k DEF TableTypes, GuestPlaces
  <2>3. GameTypes' BY <1>i, <1>k DEF GameTypes
  <2> QED BY <2>1, <2>2, <2>3, TypePartsNext
<1>2. Sought' /\ OnePerBlock'
  BY <1>i, <1>k DEF Sought, FromImage, disc, machine, OnePerBlock
<1>3. Pooled' BY <1>i, <1>k, <1>r, <1>s DEF Pooled, Queued, Wanted, disc, machine
<1>4. Tabled'
  <2>1. ASSUME NEW i \in 0..Slots-1, slot[i] # None
        PROVE  status'[slot[i]] = "busy" \/ \E k \in DOMAIN batch : batch[k] = i
    <3>1. CASE slot[i] = r BY <3>1, <1>h, <1>o
    <3>2. CASE slot[i] # r BY <3>2, <2>1, <1>s, <1>i DEF Tabled, TableTypes
    <3> QED BY <3>1, <3>2
  <2>2. \A q \in Reads : status'[q] = "busy" => status[q] = "busy" BY <1>s
  <2> QED BY <2>1, <2>2, <1>i, <1>k DEF Tabled
<1>5. Batched'
  <2>1. ASSUME NEW k \in DOMAIN batch
        PROVE  slot[batch[k]] # None /\ status'[slot[batch[k]]] = IF k = 1 THEN "reported" ELSE "finished"
    <3>1. slot[batch[k]] # None /\ status[slot[batch[k]]] = "finished" BY <1>i, <1>k DEF Batched
    <3>2. CASE k = 1 BY <3>1, <3>2, <1>h, <1>r, <1>s
    <3>3. CASE k # 1
      <4>1. batch[k] # h /\ batch[k] \in 0..Slots-1 BY <3>3, <1>h, <1>i DEF Batched, TableTypes
      <4>2. slot[batch[k]] # r /\ slot[batch[k]] \in Reads BY <3>1, <4>1, <1>o, <1>i DEF TableTypes
      <4> QED BY <3>1, <3>3, <4>2, <1>s
    <3> QED BY <3>2, <3>3
  <2> QED BY <2>1, <1>h, <1>i, <1>k DEF Batched
<1>6. SelfChecked' BY <1>i, <1>k, <1>r, <1>s DEF SelfChecked
<1>7. Delivered'
  <2>1. \A q \in Reads : Bytes(q)' = Bytes(q) BY <1>k DEF Bytes
  <2> QED BY <2>1, <1>i, <1>k, <1>r, <1>s DEF Delivered
<1>8. BlockTruth'
  <2>1. \A q \in Reads : status'[q] = "busy" <=> status[q] = "busy" BY <1>r, <1>s
  <2> QED BY <2>1, <1>i, <1>k DEF BlockTruth
<1> QED BY <1>1, <1>2, <1>3, <1>4, <1>5, <1>6, <1>7, <1>8 DEF IInv

LEMMA ReleaseIInv ==
  ASSUME IInv, Release
  PROVE  IInv'
<1> USE DEF Release, pool, drive, image
<1>i. /\ PoolTypes /\ TableTypes /\ RequestTypes /\ ClockTypes /\ GameTypes /\ DriveTypes
      /\ Sought /\ Pooled /\ Tabled /\ OnePerBlock /\ Batched /\ SelfChecked /\ Delivered /\ BlockTruth
  BY TypeParts DEF IInv
<1> DEFINE h == Head(batch)
<1>k. /\ UNCHANGED <<pending, running, finished, req, dvdNow, clock, host, current, shown, cursor, sought, moved, ee,
                     block, memory, scan, status>>
      /\ gpc = "release" /\ gpc' = "report" /\ slot' = [slot EXCEPT ![h] = None]
  OBVIOUS
<1>c. /\ batch' \in Seq(0..Slots-1) /\ h = batch[1] /\ 1 \in DOMAIN batch /\ h \in 0..Slots-1
      /\ \A i \in DOMAIN batch' : i + 1 \in DOMAIN batch /\ i + 1 # 1 /\ batch'[i] = batch[i + 1] /\ i \in Nat
      /\ \A i \in DOMAIN batch : i # 1 => i - 1 \in DOMAIN batch' /\ batch'[i - 1] = batch[i]
  <2>1. batch # <<>> /\ batch \in Seq(0..Slots-1) BY <1>i, <1>k DEF Batched, TableTypes
  <2> QED BY <2>1, Taken
<1>s. /\ \A i \in 0..Slots-1 : slot'[i] = IF i = h THEN None ELSE slot[i]
      /\ slot' \in [0..Slots-1 -> Reads \cup {None}]
  BY <1>i, <1>k DEF TableTypes
<1>r. status[slot[h]] = "reported" BY <1>c, <1>i, <1>k DEF Batched
<1> HIDE DEF Release, h
<1>1. TypeOK'
  <2>1. PoolTypes' /\ RequestTypes' /\ ClockTypes' /\ GameTypes' /\ DriveTypes'
    BY <1>i, <1>k DEF PoolTypes, RequestTypes, ClockTypes, GameTypes, DriveTypes, machine
  <2>2. TableTypes' BY <1>c, <1>i, <1>k, <1>s DEF TableTypes, GuestPlaces
  <2> QED BY <2>1, <2>2, TypePartsNext
<1>2. Sought' /\ Pooled' /\ Delivered' /\ BlockTruth'
  BY <1>i, <1>k DEF Sought, FromImage, disc, machine, Pooled, Queued, Wanted, Delivered, Bytes,
    BlockTruth
<1>3. Tabled'
  <2>1. ASSUME NEW i \in 0..Slots-1, slot'[i] # None
        PROVE  /\ req[slot'[i]].slot = i
               /\ status[slot'[i]] = "busy" \/ \E k \in DOMAIN batch' : batch'[k] = i
    <3>1. i # h /\ slot'[i] = slot[i] BY <2>1, <1>s
    <3>2. req[slot[i]].slot = i BY <2>1, <3>1, <1>i DEF Tabled
    <3>3. CASE status[slot[i]] = "busy" BY <3>1, <3>2, <3>3
    <3>4. CASE \E k \in DOMAIN batch : batch[k] = i
      <4>1. PICK k \in DOMAIN batch : batch[k] = i BY <3>4
      <4>2. k # 1 BY <3>1, <4>1, <1>c
      <4>3. k - 1 \in DOMAIN batch' /\ batch'[k - 1] = i BY <4>1, <4>2, <1>c
      <4> QED BY <3>1, <3>2, <4>3
    <3> QED BY <2>1, <3>1, <3>3, <3>4, <1>i DEF Tabled
  <2>2. ASSUME NEW q \in Reads, status[q] = "busy" PROVE req[q].slot \in 0..Slots-1 /\ slot'[req[q].slot] = q
    BY <2>2, <1>i, <1>r, <1>s DEF Tabled
  <2> QED BY <2>1, <2>2, <1>k DEF Tabled
<1>4. OnePerBlock' BY <1>i, <1>k, <1>s DEF OnePerBlock
<1>5. Batched'
  <2>1. ASSUME NEW k \in DOMAIN batch' PROVE slot'[batch'[k]] # None /\ status[slot'[batch'[k]]] = "finished"
    <3>1. k + 1 \in DOMAIN batch /\ k + 1 # 1 /\ batch'[k] = batch[k + 1] BY <1>c
    <3>2. batch[k + 1] # h BY <3>1, <1>c, <1>i DEF Batched
    <3>3. batch[k + 1] \in 0..Slots-1 BY <3>1, <1>i DEF TableTypes
    <3> QED BY <3>1, <3>2, <3>3, <1>i, <1>k, <1>s DEF Batched
  <2>2. ASSUME NEW k \in DOMAIN batch', NEW l \in DOMAIN batch', batch'[k] = batch'[l] PROVE k = l
    <3>1. k + 1 = l + 1 BY <2>2, <1>c, <1>i DEF Batched
    <3> QED BY <3>1, <1>c
  <2> QED BY <2>1, <2>2, <1>k DEF Batched
<1>6. SelfChecked' BY <1>i, <1>k, <1>s DEF SelfChecked
<1> QED BY <1>1, <1>2, <1>3, <1>4, <1>5, <1>6 DEF IInv

LEMMA ServiceEndIInv ==
  ASSUME IInv, ServiceEnd
  PROVE  IInv'
<1> USE DEF ServiceEnd, pool, drive, image
<1>i. /\ PoolTypes /\ TableTypes /\ RequestTypes /\ ClockTypes /\ GameTypes /\ DriveTypes
      /\ Sought /\ Pooled /\ Tabled /\ OnePerBlock /\ Batched /\ SelfChecked /\ Delivered /\ BlockTruth
  BY TypeParts DEF IInv
<1>1. TypeOK'
  <2>1. PoolTypes' /\ RequestTypes' /\ ClockTypes' /\ GameTypes' /\ DriveTypes'
    BY <1>i DEF PoolTypes, RequestTypes, ClockTypes, GameTypes, DriveTypes, machine
  <2>2. TableTypes' BY <1>i DEF TableTypes, GuestPlaces
  <2> QED BY <2>1, <2>2, TypePartsNext
<1>2. Sought' /\ Pooled' /\ Tabled' /\ OnePerBlock' /\ Delivered' /\ BlockTruth'
  BY <1>i DEF Sought, FromImage, disc, machine, Pooled, Queued, Wanted, Tabled, OnePerBlock,
    Delivered, Bytes, BlockTruth
<1>3. Batched' BY <1>i DEF Batched
<1>4. SelfChecked' BY <1>i DEF SelfChecked
<1> QED BY <1>1, <1>2, <1>3, <1>4 DEF IInv

LEMMA SyncEndIInv ==
  ASSUME IInv, SyncEnd
  PROVE  IInv'
<1> USE DEF SyncEnd, pool, drive, image
<1>i. /\ PoolTypes /\ TableTypes /\ RequestTypes /\ ClockTypes /\ GameTypes /\ DriveTypes
      /\ Sought /\ Pooled /\ Tabled /\ OnePerBlock /\ Batched /\ SelfChecked /\ Delivered /\ BlockTruth
  BY TypeParts DEF IInv
<1> DEFINE f == req[SelfCheck].slot
<1>k. /\ UNCHANGED <<pending, running, finished, req, dvdNow, clock, host, current, shown, cursor, sought, moved, ee,
                     block, scan, batch>>
      /\ gpc = "selfwait" /\ gpc' = "play" /\ pending = <<>> /\ running = {}
      /\ slot' = [slot EXCEPT ![f] = None] /\ status' = [status EXCEPT ![SelfCheck] = "finished"]
      /\ memory' = IF Bytes(SelfCheck) = <<>> THEN memory ELSE [memory EXCEPT ![SelfCheck] = Bytes(SelfCheck)]
  OBVIOUS
<1>f. /\ status[SelfCheck] = "busy" /\ req[SelfCheck].block = None /\ f \in 0..Slots-1 /\ slot[f] = SelfCheck
      /\ req[SelfCheck].done /\ batch = <<>> /\ memory[SelfCheck] = <<>>
  <2>1. status[SelfCheck] = "busy" /\ req[SelfCheck].block = None BY <1>i, <1>k DEF SelfChecked
  <2>2. SelfCheck \in finished BY <2>1, <1>i, <1>k DEF Pooled, Queued
  <2> QED BY <2>1, <2>2, <1>i, <1>k DEF Tabled, Pooled, Batched, Delivered
<1>s. /\ slot' \in [0..Slots-1 -> Reads \cup {None}]
      /\ \A i \in 0..Slots-1 : slot'[i] = IF i = f THEN None ELSE slot[i]
      /\ \A q \in Reads : status'[q] = IF q = SelfCheck THEN "finished" ELSE status[q]
      /\ status' \in [Reads -> {"new", "busy", "refused", "finished", "reported"}]
  BY <1>i, <1>k DEF TableTypes, GameTypes
<1>m. /\ memory' \in [Reads -> Seq(Nat)]
      /\ \A q \in Reads : memory'[q] = IF q = SelfCheck THEN Bytes(SelfCheck) ELSE memory[q]
  <2>1. Bytes(SelfCheck) \in Seq(Nat)
    <3>1. req[SelfCheck].buffer \in Results \cup {None} BY <1>i DEF RequestTypes, Requests
    <3>2. <<>> \in Seq(Nat) OBVIOUS
    <3> QED BY <3>1, <3>2 DEF Bytes, Results
  <2> QED BY <2>1, <1>f, <1>k, <1>i DEF GameTypes
<1>o. \A i \in 0..Slots-1 : slot[i] = SelfCheck => i = f BY <1>i, <1>f DEF Tabled
<1> HIDE DEF SyncEnd, f
<1>1. TypeOK'
  <2>1. PoolTypes' /\ RequestTypes' /\ ClockTypes' /\ DriveTypes'
    BY <1>i, <1>k DEF PoolTypes, RequestTypes, ClockTypes, DriveTypes, machine
  <2>2. TableTypes' BY <1>i, <1>k, <1>s DEF TableTypes, GuestPlaces
  <2>3. GameTypes' BY <1>i, <1>k, <1>m, <1>s DEF GameTypes
  <2> QED BY <2>1, <2>2, <2>3, TypePartsNext
<1>2. Sought'
  BY <1>i, <1>k DEF Sought, FromImage, disc, machine
<1>3. Pooled' BY <1>i, <1>k, <1>f, <1>s DEF Pooled, Queued, Wanted, disc, machine
<1>4. Tabled'
  <2>1. ASSUME NEW i \in 0..Slots-1, slot'[i] # None
        PROVE  req[slot'[i]].slot = i /\ status'[slot'[i]] = "busy"
    <3>1. i # f /\ slot'[i] = slot[i] /\ slot[i] \in Reads BY <2>1, <1>i, <1>s DEF TableTypes
    <3>2. slot[i] # SelfCheck BY <3>1, <1>o
    <3> QED BY <3>1, <3>2, <2>1, <1>f, <1>i, <1>s DEF Tabled
  <2>2. ASSUME NEW q \in Reads, status'[q] = "busy" PROVE req[q].slot \in 0..Slots-1 /\ slot'[req[q].slot] = q
    <3>1. q # SelfCheck /\ status[q] = "busy" BY <2>2, <1>s
    <3>2. req[q].slot \in 0..Slots-1 /\ slot[req[q].slot] = q BY <3>1, <1>i DEF Tabled
    <3>3. req[q].slot # f BY <3>1, <3>2, <1>f
    <3> QED BY <3>2, <3>3, <1>s
  <2> QED BY <2>1, <2>2, <1>k DEF Tabled
<1>5. OnePerBlock' BY <1>i, <1>k, <1>s DEF OnePerBlock
<1>6. Batched' BY <1>f, <1>k DEF Batched
<1>7. SelfChecked' BY <1>k, <1>o, <1>s DEF SelfChecked
<1>8. Delivered'
  <2>1. \A q \in Reads : Bytes(q)' = Bytes(q) BY <1>k DEF Bytes
  <2> QED BY <2>1, <1>i, <1>f, <1>k, <1>m, <1>s DEF Delivered
<1>9. BlockTruth'
  <2>1. \A q \in Reads, b \in Blocks : status'[q] = "busy" /\ req[q].block = b <=> status[q] = "busy" /\ req[q].block = b
    BY <1>f, <1>s
  <2> QED BY <2>1, <1>i, <1>k DEF BlockTruth
<1> QED BY <1>1, <1>2, <1>3, <1>4, <1>5, <1>6, <1>7, <1>8, <1>9 DEF IInv

LEMMA CompareDiskIDIInv ==
  ASSUME IInv, NEW want, mgs_DVDCompareDiskID(want)
  PROVE  IInv'
<1> USE DEF mgs_DVDCompareDiskID, Swaps, CanSelect, pool, drive, image
<1>i. /\ PoolTypes /\ TableTypes /\ RequestTypes /\ ClockTypes /\ GameTypes /\ DriveTypes
      /\ Sought /\ Pooled /\ Tabled /\ OnePerBlock /\ Batched /\ SelfChecked /\ Delivered /\ BlockTruth
  BY TypeParts DEF IInv
<1>1. TypeOK'
  <2>1. PoolTypes' /\ TableTypes' /\ RequestTypes' /\ ClockTypes' /\ GameTypes'
    BY <1>i DEF PoolTypes, TableTypes, RequestTypes, ClockTypes, GameTypes
  <2>2. DriveTypes' BY <1>i DEF DriveTypes, machine
  <2> QED BY <2>1, <2>2, TypePartsNext
<1>2. Sought' /\ Pooled' /\ Tabled' /\ OnePerBlock' /\ Batched' /\ SelfChecked' /\ Delivered' /\ BlockTruth'
  BY <1>i DEF Sought, FromImage, disc, machine, Pooled, Queued, Wanted, Tabled, OnePerBlock,
    Batched, SelfChecked, Delivered, Bytes, BlockTruth
<1> QED BY <1>1, <1>2 DEF IInv
LEMMA ReadIInv ==
  ASSUME IInv, NEW r \in Reads \ {SelfCheck}, NEW b \in Blocks, Read(r, b)
  PROVE  IInv'
<1>i. /\ PoolTypes /\ TableTypes /\ RequestTypes /\ ClockTypes /\ GameTypes /\ DriveTypes
      /\ Sought /\ Pooled /\ Tabled /\ OnePerBlock /\ Batched /\ SelfChecked /\ Delivered /\ BlockTruth
  BY TypeParts DEF IInv
<1>k. /\ UNCHANGED <<dvdNow, clock, host, current, shown, cursor, sought, moved, ee, memory, gpc, scan, batch>>
      /\ gpc \in {"play", "callback"} /\ status[r] = "new" /\ Unused(b) /\ Build(r, b) /\ Wanted(r)
  BY DEF Read, drive, image, Wanted
<1>b. /\ PoolTypes' /\ RequestTypes' /\ GameTypes' /\ Pooled' /\ Tabled' /\ OnePerBlock' /\ Delivered' /\ BlockTruth'
      /\ \A q \in Reads : status'[q] = IF q = r THEN "busy" ELSE status[q]
  BY <1>k, BuildKeeps
<1>f. PICK f \in 0..Slots-1 : slot[f] = None /\ slot' = [slot EXCEPT ![f] = r] BY <1>k, BuildKeeps
<1>s. /\ slot' \in [0..Slots-1 -> Reads \cup {None}]
      /\ \A i \in 0..Slots-1 : slot'[i] = IF i = f THEN r ELSE slot[i]
  BY <1>f, <1>i DEF TableTypes
<1>1. TypeOK'
  <2>1. TableTypes' BY <1>i, <1>k, <1>s DEF TableTypes
  <2>2. ClockTypes' /\ DriveTypes' BY <1>i, <1>k DEF ClockTypes, DriveTypes, machine
  <2> QED BY <2>1, <2>2, <1>b, TypePartsNext
<1>2. Sought' BY <1>i, <1>k DEF Sought, FromImage, disc, machine
<1>3. Batched'
  <2>1. ASSUME NEW k \in DOMAIN batch
        PROVE  slot'[batch[k]] = slot[batch[k]] /\ status'[slot[batch[k]]] = status[slot[batch[k]]]
    <3>1. batch[k] \in 0..Slots-1 BY <1>i DEF TableTypes
    <3>2. slot[batch[k]] # None /\ status[slot[batch[k]]] \in {"finished", "reported"} BY <1>i DEF Batched
    <3>3. slot[batch[k]] \in Reads /\ batch[k] # f /\ slot[batch[k]] # r
      BY <3>1, <3>2, <1>f, <1>i, <1>k DEF TableTypes
    <3> QED BY <3>1, <3>3, <1>b, <1>s
  <2> QED BY <2>1, <1>i, <1>k DEF Batched
<1>4. SelfChecked' BY <1>b, <1>i, <1>k, <1>s DEF SelfChecked
<1> QED BY <1>1, <1>2, <1>3, <1>4, <1>b DEF IInv

LEMMA SyncBeginIInv == ASSUME IInv, SyncBegin PROVE IInv'
<1> DEFINE r == SelfCheck
<1>i. /\ PoolTypes /\ TableTypes /\ RequestTypes /\ ClockTypes /\ GameTypes /\ DriveTypes
      /\ Sought /\ Pooled /\ Tabled /\ OnePerBlock /\ Batched /\ SelfChecked /\ Delivered /\ BlockTruth
  BY TypeParts DEF IInv
<1>k. /\ UNCHANGED <<dvdNow, clock, host, current, shown, cursor, sought, moved, ee, memory, scan, batch>>
      /\ gpc = "selfcheck" /\ gpc' = "selfwait" /\ Build(r, None) /\ Wanted(r)
  BY DEF SyncBegin, drive, image, Wanted
<1>u. status[r] = "new" /\ Unused(None) BY <1>i, <1>k DEF SelfChecked, Unused
<1>b. /\ PoolTypes' /\ RequestTypes' /\ GameTypes' /\ Pooled' /\ Tabled' /\ OnePerBlock' /\ Delivered' /\ BlockTruth'
      /\ \A q \in Reads : status'[q] = IF q = r THEN "busy" ELSE status[q]
      /\ req'[r].block = None
  BY <1>k, <1>u, BuildKeeps
<1>f. PICK f \in 0..Slots-1 : slot[f] = None /\ slot' = [slot EXCEPT ![f] = r] BY <1>k, <1>u, BuildKeeps
<1>1. TypeOK'
  <2>1. TableTypes' BY <1>i, <1>k, <1>f DEF TableTypes, GuestPlaces
  <2>2. ClockTypes' /\ DriveTypes' BY <1>i, <1>k DEF ClockTypes, DriveTypes, machine
  <2> QED BY <2>1, <2>2, <1>b, TypePartsNext
<1>2. Sought' BY <1>i, <1>k DEF Sought, FromImage, disc, machine
<1>3. Batched' BY <1>i, <1>k DEF Batched
<1>4. SelfChecked' BY <1>b, <1>k DEF SelfChecked
<1> QED BY <1>1, <1>2, <1>3, <1>4, <1>b DEF IInv

LEMMA InitIInv == ASSUME Init PROVE IInv
<1> USE DEF Init, Pool!Init
<1>1. TypeOK
  <2>1. <<>> \in Seq(Reads) /\ <<>> \in Seq(0..Slots-1) /\ <<>> \in Seq(Nat) OBVIOUS
  <2>2. PoolTypes /\ ClockTypes BY <2>1 DEF PoolTypes, ClockTypes
  <2>3. TableTypes BY <2>1 DEF TableTypes, GuestPlaces
  <2>4. NoRequest \in Requests BY DEF NoRequest, Requests
  <2>5. RequestTypes BY <2>4 DEF RequestTypes
  <2>6. GameTypes BY <2>1 DEF GameTypes
  <2>7. DriveTypes BY Discs DEF DriveTypes, machine, Identity
  <2> QED BY <2>2, <2>3, <2>5, <2>6, <2>7, TypeParts
<1>2. Sought /\ Tabled /\ OnePerBlock /\ Batched /\ SelfChecked
  BY DEF Sought, Tabled, OnePerBlock, Batched, SelfChecked
<1>3. Pooled BY DEF Pooled, Queued
<1>4. Delivered /\ BlockTruth BY DEF Delivered, BlockTruth
<1> QED BY <1>1, <1>2, <1>3, <1>4 DEF IInv

LEMMA StutterIInv == ASSUME IInv, UNCHANGED vars PROVE IInv'
<1>k. UNCHANGED <<pending, running, finished, slot, req, dvdNow, clock, host, current, shown, cursor, sought, moved, ee,
                  block, memory, gpc, scan, batch, status>>
  BY DEF vars, pool, drive, image
<1>i. /\ PoolTypes /\ TableTypes /\ RequestTypes /\ ClockTypes /\ GameTypes /\ DriveTypes
      /\ Sought /\ Pooled /\ Tabled /\ OnePerBlock /\ Batched /\ SelfChecked /\ Delivered /\ BlockTruth
  BY TypeParts DEF IInv
<1>1. TypeOK'
  <2>1. PoolTypes' /\ TableTypes' /\ RequestTypes' /\ ClockTypes' /\ GameTypes' /\ DriveTypes'
    BY <1>i, <1>k DEF PoolTypes, TableTypes, RequestTypes, ClockTypes, GameTypes, DriveTypes,
      machine
  <2> QED BY <2>1, TypePartsNext
<1>2. Sought' /\ Pooled' BY <1>i, <1>k DEF Sought, FromImage, Pooled, Queued, Wanted, disc, machine
<1>3. Tabled' /\ OnePerBlock' /\ Batched' /\ SelfChecked' BY <1>i, <1>k DEF Tabled, OnePerBlock, Batched, SelfChecked
<1>4. Delivered' /\ BlockTruth' BY <1>i, <1>k DEF Delivered, Bytes, BlockTruth
<1> QED BY <1>1, <1>2, <1>3, <1>4 DEF IInv

LEMMA NextIInv == ASSUME IInv, [Next]_vars PROVE IInv'
<1>1. CASE UNCHANGED vars BY <1>1, StutterIInv
<1>2. CASE WorkerStep
  BY <1>2, WorkerStartIInv, FillIInv, SeekIInv, TransferIInv, PublishIInv, WorkerReturnIInv
    DEF WorkerStep
<1>3. CASE ServiceStep
  BY <1>3, DrainSkipIInv, DrainTakeIInv, DrainEndIInv, CallbackBeginIInv, CallbackEndIInv,
    ReleaseIInv, ServiceEndIInv
  DEF ServiceStep
<1>4. CASE GuestStep /\ ~ServiceStep
  BY <1>4, ReadIInv, ReadRefusedIInv, TickIInv, SetEEIInv, ServiceIInv, SyncBeginIInv,
    SyncEndIInv, CompareDiskIDIInv
  DEF GuestStep
<1> QED BY <1>1, <1>2, <1>3, <1>4 DEF Next, GuestStep

-----------------------------------------------------------------------------
(* The theorems *)

\* The inductive invariant holds in every reachable state: who has each slot, the
\* pool, the batch, the blocks and the bytes in memory.
THEOREM Inductive == Spec => []IInv
<1>1. Init => IInv BY InitIInv
<1>2. IInv /\ [Next]_vars => IInv' BY NextIInv
<1> QED BY <1>1, <1>2, PTL DEF Spec

LEMMA TableSafe == ASSUME IInv PROVE DvdInv
<1>1. ASSUME NEW r \in Reads, Queued(r) \/ (r \in running /\ ~req[r].done) PROVE slot[req[r].slot] = r
  <2>1. ~req[r].done /\ status[r] \notin {"new", "refused"} BY <1>1 DEF IInv, Pooled
  <2>2. status[r] \notin {"finished", "reported"} BY <2>1 DEF IInv, Delivered
  <2>3. status[r] = "busy" BY <2>1, <2>2, TypeParts DEF IInv, GameTypes
  <2> QED BY <2>3 DEF IInv, Tabled
<1>2. ASSUME NEW k \in DOMAIN batch
      PROVE  slot[batch[k]] # None /\ req[slot[batch[k]]].done
  <2>1. batch[k] \in 0..Slots-1 BY TypeParts DEF IInv, TableTypes
  <2>2. slot[batch[k]] # None /\ status[slot[batch[k]]] \in {"finished", "reported"} BY DEF IInv, Batched
  <2>3. slot[batch[k]] \in Reads BY <2>1, <2>2, TypeParts DEF IInv, TableTypes
  <2> QED BY <2>2, <2>3 DEF IInv, Delivered
<1>3. BatchHeld BY <1>2 DEF IInv, Batched, BatchHeld
<1> QED BY <1>1, <1>3 DEF IInv, DvdInv, WorkerOwnsSlot

\* No worker writes a request whose slot was released, drained slots stay in use
\* until their callbacks have run, and a block says BUSY exactly while a read on it is
\* under way: alloc_request, mgs_dvd_drain and mgs_dvd_release (dvd.c:38-57, 196-246).
THEOREM TableTheorem == Spec => []DvdInv
<1>1. IInv => DvdInv BY TableSafe
<1> QED BY <1>1, Inductive, PTL

LEMMA AnsweredAre == ASSUME IInv PROVE Answered = {r \in Reads : status[r] \in {"finished", "reported"}}
BY DEF IInv, Delivered, Answered

LEMMA StepRefines == ASSUME IInv, IInv', Next PROVE [Contract!Next]_(Contract!vars)
<1> DEFINE seen == {r \in Reads : status[r] \in {"finished", "reported"}}
<1>a. Answered = seen BY AnsweredAre
<1>b. Answered' = seen'
  <2>1. \A r \in Reads : status'[r] \in {"finished", "reported"} => req'[r].done /\ memory'[r] = Bytes(r)'
    BY DEF IInv, Delivered
  <2> QED BY <2>1 DEF Answered
<1>i. /\ TableTypes /\ GameTypes /\ Pooled /\ Tabled /\ Batched /\ SelfChecked
  BY TypeParts DEF IInv
<1>t. status \in [Reads -> {"new", "busy", "refused", "finished", "reported"}] BY <1>i DEF GameTypes
<1>m. ASSUME NEW r \in Reads, NEW from, NEW to \in {"new", "busy", "refused", "finished", "reported"},
             status[r] = from, status' = [status EXCEPT ![r] = to],
             \/ from = "new" /\ to \in {"busy", "refused"}
             \/ from = "busy" /\ to = "finished"
             \/ from = "finished" /\ to = "reported"
      PROVE  Contract!Next
  <2>1. Contract!Move(r, from, to) BY <1>m DEF Contract!Move
  <2>2. \A q \in Reads : status'[q] = IF q = r THEN to ELSE status[q] BY <1>m, <1>t
  <2>3. from = "busy" => seen' = seen \cup {r} BY <1>m, <2>2
  <2>4. from # "busy" => seen' = seen BY <1>m, <2>2
  <2> HIDE DEF seen
  <2>5. CASE from = "new" /\ to = "busy"
    BY <1>a, <1>b, <2>1, <2>4, <2>5 DEF Contract!Next, Contract!Accept
  <2>6. CASE from = "new" /\ to = "refused"
    BY <1>a, <1>b, <2>1, <2>4, <2>6 DEF Contract!Next, Contract!Refuse
  <2>7. CASE from = "busy" /\ to = "finished"
    BY <1>a, <1>b, <2>1, <2>3, <2>7 DEF Contract!Next, Contract!Land
  <2>8. CASE from = "finished" /\ to = "reported"
    BY <1>a, <1>b, <2>1, <2>4, <2>8 DEF Contract!Next, Contract!Report
  <2> QED BY <1>m, <2>5, <2>6, <2>7, <2>8
<1>s. ASSUME status' = status PROVE UNCHANGED Contract!vars
  BY <1>a, <1>b, <1>s DEF Contract!vars
<1>1. CASE WorkerStep BY <1>1, <1>s DEF WorkerStep, WorkerStart, Fill, Seek, Transfer, Publish, WorkerReturn
<1>2. CASE DrainSkip \/ DrainEnd \/ CallbackBegin \/ Release \/ ServiceEnd
  BY <1>2, <1>s DEF DrainSkip, DrainEnd, CallbackBegin, Release, ServiceEnd
<1>3. CASE DrainTake
  <2> DEFINE r == slot[scan]
  <2>1. scan \in 0..Slots-1 /\ r # None /\ gpc = "drain" /\ status' = [status EXCEPT ![r] = "finished"]
    BY <1>3, <1>i DEF DrainTake, Due, Land, TableTypes
  <2>2. \A k \in DOMAIN batch : batch[k] # scan BY <2>1, <1>i DEF Batched, TableTypes
  <2>3. r \in Reads /\ status[r] = "busy" BY <2>1, <2>2, <1>i DEF TableTypes, Tabled
  <2> HIDE DEF r
  <2> QED BY <2>1, <2>3, <1>m
<1>4. CASE CallbackEnd
  <2> DEFINE r == slot[Head(batch)]
  <2>1. gpc = "callback" /\ status' = [status EXCEPT ![r] = "reported"] BY <1>4 DEF CallbackEnd
  <2>2. batch # <<>> /\ batch \in Seq(0..Slots-1) BY <2>1, <1>i DEF Batched, TableTypes
  <2>3. 1 \in DOMAIN batch /\ Head(batch) = batch[1] /\ Head(batch) \in 0..Slots-1 BY <2>2, Taken
  <2>4. r \in Reads /\ status[r] = "finished" BY <2>1, <2>3, <1>i DEF Batched, TableTypes
  <2> HIDE DEF r
  <2> QED BY <2>1, <2>4, <1>m
<1>5. CASE \E r \in Reads \ {SelfCheck}, b \in Blocks : Read(r, b)
  <2>1. PICK r \in Reads \ {SelfCheck}, b \in Blocks : Read(r, b) BY <1>5
  <2>2. status[r] = "new" /\ status' = [status EXCEPT ![r] = "busy"] BY <2>1 DEF Read, Build
  <2> QED BY <2>2, <1>m
<1>6. CASE \E r \in Reads \ {SelfCheck}, b \in Blocks : ReadRefused(r, b)
  <2>1. PICK r \in Reads \ {SelfCheck}, b \in Blocks : ReadRefused(r, b) BY <1>6
  <2>2. status[r] = "new" /\ status' = [status EXCEPT ![r] = "refused"] BY <2>1 DEF ReadRefused
  <2> QED BY <2>2, <1>m
<1>7. CASE SyncBegin
  <2>1. status[SelfCheck] = "new" /\ status' = [status EXCEPT ![SelfCheck] = "busy"]
    BY <1>7, <1>i DEF SyncBegin, Build, SelfChecked
  <2> QED BY <2>1, <1>m
<1>8. CASE SyncEnd
  <2>1. status[SelfCheck] = "busy" /\ status' = [status EXCEPT ![SelfCheck] = "finished"]
    BY <1>8, <1>i DEF SyncEnd, SelfChecked
  <2> QED BY <2>1, <1>m
<1>9. CASE \/ Tick \/ (\E on \in BOOLEAN : SetEE(on)) \/ Service
           \/ \E n \in DOMAIN machine.discs : mgs_DVDCompareDiskID([game |-> shown.game, number |-> n])
  BY <1>9, <1>s DEF Tick, SetEE, Service, mgs_DVDCompareDiskID
<1> QED BY <1>1, <1>2, <1>3, <1>4, <1>5, <1>6, <1>7, <1>8, <1>9 DEF Next, GuestStep, ServiceStep

\* The table, the workers and the pump implement what dvd.h promises: a read is
\* refused at once or accepted, its whole answer is in memory before it stops being
\* BUSY, and its callback runs once, afterwards - whatever the other reads do.
THEOREM ContractTheorem == Spec => ImplementsReadContract
<1>1. Init => Contract!Init
  <2>1. ASSUME Init PROVE Answered = {} BY <2>1 DEF Init, Answered
  <2> QED BY <2>1 DEF Init, Contract!Init
<1>2. IInv /\ IInv' /\ [Next]_vars => [Contract!Next]_(Contract!vars)
  <2> SUFFICES ASSUME IInv, IInv', [Next]_vars PROVE [Contract!Next]_(Contract!vars)
    OBVIOUS
  <2>1. CASE UNCHANGED vars BY <2>1 DEF vars, Contract!vars, Answered, Bytes
  <2>2. CASE Next BY <2>2, StepRefines
  <2> QED BY <2>1, <2>2
<1> QED BY <1>1, <1>2, Inductive, PTL DEF Spec, ImplementsReadContract, Contract!Spec

LEMMA CallbackFree == ASSUME IInv PROVE NotBusyInCallback
<1> SUFFICES ASSUME gpc = "callback" PROVE block[req[slot[Head(batch)]].block] # "BUSY" /\ status[slot[Head(batch)]] = "finished"
  BY DEF NotBusyInCallback
<1> DEFINE h == Head(batch)
           r == slot[h]
<1>i. TableTypes /\ Tabled /\ OnePerBlock /\ Batched /\ SelfChecked /\ BlockTruth BY TypeParts DEF IInv
<1>1. batch # <<>> /\ batch \in Seq(0..Slots-1) BY <1>i DEF Batched, TableTypes
<1>2. 1 \in DOMAIN batch /\ h = batch[1] /\ h \in 0..Slots-1 BY <1>1, Taken
<1> HIDE DEF h
<1>3. r \in Reads /\ r # None /\ status[r] = "finished" /\ r # SelfCheck BY <1>2, <1>i DEF Batched, TableTypes, SelfChecked
<1>4. req[r].block \in Blocks BY <1>2, <1>3, <1>i DEF OnePerBlock
<1>5. ASSUME NEW q \in Reads, status[q] = "busy", req[q].block = req[r].block PROVE FALSE
  <2>1. req[q].slot \in 0..Slots-1 /\ slot[req[q].slot] = q /\ q # None BY <1>5, <1>i DEF Tabled
  <2>2. req[q].slot = h BY <2>1, <1>2, <1>3, <1>5, <1>i DEF OnePerBlock
  <2> QED BY <2>1, <2>2, <1>3, <1>5
<1> QED BY <1>3, <1>4, <1>5, <1>i DEF BlockTruth, h

\* A callback never finds the block it was given BUSY, although callbacks before it
\* in the batch, and it itself, may have asked for more reads: the blocks are set
\* before the first callback runs (dvd.c:215-233, dvd_pump.c:82-111).
THEOREM CallbackTheorem == Spec => []NotBusyInCallback
<1>1. IInv => NotBusyInCallback BY CallbackFree
<1> QED BY <1>1, Inductive, PTL

-----------------------------------------------------------------------------
(* The image's one FILE *)

\* What a read is answered when nobody moves the image's FILE under it.
OwnAnswer(r) ==
  IF ~FromImage THEN FromFolder(r)
  ELSE FromHere(r, IF Position(r) = {} THEN 0 ELSE (CHOOSE p \in Position(r) : TRUE).at)

\* A read the FILE was not moved under finds it where it put it, and is answered
\* from there, however many workers move it for other reads.
Undisturbed ==
  /\ \A r \in sought \ moved : \A p \in Position(r) : p.n > 0 => cursor = p.at
  /\ \A r \in Reads : req[r].done => req[r].buffer # None
  /\ \A r \in Reads \ moved : req[r].buffer # None => req[r].buffer = OwnAnswer(r)

\* What is in memory is what was read at the read's own place.
OwnPlace == \A r \in Reads \ moved :
  status[r] \in {"finished", "reported"} => memory[r] = OwnAnswer(r).bytes

LEMMA OnePosition ==
  ASSUME NEW r \in Reads, host \in DOMAIN Machines
  PROVE  \A p, q \in Position(r) : p = q
<1> DEFINE d == DiscOf(host)
           S == IF r = SelfCheck THEN ImagePlace(d, Asks[r])
                ELSE {[at |-> p, n |-> Asks[r].length] : p \in Placed(d.table, Asks[r])}
<1>1. Position(r) = S BY DEF Position, Positions
<1>2. \A path : \A i, j \in mgs_fst_file(d.table, path) : i = j BY DEF mgs_fst_file
<1>3. \A p, q \in Placed(d.table, Asks[r]) : p = q BY <1>2 DEF Placed
<1>4. \A p, q \in ImagePlace(d, Asks[r]) : p = q BY <1>2 DEF ImagePlace
<1> QED BY <1>1, <1>3, <1>4

\* Where the FILE stands matters only to a read that reads something.
LEMMA AtOwnPlace ==
  ASSUME NEW r \in Reads, host \in DOMAIN Machines, FromImage, NEW at,
         \A p \in Position(r) : p.n > 0 => at = p.at
  PROVE  FromHere(r, at) = OwnAnswer(r)
<1> DEFINE p == CHOOSE p \in Position(r) : TRUE
<1>1. CASE Position(r) = {} BY <1>1 DEF FromHere, OwnAnswer
<1>2. CASE Position(r) # {}
  <2>1. p \in Position(r) BY <1>2
  <2>2. p.n \in Nat BY <2>1, PositionsOf
  <2>3. OwnAnswer(r) = FromHere(r, p.at) BY <1>2 DEF OwnAnswer
  <2>4. CASE p.n = 0 BY <1>2, <2>3, <2>4 DEF FromHere
  <2>5. CASE p.n # 0 BY <2>1, <2>2, <2>3, <2>5
  <2> QED BY <2>4, <2>5
<1> QED BY <1>1, <1>2

LEMMA InlineOwn ==
  ASSUME NEW r \in Reads, host \in DOMAIN Machines
  PROVE  ReadInline(r) = OwnAnswer(r)
<1>1. CASE Position(r) = {} BY <1>1 DEF ReadInline, OwnAnswer, FromHere
<1>2. CASE Position(r) # {} BY <1>2 DEF ReadInline, OwnAnswer
<1> QED BY <1>1, <1>2

\* Its place and its answer move only with the disc the host reads.
LEMMA SameAnswers ==
  ASSUME host' = host
  PROVE  (FromImage' <=> FromImage) /\ \A q \in Reads : OwnAnswer(q)' = OwnAnswer(q) /\ Position(q)' = Position(q)
  BY DEF OwnAnswer, FromImage, FromFolder, FromHere, Position, ReadHere, disc, machine

\* The disc the host reads is the one it was given.
LEMMA HostKept == ASSUME [Next]_vars PROVE host' = host
BY DEF Next, WorkerStep, GuestStep, ServiceStep, WorkerStart, Fill, Seek, Transfer, Publish,
  WorkerReturn, Read, ReadRefused, Tick, SetEE, Service, DrainSkip, DrainTake, DrainEnd, CallbackBegin,
  CallbackEnd, Release, ServiceEnd, SyncBegin, SyncEnd, mgs_DVDCompareDiskID, vars, drive

\* A step that leaves the requests and the FILE as they are.
LEMMA UndisturbedKept ==
  ASSUME IInv, Undisturbed, UNCHANGED <<host, image, req>>
  PROVE  Undisturbed'
<1>i. sought \subseteq Reads BY TypeParts DEF IInv, DriveTypes
<1>1. /\ UNCHANGED <<cursor, sought, moved, req>>
      /\ \A q \in Reads : OwnAnswer(q)' = OwnAnswer(q) /\ Position(q)' = Position(q)
  BY SameAnswers DEF image
<1> QED BY <1>i, <1>1 DEF Undisturbed

LEMMA BuildUndisturbed ==
  ASSUME IInv, Undisturbed, NEW r \in Reads, NEW b, Build(r, b), Wanted(r), UNCHANGED <<host, image>>
  PROVE  Undisturbed'
<1>i. RequestTypes /\ DriveTypes BY TypeParts DEF IInv
<1>1. ReadInline(r) = OwnAnswer(r) /\ ReadInline(r) # None
  BY <1>i, InlineOwn, InlineAnswer DEF DriveTypes, Results
<1>2. /\ \A q \in Reads : q # r => req'[q] = req[q]
      /\ req'[r].buffer = (IF Refuses THEN ReadInline(r) ELSE None) /\ req'[r].done = Refuses
  BY <1>i DEF Build, Submit, RequestTypes
<1>3. /\ UNCHANGED <<cursor, sought, moved>> /\ sought \subseteq Reads
      /\ \A q \in Reads : OwnAnswer(q)' = OwnAnswer(q) /\ Position(q)' = Position(q)
  BY <1>i, SameAnswers DEF image, DriveTypes
<1>4. \A q \in sought' \ moved' : \A p \in Position(q)' : p.n > 0 => cursor' = p.at BY <1>3 DEF Undisturbed
<1>5. ASSUME NEW q \in Reads
      PROVE  /\ req'[q].done => req'[q].buffer # None
             /\ q \notin moved' /\ req'[q].buffer # None => req'[q].buffer = OwnAnswer(q)'
  BY <1>1, <1>2, <1>3 DEF Undisturbed
<1> QED BY <1>4, <1>5 DEF Undisturbed

LEMMA StepUndisturbed == ASSUME IInv, Undisturbed, [Next]_vars PROVE Undisturbed'
<1>i. RequestTypes /\ DriveTypes /\ Sought /\ Pooled BY TypeParts DEF IInv
<1>h. host' = host BY HostKept
<1>o. \A q \in Reads : OwnAnswer(q)' = OwnAnswer(q) /\ Position(q)' = Position(q) BY <1>h, SameAnswers
<1>s. sought \subseteq Reads BY <1>i DEF DriveTypes
<1>1. CASE UNCHANGED <<image, req>> BY <1>1, <1>h, UndisturbedKept
<1>2. ASSUME NEW r \in Reads, Fill(r) PROVE Undisturbed'
  <2>1. FromFolder(r) \in Results /\ OwnAnswer(r) = FromFolder(r)
    BY <1>2, <1>i, FolderAnswer DEF Fill, DriveTypes, Pooled, OwnAnswer
  <2>2. req' = [req EXCEPT ![r].buffer = FromFolder(r)] /\ UNCHANGED <<cursor, sought, moved>>
    BY <1>2 DEF Fill, image
  <2>3. \A q \in Reads : /\ req'[q].done = req[q].done
                         /\ req'[q].buffer = IF q = r THEN FromFolder(r) ELSE req[q].buffer
    BY <2>1, <2>2, <1>i, BufferSet DEF RequestTypes
  <2>4. FromFolder(r) # None BY <2>1 DEF Results
  <2> QED BY <2>1, <2>2, <2>3, <2>4, <1>o, <1>s DEF Undisturbed
<1>3. ASSUME NEW r \in Reads, Seek(r) PROVE Undisturbed'
  <2>1. req' = req /\ sought' = sought \cup {r} BY <1>3 DEF Seek
  <2>2. CASE \E p \in Position(r) : p.n > 0 /\ cursor' = p.at /\ moved' = moved \cup sought
    <3>1. \A p \in Position(r) : cursor' = p.at BY <2>2, <1>i, OnePosition DEF DriveTypes
    <3>2. sought' \ moved' \subseteq {r} /\ moved \subseteq moved' BY <2>1, <2>2
    <3> QED BY <2>1, <3>1, <3>2, <1>o DEF Undisturbed
  <2>3. CASE (\A p \in Position(r) : p.n = 0) /\ UNCHANGED <<cursor, moved>>
    <3>1. \A q \in sought \ moved : \A p \in Position(q)' : p.n > 0 => cursor' = p.at
      BY <2>3, <1>o, <1>s DEF Undisturbed
    <3>2. \A p \in Position(r)' : ~(p.n > 0) BY <2>3, <1>o
    <3> QED BY <2>1, <2>3, <3>1, <3>2, <1>o DEF Undisturbed
  <2> QED BY <1>3, <2>2, <2>3 DEF Seek
<1>4. ASSUME NEW r \in Reads, Transfer(r) PROVE Undisturbed'
  <2>1. FromImage /\ r \in sought BY <1>4, <1>i DEF Transfer, Sought
  <2>2. r \notin moved => FromHere(r, cursor) = OwnAnswer(r)
    BY <2>1, <1>i, AtOwnPlace DEF Undisturbed, DriveTypes
  <2>3. FromHere(r, cursor) \in Results BY <2>1, <1>i, ImageAnswer DEF DriveTypes
  <2>4. req' = [req EXCEPT ![r].buffer = FromHere(r, cursor)] /\ moved' = moved \cup sought'
    BY <1>4 DEF Transfer
  <2>5. \A q \in Reads : /\ req'[q].done = req[q].done
                         /\ req'[q].buffer = IF q = r THEN FromHere(r, cursor) ELSE req[q].buffer
    BY <2>3, <2>4, <1>i, BufferSet DEF RequestTypes
  <2>6. sought' \ moved' = {} /\ moved \subseteq moved' BY <2>4
  <2>7. FromHere(r, cursor) # None BY <2>3 DEF Results
  <2> QED BY <2>2, <2>5, <2>6, <2>7, <1>o DEF Undisturbed
<1>5. ASSUME NEW r \in Reads, Publish(r) PROVE Undisturbed'
  <2>1. req' = [req EXCEPT ![r].done = TRUE] /\ req[r].buffer # None /\ UNCHANGED <<cursor, sought, moved>>
    BY <1>5 DEF Publish, image
  <2>2. \A q \in Reads : req'[q].buffer = req[q].buffer /\ (req'[q].done => q = r \/ req[q].done)
    BY <2>1, <1>i, DoneSet DEF RequestTypes
  <2> QED BY <2>1, <2>2, <1>o, <1>s DEF Undisturbed
<1>6. ASSUME NEW r \in Reads, NEW b, Read(r, b), r # SelfCheck PROVE Undisturbed'
  <2>1. Build(r, b) /\ Wanted(r) /\ UNCHANGED <<host, image>> BY <1>6 DEF Read, drive, Wanted
  <2> QED BY <2>1, BuildUndisturbed
<1>7. CASE SyncBegin
  <2>1. Build(SelfCheck, None) /\ Wanted(SelfCheck) /\ UNCHANGED <<host, image>>
    BY <1>7 DEF SyncBegin, drive, Wanted
  <2> QED BY <2>1, BuildUndisturbed
<1>8. CASE WorkerStep BY <1>8, <1>1, <1>2, <1>3, <1>4, <1>5 DEF WorkerStep, WorkerStart, WorkerReturn
<1>9. CASE ServiceStep
  BY <1>9, <1>1 DEF ServiceStep, DrainSkip, DrainTake, DrainEnd, CallbackBegin, CallbackEnd,
    Release, ServiceEnd
<1>10. CASE UNCHANGED vars BY <1>10, <1>1 DEF vars
<1>11. CASE GuestStep /\ ~ServiceStep
  BY <1>11, <1>1, <1>6, <1>7
    DEF GuestStep, ReadRefused, Tick, SetEE, Service, SyncEnd, mgs_DVDCompareDiskID
<1> QED BY <1>8, <1>9, <1>10, <1>11 DEF Next, GuestStep

LEMMA InitUndisturbed == ASSUME Init PROVE Undisturbed
<1>1. sought = {} /\ \A r \in Reads : req[r].buffer = None /\ ~req[r].done BY DEF Init, NoRequest
<1> QED BY <1>1 DEF Undisturbed

\* What a read leaves in guest memory is what lies at its own place on the disc,
\* whatever is read beside it and by however many workers, unless another one moved
\* the FILE between its fseek and its fread (disc.c:143-147).
THEOREM OwnPlaceTheorem == Spec => []OwnPlace
<1>1. Init => Undisturbed BY InitUndisturbed
<1>2. IInv /\ Undisturbed /\ [Next]_vars => Undisturbed' BY StepUndisturbed
<1>3. IInv /\ Undisturbed => OwnPlace
  <2> SUFFICES ASSUME IInv, Undisturbed, NEW r \in Reads \ moved, status[r] \in {"finished", "reported"}
               PROVE  memory[r] = OwnAnswer(r).bytes
    BY DEF OwnPlace
  <2>1. req[r].done /\ memory[r] = Bytes(r) BY DEF IInv, Delivered
  <2> QED BY <2>1 DEF Undisturbed, Bytes
<1> QED BY <1>1, <1>2, <1>3, Inductive, PTL DEF Spec

\* Read alone, each of the game's reads gets what the disc was pressed with.
ReadsTruly == \A r \in Reads \ {SelfCheck} :
  LET own == OwnAnswer(r)
  IN \/ /\ Len(own.bytes) = Asks[r].length
        /\ \A i \in HoldersOf(disc.table, Meant[r]), k \in 1 .. Asks[r].length :
             i \in HoldersOf(disc.table, Meant[r] + k - 1) => own.bytes[k] = Pressed[Meant[r] + k]
     \/ own = Failed /\ HoldersOf(disc.table, Meant[r]) = {}

LEMMA TrulyKept == ASSUME ReadsTruly, [Next]_vars PROVE ReadsTruly'
<1>1. disc' = disc BY HostKept DEF disc, machine
<1>2. \A r \in Reads : OwnAnswer(r)' = OwnAnswer(r) BY HostKept, SameAnswers
<1> QED BY <1>1, <1>2 DEF ReadsTruly

LEMMA UnmovedLand == ASSUME IInv, Undisturbed, ReadsTruly PROVE UnmovedSeesData
<1> SUFFICES ASSUME NEW r \in Reads, r # SelfCheck, r \notin moved, status[r] \in {"finished", "reported"}
             PROVE  Landed(r)
  BY CallbackFree DEF UnmovedSeesData, SeesData
<1>1. req[r].done /\ memory[r] = Bytes(r) BY DEF IInv, Delivered
<1>2. req[r].buffer = OwnAnswer(r) /\ memory[r] = OwnAnswer(r).bytes BY <1>1 DEF Undisturbed, Bytes
<1> QED BY <1>2 DEF Landed, HoldsAsked, ReadsTruly

\* The race for the image's FILE is all that stands between a read and its bytes: with
\* any number of workers, every read it was not moved under finds the pressed bytes in
\* memory, and no callback a block that is BUSY, as soon as each read gets them when
\* it is alone (disc.c:143-147, dvd.c:18-246).  How a folder or an image answers one read stays with TLC.
THEOREM UnmovedSeesDataTheorem == Spec /\ ReadsTruly => []UnmovedSeesData
<1>1. Init => Undisturbed BY InitUndisturbed
<1>2. IInv /\ Undisturbed /\ ReadsTruly /\ [Next]_vars => Undisturbed' /\ ReadsTruly'
  BY StepUndisturbed, TrulyKept
<1>3. IInv /\ Undisturbed /\ ReadsTruly => UnmovedSeesData BY UnmovedLand
<1> QED BY <1>1, <1>2, <1>3, Inductive, PTL DEF Spec

-----------------------------------------------------------------------------
(* One reader at a time *)

\* No image is read by two workers; a folder may be read by any number.
OneReader == \A h \in Range(Machines) : h.discs[0].form = "image" => h.workers <= 1

\* The only worker at an image finds nobody to move the FILE under.
Alone ==
  /\ IsFiniteSet(running) /\ sought \subseteq running
  /\ FromImage => \A q, r \in running : q = r
  /\ \A r \in sought : req[r].buffer = None
  /\ moved = {}

\* A step that leaves the FILE and the requests under way as they are.
LEMMA AloneKept ==
  ASSUME Alone, UNCHANGED <<host, image>>, IsFiniteSet(running'), sought \subseteq running',
         FromImage => \A q, r \in running' : q = r, \A r \in sought : req'[r].buffer = None
  PROVE  Alone'
<1>1. UNCHANGED <<sought, moved>> /\ (FromImage' <=> FromImage) BY SameAnswers DEF image
<1> QED BY <1>1 DEF Alone

LEMMA BuildAlone ==
  ASSUME IInv, Alone, NEW r \in Reads, NEW b, Build(r, b), UNCHANGED <<host, image>>
  PROVE  Alone'
<1>1. running' = running /\ r \notin running BY DEF Build, Submit, Pool!RunInline, Pool!Accept, Pool!Fresh
<1>2. req \in [Reads -> Requests] /\ running \subseteq Reads BY TypeParts DEF IInv, RequestTypes, PoolTypes
<1>3. \A q \in Reads : q # r => req'[q] = req[q] BY <1>2 DEF Build, Submit
<1>4. \A q \in sought : req'[q].buffer = None BY <1>1, <1>2, <1>3 DEF Alone
<1> QED BY <1>1, <1>4, AloneKept DEF Alone

LEMMA StepAlone == ASSUME OneReader, IInv, Undisturbed, Alone, [Next]_vars PROVE Alone'
<1>i. PoolTypes /\ RequestTypes /\ DriveTypes /\ Sought /\ Pooled BY TypeParts DEF IInv
<1>h. host' = host BY HostKept
<1>o. FromImage' <=> FromImage BY <1>h, SameAnswers
<1>1. CASE UNCHANGED <<running, image, req>> BY <1>1, <1>h, AloneKept DEF Alone
<1>2. CASE WorkerStart
  <2>1. pending \in Seq(Reads) /\ pending # <<>> BY <1>2, <1>i DEF WorkerStart, Pool!Start, PoolTypes
  <2>2. Head(pending) \in Reads BY <2>1, Taken
  <2>3. running' = running \cup {Head(pending)} /\ UNCHANGED <<image, req>>
    BY <1>2 DEF WorkerStart, Pool!Start
  <2>4. IsFiniteSet(running') BY <2>3, FS_AddElement DEF Alone
  <2>5. FromImage => running = {}
    <3> SUFFICES ASSUME FromImage PROVE running = {} OBVIOUS
    <3>1. machine \in Range(Machines) BY <1>i DEF DriveTypes, Range, machine
    <3>2. machine.workers <= 1 /\ machine.workers \in Nat BY <3>1, MachinesAssumption DEF OneReader, FromImage, disc
    <3>3. Cardinality(running) < machine.workers BY <1>2 DEF WorkerStart
    <3>4. Cardinality(running) = 0 BY <3>2, <3>3, FS_CardinalityType DEF Alone
    <3> QED BY <3>4, FS_EmptySet DEF Alone
  <2>6. sought \subseteq running' BY <2>3 DEF Alone
  <2>7. FromImage => \A q, r \in running' : q = r BY <2>3, <2>5
  <2>8. \A r \in sought : req'[r].buffer = None BY <2>3 DEF Alone
  <2> QED BY <2>3, <2>4, <2>6, <2>7, <2>8, <1>h, AloneKept
<1>3. ASSUME NEW r \in Reads, Fill(r) PROVE Alone'
  <2>1. UNCHANGED <<running, image>> /\ sought = {} BY <1>3, <1>i DEF Fill, pool, Sought
  <2> QED BY <2>1, <1>h, AloneKept DEF Alone
<1>4. ASSUME NEW r \in Reads, Seek(r) PROVE Alone'
  <2>1. /\ UNCHANGED <<running, req>> /\ sought' = sought \cup {r} /\ r \in running /\ r \notin sought
        /\ req[r].buffer = None /\ FromImage
    BY <1>4 DEF Seek, pool
  <2>2. sought = {} BY <2>1 DEF Alone
  <2>3. moved' = {} BY <1>4, <2>2 DEF Seek, Alone
  <2> QED BY <2>1, <2>2, <2>3, <1>o DEF Alone
<1>5. ASSUME NEW r \in Reads, Transfer(r) PROVE Alone'
  <2>1. FromImage /\ r \in sought BY <1>5, <1>i DEF Transfer, Sought
  <2>2. running' = running /\ sought' = sought \ {r} /\ moved' = moved \cup sought'
    BY <1>5 DEF Transfer, pool
  <2>3. sought' = {} /\ moved' = {} BY <2>1, <2>2 DEF Alone
  <2> QED BY <2>2, <2>3, <1>o DEF Alone
<1>6. ASSUME NEW r \in Reads, Publish(r) PROVE Alone'
  <2>1. req' = [req EXCEPT ![r].done = TRUE] /\ UNCHANGED <<running, image>> BY <1>6 DEF Publish, pool
  <2>2. \A q \in Reads : req'[q].buffer = req[q].buffer BY <2>1, <1>i, DoneSet DEF RequestTypes
  <2>3. \A q \in sought : req'[q].buffer = None BY <2>2, <1>i DEF Alone, DriveTypes
  <2> QED BY <2>1, <2>3, <1>h, AloneKept DEF Alone
<1>7. ASSUME NEW r \in Reads, WorkerReturn(r) PROVE Alone'
  <2>1. running' = running \ {r} /\ req[r].done /\ UNCHANGED <<image, req>>
    BY <1>7 DEF WorkerReturn, Pool!Complete
  <2>2. r \notin sought BY <2>1 DEF Alone, Undisturbed
  <2>3. IsFiniteSet(running') BY <2>1, FS_RemoveElement DEF Alone
  <2>4. sought \subseteq running' BY <2>1, <2>2 DEF Alone
  <2>5. FromImage => \A p, q \in running' : p = q BY <2>1 DEF Alone
  <2>6. \A q \in sought : req'[q].buffer = None BY <2>1 DEF Alone
  <2> QED BY <2>1, <2>3, <2>4, <2>5, <2>6, <1>h, AloneKept
<1>8. ASSUME NEW r \in Reads, NEW b, Read(r, b) PROVE Alone'
  <2>1. Build(r, b) /\ UNCHANGED <<host, image>> BY <1>8 DEF Read, drive
  <2> QED BY <2>1, BuildAlone
<1>9. CASE SyncBegin
  <2>1. Build(SelfCheck, None) /\ UNCHANGED <<host, image>> BY <1>9 DEF SyncBegin, drive
  <2> QED BY <2>1, SelfCheckAssumption, BuildAlone
<1>10. CASE WorkerStep BY <1>10, <1>2, <1>3, <1>4, <1>5, <1>6, <1>7 DEF WorkerStep
<1>11. CASE ServiceStep
  BY <1>11, <1>1 DEF ServiceStep, DrainSkip, DrainTake, DrainEnd, CallbackBegin, CallbackEnd,
    Release, ServiceEnd, pool
<1>12. CASE UNCHANGED vars BY <1>12, <1>1 DEF vars, pool
<1>13. CASE GuestStep /\ ~ServiceStep
  BY <1>13, <1>1, <1>8, <1>9
    DEF GuestStep, ReadRefused, Tick, SetEE, Service, SyncEnd, mgs_DVDCompareDiskID, pool
<1> QED BY <1>10, <1>11, <1>12, <1>13 DEF Next, GuestStep

\* A folder, which opens a FILE per read, with any number of workers, and an image with
\* one reader: the game finds the pressed bytes in memory after every read, and a
\* block that is not BUSY in every callback, as soon as each read gets the pressed
\* bytes when it is alone (dvd.c:212-398).
THEOREM CallbackSeesDataTheorem == ASSUME OneReader PROVE Spec /\ ReadsTruly => []CallbackSeesData
<1>1. Init => Alone
  <2> SUFFICES ASSUME Init PROVE Alone OBVIOUS
  <2>1. running = {} /\ sought = {} /\ moved = {} BY DEF Init, Pool!Init
  <2> QED BY <2>1, FS_EmptySet DEF Alone
<1>2. Init => Undisturbed BY InitUndisturbed
<1>3. IInv /\ Undisturbed /\ [Next]_vars => Undisturbed' BY StepUndisturbed
<1>4. IInv /\ Undisturbed /\ Alone /\ [Next]_vars => Alone' BY StepAlone
<1>5. Alone /\ UnmovedSeesData => CallbackSeesData
  BY DEF Alone, UnmovedSeesData, CallbackSeesData, SeesData
<1> QED BY <1>1, <1>2, <1>3, <1>4, <1>5, Inductive, UnmovedSeesDataTheorem, PTL DEF Spec

=============================================================================
