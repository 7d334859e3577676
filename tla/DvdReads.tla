------------------------------ MODULE DvdReads ------------------------------
(***************************************************************************)
(* Asynchronous disc reads: runtime/dvd/dvd.c, the shims that call it and  *)
(* the pump host/dvd_pump.c that reports them.                             *)
(*                                                                         *)
(* A read takes a slot of a fixed table, a pool worker fills its host      *)
(* buffer, and the game's thread, from its run loop, copies the bytes into *)
(* guest memory and then calls the game's callback, which may ask for more *)
(* reads.  The pool is the one WorkQueue.tla specifies and JobPool.tla     *)
(* implements, and the discs below are those of Disc.tla.  The identity of *)
(* a read is the submission, so each member of Reads is issued at most     *)
(* once.                                                                   *)
(***************************************************************************)
EXTENDS Disc

CONSTANTS Reads,
          Blocks,     \* DVDCommandBlocks of the game
          Slots,      \* MGS_DVD_MAX_PENDING
          MaxClock,   \* bound: guest ticks
          Asks,       \* what each read asks for: [path, offset, length]
          Pressed,    \* the cells of the disc as it was pressed
          Meant,      \* where on it the bytes lie that each read means
          Machines,   \* machines to run on, by name: [discs, workers, room, latency]
          SelfCheck,  \* the read host/main.c makes before the game starts
          None

ASSUME SlotsAssumption == Slots \in Nat \ {0}
\* The pool's queue (1,024) is longer than the table of requests (64), so on an
\* image, which the worker threads share, no read is run by the game's thread.
ASSUME MachinesAssumption == MaxClock \in Nat /\ \A h \in Range(Machines) :
  /\ h.workers \in Nat /\ h.room \in Nat /\ h.latency \in Nat
  /\ 0 \in DOMAIN h.discs /\ mgs_disc_mount(h.discs[0])
  /\ h.discs[0].form = "image" => h.workers = 0 \/ h.room >= Slots
ASSUME SelfCheckAssumption ==
  /\ SelfCheck \in Reads
  /\ None \notin Reads \cup Blocks /\ None \notin [ok : BOOLEAN, bytes : Seq(Nat)]
\* Offsets, lengths and bytes are unsigned.
ASSUME DataAssumption ==
  /\ \A r \in Reads : Asks[r].offset \in Nat /\ Asks[r].length \in Nat
  /\ \A h \in Range(Machines) : LET d == h.discs[0] IN
       /\ \A i \in 1 .. entry_count(d.table) - 1 :
            d.table[i].offset_or_parent \in Nat /\ d.table[i].length_or_next \in Nat
       /\ d.form = "image" => d.image \in Seq(Nat)
       /\ d.form = "folder" => \A names \in DOMAIN d.files : d.files[names] \in Seq(Nat)

VARIABLES
  pending, running, finished,   \* the pool, as WorkQueue sees it
  slot,     \* dvd->pending[i]: the read in it, or None when not in_use
  req,      \* the request's fields that outlive the call that built it
  dvdNow,   \* dvd->now
  clock,    \* the guest's tick count
  host,     \* the machine, chosen at the start
  cursor,   \* where the image's one FILE stands
  sought,   \* the reads that moved it and have not read yet
  moved,    \* history: the reads under which another one moved it meanwhile
  current,  \* s_discs.current
  shown,    \* the disc identity the game finds at 0x80000000
  ee,       \* MSR[EE]
  block,    \* each command block's state word
  memory,   \* the bytes each read left in guest memory
  gpc,      \* where the game's thread is
  scan,     \* the slot mgs_dvd_drain looks at next
  batch,    \* done[]: the slots drained and not yet released
  status    \* history: how far each read has come for the game

machine == Machines[host]
\* dvd->disc: the disc mgs_dvd_init was given, whichever disc is shown.
disc == machine.discs[0]

pool == <<pending, running, finished>>
drive == <<host, current, shown>>
image == <<cursor, sought, moved>>
vars == <<pool, slot, req, dvdNow, clock, drive, image, ee, block, memory, gpc, scan, batch, status>>

Pool == INSTANCE WorkQueue WITH Jobs <- Reads

GuestPlaces == {"selfcheck", "selfwait", "play", "drain", "report", "callback", "release"}
NoRequest == [slot |-> Slots, block |-> None, ready |-> 0, buffer |-> None, done |-> FALSE]

Init ==
  /\ Pool!Init
  /\ slot = [i \in 0..Slots-1 |-> None]
  /\ req = [r \in Reads |-> NoRequest]
  /\ dvdNow = 0 /\ clock = 0
  /\ host \in DOMAIN Machines
  /\ cursor = 0 /\ sought = {} /\ moved = {}
  /\ current = 0 /\ shown = Identity(machine.discs[0])
  /\ ee = FALSE
  /\ block = [b \in Blocks |-> "END"]
  /\ memory = [r \in Reads |-> <<>>]
  /\ gpc = "selfcheck" /\ scan = 0 /\ batch = <<>>
  /\ status = [r \in Reads |-> "new"]

-----------------------------------------------------------------------------
(* Submitting a read. *)

FreeSlots == {i \in 0..Slots-1 : slot[i] = None}
FirstFree == CHOOSE i \in FreeSlots : \A k \in FreeSlots : i <= k

\* A block the game may use again: its last read, if any, has been reported.
Unused(b) == \A i \in 0..Slots-1 : slot[i] # None => req[slot[i]].block # b

FromImage == disc.form = "image"
DiscOf(h) == Machines[h].discs[0]

\* Where the game's read lies, and where on an image a request reads and how much.
Place(d, r) == CHOOSE p \in Placed(d.table, Asks[r]) : TRUE
Positions == [h \in DOMAIN Machines |-> [r \in Reads |->
  IF r = SelfCheck THEN ImagePlace(DiscOf(h), Asks[r])
  ELSE {[at |-> p, n |-> Asks[r].length] : p \in Placed(DiscOf(h).table, Asks[r])}]]
Position(r) == Positions[host][r]

\* read_job on an image whose FILE stands at `at`.
FromHere(r, at) ==
  IF Position(r) = {} THEN Failed
  ELSE LET n == (CHOOSE p \in Position(r) : TRUE).n IN IF n = 0 THEN Got(<<>>) ELSE ReadHere(disc, at, n)

\* read_job in a folder, where every read opens the file it needs.
FolderAnswers == [h \in {m \in DOMAIN Machines : DiscOf(m).form = "folder"} |-> [r \in Reads |->
  IF r = SelfCheck THEN FolderRead(DiscOf(h), Asks[r].path[1], Asks[r].offset, Asks[r].length)
  ELSE FolderReadAbs(DiscOf(h), Place(DiscOf(h), r), Asks[r].length)]]
FromFolder(r) == FolderAnswers[host][r]

\* Nobody else is at the image when the game's thread reads it (MachinesAssumption).
ReadInline(r) ==
  IF ~FromImage THEN FromFolder(r)
  ELSE FromHere(r, IF Position(r) = {} THEN cursor ELSE (CHOOSE p \in Position(r) : TRUE).at)

\* The job is queued, or run at once when the pool refuses it.
Refuses == machine.workers = 0 \/ Len(pending) >= machine.room
Submit(r, b) ==
  /\ IF Refuses THEN Pool!RunInline(r) ELSE Pool!Accept(r)
  /\ req' = [req EXCEPT ![r] =
       [slot |-> FirstFree, block |-> b, ready |-> dvdNow + machine.latency,
        buffer |-> IF Refuses THEN ReadInline(r) ELSE None, done |-> Refuses]]

\* Mutant: the block is not marked before the job is queued.
BuildUnmarked(r, b) ==
  /\ FreeSlots # {}
  /\ slot' = [slot EXCEPT ![FirstFree] = r]
  /\ Submit(r, b)
  /\ status' = [status EXCEPT ![r] = "busy"]
  /\ UNCHANGED block

\* dvd_build_and_submit.
Build(r, b) ==
  /\ FreeSlots # {}
  /\ slot' = [slot EXCEPT ![FirstFree] = r]
  /\ block' = IF b = None THEN block ELSE [block EXCEPT ![b] = "BUSY"]
  /\ Submit(r, b)
  /\ status' = [status EXCEPT ![r] = "busy"]

\* DVDOpen of a path and DVDReadAsyncPrio, or DVDReadAbsAsyncPrio, from the game's
\* code or from a callback.
Read(r, b) ==
  /\ gpc \in {"play", "callback"} /\ status[r] = "new" /\ Unused(b)
  /\ Placed(disc.table, Asks[r]) # {}
  /\ dvdNow + machine.latency <= MaxClock
  /\ Build(r, b)
  /\ UNCHANGED <<dvdNow, clock, drive, image, ee, memory, gpc, scan, batch>>

\* The path names no file, or no slot is free, or no host buffer: the answer is 0.
ReadRefused(r, b) ==
  /\ gpc \in {"play", "callback"} /\ status[r] = "new" /\ Unused(b)
  /\ status' = [status EXCEPT ![r] = "refused"]
  /\ UNCHANGED <<pool, slot, req, dvdNow, clock, drive, image, ee, block, memory, gpc, scan, batch>>

\* The self-check of host/main.c: mgs_dvd_read_sync with nothing else pending.
SyncBegin ==
  /\ gpc = "selfcheck"
  /\ Build(SelfCheck, None)
  /\ gpc' = "selfwait"
  /\ UNCHANGED <<dvdNow, clock, drive, image, ee, memory, scan, batch>>

-----------------------------------------------------------------------------
(* A pool worker in read_job. *)

WorkerStart ==
  /\ Cardinality(running) < machine.workers
  /\ Pool!Start
  /\ UNCHANGED <<slot, req, dvdNow, clock, drive, image, ee, block, memory, gpc, scan, batch, status>>

\* mgs_disc_read_abs fills the buffer and the result is stored: in a folder from
\* a file of the read's own ...
Fill(r) ==
  /\ r \in running /\ req[r].buffer = None /\ ~FromImage
  /\ req' = [req EXCEPT ![r].buffer = FromFolder(r)]
  /\ UNCHANGED <<pool, slot, dvdNow, clock, drive, image, ee, block, memory, gpc, scan, batch, status>>

\* ... on an image by moving the one FILE all workers share, if there is anything
\* to read ...
Seek(r) ==
  /\ r \in running \ sought /\ req[r].buffer = None /\ FromImage
  /\ \/ \E p \in Position(r) : p.n > 0 /\ cursor' = p.at /\ moved' = moved \cup sought
     \/ (\A p \in Position(r) : p.n = 0) /\ UNCHANGED <<cursor, moved>>
  /\ sought' = sought \cup {r}
  /\ UNCHANGED <<pool, slot, req, dvdNow, clock, drive, ee, block, memory, gpc, scan, batch, status>>

\* ... and then reading from where it stands.
Transfer(r) ==
  /\ r \in sought /\ r \in running /\ req[r].buffer = None
  /\ req' = [req EXCEPT ![r].buffer = FromHere(r, cursor)]
  /\ cursor' = cursor + Len(FromHere(r, cursor).bytes)
  /\ sought' = sought \ {r} /\ moved' = moved \cup sought'
  /\ UNCHANGED <<pool, slot, dvdNow, clock, drive, ee, block, memory, gpc, scan, batch, status>>

\* ... and `done` last.
Publish(r) ==
  /\ r \in running /\ req[r].buffer # None /\ ~req[r].done
  /\ req' = [req EXCEPT ![r].done = TRUE]
  /\ UNCHANGED <<pool, slot, dvdNow, clock, drive, image, ee, block, memory, gpc, scan, batch, status>>

\* The worker goes back to the pool; the game may have released the request already.
WorkerReturn(r) ==
  /\ req[r].done
  /\ Pool!Complete(r)
  /\ UNCHANGED <<slot, req, dvdNow, clock, drive, image, ee, block, memory, gpc, scan, batch, status>>

-----------------------------------------------------------------------------
(* mgs_dvd_service, from the run loop. *)

\* Guest time: without the modelled latency nothing looks at it.
Tick ==
  /\ gpc = "play" /\ machine.latency > 0 /\ clock < MaxClock
  /\ clock' = clock + 1
  /\ UNCHANGED <<pool, slot, req, dvdNow, drive, image, ee, block, memory, gpc, scan, batch, status>>

\* The game enters and leaves its critical sections.
SetEE(on) ==
  /\ gpc = "play" /\ ee # on
  /\ ee' = on
  /\ UNCHANGED <<pool, slot, req, dvdNow, clock, drive, image, block, memory, gpc, scan, batch, status>>

\* Mutant: the pump does not tell the disc what time it is.
ServiceStaleClock ==
  /\ gpc = "play" /\ ee
  /\ scan' = 0 /\ gpc' = "drain"
  /\ UNCHANGED <<pool, slot, req, dvdNow, clock, drive, image, ee, block, memory, batch, status>>

\* With interrupts off the pump does nothing but count.
Service ==
  /\ gpc = "play" /\ ee
  /\ dvdNow' = clock
  /\ scan' = 0 /\ gpc' = "drain"
  /\ UNCHANGED <<pool, slot, req, clock, drive, image, ee, block, memory, batch, status>>

Due(i) == slot[i] # None /\ req[slot[i]].ready <= dvdNow

DrainSkip ==
  /\ gpc = "drain" /\ scan < Slots /\ ~Due(scan)
  /\ scan' = scan + 1
  /\ UNCHANGED <<pool, slot, req, dvdNow, clock, drive, image, ee, block, memory, gpc, batch, status>>

Bytes(r) == IF req[r].buffer = None THEN <<>> ELSE req[r].buffer.bytes

\* What the game sees of a finished read: the bytes, and the block's state.
Land(r) ==
  /\ memory' = IF Bytes(r) = <<>> THEN memory ELSE [memory EXCEPT ![r] = Bytes(r)]
  /\ block' = IF req[r].block = None THEN block
              ELSE [block EXCEPT ![req[r].block] = IF req[r].buffer = Failed THEN "FATAL_ERROR" ELSE "END"]
  /\ status' = [status EXCEPT ![r] = "finished"]

\* Mutant: the spin on `done` is left out.
DrainTakeUnready ==
  /\ gpc = "drain" /\ scan < Slots /\ Due(scan)
  /\ Land(slot[scan])
  /\ batch' = Append(batch, scan)
  /\ scan' = scan + 1
  /\ UNCHANGED <<pool, slot, req, dvdNow, clock, drive, image, ee, gpc>>

\* The spin ends once `done` is set.
DrainTake ==
  /\ gpc = "drain" /\ scan < Slots /\ Due(scan)
  /\ req[slot[scan]].done
  /\ Land(slot[scan])
  /\ batch' = Append(batch, scan)
  /\ scan' = scan + 1
  /\ UNCHANGED <<pool, slot, req, dvdNow, clock, drive, image, ee, gpc>>

DrainEnd ==
  /\ gpc = "drain" /\ scan = Slots
  /\ gpc' = "report"
  /\ UNCHANGED <<pool, slot, req, dvdNow, clock, drive, image, ee, block, memory, scan, batch, status>>

\* mgs_module_call_guest on the callback, the scheduler held off around it.
CallbackBegin ==
  /\ gpc = "report" /\ batch # <<>>
  /\ gpc' = "callback"
  /\ UNCHANGED <<pool, slot, req, dvdNow, clock, drive, image, ee, block, memory, scan, batch, status>>

\* The callback returns, or is given up on after its step budget.
CallbackEnd ==
  /\ gpc = "callback"
  /\ status' = [status EXCEPT ![slot[Head(batch)]] = "reported"]
  /\ gpc' = "release"
  /\ UNCHANGED <<pool, slot, req, dvdNow, clock, drive, image, ee, block, memory, scan, batch>>

\* mgs_dvd_release: the buffer is freed and the slot may be taken again.
Release ==
  /\ gpc = "release"
  /\ slot' = [slot EXCEPT ![Head(batch)] = None]
  /\ batch' = Tail(batch)
  /\ gpc' = "report"
  /\ UNCHANGED <<pool, req, dvdNow, clock, drive, image, ee, block, memory, scan, status>>

ServiceEnd ==
  /\ gpc = "report" /\ batch = <<>>
  /\ gpc' = "play"
  /\ UNCHANGED <<pool, slot, req, dvdNow, clock, drive, image, ee, block, memory, scan, batch, status>>

\* mgs_jobs_wait, then one drain at the request's own tick, then release.
SyncEnd ==
  /\ gpc = "selfwait" /\ pending = <<>> /\ running = {}
  /\ memory' = IF Bytes(SelfCheck) = <<>> THEN memory ELSE [memory EXCEPT ![SelfCheck] = Bytes(SelfCheck)]
  /\ slot' = [slot EXCEPT ![req[SelfCheck].slot] = None]
  /\ status' = [status EXCEPT ![SelfCheck] = "finished"]
  /\ gpc' = "play"
  /\ UNCHANGED <<pool, req, dvdNow, clock, drive, image, ee, block, scan, batch>>

-----------------------------------------------------------------------------
(* The game asks which disc is in and compares it with the one it wants;    *)
(* asking for the other one swaps it.                                       *)

mgs_DVDCompareDiskID(want) ==
  /\ gpc = "play" /\ Swaps(machine.discs, shown, want)
  /\ current' = want.number
  /\ shown' = Identity(machine.discs[want.number])
  /\ UNCHANGED <<pool, slot, req, dvdNow, clock, host, image, ee, block, memory, gpc, scan, batch, status>>

-----------------------------------------------------------------------------
WorkerStep == WorkerStart \/ \E r \in Reads : Fill(r) \/ Seek(r) \/ Transfer(r) \/ Publish(r) \/ WorkerReturn(r)
ServiceStep == DrainSkip \/ DrainTake \/ DrainEnd \/ CallbackBegin \/ CallbackEnd \/ Release \/ ServiceEnd
GuestStep == \/ \E r \in Reads \ {SelfCheck}, b \in Blocks : Read(r, b) \/ ReadRefused(r, b)
             \/ Tick \/ (\E on \in BOOLEAN : SetEE(on)) \/ Service \/ ServiceStep
             \/ SyncBegin \/ SyncEnd
             \/ \E n \in DOMAIN machine.discs : mgs_DVDCompareDiskID([game |-> shown.game, number |-> n])

Next == WorkerStep \/ GuestStep

\* Workers run, guest time passes, the game's thread finishes what it is in,
\* the game leaves its critical sections and the pump finds it outside one
\* again and again.
Fairness == /\ WF_vars(WorkerStep) /\ WF_vars(ServiceStep) /\ WF_vars(SyncBegin \/ SyncEnd)
            /\ SF_vars(Tick) /\ SF_vars(SetEE(TRUE)) /\ SF_vars(Service)

Spec == Init /\ [][Next]_vars
FairSpec == Spec /\ Fairness

-----------------------------------------------------------------------------
(* Properties *)

TypeOK ==
  /\ pending \in Seq(Reads) /\ running \subseteq Reads /\ finished \subseteq Reads
  /\ slot \in [0..Slots-1 -> Reads \cup {None}]
  /\ req \in [Reads -> [slot : 0..Slots, block : Blocks \cup {None}, ready : Nat,
                         buffer : [ok : BOOLEAN, bytes : Seq(Nat)] \cup {None}, done : BOOLEAN]]
  /\ dvdNow \in Nat /\ clock \in Nat /\ ee \in BOOLEAN
  /\ block \in [Blocks -> {"BUSY", "END", "FATAL_ERROR"}]
  /\ memory \in [Reads -> Seq(Nat)] /\ gpc \in GuestPlaces /\ scan \in 0..Slots
  /\ batch \in Seq(0..Slots-1)
  /\ status \in [Reads -> {"new", "busy", "refused", "finished", "reported"}]
  /\ host \in DOMAIN Machines /\ cursor \in Nat /\ sought \subseteq Reads /\ moved \subseteq Reads
  /\ current \in DOMAIN machine.discs /\ shown = Identity(machine.discs[current])

Queued(r) == \E k \in DOMAIN pending : pending[k] = r

\* A worker that may still write a request's buffer, result or `done` owns the
\* slot: it has not been released, let alone given to another read.
WorkerOwnsSlot == \A r \in Reads :
  Queued(r) \/ (r \in running /\ ~req[r].done) => slot[req[r].slot] = r

\* The drained slots are in use, distinct and finished until their callbacks have run.
BatchHeld == \A k \in DOMAIN batch :
  /\ slot[batch[k]] # None /\ req[slot[batch[k]]].done
  /\ \A l \in DOMAIN batch : batch[k] = batch[l] => k = l

\* The game "can never observe a request that is neither BUSY nor finished"
\* (dvd.c:135): a block reads BUSY exactly while a read on it is under way.
BlockTruth == \A b \in Blocks :
  block[b] = "BUSY" <=> \E r \in Reads : status[r] = "busy" /\ req[r].block = b

\* The table, the workers and the game's view of its blocks agree.
DvdInv == TypeOK /\ WorkerOwnsSlot /\ BatchHeld /\ BlockTruth

\* All the bytes asked for have come, and those that belong to the file the read
\* means are the ones the disc was pressed with.
HoldsAsked(r) ==
  /\ Len(memory[r]) = Asks[r].length
  /\ \A i \in HoldersOf(disc.table, Meant[r]), k \in 1 .. Asks[r].length :
       i \in HoldersOf(disc.table, Meant[r] + k - 1) => memory[r][k] = Pressed[Meant[r] + k]

\* A read may fail only if it starts in no file: "a read that falls outside every
\* file ... is refused" (disc.c:346).
Landed(r) == HoldsAsked(r) \/ (req[r].buffer = Failed /\ HoldersOf(disc.table, Meant[r]) = {})

\* All through a callback the block it was given does not say BUSY, also when the
\* callback itself asks for more reads.
NotBusyInCallback ==
  gpc = "callback" => LET r == slot[Head(batch)]
                      IN block[req[r].block] # "BUSY" /\ status[r] = "finished"

SeesData(reads) ==
  /\ \A r \in reads \ {SelfCheck} : status[r] \in {"finished", "reported"} => Landed(r)
  /\ NotBusyInCallback

\* Once the game can see a read as finished, the bytes of the file it asked for
\* are in guest memory, through whatever other reads ran beside it and whichever
\* way the disc was dumped; and then its callback may look at them.
CallbackSeesData == SeesData(Reads)

\* Another read that moves the image's FILE between a read's fseek and its fread
\* is the only thing that can cost a read its bytes: the others find them there
\* with any number of workers, slots used again and callbacks that ask for more.
UnmovedSeesData == SeesData(Reads \ moved)

\* Every accepted read is reported in the end.
EveryReadReported == \A r \in Reads \ {SelfCheck} : status[r] = "busy" ~> status[r] = "reported"

\* The reads whose answer the game can see: all the bytes, or that it failed.
Answered == {r \in Reads :
  status[r] \in {"finished", "reported"} /\ req[r].done /\ memory[r] = Bytes(r)}

\* Each read is refused or reported once, and never before its bytes landed.
Contract == INSTANCE ReadContract WITH state <- status, landed <- Answered

ImplementsReadContract == Contract!Spec
=============================================================================
