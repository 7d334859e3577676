----------------------------- MODULE MemoryCard -----------------------------
(***************************************************************************)
(* The memory card in slot A: the device of runtime/platform/exi_card.c    *)
(* on channel 0 of the serial bus of runtime/platform/mmio.c, the file it  *)
(* is loaded from and written back to, and the launcher's view of it.      *)
(*                                                                         *)
(* The SDK's card library is the environment.  A save erases and programs  *)
(* the block of its data and then the older of the two copies of the       *)
(* directory; every erase and every program is followed by a wait for the  *)
(* card's "done" interrupt.  The clock shares the bus.  The player may     *)
(* close the window, and the process may be killed, between any two steps. *)
(*                                                                         *)
(* Contents are versions: a cell is a page of 128 bytes, a directory copy  *)
(* is whole (its checksum holds) when all its cells have one version.      *)
(***************************************************************************)
EXTENDS Integers, Sequences, Functions

CONSTANTS Pages,     \* the pages of a block that a save writes, in order
          MaxSaves,  \* bound: saves
          MaxRuns    \* bound: starts of the program

ASSUME PagesAssumption ==
  /\ Pages \in Seq(0..63) /\ Pages # <<>>
  /\ \A i, j \in DOMAIN Pages : i < j => Pages[i] < Pages[j]
ASSUME BoundsAssumption == MaxSaves \in Nat /\ MaxRuns \in Nat

VARIABLES
  card,                   \* MgsExiCard
  cs,                     \* the selected device
  exiint, tcint, masks,   \* the channel's interrupt bits, and their masks
  line,                   \* PI_EXI
  step, op, todo,         \* the library: where it is, its command, those to follow
  save, saved,            \* the version being written (0: none), the last one done
  clock,                  \* where the game's reading of the clock is
  host,                   \* the program: off, running, leaving, writing
  file,                   \* the card's file: its pages, or none that is whole
  kept,                   \* the last version done when the file was last written
  runs

bus  == <<cs, exiint, tcint, masks, line>>
lib  == <<step, op, todo, save, saved>>
disk == <<file, kept, runs>>
vars == <<card, bus, lib, clock, host, disk>>

-----------------------------------------------------------------------------
(* The image. *)

Units       == Range(Pages)
Data        == 16                       \* a block of the game's file
Directories == {1, 2}
Address(block, unit) == block * 8192 + unit * 128
Cells  == {Address(b, u) : b \in Directories \cup {Data}, u \in Units}
Block(a) == a \div 8192
Erased == -1
NoFile == <<>>                            \* absent, foreign or cut short

\* A copy whose checksum holds (region_ok).
Whole(image, block) ==
  \E v \in {image[a] : a \in Cells} \ {Erased} : \A u \in Units : image[Address(block, u)] = v
WholeCopies(image) == {d \in Directories : Whole(image, d)}
Version(image, block) == image[Address(block, CHOOSE u \in Units : TRUE)]
\* The copy the card library uses: whole, and the newer one.
Current(image) ==
  CHOOSE d \in WholeCopies(image) : \A e \in WholeCopies(image) : Version(image, d) >= Version(image, e)
Newest(image) == Version(image, Current(image))

\* format_card: both copies are whole, the second one is newer.
Formatted == [a \in Cells |-> IF Block(a) \in Directories THEN Block(a) - 1 ELSE Erased]

-----------------------------------------------------------------------------
(* The device. *)

PowerOn(image, dirty) ==
  [command |-> "none", position |-> 0, address |-> 0, program |-> Erased,
   irqEnabled |-> FALSE, irqPending |-> FALSE, image |-> image, dirty |-> dirty]

\* Mutant: the second address byte is shifted by one too few.
AddressBitsShifted(position, in) ==
  CASE position = 1 -> in * 2^17
    [] position = 2 -> in * 2^8
    [] position = 3 -> (in % 4) * 2^7
    [] position = 4 -> in % 128
    [] OTHER -> 0

\* What the byte at a position of a command adds to its address.
AddressBits(position, in) ==
  CASE position = 1 -> in * 2^17
    [] position = 2 -> in * 2^9
    [] position = 3 -> (in % 4) * 2^7
    [] position = 4 -> in % 128
    [] OTHER -> 0

\* One byte of a command; the status it can read never changes.
CardByte(c, in) ==
  IF c.position = 0
  THEN [c EXCEPT !.command = in, !.address = 0, !.position = 1]
  ELSE LET erasing == c.command = "sector_erase" /\ c.position = 2
           at == IF \/ c.command = "page_program"
                    \/ (c.command = "sector_erase" /\ c.position <= 2)
                 THEN c.address + AddressBits(c.position, in)
                 ELSE c.address
       IN  [c EXCEPT
              !.position   = @ + 1,
              !.address    = at,
              !.irqEnabled = IF c.command = "set_interrupt" /\ c.position = 1 THEN in = 1 ELSE @,
              !.image      = [a \in Cells |-> IF erasing /\ a \in at..at + 8191 THEN Erased ELSE @[a]],
              !.dirty      = @ \/ erasing]

\* Bytes of a command, one after the other.
CardBytes(c, bytes) ==
  LET after[k \in 0..Len(bytes)] == IF k = 0 THEN c ELSE CardByte(after[k - 1], bytes[k])
  IN  after[Len(bytes)]

\* The 128 bytes of a page, of one version.
CardPage(c, version) ==
  [c EXCEPT !.position = @ + 128,
            !.program  = IF c.command = "page_program" /\ c.position = 5 THEN version ELSE @]

\* Mutant: the command is not ended.
CardSelectNotEnded(c, asserted) ==
  IF asserted THEN c
  ELSE [c EXCEPT
          !.image      = [a \in Cells |-> IF c.command = "page_program" /\ c.position >= 133 /\ a = c.address
                                          THEN c.program ELSE @[a]],
          !.dirty      = @ \/ c.command = "page_program",
          !.irqPending = @ \/ (c.command \in {"page_program", "sector_erase"} /\ c.irqEnabled)]

\* Mutant: a program commits only past a whole page.
CardSelectPast(c, asserted) ==
  IF asserted THEN c
  ELSE [c EXCEPT
          !.image      = [a \in Cells |-> IF c.command = "page_program" /\ c.position > 133 /\ a = c.address
                                          THEN c.program ELSE @[a]],
          !.dirty      = @ \/ c.command = "page_program",
          !.irqPending = @ \/ (c.command \in {"page_program", "sector_erase"} /\ c.irqEnabled),
          !.position   = 0,
          !.command    = "none"]

\* Mutant: a program does not say that it is done.
CardSelectSilent(c, asserted) ==
  IF asserted THEN c
  ELSE [c EXCEPT
          !.image      = [a \in Cells |-> IF c.command = "page_program" /\ c.position >= 133 /\ a = c.address
                                          THEN c.program ELSE @[a]],
          !.dirty      = @ \/ c.command = "page_program",
          !.irqPending = @ \/ (c.command = "sector_erase" /\ c.irqEnabled),
          !.position   = 0,
          !.command    = "none"]

\* Letting go of the card ends its command: a program commits, and what has finished says so.
CardSelect(c, asserted) ==
  LET commits  == c.command = "page_program" /\ c.position >= 5
      finished == commits \/ (c.command = "sector_erase" /\ c.position >= 3)
  IN  IF asserted THEN c
      ELSE [c EXCEPT
              !.image      = [a \in Cells |-> IF commits /\ c.position >= 133 /\ a = c.address
                                              THEN c.program ELSE @[a]],
              !.dirty      = @ \/ commits,
              !.irqPending = @ \/ (finished /\ c.irqEnabled),
              !.position   = 0,
              !.command    = "none"]

-----------------------------------------------------------------------------
(* The bus. *)

Asserted(tc, exi, unmasked) == (tc /\ "tc" \in unmasked) \/ (exi /\ "exi" \in unmasked)

\* A store to the channel's status register: selection, masks, bits cleared by a one.
StoreCsr(selected, unmasked, cleared) ==
  LET c == IF selected # cs THEN CardSelect(card, selected = "card") ELSE card
  IN  /\ cs' = selected
      /\ card' = [c EXCEPT !.irqPending = FALSE]
      /\ exiint' = ((exiint \/ c.irqPending) /\ "exi" \notin cleared)
      /\ tcint' = (tcint /\ "tc" \notin cleared)
      /\ masks' = unmasked
      /\ line' = Asserted(tcint', exiint', masks')

\* The end of a transfer, which is part of the store that starts it.
Transferred(unmasked) ==
  /\ tcint' = TRUE /\ masks' = unmasked
  /\ line' = Asserted(TRUE, exiint, unmasked)
  /\ UNCHANGED <<cs, exiint>>

-----------------------------------------------------------------------------
(* The card library of the SDK, and the clock. *)

Command(kind, at, version) == [kind |-> kind, at |-> at, version |-> version]

\* What it clocks out ahead of a page.
Header(c) ==
  CASE c.kind = "sector_erase"  -> <<c.kind, c.at \div 2^17, (c.at \div 2^9) % 256>>
    [] c.kind = "page_program"  -> <<c.kind, c.at \div 2^17, (c.at \div 2^9) % 256,
                                     (c.at \div 2^7) % 4, c.at % 128>>
    [] c.kind = "set_interrupt" -> <<c.kind, 1>>
    [] c.kind = "read_status"   -> <<c.kind, 0>>
    [] c.kind = "clear_status"  -> <<c.kind>>

Rewrite(block, version) ==
  <<Command("sector_erase", Address(block, 0), version)>>
    \o [i \in 1..Len(Pages) |-> Command("page_program", Address(block, Pages[i]), version)]

Older(image) == CHOOSE d \in Directories : d # Current(image)

NewSave ==
  /\ host = "running" /\ step = "rest" /\ todo = <<>> /\ save = 0
  /\ saved <= MaxSaves
  /\ save' = saved + 1
  /\ todo' = Rewrite(Data, saved + 1) \o Rewrite(Older(card.image), saved + 1)
  /\ UNCHANGED <<card, bus, step, op, saved, clock, host, disk>>

SaveDone ==
  /\ host = "running" /\ step = "rest" /\ todo = <<>> /\ save # 0
  /\ saved' = save /\ save' = 0
  /\ UNCHANGED <<card, bus, step, op, todo, clock, host, disk>>

\* EXILock masks the card's interrupt, EXISelect asserts its chip select.
Begin ==
  /\ host = "running" /\ step = "rest" /\ todo # <<>> /\ clock = "idle"
  /\ op' = Head(todo) /\ todo' = Tail(todo) /\ step' = "header"
  /\ StoreCsr("card", masks \ {"exi"}, {})
  /\ UNCHANGED <<save, saved, clock, host, disk>>

SendHeader ==
  /\ host = "running" /\ step = "header"
  /\ card' = CardBytes(card, Header(op))
  /\ Transferred(masks)
  /\ step' = IF op.kind = "page_program" THEN "page" ELSE "release"
  /\ UNCHANGED <<op, todo, save, saved, clock, host, disk>>

\* EXIDma clears and unmasks the transfer interrupt, and starts the transfer.
SendPage ==
  /\ host = "running" /\ step = "page"
  /\ card' = CardPage(card, op.version)
  /\ Transferred(masks \cup {"tc"})
  /\ step' = "dma"
  /\ UNCHANGED <<op, todo, save, saved, clock, host, disk>>

TransferHandler ==
  /\ host = "running" /\ line /\ tcint /\ "tc" \in masks
  /\ StoreCsr(cs, masks \ {"tc"}, {"tc"})
  /\ step' = "release"
  /\ UNCHANGED <<op, todo, save, saved, clock, host, disk>>

\* EXIDeselect and EXIUnlock, which unmasks the card's interrupt.
Release ==
  /\ host = "running" /\ step = "release"
  /\ StoreCsr("none", masks \cup {"exi"}, {})
  /\ step' = IF op.kind \in {"sector_erase", "page_program"} THEN "wait" ELSE "rest"
  /\ UNCHANGED <<op, todo, save, saved, clock, host, disk>>

\* __CARDExiHandler: nothing else starts the next step of a save.
DoneHandler ==
  /\ host = "running" /\ line /\ exiint /\ "exi" \in masks
  /\ StoreCsr(cs, masks, {"exi"})
  /\ IF step = "wait"
     THEN /\ step' = "rest"
          /\ todo' = <<Command("read_status", 0, 0), Command("clear_status", 0, 0)>> \o todo
     ELSE UNCHANGED <<step, todo>>
  /\ UNCHANGED <<op, save, saved, clock, host, disk>>

ClockSelect ==
  /\ host = "running" /\ clock = "idle" /\ step \in {"rest", "wait"}
  /\ clock' = "read"
  /\ StoreCsr("clock", masks \ {"exi"}, {})
  /\ UNCHANGED <<lib, host, disk>>

ClockRead ==
  /\ host = "running" /\ clock = "read"
  /\ clock' = "release"
  /\ Transferred(masks)
  /\ UNCHANGED <<card, lib, host, disk>>

ClockRelease ==
  /\ host = "running" /\ clock = "release"
  /\ clock' = "idle"
  /\ StoreCsr("none", masks \cup {"exi"}, {})
  /\ UNCHANGED <<lib, host, disk>>

-----------------------------------------------------------------------------
(* The program and the file. *)

\* mgs_exi_card_init and the mount: a file that is not a whole card is replaced at once.
Start ==
  /\ host = "off" /\ runs < MaxRuns
  /\ runs' = runs + 1 /\ host' = "running"
  /\ file' = IF file = NoFile THEN Formatted ELSE file
  /\ card' = PowerOn(file', FALSE)
  /\ cs' = "none" /\ exiint' = FALSE /\ tcint' = FALSE /\ masks' = {} /\ line' = FALSE
  /\ step' = "rest" /\ op' = Command("none", 0, 0)
  /\ todo' = <<Command("set_interrupt", 0, 0)>>
  /\ save' = 0 /\ saved' = Newest(file')
  /\ clock' = "idle"
  /\ UNCHANGED kept

Quit ==
  /\ host = "running" /\ host' = "leaving"
  /\ UNCHANGED <<card, bus, lib, clock, disk>>

\* Mutant: the card is not written back.
NothingToFlushEver ==
  /\ host = "leaving"
  /\ host' = "off" /\ kept' = saved
  /\ UNCHANGED <<card, bus, lib, clock, file, runs>>

\* mgs_exi_card_flush: nothing to write, no file to write to, or opened - and cut to nothing.
NothingToFlush ==
  /\ host = "leaving" /\ ~card.dirty
  /\ host' = "off" /\ kept' = saved
  /\ UNCHANGED <<card, bus, lib, clock, file, runs>>

FlushFails ==
  /\ host = "leaving" /\ card.dirty
  /\ host' = "off" /\ card' = [card EXCEPT !.dirty = FALSE]
  /\ UNCHANGED <<bus, lib, clock, disk>>

FlushOpens ==
  /\ host = "leaving" /\ card.dirty
  /\ host' = "writing" /\ file' = NoFile
  /\ UNCHANGED <<card, bus, lib, clock, kept, runs>>

FlushWrites ==
  /\ host = "writing"
  /\ host' = "off" /\ file' = card.image /\ kept' = saved
  /\ card' = [card EXCEPT !.dirty = FALSE]
  /\ UNCHANGED <<bus, lib, clock, runs>>

\* The process dies; in the middle of the write it takes the file with it.
Kill ==
  /\ host \in {"running", "leaving", "writing"} /\ host' = "off"
  /\ kept' = IF host = "writing" THEN Newest(Formatted) ELSE kept
  /\ UNCHANGED <<card, bus, lib, clock, file, runs>>

\* mgs_card_reset, from the launcher: the file is moved aside.
ResetCard ==
  /\ host = "off" /\ file # NoFile
  /\ file' = NoFile /\ kept' = Newest(Formatted)
  /\ UNCHANGED <<card, bus, lib, clock, host, runs>>

\* mgs_card_summarize: what the launcher shows of the file.
Summary(f) ==
  LET copy == IF WholeCopies(f) = Directories
              THEN IF Version(f, 1) >= Version(f, 2) THEN 1 ELSE 2
              ELSE CHOOSE d \in WholeCopies(f) : TRUE
  IN  [damaged |-> WholeCopies(f) # Directories, version |-> Version(f, copy)]

Init ==
  /\ card = PowerOn(Formatted, FALSE)
  /\ cs = "none" /\ exiint = FALSE /\ tcint = FALSE /\ masks = {} /\ line = FALSE
  /\ step = "rest" /\ op = Command("none", 0, 0) /\ todo = <<>> /\ save = 0
  /\ saved = Newest(Formatted) /\ kept = Newest(Formatted)
  /\ clock = "idle" /\ host = "off" /\ file = NoFile /\ runs = 0

Library == Begin \/ SendHeader \/ SendPage \/ Release \/ SaveDone
Next ==
  \/ NewSave \/ Library \/ TransferHandler \/ DoneHandler
  \/ ClockSelect \/ ClockRead \/ ClockRelease
  \/ Start \/ Quit \/ NothingToFlush \/ FlushFails \/ FlushOpens \/ FlushWrites
  \/ Kill \/ ResetCard

Spec == Init /\ [][Next]_vars

\* A pending interrupt is taken as soon as the game allows it, a locked bus is waited for.
FairSpec ==
  /\ Spec
  /\ SF_vars(Begin) /\ WF_vars(SendHeader \/ SendPage \/ Release \/ SaveDone)
  /\ WF_vars(TransferHandler) /\ SF_vars(DoneHandler)
  /\ WF_vars(ClockRead \/ ClockRelease)

-----------------------------------------------------------------------------
(* Properties. *)

\* Types; the line is what the status register says; a command is in flight only while
\* the card is selected, which the clock never is at the same time; the card's signal
\* is on the bus and not still in the card.
CardInv ==
  /\ card.image \in [Cells -> {Erased} \cup 0..MaxSaves + 1]
  /\ file = NoFile \/ file \in [Cells -> {Erased} \cup 0..MaxSaves + 1]
  /\ line = Asserted(tcint, exiint, masks)
  /\ (card.command = "none") = (card.position = 0)
  /\ card.command # "none" => cs = "card"
  /\ (cs = "clock") = (clock # "idle")
  /\ cs # "none" => "exi" \notin masks
  /\ ~card.irqPending
  /\ exiint /\ host = "running" => step = "wait"

\* However far a save has come, the card and the file hold a whole directory, of the last
\* save or the one being made, and the new directory never names data that is not there.
\* What was on the card when its file was last written is there at the next start, and
\* the launcher shows the directory the game will use, and calls a card damaged exactly
\* when a save was cut short.
SaveIntact ==
  /\ host \in {"running", "leaving", "writing"} =>
       /\ WholeCopies(card.image) # {} /\ Newest(card.image) \in {saved, save}
       /\ Newest(card.image) = save => \A u \in Units : card.image[Address(Data, u)] = save
  /\ file # NoFile => WholeCopies(file) # {}
  /\ host = "running" => Newest(card.image) >= kept
  /\ host = "off" /\ file # NoFile =>
       /\ Newest(file) >= kept
       /\ Summary(file).version = Newest(file)
       /\ ~Summary(file).damaged <=> \A d \in Directories : Whole(file, d)

\* "Done" is said once for a command, and when it is said the command has been carried out.
Landed(image, c) ==
  IF c.kind = "sector_erase"
  THEN \A a \in Cells : Block(a) = Block(c.at) => image[a] = Erased
  ELSE image[c.at] = c.version
DoneMeansLanded ==
  [][DoneHandler => step = "wait" /\ Landed(card.image, op)]_vars

\* A save that is begun is completed, unless the program is left.
SaveCompletes ==
  \A v \in 2..MaxSaves + 1 : save = v ~> saved = v \/ host # "running"
=============================================================================
