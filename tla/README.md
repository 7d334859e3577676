# Verification of the Twin Snakes recompilation runtime

This directory models the host runtime that runs a recompiled GameCube game
(`src/host`, `src/runtime`) in TLA+. TLC checks the models on small instances,
TLAPS proves the theorems named below for every value of the constants.

The game itself - its translated code, the SDK libraries linked into it, its
threads - is the environment of every model: it may do whatever the SDK it was
built with lets it do.

    tlc -config JobPool.cfg MCJobPool        # and so on, see "Runs"
    tlapm JobPoolProofs.tla                  # and so on for each ...Proofs module

`PROJECT.json` lists the components, the runs, one mutation of the model per
property that must break it, the source lines behind every definition, the
hazards, the disagreements found and the theorems.

## 1. The system

One process, a handful of threads:

| thread | runs | blocks on |
|---|---|---|
| game's thread | `mgs_module_run` (host/module.c): recompiled game code, and between its steps the *hooks* that play the console's hardware | the render ring (full, or drained), the job pool |
| render thread | `render_main` (host/display.c): parses the command stream the game writes | an empty ring, for at most 2 ms |
| job workers | `worker` (runtime/platform/jobs.c): disc reads, bands of the rasteriser | an empty job ring |
| mixer thread | host/ax_dsp.c: mixes voices for the DSP task | the next frame of samples |
| presenter | host/main.c: window, input, frames | the next frame |

Everything that is an interrupt on the console is decided on the game's
thread: a hook asserts a device's status, and the game's own exception handler
is entered when the game has interrupts enabled (EE) and a current context.
So within the game's thread nothing is preempted except at such a point, and
real concurrency is between the threads of the table.

### Components

| component | state it keeps | operations | what is hard about it |
|---|---|---|---|
| Job pool (`jobs.c`) | ring, head, tail and count, `in_flight`, `stopping` | submit, wait, destroy, worker loop | lost wakeups, waiting for others' jobs, shutdown with work queued |
| Render ring (`display.c`, `fifo.c`) | two free-running positions, `s_ring_waiting`, marks, draw-done tokens | store and publish, parse, sleep and wake, mark, drain, poll, stop | publication against sleep without a lock on the fast path; a full ring; wrap-around |
| Disc reads (`dvd.c`, `dvd_pump.c`) | slots, the game's command blocks, the modelled clock | submit, read on a worker, drain, call back, release | results published by a worker; callbacks that issue reads; interrupts held off |
| Guest clock and hooks (`module.c`) | the pool of unpaid time, deadlines, the cached earliest one | pay out, step, fire a hook | a deadline stepped over; a stale cache; two hooks due at once |
| Interrupts and DSP mailbox (`interrupt.c`, `mmio.c`) | lines, statuses, masks, counts of completions, the mailbox, the DSP task's phase | assert, raise, refuse, redeliver, acknowledge, post mail | refusals, one line for three sources, a task that may not exist yet |
| Memory card and EXI bus (`exi_card.c`, `mmio.c`) | the image, the command in flight, bus bits, the file | byte, (de)select, done interrupt, load, flush | saves cut short, the interrupt that drives the library, a shared bus |
| Frames and presentation (`display.c`, `main.c`) | the frame in each buffer, the key last shown, the pending flag | copy, decide, hand over, present | which frame may be shown; a hand-over between three threads |
| Audio mixer (`ax_dsp.c`, `sdl_audio.c`) | a voice's place in its sample, the decoder's state, the lead over the game | pace, read a block, walk, write back, push | a position the game moves while the mixer walks; a game that stalls |
| Disc image, file table, disc swap (`disc.c`, `fst.c`, `disc_swap.c`) | tables read once; one FILE per image; the disc shown | mount, look up, read, swap | two workers on one FILE; a folder and an image of one disc must read alike |
| Command parser (`fifo.c`, `bp.c`, `vertex.c`) | bytes of the command in hand, four register files, the depth of lists | every command of the stream | lengths that earlier commands decide, cut by a write anywhere |
| Renderer (`texture.c`, `raster.c`, `gpu.c`, `efb.c`) | a texture cache and its memo, a batch, a render target, the framebuffer | bind, draw, flush, copy, download | cached answers against memory that changes; work that waits in a batch |
| Rasteriser (`raster.c`, `tev.c`, `texture.c`, `efb.c`) | the framebuffer and the depth buffer, the compiled combiner | triangle, copy, reset | cut corners, bands on several threads, tiled formats, a cache per draw state |
| Guest memory (`guest.h`) | the two blocks | translate | addresses at the end of a block |
| Guest heaps, special registers, OS services | tables | read, report | not modelled |
| Platform, launcher, tools | files, windows | - | not modelled |

How they interact: the game's stores go to the memory-mapped devices
(`mmio.c`), which complete transfers within the store and leave a count or a
status behind; the clock's hooks offer those to the interrupt code; the
graphics FIFO stores go to the render ring; reads go through patched SDK calls
to the disc component, whose jobs run on the pool; completions come back
through the pump, called from a hook. Draw-done tokens go from the parser
through the poll hook to the interrupt code. The card and the clock chip share
the EXI bus; the card's interrupt goes through the same line logic.

## 2. Modules

| module | models | composed of |
|---|---|---|
| `WorkQueue` | what a pool promises: jobs accepted in order, each started once, finished once | |
| `JobPool` | `jobs.c`, every operation, at the granularity of the mutex | implements `WorkQueue` |
| `RenderRing` | the ring of `display.c` and the parser's position in `fifo.c`, every shared access a step | |
| `ReadContract` | what the game is promised of a read: landed, then reported once | |
| `DvdReads` | `dvd.c` and `dvd_pump.c` over a pool and a disc | takes its jobs from the pool `WorkQueue` specifies and `JobPool` implements; reads through `Disc`; implements `ReadContract` |
| `GuestClock` | `mgs_module_run`'s time keeping | |
| `Interrupts` | `interrupt.c` and the lines of `mmio.c`, with the SDK's dispatcher | |
| `MemoryCard` | `exi_card.c`, EXI in `mmio.c`, the card's file, the launcher's summary | |
| `FrameHandover` | `frame_pump`, the presenter and presenting, the frames in the buffers | the commands that `RenderRing` carries are a sequence here |
| `FileTable` | `fst.c`: a path or an offset to an entry | |
| `Disc` | `disc.c`, `disc_swap.c`, the game's names in `dvd_shims.c` | over `FileTable`; `DvdReads` reads through it |
| `AudioMix` | the mixer's thread | |
| `GuestMemory` | addresses as four bytes, and where they lead | |
| `VertexFormat` | vertex sizes (`fifo.c`) against the decoder (`vertex.c`), generated coordinates | over `GuestMemory` |
| `CommandStream` | the parser and its register files | over `VertexFormat` |
| `CommandMeaning` | what a program of commands means, command by command | over `CommandStream` |
| `TextureCache` | the cache, the memo, what copies leave behind | |
| `GpuBatch` | batches, the GPU's textures and pipelines, copies from the target | over `TextureCache` |
| `Renderer` | triangles and copies on the host or the GPU | over `GpuBatch` |
| `Texels` | tiled formats, decoded and encoded; the framebuffer's lines | |
| `Tev` | the registers of the combiner and what it computes | over `Texels` |
| `Raster` | a triangle becomes pixels, on one thread or several; copies | over `Tev` |
| `MC...` | the instances TLC runs | |
| `JobPoolProofs`, `RenderRingProofs`, `DvdReadsProofs`, `FrameHandoverProofs`, `AudioMixProofs`, `MemoryCardProofs` | the theorems about the module each is named after | |
| `RunLoopProofs` | the theorems about `GuestClock` and `Interrupts` | |
| `GraphicsProofs` | the theorems about `CommandStream` and `Renderer` | |

### JobPool

One critical section of the pool's mutex is one action: nothing in it blocks
except a condition wait, which gives the lock up. A worker is at a place of its
loop (`jobs.c:41-74`): about to look, asleep, running a job outside the lock,
about to report it, gone. A client (the game's thread, the render thread)
submits, waits, or runs a job itself when the ring refuses it. A signal wakes
one sleeper if there is any, any sleeper may also wake for no reason, and
whoever wakes looks again. Destroy sets `stopping`, broadcasts and joins. A
history variable keeps what a client had submitted when it began to wait.

### RenderRing

Positions are free-running 64-bit counters in the code and stay unbounded here (the
number of bytes is bounded). The game's thread stores bytes, publishes `head`
every `PublishEvery` bytes or when it must, tests `waiting` and signals; the
render thread looks at the marks, parses up to the limit and raises
`waiting` under the lock. Every load and store of a shared word is a step of
its own: the code uses acquire and release (and a sequentially consistent
store and load around `waiting`), and the model is sequentially consistent;
weaker orders on other machines are not covered.
The sleep's 2 ms timeout is an action, but no fairness is assumed of it:
nothing may depend on it to make progress.

### DvdReads, Disc, FileTable

A slot goes free -> pending -> done -> called back -> free (`dvd.c`). The job
that reads is an item of the pool's queue; the worker reads the bytes, stores the
result, then `done`. The drain (`dvd.c:185-235`) copies what is done and due;
the pump (`dvd_pump.c`) calls back with interrupts off and releases the slots
afterwards, so callbacks issue reads while their batch is still held. The game
reuses a command block only after its callback, as the SDK demands.
`mgs_dvd_read_sync` occurs only where the program calls it, at the start-up
self-check with nothing else pending.

The bytes come from a disc. A read by path goes through the file table
(names compared without case, `.` and `..`), a read by offset to the file that
holds the offset; on an image a read is a seek and a transfer on one shared FILE,
two steps, on an extracted folder it opens its own. The history variable `moved` keeps
the reads under which another one moved that FILE between the two steps. What a read should have
brought is stated on the disc as pressed, not through the table. A *machine* is
what TLC chooses at the start: a folder behind two workers with a queue that
fills, an image behind two workers, one behind one worker with latency, or one with no
workers and a second disc to swap to. In a directory no two names differ only in case, a
dumped folder is complete, one cell stands for 32 bytes, and paths are short
enough for the buffers. The pool's queue (1024) is longer than the slot table
(64), so with workers a job is never refused in the program; the model
lets it be refused, which exercises the inline fallback on a folder. Guest time
is looked at only where a latency is set.

### GuestClock

Time in ticks, on the wall clock (the host's time, clamped) or on the step
clock. An iteration of the loop is three actions: read the host's clock if a
stride of steps is over, pay out (`PayOut`, no further than the earliest
deadline; `StepTick`, a fixed amount), run the hooks that are due and take the
earliest deadline again (`RunHooks`). The draw-done hook is the retrace's else
branch. The option that forces retraces at fixed steps is left out.

### Interrupts

Four sources (video retrace, draw-done, ARAM transfer, audio DMA) and the DSP
mailbox share lines. `Offer...` is a hook that asserts the status and tries a
raise, `Redeliver` is the hook that looks for an asserted line
(`mgs_interrupt_pending`); `Dispatch`, `Handle...` and `Return` are the
SDK's dispatcher and handlers (external), with its order of priorities. The display
interrupts are enabled apart from the mask, and the retrace asserts its line only
once they are; the game enables them before it unmasks the line, as `VIInit` does. The
game masks (EE), unmasks, switches threads (a window without a current
context) and starts transfers at will. The DSP task is booted by mails, an
upload of sends and polls, and resumed once per audio interrupt. Only the
default mail pacing is modelled. The flag that makes native code return to the
run loop when EE is enabled is what justifies that a hook meets the
game with EE on (below); it is not modelled itself.

### MemoryCard

The device's fields are a record; `CardByte`, `CardPage` and `CardSelect` are
its three entry points (a page of 128 bytes is one value). `StoreCsr` is a
store to the channel's status register, with everything the code does in it:
selection, the card's signal moving to the bus, bits cleared by ones, the line.
The library's commands are the SDK's (external): it erases and programs the
data block and then the older of the two directory copies, and after each
erase or program waits for its handler. The player quits or the process is
killed at any step, the file is truncated before it is written.
Contents are versions: a copy is whole when all its pages have one version,
which stands for its checksum. `Pages` lists the pages of a block that a save
writes, in the order in which it writes them; a block has 64.

### FrameHandover

The game asks for copies, writes movie pictures itself and points VI at
buffers, as the SDK lets it: at most once a field, at another buffer only when
that has a newer picture (external). A copy is two steps of the render thread; the
buffer is partly written between them. `frame_pump` is `Retrace`, `Drain` (only when
VI's address, field's line included, changed) and a decision by the key
(buffer, number of the copy in it). `mgs_display_present` is read VI's address,
begin to read the pixels, end: the picture on the screen is whole if no copy
was in the buffer meanwhile. It runs on the presenter (the default), on the
game's thread with or without the cap, or not at all; `mode` is chosen at the
start. The cap's clock is kept as the distance to the next due time, in halves of
its period, and retraces come a period apart, give or take a half.
VI's address is set in one step; the SDK sets it in two stores, and a presenter
that reads between them would find an address of neither buffer. The render
thread is there (`MGS_GX_SYNC=1` and `MGS_FLIP_MARKS=1` are not modelled).

### AudioMix

The thread's turn is: pace (wait, push silence, or begin a frame), read the
voice's block, a step per sample, write back, push. `adpcm_step`, `read_one` and
`Sample` are the decoder's walk: at a sample's end a one-shot stops, a loop goes
round, a stream goes on to the block the game has queued. Positions are counted in
samples, nibble headers are left out, and what is checked is which
positions are read, in what order, and how far ahead of the game. One voice stands
for the 64, which share nothing but the sum. The pacing by the step clock
(`mgs_audio_pace`) and `MGS_AX_THREAD=0` are not modelled, nor are volumes,
their ramps and the sample values.

### CommandStream, CommandMeaning, VertexFormat, GuestMemory

A program is a sequence of commands; its bytes come in writes of one to four, or
all there is. The parser is `fifo.c`'s: an opcode, then bytes until the length is
known and reached, a dispatch, and a stack of streams for display lists.
`Meaning` (in `CommandMeaning`, which the proofs do not reach: it is recursive) says what
a program does, command by command, with no bytes in it;
`done` is what the parser did. A vertex is its parts: where
each attribute's bytes are, in the vertex or in an array element; and each
generated coordinate is its source, its matrix (named by the vertex or a register)
and its kind, as the XF memory stands when the vertex is drawn. Arithmetic on
those numbers is left out. The XF registers start as `mgs_gx_init` leaves them. Arrays
lie below 2^31, where TLC's numbers end.

### TextureCache, GpuBatch, Renderer

One action is one thing the parser asks for - a triangle, a texture copy, a
framebuffer copy - or the game's write to a texture. The pictures are rows
of one colour; a colour is what each combiner stage sampled. Beside the code's state
run three ghosts that say what a renderer which draws every triangle at once could
show (module comment). The content key samples few of a texture's bytes, at
an odd stride, as the code's does: the instance's textures of sixteen bytes are
sampled at four places, and what the game loads anew differs in
one place of every tile. Further assumptions:
no two addresses hold the same bytes in different formats (the GPU's cache
is keyed by content alone); the memo is shorter than the cache; a triangle and the one
before it bind at most `MemoSlots + 1` textures together (in the code four and
four against a memo of eight; section 6 says what happens beyond that); the GPU's cache is long enough that a surface
copied there is not evicted before it is used (otherwise zeros
are uploaded, texture.c:820); commands recorded for the device are executed in order.
Depth is not in this model, nor are a sampler's wrap and filter settings, which a batch
also compares (gpu.c:944).

### Texels, Tev, Raster

A script is a sequence of register writes, triangles and copies on a buffer of 8 by
4 pixels, run with every assignment of threads to bands, or with the GPU's combiner
block built beside it. Screen coordinates are exact, in half pixels; depths are
fractions. `PictureExact` compares with the definition of the picture - for each
pixel, the last triangle that covers it and passes - and not with the walk over
bands. Each copy is decoded again and compared with the picture it was made from.
The corners of cut triangles are exact by the choice of scenes (`CornersExact`).
The scripts keep to one texture per stage, at most eight stages, positive
texture coordinates, and a copy whose source is the buffer's origin where the copy
is a frame (section 6 says what the code does outside them). There is no
fairness: a script may stop anywhere.

## 3. Runs

| run | instance | properties | states |
|---|---|---|---|
| `job_pool` | 2 workers, 2 clients, 3 jobs, ring of 2 | `IInv`, `DestroyDrains`, `WaitMeansDone`, `ImplementsWorkQueue`, `NoneWaitsForEver` | 128,615 |
| `render_ring` | ring of 3 bytes, stores of 1 or 2, publish every 2, 4 bytes, 1 mark slot for 2 retraces, 1 draw-done | `RingInv`, `NoLostWakeup`, `DrainMeansParsed`, `StreamRuns` | 323,759 |
| `dvd_reads` | 2 slots, 2 blocks, the self-check and 3 reads, four machines, a disc of four files | `DvdInv`, `UnmovedSeesData`, `ImplementsReadContract`, `EveryReadReported` | 126,436 |
| `dvd_image` | the same on the image behind two workers alone | `CallbackSeesData` (violated) | |
| `guest_clock` | fields of 5 and 6 ticks, rate 2, clamp 7, strides 2, batches of 3, four other hooks of periods 2 to 5, to tick 20 | `ClockInv`, `OnTime`, `Cadence` | 131,718 |
| `interrupts` | two ARAM transfers and one completion of each other source with no DSP task; or two sends of upload and two audio buffers | `IntInv`, `FramesPaced`, `CompletionsHandled`, `FramesCatchUp` | 43,218 |
| `memory_card` | 2 pages per block, 2 saves, 2 starts | `CardInv`, `SaveIntact`, `DoneMeansLanded`, `SaveCompletes` | 14,632 |
| `frame_handover` | 2 buffers, 3 pictures, the four ways to start | `FrameInv`, `IdleMeansShown`, `HandedForward`, `EveryFrameShown` | 750,618 |
| `audio_mix` | frames of 2 samples, blocks of 12, ratios 2/3 and 4/3, a lead of 1; a sound, a loop, a stream | `AudioInv`, `NoEcho`, `DecodesInOrder`, `StreamGoesOn` | 1,220,658 |
| `command_stream` | 70 programs of two to ten commands, three display lists, a staging buffer of 20 bytes | `StreamInv`, `AsWritten`, `RegistersHold` | 275,811 |
| `renderer` | five addresses, four cache slots, memo of 3, batches of 2, two rows, five steps | `DrawnAsBound`, `FrameComplete`, `MemoSafe` | 2,190,915 |
| `raster` | 81 scripts and ways to run them on 8 by 4 pixels, up to three bands on two workers and the caller | `PictureExact`, `CopiesDecode` | 38,302 |

What the properties of the reads and of the last four runs say:

- `UnmovedSeesData`: a read finds the pressed bytes in memory, and its callback a block that is
  not BUSY, unless the FILE was moved under it, whatever slots, blocks, callbacks and the other
  worker do meanwhile. On the folder, and with one worker or none, nothing is ever
  moved (a part of `Alone`, section 5), so that there it is `CallbackSeesData`, of
  every read. With `dvd_image` it says that this race loses reads and that nothing else does.
- `AudioInv`: the queue stays under its target and a frame, the mixer under its lead,
  a stream whose game stalls is overrun by no more than the lead allows, a loop
  stays inside. `NoEcho`: nothing is played twice but by a loop. `DecodesInOrder`:
  at a ratio of one or more the decoder goes on exactly where it was. `StreamGoesOn`: a
  block is played to its end.
- `AsWritten`: whenever a write has been parsed, what was done, the CP
  registers and the XF memory are those the commands given so far mean, in whatever
  pieces they came. `RegistersHold`: a register written through two
  commands holds the last of each, a word of the transform unit that nothing loaded its
  default. `StreamInv`: lists and staging stay in their bounds, the length in hand is one
  its command may have, and a load from an array reads only words that lie whole in one
  of the two blocks of memory.
- `DrawnAsBound`: every row of the buffer, on the host or in the GPU's target, shows a
  colour the ideal renderer could have put there, also after copies refused by the
  device and through textures made by copies. `FrameComplete`: a picture handed on
  lacks no triangle asked for before it. `MemoSafe`: the memo leads only to entries that hold
  what it was asked for, and whatever triangle comes next, none of its textures
  makes room for another of them. Freed texels are `DrawnAsBound`'s: a
  texture the game changed is decoded afresh while the batch that
  waits still points to the old texels (texture.c:749), and it is that batch
  which is flushed next (gpu.c:1001); only the memo keeps the two apart, and with
  `MemoSlots = 2` (or the mutant that makes it one entry short) `DrawnAsBound` is lost
  after four steps.
- `PictureExact`: colour, depth and the number of pixels are what the
  triangles' definition gives. `CopiesDecode`: a copy is decoded to what was copied.

Why the bounds are enough:

- *Jobs.* Two workers make one finish while another runs, two clients make one
  wait for the other's jobs and two sleep on `all_done`; three jobs through a
  ring of two make it wrap and be full with a worker busy.
- *Ring.* Three bytes and stores of two wrap inside a store; publishing every
  two leaves an unpublished tail; four bytes fill the ring and go round once;
  one mark slot for two retraces makes the second be dropped.
- *Reads.* More reads than slots (a refusal), reads issued from callbacks,
  two finishing in one pass, one failing, one due later than it is done; the
  files are followed by padding and by another file, so that reads across an end are
  told apart.
- *Clock.* Two field lengths, periods that divide and do not divide each
  other and coincide, a clamp shorter than a long host step. Beyond the
  bound only larger sums of the same kind follow; the theorems have no bound.
- *Interrupts.* Two completions of one source overlap a raise, a refusal and
  a redelivery. The DSP task is a load of its own because liveness checking of the
  product of both is too expensive; the theorems are about the whole module.
- *Card.* Two saves rewrite each copy once; two starts see whatever the first
  run left. First and last page of a block use all four bytes of the
  address; blocks 1, 2 and 16 differ in the two upper ones.
- *Frames.* With three pictures one is scanned, one on its way and one being
  drawn while a hand-over waits; two buffers give flips back to a buffer already
  shown, movie pictures and copies mixed.

- *Audio.* Two samples a frame at ratios below and above one end a frame on a
  step, past a step and between two; a lead of one is passed when the game misses
  two interrupts. A block of twelve is what a mixer three frames ahead plays in the worst
  case, so that the instance meets the theorem's `BlockOutlasts` with nothing to spare.
- *Command stream.* Every kind of command; each follows one it depends on, and writes of
  one to four bytes cut it at every place. The buffer of twenty holds the longest
  command with one byte to spare; one list calls itself until the depth refuses it. Arrays end
  in the middle of an element, at either block's end.
- *Renderer.* Five steps are what it takes to write a texture, bind it, copy, write it
  again and bind it from the memo, or to fill a batch and have a copy refused. Two
  triangles of two textures that share one take the memo of three to its limit.
- *Raster.* Four rows in bands of one are given to two workers and the caller;
  every format and every stage's arithmetic is met by a script.

Every passing run's properties have a mutation in `PROJECT.json` that breaks
them.

### Fairness

- `JobPool`: weak fairness of each worker, of each waiting client and of the
  joins (threads are scheduled, and the lock is not withheld for ever). A client
  need not submit, wait or leave.
- `RenderRing`: weak fairness of both threads, none on the timeout; strong
  fairness of the poll, which the clock runs every 512 ticks while the game
  waits for its draw-done.
- `DvdReads`: weak fairness of the workers and of the service once begun, strong
  of the pump's beginning it, of the ticks of guest time and of the game's
  enabling interrupts: a game that held interrupts off for ever would not get
  its reads on a console either. Guest time stops at `MaxClock`; a read issued
  later than that would never be due, so `Read` keeps within it.
- `Interrupts`: strong fairness of each offer that finds the game willing (EE
  on, a context): offers come with fixed periods which are not in step with the
  game, and native code returns to the run loop when EE goes from 0 to 1. The
  handlers are the game's code and proceed.
- `MemoryCard`: strong fairness of locking the bus (the SDK queues a caller
  whose lock fails) and of taking a pending interrupt; the library's other
  steps weakly. Nothing makes the player quit or stay.
- `AudioMix`: weak fairness of the mixer's thread (it runs at a raised
  priority), of the card's playing, of the audio interrupt and of the game's refill of
  its stream: a game that stops refilling falls silent.
- `CommandStream`, `Renderer`, `Raster`, `GuestClock`: none; they state no liveness.
- `FrameHandover`: weak fairness of the pump, the render thread and a present;
  strong of the presenter's poll of events, which every turn of its loop makes, and
  of the run loop's look at the flag, made before every step. The game need not draw.

## 4. Finding

`dvd_image` ends in a violation of `CallbackSeesData` - runtime/dvd/disc.c:145.
Reads run on the pool's workers, and an image has one FILE: a seek and
the read after it are not one step, so two reads in flight can each be served from
the other's place, while disc.h:40 says the bytes come from the path's file at the
offset asked. A folder opens a FILE per read. With one worker, or none,
`dvd_reads` shows the image right, and that with two only the reads under which the FILE
was moved can go wrong.

## 5. Theorems

All are proved for any value of the constants under the modules' named
assumptions and, where it says so, a hypothesis of the theorem; each follows from
an inductive invariant that TLC found true of the run's instance before it was proved.

- **JobPoolProofs**, assuming a finite non-empty set of workers and a ring of at
  least one place. `PoolInvariant`: `Spec => []IInv`. `IInv` says that `in_flight`
  counts the workers between their two critical sections, that head, tail and
  count agree, that a job which is not done is in an occupied slot of the ring
  or in a worker's hands, and in which order a shutdown goes. The two "a job is
  here or there" parts make it strong enough: the counters alone do not say that
  zero means nothing is left. `WaitTheorem` (a wait that returns finds every job
  its caller had submitted done) and `DestroyTheorem` (a joined pool has run
  everything it accepted) follow from it. `QueueTheorem` is the refinement: under the
  mapping the run checks, every step of the pool is a step of `WorkQueue` or leaves it
  as it is. A ring that wraps is read as a sequence from its head, and the step needs
  `EachOnce`, the other half of "here or there": no job is in two slots, in two
  hands, or in both. The ring's two critical sections are lemmas (`RingAfterSubmit`,
  `RingAfterTake`): what is behind the head moves up by one, and nothing else.
- **RenderRingProofs**, assuming sizes of at least one and stores that fit the
  ring. `Inductive` is `Spec => []IInv`: the ring's invariant with which threads exist in
  each mode, what mutex and flag are at each place of the render thread, that a parse
  has something published to read, and - `Watched` - that after each look the render
  thread takes with its flag up, what it looked for is absent or the game's thread is at
  a place where it is about to see the flag. `Watched` is what makes the wake-up
  inductive: the claim about a sleeping thread says nothing of one that is on
  its way to sleep. `RingTheorem` (`RingInv`), `WakeupTheorem` (`NoLostWakeup`) and
  `DrainTheorem` (`DrainMeansParsed`) follow. The slots rest on lemmas about remainders
  (`SlotOffset`, `SlotsDistinct`), the tokens on cardinalities of the requests executed.
- **RunLoopProofs**, of the clock, assuming positive periods and a field longer than two
  steps of the step clock. `ClockInvariant` (`ClockInv`): the cached deadline is
  the least of the hooks', the guest is not ahead of the host, the devices get
  every tick. `OnTimeTheorem`, `CadenceTheorem`: no deadline is passed by more than
  a step (on the wall clock not at all, except the draw-done's by one tick when
  it waits out a retrace), and runs of a hook are a period apart. The argument
  is `Punctual`: between two runs of the hooks every deadline is ahead, except
  a draw-done's that was passed over, and then the next retrace is more than a
  step away, so it cannot be passed over twice.
- **RunLoopProofs**, of the interrupts, for any number of completions of each source.
  `InterruptInvariant` (`IntInv`): an asserted line has a source behind it, the
  dispatcher is never entered for nothing, and each completion no handler has
  seen is queued or asserted. `TaskTheorem` (`TaskExists`) rests on the part
  `UploadTold`: the quiet count is started again by every send and stays below
  the upload's own count of offers. The guard `UploadKeepsUp` states the timing
  the code's constant of eight offers relies on - the upload is never held up
  for that long - and is the one assumption about the game's speed in the
  project. `FramesTheorem` (`FramesPaced`) is the ledger of interrupts
  delivered, credits and mails.

- **DvdReadsProofs**, for any reads, command blocks, slots, machines and discs, an
  image behind several workers included. Assumed are a table of at least one slot;
  that a machine has its first disc in, mounted; that with workers on an image the
  pool's ring is not shorter than the table (1,024 against 64, so the game's thread never
  reads an image itself while a worker does); unsigned offsets, lengths and
  bytes. `Inductive` is `Spec => []IInv`: a read under way is in the pool's queue, a
  worker's hands or among the finished, once; a slot and its request name each
  other until the slot is released; no two reads of the table are on one block; the
  batch a drain took holds reads that landed; and memory holds the whole answer of
  a read that finished and nothing of one that did not. `TableTheorem` (`DvdInv`),
  `CallbackTheorem` (a block is not BUSY in its callback) and `ContractTheorem` (the
  refinement of `ReadContract`: a read is refused, or lands and is then reported, once)
  follow. For the contents, `Undisturbed` is inductive with it: a read the FILE was not moved
  under finds it where it put it, and is answered from its own place, by however many
  workers. `OwnPlaceTheorem` (what such a read leaves in memory is what lies at its own place)
  and `UnmovedSeesDataTheorem` (`UnmovedSeesData`) follow, with no bound on the workers. With
  `OneReader` - an image has at most one worker, a folder any number - nothing is ever moved
  (`Alone`), and `CallbackSeesDataTheorem` has the whole of `CallbackSeesData`; the
  program has more workers on an image, and `dvd_image` shows what is then lost (section 4). The
  last two take `ReadsTruly`, that each read *by itself* brings the pressed bytes: it is a
  fact about `Disc` and `FileTable` on given discs, a sequential one, and TLC has it from
  `dvd_reads`, whose `UnmovedSeesData` fails if a read alone is wrong.
- **FrameHandoverProofs**, for any buffers and any number of pictures in every mode.
  `Inductive` is `Spec => []IInv`, thirteen parts about the four places a picture can be: the
  commands, the buffers, VI and the screen. `Settled` and `LastKey` say when VI, the
  pump's copy of its address and the key agree. `Overtaken` is what makes "the key is the
  last one, so show nothing" safe: VI was taken elsewhere only for something newer. `OnItsWay`
  follows a picture that has a key from the flag to the presenter and the screen;
  `IdleMeansShown` speaks only of its last stage. `FrameTheorem` (`FrameInv`),
  `IdleTheorem` (`IdleMeansShown`) and `ForwardTheorem` (`HandedForward`, an action
  property: pictures are handed on in the order they were made) follow.
- **AudioMixProofs**, for any frame, target, lead, ratios, sounds, loops and streams.
  `Inductive` is `Spec => []IInv`: the lead and the queue at each place of the thread, what a
  block may look like, and where a frame has taken its voice, sample by sample, with the
  fraction carried. `PaceTheorem` (`QueueBounded`, `LeadBounded`) and `NoEchoTheorem`
  (`NoEcho`) need nothing else. `AudioTheorem` (`AudioInv`) assumes `BlockOutlasts`: a
  stream's block holds more than the mixer plays while it is as far ahead as it gets, ten frames
  with `MIX_LEAD` 8. The block's length is the game's: 4,096 samples, of which a frame takes
  about 220 (src/HANDOFF.md:11482), so ten frames fit with room for a game that runs
  several ahead. Without it the bound is not a bound, for the voice would be
  through both blocks. Its strengthening `Streamed` is a ledger: what a voice is past the
  end of its block is paid for by the frames the mixer is ahead. `DecodesTheorem`
  (`DecodesInOrder`) assumes `WithinHistory`: frames of two samples or more, and no ratio that
  steps over more positions than a history may lie behind (4,096; a ratio is 16.16 and
  the game's stay below that by far).
- **MemoryCardProofs**, for any pages of a block that a save writes, in rising order, and any
  number of saves and starts of the program. `Inductive` is `Spec => []IInv`. `Protocol` is
  the device, the bus and the library at each place of a command. A save is 2N + 2 commands that
  write, N the number of pages; `SavingAt(d, k, l)` says that k of them have been begun, into
  directory d, that what is left is l commands which only read and then the tasks after k, and
  `Made` what the image holds when those done are done: the other directory
  is untouched, and blocks fill in order. That one number relates the sequence the library works
  off to the pages of the card; `SaveIntact` alone says nothing of either. `Stored` is the file
  against the card: an image that is not marked as changed is the file's. `CardTheorem`
  (`CardInv`), `SaveTheorem` (`SaveIntact`) and `DoneTheorem` (`DoneMeansLanded`) follow. The
  lemmas follow the bytes: `Decoded` (the four address bytes name the address, and no
  bit twice), `EraseSent`, `ProgramSent`, `PageSent` and `Deselected` (what each of
  the device's entry points leaves), `StatusStore` (a store to the register), and `MadeNewest`
  (the newest whole directory is the old one until the last page, and by then the data is there).

- **GraphicsProofs**, of the parser, for any programs and display lists of bytes and a buffer
  longer than the four bytes a length is found from (`StreamAssumption`). `IStreamInv` is proved
  inductive for a stream cut at any byte, lists inside lists and a stop in between.
  `StreamInvTheorem` (`StreamInv`): lists nest four deep at most, a command in hand is shorter
  than the buffer and than its own length, which is one its opcode may have, and every word loaded
  from an array lies whole in memory. For that, the bytes in hand must have been too few to tell
  the length before;
  `Length` of more bytes must not change, and the body a handler is given must be whole, so that no handler
  reads past it. `ElementInside` is the arithmetic of the second part - what `Place` grants
  leaves four bytes for each word of the load - and `LoadsWhole` the step. `RegistersHoldTheorem` (`RegistersHold`): `done` only grows, so the first part of each of
  the 8 colours and konsts, each palette and each word of the transform unit is kept by
  the steps that add no write of it and set by the one that does. The lemmas
  are one family for each (`ColourSame`, `ColourOther`, `ColourAdded`; `Palette...`; the words of an XF load) over
  the last element of a set of positions (`Latest`), and the arithmetic of a register's bits.
- **GraphicsProofs**, of the textures, for any textures, addresses, batches and GPU,
  a memo smaller than the cache, and triangles of any number of textures for which
  `MemoSlots + Len(ids) <= Slots + 1` (`CacheAssumption`, `RendererAssumption`; the code has a memo of 8,
  at most 8 stages with a texture of their own and 256 entries, and TLC's instance, 3, 2 and 4, is the
  tightest there is). `MemoSafeTheorem` (`MemoSafe`): the memo answers with entries that
  still hold what was asked for, the order of use names the entries in use, and whatever triangle
  is drawn next, every slot bound for it is still its own when its last texture is bound. The memo alone is not inductive, since it
  says nothing of the order in which entries are used again. `ICacheInv` does: the slots of
  the memo are the last of that order, in the same order (`AtEnd`), so that the first, which is
  the one taken again, is none of them. Between the first map of a triangle and its last a slot
  can leave the memo, and the memo is no help: `Ages` says that one request moves
  a slot up by one place at most, and does not touch the very first when its own identity is cached;
  `OneMore` adds this up over the maps of a triangle, of which the first is asked for
  again at the end. A memo hit does not touch the order, and a refused format frees
  a slot and fills none; both are part of it.

Only model-checked:

- every liveness property, since fairness and ENABLED are beyond the prover;
- `AsWritten` of `CommandMeaning`, since what a program means is recursive;
- `DrawnAsBound` and `FrameComplete` of `Renderer`: that the texels bound and uploaded
  are the right ones rests on the content hash, on no two addresses holding the same bytes and on surfaces that stay in the GPU's
  cache until they are used, which the instance chooses;
- `Raster`: its pictures are bounded evaluations, and its greatest common divisor is a recursive operator;
- what `Disc` and `FileTable` answer to one read.

## 6. Where the code and its words part

Found while modelling. The first eight have a statement in the modules, which a
reader can see violated by adding it to the named .cfg, the last two with the change
named there; they are kept out of the runs because the code does not have them.

- `RenderRing` / `MarkNotPassed` (RenderRing.cfg, INVARIANT) - host/display.c:323. The render thread runs
  the marks at its position and *then* asks where the next mark is, skipping
  marks at its own position. A mark left in between, at exactly that position,
  does not stop the parse, which runs past it.
- `GuestClock` / `NoDebt` (GuestClock.cfg, INVARIANT) - host/module.c:1811. Each reading of the clock
  adds up to a clamp to the pool, which is paid out only as far as the next
  deadline per step; when the steps are long it grows without limit, where the
  comment at line 1790 says that debt never accumulates.
- `Interrupts` / `CalledBackOnce` (Interrupts.cfg, INVARIANT) - runtime/platform/mmio.c:1018. A transfer's
  store asserts the status and also queues a completion, and the offer asserts
  the status again, so the handler can run twice for one transfer.
- `FrameHandover` / `DrawnBeforeShown` (FrameHandover.cfg, PROPERTY) - host/display.c:1476. The presenter asks VI
  for its address when it presents, not when the frame was handed over; by then
  VI may be at a buffer that is not drawn, where main.c:559 says that what was
  written before a flip is drawn before it is shown. The right picture follows
  at the next retrace, so this is one wrong frame, not a stuck one.
- `CommandMeaning` / `LongRunDropped` (CommandStream.cfg with `Programs <- LongRuns`, INVARIANT) -
  runtime/gx/fifo.c:725. Of a run of vertices longer than the staging buffer the
  code forgets the opcode and the bytes staged so far; the rest is parsed as commands,
  where the comment says it is dropped rather than mis-parsed.
- `AudioMix` / `DecodedOnce` (AudioMix.cfg, INVARIANT) - host/ax_dsp.c:744. A voice slower than the
  output may end a frame without a step, one position ahead of its decoder; the
  difference that decides whether to go on wraps, and two positions are
  decoded again, where line 352 says exactly once. `DecodesInOrder` states it for ratios
  of one and more.
- `Renderer` / `DrawnAsBound` (Renderer.cfg with `Contents <- MCReused` and
  `Loadable = {"plain", "palette", "memcopy"}`) - runtime/gx/texture.c:326.
  Memory a texture copy once wrote stays known as the copy's: a texture the game loads there
  later is drawn as the old copy, because the copy's serial is asked and not the bytes (:663), and what is decoded is the
  copy's snapshot (:151).
- `Renderer` / `DrawnAsBound` (Renderer.cfg with `MemoSlots = 2`) -
  runtime/gx/texture.c:749. A triangle and the one before it with more than nine textures
  between them, the shared one counted twice - [A, c1 .. c4], then [b1 .. b4, A] with A
  rewritten in between - push A out of the memo of eight. If the first is not on the GPU
  yet, its texels are freed while the waiting batch points to them, and the batch is
  uploaded from them (gpu.c:1001), where texture.h:129 says that a texture rewritten in
  place is drawn with its previous contents until the next copy. The game's draws bind at
  most four (gpu.h:76), and four and four are what the runs and their bounds assume.

`NoneRefused` in `FrameHandover` marks a weakness with the non-default
`MGS_PRESENT_INLINE=1` and a cap: when the cap refuses a movie's picture and the
game then flips back, the key is the last one shown, and the new picture in
that buffer is not shown. `IdleMeansShown` and `EveryFrameShown` exclude just that.

Without a statement of their own, because the models assume the case away or
abstract the value concerned:

- *Disc.* A swap changes the identity shown and compared, but nothing calls
  `mgs_disc_set_active` and the reads stay with disc 1 (host/main.c:1959), where
  disc_swap.c:117 calls this the whole two-disc mechanism. On a folder, bytes past a
  file's end are zeros where an image gives the next file's (disc.c:425), and an offset in
  no file fails where an image succeeds. Lookups ignore case, opening the dumped file
  does not.
- *Audio.* The gate uses `>` so the mixer is up to `MIX_LEAD + 1` ahead (457). The
  block a game has just filled is run past on the next frame (973). A loop shorter than a
  step leaves its range. A new voice placed shortly before an old history is
  walked from there. The header's two nibbles count as positions (164), so each frame's first data
  nibble is decoded three times.
- *Command stream.* A normal declared as one vector with three indices is sized with
  three (fifo.c:132) and decoded with one (vertex.c:336), and the primitive is
  dropped. An unknown opcode costs the byte after it, too. After a stop the rest of a batch is
  dropped. Indexed loads reach only addresses below 0x1000.
- *Renderer.* On a texture copy with a clear the host clears the whole
  buffer (efb.c:441), the GPU the rectangle (gpu.c:1085). A stage without a texture samples unit 0
  on the GPU. A change of few bytes of a large texture may miss the content key, by design.
- *Raster.* The host's depth is reset to 1.0 (raster.c:97) whatever the copy's
  clear depth says, while the screen's depth is in 24-bit units. More than eight stages
  with a texture each read past the eight texels kept. When only stage 0 has
  a texture, every stage takes its texel. Two triangles that share an edge both draw the pixels on it
  (raster.c:528). Nearest sampling rounds negative coordinates toward zero. An I4
  copy writes nothing, an IA4 copy eight-bit luminance. Three-bit colours expand to at most 252. A frame
  copy ignores the source's origin.
- *Card.* The file is cut to nothing before it is written (exi_card.c:280): a
  process killed in between loses every save. The model has the two steps; what `SaveIntact`
  says of the file is about a file that is there.

## 7. Not modelled

Sample values and volumes; numbers of vertices and matrices; the GPU's shader and
library; the executable's sections (`dol.c`) and the search for discs
(`disc_locate.c`); the recompiled code and its dispatch; windows, input, launcher, tools and
tests; counters, logs, traces and dumps, which are a large part of `main.c`, `module.c`, `raster.c`,
`spr.c` and `heaps.c`. The copy a display list may defer for the render thread
(`GXTake_copy`) is never taken: the copy is executed where it is parsed. Each
component is listed with its reason in `PROJECT.json`. `mgs_sched_*` and `card_shims.c` are in
the tree, but the program does not use them beyond initialisation.

## 8. What could follow

1. The batches of the render thread as the writes of `CommandStream`: its parse
   refines `RenderRing!ParseByte`.
2. `DrawnAsBound` and `FrameComplete` of `Renderer` as theorems, with what they rest on as
   assumptions: a key that tells contents apart, and surfaces that stay in the GPU's cache.
3. Algorithms without state that are left: the executable's sections, boot information.
