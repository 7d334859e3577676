--------------------------- MODULE CommandStream ---------------------------
(***************************************************************************)
(* The command parser: runtime/gx/fifo.c and the registers of bp.c.        *)
(*                                                                         *)
(* The game's stores arrive as bytes, in writes of any size: up to four    *)
(* through the gather pipe, whole batches from the render thread's ring.   *)
(* Nothing marks where a command starts but the length of the one before,  *)
(* and the length of a draw depends on registers earlier commands set.  A  *)
(* display list is a stream of its own, run inside the call.               *)
(*                                                                         *)
(* What the game wrote is a program, a sequence of commands; the stream is *)
(* its bytes.  What the parser did is `done`.  The parser is right when    *)
(* `done` is what the program means, whatever the sizes of the writes.     *)
(***************************************************************************)
EXTENDS VertexFormat, FiniteSets

CONSTANTS
  Programs,   \* the programs the game may write
  Lists,      \* display lists in memory: from the address to a program
  BufLen,     \* sizeof MgsGx.buf
  DlMax,      \* MGS_GX_DL_MAX
  MaxBatch,   \* bytes in a batch of the ring
  Pad,        \* what follows a list in memory
  Palettes    \* places in texture memory they load palettes to

VARIABLES
  program,   \* what the game writes
  fed,       \* bytes of it delivered
  feeds,     \* the calls of feed in progress: what is left of each, the pipe's first
  parser,    \* opcode, buf[0..have-1], want
  cp,        \* the command processor's registers
  xf,        \* the transform unit's memory, as far as it is not zero
  bp,        \* the effects the blitting processor's registers have
  done,      \* what has been done, in order
  desyncs,   \* why the stream was lost, in order
  quit       \* abandon() says so

vars == <<program, fed, feeds, parser, cp, xf, bp, done, desyncs, quit>>

DlDepth == 4

NOP == 0
LOAD_CP == 8
LOAD_XF == 16
LOAD_INDX == {32, 40, 48, 56}
CALL_DL == 64
INVL_VC == 72
LOAD_BP == 97
DRAW == 128..191

-----------------------------------------------------------------------------
(***************************************************************************)
(* What the game writes, and what it means.                                *)
(***************************************************************************)
Encode(c) ==
  CASE c.op = "nop"  -> <<NOP>>
    [] c.op = "invl" -> <<INVL_VC>>
    [] c.op = "cp"   -> <<LOAD_CP, c.reg>> \o c.word
    [] c.op = "xf"   -> <<LOAD_XF, 0, Len(c.words) - 1, c.addr \div 256, c.addr % 256>>
                        \o FlattenSeq(c.words)
    [] c.op = "indx" -> <<8 * (c.array - 8), c.index \div 256, c.index % 256,
                          16 * (c.count - 1) + c.addr \div 256, c.addr % 256>>
    [] c.op = "call" -> <<CALL_DL>> \o c.addr \o Bytes(c.size)
    [] c.op = "bp"   -> <<LOAD_BP, c.reg, c.val \div 65536, (c.val \div 256) % 256, c.val % 256>>
    [] c.op = "draw" -> <<128 + 8 * c.prim + c.vat, 0, Len(c.verts)>> \o FlattenSeq(c.verts)
    [] c.op = "raw"  -> c.bytes

EncodeAll(prog) == FlattenSeq([i \in DOMAIN prog |-> Encode(prog[i])])

Stream == EncodeAll(program)

\* What the game writes, and has in memory, is bytes.  The buffer holds more
\* than the bytes any length is found from.
ASSUME StreamAssumption ==
  /\ BufLen \in Nat /\ BufLen > 4 /\ DlMax \in Nat /\ MaxBatch \in Nat /\ Pad \in Byte
  /\ \A p \in Programs : EncodeAll(p) \in Seq(Byte)
  /\ \A a \in DOMAIN Lists : EncodeAll(Lists[a]) \in Seq(Byte)

\* Where a display list begins: its fetch unit.
Unit(addr) == <<addr[1], addr[2], addr[3], addr[4] - (addr[4] % 32)>>

\* The CP registers there are: matrix indices, the descriptor, three tables of
\* eight formats, and the arrays with their strides.  regs has those written.
CpRegs == {48, 64, 80, 96} \cup 112..119 \cup 128..135 \cup 144..151 \cup 160..191

\* cp_write; a register there is not is ignored.
CpWrite(regs, reg, word) ==
  IF reg \in CpRegs THEN [r \in DOMAIN regs \cup {reg} |-> IF r = reg THEN word ELSE regs[r]]
  ELSE regs

Vcd(regs) == [lo |-> Register(regs, 80), hi |-> Register(regs, 96)]
Vat(regs, n) == [a |-> Register(regs, 112 + n), b |-> Register(regs, 128 + n),
                 c |-> Register(regs, 144 + n)]

\* The parts of the transform unit's memory that are kept, and where they
\* begin.  Some are single words.
XfTables ==
  {[name |-> "matrix", base |-> 0, size |-> 256], [name |-> "normal", base |-> 1024, size |-> 96],
   [name |-> "post", base |-> 1280, size |-> 256], [name |-> "clip", base |-> 4101, size |-> 1],
   [name |-> "dualtex", base |-> 4114, size |-> 1], [name |-> "viewport", base |-> 4122, size |-> 6],
   [name |-> "projection", base |-> 4128, size |-> 6], [name |-> "ortho", base |-> 4134, size |-> 1],
   [name |-> "numtexgen", base |-> 4159, size |-> 1], [name |-> "texgen", base |-> 4160, size |-> 8],
   [name |-> "postinfo", base |-> 4176, size |-> 8]}

\* The table a word belongs to.
NoTable == [name |-> "none", base |-> 0, size |-> 0]
TableOf(a) ==
  LET tables == {t \in XfTables : a \in t.base..(t.base + t.size - 1)}
  IN  IF tables = {} THEN NoTable ELSE CHOOSE t \in tables : TRUE

\* xf_write: each word goes to its table; one that has none is dropped.
XfWrites(addr, words) ==
  [i \in DOMAIN words |->
     LET a == addr + i - 1 IN <<"xf", TableOf(a).name, a - TableOf(a).base, words[i]>>]

Kept(writes) == {k \in DOMAIN writes : writes[k][2] # "none"}
Cell(write) == <<write[2], write[3]>>

\* Mutant: a word once written is kept.
XfAfterKept(mem, writes) ==
  LET to(c) == {k \in Kept(writes) : Cell(writes[k]) = c}
  IN  [c \in DOMAIN mem \cup {Cell(writes[k]) : k \in Kept(writes)} |->
         IF c \in DOMAIN mem THEN mem[c] ELSE writes[CHOOSE k \in to(c) : TRUE][4]]

\* The memory after these writes, no two of which are to one word.
XfAfter(mem, writes) ==
  LET to(c) == {k \in Kept(writes) : Cell(writes[k]) = c}
  IN  [c \in DOMAIN mem \cup {Cell(writes[k]) : k \in Kept(writes)} |->
         IF to(c) = {} THEN mem[c] ELSE writes[CHOOSE k \in to(c) : TRUE][4]]

NoRegs == << >>

\* The transform unit as GXInit leaves it: each coordinate from the one of its
\* number, and the identity, 1.0 on its diagonal, in row 61 of the second
\* matrices.  The rest is zero.
One == <<63, 128, 0, 0>>
XfInit ==
  [c \in ({"texgen", "postinfo"} \X (0..7)) \cup {<<"numtexgen", 0>>} \cup ({"post"} \X {244, 249, 254}) |->
     CASE c[1] = "texgen"    -> Bytes(128 * (5 + c[2]))
       [] c[1] = "postinfo"  -> Bytes(61)
       [] c[1] = "numtexgen" -> Bytes(8)
       [] c[1] = "post"      -> One]

-----------------------------------------------------------------------------
(***************************************************************************)
(* The parser.                                                             *)
(***************************************************************************)
NoCommand == [opcode |-> NOP, buf |-> << >>, want |-> 0]

\* mgs_gx_init.
Init ==
  /\ program \in Programs
  /\ fed = 0 /\ feeds = << >> /\ parser = NoCommand
  /\ cp = NoRegs /\ xf = XfInit
  /\ bp = [tlut |-> [o \in Palettes |-> Zero], pending |-> Zero,
           colour |-> [c \in (0..3) \X (0..1) |-> <<0, 0, 0, 0>>], tokens |-> 0]
  /\ done = << >> /\ desyncs = << >> /\ quit = FALSE

\* mgs_gx_write, mgs_gx_write_bytes: the next n bytes of the stream.
Write(n) ==
  /\ feeds = << >> /\ n > 0 /\ fed + n <= Len(Stream)
  /\ feeds' = << SubSeq(Stream, fed + 1, fed + n) >>
  /\ fed' = fed + n
  /\ UNCHANGED <<program, parser, cp, xf, bp, done, desyncs, quit>>

\* What is left of the innermost feed, and the feeds with that much taken.
Data == feeds[Len(feeds)]
After(n) == [feeds EXCEPT ![Len(feeds)] = SubSeq(@, n + 1, Len(@))]

\* The first byte of a command.  Two commands are this byte alone.
Opcode ==
  /\ feeds # << >> /\ Data # << >> /\ parser.want = 0 /\ parser.buf = << >>
  /\ parser' = [parser EXCEPT !.opcode = Data[1],
                              !.want = IF Data[1] \in {NOP, INVL_VC} THEN 0 ELSE 1]
  /\ feeds' = After(1)
  /\ UNCHANGED <<program, fed, cp, xf, bp, done, desyncs, quit>>

NeedMore == -1

\* command_length: the bytes after the opcode; 0 for a command not known.
Length(op, body) ==
  CASE op = LOAD_CP -> 5
    [] op = LOAD_BP -> 4
    [] op = LOAD_XF -> IF Len(body) < 4 THEN NeedMore ELSE 4 + 4 * ((body[2] % 16) + 1)
    [] op \in LOAD_INDX -> 4
    [] op = CALL_DL -> 8
    [] op \in DRAW ->
         IF Len(body) < 2 THEN NeedMore
         ELSE LET count == 256 * body[1] + body[2]
                  vsize == Size(Format(Vcd(cp), Vat(cp, op % 8)))
              IN  IF vsize = 0 /\ count > 0 THEN 0 ELSE 2 + count * vsize
    [] OTHER -> 0

\* The buffer with the next byte in it, and the command's length then; a
\* length once known is kept.
Staged == Append(parser.buf, Data[1])
Known == IF parser.want > 1 THEN parser.want ELSE Length(parser.opcode, Staged)

InCommand ==
  feeds # << >> /\ Data # << >> /\ (parser.want # 0 \/ parser.buf # << >>)

\* desync, and the command is forgotten.  The bytes that follow are taken for
\* commands.
Lost(why) == desyncs' = Append(desyncs, why)
Forget == parser' = [parser EXCEPT !.buf = << >>, !.want = 0]

\* A byte of a command whose length is not known yet, or is refused.
BodyByte(len) ==
  /\ InCommand
  /\ \/ /\ len = NeedMore
        /\ parser' = [parser EXCEPT !.buf = Staged] /\ UNCHANGED desyncs
     \/ len = 0 /\ Lost(IF parser.opcode >= 128 THEN "unsized" ELSE "unknown") /\ Forget
     \/ len > BufLen /\ Lost("long") /\ Forget
  /\ feeds' = After(1)
  /\ UNCHANGED <<program, fed, cp, xf, bp, done, quit>>

\* The rest of the command in one go, as much as this feed has of it.
Body(len) == LET all == parser.buf \o Data IN SubSeq(all, 1, AtMost(len, Len(all)))
TakenNow(len) == len - Len(parser.buf)
Sized(len) == InCommand /\ len \in 1..BufLen

Partial(len) ==
  /\ Sized(len) /\ Len(Body(len)) < len
  /\ parser' = [parser EXCEPT !.buf = Body(len), !.want = len]
  /\ feeds' = After(Len(Data))
  /\ UNCHANGED <<program, fed, cp, xf, bp, done, desyncs, quit>>

-----------------------------------------------------------------------------
(***************************************************************************)
(* A whole command: dispatch.                                              *)
(***************************************************************************)
Complete(len, ops) == parser.opcode \in ops /\ Sized(len) /\ Len(Body(len)) = len

\* After a command, and after a list: a program that is to stop drops the
\* rest of what this feed was given.
GoOn(len) ==
  /\ Forget
  /\ feeds' = IF quit THEN [feeds EXCEPT ![Len(feeds)] = << >>] ELSE After(TakenNow(len))

LoadCp(len) ==
  /\ Complete(len, {LOAD_CP})
  /\ cp' = CpWrite(cp, Body(len)[1], SubSeq(Body(len), 2, 5))
  /\ GoOn(len)
  /\ UNCHANGED <<program, fed, xf, bp, done, desyncs, quit>>

ToXf(writes) == done' = done \o writes /\ xf' = XfAfter(xf, writes)

LoadXf(len) ==
  /\ Complete(len, {LOAD_XF})
  /\ ToXf(XfWrites(256 * Body(len)[3] + Body(len)[4],
                       [i \in 1..(Body(len)[2] % 16) + 1 |-> SubSeq(Body(len), 1 + 4 * i, 4 + 4 * i)]))
  /\ GoOn(len)
  /\ UNCHANGED <<program, fed, cp, bp, desyncs, quit>>

\* A matrix from an array; ignored when there is no array, or it is not in
\* memory.  A word of memory is named by where it is.
LoadIndexed(len) ==
  /\ Complete(len, LOAD_INDX)
  /\ LET count == Body(len)[3] \div 16 + 1
         place == Element(cp, parser.opcode \div 8 + 8, 256 * Body(len)[1] + Body(len)[2], 4 * count)
     IN  IF place = Refused THEN UNCHANGED <<done, xf>>
         ELSE ToXf(XfWrites(256 * (Body(len)[3] % 16) + Body(len)[4],
                            [i \in 1..count |-> <<place[1], place[2] + 4 * (i - 1)>>]))
  /\ GoOn(len)
  /\ UNCHANGED <<program, fed, cp, bp, desyncs, quit>>

\* An 11-bit colour, with its sign.
TevField(v) == LET x == v % 2048 IN IF x >= 1024 THEN x - 2048 ELSE x

\* Bit 23 tells a konst, 1, from a colour, 0.
IsKonst(val) == val \div 8388608

\* The address of a palette: 21 bits of it, in units of 32 bytes.
AddressOf(val) == FromPhys26(Bytes((val % 2097152) * 32))

\* Where in texture memory a palette is loaded.
TmemOf(val) == val % 1024

\* Two of the four parts of a colour, or of a konst, are written at a time.
Coloured(which, first, u, second, v) ==
  [bp EXCEPT !.colour[which][first] = u, !.colour[which][second] = v]

\* Mutant: a konst and a colour share the register they are written through.
BpAfterShared(reg, val) ==
  CASE reg = 100 -> [bp EXCEPT !.pending = AddressOf(val)]
    [] reg = 101 -> [bp EXCEPT !.tlut = IF TmemOf(val) \in Palettes THEN [@ EXCEPT ![TmemOf(val)] = bp.pending] ELSE @]
    [] reg = 69 /\ (val \div 2) % 2 = 1 -> [bp EXCEPT !.tokens = @ + 1]
    [] reg \in 224..231 ->
         LET first == IF reg % 2 = 0 THEN 1 ELSE 3
             second == IF reg % 2 = 0 THEN 4 ELSE 2
         IN  Coloured(<<(reg - 224) \div 2, 0>>, first, TevField(val), second, TevField(val \div 4096))
    [] OTHER -> bp

\* mgs_bp_write and bp_side_effect: a palette's address and its place come in
\* two writes, and so do a colour and a konst; a token asks for the finish
\* interrupt.  A copy is run at once, and changes nothing here.
BpAfter(reg, val) ==
  CASE reg = 100 -> [bp EXCEPT !.pending = AddressOf(val)]
    [] reg = 101 -> [bp EXCEPT !.tlut = IF TmemOf(val) \in Palettes THEN [@ EXCEPT ![TmemOf(val)] = bp.pending] ELSE @]
    [] reg = 69 /\ (val \div 2) % 2 = 1 -> [bp EXCEPT !.tokens = @ + 1]
    [] reg \in 224..231 ->
         LET which == <<(reg - 224) \div 2, IsKonst(val)>>
             first == IF reg % 2 = 0 THEN 1 ELSE 3
             second == IF reg % 2 = 0 THEN 4 ELSE 2
         IN  Coloured(which, first, TevField(val), second, TevField(val \div 4096))
    [] OTHER -> bp

LoadBp(len) ==
  /\ Complete(len, {LOAD_BP})
  /\ LET val == (Body(len)[2] * 256 + Body(len)[3]) * 256 + Body(len)[4]
     IN  bp' = BpAfter(Body(len)[1], val) /\ done' = Append(done, <<"bp", Body(len)[1], val>>)
  /\ GoOn(len)
  /\ UNCHANGED <<program, fed, cp, xf, desyncs, quit>>

\* Mutant: every triangle of a strip is wound the same way.
EmitSameWay(prim, e, v) ==
  LET n == e.n + 1
      out(ts) == [e EXCEPT !.n = n, !.held = ts.held, !.out = @ \o ts.tris]
      keep(h) == out([held |-> h, tris |-> << >>])
      held == e.held
  IN  CASE prim = 3 /\ n > 2 -> out([held |-> <<held[2], v>>, tris |-> << <<held[1], held[2], v>> >>])
        [] OTHER -> keep(Append(held, v))

\* emit_primitive: one more vertex v of a primitive; e is the vertices so far,
\* those still held, and the triangles given out.
Emit(prim, e, v) ==
  LET n == e.n + 1
      out(ts) == [e EXCEPT !.n = n, !.held = ts.held, !.out = @ \o ts.tris]
      keep(h) == out([held |-> h, tris |-> << >>])
      held == e.held
      h == Append(held, v)
  IN  CASE prim = 2 /\ Len(h) = 3 -> out([held |-> << >>, tris |-> <<h>>])
        [] prim = 3 /\ n > 2 ->
             out([held |-> <<held[2], v>>,
                  tris |-> << IF n % 2 = 0 THEN <<held[2], held[1], v>>
                                           ELSE <<held[1], held[2], v>> >>])
        [] prim = 4 /\ n > 2 -> out([held |-> <<held[1], v>>, tris |-> << <<held[1], held[2], v>> >>])
        [] prim \in {0, 1} /\ Len(h) = 4 ->
             out([held |-> << >>, tris |-> << <<h[1], h[2], h[3]>>, <<h[1], h[3], h[4]>> >>])
        [] OTHER -> keep(h)

\* The triangles of all the vertices vs.
EmitAll(prim, vs) ==
  LET after[k \in 0..Len(vs)] ==
        IF k = 0 THEN [n |-> 0, held |-> << >>, out |-> << >>] ELSE Emit(prim, after[k - 1], vs[k])
  IN  after[Len(vs)].out

Draw(len) ==
  /\ Complete(len, DRAW)
  /\ LET prim == (parser.opcode \div 8) % 8
         f == Format(Vcd(cp), Vat(cp, parser.opcode % 8))
         vsize == Size(f)
         count == 256 * Body(len)[1] + Body(len)[2]
         vertex(i) == Decode(cp, f, SubSeq(Body(len), 3 + vsize * (i - 1), 2 + vsize * i))
         out == EmitAll(prim, [i \in 1..count |-> Vertex(cp, xf, vertex(i).parts)])
     IN  IF count > 0 /\ vertex(1).used # vsize
         THEN Lost("decoded") /\ UNCHANGED done
         ELSE /\ done' = done \o [k \in DOMAIN out |-> <<"tri", out[k]>>]
              /\ UNCHANGED desyncs
  /\ GoOn(len)
  /\ UNCHANGED <<program, fed, cp, xf, bp, quit>>

\* A size recorded in the second window is too large by what separates the
\* window from the physical form of its addresses.  A size with its top bit set
\* is more than any list has.
ListSize(addr, word) ==
  LET low == Number([word EXCEPT ![1] = @ % 4])
  IN  CASE InVmem(addr) /\ word[1] >= 4 /\ low <= DlMax -> low
        [] word[1] >= 128 -> DlMax + 1
        [] OTHER -> Number(word)

\* What is in memory at a list's unit, and after it.
ListBytes(addr, size) ==
  LET list == IF addr \in DOMAIN Lists THEN EncodeAll(Lists[addr]) ELSE << >>
  IN  [i \in 1..size |-> IF i <= Len(list) THEN list[i] ELSE Pad]

\* Mutant: the depth is compared before this list is counted.
TooDeepByOne == Len(feeds) > DlDepth + 1
TooDeep == Len(feeds) > DlDepth

\* run_dl: a list begins with no command in hand.  A refused one is passed
\* over.
CallList(len) ==
  /\ Complete(len, {CALL_DL})
  /\ LET addr == Unit(SubSeq(Body(len), 1, 4))
         size == ListSize(addr, SubSeq(Body(len), 5, 8))
         ignored == TooDeep \/ SubSeq(Body(len), 5, 8) = Zero
         refused == size > DlMax \/ Place(addr, size) = Refused
     IN  IF ~ignored /\ ~refused
         THEN /\ feeds' = Append(After(TakenNow(len)), ListBytes(addr, size))
              /\ Forget /\ UNCHANGED desyncs
         ELSE /\ GoOn(len)
              /\ IF ignored THEN UNCHANGED desyncs
                 ELSE Lost(IF size > DlMax THEN "large" ELSE "unmapped")
  /\ UNCHANGED <<program, fed, cp, xf, bp, done, quit>>

\* The end of a list.  A command it cuts short is forgotten, and the caller's
\* own, the call, is over.
EndList ==
  /\ Len(feeds) > 1 /\ Data = << >>
  /\ LET outer == Front(feeds)
     IN  feeds' = IF quit THEN [outer EXCEPT ![Len(outer)] = << >>] ELSE outer
  /\ parser' = NoCommand
  /\ UNCHANGED <<program, fed, cp, xf, bp, done, desyncs, quit>>

\* The end of a write: a command it cuts short goes on with the next.
EndWrite ==
  /\ Len(feeds) = 1 /\ Data = << >>
  /\ feeds' = << >>
  /\ UNCHANGED <<program, fed, parser, cp, xf, bp, done, desyncs, quit>>

Quit ==
  /\ ~quit /\ quit' = TRUE
  /\ UNCHANGED <<program, fed, feeds, parser, cp, xf, bp, done, desyncs>>

Dispatch(len) ==
  LoadCp(len) \/ LoadXf(len) \/ LoadIndexed(len) \/ LoadBp(len) \/ Draw(len) \/ CallList(len)

Parse ==
  \/ Opcode \/ EndList \/ EndWrite
  \/ InCommand /\ \E len \in {Known} : BodyByte(len) \/ Partial(len) \/ Dispatch(len)

\* Up to four bytes through the pipe, or a batch: with MaxBatch, all there is.
Sizes == 1..4 \cup {AtMost(MaxBatch, Len(Stream) - fed)}

Next == \/ \E n \in Sizes : Write(n)
        \/ Parse
        \/ Quit

Spec == Init /\ [][Next]_vars

-----------------------------------------------------------------------------
(***************************************************************************)
(* Properties.                                                             *)
(***************************************************************************)
\* A command may be len bytes long.
Fits(op, len) ==
  /\ op = LOAD_CP => len = 5
  /\ op = LOAD_BP => len = 4
  /\ op = LOAD_XF => len >= 8
  /\ op \in LOAD_INDX => len = 4
  /\ op = CALL_DL => len = 8
  /\ op \in DRAW => len >= 2

\* A word for the transform unit: from the stream, or from where it is in
\* memory, all four bytes of it.
XfWord == Word \cup ({"ram"} \X (0..RamSize - 4)) \cup ({"vmem"} \X (0..VmemSize - 4))

\* At most four lists deep, and no further than was delivered; a command in
\* hand is shorter than what is wanted of it, which is a length its kind may
\* have, and than the buffer; and no load reads a word that memory does not
\* have whole: where the array is and how far apart its elements are was set by
\* other commands, and how many words are read is said by the load alone.
StreamInv ==
  /\ fed \in 0..Len(Stream)
  /\ Len(feeds) <= DlDepth + 1
  /\ DOMAIN cp \subseteq CpRegs
  /\ DOMAIN xf \subseteq {<<t.name, i>> : t \in XfTables, i \in 0..255}
  /\ Len(parser.buf) < BufLen
  /\ parser.want > 1 => Len(parser.buf) < parser.want /\ Fits(parser.opcode, parser.want)
  /\ parser.want = 0 => parser.buf = << >>
  /\ \A k \in DOMAIN done : done[k][1] = "xf" => done[k][4] \in XfWord
  /\ quit \in BOOLEAN

\* The blitting processor's writes so far, by when they were done.
Writes(reg) == {k \in DOMAIN done : done[k][1] = "bp" /\ done[k][2] = reg}
Latest(S) == CHOOSE k \in S : \A j \in S : j <= k

\* A register that holds two values holds the last written of each; a palette
\* is at the address that was last given before it was loaded; and a matrix,
\* which is loaded in parts, has the words last written to each, and those it
\* began with where none was.  A colour and a konst are written through one
\* address, a palette in two writes that other commands come between.
RegistersHold ==
  /\ \A which \in (0..3) \X (0..1) :
       LET of == {k \in Writes(224 + 2 * which[1]) : IsKonst(done[k][3]) = which[2]}
       IN  bp.colour[which][1] = IF of = {} THEN 0 ELSE TevField(done[Latest(of)][3])
  /\ \A o \in Palettes :
       LET loads == {k \in Writes(101) : TmemOf(done[k][3]) = o}
           named == {k \in Writes(100) : k < Latest(loads)}
       IN  bp.tlut[o] = IF loads = {} \/ named = {} THEN Zero
                        ELSE AddressOf(done[Latest(named)][3])
  /\ \A c \in DOMAIN xf :
       LET loads == {k \in DOMAIN done : done[k][1] = "xf" /\ <<done[k][2], done[k][3]>> = c}
       IN  xf[c] = IF loads = {} THEN XfInit[c] ELSE done[Latest(loads)][4]
=============================================================================
