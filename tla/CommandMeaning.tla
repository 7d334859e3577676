-------------------------- MODULE CommandMeaning --------------------------
(***************************************************************************)
(* What a program means, and that the parser does it: the commands in      *)
(* order, a list's where it is called, with no bytes, no buffer and no     *)
(* calls in progress.                                                      *)
(***************************************************************************)
EXTENDS CommandStream

\* The triangles of n vertices.  Every second one of a strip is turned, so
\* that all face the same way; a quad is two; lines and points are none.
Shape(prim, n) ==
  CASE prim = 2 -> [k \in 1..(n \div 3) |-> <<3 * k - 2, 3 * k - 1, 3 * k>>]
    [] prim = 3 -> [k \in 1..(n - 2) |-> IF k % 2 = 1 THEN <<k, k + 1, k + 2>>
                                                       ELSE <<k + 1, k, k + 2>>]
    [] prim = 4 -> [k \in 1..(n - 2) |-> <<1, k + 1, k + 2>>]
    [] prim \in {0, 1} -> FlattenSeq([q \in 1..(n \div 4) |->
                            << <<4 * q - 3, 4 * q - 2, 4 * q - 1>>,
                               <<4 * q - 3, 4 * q - 1, 4 * q>> >>])
    [] OTHER -> << >>

\* What a program does, from `start` and inside `depth` lists: every command in
\* order, a list's where it is called.
RECURSIVE Meaning(_, _, _)
Meaning(prog, start, depth) ==
  LET step(m, c) ==
        CASE c.op = "cp" -> [m EXCEPT !.regs = CpWrite(@, c.reg, c.word)]
          [] c.op = "xf" ->
               LET w == XfWrites(c.addr, c.words)
               IN  [m EXCEPT !.done = @ \o w, !.xf = XfAfter(@, w)]
          [] c.op = "indx" ->
               LET from == Element(m.regs, c.array, c.index, 4 * c.count)
                   words == [i \in 1..c.count |-> <<from[1], from[2] + 4 * (i - 1)>>]
                   w == XfWrites(c.addr, words)
               IN  IF from = Refused THEN m
                   ELSE [m EXCEPT !.done = @ \o w, !.xf = XfAfter(@, w)]
          [] c.op = "bp" -> [m EXCEPT !.done = Append(@, <<"bp", c.reg, c.val>>)]
          [] c.op = "draw" ->
               LET f == Format(Vcd(m.regs), Vat(m.regs, c.vat))
                   vertex(i) == Vertex(m.regs, m.xf, Decode(m.regs, f, c.verts[i]).parts)
                   corner(t) == <<vertex(t[1]), vertex(t[2]), vertex(t[3])>>
                   shape == Shape(c.prim, Len(c.verts))
               IN  [m EXCEPT !.done = @ \o [k \in DOMAIN shape |-> <<"tri", corner(shape[k])>>]]
          [] c.op = "call" /\ depth < DlDepth /\ Unit(c.addr) \in DOMAIN Lists /\ c.size > 0 ->
               LET inner == Meaning(Lists[Unit(c.addr)], [m EXCEPT !.done = << >>], depth + 1)
               IN  [inner EXCEPT !.done = m.done \o @]
          [] OTHER -> m
  IN  FoldLeft(step, start, prog)

AtInit == [regs |-> NoRegs, xf |-> XfInit, done |-> << >>]

-----------------------------------------------------------------------------
\* The program holds nothing but commands, each of which fits the buffer, and
\* its lists are called with the size they were recorded with.
RECURSIVE Sound(_, _)
Sound(prog, depth) ==
  \A i \in DOMAIN prog :
    LET c == prog[i]
    IN  /\ c.op # "raw" /\ Len(Encode(c)) <= BufLen + 1
        /\ c.op = "call" /\ depth < DlDepth =>
             LET unit == Unit(c.addr)
             IN  /\ unit \in DOMAIN Lists
                 /\ c.size \in {0, Len(EncodeAll(Lists[unit])),
                                67108864 + Len(EncodeAll(Lists[unit]))}
                 /\ Sound(Lists[unit], depth + 1)

\* The commands the parser has been given whole.
Given == {k \in 0..Len(program) : Len(EncodeAll(SubSeq(program, 1, k))) <= fed}
Delivered == SubSeq(program, 1, CHOOSE k \in Given : \A j \in Given : j <= k)

\* Whenever a write has been parsed, what was done is what the commands given
\* so far mean, and the registers are as they leave them; and the stream was
\* never lost.  However the stream is cut into writes, with draws that are
\* sized by earlier commands and lists that call lists.  A program that has
\* been told to stop is not followed.
AsWritten ==
  ~quit /\ feeds = << >> /\ Sound(program, 0) =>
    LET m == Meaning(Delivered, AtInit, 0)
    IN  done = m.done /\ cp = m.regs /\ xf = m.xf /\ desyncs = << >>

\* fifo.c, of a run of vertices longer than the buffer: "Dropped rather than
\* mis-parsed, and counted so it is visible."  What follows it is then done as
\* written.  It is not: only the bytes so far are dropped.
\* The code does not keep it, and no run checks it: README, section 6.
LongRunDropped ==
  ~quit /\ feeds = << >> /\ fed = Len(Stream) =>
    LET fits(c) == Len(Encode(c)) <= BufLen + 1
    IN  done = Meaning(SelectSeq(program, fits), AtInit, 0).done
=============================================================================
