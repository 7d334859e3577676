-------------------------- MODULE MCCommandStream --------------------------
(***************************************************************************)
(* Programs for the model checker: each of a few commands in a row that    *)
(* matter to each other.                                                   *)
(***************************************************************************)
EXTENDS CommandMeaning, TLC

Cp(reg, word) == [op |-> "cp", reg |-> reg, word |-> word]
Xf(addr, words) == [op |-> "xf", addr |-> addr, words |-> words]
Indx(array, index, count, addr) ==
  [op |-> "indx", array |-> array, index |-> index, count |-> count, addr |-> addr]
Call(addr, size) == [op |-> "call", addr |-> addr, size |-> size]
Bp(reg, val) == [op |-> "bp", reg |-> reg, val |-> val]
Nop == [op |-> "nop"]
Invl == [op |-> "invl"]
Raw(bytes) == [op |-> "raw", bytes |-> bytes]

\* A position of one byte index: vcd 2 << 9.
IndexedPos == Cp(80, <<0, 0, 4, 0>>)
\* A position of two bytes: direct, u8, x and y; and format 1 of three.
DirectPos == Cp(80, <<0, 0, 2, 0>>)
Vat1Three == Cp(113, <<0, 0, 0, 1>>)

\* n vertices of `size` bytes, no two the same.
Verts(n, size) == [i \in 1..n |-> [b \in 1..size |-> 10 * i + b]]
Drawn(prim, vat, n, size) == [op |-> "draw", prim |-> prim, vat |-> vat, verts |-> Verts(n, size)]

\* Lists: in MEM1 and in the second window.  The second calls the first, the
\* third calls itself.
First == <<128, 0, 0, 32>>
Second == <<127, 0, 0, 64>>
Self == <<128, 0, 0, 96>>
MCLists ==
  (First :> <<DirectPos, Drawn(2, 0, 3, 2)>>) @@
  (Second :> <<Bp(69, 2), Call(First, 18), Bp(82, 1)>>) @@
  (Self :> <<Bp(69, 2), Call(Self, 14)>>)

Primitives ==
  {<<DirectPos, Drawn(p, 0, n, 2), Bp(69, 2)>> : p \in {0, 2, 3, 4, 5}, n \in {0, 5, 8}}

\* Vertices of every kind of attribute, in formats of the attribute table: the
\* two low bytes of the descriptor, its high byte, the table's first word, and
\* the size the fields add up to.
Formats ==
  {<<Cp(80, <<0, 0, v.lo, 0>>), Cp(96, <<0, 0, 0, v.hi>>), Cp(112, v.a), Drawn(2, 0, 3, v.size)>> :
     v \in {\* s16 x, y, z; a normal of s8; 
            [lo |-> 10, hi |-> 0, a |-> <<0, 0, 4, 7>>, size |-> 9],
            \* indexed by two bytes; three indices to normals
            [lo |-> 22, hi |-> 0, a |-> <<128, 0, 2, 0>>, size |-> 5],
            \* a colour rgb565, and two coordinates, one direct one indexed
            [lo |-> 34, hi |-> 9, a |-> <<0, 32, 0, 0>>, size |-> 7]}}

ListPrograms ==
  {<<DirectPos, Call(c[1], c[2]), Bp(69, 2)>> :
     c \in {<<First, 18>>, <<[First EXCEPT ![4] = 39], 18>>, <<Second, 19>>,
            <<Second, 67108864 + 19>>, <<Self, 14>>, <<First, 0>>,
            <<First, 67108864 + 18>>, <<First, 10>>, <<<<1, 255, 255, 255>>, 18>>}}

Loads ==
  {<<Cp(172, <<0, 0, 1, 0>>), Cp(188, s), Indx(12, 3, 2, x % 4096), Xf(x, <<<<1, 2, 3, 4>>, <<5, 6, 7, 8>>>>)>> :
     s \in {<<0, 0, 0, 8>>, Zero}, x \in {0, 255, 1119, 1279, 4127, 4133, 4160, 4176}}
  \* Elements at the end of each block of memory: four words from the third on
  \* are the last there are, and the fourth has two.
  \cup {<<Cp(172, b), Cp(188, <<0, 0, 0, 8>>), Indx(12, k, n, 0)>> :
          b \in {<<1, 127, 255, 224>>, <<127, 255, 255, 224>>}, n \in 3..4, k \in 2..3}

Palette(a, o) == <<Bp(100, a), Bp(101, o)>>
Blits ==
  {<<Bp(r, v), Bp(r, w), Bp(r + 1, v)>> : r \in {224}, v \in {1029, 8388608 + 7}, w \in {2047, 8388608 + 1}}
  \cup {<<Bp(100, a), Bp(101, 5), Bp(100, b), Bp(101, o)>> : a \in {65536}, b \in {1048576 + 3}, o \in {5, 6}}

\* Draws of two formats, and a format changed between two draws.
Changing ==
  {<<DirectPos, Vat1Three, Drawn(3, v, 3, 2 + v), Cp(112, <<0, 0, 0, w>>), Drawn(2, 0, 3, 2 + w)>> :
     v \in 0..1, w \in 0..1}
  \cup {<<IndexedPos, Cp(160, <<0, 0, 2, 0>>), Cp(176, <<0, 0, 0, s>>), Invl, Drawn(2, 0, 3, 1), Nop>> :
          s \in {0, 6}}

\* Coordinates generated: the count, the sources, the matrix, then a vertex that
\* names its matrix or leaves it to the register; and a matrix changed between
\* two draws, by an indexed load too.
Generated ==
  {<<DirectPos, Cp(48, <<0, 0, 4, 192>>), Xf(4159, << <<0, 0, 0, c[1]>> >>),
     Xf(4160, << <<0, 0, c[2], c[3]>>, <<0, 0, 2, 128>> >>),
     Xf(76, << <<7, 7, 7, 7>>, <<8, 8, 8, 8>> >>), Drawn(2, 0, 3, 2)>> :
     c \in {<<1, 0, 0>>, <<2, 1, 2>>, <<2, 1, 16>>, <<12, 6, 134>>}}
  \cup {<<Cp(80, <<0, 0, 2, 3>>), Xf(4114, << <<0, 0, 0, 1>> >>), Xf(4159, << <<0, 0, 0, 1>> >>),
          Xf(4176, << <<0, 0, 1, p>> >>), Xf(4160, << <<0, 0, 0, 2>> >>), Drawn(2, 0, 3, 4),
          Cp(172, <<0, 0, 1, 0>>), Cp(188, <<0, 0, 0, 8>>), Indx(12, 3, 2, 84), Drawn(2, 0, 3, 4)>> :
          p \in {62}}

\* Streams that are not all commands.
Garbled == {<<Raw(<<1>>), Bp(69, 2), Bp(69, 2)>>, <<Cp(80, <<0, 0, 2, 0>>), Cp(112, <<0, 0, 0, 10>>),
                                                     Raw(<<128, 0, 1>>), Bp(69, 2)>>}

MCPrograms == Primitives \cup Formats \cup ListPrograms \cup Loads \cup Blits \cup Generated \cup Changing \cup Garbled

\* A run of vertices longer than the buffer; a coordinate of 97 is also the
\* opcode of a register load, and 82 the register that starts a copy.
LongRuns ==
  {<<DirectPos, [op |-> "draw", prim |-> 3, vat |-> 0, verts |-> [i \in 1..12 |-> <<97, 82>>]],
     Bp(69, 2)>>}
=============================================================================
