---------------------------- MODULE VertexFormat ----------------------------
(***************************************************************************)
(* How long a vertex is, and where its parts are: the attribute tables of  *)
(* runtime/gx/fifo.c and the decoder of runtime/gx/vertex.c.               *)
(*                                                                         *)
(* The parser takes the length of a draw from the size; the decoder reads  *)
(* the vertex on its own and reports what it used.  Where the two disagree *)
(* the primitive is dropped.  Numbers are left out: an attribute is where  *)
(* its bytes are, in the vertex or in an array element.                    *)
(***************************************************************************)
EXTENDS GuestMemory, SequencesExt

\* MgsGxAttr, in the order the fields of a vertex are packed.
PNMTXIDX == 0
TEX7MTXIDX == 8
POS == 9
NRM == 10
CLR0 == 11
CLR1 == 12
TEX0 == 13
Attrs == 0..20

None == 0
Direct == 1
Index8 == 2
Index16 == 3

\* vcd_kind: one bit for a matrix index, two for the rest.
Kind(vcd, a) ==
  CASE a <= TEX7MTXIDX -> Field(vcd.lo, a, 1)
    [] a \in POS..CLR1 -> Field(vcd.lo, 9 + 2 * (a - POS), 2)
    [] OTHER           -> Field(vcd.hi, 2 * (a - TEX0), 2)

\* Count, format and fraction of texture coordinate t: nine bits each, but
\* coordinate 4 has its fraction at the start of the next register.
TexFields(vat, t) ==
  LET at(w, s, f) == [count |-> 1 + Field(w, s, 1), format |-> Field(w, s + 1, 3),
                      shift |-> Field(f.w, f.s, 5)]
      after(w, s) == [w |-> w, s |-> s]
  IN  CASE t = 0      -> at(vat.a, 21, after(vat.a, 25))
        [] t \in 1..3 -> at(vat.b, 9 * (t - 1), after(vat.b, 9 * (t - 1) + 4))
        [] t = 4      -> at(vat.b, 27, after(vat.c, 0))
        [] OTHER      -> at(vat.c, 5 + 9 * (t - 5), after(vat.c, 9 + 9 * (t - 5)))

\* mgs_gx_vertex_format.
Format(vcd, vat) ==
  [kind |-> [a \in Attrs |-> Kind(vcd, a)],
   pos  |-> [count |-> 2 + Field(vat.a, 0, 1), format |-> Field(vat.a, 1, 3)],
   nrm  |-> [count |-> 1 + 2 * Field(vat.a, 9, 1), format |-> Field(vat.a, 10, 3),
             index3 |-> Field(vat.a, 31, 1) = 1],
   clr  |-> [c \in 0..1 |-> Field(vat.a, 14 + 4 * c, 3)],
   tex  |-> [t \in 0..7 |-> TexFields(vat, t)]]

\* comp_size, color_size: 0 for a format with no size we can claim to know.
CompSize(format) == CASE format \in {0, 1} -> 1 [] format \in {2, 3} -> 2
                      [] format = 4 -> 4 [] OTHER -> 0
ColorSize(format) == CASE format \in {0, 3} -> 2 [] format \in {1, 4} -> 3
                       [] format \in {2, 5} -> 4 [] OTHER -> 0

\* The bytes of attribute a given in the vertex itself.
DirectSize(f, a) ==
  CASE a <= TEX7MTXIDX   -> 1
    [] a = POS           -> CompSize(f.pos.format) * f.pos.count
    [] a = NRM           -> CompSize(f.nrm.format) * 3 * f.nrm.count
    [] a \in CLR0..CLR1  -> ColorSize(f.clr[a - CLR0])
    [] OTHER             -> CompSize(f.tex[a - TEX0].format) * f.tex[a - TEX0].count

IndexSize(kind) == IF kind = Index8 THEN 1 ELSE 2

\* What the size counts for attribute a.
Counted(f, a) ==
  LET k == f.kind[a]
  IN  CASE k = None   -> 0
        [] k = Direct -> DirectSize(f, a)
        [] OTHER      -> IndexSize(k) * (IF a = NRM /\ f.nrm.index3 THEN 3 ELSE 1)

\* mgs_gx_vertex_size: 0 refuses.
Size(f) ==
  IF \E a \in Attrs : f.kind[a] = Direct /\ DirectSize(f, a) = 0 THEN 0
  ELSE LET upTo[n \in 0..21] == IF n = 0 THEN 0 ELSE upTo[n - 1] + Counted(f, n - 1) IN upTo[21]

-----------------------------------------------------------------------------
(***************************************************************************)
(* mgs_gx_decode_vertex, over the bytes of one vertex.  A reader past the  *)
(* end gives zeros and stays where it is.                                  *)
(***************************************************************************)
AtMost(n, limit) == IF n < limit THEN n ELSE limit

Zero == <<0, 0, 0, 0>>
Register(cp, r) == IF r \in DOMAIN cp THEN cp[r] ELSE Zero

\* The array an attribute is fetched from: arrays have numbers of their own.
ArrayOf(a) == a - POS

\* Mutant: only where an element begins is looked at.
ElementStart(cp, array, n, size) ==
  LET base == Register(cp, 160 + array)
      stride == Register(cp, 176 + array)[4]
  IN  IF base = Zero \/ stride = 0 THEN Refused
      ELSE Place(Bytes(Number(base) + n * stride), 1)

\* array_element: element n of an array, when the array is set and it is in
\* memory.  cp gives the array's registers; an array is below 2^31.
Element(cp, array, n, size) ==
  LET base == Register(cp, 160 + array)
      stride == Register(cp, 176 + array)[4]
  IN  IF base = Zero \/ stride = 0 THEN Refused
      ELSE Place(Bytes(Number(base) + n * stride), size)

\* How many indices the vertex holds for attribute a.  A normal holds three
\* only when it is a normal and two binormals.
Indices(f, a) == IF a = NRM /\ f.nrm.index3 /\ f.nrm.count = 3 THEN 3 ELSE 1

\* Attribute a, whose bytes begin after `at`: the bytes themselves, or the
\* elements they name; the third of three normals is the third in its element.
Part(cp, f, a, bytes, at) ==
  LET k == f.kind[a]
      byte(i) == IF i <= Len(bytes) THEN bytes[i] ELSE 0
      w == IndexSize(k)
      index(j) == IF w = 1 THEN byte(at + j)
                  ELSE 256 * byte(at + 2 * j - 1) + byte(at + 2 * j)
  IN  IF k = Direct \/ a <= TEX7MTXIDX
      THEN <<a, [i \in 1..DirectSize(f, a) |-> byte(at + i)]>>
      ELSE <<a, [j \in 1..Indices(f, a) |->
                   Element(cp, ArrayOf(a), index(j),
                           (DirectSize(f, a) \div Indices(f, a)) * j)]>>

\* The bytes attribute a takes from the vertex.
Taken(f, a) ==
  LET k == f.kind[a]
  IN  CASE k = None -> 0
        [] k = Direct -> DirectSize(f, a)
        [] OTHER -> IndexSize(k) * Indices(f, a)

\* The whole vertex: the bytes used, and the parts.
Decode(cp, f, bytes) ==
  FoldLeft(LAMBDA v, j :
             IF f.kind[j - 1] = None THEN v
             ELSE [used  |-> AtMost(v.used + Taken(f, j - 1), Len(bytes)),
                   parts |-> Append(v.parts, Part(cp, f, j - 1, bytes, v.used))],
           [used |-> 0, parts |-> << >>], [j \in 1..21 |-> j])

\* The matrices of a vertex: for its position, and for texture coordinate t.
\* An index the vertex does not carry is in a register, six bits of it.
Matrix(cp, parts, a, reg, lo) ==
  LET own == SelectSeq(parts, LAMBDA p : p[1] = a)
  IN  IF own # << >> THEN own[1][2][1] ELSE Field(Register(cp, reg), lo, 6)

PosMatrix(cp, parts) == Matrix(cp, parts, PNMTXIDX, 48, 0)
TexMatrix(cp, parts, t) ==
  IF t < 4 THEN Matrix(cp, parts, 1 + t, 48, 6 + 6 * t)
           ELSE Matrix(cp, parts, 1 + t, 64, 6 * (t - 4))

(***************************************************************************)
(* Texture coordinates are generated from the position, the normal, a      *)
(* binormal or a coordinate of the vertex (rows 0, 1, 3 and 4, and 5 up),  *)
(* through a matrix of two rows or of three, and through a second one when *)
(* the unit is so set.  The colour row, and kinds other than the regular,  *)
(* leave the coordinate as it came.  xf is the transform unit's memory; no *)
(* matrix stands for the identity.                                         *)
(***************************************************************************)
Sources == {0, 1, 3, 4} \cup 5..12

TexGen(xf, cfg, row, info) ==
  LET n == IF Field(cfg, 1, 1) = 1 THEN 12 ELSE 8
      words(table, at, k) == [j \in 1..k |-> Register(xf, <<table, at + j - 1>>)]
      dual == Field(Register(xf, <<"dualtex", 0>>), 0, 1) = 1
      post == 4 * Field(info, 0, 6)
  IN  [source |-> Field(cfg, 7, 5), form |-> Field(cfg, 2, 1),
       matrix |-> IF row >= 60 \/ 4 * row + n > 256 THEN << >> ELSE words("matrix", 4 * row, n),
       dual   |-> dual,
       normal |-> dual /\ Field(info, 8, 1) = 1,
       post   |-> IF ~dual \/ post + 12 > 256 THEN << >> ELSE words("post", post, 12)]

\* The coordinates that are generated.
TexCoords(cp, xf, parts) ==
  LET n == AtMost(Field(Register(xf, <<"numtexgen", 0>>), 0, 4), 8)
      cfg(t) == Register(xf, <<"texgen", t>>)
      regular == {t \in 0..(n - 1) : Field(cfg(t), 4, 3) = 0 /\ Field(cfg(t), 7, 5) \in Sources}
  IN  [t \in regular |-> TexGen(xf, cfg(t), TexMatrix(cp, parts, t),
                                 Register(xf, <<"postinfo", t>>))]

\* What a vertex is when it reaches the rasteriser.
Vertex(cp, xf, parts) ==
  [parts |-> parts, matrix |-> PosMatrix(cp, parts), coords |-> TexCoords(cp, xf, parts)]
=============================================================================
