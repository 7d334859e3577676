--------------------------- MODULE GraphicsProofs ---------------------------
(***************************************************************************)
(* What is proved of the graphics processor: of the parser of its command  *)
(* stream, and of the textures a triangle is drawn with.                   *)
(*                                                                         *)
(* StreamInv and RegistersHold, from IStreamInv: a command in hand is      *)
(* shorter than its length, or too short to tell it, and a length that is  *)
(* known is one its command may have, so that no handler reads past the    *)
(* body it is given; each register holds what the last of its own writes   *)
(* in what was done says.  A step only adds to what was done, so each of   *)
(* them is kept by the steps that add no write of that register and set by *)
(* the one that does.                                                      *)
(*                                                                         *)
(* MemoSafe, from ICacheInv: the slots the memo names are the last ones of *)
(* the order they were used in, and the memo is shorter than the cache, so *)
(* the slot that is taken again, the first of that order, is none of them. *)
(* A slot a triangle binds is one of the memo's, or the last, and each map *)
(* bound after it moves it up by one: what room there is for the maps of a *)
(* triangle keeps it from being the first before the triangle is made.     *)
(***************************************************************************)
EXTENDS CommandStream, Renderer, FiniteSetTheorems, SequenceTheorems, WellFoundedInduction, TLAPS

-----------------------------------------------------------------------------
\* A set of numbers that is not empty has a least one.
LEMMA LeastIn ==
  ASSUME NEW S, S \subseteq Nat, S # {}
  PROVE  Min(S) \in S /\ \A y \in S : Min(S) <= y
<1> DEFINE R == OpToRel(<, Nat)
<1>1. \A x, y \in Nat : <<x, y>> \in R <=> x < y BY DEF OpToRel
<1>2. IsWellFoundedOn(R, Nat) BY NatLessThanWellFounded
<1> HIDE DEF R
<1>3. PICK x \in S : \A y \in S : ~ (<<y, x>> \in R) BY <1>2, WFMin
<1>4. \A y \in S : ~(y < x) BY <1>1, <1>3
<1>5. \A y \in S : x <= y BY <1>4
<1> QED BY <1>5 DEF Min

-----------------------------------------------------------------------------
(* Numbers of words *)

LEMMA Powers == \A k \in 0..31 : 2^k \in Nat \ {0}
<1> SUFFICES ASSUME NEW k \in 0..31 PROVE 2^k \in Nat \ {0} OBVIOUS
<1>1. CASE k \in 0..7
  <2>1. /\ 2^0 \in Nat \ {0} /\ 2^1 \in Nat \ {0} /\ 2^2 \in Nat \ {0} /\ 2^3 \in Nat \ {0}
        /\ 2^4 \in Nat \ {0} /\ 2^5 \in Nat \ {0} /\ 2^6 \in Nat \ {0} /\ 2^7 \in Nat \ {0}
    OBVIOUS
  <2>2. k = 0 \/ k = 1 \/ k = 2 \/ k = 3 \/ k = 4 \/ k = 5 \/ k = 6 \/ k = 7 BY <1>1
  <2> QED BY <2>1, <2>2
<1>2. CASE k \in 8..15
  <2>1. /\ 2^8 \in Nat \ {0} /\ 2^9 \in Nat \ {0} /\ 2^10 \in Nat \ {0} /\ 2^11 \in Nat \ {0}
        /\ 2^12 \in Nat \ {0} /\ 2^13 \in Nat \ {0} /\ 2^14 \in Nat \ {0} /\ 2^15 \in Nat \ {0}
    OBVIOUS
  <2>2. k = 8 \/ k = 9 \/ k = 10 \/ k = 11 \/ k = 12 \/ k = 13 \/ k = 14 \/ k = 15 BY <1>2
  <2> QED BY <2>1, <2>2
<1>3. CASE k \in 16..23
  <2>1. /\ 2^16 \in Nat \ {0} /\ 2^17 \in Nat \ {0} /\ 2^18 \in Nat \ {0} /\ 2^19 \in Nat \ {0}
        /\ 2^20 \in Nat \ {0} /\ 2^21 \in Nat \ {0} /\ 2^22 \in Nat \ {0} /\ 2^23 \in Nat \ {0}
    OBVIOUS
  <2>2. k = 16 \/ k = 17 \/ k = 18 \/ k = 19 \/ k = 20 \/ k = 21 \/ k = 22 \/ k = 23 BY <1>3
  <2> QED BY <2>1, <2>2
<1>4. CASE k \in 24..31
  <2>1. /\ 2^24 \in Nat \ {0} /\ 2^25 \in Nat \ {0} /\ 2^26 \in Nat \ {0} /\ 2^27 \in Nat \ {0}
        /\ 2^28 \in Nat \ {0} /\ 2^29 \in Nat \ {0} /\ 2^30 \in Nat \ {0} /\ 2^31 \in Nat \ {0}
    OBVIOUS
  <2>2. k = 24 \/ k = 25 \/ k = 26 \/ k = 27 \/ k = 28 \/ k = 29 \/ k = 30 \/ k = 31 BY <1>4
  <2> QED BY <2>1, <2>2
<1> QED BY <1>1, <1>2, <1>3, <1>4

LEMMA SmallSums ==
  ASSUME NEW c \in Nat, NEW n \in Nat, NEW i \in Nat, NEW d \in Nat,
         NEW l, l = c + 1, NEW m, m = n - d + 1
  PROVE  l - m + i = c - n + (i + d)
OBVIOUS

LEMMA FieldNat ==
  ASSUME NEW w \in Word, NEW lo \in 0..31, NEW n \in 0..31
  PROVE  Field(w, lo, n) \in Nat
<1>1. w[1] \in Nat /\ w[2] \in Nat /\ w[3] \in Nat /\ w[4] \in Nat BY DEF Word, Byte
<1>2. PICK p : p = 2^n OBVIOUS
<1>3. p \in Nat \ {0} BY <1>2, Powers
<1>4. CASE lo >= 8
  <2>1. PICK q : q = 2^(lo - 8) OBVIOUS
  <2>2. lo - 8 \in 0..31 BY <1>4
  <2>3. q \in Nat \ {0} BY <2>1, <2>2, Powers
  <2>4. PICK u : u = (w[1] * 256 + w[2]) * 256 + w[3] OBVIOUS
  <2>5. u \in Nat BY <1>1, <2>4
  <2>6. Field(w, lo, n) = (u \div q) % p BY <1>2, <1>4, <2>1, <2>4 DEF Field
  <2>7. u \div q \in Nat BY <2>3, <2>5
  <2> QED BY <1>3, <2>6, <2>7
<1>5. CASE ~(lo >= 8)
  <2>1. PICK q : q = 2^lo OBVIOUS
  <2>3. q \in Nat \ {0} BY <2>1, Powers
  <2>4. PICK u : u = (w[2] * 256 + w[3]) * 256 + w[4] OBVIOUS
  <2>5. u \in Nat BY <1>1, <2>4
  <2>6. Field(w, lo, n) = (u \div q) % p BY <1>2, <1>5, <2>1, <2>4 DEF Field
  <2>7. u \div q \in Nat BY <2>3, <2>5
  <2> QED BY <1>3, <2>6, <2>7
<1> QED BY <1>4, <1>5

-----------------------------------------------------------------------------
(* The size of a vertex *)

\* A format whose components are counted.
Counts(f) ==
  /\ f.pos.count \in Nat /\ f.nrm.count \in Nat
  /\ \A t \in 0..7 : f.tex[t].count \in Nat

LEMMA FormatCounts ==
  ASSUME NEW vcd, NEW vat, vat.a \in Word, vat.b \in Word, vat.c \in Word
  PROVE  Counts(Format(vcd, vat))
<1>1. PICK f : f = Format(vcd, vat) OBVIOUS
<1>2. f.pos.count = 2 + Field(vat.a, 0, 1) /\ f.nrm.count = 1 + 2 * Field(vat.a, 9, 1) BY <1>1 DEF Format
<1>3. Field(vat.a, 0, 1) \in Nat /\ Field(vat.a, 9, 1) \in Nat BY FieldNat
<1>4. ASSUME NEW t \in 0..7 PROVE f.tex[t].count \in Nat
  <2>1. f.tex[t] = TexFields(vat, t) BY <1>1 DEF Format
  <2>2. CASE t = 0
    <3>1. TexFields(vat, t).count = 1 + Field(vat.a, 21, 1) BY <2>2 DEF TexFields
    <3>2. Field(vat.a, 21, 1) \in Nat BY FieldNat
    <3> QED BY <2>1, <3>1, <3>2
  <2>3. CASE t \in 1..3
    <3>1. TexFields(vat, t).count = 1 + Field(vat.b, 9 * (t - 1), 1) BY <2>3 DEF TexFields
    <3>2. 9 * (t - 1) \in 0..31 BY <2>3
    <3>3. Field(vat.b, 9 * (t - 1), 1) \in Nat BY <3>2, FieldNat
    <3> QED BY <2>1, <3>1, <3>3
  <2>4. CASE t = 4
    <3>1. TexFields(vat, t).count = 1 + Field(vat.b, 27, 1) BY <2>4 DEF TexFields
    <3>2. Field(vat.b, 27, 1) \in Nat BY FieldNat
    <3> QED BY <2>1, <3>1, <3>2
  <2>5. CASE t \in 5..7
    <3>1. TexFields(vat, t).count = 1 + Field(vat.c, 5 + 9 * (t - 5), 1) BY <2>5 DEF TexFields
    <3>2. 5 + 9 * (t - 5) \in 0..31 BY <2>5
    <3>3. Field(vat.c, 5 + 9 * (t - 5), 1) \in Nat BY <3>2, FieldNat
    <3> QED BY <2>1, <3>1, <3>3
  <2> QED BY <2>2, <2>3, <2>4, <2>5
<1> QED BY <1>1, <1>2, <1>3, <1>4 DEF Counts

LEMMA CountedNat ==
  ASSUME NEW f, Counts(f), NEW a \in 0..20
  PROVE  Counted(f, a) \in Nat
<1>1. \A x : CompSize(x) \in Nat /\ ColorSize(x) \in Nat BY DEF CompSize, ColorSize
<1>2. DirectSize(f, a) \in Nat
  <2>0. POS = 9 /\ NRM = 10 /\ CLR0 = 11 /\ CLR1 = 12 /\ TEX0 = 13 /\ TEX7MTXIDX = 8
    BY DEF POS, NRM, CLR0, CLR1, TEX0, TEX7MTXIDX
  <2>1. CASE a <= 8 BY <2>0, <2>1 DEF DirectSize
  <2>2. CASE a = 9
    <3>1. DirectSize(f, a) = CompSize(f.pos.format) * f.pos.count BY <2>0, <2>2 DEF DirectSize
    <3>2. CompSize(f.pos.format) \in Nat /\ f.pos.count \in Nat BY <1>1 DEF Counts
    <3> QED BY <3>1, <3>2
  <2>3. CASE a = 10
    <3>1. DirectSize(f, a) = CompSize(f.nrm.format) * 3 * f.nrm.count BY <2>0, <2>3 DEF DirectSize
    <3>2. CompSize(f.nrm.format) \in Nat /\ f.nrm.count \in Nat BY <1>1 DEF Counts
    <3> QED BY <3>1, <3>2
  <2>4. CASE a \in 11..12
    <3>1. DirectSize(f, a) = ColorSize(f.clr[a - CLR0]) BY <2>0, <2>4 DEF DirectSize
    <3> QED BY <1>1, <3>1, Zenon
  <2>5. CASE a \in 13..20
    <3>1. DirectSize(f, a) = CompSize(f.tex[a - TEX0].format) * f.tex[a - TEX0].count
      BY <2>0, <2>5 DEF DirectSize
    <3>2. a - TEX0 \in 0..7 BY <2>0, <2>5
    <3>3. CompSize(f.tex[a - TEX0].format) \in Nat /\ f.tex[a - TEX0].count \in Nat BY <1>1, <3>2 DEF Counts
    <3> QED BY <3>1, <3>3
  <2> QED BY <2>1, <2>2, <2>3, <2>4, <2>5
<1>3. IndexSize(f.kind[a]) \in Nat BY DEF IndexSize
<1>4. \/ Counted(f, a) = 0 \/ Counted(f, a) = DirectSize(f, a)
      \/ Counted(f, a) = IndexSize(f.kind[a]) * 3 \/ Counted(f, a) = IndexSize(f.kind[a]) * 1
  BY DEF Counted
<1> QED BY <1>2, <1>3, <1>4

\* Sums of the first numbers of c, as long as wanted.
Sums(c, n, f) == f = [k \in 0..n |-> IF k = 0 THEN 0 ELSE f[k - 1] + c[k - 1]]

LEMMA SumsExist ==
  ASSUME NEW c
  PROVE  \A n \in Nat : \E f : Sums(c, n, f)
<1> DEFINE none == {n \in Nat : ~\E f : Sums(c, n, f)}
<1> SUFFICES ASSUME none # {} PROVE FALSE OBVIOUS
<1>1. Min(none) \in none /\ \A y \in none : Min(none) <= y BY LeastIn
<1>2. PICK n \in Nat : n \in none /\ \A y \in none : n <= y BY <1>1
<1>3. CASE n = 0
  <2>1. PICK f : f = [k \in 0..n |-> 0] OBVIOUS
  <2>2. \A k \in 0..n : k = 0 BY <1>3
  <2>3. f = [k \in 0..n |-> IF k = 0 THEN 0 ELSE f[k - 1] + c[k - 1]] BY <2>1, <2>2
  <2> QED BY <1>2, <2>3 DEF Sums
<1>4. CASE n # 0
  <2>1. n - 1 \in Nat /\ n - 1 \notin none BY <1>2, <1>4
  <2>2. PICK g : Sums(c, n - 1, g) BY <2>1
  <2>3. PICK f : f = [k \in 0..n |-> IF k = n THEN g[n - 1] + c[n - 1] ELSE g[k]] OBVIOUS
  <2>4. \A k \in 0..n - 1 : g[k] = IF k = 0 THEN 0 ELSE g[k - 1] + c[k - 1] BY <2>2 DEF Sums
  <2>5. ASSUME NEW k \in 0..n PROVE f[k] = IF k = 0 THEN 0 ELSE f[k - 1] + c[k - 1]
    <3>1. CASE k = n
      <4>1. n - 1 \in 0..n /\ n - 1 # n BY <1>4
      <4> QED BY <1>4, <2>3, <3>1, <4>1
    <3>2. CASE k # n
      <4>1. k \in 0..n - 1 BY <3>2
      <4>2. k # 0 => k - 1 \in 0..n /\ k - 1 # n BY <4>1
      <4> QED BY <2>3, <2>4, <3>2, <4>1, <4>2
    <3> QED BY <3>1, <3>2
  <2>6. f = [k \in 0..n |-> f[k]] BY <2>3
  <2>7. f = [k \in 0..n |-> IF k = 0 THEN 0 ELSE f[k - 1] + c[k - 1]] BY <2>5, <2>6
  <2> QED BY <1>2, <2>7 DEF Sums
<1> QED BY <1>3, <1>4

LEMMA SumsNat ==
  ASSUME NEW c, NEW n \in Nat, \A k \in 0..n : c[k] \in Nat, NEW f, Sums(c, n, f)
  PROVE  \A k \in 0..n : f[k] \in Nat
<1> DEFINE bad == {k \in 0..n : f[k] \notin Nat}
<1> SUFFICES ASSUME bad # {} PROVE FALSE OBVIOUS
<1>1. bad \subseteq Nat OBVIOUS
<1>2. Min(bad) \in bad /\ \A y \in bad : Min(bad) <= y BY <1>1, LeastIn
<1>3. PICK k \in 0..n : f[k] \notin Nat /\ \A y \in bad : k <= y BY <1>2
<1>4. f[k] = IF k = 0 THEN 0 ELSE f[k - 1] + c[k - 1] BY DEF Sums
<1>5. k # 0 /\ k - 1 \in 0..n BY <1>3, <1>4
<1>6. f[k - 1] \in Nat BY <1>3, <1>5
<1> QED BY <1>3, <1>4, <1>5, <1>6

LEMMA SizeNat ==
  ASSUME NEW f, Counts(f)
  PROVE  Size(f) \in Nat
<1> DEFINE c == [k \in 0..21 |-> IF k <= 20 THEN Counted(f, k) ELSE 0]
           G(g) == [n \in 0..21 |-> IF n = 0 THEN 0 ELSE g[n - 1] + Counted(f, n - 1)]
           u == CHOOSE g : g = G(g)
<1>1. \A g : G(g) = [k \in 0..21 |-> IF k = 0 THEN 0 ELSE g[k - 1] + c[k - 1]]
  <2> SUFFICES ASSUME NEW g, NEW k \in 0..21
               PROVE  (IF k = 0 THEN 0 ELSE g[k - 1] + Counted(f, k - 1)) = IF k = 0 THEN 0 ELSE g[k - 1] + c[k - 1]
    OBVIOUS
  <2>1. k # 0 => k - 1 \in 0..21 /\ k - 1 <= 20 OBVIOUS
  <2> QED BY <2>1
<1>2. \A k \in 0..21 : c[k] \in Nat
  <2> SUFFICES ASSUME NEW k \in 0..21 PROVE c[k] \in Nat OBVIOUS
  <2>1. k <= 20 => Counted(f, k) \in Nat BY CountedNat
  <2> QED BY <2>1
<1>3. Size(f) = 0 \/ Size(f) = u[21] BY DEF Size
<1> HIDE DEF c
<1>4. \E g : Sums(c, 21, g) BY SumsExist
<1>5. \E g : g = G(g) BY <1>1, <1>4 DEF Sums
<1>6. u = G(u)
  <2> HIDE DEF G
  <2> QED BY <1>5, Zenon
<1> HIDE DEF u
<1>7. Sums(c, 21, u) BY <1>1, <1>6 DEF Sums
<1>8. \A k \in 0..21 : u[k] \in Nat BY <1>2, <1>7, SumsNat, Zenon
<1> QED BY <1>3, <1>8
-----------------------------------------------------------------------------
(***************************************************************************)
(* The invariant.  Between two bytes the parser has the opcode of a        *)
(* command and the first bytes of it: fewer than its length, when that is  *)
(* known, and otherwise too few to tell it.  A length that is known is     *)
(* long enough for the bytes its command is carried out from.              *)
(***************************************************************************)
\* n bytes of a command are too few to tell its length.
Short(op, n) == \/ op = LOAD_XF /\ n < 4
                \/ op \in DRAW /\ n < 2

\* The length of a load is found from its second byte.
XfSize(len, body) == Len(body) >= 4 /\ len = 4 + 4 * ((body[2] % 16) + 1)

ParserInv ==
  /\ parser = [opcode |-> parser.opcode, buf |-> parser.buf, want |-> parser.want]
  /\ parser.opcode \in Byte /\ parser.buf \in Seq(Byte) /\ parser.want \in Nat
  /\ Len(parser.buf) < BufLen
  /\ parser.want > 1 => Len(parser.buf) < parser.want /\ Fits(parser.opcode, parser.want)
  /\ parser.want > 1 /\ parser.opcode = LOAD_XF => XfSize(parser.want, parser.buf)
  /\ parser.want = 1 => parser.buf = << >> \/ Short(parser.opcode, Len(parser.buf))
  /\ parser.want = 0 => parser.buf = << >>

FeedsInv ==
  /\ program \in Programs /\ fed \in 0..Len(Stream)
  /\ feeds \in Seq(Seq(Byte)) /\ Len(feeds) <= DlDepth + 1

CpInv ==
  /\ DOMAIN cp \subseteq CpRegs
  /\ \A r \in DOMAIN cp : cp[r] \in Word

\* A sequence, of whatever there is.
IsSequence(s) == \E S : s \in Seq(S)

\* Where a word of the transform unit's memory may be, and when it was written.
Cells == {<<t.name, i>> : t \in XfTables, i \in 0..255}
XfLoads(c) == {k \in DOMAIN done : done[k][1] = "xf" /\ <<done[k][2], done[k][3]>> = c}

IsPaletteMap(t) == t = [o \in Palettes |-> t[o]]
IsColourMap(c) ==
  /\ c = [which \in (0..3) \X (0..1) |-> c[which]]
  /\ \A which \in (0..3) \X (0..1) : c[which] = [i \in 1..4 |-> c[which][i]]

BpShape ==
  /\ bp = [tlut |-> bp.tlut, pending |-> bp.pending, colour |-> bp.colour, tokens |-> bp.tokens]
  /\ bp.tlut = [o \in Palettes |-> bp.tlut[o]]
  /\ bp.colour = [which \in (0..3) \X (0..1) |-> bp.colour[which]]
  /\ \A which \in (0..3) \X (0..1) : bp.colour[which] = [i \in 1..4 |-> bp.colour[which][i]]

\* The address last given for a palette is kept until one is loaded.
PendingHolds ==
  bp.pending = IF Writes(100) = {} THEN Zero ELSE AddressOf(done[Latest(Writes(100))][3])

\* RegistersHold, register by register.
ColourWrites(which) == {k \in Writes(224 + 2 * which[1]) : IsKonst(done[k][3]) = which[2]}
ColourHolds(which) ==
  bp.colour[which][1] = IF ColourWrites(which) = {} THEN 0
                        ELSE TevField(done[Latest(ColourWrites(which))][3])
PaletteLoads(o) == {k \in Writes(101) : TmemOf(done[k][3]) = o}
Named(o) == {k \in Writes(100) : k < Latest(PaletteLoads(o))}
PaletteHolds(o) ==
  bp.tlut[o] = IF PaletteLoads(o) = {} \/ Named(o) = {} THEN Zero
               ELSE AddressOf(done[Latest(Named(o))][3])
CellHolds(c) == xf[c] = IF XfLoads(c) = {} THEN XfInit[c] ELSE done[Latest(XfLoads(c))][4]

BpRegs ==
  /\ BpShape
  /\ PendingHolds
  /\ \A which \in (0..3) \X (0..1) : ColourHolds(which)
  /\ \A o \in Palettes : PaletteHolds(o)

XfRegs == DOMAIN xf \subseteq Cells /\ \A c \in DOMAIN xf : CellHolds(c)

\* Every word that was loaded is one the stream gave, or whole in memory.
LoadsWhole == \A k \in DOMAIN done : done[k][1] = "xf" => done[k][4] \in XfWord

RegsInv == IsSequence(done) /\ BpRegs /\ XfRegs /\ LoadsWhole

IStreamInv == FeedsInv /\ ParserInv /\ CpInv /\ RegsInv /\ quit \in BOOLEAN

-----------------------------------------------------------------------------
(* Lengths *)

LEMMA OpcodeNumbers ==
  /\ LOAD_CP = 8 /\ LOAD_XF = 16 /\ LOAD_INDX = {32, 40, 48, 56} /\ CALL_DL = 64
  /\ LOAD_BP = 97 /\ DRAW = 128..191 /\ NeedMore = -1
BY DEF LOAD_CP, LOAD_XF, LOAD_INDX, CALL_DL, LOAD_BP, DRAW, NeedMore

LEMMA ZeroWord == Zero \in Word
BY DEF Zero, Word, Byte

LEMMA RegisterWord ==
  ASSUME CpInv, NEW r
  PROVE  Register(cp, r) \in Word
BY ZeroWord DEF CpInv, Register

\* A vertex of a format that the registers give has a size.
LEMMA VertexSize ==
  ASSUME CpInv, NEW op \in DRAW
  PROVE  Size(Format(Vcd(cp), Vat(cp, op % 8))) \in Nat
<1>1. PICK n : n = op % 8 OBVIOUS
<1>2. PICK vat : vat = Vat(cp, n) OBVIOUS
<1>3. vat.a = Register(cp, 112 + n) /\ vat.b = Register(cp, 128 + n) /\ vat.c = Register(cp, 144 + n)
  BY <1>2 DEF Vat
<1>4. vat.a \in Word /\ vat.b \in Word /\ vat.c \in Word BY <1>3, RegisterWord
<1>5. Counts(Format(Vcd(cp), vat)) BY <1>4, FormatCounts
<1> QED BY <1>1, <1>2, <1>5, SizeNat

LEMMA ByteOf ==
  ASSUME NEW s \in Seq(Byte), NEW i \in 1..Len(s)
  PROVE  s[i] \in Byte /\ s[i] \in Nat /\ s[i] <= 255
<1>1. s[i] \in Byte OBVIOUS
<1>2. \A b \in Byte : b \in Nat /\ b <= 255 BY DEF Byte
<1> QED BY <1>1, <1>2

\* A length is not known, or is none, or is one that fits.
LEMMA LengthFits ==
  ASSUME CpInv, NEW op \in Byte, NEW body \in Seq(Byte)
  PROVE  /\ Length(op, body) \in Nat \cup {NeedMore}
         /\ Length(op, body) = NeedMore => Short(op, Len(body))
         /\ Length(op, body) \notin {NeedMore, 0} =>
              /\ Fits(op, Length(op, body)) /\ ~Short(op, Len(body))
              /\ Length(op, body) >= 2
              /\ op \in DRAW \/ Length(op, body) >= 4
<1>0. op \in Nat /\ op <= 255 BY DEF Byte
<1>1. CASE op \in DRAW
  <2>1. PICK vsize \in Nat : vsize = Size(Format(Vcd(cp), Vat(cp, op % 8))) BY <1>1, VertexSize
  <2>2. CASE Len(body) < 2
    <3>1. Length(op, body) = NeedMore BY <1>1, <2>2, OpcodeNumbers DEF Length
    <3> QED BY <1>1, <2>2, <3>1 DEF Short
  <2>3. CASE ~(Len(body) < 2)
    <3>0. Len(body) \in Nat /\ 1 \in 1..Len(body) /\ 2 \in 1..Len(body) BY <2>3
    <3>1. body[1] \in Nat /\ body[2] \in Nat BY <3>0, ByteOf
    <3>2. PICK count \in Nat : count = 256 * body[1] + body[2] BY <3>1
    <3>3. Length(op, body) = IF vsize = 0 /\ count > 0 THEN 0 ELSE 2 + count * vsize
      BY <1>1, <2>1, <2>3, <3>2, OpcodeNumbers DEF Length
    <3>4. count * vsize \in Nat BY <2>1, <3>2
    <3>5. PICK area \in Nat : area = count * vsize BY <3>4
    <3>6. Length(op, body) = 0 \/ Length(op, body) = 2 + area BY <3>3, <3>5
    <3>7. Length(op, body) \in Nat /\ Length(op, body) # NeedMore BY <3>6, OpcodeNumbers
    <3>8. Length(op, body) # 0 => Length(op, body) >= 2 BY <3>6
    <3> QED BY <1>1, <2>3, <3>7, <3>8, OpcodeNumbers DEF Short, Fits
  <2> QED BY <2>2, <2>3
<1>2. CASE op = LOAD_XF
  <2>1. CASE Len(body) < 4
    <3>1. Length(op, body) = NeedMore BY <1>2, <2>1, OpcodeNumbers DEF Length
    <3> QED BY <1>2, <2>1, <3>1 DEF Short
  <2>2. CASE ~(Len(body) < 4)
    <3>0. Len(body) \in Nat /\ 2 \in 1..Len(body) BY <2>2
    <3>1. body[2] \in Nat BY <3>0, ByteOf
    <3>2. Length(op, body) = 4 + 4 * ((body[2] % 16) + 1) BY <1>2, <2>2, OpcodeNumbers DEF Length
    <3>3. body[2] % 16 \in Nat BY <3>1
    <3>4. Length(op, body) \in Nat /\ Length(op, body) >= 8 BY <3>2, <3>3
    <3> QED BY <1>2, <2>2, <3>4, OpcodeNumbers DEF Short, Fits
  <2> QED BY <2>1, <2>2
<1>3. CASE op \notin DRAW /\ op # LOAD_XF
  <2>1. \/ op = LOAD_CP /\ Length(op, body) = 5
        \/ op = LOAD_BP /\ Length(op, body) = 4
        \/ op \in LOAD_INDX /\ Length(op, body) = 4
        \/ op = CALL_DL /\ Length(op, body) = 8
        \/ Length(op, body) = 0
    BY <1>3, OpcodeNumbers DEF Length
  <2>2. ~Short(op, Len(body)) BY <1>3 DEF Short
  <2>3. PICK len : len = Length(op, body) OBVIOUS
  <2>6. \/ op = 8 /\ len = 5
        \/ op = 97 /\ len = 4
        \/ op \in {32, 40, 48, 56} /\ len = 4
        \/ op = 64 /\ len = 8
        \/ len = 0
    BY <2>1, <2>3 DEF LOAD_CP, LOAD_BP, LOAD_INDX, CALL_DL
  <2>7. len # 0 => Fits(op, len)
    <3> SUFFICES ASSUME len # 0 PROVE Fits(op, len) OBVIOUS
    <3>1. CASE op = 8 /\ len = 5 BY <3>1, OpcodeNumbers DEF Fits
    <3>2. CASE op = 97 /\ len = 4 BY <3>2, OpcodeNumbers DEF Fits
    <3>3. CASE op \in {32, 40, 48, 56} /\ len = 4 BY <3>3, OpcodeNumbers DEF Fits
    <3>4. CASE op = 64 /\ len = 8 BY <3>4, OpcodeNumbers DEF Fits
    <3> QED BY <2>6, <3>1, <3>2, <3>3, <3>4
  <2>4. Length(op, body) \in {0, 4, 5, 8} BY <2>1
  <2>5. Length(op, body) # 0 => Fits(op, Length(op, body)) BY <2>3, <2>7
  <2> QED BY <2>2, <2>4, <2>5, OpcodeNumbers
<1> QED BY <1>1, <1>2, <1>3

-----------------------------------------------------------------------------
(* Sequences *)

LEMMA Appended ==
  ASSUME NEW s, IsSequence(s), NEW x
  PROVE  /\ IsSequence(Append(s, x)) /\ DOMAIN s = 1..Len(s) /\ Len(s) \in Nat
         /\ DOMAIN Append(s, x) = 1..Len(s) + 1 /\ Append(s, x)[Len(s) + 1] = x
         /\ \A i \in 1..Len(s) : Append(s, x)[i] = s[i]
<1>1. PICK S : s \in Seq(S) BY DEF IsSequence
<1>2. PICK T : T = S \cup {x} OBVIOUS
<1>3. s \in Seq(T) BY <1>1, <1>2
<1>4. Append(s, x) \in Seq(T) BY <1>2, <1>3
<1> QED BY <1>2, <1>3, <1>4 DEF IsSequence

LEMMA Joined ==
  ASSUME NEW s, NEW t, IsSequence(s), IsSequence(t)
  PROVE  /\ IsSequence(s \o t) /\ DOMAIN s = 1..Len(s) /\ DOMAIN t = 1..Len(t)
         /\ Len(s) \in Nat /\ Len(t) \in Nat /\ DOMAIN (s \o t) = 1..Len(s) + Len(t)
         /\ \A i \in 1..Len(s) : (s \o t)[i] = s[i]
         /\ \A i \in 1..Len(t) : (s \o t)[Len(s) + i] = t[i]
<1>1. PICK S : s \in Seq(S) BY DEF IsSequence
<1>2. PICK T : t \in Seq(T) BY DEF IsSequence
<1>3. PICK U : U = S \cup T OBVIOUS
<1>4. s \in Seq(U) /\ t \in Seq(U) BY <1>1, <1>2, <1>3
<1>5. s \o t \in Seq(U) /\ Len(s \o t) = Len(s) + Len(t) BY <1>4
<1>6. \A i \in 1..Len(s) : (s \o t)[i] = s[i] BY <1>4
<1>7. \A i \in 1..Len(t) : (s \o t)[Len(s) + i] = t[i]
  <2> SUFFICES ASSUME NEW i \in 1..Len(t) PROVE (s \o t)[Len(s) + i] = t[i] OBVIOUS
  <2>1. Len(s) \in Nat /\ Len(t) \in Nat BY <1>4
  <2>2. Len(s) + i \in 1..Len(s) + Len(t) /\ Len(s) + i > Len(s) /\ Len(s) + i - Len(s) = i BY <2>1
  <2> QED BY <1>4, <2>1, <2>2
<1> QED BY <1>4, <1>5, <1>6, <1>7 DEF IsSequence

\* A function over 1..n is a sequence.
LEMMA Listed ==
  ASSUME NEW n \in Nat, NEW s, s = [i \in 1..n |-> s[i]]
  PROVE  IsSequence(s) /\ Len(s) = n /\ DOMAIN s = 1..n
<1>1. PICK S : S = {s[i] : i \in 1..n} OBVIOUS
<1>2. s \in [1..n -> S] BY <1>1
<1>3. s \in Seq(S) BY <1>2
<1> QED BY <1>2, <1>3 DEF IsSequence

LEMMA AppendLists ==
  ASSUME NEW S, NEW s \in Seq(S), NEW x \in S
  PROVE  Append(s, x) \in Seq(S) /\ Len(Append(s, x)) = Len(s) + 1
OBVIOUS

LEMMA ReplacedLast ==
  ASSUME NEW S, NEW s \in Seq(S), s # << >>, NEW x \in S
  PROVE  [s EXCEPT ![Len(s)] = x] \in Seq(S) /\ Len([s EXCEPT ![Len(s)] = x]) = Len(s)
OBVIOUS

\* The latest of a set of places.
LEMMA LatestIn ==
  ASSUME NEW n \in Nat, NEW S, S \subseteq 1..n, S # {}
  PROVE  Latest(S) \in S /\ \A j \in S : j <= Latest(S)
<1>1. PICK bounds : bounds = {m \in Nat : \A j \in S : j <= m} OBVIOUS
<1>2. n \in bounds /\ bounds \subseteq Nat BY <1>1
<1>3. Min(bounds) \in bounds /\ \A y \in bounds : Min(bounds) <= y BY <1>2, LeastIn
<1>4. PICK m \in bounds : \A y \in bounds : m <= y BY <1>3
<1>5. m \in Nat /\ \A j \in S : j <= m BY <1>1, <1>4
<1>6. m \in S
  <2>1. SUFFICES ASSUME m \notin S PROVE FALSE OBVIOUS
  <2>2. PICK j \in S : j \in 1..n OBVIOUS
  <2>3. m >= 1 BY <1>5, <2>2
  <2>4. \A i \in S : i <= m - 1 BY <1>5, <2>1
  <2>5. m - 1 \in bounds BY <1>1, <1>5, <2>3, <2>4
  <2> QED BY <1>4, <1>5, <2>5
<1>7. \E k \in S : \A j \in S : j <= k BY <1>5, <1>6
<1> QED BY <1>7 DEF Latest

\* Adding a later place makes it the latest.
LEMMA LatestAdded ==
  ASSUME NEW n \in Nat, NEW m \in Nat, NEW S, S \subseteq 1..n, m > n
  PROVE  Latest(S \cup {m}) = m
<1>1. PICK T : T = S \cup {m} OBVIOUS
<1>2. T \subseteq 1..m /\ T # {} BY <1>1
<1>3. Latest(T) \in T /\ \A j \in T : j <= Latest(T) BY <1>2, LatestIn
<1>4. m <= Latest(T) BY <1>1, <1>3
<1>5. PICK k : k = Latest(T) OBVIOUS
<1>6. k \in 1..m /\ m <= k BY <1>2, <1>3, <1>4, <1>5
<1> QED BY <1>1, <1>5, <1>6

-----------------------------------------------------------------------------
(* What the parser has in hand *)

LEMMA DataBytes ==
  ASSUME FeedsInv, feeds # << >>
  PROVE  /\ Len(feeds) \in Nat /\ Len(feeds) >= 1 /\ Data \in Seq(Byte) /\ Len(Data) \in Nat
         /\ Data # << >> => Len(Data) >= 1 /\ Data[1] \in Byte
<1>1. Len(feeds) \in Nat /\ Len(feeds) >= 1 BY DEF FeedsInv
<1>2. Data \in Seq(Byte) BY <1>1 DEF FeedsInv, Data
<1>3. PICK d \in Seq(Byte) : d = Data BY <1>2
<1>4. Len(d) \in Nat /\ (d # << >> => Len(d) >= 1) OBVIOUS
<1>5. d # << >> => d[1] \in Byte BY <1>4
<1> QED BY <1>1, <1>3, <1>4, <1>5

\* What is left of bytes when n of them are taken.
LEMMA RestBytes ==
  ASSUME NEW s \in Seq(Byte), NEW m, NEW n, m \in Nat, n \in Nat, n <= Len(s), m >= 1
  PROVE  SubSeq(s, m, n) \in Seq(Byte)
<1>1. \A i \in m..n : s[i] \in Byte
  <2>1. \A i \in m..n : i \in 1..Len(s) OBVIOUS
  <2> QED BY <2>1
<1> QED BY <1>1

LEMMA AfterBytes ==
  ASSUME FeedsInv, feeds # << >>, NEW n \in Nat
  PROVE  After(n) \in Seq(Seq(Byte)) /\ Len(After(n)) = Len(feeds)
<1>1. feeds \in Seq(Seq(Byte)) BY DEF FeedsInv
<1>2. Data \in Seq(Byte) /\ Len(Data) \in Nat BY DataBytes
<1>3. PICK rest : rest = SubSeq(Data, n + 1, Len(Data)) OBVIOUS
<1>4. rest \in Seq(Byte) BY <1>2, <1>3, RestBytes
<1>5. After(n) = [feeds EXCEPT ![Len(feeds)] = rest] BY <1>3 DEF After, Data
<1>6. PICK S : S = Seq(Byte) OBVIOUS
<1>7. feeds \in Seq(S) /\ rest \in S BY <1>1, <1>4, <1>6
<1> QED BY <1>5, <1>6, <1>7, ReplacedLast

LEMMA StagedBytes ==
  ASSUME FeedsInv, ParserInv, InCommand
  PROVE  /\ Staged \in Seq(Byte) /\ Len(Staged) = Len(parser.buf) + 1
         /\ Len(parser.buf) \in Nat /\ parser.want # 0 /\ parser.want \in Nat
<1>1. Data[1] \in Byte BY DataBytes DEF InCommand
<1>2. parser.buf \in Seq(Byte) /\ parser.want \in Nat BY DEF ParserInv
<1>3. parser.want # 0 BY DEF ParserInv, InCommand
<1> QED BY <1>1, <1>2, <1>3 DEF Staged

\* The length found fits the command, and is more than what is in hand.
LEMMA KnownFits ==
  ASSUME FeedsInv, ParserInv, CpInv, InCommand, NEW len, len = Known
  PROVE  /\ len \in Nat \cup {NeedMore}
         /\ len = NeedMore => parser.want = 1 /\ Short(parser.opcode, Len(Staged))
         /\ len \notin {NeedMore, 0} =>
              Fits(parser.opcode, len) /\ Len(parser.buf) < len /\ len >= 2
<1>1. parser.opcode \in Byte /\ parser.buf \in Seq(Byte) BY DEF ParserInv
<1>2. /\ Staged \in Seq(Byte) /\ Len(Staged) = Len(parser.buf) + 1
      /\ Len(parser.buf) \in Nat /\ parser.want # 0 /\ parser.want \in Nat
  BY StagedBytes
<1>3. CASE parser.want > 1
  <2>1. len = parser.want BY <1>3 DEF Known
  <2>2. Len(parser.buf) < len /\ Fits(parser.opcode, len) BY <1>3, <2>1 DEF ParserInv
  <2> QED BY <1>2, <1>3, <2>1, <2>2, OpcodeNumbers
<1>4. CASE ~(parser.want > 1)
  <2>1. len = Length(parser.opcode, Staged) BY <1>4 DEF Known
  <2>2. parser.want = 1 BY <1>2, <1>4
  <2>3. parser.buf = << >> \/ Short(parser.opcode, Len(parser.buf)) BY <2>2 DEF ParserInv
  <2>4. PICK op \in Byte : op = parser.opcode BY <1>1
  <2>5. PICK n \in Nat : n = Len(parser.buf) BY <1>2
  <2>6. n = 0 \/ Short(op, n) BY <2>3, <2>4, <2>5
  <2>7. PICK s \in Seq(Byte) : s = Staged BY <1>2
  <2>8. /\ len \in Nat \cup {NeedMore}
        /\ len = NeedMore => Short(op, Len(s))
        /\ len \notin {NeedMore, 0} => Fits(op, len) /\ len >= 2 /\ (op \in DRAW \/ len >= 4)
    BY <2>1, <2>4, <2>7, LengthFits
  <2>9. len \notin {NeedMore, 0} => n < len
    <3> SUFFICES ASSUME len \notin {NeedMore, 0} PROVE n < len OBVIOUS
    <3>1. len \in Nat /\ len >= 2 /\ (op \in DRAW \/ len >= 4) BY <2>8
    <3>2. CASE n = 0 BY <3>1, <3>2
    <3>3. CASE op = LOAD_XF /\ n < 4 BY <3>1, <3>3, OpcodeNumbers
    <3>4. CASE op \in DRAW /\ n < 2 BY <3>1, <3>4
    <3> QED BY <2>6, <3>2, <3>3, <3>4 DEF Short
  <2> QED BY <2>2, <2>4, <2>5, <2>7, <2>8, <2>9
<1> QED BY <1>3, <1>4

LEMMA BodyBytes ==
  ASSUME FeedsInv, ParserInv, InCommand, NEW len \in Nat
  PROVE  /\ Body(len) \in Seq(Byte) /\ Len(Body(len)) \in Nat /\ Len(Body(len)) <= len
         /\ Len(Data) \in Nat
<1>1. parser.buf \in Seq(Byte) BY DEF ParserInv
<1>2. Data \in Seq(Byte) /\ Len(Data) \in Nat BY DataBytes DEF InCommand
<1>9. PICK b \in Seq(Byte) : b = parser.buf BY <1>1
<1>10. PICK d \in Seq(Byte) : d = Data BY <1>2
<1>11. b \o d \in Seq(Byte) OBVIOUS
<1>3. PICK all \in Seq(Byte) : all = parser.buf \o Data BY <1>9, <1>10, <1>11
<1>4. PICK n : n = AtMost(len, Len(all)) OBVIOUS
<1>5. n \in Nat /\ n <= len /\ n <= Len(all) BY <1>4 DEF AtMost
<1>6. Body(len) = SubSeq(all, 1, n) BY <1>3, <1>4 DEF Body
<1>7. SubSeq(all, 1, n) \in Seq(Byte) BY <1>5, RestBytes
<1>8. Len(SubSeq(all, 1, n)) = n BY <1>5
<1> QED BY <1>2, <1>5, <1>6, <1>7, <1>8

LEMMA XfKnown ==
  ASSUME FeedsInv, ParserInv, CpInv, InCommand, NEW len \in Nat, len = Known, len >= 1,
         parser.opcode = LOAD_XF
  PROVE  XfSize(len, Body(len))
<1>1. parser.buf \in Seq(Byte) /\ parser.want \in Nat BY DEF ParserInv
<1>2. Data \in Seq(Byte) /\ Len(Data) \in Nat /\ Data # << >> BY DataBytes DEF InCommand
<1>3. PICK b \in Seq(Byte) : b = parser.buf BY <1>1
<1>4. PICK d \in Seq(Byte) : d = Data BY <1>2
<1>5. Len(d) >= 1 BY <1>2, <1>4
<1>6. len >= 8
  <2>1. len \notin {NeedMore, 0} BY OpcodeNumbers
  <2>2. Fits(parser.opcode, len) BY <2>1, KnownFits
  <2> QED BY <2>2 DEF Fits
<1>7. Len(b) >= 3 /\ len = 4 + 4 * ((b[2] % 16) + 1)
  <2>1. CASE parser.want > 1
    <3>1. len = parser.want BY <2>1 DEF Known
    <3> QED BY <1>3, <2>1, <3>1 DEF ParserInv, XfSize
  <2>2. CASE ~(parser.want > 1)
    <3>1. PICK s : s = Append(b, d[1]) OBVIOUS
    <3>2. len = Length(LOAD_XF, s) BY <1>3, <1>4, <2>2, <3>1 DEF Known, Staged
    <3>3. len = IF Len(s) < 4 THEN NeedMore ELSE 4 + 4 * ((s[2] % 16) + 1)
      BY <3>2, OpcodeNumbers DEF Length
    <3>4. Len(s) = Len(b) + 1 BY <1>4, <1>5, <3>1
    <3>5. Len(b) >= 3 BY <3>3, <3>4, OpcodeNumbers
    <3>6. s[2] = b[2] BY <1>4, <1>5, <3>1, <3>5
    <3> QED BY <3>3, <3>4, <3>5, <3>6
  <2> QED BY <2>1, <2>2
<1>14. b \o d \in Seq(Byte) OBVIOUS
<1>8. PICK all \in Seq(Byte) : all = b \o d BY <1>14
<1>9. Len(all) = Len(b) + Len(d) /\ all[2] = b[2] BY <1>7, <1>8
<1>10. PICK n : n = AtMost(len, Len(all)) OBVIOUS
<1>11. n \in Nat /\ n >= 4 /\ n <= Len(all) BY <1>5, <1>6, <1>7, <1>9, <1>10 DEF AtMost
<1>12. Body(len) = SubSeq(all, 1, n) BY <1>3, <1>4, <1>8, <1>10 DEF Body
<1>13. Len(SubSeq(all, 1, n)) = n /\ SubSeq(all, 1, n)[2] = all[2] BY <1>11
<1> QED BY <1>7, <1>9, <1>11, <1>12, <1>13 DEF XfSize

-----------------------------------------------------------------------------
(* The steps of the parser *)

LEMMA ForgetKeeps ==
  ASSUME ParserInv, Forget, StreamAssumption
  PROVE  ParserInv'
<1>1. parser' = [parser EXCEPT !.buf = << >>, !.want = 0] BY DEF Forget
<1>2. parser'.opcode = parser.opcode /\ parser'.buf = << >> /\ parser'.want = 0
  BY <1>1 DEF ParserInv
<1>3. parser' = [opcode |-> parser'.opcode, buf |-> parser'.buf, want |-> parser'.want]
  BY <1>1, <1>2 DEF ParserInv
<1>4. parser'.opcode \in Byte BY <1>2 DEF ParserInv
<1>5. parser'.buf \in Seq(Byte) /\ Len(parser'.buf) = 0 BY <1>2
<1>6. BufLen > 4 /\ BufLen \in Nat BY DEF StreamAssumption
<1> QED BY <1>2, <1>3, <1>4, <1>5, <1>6 DEF ParserInv

\* The feeds are as many as before, and no byte of the stream was fed.
LEMMA FeedsKeep ==
  ASSUME FeedsInv, UNCHANGED <<program, fed>>, feeds' \in Seq(Seq(Byte)),
         Len(feeds') <= DlDepth + 1
  PROVE  FeedsInv'
BY DEF FeedsInv, Stream

LEMMA GoOnKeeps ==
  ASSUME FeedsInv, ParserInv, StreamAssumption, feeds # << >>, NEW len, TakenNow(len) \in Nat,
         GoOn(len), UNCHANGED <<program, fed>>
  PROVE  FeedsInv' /\ ParserInv'
<1>1. ParserInv' BY ForgetKeeps DEF GoOn
<1>2. feeds \in Seq(Seq(Byte)) /\ Len(feeds) <= DlDepth + 1 BY DEF FeedsInv
<1>3. CASE quit
  <2>1. PICK S : S = Seq(Byte) OBVIOUS
  <2>2. PICK none : none = << >> OBVIOUS
  <2>3. feeds \in Seq(S) /\ none \in S BY <1>2, <2>1, <2>2
  <2>4. feeds' = [feeds EXCEPT ![Len(feeds)] = none] BY <1>3, <2>2 DEF GoOn
  <2>5. feeds' \in Seq(S) /\ Len(feeds') = Len(feeds) BY <2>3, <2>4, ReplacedLast
  <2> QED BY <1>1, <1>2, <2>1, <2>5, FeedsKeep
<1>4. CASE ~quit
  <2>1. feeds' = After(TakenNow(len)) BY <1>4 DEF GoOn
  <2>2. feeds' \in Seq(Seq(Byte)) /\ Len(feeds') = Len(feeds) BY <2>1, AfterBytes
  <2> QED BY <1>1, <1>2, <2>2, FeedsKeep
<1> QED BY <1>3, <1>4

LEMMA WriteKeeps ==
  ASSUME FeedsInv, StreamAssumption, NEW n \in Sizes, Write(n)
  PROVE  FeedsInv'
<1>1. program \in Programs /\ Stream \in Seq(Byte) BY DEF FeedsInv, StreamAssumption, Stream
<1>2. PICK s \in Seq(Byte) : s = Stream BY <1>1
<1>3. PICK len \in Nat : len = Len(s) OBVIOUS
<1>4. fed \in 0..len BY <1>2, <1>3 DEF FeedsInv
<1>5. n \in Nat
  <2>1. CASE n \in 1..4 BY <2>1
  <2>2. CASE n = AtMost(MaxBatch, Len(Stream) - fed)
    <3>1. n = AtMost(MaxBatch, len - fed) BY <1>2, <1>3, <2>2
    <3>2. MaxBatch \in Nat BY DEF StreamAssumption
    <3> QED BY <1>4, <3>1, <3>2 DEF AtMost
  <2> QED BY <2>1, <2>2 DEF Sizes
<1>6. n > 0 /\ fed + n <= len /\ fed' = fed + n /\ program' = program BY <1>2, <1>3 DEF Write
<1>7. PICK part : part = SubSeq(s, fed + 1, fed + n) OBVIOUS
<1>8. part \in Seq(Byte) BY <1>3, <1>4, <1>5, <1>6, <1>7, RestBytes
<1>9. feeds' = <<part>> BY <1>2, <1>7 DEF Write
<1>10. feeds' \in Seq(Seq(Byte)) /\ Len(feeds') = 1
  <2>1. PICK S : S = Seq(Byte) OBVIOUS
  <2>2. part \in S BY <1>8, <2>1
  <2>3. <<part>> \in Seq(S) /\ Len(<<part>>) = 1 BY <2>2
  <2> QED BY <1>9, <2>1, <2>3
<1>11. Stream' = s BY <1>2, <1>6 DEF Stream
<1>12. fed' \in 0..Len(Stream') BY <1>3, <1>4, <1>5, <1>6, <1>11
<1>13. program' \in Programs BY <1>1, <1>6
<1> QED BY <1>10, <1>12, <1>13 DEF FeedsInv, DlDepth

LEMMA OpcodeKeeps ==
  ASSUME FeedsInv, ParserInv, StreamAssumption, Opcode
  PROVE  FeedsInv' /\ ParserInv'
<1>1. feeds # << >> /\ Data # << >> /\ parser.buf = << >> /\ feeds' = After(1) BY DEF Opcode
<1>2. Data[1] \in Byte BY <1>1, DataBytes
<1>3. PICK w \in {0, 1} : parser' = [parser EXCEPT !.opcode = Data[1], !.want = w] BY DEF Opcode
<1>4. parser'.opcode = Data[1] /\ parser'.want = w /\ parser'.buf = << >>
      /\ parser' = [opcode |-> parser'.opcode, buf |-> parser'.buf, want |-> parser'.want]
  BY <1>1, <1>3 DEF ParserInv
<1>5. parser'.buf \in Seq(Byte) /\ Len(parser'.buf) = 0 BY <1>4
<1>6. BufLen > 4 /\ BufLen \in Nat BY DEF StreamAssumption
<1>7. ParserInv' BY <1>2, <1>4, <1>5, <1>6 DEF ParserInv
<1>8. feeds' \in Seq(Seq(Byte)) /\ Len(feeds') = Len(feeds) BY <1>1, AfterBytes
<1>9. UNCHANGED <<program, fed>> BY DEF Opcode
<1>10. Len(feeds) <= DlDepth + 1 BY DEF FeedsInv
<1> QED BY <1>7, <1>8, <1>9, <1>10, FeedsKeep

LEMMA BodyByteKeeps ==
  ASSUME FeedsInv, ParserInv, CpInv, StreamAssumption, NEW len, len = Known, BodyByte(len)
  PROVE  FeedsInv' /\ ParserInv'
<1>1. InCommand /\ feeds # << >> /\ feeds' = After(1) BY DEF BodyByte, InCommand
<1>2. feeds' \in Seq(Seq(Byte)) /\ Len(feeds') = Len(feeds) BY <1>1, AfterBytes
<1>3. UNCHANGED <<program, fed>> BY DEF BodyByte
<1>4. Len(feeds) <= DlDepth + 1 BY DEF FeedsInv
<1>5. FeedsInv' BY <1>2, <1>3, <1>4, FeedsKeep
<1>6. CASE len = NeedMore /\ parser' = [parser EXCEPT !.buf = Staged]
  <2>1. parser.want = 1 /\ Short(parser.opcode, Len(Staged)) BY <1>1, <1>6, KnownFits
  <2>2. Staged \in Seq(Byte) BY <1>1, StagedBytes
  <2>3. /\ parser'.opcode = parser.opcode /\ parser'.want = 1 /\ parser'.buf = Staged
        /\ parser' = [opcode |-> parser'.opcode, buf |-> parser'.buf, want |-> parser'.want]
    BY <1>6, <2>1 DEF ParserInv
  <2>4. Len(Staged) \in Nat /\ Len(Staged) < 4 BY <2>1, <2>2 DEF Short
  <2>5. BufLen > 4 /\ BufLen \in Nat BY DEF StreamAssumption
  <2>6. parser'.opcode \in Byte BY <2>3 DEF ParserInv
  <2>7. Len(parser'.buf) < BufLen /\ parser'.buf \in Seq(Byte) BY <2>2, <2>3, <2>4, <2>5
  <2>8. ParserInv' BY <2>1, <2>3, <2>6, <2>7 DEF ParserInv
  <2> QED BY <1>5, <2>8
<1>7. CASE Forget BY <1>5, <1>7, ForgetKeeps
<1> QED BY <1>6, <1>7 DEF BodyByte

LEMMA PartialKeeps ==
  ASSUME FeedsInv, ParserInv, CpInv, StreamAssumption, NEW len, len = Known, Partial(len)
  PROVE  FeedsInv' /\ ParserInv'
<1>1. InCommand /\ feeds # << >> /\ len \in 1..BufLen /\ BufLen \in Nat
  BY DEF Partial, Sized, InCommand, StreamAssumption
<1>2. Body(len) \in Seq(Byte) /\ Len(Body(len)) \in Nat /\ Len(Data) \in Nat BY <1>1, BodyBytes
<1>3. Len(Body(len)) < len BY DEF Partial
<1>4. feeds' = After(Len(Data)) BY DEF Partial
<1>5. feeds' \in Seq(Seq(Byte)) /\ Len(feeds') = Len(feeds) BY <1>1, <1>2, <1>4, AfterBytes
<1>6. UNCHANGED <<program, fed>> BY DEF Partial
<1>7. Len(feeds) <= DlDepth + 1 BY DEF FeedsInv
<1>8. FeedsInv' BY <1>5, <1>6, <1>7, FeedsKeep
<1>9. len \notin {NeedMore, 0} BY <1>1, OpcodeNumbers
<1>10. Fits(parser.opcode, len) /\ len >= 2 BY <1>1, <1>9, KnownFits
<1>11. parser' = [parser EXCEPT !.buf = Body(len), !.want = len] BY DEF Partial
<1>12. /\ parser'.opcode = parser.opcode /\ parser'.want = len /\ parser'.buf = Body(len)
       /\ parser' = [opcode |-> parser'.opcode, buf |-> parser'.buf, want |-> parser'.want]
  BY <1>11 DEF ParserInv
<1>13. parser'.opcode \in Byte BY <1>12 DEF ParserInv
<1>14. parser'.want \in Nat /\ parser'.want > 1 /\ Len(parser'.buf) < parser'.want
       /\ Len(parser'.buf) < BufLen /\ parser'.buf \in Seq(Byte)
  BY <1>1, <1>2, <1>3, <1>10, <1>12
<1>16. parser.opcode = LOAD_XF => XfSize(len, Body(len)) BY <1>1, XfKnown
<1>15. ParserInv' BY <1>10, <1>12, <1>13, <1>14, <1>16 DEF ParserInv
<1> QED BY <1>8, <1>15

\* The command in hand is whole.
LEMMA WholeBody ==
  ASSUME FeedsInv, ParserInv, CpInv, StreamAssumption, NEW len, len = Known, NEW ops,
         Complete(len, ops)
  PROVE  /\ InCommand /\ feeds # << >> /\ parser.opcode \in ops /\ len \in Nat
         /\ Fits(parser.opcode, len) /\ TakenNow(len) \in Nat
         /\ Body(len) \in Seq(Byte) /\ Len(Body(len)) = len
<1>1. InCommand /\ feeds # << >> /\ len \in 1..BufLen /\ BufLen \in Nat /\ Len(Body(len)) = len
  BY DEF Complete, Sized, InCommand, StreamAssumption
<1>2. Body(len) \in Seq(Byte) BY <1>1, BodyBytes
<1>3. len \notin {NeedMore, 0} BY <1>1, OpcodeNumbers
<1>4. Fits(parser.opcode, len) /\ Len(parser.buf) < len BY <1>1, <1>3, KnownFits
<1>5. Len(parser.buf) \in Nat BY DEF ParserInv
<1>6. TakenNow(len) \in Nat BY <1>1, <1>4, <1>5 DEF TakenNow
<1>7. parser.opcode \in ops BY DEF Complete
<1> QED BY <1>1, <1>2, <1>4, <1>6, <1>7

\* The size of a list is a number, and so is what is in memory there.
LEMMA WordBytes ==
  ASSUME NEW w \in Word
  PROVE  \A i \in 1..4 : w[i] \in Byte /\ w[i] \in Nat /\ w[i] <= 255
<1>1. \A i \in 1..4 : w[i] \in Byte BY DEF Word
<1>2. \A b \in Byte : b \in Nat /\ b <= 255 BY DEF Byte
<1> QED BY <1>1, <1>2

LEMMA ListSizeNat ==
  ASSUME NEW addr, NEW word \in Word, DlMax \in Nat
  PROVE  ListSize(addr, word) \in Nat
<1>1. word[1] \in Nat /\ word[2] \in Nat /\ word[3] \in Nat /\ word[4] \in Nat
  BY WordBytes
<1>2. Number(word) \in Nat BY <1>1 DEF Number
<1>3. PICK short : short = [word EXCEPT ![1] = @ % 4] OBVIOUS
<1>4. short[1] = word[1] % 4 /\ short[2] = word[2] /\ short[3] = word[3] /\ short[4] = word[4]
  BY <1>3 DEF Word
<1>5. short[1] \in Nat BY <1>1, <1>4
<1>6. Number(short) \in Nat BY <1>1, <1>4, <1>5 DEF Number
<1>7. \/ ListSize(addr, word) = Number(short)
      \/ ListSize(addr, word) = DlMax + 1
      \/ ListSize(addr, word) = Number(word)
  BY <1>3 DEF ListSize
<1> QED BY <1>2, <1>6, <1>7

LEMMA ListBytesSeq ==
  ASSUME StreamAssumption, NEW addr, NEW size \in Nat
  PROVE  ListBytes(addr, size) \in Seq(Byte)
<1>1. PICK list : list = IF addr \in DOMAIN Lists THEN EncodeAll(Lists[addr]) ELSE << >> OBVIOUS
<1>2. list \in Seq(Byte) BY <1>1 DEF StreamAssumption
<1>3. PICK b : b = [i \in 1..size |-> IF i <= Len(list) THEN list[i] ELSE Pad] OBVIOUS
<1>4. Pad \in Byte BY DEF StreamAssumption
<1>5. ASSUME NEW i \in 1..size PROVE b[i] \in Byte
  <2>1. Len(list) \in Nat BY <1>2
  <2>2. CASE i <= Len(list)
    <3>1. i \in 1..Len(list) BY <2>1, <2>2
    <3>2. list[i] \in Byte BY <1>2, <3>1
    <3> QED BY <1>3, <2>2, <3>2
  <2>3. CASE ~(i <= Len(list)) BY <1>3, <1>4, <2>3
  <2> QED BY <2>2, <2>3
<1>6. b \in Seq(Byte) BY <1>3, <1>5
<1>7. ListBytes(addr, size) = b BY <1>1, <1>3 DEF ListBytes
<1> QED BY <1>6, <1>7

\* Four bytes of a command are a word.
LEMMA PartWord ==
  ASSUME NEW s \in Seq(Byte), NEW m \in Nat, NEW n \in Nat, m >= 1, n = m + 3, n <= Len(s)
  PROVE  SubSeq(s, m, n) \in Word
<1>1. Len(s) \in Nat OBVIOUS
<1>2. PICK w : w = SubSeq(s, m, n) OBVIOUS
<1>3. w \in Seq(Byte) BY <1>1, <1>2, RestBytes
<1>4. Len(w) = 4 BY <1>1, <1>2
<1>5. w = [i \in 1..4 |-> w[i]] BY <1>3, <1>4
<1>6. \A i \in 1..4 : w[i] \in Byte BY <1>3, <1>4, ByteOf
<1> QED BY <1>2, <1>5, <1>6 DEF Word

LEMMA CallListKeeps ==
  ASSUME FeedsInv, ParserInv, CpInv, StreamAssumption, NEW len, len = Known, CallList(len)
  PROVE  FeedsInv' /\ ParserInv'
<1>1. /\ InCommand /\ feeds # << >> /\ parser.opcode \in {CALL_DL} /\ len \in Nat
      /\ Fits(parser.opcode, len) /\ TakenNow(len) \in Nat
      /\ Body(len) \in Seq(Byte) /\ Len(Body(len)) = len
  BY WholeBody DEF CallList
<1>2. len = 8 BY <1>1 DEF Fits
<1>3. UNCHANGED <<program, fed>> BY DEF CallList
<1>4. PICK body \in Seq(Byte) : body = Body(len) BY <1>1
<1>5. Len(body) = 8 BY <1>1, <1>2, <1>4
<1>6. PICK word : word = SubSeq(body, 5, 8) OBVIOUS
<1>7. word \in Word
  <2>1. PICK m \in Nat : m = 5 OBVIOUS
  <2>2. PICK n \in Nat : n = 8 OBVIOUS
  <2>3. m >= 1 /\ n = m + 3 /\ n <= Len(body) BY <1>5, <2>1, <2>2
  <2>4. SubSeq(body, m, n) \in Word BY <2>3, PartWord
  <2> QED BY <1>6, <2>1, <2>2, <2>4
<1>8. PICK addr : addr = Unit(SubSeq(body, 1, 4)) OBVIOUS
<1>9. PICK size : size = ListSize(addr, word) OBVIOUS
<1>10. size \in Nat BY <1>7, <1>9, ListSizeNat DEF StreamAssumption
<1>11. CASE GoOn(len) BY <1>1, <1>3, <1>11, GoOnKeeps
<1>12. CASE /\ ~TooDeep
            /\ feeds' = Append(After(TakenNow(len)), ListBytes(addr, size)) /\ Forget
  <2>1. PICK rest : rest = After(TakenNow(len)) OBVIOUS
  <2>2. rest \in Seq(Seq(Byte)) /\ Len(rest) = Len(feeds) BY <1>1, <2>1, AfterBytes
  <2>3. PICK list : list = ListBytes(addr, size) OBVIOUS
  <2>4. list \in Seq(Byte) BY <1>10, <2>3, ListBytesSeq
  <2>5. PICK S : S = Seq(Byte) OBVIOUS
  <2>6. rest \in Seq(S) /\ list \in S BY <2>2, <2>4, <2>5
  <2>7. feeds' = Append(rest, list) BY <1>12, <2>1, <2>3
  <2>8. feeds' \in Seq(S) /\ Len(feeds') = Len(rest) + 1 BY <2>6, <2>7, AppendLists
  <2>9. Len(feeds) \in Nat /\ ~(Len(feeds) > DlDepth) BY <1>1, <1>12, DataBytes DEF TooDeep
  <2>10. Len(feeds') <= DlDepth + 1 BY <2>2, <2>8, <2>9 DEF DlDepth
  <2>11. FeedsInv' BY <1>3, <2>5, <2>8, <2>10, FeedsKeep
  <2>12. ParserInv' BY <1>12, ForgetKeeps
  <2> QED BY <2>11, <2>12
<1> QED BY <1>4, <1>6, <1>8, <1>9, <1>11, <1>12 DEF CallList

LEMMA NoCommandParser ==
  ASSUME StreamAssumption, parser' = NoCommand
  PROVE  ParserInv'
<1>1. parser' = [opcode |-> 0, buf |-> << >>, want |-> 0] BY DEF NoCommand, NOP
<1>2. parser'.opcode = 0 /\ parser'.buf = << >> /\ parser'.want = 0 BY <1>1
<1>3. parser' = [opcode |-> parser'.opcode, buf |-> parser'.buf, want |-> parser'.want]
  BY <1>1, <1>2
<1>4. parser'.buf \in Seq(Byte) /\ Len(parser'.buf) = 0 BY <1>2
<1>5. BufLen > 4 /\ BufLen \in Nat BY DEF StreamAssumption
<1> QED BY <1>2, <1>3, <1>4, <1>5 DEF ParserInv, Byte

LEMMA EndListKeeps ==
  ASSUME FeedsInv, StreamAssumption, EndList
  PROVE  FeedsInv' /\ ParserInv'
<1>1. feeds \in Seq(Seq(Byte)) /\ Len(feeds) <= DlDepth + 1 BY DEF FeedsInv
<1>2. Len(feeds) > 1 /\ Len(feeds) \in Nat BY <1>1 DEF EndList
<1>3. PICK S : S = Seq(Byte) OBVIOUS
<1>4. PICK outer : outer = Front(feeds) OBVIOUS
<1>5. outer = SubSeq(feeds, 1, Len(feeds) - 1) BY <1>4 DEF Front
<1>6. feeds \in Seq(S) BY <1>1, <1>3
<1>7. outer \in Seq(S) /\ Len(outer) = Len(feeds) - 1
  <2>0. PICK m \in Nat : m = Len(feeds) /\ m > 1 BY <1>2
  <2>4. m - 1 \in Nat /\ m - 1 >= 1 /\ m - 1 <= m BY <2>0
  <2>1. PICK n \in Nat : n = Len(feeds) - 1 /\ n >= 1 /\ n <= Len(feeds) BY <2>0, <2>4
  <2>2. outer = SubSeq(feeds, 1, n) BY <1>5, <2>1
  <2>3. \A i \in 1..n : feeds[i] \in S BY <1>6, <2>1
  <2> QED BY <1>6, <2>1, <2>2, <2>3
<1>8. PICK none : none = << >> OBVIOUS
<1>9. none \in S BY <1>3, <1>8
<1>10. outer # << >> BY <1>2, <1>7
<1>11. feeds' = outer \/ feeds' = [outer EXCEPT ![Len(outer)] = none] BY <1>4, <1>8 DEF EndList
<1>12. feeds' \in Seq(S) /\ Len(feeds') = Len(outer) BY <1>7, <1>9, <1>10, <1>11, ReplacedLast
<1>13. Len(feeds') <= DlDepth + 1 BY <1>1, <1>2, <1>7, <1>12 DEF DlDepth
<1>14. UNCHANGED <<program, fed>> BY DEF EndList
<1>15. FeedsInv' BY <1>3, <1>12, <1>13, <1>14, FeedsKeep
<1>16. ParserInv' BY NoCommandParser DEF EndList
<1> QED BY <1>15, <1>16

LEMMA EndWriteKeeps ==
  ASSUME FeedsInv, EndWrite
  PROVE  FeedsInv'
<1>1. feeds' = << >> /\ UNCHANGED <<program, fed>> BY DEF EndWrite
<1>2. feeds' \in Seq(Seq(Byte)) /\ Len(feeds') = 0 BY <1>1
<1> QED BY <1>1, <1>2, FeedsKeep DEF DlDepth

-----------------------------------------------------------------------------
(* The command processor's registers *)

LEMMA LoadCpKeeps ==
  ASSUME FeedsInv, ParserInv, CpInv, StreamAssumption, NEW len, len = Known, LoadCp(len)
  PROVE  CpInv'
<1>1. /\ parser.opcode \in {LOAD_CP} /\ len \in Nat /\ Fits(parser.opcode, len)
      /\ Body(len) \in Seq(Byte) /\ Len(Body(len)) = len
  BY WholeBody DEF LoadCp
<1>2. len = 5 BY <1>1 DEF Fits
<1>3. PICK body \in Seq(Byte) : body = Body(len) BY <1>1
<1>4. PICK word : word = SubSeq(body, 2, 5) OBVIOUS
<1>10. Len(body) = 5 BY <1>1, <1>2, <1>3
<1>5. word \in Word
  <2>1. PICK m \in Nat : m = 2 OBVIOUS
  <2>2. PICK n \in Nat : n = 5 OBVIOUS
  <2>3. m >= 1 /\ n = m + 3 /\ n <= Len(body) BY <1>10, <2>1, <2>2
  <2>4. SubSeq(body, m, n) \in Word BY <2>3, PartWord
  <2> QED BY <1>4, <2>1, <2>2, <2>4
<1>6. PICK reg : reg = body[1] OBVIOUS
<1>7. cp' = CpWrite(cp, reg, word) BY <1>3, <1>4, <1>6 DEF LoadCp
<1>8. CASE reg \notin CpRegs
  <2>1. cp' = cp BY <1>7, <1>8 DEF CpWrite
  <2> QED BY <2>1 DEF CpInv
<1>9. CASE reg \in CpRegs
  <2>1. PICK regs : regs = DOMAIN cp \cup {reg} OBVIOUS
  <2>2. cp' = [r \in regs |-> IF r = reg THEN word ELSE cp[r]] BY <1>7, <1>9, <2>1 DEF CpWrite
  <2>3. DOMAIN cp' = regs BY <2>2
  <2>4. DOMAIN cp' \subseteq CpRegs BY <1>9, <2>1, <2>3 DEF CpInv
  <2>5. ASSUME NEW r \in DOMAIN cp' PROVE cp'[r] \in Word
    <3>1. r \in regs BY <2>3, <2>5
    <3>2. cp'[r] = IF r = reg THEN word ELSE cp[r] BY <2>2, <3>1
    <3>3. r # reg => r \in DOMAIN cp BY <2>1, <3>1
    <3> QED BY <1>5, <3>2, <3>3 DEF CpInv
  <2> QED BY <2>4, <2>5 DEF CpInv
<1> QED BY <1>8, <1>9

-----------------------------------------------------------------------------
(* What has been done only grows *)

Grown ==
  /\ IsSequence(done) /\ IsSequence(done') /\ Len(done) <= Len(done')
  /\ \A i \in 1..Len(done) : done'[i] = done[i]

LEMMA GrownPlaces ==
  ASSUME Grown
  PROVE  /\ Len(done) \in Nat /\ DOMAIN done = 1..Len(done)
         /\ Len(done') \in Nat /\ DOMAIN done' = 1..Len(done')
         /\ DOMAIN done \subseteq DOMAIN done'
<1>1. PICK S : done \in Seq(S) BY DEF Grown, IsSequence
<1>2. PICK T : done' \in Seq(T) BY DEF Grown, IsSequence
<1>3. Len(done) \in Nat /\ DOMAIN done = 1..Len(done) BY <1>1
<1>4. Len(done') \in Nat /\ DOMAIN done' = 1..Len(done') BY <1>2
<1> QED BY <1>3, <1>4 DEF Grown

LEMMA SameWrites ==
  ASSUME Grown, NEW reg,
         \A i \in 1..Len(done') : i > Len(done) => ~(done'[i][1] = "bp" /\ done'[i][2] = reg)
  PROVE  Writes(reg)' = Writes(reg)
<1>1. /\ Len(done) \in Nat /\ DOMAIN done = 1..Len(done)
      /\ Len(done') \in Nat /\ DOMAIN done' = 1..Len(done')
      /\ DOMAIN done \subseteq DOMAIN done'
  BY GrownPlaces
<1>2. PICK old : old = Writes(reg) OBVIOUS
<1>3. PICK new : new = Writes(reg)' OBVIOUS
<1>4. old = {k \in 1..Len(done) : done[k][1] = "bp" /\ done[k][2] = reg} BY <1>1, <1>2 DEF Writes
<1>5. new = {k \in 1..Len(done') : done'[k][1] = "bp" /\ done'[k][2] = reg} BY <1>1, <1>3 DEF Writes
<1>6. \A k \in 1..Len(done) : done'[k] = done[k] /\ k \in 1..Len(done') BY <1>1 DEF Grown
<1>7. \A k \in new : k \in 1..Len(done) BY <1>1, <1>5
<1>8. new = old BY <1>4, <1>5, <1>6, <1>7
<1> QED BY <1>2, <1>3, <1>8

LEMMA AddedWrite ==
  ASSUME Grown, NEW reg, Len(done') = Len(done) + 1,
         done'[Len(done) + 1][1] = "bp", done'[Len(done) + 1][2] = reg
  PROVE  Writes(reg)' = Writes(reg) \cup {Len(done) + 1}
<1>1. /\ Len(done) \in Nat /\ DOMAIN done = 1..Len(done)
      /\ Len(done') \in Nat /\ DOMAIN done' = 1..Len(done')
  BY GrownPlaces
<1>2. PICK old : old = Writes(reg) OBVIOUS
<1>3. PICK new : new = Writes(reg)' OBVIOUS
<1>4. PICK n \in Nat : n = Len(done) BY <1>1
<1>5. old = {k \in 1..n : done[k][1] = "bp" /\ done[k][2] = reg} BY <1>1, <1>2, <1>4 DEF Writes
<1>6. new = {k \in 1..n + 1 : done'[k][1] = "bp" /\ done'[k][2] = reg}
  BY <1>1, <1>3, <1>4 DEF Writes
<1>7. \A k \in 1..n : done'[k] = done[k] BY <1>4 DEF Grown
<1>8. n + 1 \in new BY <1>4, <1>6
<1>9. \A k \in 1..n + 1 : k = n + 1 \/ k \in 1..n BY <1>4
<1>10. \A k \in 1..n : k \in 1..n + 1 BY <1>4
<1>11. new \subseteq old \cup {n + 1} BY <1>5, <1>6, <1>7, <1>9
<1>12. old \subseteq new BY <1>5, <1>6, <1>7, <1>10
<1>13. new = old \cup {n + 1} BY <1>8, <1>11, <1>12
<1> QED BY <1>2, <1>3, <1>4, <1>13

\* The writes of a register are places in what has been done.
LEMMA WritesPlaces ==
  ASSUME IsSequence(done), NEW reg
  PROVE  Writes(reg) \subseteq 1..Len(done) /\ Len(done) \in Nat
<1>1. PICK S : done \in Seq(S) BY DEF IsSequence
<1> QED BY <1>1 DEF Writes

\* A register nothing was written to since keeps its value.
LEMMA ColourKept ==
  ASSUME Grown, NEW which, ColourHolds(which), ColourWrites(which)' = ColourWrites(which),
         bp'.colour[which][1] = bp.colour[which][1]
  PROVE  ColourHolds(which)'
<1>1. PICK of : of = ColourWrites(which) OBVIOUS
<1>2. of = ColourWrites(which)' BY <1>1
<1>3. of \subseteq 1..Len(done) /\ Len(done) \in Nat
  BY <1>1, WritesPlaces DEF ColourWrites, Grown
<1>4. bp.colour[which][1] = IF of = {} THEN 0 ELSE TevField(done[Latest(of)][3])
  BY <1>1 DEF ColourHolds
<1>5. of # {} => Latest(of) \in 1..Len(done) BY <1>3, LatestIn
<1>6. of # {} => done'[Latest(of)] = done[Latest(of)] BY <1>5 DEF Grown
<1>7. bp'.colour[which][1] = IF of = {} THEN 0 ELSE TevField(done'[Latest(of)][3])
  BY <1>4, <1>6
<1> QED BY <1>2, <1>7 DEF ColourHolds

LEMMA ColourSet ==
  ASSUME Grown, NEW which, ColourWrites(which)' = ColourWrites(which) \cup {Len(done) + 1},
         bp'.colour[which][1] = TevField(done'[Len(done) + 1][3])
  PROVE  ColourHolds(which)'
<1>1. PICK of : of = ColourWrites(which)' OBVIOUS
<1>2. ColourWrites(which) \subseteq 1..Len(done) /\ Len(done) \in Nat
  BY WritesPlaces DEF ColourWrites, Grown
<1>3. PICK n \in Nat : n = Len(done) BY <1>2
<1>4. of = ColourWrites(which) \cup {n + 1} BY <1>1, <1>3
<1>5. Latest(ColourWrites(which) \cup {n + 1}) = n + 1
  <2>1. PICK m \in Nat : m = n + 1 BY <1>3
  <2>2. PICK S : S = ColourWrites(which) OBVIOUS
  <2>3. m > n /\ S \subseteq 1..n BY <1>2, <1>3, <2>1, <2>2
  <2>4. Latest(S \cup {m}) = m BY <2>3, LatestAdded
  <2> QED BY <2>1, <2>2, <2>4
<1>6. Latest(of) = n + 1 /\ of # {} BY <1>4, <1>5
<1>7. bp'.colour[which][1] = TevField(done'[Latest(of)][3]) BY <1>3, <1>6
<1>8. bp'.colour[which][1] = IF of = {} THEN 0 ELSE TevField(done'[Latest(of)][3]) BY <1>6, <1>7
<1> QED BY <1>1, <1>8 DEF ColourHolds

LEMMA PendingKept ==
  ASSUME Grown, PendingHolds, Writes(100)' = Writes(100), bp'.pending = bp.pending
  PROVE  PendingHolds'
<1>1. PICK of : of = Writes(100) OBVIOUS
<1>2. of = Writes(100)' BY <1>1
<1>3. of \subseteq 1..Len(done) /\ Len(done) \in Nat BY <1>1, WritesPlaces DEF Grown
<1>4. bp.pending = IF of = {} THEN Zero ELSE AddressOf(done[Latest(of)][3])
  BY <1>1 DEF PendingHolds
<1>5. of # {} => Latest(of) \in 1..Len(done) BY <1>3, LatestIn
<1>6. of # {} => done'[Latest(of)] = done[Latest(of)] BY <1>5 DEF Grown
<1>7. bp'.pending = IF of = {} THEN Zero ELSE AddressOf(done'[Latest(of)][3]) BY <1>4, <1>6
<1> QED BY <1>2, <1>7 DEF PendingHolds

LEMMA PendingSet ==
  ASSUME Grown, Writes(100)' = Writes(100) \cup {Len(done) + 1},
         bp'.pending = AddressOf(done'[Len(done) + 1][3])
  PROVE  PendingHolds'
<1>1. PICK of : of = Writes(100)' OBVIOUS
<1>2. Writes(100) \subseteq 1..Len(done) /\ Len(done) \in Nat BY WritesPlaces DEF Grown
<1>3. PICK n \in Nat : n = Len(done) BY <1>2
<1>4. of = Writes(100) \cup {n + 1} BY <1>1, <1>3
<1>5. Latest(Writes(100) \cup {n + 1}) = n + 1
  <2>1. PICK m \in Nat : m = n + 1 BY <1>3
  <2>2. PICK S : S = Writes(100) OBVIOUS
  <2>3. m > n /\ S \subseteq 1..n BY <1>2, <1>3, <2>1, <2>2
  <2>4. Latest(S \cup {m}) = m BY <2>3, LatestAdded
  <2> QED BY <2>1, <2>2, <2>4
<1>6. Latest(of) = n + 1 /\ of # {} BY <1>4, <1>5
<1>7. bp'.pending = AddressOf(done'[Latest(of)][3]) BY <1>3, <1>6
<1>8. bp'.pending = IF of = {} THEN Zero ELSE AddressOf(done'[Latest(of)][3]) BY <1>6, <1>7
<1> QED BY <1>1, <1>8 DEF PendingHolds

\* An address given later does not move a palette that is loaded.
LEMMA PaletteKept ==
  ASSUME Grown, NEW o, PaletteHolds(o), PaletteLoads(o)' = PaletteLoads(o),
         \/ Writes(100)' = Writes(100)
         \/ Writes(100)' = Writes(100) \cup {Len(done) + 1},
         bp'.tlut[o] = bp.tlut[o]
  PROVE  PaletteHolds(o)'
<1>1. PICK loads : loads = PaletteLoads(o) OBVIOUS
<1>2. loads = PaletteLoads(o)' BY <1>1
<1>3. loads \subseteq 1..Len(done) /\ Len(done) \in Nat
  BY <1>1, WritesPlaces DEF PaletteLoads, Grown
<1>4. CASE loads = {}
  <2>1. bp.tlut[o] = Zero BY <1>1, <1>4 DEF PaletteHolds
  <2> QED BY <1>2, <1>4, <2>1 DEF PaletteHolds
<1>5. CASE loads # {}
  <2>1. PICK last : last = Latest(loads) OBVIOUS
  <2>2. last \in 1..Len(done) BY <1>3, <1>5, <2>1, LatestIn
  <2>3. PICK named : named = Named(o) OBVIOUS
  <2>4. named = {k \in Writes(100) : k < last} BY <1>1, <2>1, <2>3 DEF Named
  <2>5. Named(o)' = {k \in Writes(100)' : k < last} BY <1>2, <2>1 DEF Named
  <2>6. ~(Len(done) + 1 < last) BY <1>3, <2>2
  <2>7. Named(o)' = named BY <2>4, <2>5, <2>6
  <2>8. named \subseteq 1..Len(done) BY <2>4, WritesPlaces DEF Grown
  <2>9. named # {} => Latest(named) \in 1..Len(done) BY <1>3, <2>8, LatestIn
  <2>10. named # {} => done'[Latest(named)] = done[Latest(named)] BY <2>9 DEF Grown
  <2>11. bp.tlut[o] = IF loads = {} \/ named = {} THEN Zero ELSE AddressOf(done[Latest(named)][3])
    BY <1>1, <2>3 DEF PaletteHolds
  <2>12. bp'.tlut[o] = IF loads = {} \/ named = {} THEN Zero
                       ELSE AddressOf(done'[Latest(named)][3])
    BY <2>10, <2>11
  <2> QED BY <1>2, <2>7, <2>12 DEF PaletteHolds
<1> QED BY <1>4, <1>5

LEMMA PaletteSet ==
  ASSUME Grown, PendingHolds, NEW o, PaletteLoads(o)' = PaletteLoads(o) \cup {Len(done) + 1},
         Writes(100)' = Writes(100), bp'.tlut[o] = bp.pending
  PROVE  PaletteHolds(o)'
<1>1. PICK loads : loads = PaletteLoads(o)' OBVIOUS
<1>2. PaletteLoads(o) \subseteq 1..Len(done) /\ Len(done) \in Nat
  BY WritesPlaces DEF PaletteLoads, Grown
<1>3. PICK n \in Nat : n = Len(done) BY <1>2
<1>4. Latest(PaletteLoads(o) \cup {n + 1}) = n + 1
  <2>1. PICK m \in Nat : m = n + 1 BY <1>3
  <2>2. PICK S : S = PaletteLoads(o) OBVIOUS
  <2>3. m > n /\ S \subseteq 1..n BY <1>2, <1>3, <2>1, <2>2
  <2>4. Latest(S \cup {m}) = m BY <2>3, LatestAdded
  <2> QED BY <2>1, <2>2, <2>4
<1>5. Latest(loads) = n + 1 /\ loads # {} BY <1>1, <1>3, <1>4
<1>6. PICK of : of = Writes(100) OBVIOUS
<1>7. of \subseteq 1..n BY <1>3, <1>6, WritesPlaces DEF Grown
<1>8. Named(o)' = {k \in of : k < n + 1} BY <1>1, <1>5, <1>6 DEF Named
<1>14. \A k \in 1..n : k < n + 1 OBVIOUS
<1>9. Named(o)' = of BY <1>7, <1>8, <1>14
<1>10. bp.pending = IF of = {} THEN Zero ELSE AddressOf(done[Latest(of)][3])
  BY <1>6 DEF PendingHolds
<1>11. of # {} => Latest(of) \in 1..Len(done) BY <1>3, <1>7, LatestIn
<1>12. of # {} => done'[Latest(of)] = done[Latest(of)] BY <1>11 DEF Grown
<1>13. bp'.tlut[o] = IF loads = {} \/ of = {} THEN Zero ELSE AddressOf(done'[Latest(of)][3])
  BY <1>5, <1>10, <1>12
<1> QED BY <1>1, <1>9, <1>13 DEF PaletteHolds

LEMMA XfLoadsPlaces ==
  ASSUME IsSequence(done), NEW c
  PROVE  XfLoads(c) \subseteq 1..Len(done) /\ Len(done) \in Nat
<1>1. PICK S : done \in Seq(S) BY DEF IsSequence
<1> QED BY <1>1 DEF XfLoads

LEMMA SameLoads ==
  ASSUME Grown, NEW c,
         \A i \in 1..Len(done') : i > Len(done) =>
            ~(done'[i][1] = "xf" /\ <<done'[i][2], done'[i][3]>> = c)
  PROVE  XfLoads(c)' = XfLoads(c)
<1>1. /\ Len(done) \in Nat /\ DOMAIN done = 1..Len(done)
      /\ Len(done') \in Nat /\ DOMAIN done' = 1..Len(done')
      /\ DOMAIN done \subseteq DOMAIN done'
  BY GrownPlaces
<1>2. PICK old : old = XfLoads(c) OBVIOUS
<1>3. PICK new : new = XfLoads(c)' OBVIOUS
<1>4. old = {k \in 1..Len(done) : done[k][1] = "xf" /\ <<done[k][2], done[k][3]>> = c}
  BY <1>1, <1>2 DEF XfLoads
<1>5. new = {k \in 1..Len(done') : done'[k][1] = "xf" /\ <<done'[k][2], done'[k][3]>> = c}
  BY <1>1, <1>3 DEF XfLoads
<1>6. \A k \in 1..Len(done) : done'[k] = done[k] /\ k \in 1..Len(done') BY <1>1 DEF Grown
<1>7. \A k \in new : k \in 1..Len(done) BY <1>1, <1>5
<1>8. new = old BY <1>4, <1>5, <1>6, <1>7
<1> QED BY <1>2, <1>3, <1>8

LEMMA CellKept ==
  ASSUME Grown, NEW c, CellHolds(c), XfLoads(c)' = XfLoads(c), xf'[c] = xf[c]
  PROVE  CellHolds(c)'
<1>1. PICK of : of = XfLoads(c) OBVIOUS
<1>2. of = XfLoads(c)' BY <1>1
<1>3. of \subseteq 1..Len(done) /\ Len(done) \in Nat BY <1>1, XfLoadsPlaces DEF Grown
<1>4. xf[c] = IF of = {} THEN XfInit[c] ELSE done[Latest(of)][4] BY <1>1 DEF CellHolds
<1>5. of # {} => Latest(of) \in 1..Len(done) BY <1>3, LatestIn
<1>6. of # {} => done'[Latest(of)] = done[Latest(of)] BY <1>5 DEF Grown
<1>7. xf'[c] = IF of = {} THEN XfInit[c] ELSE done'[Latest(of)][4] BY <1>4, <1>6
<1> QED BY <1>2, <1>7 DEF CellHolds, XfInit

\* What is added to what was done is whole too.
LEMMA WholeKept ==
  ASSUME Grown, LoadsWhole,
         \A i \in 1..Len(done') : i > Len(done) /\ done'[i][1] = "xf" => done'[i][4] \in XfWord
  PROVE  LoadsWhole'
<1>1. /\ Len(done) \in Nat /\ DOMAIN done = 1..Len(done)
      /\ Len(done') \in Nat /\ DOMAIN done' = 1..Len(done')
  BY GrownPlaces
<1>2. ASSUME NEW k \in DOMAIN done', done'[k][1] = "xf" PROVE done'[k][4] \in XfWord
  <2>1. k \in 1..Len(done') BY <1>1
  <2>2. CASE k > Len(done) BY <1>2, <2>1, <2>2
  <2>3. CASE ~(k > Len(done))
    <3>1. k \in 1..Len(done) BY <1>1, <2>1, <2>3
    <3>2. done'[k] = done[k] BY <3>1 DEF Grown
    <3> QED BY <1>1, <1>2, <3>1, <3>2 DEF LoadsWhole
  <2> QED BY <2>2, <2>3
<1>3. XfWord' = XfWord BY DEF XfWord
<1> QED BY <1>2, <1>3 DEF LoadsWhole

\* A step that writes no register of the blitting processor.
LEMMA BpRegsKept ==
  ASSUME Grown, BpRegs, UNCHANGED bp,
         \A i \in 1..Len(done') : i > Len(done) => done'[i][1] # "bp"
  PROVE  BpRegs'
<1>1. ASSUME NEW reg PROVE Writes(reg)' = Writes(reg) BY SameWrites
<1>2. /\ Len(done) \in Nat /\ DOMAIN done = 1..Len(done) BY GrownPlaces
<1>3. BpShape' BY DEF BpRegs, BpShape
<1>4. PendingHolds' BY <1>1, PendingKept DEF BpRegs
<1>5. ASSUME NEW which \in (0..3) \X (0..1) PROVE ColourHolds(which)'
  <2>1. PICK of : of = Writes(224 + 2 * which[1]) OBVIOUS
  <2>2. Writes(224 + 2 * which[1])' = of BY <1>1, <2>1
  <2>3. of \subseteq 1..Len(done) BY <2>1, WritesPlaces DEF Grown
  <2>4. \A k \in of : done'[k] = done[k] BY <2>3 DEF Grown
  <2>5. ColourWrites(which)' = ColourWrites(which) BY <2>1, <2>2, <2>4 DEF ColourWrites
  <2> QED BY <2>5, ColourKept DEF BpRegs
<1>6. ASSUME NEW o \in Palettes PROVE PaletteHolds(o)'
  <2>1. PICK of : of = Writes(101) OBVIOUS
  <2>2. Writes(101)' = of BY <1>1, <2>1
  <2>3. of \subseteq 1..Len(done) BY <2>1, WritesPlaces DEF Grown
  <2>4. \A k \in of : done'[k] = done[k] BY <2>3 DEF Grown
  <2>5. PaletteLoads(o)' = PaletteLoads(o) BY <2>1, <2>2, <2>4 DEF PaletteLoads
  <2>6. Writes(100)' = Writes(100) BY <1>1
  <2> QED BY <2>5, <2>6, PaletteKept DEF BpRegs
<1> QED BY <1>3, <1>4, <1>5, <1>6 DEF BpRegs

\* A step that writes no word of the transform unit's memory.
LEMMA XfRegsKept ==
  ASSUME Grown, XfRegs, UNCHANGED xf,
         \A i \in 1..Len(done') : i > Len(done) => done'[i][1] # "xf"
  PROVE  XfRegs'
<1>1. ASSUME NEW c PROVE XfLoads(c)' = XfLoads(c) BY SameLoads
<1>2. ASSUME NEW c \in DOMAIN xf' PROVE CellHolds(c)'
  <2>1. c \in DOMAIN xf /\ xf'[c] = xf[c] OBVIOUS
  <2> QED BY <1>1, <2>1, CellKept DEF XfRegs
<1>3. DOMAIN xf' \subseteq Cells' BY DEF XfRegs, Cells
<1> QED BY <1>2, <1>3 DEF XfRegs

LEMMA RegsSame ==
  ASSUME RegsInv, UNCHANGED <<xf, bp, done>>
  PROVE  RegsInv'
<1>1. PICK S : done \in Seq(S) BY DEF RegsInv, IsSequence
<1>2. Len(done) \in Nat BY <1>1
<1>3. IsSequence(done) /\ IsSequence(done') /\ BpRegs /\ XfRegs /\ LoadsWhole BY DEF RegsInv
<1>4. Grown BY <1>2, <1>3 DEF Grown
<1>5. \A i \in 1..Len(done') : ~(i > Len(done)) BY <1>2
<1>6. LoadsWhole' BY <1>3, <1>4, <1>5, WholeKept
<1> QED BY <1>3, <1>4, <1>5, <1>6, BpRegsKept, XfRegsKept DEF RegsInv

LEMMA AppendGrows ==
  ASSUME IsSequence(done), NEW x, done' = Append(done, x)
  PROVE  /\ Grown /\ Len(done) \in Nat /\ Len(done') = Len(done) + 1
         /\ done'[Len(done) + 1] = x
         /\ \A i \in 1..Len(done') : i > Len(done) => done'[i] = x
<1>1. /\ IsSequence(done') /\ DOMAIN done = 1..Len(done) /\ Len(done) \in Nat
      /\ DOMAIN done' = 1..Len(done) + 1 /\ done'[Len(done) + 1] = x
      /\ \A i \in 1..Len(done) : done'[i] = done[i]
  BY Appended
<1>2. PICK S : done \in Seq(S) BY DEF IsSequence
<1>3. PICK T : T = S \cup {x} OBVIOUS
<1>4. done \in Seq(T) /\ x \in T BY <1>2, <1>3
<1>5. Len(done') = Len(done) + 1 BY <1>4
<1>6. Grown BY <1>1, <1>5 DEF Grown
<1>7. \A i \in 1..Len(done') : i > Len(done) => i = Len(done) + 1 BY <1>1, <1>5
<1> QED BY <1>1, <1>5, <1>6, <1>7

LEMMA JoinGrows ==
  ASSUME IsSequence(done), NEW t, IsSequence(t), done' = done \o t
  PROVE  /\ Grown /\ Len(done) \in Nat /\ Len(t) \in Nat /\ DOMAIN t = 1..Len(t)
         /\ Len(done') = Len(done) + Len(t)
         /\ \A i \in 1..Len(t) : done'[Len(done) + i] = t[i]
         /\ \A i \in 1..Len(done') : i > Len(done) =>
              i - Len(done) \in 1..Len(t) /\ done'[i] = t[i - Len(done)]
<1>1. /\ IsSequence(done') /\ DOMAIN done = 1..Len(done) /\ DOMAIN t = 1..Len(t)
      /\ Len(done) \in Nat /\ Len(t) \in Nat /\ DOMAIN done' = 1..Len(done) + Len(t)
      /\ \A i \in 1..Len(done) : done'[i] = done[i]
      /\ \A i \in 1..Len(t) : done'[Len(done) + i] = t[i]
  BY Joined
<1>2. PICK S : done' \in Seq(S) BY <1>1 DEF IsSequence
<1>3. Len(done') \in Nat /\ DOMAIN done' = 1..Len(done') BY <1>2
<1>4. PICK n \in Nat : n = Len(done) BY <1>1
<1>5. PICK m \in Nat : m = Len(t) BY <1>1
<1>6. PICK q \in Nat : q = Len(done') BY <1>3
<1>7. 1..q = 1..n + m BY <1>1, <1>3, <1>4, <1>5, <1>6
<1>8. q = n + m
  <2>1. q >= 1 => q \in 1..n + m BY <1>7
  <2>2. n + m >= 1 => n + m \in 1..q BY <1>7
  <2> QED BY <2>1, <2>2
<1>9. Grown BY <1>1, <1>4, <1>5, <1>6, <1>8 DEF Grown
<1>10. ASSUME NEW i \in 1..q, i > n PROVE i - n \in 1..m /\ done'[i] = t[i - n]
  <2>1. i - n \in 1..m /\ n + (i - n) = i BY <1>8, <1>10
  <2>2. done'[n + (i - n)] = t[i - n] BY <1>1, <1>4, <1>5, <2>1
  <2> QED BY <2>1, <2>2
<1> QED BY <1>1, <1>4, <1>5, <1>6, <1>8, <1>9, <1>10

-----------------------------------------------------------------------------
(* A write to the blitting processor *)

LEMMA BpFields ==
  ASSUME NEW b, NEW t, NEW p, NEW c, NEW k,
         b = [tlut |-> t, pending |-> p, colour |-> c, tokens |-> k]
  PROVE  /\ b.tlut = t /\ b.pending = p /\ b.colour = c /\ b.tokens = k
         /\ b = [tlut |-> b.tlut, pending |-> b.pending, colour |-> b.colour, tokens |-> b.tokens]
OBVIOUS

\* The registers b are those of bp, with two parts of one colour replaced.
Painted(b, which, first, u, second, v) ==
  /\ b = [tlut |-> bp.tlut, pending |-> bp.pending, colour |-> b.colour,
          tokens |-> bp.tokens]
  /\ b.colour = [w \in (0..3) \X (0..1) |-> b.colour[w]]
  /\ \A w \in (0..3) \X (0..1) :
       b.colour[w] = [i \in 1..4 |->
         IF w # which THEN bp.colour[w][i]
         ELSE IF i = second THEN v ELSE IF i = first THEN u ELSE bp.colour[w][i]]

LEMMA ColourStep ==
  ASSUME BpShape, NEW which \in (0..3) \X (0..1), NEW first \in 1..4, NEW second \in 1..4,
         NEW u, NEW v, NEW b, b = Coloured(which, first, u, second, v)
  PROVE  Painted(b, which, first, u, second, v)
<1>1. PICK W : W = (0..3) \X (0..1) OBVIOUS
<1>2. PICK c : c = bp.colour OBVIOUS
<1>3. PICK d : d = [c EXCEPT ![which][first] = u] OBVIOUS
<1>4. PICK e : e = [d EXCEPT ![which][second] = v] OBVIOUS
<1>5. c = [w \in W |-> c[w]] BY <1>1, <1>2 DEF BpShape
<1>6. \A w \in W : c[w] = [i \in 1..4 |-> c[w][i]] BY <1>1, <1>2 DEF BpShape
<1>7. d = [w \in W |-> IF w = which THEN [c[which] EXCEPT ![first] = u] ELSE c[w]] BY <1>1, <1>3, <1>5
<1>8. d[which] = [i \in 1..4 |-> IF i = first THEN u ELSE c[which][i]] BY <1>1, <1>6, <1>7
<1>9. e = [w \in W |-> IF w = which THEN [d[which] EXCEPT ![second] = v] ELSE d[w]] BY <1>1, <1>4, <1>7
<1>10. e[which] = [i \in 1..4 |-> IF i = second THEN v ELSE IF i = first THEN u ELSE c[which][i]]
  BY <1>1, <1>8, <1>9
<1>11. \A w \in W : w # which => e[w] = c[w] BY <1>7, <1>9
<1>12. b = [bp EXCEPT !.colour = e] BY <1>2, <1>3, <1>4 DEF BpShape, Coloured
<1>13. b = [tlut |-> bp.tlut, pending |-> bp.pending, colour |-> e, tokens |-> bp.tokens]
  BY <1>12 DEF BpShape
<1>14. b.colour = e BY <1>13
<1>15. e = [w \in W |-> e[w]] BY <1>9
<1>16. ASSUME NEW w \in W
       PROVE  e[w] = [i \in 1..4 |->
                IF w # which THEN c[w][i]
                ELSE IF i = second THEN v ELSE IF i = first THEN u ELSE c[w][i]]
  <2>1. CASE w = which BY <1>10, <2>1
  <2>2. CASE w # which
    <3>1. e[w] = c[w] BY <1>11, <2>2
    <3>2. c[w] = [i \in 1..4 |-> c[w][i]] BY <1>6
    <3> QED BY <2>2, <3>1, <3>2
  <2> QED BY <2>1, <2>2
<1>17. b = [tlut |-> bp.tlut, pending |-> bp.pending, colour |-> b.colour, tokens |-> bp.tokens]
  BY <1>13, <1>14, Zenon
<1>18. b.colour = [w \in (0..3) \X (0..1) |-> b.colour[w]] BY <1>1, <1>14, <1>15, Zenon
<1>19. ASSUME NEW w \in (0..3) \X (0..1)
       PROVE  b.colour[w] = [i \in 1..4 |->
                IF w # which THEN bp.colour[w][i]
                ELSE IF i = second THEN v ELSE IF i = first THEN u ELSE bp.colour[w][i]]
  BY <1>1, <1>2, <1>14, <1>16
<1> QED BY <1>17, <1>18, <1>19, Zenon DEF Painted

\* The registers with one of their fields replaced.
LEMMA BpExcept ==
  ASSUME NEW t, NEW p, NEW c, NEW k,
         bp = [tlut |-> t, pending |-> p, colour |-> c, tokens |-> k], NEW x, NEW b
  PROVE  /\ b = [bp EXCEPT !.tlut = x] =>
              b = [tlut |-> x, pending |-> p, colour |-> c, tokens |-> k]
         /\ b = [bp EXCEPT !.pending = x] =>
              b = [tlut |-> t, pending |-> x, colour |-> c, tokens |-> k]
         /\ b = [bp EXCEPT !.tokens = x] =>
              b = [tlut |-> t, pending |-> p, colour |-> c, tokens |-> x]
OBVIOUS

LEMMA BpReplaced ==
  ASSUME NEW t, NEW p, NEW c, NEW k, IsPaletteMap(t), IsColourMap(c),
         bp' = [tlut |-> t, pending |-> p, colour |-> c, tokens |-> k]
  PROVE  BpShape' /\ bp'.tlut = t /\ bp'.pending = p /\ bp'.colour = c
<1>1. PICK b : b = bp' OBVIOUS
<1>2. b = [tlut |-> t, pending |-> p, colour |-> c, tokens |-> k] BY <1>1
<1>3. /\ b.tlut = t /\ b.pending = p /\ b.colour = c
      /\ b = [tlut |-> b.tlut, pending |-> b.pending, colour |-> b.colour, tokens |-> b.tokens]
  BY <1>2, BpFields
<1>4. BpShape' BY <1>1, <1>3 DEF BpShape, IsPaletteMap, IsColourMap
<1> QED BY <1>1, <1>3, <1>4

\* What a write of val to reg does, field by field.
LEMMA BpCases ==
  ASSUME NEW reg \in Byte, NEW val \in Nat
  PROVE  /\ reg = 100 => BpAfter(reg, val) = [bp EXCEPT !.pending = AddressOf(val)]
         /\ reg = 101 => BpAfter(reg, val) =
              [bp EXCEPT !.tlut = IF TmemOf(val) \in Palettes THEN [@ EXCEPT ![TmemOf(val)] = bp.pending] ELSE @]
         /\ reg \notin {100, 101} \cup 224..231 =>
              BpAfter(reg, val) = bp \/ BpAfter(reg, val) = [bp EXCEPT !.tokens = @ + 1]
<1>1. reg = 100 => BpAfter(reg, val) = [bp EXCEPT !.pending = AddressOf(val)]
  BY SMT DEF BpAfter
<1>2. reg = 101 => BpAfter(reg, val) =
        [bp EXCEPT !.tlut = IF TmemOf(val) \in Palettes THEN [@ EXCEPT ![TmemOf(val)] = bp.pending] ELSE @]
  BY SMT DEF BpAfter
<1>3. reg \notin {100, 101} \cup 224..231 =>
        BpAfter(reg, val) = bp \/ BpAfter(reg, val) = [bp EXCEPT !.tokens = @ + 1]
  BY SMT DEF BpAfter
<1> QED BY <1>1, <1>2, <1>3

\* What the registers are after a write of val to reg.
LEMMA BpStep ==
  ASSUME BpShape, NEW reg \in Byte, NEW val \in Nat, IsKonst(val) \in 0..1,
         bp' = BpAfter(reg, val)
  PROVE  /\ BpShape'
         /\ bp'.pending = IF reg = 100 THEN AddressOf(val) ELSE bp.pending
         /\ \A o \in Palettes :
              bp'.tlut[o] = IF reg = 101 /\ TmemOf(val) = o THEN bp.pending ELSE bp.tlut[o]
         /\ \A which \in (0..3) \X (0..1) :
              bp'.colour[which][1] =
                IF reg = 224 + 2 * which[1] /\ IsKonst(val) = which[2] THEN TevField(val)
                ELSE bp.colour[which][1]
<1>0. reg \in Nat /\ reg <= 255 BY DEF Byte
<1>1. PICK tlut, pending, colour, tokens :
        tlut = bp.tlut /\ pending = bp.pending /\ colour = bp.colour /\ tokens = bp.tokens
  OBVIOUS
<1>2. bp = [tlut |-> tlut, pending |-> pending, colour |-> colour, tokens |-> tokens]
  BY <1>1 DEF BpShape
<1>3. /\ tlut = [o \in Palettes |-> tlut[o]]
      /\ IsColourMap(colour) /\ IsPaletteMap(tlut)
  BY <1>1 DEF BpShape, IsColourMap, IsPaletteMap
<1>4. CASE reg = 100
  <2>1. PICK address : address = AddressOf(val) OBVIOUS
  <2>2. bp' = [bp EXCEPT !.pending = address] BY <1>4, <2>1, BpCases
  <2>3. bp' = [tlut |-> tlut, pending |-> address, colour |-> colour, tokens |-> tokens]
    BY <1>2, <2>2, BpExcept
  <2>4. BpShape' /\ bp'.tlut = tlut /\ bp'.pending = address /\ bp'.colour = colour
    BY <1>3, <2>3, BpReplaced
  <2>5. \A which \in (0..3) \X (0..1) : reg # 224 + 2 * which[1] BY <1>4
  <2> QED BY <1>1, <1>4, <2>1, <2>4, <2>5
<1>5. CASE reg = 101
  <2>1. PICK t : t = [o \in Palettes |-> IF TmemOf(val) = o THEN pending ELSE tlut[o]] OBVIOUS
  <2>8. TmemOf(val) \in Palettes => [tlut EXCEPT ![TmemOf(val)] = pending] = t BY <1>3, <2>1
  <2>9. TmemOf(val) \notin Palettes => tlut = t BY <1>3, <2>1
  <2>10. bp' = [bp EXCEPT !.tlut = IF TmemOf(val) \in Palettes THEN [@ EXCEPT ![TmemOf(val)] = bp.pending] ELSE @]
    BY <1>5, BpCases
  <2>2. bp' = [bp EXCEPT !.tlut = t] BY <1>1, <2>8, <2>9, <2>10
  <2>3. bp' = [tlut |-> t, pending |-> pending, colour |-> colour, tokens |-> tokens]
    BY <1>2, <2>2, BpExcept
  <2>4. \A o \in Palettes : t[o] = IF TmemOf(val) = o THEN pending ELSE tlut[o] BY <1>3, <2>1
  <2>5. IsPaletteMap(t) BY <1>3, <2>1 DEF IsPaletteMap
  <2>6. BpShape' /\ bp'.tlut = t /\ bp'.pending = pending /\ bp'.colour = colour
    BY <1>3, <2>3, <2>5, BpReplaced
  <2>7. \A which \in (0..3) \X (0..1) : reg # 224 + 2 * which[1] BY <1>5
  <2> QED BY <1>1, <1>5, <2>4, <2>6, <2>7
<1>6. CASE reg \in 224..231
  <2>1. PICK m \in 0..3 : m = (reg - 224) \div 2 BY <1>6
  <2>2. PICK j \in 0..1 : j = IsKonst(val) OBVIOUS
  <2>3. PICK which : which = <<m, j>> OBVIOUS
  <2>4. which \in (0..3) \X (0..1) /\ which = <<(reg - 224) \div 2, IsKonst(val)>>
    BY <2>1, <2>2, <2>3
  <2>5. PICK first \in 1..4 : first = IF reg % 2 = 0 THEN 1 ELSE 3 OBVIOUS
  <2>6. PICK second \in 1..4 : second = IF reg % 2 = 0 THEN 4 ELSE 2 OBVIOUS
  <2>7. PICK u : u = TevField(val) OBVIOUS
  <2>8. PICK v : v = TevField(val \div 4096) OBVIOUS
  <2>9. ~(reg = 69 /\ (val \div 2) % 2 = 1) /\ reg # 100 /\ reg # 101 BY <1>6
  <2>10. BpAfter(reg, val) = Coloured(which, first, u, second, v)
    BY <1>6, <2>4, <2>5, <2>6, <2>7, <2>8, <2>9 DEF BpAfter
  <2>11. PICK b : b = bp' OBVIOUS
  <2>12. /\ b = [tlut |-> bp.tlut, pending |-> bp.pending, colour |-> b.colour,
                 tokens |-> bp.tokens]
         /\ b.colour = [w \in (0..3) \X (0..1) |-> b.colour[w]]
         /\ \A w \in (0..3) \X (0..1) :
              b.colour[w] = [i \in 1..4 |->
                IF w # which THEN bp.colour[w][i]
                ELSE IF i = second THEN v ELSE IF i = first THEN u ELSE bp.colour[w][i]]
    <3>1. b = Coloured(which, first, u, second, v) BY <2>10, <2>11
    <3>2. Painted(b, which, first, u, second, v) BY <2>4, <3>1, ColourStep
    <3> QED BY <3>2, Zenon DEF Painted
  <2>13. PICK c : c = b.colour OBVIOUS
  <2>14. /\ bp' = [tlut |-> tlut, pending |-> pending, colour |-> c, tokens |-> tokens]
         /\ c = [w \in (0..3) \X (0..1) |-> c[w]]
    BY <1>1, <2>11, <2>12, <2>13, Zenon
  <2>15. ASSUME NEW w \in (0..3) \X (0..1)
         PROVE  /\ c[w] = [i \in 1..4 |-> c[w][i]]
                /\ c[w][1] = IF w # which THEN colour[w][1]
                             ELSE IF 1 = second THEN v ELSE IF 1 = first THEN u ELSE colour[w][1]
    <3>1. c[w] = [i \in 1..4 |->
                IF w # which THEN colour[w][i]
                ELSE IF i = second THEN v ELSE IF i = first THEN u ELSE colour[w][i]]
      BY <1>1, <2>12, <2>13, Zenon
    <3> QED BY <3>1
  <2>16. BpShape' /\ bp'.tlut = tlut /\ bp'.pending = pending /\ bp'.colour = c
    <3>1. IsColourMap(c) BY <2>14, <2>15, Zenon DEF IsColourMap
    <3> QED BY <1>3, <2>14, <3>1, BpReplaced
  <2>17. ASSUME NEW w \in (0..3) \X (0..1)
         PROVE  c[w][1] = IF reg = 224 + 2 * w[1] /\ IsKonst(val) = w[2] THEN TevField(val)
                          ELSE colour[w][1]
    <3>1. second # 1 /\ (first = 1 <=> reg % 2 = 0) BY <2>5, <2>6
    <3>2. w = which /\ reg % 2 = 0 <=> reg = 224 + 2 * w[1] /\ j = w[2]
      <4>1. PICK x \in 0..3, y \in 0..1 : w = <<x, y>> OBVIOUS
      <4>2. x = m /\ reg % 2 = 0 <=> reg = 224 + 2 * x BY <1>6, <2>1
      <4> QED BY <2>3, <4>1, <4>2
    <3> QED BY <2>2, <2>7, <2>15, <3>1, <3>2
  <2> QED BY <1>1, <1>6, <2>16, <2>17
<1>7. CASE reg \notin {100, 101} \cup 224..231
  <2>1. bp' = bp \/ bp' = [bp EXCEPT !.tokens = @ + 1] BY <1>7, BpCases
  <2>3. \E n : bp' = [tlut |-> tlut, pending |-> pending, colour |-> colour, tokens |-> n]
    <3>1. CASE bp' = bp BY <1>2, <3>1
    <3>2. CASE bp' = [bp EXCEPT !.tokens = @ + 1]
      <4>1. PICK n : n = bp.tokens + 1 OBVIOUS
      <4>2. bp' = [bp EXCEPT !.tokens = n] BY <3>2, <4>1
      <4>3. bp' = [tlut |-> tlut, pending |-> pending, colour |-> colour, tokens |-> n]
        BY <1>2, <4>2, BpExcept
      <4> QED BY <4>3
    <3> QED BY <2>1, <3>1, <3>2
  <2>4. PICK n : bp' = [tlut |-> tlut, pending |-> pending, colour |-> colour, tokens |-> n]
    BY <2>3
  <2>5. BpShape' /\ bp'.tlut = tlut /\ bp'.pending = pending /\ bp'.colour = colour
    BY <1>3, <2>4, BpReplaced
  <2>6. \A which \in (0..3) \X (0..1) : reg # 224 + 2 * which[1] BY <1>7
  <2> QED BY <1>1, <1>7, <2>5, <2>6
<1> QED BY <1>4, <1>5, <1>6, <1>7

\* The writes that count for a colour and for a palette, member by member.
LEMMA ColourMembers ==
  ASSUME NEW which, NEW of, NEW new,
         of = Writes(224 + 2 * which[1]), new = Writes(224 + 2 * which[1])'
  PROVE  /\ \A k : k \in ColourWrites(which) <=> k \in of /\ IsKonst(done[k][3]) = which[2]
         /\ \A k : k \in ColourWrites(which)' <=> k \in new /\ IsKonst(done'[k][3]) = which[2]
BY DEF ColourWrites

LEMMA PaletteMembers ==
  ASSUME NEW o, NEW of, NEW new, of = Writes(101), new = Writes(101)'
  PROVE  /\ \A k : k \in PaletteLoads(o) <=> k \in of /\ TmemOf(done[k][3]) = o
         /\ \A k : k \in PaletteLoads(o)' <=> k \in new /\ TmemOf(done'[k][3]) = o
BY DEF PaletteLoads

\* One more.
Plus(S, n) == S \cup {n}

LEMMA ColourAdded ==
  ASSUME NEW which, NEW r, r = 224 + 2 * which[1], NEW of, NEW n, of = Writes(r),
         Writes(r)' = Plus(of, n), \A k \in of : done'[k] = done[k], IsKonst(done'[n][3]) = which[2]
  PROVE  ColourWrites(which)' = Plus(ColourWrites(which), n)
<1>1. PICK new : new = Writes(r)' OBVIOUS
<1>2. PICK old : old = ColourWrites(which) OBVIOUS
<1>3. PICK now : now = ColourWrites(which)' OBVIOUS
<1>4. \A k : k \in old <=> k \in of /\ IsKonst(done[k][3]) = which[2] BY <1>2, ColourMembers
<1>5. \A k : k \in now <=> k \in new /\ IsKonst(done'[k][3]) = which[2] BY <1>3, <1>1, ColourMembers
<1>6. new = of \cup {n} BY <1>1 DEF Plus
<1>7. ASSUME NEW k PROVE k \in now <=> k \in old \cup {n}
  <2>1. CASE k = n BY <1>5, <1>6, <2>1
  <2>2. CASE k # n /\ k \in of
    <3>1. done'[k] = done[k] BY <2>2
    <3> QED BY <1>4, <1>5, <1>6, <2>2, <3>1
  <2>3. CASE k # n /\ k \notin of BY <1>4, <1>5, <1>6, <2>3
  <2> QED BY <2>1, <2>2, <2>3
<1>8. now = Plus(old, n) BY <1>7 DEF Plus
<1> QED BY <1>2, <1>3, <1>8

LEMMA ColourSame ==
  ASSUME NEW which, NEW r, r = 224 + 2 * which[1], NEW of, of = Writes(r),
         \A k \in of : done'[k] = done[k],
         Writes(r)' = of
  PROVE  ColourWrites(which)' = ColourWrites(which)
<1>1. PICK new : new = Writes(r)' OBVIOUS
<1>2. PICK old : old = ColourWrites(which) OBVIOUS
<1>3. PICK now : now = ColourWrites(which)' OBVIOUS
<1>4. \A k : k \in old <=> k \in of /\ IsKonst(done[k][3]) = which[2] BY <1>2, ColourMembers
<1>5. \A k : k \in now <=> k \in new /\ IsKonst(done'[k][3]) = which[2] BY <1>3, <1>1, ColourMembers
<1>6. new = of BY <1>1
<1>7. ASSUME NEW k PROVE k \in now <=> k \in old
  <2>1. CASE k \in of
    <3>1. done'[k] = done[k] BY <2>1
    <3> QED BY <1>4, <1>5, <1>6, <2>1, <3>1
  <2>2. CASE k \notin of BY <1>4, <1>5, <1>6, <2>2
  <2> QED BY <2>1, <2>2
<1>8. now = old BY <1>7
<1> QED BY <1>2, <1>3, <1>8

LEMMA ColourOther ==
  ASSUME NEW which, NEW r, r = 224 + 2 * which[1], NEW of, NEW n, of = Writes(r),
         \A k \in of : done'[k] = done[k],
         n \notin of, Writes(r)' = Plus(of, n), ~(IsKonst(done'[n][3]) = which[2])
  PROVE  ColourWrites(which)' = ColourWrites(which)
<1>1. PICK new : new = Writes(r)' OBVIOUS
<1>2. PICK old : old = ColourWrites(which) OBVIOUS
<1>3. PICK now : now = ColourWrites(which)' OBVIOUS
<1>4. \A k : k \in old <=> k \in of /\ IsKonst(done[k][3]) = which[2] BY <1>2, ColourMembers
<1>5. \A k : k \in now <=> k \in new /\ IsKonst(done'[k][3]) = which[2] BY <1>3, <1>1, ColourMembers
<1>6. new = of \cup {n} BY <1>1 DEF Plus
<1>7. ASSUME NEW k PROVE k \in now <=> k \in old
  <2>1. CASE k = n BY <1>4, <1>5, <1>6, <2>1
  <2>2. CASE k # n /\ k \in of
    <3>1. done'[k] = done[k] BY <2>2
    <3> QED BY <1>4, <1>5, <1>6, <2>2, <3>1
  <2>3. CASE k # n /\ k \notin of BY <1>4, <1>5, <1>6, <2>3
  <2> QED BY <2>1, <2>2, <2>3
<1>8. now = old BY <1>7
<1> QED BY <1>2, <1>3, <1>8

LEMMA PaletteAdded ==
  ASSUME NEW o, NEW of, NEW n, of = Writes(101), Writes(101)' = Plus(of, n),
         \A k \in of : done'[k] = done[k], TmemOf(done'[n][3]) = o
  PROVE  PaletteLoads(o)' = Plus(PaletteLoads(o), n)
<1>1. PICK new : new = Writes(101)' OBVIOUS
<1>2. PICK old : old = PaletteLoads(o) OBVIOUS
<1>3. PICK now : now = PaletteLoads(o)' OBVIOUS
<1>4. \A k : k \in old <=> k \in of /\ TmemOf(done[k][3]) = o BY <1>2, PaletteMembers
<1>5. \A k : k \in now <=> k \in new /\ TmemOf(done'[k][3]) = o BY <1>3, <1>1, PaletteMembers
<1>6. new = of \cup {n} BY <1>1 DEF Plus
<1>7. ASSUME NEW k PROVE k \in now <=> k \in old \cup {n}
  <2>1. CASE k = n BY <1>5, <1>6, <2>1
  <2>2. CASE k # n /\ k \in of
    <3>1. done'[k] = done[k] BY <2>2
    <3> QED BY <1>4, <1>5, <1>6, <2>2, <3>1
  <2>3. CASE k # n /\ k \notin of BY <1>4, <1>5, <1>6, <2>3
  <2> QED BY <2>1, <2>2, <2>3
<1>8. now = Plus(old, n) BY <1>7 DEF Plus
<1> QED BY <1>2, <1>3, <1>8

LEMMA PaletteSame ==
  ASSUME NEW o, NEW of, of = Writes(101),
         \A k \in of : done'[k] = done[k],
         Writes(101)' = of
  PROVE  PaletteLoads(o)' = PaletteLoads(o)
<1>1. PICK new : new = Writes(101)' OBVIOUS
<1>2. PICK old : old = PaletteLoads(o) OBVIOUS
<1>3. PICK now : now = PaletteLoads(o)' OBVIOUS
<1>4. \A k : k \in old <=> k \in of /\ TmemOf(done[k][3]) = o BY <1>2, PaletteMembers
<1>5. \A k : k \in now <=> k \in new /\ TmemOf(done'[k][3]) = o BY <1>3, <1>1, PaletteMembers
<1>6. new = of BY <1>1
<1>7. ASSUME NEW k PROVE k \in now <=> k \in old
  <2>1. CASE k \in of
    <3>1. done'[k] = done[k] BY <2>1
    <3> QED BY <1>4, <1>5, <1>6, <2>1, <3>1
  <2>2. CASE k \notin of BY <1>4, <1>5, <1>6, <2>2
  <2> QED BY <2>1, <2>2
<1>8. now = old BY <1>7
<1> QED BY <1>2, <1>3, <1>8

LEMMA PaletteOther ==
  ASSUME NEW o, NEW of, NEW n, of = Writes(101),
         \A k \in of : done'[k] = done[k],
         n \notin of, Writes(101)' = Plus(of, n), ~(TmemOf(done'[n][3]) = o)
  PROVE  PaletteLoads(o)' = PaletteLoads(o)
<1>1. PICK new : new = Writes(101)' OBVIOUS
<1>2. PICK old : old = PaletteLoads(o) OBVIOUS
<1>3. PICK now : now = PaletteLoads(o)' OBVIOUS
<1>4. \A k : k \in old <=> k \in of /\ TmemOf(done[k][3]) = o BY <1>2, PaletteMembers
<1>5. \A k : k \in now <=> k \in new /\ TmemOf(done'[k][3]) = o BY <1>3, <1>1, PaletteMembers
<1>6. new = of \cup {n} BY <1>1 DEF Plus
<1>7. ASSUME NEW k PROVE k \in now <=> k \in old
  <2>1. CASE k = n BY <1>4, <1>5, <1>6, <2>1
  <2>2. CASE k # n /\ k \in of
    <3>1. done'[k] = done[k] BY <2>2
    <3> QED BY <1>4, <1>5, <1>6, <2>2, <3>1
  <2>3. CASE k # n /\ k \notin of BY <1>4, <1>5, <1>6, <2>3
  <2> QED BY <2>1, <2>2, <2>3
<1>8. now = old BY <1>7
<1> QED BY <1>2, <1>3, <1>8

\* One register of the blitting processor is written, and no other has changed.
LEMMA BpWritten ==
  ASSUME IsSequence(done), BpRegs, NEW reg \in Byte, NEW val \in Nat, IsKonst(val) \in 0..1,
         bp' = BpAfter(reg, val), done' = Append(done, <<"bp", reg, val>>)
  PROVE  BpRegs'
<1>1. PICK x : x = <<"bp", reg, val>> BY Zenon
<1>2. x[1] = "bp" /\ x[2] = reg /\ x[3] = val BY <1>1
<1>3. /\ Grown /\ Len(done) \in Nat /\ Len(done') = Len(done) + 1
      /\ done'[Len(done) + 1] = x
      /\ \A i \in 1..Len(done') : i > Len(done) => done'[i] = x
  BY <1>1, AppendGrows
<1>4. PICK n \in Nat : n = Len(done) BY <1>3
<1>5. /\ BpShape'
      /\ bp'.pending = IF reg = 100 THEN AddressOf(val) ELSE bp.pending
      /\ \A o \in Palettes :
           bp'.tlut[o] = IF reg = 101 /\ TmemOf(val) = o THEN bp.pending ELSE bp.tlut[o]
      /\ \A which \in (0..3) \X (0..1) :
           bp'.colour[which][1] =
             IF reg = 224 + 2 * which[1] /\ IsKonst(val) = which[2] THEN TevField(val)
             ELSE bp.colour[which][1]
  BY BpStep DEF BpRegs
<1>6. ASSUME NEW r, r # reg PROVE Writes(r)' = Writes(r)
  <2>1. \A i \in 1..Len(done') : i > Len(done) => ~(done'[i][1] = "bp" /\ done'[i][2] = r)
    BY <1>2, <1>3, <1>6
  <2> QED BY <1>3, <2>1, SameWrites
<1>13. PICK m : m = n + 1 OBVIOUS
<1>7. Writes(reg)' = Writes(reg) \cup {n + 1} BY <1>2, <1>3, <1>4, AddedWrite
<1>8. ASSUME NEW r PROVE Writes(r) \subseteq 1..n /\ \A k \in Writes(r) : done'[k] = done[k]
  <2>1. Writes(r) \subseteq 1..n BY <1>4, WritesPlaces
  <2>2. \A k \in 1..n : done'[k] = done[k] BY <1>3, <1>4 DEF Grown
  <2> QED BY <2>1, <2>2
<1>9. done'[n + 1][3] = val BY <1>2, <1>3, <1>4
<1>10. PendingHolds'
  <2>1. CASE reg = 100
    <3>1. Writes(100)' = Writes(100) \cup {Len(done) + 1} BY <1>4, <1>7, <2>1
    <3>2. bp'.pending = AddressOf(done'[Len(done) + 1][3]) BY <1>4, <1>5, <1>9, <2>1
    <3> QED BY <1>3, <3>1, <3>2, PendingSet
  <2>2. CASE reg # 100
    <3>1. Writes(100)' = Writes(100) BY <1>6, <2>2
    <3>2. bp'.pending = bp.pending BY <1>5, <2>2
    <3> QED BY <1>3, <3>1, <3>2, PendingKept DEF BpRegs
  <2> QED BY <2>1, <2>2
<1>11. ASSUME NEW o \in Palettes PROVE PaletteHolds(o)'
  <2>0. PaletteHolds(o) /\ PendingHolds BY DEF BpRegs
  <2>1. CASE reg = 101 /\ TmemOf(val) = o
    <3>1. PICK of : of = Writes(101) OBVIOUS
    <3>2. Writes(101)' = of \cup {n + 1} BY <1>7, <2>1, <3>1
    <3>3. \A k \in of : done'[k] = done[k] BY <1>8, <3>1
    <3>4. PaletteLoads(o)' = PaletteLoads(o) \cup {n + 1}
      <4>1. Writes(101)' = Plus(of, m) BY <1>13, <3>2 DEF Plus
      <4>2. done'[m][3] = val BY <1>9, <1>13
      <4>3. TmemOf(done'[m][3]) = o BY <2>1, <4>2
      <4>4. PaletteLoads(o)' = Plus(PaletteLoads(o), m) BY <3>1, <3>3, <4>1, <4>3, PaletteAdded
      <4> QED BY <1>13, <4>4 DEF Plus
    <3>5. Writes(100)' = Writes(100) BY <1>6, <2>1
    <3>6. bp'.tlut[o] = bp.pending BY <1>5, <2>1
    <3> QED BY <1>3, <1>4, <2>0, <3>4, <3>5, <3>6, PaletteSet
  <2>2. CASE ~(reg = 101 /\ TmemOf(val) = o)
    <3>1. bp'.tlut[o] = bp.tlut[o] BY <1>5, <2>2
    <3>2. PICK of : of = Writes(101) OBVIOUS
    <3>3. \A k \in of : done'[k] = done[k] BY <1>8, <3>2
    <3>4. PaletteLoads(o)' = PaletteLoads(o)
      <4>1. CASE reg = 101
        <5>1. Writes(101)' = Plus(of, m) BY <1>7, <1>13, <3>2, <4>1 DEF Plus
        <5>3. done'[m][3] = val BY <1>9, <1>13
        <5>2. TmemOf(done'[m][3]) # o BY <2>2, <4>1, <5>3
        <5>4. m \notin of BY <1>8, <1>13, <3>2
        <5> QED BY <3>2, <3>3, <5>1, <5>2, <5>4, PaletteOther
      <4>2. CASE reg # 101
        <5>1. Writes(101)' = of BY <1>6, <3>2, <4>2
        <5> QED BY <3>2, <3>3, <5>1, PaletteSame
      <4> QED BY <4>1, <4>2
    <3>5. \/ Writes(100)' = Writes(100)
          \/ Writes(100)' = Writes(100) \cup {Len(done) + 1}
      <4>1. CASE reg = 100 BY <1>4, <1>7, <4>1
      <4>2. CASE reg # 100 BY <1>6, <4>2
      <4> QED BY <4>1, <4>2
    <3> QED BY <1>3, <2>0, <3>1, <3>4, <3>5, PaletteKept
  <2> QED BY <2>1, <2>2
<1>12. ASSUME NEW which \in (0..3) \X (0..1) PROVE ColourHolds(which)'
  <2>0. ColourHolds(which) BY DEF BpRegs
  <2>1. PICK r : r = 224 + 2 * which[1] OBVIOUS
  <2>2. PICK of : of = Writes(r) OBVIOUS
  <2>3. \A k \in of : done'[k] = done[k] BY <1>8, <2>2
  <2>4. CASE reg = r /\ IsKonst(val) = which[2]
    <3>1. Writes(r)' = of \cup {n + 1} BY <1>7, <2>2, <2>4
    <3>2. ColourWrites(which)' = ColourWrites(which) \cup {n + 1}
      <4>1. Writes(r)' = Plus(of, m) BY <1>13, <3>1 DEF Plus
      <4>2. IsKonst(done'[m][3]) = which[2] BY <1>9, <1>13, <2>4
      <4>3. ColourWrites(which)' = Plus(ColourWrites(which), m)
        BY <2>1, <2>2, <2>3, <4>1, <4>2, ColourAdded
      <4> QED BY <1>13, <4>3 DEF Plus
    <3>3. bp'.colour[which][1] = TevField(done'[Len(done) + 1][3]) BY <1>4, <1>5, <1>9, <2>1, <2>4
    <3> QED BY <1>3, <1>4, <3>2, <3>3, ColourSet
  <2>5. CASE ~(reg = r /\ IsKonst(val) = which[2])
    <3>1. bp'.colour[which][1] = bp.colour[which][1] BY <1>5, <2>1, <2>5
    <3>2. ColourWrites(which)' = ColourWrites(which)
      <4>1. CASE reg = r
        <5>1. Writes(r)' = Plus(of, m) BY <1>7, <1>13, <2>2, <4>1 DEF Plus
        <5>2. IsKonst(done'[m][3]) # which[2] BY <1>9, <1>13, <2>5, <4>1
        <5>3. m \notin of BY <1>8, <1>13, <2>2
        <5> QED BY <2>1, <2>2, <2>3, <5>1, <5>2, <5>3, ColourOther
      <4>2. CASE reg # r
        <5>1. Writes(r)' = of BY <1>6, <2>2, <4>2
        <5> QED BY <2>1, <2>2, <2>3, <5>1, ColourSame
      <4> QED BY <4>1, <4>2
    <3> QED BY <1>3, <2>0, <3>1, <3>2, ColourKept
  <2> QED BY <2>4, <2>5
<1> QED BY <1>5, <1>10, <1>11, <1>12 DEF BpRegs

LEMMA LoadBpKeeps ==
  ASSUME FeedsInv, ParserInv, CpInv, RegsInv, StreamAssumption, NEW len, len = Known, LoadBp(len)
  PROVE  RegsInv'
<1>1. /\ parser.opcode \in {LOAD_BP} /\ len \in Nat /\ Fits(parser.opcode, len)
      /\ Body(len) \in Seq(Byte) /\ Len(Body(len)) = len
  BY WholeBody DEF LoadBp
<1>2. len = 4 BY <1>1 DEF Fits
<1>3. PICK body \in Seq(Byte) : body = Body(len) BY <1>1
<1>4. Len(body) = 4 BY <1>1, <1>2, <1>3
<1>5. PICK reg \in Byte : reg = body[1] BY <1>4, ByteOf
<1>20. \A i \in 1..4 : body[i] \in Byte BY <1>4, ByteOf
<1>16. PICK high \in Byte : high = body[2] BY <1>20
<1>17. PICK middle \in Byte : middle = body[3] BY <1>20
<1>6. PICK low \in Byte : low = body[4] BY <1>20
<1>18. high \in 0..255 /\ middle \in 0..255 /\ low \in 0..255 BY DEF Byte
<1>7. PICK val : val = (body[2] * 256 + body[3]) * 256 + body[4] OBVIOUS
<1>19. val = (high * 256 + middle) * 256 + low BY <1>6, <1>7, <1>16, <1>17
<1>8. val \in Nat /\ IsKonst(val) \in 0..1 BY <1>18, <1>19, SMT DEF IsKonst
<1>9. PICK x : x = <<"bp", reg, val>> OBVIOUS
<1>10. bp' = BpAfter(reg, val) /\ done' = Append(done, x) /\ xf' = xf
  BY <1>3, <1>5, <1>7, <1>9 DEF LoadBp
<1>11. IsSequence(done) /\ BpRegs /\ XfRegs /\ LoadsWhole BY DEF RegsInv
<1>12. BpRegs' BY <1>8, <1>9, <1>10, <1>11, BpWritten
<1>13. x[1] = "bp" BY <1>9
<1>14. Grown /\ \A i \in 1..Len(done') : i > Len(done) => done'[i] = x
  BY <1>10, <1>11, AppendGrows
<1>15. XfRegs' BY <1>10, <1>11, <1>13, <1>14, XfRegsKept
<1>21. LoadsWhole' BY <1>11, <1>13, <1>14, WholeKept
<1> QED BY <1>12, <1>14, <1>15, <1>21 DEF RegsInv, Grown

-----------------------------------------------------------------------------
(* The transform unit's memory *)

LEMMA Tables ==
  /\ \A t \in XfTables : /\ t.name # "none" /\ t.base \in Nat /\ t.size \in Nat /\ t.size <= 256
                         /\ t = [name |-> t.name, base |-> t.base, size |-> t.size]
  /\ \A t, u \in XfTables : t.name = u.name => t = u
<1>1. ASSUME NEW t \in XfTables
      PROVE  /\ t.name # "none" /\ t.base \in Nat /\ t.size \in Nat /\ t.size <= 256
             /\ t = [name |-> t.name, base |-> t.base, size |-> t.size]
  BY DEF XfTables
<1>2. ASSUME NEW t \in XfTables, NEW u \in XfTables, t.name = u.name PROVE t = u
  <2>1. t.base = u.base /\ t.size = u.size BY <1>2 DEF XfTables
  <2> QED BY <1>1, <1>2, <2>1
<1> QED BY <1>1, <1>2

\* A word that is kept has its own place in its table.
LEMMA TableWord ==
  ASSUME NEW a \in Nat, TableOf(a).name # "none"
  PROVE  TableOf(a) \in XfTables /\ a - TableOf(a).base \in 0..255
<1>1. PICK tables : tables = {t \in XfTables : a \in t.base..(t.base + t.size - 1)} OBVIOUS
<1>2. TableOf(a) = IF tables = {} THEN NoTable ELSE CHOOSE t \in tables : TRUE BY <1>1 DEF TableOf
<1>3. tables # {} BY <1>2 DEF NoTable
<1>4. TableOf(a) \in tables BY <1>2, <1>3
<1>5. PICK t \in XfTables : t = TableOf(a) /\ a \in t.base..(t.base + t.size - 1) BY <1>1, <1>4
<1>6. t.base \in Nat /\ t.size \in Nat /\ t.size <= 256 BY Tables
<1>7. a - t.base \in 0..255 BY <1>5, <1>6
<1> QED BY <1>5, <1>7

\* The writes of one command, word by word.
WordWrite(a, w) == <<"xf", TableOf(a).name, a - TableOf(a).base, w>>

LEMMA XfEntries ==
  ASSUME NEW addr \in Nat, NEW n \in Nat, NEW words, DOMAIN words = 1..n,
         NEW ws, ws = XfWrites(addr, words)
  PROVE  /\ IsSequence(ws) /\ Len(ws) = n /\ DOMAIN ws = 1..n
         /\ \A i \in 1..n : ws[i] = WordWrite(addr + i - 1, words[i])
<1>1. ws = [i \in 1..n |-> WordWrite(addr + i - 1, words[i])] BY DEF XfWrites, WordWrite
<1>2. ws = [i \in 1..n |-> ws[i]] BY <1>1
<1>3. IsSequence(ws) /\ Len(ws) = n /\ DOMAIN ws = 1..n BY <1>2, Listed
<1> QED BY <1>1, <1>3

LEMMA XfCells ==
  ASSUME NEW addr \in Nat, NEW n \in Nat, NEW words, DOMAIN words = 1..n,
         NEW ws, ws = XfWrites(addr, words)
  PROVE  /\ Kept(ws) \subseteq 1..n
         /\ \A i \in 1..n : ws[i][1] = "xf" /\ ws[i][4] = words[i]
         /\ \A i \in 1..n : i \notin Kept(ws) => ws[i][2] = "none"
         /\ \A i \in Kept(ws) : Cell(ws[i]) \in Cells
         /\ \A i, j \in Kept(ws) : Cell(ws[i]) = Cell(ws[j]) => i = j
<1>1. /\ DOMAIN ws = 1..n
      /\ \A i \in 1..n : ws[i] = WordWrite(addr + i - 1, words[i])
  BY XfEntries
<1>2. Kept(ws) = {i \in 1..n : ws[i][2] # "none"} BY <1>1 DEF Kept
<1>3. ASSUME NEW i \in Kept(ws)
      PROVE  \E t \in XfTables : /\ addr + i - 1 - t.base \in 0..255 /\ t.base \in Nat
                                 /\ ws[i][2] = t.name /\ ws[i][3] = addr + i - 1 - t.base
  <2>1. i \in 1..n /\ ws[i][2] # "none" BY <1>2
  <2>2. PICK a \in Nat : a = addr + i - 1 BY <2>1
  <2>3. ws[i] = WordWrite(a, words[i]) BY <1>1, <2>1, <2>2
  <2>4. ws[i][2] = TableOf(a).name /\ ws[i][3] = a - TableOf(a).base BY <2>3 DEF WordWrite
  <2>5. TableOf(a) \in XfTables /\ a - TableOf(a).base \in 0..255 BY <2>1, <2>4, TableWord
  <2>6. TableOf(a).base \in Nat BY <2>5, Tables
  <2>7. PICK t \in XfTables : t = TableOf(a) BY <2>5
  <2>9. a - t.base \in 0..255 /\ t.base \in Nat /\ ws[i][2] = t.name /\ ws[i][3] = a - t.base
    BY <2>4, <2>5, <2>6, <2>7
  <2>10. PICK base \in Nat : base = t.base BY <2>9
  <2>11. a - t.base = addr + i - 1 - t.base BY <2>1, <2>2, <2>10
  <2>8. /\ addr + i - 1 - t.base \in 0..255 /\ t.base \in Nat
        /\ ws[i][2] = t.name /\ ws[i][3] = addr + i - 1 - t.base
    BY <2>9, <2>11
  <2> QED BY <2>8
<1>4. ASSUME NEW i \in Kept(ws) PROVE Cell(ws[i]) \in Cells
  <2>1. PICK t \in XfTables : addr + i - 1 - t.base \in 0..255 /\ ws[i][2] = t.name
                              /\ ws[i][3] = addr + i - 1 - t.base
    BY <1>3
  <2>2. PICK x \in 0..255 : x = ws[i][3] BY <2>1
  <2>3. Cell(ws[i]) = <<t.name, x>> BY <2>1, <2>2 DEF Cell
  <2> QED BY <2>3 DEF Cells
<1>5. ASSUME NEW i \in Kept(ws), NEW j \in Kept(ws), Cell(ws[i]) = Cell(ws[j]) PROVE i = j
  <2>1. PICK t \in XfTables : ws[i][2] = t.name /\ ws[i][3] = addr + i - 1 - t.base /\ t.base \in Nat
    BY <1>3
  <2>2. PICK u \in XfTables : ws[j][2] = u.name /\ ws[j][3] = addr + j - 1 - u.base
    BY <1>3
  <2>3. ws[i][2] = ws[j][2] /\ ws[i][3] = ws[j][3] BY <1>5 DEF Cell
  <2>4. t.name = u.name BY <2>1, <2>2, <2>3
  <2>5. t = u BY <2>4, Tables
  <2>6. addr + i - 1 - t.base = addr + j - 1 - t.base BY <2>1, <2>2, <2>3, <2>5
  <2>7. i \in 1..n /\ j \in 1..n BY <1>2
  <2> QED BY <2>1, <2>6, <2>7
<1>6. Kept(ws) \subseteq 1..n /\ \A i \in 1..n : i \notin Kept(ws) => ws[i][2] = "none" BY <1>2
<1>7. ASSUME NEW i \in 1..n PROVE ws[i][1] = "xf" /\ ws[i][4] = words[i]
  <2>1. PICK a : a = addr + i - 1 OBVIOUS
  <2>2. ws[i] = WordWrite(a, words[i]) BY <1>1, <2>1
  <2> QED BY <2>2 DEF WordWrite
<1> QED BY <1>4, <1>5, <1>6, <1>7

LEMMA CellNames ==
  ASSUME NEW c \in Cells
  PROVE  c = <<c[1], c[2]>> /\ c[1] # "none"
<1>1. PICK t \in XfTables, i \in 0..255 : c = <<t.name, i>> BY DEF Cells
<1>2. t.name # "none" BY Tables
<1> QED BY <1>1, <1>2

LEMMA ToXfKeeps ==
  ASSUME RegsInv, NEW addr \in Nat, NEW n \in Nat, NEW words, DOMAIN words = 1..n,
         \A i \in 1..n : words[i] \in XfWord,
         ToXf(XfWrites(addr, words)), UNCHANGED bp
  PROVE  RegsInv'
<1>1. PICK ws : ws = XfWrites(addr, words) OBVIOUS
<1>2. IsSequence(ws) /\ Len(ws) = n /\ DOMAIN ws = 1..n BY <1>1, XfEntries
<1>3. /\ Kept(ws) \subseteq 1..n
      /\ \A i \in 1..n : ws[i][1] = "xf" /\ ws[i][4] = words[i]
      /\ \A i \in 1..n : i \notin Kept(ws) => ws[i][2] = "none"
      /\ \A i \in Kept(ws) : Cell(ws[i]) \in Cells
      /\ \A i, j \in Kept(ws) : Cell(ws[i]) = Cell(ws[j]) => i = j
  BY <1>1, XfCells
<1>4. done' = done \o ws /\ xf' = XfAfter(xf, ws) BY <1>1 DEF ToXf
<1>5. IsSequence(done) /\ BpRegs /\ XfRegs /\ LoadsWhole BY DEF RegsInv
<1>6. /\ Grown /\ Len(done) \in Nat /\ Len(done') = Len(done) + n
      /\ \A i \in 1..n : done'[Len(done) + i] = ws[i]
      /\ \A i \in 1..Len(done') : i > Len(done) =>
           i - Len(done) \in 1..n /\ done'[i] = ws[i - Len(done)]
  BY <1>2, <1>4, <1>5, JoinGrows
<1>7. BpRegs'
  <2>1. \A i \in 1..Len(done') : i > Len(done) => done'[i][1] = "xf" BY <1>3, <1>6
  <2>2. \A i \in 1..Len(done') : i > Len(done) => done'[i][1] # "bp" BY <2>1
  <2> QED BY <1>5, <1>6, <2>2, BpRegsKept
<1>8. PICK m \in Nat : m = Len(done) BY <1>6
<1>9. PICK kept : kept = Kept(ws) OBVIOUS
<1>10. PICK cells : cells = DOMAIN xf \cup {Cell(ws[k]) : k \in kept} OBVIOUS
<1>11. DOMAIN xf' = cells BY <1>4, <1>9, <1>10 DEF XfAfter
<1>12. cells \subseteq Cells BY <1>3, <1>5, <1>9, <1>10 DEF XfRegs
<1>13. ASSUME NEW c \in cells PROVE CellHolds(c)'
  <2>1. PICK to : to = {k \in kept : Cell(ws[k]) = c} OBVIOUS
  <2>2. xf'[c] = IF to = {} THEN xf[c] ELSE ws[CHOOSE k \in to : TRUE][4]
    BY <1>4, <1>9, <1>10, <2>1 DEF XfAfter
  <2>3. c = <<c[1], c[2]>> /\ c[1] # "none" BY <1>12, CellNames
  <2>4. ASSUME NEW i \in 1..n, <<ws[i][2], ws[i][3]>> = c PROVE i \in to
    <3>1. ws[i][2] = c[1] BY <2>3, <2>4
    <3>2. i \in kept BY <1>3, <1>9, <2>3, <3>1
    <3>3. Cell(ws[i]) = c BY <2>4 DEF Cell
    <3> QED BY <2>1, <3>2, <3>3
  <2>5. CASE to = {}
    <3>1. \A i \in 1..Len(done') : i > Len(done) =>
            ~(done'[i][1] = "xf" /\ <<done'[i][2], done'[i][3]>> = c)
      <4> SUFFICES ASSUME NEW i \in 1..Len(done'), i > Len(done), <<done'[i][2], done'[i][3]>> = c
                   PROVE  FALSE
        OBVIOUS
      <4>1. PICK j \in 1..n : done'[i] = ws[j] BY <1>6
      <4>2. <<ws[j][2], ws[j][3]>> = c BY <4>1
      <4>3. j \in to BY <2>4, <4>2
      <4> QED BY <2>5, <4>3
    <3>2. XfLoads(c)' = XfLoads(c) BY <1>6, <3>1, SameLoads
    <3>3. \A k \in kept : Cell(ws[k]) # c BY <2>1, <2>5
    <3>4. c \in DOMAIN xf BY <1>10, <3>3
    <3>5. CellHolds(c) BY <1>5, <3>4 DEF XfRegs
    <3>6. xf'[c] = xf[c] BY <2>2, <2>5
    <3> QED BY <1>6, <3>2, <3>5, <3>6, CellKept
  <2>6. CASE to # {}
    <3>1. PICK k : k = CHOOSE j \in to : TRUE OBVIOUS
    <3>2. k \in to BY <2>6, <3>1
    <3>3. k \in kept /\ Cell(ws[k]) = c /\ k \in 1..n BY <1>3, <1>9, <2>1, <3>2
    <3>4. \A j \in to : j = k BY <1>3, <1>9, <2>1, <3>3
    <3>5. PICK q \in Nat : q = m + k BY <3>3
    <3>6. done'[q] = ws[k] /\ q > m BY <1>6, <1>8, <3>3, <3>5
    <3>7. PICK old : old = XfLoads(c) OBVIOUS
    <3>8. old \subseteq 1..m BY <1>5, <1>8, <3>7, XfLoadsPlaces
    <3>9. XfLoads(c)' = old \cup {q}
      <4>1. DOMAIN done' = 1..m + n /\ DOMAIN done = 1..m BY <1>6, <1>8, GrownPlaces
      <4>2. PICK new : new = XfLoads(c)' OBVIOUS
      <4>3. new = {j \in 1..m + n : done'[j][1] = "xf" /\ <<done'[j][2], done'[j][3]>> = c}
        BY <4>1, <4>2 DEF XfLoads
      <4>4. old = {j \in 1..m : done[j][1] = "xf" /\ <<done[j][2], done[j][3]>> = c}
        BY <3>7, <4>1 DEF XfLoads
      <4>5. \A j \in 1..m : done'[j] = done[j] /\ j \in 1..m + n BY <1>6, <1>8 DEF Grown
      <4>6. old \subseteq new BY <4>3, <4>4, <4>5
      <4>7. q \in new
        <5>1. q \in 1..m + n BY <3>3, <3>5
        <5>2. done'[q][1] = "xf" /\ <<done'[q][2], done'[q][3]>> = c
          BY <1>3, <3>3, <3>6 DEF Cell
        <5> QED BY <4>3, <5>1, <5>2
      <4>8. ASSUME NEW j \in new PROVE j \in old \cup {q}
        <5>1. j \in 1..m + n /\ done'[j][1] = "xf" /\ <<done'[j][2], done'[j][3]>> = c
          BY <4>3, <4>8
        <5>2. CASE j <= m
          <6>1. j \in 1..m BY <5>1, <5>2
          <6> QED BY <4>4, <4>5, <5>1, <6>1
        <5>3. CASE j > m
          <6>1. j - m \in 1..n /\ done'[j] = ws[j - m] BY <1>6, <1>8, <5>1, <5>3
          <6>2. j - m \in to BY <2>4, <5>1, <6>1
          <6>3. j - m = k BY <3>4, <6>2
          <6>4. j = q BY <3>3, <3>5, <5>1, <6>3
          <6> QED BY <6>4
        <5> QED BY <5>1, <5>2, <5>3
      <4> QED BY <4>2, <4>6, <4>7, <4>8
    <3>10. Latest(old \cup {q}) = q BY <3>6, <3>8, LatestAdded
    <3>11. xf'[c] = ws[k][4] BY <2>2, <2>6, <3>1
    <3>12. xf'[c] = done'[Latest(XfLoads(c)')][4] BY <3>6, <3>9, <3>10, <3>11
    <3>13. XfLoads(c)' # {} BY <3>9
    <3> QED BY <3>12, <3>13 DEF CellHolds
  <2> QED BY <2>5, <2>6
<1>14. XfRegs' BY <1>11, <1>12, <1>13 DEF XfRegs, Cells
<1>15. LoadsWhole'
  <2>1. ASSUME NEW i \in 1..Len(done'), i > Len(done) PROVE done'[i][4] \in XfWord
    <3>1. PICK j \in 1..n : done'[i] = ws[j] BY <1>6, <2>1
    <3>2. ws[j][4] = words[j] BY <1>3
    <3> QED BY <3>1, <3>2
  <2> QED BY <1>5, <1>6, <2>1, WholeKept
<1> QED BY <1>6, <1>7, <1>14, <1>15 DEF RegsInv, Grown

\* Where an address is in its block is a number.
LEMMA OffsetNat ==
  ASSUME NEW n \in Nat, NEW w, w = Bytes(n)
  PROVE  RamOffset(w) \in Nat /\ (InVmem(w) => Number(w) - VmemBase \in Nat)
<1>1. PICK top \in Nat : top = n \div 16777216 OBVIOUS
<1>2. PICK high \in 0..255 : high = (n \div 65536) % 256 OBVIOUS
<1>3. PICK mid \in 0..255 : mid = (n \div 256) % 256 OBVIOUS
<1>4. PICK low \in 0..255 : low = n % 256 OBVIOUS
<1>5. w[1] = top /\ w[2] = high /\ w[3] = mid /\ w[4] = low BY <1>1, <1>2, <1>3, <1>4 DEF Bytes
<1>6. Number(w) = ((top * 256 + high) * 256 + mid) * 256 + low BY <1>5 DEF Number
<1>7. InVmem(w) => Number(w) - VmemBase \in Nat
  <2>1. InVmem(w) => top >= 126 BY <1>5 DEF InVmem
  <2>2. top >= 126 => ((top * 256 + high) * 256 + mid) * 256 + low - 126 * 16777216 \in Nat OBVIOUS
  <2> QED BY <1>6, <2>1, <2>2 DEF VmemBase
<1>8. PICK upper \in Nat : upper = (top * 256 + high) * 256 + mid OBVIOUS
<1>9. PICK lower \in Nat : lower = (high * 256 + mid) * 256 + low OBVIOUS
<1>10. 2^16 = 65536 /\ 2^6 = 64 /\ 2^0 = 1 /\ 2^24 = 16777216 OBVIOUS
<1>11. Field(w, 24, 6) \in Nat
  <2>1. Field(w, 24, 6) = (upper \div 2^(24 - 8)) % 2^6 BY <1>5, <1>8 DEF Field
  <2>2. 24 - 8 = 16 OBVIOUS
  <2> QED BY <1>10, <2>1, <2>2
<1>12. Field(w, 0, 24) \in Nat
  <2>1. Field(w, 0, 24) = (lower \div 2^0) % 2^24 BY <1>5, <1>9 DEF Field
  <2> QED BY <1>10, <2>1
<1> QED BY <1>7, <1>11, <1>12 DEF RamOffset

\* array_element: refused, or whole in one of the blocks.
LEMMA ElementInside ==
  ASSUME CpInv, NEW array, NEW n \in Nat, NEW size \in Nat, Element(cp, array, n, size) # Refused
  PROVE  \E off \in Nat : \/ Element(cp, array, n, size) = <<"ram", off>> /\ off + size <= RamSize
                          \/ Element(cp, array, n, size) = <<"vmem", off>> /\ off + size <= VmemSize
<1>1. PICK base : base = Register(cp, 160 + array) OBVIOUS
<1>2. PICK stride : stride = Register(cp, 176 + array)[4] OBVIOUS
<1>3. base \in Word /\ Register(cp, 176 + array) \in Word BY <1>1, RegisterWord
<1>4. stride \in Nat BY <1>2, <1>3, WordBytes
<1>5. Number(base) \in Nat
  <2>1. base[1] \in Nat /\ base[2] \in Nat /\ base[3] \in Nat /\ base[4] \in Nat BY <1>3, WordBytes
  <2> QED BY <2>1 DEF Number
<1>6. n * stride \in Nat BY <1>4
<1>7. PICK far \in Nat : far = n * stride BY <1>6
<1>8. PICK place \in Nat : place = Number(base) + far BY <1>5
<1>9. PICK addr : addr = Bytes(place) OBVIOUS
<1>10. Element(cp, array, n, size) = Place(addr, size)
  <2>1. Element(cp, array, n, size) = IF base = Zero \/ stride = 0 THEN Refused ELSE Place(addr, size)
    BY <1>1, <1>2, <1>7, <1>8, <1>9 DEF Element
  <2> QED BY <2>1
<1>11. RamOffset(addr) \in Nat /\ (InVmem(addr) => Number(addr) - VmemBase \in Nat)
  BY <1>9, OffsetNat
<1>12. RamSize \in Nat /\ VmemSize \in Nat BY DEF RamSize, VmemSize
<1>13. CASE InVmem(addr)
  <2>1. PICK off \in Nat : off = Number(addr) - VmemBase BY <1>11, <1>13
  <2>2. Place(addr, size) = IF size > VmemSize - off THEN Refused ELSE <<"vmem", off>>
    BY <1>13, <2>1 DEF Place
  <2>3. ~(size > VmemSize - off) BY <1>10, <2>2
  <2>4. off + size <= VmemSize BY <1>12, <2>3
  <2> QED BY <1>10, <2>2, <2>3, <2>4
<1>14. CASE ~InVmem(addr)
  <2>1. PICK off \in Nat : off = RamOffset(addr) BY <1>11
  <2>2. Place(addr, size) = IF off > RamSize \/ size > RamSize - off THEN Refused ELSE <<"ram", off>>
    BY <1>14, <2>1 DEF Place
  <2>3. ~(size > RamSize - off) BY <1>10, <2>2
  <2>4. off + size <= RamSize BY <1>12, <2>3
  <2> QED BY <1>10, <2>2, <2>3, <2>4
<1> QED BY <1>13, <1>14

LEMMA LoadXfKeeps ==
  ASSUME FeedsInv, ParserInv, CpInv, RegsInv, StreamAssumption, NEW len, len = Known, LoadXf(len)
  PROVE  RegsInv'
<1>1. /\ parser.opcode \in {LOAD_XF} /\ len \in Nat /\ Fits(parser.opcode, len)
      /\ Body(len) \in Seq(Byte) /\ Len(Body(len)) = len
  BY WholeBody DEF LoadXf
<1>2. len >= 8 BY <1>1 DEF Fits
<1>3. PICK body \in Seq(Byte) : body = Body(len) BY <1>1
<1>4. Len(body) >= 8 BY <1>1, <1>2, <1>3
<1>5. \A i \in 1..4 : body[i] \in Nat BY <1>4, ByteOf
<1>6. body[2] \in Nat /\ body[3] \in Nat /\ body[4] \in Nat BY <1>5
<1>7. PICK addr \in Nat : addr = 256 * body[3] + body[4] BY <1>6
<1>8. PICK n \in Nat : n = (body[2] % 16) + 1 BY <1>6
<1>9. PICK words : words = [i \in 1..n |-> SubSeq(body, 1 + 4 * i, 4 + 4 * i)] OBVIOUS
<1>10. ToXf(XfWrites(addr, words)) /\ UNCHANGED bp BY <1>3, <1>7, <1>8, <1>9 DEF LoadXf
<1>11. DOMAIN words = 1..n BY <1>9
<1>12. Len(body) >= 4 + 4 * n
  <2>1. InCommand BY WholeBody DEF LoadXf
  <2>2. XfSize(len, body) BY <1>1, <1>2, <1>3, <2>1, XfKnown
  <2> QED BY <1>1, <1>3, <1>8, <2>2 DEF XfSize
<1>13. ASSUME NEW i \in 1..n PROVE words[i] \in XfWord
  <2>1. PICK a \in Nat : a = 1 + 4 * i OBVIOUS
  <2>2. PICK b \in Nat : b = 4 + 4 * i OBVIOUS
  <2>3. a >= 1 /\ b = a + 3 /\ b <= 4 + 4 * n BY <2>1, <2>2
  <2>4. b <= Len(body) BY <1>12, <2>3
  <2>5. SubSeq(body, a, b) \in Word BY <2>3, <2>4, PartWord
  <2>6. words[i] = SubSeq(body, a, b) BY <1>9, <2>1, <2>2
  <2> QED BY <2>5, <2>6 DEF XfWord
<1> QED BY <1>10, <1>11, <1>13, ToXfKeeps

LEMMA LoadIndexedKeeps ==
  ASSUME FeedsInv, ParserInv, CpInv, RegsInv, StreamAssumption, NEW len, len = Known,
         LoadIndexed(len)
  PROVE  RegsInv'
<1>1. /\ parser.opcode \in LOAD_INDX /\ len \in Nat /\ Fits(parser.opcode, len)
      /\ Body(len) \in Seq(Byte) /\ Len(Body(len)) = len
  BY WholeBody DEF LoadIndexed
<1>2. len = 4 BY <1>1 DEF Fits
<1>3. PICK body \in Seq(Byte) : body = Body(len) BY <1>1
<1>4. Len(body) = 4 BY <1>1, <1>2, <1>3
<1>5. \A i \in 1..4 : body[i] \in Nat BY <1>4, ByteOf
<1>6. body[3] \in Nat /\ body[4] \in Nat BY <1>5
<1>7. PICK addr \in Nat : addr = 256 * (body[3] % 16) + body[4] BY <1>6
<1>8. PICK n \in Nat : n = body[3] \div 16 + 1 BY <1>6
<1>9. PICK place : place = Element(cp, parser.opcode \div 8 + 8, 256 * body[1] + body[2], 4 * n)
  OBVIOUS
<1>10. PICK words : words = [i \in 1..n |-> <<place[1], place[2] + 4 * (i - 1)>>] OBVIOUS
<1>11. /\ UNCHANGED bp
       /\ \/ UNCHANGED <<done, xf>>
          \/ ToXf(XfWrites(addr, words)) /\ place # Refused
  BY <1>3, <1>7, <1>8, <1>9, <1>10 DEF LoadIndexed
<1>12. DOMAIN words = 1..n BY <1>10
<1>13. CASE ToXf(XfWrites(addr, words)) /\ place # Refused
  <2>1. PICK index \in Nat : index = 256 * body[1] + body[2] BY <1>5
  <2>2. PICK size \in Nat : size = 4 * n OBVIOUS
  <2>6. PICK array : array = parser.opcode \div 8 + 8 OBVIOUS
  <2>3. place = Element(cp, array, index, size) BY <1>9, <2>1, <2>2, <2>6
  <2>7. \E off \in Nat : \/ Element(cp, array, index, size) = <<"ram", off>> /\ off + size <= RamSize
                         \/ Element(cp, array, index, size) = <<"vmem", off>> /\ off + size <= VmemSize
    <3>1. Element(cp, array, index, size) # Refused BY <1>13, <2>3
    <3> HIDE <1>13
    <3> QED BY <3>1, ElementInside
  <2>4. PICK off \in Nat : \/ place = <<"ram", off>> /\ off + size <= RamSize
                           \/ place = <<"vmem", off>> /\ off + size <= VmemSize
    BY <2>3, <2>7
  <2>8. RamSize \in Nat /\ VmemSize \in Nat BY DEF RamSize, VmemSize
  <2>5. ASSUME NEW i \in 1..n PROVE words[i] \in XfWord
    <3>1. PICK at \in Nat : at = off + 4 * (i - 1) OBVIOUS
    <3>2. at + 4 <= off + size BY <2>2, <3>1
    <3>3. words[i] = <<place[1], at>> BY <1>10, <2>4, <3>1
    <3>4. CASE place = <<"ram", off>> /\ off + size <= RamSize
      <4>1. at \in 0..RamSize - 4 BY <2>8, <3>2, <3>4
      <4> QED BY <3>3, <3>4, <4>1 DEF XfWord
    <3>5. CASE place = <<"vmem", off>> /\ off + size <= VmemSize
      <4>1. at \in 0..VmemSize - 4 BY <2>8, <3>2, <3>5
      <4> QED BY <3>3, <3>5, <4>1 DEF XfWord
    <3> QED BY <2>4, <3>4, <3>5
  <2> QED BY <1>11, <1>12, <1>13, <2>5, ToXfKeeps
<1>14. CASE UNCHANGED <<done, xf>> BY <1>11, <1>14, RegsSame
<1> QED BY <1>11, <1>13, <1>14

-----------------------------------------------------------------------------
(* The triangles of a draw *)

\* What is kept between two vertices of a primitive.
EmitState(e) == e = [n |-> e.n, held |-> e.held, out |-> e.out] /\ IsSequence(e.out)

LEMMA Tuples ==
  \A x, y : IsSequence(<< >>) /\ IsSequence(<<x>>) /\ IsSequence(<<x, y>>)
<1> SUFFICES ASSUME NEW x, NEW y
             PROVE  IsSequence(<< >>) /\ IsSequence(<<x>>) /\ IsSequence(<<x, y>>)
  OBVIOUS
<1>1. PICK S : S = {x, y} OBVIOUS
<1>2. << >> \in Seq(S) /\ <<x>> \in Seq(S) /\ <<x, y>> \in Seq(S) BY <1>1
<1> QED BY <1>2 DEF IsSequence

LEMMA EmitShape ==
  ASSUME NEW n, NEW kept, NEW out, IsSequence(out),
         NEW r, r = [n |-> n, held |-> kept, out |-> out]
  PROVE  EmitState(r)
<1>1. r.out = out /\ r = [n |-> r.n, held |-> r.held, out |-> r.out] OBVIOUS
<1> QED BY <1>1 DEF EmitState

LEMMA EmitGives ==
  ASSUME NEW e, EmitState(e), NEW n, NEW kept, NEW tris, IsSequence(tris),
         NEW r, r = [e EXCEPT !.n = n, !.held = kept, !.out = @ \o tris]
  PROVE  EmitState(r)
<1>1. PICK out : out = e.out \o tris OBVIOUS
<1>2. IsSequence(out) BY <1>1, Joined DEF EmitState
<1>3. r = [n |-> n, held |-> kept, out |-> out] BY <1>1 DEF EmitState
<1> QED BY <1>2, <1>3, EmitShape, Zenon

\* A vertex adds to the triangles, and keeps the rest in shape.
LEMMA EmitKeeps ==
  ASSUME NEW prim, NEW e, EmitState(e), NEW v
  PROVE  EmitState(Emit(prim, e, v))
<1>1. PICK r : r = Emit(prim, e, v) OBVIOUS
<1>2. PICK h : h = Append(e.held, v) OBVIOUS
<1>3. PICK n : n = e.n + 1 OBVIOUS
<1>4. CASE prim = 2 /\ Len(h) = 3
  <2>1. r = [e EXCEPT !.n = n, !.held = << >>, !.out = @ \o <<h>>]
    BY <1>1, <1>2, <1>3, <1>4 DEF Emit
  <2>2. IsSequence(<<h>>) BY Tuples
  <2> QED BY <1>1, <2>1, <2>2, EmitGives
<1>5. CASE prim = 3 /\ n > 2
  <2>1. PICK t : t = IF n % 2 = 0 THEN <<e.held[2], e.held[1], v>>
                                  ELSE <<e.held[1], e.held[2], v>>
    OBVIOUS
  <2>2. PICK kept : kept = <<e.held[2], v>> OBVIOUS
  <2>3. r = [e EXCEPT !.n = n, !.held = kept, !.out = @ \o <<t>>]
    BY <1>1, <1>3, <1>5, <2>1, <2>2 DEF Emit
  <2>4. IsSequence(<<t>>) BY Tuples
  <2> QED BY <1>1, <2>3, <2>4, EmitGives
<1>6. CASE prim = 4 /\ n > 2
  <2>1. PICK t : t = <<e.held[1], e.held[2], v>> OBVIOUS
  <2>2. PICK kept : kept = <<e.held[1], v>> OBVIOUS
  <2>3. r = [e EXCEPT !.n = n, !.held = kept, !.out = @ \o <<t>>]
    BY <1>1, <1>3, <1>6, <2>1, <2>2 DEF Emit
  <2>4. IsSequence(<<t>>) BY Tuples
  <2> QED BY <1>1, <2>3, <2>4, EmitGives
<1>7. CASE prim \in {0, 1} /\ Len(h) = 4
  <2>1. PICK tris : tris = << <<h[1], h[2], h[3]>>, <<h[1], h[3], h[4]>> >> OBVIOUS
  <2>2. prim # 2 /\ prim # 3 /\ prim # 4 BY <1>7
  <2>3. r = [e EXCEPT !.n = n, !.held = << >>, !.out = @ \o tris]
    BY <1>1, <1>2, <1>3, <1>7, <2>1, <2>2 DEF Emit
  <2>4. IsSequence(tris) BY <2>1, Tuples
  <2> QED BY <1>1, <2>3, <2>4, EmitGives
<1>8. CASE /\ ~(prim = 2 /\ Len(h) = 3) /\ ~(prim = 3 /\ n > 2)
           /\ ~(prim = 4 /\ n > 2) /\ ~(prim \in {0, 1} /\ Len(h) = 4)
  <2>1. r = [e EXCEPT !.n = n, !.held = h, !.out = @ \o << >>]
    BY <1>1, <1>2, <1>3, <1>8 DEF Emit
  <2>2. IsSequence(<< >>) BY Tuples
  <2> QED BY <1>1, <2>1, <2>2, EmitGives
<1> QED BY <1>4, <1>5, <1>6, <1>7, <1>8

\* The states of a primitive, vertex by vertex.
NoVertex == [n |-> 0, held |-> << >>, out |-> << >>]
Runs(prim, vs, n, f) ==
  f = [k \in 0..n |-> IF k = 0 THEN NoVertex ELSE Emit(prim, f[k - 1], vs[k])]

LEMMA RunsExist ==
  ASSUME NEW prim, NEW vs
  PROVE  \A n \in Nat : \E f : Runs(prim, vs, n, f)
<1> DEFINE none == {n \in Nat : ~\E f : Runs(prim, vs, n, f)}
<1> SUFFICES ASSUME none # {} PROVE FALSE OBVIOUS
<1>1. Min(none) \in none /\ \A y \in none : Min(none) <= y BY LeastIn
<1>2. PICK n \in Nat : n \in none /\ \A y \in none : n <= y BY <1>1
<1>3. CASE n = 0
  <2>1. PICK f : f = [k \in 0..n |-> NoVertex] OBVIOUS
  <2>2. \A k \in 0..n : k = 0 BY <1>3
  <2>3. f = [k \in 0..n |-> IF k = 0 THEN NoVertex ELSE Emit(prim, f[k - 1], vs[k])] BY <2>1, <2>2
  <2> QED BY <1>2, <2>3 DEF Runs
<1>4. CASE n # 0
  <2>1. n - 1 \in Nat /\ n - 1 \notin none BY <1>2, <1>4
  <2>2. PICK g : Runs(prim, vs, n - 1, g) BY <2>1
  <2>3. PICK f : f = [k \in 0..n |-> IF k = n THEN Emit(prim, g[n - 1], vs[n]) ELSE g[k]] OBVIOUS
  <2>4. \A k \in 0..n - 1 : g[k] = IF k = 0 THEN NoVertex ELSE Emit(prim, g[k - 1], vs[k])
    BY <2>2 DEF Runs
  <2>5. ASSUME NEW k \in 0..n PROVE f[k] = IF k = 0 THEN NoVertex ELSE Emit(prim, f[k - 1], vs[k])
    <3>1. CASE k = n
      <4>1. n - 1 \in 0..n /\ n - 1 # n BY <1>4
      <4>2. f[n] = Emit(prim, g[n - 1], vs[n]) /\ f[n - 1] = g[n - 1] BY <2>3, <4>1
      <4> QED BY <1>4, <3>1, <4>2
    <3>2. CASE k # n
      <4>1. k \in 0..n - 1 BY <3>2
      <4>2. k # 0 => k - 1 \in 0..n /\ k - 1 # n BY <4>1
      <4>3. f[k] = g[k] /\ (k # 0 => f[k - 1] = g[k - 1]) BY <2>3, <3>2, <4>2
      <4> QED BY <2>4, <4>1, <4>3
    <3> QED BY <3>1, <3>2
  <2>6. f = [k \in 0..n |-> f[k]] BY <2>3
  <2>7. f = [k \in 0..n |-> IF k = 0 THEN NoVertex ELSE Emit(prim, f[k - 1], vs[k])] BY <2>5, <2>6
  <2> QED BY <1>2, <2>7 DEF Runs
<1> QED BY <1>3, <1>4

LEMMA RunsKeep ==
  ASSUME NEW prim, NEW vs, NEW n \in Nat, NEW f, Runs(prim, vs, n, f)
  PROVE  \A k \in 0..n : EmitState(f[k])
<1> DEFINE bad == {k \in 0..n : ~EmitState(f[k])}
<1> SUFFICES ASSUME bad # {} PROVE FALSE OBVIOUS
<1>1. bad \subseteq Nat OBVIOUS
<1>2. Min(bad) \in bad /\ \A y \in bad : Min(bad) <= y BY <1>1, LeastIn
<1>3. PICK k \in 0..n : ~EmitState(f[k]) /\ \A y \in bad : k <= y BY <1>2
<1>4. f[k] = IF k = 0 THEN NoVertex ELSE Emit(prim, f[k - 1], vs[k]) BY DEF Runs
<1>5. CASE k = 0
  <2>1. f[k] = [n |-> 0, held |-> << >>, out |-> << >>] BY <1>4, <1>5 DEF NoVertex
  <2>3. f[k].out = << >> /\ f[k] = [n |-> f[k].n, held |-> f[k].held, out |-> f[k].out] BY <2>1
  <2>4. IsSequence(<< >>) BY Tuples
  <2>2. EmitState(f[k]) BY <2>3, <2>4 DEF EmitState
  <2> QED BY <1>3, <2>2
<1>6. CASE k # 0
  <2>1. k - 1 \in 0..n /\ ~(k <= k - 1) BY <1>6
  <2>2. EmitState(f[k - 1]) BY <1>3, <2>1
  <2>3. EmitState(f[k]) BY <1>4, <1>6, <2>2, EmitKeeps
  <2> QED BY <1>3, <2>3
<1> QED BY <1>5, <1>6

LEMMA EmitAllSeq ==
  ASSUME NEW prim, NEW n \in Nat, NEW vs, Len(vs) = n
  PROVE  IsSequence(EmitAll(prim, vs))
<1> DEFINE G(g) == [k \in 0..Len(vs) |->
                      IF k = 0 THEN [n |-> 0, held |-> << >>, out |-> << >>]
                      ELSE Emit(prim, g[k - 1], vs[k])]
           u == CHOOSE g : g = G(g)
<1>1. EmitAll(prim, vs) = u[Len(vs)].out BY DEF EmitAll
<1>2. \A g : Runs(prim, vs, n, g) <=> g = G(g) BY DEF Runs, NoVertex
<1>3. \E g : Runs(prim, vs, n, g) BY RunsExist
<1>4. \E g : g = G(g) BY <1>2, <1>3
<1>5. u = G(u)
  <2> HIDE DEF G
  <2> QED BY <1>4, Zenon
<1> HIDE DEF u
<1>6. Runs(prim, vs, n, u) BY <1>2, <1>5
<1>7. EmitState(u[n]) BY <1>6, RunsKeep
<1> QED BY <1>1, <1>7 DEF EmitState

LEMMA DrawKeeps ==
  ASSUME RegsInv, NEW len, Draw(len), FeedsInv, ParserInv, CpInv, StreamAssumption, len = Known
  PROVE  RegsInv'
<1>1. /\ parser.opcode \in DRAW /\ len \in Nat /\ Fits(parser.opcode, len)
      /\ Body(len) \in Seq(Byte) /\ Len(Body(len)) = len
  BY WholeBody DEF Draw
<1>2. len >= 2 BY <1>1 DEF Fits
<1>3. PICK body \in Seq(Byte) : body = Body(len) BY <1>1
<1>4. Len(body) >= 2 BY <1>1, <1>2, <1>3
<1>5. body[1] \in Nat /\ body[2] \in Nat BY <1>4, ByteOf
<1>a. PICK a \in Nat : a = body[1] BY <1>5
<1>b. PICK b \in Nat : b = body[2] BY <1>5
<1>c. 256 * Body(len)[1] + Body(len)[2] = 256 * a + b BY <1>3, <1>a, <1>b
<1>6. 256 * Body(len)[1] + Body(len)[2] \in Nat BY <1>c
<1>7. UNCHANGED <<xf, bp>> BY DEF Draw
<1> DEFINE prim == (parser.opcode \div 8) % 8
           f == Format(Vcd(cp), Vat(cp, parser.opcode % 8))
           vsize == Size(f)
           count == 256 * Body(len)[1] + Body(len)[2]
           vertex(i) == Decode(cp, f, SubSeq(Body(len), 3 + vsize * (i - 1), 2 + vsize * i))
           vs == [i \in 1..count |-> Vertex(cp, xf, vertex(i).parts)]
           out == EmitAll(prim, vs)
<1>8. \/ UNCHANGED done
      \/ done' = done \o [k \in DOMAIN out |-> <<"tri", out[k]>>]
  BY Zenon DEF Draw
<1>11. count \in Nat BY <1>6
<1>12. vs = [i \in 1..count |-> vs[i]] OBVIOUS
<1> HIDE DEF prim, vs, count
<1>13. Len(vs) = count BY <1>11, <1>12, Listed
<1>14. IsSequence(out) BY <1>11, <1>13, EmitAllSeq
<1> HIDE DEF out
<1>9. CASE UNCHANGED done BY <1>7, <1>9, RegsSame
<1>10. CASE done' = done \o [k \in DOMAIN out |-> <<"tri", out[k]>>]
  <2>6. PICK S : out \in Seq(S) BY <1>14 DEF IsSequence
  <2>7. PICK m \in Nat : m = Len(out) /\ DOMAIN out = 1..m BY <2>6
  <2>8. PICK tris : tris = [k \in 1..m |-> <<"tri", out[k]>>] OBVIOUS
  <2>9. tris = [k \in 1..m |-> tris[k]] BY <2>8
  <2>10. IsSequence(tris) /\ Len(tris) = m BY <2>9, Listed
  <2>11. done' = done \o tris BY <1>10, <2>7, <2>8
  <2>12. IsSequence(done) /\ BpRegs /\ XfRegs /\ LoadsWhole BY DEF RegsInv
  <2>13. /\ Grown
         /\ \A i \in 1..Len(done') : i > Len(done) =>
              i - Len(done) \in 1..m /\ done'[i] = tris[i - Len(done)]
    BY <2>10, <2>11, <2>12, JoinGrows
  <2>14. \A k \in 1..m : tris[k][1] = "tri" BY <2>8
  <2>15. \A i \in 1..Len(done') : i > Len(done) => done'[i][1] = "tri" BY <2>13, <2>14
  <2>16. \A i \in 1..Len(done') : i > Len(done) => done'[i][1] # "bp" BY <2>15
  <2>17. \A i \in 1..Len(done') : i > Len(done) => done'[i][1] # "xf" BY <2>15
  <2>18. LoadsWhole' BY <2>12, <2>13, <2>17, WholeKept
  <2> QED BY <1>7, <2>12, <2>13, <2>16, <2>17, <2>18, BpRegsKept, XfRegsKept DEF RegsInv, Grown
<1> QED BY <1>8, <1>9, <1>10

-----------------------------------------------------------------------------
(* The parser's invariant holds *)

LEMMA CpSame ==
  ASSUME CpInv, UNCHANGED cp
  PROVE  CpInv'
BY DEF CpInv, CpRegs

LEMMA ParserSame ==
  ASSUME ParserInv, UNCHANGED parser
  PROVE  ParserInv'
BY DEF ParserInv

\* What the transform unit begins with is in its tables.
LEMMA InitCells == DOMAIN XfInit \subseteq Cells
<1>1. PICK domain : domain = ({"texgen", "postinfo"} \X (0..7)) \cup {<<"numtexgen", 0>>}
                               \cup ({"post"} \X {244, 249, 254})
  OBVIOUS
<1>2. DOMAIN XfInit = domain BY <1>1 DEF XfInit
<1>3. ASSUME NEW c \in domain
      PROVE  \E name \in {"texgen", "postinfo", "numtexgen", "post"}, i \in 0..255 : c = <<name, i>>
  BY <1>1
<1>4. \A name \in {"texgen", "postinfo", "numtexgen", "post"} : \E t \in XfTables : t.name = name
  BY DEF XfTables
<1> QED BY <1>2, <1>3, <1>4 DEF Cells

LEMMA InitHolds ==
  ASSUME StreamAssumption, Init
  PROVE  IStreamInv
<1>1. FeedsInv
  <2>1. program \in Programs /\ fed = 0 /\ feeds = << >> BY DEF Init
  <2>2. Stream \in Seq(Byte) BY <2>1 DEF StreamAssumption, Stream
  <2>3. fed \in 0..Len(Stream) BY <2>1, <2>2
  <2>4. feeds \in Seq(Seq(Byte)) /\ Len(feeds) = 0 BY <2>1
  <2> QED BY <2>1, <2>3, <2>4 DEF FeedsInv, DlDepth
<1>2. ParserInv
  <2>1. parser = [opcode |-> 0, buf |-> << >>, want |-> 0] BY DEF Init, NoCommand, NOP
  <2>2. parser.opcode = 0 /\ parser.buf = << >> /\ parser.want = 0 BY <2>1
  <2>3. parser = [opcode |-> parser.opcode, buf |-> parser.buf, want |-> parser.want] BY <2>1, <2>2
  <2>4. parser.buf \in Seq(Byte) /\ Len(parser.buf) = 0 BY <2>2
  <2>5. BufLen > 4 /\ BufLen \in Nat BY DEF StreamAssumption
  <2> QED BY <2>2, <2>3, <2>4, <2>5 DEF ParserInv, Byte
<1>3. DOMAIN cp = {} /\ xf = XfInit BY DEF Init, NoRegs
<1>4. CpInv BY <1>3 DEF CpInv
<1>5. done = << >> /\ DOMAIN done = {} BY DEF Init
<1>6. IsSequence(done) BY <1>5, Tuples
<1>7. XfRegs /\ LoadsWhole
  <2>1. \A c \in DOMAIN xf : CellHolds(c) BY <1>3, <1>5 DEF CellHolds, XfLoads
  <2>2. DOMAIN xf \subseteq Cells BY <1>3, InitCells
  <2> QED BY <1>5, <2>1, <2>2 DEF XfRegs, LoadsWhole
<1>8. \A reg : Writes(reg) = {} BY <1>5 DEF Writes
<1>9. BpRegs
  <2>1. bp = [tlut |-> [o \in Palettes |-> Zero], pending |-> Zero,
              colour |-> [c \in (0..3) \X (0..1) |-> <<0, 0, 0, 0>>], tokens |-> 0]
    BY DEF Init
  <2>2. /\ bp = [tlut |-> bp.tlut, pending |-> bp.pending, colour |-> bp.colour, tokens |-> bp.tokens]
        /\ bp.tlut = [o \in Palettes |-> Zero] /\ bp.pending = Zero
        /\ bp.colour = [c \in (0..3) \X (0..1) |-> <<0, 0, 0, 0>>]
    BY <2>1, BpFields
  <2>3. ASSUME NEW w \in (0..3) \X (0..1)
        PROVE  bp.colour[w] = [i \in 1..4 |-> bp.colour[w][i]] /\ bp.colour[w][1] = 0
    <3>1. PICK zero : zero = <<0, 0, 0, 0>> OBVIOUS
    <3>2. bp.colour[w] = zero BY <2>2, <3>1
    <3>3. zero = [i \in 1..4 |-> zero[i]] /\ zero[1] = 0 BY <3>1
    <3> QED BY <3>2, <3>3
  <2>4. bp.colour = [w \in (0..3) \X (0..1) |-> bp.colour[w]] BY <2>2
  <2>5. bp.tlut = [o \in Palettes |-> bp.tlut[o]] /\ \A o \in Palettes : bp.tlut[o] = Zero BY <2>2
  <2>6. BpShape BY <2>2, <2>3, <2>4, <2>5, Zenon DEF BpShape
  <2>7. PendingHolds BY <1>8, <2>2 DEF PendingHolds
  <2>8. ASSUME NEW which \in (0..3) \X (0..1) PROVE ColourHolds(which)
    <3>1. ColourWrites(which) = {} BY <1>8 DEF ColourWrites
    <3>2. bp.colour[which][1] = 0 BY <2>3
    <3> QED BY <3>1, <3>2 DEF ColourHolds
  <2>9. \A o \in Palettes : PaletteHolds(o) BY <1>8, <2>5 DEF PaletteHolds, PaletteLoads
  <2> QED BY <2>6, <2>7, <2>8, <2>9 DEF BpRegs
<1>10. quit \in BOOLEAN BY DEF Init
<1> QED BY <1>1, <1>2, <1>4, <1>6, <1>7, <1>9, <1>10 DEF IStreamInv, RegsInv

\* A command is carried out: the parser goes on to the next.
LEMMA DispatchKeeps ==
  ASSUME StreamAssumption, IStreamInv, NEW len, len = Known, Dispatch(len)
  PROVE  IStreamInv'
<1>1. FeedsInv /\ ParserInv /\ CpInv /\ RegsInv /\ quit \in BOOLEAN BY DEF IStreamInv
<1>2. CASE LoadCp(len)
  <2>1. TakenNow(len) \in Nat /\ feeds # << >> BY <1>1, <1>2, WholeBody DEF LoadCp
  <2>2. GoOn(len) /\ UNCHANGED <<program, fed, xf, bp, done, quit>> BY <1>2 DEF LoadCp
  <2>3. FeedsInv' /\ ParserInv' BY <1>1, <2>1, <2>2, GoOnKeeps
  <2>4. CpInv' BY <1>1, <1>2, LoadCpKeeps
  <2>5. RegsInv' BY <1>1, <2>2, RegsSame
  <2> QED BY <1>1, <2>2, <2>3, <2>4, <2>5 DEF IStreamInv
<1>3. CASE LoadXf(len)
  <2>1. TakenNow(len) \in Nat /\ feeds # << >> BY <1>1, <1>3, WholeBody DEF LoadXf
  <2>2. GoOn(len) /\ UNCHANGED <<program, fed, cp, bp, quit>> BY <1>3 DEF LoadXf
  <2>3. FeedsInv' /\ ParserInv' BY <1>1, <2>1, <2>2, GoOnKeeps
  <2>4. CpInv' BY <1>1, <2>2, CpSame
  <2>5. RegsInv' BY <1>1, <1>3, LoadXfKeeps
  <2> QED BY <1>1, <2>2, <2>3, <2>4, <2>5 DEF IStreamInv
<1>4. CASE LoadIndexed(len)
  <2>1. TakenNow(len) \in Nat /\ feeds # << >> BY <1>1, <1>4, WholeBody DEF LoadIndexed
  <2>2. GoOn(len) /\ UNCHANGED <<program, fed, cp, bp, quit>> BY <1>4 DEF LoadIndexed
  <2>3. FeedsInv' /\ ParserInv' BY <1>1, <2>1, <2>2, GoOnKeeps
  <2>4. CpInv' BY <1>1, <2>2, CpSame
  <2>5. RegsInv' BY <1>1, <1>4, LoadIndexedKeeps
  <2> QED BY <1>1, <2>2, <2>3, <2>4, <2>5 DEF IStreamInv
<1>5. CASE LoadBp(len)
  <2>1. TakenNow(len) \in Nat /\ feeds # << >> BY <1>1, <1>5, WholeBody DEF LoadBp
  <2>2. GoOn(len) /\ UNCHANGED <<program, fed, cp, xf, quit>> BY <1>5 DEF LoadBp
  <2>3. FeedsInv' /\ ParserInv' BY <1>1, <2>1, <2>2, GoOnKeeps
  <2>4. CpInv' BY <1>1, <2>2, CpSame
  <2>5. RegsInv' BY <1>1, <1>5, LoadBpKeeps
  <2> QED BY <1>1, <2>2, <2>3, <2>4, <2>5 DEF IStreamInv
<1>6. CASE Draw(len)
  <2>6. Complete(len, DRAW) BY <1>6 DEF Draw
  <2>1. TakenNow(len) \in Nat /\ feeds # << >> BY <1>1, <2>6, WholeBody
  <2>2. GoOn(len) /\ UNCHANGED <<program, fed, cp, xf, bp, quit>> BY <1>6 DEF Draw
  <2>3. FeedsInv' /\ ParserInv' BY <1>1, <2>1, <2>2, GoOnKeeps
  <2>4. CpInv' BY <1>1, <2>2, CpSame
  <2>5. RegsInv' BY <1>1, <1>6, DrawKeeps
  <2> QED BY <1>1, <2>2, <2>3, <2>4, <2>5 DEF IStreamInv
<1>7. CASE CallList(len)
  <2>1. UNCHANGED <<program, fed, cp, xf, bp, done, quit>> BY <1>7 DEF CallList
  <2>2. FeedsInv' /\ ParserInv' BY <1>1, <1>7, CallListKeeps
  <2>3. CpInv' BY <1>1, <2>1, CpSame
  <2>4. RegsInv' BY <1>1, <2>1, RegsSame
  <2> QED BY <1>1, <2>1, <2>2, <2>3, <2>4 DEF IStreamInv
<1> QED BY <1>2, <1>3, <1>4, <1>5, <1>6, <1>7 DEF Dispatch

\* Every step keeps the invariant.
LEMMA StepHolds ==
  ASSUME StreamAssumption, IStreamInv, [Next]_vars
  PROVE  IStreamInv'
<1>1. FeedsInv /\ ParserInv /\ CpInv /\ RegsInv /\ quit \in BOOLEAN BY DEF IStreamInv
<1>2. ASSUME NEW n \in Sizes, Write(n) PROVE IStreamInv'
  <2>1. UNCHANGED <<parser, cp, xf, bp, done, quit>> BY <1>2 DEF Write
  <2>2. FeedsInv' BY <1>1, <1>2, WriteKeeps
  <2> QED BY <1>1, <2>1, <2>2, ParserSame, CpSame, RegsSame DEF IStreamInv
<1>3. CASE Opcode
  <2>1. UNCHANGED <<cp, xf, bp, done, quit>> BY <1>3 DEF Opcode
  <2>2. FeedsInv' /\ ParserInv' BY <1>1, <1>3, OpcodeKeeps
  <2> QED BY <1>1, <2>1, <2>2, CpSame, RegsSame DEF IStreamInv
<1>4. CASE EndList
  <2>1. UNCHANGED <<cp, xf, bp, done, quit>> BY <1>4 DEF EndList
  <2>2. FeedsInv' /\ ParserInv' BY <1>1, <1>4, EndListKeeps
  <2> QED BY <1>1, <2>1, <2>2, CpSame, RegsSame DEF IStreamInv
<1>5. CASE EndWrite
  <2>1. UNCHANGED <<parser, cp, xf, bp, done, quit>> BY <1>5 DEF EndWrite
  <2>2. FeedsInv' BY <1>1, <1>5, EndWriteKeeps
  <2> QED BY <1>1, <2>1, <2>2, ParserSame, CpSame, RegsSame DEF IStreamInv
<1>6. ASSUME NEW len, len = Known, BodyByte(len) PROVE IStreamInv'
  <2>1. UNCHANGED <<cp, xf, bp, done, quit>> BY <1>6 DEF BodyByte
  <2>2. FeedsInv' /\ ParserInv' BY <1>1, <1>6, BodyByteKeeps
  <2> QED BY <1>1, <2>1, <2>2, CpSame, RegsSame DEF IStreamInv
<1>7. ASSUME NEW len, len = Known, Partial(len) PROVE IStreamInv'
  <2>1. UNCHANGED <<cp, xf, bp, done, quit>> BY <1>7 DEF Partial
  <2>2. FeedsInv' /\ ParserInv' BY <1>1, <1>7, PartialKeeps
  <2> QED BY <1>1, <2>1, <2>2, CpSame, RegsSame DEF IStreamInv
<1>8. ASSUME NEW len, len = Known, Dispatch(len) PROVE IStreamInv' BY <1>8, DispatchKeeps
<1>9. CASE Quit
  <2>1. UNCHANGED <<program, fed, feeds, parser, cp, xf, bp, done>> /\ quit' \in BOOLEAN
    BY <1>9 DEF Quit
  <2>2. FeedsInv' BY <1>1, <2>1 DEF FeedsInv, Stream
  <2> QED BY <1>1, <2>1, <2>2, ParserSame, CpSame, RegsSame DEF IStreamInv
<1>10. CASE UNCHANGED vars
  <2>1. UNCHANGED <<program, fed, feeds, parser, cp, xf, bp, done, quit>> BY <1>10 DEF vars
  <2>2. FeedsInv' BY <1>1, <2>1 DEF FeedsInv, Stream
  <2> QED BY <1>1, <2>1, <2>2, ParserSame, CpSame, RegsSame DEF IStreamInv
<1> QED BY <1>2, <1>3, <1>4, <1>5, <1>6, <1>7, <1>8, <1>9, <1>10 DEF Next, Parse

LEMMA IInvStream ==
  ASSUME IStreamInv
  PROVE  StreamInv
BY DEF IStreamInv, FeedsInv, ParserInv, CpInv, RegsInv, XfRegs, LoadsWhole, Cells, StreamInv

LEMMA IInvRegisters ==
  ASSUME IStreamInv
  PROVE  RegistersHold
<1>1. BpRegs /\ XfRegs BY DEF IStreamInv, RegsInv
<1>2. ASSUME NEW which \in (0..3) \X (0..1)
      PROVE  LET of == {k \in Writes(224 + 2 * which[1]) : IsKonst(done[k][3]) = which[2]}
             IN  bp.colour[which][1] = IF of = {} THEN 0 ELSE TevField(done[Latest(of)][3])
  <2>1. ColourHolds(which) BY <1>1 DEF BpRegs
  <2> QED BY <2>1 DEF ColourHolds, ColourWrites
<1>3. ASSUME NEW o \in Palettes
      PROVE  LET loads == {k \in Writes(101) : TmemOf(done[k][3]) = o}
                 named == {k \in Writes(100) : k < Latest(loads)}
             IN  bp.tlut[o] = IF loads = {} \/ named = {} THEN Zero
                              ELSE AddressOf(done[Latest(named)][3])
  <2>1. PaletteHolds(o) BY <1>1 DEF BpRegs
  <2> QED BY <2>1 DEF PaletteHolds, PaletteLoads, Named, AddressOf
<1>4. ASSUME NEW c \in DOMAIN xf
      PROVE  LET loads == {k \in DOMAIN done : done[k][1] = "xf" /\ <<done[k][2], done[k][3]>> = c}
             IN  xf[c] = IF loads = {} THEN XfInit[c] ELSE done[Latest(loads)][4]
  <2>1. CellHolds(c) BY <1>1 DEF XfRegs
  <2> QED BY <2>1 DEF CellHolds, XfLoads
<1> QED BY <1>2, <1>3, <1>4, Zenon DEF RegistersHold

\* However the stream is cut into writes, and whatever it is: the parser stays
\* within its buffer and within four lists, and within what was delivered; a
\* command in hand is shorter than what is wanted of it, which is a length its
\* kind may have; only registers and words that there are have been written;
\* and every word a load took from memory is in it whole, wherever the stream
\* put the array and however many words it asked for.
THEOREM StreamInvTheorem == Spec => []StreamInv
<1>1. Init => IStreamInv BY StreamAssumption, InitHolds
<1>2. IStreamInv /\ [Next]_vars => IStreamInv' BY StreamAssumption, StepHolds
<1>3. IStreamInv => StreamInv BY IInvStream
<1> QED BY <1>1, <1>2, <1>3, PTL DEF Spec

\* A register that holds two values holds the last written of each, a palette
\* is where the address last given before it was loaded says, and a word of a
\* matrix is the one last written to it.
THEOREM RegistersHoldTheorem == Spec => []RegistersHold
<1>1. Init => IStreamInv BY StreamAssumption, InitHolds
<1>2. IStreamInv /\ [Next]_vars => IStreamInv' BY StreamAssumption, StepHolds
<1>3. IStreamInv => RegistersHold BY IInvRegisters
<1> QED BY <1>1, <1>2, <1>3, PTL DEF Spec

-----------------------------------------------------------------------------
(* The texture cache's invariant *)

\* What a triangle may ask for.
Identities == UNION {{ids[k] : k \in 1..Len(ids)} : ids \in Draws}

\* The cache's parts; and no entry is in a format the decoder refuses.
CacheParts(tx) ==
  /\ tx = [entry |-> tx.entry, lru |-> tx.lru, memo |-> tx.memo, copies |-> tx.copies, snaps |-> tx.snaps]
  /\ tx.entry = [s \in 1..Slots |-> tx.entry[s]]
  /\ tx.lru \in Seq(1..Slots)
  /\ tx.memo \in Seq([id : Identities, slot : 1..Slots])
Filled(tx) ==
  \A s \in 1..Slots : /\ tx.entry[s].valid \in BOOLEAN
                      /\ tx.entry[s].valid => tx.entry[s].id.fmt \notin Undecodable

\* What stands in a sequence, and that nothing stands there twice.
Has(s, x) == \E i \in 1..Len(s) : s[i] = x
Once(s) == \A i, j \in 1..Len(s) : s[i] = s[j] => i = j

\* Every slot in use stands in the order, once.
Ordered(tx) ==
  /\ \A s \in 1..Slots : tx.entry[s].valid <=> Has(tx.lru, s)
  /\ Once(tx.lru)

\* The slots remembered are the end of the order, in the same order.
AtEnd(tx) ==
  /\ Len(tx.memo) <= MemoSlots /\ Len(tx.memo) <= Len(tx.lru)
  /\ \A i \in 1..Len(tx.memo) : tx.memo[i].slot = tx.lru[Len(tx.lru) - Len(tx.memo) + i]

\* What is remembered of an identity is an entry of that identity, and no
\* identity is remembered twice.
Remembered(tx) ==
  /\ \A i \in 1..Len(tx.memo) : /\ tx.entry[tx.memo[i].slot].valid
                                /\ tx.entry[tx.memo[i].slot].id = tx.memo[i].id
  /\ \A i, j \in 1..Len(tx.memo) : tx.memo[i].id = tx.memo[j].id => i = j

CacheInv(tx) == CacheParts(tx) /\ Filled(tx) /\ Ordered(tx) /\ AtEnd(tx) /\ Remembered(tx)

ICacheInv == CacheInv(tex)

-----------------------------------------------------------------------------
(* One element taken out of a sequence *)

\* r is s without its element at p.
Cut(s, p, r) ==
  /\ Len(r) = Len(s) - 1
  /\ \A k \in 1..Len(s) - 1 : r[k] = IF k < p THEN s[k] ELSE s[k + 1]

LEMMA CutAt ==
  ASSUME NEW S, NEW s \in Seq(S), NEW p \in 1..Len(s)
  PROVE  RemoveAt(s, p) \in Seq(S) /\ Cut(s, p, RemoveAt(s, p))
<1> DEFINE a == SubSeq(s, 1, p - 1)
           b == SubSeq(s, p + 1, Len(s))
<1>1. a \in Seq(S) /\ Len(a) = p - 1 /\ \A i \in 1..(p - 1) : a[i] = s[i]
  <2>1. 1 \in Int /\ p - 1 \in Int /\ \A i \in 1..(p - 1) : s[i] \in S BY ElementOfSeq
  <2>2. /\ a \in Seq(S) /\ Len(a) = IF 1 <= p - 1 THEN p - 1 - 1 + 1 ELSE 0
        /\ \A i \in 1..(p - 1 - 1 + 1) : a[i] = s[1 + i - 1]
    BY <2>1, SubSeqProperties
  <2> QED BY <2>2
<1>2. b \in Seq(S) /\ Len(b) = Len(s) - p /\ \A i \in 1..(Len(s) - p) : b[i] = s[p + i]
  <2>1. p + 1 \in Int /\ Len(s) \in Int /\ \A i \in p + 1..Len(s) : s[i] \in S BY ElementOfSeq
  <2>2. /\ b \in Seq(S) /\ Len(b) = IF p + 1 <= Len(s) THEN Len(s) - (p + 1) + 1 ELSE 0
        /\ \A i \in 1..(Len(s) - (p + 1) + 1) : b[i] = s[p + 1 + i - 1]
    BY <2>1, SubSeqProperties
  <2>3. Len(s) \in Nat OBVIOUS
  <2> QED BY <2>2, <2>3
<1>3. /\ a \o b \in Seq(S) /\ Len(a \o b) = Len(a) + Len(b)
      /\ \A i \in 1..Len(a) + Len(b) : (a \o b)[i] = IF i <= Len(a) THEN a[i] ELSE b[i - Len(a)]
  BY <1>1, <1>2, ConcatProperties
<1>4. RemoveAt(s, p) = a \o b BY DEF RemoveAt
<1>5. Len(s) \in Nat OBVIOUS
<1> HIDE DEF a, b
<1>6. \A k \in 1..Len(s) - 1 : (a \o b)[k] = IF k < p THEN s[k] ELSE s[k + 1]
  <2> SUFFICES ASSUME NEW k \in 1..Len(s) - 1 PROVE (a \o b)[k] = IF k < p THEN s[k] ELSE s[k + 1] OBVIOUS
  <2>1. CASE k < p BY <1>1, <1>2, <1>3, <1>5, <2>1
  <2>2. CASE ~(k < p)
    <3>1. (a \o b)[k] = b[k - (p - 1)] BY <1>1, <1>2, <1>3, <1>5, <2>2
    <3>2. k - (p - 1) \in 1..(Len(s) - p) /\ p + (k - (p - 1)) = k + 1 BY <1>5, <2>2
    <3> QED BY <1>2, <2>2, <3>1, <3>2
  <2> QED BY <2>1, <2>2
<1> QED BY <1>1, <1>2, <1>3, <1>4, <1>5, <1>6 DEF Cut

\* RemoveFirst takes an element out where it stands.
LEMMA Removes ==
  ASSUME NEW S, NEW s \in Seq(S), NEW e
  PROVE  /\ RemoveFirst(s, e) \in Seq(S)
         /\ \/ RemoveFirst(s, e) = s /\ \A i \in 1..Len(s) : s[i] # e
            \/ \E p \in 1..Len(s) : s[p] = e /\ Cut(s, p, RemoveFirst(s, e))
<1>1. CASE \E i \in 1..Len(s) : s[i] = e
  <2> DEFINE I == {i \in 1..Len(s) : s[i] = e}
  <2>1. I \subseteq Nat /\ I # {} BY <1>1
  <2>2. Min(I) \in I BY <2>1, LeastIn
  <2>3. SelectInSeq(s, LAMBDA v : v = e) = Min(I) BY <2>1 DEF SelectInSeq
  <2>4. RemoveFirst(s, e) = RemoveAt(s, Min(I)) BY <1>1, <2>3 DEF RemoveFirst
  <2> QED BY <2>2, <2>4, CutAt
<1>2. CASE ~\E i \in 1..Len(s) : s[i] = e BY <1>2 DEF RemoveFirst
<1> QED BY <1>1, <1>2

-----------------------------------------------------------------------------
(* The order of use *)

\* What is left of a sequence without its element at p.
LEMMA LeftOver ==
  ASSUME NEW s, Len(s) \in Nat, NEW p \in 1..Len(s), NEW r, Cut(s, p, r)
  PROVE  \A i \in 1..Len(r) : \E k \in 1..Len(s) :
           k # p /\ r[i] = s[k] /\ i = IF k < p THEN k ELSE k - 1
<1> SUFFICES ASSUME NEW i \in 1..Len(r)
             PROVE  \E k \in 1..Len(s) : k # p /\ r[i] = s[k] /\ i = IF k < p THEN k ELSE k - 1
  OBVIOUS
<1>1. Len(r) = Len(s) - 1 /\ r[i] = IF i < p THEN s[i] ELSE s[i + 1] BY DEF Cut
<1>2. CASE i < p BY <1>1, <1>2
<1>3. CASE ~(i < p)
  <2>1. i + 1 \in 1..Len(s) /\ i + 1 # p /\ ~(i + 1 < p) /\ i = i + 1 - 1 BY <1>1, <1>3
  <2> QED BY <1>1, <1>3, <2>1
<1> QED BY <1>2, <1>3

\* Elements that stand once stand once without one of them.
LEMMA OthersLeft ==
  ASSUME NEW s, Len(s) \in Nat, NEW p \in 1..Len(s), NEW r, Cut(s, p, r), Once(s)
  PROVE  /\ Once(r)
         /\ \A x : Has(r, x) <=> x # s[p] /\ Has(s, x)
<1>1. ASSUME NEW i \in 1..Len(r), NEW j \in 1..Len(r), r[i] = r[j] PROVE i = j
  <2>1. PICK k \in 1..Len(s) : k # p /\ r[i] = s[k] /\ i = IF k < p THEN k ELSE k - 1 BY LeftOver
  <2>2. PICK l \in 1..Len(s) : l # p /\ r[j] = s[l] /\ j = IF l < p THEN l ELSE l - 1 BY LeftOver
  <2>3. k = l BY <1>1, <2>1, <2>2 DEF Once
  <2> QED BY <2>1, <2>2, <2>3
<1>2. ASSUME NEW i \in 1..Len(r) PROVE r[i] # s[p] /\ \E k \in 1..Len(s) : s[k] = r[i]
  <2>1. PICK k \in 1..Len(s) : k # p /\ r[i] = s[k] BY LeftOver
  <2> QED BY <2>1 DEF Once
<1>3. ASSUME NEW k \in 1..Len(s), s[k] # s[p] PROVE \E i \in 1..Len(r) : r[i] = s[k]
  <2>1. k # p BY <1>3
  <2>2. Len(r) = Len(s) - 1 /\ \A i \in 1..Len(s) - 1 : r[i] = IF i < p THEN s[i] ELSE s[i + 1] BY DEF Cut
  <2>3. CASE k < p
    <3>1. k \in 1..Len(s) - 1 BY <2>3
    <3> QED BY <2>2, <2>3, <3>1
  <2>4. CASE k > p
    <3>1. k - 1 \in 1..Len(s) - 1 /\ ~(k - 1 < p) /\ k - 1 + 1 = k BY <2>4
    <3>2. r[k - 1] = s[k] BY <2>2, <3>1
    <3> QED BY <2>2, <3>1, <3>2
  <2> QED BY <2>1, <2>3, <2>4
<1>4. Once(r) BY <1>1 DEF Once
<1>5. ASSUME NEW x, Has(r, x) PROVE x # s[p] /\ Has(s, x)
  <2>1. PICK i \in 1..Len(r) : r[i] = x BY <1>5 DEF Has
  <2> QED BY <1>2, <2>1 DEF Has
<1>6. ASSUME NEW x, x # s[p], Has(s, x) PROVE Has(r, x)
  <2>1. PICK k \in 1..Len(s) : s[k] = x BY <1>6 DEF Has
  <2> QED BY <1>3, <1>6, <2>1 DEF Has
<1> QED BY <1>4, <1>5, <1>6

\* The last n of s are not e; and they are the last of r.
NotLast(s, n, e) == \A i \in 1..n : s[Len(s) - n + i] # e
SameEnd(s, n, r) == n <= Len(r) /\ \A i \in 1..n : r[Len(r) - n + i] = s[Len(s) - n + i]

Without(S, s, e, n, r) ==
  /\ r \in Seq(S) /\ SameEnd(s, n, r)
  /\ Once(r)
  /\ \A x : Has(r, x) <=> x # e /\ Has(s, x)

\* The last n of the order are not e: without e they are its last n still.
LEMMA EndKept ==
  ASSUME NEW S, NEW s \in Seq(S), NEW e, NEW n \in 0..Len(s),
         Once(s),
         NotLast(s, n, e),
         NEW r, r = RemoveFirst(s, e)
  PROVE  Without(S, s, e, n, r)
<1>0. Len(s) \in Nat /\ r \in Seq(S) /\ Len(r) \in Nat BY Removes
<1>1. CASE r = s /\ \A i \in 1..Len(s) : s[i] # e
  <2>1. ~Has(s, e) BY <1>1 DEF Has
  <2> QED BY <1>0, <1>1, <2>1 DEF SameEnd, Without
<1>2. CASE \E p \in 1..Len(s) : s[p] = e /\ Cut(s, p, r)
  <2>1. PICK p \in 1..Len(s) : s[p] = e /\ Cut(s, p, r) BY <1>2
  <2>2. Len(r) = Len(s) - 1 /\ \A k \in 1..Len(r) : r[k] = IF k < p THEN s[k] ELSE s[k + 1] BY <2>1 DEF Cut
  <2>3. p <= Len(s) - n
    <3>1. SUFFICES ASSUME p > Len(s) - n PROVE FALSE BY <1>0
    <3>2. p - (Len(s) - n) \in 1..n /\ Len(s) - n + (p - (Len(s) - n)) = p BY <1>0, <3>1
    <3> QED BY <2>1, <3>2 DEF NotLast
  <2>4. n <= Len(r) /\ \A i \in 1..n : r[Len(r) - n + i] = s[Len(s) - n + i]
    <3>1. n <= Len(r) BY <1>0, <2>2, <2>3
    <3> SUFFICES ASSUME NEW i \in 1..n PROVE r[Len(r) - n + i] = s[Len(s) - n + i] BY <3>1
    <3>2. Len(r) - n + i \in 1..Len(r) /\ ~(Len(r) - n + i < p) /\ Len(r) - n + i + 1 = Len(s) - n + i
      BY <1>0, <2>2, <2>3
    <3> QED BY <2>2, <3>2
  <2>5. /\ Once(r)
        /\ \A x : Has(r, x) <=> x # s[p] /\ Has(s, x)
    BY <1>0, <2>1, OthersLeft, Zenon
  <2> QED BY <1>0, <2>1, <2>4, <2>5 DEF SameEnd, Without
<1> QED BY <1>1, <1>2, Removes

\* x is one of the last p.
Near(q, x, p) == \E i \in 1..Len(q) : q[i] = x /\ Len(q) < i + p

\* What is taken out brings nothing further from the end.
LEMMA NearKept ==
  ASSUME NEW S, NEW q \in Seq(S), NEW e, NEW r, r = RemoveFirst(q, e),
         NEW x, x # e, NEW p \in Nat, Near(q, x, p)
  PROVE  Near(r, x, p)
<1>0. Len(q) \in Nat /\ r \in Seq(S) /\ Len(r) \in Nat BY Removes
<1>1. PICK i \in 1..Len(q) : q[i] = x /\ Len(q) < i + p BY DEF Near
<1>2. CASE r = q BY <1>2
<1>3. CASE \E k \in 1..Len(q) : q[k] = e /\ Cut(q, k, r)
  <2>1. PICK k \in 1..Len(q) : q[k] = e /\ Cut(q, k, r) BY <1>3
  <2>2. Len(r) = Len(q) - 1 /\ \A j \in 1..Len(r) : r[j] = IF j < k THEN q[j] ELSE q[j + 1] BY <2>1 DEF Cut
  <2>3. i # k BY <1>1, <2>1
  <2>4. CASE i < k
    <3>1. i \in 1..Len(r) /\ Len(r) < i + p BY <1>0, <1>1, <2>2, <2>4
    <3>2. r[i] = x BY <1>1, <2>2, <2>4, <3>1
    <3> QED BY <3>1, <3>2 DEF Near
  <2>5. CASE i > k
    <3>1. i - 1 \in 1..Len(r) /\ Len(r) < i - 1 + p /\ ~(i - 1 < k) /\ i - 1 + 1 = i BY <1>0, <1>1, <2>2, <2>5
    <3>2. r[i - 1] = x BY <1>1, <2>2, <3>1
    <3> QED BY <3>1, <3>2 DEF Near
  <2> QED BY <2>3, <2>4, <2>5
<1> QED BY <1>2, <1>3, Removes

\* What is appended brings the others one further.
LEMMA NearAppended ==
  ASSUME NEW S, NEW q \in Seq(S), NEW r, Len(r) = Len(q) + 1, \A i \in 1..Len(q) : r[i] = q[i],
         NEW x, NEW p \in Nat, Near(q, x, p)
  PROVE  Near(r, x, p + 1)
<1>0. Len(q) \in Nat OBVIOUS
<1>1. PICK i \in 1..Len(q) : q[i] = x /\ Len(q) < i + p BY DEF Near
<1>2. i \in 1..Len(r) /\ r[i] = x /\ Len(r) < i + (p + 1) BY <1>0, <1>1
<1> QED BY <1>2 DEF Near

LEMMA NearAnyway ==
  ASSUME NEW S, NEW q \in Seq(S), NEW x, NEW p \in Nat, NEW o \in Nat, p <= o, Near(q, x, p)
  PROVE  Near(q, x, o)
<1>1. PICK i \in 1..Len(q) : q[i] = x /\ Len(q) < i + p BY DEF Near
<1>2. Len(q) < i + o BY <1>1
<1> QED BY <1>1, <1>2 DEF Near

\* The slots of the memo.
InMemo(tx, s) == \E i \in 1..Len(tx.memo) : tx.memo[i].slot = s

LEMMA CacheFacts ==
  ASSUME NEW tx, CacheInv(tx)
  PROVE  /\ tx.lru \in Seq(1..Slots) /\ Len(tx.lru) \in Nat
         /\ tx.memo \in Seq([id : Identities, slot : 1..Slots]) /\ Len(tx.memo) \in 0..Len(tx.lru)
         /\ Once(tx.lru)
         /\ \A i \in 1..Len(tx.memo) : /\ tx.memo[i].slot \in 1..Slots
                                        /\ tx.memo[i].slot = tx.lru[Len(tx.lru) - Len(tx.memo) + i]
                                        /\ tx.memo[i].id \in Identities
<1>1. /\ tx.lru \in Seq(1..Slots) /\ tx.memo \in Seq([id : Identities, slot : 1..Slots])
      /\ Len(tx.memo) <= Len(tx.lru)
      /\ \A i \in 1..Len(tx.memo) : tx.memo[i].slot = tx.lru[Len(tx.lru) - Len(tx.memo) + i]
  BY Zenon DEF CacheInv, CacheParts, AtEnd
<1>2. \A i \in 1..Len(tx.memo) : tx.memo[i] \in [id : Identities, slot : 1..Slots] BY <1>1, ElementOfSeq
<1>3. Once(tx.lru) BY Zenon DEF CacheInv, Ordered
<1>4. Len(tx.lru) \in Nat /\ Len(tx.memo) \in 0..Len(tx.lru) BY <1>1
<1>5. \A i \in 1..Len(tx.memo) : tx.memo[i].slot \in 1..Slots /\ tx.memo[i].id \in Identities BY <1>2
<1> QED BY <1>1, <1>3, <1>4, <1>5, Zenon

\* A slot that is not remembered can be released.
LEMMA Releases ==
  ASSUME NEW tx, CacheInv(tx), NEW s \in 1..Slots, ~InMemo(tx, s),
         NEW r, r = Release(tx, s)
  PROVE  /\ CacheInv(r) /\ r.memo = tx.memo /\ r.entry[s] = NoEntry
         /\ \A k \in 1..Slots \ {s} : r.entry[k] = tx.entry[k]
         /\ \A k \in 1..Slots \ {s}, p \in Nat : Near(tx.lru, k, p) => Near(r.lru, k, p)
<1> DEFINE lru == RemoveFirst(tx.lru, s)
           n == Len(tx.memo)
<1>1. /\ r.entry = [tx.entry EXCEPT ![s] = NoEntry] /\ r.lru = lru /\ r.memo = tx.memo
      /\ r = [entry |-> r.entry, lru |-> r.lru, memo |-> r.memo, copies |-> r.copies, snaps |-> r.snaps]
  <2> HIDE DEF lru
  <2>1. r = [tx EXCEPT !.entry[s] = NoEntry, !.lru = lru] BY DEF Release, lru
  <2>2. tx = [entry |-> tx.entry, lru |-> tx.lru, memo |-> tx.memo, copies |-> tx.copies, snaps |-> tx.snaps]
    BY DEF CacheInv, CacheParts
  <2> QED BY <2>1, <2>2
<1>2. /\ r.entry[s] = NoEntry /\ \A k \in 1..Slots \ {s} : r.entry[k] = tx.entry[k]
      /\ r.entry = [k \in 1..Slots |-> r.entry[k]]
  <2>1. tx.entry = [k \in 1..Slots |-> tx.entry[k]] BY DEF CacheInv, CacheParts
  <2> QED BY <1>1, <2>1
<1>3. /\ tx.lru \in Seq(1..Slots) /\ n \in 0..Len(tx.lru)
      /\ Once(tx.lru)
      /\ NotLast(tx.lru, n, s)
  BY CacheFacts DEF InMemo, NotLast
<1>n. ASSUME NEW k \in 1..Slots \ {s}, NEW p \in Nat, Near(tx.lru, k, p) PROVE Near(r.lru, k, p)
  <2>1. k # s /\ r.lru = RemoveFirst(tx.lru, s) BY <1>1
  <2> QED BY <1>3, <1>n, <2>1, NearKept, Zenon
<1> HIDE DEF lru, n
<1>m. \A i \in 1..Len(tx.memo) : tx.memo[i].slot \in 1..Slots \ {s} BY CacheFacts DEF InMemo
<1>4. /\ lru \in Seq(1..Slots) /\ SameEnd(tx.lru, n, lru)
      /\ Once(lru)
      /\ \A x : Has(lru, x) <=> x # s /\ Has(tx.lru, x)
  <2>1. lru = RemoveFirst(tx.lru, s) BY DEF lru
  <2>2. Without(1..Slots, tx.lru, s, n, lru) BY <1>3, <2>1, EndKept, Zenon
  <2> QED BY <2>2 DEF Without
<1>v. NoEntry.valid = FALSE BY DEF NoEntry
<1>5. CacheParts(r) BY <1>1, <1>2, <1>4 DEF CacheInv, CacheParts
<1>6. Filled(r) BY <1>2, <1>v DEF CacheInv, Filled
<1>7. Ordered(r)
  <2>1. \A k \in 1..Slots : r.entry[k].valid <=> Has(r.lru, k)
    <3> SUFFICES ASSUME NEW k \in 1..Slots PROVE r.entry[k].valid <=> Has(lru, k) BY <1>1
    <3>1. tx.entry[k].valid <=> Has(tx.lru, k) BY DEF CacheInv, Ordered
    <3>2. Has(lru, k) <=> k # s /\ Has(tx.lru, k) BY <1>4
    <3>3. r.entry[k] = IF k = s THEN NoEntry ELSE tx.entry[k] BY <1>2
    <3> QED BY <1>v, <3>1, <3>2, <3>3, Zenon
  <2> QED BY <1>1, <1>4, <2>1 DEF Ordered
<1>8. AtEnd(r) BY <1>1, <1>4 DEF CacheInv, AtEnd, SameEnd, n
<1>9. Remembered(r)
  <2>1. \A i \in 1..Len(tx.memo) : r.entry[tx.memo[i].slot] = tx.entry[tx.memo[i].slot] BY <1>2, <1>m
  <2>2. Remembered(tx) BY DEF CacheInv
  <2> QED BY <1>1, <2>1, <2>2 DEF Remembered
<1> QED BY <1>1, <1>2, <1>n, <1>5, <1>6, <1>7, <1>8, <1>9 DEF CacheInv

LEMMA AppendedIn ==
  ASSUME NEW S, NEW q \in Seq(S), NEW a \in S, NEW m, m = Append(q, a)
  PROVE  /\ m \in Seq(S) /\ Len(m) = Len(q) + 1 /\ m[Len(m)] = a
         /\ \A i \in 1..Len(q) : m[i] = q[i]
OBVIOUS

\* One more remembered, and the oldest forgotten when there is no room.
Shifted(S, q, a, d, m) ==
  /\ m \in Seq(S) /\ Len(m) = Len(q) - d + 1 /\ Len(m) <= MemoSlots
  /\ m[Len(m)] = a /\ d <= Len(q)
  /\ \A i \in 1..Len(m) - 1 : i + d \in 1..Len(q) /\ m[i] = q[i + d]

LEMMA Memorised ==
  ASSUME NEW S, NEW q \in Seq(S), Len(q) <= MemoSlots, NEW a \in S, NEW m,
         m = Append(IF Len(q) = MemoSlots THEN Tail(q) ELSE q, a)
  PROVE  \E d \in 0..1 : Shifted(S, q, a, d, m)
<1>0. Len(q) \in Nat /\ MemoSlots \in Nat \ {0} BY CacheAssumption
<1>1. CASE Len(q) = MemoSlots
  <2>1. PICK u : u = Tail(q) OBVIOUS
  <2>2. u \in Seq(S) /\ Len(u) = Len(q) - 1 /\ \A i \in 1..Len(u) : u[i] = q[i + 1]
    <3>1. q # << >> BY <1>0, <1>1
    <3> QED BY <2>1, <3>1, HeadTailProperties
  <2>3. m = Append(u, a) BY <1>1, <2>1
  <2>4. m \in Seq(S) /\ Len(m) = Len(u) + 1 /\ m[Len(m)] = a /\ \A i \in 1..Len(u) : m[i] = u[i]
    BY <2>2, <2>3, AppendedIn
  <2>5. \A i \in 1..Len(m) - 1 : i + 1 \in 1..Len(q) /\ m[i] = q[i + 1] BY <1>0, <2>2, <2>4
  <2>6. 1 <= Len(q) /\ Len(m) = Len(q) - 1 + 1 /\ Len(m) <= MemoSlots BY <1>0, <1>1, <2>2, <2>4
  <2>7. Shifted(S, q, a, 1, m) BY <2>4, <2>5, <2>6 DEF Shifted
  <2> QED BY <2>7
<1>2. CASE Len(q) # MemoSlots
  <2>1. m = Append(q, a) BY <1>2
  <2>2. /\ m \in Seq(S) /\ Len(m) = Len(q) + 1 /\ m[Len(m)] = a
        /\ \A i \in 1..Len(m) - 1 : m[i] = q[i]
    BY <1>0, <2>1
  <2>3. /\ \A i \in 1..Len(m) - 1 : i + 0 \in 1..Len(q) /\ m[i] = q[i + 0]
        /\ Len(m) = Len(q) - 0 + 1 /\ Len(m) <= MemoSlots /\ 0 <= Len(q)
    BY <1>0, <1>2, <2>2
  <2>4. Shifted(S, q, a, 0, m) BY <2>2, <2>3 DEF Shifted
  <2> QED BY <2>4
<1> QED BY <1>1, <1>2

\* An entry that can be used: of an identity that is not remembered.
NewEntry(tx, e) ==
  /\ e.valid = TRUE /\ e.id.fmt \notin Undecodable /\ e.id \in Identities
  /\ \A i \in 1..Len(tx.memo) : tx.memo[i].id # e.id

\* A slot used for such an entry becomes the last of the order and of the memo.
LEMMA Uses ==
  ASSUME NEW tx, CacheInv(tx), NEW s \in 1..Slots, ~InMemo(tx, s), NEW e, NewEntry(tx, e),
         NEW r, r = memo_put(Touch([tx EXCEPT !.entry[s] = e], s), e.id, s)
  PROVE  /\ CacheInv(r) /\ InMemo(r, s) /\ Near(r.lru, s, 1) /\ r.entry[s] = e
         /\ \A k \in 1..Slots \ {s} : r.entry[k] = tx.entry[k]
         /\ \A k \in 1..Slots \ {s}, p \in Nat : Near(tx.lru, k, p) => Near(r.lru, k, p + 1)
<1> DEFINE cut == RemoveFirst(tx.lru, s)
           lru == Append(cut, s)
           put == [id |-> e.id, slot |-> s]
           n == Len(tx.memo)
           memo == Append(IF Len(tx.memo) = MemoSlots THEN Tail(tx.memo) ELSE tx.memo, put)
<1>1. /\ r.entry = [tx.entry EXCEPT ![s] = e] /\ r.lru = lru /\ r.memo = memo
      /\ r = [entry |-> r.entry, lru |-> r.lru, memo |-> r.memo, copies |-> r.copies, snaps |-> r.snaps]
  <2>1. tx = [entry |-> tx.entry, lru |-> tx.lru, memo |-> tx.memo, copies |-> tx.copies, snaps |-> tx.snaps]
    BY DEF CacheInv, CacheParts
  <2> DEFINE t1 == [tx EXCEPT !.entry[s] = e]
             t2 == Touch(t1, s)
  <2>2. /\ t1.entry = [tx.entry EXCEPT ![s] = e] /\ t1.lru = tx.lru /\ t1.memo = tx.memo
        /\ t1 = [entry |-> t1.entry, lru |-> t1.lru, memo |-> t1.memo, copies |-> t1.copies, snaps |-> t1.snaps]
    BY <2>1
  <2> HIDE DEF t1
  <2>3. /\ t2.entry = t1.entry /\ t2.lru = lru /\ t2.memo = tx.memo
        /\ t2 = [entry |-> t2.entry, lru |-> t2.lru, memo |-> t2.memo, copies |-> t2.copies, snaps |-> t2.snaps]
    <3>1. t2 = [t1 EXCEPT !.lru = lru] BY <2>2 DEF Touch
    <3> HIDE DEF t2, lru
    <3> QED BY <2>2, <3>1
  <2>4. r = memo_put(t2, e.id, s) BY DEF t1
  <2>5. r = [t2 EXCEPT !.memo = memo] BY <2>3, <2>4 DEF memo_put
  <2> HIDE DEF t2, lru, memo
  <2> QED BY <2>2, <2>3, <2>5
<1>2. /\ r.entry[s] = e /\ \A k \in 1..Slots \ {s} : r.entry[k] = tx.entry[k]
      /\ r.entry = [k \in 1..Slots |-> r.entry[k]]
  <2>1. tx.entry = [k \in 1..Slots |-> tx.entry[k]] BY DEF CacheInv, CacheParts
  <2> QED BY <1>1, <2>1
<1>3. /\ tx.lru \in Seq(1..Slots) /\ n \in 0..Len(tx.lru)
      /\ Once(tx.lru)
      /\ NotLast(tx.lru, n, s)
  BY CacheFacts DEF InMemo, NotLast
<1> HIDE DEF n
<1>4. Without(1..Slots, tx.lru, s, n, cut)
  <2>1. cut = RemoveFirst(tx.lru, s) OBVIOUS
  <2> HIDE DEF cut
  <2> QED BY <1>3, <2>1, EndKept, Zenon
<1>n. \A k \in 1..Slots \ {s}, p \in Nat : Near(tx.lru, k, p) => Near(cut, k, p)
  <2> SUFFICES ASSUME NEW k \in 1..Slots \ {s}, NEW p \in Nat, Near(tx.lru, k, p) PROVE Near(cut, k, p) OBVIOUS
  <2>1. k # s /\ cut = RemoveFirst(tx.lru, s) OBVIOUS
  <2> HIDE DEF cut
  <2> QED BY <1>3, <2>1, NearKept, Zenon
<1> HIDE DEF cut
<1>5. /\ lru \in Seq(1..Slots) /\ Len(cut) \in Nat /\ Len(lru) = Len(cut) + 1 /\ lru[Len(lru)] = s
      /\ \A i \in 1..Len(cut) : lru[i] = cut[i]
  BY <1>4 DEF Without
<1> HIDE DEF lru
<1>l. Near(r.lru, s, 1)
  <2>1. Len(lru) \in 1..Len(lru) /\ Len(lru) < Len(lru) + 1 BY <1>5
  <2> QED BY <1>1, <1>5, <2>1 DEF Near
<1>o. \A k \in 1..Slots \ {s}, p \in Nat : Near(tx.lru, k, p) => Near(r.lru, k, p + 1)
  <2> SUFFICES ASSUME NEW k \in 1..Slots \ {s}, NEW p \in Nat, Near(tx.lru, k, p) PROVE Near(r.lru, k, p + 1) OBVIOUS
  <2>1. cut \in Seq(1..Slots) BY <1>4 DEF Without
  <2>2. Near(cut, k, p) BY <1>n
  <2>3. Near(lru, k, p + 1) BY <1>5, <2>1, <2>2, NearAppended
  <2> QED BY <1>1, <2>3
<1>6. PICK d \in 0..1 :
        /\ memo \in Seq([id : Identities, slot : 1..Slots]) /\ Len(memo) = n - d + 1 /\ Len(memo) <= MemoSlots
        /\ memo[Len(memo)] = put /\ d <= n
        /\ \A i \in 1..Len(memo) - 1 : i + d \in 1..n /\ memo[i] = tx.memo[i + d]
  <2>1. put \in [id : Identities, slot : 1..Slots] BY DEF NewEntry
  <2>2. /\ tx.memo \in Seq([id : Identities, slot : 1..Slots]) /\ Len(tx.memo) <= MemoSlots
    BY DEF CacheInv, CacheParts, AtEnd
  <2>3. memo = Append(IF Len(tx.memo) = MemoSlots THEN Tail(tx.memo) ELSE tx.memo, put) OBVIOUS
  <2> HIDE DEF memo, put
  <2>4. \E d \in 0..1 : Shifted([id : Identities, slot : 1..Slots], tx.memo, put, d, memo)
    BY <2>1, <2>2, <2>3, Memorised, Zenon
  <2> QED BY <2>4 DEF n, Shifted
<1>7. Len(memo) \in 1..n + 1 /\ n \in Nat BY <1>3, <1>6
<1>p. put.id = e.id /\ put.slot = s OBVIOUS
<1> HIDE DEF memo, put
<1>8. CacheParts(r) BY <1>1, <1>2, <1>5, <1>6 DEF CacheParts
<1>9. Filled(r)
  <2>1. e.valid = TRUE /\ e.id.fmt \notin Undecodable BY DEF NewEntry
  <2> QED BY <1>2, <2>1 DEF CacheInv, Filled
<1>10. Ordered(r)
  <2>1. \A x : Has(lru, x) <=> x = s \/ Has(cut, x)
    <3> SUFFICES ASSUME NEW x PROVE Has(lru, x) <=> x = s \/ Has(cut, x) OBVIOUS
    <3>1. ASSUME NEW i \in 1..Len(lru), lru[i] = x PROVE x = s \/ Has(cut, x)
      <4>1. i = Len(lru) \/ i \in 1..Len(cut) BY <1>5
      <4> QED BY <1>5, <3>1, <4>1 DEF Has
    <3>2. Has(lru, s)
      <4>1. Len(lru) \in 1..Len(lru) BY <1>5
      <4> QED BY <1>5, <4>1 DEF Has
    <3>3. ASSUME NEW i \in 1..Len(cut), cut[i] = x PROVE Has(lru, x)
      <4>1. i \in 1..Len(lru) BY <1>5
      <4> QED BY <1>5, <3>3, <4>1 DEF Has
    <3> QED BY <3>1, <3>2, <3>3 DEF Has
  <2>2. \A k \in 1..Slots : r.entry[k].valid <=> Has(lru, k)
    <3> SUFFICES ASSUME NEW k \in 1..Slots PROVE r.entry[k].valid <=> Has(lru, k) OBVIOUS
    <3>1. tx.entry[k].valid <=> Has(tx.lru, k) BY DEF CacheInv, Ordered
    <3>2. Has(lru, k) <=> k = s \/ Has(tx.lru, k) BY <1>4, <2>1 DEF Without
    <3>3. r.entry[k] = IF k = s THEN e ELSE tx.entry[k] BY <1>2
    <3>4. e.valid = TRUE BY DEF NewEntry
    <3> QED BY <3>1, <3>2, <3>3, <3>4, Zenon
  <2>3. Once(lru)
    <3>1. ~Has(cut, s) /\ Once(cut) BY <1>4 DEF Without
    <3> SUFFICES ASSUME NEW i \in 1..Len(lru), NEW j \in 1..Len(lru), lru[i] = lru[j] PROVE i = j BY DEF Once
    <3>2. i = Len(lru) \/ i \in 1..Len(cut) BY <1>5
    <3>3. j = Len(lru) \/ j \in 1..Len(cut) BY <1>5
    <3>4. CASE i \in 1..Len(cut) /\ j \in 1..Len(cut) BY <1>5, <3>1, <3>4 DEF Once
    <3>5. CASE i \in 1..Len(cut) /\ j = Len(lru) BY <1>5, <3>1, <3>5 DEF Has
    <3>6. CASE i = Len(lru) /\ j \in 1..Len(cut) BY <1>5, <3>1, <3>6 DEF Has
    <3> QED BY <3>2, <3>3, <3>4, <3>5, <3>6
  <2> QED BY <1>1, <2>2, <2>3 DEF Ordered
<1>11. AtEnd(r)
  <2>1. n <= Len(cut) /\ \A i \in 1..n : cut[Len(cut) - n + i] = tx.lru[Len(tx.lru) - n + i]
    BY <1>4 DEF Without, SameEnd
  <2>2. \A i \in 1..n : tx.memo[i].slot = cut[Len(cut) - n + i] BY <2>1, CacheFacts DEF n
  <2>3. Len(memo) <= Len(lru) BY <1>5, <1>6, <1>7, <2>1
  <2> SUFFICES ASSUME NEW i \in 1..Len(memo) PROVE memo[i].slot = lru[Len(lru) - Len(memo) + i]
    BY <1>1, <1>6, <2>3 DEF AtEnd
  <2>4. CASE i = Len(memo)
    <3>1. Len(lru) - Len(memo) + i = Len(lru) BY <1>5, <1>7, <2>4
    <3> QED BY <1>5, <1>6, <1>p, <2>4, <3>1
  <2>5. CASE i \in 1..Len(memo) - 1
    <3>1. i + d \in 1..n /\ memo[i].slot = cut[Len(cut) - n + (i + d)] BY <1>6, <2>2, <2>5
    <3>a. Len(cut) \in Nat /\ n \in 0..Len(cut) /\ i \in Nat /\ Len(lru) = Len(cut) + 1 /\ Len(memo) = n - d + 1
      BY <1>5, <1>6, <1>7, <2>1
    <3>2. Len(lru) - Len(memo) + i = Len(cut) - n + (i + d) /\ Len(cut) - n + (i + d) \in 1..Len(cut)
      <4>1. i + d \in 1..n /\ Len(cut) \in Nat /\ n \in 0..Len(cut) /\ i \in Nat BY <3>1, <3>a
      <4>2. PICK c, l, m : c = Len(cut) /\ l = Len(lru) /\ m = Len(memo) OBVIOUS
      <4>3. c \in Nat /\ n \in Nat /\ i \in Nat /\ l = c + 1 /\ m = n - d + 1 BY <3>a, <4>1, <4>2
      <4>7. d \in Nat OBVIOUS
      <4>4. l - m + i = c - n + (i + d) BY <4>3, <4>7, SmallSums
      <4>5. Len(lru) - Len(memo) + i = Len(cut) - n + (i + d) BY <4>2, <4>4, Zenon
      <4>6. Len(cut) - n + (i + d) \in 1..Len(cut) BY <4>1
      <4> QED BY <4>5, <4>6
    <3> QED BY <1>5, <3>1, <3>2
  <2> QED BY <1>7, <2>4, <2>5
<1>12. Remembered(r)
  <2>1. \A i \in 1..n : tx.memo[i].slot \in 1..Slots \ {s} BY CacheFacts DEF InMemo, n
  <2>2. /\ \A i \in 1..n : tx.entry[tx.memo[i].slot].valid /\ tx.entry[tx.memo[i].slot].id = tx.memo[i].id
        /\ \A i, j \in 1..n : tx.memo[i].id = tx.memo[j].id => i = j
    BY DEF CacheInv, Remembered, n
  <2>3. \A i \in 1..n : tx.memo[i].id # e.id BY DEF NewEntry, n
  <2>4. e.valid = TRUE BY DEF NewEntry
  <2>5. ASSUME NEW i \in 1..Len(memo)
        PROVE  r.entry[memo[i].slot].valid /\ r.entry[memo[i].slot].id = memo[i].id
    <3>1. CASE i = Len(memo) BY <1>2, <1>6, <1>p, <2>4, <3>1
    <3>2. CASE i \in 1..Len(memo) - 1
      <4>1. PICK k \in 1..n : memo[i] = tx.memo[k] BY <1>6, <3>2
      <4>2. /\ tx.memo[k].slot \in 1..Slots \ {s}
            /\ tx.entry[tx.memo[k].slot].valid /\ tx.entry[tx.memo[k].slot].id = tx.memo[k].id
        BY <2>1, <2>2
      <4>3. r.entry[tx.memo[k].slot] = tx.entry[tx.memo[k].slot] BY <1>2, <4>2
      <4> QED BY <4>1, <4>2, <4>3
    <3> QED BY <1>7, <3>1, <3>2
  <2>6. ASSUME NEW i \in 1..Len(memo), NEW j \in 1..Len(memo), memo[i].id = memo[j].id PROVE i = j
    <3>1. CASE i \in 1..Len(memo) - 1 /\ j \in 1..Len(memo) - 1
      <4>1. /\ i + d \in 1..n /\ memo[i] = tx.memo[i + d]
            /\ j + d \in 1..n /\ memo[j] = tx.memo[j + d]
        BY <1>6, <3>1
      <4>2. i + d = j + d BY <2>2, <2>6, <4>1
      <4> QED BY <4>2
    <3>2. CASE i = Len(memo) /\ j \in 1..Len(memo) - 1
      <4>1. j + d \in 1..n /\ memo[j] = tx.memo[j + d] BY <1>6, <3>2
      <4> QED BY <1>6, <1>p, <2>3, <2>6, <3>2, <4>1
    <3>3. CASE i \in 1..Len(memo) - 1 /\ j = Len(memo)
      <4>1. i + d \in 1..n /\ memo[i] = tx.memo[i + d] BY <1>6, <3>3
      <4> QED BY <1>6, <1>p, <2>3, <2>6, <3>3, <4>1
    <3>4. (i = Len(memo) \/ i \in 1..Len(memo) - 1) /\ (j = Len(memo) \/ j \in 1..Len(memo) - 1) BY <1>7
    <3> QED BY <3>1, <3>2, <3>3, <3>4
  <2> QED BY <1>1, <2>5, <2>6 DEF Remembered
<1>13. InMemo(r, s)
  <2>1. Len(memo) \in 1..Len(memo) BY <1>7
  <2> QED BY <1>1, <1>6, <1>p, <2>1 DEF InMemo
<1> QED BY <1>2, <1>l, <1>o, <1>8, <1>9, <1>10, <1>11, <1>12, <1>13 DEF CacheInv

-----------------------------------------------------------------------------
(* A texture is asked for *)

\* A sequence that holds every slot is as long as there are slots.
LEMMA AllSlots ==
  ASSUME NEW q \in Seq(1..Slots), \A s \in 1..Slots : Has(q, s)
  PROVE  Slots <= Len(q)
<1>0. Slots \in Nat /\ Len(q) \in Nat BY CacheAssumption
<1> SUFFICES ASSUME Len(q) < Slots PROVE FALSE BY <1>0
<1> DEFINE f == [s \in 1..Slots |-> CHOOSE i \in 1..Len(q) : q[i] = s]
<1>1. \A s \in 1..Slots : f[s] \in 1..Len(q) /\ q[f[s]] = s BY DEF Has
<1>2. f \in [1..Slots -> 1..Len(q)] BY <1>1
<1>3. /\ IsFiniteSet(1..Slots) /\ Cardinality(1..Slots) = Slots
      /\ IsFiniteSet(1..Len(q)) /\ Cardinality(1..Len(q)) = Len(q)
  <2>1. 1 \in Int /\ Slots \in Int /\ Len(q) \in Int BY <1>0
  <2>2. /\ Cardinality(1..Slots) = IF 1 > Slots THEN 0 ELSE Slots - 1 + 1
        /\ Cardinality(1..Len(q)) = IF 1 > Len(q) THEN 0 ELSE Len(q) - 1 + 1
        /\ IsFiniteSet(1..Slots) /\ IsFiniteSet(1..Len(q))
    BY <2>1, FS_Interval
  <2> QED BY <1>0, <2>2
<1> HIDE DEF f
<1>4. \E x, y \in 1..Slots : x # y /\ f[x] = f[y] BY <1>2, <1>3, FS_PigeonHole
<1> QED BY <1>1, <1>4

\* The slot that is made free is never one that is remembered.
LEMMA FindsSlot ==
  ASSUME NEW tx, CacheInv(tx)
  PROVE  /\ find_slot(tx) \in 1..Slots /\ ~InMemo(tx, find_slot(tx))
         /\ \A p \in Nat : p < Slots => ~Near(tx.lru, find_slot(tx), p)
<1>0. Slots \in Nat \ {0} /\ MemoSlots \in 1..Slots - 1 BY CacheAssumption
<1> DEFINE free == {s \in 1..Slots : ~tx.entry[s].valid}
<1>1. CASE free # {}
  <2>1. find_slot(tx) = Min(free) BY <1>1 DEF find_slot
  <2>2. Min(free) \in free BY <1>1, LeastIn
  <2>3. find_slot(tx) \in 1..Slots /\ ~tx.entry[find_slot(tx)].valid BY <2>1, <2>2
  <2>4. ~Has(tx.lru, find_slot(tx)) BY <2>3 DEF CacheInv, Ordered
  <2>5. \A p \in Nat : ~Near(tx.lru, find_slot(tx), p) BY <2>4 DEF Near, Has
  <2> QED BY <2>3, <2>5 DEF CacheInv, Remembered, InMemo
<1>2. CASE free = {}
  <2>1. find_slot(tx) = Head(tx.lru) BY <1>2 DEF find_slot
  <2>2. \A s \in 1..Slots : Has(tx.lru, s) BY <1>2 DEF CacheInv, Ordered
  <2>3. tx.lru \in Seq(1..Slots) /\ Slots <= Len(tx.lru) BY <2>2, CacheFacts, AllSlots
  <2>4. Len(tx.lru) \in Nat /\ 1 \in 1..Len(tx.lru) BY <1>0, <2>3
  <2>5. find_slot(tx) = tx.lru[1] BY <2>1, <2>3, <2>4
  <2>6. tx.lru[1] \in 1..Slots BY <2>3, <2>4, ElementOfSeq
  <2>7. ASSUME NEW i \in 1..Len(tx.memo), tx.memo[i].slot = tx.lru[1] PROVE FALSE
    <3>1. Len(tx.memo) \in 0..Len(tx.lru) /\ Len(tx.memo) <= MemoSlots BY CacheFacts DEF CacheInv, AtEnd
    <3>2. tx.lru[Len(tx.lru) - Len(tx.memo) + i] = tx.lru[1] BY <2>7, CacheFacts
    <3>3. Len(tx.lru) - Len(tx.memo) + i \in 1..Len(tx.lru)
      <4>1. PICK l, n : l = Len(tx.lru) /\ n = Len(tx.memo) OBVIOUS
      <4>2. l \in Nat /\ n \in 0..l /\ i \in 1..n BY <2>4, <2>7, <3>1, <4>1, Zenon
      <4>3. l - n + i \in 1..l BY <4>2
      <4> QED BY <4>1, <4>3, Zenon
    <3>4. Len(tx.lru) - Len(tx.memo) + i = 1 BY <2>4, <3>2, <3>3 DEF CacheInv, Ordered, Once
    <3> QED BY <1>0, <2>3, <2>4, <3>1, <3>4
  <2>8. ASSUME NEW p \in Nat, p < Slots, Near(tx.lru, tx.lru[1], p) PROVE FALSE
    <3>1. PICK i \in 1..Len(tx.lru) : tx.lru[i] = tx.lru[1] /\ Len(tx.lru) < i + p BY <2>8 DEF Near
    <3>2. i = 1 BY <2>4, <3>1 DEF CacheInv, Ordered, Once
    <3> QED BY <1>0, <2>3, <2>4, <2>8, <3>1, <3>2
  <2> QED BY <2>5, <2>6, <2>7, <2>8 DEF InMemo
<1> QED BY <1>1, <1>2

\* An entry of the identity is in the cache.
Cached(tx, id) == \E s \in 1..Slots : tx.entry[s].valid /\ tx.entry[s].id = id

\* What was near the end of the order is so still, but for one place; what was
\* its very beginning is, too, when no slot had to be found.
Ages(tx, id, tx2) ==
  \A s \in 1..Slots, p \in Nat :
    Near(tx.lru, s, p) /\ (p < Slots \/ Cached(tx, id))
      => Near(tx2.lru, s, p + 1) /\ tx2.entry[s].id = tx.entry[s].id

\* What an answer is: a refusal or a slot that is remembered for the identity.
Answer(tx, id, tx2, slot) ==
  /\ CacheInv(tx2)
  /\ slot \in 0..Slots
  /\ slot # 0 => InMemo(tx2, slot) /\ tx2.entry[slot].id = id
  /\ Ages(tx, id, tx2)

\* What is remembered is not far from the end.
LEMMA MemoNear ==
  ASSUME NEW tx, CacheInv(tx), NEW s, InMemo(tx, s)
  PROVE  Near(tx.lru, s, MemoSlots)
<1>1. PICK i \in 1..Len(tx.memo) : tx.memo[i].slot = s BY DEF InMemo
<1>2. PICK l, n : l = Len(tx.lru) /\ n = Len(tx.memo) OBVIOUS
<1>3. l \in Nat /\ n \in 0..l /\ n <= MemoSlots /\ i \in 1..n BY <1>1, <1>2, CacheFacts DEF CacheInv, AtEnd
<1>4. MemoSlots \in Nat BY CacheAssumption
<1>5. l - n + i \in 1..l /\ l < l - n + i + MemoSlots BY <1>3, <1>4
<1>6. tx.lru[l - n + i] = s BY <1>1, <1>2, CacheFacts
<1> QED BY <1>2, <1>5, <1>6 DEF Near

\* Decoding into s, for an identity: the others are only moved up.
DecodedInto(tx, id, s, t, slot) ==
  /\ CacheInv(t)
  /\ id.fmt \in Undecodable => slot = 0
  /\ id.fmt \notin Undecodable => slot = s /\ InMemo(t, s) /\ Near(t.lru, s, 1) /\ t.entry[s].id = id
  /\ \A k \in 1..Slots \ {s} : t.entry[k] = tx.entry[k]
  /\ \A k \in 1..Slots \ {s}, p \in Nat : Near(tx.lru, k, p) => Near(t.lru, k, p + 1)

LEMMA Decodes ==
  ASSUME NEW tx, CacheInv(tx), NEW m, NEW id \in Identities, NEW zeros, NEW s \in 1..Slots, NEW freed,
         ~InMemo(tx, s), \A i \in 1..Len(tx.memo) : tx.memo[i].id # id,
         NEW r, r = DecodeInto(tx, m, id, zeros, s, freed)
  PROVE  DecodedInto(tx, id, s, r.tx, r.slot)
<1>1. CASE id.fmt \in Undecodable
  <2>1. r.tx = tx /\ r.slot = 0 BY <1>1 DEF DecodeInto
  <2>2. ASSUME NEW k \in 1..Slots \ {s}, NEW p \in Nat, Near(tx.lru, k, p) PROVE Near(tx.lru, k, p + 1)
    <3>1. p + 1 \in Nat /\ p <= p + 1 OBVIOUS
    <3> QED BY <2>2, <3>1, CacheFacts, NearAnyway
  <2> QED BY <1>1, <2>1, <2>2 DEF DecodedInto
<1>2. CASE id.fmt \notin Undecodable
  <2> DEFINE e == [valid |-> TRUE, id |-> id, key |-> KeyOf(tx, m, id), serial |-> efb_serial(tx, id.addr),
                   texels |-> Decoded(tx, m, id, zeros)]
  <2>1. r.tx = memo_put(Touch([tx EXCEPT !.entry[s] = e], s), id, s) /\ r.slot = s BY <1>2 DEF DecodeInto
  <2>2. e.valid = TRUE /\ e.id = id OBVIOUS
  <2> HIDE DEF e
  <2>4. NewEntry(tx, e) BY <1>2, <2>2 DEF NewEntry
  <2>5. r.tx = memo_put(Touch([tx EXCEPT !.entry[s] = e], s), e.id, s) BY <2>1, <2>2, Zenon
  <2>6. /\ CacheInv(r.tx) /\ InMemo(r.tx, s) /\ Near(r.tx.lru, s, 1) /\ r.tx.entry[s] = e
        /\ \A k \in 1..Slots \ {s} : r.tx.entry[k] = tx.entry[k]
        /\ \A k \in 1..Slots \ {s}, p \in Nat : Near(tx.lru, k, p) => Near(r.tx.lru, k, p + 1)
    BY <2>4, <2>5, Uses
  <2> QED BY <1>2, <2>1, <2>2, <2>6 DEF DecodedInto
<1> QED BY <1>1, <1>2

\* Every slot but o was only moved up; o was found for an identity that was not
\* cached, or is the last one now and of the identity it was.
LEMMA AllAge ==
  ASSUME NEW tx, NEW t, NEW id, CacheInv(t), NEW o \in 1..Slots,
         \/ (\A p \in Nat : p < Slots => ~Near(tx.lru, o, p)) /\ ~Cached(tx, id)
         \/ Near(t.lru, o, 1) /\ t.entry[o].id = tx.entry[o].id,
         \A k \in 1..Slots \ {o} : t.entry[k] = tx.entry[k],
         \A k \in 1..Slots \ {o}, p \in Nat : Near(tx.lru, k, p) => Near(t.lru, k, p + 1)
  PROVE  Ages(tx, id, t)
<1> SUFFICES ASSUME NEW s \in 1..Slots, NEW p \in Nat, Near(tx.lru, s, p), p < Slots \/ Cached(tx, id)
             PROVE  Near(t.lru, s, p + 1) /\ t.entry[s].id = tx.entry[s].id
  BY DEF Ages
<1>1. CASE s # o
  <2>1. s \in 1..Slots \ {o} BY <1>1
  <2> QED BY <2>1
<1>2. CASE s = o
  <2>1. Near(t.lru, s, 1) /\ t.entry[s].id = tx.entry[s].id BY <1>2
  <2>2. t.lru \in Seq(1..Slots) BY CacheFacts
  <2>3. Near(t.lru, s, p + 1)
    <3>1. 1 \in Nat /\ p + 1 \in Nat /\ 1 <= p + 1 OBVIOUS
    <3> QED BY <2>1, <2>2, <3>1, NearAnyway
  <2> QED BY <2>1, <2>3
<1> QED BY <1>1, <1>2

\* A search of the cache answers.
LEMMA Looks ==
  ASSUME NEW tx, CacheInv(tx), NEW m, NEW id \in Identities, NEW zeros,
         MemoFor(tx, id) = {}, NEW r, r = Lookup(tx, m, id, zeros)
  PROVE  Answer(tx, id, r.tx, r.slot)
<1>0. Slots \in Nat \ {0} BY CacheAssumption
<1>1. \A i \in 1..Len(tx.memo) : tx.memo[i].id # id
  <2>1. tx.memo \in Seq([id : Identities, slot : 1..Slots]) BY CacheFacts
  <2> SUFFICES ASSUME NEW i \in 1..Len(tx.memo), tx.memo[i].id = id PROVE FALSE OBVIOUS
  <2>2. tx.memo[i] \in ToSet(tx.memo) BY <2>1 DEF ToSet
  <2> QED BY <2>2 DEF MemoFor
<1> DEFINE same == SameIdentity(tx, id)
           old  == Min(same)
           slot == find_slot(tx)
<1>2. CASE same # {}
  <2>1. same \subseteq Nat BY <1>0 DEF SameIdentity
  <2>2. old \in same BY <1>2, <2>1, LeastIn
  <2>3. old \in 1..Slots /\ tx.entry[old].valid /\ tx.entry[old].id = id BY <2>2 DEF SameIdentity
  <2>4. ~InMemo(tx, old)
    <3>1. \A i \in 1..Len(tx.memo) : tx.entry[tx.memo[i].slot].id = tx.memo[i].id BY DEF CacheInv, Remembered
    <3> QED BY <1>1, <2>3, <3>1 DEF InMemo
  <2>5. CASE IsFresh(tx, tx.entry[old], id, KeyOf(tx, m, id))
    <3> DEFINE e == tx.entry[old]
    <3>1. r.tx = memo_put(Touch(tx, old), id, old) /\ r.slot = old BY <1>2, <2>5 DEF Lookup
    <3>2. tx = [tx EXCEPT !.entry[old] = e]
      <4>1. /\ tx = [entry |-> tx.entry, lru |-> tx.lru, memo |-> tx.memo, copies |-> tx.copies, snaps |-> tx.snaps]
            /\ tx.entry = [s \in 1..Slots |-> tx.entry[s]]
        BY DEF CacheInv, CacheParts
      <4>2. tx.entry = [tx.entry EXCEPT ![old] = e] BY <4>1
      <4>3. tx = [tx EXCEPT !.entry = tx.entry] BY <4>1
      <4> QED BY <4>2, <4>3
    <3>3. NewEntry(tx, e)
      <4>1. e.valid \in BOOLEAN /\ e.id.fmt \notin Undecodable BY <2>3 DEF CacheInv, Filled
      <4> QED BY <1>1, <2>3, <4>1 DEF NewEntry
    <3>4. r.tx = memo_put(Touch([tx EXCEPT !.entry[old] = e], old), e.id, old) BY <2>3, <3>1, <3>2, Zenon
    <3> HIDE DEF old
    <3>5. /\ CacheInv(r.tx) /\ InMemo(r.tx, old) /\ Near(r.tx.lru, old, 1) /\ r.tx.entry[old] = e
          /\ \A k \in 1..Slots \ {old} : r.tx.entry[k] = tx.entry[k]
          /\ \A k \in 1..Slots \ {old}, p \in Nat : Near(tx.lru, k, p) => Near(r.tx.lru, k, p + 1)
      BY <2>3, <2>4, <3>3, <3>4, Uses
    <3>6. Ages(tx, id, r.tx)
      <4>1. r.tx.entry[old].id = tx.entry[old].id BY <3>5
      <4> QED BY <2>3, <3>5, <4>1, AllAge, Zenon
    <3> QED BY <1>0, <2>3, <3>1, <3>5, <3>6 DEF Answer
  <2>6. CASE ~IsFresh(tx, tx.entry[old], id, KeyOf(tx, m, id))
    <3>1. r = DecodeInto(Release(tx, old), m, id, zeros, old, {old}) BY <1>2, <2>6 DEF Lookup
    <3> HIDE DEF old
    <3>2. PICK t : t = Release(tx, old) OBVIOUS
    <3>3. /\ CacheInv(t) /\ t.memo = tx.memo
          /\ \A k \in 1..Slots \ {old} : t.entry[k] = tx.entry[k]
          /\ \A k \in 1..Slots \ {old}, p \in Nat : Near(tx.lru, k, p) => Near(t.lru, k, p)
      BY <2>3, <2>4, <3>2, Releases
    <3>4. PICK z : r = DecodeInto(t, m, id, zeros, old, z) BY <3>1, <3>2
    <3>5. ~InMemo(t, old) /\ \A i \in 1..Len(t.memo) : t.memo[i].id # id BY <1>1, <2>4, <3>3 DEF InMemo
    <3>6. id.fmt \notin Undecodable BY <2>3 DEF CacheInv, Filled
    <3>7. /\ CacheInv(r.tx) /\ r.slot = old /\ InMemo(r.tx, old) /\ Near(r.tx.lru, old, 1) /\ r.tx.entry[old].id = id
          /\ \A k \in 1..Slots \ {old} : r.tx.entry[k] = t.entry[k]
          /\ \A k \in 1..Slots \ {old}, p \in Nat : Near(t.lru, k, p) => Near(r.tx.lru, k, p + 1)
      <4>1. DecodedInto(t, id, old, r.tx, r.slot) BY <2>3, <3>3, <3>4, <3>5, Decodes, Zenon
      <4> QED BY <3>6, <4>1, Zenon DEF DecodedInto
    <3>8. /\ \A k \in 1..Slots \ {old} : r.tx.entry[k] = tx.entry[k]
          /\ \A k \in 1..Slots \ {old}, p \in Nat : Near(tx.lru, k, p) => Near(r.tx.lru, k, p + 1)
      BY <3>3, <3>7
    <3>9. Ages(tx, id, r.tx)
      <4>1. r.tx.entry[old].id = tx.entry[old].id BY <2>3, <3>7
      <4> QED BY <2>3, <3>7, <3>8, <4>1, AllAge, Zenon
    <3> QED BY <1>0, <2>3, <3>7, <3>9 DEF Answer
  <2> QED BY <2>5, <2>6
<1>3. CASE same = {}
  <2>1. /\ slot \in 1..Slots /\ ~InMemo(tx, slot)
        /\ \A p \in Nat : p < Slots => ~Near(tx.lru, slot, p)
    BY FindsSlot
  <2>2. r = DecodeInto(Release(tx, slot), m, id, zeros, slot, IF tx.entry[slot].valid THEN {slot} ELSE {})
    BY <1>3 DEF Lookup
  <2> HIDE DEF slot
  <2>3. PICK t : t = Release(tx, slot) OBVIOUS
  <2>4. /\ CacheInv(t) /\ t.memo = tx.memo
        /\ \A k \in 1..Slots \ {slot} : t.entry[k] = tx.entry[k]
        /\ \A k \in 1..Slots \ {slot}, p \in Nat : Near(tx.lru, k, p) => Near(t.lru, k, p)
    BY <2>1, <2>3, Releases
  <2>5. PICK z : r = DecodeInto(t, m, id, zeros, slot, z) BY <2>2, <2>3
  <2>6. ~InMemo(t, slot) /\ \A i \in 1..Len(t.memo) : t.memo[i].id # id BY <1>1, <2>1, <2>4 DEF InMemo
  <2>7. /\ CacheInv(r.tx)
        /\ id.fmt \in Undecodable => r.slot = 0
        /\ id.fmt \notin Undecodable => r.slot = slot /\ InMemo(r.tx, slot) /\ r.tx.entry[slot].id = id
        /\ \A k \in 1..Slots \ {slot} : r.tx.entry[k] = t.entry[k]
        /\ \A k \in 1..Slots \ {slot}, p \in Nat : Near(t.lru, k, p) => Near(r.tx.lru, k, p + 1)
    <3>1. DecodedInto(t, id, slot, r.tx, r.slot) BY <2>1, <2>4, <2>5, <2>6, Decodes, Zenon
    <3> QED BY <3>1, Zenon DEF DecodedInto
  <2>8. /\ \A k \in 1..Slots \ {slot} : r.tx.entry[k] = tx.entry[k]
        /\ \A k \in 1..Slots \ {slot}, p \in Nat : Near(tx.lru, k, p) => Near(r.tx.lru, k, p + 1)
    BY <2>4, <2>7
  <2>9. ~Cached(tx, id) BY <1>3 DEF SameIdentity, Cached
  <2>10. Ages(tx, id, r.tx) BY <2>1, <2>7, <2>8, <2>9, AllAge, Zenon
  <2>11. r.slot \in 0..Slots /\ (r.slot # 0 => InMemo(r.tx, r.slot) /\ r.tx.entry[r.slot].id = id)
    BY <1>0, <2>1, <2>7
  <2> QED BY <2>7, <2>10, <2>11 DEF Answer
<1> QED BY <1>2, <1>3

\* So does every request.
LEMMA Gets ==
  ASSUME NEW tx, CacheInv(tx), NEW m, NEW id \in Identities, NEW zeros,
         NEW r, r = mgs_tex_get(tx, m, id, zeros)
  PROVE  Answer(tx, id, r.tx, r.slot)
<1>1. CASE MemoFor(tx, id) # {}
  <2>1. PICK e : e = (CHOOSE x \in MemoFor(tx, id) : TRUE) OBVIOUS
  <2>2. e \in MemoFor(tx, id) BY <1>1, <2>1
  <2>3. r.tx = tx /\ r.slot = e.slot BY <1>1, <2>1 DEF mgs_tex_get
  <2>4. tx.memo \in Seq([id : Identities, slot : 1..Slots]) BY CacheFacts
  <2>5. PICK i \in 1..Len(tx.memo) : tx.memo[i] = e BY <2>2, <2>4 DEF MemoFor, ToSet
  <2>6. e.id = id /\ e.slot \in 1..Slots BY <2>2, <2>5, CacheFacts DEF MemoFor
  <2>7. tx.entry[e.slot].valid /\ tx.entry[e.slot].id = id BY <2>5, <2>6 DEF CacheInv, Remembered
  <2>8. Ages(tx, id, tx)
    <3> SUFFICES ASSUME NEW s \in 1..Slots, NEW p \in Nat, Near(tx.lru, s, p) PROVE Near(tx.lru, s, p + 1)
      BY DEF Ages
    <3>1. p + 1 \in Nat /\ p <= p + 1 OBVIOUS
    <3> QED BY <3>1, CacheFacts, NearAnyway
  <2> QED BY <2>3, <2>5, <2>6, <2>7, <2>8 DEF Answer, InMemo
<1>2. CASE MemoFor(tx, id) = {}
  <2>1. r = Lookup(tx, m, id, zeros) BY <1>2 DEF mgs_tex_get
  <2> QED BY <1>2, <2>1, Looks, Zenon
<1> QED BY <1>1, <1>2

-----------------------------------------------------------------------------
(* A triangle's textures *)

\* The maps of b up to the m-th, bound one after the other.
BindsTo(b, m, f) ==
  f = [k \in 0..m |-> IF k = 0 THEN [tex |-> tex, slots |-> << >>, freed |-> {}] ELSE bind_texture(f[k - 1], b[k])]

LEMMA BindsToThere ==
  ASSUME NEW b, NEW n \in Nat
  PROVE  \E f : BindsTo(b, n, f)
<1> DEFINE bad == {m \in 0..n : ~\E f : BindsTo(b, m, f)}
           c == [tex |-> tex, slots |-> << >>, freed |-> {}]
<1>1. SUFFICES ASSUME bad # {} PROVE FALSE
  <2>1. n \in 0..n OBVIOUS
  <2> QED BY <2>1
<1>2. PICK m : m = Min(bad) OBVIOUS
<1>3. m \in bad /\ \A k \in bad : m <= k
  <2>1. bad \subseteq Nat OBVIOUS
  <2> QED BY <1>1, <1>2, <2>1, LeastIn
<1>4. CASE m = 0
  <2> DEFINE g == [k \in 0..0 |-> c]
  <2>1. \A k \in 0..0 : k = 0 OBVIOUS
  <2>2. g = [k \in 0..0 |-> IF k = 0 THEN c ELSE bind_texture(g[k - 1], b[k])] BY <2>1, Zenon
  <2>3. BindsTo(b, 0, g) BY <2>2 DEF BindsTo
  <2> QED BY <1>3, <1>4, <2>3
<1>5. CASE m # 0
  <2>1. m - 1 \in 0..n /\ m - 1 < m /\ m \in Nat BY <1>3, <1>5
  <2>2. m - 1 \notin bad BY <1>3, <2>1
  <2>3. PICK f : BindsTo(b, m - 1, f) BY <2>1, <2>2
  <2> DEFINE g == [k \in 0..m |-> IF k = m THEN bind_texture(f[m - 1], b[m]) ELSE f[k]]
  <2>4. \A k \in 0..m - 1 : f[k] = IF k = 0 THEN c ELSE bind_texture(f[k - 1], b[k]) BY <2>3, Zenon DEF BindsTo
  <2> HIDE DEF c
  <2>5. \A k \in 0..m : g[k] = IF k = 0 THEN c ELSE bind_texture(g[k - 1], b[k])
    <3> SUFFICES ASSUME NEW k \in 0..m PROVE g[k] = IF k = 0 THEN c ELSE bind_texture(g[k - 1], b[k]) OBVIOUS
    <3>1. \A j \in 0..m - 1 : g[j] = f[j] BY <2>1
    <3>2. g[m] = bind_texture(f[m - 1], b[m]) BY <2>1
    <3> HIDE DEF g
    <3>3. CASE k = 0
      <4>1. 0 \in 0..m - 1 BY <1>5, <2>1
      <4> QED BY <2>4, <3>1, <3>3, <4>1
    <3>4. CASE k = m
      <4>1. m - 1 \in 0..m - 1 BY <1>5, <2>1
      <4>2. g[m - 1] = f[m - 1] BY <3>1, <4>1
      <4> QED BY <1>5, <3>2, <3>4, <4>2
    <3>5. CASE k # 0 /\ k # m
      <4>1. k \in 0..m - 1 /\ k - 1 \in 0..m - 1 BY <2>1, <3>5
      <4>2. g[k] = f[k] /\ g[k - 1] = f[k - 1] BY <3>1, <4>1
      <4> QED BY <2>4, <3>5, <4>1, <4>2
    <3> QED BY <3>3, <3>4, <3>5
  <2>6. g = [k \in 0..m |-> g[k]] OBVIOUS
  <2> HIDE DEF g
  <2>7. g = [k \in 0..m |-> IF k = 0 THEN c ELSE bind_texture(g[k - 1], b[k])] BY <2>5, <2>6
  <2>8. BindsTo(b, m, g) BY <2>7 DEF BindsTo, c
  <2> QED BY <1>3, <2>8
<1> QED BY <1>4, <1>5

\* The maps of a triangle are bound one after the other: f after each.
InTurn(ids, b, f) ==
  /\ f[0].tex = tex /\ f[0].slots = << >> /\ f[Len(b)] = Bound(ids)
  /\ \A k \in 1..Len(b) : f[k] = bind_texture(f[k - 1], b[k])

LEMMA BindsInTurn ==
  ASSUME NEW ids, NEW b, b = BindOrder(ids), Len(b) \in Nat
  PROVE  \E f : InTurn(ids, b, f)
<1> DEFINE f == CHOOSE g : BindsTo(b, Len(b), g)
           c == [tex |-> tex, slots |-> << >>, freed |-> {}]
<1>1. \E g : BindsTo(b, Len(b), g) BY BindsToThere
<1>2. BindsTo(b, Len(b), f) BY <1>1, Zenon
<1>3. f[Len(b)] = Bound(ids) BY Zenon DEF Bound, BindsTo
<1> HIDE DEF f
<1>4. \A k \in 0..Len(b) : f[k] = IF k = 0 THEN c ELSE bind_texture(f[k - 1], b[k]) BY <1>2, Zenon DEF BindsTo
<1> HIDE DEF c
<1>5. 0 \in 0..Len(b) /\ \A k \in 1..Len(b) : k \in 0..Len(b) /\ k # 0 OBVIOUS
<1>6. f[0] = c /\ \A k \in 1..Len(b) : f[k] = bind_texture(f[k - 1], b[k]) BY <1>4, <1>5
<1>7. f[0].tex = tex /\ f[0].slots = << >> BY <1>6 DEF c
<1> QED BY <1>3, <1>6, <1>7 DEF InTurn

\* One map bound: the slot it gets is the next.
BoundNext(acc, id, r, s) == Answer(acc.tex, id, r.tex, s) /\ r.slots = Append(acc.slots, s)
LEMMA BindsOne ==
  ASSUME NEW acc, CacheInv(acc.tex), NEW id \in Identities, NEW r, r = bind_texture(acc, id)
  PROVE  \E s : BoundNext(acc, id, r, s)
<1> DEFINE got == mgs_tex_get(acc.tex, mem, id, Zeroes)
<1>1. r.tex = got.tx /\ r.slots = Append(acc.slots, got.slot) BY DEF bind_texture
<1>2. Answer(acc.tex, id, got.tx, got.slot) BY Gets
<1> QED BY <1>1, <1>2, Zenon DEF BoundNext

\* The maps bound are those of the triangle, and the first again after the last.
LEMMA Asked ==
  ASSUME NEW ids \in Draws
  PROVE  /\ Len(ids) \in 1..Slots + 1 - MemoSlots
         /\ BindOrder(ids) \in Seq(Identities)
         /\ \/ Len(BindOrder(ids)) = 1 /\ Len(ids) = 1
            \/ /\ Len(BindOrder(ids)) = Len(ids) + 1
               /\ BindOrder(ids)[Len(ids) + 1] = BindOrder(ids)[1]
         /\ \A k \in 1..Len(ids) : BindOrder(ids)[k] = ids[k]
<1>1. ids \in Seq(ToSet(ids)) /\ Len(ids) \in 1..Slots + 1 - MemoSlots BY RendererAssumption
<1>2. \A k \in 1..Len(ids) : ids[k] \in Identities BY DEF Identities
<1>3. ids \in Seq(Identities)
  <2>1. Len(ids) \in Nat /\ ids = [k \in 1..Len(ids) |-> ids[k]] BY <1>1
  <2> QED BY <1>2, <2>1
<1>4. PICK n : n = Len(ids) OBVIOUS
<1>5. n \in Nat \ {0} /\ 1 \in 1..n BY <1>1, <1>4
<1>6. CASE n > 1
  <2>1. PICK b : b = ids \o <<ids[1]>> OBVIOUS
  <2>2. ids[1] \in Identities BY <1>2, <1>4, <1>5
  <2>3. b = Append(ids, ids[1]) BY <1>3, <2>1, <2>2, AppendIsConcat
  <2>4. /\ b \in Seq(Identities) /\ Len(b) = n + 1 /\ b[Len(b)] = ids[1]
        /\ \A i \in 1..n : b[i] = ids[i]
    BY <1>3, <1>4, <2>2, <2>3, AppendedIn
  <2>5. b[n + 1] = b[1] BY <1>5, <2>4
  <2>6. BindOrder(ids) = b BY <1>4, <1>6, <2>1 DEF BindOrder
  <2> QED BY <1>1, <1>4, <2>4, <2>5, <2>6
<1>7. CASE n = 1
  <2>1. BindOrder(ids) = ids BY <1>4, <1>7 DEF BindOrder
  <2> QED BY <1>1, <1>3, <1>4, <1>7, <2>1
<1> QED BY <1>5, <1>6, <1>7

\* After k of the maps b: each slot bound is of the map it was bound for, and
\* has moved up by no more than the maps bound after it.
StillNear(tx, b, slots, k) ==
  \A j \in 1..k : slots[j] # 0 => /\ Near(tx.lru, slots[j], MemoSlots + k - j)
                                  /\ tx.entry[slots[j]].id = b[j]
BoundSoFar(acc, b, k) ==
  /\ CacheInv(acc.tex)
  /\ acc.slots \in Seq(0..Slots) /\ Len(acc.slots) = k
  /\ StillNear(acc.tex, b, acc.slots, k)

\* A slot near the end is in use.
LEMMA NearInUse ==
  ASSUME NEW tx, CacheInv(tx), NEW s \in 1..Slots, NEW p, Near(tx.lru, s, p)
  PROVE  tx.entry[s].valid
<1>1. Has(tx.lru, s) BY DEF Near, Has
<1> QED BY <1>1 DEF CacheInv, Ordered

\* The next map, when there is room for the maps before it: of the last map,
\* which is the first again, it is enough that the first is there still.
LEMMA OneMore ==
  ASSUME NEW b, NEW k \in Nat, NEW acc, BoundSoFar(acc, b, k), NEW id \in Identities, id = b[k + 1],
         MemoSlots + k - 1 < Slots \/ (MemoSlots + k - 1 = Slots /\ id = b[1]),
         NEW r, NEW s, BoundNext(acc, id, r, s)
  PROVE  BoundSoFar(r, b, k + 1)
<1>0. Slots \in Nat \ {0} /\ MemoSlots \in 1..Slots - 1 BY CacheAssumption
<1>1. /\ acc.slots \in Seq(0..Slots) /\ Len(acc.slots) = k /\ StillNear(acc.tex, b, acc.slots, k) /\ CacheInv(acc.tex)
  BY DEF BoundSoFar
<1>2. /\ CacheInv(r.tex) /\ s \in 0..Slots /\ (s # 0 => InMemo(r.tex, s) /\ r.tex.entry[s].id = id)
      /\ Ages(acc.tex, id, r.tex) /\ r.slots = Append(acc.slots, s)
  BY DEF BoundNext, Answer
<1>3. /\ r.slots \in Seq(0..Slots) /\ Len(r.slots) = k + 1 /\ r.slots[k + 1] = s
      /\ \A i \in 1..k : r.slots[i] = acc.slots[i]
  BY <1>1, <1>2, AppendedIn
<1>4. ASSUME NEW j \in 1..k, acc.slots[j] # 0
      PROVE  Near(r.tex.lru, acc.slots[j], MemoSlots + (k + 1) - j) /\ r.tex.entry[acc.slots[j]].id = b[j]
  <2>1. PICK x : x = acc.slots[j] OBVIOUS
  <2>2. x \in 1..Slots
    <3>1. x \in 0..Slots BY <1>1, <2>1, ElementOfSeq
    <3> QED BY <1>0, <1>4, <2>1, <3>1
  <2>3. PICK p : p = MemoSlots + k - j OBVIOUS
  <2>4. p \in Nat /\ p + 1 = MemoSlots + (k + 1) - j BY <1>0, <2>3
  <2>5. Near(acc.tex.lru, x, p) /\ acc.tex.entry[x].id = b[j] BY <1>1, <1>4, <2>1, <2>3 DEF StillNear
  <2>6. p < Slots \/ Cached(acc.tex, id)
    <3>1. CASE p < Slots BY <3>1
    <3>2. CASE ~(p < Slots)
      <4>1. j = 1 /\ id = b[1] BY <1>0, <2>3, <3>2
      <4>2. acc.tex.entry[x].valid BY <1>1, <2>2, <2>5, NearInUse
      <4> QED BY <2>2, <2>5, <4>1, <4>2 DEF Cached
    <3> QED BY <3>1, <3>2
  <2>7. Near(r.tex.lru, x, p + 1) /\ r.tex.entry[x].id = acc.tex.entry[x].id
    BY <1>2, <2>2, <2>4, <2>5, <2>6 DEF Ages
  <2> QED BY <2>1, <2>4, <2>5, <2>7
<1>5. ASSUME s # 0 PROVE Near(r.tex.lru, s, MemoSlots + (k + 1) - (k + 1)) /\ r.tex.entry[s].id = b[k + 1]
  <2>1. MemoSlots + (k + 1) - (k + 1) = MemoSlots BY <1>0
  <2>2. Near(r.tex.lru, s, MemoSlots) BY <1>2, <1>5, MemoNear
  <2> QED BY <1>2, <1>5, <2>1, <2>2
<1>6. StillNear(r.tex, b, r.slots, k + 1)
  <2> SUFFICES ASSUME NEW j \in 1..k + 1, r.slots[j] # 0
               PROVE  /\ Near(r.tex.lru, r.slots[j], MemoSlots + (k + 1) - j)
                      /\ r.tex.entry[r.slots[j]].id = b[j]
    BY DEF StillNear
  <2>1. CASE j = k + 1 BY <1>3, <1>5, <2>1
  <2>2. CASE j \in 1..k
    <3>1. r.slots[j] = acc.slots[j] BY <1>3, <2>2
    <3> QED BY <1>4, <2>2, <3>1
  <2> QED BY <2>1, <2>2
<1> QED BY <1>2, <1>3, <1>6 DEF BoundSoFar

\* Whatever is bound, the cache is as it should be, and every slot bound for a
\* texture of the triangle is that texture's when the last is bound.
BoundWell(ids, b) ==
  /\ CacheInv(b.tex)
  /\ \A k \in 1..Len(ids) : b.slots[k] # 0 => /\ b.tex.entry[b.slots[k]].valid
                                              /\ b.tex.entry[b.slots[k]].id = ids[k]

LEMMA Binds ==
  ASSUME CacheInv(tex), NEW ids \in Draws
  PROVE  BoundWell(ids, Bound(ids))
<1>1. PICK b, n : b = BindOrder(ids) /\ n = Len(ids) OBVIOUS
<1>2. /\ n \in 1..Slots + 1 - MemoSlots /\ b \in Seq(Identities) /\ Len(b) \in Nat
      /\ \/ Len(b) = 1 /\ n = 1
         \/ Len(b) = n + 1 /\ b[n + 1] = b[1]
  <2>1. /\ n \in 1..Slots + 1 - MemoSlots /\ b \in Seq(Identities)
        /\ \/ Len(b) = 1 /\ n = 1
           \/ Len(b) = n + 1 /\ b[n + 1] = b[1]
    BY <1>1, Asked, Zenon
  <2> QED BY <2>1
<1>0. Slots \in Nat \ {0} /\ MemoSlots \in 1..Slots - 1 BY CacheAssumption
<1>3. PICK f : InTurn(ids, b, f) BY <1>1, <1>2, BindsInTurn
<1>4. BoundSoFar(f[0], b, 0)
  <2>1. f[0].tex = tex /\ f[0].slots = << >> BY <1>3 DEF InTurn
  <2>2. f[0].slots \in Seq(0..Slots) /\ Len(f[0].slots) = 0 /\ 1..0 = {} BY <2>1
  <2> QED BY <2>1, <2>2 DEF BoundSoFar, StillNear
<1>5. ASSUME NEW k \in Nat, k + 1 <= Len(b), BoundSoFar(f[k], b, k) PROVE BoundSoFar(f[k + 1], b, k + 1)
  <2>1. k + 1 \in 1..Len(b) /\ k + 1 - 1 = k BY <1>2, <1>5
  <2>2. f[k + 1] = bind_texture(f[k], b[k + 1]) BY <1>3, <2>1 DEF InTurn
  <2>3. b[k + 1] \in Identities BY <1>2, <2>1, ElementOfSeq
  <2>4. PICK s : BoundNext(f[k], b[k + 1], f[k + 1], s) BY <1>5, <2>2, <2>3, BindsOne DEF BoundSoFar
  <2>5. MemoSlots + k - 1 < Slots \/ (MemoSlots + k - 1 = Slots /\ b[k + 1] = b[1])
    <3>1. CASE Len(b) = 1 /\ n = 1 BY <1>0, <1>5, <3>1
    <3>2. CASE Len(b) = n + 1 /\ b[n + 1] = b[1]
      <4>1. k = n \/ k < n BY <1>2, <1>5, <3>2
      <4>2. CASE k < n
        <5>1. k <= n - 1 /\ n \in Nat /\ n <= Slots + 1 - MemoSlots BY <1>0, <1>2, <4>2
        <5> QED BY <1>0, <5>1
      <4>3. CASE k = n BY <1>0, <1>2, <3>2, <4>3
      <4> QED BY <4>1, <4>2, <4>3
    <3> QED BY <1>2, <3>1, <3>2
  <2> QED BY <1>5, <2>3, <2>4, <2>5, OneMore
<1>6. \A k \in 0..Len(b) : BoundSoFar(f[k], b, k)
  <2> DEFINE bad == {k \in 0..Len(b) : ~BoundSoFar(f[k], b, k)}
  <2>1. SUFFICES ASSUME bad # {} PROVE FALSE OBVIOUS
  <2>2. PICK m : m = Min(bad) OBVIOUS
  <2>3. m \in bad /\ \A k \in bad : m <= k
    <3>1. bad \subseteq Nat OBVIOUS
    <3> QED BY <2>1, <2>2, <3>1, LeastIn
  <2>4. m # 0 /\ m \in 0..Len(b) BY <1>4, <2>3
  <2>5. m - 1 \in Nat /\ m - 1 + 1 = m /\ m <= Len(b) /\ m - 1 \in 0..Len(b) /\ m - 1 < m BY <1>2, <2>4
  <2>6. m - 1 \notin bad BY <2>3, <2>5
  <2>7. BoundSoFar(f[m - 1], b, m - 1) BY <2>5, <2>6
  <2>8. BoundSoFar(f[m], b, m)
    <3>1. BoundSoFar(f[m - 1 + 1], b, m - 1 + 1) BY <1>5, <2>5, <2>7
    <3> QED BY <2>5, <3>1
  <2> QED BY <2>3, <2>8
<1>7. PICK l : l = Len(b) OBVIOUS
<1>8. PICK r : r = f[l] OBVIOUS
<1>9. BoundSoFar(r, b, l) BY <1>2, <1>6, <1>7, <1>8
<1>10. r = Bound(ids) BY <1>3, <1>7, <1>8 DEF InTurn
<1>11. ASSUME NEW j \in 1..n, r.slots[j] # 0
       PROVE  r.tex.entry[r.slots[j]].valid /\ r.tex.entry[r.slots[j]].id = ids[j]
  <2>1. j \in 1..l BY <1>2, <1>7
  <2>2. /\ r.slots \in Seq(0..Slots) /\ Len(r.slots) = l
        /\ StillNear(r.tex, b, r.slots, l) /\ CacheInv(r.tex)
    BY <1>9 DEF BoundSoFar
  <2>3. Near(r.tex.lru, r.slots[j], MemoSlots + l - j) /\ r.tex.entry[r.slots[j]].id = b[j]
    BY <1>11, <2>1, <2>2 DEF StillNear
  <2>4. r.slots[j] \in 0..Slots BY <2>1, <2>2, ElementOfSeq
  <2>5. r.slots[j] \in 1..Slots BY <1>0, <1>11, <2>4
  <2>6. r.tex.entry[r.slots[j]].valid BY <2>2, <2>3, <2>5, NearInUse
  <2>7. b[j] = ids[j] BY <1>1, Asked
  <2> QED BY <2>3, <2>6, <2>7
<1>12. CacheInv(r.tex) BY <1>9 DEF BoundSoFar
<1> QED BY <1>1, <1>10, <1>11, <1>12 DEF BoundWell

-----------------------------------------------------------------------------
(* What a copy does to the cache *)

\* Only the tables of copies change, or the memo is dropped.
LEMMA Untouched ==
  ASSUME NEW tx, CacheInv(tx), NEW r, CacheParts(r),
         r.entry = tx.entry, r.lru = tx.lru, r.memo = tx.memo \/ r.memo = << >>
  PROVE  CacheInv(r)
<1>1. Filled(r) /\ Ordered(r) BY DEF CacheInv, Filled, Ordered
<1>2. AtEnd(r) /\ Remembered(r)
  <2>1. CASE r.memo = tx.memo
    <3>1. AtEnd(tx) /\ Remembered(tx) BY DEF CacheInv
    <3>2. AtEnd(r) BY <2>1, <3>1, Zenon DEF AtEnd
    <3>3. Remembered(r) BY <2>1, <3>1, Zenon DEF Remembered
    <3> QED BY <3>2, <3>3
  <2>2. CASE r.memo = << >>
    <3>1. Len(r.memo) = 0 /\ Len(r.lru) \in Nat /\ MemoSlots \in Nat
      BY <2>2, CacheAssumption DEF CacheParts
    <3> QED BY <3>1 DEF AtEnd, Remembered
  <2> QED BY <2>1, <2>2
<1> QED BY <1>1, <1>2 DEF CacheInv

LEMMA TablesOnly ==
  ASSUME NEW tx, CacheInv(tx)
  PROVE  /\ \A r, c : r = [tx EXCEPT !.copies = c] => CacheInv(r)
         /\ \A r, c : r = [tx EXCEPT !.snaps = c] => CacheInv(r)
         /\ CacheInv(mgs_tex_memo_reset(tx))
<1>1. CacheParts(tx) BY DEF CacheInv
<1>2. ASSUME NEW r, NEW c, r = [tx EXCEPT !.copies = c] PROVE CacheInv(r)
  <2>1. CacheParts(r) /\ r.entry = tx.entry /\ r.lru = tx.lru /\ r.memo = tx.memo
    BY <1>1, <1>2 DEF CacheParts
  <2> QED BY <2>1, Untouched
<1>3. ASSUME NEW r, NEW c, r = [tx EXCEPT !.snaps = c] PROVE CacheInv(r)
  <2>1. CacheParts(r) /\ r.entry = tx.entry /\ r.lru = tx.lru /\ r.memo = tx.memo
    BY <1>1, <1>3 DEF CacheParts
  <2> QED BY <2>1, Untouched
<1>4. CacheInv(mgs_tex_memo_reset(tx))
  <2>1. PICK r : r = mgs_tex_memo_reset(tx) OBVIOUS
  <2>2. r = [tx EXCEPT !.memo = << >>] BY <2>1 DEF mgs_tex_memo_reset
  <2>3. /\ r.entry = tx.entry /\ r.lru = tx.lru /\ r.memo = << >>
        /\ r = [entry |-> r.entry, lru |-> r.lru, memo |-> r.memo, copies |-> r.copies, snaps |-> r.snaps]
    BY <1>1, <2>2 DEF CacheParts
  <2>4. CacheParts(r) BY <1>1, <2>3 DEF CacheParts
  <2> QED BY <2>1, <2>3, <2>4, Untouched
<1> QED BY <1>2, <1>3, <1>4

LEMMA CopyTables ==
  ASSUME NEW tx, CacheInv(tx)
  PROVE  /\ \A addr : CacheInv(mgs_tex_note_efb_copy(tx, addr))
         /\ \A addr, fmt : CacheInv(mgs_tex_mark_gpu_copy(tx, addr, fmt))
         /\ \A addr, bytes : CacheInv(mgs_tex_snapshot_efb_copy(tx, addr, bytes))
<1>1. ASSUME NEW addr PROVE CacheInv(mgs_tex_note_efb_copy(tx, addr))
  <2>1. PICK r : r = mgs_tex_note_efb_copy(tx, addr) OBVIOUS
  <2>2. \E c : r = [tx EXCEPT !.copies = c] BY <2>1, Zenon DEF mgs_tex_note_efb_copy
  <2>3. CacheInv(r) BY <2>2, TablesOnly
  <2> QED BY <2>1, <2>3
<1>2. ASSUME NEW addr, NEW fmt PROVE CacheInv(mgs_tex_mark_gpu_copy(tx, addr, fmt))
  <2>1. PICK r : r = mgs_tex_mark_gpu_copy(tx, addr, fmt) OBVIOUS
  <2>2. \E c : r = [tx EXCEPT !.copies = c] BY <2>1, Zenon DEF mgs_tex_mark_gpu_copy
  <2>3. CacheInv(r) BY <2>2, TablesOnly
  <2> QED BY <2>1, <2>3
<1>3. ASSUME NEW addr, NEW bytes PROVE CacheInv(mgs_tex_snapshot_efb_copy(tx, addr, bytes))
  <2>1. PICK r : r = mgs_tex_snapshot_efb_copy(tx, addr, bytes) OBVIOUS
  <2>2. \E c : r = [tx EXCEPT !.snaps = c] BY <2>1, Zenon DEF mgs_tex_snapshot_efb_copy
  <2>3. CacheInv(r) BY <2>2, TablesOnly
  <2> QED BY <2>1, <2>3
<1> QED BY <1>1, <1>2, <1>3

-----------------------------------------------------------------------------
(* The texture cache's invariant holds *)

LEMMA InitICacheInv == RendererInit => ICacheInv
<1> SUFFICES ASSUME RendererInit PROVE ICacheInv OBVIOUS
<1>1. tex = CacheInit BY DEF RendererInit
<1>2. /\ tex.entry = [s \in 1..Slots |-> NoEntry] /\ tex.lru = << >> /\ tex.memo = << >>
      /\ tex = [entry |-> tex.entry, lru |-> tex.lru, memo |-> tex.memo, copies |-> tex.copies, snaps |-> tex.snaps]
  BY <1>1 DEF CacheInit
<1>3. NoEntry.valid = FALSE BY DEF NoEntry
<1>4. \A s \in 1..Slots : tex.entry[s] = NoEntry BY <1>2
<1>5. Len(tex.lru) = 0 /\ Len(tex.memo) = 0 /\ 0 <= MemoSlots BY <1>2, CacheAssumption
<1>6. CacheParts(tex) BY <1>2 DEF CacheParts
<1>7. Filled(tex) BY <1>3, <1>4 DEF Filled
<1>8. Ordered(tex) BY <1>3, <1>4, <1>5 DEF Ordered, Has, Once
<1>9. AtEnd(tex) /\ Remembered(tex) BY <1>5 DEF AtEnd, Remembered
<1> QED BY <1>6, <1>7, <1>8, <1>9 DEF ICacheInv, CacheInv

LEMMA NextICacheInv == ICacheInv /\ [RendererNext]_rendererVars => ICacheInv'
<1> SUFFICES ASSUME ICacheInv, [RendererNext]_rendererVars PROVE ICacheInv' OBVIOUS
<1>0. CacheInv(tex) BY DEF ICacheInv
<1>i. CacheInv(tex') => ICacheInv' BY DEF ICacheInv, CacheInv, CacheParts, Filled, Ordered, AtEnd, Remembered
<1>1. CASE UNCHANGED rendererVars BY <1>0, <1>1, <1>i DEF rendererVars
<1>2. ASSUME NEW a \in Loadable, NEW c \in Contents[a], Load(a, c) PROVE ICacheInv'
  BY <1>0, <1>2, <1>i DEF Load
<1>3. ASSUME NEW ids \in Draws, NEW rows, NEW st, DrawTriangle(ids, rows, st) PROVE ICacheInv'
  <2>1. tex' = Bound(ids).tex BY <1>3 DEF DrawTriangle
  <2>2. CacheInv(Bound(ids).tex) BY <1>0, Binds DEF BoundWell
  <2> QED BY <1>i, <2>1, <2>2
<1>4. ASSUME NEW box, NEW dest, CopyToXfb(box, dest) PROVE ICacheInv'
  BY <1>0, <1>4, <1>i, TablesOnly DEF CopyToXfb
<1>5. ASSUME NEW tx, CacheInv(tx), NEW pixels, NEW box, NEW dest PROVE CacheInv(HostCopyTex(tx, pixels, box, dest))
  BY <1>5, CopyTables DEF HostCopyTex
<1>6. CacheInv(mgs_tex_memo_reset(tex)) BY <1>0, TablesOnly
<1>7. ASSUME NEW box, NEW dest, CopyToTexture(box, dest) PROVE ICacheInv'
  <2>1. CacheInv(tex') BY <1>5, <1>6, <1>7 DEF CopyToTexture
  <2> QED BY <1>i, <2>1
<1>8. ASSUME NEW box, NEW dest, CopyOnGpu(box, dest) PROVE ICacheInv'
  <2>1. PICK fmt :
          tex' = mgs_tex_mark_gpu_copy(mgs_tex_note_efb_copy(mgs_tex_memo_reset(tex), dest), dest, fmt)
    BY <1>8 DEF CopyOnGpu
  <2>2. CacheInv(tex') BY <1>6, <2>1, CopyTables
  <2> QED BY <1>i, <2>2
<1>9. ASSUME NEW box, NEW dest, CopyFallsBack(box, dest) PROVE ICacheInv'
  <2>1. CacheInv(mgs_tex_note_efb_copy(mgs_tex_memo_reset(tex), dest)) BY <1>6, CopyTables
  <2>2. CacheInv(tex') BY <1>5, <1>9, <2>1 DEF CopyFallsBack
  <2> QED BY <1>i, <2>2
<1> QED BY <1>1, <1>2, <1>3, <1>4, <1>7, <1>8, <1>9 DEF RendererNext, Copy

\* What the run checks follows.
LEMMA SafeIfKept == ICacheInv => MemoSafe
<1> SUFFICES ASSUME ICacheInv PROVE MemoSafe OBVIOUS
<1>1. /\ tex.lru \in Seq(1..Slots) /\ tex.memo \in Seq([id : Identities, slot : 1..Slots])
      /\ \A s \in 1..Slots : tex.entry[s].valid <=> Has(tex.lru, s)
  BY DEF ICacheInv, CacheInv, CacheParts, Ordered
<1>2. Remembered(tex) BY DEF ICacheInv, CacheInv
<1>3. DOMAIN tex.memo = 1..Len(tex.memo) /\ DOMAIN tex.lru = 1..Len(tex.lru) BY <1>1
<1>4. \A m \in ToSet(tex.memo) : tex.entry[m.slot].valid /\ tex.entry[m.slot].id = m.id
  BY <1>2, <1>3 DEF Remembered, ToSet
<1>5. \A i, j \in DOMAIN tex.memo : tex.memo[i].id = tex.memo[j].id => i = j
  BY <1>2, <1>3 DEF Remembered
<1>6. ToSet(tex.lru) = {s \in 1..Slots : tex.entry[s].valid}
  <2>1. \A s : s \in ToSet(tex.lru) <=> Has(tex.lru, s) BY <1>3 DEF ToSet, Has
  <2>2. \A s : Has(tex.lru, s) => s \in 1..Slots BY <1>1, ElementOfSeq DEF Has
  <2> QED BY <1>1, <2>1, <2>2
<1>7. ASSUME NEW ids \in Draws PROVE BoundTogether(ids)
  <2>1. PICK b : b = Bound(ids) OBVIOUS
  <2>2. BoundWell(ids, b) BY <2>1, Binds DEF ICacheInv
  <2>3. DOMAIN ids = 1..Len(ids) BY RendererAssumption
  <2> QED BY <2>1, <2>2, <2>3 DEF BoundTogether, BoundWell
<1> QED BY <1>4, <1>5, <1>6, <1>7 DEF MemoSafe

\* The memo answers only with entries that hold what was asked for, the order of
\* use names the slots in use, and no texture of a triangle makes room for
\* another of it: for any sizes of cache and memo with room for the memo and all
\* of a triangle's textures but one, and whatever is loaded, drawn and copied.
THEOREM MemoSafeTheorem == RendererSpec => []MemoSafe
<1>1. RendererSpec => []ICacheInv
  <2>1. RendererSpec => RendererInit /\ [][RendererNext]_rendererVars BY DEF RendererSpec
  <2> QED BY <2>1, InitICacheInv, NextICacheInv, PTL
<1>2. []ICacheInv => []MemoSafe BY SafeIfKept, PTL
<1> QED BY <1>1, <1>2

=============================================================================
