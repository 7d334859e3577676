------------------------------- MODULE Texels -------------------------------
(***************************************************************************)
(* Texels as bytes: the tiled formats a texture is decoded from            *)
(* (gx/texture.c) and a copy of the embedded framebuffer is encoded in,    *)
(* and the YCbCr lines of the external framebuffer (gx/efb.c).  A colour   *)
(* is <<r, g, b, a>>, a picture a function of y and then x, memory a       *)
(* function of addresses; what falls outside its domain is refused.        *)
(***************************************************************************)
EXTENDS Integers, Sequences, FiniteSets, SequencesExt

RoundUp(v, to) == ((v + to - 1) \div to) * to
Clamp(v, lo, hi) == IF v < lo THEN lo ELSE IF v > hi THEN hi ELSE v
clamp8(v) == Clamp(v, 0, 255)
\* C's integer division and remainder, towards zero.
Quotient(n, d) == IF n >= 0 THEN n \div d ELSE -((-n) \div d)
Remainder(n, d) == n - d * Quotient(n, d)
\* n bits of a word, from bit lo.
Bits(w, lo, n) == (w \div 2^lo) % 2^n

\* A colour, channel by channel.
Rgba(Channel(_)) == <<Channel(1), Channel(2), Channel(3), Channel(4)>>

\* ----- colours of the packed formats

expand(v, bits) == v * 2^(8 - bits) + (v * 2^(8 - bits)) \div 2^bits
rgb565(c) == <<expand(Bits(c, 11, 5), 5), expand(Bits(c, 5, 6), 6), expand(Bits(c, 0, 5), 5), 255>>
rgb5a3(c) ==
    IF Bits(c, 15, 1) = 1
    THEN <<expand(Bits(c, 10, 5), 5), expand(Bits(c, 5, 5), 5), expand(Bits(c, 0, 5), 5), 255>>
    ELSE <<expand(Bits(c, 8, 4), 4), expand(Bits(c, 4, 4), 4), expand(Bits(c, 0, 4), 4),
           expand(Bits(c, 12, 3), 3)>>
Grey(i, a) == <<i, i, i, a>>
ia8(c) == Grey(c % 256, c \div 256)
be16(mem, a) == mem[a] * 256 + mem[a + 1]

\* The palette: TlutOf[i] is entry i as it was loaded, still in its format.
tlut_color(tlut, index, format) ==
    LET c == tlut[index % 2^14]
    IN  CASE format = 0 -> ia8(c) [] format = 1 -> rgb565(c) [] OTHER -> rgb5a3(c)

\* ----- tiles: <<width, height, bits of a texel>>, by format

tile_shape == [f \in {0, 1, 2, 3, 4, 5, 6, 8, 9, 10, 14} |->
    CASE f \in {0, 8, 14}    -> <<8, 8, 4>>
      [] f \in {1, 2, 9}     -> <<8, 4, 8>>
      [] f \in {3, 4, 5, 10} -> <<4, 4, 16>>
      [] f = 6               -> <<4, 4, 32>>]
TileBytes(shape) == (shape[1] * shape[2] * shape[3]) \div 8
texture_bytes(f, w, h) ==
    LET s == tile_shape[f] IN (RoundUp(w, s[1]) * RoundUp(h, s[2]) * s[3]) \div 8

\* A 4x4 block: two colours, and a selector of two bits for each texel.
decode_cmpr_block(mem, src, x, y) ==
    LET c0 == be16(mem, src)
        c1 == be16(mem, src + 2)
        p0 == rgb565(c0)
        p1 == rgb565(c1)
        Mix(m, n) == Rgba(LAMBDA i : IF i = 4 THEN 255 ELSE (m * p0[i] + n * p1[i]) \div (m + n))
        sel == Bits(mem[src + 4 + y], 6 - 2 * x, 2)
    IN  CASE sel = 0 -> p0
          [] sel = 1 -> p1
          [] sel = 2 -> IF c0 > c1 THEN Mix(2, 1) ELSE Mix(1, 1)
          [] sel = 3 -> IF c0 > c1 THEN Mix(1, 2) ELSE <<0, 0, 0, 0>>

\* Texel `at` of the tile at t; (x, y) is its place in the tile.
TileTexel(mem, t, f, tlut, tlutFormat, at, x, y) ==
    LET nibble == Bits(mem[t + at \div 2], IF at % 2 = 1 THEN 0 ELSE 4, 4)
        byte   == mem[t + at]
        word   == be16(mem, t + 2 * at)
    IN  CASE f = 0  -> Grey(expand(nibble, 4), expand(nibble, 4))
          [] f = 1  -> Grey(byte, byte)
          [] f = 2  -> Grey(expand(byte % 16, 4), expand(byte \div 16, 4))
          [] f = 3  -> ia8(word)
          [] f = 4  -> rgb565(word)
          [] f = 5  -> rgb5a3(word)
          [] f = 6  -> <<mem[t + 2 * at + 1], mem[t + 32 + 2 * at], mem[t + 32 + 2 * at + 1],
                         mem[t + 2 * at]>>
          [] f = 8  -> tlut_color(tlut, nibble, tlutFormat)
          [] f = 9  -> tlut_color(tlut, byte, tlutFormat)
          [] f = 10 -> tlut_color(tlut, word % 2^14, tlutFormat)
          [] f = 14 -> decode_cmpr_block(mem, t + 8 * ((x \div 4) + 2 * (y \div 4)), x % 4, y % 4)

\* The picture at tx.addr, tx = [addr, fmt, w, h, tlut, tlutFormat].
Decodable(mem, tx) ==
    /\ tx.fmt \in DOMAIN tile_shape
    /\ tx.addr .. (tx.addr + texture_bytes(tx.fmt, tx.w, tx.h) - 1) \subseteq DOMAIN mem
mgs_tex_decode(mem, tx) ==
    LET s == tile_shape[tx.fmt]
        across == RoundUp(tx.w, s[1]) \div s[1]
        Tile(x, y) == tx.addr + ((y \div s[2]) * across + (x \div s[1])) * TileBytes(s)
    IN  [y \in 0 .. tx.h - 1 |-> [x \in 0 .. tx.w - 1 |->
            TileTexel(mem, Tile(x, y), tx.fmt, tx.tlut, tx.tlutFormat,
                      (y % s[2]) * s[1] + (x % s[1]), x % s[1], y % s[2])]]

\* ----- sampling; a coordinate is the fraction n/d of a texel

wrap_coord(v, size, mode) ==
    CASE mode = 1 -> LET m == Remainder(v, size) IN IF m < 0 THEN m + size ELSE m
      [] mode = 2 -> LET p == 2 * size
                         r == Remainder(v, p)
                         m == IF r < 0 THEN r + p ELSE r
                     IN  IF m < size THEN m ELSE p - 1 - m
      [] OTHER    -> Clamp(v, 0, size - 1)
texel(img, tx, x, y) ==
    img[wrap_coord(y, tx.h, tx.wrapT)][wrap_coord(x, tx.w, tx.wrapS)]

\* Four texels mixed by the fractions f/den and g/den, to the nearest.
blend4(a, b, c, e, f, g, den) ==
    Rgba(LAMBDA i :
        clamp8((((a[i] * (den - f) + b[i] * f) * (den - g) + (c[i] * (den - f) + e[i] * f) * g) * 2
                + den * den) \div (2 * den * den)))

\* The sample at (un/d, vn/d) texels.  Linear filtering takes half a texel
\* off; the cell left of zero is found by rounding down.
mgs_tex_sample(img, tx, un, vn, d) ==
    IF ~tx.bilinear THEN texel(img, tx, Quotient(un, d), Quotient(vn, d))
    ELSE LET den == 2 * d
             fx == 2 * un - d
             fy == 2 * vn - d
             x == Quotient(IF fx < 0 THEN fx - den ELSE fx, den)
             y == Quotient(IF fy < 0 THEN fy - den ELSE fy, den)
         IN  blend4(texel(img, tx, x, y), texel(img, tx, x + 1, y),
                    texel(img, tx, x, y + 1), texel(img, tx, x + 1, y + 1),
                    fx - x * den, fy - y * den, den)

\* ----- a copy of the embedded framebuffer to a texture

\* A copy's formats are not a texture's: 8 to 12 take single channels.
tex_tile_shape(f) ==
    CASE f = 6             -> <<4, 4, 32>>
      [] f = 0             -> <<8, 8, 4>>
      [] f \in {1, 2, 8, 9, 10} -> <<8, 4, 8>>
      [] OTHER             -> <<4, 4, 16>>

Luminance(c) == (c[1] * 77 + c[2] * 151 + c[3] * 28) \div 256
encode_texel(f, c) ==
    CASE f = 4  -> (c[1] \div 8) * 2^11 + (c[2] \div 4) * 2^5 + c[3] \div 8
      [] f = 5  -> IF c[4] >= 224
                   THEN 2^15 + (c[1] \div 8) * 2^10 + (c[2] \div 8) * 2^5 + c[3] \div 8
                   ELSE (c[4] \div 32) * 2^12 + (c[1] \div 16) * 2^8 + (c[2] \div 16) * 2^4
                        + c[3] \div 16
      [] f = 11 -> c[1] * 256 + c[2]
      [] f = 12 -> c[2] * 256 + c[3]
      [] OTHER  -> c[4] * 256 + Luminance(c)
EncodeByte(f, c) ==
    CASE f = 8 -> c[1] [] f = 9 -> c[2] [] f = 10 -> c[3] [] OTHER -> Luminance(c)

\* What one pixel leaves at texel `at` of the tile at t: pairs of an address
\* and a byte.  There is no branch for four bits: they are not written.
TexelWrites(f, t, at, c) ==
    LET bits == tex_tile_shape(f)[3]
        e == encode_texel(f, c)
    IN  CASE bits = 32 -> {<<t + 2 * at, c[4]>>, <<t + 2 * at + 1, c[1]>>,
                           <<t + 32 + 2 * at, c[2]>>, <<t + 33 + 2 * at, c[3]>>}
          [] bits = 16 -> {<<t + 2 * at, e \div 256>>, <<t + 2 * at + 1, e % 256>>}
          [] bits = 8  -> {<<t + at, EncodeByte(f, c)>>}
          [] OTHER     -> {}

\* Memory with bytes stored; those outside it are dropped.
Stored(mem, writes) ==
    LET at == {w[1] : w \in writes}
    IN  [a \in DOMAIN mem |-> IF a \in at THEN (CHOOSE w \in writes : w[1] = a)[2] ELSE mem[a]]

PackedRow(cp) ==
    LET s == tex_tile_shape(cp.fmt) IN (RoundUp(cp.w, s[1]) \div s[1]) * TileBytes(s)
\* The distance between two rows of tiles is the stride the game programmed.
TileRow(cp) == IF cp.stride # 0 THEN cp.stride ELSE PackedRow(cp)
\* The bytes a copy claims in memory.
Span(cp) ==
    LET th == tex_tile_shape(cp.fmt)[2] IN ((cp.h + th - 1) \div th) * TileRow(cp)

\* cp = [dest, stride, x, y, w, h, fmt]; pixels[y][x] is the buffer.
\* Mutant: tiles of one row stored over each other.
TilesUnspaced(mem, pixels, cp) ==
    LET s == tex_tile_shape(cp.fmt)
        Tile(x, y) == cp.dest + (y \div s[2]) * TileRow(cp)
        Inside == {q \in (0 .. cp.w - 1) \X (0 .. cp.h - 1) :
                      cp.y + q[2] \in DOMAIN pixels /\ cp.x + q[1] \in DOMAIN pixels[cp.y + q[2]]}
    IN  Stored(mem, UNION {TexelWrites(cp.fmt, Tile(q[1], q[2]), (q[2] % s[2]) * s[1] + (q[1] % s[1]),
                                       pixels[cp.y + q[2]][cp.x + q[1]]) : q \in Inside})
mgs_efb_copy_tex(mem, pixels, cp) ==
    LET s == tex_tile_shape(cp.fmt)
        Tile(x, y) == cp.dest + (y \div s[2]) * TileRow(cp) + (x \div s[1]) * TileBytes(s)
        Inside == {q \in (0 .. cp.w - 1) \X (0 .. cp.h - 1) :
                      cp.y + q[2] \in DOMAIN pixels /\ cp.x + q[1] \in DOMAIN pixels[cp.y + q[2]]}
    IN  Stored(mem, UNION {TexelWrites(cp.fmt, Tile(q[1], q[2]), (q[2] % s[2]) * s[1] + (q[1] % s[1]),
                                       pixels[cp.y + q[2]][cp.x + q[1]]) : q \in Inside})

\* ----- a copy to the external framebuffer, and back

rgb_to_ycbcr(c) ==
    <<((66 * c[1] + 129 * c[2] + 25 * c[3] + 128) \div 256) + 16,
      ((-38 * c[1] - 74 * c[2] + 112 * c[3] + 128) \div 256) + 128,
      ((112 * c[1] - 94 * c[2] - 18 * c[3] + 128) \div 256) + 128>>
ycbcr_to_rgb(y, cb, cr) ==
    LET c == y - 16  d == cb - 128  e == cr - 128
    IN  <<clamp8((298 * c + 409 * e + 128) \div 256),
          clamp8((298 * c - 100 * d - 208 * e + 128) \div 256),
          clamp8((298 * c + 516 * d + 128) \div 256), 255>>

PairBytes(a, b) ==
    LET p == rgb_to_ycbcr(a)  q == rgb_to_ycbcr(b)
    IN  <<clamp8(p[1]), clamp8(Quotient(p[2] + q[2], 2)), clamp8(q[1]), clamp8(Quotient(p[3] + q[3], 2))>>
\* cp = [dest, stride, w, h]; the lines are the buffer's first.
mgs_efb_copy(mem, pixels, cp) ==
    LET h == Clamp(cp.h, 0, Cardinality(DOMAIN pixels))
        w == Clamp(cp.w, 0, Cardinality(DOMAIN pixels[0]))
        Pair(y, k) == PairBytes(pixels[y][2 * k], pixels[y][2 * k + 1])
    IN  Stored(mem, UNION {{<<cp.dest + y * cp.stride + 4 * k + i - 1, Pair(y, k)[i]>> : i \in 1 .. 4}
                              : y \in 0 .. h - 1, k \in 0 .. (w \div 2) - 1})

\* The picture presented: lines up to the first that runs off memory, if any.
mgs_xfb_to_rgb(mem, cp) ==
    LET stride == IF cp.stride = 0 THEN 2 * cp.w ELSE cp.stride
        Line(y) == cp.dest + y * stride
        Lines == {y \in 0 .. cp.h - 1 : \A z \in 0 .. y :
                     Line(z) .. (Line(z) + 2 * cp.w - 1) \subseteq DOMAIN mem}
        Pixel(y, x) == LET p == Line(y) + 4 * (x \div 2)
                       IN  ycbcr_to_rgb(mem[p + 2 * (x % 2)], mem[p + 1], mem[p + 3])
    IN  [y \in Lines |-> [x \in 0 .. 2 * (cp.w \div 2) - 1 |-> Pixel(y, x)]]
=============================================================================
