------------------------------ MODULE MCRaster ------------------------------
(***************************************************************************)
(* Raster on a buffer of 8 by 4 pixels.  Each script is a scene and a few   *)
(* triangles, chosen so that no corner is lost to rounding and no pixel's   *)
(* centre lies on the cut between two pieces: CornersExact checks both      *)
(* planes' crossings.                                                       *)
(***************************************************************************)
EXTENDS Raster

\* ----- memory: three textures, and room for copies

Put(a, bytes) == [i \in a .. a + Len(bytes) - 1 |-> bytes[i - a + 1]]
Twice(s) == s \o s
Four(s) == Twice(Twice(s))
\* 0: CMPR, four blocks of red and blue, the second and third in the order
\* that has a transparent selector; 32: 8-bit indices; 64: 4-bit grey.
RedBlue == <<248, 0, 0, 31, 27, 27, 27, 27>>
BlueRed == <<0, 31, 248, 0, 27, 27, 27, 27>>
MCMem0 == Put(0, RedBlue \o BlueRed \o BlueRed \o RedBlue)
          @@ Put(32, Four(<<0, 1, 2, 3, 3, 2, 1, 0>>))
          @@ Put(64, Four(<<1, 35, 69, 103, 137, 171, 205, 239>>))
          @@ [a \in 96 .. 415 |-> 0]

Red == <<255, 0, 0, 255>>
Blue == <<0, 0, 255, 255>>
CmprImage == [y \in 0 .. 7 |-> [x \in 0 .. 7 |->
    IF (x < 4) = (y < 4)
    THEN <<Red, <<170, 0, 85, 255>>, <<85, 0, 170, 255>>, Blue>>[(<<1, 4, 2, 3>>)[(x % 4) + 1]]
    ELSE <<Blue, Red, <<127, 0, 127, 255>>, <<0, 0, 0, 0>>>>[(x % 4) + 1]]]
\* RGB5A3 entries: opaque white, half-transparent red, opaque green, clear.
Palette == [i \in 0 .. 3 |-> <<65535, 20224, 33760, 0>>[i + 1]]
PaletteColour == <<White4, <<255, 0, 0, 144>>, <<0, 255, 0, 255>>, <<0, 0, 0, 0>>>>
C8Image == [y \in 0 .. 3 |-> [x \in 0 .. 7 |->
               PaletteColour[<<1, 2, 3, 4, 4, 3, 2, 1>>[x + 1]]]]
I4Image == [y \in 0 .. 7 |-> [x \in 0 .. 7 |->
               LET i == 17 * (8 * (y % 2) + x) IN <<i, i, i, i>>]]

Texture(addr, fmt, w, h, s, t, bilinear, img) ==
    [addr |-> addr, fmt |-> fmt, w |-> w, h |-> h, tlut |-> Palette, tlutFormat |-> 2,
     wrapS |-> s, wrapT |-> t, bilinear |-> bilinear, img |-> img]
\* Maps 3 to 5 name what copies leave, 6 what lies outside memory, 7 nothing.
MCTextures ==
    [m \in 0 .. 6 |->
        CASE m = 0 -> Texture(0, 14, 8, 8, 1, 2, FALSE, CmprImage)
          [] m = 1 -> Texture(32, 9, 8, 4, 0, 0, FALSE, C8Image)
          [] m = 2 -> Texture(64, 0, 8, 8, 1, 1, TRUE, I4Image)
          [] m = 3 -> Texture(96, 6, 8, 4, 0, 0, FALSE, << >>)
          [] m = 4 -> Texture(224, 5, 8, 4, 1, 0, FALSE, << >>)
          [] m = 5 -> Texture(288, 1, 8, 4, 2, 1, TRUE, << >>)
          [] m = 6 -> Texture(400, 6, 8, 8, 0, 0, FALSE, << >>)]

\* Matrix 0 is the identity, 3 (row 12) moves right by four half pixels; 62
\* runs off the memory and counts as 0.
MCXf == [i \in 0 .. 255 |-> IF i \in {0, 5, 10, 12, 17, 22} THEN 1 ELSE IF i = 15 THEN 4 ELSE 0]

\* ----- registers

Bp(writes) == [i \in DOMAIN writes |-> [op |-> "bp", reg |-> writes[i][1], value |-> writes[i][2]]]
Gen(stages, cull) == <<GEN_MODE, (stages - 1) * 2^10 + cull * 2^14>>
Order(pair, m0, c0, m1, c1) ==    \* a map of 8 is a stage without one
    LET Half(m, c) == IF m = 8 THEN 0 ELSE m + 8 * c + 64
    IN  <<TEV_ORDER + pair, Half(m0, c0) + 2^12 * Half(m1, c1)>>
ColorEnv(s, a, b, c, d, more) == <<COLOR_ENV + 2 * s, a * 2^12 + b * 2^8 + c * 2^4 + d + more>>
AlphaEnv(s, a, b, c, d, more) == <<ALPHA_ENV + 2 * s, a * 2^13 + b * 2^10 + c * 2^7 + d * 2^4 + more>>
Clamped == 2^19
PassRaster(s) == <<ColorEnv(s, 15, 15, 15, 10, Clamped), AlphaEnv(s, 7, 7, 7, 5, Clamped)>>
Modulate(s) == <<ColorEnv(s, 15, 8, 10, 15, Clamped), AlphaEnv(s, 7, 4, 5, 7, Clamped)>>
\* The stage's texel times what the stages before it left.
ModulatePrev(s) == <<ColorEnv(s, 15, 8, 0, 15, Clamped), AlphaEnv(s, 7, 4, 0, 7, Clamped)>>
KeepPrev(s) == <<ColorEnv(s, 15, 15, 15, 0, Clamped), AlphaEnv(s, 7, 7, 7, 0, Clamped)>>
Z(func, update) == <<ZMODE, 1 + 2 * func + 16 * update>>
NoZ == <<ZMODE, 0>>
Blend(src, dst, more) == <<BLEND_MODE, 25 + 256 * src + 32 * dst + more>>
NoBlend == <<BLEND_MODE, 24>>
AlphaTest(op0, ref0, op1, ref1, logic) ==
    <<ALPHA_COMPARE, ref0 + 2^8 * ref1 + 2^16 * op0 + 2^19 * op1 + 2^22 * logic>>
ScissorBox(x0, y0, x1, y1) ==
    <<<<SCISSOR_TL, (y0 + 342) + 2^12 * (x0 + 342)>>, <<SCISSOR_BR, (y1 + 342) + 2^12 * (x1 + 342)>>>>
Plain == Bp(<<Gen(1, 0)>> \o PassRaster(0))

\* ----- scenes and triangles

Scene(proj, ortho, view) ==
    <<[op |-> "xf", scene |-> [projection |-> proj, ortho |-> ortho, viewport |-> view]]>>
Centred == <<1, -1, 12, 692, 688, 12>>
Flat == Scene(<<1, 0, 1, 0, 1, 0>>, TRUE, Centred)
Unset == Scene(<<1, 0, 1, 0, 1, 0>>, TRUE, <<0, 0, 0, 0, 0, 0>>)
\* The near plane two before the eye; and a projection whose plane is behind it.
Deep == Scene(<<1, 0, 1, 0, 0, -2>>, FALSE, Centred)
Inverted == Scene(<<1, 0, 1, 0, 0, 1>>, FALSE, <<1, -1, 12, 692, 688, 0>>)

Vertex(x, y, z, c, u, v) ==
    [x |-> x, y |-> y, z |-> z, m |-> 0, c |-> c, u |-> [k \in 0 .. 1 |-> IF k = 0 THEN u ELSE v],
     v |-> [k \in 0 .. 1 |-> IF k = 0 THEN v ELSE u]]
Tri(a, b, c) == <<[op |-> "tri", v |-> <<a, b, c>>]>>
Moved(t, m) == [t EXCEPT ![1].v = Corners(LAMBDA i : [t[1].v[i] EXCEPT !.m = m])]
Flipped(t) == [t EXCEPT ![1].v = <<@[1], @[3], @[2]>>]
\* Over the whole buffer, one texel to a pixel; z = -1 is the nearest depth.
Full(c, z1, z2) == Tri(Vertex(-8, 4, z1, c, 0, 0), Vertex(24, 4, z2, c, 16, 0), Vertex(-8, -12, z1, c, 0, 8))
Shaded(c, d) == Tri(Vertex(-8, 4, 0, c, 0, 0), Vertex(24, 4, 0, d, 16, 0), Vertex(-8, -12, 0, c, 0, 8))
Part(c, z) == Tri(Vertex(-4, 4, z, c, 0, 0), Vertex(8, 4, z, c, 6, 0), Vertex(-4, -4, z, c, 0, 4))

\* One corner behind the near plane: two pieces.  Two behind it: one.
OneBehind == Tri(Vertex(-16, 8, -4, <<200, 0, 0, 255>>, 0, 0), Vertex(16, 8, -4, <<0, 200, 0, 255>>, 8, 0),
                 Vertex(0, -24, 0, <<0, 0, 200, 255>>, 4, 8))
OneNearer == Tri(Vertex(-12, 6, -3, <<200, 0, 0, 255>>, 0, 0), Vertex(20, -6, -1, <<0, 0, 200, 255>>, 4, 8),
                 Vertex(-12, -18, -3, <<0, 200, 0, 255>>, 8, 0))
TwoBehind == Tri(Vertex(0, 16, -4, <<0, 200, 0, 128>>, 0, 0), Vertex(-16, -32, 0, <<200, 0, 0, 128>>, 8, 0),
                 Vertex(16, -32, 0, <<0, 0, 200, 128>>, 4, 8))
AllNear == Tri(Vertex(-4, 4, -1, Red, 0, 0), Vertex(4, 4, -1, Red, 0, 0), Vertex(0, -4, 0, Red, 0, 0))
AllBehind == Tri(Vertex(-4, 4, 0, Red, 0, 0), Vertex(4, 4, 0, Red, 0, 0), Vertex(0, -4, 1, Red, 0, 0))
EyeBehind == Tri(Vertex(-12, 12, -3, <<200, 0, 0, 255>>, 0, 0), Vertex(12, 12, -3, <<0, 0, 200, 255>>, 0, 0),
                 Vertex(0, -20, 1, <<200, 0, 0, 255>>, 0, 0))
Line == Tri(Vertex(-4, 4, 0, Red, 0, 0), Vertex(0, 0, 0, Red, 0, 0), Vertex(4, -4, 0, Red, 0, 0))
Unit == Tri(Vertex(-1, 1, 0, Blue, 0, 0), Vertex(3, 1, 0, Blue, 0, 0), Vertex(-1, -3, 0, Blue, 0, 0))

\* ----- copies

Tex(dest, stride, fmt, w, clear) ==
    <<[op |-> "tex", cp |-> [dest |-> dest, stride |-> stride, x |-> 8 - w, y |-> 0, w |-> w, h |-> 4,
                           fmt |-> fmt, clear |-> clear, argb |-> <<64, 32, 16, 255>>]]>>
Xfb(clear) ==
    <<[op |-> "xfb", cp |-> [dest |-> 352, stride |-> 16, w |-> 8, h |-> 4, clear |-> clear,
                           argb |-> <<0, 0, 0, 255>>]]>>

\* ----- scripts

Silver == <<160, 160, 160, 96>>
Green == <<0, 255, 0, 160>>
DepthFunctions ==
    <<Flat, Plain, Full(Red, 0, -1), Bp(<<Z(0, 1)>>), Part(Blue, -1), Bp(<<Z(1, 1)>>), Full(Green, -1, 0),
      Bp(<<Z(2, 0)>>), Full(Blue, -1, 0), Bp(<<Z(4, 0)>>), Full(Red, 0, 0), Bp(<<Z(5, 1)>>), Part(Silver, -1),
      Bp(<<Z(6, 1)>>), Part(Red, -1), Bp(<<Z(7, 0)>>), Part(Blue, 0), Bp(<<NoZ>>), Flipped(Part(Green, 0))>>
Blends ==
    <<Flat, Plain, Shaded(Red, Silver), Bp(<<NoZ, Blend(4, 5, 0)>>), Shaded(Green, Blue),
      Bp(<<Blend(1, 1, 0)>>), Part(Silver, 0), Bp(<<Blend(1, 1, 2048)>>), Part(Green, 0),
      Bp(<<Blend(2, 3, 0)>>), Part(Silver, 0), Bp(<<Blend(6, 7, 0)>>), Part(Silver, 0),
      Bp(<<Blend(1, 0, 0)>>), Part(Blue, 0), Bp(<<<<BLEND_MODE, 16>>>>), Part(Red, 0),
      Bp(<<<<BLEND_MODE, 8>>>>), Part(<<9, 8, 7, 6>>, 0)>>
AlphaTests ==
    <<Flat, Plain, Bp(<<NoZ, AlphaTest(7, 0, 7, 0, 0)>>), Full(Red, 0, 0),
      Bp(<<AlphaTest(7, 0, 1, 128, 0)>>), Shaded(<<9, 9, 9, 255>>, <<8, 8, 8, 0>>),
      Bp(<<AlphaTest(4, 200, 3, 60, 1)>>), Shaded(<<0, 9, 9, 255>>, <<0, 8, 8, 0>>),
      Bp(<<AlphaTest(6, 96, 0, 0, 2)>>), Part(Silver, 0), Bp(<<AlphaTest(2, 96, 5, 1, 3)>>), Part(Green, 0)>>
OneTexture(m) ==
    <<Flat, Bp(<<Gen(1, 0), Order(0, m, 0, 8, 0)>> \o Modulate(0)), Shaded(White4, Silver),
      Bp(<<Order(0, m, 1, 8, 0)>>), Part(White4, 0)>>
\* The grid shifted, so that coordinates are below zero and past the size.
Wrapped(m) ==
    LET Far(i) == 12 * i - 4
        At(x, y, u, v) == Vertex(x, y, 0, White4, u, v)
    IN  <<Flat, Bp(<<Gen(1, 0), Order(0, m, 0, 8, 0)>> \o Modulate(0)),
          Tri(At(-8, 4, Far(0), Far(0)), At(24, 4, Far(4), Far(0)), At(-8, -12, Far(0), Far(2)))>>
NoStages == <<Flat, Shaded(Green, Blue), Bp(<<Order(0, 0, 0, 8, 0)>>), Part(Silver, 0)>>
TwoStages ==
    <<Flat, Bp(<<Gen(2, 0), Order(0, 0, 0, 1, 1)>> \o Modulate(0) \o ModulatePrev(1)), Full(White4, 0, 0),
      Bp(<<Order(0, 8, 0, 2, 0)>> \o PassRaster(0)), Part(Silver, 0), Bp(<<Order(0, 7, 0, 6, 0)>>), Part(Green, 0),
      Bp(<<Order(0, 1, 0, 8, 0)>> \o Modulate(0) \o KeepPrev(1)), Part(Silver, 0)>>
Konst(n, cr, g, b, a) ==
    <<<<TEV_REGISTER + 2 * n, 2^23 + cr + 2^12 * a>>, <<TEV_REGISTER + 2 * n + 1, 2^23 + b + 2^12 * g>>>>
Register4(n, cr, g, b, a) ==
    <<<<TEV_REGISTER + 2 * n, cr + 2^12 * a>>, <<TEV_REGISTER + 2 * n + 1, b + 2^12 * g>>>>
Combined ==
    <<Flat, Bp(<<Gen(3, 0), Order(0, 8, 0, 8, 0)>> \o Konst(1, 200, 100, 50, 25) \o Konst(2, 1, 2, 3, 4)
        \o Register4(1, 40, 2047, 90, 128) \o Register4(3, 7, 1900, 2000, 255)
        \o <<<<KSEL, 13 * 16 + 29 * 2^9 + 3 * 2^14 + 18 * 2^19 + 4>>, <<KSEL + 1, 1 * 16 + 14>>,
             <<KSEL + 2, 2 + 4 * 3>>, <<KSEL + 3, 1>>>>
        \o <<ColorEnv(0, 10, 14, 2, 7, Clamped + 2^16), AlphaEnv(0, 5, 6, 1, 7, Clamped + 2^20 + 4),
             ColorEnv(1, 12, 6, 0, 14, 2^18 + 2 * 2^16 + 2^22), AlphaEnv(1, 0, 6, 5, 1, 2^18 + 2^22 + 1),
             ColorEnv(2, 0, 2, 14, 13, Clamped + 3 * 2^20), AlphaEnv(2, 0, 1, 2, 6, Clamped + 2 * 2^20 + 5)>>),
      Shaded(Green, Silver), Bp(Konst(1, 0, 0, 255, 0)), Part(Silver, 0), Bp(<<Gen(1, 0)>>), Part(Red, 0)>>
Perspective(t, cull) ==
    <<Deep, Bp(<<Gen(1, cull), Order(0, 1, 0, 8, 0)>> \o Modulate(0)), t, Flipped(t),
      Bp(PassRaster(0) \o <<Blend(1, 1, 0)>>), t>>
Dropped ==
    <<Deep, Plain, AllNear, AllBehind, Inverted, EyeBehind, Flat, Line, Unset, Unit>>
Boxes ==
    <<Flat, Plain, Bp(ScissorBox(1, 1, 5, 2)), Full(Red, 0, 0),
      Bp(<<<<SCISSOR_OFFSET, 172 + 2^10 * 170>>>>), Moved(Full(Blue, 0, -1), 3),
      Bp(ScissorBox(7, 0, 20, 20) \o <<Gen(1, 2)>>), Moved(Full(Green, 0, -1), 62), Flipped(Full(Green, 0, -1)),
      Bp(<<Gen(1, 3)>>), Full(Red, -1, -1)>>
CopiedBack(m, fmt) ==
    LET tx == MCTextures[m]
    IN  <<Flat, Plain, Shaded(Red, Silver), Part(<<17, 34, 230, 236>>, 0), Tex(tx.addr, 0, fmt, 8, TRUE),
          Bp(<<Order(0, m, 0, 8, 0)>> \o Modulate(0)), Shaded(White4, Green), Xfb(FALSE), Part(White4, -1),
          Tex(tx.addr, 0, fmt, 8, FALSE), Full(White4, -1, -1)>>
\* Formats no map of the instance samples, a copy from an origin, and one
\* over another.
Channels ==
    <<Flat, Plain, Shaded(Red, Green), Part(<<17, 34, 230, 236>>, 0), Tex(96, 0, 8, 8, FALSE),
      Tex(128, 0, 9, 8, FALSE), Tex(160, 0, 10, 8, FALSE), Tex(192, 0, 11, 4, FALSE), Tex(224, 0, 12, 8, FALSE),
      Tex(288, 0, 4, 8, TRUE), Part(Silver, 0), Xfb(TRUE), Tex(320, 0, 3, 4, FALSE), Tex(96, 0, 6, 8, FALSE)>>

MCScripts ==
    {FlattenSeq(parts) : parts \in
        {DepthFunctions, Blends, AlphaTests, NoStages, TwoStages, Combined, Dropped, Boxes, Channels,
         CopiedBack(3, 6), CopiedBack(4, 5), CopiedBack(5, 1)}
        \union {OneTexture(m) : m \in 0 .. 2} \union {Wrapped(m) : m \in 0 .. 2}
        \union {Perspective(t, cull) : t \in {OneBehind, OneNearer, TwoBehind}, cull \in 0 .. 2}}
=============================================================================
