------------------------------- MODULE Raster -------------------------------
(***************************************************************************)
(* A triangle becomes pixels (gx/raster.c): transformed, cut at the near   *)
(* plane, culled, scissored and filled, in bands of rows that the job      *)
(* pool's workers fill beside the calling thread.  Between triangles the   *)
(* parser writes registers and copies the buffer out.                      *)
(*                                                                         *)
(* Numbers are exact here where the code has floats.  Screen coordinates   *)
(* are in half pixels, so a pixel's centre is odd; depths are fractions in *)
(* lowest terms; the instance's triangles are cut and projected without a  *)
(* remainder.                                                              *)
(***************************************************************************)
EXTENDS Tev

CONSTANTS Scripts,      \* the command streams, as sequences of commands
          Xf,           \* the transform unit's matrix memory: 64 rows of four
          Width, Height,
          BandMinRows,  \* RASTER_BAND_MIN_ROWS
          MaxBands,     \* MGS_RASTER_THREADS, 0 when unset
          Workers,      \* workers of the job pool; 0: there is no pool
          NearW,        \* how close to the eye a vertex may be
          IwScale,      \* 1/w is counted in parts of this
          FarDepth,     \* the depth a cleared buffer holds
          Textures,     \* Textures[m]: what map m's registers name
          Mem0,         \* guest memory at the start
          Junk          \* what lies beyond the eight texels of a pixel

VARIABLES script,   \* commands to come
          mem,      \* guest memory
          bp,       \* gx->bp
          scene,    \* gx: projection, viewport
          r,        \* the rasteriser: draw state, bands, whether it has a GPU
          fb,       \* s_efb.pixels and r->depth: fb[y][x] = [c, z]
          todo,     \* pieces of the triangle still to draw
          span,     \* RasterSpan of the piece being drawn
          bands,    \* RasterBand, each with who fills it
          at,       \* "idle", or where mgs_raster_triangle stands
          quit,     \* mgs_module_interrupted
          tally,    \* pixels covered, lost to depth, to alpha, and drawn
          block,    \* s_tev_block and s_tev_rev
          sent,     \* the combiner of the last triangle given to the GPU
          ideal,    \* ghost: the buffer and tally by the definition below
          copies    \* ghost: [cp, kind, bytes, img] what each copy should have left,
                    \* kind "over" when another has since been written over it

raster == <<r, fb, todo, span, bands, at, tally, block, sent>>
vars == <<script, mem, bp, scene, raster, quit, ideal, copies>>

Columns == 0 .. Width - 1
Lines == 0 .. Height - 1
Corner == 1 .. 3
Corners(F(_)) == <<F(1), F(2), F(3)>>
SetMin(S) == CHOOSE x \in S : \A y \in S : x <= y
SetMax(S) == CHOOSE x \in S : \A y \in S : x >= y

RECURSIVE Gcd(_, _)
Gcd(m, n) == IF n = 0 THEN m ELSE Gcd(n, m % n)
Abs(n) == IF n < 0 THEN -n ELSE n
Reduced(n, d) ==
    IF n = 0 THEN <<0, 1>>
    ELSE LET g == Gcd(Abs(n), Abs(d)) IN IF d > 0 THEN <<n \div g, d \div g>>
                                         ELSE <<(-n) \div g, (-d) \div g>>
Below(a, b) == a[1] * b[2] < b[1] * a[2]
\* Weights in lowest terms.
Ratio(k) == LET g == Gcd(k[1], Gcd(k[2], k[3])) IN Corners(LAMBDA i : k[i] \div g)

\* ----- vertices: [x, y, z, m, c, u, v], u and v by coordinate set, in texels

position_matrix(index) == LET row == (index % 64) * 4 IN IF row + 12 > 256 THEN 0 ELSE row
transform(v) ==
    LET m == position_matrix(v.m)
    IN  Corners(LAMBDA i : Xf[m + 4 * i - 4] * v.x + Xf[m + 4 * i - 3] * v.y
                           + Xf[m + 4 * i - 2] * v.z + Xf[m + 4 * i - 1])
\* Clip space and w, from the packed projection.
project(sc, view) ==
    LET p == sc.projection
    IN  IF sc.ortho
        THEN [x |-> p[1] * view[1] + p[2], y |-> p[3] * view[2] + p[4],
              z |-> p[5] * view[3] + p[6], w |-> 1]
        ELSE [x |-> p[1] * view[1] + p[2] * view[3], y |-> p[3] * view[2] + p[4] * view[3],
              z |-> p[5] * view[3] + p[6], w |-> -view[3]]
Clip(sc, v) == project(sc, transform(v))

\* The viewport's scales and offsets; the offsets carry 342 pixels.
Viewport(sc) ==
    IF sc.viewport[1] = 0 /\ sc.viewport[2] = 0
    THEN <<Width, -Height, FarDepth, Width + 684, Height + 684, 0>>
    ELSE sc.viewport
to_screen(sc, clip) ==
    LET vp == Viewport(sc)
    IN  [x |-> (clip.x * vp[1]) \div clip.w + (vp[4] - 684),
         y |-> (clip.y * vp[2]) \div clip.w + (vp[5] - 684),
         z |-> (clip.z * vp[3]) \div clip.w + vp[6]]

\* ----- clipping

\* The vertex n/d of the way from a to b.
lerp_vertex(a, b, n, d) ==
    LET L(p, q) == p + ((q - p) * n) \div d
    IN  [x |-> L(a.x, b.x), y |-> L(a.y, b.y), z |-> L(a.z, b.z), m |-> a.m,
         c |-> Rgba(LAMBDA i : clamp8(L(a.c[i], b.c[i]))),
         u |-> [k \in DOMAIN a.u |-> L(a.u[k], b.u[k])],
         v |-> [k \in DOMAIN a.v |-> L(a.v[k], b.v[k])]]

\* The polygon left of tri where the distance dist is not negative: at most
\* four corners, in order.
CutAt(tri, dist) ==
    LET Side(i) ==
            LET j == (i % 3) + 1
            IN  (IF dist[i] >= 0 THEN <<tri[i]>> ELSE << >>) \o
                (IF (dist[i] >= 0) # (dist[j] >= 0)
                 THEN <<lerp_vertex(tri[i], tri[j], Abs(dist[i]), Abs(dist[i] - dist[j]))>> ELSE << >>)
    IN  Side(1) \o Side(2) \o Side(3)
\* Mutant: the second triangle of the fan forgotten.
FanOfOne(poly) == IF Len(poly) < 3 THEN << >> ELSE <<<<poly[1], poly[2], poly[3]>>>>
Fan(poly) ==
    IF Len(poly) < 3 THEN << >>
    ELSE <<<<poly[1], poly[2], poly[3]>>>> \o
         (IF Len(poly) = 4 THEN <<<<poly[1], poly[3], poly[4]>>>> ELSE << >>)

\* A triangle all behind the eye or all before the near plane is dropped; one
\* that crosses is cut once, at the near plane if it crosses that.  A piece
\* of a cut is not cut again: only a corner behind the eye refuses it.
ClipOnce(sc, tri, deep) ==
    LET c == Corners(LAMBDA i : Clip(sc, tri[i]))
        near == Corners(LAMBDA i : c[i].z + c[i].w)
        eye == Corners(LAMBDA i : c[i].w - NearW)
        behind == {i \in Corner : eye[i] < 0}
        beforeNear == {i \in Corner : near[i] < 0}
    IN  IF (beforeNear = Corner /\ behind # Corner) \/ behind = Corner \/ (deep /\ behind # {})
        THEN [kept |-> << >>, cut |-> << >>]
        ELSE IF beforeNear # {} /\ ~deep THEN [kept |-> << >>, cut |-> Fan(CutAt(tri, near))]
        ELSE IF behind # {} THEN [kept |-> << >>, cut |-> Fan(CutAt(tri, eye))]
        ELSE [kept |-> <<tri>>, cut |-> << >>]
Pieces(sc, tri) ==
    LET once == ClipOnce(sc, tri, FALSE)
    IN  FoldLeft(LAMBDA acc, t : acc \o ClipOnce(sc, t, TRUE).kept, once.kept, once.cut)

\* ----- registers, read at every triangle; a register never written leaves
\* ----- what mgs_raster_init or an earlier triangle set

ReadZmode(rs) ==
    IF ~mgs_bp_is_set(bp, ZMODE) THEN rs
    ELSE LET w == mgs_bp_get(bp, ZMODE)
         IN  [rs EXCEPT !.depth_test = Bits(w, 0, 1) = 1, !.depth_func = Bits(w, 1, 3),
                        !.depth_update = Bits(w, 4, 1) = 1]
ReadBlend(rs) ==
    IF ~mgs_bp_is_set(bp, BLEND_MODE) THEN rs
    ELSE LET w == mgs_bp_get(bp, BLEND_MODE)
             src == Bits(w, 8, 3)
             dst == Bits(w, 5, 3)
             sub == Bits(w, 11, 1) = 1
         IN  [rs EXCEPT !.blend_enable = Bits(w, 0, 1) = 1, !.color_update = Bits(w, 3, 1) = 1,
                        !.alpha_update = Bits(w, 4, 1) = 1, !.blend_src = src, !.blend_dst = dst,
                        !.blend_sub = sub, !.blend_noop = ~sub /\ src = 1 /\ dst = 0]

\* ----- setup of one piece

edge(a, b, px, py) == (b.x - a.x) * (py - a.y) - (b.y - a.y) * (px - a.x)

\* GEN_MODE's cull mode against the side a triangle shows.
CullsSide(sc, back) ==
    LET cm == Bits(mgs_bp_get(bp, GEN_MODE), 14, 2)
    IN  cm = 3 \/ (cm = 1 /\ ~back) \/ (cm = 2 /\ back)
Backface(sc, area) ==
    LET vw == IF sc.viewport[1] = 0 /\ sc.viewport[2] = 0 THEN <<1, -1>>
              ELSE <<sc.viewport[1], sc.viewport[2]>>
        sign == area * vw[1] * vw[2] <= 0
    IN  IF vw[2] > 0 THEN ~sign ELSE sign

\* The scissor box [x0, y0, x1, y1], if the game has set one.  Offsets are in
\* two pixels and never written stand for 342.
ScissorSet == mgs_bp_get(bp, SCISSOR_TL) # 0 \/ mgs_bp_get(bp, SCISSOR_BR) # 0
Scissor ==
    LET tl == mgs_bp_get(bp, SCISSOR_TL)
        br == mgs_bp_get(bp, SCISSOR_BR)
        off == mgs_bp_get(bp, SCISSOR_OFFSET)
        ox == 2 * (IF mgs_bp_is_set(bp, SCISSOR_OFFSET) THEN Bits(off, 0, 10) ELSE 171)
        oy == 2 * (IF mgs_bp_is_set(bp, SCISSOR_OFFSET) THEN Bits(off, 10, 10) ELSE 171)
    IN  IF ~ScissorSet THEN [x0 |-> 0, y0 |-> 0, x1 |-> Width, y1 |-> Height]
        ELSE [x0 |-> Bits(tl, 12, 12) - ox, y0 |-> Bits(tl, 0, 12) - oy,
              x1 |-> Bits(br, 12, 12) - ox + 1, y1 |-> Bits(br, 0, 12) - oy + 1]

\* Pixels the piece may touch: its extent, the buffer and the scissor box.
Box(s) ==
    LET xs == {s[i].x : i \in Corner}
        ys == {s[i].y : i \in Corner}
        sc == Scissor
    IN  [x0 |-> SetMax({Quotient(SetMin(xs), 2), 0, sc.x0}),
         y0 |-> SetMax({Quotient(SetMin(ys), 2), 0, sc.y0}),
         x1 |-> SetMin({Quotient(SetMax(xs), 2) + 1, Width, sc.x1}),
         y1 |-> SetMin({Quotient(SetMax(ys), 2) + 1, Height, sc.y1})]

\* ----- textures of the stages

\* Two stages share a TEV_ORDER register: [map, coord, enabled].
stage_texture(s) ==
    LET sh == IF s % 2 = 1 THEN 12 ELSE 0
        w == mgs_bp_get(bp, TEV_ORDER + s \div 2)
    IN  [map |-> Bits(w, sh, 3), coord |-> Bits(w, sh + 3, 3), enabled |-> Bits(w, sh + 6, 1) = 1]
\* bind_texture and texture_wrap: a map whose registers name nothing, or what
\* cannot be decoded, binds nothing.
Binds(s) == stage_texture(s).enabled /\ stage_texture(s).map \in DOMAIN Textures
            /\ Decodable(mem, Textures[stage_texture(s).map])
BoundTo(s) ==
    [tx |-> Textures[stage_texture(s).map], coord |-> stage_texture(s).coord,
     img |-> mgs_tex_decode(mem, Textures[stage_texture(s).map])]

\* Each stage samples its own texel when a later one binds a texture; else
\* all take the first's.  No more than eight are bound.
StageLimit == SetMin({stage_count(bp), 8})
AnyExtra == \E s \in 1 .. StageLimit - 1 : Binds(s)
StageBinds == [s \in 1 .. (IF AnyExtra THEN StageLimit ELSE 0) |->
                  IF Binds(s - 1) THEN <<BoundTo(s - 1)>> ELSE << >>]
FirstBind == IF Binds(0) THEN <<BoundTo(0)>> ELSE << >>

\* [ok |-> FALSE] for a piece that draws nothing.
Setup(sc, tri) ==
    LET clip == Corners(LAMBDA i : Clip(sc, tri[i]))
        s == Corners(LAMBDA i : to_screen(sc, clip[i]))
        area == edge(s[1], s[2], s[3].x, s[3].y)
        box == Box(s)
    IN  IF area = 0 \/ CullsSide(sc, Backface(sc, area)) \/ box.x0 >= box.x1 \/ box.y0 >= box.y1
        THEN [ok |-> FALSE]
        ELSE [ok |-> TRUE, v |-> tri, s |-> s, area |-> area, box |-> box,
              iw |-> Corners(LAMBDA i : IwScale \div clip[i].w),
              tex |-> FirstBind, stages |-> StageBinds,
              tev |-> mgs_tev_compile(bp), alphaAlways |-> mgs_tev_alpha_test_always(bp)]
NoSpan == [ok |-> FALSE]

\* ----- a pixel

depth_passes(rs, z, was) ==
    \/ ~rs.depth_test
    \/ CASE rs.depth_func = 0 -> FALSE
         [] rs.depth_func = 1 -> Below(z, was)
         [] rs.depth_func = 2 -> z = was
         [] rs.depth_func = 3 -> ~Below(was, z)
         [] rs.depth_func = 4 -> Below(was, z)
         [] rs.depth_func = 5 -> z # was
         [] rs.depth_func = 6 -> ~Below(z, was)
         [] OTHER -> TRUE

blend_factor(id, src, dst, srcA, dstA, forSrc) ==
    CASE id = 0 -> 0
      [] id = 1 -> 255
      [] id = 2 -> IF forSrc THEN dst ELSE src
      [] id = 3 -> 255 - (IF forSrc THEN dst ELSE src)
      [] id = 4 -> srcA
      [] id = 5 -> 255 - srcA
      [] id = 6 -> dstA
      [] OTHER -> 255 - dstA
\* The source keeps its alpha: only the colour is blended.
Blended(rs, p, d) ==
    Rgba(LAMBDA i :
        IF i = 4 THEN p[4]
        ELSE LET sf == blend_factor(rs.blend_src, p[i], d[i], p[4], d[4], TRUE)
                 df == blend_factor(rs.blend_dst, p[i], d[i], p[4], d[4], FALSE)
             IN  clamp8(Quotient(IF rs.blend_sub THEN d[i] * df - p[i] * sf ELSE p[i] * sf + d[i] * df, 255)))
Masked(rs, p, d) == Rgba(LAMBDA i : IF (IF i = 4 THEN rs.alpha_update ELSE rs.color_update) THEN p[i] ELSE d[i])
\* Nothing to blend and nothing masked is the plain write.
Written(rs, p, d) ==
    IF ~(rs.blend_enable /\ ~rs.blend_noop) /\ rs.color_update /\ rs.alpha_update THEN p
    ELSE Masked(rs, IF rs.blend_enable /\ ~rs.blend_noop THEN Blended(rs, p, d) ELSE p, d)

\* The mean of three colours by the weights k, to the nearest.
lerp_color(a, b, c, k) ==
    LET sum == k[1] + k[2] + k[3]
    IN  Rgba(LAMBDA i : clamp8((2 * (a[i] * k[1] + b[i] * k[2] + c[i] * k[3]) + sum) \div (2 * sum)))
\* A bound texture at the weights k.
Sampled(bind, tri, k) ==
    LET Mean(f) == f[1] * k[1] + f[2] * k[2] + f[3] * k[3]
        u == Mean(Corners(LAMBDA i : tri[i].u[bind.coord]))
        v == Mean(Corners(LAMBDA i : tri[i].v[bind.coord]))
    IN  mgs_tex_sample(bind.img, bind.tx, u, v, k[1] + k[2] + k[3])
White4 == <<255, 255, 255, 255>>
TexelOf(b, tri, k) == IF b = << >> THEN White4 ELSE Sampled(b[1], tri, k)

\* The combiner's input: eight texels at most lie in the pixel's array, and a
\* stage beyond those reads what is there.
TevInput(sp, k) ==
    [raster |-> lerp_color(sp.v[1].c, sp.v[2].c, sp.v[3].c, k),
     hasTexture |-> sp.tex # << >>,
     texture |-> TexelOf(sp.tex, sp.v, k),
     stageTex |-> IF sp.stages = << >> THEN << >>
                  ELSE [s \in 1 .. sp.tev.stages |->
                           IF s \in DOMAIN sp.stages THEN TexelOf(sp.stages[s], sp.v, k) ELSE Junk]]

\* What the pixel at (px, py) becomes: [p, lost], p the pixel, and why it
\* was not drawn: "outside", "depth", "alpha" or "no".
Filled(rs, sp, was, px, py) ==
    LET cx == 2 * px + 1
        cy == 2 * py + 1
        sign == IF sp.area > 0 THEN 1 ELSE -1
        e0 == sign * edge(sp.s[2], sp.s[3], cx, cy)
        e1 == sign * edge(sp.s[3], sp.s[1], cx, cy)
        e == <<e0, e1, Abs(sp.area) - e0 - e1>>
    IN  IF \E i \in Corner : e[i] < 0 THEN [p |-> was, lost |-> "outside"]
        ELSE LET z == Reduced(e[1] * sp.s[1].z + e[2] * sp.s[2].z + e[3] * sp.s[3].z, Abs(sp.area))
                 k == Ratio(Corners(LAMBDA i : e[i] * sp.iw[i]))
             IN  IF ~depth_passes(rs, z, was.z) THEN [p |-> was, lost |-> "depth"]
                 ELSE LET in == TevInput(sp, k)
                          c == mgs_tev_run_compiled(sp.tev, in)
                      IN  IF ~sp.alphaAlways /\ ~mgs_tev_alpha_test(bp, c)
                          THEN [p |-> was, lost |-> "alpha"]
                          ELSE [p |-> [c |-> Written(rs, c, was.c),
                                       z |-> IF rs.depth_update THEN z ELSE was.z],
                                lost |-> "no"]

NoTally == [covered |-> 0, depth_failed |-> 0, alpha_killed |-> 0, pixels |-> 0]
TallyAdd(s, t) == [f \in DOMAIN s |-> s[f] + t[f]]
\* Counted from the pairs of a pixel and why it was not drawn.
TallyOf(lost) ==
    LET Count(S) == Cardinality({q \in lost : q[2] \in S})
    IN  [covered |-> Count({"no", "alpha", "depth"}), depth_failed |-> Count({"depth"}),
         alpha_killed |-> Count({"alpha"}), pixels |-> Count({"no"})]
\* Row py of the span.
FilledRow(rs, sp, row, py) ==
    [x \in Columns |-> IF x \in sp.box.x0 .. sp.box.x1 - 1 THEN Filled(rs, sp, row[x], x, py)
                       ELSE [p |-> row[x], lost |-> "outside"]]

\* ----- the combiner block the GPU reads

tev_block_build(t) ==
    [reg |-> t.reg, swap |-> t.swap, swapSet |-> t.swapSet,
     stages |-> t.stages, configured |-> t.configured,
     env |-> [s \in 0 .. 15 |-> IF s < t.stages THEN <<t.ce[s], t.ae[s]>> ELSE <<0, 0>>],
     konst |-> [s \in 0 .. 15 |-> IF s < t.stages THEN Append(t.kc[s], t.ka[s]) ELSE <<0, 0, 0, 0>>],
     atest |-> IF mgs_tev_alpha_test_always(bp) THEN 0 ELSE mgs_bp_get(bp, ALPHA_COMPARE)]
NotBuilt == [rev |-> -1, of |-> << >>]
\* The block is built again when the registers have been written since; the
\* combiner it is built from was compiled by this triangle in that case only.
Block(sp) ==
    IF block.rev = bp.rev THEN block
    ELSE [rev |-> bp.rev, of |-> IF r.tev_rev # bp.rev THEN <<tev_block_build(sp.tev)>> ELSE <<"unset">>]

\* ----- bands

\* One band a worker and one for the caller, unless the environment says fewer.
mgs_raster_set_jobs(pool) ==
    IF ~pool THEN 1
    ELSE IF MaxBands = 0 \/ MaxBands > Workers + 1 THEN Workers + 1 ELSE MaxBands
BandCount(rs, rows) ==
    LET n == SetMin({rs.max_bands, 64, rows \div BandMinRows})
    IN  IF ~rs.jobs \/ n < 2 THEN 1 ELSE n
Bands(rs, box) ==
    LET rows == box.y1 - box.y0
        n == BandCount(rs, rows)
    IN  [i \in 1 .. n |-> [y |-> box.y0 + (rows * (i - 1)) \div n,
                           y1 |-> box.y0 + (rows * i) \div n, by |-> "none", t |-> NoTally]]
Over(b) == b.by # "none" /\ b.by # "queue" /\ b.y >= b.y1
Busy == {i \in DOMAIN bands : bands[i].by \in {"worker", "caller"} /\ bands[i].y < bands[i].y1}
CallerFree == \A i \in Busy : bands[i].by # "caller"
Unsubmitted == {i \in DOMAIN bands : i > 1 /\ bands[i].by = "none"}

\* ----- the parser

Command(op) == at = "idle" /\ script # << >> /\ Head(script).op = op /\ script' = Tail(script)

Register ==
    /\ Command("bp")
    /\ bp' = mgs_bp_write(bp, Head(script).reg, Head(script).value)
    /\ UNCHANGED <<mem, scene, raster, quit, ideal, copies>>
Transform ==
    /\ Command("xf")
    /\ scene' = Head(script).scene
    /\ UNCHANGED <<mem, bp, raster, quit, ideal, copies>>

\* A copy to a texture or to the external framebuffer; one that clears clears
\* the whole buffer and its depths.
Cleared(cp) == [y \in Lines |-> [x \in Columns |-> [c |-> cp.argb, z |-> <<FarDepth, 1>>]]]
ColoursOf(f) == [y \in DOMAIN f |-> [x \in DOMAIN f[y] |-> f[y][x].c]]
SpanOf(cp, kind) ==
    cp.dest .. (cp.dest + (IF kind = "tex" THEN Span(cp) ELSE cp.h * cp.stride) - 1)
\* What a texel is after its format has been through memory.
Kept(f, c) ==
    LET Top(v, n) == expand(v \div 2^(8 - n), n)
    IN  CASE f = 1  -> Grey(Luminance(c), Luminance(c))
          [] f = 3  -> Grey(Luminance(c), c[4])
          [] f = 4  -> <<Top(c[1], 5), Top(c[2], 6), Top(c[3], 5), 255>>
          [] f = 5  -> IF c[4] >= 224 THEN <<Top(c[1], 5), Top(c[2], 5), Top(c[3], 5), 255>>
                       ELSE <<Top(c[1], 4), Top(c[2], 4), Top(c[3], 4), Top(c[4], 3)>>
          [] f = 6  -> c
          [] f = 8  -> Grey(c[1], c[1])
          [] f = 9  -> Grey(c[2], c[2])
          [] f = 10 -> Grey(c[3], c[3])
          [] f = 11 -> Grey(c[2], c[1])
          [] f = 12 -> Grey(c[3], c[2])
\* The format a game samples such a copy in.
SampledAs(f) == CASE f \in {8, 9, 10} -> 1 [] f \in {11, 12} -> 3 [] OTHER -> f
PictureOf(cp, kind) ==
    [y \in 0 .. cp.h - 1 |-> [x \in 0 .. cp.w - 1 |->
        IF kind = "tex" THEN Kept(cp.fmt, fb[cp.y + y][cp.x + x].c) ELSE fb[y][x].c]]

Copy(kind) ==
    /\ Command(kind)
    /\ LET cp == Head(script).cp
       IN  /\ mem' = IF kind = "tex" THEN mgs_efb_copy_tex(mem, ColoursOf(fb), cp)
                     ELSE mgs_efb_copy(mem, ColoursOf(fb), cp)
           /\ fb' = IF cp.clear THEN Cleared(cp) ELSE fb
           /\ ideal' = [ideal EXCEPT !.fb = IF cp.clear THEN Cleared(cp) ELSE @]
           /\ copies' = {IF c.bytes \intersect SpanOf(cp, kind) = {} THEN c ELSE [c EXCEPT !.kind = "over"]
                            : c \in copies}
                        \union {[cp |-> cp, kind |-> kind, bytes |-> SpanOf(cp, kind), img |-> PictureOf(cp, kind)]}
    /\ UNCHANGED <<bp, scene, r, todo, span, bands, at, tally, block, sent, quit>>

\* ----- a triangle by its definition: at each pixel, where the ray through
\* ----- it meets the triangle, in front of both planes

Dot(a, f) == a[1] * f[1] + a[2] * f[2] + a[3] * f[3]
Cross(a, d) == <<a[2] * d[3] - a[3] * d[2], a[3] * d[1] - a[1] * d[3], a[1] * d[2] - a[2] * d[1]>>
\* The weights of the corners at a pixel, not all of one sign if it is outside.
RayWeights(c, vp, px, py) ==
    LET b == Cross(Corners(LAMBDA i : c[i].x * vp[1] + c[i].w * (vp[4] - 684 - (2 * px + 1))),
                   Corners(LAMBDA i : c[i].y * vp[2] + c[i].w * (vp[5] - 684 - (2 * py + 1))))
    IN  IF \A i \in Corner : b[i] <= 0 THEN Corners(LAMBDA i : -b[i]) ELSE b
Facing(c) == Dot(Cross(Corners(LAMBDA i : c[i].x), Corners(LAMBDA i : c[i].y)), Corners(LAMBDA i : c[i].w))
FacesAway(c, vp) == IF vp[2] > 0 THEN Facing(c) > 0 ELSE Facing(c) <= 0

IdealImage(m) ==
    LET made == {c \in copies : c.kind = "tex" /\ c.cp.dest = Textures[m].addr}
    IN  IF made = {} THEN Textures[m].img ELSE (CHOOSE c \in made : TRUE).img
IdealTexel(s, tri, b) ==
    IF ~Binds(s) THEN White4
    ELSE Sampled([tx |-> Textures[stage_texture(s).map], coord |-> stage_texture(s).coord,
                  img |-> IdealImage(stage_texture(s).map)], tri, b)
IdealColour(tri, b) ==
    LET t == mgs_tev_compile(bp)
        in == [raster |-> lerp_color(tri[1].c, tri[2].c, tri[3].c, b), hasTexture |-> Binds(0),
               texture |-> IdealTexel(0, tri, b),
               stageTex |-> [s \in 1 .. stage_count(bp) |-> IdealTexel(s - 1, tri, b)]]
    IN  mgs_tev_run_compiled(t, in)
IdealWritten(rs, p, d) == Masked(rs, IF rs.blend_enable THEN Blended(rs, p, d) ELSE p, d)

IdealPixel(rs, tri, was, px, py) ==
    LET c == Corners(LAMBDA i : Clip(scene, tri[i]))
        vp == Viewport(scene)
        b0 == RayWeights(c, vp, px, py)
        w == Dot(b0, Corners(LAMBDA i : c[i].w))
        z == Dot(b0, Corners(LAMBDA i : c[i].z))
        sc == Scissor
    IN  IF \/ \E i \in Corner : b0[i] < 0
           \/ \A i \in Corner : b0[i] = 0
           \/ z + w < 0 \/ w < NearW * (b0[1] + b0[2] + b0[3])
           \/ px \notin sc.x0 .. sc.x1 - 1 \/ py \notin sc.y0 .. sc.y1 - 1
           \/ CullsSide(scene, FacesAway(c, vp))
        THEN [p |-> was, lost |-> "outside"]
        ELSE LET depth == Reduced(vp[6] * w + vp[3] * z, w)
             IN  IF ~depth_passes(rs, depth, was.z) THEN [p |-> was, lost |-> "depth"]
                 ELSE LET shade == IdealColour(tri, Ratio(b0))
                      IN  IF ~mgs_tev_alpha_test(bp, shade) THEN [p |-> was, lost |-> "alpha"]
                          ELSE [p |-> [c |-> IdealWritten(rs, shade, was.c),
                                       z |-> IF rs.depth_update THEN depth ELSE was.z],
                                lost |-> "no"]
IdealTriangle(rs, tri) ==
    LET Pixel(x, y) == IdealPixel(rs, tri, ideal.fb[y][x], x, y)
    IN  [fb |-> [y \in Lines |-> [x \in Columns |-> Pixel(x, y).p]],
         tally |-> TallyAdd(ideal.tally, TallyOf({<<<<x, y>>, Pixel(x, y).lost>> : x \in Columns, y \in Lines}))]

\* ----- a triangle as the code draws it

\* Registers are read and the triangle is cut.  Once the host is quitting
\* nothing is drawn.
Triangle ==
    /\ Command("tri")
    /\ LET rs == ReadBlend(ReadZmode(r))
       IN  /\ r' = rs
           /\ IF quit THEN UNCHANGED <<todo, at, ideal>>
              ELSE /\ todo' = Pieces(scene, Head(script).v)
                   /\ at' = "piece"
                   /\ ideal' = IF r.gpu THEN ideal ELSE IdealTriangle(rs, Head(script).v)
    /\ UNCHANGED <<mem, bp, scene, fb, span, bands, tally, block, sent, quit, copies>>

\* The next piece is set up: nothing of it is left, or it goes to the GPU, or
\* it is divided into bands.
Piece ==
    /\ at = "piece" /\ todo # << >>
    /\ \E sp \in {Setup(scene, Head(todo))} :
          IF quit \/ ~sp.ok
          THEN todo' = Tail(todo) /\ UNCHANGED <<r, span, bands, at, block, sent>>
          ELSE /\ r' = [r EXCEPT !.tev_rev = bp.rev]
               /\ IF r.gpu
                  THEN /\ block' = Block(sp)
                       /\ sent' = <<Block(sp).of[1]>>
                       /\ todo' = Tail(todo)
                       /\ UNCHANGED <<span, bands, at>>
                  ELSE /\ span' = sp
                       /\ bands' = Bands(r, sp.box)
                       /\ at' = "fill"
                       /\ UNCHANGED <<todo, block, sent>>
    /\ UNCHANGED <<script, mem, bp, scene, fb, tally, quit, ideal, copies>>
Returned ==
    /\ at = "piece" /\ todo = << >>
    /\ at' = "idle"
    /\ UNCHANGED <<script, mem, bp, scene, r, fb, todo, span, bands, tally, block, sent, quit, ideal, copies>>

\* Bands other than the first are submitted in turn; one the pool refuses is
\* filled by the caller before the next.
Submit(i, who) ==
    /\ at = "fill" /\ CallerFree
    /\ i \in Unsubmitted /\ \A j \in Unsubmitted : i <= j
    /\ bands' = [bands EXCEPT ![i].by = who]
    /\ UNCHANGED <<script, mem, bp, scene, r, fb, todo, span, at, tally, block, sent, quit, ideal, copies>>
\* The caller fills the first itself.
Own ==
    /\ at = "fill" /\ CallerFree /\ Unsubmitted = {} /\ bands[1].by = "none"
    /\ bands' = [bands EXCEPT ![1].by = "caller"]
    /\ UNCHANGED <<script, mem, bp, scene, r, fb, todo, span, at, tally, block, sent, quit, ideal, copies>>
\* raster_band_job on a worker.
Take(i) ==
    /\ i \in DOMAIN bands /\ bands[i].by = "queue"
    /\ Cardinality({j \in Busy : bands[j].by = "worker"}) < Workers
    /\ bands' = [bands EXCEPT ![i].by = "worker"]
    /\ UNCHANGED <<script, mem, bp, scene, r, fb, todo, span, at, tally, block, sent, quit, ideal, copies>>
\* One row of a band: the band is over at once when the host is quitting.
Row(i) ==
    /\ i \in Busy
    /\ \E row \in {FilledRow(r, span, fb[bands[i].y], bands[i].y)} :
          IF quit THEN bands' = [bands EXCEPT ![i].y = bands[i].y1] /\ UNCHANGED fb
          ELSE /\ fb' = [fb EXCEPT ![bands[i].y] = [x \in Columns |-> row[x].p]]
               /\ bands' = [bands EXCEPT ![i].y = @ + 1, ![i].t = TallyAdd(@, TallyOf({<<x, row[x].lost>> : x \in Columns}))]
    /\ UNCHANGED <<script, mem, bp, scene, r, todo, span, at, tally, block, sent, quit, ideal, copies>>
Waited == \A i \in DOMAIN bands : Over(bands[i])
Join ==
    /\ at = "fill" /\ CallerFree /\ Unsubmitted = {} /\ bands[1].by # "none" /\ Waited
    /\ tally' = [f \in DOMAIN tally |-> tally[f] + MapThenSumSet(LAMBDA i : bands[i].t[f], DOMAIN bands)]
    /\ bands' = << >>
    /\ span' = NoSpan
    /\ todo' = Tail(todo)
    /\ at' = "piece"
    /\ UNCHANGED <<script, mem, bp, scene, r, fb, block, sent, quit, ideal, copies>>

\* The host is asked to stop.
Quit ==
    /\ ~quit
    /\ quit' = TRUE
    /\ UNCHANGED <<script, mem, bp, scene, raster, ideal, copies>>

RasterInit(jobs, gpu) ==
    [depth_test |-> TRUE, depth_func |-> 3, depth_update |-> TRUE, color_update |-> TRUE,
     alpha_update |-> TRUE, blend_enable |-> FALSE, blend_src |-> 0, blend_dst |-> 0,
     blend_sub |-> FALSE, blend_noop |-> FALSE, jobs |-> jobs, gpu |-> gpu,
     max_bands |-> mgs_raster_set_jobs(jobs), tev_rev |-> -1]
Black == [y \in Lines |-> [x \in Columns |-> [c |-> <<0, 0, 0, 0>>, z |-> <<FarDepth, 1>>]]]
NoScene == [projection |-> <<0, 0, 0, 0, 0, 0>>, ortho |-> FALSE, viewport |-> <<0, 0, 0, 0, 0, 0>>]
Init ==
    /\ script \in Scripts
    /\ mem = Mem0
    /\ bp = mgs_bp_init
    /\ scene = NoScene
    /\ \E jobs \in (IF Workers > 0 THEN BOOLEAN ELSE {FALSE}), gpu \in BOOLEAN :
           /\ gpu => ~jobs     \* with a GPU no pixel is filled here
           /\ r = RasterInit(jobs, gpu)
    /\ fb = Black
    /\ todo = << >> /\ span = NoSpan /\ bands = << >> /\ at = "idle"
    /\ quit = FALSE
    /\ tally = NoTally
    /\ block = NotBuilt
    /\ sent = << >>
    /\ ideal = [fb |-> Black, tally |-> NoTally]
    /\ copies = {}

Parse == Register \/ Transform \/ Copy("tex") \/ Copy("xfb") \/ Triangle
Draw == Piece \/ Returned \/ Own \/ Join \/ \E i \in DOMAIN bands : Submit(i, "queue") \/ Submit(i, "caller")
Next == Parse \/ Draw \/ Quit \/ \E i \in DOMAIN bands : Take(i) \/ Row(i)

Spec == Init /\ [][Next]_vars

-----------------------------------------------------------------------------
\* Between triangles the buffer, its depths and the pixel counts are what
\* drawing each triangle whole would have left: cut at the near plane it loses
\* nothing in front, and bands filled by several threads draw every row of it
\* once and before the next triangle (raster.c:1170, raster.c:748).  The combiner the
\* GPU was given is that of the registers as they stood (raster.c:2207).
PictureExact ==
    /\ at = "idle" /\ ~quit /\ ~r.gpu => fb = ideal.fb /\ tally = ideal.tally
    /\ at = "piece" /\ sent # << >> /\ block.rev = bp.rev =>
           sent[1] = tev_block_build(mgs_tev_compile(bp))

\* A copy decodes to what was in the buffer, however many triangles and copies
\* came after: to a texture as far as its format keeps a colour; to the
\* external framebuffer, where two neighbours agree, with no channel off by
\* more than three.  And no copy writes beside the bytes it claims (efb.c:55,
\* efb.c:437, texture.c:128).
TextureOf(cp) ==
    [addr |-> cp.dest, fmt |-> SampledAs(cp.fmt), w |-> cp.w, h |-> cp.h,
     tlut |-> << >>, tlutFormat |-> 0]
ShownAsDrawn(c) ==
    LET shown == mgs_xfb_to_rgb(mem, c.cp)
    IN  /\ DOMAIN shown = 0 .. c.cp.h - 1
        /\ \A y \in DOMAIN shown : \A k \in 0 .. (c.cp.w \div 2) - 1 :
               c.img[y][2 * k] = c.img[y][2 * k + 1] =>
                   \A x \in {2 * k, 2 * k + 1}, i \in 1 .. 3 : Abs(shown[y][x][i] - c.img[y][x][i]) <= 3
CopiesDecode ==
    /\ \A c \in copies :
           /\ c.kind = "tex" => mgs_tex_decode(mem, TextureOf(c.cp)) = c.img
           /\ c.kind = "xfb" => ShownAsDrawn(c)
    /\ copies # {} => \A a \in DOMAIN mem : mem[a] # Mem0[a] => \E c \in copies : a \in c.bytes
=============================================================================
