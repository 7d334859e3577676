--------------------------------- MODULE Tev ---------------------------------
(***************************************************************************)
(* The registers of the blitting processor (gx/bp.c) and the texture       *)
(* environment read from them (gx/tev.c): up to sixteen stages, each       *)
(* combining the results of earlier ones, the texel and the vertex colour. *)
(* The four TEV registers are prev, c0, c1 and c2, numbered from one.      *)
(***************************************************************************)
EXTENDS Texels

\* ----- the register file: bp.reg is defined where the game has written

GEN_MODE      == 0
SCISSOR_TL    == 32
SCISSOR_BR    == 33
TEV_ORDER     == 40
ZMODE         == 64
BLEND_MODE    == 65
SCISSOR_OFFSET == 89
COLOR_ENV     == 192
ALPHA_ENV     == 193
TEV_REGISTER  == 224
ALPHA_COMPARE == 243
KSEL          == 246

mgs_bp_init == [reg |-> << >>, rev |-> 0,
                tevreg |-> Rgba(LAMBDA i : <<0, 0, 0, 0>>), konst |-> Rgba(LAMBDA i : <<0, 0, 0, 0>>)]
mgs_bp_is_set(bp, r) == r \in DOMAIN bp.reg
mgs_bp_get(bp, r) == IF mgs_bp_is_set(bp, r) THEN bp.reg[r] ELSE 0

tev_field(v) == IF v % 2^11 >= 2^10 THEN (v % 2^11) - 2^11 ELSE v % 2^11
\* 224 to 231 hold a colour or a konst, by bit 23: red and alpha in the even
\* register of a pair, blue and green in the odd one.
Routed(four, r, v) ==
    LET lo == tev_field(v)
        hi == tev_field(v \div 2^12)
    IN  [four EXCEPT ![((r - TEV_REGISTER) \div 2) + 1] =
            IF r % 2 = 1 THEN <<@[1], hi, lo, @[4]>> ELSE <<lo, @[2], @[3], hi>>]
mgs_bp_write(bp, r, v) ==
    [bp EXCEPT !.reg = [q \in DOMAIN @ \union {r} |-> IF q = r THEN v ELSE @[q]],
               !.rev = @ + 1,
               !.tevreg = IF r \in 224 .. 231 /\ v < 2^23 THEN Routed(@, r, v) ELSE @,
               !.konst = IF r \in 224 .. 231 /\ v >= 2^23 THEN Routed(@, r, v) ELSE @]

\* ----- what the registers say, decoded once a triangle

stage_count(bp) == Bits(mgs_bp_get(bp, GEN_MODE), 10, 4) + 1

Fraction == <<255, 223, 191, 159, 128, 96, 64, 32>>
\* Selectors 16 to 31: one channel of one konst register.
konst_channel(bp, sel) == bp.konst[((sel - 16) % 4) + 1][((sel - 16) \div 4) + 1]
konst_color(bp, sel) ==
    CASE sel < 8            -> <<Fraction[sel + 1], Fraction[sel + 1], Fraction[sel + 1]>>
      [] sel \in 8 .. 11    -> <<0, 0, 0>>
      [] sel \in 12 .. 15   -> SubSeq(bp.konst[sel - 11], 1, 3)
      [] OTHER              -> <<konst_channel(bp, sel), konst_channel(bp, sel), konst_channel(bp, sel)>>
konst_alpha(bp, sel) ==
    CASE sel < 8 -> Fraction[sel + 1] [] sel \in 8 .. 15 -> 0 [] OTHER -> konst_channel(bp, sel)

\* Swap table i, from two KSEL registers; the identity until one is written.
SwapSet(bp) == \E i \in 0 .. 7 : mgs_bp_is_set(bp, KSEL + i)
SwapTable(bp, i) ==
    LET ra == mgs_bp_get(bp, KSEL + 2 * i)
        ba == mgs_bp_get(bp, KSEL + 2 * i + 1)
    IN  IF SwapSet(bp) THEN <<Bits(ra, 0, 2), Bits(ra, 2, 2), Bits(ba, 0, 2), Bits(ba, 2, 2)>>
        ELSE <<0, 1, 2, 3>>

\* Stage s's part of the KSEL register two stages share.
KonstSelect(bp, s, even, odd) == Bits(mgs_bp_get(bp, KSEL + s \div 2), IF s % 2 = 1 THEN odd ELSE even, 5)
mgs_tev_compile(bp) ==
    [stages     |-> stage_count(bp),
     configured |-> mgs_bp_is_set(bp, GEN_MODE),
     reg        |-> bp.tevreg,
     ce         |-> [s \in 0 .. stage_count(bp) - 1 |-> mgs_bp_get(bp, COLOR_ENV + 2 * s)],
     ae         |-> [s \in 0 .. stage_count(bp) - 1 |-> mgs_bp_get(bp, ALPHA_ENV + 2 * s)],
     kc         |-> [s \in 0 .. stage_count(bp) - 1 |-> konst_color(bp, KonstSelect(bp, s, 4, 14))],
     ka         |-> [s \in 0 .. stage_count(bp) - 1 |-> konst_alpha(bp, KonstSelect(bp, s, 9, 19))],
     swapSet    |-> SwapSet(bp),
     swap       |-> [i \in 0 .. 3 |-> SwapTable(bp, i)]]

\* ----- a stage

swap_argb(c, t) == Rgba(LAMBDA i : c[t[i] + 1])

\* The inputs of the colour half; `reg` holds what earlier stages left.
color_input(sel, reg, in, konst) ==
    CASE sel \in {0, 2, 4, 6} -> reg[(sel \div 2) + 1]
      [] sel \in {1, 3, 5, 7} -> Rgba(LAMBDA i : reg[(sel \div 2) + 1][4])
      [] sel = 8  -> in.texture
      [] sel = 9  -> Rgba(LAMBDA i : in.texture[4])
      [] sel = 10 -> in.raster
      [] sel = 11 -> Rgba(LAMBDA i : in.raster[4])
      [] sel = 12 -> <<255, 255, 255>>
      [] sel = 13 -> <<128, 128, 128>>
      [] sel = 14 -> konst
      [] OTHER    -> <<0, 0, 0>>
alpha_input(sel, reg, in, konst) ==
    CASE sel < 4 -> reg[sel + 1][4]
      [] sel = 4 -> in.texture[4]
      [] sel = 5 -> in.raster[4]
      [] sel = 6 -> konst
      [] OTHER   -> 0

\* d plus or minus the mix of a and b by c; 255 counts as a whole one.
\* env holds the operation, bias, scale and clamp at the same bits for both.
combine(a, b, c, d, env) ==
    LET cc == c + c \div 2^7
        v0 == Quotient(d * 256 + a * (256 - cc) + b * cc, 256)
        v1 == IF Bits(env, 18, 1) = 1 THEN d - (v0 - d) ELSE v0
        v2 == v1 + (CASE Bits(env, 16, 2) = 1 -> 128 [] Bits(env, 16, 2) = 2 -> -128 [] OTHER -> 0)
        v3 == CASE Bits(env, 20, 2) = 1 -> 2 * v2
                [] Bits(env, 20, 2) = 2 -> 4 * v2
                [] Bits(env, 20, 2) = 3 -> Quotient(v2, 2)
                [] OTHER -> v2
    IN  IF Bits(env, 19, 1) = 1 THEN clamp8(v3) ELSE v3

\* One stage: in is [texture, raster] after the swap tables.
RunStage(reg, ce, ae, in, kc, ka) ==
    LET A == color_input(Bits(ce, 12, 4), reg, in, kc)
        B == color_input(Bits(ce, 8, 4), reg, in, kc)
        C == color_input(Bits(ce, 4, 4), reg, in, kc)
        D == color_input(Bits(ce, 0, 4), reg, in, kc)
        alpha == combine(alpha_input(Bits(ae, 13, 3), reg, in, ka), alpha_input(Bits(ae, 10, 3), reg, in, ka),
                         alpha_input(Bits(ae, 7, 3), reg, in, ka), alpha_input(Bits(ae, 4, 3), reg, in, ka), ae)
        dstC == Bits(ce, 22, 2)
        dstA == Bits(ae, 22, 2)
    IN  Rgba(LAMBDA n : Rgba(LAMBDA i :
            IF i < 4 THEN IF n = dstC + 1 THEN combine(A[i], B[i], C[i], D[i], ce) ELSE reg[n][i]
            ELSE IF n = dstA + 1 THEN alpha ELSE reg[n][4]))

\* in = [raster, texture, hasTexture, stageTex]: stageTex is << >> when every
\* stage takes `texture`, and one texel a stage otherwise.
mgs_tev_run_compiled(t, in) ==
    IF ~t.configured
    THEN IF ~in.hasTexture THEN in.raster
         ELSE Rgba(LAMBDA i : clamp8((in.texture[i] * in.raster[i]) \div 255))
    ELSE LET Stage(reg, s) ==
                 LET sampled == IF in.stageTex = << >> THEN in.texture ELSE in.stageTex[s + 1]
                     ts == t.swap[Bits(t.ae[s], 2, 2)]
                     rs == t.swap[Bits(t.ae[s], 0, 2)]
                     into == [texture |-> swap_argb(sampled, ts), raster |-> swap_argb(in.raster, rs)]
                 IN  RunStage(reg, t.ce[s], t.ae[s], into, t.kc[s], t.ka[s])
             After[n \in 0 .. t.stages] ==
                 IF n = 0 THEN t.reg ELSE LET reg == After[n - 1] IN Stage(reg, n - 1)
             prev == After[t.stages][1]
         IN  Rgba(LAMBDA i : clamp8(prev[i]))

\* ----- the alpha test

AlphaPasses(op, a, ref) ==
    CASE op = 0 -> FALSE [] op = 1 -> a < ref  [] op = 2 -> a = ref [] op = 3 -> a <= ref
      [] op = 4 -> a > ref [] op = 5 -> a # ref [] op = 6 -> a >= ref [] OTHER -> TRUE
mgs_tev_alpha_test(bp, c) ==
    LET w == mgs_bp_get(bp, ALPHA_COMPARE)
        p == AlphaPasses(Bits(w, 16, 3), c[4], Bits(w, 0, 8))
        q == AlphaPasses(Bits(w, 19, 3), c[4], Bits(w, 8, 8))
        logic == Bits(w, 22, 2)
    IN  \/ ~mgs_bp_is_set(bp, ALPHA_COMPARE)
        \/ CASE logic = 0 -> p /\ q [] logic = 1 -> p \/ q [] logic = 2 -> p # q [] OTHER -> p = q

mgs_tev_alpha_test_always(bp) ==
    LET w == mgs_bp_get(bp, ALPHA_COMPARE)
    IN  ~mgs_bp_is_set(bp, ALPHA_COMPARE)
        \/ (Bits(w, 16, 3) = 7 /\ Bits(w, 19, 3) = 7 /\ Bits(w, 22, 2) = 0)
=============================================================================
