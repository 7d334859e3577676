----------------------------- MODULE Renderer -----------------------------
(***************************************************************************)
(* From the parser's triangles and copy commands to pictures: a triangle   *)
(* binds its textures and is painted by the host or gathered into a GPU    *)
(* batch (gx/raster.c), a copy brings the GPU's work back and hands a      *)
(* rectangle of the embedded framebuffer on, as a texture or as a frame    *)
(* (run_copy of host/display.c, gx/efb.c).  The game writes its textures   *)
(* while the parser runs.                                                  *)
(*                                                                         *)
(* The buffer is its rows, one colour a row.  The ghosts say what a        *)
(* renderer that drew every triangle at once could have shown:             *)
(*   held    for an address, what it held since the last copy: a texture   *)
(*           is looked up afresh only after a copy (gx/texture.h:116)      *)
(*   made    for an address a texture copy wrote, the colours it may have  *)
(*           put there; {} for the others                                  *)
(*   ideal   for a row of the buffer, the colours it may show              *)
(***************************************************************************)
EXTENDS GpuBatch

CONSTANTS Addrs,       \* addresses a texture or a palette may lie at
          Contents,    \* Contents[a]: what may lie at address a
          Loadable,    \* the addresses the game writes itself
          Draws,       \* the textures of a triangle's stages, as sequences
          Areas,       \* the rows it covers and its draw state, [rows, st]:
                       \* "paint", or "masked" that writes nothing
          Boxes,       \* a copy's source box and clear bit, [y, h, clear]
          CopyDests,   \* addresses of texture copies
          CopyFmt,     \* CopyFmt[a]: the format a copy to a is made in
          XfbDests,    \* addresses of framebuffer copies
          Zeroes,      \* texels of a buffer nothing was decoded into
          Yuv,         \* marks bytes a framebuffer copy wrote
          MaxSteps     \* bound: writes, triangles and copies together

\* The texels of a buffer that was freed: no texture's.
Garbage == << >>

\* The cache has room for the memo and all the textures of a triangle but one:
\* 256 entries, a memo of 8 and triangles of at most 8.
ASSUME RendererAssumption ==
    \A ids \in Draws : ids \in Seq(ToSet(ids)) /\ Len(ids) \in 1 .. Slots + 1 - MemoSlots

VARIABLES mem,      \* guest memory, by address
          tex,      \* the texture cache and its tables
          gpu,      \* the GPU renderer
          efb,      \* s_efb.pixels, by row
          onGpu,    \* mgs_gpu_ready(): whether this run has a GPU
          torn,     \* a frame was handed on with a row it should not show
          held, made, ideal,
          steps

rendererVars == <<mem, tex, gpu, efb, onGpu, torn, held, made, ideal, steps>>

FirstContent(a) == CHOOSE c \in Contents[a] : TRUE
RendererInit ==
    /\ mem = [a \in Addrs |-> FirstContent(a)]
    /\ tex = CacheInit
    /\ gpu = GpuInit
    /\ efb = [r \in Rows |-> <<Clear>>]
    /\ onGpu \in BOOLEAN
    /\ torn = FALSE
    /\ held = [a \in Addrs |-> {FirstContent(a)}]
    /\ made = [a \in Addrs |-> {}]
    /\ ideal = [r \in Rows |-> {<<Clear>>}]
    /\ steps = 0

\* ----- the game's memory

\* The game writes texels or a palette where it pleases.  Over a copy's
\* destination that is a new texture, and the copy is gone.
Load(a, c) ==
    /\ mem[a] # c
    /\ mem' = [mem EXCEPT ![a] = c]
    /\ held' = [held EXCEPT ![a] = IF made[a] = {} THEN @ \union {c} ELSE {c}]
    /\ made' = [made EXCEPT ![a] = {}]
    /\ UNCHANGED <<tex, gpu, efb, onGpu, torn, ideal>>

\* ----- a triangle

\* The texels an identity may rightly show.
Allowed(id) ==
    IF id.fmt \in Undecodable THEN {White}
    ELSE IF made[id.addr] # {} THEN {<<id.fmt, v, NoTlut>> : v \in made[id.addr]}
    ELSE {<<id.fmt, b, p>> : b \in held[id.addr],
                             p \in IF id.tlut = NoTlut THEN {NoTlut} ELSE held[id.tlut]}
AllowedColour(ids) ==
    {c \in [DOMAIN ids -> UNION {Allowed(ids[k]) : k \in DOMAIN ids}] :
        \A k \in DOMAIN ids : c[k] \in Allowed(ids[k])}

\* Texels a waiting batch points to and that were freed are lost to it.
Dangle(g, freed) ==
    [g EXCEPT !.batch.binds = [u \in 1 .. Units |-> IF @[u].slot \in freed
                                                    THEN [@[u] EXCEPT !.texels = Garbage] ELSE @[u]]]

\* bind_texture for a list of maps, in order; a refusal leaves slot 0.
bind_texture(acc, id) ==
    LET got == mgs_tex_get(acc.tex, mem, id, Zeroes)
    IN  [tex |-> got.tx, slots |-> Append(acc.slots, got.slot), freed |-> acc.freed \union got.freed]
\* Every stage is bound when there are several, and the first again after them.
BindOrder(ids) == IF Len(ids) > 1 THEN ids \o <<ids[1]>> ELSE ids
Bound(ids) ==
    LET order == BindOrder(ids)
        after[k \in 0 .. Len(order)] ==
            IF k = 0 THEN [tex |-> tex, slots |-> << >>, freed |-> {}]
            ELSE bind_texture(after[k - 1], order[k])
    IN  after[Len(order)]

\* stage_n: the stages that sample on their own, none when only the first is bound.
StageSlots(ids, slots) ==
    IF Len(ids) > 1 /\ \E k \in 2 .. Len(ids) : slots[k] # 0
    THEN SubSeq(slots, 1, Len(ids)) ELSE <<Last(slots)>>

BindOf(tx, slot) ==
    IF slot = 0 THEN Unbound
    ELSE [key |-> tx.entry[slot].key, texels |-> tx.entry[slot].texels, slot |-> slot]

\* Stages with one texture share a unit; past the last unit they fall on the first.
WithUnit(units, s) ==
    IF s = 0 \/ s \in ToSet(units) \/ Len(units) = Units THEN units ELSE Append(units, s)
UnitSlots(stages) ==
    LET upTo[k \in 0 .. Len(stages)] == IF k = 0 THEN << >> ELSE WithUnit(upTo[k - 1], stages[k])
    IN  upTo[Len(stages)]
UnitOf(units, slot) ==
    IF slot \in ToSet(units) THEN CHOOSE u \in DOMAIN units : units[u] = slot ELSE 1

UnitBinds(tx, units) ==
    [u \in 1 .. Units |-> IF u \in DOMAIN units THEN BindOf(tx, units[u]) ELSE Unbound]

\* mgs_raster_triangle, the GPU's share of it.
GpuTriangle(g, tx, stages, rows, st) ==
    LET units == UnitSlots(stages)
    IN  mgs_gpu_batch_tri(g, rows, UnitBinds(tx, units), st,
                          [k \in DOMAIN stages |-> UnitOf(units, stages[k])])

\* The host's share: the rows are painted at once.
HostTriangle(pixels, tx, stages, rows, st) ==
    IF st # "paint" THEN pixels
    ELSE Paint(pixels, <<rows>>, [k \in DOMAIN stages |->
                                     IF stages[k] = 0 THEN White ELSE tx.entry[stages[k]].texels])

DrawTriangle(ids, rows, st) ==
    /\ \E b \in {Bound(ids)} : \E stages \in {StageSlots(ids, b.slots)} :
           /\ tex' = b.tex
           /\ IF onGpu
              THEN /\ gpu' = GpuTriangle(Dangle(gpu, b.freed), b.tex, stages, rows, st)
                   /\ UNCHANGED efb
              ELSE /\ efb' = HostTriangle(efb, b.tex, stages, rows, st)
                   /\ UNCHANGED gpu
    /\ ideal' = IF st = "paint"
                THEN [r \in Rows |-> IF r \in rows THEN AllowedColour(ids) ELSE ideal[r]] ELSE ideal
    /\ UNCHANGED <<mem, onGpu, torn, held, made>>

\* ----- copies

\* What every copy does first: the memo is dropped, and unless the copy stays
\* on the GPU the rows from the first to the box's last are brought back.
Far(box) == box.y + box.h
\* Mutant: only as many rows as the box is high.
ReadBackBoxHeight(g, box) == mgs_gpu_read_back_rect(g, efb, box.h)
ReadBack(g, box) == mgs_gpu_read_back_rect(g, efb, Far(box))
\* Mutant: the rows are downloaded with triangles still waiting.
NotFlushed == gpu
Flushed == IF onGpu THEN mgs_gpu_batch_flush(gpu) ELSE gpu
Brought(box) == IF onGpu THEN ReadBack(Flushed, box) ELSE efb

\* The host's own clear is of the whole buffer (mgs_efb_copy).
HostClear(pixels, clear) == IF clear THEN [r \in Rows |-> <<Clear>>] ELSE pixels

BoxRows(box) == {r \in Rows : box.y <= r /\ r < Far(box)}
IdealClear(rows) == [r \in Rows |-> IF r \in rows THEN {<<Clear>>} ELSE ideal[r]]

\* What addresses hold as the memo is dropped: from here on only that, and
\* for dest also what a framebuffer copy writes there.
HeldAfter(m, dest, values) ==
    [a \in Addrs |-> IF a = dest THEN values ELSE IF made[a] # {} THEN held[a] ELSE {m[a]}]

\* A copy to the framebuffer: the box's size counted from the first row, as
\* YUV at dest; the GPU's target is cleared whole.
CopyToXfb(box, dest) ==
    /\ tex' = mgs_tex_memo_reset(tex)
    /\ \E pixels \in {Brought(box)} :
           /\ mem' = [mem EXCEPT ![dest] = <<Yuv, pixels[0]>>]
           /\ efb' = HostClear(pixels, box.clear)
           /\ torn' = (torn \/ \E r \in 0 .. box.h - 1 : pixels[r] \notin ideal[r])
    /\ gpu' = IF onGpu THEN mgs_gpu_begin_frame(Flushed, box.clear) ELSE gpu
    /\ held' = HeldAfter(mem, dest, {<<Yuv, v>> : v \in ideal[0]})
    /\ ideal' = IF box.clear THEN IdealClear(Rows) ELSE ideal
    /\ UNCHANGED <<onGpu, made>>

\* mgs_efb_copy_tex: the box's texels to memory, the copy noted and kept.
HostCopyTex(tx, pixels, box, dest) ==
    mgs_tex_snapshot_efb_copy(mgs_tex_note_efb_copy(tx, dest), dest, pixels[box.y])

AfterTextureCopy(g, dest, box) ==
    /\ gpu' = IF onGpu /\ box.clear THEN mgs_gpu_clear_rect(g, BoxRows(box)) ELSE g
    /\ held' = HeldAfter(mem, dest, held[dest])
    /\ made' = [made EXCEPT ![dest] = ideal[box.y]]
    /\ ideal' = IF ~box.clear THEN ideal ELSE IdealClear(IF onGpu THEN BoxRows(box) ELSE Rows)
    /\ UNCHANGED <<onGpu, torn>>

rtt_on_gpu(dest) == onGpu /\ CopyFmt[dest] = "RGBA8"

\* A copy to a texture through the host's memory.
CopyToTexture(box, dest) ==
    /\ ~rtt_on_gpu(dest)
    /\ \E pixels \in {Brought(box)} :
           /\ tex' = HostCopyTex(mgs_tex_memo_reset(tex), pixels, box, dest)
           /\ mem' = [mem EXCEPT ![dest] = pixels[box.y]]
           /\ efb' = HostClear(pixels, box.clear)
    /\ AfterTextureCopy(Flushed, dest, box)

\* A copy that stays on the GPU ...
CopyOnGpu(box, dest) ==
    /\ rtt_on_gpu(dest)
    /\ LET noted == mgs_tex_note_efb_copy(mgs_tex_memo_reset(tex), dest)
           key   == mgs_tex_efb_key(dest, efb_serial(noted, dest), CopyFmt[dest], NoTlut)
       IN  /\ efb_serial(noted, dest) # 0
           /\ tex' = mgs_tex_mark_gpu_copy(noted, dest, CopyFmt[dest])
           /\ AfterTextureCopy(mgs_gpu_copy_to_texture(gpu, box.y, key, CopyFmt[dest]), dest, box)
    /\ efb' = HostClear(efb, box.clear)
    /\ UNCHANGED mem

\* ... and one the device refused: the rows are fetched after all.
CopyFallsBack(box, dest) ==
    /\ rtt_on_gpu(dest)
    /\ \E pixels \in {Brought(box)} :
           /\ tex' = HostCopyTex(mgs_tex_note_efb_copy(mgs_tex_memo_reset(tex), dest), pixels, box, dest)
           /\ mem' = [mem EXCEPT ![dest] = pixels[box.y]]
           /\ efb' = HostClear(pixels, box.clear)
    /\ AfterTextureCopy(Flushed, dest, box)

Copy(box) ==
    \/ \E dest \in XfbDests : CopyToXfb(box, dest)
    \/ \E dest \in CopyDests :
           \/ CopyToTexture(box, dest)
           \/ CopyOnGpu(box, dest)
           \/ CopyFallsBack(box, dest)

RendererNext ==
    /\ steps < MaxSteps
    /\ steps' = steps + 1
    /\ \/ \E a \in Loadable : \E c \in Contents[a] : Load(a, c)
       \/ \E ids \in Draws, area \in Areas : DrawTriangle(ids, area.rows, area.st)
       \/ \E box \in Boxes : Copy(box)

RendererSpec == RendererInit /\ [][RendererNext]_rendererVars

-----------------------------------------------------------------------------
\* The buffer as it will be once the waiting triangles are drawn.
Picture == IF onGpu THEN mgs_gpu_batch_flush(gpu).target ELSE efb

\* Every row shows what a renderer that drew at once could show: no triangle
\* out of order, in another's state or combiner, with a freed or an older
\* texture than the last copy allows, or with another copy's texels.  Binding a
\* triangle may free what the batch still waiting points to (texture.c:749), and
\* that batch is flushed next (gpu.c:1001).  What was bound before the batch began
\* is on the GPU already; what it bound first is in the memo still, and not looked
\* at afresh, while the two triangles together have at most MemoSlots + 1
\* textures: four and four, with a memo of eight, as counted at gpu.h:76.
DrawnAsBound == \A r \in Rows : Picture[r] \in ideal[r]

\* A frame handed on is the picture of every triangle before it.
FrameComplete == ~torn

\* Once the last texture of a triangle is bound, the slots bound for the others
\* are theirs still.
BoundTogether(ids) ==
    \E b \in {Bound(ids)} : \A k \in DOMAIN ids :
        b.slots[k] # 0 => b.tex.entry[b.slots[k]].valid /\ b.tex.entry[b.slots[k]].id = ids[k]

\* The memo answers with entries that still hold what was asked for, each
\* texture once, and the order of use names the slots in use: no entry makes
\* room while the memo leads to it (texture.c:497, 627).  And whatever triangle
\* is drawn next, none of its textures makes room for another of them.
MemoSafe ==
    /\ \A m \in ToSet(tex.memo) : tex.entry[m.slot].valid /\ tex.entry[m.slot].id = m.id
    /\ \A i, j \in DOMAIN tex.memo : tex.memo[i].id = tex.memo[j].id => i = j
    /\ ToSet(tex.lru) = {s \in 1 .. Slots : tex.entry[s].valid}
    /\ steps < MaxSteps => \A ids \in Draws : BoundTogether(ids)
=============================================================================
