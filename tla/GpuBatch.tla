----------------------------- MODULE GpuBatch -----------------------------
(***************************************************************************)
(* The GPU renderer (gfx/gpu.c): triangles gathered into batches, the      *)
(* cache of textures already on the GPU, the pipelines kept by draw state, *)
(* copies from the render target into a texture.                           *)
(*                                                                         *)
(* The device runs the commands of its buffers in the order they were      *)
(* recorded, and the program sees the target only through a download       *)
(* recorded in the same buffer and waited for: what is recorded is done at *)
(* once here, and when the buffer is submitted cannot be told.             *)
(*                                                                         *)
(* The target holds one colour a row: the texels its last triangle         *)
(* sampled, one for each combiner stage.  The record g:                    *)
(*   target   s_colour, a colour for each row                              *)
(*   batch    s_batch with s_batch_binds, s_batch_state, s_batch_tev       *)
(*   cache    s_gtex, least recently used first                            *)
(*   pipes    s_pipes                                                      *)
(* A bind is [key, texels, slot]: slot is the texture cache's slot whose   *)
(* texels the pointer leads to, 0 when nothing is bound.                   *)
(***************************************************************************)
EXTENDS TextureCache

CONSTANTS Rows,          \* rows of the embedded framebuffer
          Units,         \* MGS_GPU_TEX_UNITS
          BatchMax,      \* BATCH_MAX, in triangles
          GpuSlots,      \* GPU_TEX_SLOTS
          PipeSlots,     \* PIPE_SLOTS
          White,         \* the texel of a unit nothing is bound to
          Clear          \* the clear colour

ASSUME GpuAssumption ==
    /\ Units \in Nat \ {0} /\ BatchMax \in Nat \ {0}
    /\ GpuSlots \in Nat /\ GpuSlots >= Units /\ PipeSlots \in Nat \ {0}

Unbound == [key |-> NoTlut, texels |-> NoTlut, slot |-> 0]
AllUnbound == [u \in 1 .. Units |-> Unbound]
NoBatch == [tris |-> << >>, binds |-> AllUnbound, st |-> "", tev |-> << >>]
GpuInit == [target |-> [r \in Rows |-> <<Clear>>], batch |-> NoBatch, cache |-> << >>, pipes |-> << >>]

\* ----- the GPU's own textures

Evict(cache) == IF Len(cache) = GpuSlots THEN Tail(cache) ELSE cache
File(cache, key, texture) == Append(Evict(cache), [key |-> key, texture |-> texture])

\* cached_texture: what unit u samples, and the cache after it was found or uploaded.
cached_texture(cache, bind) ==
    LET same == {i \in DOMAIN cache : cache[i].key = bind.key}
    IN  IF bind.slot = 0 THEN [cache |-> cache, texture |-> White]
        ELSE IF same # {}
        THEN LET hit == cache[Min(same)]
             IN  [cache |-> Append(SelectSeq(cache, LAMBDA c : c.key # bind.key), hit),
                  texture |-> hit.texture]
        ELSE [cache |-> File(cache, bind.key, bind.texels), texture |-> bind.texels]

ResolveUnits(g, binds) ==
    FoldLeft(LAMBDA acc, u :
                 LET one == cached_texture(acc.cache, binds[u])
                 IN  [cache |-> one.cache, texture |-> Append(acc.texture, one.texture)],
             [cache |-> g.cache, texture |-> << >>],
             [u \in 1 .. Units |-> u])

\* ----- drawing a batch

\* pipeline_for: the state the draw is made with; with every slot taken by
\* other states it is the first one's.
pipeline_for(g, st) ==
    IF st \in ToSet(g.pipes) \/ Len(g.pipes) < PipeSlots THEN st ELSE g.pipes[1]
KeepPipeline(g, st) ==
    IF st \in ToSet(g.pipes) \/ Len(g.pipes) = PipeSlots THEN g.pipes ELSE Append(g.pipes, st)

\* The combiner: a colour of its own with no stage, else each stage its unit's texel.
Shade(tev, texture) ==
    IF tev = << >> THEN <<Clear>> ELSE [k \in DOMAIN tev |-> texture[tev[k]]]

Paint(target, tris, colour) ==
    [r \in Rows |-> IF \E i \in DOMAIN tris : r \in tris[i] THEN colour ELSE target[r]]

mgs_gpu_draw_keyed(g, b) ==
    LET units == ResolveUnits(g, b.binds)
    IN  [g EXCEPT !.cache = units.cache,
                  !.pipes = KeepPipeline(g, b.st),
                  !.target = IF pipeline_for(g, b.st) = "paint"
                             THEN Paint(@, b.tris, Shade(b.tev, units.texture)) ELSE @]

mgs_gpu_batch_flush(g) ==
    IF g.batch.tris = << >> THEN g
    ELSE [mgs_gpu_draw_keyed(g, g.batch) EXCEPT !.batch = NoBatch]

\* ----- gathering triangles

\* By the key, and where nothing is bound also by the pointer.
binds_eq(a, b) == \A u \in 1 .. Units :
    a[u].key = b[u].key /\ (a[u].key = NoTlut => a[u].texels = b[u].texels)

MustFlush(b, binds, st, tev) ==
    /\ b.tris # << >>
    /\ \/ ~binds_eq(b.binds, binds)
       \/ b.st # st
       \/ b.tev # tev
       \/ Len(b.tris) >= BatchMax

mgs_gpu_batch_tri(g, rows, binds, st, tev) ==
    LET h == IF MustFlush(g.batch, binds, st, tev) THEN mgs_gpu_batch_flush(g) ELSE g
    IN  [h EXCEPT !.batch = [tris |-> Append(@.tris, rows), binds |-> binds, st |-> st, tev |-> tev]]

\* ----- copies and clears

\* Mutant: the copy is recorded before the triangles still waiting.
CopyBeforeFlush(g, y, key, fmt) ==
    [g EXCEPT !.cache = File(SelectSeq(@, LAMBDA c : c.key # key), key,
                               <<fmt, g.target[y], NoTlut>>)]
\* Row y of the target becomes a texture, filed under key in the place of one
\* that had it.
mgs_gpu_copy_to_texture(g, y, key, fmt) ==
    LET h == mgs_gpu_batch_flush(g)
    IN  [h EXCEPT !.cache = File(SelectSeq(@, LAMBDA c : c.key # key), key,
                               <<fmt, h.target[y], NoTlut>>)]

\* The rectangle a copy asks to clear: an untextured quad with no combiner,
\* drawn through the batch.
mgs_gpu_clear_rect(g, rows) ==
    mgs_gpu_batch_flush(mgs_gpu_batch_tri(g, rows, AllUnbound, "paint", << >>))

mgs_gpu_begin_frame(g, clear) ==
    LET h == mgs_gpu_batch_flush(g)
    IN  IF clear THEN [h EXCEPT !.target = [r \in Rows |-> <<Clear>>]] ELSE h

\* Rows 0 up to, not including, n are downloaded over the host's buffer.
mgs_gpu_read_back_rect(g, efb, n) ==
    [r \in Rows |-> IF r < n THEN g.target[r] ELSE efb[r]]
=============================================================================
