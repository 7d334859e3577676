--------------------------- MODULE TextureCache ---------------------------
(***************************************************************************)
(* The texture side of the renderer: the cache of decoded textures, the    *)
(* memo in front of it, and what it knows of copies out of the embedded    *)
(* framebuffer (gx/texture.c, bind_texture of gx/raster.c).                *)
(*                                                                         *)
(* A texture is asked for by identity, a record [addr, fmt, tlut]; size    *)
(* and palette format are part of the identity in the code and stand       *)
(* inside fmt here.  Texels are the triple of the format they were read    *)
(* in, the bytes and the palette.  All of it is one record tx:             *)
(*   entry   the slots of MgsTexCache.entry                                *)
(*   lru     the slots in use, least recently used first: the order the    *)
(*           generation numbers give them                                  *)
(*   memo    the answers remembered since the last copy, oldest first      *)
(*   copies  s_efb_copy: addresses a copy wrote, with its serial number    *)
(*           and the serial and format of the copy that stayed on the GPU  *)
(*   snaps   s_efb_snap: the bytes a copy put down                         *)
(***************************************************************************)
EXTENDS Naturals, Sequences, SequencesExt, FiniteSetsExt

CONSTANTS Slots,        \* MGS_TEX_CACHE_ENTRIES
          MemoSlots,    \* MGS_TEX_MEMO
          CopySlots,    \* entries of s_efb_copy
          SnapSlots,    \* entries of s_efb_snap
          BytesOf,      \* the encoded bytes of what the game may load
          HashBytes,    \* 1024: bytes a key samples, about
          NoTlut,       \* the palette of a format that has none
          Undecodable   \* formats mgs_tex_decode refuses

ASSUME CacheAssumption ==
    /\ Slots \in Nat \ {0} /\ MemoSlots \in 1 .. Slots - 1
    /\ CopySlots \in Nat /\ SnapSlots \in Nat /\ HashBytes \in Nat \ {0}

NoEntry == [valid |-> FALSE]
CacheInit == [entry |-> [s \in 1 .. Slots |-> NoEntry], lru |-> << >>, memo |-> << >>,
              copies |-> << >>, snaps |-> << >>]

\* ----- copies: s_efb_copy and s_efb_snap

CopyOf(tx, addr) == {c \in ToSet(tx.copies) : c.addr = addr}
efb_serial(tx, addr) ==
    IF CopyOf(tx, addr) = {} THEN 0 ELSE (CHOOSE c \in CopyOf(tx, addr) : TRUE).serial
efb_copy_on_gpu(tx, addr) ==
    \E c \in CopyOf(tx, addr) : c.gserial = c.serial

mgs_tex_note_efb_copy(tx, addr) ==
    [tx EXCEPT !.copies =
        IF CopyOf(tx, addr) # {}
        THEN [i \in DOMAIN @ |-> IF @[i].addr = addr
                                 THEN [@[i] EXCEPT !.serial = @ + 1] ELSE @[i]]
        ELSE IF Len(@) < CopySlots
             THEN Append(@, [addr |-> addr, serial |-> 1, gserial |-> 0, gfmt |-> ""])
             ELSE @]

mgs_tex_mark_gpu_copy(tx, addr, fmt) ==
    [tx EXCEPT !.copies =
        [i \in DOMAIN @ |-> IF @[i].addr = addr
                            THEN [addr |-> addr, serial |-> @[i].serial,
                                  gserial |-> @[i].serial, gfmt |-> fmt]
                            ELSE @[i]]]

mgs_tex_snapshot_efb_copy(tx, addr, bytes) ==
    [tx EXCEPT !.snaps =
        IF \E s \in ToSet(@) : s.addr = addr
        THEN [i \in DOMAIN @ |-> IF @[i].addr = addr THEN [@[i] EXCEPT !.bytes = bytes] ELSE @[i]]
        ELSE IF Len(@) < SnapSlots THEN Append(@, [addr |-> addr, bytes |-> bytes]) ELSE @]

\* efb_snapshot, else guest memory: where mgs_tex_decode reads from.
SourceBytes(tx, mem, addr) ==
    IF \E s \in ToSet(tx.snaps) : s.addr = addr
    THEN (CHOOSE s \in ToSet(tx.snaps) : s.addr = addr).bytes
    ELSE mem[addr]

\* ----- keys

Palette(mem, id) == IF id.tlut = NoTlut THEN NoTlut ELSE mem[id.tlut]

\* The key of a copy: where, which one, how it is read (mgs_tex_efb_key).
mgs_tex_efb_key(addr, serial, fmt, tlut) ==
    [addr |-> addr, serial |-> serial, fmt |-> fmt, tlut |-> tlut, bytes |-> NoTlut, pal |-> NoTlut]

\* A copy on the GPU is looked up as it was filed, any other as it is read; a
\* palette is folded into the key.
CopyKey(tx, mem, id) ==
    LET c == CHOOSE x \in CopyOf(tx, id.addr) : TRUE
        k == IF efb_copy_on_gpu(tx, id.addr)
             THEN mgs_tex_efb_key(id.addr, c.serial, c.gfmt, NoTlut)
             ELSE mgs_tex_efb_key(id.addr, c.serial, id.fmt, id.tlut)
    IN  [k EXCEPT !.pal = Palette(mem, id)]

\* Mutant: the stride is not made odd, and shares a factor with the tiles.
HashEvenStride(bytes) ==
    LET n == Len(bytes)
        step == IF n > HashBytes THEN n \div HashBytes ELSE 1
    IN  <<n, [k \in 0 .. (n - 1) \div step |-> bytes[1 + k * step]]>>
\* A hash tells bytes apart when they differ in one that it samples: every one
\* of a small texture, and every step-th of a larger, where an odd step comes
\* to every place in a tile.
content_hash(bytes) ==
    LET n == Len(bytes)
        by == n \div HashBytes
        step == IF n > HashBytes THEN IF by % 2 = 0 THEN by + 1 ELSE by ELSE 1
    IN  <<n, [k \in 0 .. (n - 1) \div step |-> bytes[1 + k * step]]>>

\* An ordinary texture is known by a hash of its bytes and by its palette's; a
\* copy that is no longer known for one, by what it put there.
ContentKey(mem, id) ==
    [addr |-> "", serial |-> 0, fmt |-> "", tlut |-> NoTlut,
     bytes |-> IF mem[id.addr] \in DOMAIN BytesOf THEN content_hash(BytesOf[mem[id.addr]])
               ELSE mem[id.addr],
     pal |-> Palette(mem, id)]

KeyOf(tx, mem, id) ==
    IF efb_serial(tx, id.addr) # 0 THEN CopyKey(tx, mem, id) ELSE ContentKey(mem, id)

\* ----- the memo

MemoFor(tx, id) == {m \in ToSet(tx.memo) : m.id = id}
\* Mutant: the memo is one entry short.
MemoOneShort(tx, id, slot) ==
    [tx EXCEPT !.memo = Append(IF Len(@) = MemoSlots - 1 THEN Tail(@) ELSE @, [id |-> id, slot |-> slot])]
\* The place in the round-robin is taken by what was looked up: a hit does not
\* renew an answer.
memo_put(tx, id, slot) ==
    [tx EXCEPT !.memo = Append(IF Len(@) = MemoSlots THEN Tail(@) ELSE @, [id |-> id, slot |-> slot])]
\* Mutant: the memo outlives the copy it was to be dropped at.
MemoKept(tx) == tx
mgs_tex_memo_reset(tx) == [tx EXCEPT !.memo = << >>]

\* ----- the cache

\* A slot stands in the order once.
Touch(tx, slot) == [tx EXCEPT !.lru = Append(RemoveFirst(@, slot), slot)]
Release(tx, slot) == [tx EXCEPT !.entry[slot] = NoEntry, !.lru = RemoveFirst(@, slot)]

\* Mutant: the most recently used entry makes room.
FindNewest(tx) ==
    LET free == {s \in 1 .. Slots : ~tx.entry[s].valid}
    IN  IF free # {} THEN Min(free) ELSE Last(tx.lru)
\* A free slot, else the least recently used one, whose texels are freed.
find_slot(tx) ==
    LET free == {s \in 1 .. Slots : ~tx.entry[s].valid}
    IN  IF free # {} THEN Min(free) ELSE Head(tx.lru)

SameIdentity(tx, id) == {s \in 1 .. Slots : tx.entry[s].valid /\ tx.entry[s].id = id}

\* Mutant: main memory is decoded whatever a copy put there.
DecodedFromMemory(tx, mem, id, zeros) ==
    <<id.fmt,
      IF efb_copy_on_gpu(tx, id.addr) THEN zeros ELSE mem[id.addr],
      Palette(mem, id)>>
\* Texels of a copy that lives on the GPU are never decoded: the slot gets zeros.
Decoded(tx, mem, id, zeros) ==
    <<id.fmt,
      IF efb_copy_on_gpu(tx, id.addr) THEN zeros ELSE SourceBytes(tx, mem, id.addr),
      Palette(mem, id)>>

IsFresh(tx, e, id, key) ==
    IF efb_serial(tx, id.addr) # 0 THEN e.serial = efb_serial(tx, id.addr) ELSE e.key = key

(***************************************************************************)
(* mgs_tex_get: [tx, slot, freed] - the cache afterwards, the slot of the  *)
(* answer (0 for a refusal) and the slots whose texels were freed on the   *)
(* way.                                                                    *)
(***************************************************************************)
DecodeInto(tx, mem, id, zeros, slot, freed) ==
    IF id.fmt \in Undecodable
    THEN [tx |-> tx, slot |-> 0, freed |-> freed]
    ELSE [tx |-> memo_put(Touch([tx EXCEPT !.entry[slot] =
                            [valid |-> TRUE, id |-> id, key |-> KeyOf(tx, mem, id),
                             serial |-> efb_serial(tx, id.addr),
                             texels |-> Decoded(tx, mem, id, zeros)]], slot), id, slot),
          slot |-> slot, freed |-> freed]

Lookup(tx, mem, id, zeros) ==
    LET same == SameIdentity(tx, id)
        old  == Min(same)
        slot == find_slot(tx)
    IN  IF same # {} /\ IsFresh(tx, tx.entry[old], id, KeyOf(tx, mem, id))
        THEN [tx |-> memo_put(Touch(tx, old), id, old), slot |-> old, freed |-> {}]
        ELSE IF same # {}
        THEN DecodeInto(Release(tx, old), mem, id, zeros, old, {old})
        ELSE DecodeInto(Release(tx, slot), mem, id, zeros, slot,
                    IF tx.entry[slot].valid THEN {slot} ELSE {})

mgs_tex_get(tx, mem, id, zeros) ==
    IF MemoFor(tx, id) # {}
    THEN [tx |-> tx, slot |-> (CHOOSE m \in MemoFor(tx, id) : TRUE).slot, freed |-> {}]
    ELSE Lookup(tx, mem, id, zeros)
=============================================================================
