----------------------------- MODULE MCDvdReads -----------------------------
(***************************************************************************)
(* DvdReads with more reads than slots, blocks that are used again, and a  *)
(* small disc: shared/audio/bank, shared/codec, BANK and stage, the first  *)
(* three followed by padding or by another file.                           *)
(***************************************************************************)
EXTENDS DvdReads

CONSTANTS r0, r1, r2, r3, b1, b2

MCReads == {r0, r1, r2, r3}
MCBlocks == {b1, b2}

MCLower == [n \in {"", ".", "..", "shared", "audio", "bank", "BANK", "Codec", "codec", "stage"} |->
              CASE n = "BANK" -> "bank" [] n = "Codec" -> "codec" [] OTHER -> n]

Dir(name, parent, next) == [is_dir |-> TRUE, name |-> name, offset_or_parent |-> parent, length_or_next |-> next]
File(name, at, length) == [is_dir |-> FALSE, name |-> name, offset_or_parent |-> at, length_or_next |-> length]

Entries == <<Dir("shared", 0, 5), Dir("audio", 1, 4), File("bank", 1, 2),
             File("codec", 4, 2), File("BANK", 7, 1), File("stage", 8, 2)>>
Table == (0 :> Dir("", 0, 7)) @@ Entries

MCPressed == <<90, 11, 12, 0, 14, 15, 0, 17, 18, 19>>

Image(n) == [form |-> "image", magic |-> TRUE, game |-> "GGSPA4", number |-> n, table |-> Table, image |-> MCPressed]
Folder(n) == [form |-> "folder", magic |-> TRUE, game |-> "GGSPA4", number |-> n, table |-> Table,
              files |-> (<<"shared", "audio", "bank">> :> <<11, 12>>) @@ (<<"shared", "codec">> :> <<14, 15>>)
                        @@ (<<"BANK">> :> <<17>>) @@ (<<"stage">> :> <<18, 19>>)]

Path(names) == [names |-> names, slash |-> FALSE]
MCAsks == (r0 :> [path |-> <<Path(<<"shared", "Codec">>)>>, offset |-> 0, length |-> 4])
       @@ (r1 :> [path |-> <<Path(<<".", "shared", "audio", "bank">>)>>, offset |-> 1, length |-> 2])
       @@ (r2 :> [path |-> <<>>, offset |-> 0, length |-> 1])
       @@ (r3 :> [path |-> <<Path(<<"shared", "..", "bank">>)>>, offset |-> 0, length |-> 2])
\* shared/Codec, the second cell of shared/audio/bank, the header, and BANK.
MCMeant == (r0 :> 4) @@ (r1 :> 2) @@ (r2 :> 0) @@ (r3 :> 7)

Host(d0, workers, room, latency) == [discs |-> (0 :> d0), workers |-> workers, room |-> room, latency |-> latency]
TwoDiscs(h, d1) == [h EXCEPT !.discs = @ @@ (1 :> d1)]

\* An image behind two workers.
MCSharedImage == "shared" :> Host(Image(0), 2, 2, 0)

\* That, a folder behind two workers and a queue that fills, an image behind one
\* worker, and an image with none.
MCMachines == MCSharedImage @@ ("folder" :> Host(Folder(0), 2, 1, 0)) @@ ("image" :> Host(Image(0), 1, 2, 1))
              @@ ("inline" :> TwoDiscs(Host(Image(0), 0, 0, 0), Folder(1)))
=============================================================================
