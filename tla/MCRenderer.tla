---------------------------- MODULE MCRenderer ----------------------------
(* A small instance of Renderer: two textures of the game's, one of them   *)
(* with a palette, two surfaces made by copies, a frame of two rows.       *)
EXTENDS Renderer

CONSTANTS p1, p2, i1, t1, t2, g1, m1

Tex(a, f, p) == [addr |-> a, fmt |-> f, tlut |-> p]
MCAddrs == {"plain", "indexed", "palette", "gpucopy", "memcopy"}
MCPlain == Tex("plain", "RGB565", NoTlut)
MCIndexed == Tex("indexed", "C4", "palette")
MCGpuCopy == Tex("gpucopy", "RGBA8", NoTlut)
MCMemCopy == Tex("memcopy", "I8", NoTlut)
MCUnknown == Tex("plain", "unknown", NoTlut)
\* Sixteen bytes in tiles of four, of which a key samples four.  What is loaded
\* anew differs in one place of every tile.
Tiles(c, place, other) == [i \in 1 .. 16 |-> IF i % 4 = place THEN other ELSE c]
MCBytesOf == [c \in {p1, p2, i1, t1, t2, g1, m1} |->
                CASE c = p1 -> Tiles(1, 2, 1) [] c = p2 -> Tiles(1, 2, 9)
                  [] c = i1 -> Tiles(2, 0, 2) [] c = g1 -> Tiles(3, 0, 3)
                  [] c = m1 -> Tiles(4, 0, 4) [] OTHER -> << >>]
\* No two addresses ever hold the same bytes.
MCContents == [a \in MCAddrs |-> CASE a = "plain" -> {p1, p2} [] a = "indexed" -> {i1}
                                   [] a = "palette" -> {t1, t2} [] a = "gpucopy" -> {g1}
                                   [] a = "memcopy" -> {m1}]
\* Two triangles of two textures, sharing one, take the memo to its limit.
MCDraws == {<<MCPlain>>, <<MCMemCopy>>, <<MCUnknown>>,
            <<MCPlain, MCIndexed>>, <<MCGpuCopy, MCPlain>>}
MCCopyFmt == [a \in {"gpucopy", "memcopy"} |-> IF a = "gpucopy" THEN "RGBA8" ELSE "I8"]
\* The game loads a texture of its own where a copy once lay.
MCReused == [MCContents EXCEPT !["memcopy"] = {m1, p2}]
MCBox(y, h, clear) == [y |-> y, h |-> h, clear |-> clear]
MCBoxes == {MCBox(0, 2, FALSE), MCBox(1, 1, TRUE)}
MCRows == 0 .. 1
MCAreas == {[rows |-> {0}, st |-> "paint"], [rows |-> {0, 1}, st |-> "paint"],
            [rows |-> {0, 1}, st |-> "masked"]}
=============================================================================
