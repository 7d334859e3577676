-------------------------------- MODULE Disc --------------------------------
(***************************************************************************)
(* A mounted disc and the set of two: runtime/dvd/disc.c, disc_swap.c and  *)
(* the part of dvd_shims.c that turns the game's names into disc offsets.  *)
(*                                                                         *)
(* What a user dumped is a source: an image, whose bytes the table's       *)
(* offsets index, or a folder, where the table's paths name host files.    *)
(* One cell of data stands for a 32-byte unit of the disc.                 *)
(***************************************************************************)
EXTENDS FileTable

Failed == [ok |-> FALSE, bytes |-> <<>>]
Got(bytes) == [ok |-> TRUE, bytes |-> bytes]
Zeros(n) == [k \in 1 .. n |-> 0]

\* mgs_disc_mount: a source that is not a GameCube disc, or whose table does
\* not load, is refused.
mgs_disc_mount(source) == source.form \in {"image", "folder"} /\ source.magic /\ mgs_fst_load(source.table)

\* read_at, once the file stands at `at`: all of it or nothing.
ReadHere(d, at, n) == IF at + n <= Len(d.image) THEN Got(SubSeq(d.image, at + 1, at + n)) ELSE Failed

\* mgs_disc_read trims a read to the file's end.
Trimmed(t, i, offset, n) ==
    IF offset >= t[i].length_or_next THEN 0 ELSE Min({n, t[i].length_or_next - offset})

\* mgs_disc_read in a folder: the host's file may be missing, or shorter than
\* the table says.
FolderRead(d, path, offset, n) ==
    IF mgs_fst_file(d.table, path) = {} THEN Failed
    ELSE LET i == Min(mgs_fst_file(d.table, path))
             want == Trimmed(d.table, i, offset, n)
         IN  IF want = 0 THEN Got(<<>>)
             ELSE IF path.names \notin DOMAIN d.files THEN Failed
             ELSE LET f == d.files[path.names]
                  IN  Got(SubSeq(f, offset + 1, Min({offset + want, Len(f)})))

\* The files that hold a disc offset.
HoldersOf(t, at) == {i \in 1 .. entry_count(t) - 1 :
    ~t[i].is_dir /\ at >= t[i].offset_or_parent /\ at < t[i].offset_or_parent + t[i].length_or_next}

\* Mutant: what is read past the file's end is trimmed away.
FolderReadAbsTrimmed(d, at, n) ==
    IF HoldersOf(d.table, at) = {} THEN Failed
    ELSE LET i == Min(HoldersOf(d.table, at))
         IN  FolderRead(d, mgs_fst_path(d.table, i), at - d.table[i].offset_or_parent, n)

\* mgs_disc_read_abs in a folder: the file that holds the offset is found, its
\* path rebuilt, and what lies past its end is zero.
FolderReadAbs(d, at, n) ==
    IF HoldersOf(d.table, at) = {} THEN Failed
    ELSE LET i == Min(HoldersOf(d.table, at))
             got == FolderRead(d, mgs_fst_path(d.table, i), at - d.table[i].offset_or_parent, n)
         IN  IF got.ok THEN Got(got.bytes \o Zeros(n - Len(got.bytes))) ELSE Failed

-----------------------------------------------------------------------------
(* What a request reads: a path from the self-check, else a disc offset.   *)

\* Where DVDOpen and DVDReadAsync place the game's read: the file's start plus
\* the caller's offset, however far past the end that is.
Placed(t, ask) ==
    IF ask.path = <<>> THEN {ask.offset}
    ELSE {t[i].offset_or_parent + ask.offset : i \in mgs_fst_file(t, ask.path[1])}

\* What an image is asked for by path.
ImagePlace(d, ask) ==
    {[at |-> d.table[i].offset_or_parent + ask.offset,
      n |-> Trimmed(d.table, i, ask.offset, ask.length)] : i \in mgs_fst_file(d.table, ask.path[1])}

-----------------------------------------------------------------------------
(* The two discs. *)

\* mgs_disc_set_select: a disc that is not mounted cannot be shown.
CanSelect(discs, n) == n \in DOMAIN discs /\ mgs_disc_mount(discs[n])

\* mgs_DVDCompareDiskID of the shown identity with the one the game wants: asking
\* for the other disc of the same game is the swap.
Swaps(discs, shown, want) ==
    want.game = shown.game /\ want.number # shown.number /\ CanSelect(discs, want.number)

Identity(d) == [game |-> d.game, number |-> d.number]
=============================================================================
