----------------------------- MODULE FileTable -----------------------------
(***************************************************************************)
(* The disc's file table: runtime/dvd/fst.c.                               *)
(*                                                                         *)
(* A table is a function from entry numbers: entry 0 is the root, and a    *)
(* directory at i owns the entries i+1 up to its length_or_next.  A path   *)
(* is its names in order and whether a slash follows the last; leading and *)
(* doubled slashes name nothing.                                           *)
(***************************************************************************)
EXTENDS Naturals, Sequences, FiniteSets, SequencesExt, FiniteSetsExt

CONSTANT Lower   \* each name's lower-case form

\* mgs_fst_load: the root's length counts the entries, and all of them are there.
mgs_fst_load(t) == 0 \in DOMAIN t /\ t[0].length_or_next \in 1 .. Cardinality(DOMAIN t)

entry_count(t) == t[0].length_or_next

name_eq(a, b) == Lower[a] = Lower[b]

\* The entries directly under directory d: nested ones are jumped over.
Children(t, d) == {i \in d + 1 .. t[d].length_or_next - 1 :
    \A j \in d + 1 .. i - 1 : t[j].is_dir => i >= t[j].length_or_next}

\* 0 is the root, and also the answer for a path that names nothing.
mgs_fst_find(t, path) ==
    LET n == Len(path.names)
        Walk[k \in 1 .. n + 1, d \in 0 .. entry_count(t) - 1] ==
          IF k > n THEN 0     \* nothing, or a slash, was left
          ELSE LET last == k = n /\ ~path.slash
                   name == path.names[k]
                   found == {i \in Children(t, d) : name_eq(t[i].name, name)}
               IN  CASE name = "." -> IF last THEN d ELSE Walk[k + 1, d]
                     [] name = ".." ->
                          LET up == IF d = 0 THEN 0 ELSE t[d].offset_or_parent
                          IN  IF last THEN up ELSE Walk[k + 1, up]
                     [] OTHER ->
                          IF found = {} THEN 0
                          ELSE IF last THEN Min(found)
                          ELSE IF t[Min(found)].is_dir THEN Walk[k + 1, Min(found)] ELSE 0
    IN  Walk[1, 0]

IsFile(t, i) == i \in 1 .. entry_count(t) - 1 /\ ~t[i].is_dir

\* The file a path names, if it names one.
mgs_fst_file(t, path) == {i \in {mgs_fst_find(t, path)} : IsFile(t, i)}

\* From an entry back to its path: the directories whose range holds it, then itself.
mgs_fst_path(t, i) ==
    LET above == {j \in 1 .. i : j = i \/ (t[j].is_dir /\ i < t[j].length_or_next)}
    IN  [names |-> [k \in 1 .. Cardinality(above) |-> t[SetToSortSeq(above, <)[k]].name],
         slash |-> FALSE]
=============================================================================
