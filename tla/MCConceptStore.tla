--------------------------- MODULE MCConceptStore ---------------------------
(* ConceptStore on small instances. *)
EXTENDS ConceptStore

CONSTANTS pa, pb, ps, c1, c2

MCDirs  == <<"", "/d">>
MCDirOf == [p \in Paths |-> IF p = pa THEN "/d" ELSE ""]

Item(p, c) == [path |-> p, content |-> c]

\* An edit, a batch of two concepts, a staging note.
MCBatches == {<<Item(pa, c1)>>, <<Item(pa, c2), Item(pb, c2)>>, <<Item(ps, c1)>>}

\* One concept to start with.
MCStores == {[p \in Paths |-> IF p = pa THEN c1 ELSE Absent]}

Symmetry == Permutations(Tasks)
=============================================================================
