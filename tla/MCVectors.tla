----------------------------- MODULE MCVectors -----------------------------
(* Two paths, one of them embedded at the start or not, with a content the *)
(* other differs from and one that is retired; two models of different     *)
(* length, and an embeddings row that is stored or not.                    *)
EXTENDS Vectors

CONSTANTS p1, p2, a, b, ret, m1, m2, w1, w2, q1

MCDimsOf == m1 :> 1 @@ m2 :> 2

Old == [of |-> a, model |-> m1, stale |-> FALSE]

MCStarts ==
    {[file |-> p1 :> a @@ p2 :> Absent, rows |-> p1 :> Old @@ p2 :> Absent, config |-> m1],
     [file |-> p1 :> a @@ p2 :> a, rows |-> p1 :> Old @@ p2 :> Absent, config |-> Absent]}
=============================================================================
