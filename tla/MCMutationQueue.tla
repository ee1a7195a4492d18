-------------------------- MODULE MCMutationQueue --------------------------
(* Model-checking instance of MutationQueue: every item of one user, or the *)
(* last item of a second one.                                               *)
EXTENDS MutationQueue

CONSTANTS i1, i2, i3, u1, u2

OneUser == [i \in Items |-> u1]

=============================================================================
