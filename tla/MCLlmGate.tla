----------------------------- MODULE MCLlmGate -----------------------------
(* Model-checking instance of LlmGate: two calls of one user, one of another *)
(* and one try-class caller.                                                 *)
EXTENDS LlmGate

CONSTANTS w1, w2, w3, t1, u1, u2

MCUserOf == (w1 :> u1) @@ (w2 :> u1) @@ (w3 :> u2)

=============================================================================
