----------------------------- MODULE MCWebAdmin -----------------------------
EXTENDS WebAdmin, TLC

Symmetry == Permutations(Requests)

\* Three requests and two keys without a fault, or two requests and three keys
\* with one; one message and a trouble, or two messages.  A part that is not
\* followed starts in one of its initial states.
Init ==
    /\ focus \in {"tls", "surface", "page"}
    /\ \/ TlsInit({}, 1, MaxStrikes) /\ (focus # "tls" => mount = NoFile)
       \/ focus = "tls" /\ \E r \in Requests : TlsInit({r}, 0, 0)
    /\ PageInit(0, MaxTroubles) \/ (focus = "page" /\ PageInit(1, 0))
    /\ SurfaceInit /\ (focus # "surface" => at = Skills /\ config[Log] = Default)

Spec == Init /\ [][Next]_avars
=============================================================================
