---------------------------- MODULE MCLibrarian ----------------------------
EXTENDS Librarian

CONSTANTS p1, p2, r1, r2

Symmetric == Permutations(Texts)

TwoPaths == <<p1, p2>>

\* One slot runs the agent, the other the deterministic fallback.
AgentAndFallback ==
    (r1 :> {"query", "chat", "mutation"}) @@ (r2 :> {"add", "update", "maintain"})

\* The walk of trim_conversation, one unit after the other.
WalkStarts(turns) ==
    LET starts[i \in 1 .. Len(turns)] ==
            i = 1 \/ \E j \in 1 .. i - 1 : starts[j] /\ unit_end(turns, j) = i
    IN  {i \in 1 .. Len(turns) : starts[i]}

\* UnitStarts has the positions that the walk comes to, in any order of turns.
ASSUME UnitsAreWalked ==
    \A n \in 0 .. 6 : \A turns \in [1 .. n -> [kind : {"user", "assistant", "calls", "result"}]] :
        UnitStarts(turns) = WalkStarts(turns)
=============================================================================
