----------------------------- MODULE MCWorkers -----------------------------
EXTENDS Workers

CONSTANTS u1, u2, u3, amy, bob, s1, s2, sa, sb, sk

MCOwner == (u1 :> amy) @@ (u2 :> amy) @@ (u3 :> bob)
MCSlug  == (u1 :> s1) @@ (u2 :> s2) @@ (u3 :> s1)
MCOrder == <<sa, sb, sk>>

\* A fence, plain headings, and ids of every kind: chapters at either level, a section, a section numbered 0, an id followed by a blank.
Lines == {Fence, Heading(1, NoId), Heading(2, NoId), Heading(1, Ch(1)), Heading(2, Ch(2)),
          Heading(2, Sec(1, 1)), Heading(2, Sec(1, 0)), Loose(Heading(1, Ch(1)))}
MCBooks == UNION {[1 .. n -> Lines] : n \in 1 .. 3}
Plain   == {<<Heading(1, NoId)>>}

\* Of the scope: a sound concept, and one or two that are old, expired, fat, point
\* at what is missing, or have one update too many; vector rows for some.
Flaws(c) == {c, [c EXCEPT !.age = "old"], [c EXCEPT !.expired = TRUE], [c EXCEPT !.fat = TRUE],
             [c EXCEPT !.by = 3], [c EXCEPT !.body = {Link(3)}], [c EXCEPT !.body = {[to |-> 3, code |-> TRUE]}],
             [c EXCEPT !.ops = <<"update", "update">>]}
Note == Concept({"x"})

Embedded == [text |-> {"x"}, stale |-> FALSE]
Unembedded == <<NoRow, NoRow, NoRow>>

SignalsStart(c, d, r) == conc = <<c, d, NoConcept>> /\ rows = r /\ healthy = TRUE /\ todo = {} /\ writes = 0

\* Uploads of one plain text with the whole bound, one upload of any text, and
\* the dreamers, a dreamt scope.
Init ==
    /\ focus \in {"ingest", "dream", "signals"}
    /\ \/ IngestStart(Plain, 0)
       \/ focus = "ingest" /\ IngestStart(MCBooks, MaxIngestEvents - 1)
    /\ DreamInit /\ present = {sa, sk}
    /\ \/ focus # "signals" /\ SignalsStart(NoConcept, NoConcept, Unembedded)
       \/ focus = "signals" /\ SignalsStart(Note, Note, <<Embedded, NoRow, Embedded>>)
       \/ focus = "signals" /\ \E c \in Flaws(Note) : SignalsStart(c, Concept({"y"}), Unembedded)

Spec == Init /\ [][Next]_wvars /\ Fairness
============================================================================
