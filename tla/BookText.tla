------------------------------ MODULE BookText ------------------------------
(***************************************************************************)
(* The two readers of a book's markdown: the outline the librarian builds  *)
(* its catalog from (mycelium-librarian extract.rs) and the extractor that *)
(* answers book:// references (mycelium-core library.rs).  They are        *)
(* written twice and must agree.                                           *)
(*                                                                         *)
(* A text is the sequence of its fence and heading lines.  A heading has a *)
(* level and an id: NoId, a chapter id ch-<n>-..., or a section id         *)
(* sec-<c>-<s>-...; a loose id is followed by blanks, which the extractor  *)
(* trims and the outline does not.  The trailing slug of an anchor is      *)
(* informational: two ids of the same numbers are one id here.  A passage is *)
(* the interval of lines it spans.                                         *)
(***************************************************************************)
EXTENDS Integers, Sequences, SequencesExt, FiniteSetsExt

NoId     == [of |-> "none"]
NotFound == [found |-> FALSE]

Ch(n)         == [of |-> "ch", n |-> n]
Sec(c, s)     == [of |-> "sec", n |-> c, s |-> s]
Fence         == [level |-> 0, id |-> NoId, loose |-> FALSE]
Heading(l, i) == [level |-> l, id |-> i, loose |-> FALSE]
Loose(h)      == [h EXCEPT !.loose = TRUE]

\* What a text can be made of.
Ids  == [of : {"none"}] \cup [of : {"ch"}, n : Nat] \cup [of : {"sec"}, n : Nat, s : Nat]
Line == [level : Nat, id : Ids, loose : BOOLEAN]

\* The lines that are headings outside fenced code blocks.
InFence(t, i) == Cardinality({j \in 1 .. i - 1 : t[j].level = 0}) % 2 = 1

collect_headings(t) == {i \in DOMAIN t : t[i].level > 0 /\ ~InFence(t, i)}

-----------------------------------------------------------------------------
(* The outline (extract.rs). *)

\* The id the outline sees.
heading_anchor_id(l) == IF l.loose THEN NoId ELSE l.id

Anchored(t) == \E i \in collect_headings(t) : heading_anchor_id(t[i]) # NoId

\* Anchored books: the ch- headings by their number; the sections of a number
\* go to the first chapter that has it.
AnchoredChapters(t) ==
    LET ids == [i \in collect_headings(t) |-> heading_anchor_id(t[i])]
        Of(kind) == {i \in DOMAIN ids : ids[i].of = kind /\ ids[i].n > 0}
        First(i) == \A j \in Of("ch") : ids[j].n = ids[i].n => j >= i
    IN {[index |-> ids[i].n, line |-> i, anchor |-> ids[i],
         sections |-> IF First(i)
                      THEN {[index |-> ids[j].s, line |-> j, anchor |-> ids[j]] :
                              j \in {k \in Of("sec") : ids[k].n = ids[i].n}}
                      ELSE {}] : i \in Of("ch")}

\* Plain books: the n-th `# ` heading, and the `## ` headings up to the next one.
CountedChapters(t) ==
    LET H(l) == {i \in collect_headings(t) : t[i].level = l}
        Nth(S, i) == Cardinality({j \in S : j <= i})
        Secs(i) == {j \in H(2) : j > i /\ \A k \in H(1) : ~(i < k /\ k < j)}
    IN {[index |-> Nth(H(1), i), line |-> i, anchor |-> Ch(Nth(H(1), i)),
         sections |-> {[index |-> Nth(Secs(i), j), line |-> j,
                        anchor |-> Sec(Nth(H(1), i), Nth(Secs(i), j))] : j \in Secs(i)}] : i \in H(1)}

parse_outline(t) == IF Anchored(t) THEN AnchoredChapters(t) ELSE CountedChapters(t)

\* The place of a chapter in the outline's vector: by index, then as met.
Place(t, ch) ==
    Cardinality({c \in parse_outline(t) :
        c.index < ch.index \/ (c.index = ch.index /\ c.line <= ch.line)})

-----------------------------------------------------------------------------
(* The extractor (library.rs). *)

\* Up to the first of the boundary lines B after i, or the end of the text.
Span(t, i, B) ==
    LET after == {j \in B : j > i}
    IN [found |-> TRUE, from |-> i, upto |-> IF after = {} THEN Len(t) + 1 ELSE Min(after)]

count_based_chapter(t, n) ==
    LET H1 == {i \in collect_headings(t) : t[i].level = 1}
        hit == {i \in H1 : Cardinality({j \in H1 : j <= i}) = n}
    IN IF hit = {} THEN NotFound ELSE Span(t, Min(hit), H1)

extract_chapter(t, n) ==
    LET H == collect_headings(t)
        chs == {i \in H : t[i].id.of = "ch"}
        hit == {i \in chs : t[i].id.n = n}
    IN CASE \A i \in H : t[i].id = NoId -> count_based_chapter(t, n)
         [] (\E i \in H : t[i].id # NoId) /\ hit = {} -> NotFound
         [] hit # {} -> Span(t, Min(hit), chs)

count_based_section(t, c, s) ==
    LET chapter == count_based_chapter(t, c)
        H2 == {i \in collect_headings(t) :
                 t[i].level = 2 /\ chapter.from < i /\ i < chapter.upto}
        hit == {i \in H2 : Cardinality({j \in H2 : j <= i}) = s}
    IN IF chapter = NotFound \/ hit = {} THEN NotFound
       ELSE Span(t, Min(hit), H2 \cup {chapter.upto})

\* A section ends at the next heading of its level or above.
extract_section(t, c, s) ==
    LET H == collect_headings(t)
        hit == {i \in H : t[i].id = Sec(c, s)}
    IN IF hit = {} THEN count_based_section(t, c, s)
       ELSE Span(t, Min(hit), {i \in H : t[i].level <= t[Min(hit)].level})

\* Anchors are 1-based: a zero makes the anchor unrecognized.
extract_passage(t, anchor) ==
    CASE anchor.of = "ch" /\ anchor.n > 0 -> extract_chapter(t, anchor.n)
      [] anchor.of = "sec" /\ anchor.n > 0 /\ anchor.s > 0 -> extract_section(t, anchor.n, anchor.s)
      [] ~(anchor.of \in {"ch", "sec"} /\ anchor.n > 0 /\ (anchor.of = "sec" => anchor.s > 0)) -> NotFound

-----------------------------------------------------------------------------
(* The catalog (extract.rs). *)

\* The opening prose of each chapter of the outline, in the outline's order.
chapter_descriptions(t) ==
    [p \in 1 .. Cardinality(parse_outline(t)) |->
        LET ch == CHOOSE c \in parse_outline(t) : Place(t, c) = p
            H == collect_headings(t)
        IN IF Anchored(t)
           THEN Span(t, Min({i \in H : heading_anchor_id(t[i]) = ch.anchor}),
                     {i \in H : heading_anchor_id(t[i]).of = "ch"})
           ELSE Span(t, ch.line, {i \in H : t[i].level = 1})]

\* The summary is looked up by the chapter's number, and is empty past the end.
build_chapter_concept(t, ch) ==
    [resource |-> ch.anchor,
     line     |-> ch.line,
     links    |-> {[anchor |-> s.anchor, line |-> s.line] : s \in ch.sections},
     summary  |-> IF ch.index \in DOMAIN chapter_descriptions(t)
                  THEN chapter_descriptions(t)[ch.index] ELSE NotFound]

build_catalog(t) == {build_chapter_concept(t, ch) : ch \in parse_outline(t)}

=============================================================================
