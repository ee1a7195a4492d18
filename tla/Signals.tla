------------------------------ MODULE Signals ------------------------------
(***************************************************************************)
(* What a dream is about: the deterministic signals run_dream gathers over *)
(* one scope (mycelium-librarian dream.rs, with build_graph of             *)
(* mycelium-core and consecutive_update_count of mycelium-store), and what *)
(* obeying them does to the concepts, hence to the next pass's signals.    *)
(*                                                                         *)
(* A concept keeps what the signals tell apart: its title's tokens (no     *)
(* concept has tags), its lifecycle fields, how long ago it was confirmed, *)
(* whether valid_to has passed, whether its body is over the size limit,   *)
(* its links (those in code apart) and the newest ops of its revision      *)
(* chain, newest first. All vector rows are of one model. The agent is     *)
(* external: it does one of the things the signal's instruction offers and *)
(* settles the matter where it can, with tools whose every put restamps    *)
(* confirmed_at and records an op.                                         *)
(***************************************************************************)
EXTENDS Integers, Sequences, FiniteSets

CONSTANTS
    Paths,                  \* numbers: paths are ordered
    Tokens,
    NoConcept, NoRow, Nobody,
    Patches,                \* consolidation_patches
    NEIGHBORS_PER_CONCEPT,
    MaxWrites               \* bound: writes of users, aging, row and backend events

ASSUME SignalsAssumption ==
    /\ Paths \subseteq Nat /\ Nobody \notin Paths
    /\ Patches \in Nat \ {0} /\ NEIGHBORS_PER_CONCEPT \in Nat \ {0}
    /\ MaxWrites \in Nat

VARIABLES
    conc,      \* the concept at each path, or NoConcept
    rows,      \* the vector row at each path: the tokens it was made from, stale or not
    healthy,   \* the embeddings backend is Green or Yellow
    todo,      \* the signals the pass in progress has left
    writes     \* what MaxWrites bounds

gvars == <<conc, rows, healthy, todo, writes>>

Concept(t) == [title |-> t, status |-> "active", by |-> Nobody, age |-> "recent", expired |-> FALSE,
               fat |-> FALSE, body |-> {}, ops |-> <<"create">>]
Link(q) == [to |-> q, code |-> FALSE]

Existing == {p \in Paths : conc[p] # NoConcept}
Write    == writes < MaxWrites /\ writes' = writes + 1
NoWrite  == UNCHANGED writes

-----------------------------------------------------------------------------
(* The signals. *)

\* Links inside code are masked.
scan_links(c) == {l.to : l \in {m \in c.body : ~m.code}}

\* A broken link, too, keeps its source from being an orphan.
Edges   == {e \in Existing \X Paths : e[2] \in scan_links(conc[e[1]])}
orphans == {p \in Existing : \A e \in Edges : p \notin {e[1], e[2]}}
broken_links == {e \in Edges : e[2] \notin Existing}

is_active(p) == conc[p].status \notin {"superseded", "retired"}

jaccard(s, t) == s # {} /\ t # {} /\ 5 * Cardinality(s \cap t) >= 4 * Cardinality(s \cup t)

canonical_pair(p, q) == IF p <= q THEN <<p, q>> ELSE <<q, p>>

jaccard_pairs(scan) ==
    {canonical_pair(e[1], e[2]) : e \in {e \in scan \X scan : e[1] # e[2] /\ jaccard(conc[e[1]].title, conc[e[2]].title)}}

\* The concepts with a fresh row; a row whose concept is gone counts for nothing.
live == {p \in Existing : rows[p] # NoRow /\ ~rows[p].stale}
populated == Cardinality(live) >= 2

cosine_high(p, q) == rows[p].text = rows[q].text

\* Nearest first, then by path.
drawn(p) == {q \in live \ {p} :
    Cardinality({r \in live \ {p, q} :
        \/ cosine_high(p, r) /\ ~cosine_high(p, q)
        \/ (cosine_high(p, r) <=> cosine_high(p, q)) /\ r < q}) < NEIGHBORS_PER_CONCEPT}

cosine_pairs == {canonical_pair(e[1], e[2]) : e \in {e \in live \X live : e[2] \in drawn(e[1]) /\ cosine_high(e[1], e[2])}}

\* The concepts the cosine branch owns are skipped by the title scan, unless
\* the branch is absent: an unhealthy backend over an unpopulated scope.
embedded == IF healthy \/ populated THEN live ELSE {}
duplicate_candidates ==
    (IF embedded = {} THEN {} ELSE cosine_pairs) \cup jaccard_pairs(Existing \ embedded)

oversized_concepts == {p \in Existing : conc[p].fat}

stale_pairs ==
    {e \in Existing \X Existing :
        /\ e[1] # e[2]
        /\ is_active(e[1]) /\ conc[e[1]].age = "old"
        /\ is_active(e[2]) /\ conc[e[2]].age = "recent"
        /\ conc[e[1]].title \cap conc[e[2]].title # {}}

expired_concepts == {p \in Existing : is_active(p) /\ conc[p].expired}

broken_supersede == {p \in Existing : is_active(p) /\ conc[p].by \notin Existing \cup {Nobody}}

\* The leading updates among the newest Patches + 1 ops.
consecutive_update_count(p) ==
    Cardinality({n \in 1 .. Len(conc[p].ops) : \A m \in 1 .. n : conc[p].ops[m] = "update"})

disorganized == {p \in Existing : consecutive_update_count(p) > Patches}

Named(kind, S) == {[kind |-> kind, p |-> p, q |-> p] : p \in S}
Paired(kind, S) == {[kind |-> kind, p |-> e[1], q |-> e[2]] : e \in S}

\* What an obedient agent can settle.
Defects ==
    Paired("broken", broken_links) \cup Paired("dupe", duplicate_candidates)
    \cup Named("fat", oversized_concepts) \cup Paired("stale", stale_pairs)
    \cup Named("expired", expired_concepts) \cup Named("supersede", broken_supersede)
    \cup Named("clutter", disorganized)

\* A concept related to nothing is an orphan for ever.
signals == Named("orphan", orphans) \cup Defects

Rank == [orphan |-> 1, broken |-> 2, dupe |-> 3, fat |-> 4, stale |-> 5, expired |-> 6,
         supersede |-> 7, clutter |-> 8]

-----------------------------------------------------------------------------
(* The stores a pass writes through. *)

\* The op of a put: derived for store, explicit for cons_store.
op_of(p) == IF conc[p] = NoConcept THEN "create" ELSE "update"

\* Mutant: the consolidation pass runs through store.
cons_op_plain == "update"

cons_op == "consolidate"

\* What a put leaves of c: stamped, its op newest in the chain.
Put(c, op) == [c EXCEPT !.age = "recent", !.ops = SubSeq(<<op>> \o @, 1, IF Len(@) < Patches THEN Len(@) + 1 ELSE Patches + 1)]

Patched(p, c) == [conc EXCEPT ![p] = Put(c, op_of(p))]

-----------------------------------------------------------------------------
(* The agent obeys one signal.  Each gives the concepts it leaves. *)

\* Wires an orphan into another concept, or leaves it alone.
wire(s) == {conc} \cup {Patched(q, [conc[q] EXCEPT !.body = @ \cup {Link(s.p)}]) : q \in Existing \ {s.p}}

Unlinked(c, q) == {l \in c.body : l.to # q}
Redirected(c, q, r) == IF Link(q) \in c.body THEN Unlinked(c, q) \cup {Link(r)} ELSE c.body

\* Removes the link or repairs it.
fix_link(s) ==
    {Patched(s.p, [conc[s.p] EXCEPT !.body = b]) :
        b \in {Unlinked(conc[s.p], s.q)} \cup {Redirected(conc[s.p], s.q, r) : r \in Existing}}

\* Merges into one, redirects what linked to the other and deletes it; distinct
\* concepts are cross-linked, once.
merge(s) ==
    IF conc[s.p].title # conc[s.q].title
    THEN {IF Link(s.q) \in conc[s.p].body THEN conc
          ELSE Patched(s.p, [conc[s.p] EXCEPT !.body = @ \cup {Link(s.q)}])}
    ELSE LET Merged(kept, gone) ==
               [p \in Paths |->
                  IF p = gone THEN NoConcept
                  ELSE IF p = kept THEN Put([conc[p] EXCEPT !.body = Unlinked(conc[p], gone)], "update")
                  ELSE IF p \in Existing /\ Link(gone) \in conc[p].body
                       THEN Put([conc[p] EXCEPT !.body = Redirected(conc[p], gone, kept)], "update")
                  ELSE conc[p]]
         IN {Merged(s.p, s.q), Merged(s.q, s.p)}

\* Extracts a topic into a concept of its own, linked from the hub that stays.
\* Paths are few here: when none is free the topic goes to a concept that is there.
split(s) ==
    LET hub(q) == Put([conc[s.p] EXCEPT !.fat = FALSE, !.body = @ \cup {Link(q)}], "update")
        free == Paths \ Existing
    IN IF free # {}
       THEN {[conc EXCEPT ![s.p] = hub(q), ![q] = Put([Concept({t}) EXCEPT !.ops = <<>>], "create")] :
               q \in free, t \in Tokens}
       ELSE {[conc EXCEPT ![s.p] = hub(q), ![q] = Put(@, "update")] : q \in Paths \ {s.p}}

supersede(s) ==
    {Patched(s.p, [conc[s.p] EXCEPT !.status = "superseded", !.by = s.q]),
     Patched(s.p, [conc[s.p] EXCEPT !.status = "retired"])}

retire(s) ==
    {Patched(s.p, [conc[s.p] EXCEPT !.status = "retired"]),
     Patched(s.p, [conc[s.p] EXCEPT !.expired = FALSE])}

repair_supersede(s) ==
    {Patched(s.p, [conc[s.p] EXCEPT !.by = Nobody])} \cup {Patched(s.p, [conc[s.p] EXCEPT !.by = r]) : r \in Existing \ {s.p}}

\* patch_concept with a body, through cons_store.
consolidate(s) == {[conc EXCEPT ![s.p] = Put(@, cons_op)]}

Obeyed(s) ==
    CASE s.kind = "orphan" -> wire(s)
      [] s.kind = "broken" -> fix_link(s)
      [] s.kind = "dupe" -> merge(s)
      [] s.kind = "fat" -> split(s)
      [] s.kind = "stale" -> supersede(s)
      [] s.kind = "expired" -> retire(s)
      [] s.kind = "supersede" -> repair_supersede(s)
      [] s.kind = "clutter" -> consolidate(s)

-----------------------------------------------------------------------------

\* run_dream: the signals of the scope as it is now; none, no run.
gather ==
    /\ todo = {} /\ signals # {}
    /\ todo' = signals
    /\ NoWrite
    /\ UNCHANGED <<conc, rows, healthy>>

\* The agent reads the concepts it is sent to: one that is gone, or no longer as
\* the signal says, is passed over.  Being an orphan, or cluttered, does not show.
Applies(s) == s.p \in Existing /\ (s \in signals \/ s.kind \in {"orphan", "clutter"})

\* The signals in order: by kind, then by path.
Before(s, r) ==
    \/ Rank[s.kind] < Rank[r.kind]
    \/ s.kind = r.kind /\ (s.p < r.p \/ (s.p = r.p /\ s.q <= r.q))

obey ==
    \E s \in todo :
        /\ \A r \in todo : Before(s, r)
        /\ todo' = todo \ {s}
        /\ IF Applies(s) THEN conc' \in Obeyed(s) ELSE UNCHANGED conc
        /\ rows' = [p \in Paths |-> IF conc'[p] = NoConcept /\ conc[p] # NoConcept THEN NoRow ELSE rows[p]]
        /\ NoWrite
        /\ UNCHANGED healthy

\* The vector worker catches up: it drains its queue of what was written.
embed ==
    /\ healthy
    /\ \E p \in Existing : p \in live => rows[p].text # conc[p].title
    /\ rows' = [p \in Paths |-> IF p \in Existing THEN [text |-> conc[p].title, stale |-> FALSE] ELSE rows[p]]
    /\ NoWrite
    /\ UNCHANGED <<conc, healthy, todo>>

-----------------------------------------------------------------------------
(* What happens to the scope besides. *)

\* A user's edit, creation or deletion; a deletion the worker races leaves an
\* orphan row.
UserPut(p, c) ==
    /\ Write
    /\ c # conc[p]
    /\ conc' = Patched(p, c)
    /\ UNCHANGED <<rows, healthy, todo>>

UserEdits(p) ==
    LET c == IF p \in Existing THEN conc[p] ELSE [Concept({}) EXCEPT !.ops = <<>>]
    IN \/ \E t \in Tokens : UserPut(p, [c EXCEPT !.title = {t}])
       \/ \E q \in Paths \ {p} : UserPut(p, [c EXCEPT !.by = q])
       \/ UserPut(p, [c EXCEPT !.fat = TRUE])
       \/ \E q \in Paths, b \in BOOLEAN : UserPut(p, [c EXCEPT !.body = @ \cup {[to |-> q, code |-> b]}])

UserDeletes(p) ==
    /\ Write
    /\ p \in Existing
    /\ conc' = [conc EXCEPT ![p] = NoConcept]
    /\ rows' \in {rows, [rows EXCEPT ![p] = NoRow]}
    /\ UNCHANGED <<healthy, todo>>

\* Time passes for one concept.
Ages(p) ==
    /\ Write
    /\ p \in Existing
    /\ \/ conc[p].age = "recent" /\ conc' = [conc EXCEPT ![p].age = "between"]
       \/ conc[p].age = "between" /\ conc' = [conc EXCEPT ![p].age = "old"]
       \/ ~conc[p].expired /\ conc' = [conc EXCEPT ![p].expired = TRUE]
    /\ UNCHANGED <<rows, healthy, todo>>

\* The backend fails or recovers; a model change marks every row stale.
Embeddings ==
    /\ Write
    /\ \/ healthy' = ~healthy /\ UNCHANGED rows
       \/ /\ rows' = [p \in Paths |-> IF rows[p] = NoRow THEN NoRow ELSE [rows[p] EXCEPT !.stale = TRUE]]
          /\ rows' # rows
          /\ UNCHANGED healthy
    /\ UNCHANGED <<conc, todo>>

SignalsNext ==
    \/ gather \/ obey \/ embed
    \/ \E p \in Paths : UserEdits(p) \/ UserDeletes(p) \/ Ages(p)
    \/ Embeddings

\* The scheduler comes round and the vector worker drains its queue.
SignalsFairness ==
    WF_gvars(gather) /\ WF_gvars(obey) /\ WF_gvars(embed)

-----------------------------------------------------------------------------
(* Properties. *)

\* run_dream "No signals -> no run, no tokens": once the scope is left alone and the
\* embeddings backend answers, obeying the signals comes to an end, although every
\* repair is itself a put that restamps a concept, lengthens its chain of updates,
\* and may make another stale, orphaned or dangling.
DreamsSettle == <>[]healthy => <>[](Defects = {})
=============================================================================
