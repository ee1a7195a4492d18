----------------------------- MODULE Librarian -----------------------------
(***************************************************************************)
(* The librarian over one user's bundle (mycelium-librarian): the agent's  *)
(* tool-call loop (agent.rs) in its query, mutation and chat modes, the    *)
(* cost layers of a query (query_cache.rs, hot_memory.rs) behind the       *)
(* memory_query tool (mycelium-mcp tools.rs), the deterministic fallback   *)
(* (fallback.rs) and the run traces (trace.rs).                            *)
(*                                                                         *)
(* What the model says is free: every request may fail, ask for up to      *)
(* MaxCalls tools or answer.  Every await is a place where other runs go   *)
(* on.  A store put or delete is one step here (ConceptStore looks inside) *)
(* that may fail before or after its file write.  Texts are model values;  *)
(* the gate admits or refuses (LlmGate looks inside); clocks appear as an  *)
(* entry that may or may not have expired.                                 *)
(***************************************************************************)
EXTENDS Conversation, TLC

CONSTANTS
    Runs,
    KindsOf,       \* what each run may be
    Paths,         \* a base path and its "-2", in the order direct_write_add tries them
    Texts,
    Absent,
    Slugs,         \* the books of the library
    MaxSteps,      \* MAX_STEPS, or the cap of the queue drain
    MaxCalls,      \* bound: tool calls in one reply
    MaxHot,        \* MAX_CONCEPTS, MAX_QAS
    MaxEntries,    \* MAX_ENTRIES of the exact cache
    MaxTraces,     \* the traces a scope keeps
    MaxEvents,     \* bound: store writes, shelf changes, faults and further requests
    Question, Answer, Call, Small, Big   \* lengths of the turns

ASSUME LibrarianAssumption ==
    /\ Absent \notin Texts
    /\ {MaxSteps, MaxCalls, MaxHot, MaxEntries, MaxTraces} \subseteq Nat \ {0}
    /\ {MaxEvents, Question, Answer, Call, Small, Big} \subseteq Nat

VARIABLES
    texts,     \* the concept files
    stamps,    \* updated_at of the registry rows, 0 where there is none
    clock,     \* the next updated_at
    shelves,   \* the books on global-read shelves
    hot,       \* HOT of the scope
    cache,     \* CACHE
    traces,    \* agent_traces of the scope, newest last
    runs,
    \* history
    events,    \* what MaxEvents bounds
    half,      \* a write failed between its file and its registry row
    served     \* the last answer of the exact cache, with the bundle it was asked of

store == <<texts, stamps, clock>>
vars  == <<store, shelves, hot, cache, traces, runs, events, half, served>>

NoKey  == [p \in ToSet(Paths) |-> -1]
NoMem  == [concepts |-> <<>>, qas |-> <<>>]

\* One run: its place, the bundle and key it started from, its conversation,
\* what it holds between two steps, and the library books it has been shown.
Fresh == [at |-> "new", kind |-> "query", vis |-> {}, key |-> NoKey, base |-> [p \in ToSet(Paths) |-> Absent],
          turns |-> <<>>, step |-> 0, todo |-> <<>>, mem |-> NoMem, op |-> [do |-> "none"],
          then |-> "done", path |-> Absent, held |-> Absent, seen |-> {}]

Init ==
    /\ \E x \in Texts \cup {Absent} :
          /\ texts = [p \in ToSet(Paths) |-> IF p = Head(Paths) THEN x ELSE Absent]
          /\ stamps = [p \in ToSet(Paths) |-> IF texts[p] = Absent THEN 0 ELSE 1]
    /\ clock = 2
    /\ shelves \in SUBSET Slugs
    /\ hot = NoMem /\ cache = {} /\ traces = <<>>
    /\ runs = [r \in Runs |-> Fresh]
    /\ events = 0 /\ half = FALSE /\ served = {}

Paid   == events < MaxEvents /\ events' = events + 1
Unpaid == UNCHANGED events

Moves(r, new) == runs' = [runs EXCEPT ![r] = new]

-----------------------------------------------------------------------------
(* The store: a write succeeds, fails before its file, or after it. *)

\* put of text x, or delete (x = Absent), at p; its outcome.
Puts(p, x, outcome) ==
    CASE outcome = "ok"   -> /\ texts' = [texts EXCEPT ![p] = x]
                             /\ stamps' = [stamps EXCEPT ![p] = IF x = Absent THEN 0 ELSE clock]
                             /\ clock' = IF x = Absent THEN clock ELSE clock + 1
                             /\ UNCHANGED half
      [] outcome = "err"  -> UNCHANGED <<store, half>>
      [] outcome = "half" -> /\ texts' = [texts EXCEPT ![p] = x]
                             /\ half' = TRUE
                             /\ UNCHANGED <<stamps, clock>>

Outcomes == {"ok", "err", "half"}

\* Another surface writes without a hot-memory hook (the web editor, a restore).
WriteElsewhere(p, x) ==
    /\ Paid
    /\ x # texts[p]
    /\ Puts(p, x, "ok")
    /\ UNCHANGED <<shelves, hot, cache, traces, runs, served>>

\* An admin moves a book on or off the global-read shelves.
ShelveElsewhere(s) ==
    /\ Paid
    /\ shelves' = IF s \in shelves THEN shelves \ {s} ELSE shelves \cup {s}
    /\ UNCHANGED <<store, hot, cache, traces, runs, half, served>>

-----------------------------------------------------------------------------
(* Hot memory.  state_for takes the scope's state out of the map and       *)
(* put_state puts the changed one in: two critical sections.               *)

Bounded(s) == IF Len(s) > MaxHot THEN SubSeq(s, Len(s) - MaxHot + 1, Len(s)) ELSE s

record_hot_write(m, p) ==
    [concepts |-> Bounded(Append(SelectSeq(m.concepts, LAMBDA q : q # p), p)), qas |-> <<>>]

record_hot_delete(m, p) ==
    [concepts |-> SelectSeq(m.concepts, LAMBDA q : q # p), qas |-> <<>>]

record_hot_query(m, base) == [m EXCEPT !.qas = Bounded(Append(@, base))]

hot_drop(m, p) == [m EXCEPT !.concepts = SelectSeq(@, LAMBDA q : q # p)]

Recorded(m, op) ==
    CASE op.do = "write"  -> record_hot_write(m, op.path)
      [] op.do = "delete" -> record_hot_delete(m, op.path)
      [] op.do = "query"  -> record_hot_query(m, op.base)
      [] op.do = "drop"   -> hot_drop(m, op.path)

Hooked(run, op, then) == [run EXCEPT !.at = "hot take", !.op = op, !.then = then]

state_for(r) ==
    /\ runs[r].at = "hot take"
    /\ hot' = NoMem
    /\ Moves(r, [runs[r] EXCEPT !.at = "hot put", !.mem = hot])
    /\ Unpaid
    /\ UNCHANGED <<store, shelves, cache, traces, half, served>>

-----------------------------------------------------------------------------
(* The tool-call loop. *)

read_tool_specs == {"search_knowledge", "read_passage", "read_concept", "list_directory", "lint_knowledge"}
all_tool_specs  == read_tool_specs \cup {"write_concept", "patch_concept", "delete_concept"}

AllowWrites(run) == run.kind # "query"

\* The tool's result, or its error, goes back to the model as a turn.
Answered(run, size) ==
    [run EXCEPT !.turns = Append(@, [kind |-> "result", calls |-> <<Head(run.todo)>>, size |-> size]),
                !.todo = Tail(@), !.at = IF Len(run.todo) = 1 THEN "ask" ELSE "tool",
                !.path = Absent, !.held = Absent]

put_state(r) ==
    LET run == [runs[r] EXCEPT !.mem = NoMem, !.op = [do |-> "none"], !.then = "done"]
    IN  /\ run.at = "hot put"
        /\ hot' = Recorded(runs[r].mem, runs[r].op)
        /\ Moves(r, IF runs[r].then = "tool" THEN Answered(run, Small)
                    ELSE [run EXCEPT !.at = runs[r].then])
        /\ Unpaid
        /\ UNCHANGED <<store, shelves, cache, traces, half, served>>

\* A query degrades to ranked hits; the other runs report the error.
Aborted(run) == [run EXCEPT !.at = IF run.kind = "query" THEN "hits" ELSE "failed"]

Opened(run, turns) == [run EXCEPT !.at = "ask", !.turns = turns, !.step = 0]

UserTurn      == [kind |-> "user", calls |-> <<>>, size |-> Question]
AssistantTurn == [kind |-> "assistant", calls |-> <<>>, size |-> Answer]

\* The prompt lists the bundle first, which may fail.
Starts(r, kind, history) ==
    /\ runs[r].at = "new" /\ kind \in KindsOf[r]
    /\ \/ /\ Unpaid
          /\ Moves(r, Opened([runs[r] EXCEPT !.kind = kind, !.vis = shelves], history \o <<UserTurn>>))
       \/ /\ Paid
          /\ Moves(r, [runs[r] EXCEPT !.kind = kind, !.at = "failed"])
    /\ UNCHANGED <<store, shelves, hot, cache, traces, half, served>>

\* One mutation of the drain.
run_mutation(r) == Starts(r, "mutation", <<>>)

\* One chat turn over the session's earlier messages.
run_chat_streaming(r, history) == Starts(r, "chat", history)

\* The request fails, in transport or by its status: no trace is written.
LlmFails(r) ==
    /\ runs[r].at = "ask" /\ runs[r].step < MaxSteps
    /\ Paid
    /\ Moves(r, Aborted(runs[r]))
    /\ UNCHANGED <<store, shelves, hot, cache, traces, half, served>>

LlmCalls(r, n) ==
    LET ids == [i \in 1 .. n |-> <<runs[r].step, i>>]
    IN  /\ runs[r].at = "ask" /\ runs[r].step < MaxSteps
        /\ Moves(r, [runs[r] EXCEPT !.at = "tool", !.step = @ + 1, !.todo = ids,
                        !.turns = Append(@, [kind |-> "calls", calls |-> ids, size |-> n * Call])])
        /\ Unpaid
        /\ UNCHANGED <<store, shelves, hot, cache, traces, half, served>>

\* Insert, then prune to the newest; telemetry never fails the run.
save_trace(outcome) ==
    LET all == Append(traces, outcome)
    IN  \/ Unpaid /\ traces' = SubSeq(all, Max({1, Len(all) - MaxTraces + 1}), Len(all))
        \/ Paid /\ UNCHANGED traces

LlmAnswers(r) ==
    /\ runs[r].at = "ask" /\ runs[r].step < MaxSteps
    /\ save_trace("success")
    /\ Moves(r, IF runs[r].kind = "query" /\ runs[r].key # NoKey
                THEN Hooked(runs[r], [do |-> "query", base |-> runs[r].base], "insert")
                ELSE [runs[r] EXCEPT !.at = "done"])
    /\ UNCHANGED <<store, shelves, hot, cache, half, served>>

StepCapExceeded(r) ==
    /\ runs[r].at = "ask" /\ runs[r].step = MaxSteps
    /\ save_trace("failed")
    /\ Moves(r, Aborted(runs[r]))
    /\ UNCHANGED <<store, shelves, hot, cache, half, served>>

-----------------------------------------------------------------------------
(* The tools. *)

library_path_visible(run, s) == s \in run.vis

\* The sources of one search: lexical only, both fused, or vectors only.
FuseSources == {"lexical", "hybrid", "vectors"}

\* The mutant filters only the arm that existed first.
cross_scope_hits_in_arm(run, fuse, found) ==
    IF fuse = "lexical" THEN {s \in found : library_path_visible(run, s)} ELSE found

\* The books among the hits: each arm drops those the caller may not see, the
\* lexical one while it collects, the vector ones after the fusion.
cross_scope_hits(run, fuse, found) ==
    LET collected == IF fuse = "lexical" THEN {s \in found : library_path_visible(run, s)} ELSE found
    IN  IF fuse = "lexical" THEN collected
        ELSE {s \in collected : library_path_visible(run, s)}

Calling(r, tool) ==
    /\ runs[r].at = "tool"
    /\ tool \in IF AllowWrites(runs[r]) THEN all_tool_specs ELSE read_tool_specs

Tells(r, run, size) ==
    /\ Moves(r, Answered(run, size))
    /\ Unpaid
    /\ UNCHANGED <<store, shelves, hot, cache, traces, half, served>>

search_knowledge(r, fuse, found) ==
    /\ Calling(r, "search_knowledge")
    /\ Tells(r, [runs[r] EXCEPT !.seen = @ \cup cross_scope_hits(runs[r], fuse, found)], Big)

\* A path of the bundle, then of the skills shelf, then of a visible book.
read_concept(r, s) ==
    /\ Calling(r, "read_concept")
    /\ IF library_path_visible(runs[r], s)
       THEN Tells(r, [runs[r] EXCEPT !.seen = @ \cup {s}], Big)
       ELSE Tells(r, runs[r], Small)

list_directory(r) ==
    /\ Calling(r, "list_directory")
    /\ Tells(r, runs[r], Small)

lint_knowledge(r) ==
    /\ Calling(r, "lint_knowledge")
    /\ Tells(r, runs[r], Small)

read_passage(r, s) ==
    /\ Calling(r, "read_passage")
    /\ IF s \in runs[r].vis
       THEN Tells(r, [runs[r] EXCEPT !.seen = @ \cup {s}], Big)
       ELSE Tells(r, runs[r], Small)

\* Bad arguments, an unknown tool, or a write tool in a read-only run.
BadToolArgs(r) ==
    /\ runs[r].at = "tool"
    /\ Tells(r, runs[r], Small)

\* A store write of a run: on success its hook follows and then `next`, on an
\* error the run goes on as `failed` says.
Writes(r, p, x, hook, then, failed) ==
    /\ Paid
    /\ \E o \in Outcomes :
          /\ Puts(p, x, o)
          /\ Moves(r, IF o = "ok"
                      THEN Hooked(runs[r], [do |-> hook, path |-> p], then)
                      ELSE failed)
    /\ UNCHANGED <<shelves, hot, cache, traces, served>>

write_concept(r, p, x) ==
    /\ Calling(r, "write_concept")
    /\ Writes(r, p, x, "write", "tool", Answered(runs[r], Small))

\* get, then put of the merged concept.
patch_concept_get(r, p) ==
    /\ Calling(r, "patch_concept")
    /\ texts[p] # Absent
    /\ Moves(r, [runs[r] EXCEPT !.at = "patch", !.path = p, !.held = texts[p]])
    /\ Unpaid
    /\ UNCHANGED <<store, shelves, hot, cache, traces, half, served>>

patch_concept_put(r, x) ==
    /\ runs[r].at = "patch"
    /\ Writes(r, runs[r].path, x, "write", "tool", Answered(runs[r], Small))

delete_concept(r, p) ==
    /\ Calling(r, "delete_concept")
    /\ texts[p] # Absent
    /\ Writes(r, p, Absent, "delete", "tool", Answered(runs[r], Small))

execute_tool(r) ==
    \/ \E fuse \in FuseSources, found \in SUBSET Slugs : search_knowledge(r, fuse, found)
    \/ \E s \in Slugs : read_concept(r, s) \/ read_passage(r, s)
    \/ list_directory(r) \/ lint_knowledge(r) \/ BadToolArgs(r)
    \/ \E p \in ToSet(Paths) :
          \/ patch_concept_get(r, p) \/ delete_concept(r, p)
          \/ \E x \in Texts : write_concept(r, p, x)
    \/ \E x \in Texts : patch_concept_put(r, x)

-----------------------------------------------------------------------------
(* The cost layers of a query. *)

\* The mutant keys on the paths alone.
bundle_fingerprint_paths == [p \in ToSet(Paths) |-> IF stamps[p] = 0 THEN 0 ELSE 1]

bundle_fingerprint == stamps

\* The exact cache, at the fingerprint just read: a live entry answers and an
\* expired one is evicted.
lookup_exact(r, miss) ==
    LET found == {e \in cache : e.key = bundle_fingerprint}
    IN  \/ /\ found # {}
           /\ served' = {[base |-> e.base, now |-> texts] : e \in found}
           /\ Moves(r, [runs[r] EXCEPT !.at = "done"])
           /\ UNCHANGED cache
        \/ /\ cache' = cache \ found
           /\ Moves(r, miss)
           /\ UNCHANGED served

\* memory_query with synthesize: the cache is asked before anything is waited for.
cached_answer(r) ==
    /\ runs[r].at = "new" /\ "query" \in KindsOf[r]
    /\ lookup_exact(r, [runs[r] EXCEPT !.at = "scopes"])
    /\ Unpaid
    /\ UNCHANGED <<store, shelves, hot, traces, half>>

\* Without synthesize the tool goes straight to the hits.
memory_query_hits(r) ==
    /\ runs[r].at = "new" /\ "query" \in KindsOf[r]
    /\ Moves(r, [runs[r] EXCEPT !.at = "hits", !.vis = shelves])
    /\ Unpaid
    /\ UNCHANGED <<store, shelves, hot, cache, traces, half, served>>

\* The caller's visibility, read once, and the gate: a permit, or the wait bound.
agent_scopes(r) ==
    /\ runs[r].at = "scopes"
    /\ \E admin \in BOOLEAN, permit \in BOOLEAN :
          Moves(r, [runs[r] EXCEPT !.vis = IF admin THEN Slugs ELSE shelves,
                                   !.at = IF permit THEN "cached" ELSE "hits"])
    /\ Unpaid
    /\ UNCHANGED <<store, shelves, hot, cache, traces, half, served>>

\* The fingerprint and the exact cache again; without a fingerprint nothing is cached.
run_query_cached(r) ==
    /\ runs[r].at = "cached"
    /\ \/ Unpaid /\ lookup_exact(r, [runs[r] EXCEPT !.at = "hot", !.key = bundle_fingerprint, !.base = texts])
       \/ Paid /\ Moves(r, [runs[r] EXCEPT !.at = "deep"]) /\ UNCHANGED <<cache, served>>
    /\ UNCHANGED <<store, shelves, hot, traces, half>>

\* hot_lookup takes the state out of the map; the expired part is skipped.
hot_lookup(r) ==
    /\ runs[r].at = "hot"
    /\ \E i \in 1 .. Len(hot.concepts) + 1, j \in 1 .. Len(hot.qas) + 1 :
          Moves(r, [runs[r] EXCEPT !.at = "hot read",
                        !.todo = SubSeq(hot.concepts, i, Len(hot.concepts)),
                        !.held = IF j <= Len(hot.qas) THEN "sections" ELSE Absent])
    /\ hot' = NoMem
    /\ Unpaid
    /\ UNCHANGED <<store, shelves, cache, traces, half, served>>

\* Each hot concept is read afresh; one that is gone leaves the set.
hot_read(r) ==
    LET run == runs[r]
        p   == Head(run.todo)
    IN  /\ run.at = "hot read" /\ run.todo # <<>>
        /\ Moves(r, IF texts[p] # Absent
                    THEN [run EXCEPT !.todo = Tail(@), !.held = "sections"]
                    ELSE Hooked([run EXCEPT !.todo = Tail(@)], [do |-> "drop", path |-> p], "hot read"))
        /\ Unpaid
        /\ UNCHANGED <<store, shelves, hot, cache, traces, half, served>>

Cached(run) == {e \in cache : e.key # run.key} \cup {[key |-> run.key, base |-> run.base]}

\* One tool-free call over the excerpts: an answer is cached, UNKNOWN or an
\* error goes on to the deep run; without excerpts there is no call.
hot_answer(r) ==
    LET run == runs[r]
    IN  /\ run.at = "hot read" /\ run.todo = <<>>
        /\ \/ /\ run.held = "sections"
              /\ cache' = Cached(run)
              /\ Moves(r, [run EXCEPT !.at = "done", !.held = Absent])
           \/ /\ Moves(r, [run EXCEPT !.at = "deep", !.held = Absent])
              /\ UNCHANGED cache
        /\ Unpaid
        /\ UNCHANGED <<store, shelves, hot, traces, half, served>>

run_query(r) ==
    /\ runs[r].at = "deep"
    /\ \/ Unpaid /\ Moves(r, Opened(runs[r], <<UserTurn>>))
       \/ Paid /\ Moves(r, Aborted(runs[r]))
    /\ UNCHANGED <<store, shelves, hot, cache, traces, half, served>>

\* The deep answer joins the exact cache, which is then cut to its size.
InsertDeep(r) ==
    LET all == Cached(runs[r])
    IN  /\ runs[r].at = "insert"
        /\ \E kept \in SUBSET all :
              /\ Cardinality(kept) = Min({Cardinality(all), MaxEntries})
              /\ cache' = kept
        /\ Moves(r, [runs[r] EXCEPT !.at = "done"])
        /\ Unpaid
        /\ UNCHANGED <<store, shelves, hot, traces, half, served>>

\* The ranked hits of memory_query, under the visibility of its scopes.
memory_query(r, fuse, found) ==
    /\ runs[r].at = "hits"
    /\ Moves(r, [runs[r] EXCEPT !.at = "done",
                    !.seen = @ \cup cross_scope_hits(runs[r], fuse, found)])
    /\ Unpaid
    /\ UNCHANGED <<store, shelves, hot, cache, traces, half, served>>

-----------------------------------------------------------------------------
(* The deterministic fallback. *)

\* direct_write_add of text x starts at the base path.
StartAdd(r, x) ==
    /\ runs[r].at = "new" /\ "add" \in KindsOf[r]
    /\ Moves(r, [runs[r] EXCEPT !.kind = "add", !.at = "probe", !.step = 1, !.held = x])
    /\ Unpaid
    /\ UNCHANGED <<store, shelves, hot, cache, traces, half, served>>

\* The first path that is free or holds the same text.
direct_write_add_get(r) ==
    LET run == runs[r]
        p   == Paths[run.step]
    IN  /\ run.at = "probe"
        /\ \/ /\ texts[p] \in {Absent, run.held}
              /\ Moves(r, [run EXCEPT !.at = "add", !.path = p])
           \/ /\ texts[p] \notin {Absent, run.held} /\ run.step < Len(Paths)
              /\ Moves(r, [run EXCEPT !.step = @ + 1])
        /\ Unpaid
        /\ UNCHANGED <<store, shelves, hot, cache, traces, half, served>>

direct_write_add(r) ==
    /\ runs[r].at = "add"
    /\ Writes(r, runs[r].path, runs[r].held, "write", "done", [runs[r] EXCEPT !.at = "failed"])

\* dated_addendum_update: the path given, or the best match, is read ...
dated_addendum_get(r) ==
    /\ runs[r].at = "new" /\ "update" \in KindsOf[r]
    /\ \E p \in ToSet(Paths) :
          Moves(r, [runs[r] EXCEPT !.kind = "update", !.path = p, !.held = texts[p],
                        !.at = IF texts[p] = Absent THEN "failed" ELSE "update"])
    /\ Unpaid
    /\ UNCHANGED <<store, shelves, hot, cache, traces, half, served>>

\* ... and written back with the instruction appended.
dated_addendum_update(r) ==
    /\ runs[r].at = "update"
    /\ \E x \in Texts \ {runs[r].held} :
          Writes(r, runs[r].path, x, "write", "done", [runs[r] EXCEPT !.at = "failed"])

\* wire_and_flag_maintain: the repairs, from one scan of the bundle ...
maintain_scan(r) ==
    /\ runs[r].at = "new" /\ "maintain" \in KindsOf[r]
    /\ \E n \in 0 .. 2 : \E s \in [1 .. n -> {p \in ToSet(Paths) : texts[p] # Absent}] :
          Moves(r, [runs[r] EXCEPT !.kind = "maintain", !.at = "repair", !.todo = s])
    /\ Unpaid
    /\ UNCHANGED <<store, shelves, hot, cache, traces, half, served>>

\* ... are read again one by one; one that is gone or repaired is skipped ...
maintain_get(r) ==
    LET run == runs[r]
    IN  /\ run.at = "repair"
        /\ \/ run.todo = <<>> /\ Moves(r, [run EXCEPT !.at = "done"])
           \/ run.todo # <<>> /\ Moves(r, [run EXCEPT !.todo = Tail(@)])
           \/ /\ run.todo # <<>> /\ texts[Head(run.todo)] # Absent
              /\ Moves(r, [run EXCEPT !.at = "repair put", !.path = Head(run.todo), !.todo = Tail(@),
                                      !.held = texts[Head(run.todo)]])
        /\ Unpaid
        /\ UNCHANGED <<store, shelves, hot, cache, traces, half, served>>

\* ... and put; a put that fails is skipped.
wire_and_flag_maintain(r) ==
    /\ runs[r].at = "repair put"
    /\ \E x \in Texts \ {runs[r].held} :
          Writes(r, runs[r].path, x, "write", "repair", [runs[r] EXCEPT !.at = "repair"])

-----------------------------------------------------------------------------
\* A run is over and the next request takes its place.
NextRequest(r) ==
    /\ runs[r].at \in {"done", "failed"}
    /\ Paid
    /\ Moves(r, Fresh)
    /\ UNCHANGED <<store, shelves, hot, cache, traces, half, served>>

Histories == {<<>>, <<UserTurn, AssistantTurn>>, <<UserTurn, UserTurn, AssistantTurn>>}

Next ==
    \/ \E r \in Runs :
          \/ run_mutation(r) \/ \E h \in Histories : run_chat_streaming(r, h)
          \/ LlmFails(r) \/ LlmAnswers(r) \/ StepCapExceeded(r)
          \/ \E n \in 1 .. MaxCalls : LlmCalls(r, n)
          \/ execute_tool(r)
          \/ state_for(r) \/ put_state(r)
          \/ cached_answer(r) \/ memory_query_hits(r) \/ agent_scopes(r) \/ run_query_cached(r)
          \/ hot_lookup(r) \/ hot_read(r) \/ hot_answer(r) \/ run_query(r) \/ InsertDeep(r)
          \/ \E fuse \in FuseSources, found \in SUBSET Slugs : memory_query(r, fuse, found)
          \/ \E x \in Texts : StartAdd(r, x)
          \/ direct_write_add_get(r) \/ direct_write_add(r)
          \/ dated_addendum_get(r) \/ dated_addendum_update(r)
          \/ maintain_scan(r) \/ maintain_get(r) \/ wire_and_flag_maintain(r)
          \/ NextRequest(r)
    \/ \E p \in ToSet(Paths), x \in Texts \cup {Absent} : WriteElsewhere(p, x)
    \/ \E s \in Slugs : ShelveElsewhere(s)

Spec == Init /\ [][Next]_vars

-----------------------------------------------------------------------------
(* Properties *)

\* What every request must look like on the wire: a tool result follows the
\* assistant turn that asked for it, every call asked for is answered before
\* the next turn, and the newest user message is there, whatever was trimmed
\* from the front (agent.rs agent_loop_tracked and run_chat_streaming, llm.rs
\* trim_conversation).
RequestWellFormed ==
    \A r \in Runs : runs[r].at = "ask" /\ runs[r].step < MaxSteps =>
        LET sent  == chat_messages(runs[r].turns)
            asked == {i \in DOMAIN sent : sent[i].kind = "calls"}
            users == {i \in DOMAIN runs[r].turns : runs[r].turns[i].kind = "user"}
        IN  /\ \A i \in asked :
                  LET n == Len(sent[i].calls)
                  IN  /\ i + n <= Len(sent)
                      /\ \A k \in 1 .. n : sent[i + k].kind = "result" /\ sent[i + k].calls = <<sent[i].calls[k]>>
            /\ \A j \in DOMAIN sent : sent[j].kind = "result" =>
                  \E i \in asked : j \in i + 1 .. i + Len(sent[i].calls)
            /\ Len(sent) > Len(runs[r].turns) - Max(users)

\* The exact cache answers for the bundle as it is: no write since the answered
\* run read its fingerprint is missing (query_cache.rs bundle_fingerprint,
\* lookup_exact), except where a put failed between its file and its row.
CacheNotOutdated == half \/ \A s \in served : s.base = s.now

\* No run is shown a book its caller could not see when its scopes were built,
\* on any of the four ways to the library: the two arms of the search, a
\* concept read and a passage (agent.rs library_path_visible).
NothingHidden == \A r \in Runs : runs[r].seen \subseteq runs[r].vis

=============================================================================
