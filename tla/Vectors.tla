------------------------------ MODULE Vectors ------------------------------
(***************************************************************************)
(* Hybrid retrieval of one scope: the search_vectors rows, the decoded     *)
(* cache and the write queue (mycelium-store vectors.rs), the worker that  *)
(* keeps the rows in step with the concepts and with the admin's           *)
(* embeddings model (mycelium-librarian vector_worker.rs), its client      *)
(* (embeddings.rs), the probe of the embeddings backend (mycelium-web      *)
(* server.rs) and the vector side of a query (agent.rs).                   *)
(*                                                                         *)
(* The concept store appears only as far as the vector hooks see it: its   *)
(* file, registry and index steps, in order, with the hooks at their       *)
(* place.  Every await is a place where others run: a step is one SQL      *)
(* statement, one file access, one HTTP exchange or one critical section   *)
(* of a mutex.                                                             *)
(*                                                                         *)
(* A concept is a content; a vector is the content and the model it was    *)
(* made from, and its length is the model's.  Encryption, cosine values    *)
(* and ranks are left out: a query answers with all the rows it may use.   *)
(* The two reads of a backlog enumeration are one step.                    *)
(***************************************************************************)
EXTENDS Sequences, FiniteSets, SequencesExt, LlmHealth

CONSTANTS
    Paths,
    Contents,
    Active,        \* the contents whose lifecycle status is active
    Absent,        \* no file, no row, no configuration, no snapshot
    Models,
    DimsOf,        \* the length of a model's vectors
    Writers,       \* bound: store writes in flight at once
    Queries,       \* bound: queries in flight at once
    Capacity,      \* VECTOR_QUEUE_CAPACITY
    Batch,         \* EmbeddingsConfig::batch
    Attempts,      \* EMBED_ATTEMPTS
    Passes,        \* CACHE_BUILD_PASSES
    StalePerTick,  \* STALE_ROWS_PER_TICK
    Starts,        \* the stores a behaviour may start from
    MaxEvents      \* bound: writes, queries, saves, tests, faults, outages, restarts

ASSUME VectorAssumption ==
    /\ IsFiniteSet(Paths)
    /\ Active \subseteq Contents
    /\ Absent \notin Contents \cup Models
    /\ DimsOf \in [Models -> Nat \ {0}]
    /\ {Capacity, Batch, Attempts, Passes, StalePerTick} \subseteq Nat \ {0}
    /\ MaxEvents \in Nat

\* A start is a store at rest: what is embedded is the text of the file.
ASSUME StartsAssumption ==
    \A s \in Starts :
        /\ s.file \in [Paths -> Contents \cup {Absent}]
        /\ s.rows \in [Paths -> [of : Contents, model : Models, stale : BOOLEAN] \cup {Absent}]
        /\ s.config \in Models \cup {Absent}
        /\ \A p \in Paths : s.rows[p] # Absent /\ s.file[p] # Absent => s.rows[p].of = s.file[p]

VARIABLES
    file, registry, doc,   \* the concept store: files, scope_files, search_docs
    rows,                  \* search_vectors
    config,                \* the model of the stored embeddings row
    queue,                 \* VECTOR_QUEUE
    epoch, cache,          \* CACHE_EPOCH, SCOPE_VECTORS
    health, learned,       \* EMBEDDING_HEALTH, EMBEDDING_DIMS
    worker, probe,         \* the two background tasks
    writer, query,         \* the requests in flight
    backend,               \* whether the embeddings endpoint answers
    \* history
    events,                \* what MaxEvents bounds
    lost,                  \* paths whose embed request was dropped, and not made again
    torn                   \* paths whose search row changed without an invalidation

store   == <<file, registry, doc>>
memory  == <<queue, epoch, cache, health, learned, worker, probe>>
history == <<events, lost, torn>>
vvars    == <<store, rows, config, memory, writer, query, backend, history>>

-----------------------------------------------------------------------------
(* Types *)

Row  == [of : Contents, model : Models, stale : BOOLEAN]
Pair == [path : Paths, of : Contents]

\* A decoded snapshot, with the epoch its build started from.
Snapshot == [entries : SUBSET [path : Paths, model : Models], epoch : Nat]

Worker == [at : {"idle", "mark", "drain", "list", "load", "belt", "embed", "upsert",
                 "requeue", "bump", "remove", "stale", "backlog", "sweepDoc", "sweepRow", "boot"},
           phase : {"drain", "rebuild", "boot"}, flag : BOOLEAN, boot : BOOLEAN,
           model : Models \cup {Absent}, learned : Nat, listed : SUBSET Paths,
           todo : Seq(Paths), pairs : Seq(Pair), chunk : Seq(Pair), tries : 0 .. Attempts,
           parked : Seq(Paths), wrote : BOOLEAN]

Rested == [at |-> "idle", phase |-> "drain", flag |-> TRUE, boot |-> FALSE, model |-> Absent,
           learned |-> 0, listed |-> {}, todo |-> <<>>, pairs |-> <<>>, chunk |-> <<>>,
           tries |-> 0, parked |-> <<>>, wrote |-> FALSE]

Write == [at : {"write", "register", "index", "enqueue", "unregister", "unindex", "unlink",
                "removeRow", "bump", "remove"},
          path : Paths, of : Contents \cup {Absent}]

Query == [at : {"lookup", "actives", "rows", "install", "map"}, model : Models,
          pass : 0 .. Passes, epoch : Nat, actives : SUBSET Paths,
          entries : SUBSET [path : Paths, model : Models],
          banned : SUBSET Paths]

\* Absent is an Option's None: no record.
ASSUME AbsentAssumption ==
    Absent \notin Row /\ Absent \notin Snapshot /\ Absent \notin Write /\ Absent \notin Query

VectorsTypeOK ==
    /\ file \in [Paths -> Contents \cup {Absent}] /\ doc \in [Paths -> Contents \cup {Absent}]
    /\ registry \in SUBSET Paths
    /\ rows \in [Paths -> Row \cup {Absent}] /\ config \in Models \cup {Absent}
    /\ queue \in Seq(Paths) /\ IsInjective(queue) /\ Len(queue) <= Capacity
    /\ epoch \in Nat /\ (cache = Absent \/ cache \in Snapshot)
    /\ health \in HealthInner /\ learned \in {0} \cup {DimsOf[m] : m \in Models}
    /\ worker \in Worker /\ probe \in Models \cup {Absent}
    /\ writer \in [Writers -> Write \cup {Absent}] /\ query \in [Queries -> Query \cup {Absent}]
    /\ backend \in BOOLEAN /\ events \in 0 .. MaxEvents
    /\ lost \subseteq Paths /\ torn \subseteq Paths

Paid   == events < MaxEvents /\ events' = events + 1
Unpaid == UNCHANGED events

-----------------------------------------------------------------------------
(* The queue: deduplicated, bounded, refusing the newest. *)

enqueue_write(q, p) ==
    IF p \in ToSet(q) \/ Len(q) >= Capacity THEN q ELSE Append(q, p)

\* What a request leaves in `lost`: nothing if it is queued now.
Refused(q, p) == IF p \in ToSet(enqueue_write(q, p)) THEN lost \ {p} ELSE lost \cup {p}

-----------------------------------------------------------------------------
(* The cache.  invalidate_scope bumps the epoch, and only then takes the   *)
(* mutex and removes the snapshot.                                         *)

Bump == epoch' = epoch + 1 /\ UNCHANGED cache

RemoveSnapshot == cache' = Absent /\ UNCHANGED epoch

\* Writes of other scopes bump the same epoch.
BumpElsewhere ==
    /\ Paid /\ Bump
    /\ UNCHANGED <<store, rows, config, queue, health, learned, worker, probe, writer, query,
                   backend, lost, torn>>

-----------------------------------------------------------------------------
(* The concept store's hooks. *)

Busy(p) == \E t \in Writers : writer[t] # Absent /\ writer[t].path = p

StartPut(t, p, c) ==
    /\ writer[t] = Absent /\ Paid
    /\ writer' = [writer EXCEPT ![t] = [at |-> "write", path |-> p, of |-> c]]
    /\ UNCHANGED <<store, rows, config, memory, query, backend, lost, torn>>

\* A concept that is not there fails before any step.
StartDelete(t, p) ==
    /\ writer[t] = Absent /\ file[p] # Absent /\ Paid
    /\ writer' = [writer EXCEPT ![t] = [at |-> "unregister", path |-> p, of |-> Absent]]
    /\ UNCHANGED <<store, rows, config, memory, query, backend, lost, torn>>

\* The effect on the store of the step a write is at, and the next step.
StoreStep(w) ==
    CASE w.at = "write"      -> [file |-> w.of, next |-> "register"]
      [] w.at = "register"   -> [registered |-> TRUE, next |-> "index"]
      [] w.at = "index"      -> [doc |-> w.of, next |-> "enqueue"]
      [] w.at = "unregister" -> [registered |-> FALSE, next |-> "unindex"]
      [] w.at = "unindex"    -> [doc |-> Absent, next |-> "unlink"]
      [] w.at = "unlink"     -> [file |-> Absent, next |-> "removeRow"]

\* An active concept is no longer banned from the answers of queries.
Unban(p, c) ==
    query' = [q \in Queries |->
                IF query[q] # Absent /\ c \in Active
                THEN [query[q] EXCEPT !.banned = @ \ {p}] ELSE query[q]]

StoreWrite(t) ==
    LET w == writer[t] IN
    /\ w # Absent /\ w.at \in {"write", "register", "index", "unregister", "unindex", "unlink"}
    /\ LET s == StoreStep(w) IN
       /\ file' = IF "file" \in DOMAIN s THEN [file EXCEPT ![w.path] = s.file] ELSE file
       /\ doc' = IF "doc" \in DOMAIN s THEN [doc EXCEPT ![w.path] = s.doc] ELSE doc
       /\ registry' = IF "registered" \notin DOMAIN s THEN registry
                      ELSE IF s.registered THEN registry \cup {w.path} ELSE registry \ {w.path}
       /\ writer' = [writer EXCEPT ![t].at = s.next]
       /\ IF w.at = "index" THEN Unban(w.path, w.of) ELSE UNCHANGED query
    /\ UNCHANGED <<rows, config, memory, backend, history>>

PutHook(t) ==
    LET w == writer[t] IN
    /\ w # Absent /\ w.at = "enqueue"
    /\ queue' = enqueue_write(queue, w.path) /\ lost' = Refused(queue, w.path)
    /\ writer' = [writer EXCEPT ![t].at = "bump"]
    /\ UNCHANGED <<store, rows, config, epoch, cache, health, learned, worker, probe, query,
                   backend, events, torn>>

remove_row(p) == rows' = [rows EXCEPT ![p] = Absent]

\* A put that overtook the delete loses the row of its text.
DeleteHook(t) ==
    LET w == writer[t] IN
    /\ w # Absent /\ w.at = "removeRow"
    /\ remove_row(w.path)
    /\ lost' = IF file[w.path] = Absent THEN lost ELSE lost \cup {w.path}
    /\ writer' = [writer EXCEPT ![t].at = "bump"]
    /\ UNCHANGED <<store, config, memory, query, backend, events, torn>>

Invalidate(t) ==
    LET w == writer[t] IN
    /\ w # Absent /\ w.at \in {"bump", "remove"}
    /\ IF w.at = "bump"
       THEN Bump /\ writer' = [writer EXCEPT ![t].at = "remove"]
       ELSE RemoveSnapshot /\ writer' = [writer EXCEPT ![t] = Absent]
    /\ UNCHANGED <<store, rows, config, queue, health, learned, worker, probe, query, backend,
                   events, lost, torn>>

\* A statement fails or the request is dropped.
AbortWrite(t) ==
    /\ writer[t] # Absent /\ writer[t].at # "remove" /\ Paid
    /\ writer' = [writer EXCEPT ![t] = Absent]
    /\ torn' = torn \cup {writer[t].path}
    /\ lost' = IF writer[t].at \in {"register", "index", "enqueue"}
               THEN lost \cup {writer[t].path} ELSE lost
    /\ UNCHANGED <<store, rows, config, memory, query, backend>>

-----------------------------------------------------------------------------
(* The embeddings client: every caller's exchange feeds the health machine *)
(* and, when it succeeds, the learned length.                              *)

record_emb_success(m) == learned' = DimsOf[m] /\ health' = NoteOk(health)

record_outcome == health' = NoteFailure(health) /\ UNCHANGED learned

\* An endpoint that answers badly (a 4xx, a malformed batch) says nothing of
\* its health.
embed_batch(m, ok) ==
    \/ ok /\ backend /\ record_emb_success(m) /\ Unpaid
    \/ ~ok /\ ~backend /\ record_outcome /\ Unpaid
    \/ ~ok /\ backend /\ UNCHANGED <<health, learned>> /\ Paid

-----------------------------------------------------------------------------
(* The query side.                                                         *)

\* Rows no finished write left active: not to be answered any more.
Retired == {p \in Paths : doc[p] \notin Active /\ p \notin torn /\ ~Busy(p)}

\* cross_scope_hits in Auto mode: a vector question needs a configured, not
\* Red, backend, and its embedding; otherwise the answer is lexical.
Ask(q) ==
    /\ query[q] = Absent /\ events < MaxEvents
    /\ config # Absent /\ BackendState(health) \in {"green", "yellow"}
    /\ backend /\ record_emb_success(config) /\ events' = events + 1
    /\ query' = [query EXCEPT ![q] =
                   [at |-> "lookup", model |-> config, pass |-> 0, epoch |-> 0, actives |-> {},
                    entries |-> {}, banned |-> Retired]]
    /\ UNCHANGED <<store, rows, config, queue, epoch, cache, worker, probe, writer, backend,
                   lost, torn>>

\* The question's embedding fails: a lexical answer.
AskLexical ==
    /\ config # Absent /\ BackendState(health) \in {"green", "yellow"} /\ ~backend
    /\ events < MaxEvents /\ record_outcome /\ events' = events + 1
    /\ UNCHANGED <<store, rows, config, queue, epoch, cache, worker, probe, writer, query, backend,
                   lost, torn>>

SetQuery(q, rec) ==
    /\ query' = [query EXCEPT ![q] = rec]
    /\ UNCHANGED <<store, rows, config, queue, epoch, health, learned, worker, probe, writer,
                   backend, history>>

\* cache_scope: a hit, or the first pass of a build.
Lookup(q) ==
    LET r == query[q] IN
    /\ r # Absent /\ r.at = "lookup"
    /\ SetQuery(q, IF cache # Absent
                   THEN [r EXCEPT !.at = "map", !.entries = cache.entries]
                   ELSE [r EXCEPT !.at = "actives", !.epoch = epoch])
    /\ UNCHANGED cache

\* fetch_kept: the active concepts, then their fresh rows.
FetchActives(q) ==
    LET r == query[q] IN
    /\ r # Absent /\ r.at = "actives"
    /\ SetQuery(q, [r EXCEPT !.at = "rows", !.actives = {p \in Paths : doc[p] \in Active}])
    /\ UNCHANGED cache

\* The mutant keeps the rows of every concept.
FetchRowsUnfiltered(q) ==
    LET r == query[q] IN
    /\ r # Absent /\ r.at = "rows"
    /\ SetQuery(q, [r EXCEPT !.at = "install", !.actives = {},
                      !.entries = {[path |-> p, model |-> rows[p].model] :
                                     p \in {p \in Paths : rows[p] # Absent /\ ~rows[p].stale}}])
    /\ UNCHANGED cache

FetchRows(q) ==
    LET r == query[q] IN
    /\ r # Absent /\ r.at = "rows"
    /\ SetQuery(q, [r EXCEPT !.at = "install", !.actives = {},
                      !.entries = {[path |-> p, model |-> rows[p].model] :
                                     p \in {p \in r.actives : rows[p] # Absent /\ ~rows[p].stale}}])
    /\ UNCHANGED cache

\* The re-check and the installation share one critical section.
Install(q) ==
    LET r == query[q] IN
    /\ r # Absent /\ r.at = "install"
    /\ IF epoch = r.epoch
       THEN /\ cache' = [entries |-> r.entries, epoch |-> r.epoch]
            /\ SetQuery(q, [r EXCEPT !.at = "map"])
       ELSE /\ SetQuery(q, IF r.pass + 1 < Passes
                           THEN [r EXCEPT !.at = "actives", !.pass = @ + 1, !.epoch = epoch]
                           ELSE [r EXCEPT !.at = "map"])
            /\ UNCHANGED cache

\* The rest of top_cosine: the rows of the question's model, by the registry.
Hits(r) == {e.path : e \in {e \in r.entries : e.model = r.model}} \cap registry

Answer(q) ==
    /\ query[q] # Absent /\ query[q].at = "map"
    /\ SetQuery(q, Absent)
    /\ UNCHANGED cache

-----------------------------------------------------------------------------
(* The admin's page and the probe. *)

SaveEmbeddings(m) ==
    /\ config # m /\ Paid
    /\ config' = m
    /\ UNCHANGED <<store, rows, memory, writer, query, backend, lost, torn>>

\* admin_test_embeddings: the stored model, or the form's when none is stored.
TestEmbeddings(m) ==
    /\ config \in {m, Absent} /\ events < MaxEvents /\ events' = events + 1
    /\ IF backend THEN record_emb_success(m) ELSE record_outcome
    /\ UNCHANGED <<store, rows, config, queue, epoch, cache, worker, probe, writer, query, backend,
                   lost, torn>>

\* probe_tick_embedding, up to the request.
ProbeTick ==
    /\ probe = Absent
    /\ health' = IF config = Absent THEN SetDisabled(health) ELSE NoteConfigured(health)
    /\ probe' = config
    /\ UNCHANGED <<store, rows, config, queue, epoch, cache, learned, worker, writer, query,
                   backend, history>>

ProbeAnswer ==
    /\ probe # Absent /\ probe' = Absent
    /\ IF backend THEN record_emb_success(probe) ELSE record_outcome
    /\ UNCHANGED <<store, rows, config, queue, epoch, cache, worker, writer, query, backend, history>>

-----------------------------------------------------------------------------
(* The worker.  Its phases share the loading, embedding and sweeping steps.*)

\* What most steps of the worker leave alone.
WorkerOnly == UNCHANGED <<file, registry, config, probe, writer, query, backend>>

Still == UNCHANGED <<doc, torn, rows, queue, epoch, cache, health, learned, lost>>

Quiet == Still /\ Unpaid

\* The mutant takes the boot flag whatever it reads.
TickTakingFlag ==
    /\ worker.at = "idle"
    /\ IF config = Absent
       THEN health' = SetDisabled(health) /\ worker' = [worker EXCEPT !.flag = FALSE]
       ELSE health' = NoteConfigured(health) /\ worker' = [worker EXCEPT !.at = "mark", !.model = config]
    /\ WorkerOnly /\ UNCHANGED <<doc, torn, rows, queue, epoch, cache, learned, events, lost>>

\* read_config
Tick ==
    /\ worker.at = "idle"
    /\ IF config = Absent
       THEN health' = SetDisabled(health) /\ UNCHANGED worker
       ELSE health' = NoteConfigured(health) /\ worker' = [worker EXCEPT !.at = "mark", !.model = config]
    /\ WorkerOnly /\ UNCHANGED <<doc, torn, rows, queue, epoch, cache, learned, events, lost>>

\* Rows of another model, or of another length than the one learned last.
mark_corpus_stale(m, dims) ==
    rows' = [p \in Paths |->
               IF rows[p] # Absent /\ (rows[p].model # m \/ DimsOf[rows[p].model] # dims)
               THEN [rows[p] EXCEPT !.stale = TRUE] ELSE rows[p]]

\* The prologue; its statement may fail.
MarkStale ==
    /\ worker.at = "mark"
    /\ \/ learned # 0 /\ mark_corpus_stale(worker.model, learned) /\ Unpaid
       \/ learned = 0 /\ UNCHANGED rows /\ Unpaid
       \/ learned # 0 /\ UNCHANGED rows /\ Paid
    /\ worker' = [worker EXCEPT !.at = "drain", !.learned = learned]
    /\ WorkerOnly /\ UNCHANGED <<doc, torn, queue, epoch, cache, health, learned, lost>>

\* A Red backend ends the tick and leaves the boot flag; otherwise the flag
\* is taken and the queue drained.
Drain ==
    /\ worker.at = "drain"
    /\ IF BackendState(health) = "red"
       THEN worker' = [Rested EXCEPT !.flag = worker.flag] /\ UNCHANGED queue
       ELSE /\ queue' = <<>>
            /\ worker' = [worker EXCEPT !.flag = FALSE, !.boot = worker.flag, !.phase = "drain",
                            !.at = IF queue = <<>> THEN "stale" ELSE "list", !.todo = queue]
    /\ WorkerOnly /\ UNCHANGED <<doc, torn, rows, epoch, cache, health, learned, events, lost>>

\* The registry of the drained scope.  A scope whose key or listing fails has
\* its items dropped.
List ==
    /\ worker.at = "list"
    /\ \/ worker' = [worker EXCEPT !.at = "load", !.listed = registry] /\ Unpaid /\ UNCHANGED lost
       \/ /\ worker' = [worker EXCEPT !.at = "stale", !.todo = <<>>]
          /\ Paid /\ lost' = lost \cup ToSet(worker.todo)
    /\ WorkerOnly /\ UNCHANGED <<doc, torn, rows, queue, epoch, cache, health, learned>>

\* What is due once the paths of a phase are loaded.
Loaded(w) == [w EXCEPT !.at = "embed", !.listed = {}]

\* One path: read its concept, or find that it is gone.
Load ==
    LET p == Head(worker.todo)  rest == [worker EXCEPT !.todo = Tail(@)] IN
    /\ worker.at = "load"
    /\ IF worker.todo = <<>>
       THEN worker' = (IF worker.phase = "boot" THEN [Rested EXCEPT !.flag = worker.flag]
                       ELSE Loaded(worker))
            /\ UNCHANGED <<queue, lost>>
       ELSE CASE worker.phase = "drain" /\ (p \notin worker.listed \/ file[p] = Absent) ->
                   worker' = [worker EXCEPT !.at = "belt"] /\ UNCHANGED <<queue, lost>>
              [] worker.phase # "drain" /\ file[p] = Absent ->
                   worker' = [worker EXCEPT !.at = "sweepDoc"] /\ UNCHANGED <<queue, lost>>
              [] worker.phase = "boot" /\ file[p] # Absent ->
                   /\ worker' = rest
                   /\ queue' = enqueue_write(queue, p) /\ lost' = Refused(queue, p)
              [] OTHER ->
                   /\ worker' = [rest EXCEPT !.pairs = Append(@, [path |-> p, of |-> file[p]])]
                   /\ UNCHANGED <<queue, lost>>
    /\ WorkerOnly /\ UNCHANGED <<doc, torn, rows, epoch, cache, health, learned, events>>

\* A concept that is there and cannot be read is skipped.
SkipUnloadable ==
    LET p == Head(worker.todo) IN
    /\ worker.at = "load" /\ worker.todo # <<>> /\ file[p] # Absent
    /\ worker.phase = "drain" => p \in worker.listed
    /\ Paid
    /\ worker' = [worker EXCEPT !.todo = Tail(@)]
    /\ lost' = IF worker.phase = "rebuild" THEN lost ELSE lost \cup {p}
    /\ WorkerOnly /\ UNCHANGED <<doc, torn, rows, queue, epoch, cache, health, learned>>

\* The belt (a token that leads to no concept) and the sweep of a dead path;
\* a removal that fails is only logged.
Belt ==
    /\ worker.at \in {"belt", "sweepRow"}
    /\ \/ remove_row(Head(worker.todo)) /\ Unpaid
       \/ UNCHANGED rows /\ Paid
    /\ worker' = [worker EXCEPT !.at = "load", !.todo = Tail(@)]
    /\ WorkerOnly /\ UNCHANGED <<doc, torn, queue, epoch, cache, health, learned, lost>>

\* The sweep does not invalidate.
SweepDoc ==
    LET p == Head(worker.todo) IN
    /\ worker.at = "sweepDoc"
    /\ \/ /\ doc' = [doc EXCEPT ![p] = Absent] /\ Unpaid
          /\ torn' = IF doc[p] = Absent THEN torn ELSE torn \cup {p}
       \/ UNCHANGED <<doc, torn>> /\ Paid
    /\ worker' = [worker EXCEPT !.at = "sweepRow"]
    /\ WorkerOnly /\ UNCHANGED <<rows, queue, epoch, cache, health, learned, lost>>

\* The end of embed_and_upsert: what was not embedded is parked, and the
\* rebuild forgets it.
Parked(w) == w.parked \o [i \in 1 .. Len(w.pairs) |-> w.pairs[i].path]

\* The mutant forgets what it parked.
FinishEmbedDropping ==
    /\ worker.at = "embed" /\ worker.chunk = <<>>
    /\ worker.pairs = <<>> \/ BackendState(health) = "red"
    /\ worker' = [worker EXCEPT !.at = "requeue", !.pairs = <<>>, !.tries = 0, !.parked = <<>>]
    /\ WorkerOnly /\ Quiet

FinishEmbed ==
    /\ worker.at = "embed" /\ worker.chunk = <<>>
    /\ worker.pairs = <<>> \/ BackendState(health) = "red"
    /\ worker' = [worker EXCEPT !.at = "requeue", !.pairs = <<>>, !.tries = 0,
                    !.parked = IF worker.phase = "drain" THEN Parked(worker) ELSE <<>>]
    /\ WorkerOnly /\ Quiet

\* The drain queues what it parked, path by path; then both phases invalidate
\* once if a row was written.
Requeue ==
    LET p == Head(worker.parked) IN
    /\ worker.at = "requeue"
    /\ IF worker.parked = <<>>
       THEN /\ worker' = [worker EXCEPT !.wrote = FALSE,
                            !.at = IF worker.wrote THEN "bump"
                                   ELSE IF worker.phase = "drain" THEN "stale" ELSE "boot"]
            /\ UNCHANGED <<queue, lost>>
       ELSE /\ worker' = [worker EXCEPT !.parked = Tail(@)]
            /\ queue' = enqueue_write(queue, p) /\ lost' = Refused(queue, p)
    /\ WorkerOnly /\ UNCHANGED <<doc, torn, rows, epoch, cache, health, learned, events>>

\* One attempt on one batch.  The Red verdict is looked at before every
\* attempt; a batch out of attempts is parked and the next one tried.
Embed ==
    LET n     == IF Len(worker.pairs) < Batch THEN Len(worker.pairs) ELSE Batch
        chunk == SubSeq(worker.pairs, 1, n)
        given == [worker EXCEPT !.pairs = SubSeq(@, n + 1, Len(@)), !.tries = 0] IN
    /\ worker.at = "embed" /\ worker.chunk = <<>> /\ worker.pairs # <<>>
    /\ BackendState(health) # "red"
    /\ \/ /\ embed_batch(worker.model, TRUE)
          /\ worker' = [given EXCEPT !.at = "upsert", !.chunk = chunk]
       \/ /\ embed_batch(worker.model, FALSE)
          /\ worker' = IF worker.tries + 1 < Attempts
                       THEN [worker EXCEPT !.tries = @ + 1]
                       ELSE [given EXCEPT !.parked = @ \o [i \in 1 .. n |-> chunk[i].path]]
    /\ WorkerOnly /\ UNCHANGED <<doc, torn, rows, queue, epoch, cache, lost>>

\* A completed upsert clears the stale mark; one that fails is skipped.
Upsert ==
    LET e == Head(worker.chunk) IN
    /\ worker.at = "upsert"
    /\ \/ /\ rows' = [rows EXCEPT ![e.path] = [of |-> e.of, model |-> worker.model, stale |-> FALSE]]
          /\ worker' = [worker EXCEPT !.chunk = Tail(@), !.wrote = TRUE,
                          !.at = IF Len(worker.chunk) = 1 THEN "embed" ELSE "upsert"]
          /\ Unpaid /\ UNCHANGED lost
       \/ /\ UNCHANGED rows /\ Paid
          /\ worker' = [worker EXCEPT !.chunk = Tail(@),
                          !.at = IF Len(worker.chunk) = 1 THEN "embed" ELSE "upsert"]
          /\ lost' = lost \cup {e.path}
    /\ WorkerOnly /\ UNCHANGED <<doc, torn, queue, epoch, cache, health, learned>>

WorkerInvalidate ==
    /\ worker.at \in {"bump", "remove"}
    /\ IF worker.at = "bump"
       THEN Bump /\ worker' = [worker EXCEPT !.at = "remove"]
       ELSE /\ RemoveSnapshot
            /\ worker' = [worker EXCEPT !.at = IF worker.phase = "drain" THEN "stale" ELSE "boot"]
    /\ WorkerOnly /\ UNCHANGED <<doc, torn, rows, queue, health, learned, events, lost>>

\* rebuild_stale_scopes: nothing to do without a stale row; the lookup may fail.
FindStale ==
    /\ worker.at = "stale"
    /\ \/ /\ Unpaid
          /\ worker' = [worker EXCEPT !.phase = "rebuild",
                          !.at = IF \E p \in Paths : rows[p] # Absent /\ rows[p].stale
                                 THEN "backlog" ELSE "boot"]
       \/ Paid /\ worker' = [worker EXCEPT !.phase = "rebuild", !.at = "boot"]
    /\ WorkerOnly /\ Still

\* Indexed concepts without a fresh row of the model and, once one is
\* learned, of its length.
backlog_paths(m, dims) ==
    {p \in Paths :
       /\ doc[p] # Absent
       /\ \/ rows[p] = Absent
          \/ rows[p] # Absent /\ (rows[p].stale \/ rows[p].model # m)
          \/ rows[p] # Absent /\ dims # 0 /\ DimsOf[rows[p].model] # dims}

\* The enumeration is in path order; which order is the caller's.
Ordered(ps) == SetToSeq(ps)

Backlog ==
    LET due == Ordered(backlog_paths(worker.model, learned)) IN
    /\ worker.at = "backlog"
    /\ \/ /\ Unpaid
          /\ worker' = [worker EXCEPT !.at = "load",
                          !.todo = SubSeq(due, 1, IF Len(due) < StalePerTick THEN Len(due)
                                                  ELSE StalePerTick)]
       \/ Paid /\ worker' = [worker EXCEPT !.at = "boot"]
    /\ WorkerOnly /\ Still

\* enqueue_boot_backlog, once per process.  A scope whose enumeration fails
\* waits for the next boot.
BootBacklog ==
    LET due == backlog_paths(worker.model, worker.learned) IN
    /\ worker.at = "boot"
    /\ IF ~worker.boot
       THEN worker' = [Rested EXCEPT !.flag = worker.flag] /\ Unpaid /\ UNCHANGED lost
       ELSE \/ /\ worker' = [worker EXCEPT !.at = "load", !.phase = "boot", !.todo = Ordered(due)]
               /\ Unpaid /\ UNCHANGED lost
            \/ /\ worker' = [Rested EXCEPT !.flag = worker.flag]
               /\ Paid /\ lost' = lost \cup due
    /\ WorkerOnly /\ UNCHANGED <<doc, torn, rows, queue, epoch, cache, health, learned>>

WorkerStep ==
    \/ Tick \/ MarkStale \/ Drain \/ List \/ Load \/ SkipUnloadable \/ Belt \/ SweepDoc
    \/ FinishEmbed \/ Requeue \/ Embed \/ Upsert \/ WorkerInvalidate \/ FindStale \/ Backlog \/ BootBacklog

-----------------------------------------------------------------------------
(* The environment. *)

Weather ==
    /\ backend' = ~backend
    /\ IF backend THEN Paid ELSE Unpaid
    /\ UNCHANGED <<store, rows, config, memory, writer, query, lost, torn>>

\* Requests whose vector work a dying process takes with it.
InHand == ToSet(queue) \cup ToSet(worker.todo) \cup {e.path : e \in ToSet(worker.pairs \o worker.chunk)}
          \cup ToSet(worker.parked)
          \cup {writer[t].path : t \in {t \in Writers : writer[t] # Absent}}

\* The process dies and boots: main pins the machine Disabled, and the sync
\* lifts the pin if a row is stored.
Restart ==
    /\ Paid
    /\ queue' = <<>> /\ epoch' = 0 /\ cache' = Absent /\ learned' = 0
    /\ health' = IF config = Absent THEN SetDisabled(FreshHealth) ELSE FreshHealth
    /\ worker' = Rested /\ probe' = Absent
    /\ writer' = [t \in Writers |-> Absent] /\ query' = [q \in Queries |-> Absent]
    /\ lost' = lost \cup InHand /\ torn' = {}
    /\ UNCHANGED <<store, rows, config, backend>>

-----------------------------------------------------------------------------
VectorsInit ==
    /\ \E s \in Starts :
         /\ file = s.file /\ doc = s.file /\ rows = s.rows /\ config = s.config
         /\ registry = {p \in Paths : s.file[p] # Absent}
         /\ health = IF s.config = Absent THEN SetDisabled(FreshHealth) ELSE FreshHealth
    /\ queue = <<>> /\ epoch = 0 /\ cache = Absent /\ learned = 0
    /\ worker = Rested /\ probe = Absent
    /\ writer = [t \in Writers |-> Absent] /\ query = [q \in Queries |-> Absent]
    /\ backend = TRUE /\ events = 0 /\ lost = {} /\ torn = {}

WriterStep(t) ==
    \/ \E p \in Paths : StartDelete(t, p) \/ \E c \in Contents : StartPut(t, p, c)
    \/ StoreWrite(t) \/ PutHook(t) \/ DeleteHook(t) \/ Invalidate(t) \/ AbortWrite(t)

QueryStep(q) ==
    Ask(q) \/ Lookup(q) \/ FetchActives(q) \/ FetchRows(q) \/ Install(q) \/ Answer(q)

VectorsNext ==
    \/ \E t \in Writers : WriterStep(t)
    \/ \E q \in Queries : QueryStep(q)
    \/ WorkerStep \/ ProbeTick \/ ProbeAnswer
    \/ \E m \in Models : SaveEmbeddings(m) \/ TestEmbeddings(m)
    \/ AskLexical \/ BumpElsewhere \/ Weather \/ Restart

\* The worker and the probe are loops of the runtime; a write that was
\* started runs on.
VectorsFairness ==
    /\ WF_vvars(WorkerStep) /\ WF_vvars(ProbeTick) /\ WF_vvars(ProbeAnswer)
    /\ \A t \in Writers : WF_vvars(StoreWrite(t) \/ PutHook(t) \/ DeleteHook(t) \/ Invalidate(t))

VectorsSpec == VectorsInit /\ [][VectorsNext]_vvars /\ VectorsFairness

-----------------------------------------------------------------------------
(* Properties *)

\* A query that starts when a concept is retired or deleted, and no write of
\* it is unfinished, does not answer with it: neither a hit in the cache nor a
\* build racing the write's invalidation brings its row back.
NoRetiredAnswer ==
    [][\A q \in Queries : Answer(q) => Hits(query[q]) \cap query[q].banned = {}]_vvars

\* Some write of the path has changed its text and not queued it yet.
Putting(p) ==
    \E t \in Writers : /\ writer[t] # Absent /\ writer[t].path = p
                      /\ writer[t].at \in {"register", "index", "enqueue"}

\* A request that is not lost sight of, or is counted as dropped.
Requested(p) == p \in ToSet(queue) \cup lost \/ Putting(p)

\* The drain is going to embed the present text of the path, or to queue it again.
InDrain(p) ==
    /\ worker.phase = "drain"
    /\ \/ p \in ToSet(worker.todo) \cup ToSet(worker.parked)
       \/ [path |-> p, of |-> file[p]] \in ToSet(worker.pairs) \cup ToSet(worker.chunk)

\* A row in use that was made from an older text is going to be made again:
\* its path is queued, in the hands of the drain, or about to be queued by the
\* write that changed the text, unless that request was dropped.
RowsCurrent ==
    \A p \in Paths :
        rows[p] # Absent /\ ~rows[p].stale /\ file[p] # Absent /\ p \in registry =>
            rows[p].of = file[p] \/ Requested(p) \/ InDrain(p)

\* What a live concept ends up with: a fresh row of the configured model.
Embedded(p) ==
    /\ rows[p] # Absent /\ rows[p].model = config /\ ~rows[p].stale /\ rows[p].of = file[p]

Live(p) == p \in registry /\ file[p] # Absent /\ doc[p] # Absent

\* Once there is a configuration and its backend answers, every live concept whose request
\* was not dropped is embedded by the configured model: model changes, outages
\* and restarts at any point are made up for.
CatchesUp ==
    <>[](config # Absent /\ backend) => <>[](\A p \in Paths : Live(p) /\ p \notin lost => Embedded(p))
=============================================================================
