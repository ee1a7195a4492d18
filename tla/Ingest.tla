------------------------------- MODULE Ingest -------------------------------
(***************************************************************************)
(* Book ingest: the upload handler (mycelium-web api.rs), the librarian    *)
(* worker with its per-user slots and its pending sweep (mycelium-         *)
(* librarian worker.rs), the stack text and the catalog (ingest.rs), the   *)
(* books and ingest_jobs tables (mycelium-store books.rs), and the boot    *)
(* pass (mycelium-server main.rs).                                         *)
(*                                                                         *)
(* An upload is one request of Owner[u] for the book Slug[u]; its job has  *)
(* its name.  The runners of jobs are the uploads, each of its own job,    *)
(* and the sweep, of every pending one.  Every await is a step.  A client  *)
(* that disconnects drops its handler where it stands.  Uploads,           *)
(* faults of the database or the disk, disconnects and restarts are        *)
(* bounded together.                                                       *)
(***************************************************************************)
EXTENDS BookText, TLC

CONSTANTS
    Uploads,
    Users,
    Slugs,
    Owner,            \* Uploads -> Users
    Slug,             \* Uploads -> Slugs
    Books,            \* the texts the uploads may carry
    None,
    MaxUploads,       \* bound: uploads
    MaxIngestEvents   \* bound: uploads, faults, disconnects and restarts

ASSUME IngestAssumption ==
    /\ Owner \in [Uploads -> Users] /\ Slug \in [Uploads -> Slugs]
    /\ None \notin Uploads \cup Users \cup {"nil"} /\ "sweep" \notin Uploads
    /\ Books \subseteq Seq(Line)
    /\ {MaxUploads, MaxIngestEvents} \subseteq Nat

VARIABLES
    text,       \* the markdown the uploads carry
    book,       \* books: the upload whose row has the slug (UNIQUE), or None
    job,        \* ingest_jobs: the status of each job, "none" without a row
    slot,       \* user_slots: None, "nil" or a job
    staged,     \* the jobs with a staged text
    stack, hub, chap,   \* whose stack text, hub concept and chapter concepts a slug has
    runner,     \* where each runner stands
    \* history
    mishaps,    \* what MaxIngestEvents bounds
    leftover,   \* a boot pass was cut short
    crossed     \* slugs whose book a replace took apart under a job, or only in part

tables == <<book, job>>
files  == <<stack, hub, chap>>
ivars  == <<text, tables, slot, staged, files, runner, mishaps, leftover, crossed>>

Runners == Uploads \cup {"sweep"}

\* With part of the bound spent already.
IngestStart(texts, spent) ==
    /\ text \in texts
    /\ book = [s \in Slugs |-> None]
    /\ job = [u \in Uploads |-> "none"]
    /\ slot = [w \in Users |-> None]
    /\ staged = {}
    /\ stack = [s \in Slugs |-> None] /\ hub = stack /\ chap = stack
    /\ runner = [r \in Runners |-> [at |-> IF r = "sweep" THEN "idle" ELSE "new", job |-> r, todo |-> {}]]
    /\ mishaps = spent /\ leftover = FALSE /\ crossed = {}

Mishap == mishaps < MaxIngestEvents /\ mishaps' = mishaps + 1
Fine   == UNCHANGED mishaps

At(r, place) == runner[r].at = place
Goes(r, place) == runner' = [runner EXCEPT ![r].at = place]

\* run_job returns: Ok goes on with the sweep's pass, an error ends the pass;
\* the upload handler answers either way.
Returns(r)   == Goes(r, IF r = "sweep" THEN "next" ELSE "end")
ReturnsErr(r) == Goes(r, IF r = "sweep" THEN "idle" ELSE "end")

\* Some job of the slug is being ingested, or its text is staged.
Busy(s) ==
    \/ \E r \in Runners : runner[r].at \in {"take", "stack", "hub", "chapters"} /\ Slug[runner[r].job] = s
    \/ \E u \in staged : Slug[u] = s

-----------------------------------------------------------------------------
(* The upload handler up to submit. *)

\* api_upload_book: the form is valid; "replace" or not.
api_upload_book(u) ==
    /\ At(u, "new")
    /\ Cardinality({v \in Uploads : ~At(v, "new")}) < MaxUploads
    /\ \E next \in {"delete row", "reserve"} : Goes(u, next)
    /\ Mishap
    /\ UNCHANGED <<text, tables, slot, staged, files, leftover, crossed>>

\* Replace: the row goes with its jobs (ON DELETE CASCADE); an error is ignored.
delete_book_row(u) ==
    /\ At(u, "delete row")
    /\ Goes(u, "delete catalog")
    /\ \/ /\ book' = [book EXCEPT ![Slug[u]] = None]
          /\ job' = [v \in Uploads |-> IF book[Slug[u]] = v THEN "none" ELSE job[v]]
          /\ crossed' = IF Busy(Slug[u]) THEN crossed \cup {Slug[u]} ELSE crossed
          /\ Fine
       \/ /\ Mishap
          /\ crossed' = crossed \cup {Slug[u]}
          /\ UNCHANGED tables
    /\ UNCHANGED <<text, slot, staged, files, leftover>>

\* delete_book: the concepts, then the stack text; an error is ignored.  A row
\* created meanwhile loses what it wrote.
delete_catalog(u) ==
    /\ At(u, "delete catalog")
    /\ Goes(u, "delete stack")
    /\ \/ /\ hub' = [hub EXCEPT ![Slug[u]] = None]
          /\ chap' = [chap EXCEPT ![Slug[u]] = None]
          /\ Fine
       \/ Mishap /\ UNCHANGED <<hub, chap>>
    /\ crossed' = IF book[Slug[u]] # None THEN crossed \cup {Slug[u]} ELSE crossed
    /\ UNCHANGED <<text, tables, slot, staged, stack, leftover>>

delete_stack(u) ==
    /\ At(u, "delete stack")
    /\ Goes(u, "reserve")
    /\ \/ stack' = [stack EXCEPT ![Slug[u]] = None] /\ Fine
       \/ Mishap /\ UNCHANGED stack
    /\ crossed' = IF book[Slug[u]] # None THEN crossed \cup {Slug[u]} ELSE crossed
    /\ UNCHANGED <<text, tables, slot, staged, hub, chap, leftover>>

-----------------------------------------------------------------------------
(* submit. *)

SlotFree(u) == slot[Owner[u]] = None

\* Mutant: the check and the reservation are no longer one critical section.
reserve_slot_unchecked(u) ==
    /\ At(u, "reserve")
    /\ slot' = [slot EXCEPT ![Owner[u]] = "nil"]
    /\ Goes(u, "create book")
    /\ Fine
    /\ UNCHANGED <<text, tables, staged, files, leftover, crossed>>

reserve_slot(u) ==
    /\ At(u, "reserve")
    /\ \/ /\ SlotFree(u)
          /\ slot' = [slot EXCEPT ![Owner[u]] = "nil"]
          /\ Goes(u, "create book")
       \/ /\ ~SlotFree(u)          \* UserBusy
          /\ Goes(u, "end")
          /\ UNCHANGED slot
    /\ Fine
    /\ UNCHANGED <<text, tables, staged, files, leftover, crossed>>

create_book(u) ==
    /\ At(u, "create book")
    /\ \/ /\ book[Slug[u]] = None
          /\ book' = [book EXCEPT ![Slug[u]] = u]
          /\ Goes(u, "create job")
          /\ Fine
       \/ /\ book[Slug[u]] # None \* DuplicateSlug
          /\ Goes(u, "release")
          /\ Fine /\ UNCHANGED book
       \/ Mishap /\ Goes(u, "release") /\ UNCHANGED book
    /\ UNCHANGED <<text, job, slot, staged, files, leftover, crossed>>

\* The row of the book may be gone again: then the foreign key refuses.
create_ingest_job(u) ==
    /\ At(u, "create job")
    /\ \/ /\ book[Slug[u]] = u
          /\ job' = [job EXCEPT ![u] = "pending"]
          /\ Goes(u, "stage")
          /\ Fine
       \/ book[Slug[u]] # u /\ Fine /\ Goes(u, "release") /\ UNCHANGED job
       \/ Mishap /\ Goes(u, "release") /\ UNCHANGED job
    /\ UNCHANGED <<text, book, slot, staged, files, leftover, crossed>>

stage_text(u) ==
    /\ At(u, "stage")
    /\ staged' = staged \cup {u}
    /\ Goes(u, "slot")
    /\ Fine
    /\ UNCHANGED <<text, tables, slot, files, leftover, crossed>>

\* Point the reserved slot at the job; the handler then runs it.
point_slot(u) ==
    /\ At(u, "slot")
    /\ slot' = [slot EXCEPT ![Owner[u]] = u]
    /\ Goes(u, "load")
    /\ Fine
    /\ UNCHANGED <<text, tables, staged, files, leftover, crossed>>

-----------------------------------------------------------------------------
(* The sweep. *)

\* Mutant: the sweep lists only the jobs whose text is staged.
spawn_staged ==
    /\ At("sweep", "idle")
    /\ \E u \in staged : job[u] = "pending"
    /\ runner' = [runner EXCEPT !["sweep"] = [at |-> "next", job |-> "sweep",
                                              todo |-> {u \in staged : job[u] = "pending"}]]
    /\ Fine
    /\ UNCHANGED <<text, tables, slot, staged, files, leftover, crossed>>

\* spawn: a tick lists the pending jobs.
spawn ==
    /\ At("sweep", "idle")
    /\ \E u \in Uploads : job[u] = "pending"
    /\ runner' = [runner EXCEPT !["sweep"] = [at |-> "next", job |-> "sweep",
                                              todo |-> {u \in Uploads : job[u] = "pending"}]]
    /\ Fine
    /\ UNCHANGED <<text, tables, slot, staged, files, leftover, crossed>>

run_pending ==
    /\ At("sweep", "next")
    /\ \/ \E u \in runner["sweep"].todo :
             runner' = [runner EXCEPT !["sweep"] = [at |-> "load", job |-> u, todo |-> runner["sweep"].todo \ {u}]]
       \/ runner["sweep"].todo = {} /\ Goes("sweep", "idle")
    /\ Fine
    /\ UNCHANGED <<text, tables, slot, staged, files, leftover, crossed>>

-----------------------------------------------------------------------------
(* run_job. *)

\* No row: return, the slot untouched.
load_job(r) ==
    /\ At(r, "load")
    /\ \/ job[runner[r].job] # "none" /\ Goes(r, "claim") /\ Fine
       \/ job[runner[r].job] = "none" /\ Returns(r) /\ Fine
       \/ Mishap /\ ReturnsErr(r)
    /\ UNCHANGED <<text, tables, slot, staged, files, leftover, crossed>>

claim_ingest_job(r) ==
    /\ At(r, "claim")
    /\ LET u == runner[r].job IN
       \/ /\ job[u] = "pending"
          /\ job' = [job EXCEPT ![u] = "running"]
          /\ Goes(r, "take") /\ Fine
       \/ job[u] # "pending" /\ Returns(r) /\ Fine /\ UNCHANGED job
       \/ Mishap /\ ReturnsErr(r) /\ UNCHANGED job
    /\ UNCHANGED <<text, book, slot, staged, files, leftover, crossed>>

\* No staged text: the job fails.
take_staged(r) ==
    /\ At(r, "take")
    /\ LET u == runner[r].job IN
       /\ staged' = staged \ {u}
       /\ Goes(r, IF u \in staged THEN "stack" ELSE "fail")
    /\ Fine
    /\ UNCHANGED <<text, tables, slot, files, leftover, crossed>>

\* The catalog is built first: an LLM failure falls back to the outline.
write_stack_text(r) ==
    /\ At(r, "stack")
    /\ \/ /\ stack' = [stack EXCEPT ![Slug[runner[r].job]] = runner[r].job]
          /\ Goes(r, "hub") /\ Fine
       \/ Mishap /\ Goes(r, "fail") /\ UNCHANGED stack
    /\ UNCHANGED <<text, tables, slot, staged, hub, chap, leftover, crossed>>

\* NoChapters, or the hub of the batch.
write_catalog_hub(r) ==
    /\ At(r, "hub")
    /\ LET u == runner[r].job IN
       \/ /\ parse_outline(text) # {}
          /\ hub' = [hub EXCEPT ![Slug[u]] = u]
          /\ Goes(r, "chapters") /\ Fine
       \/ parse_outline(text) = {} /\ Goes(r, "fail") /\ Fine /\ UNCHANGED hub
       \/ Mishap /\ Goes(r, "fail") /\ UNCHANGED hub
    /\ UNCHANGED <<text, tables, slot, staged, stack, chap, leftover, crossed>>

\* Mutant: a failed catalog write is only logged.
write_catalog_logged(r) ==
    /\ At(r, "chapters")
    /\ \/ /\ chap' = [chap EXCEPT ![Slug[runner[r].job]] = runner[r].job]
          /\ Fine
       \/ Mishap /\ UNCHANGED chap
    /\ Goes(r, "done")
    /\ UNCHANGED <<text, tables, slot, staged, stack, hub, leftover, crossed>>

write_catalog(r) ==
    /\ At(r, "chapters")
    /\ \/ /\ chap' = [chap EXCEPT ![Slug[runner[r].job]] = runner[r].job]
          /\ Goes(r, "done") /\ Fine
       \/ Mishap /\ Goes(r, "fail") /\ UNCHANGED chap
    /\ UNCHANGED <<text, tables, slot, staged, stack, hub, leftover, crossed>>

\* A row deleted meanwhile is not updated; a database error skips the release.
update_ingest_job(r) ==
    /\ \E p \in {<<"done", "done">>, <<"fail", "failed">>} :
          /\ At(r, p[1])
          /\ LET u == runner[r].job IN
             \/ /\ job' = [job EXCEPT ![u] = IF @ = "none" THEN @ ELSE p[2]]
                /\ Goes(r, "release") /\ Fine
             \/ Mishap /\ ReturnsErr(r) /\ UNCHANGED job
    /\ UNCHANGED <<text, book, slot, staged, files, leftover, crossed>>

\* By user, not by job.
release_slot(r) ==
    /\ At(r, "release")
    /\ slot' = [slot EXCEPT ![Owner[runner[r].job]] = None]
    /\ Returns(r)
    /\ Fine
    /\ UNCHANGED <<text, tables, staged, files, leftover, crossed>>

-----------------------------------------------------------------------------

\* The client goes away: its handler is dropped at the await it stands at.
Disconnect(u) ==
    /\ runner[u].at \notin {"new", "end"}
    /\ Mishap
    /\ Goes(u, "end")
    /\ UNCHANGED <<text, tables, slot, staged, files, leftover, crossed>>

\* The process stops and boots: slots and staged texts are gone.  Before it
\* serves, the boot pass fails the running jobs, then runs the pending ones, which
\* fail without their text.  A database error ends the pass where it stands.
Open == {u \in Uploads : job[u] \in {"pending", "running"}}

BootPass ==
    LET Closed(left) == [u \in Uploads |-> IF u \in Open \ left THEN "failed" ELSE job[u]]
        pending == {u \in Uploads : job[u] = "pending"}
    IN {job}                                         \* fail_stale_running_jobs failed
       \cup {Closed(left) : left \in SUBSET pending} \* {}: the whole pass
       \cup UNION {{[Closed(left) EXCEPT ![u] = "running"] : u \in left} : left \in SUBSET pending}

recover_on_boot ==
    /\ Mishap
    /\ slot' = [w \in Users |-> None] /\ staged' = {}
    /\ runner' = [r \in Runners |-> [at   |-> IF r = "sweep" THEN "idle"
                                              ELSE IF At(r, "new") THEN "new" ELSE "end",
                                     job  |-> r, todo |-> {}]]
    /\ job' \in BootPass
    /\ leftover' = (leftover \/ \E u \in Uploads : job'[u] \in {"pending", "running"})
    /\ UNCHANGED <<text, book, files, crossed>>

run_job(r) ==
    \/ load_job(r) \/ claim_ingest_job(r) \/ take_staged(r) \/ write_stack_text(r)
    \/ write_catalog_hub(r) \/ write_catalog(r) \/ update_ingest_job(r) \/ release_slot(r)

Sweep == spawn \/ run_pending \/ run_job("sweep")

IngestNext ==
    \/ Sweep
    \/ \E u \in Uploads :
          \/ api_upload_book(u) \/ delete_book_row(u) \/ delete_catalog(u) \/ delete_stack(u)
          \/ reserve_slot(u) \/ create_book(u) \/ create_ingest_job(u) \/ stage_text(u)
          \/ point_slot(u) \/ run_job(u) \/ Disconnect(u)
    \/ recover_on_boot

\* The sweep ticks every minute and its steps all end; an upload may be dropped.
IngestFairness == WF_ivars(Sweep)

-----------------------------------------------------------------------------
(* Properties. *)

\* worker.rs "One ingest job per user at a time (DESIGN)": two jobs of one user
\* never write at once, whatever the sweep, the uploads, disconnects and restarts
\* do; only a boot pass that was cut short leaves jobs whose failure releases a
\* slot that is not theirs.
OneIngestPerUser ==
    \A r, q \in Runners :
        /\ r # q /\ ~leftover
        /\ {runner[r].at, runner[q].at} \subseteq {"stack", "hub", "chapters"}
        => Owner[runner[r].job] # Owner[runner[q].job]

\* The whole book is the upload's.
Whole(u) == {stack[Slug[u]], hub[Slug[u]], chap[Slug[u]]} = {u}

LinkHits(t, link) ==
    LET p == extract_passage(t, link.anchor) IN p # NotFound /\ p.from = link.line

Sound(t) ==
    /\ \A c \in build_catalog(t) :
          LinkHits(t, [anchor |-> c.resource, line |-> c.line]) /\ \A l \in c.links : LinkHits(t, l)

\* The texts for which links can be asked to resolve: 1-based ids, no blanks after an id, no
\* id twice.
WellFormed(t) ==
    LET H == collect_headings(t) IN
    \A i \in H :
        /\ ~t[i].loose
        /\ t[i].id.of = "sec" => t[i].id.s > 0
        /\ \A j \in H \ {i} : t[i].id = t[j].id => t[i].id = NoId

\* A job that says done (update_ingest_job) left the whole book behind it: its
\* stack text, hub and chapters, as long as its row stands and no replace took the
\* book apart; and every book:// link of the catalog resolves in the stack text, to
\* its own heading (build_chapter_concept "so every link resolves").
DoneMeansWhole ==
    \A u \in Uploads :
        job[u] = "done" /\ book[Slug[u]] = u /\ Slug[u] \notin crossed
        => /\ Whole(u)
           /\ WellFormed(text) => Sound(text)

\* spawn "a later tick re-runs anything still pending": a job left pending, by a
\* boot pass that failed or an upload that was dropped, does not wait for a restart:
\* again and again no job is pending.
PendingResolves == []<>(\A u \in Uploads : job[u] # "pending")

=============================================================================
