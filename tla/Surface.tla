-------------------------------- MODULE Surface --------------------------------
(***************************************************************************)
(* The web surface over the concepts and their undo log (mycelium-web      *)
(* api.rs and pages.rs, over mycelium-store revisions.rs): the concept     *)
(* page with its revisions block and restore-confirm interstitial, the     *)
(* save, delete, activate and restore handlers, the revisions routes and   *)
(* browser, what a reader sees of the library's books, and the lifecycle   *)
(* configuration that bounds the log.                                      *)
(*                                                                         *)
(* A page lives in a browser: it outlasts every write, prune, retention    *)
(* change and restart between its rendering and the click on it.  One put, *)
(* delete or restore of the store is one step here; ConceptStore has their *)
(* own steps.  A concept is a body, numbered in the order of writing, and  *)
(* whether its status pauses it.  Concepts share nothing but the           *)
(* retention, and one is followed: a user's, the skills shelf's, a book's. *)
(***************************************************************************)
EXTENDS Integers, FiniteSets, FiniteSetsExt

CONSTANTS
    Readers, Admins,    \* the session users; the ones with the admin role
    Owners,             \* the users whose bundle is looked at
    Books,              \* book slugs, each with one chapter
    Nobody,             \* the owner of what is no user's
    Empty,              \* the payload of an undeleting restore
    NoConcept,
    Tunables, Log,      \* the lifecycle row's numbers; the one that bounds the log
    Low, High, Default, \* every number's accepted range and default
    MaxRecords,         \* bound: revisions recorded
    MaxSaves            \* bound: lifecycle saves

\* A concept's body and whether its status pauses it.
Concepts == [body : Nat, paused : BOOLEAN]

ASSUME SurfaceAssumption ==
    /\ Empty # NoConcept /\ {Empty, NoConcept} \cap Concepts = {}
    /\ Admins \cup Owners \subseteq Readers /\ Nobody \notin Readers /\ Log \in Tunables
    /\ Low \in Nat \ {0} /\ High \in Nat /\ Default \in Low .. High

VARIABLES
    at,         \* where the concept is: the scope and the user or the book
    text,       \* the live concept, or NoConcept
    chain,      \* its revisions: their number to their row
    shelf,      \* each book's shelf: "global", "private", or "none" when it has no row
    config,     \* the lifecycle row: its numbers (dream_enabled, which has no static, is Dream's)
    statics,    \* the process-global statics
    page,       \* the revisions each reader's browser displays, with their texts
    act,        \* each reader's activation between its read and its put
    \* history
    ever,       \* the texts that were live
    pruned,     \* the snapshots retention has dropped
    records,    \* revisions recorded
    saves       \* lifecycle saves

docs  == <<at, text, chain, ever, pruned, records>>
knobs == <<config, statics, saves>>
svars == <<docs, shelf, page, act, knobs>>

User(u)  == [scope |-> "user", of |-> u]
Skills   == [scope |-> "skills", of |-> Nobody]
Book(b)  == [scope |-> "library", of |-> b]
Places   == {User(u) : u \in Owners} \cup {Skills} \cup {Book(b) : b \in Books}

Admin(u) == u \in Admins

-----------------------------------------------------------------------------
(* The undo log. *)

MaxNo(rows) == IF DOMAIN rows = {} THEN 0 ELSE Max(DOMAIN rows)

\* Mutant: the range's floor is not enforced.
clamp_from_zero(v) == IF v > High THEN High ELSE v

clamp_retention(v) == IF v < Low THEN Low ELSE IF v > High THEN High ELSE v

\* The static is clamped when it is read, too.
revision_retention == clamp_retention(statics[Log])

retention_cutoff(max) == max - revision_retention

\* The number is MAX + 1; the insert and the prune are one transaction.
record_once(op, payload) ==
    LET no   == MaxNo(chain) + 1
        rows == [m \in DOMAIN chain \cup {no} |->
                    IF m = no THEN [op |-> op, payload |-> payload] ELSE chain[m]]
        keep == {m \in DOMAIN rows : m > retention_cutoff(no)}
    IN /\ records < MaxRecords /\ records' = records + 1
       /\ chain' = [m \in keep |-> rows[m]]
       /\ pruned' = pruned \cup {rows[m].payload : m \in DOMAIN rows \ keep}
       /\ UNCHANGED at

\* The chain, newest first, with the payload-emptiness flag.
list == {[no |-> m, empty |-> chain[m].payload = Empty] : m \in DOMAIN chain}

\* Every path with revisions and whether it is live.
list_paths(scope) ==
    IF at.scope = scope /\ DOMAIN chain # {} THEN {[place |-> at, live |-> text # NoConcept]} ELSE {}

-----------------------------------------------------------------------------
(* The store's calls.  A create row carries the content created, every     *)
(* other row what it replaces, an undeleting restore nothing.              *)

Becomes(c) == text' = c /\ ever' = ever \cup ({c} \ {NoConcept})

put(c) ==
    /\ IF text = NoConcept THEN record_once("create", c)
       ELSE record_once("update", text)
    /\ Becomes(c)

delete ==
    /\ text # NoConcept
    /\ record_once("delete", text)
    /\ Becomes(NoConcept)

\* Mutant: the row a restore records carries what it brings back.
restore_records_target(n) ==
    /\ record_once("restore", chain[n].payload)
    /\ Becomes(chain[n].payload)

\* What is replaced is recorded; nothing is when the concept was deleted.
restore(n) ==
    /\ record_once("restore", IF text = NoConcept THEN Empty ELSE text)
    /\ Becomes(chain[n].payload)

-----------------------------------------------------------------------------
(* Who reads what. *)

\* Mutant: any book that has a row.
library_path_known(u, b) == shelf[b] # "none"

\* The book's row, then its shelf's flag or the admin role.
library_path_visible(u, b) ==
    /\ shelf[b] # "none"
    /\ shelf[b] = "global" \/ Admin(u)

\* The list and snapshot routes.
read_gate_store_scope(u, pl) ==
    CASE pl.scope = "user" -> pl.of = u
      [] pl.scope = "skills" -> TRUE
      [] pl.scope = "library" -> library_path_visible(u, pl.of)

\* The index route and the browser page.
revisions_index_store(u, scope) == scope = "user" \/ Admin(u)

revisions_view(u, scope) ==
    IF revisions_index_store(u, scope)
    THEN {r \in list_paths(scope) : scope # "user" \/ r.place.of = u} ELSE {}

\* A row's title comes from its newest payload; only an empty one falls
\* back to the live concept's.
revisions_row_title(r) ==
    LET p == chain[MaxNo(chain)].payload
    IN IF p # Empty THEN p ELSE text

\* The allowlist of a search or a chat run; an admin has none.
visible_library_slugs(u) ==
    IF Admin(u) THEN Books ELSE {b \in Books : shelf[b] = "global"}

\* Live catalog concepts that pass the allowlist.
search_all_scopes(u) ==
    {User(u), Skills} \cup {Book(b) : b \in visible_library_slugs(u)}

\* The shelves a reader is shown, with their books.
books_view(u) ==
    {b \in Books : shelf[b] # "none" /\ (shelf[b] = "global" \/ Admin(u))}

resolve_passage(u, b) ==
    shelf[b] # "none" /\ ~(shelf[b] # "global" /\ ~Admin(u))

-----------------------------------------------------------------------------
(* Who writes what. *)

\* Save, delete and activate; the restore route has the same gate.
Editable(u) ==
    CASE at.scope = "user" -> at.of = u
      [] at.scope = "skills" -> Admin(u)
      [] at.scope = "library" -> FALSE

concept_is_paused(c) == c # NoConcept /\ c.paused

-----------------------------------------------------------------------------
(* The concept page. *)

\* A request's parameters; 0 is an absent number, on a compare the live text.
Queries ==
    LET nos == 0 .. MaxNo(chain) + 1
    IN {[revs |-> FALSE, n |-> 0, from |-> 0, to |-> 0]}
          \cup [revs : {TRUE}, n : nos, from : {0}, to : {0}]
          \cup {q \in [revs : {TRUE}, n : {0}, from : nos, to : nos] : q.from <= q.to}

\* A side of a compare: the live text, or a revision's snapshot.
diff_side_text(m) == IF m = 0 THEN text # NoConcept ELSE m \in DOMAIN chain

\* The interstitial for a revision that can be confirmed, then the compare
\* of two sides that resolve, then the list; nothing for an untracked path,
\* and on a live one unless it is asked for.
revisions_surface(u, q) ==
    LET confirm == Editable(u) /\ \E r \in list : r.no = q.n /\ ~r.empty
        diff    == {q.from, q.to} # {0} /\ \A m \in {q.from, q.to} : diff_side_text(m)
    IN IF list = {} \/ (text # NoConcept /\ ~q.revs) THEN "none"
       ELSE IF confirm THEN "confirm" ELSE IF diff THEN "diff" ELSE "list"

\* A live concept has its editor, a deleted one its history, an untracked
\* path neither (in the user's own bundle: the new-concept editor).
Opens(u, q) ==
    /\ read_gate_store_scope(u, at)
    /\ text # NoConcept \/ revisions_surface(u, q) # "none"

\* What the browser keeps: the revisions it displays, with their texts.
concept_view(u, q) ==
    LET mode == revisions_surface(u, q)
        nos  == CASE mode = "confirm" -> {q.n}
                  [] mode = "diff" -> {q.from, q.to} \ {0}
                  [] OTHER -> {}
    IN /\ page' = [page EXCEPT ![u] =
              IF ~Opens(u, q) \/ nos = {} THEN {}
              ELSE {<<m, chain[m].payload>> : m \in nos}]
       /\ UNCHANGED <<docs, shelf, act, knobs>>

\* Mutant: every row has its restore link.
link_on_every_row(u) == {<<"restore", m>> : m \in DOMAIN chain}

\* The restore link of a row that has a payload.
revision_row_cells(u) ==
    IF Editable(u) THEN {<<"restore", r.no>> : r \in {r \in list : ~r.empty}} ELSE {}

\* The buttons and links of a page as it is rendered.
concept_editor(u, q) ==
    LET mode == revisions_surface(u, q)
        grid == text # NoConcept /\ mode \in {"none", "list"}
    IN IF ~Opens(u, q) THEN {}
       ELSE (IF grid /\ Editable(u) THEN {<<"save">>, <<"delete">>} ELSE {})
            \cup (IF grid /\ Editable(u) /\ concept_is_paused(text)
                  THEN {<<"activate">>} ELSE {})
            \cup (CASE mode = "confirm" -> {<<"restore", q.n>>}
                    [] mode \in {"list", "diff"} -> revision_row_cells(u)
                    [] OTHER -> {})

-----------------------------------------------------------------------------
(* The handlers that write. *)

\* What the handlers take: a concept that is there; a revision that is
\* there (404) and parses (an empty one does not: 400).
Deletes(u)     == Editable(u) /\ text # NoConcept
Restores(u, n) == Editable(u) /\ n \in DOMAIN chain /\ chain[n].payload # Empty

NewText(p) == [body |-> records + 1, paused |-> p]

\* A form with any parsable text; the page it was edited on may be old.
concept_submit(u, p) ==
    /\ Editable(u)
    /\ put(NewText(p))
    /\ page' = [page EXCEPT ![u] = {}]
    /\ UNCHANGED <<shelf, act, knobs>>

concept_delete(u) ==
    /\ Deletes(u)
    /\ delete
    /\ page' = [page EXCEPT ![u] = {}]
    /\ UNCHANGED <<shelf, act, knobs>>

\* The REST twins reach the caller's own bundle, and leave the pages alone.
api_put_concept(u, p) ==
    /\ at = User(u)
    /\ put(NewText(p))
    /\ UNCHANGED <<shelf, page, act, knobs>>

api_delete_concept(u) ==
    /\ at = User(u)
    /\ delete
    /\ UNCHANGED <<shelf, page, act, knobs>>

\* The snapshot is read first and written after: a prune in between takes
\* the row and not the restore.
api_revisions_restore(u, n) ==
    /\ Restores(u, n)
    /\ restore(n)
    /\ page' = [page EXCEPT ![u] = {}]
    /\ UNCHANGED <<shelf, act, knobs>>

\* The activation reads the concept, and puts it back without its status:
\* what others did in between is replaced.
concept_activate(u) ==
    /\ Deletes(u) /\ act[u] = {}
    /\ act' = [act EXCEPT ![u] = {[text EXCEPT !.paused = FALSE]}]
    /\ UNCHANGED <<docs, shelf, page, knobs>>

activate_and_redirect(u) ==
    /\ \E c \in act[u] : put(c)
    /\ act' = [act EXCEPT ![u] = {}]
    /\ UNCHANGED <<shelf, page, knobs>>

\* The librarian writes and deletes in a user's bundle, too.
LibrarianWrites(p) ==
    /\ at.scope = "user"
    /\ put(NewText(p)) \/ (delete /\ p = FALSE)
    /\ UNCHANGED <<shelf, page, act, knobs>>

\* An upload registers a book on a shelf; the ingest writes its catalog.
create_book(b, s) ==
    /\ shelf[b] = "none"
    /\ shelf' = [shelf EXCEPT ![b] = s]
    /\ UNCHANGED <<docs, page, act, knobs>>

IngestWrites(b) ==
    /\ shelf[b] # "none"
    /\ put(NewText(FALSE))
    /\ UNCHANGED <<shelf, page, act, knobs>>

\* A replacing upload drops the row, then the catalog; it may be refused after.
delete_book_row(b) ==
    /\ shelf[b] # "none"
    /\ shelf' = [shelf EXCEPT ![b] = "none"]
    /\ UNCHANGED <<docs, page, act, knobs>>

delete_book(b) ==
    /\ shelf[b] = "none"
    /\ delete
    /\ UNCHANGED <<shelf, page, act, knobs>>

-----------------------------------------------------------------------------
(* The lifecycle row. *)

Raw == 0 .. High + 1            \* a number as submitted or as an older build stored it
Blank == -1

clamp(cfg) == [f \in Tunables |-> clamp_retention(cfg[f])]

\* An absent or blank number keeps the stored one.
lifecycle_u32_field(submitted, stored) == IF submitted = Blank THEN stored ELSE submitted

Forms == [Tunables -> Raw \cup {Blank}]

\* Each setter clamps.
set_tunables(cfg) == [f \in Tunables |-> clamp_retention(cfg[f])]

sync_lifecycle_from_store(cfg) == statics' = set_tunables(cfg)

\* The stored row is read, the form laid over it, the result clamped and
\* sealed, and the statics are stamped from the row.  (Two saves that overlap
\* leave the statics, or the row, at an older value in range.)
admin_save_lifecycle(form) ==
    /\ saves < MaxSaves /\ saves' = saves + 1
    /\ config' = clamp([f \in Tunables |-> lifecycle_u32_field(form[f], config[f])])
    /\ sync_lifecycle_from_store(config')
    /\ UNCHANGED <<docs, shelf, page, act>>

\* A restart drops the handlers, stamps the statics before anything writes
\* a concept, and leaves the pages in the browsers.
Restart ==
    /\ sync_lifecycle_from_store(config)
    /\ act' = [u \in Readers |-> {}]
    /\ UNCHANGED <<docs, shelf, page, config, saves>>

-----------------------------------------------------------------------------
SurfaceInit ==
    /\ at \in Places /\ text = NoConcept /\ chain = << >>
    /\ shelf = [b \in Books |-> "none"]
    \* a row an older build wrote may be out of range
    /\ config \in {[f \in Tunables |-> v] : v \in {Default, 0}}
    /\ statics = set_tunables(config)
    /\ page = [u \in Readers |-> {}]
    /\ act = [u \in Readers |-> {}]
    /\ ever = {} /\ pruned = {}
    /\ records = 0 /\ saves = 0

ReaderStep(u) ==
    \/ \E q \in Queries : concept_view(u, q)
    \/ \E p \in BOOLEAN : concept_submit(u, p) \/ api_put_concept(u, p)
    \/ concept_delete(u) \/ api_delete_concept(u)
    \/ \E n \in 1 .. MaxRecords : api_revisions_restore(u, n)
    \/ concept_activate(u) \/ activate_and_redirect(u)

BookStep(b) ==
    \/ \E s \in {"global", "private"} : create_book(b, s)
    \/ IngestWrites(b) \/ delete_book_row(b) \/ delete_book(b)

SurfaceNext ==
    \/ \E u \in Readers : ReaderStep(u)
    \/ \E p \in BOOLEAN : LibrarianWrites(p)
    \/ \E b \in Books : at = Book(b) /\ BookStep(b)
    \/ \E form \in Forms : admin_save_lifecycle(form)
    \/ Restart

-----------------------------------------------------------------------------
\* The revision a page displays (the interstitial's snapshot, a side of a
\* compare) is, whenever it is clicked, what a restore of its number brings
\* back, or the restore is refused: numbers are never reused, by any write,
\* prune, deletion, undeletion, retention change or restart in between
\* (record_once, the clamp on every read of the retention).
ConfirmHolds ==
    \A u \in Readers : \A s \in page[u] :
        s[1] \in DOMAIN chain => chain[s[1]].payload = s[2]

\* No concept that was ever live is lost to an edit on an old page, an
\* activation that read before another write, a delete or a restore: it is
\* live, or in the undo log, or retention has dropped its row.
NothingLost ==
    \A c \in ever :
        c = text \/ c \in pruned \/ \E m \in DOMAIN chain : chain[m].payload = c

\* The concept page, the revisions routes, search and chat, the passages and
\* the books page draw one line: a registered book is open to a reader on all
\* of them or on none (library_path_visible, visible_library_slugs,
\* resolve_passage, books_view).
SurfacesAgree ==
    \A u \in Readers, b \in Books : shelf[b] # "none" =>
        LET open == b \in books_view(u)
        IN /\ read_gate_store_scope(u, Book(b)) = open
           /\ (Book(b) \in search_all_scopes(u)) = open
           /\ resolve_passage(u, b) = open

\* Every link and button leads somewhere: a row of the revisions browser opens
\* its concept page, live or deleted (a book's rows while it is registered; the
\* comment at the library's dead branch: "the /revisions browser lists them and
\* links here"), and what a page offers its handler takes, the restore of an
\* undeleting restore's empty row excepted from both (concept_editor).
NoDeadLinks ==
    records > 0 => \A u \in Readers :
        /\ \A s \in {"user", "skills", "library"} : \A r \in revisions_view(u, s) :
              s # "library" \/ shelf[r.place.of] # "none" =>
                 /\ \A q \in Queries : Opens(u, q)
                 /\ r.live => revisions_row_title(r) \notin {NoConcept, Empty}
        /\ \A q \in Queries : \A o \in concept_editor(u, q) :
              IF o[1] = "restore" THEN Restores(u, o[2]) ELSE Deletes(u)
=============================================================================
