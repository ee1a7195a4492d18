--------------------------- MODULE WebAdminProofs ---------------------------
(***************************************************************************)
(* Theorems about WebAdmin: the pages over concepts, their undo log and    *)
(* the books, for any readers, books, retention and number of writes; the  *)
(* certificates, for any number of requests, crashes and failed file       *)
(* operations; the chat page, for any number of streams, rows, messages    *)
(* and troubles.                                                           *)
(***************************************************************************)
EXTENDS WebAdmin, TLAPS

\* The parts from their start, with some requests made and part of the bounds
\* spent or not; the instance for TLC starts from some of these states.
Begins ==
    /\ \E made \in SUBSET Requests, keys \in Nat, hits \in Nat : TlsInit(made, keys, hits)
    /\ \E asked \in Nat, had \in Nat : PageInit(asked, had)
    /\ SurfaceInit

WebSpec == Begins /\ [][Next]_avars

LEMMA SurfaceSteps == [Next]_avars => [SurfaceNext]_svars
BY DEF Next, avars, svars

-----------------------------------------------------------------------------
(* Surface: the undo log *)

Revisions == [op : {"create", "update", "delete", "restore"}, payload : Concepts \cup {Empty}]

\* The rows are numbered up to the last one recorded, which is always there;
\* the live text and what an activation holds are concepts, and the tunables
\* in force are numbers.
LogOK ==
    /\ records \in Nat /\ DOMAIN chain \subseteq 1 .. records
    /\ chain \in [DOMAIN chain -> Revisions]
    /\ records > 0 => records \in DOMAIN chain
    /\ text \in Concepts \cup {NoConcept} /\ ever \subseteq Concepts
    /\ act \in [Readers -> SUBSET Concepts]
    /\ config \in [Tunables -> Int] /\ statics \in [Tunables -> Int]
    /\ shelf \in [Books -> {"none", "global", "private"}]
    /\ page \in [Readers -> SUBSET ((1 .. records) \X (Concepts \cup {Empty}))]

SurfaceInv == LogOK /\ ConfirmHolds /\ NothingLost

LEMMA LastNumber == LogOK => MaxNo(chain) = records
<1> SUFFICES ASSUME LogOK PROVE MaxNo(chain) = records
  OBVIOUS
<1>1. CASE records = 0
  <2>1. DOMAIN chain = {}
    <3>1. DOMAIN chain \subseteq 1 .. 0 /\ 1 .. 0 = {}
      BY <1>1 DEF LogOK
    <3> QED
      BY <3>1
  <2> QED
    BY <1>1, <2>1 DEF MaxNo
<1>2. CASE records > 0
  <2>1. records \in DOMAIN chain /\ records \in Int /\ \A m \in DOMAIN chain : m \in Int /\ m <= records
    BY <1>2 DEF LogOK
  <2>2. Max(DOMAIN chain) \in DOMAIN chain /\ \A m \in DOMAIN chain : Max(DOMAIN chain) >= m
    BY <2>1 DEF Max
  <2>3. Max(DOMAIN chain) = records
    BY <2>1, <2>2
  <2> QED
    BY <2>1, <2>3 DEF MaxNo
<1> QED
  BY <1>1, <1>2 DEF LogOK

LEMMA InRange == ASSUME NEW v \in Int PROVE clamp_retention(v) \in Int /\ clamp_retention(v) >= 1
BY SurfaceAssumption DEF clamp_retention

\* One row more: the numbers go on, no row is changed, and what retention
\* drops is remembered as dropped.
LEMMA Records ==
    ASSUME LogOK, NEW op \in {"create", "update", "delete", "restore"}, NEW payload \in Concepts \cup {Empty},
           record_once(op, payload)
    PROVE  /\ records' = records + 1 /\ records' \in Nat
           /\ DOMAIN chain' \subseteq DOMAIN chain \cup {records'} /\ DOMAIN chain' \subseteq 1 .. records'
           /\ records' \in DOMAIN chain' /\ chain' \in [DOMAIN chain' -> Revisions]
           /\ chain'[records'].payload = payload
           /\ \A m \in DOMAIN chain' : m # records' => m \in DOMAIN chain /\ chain'[m] = chain[m]
           /\ pruned \subseteq pruned'
           /\ \A m \in DOMAIN chain : m \in DOMAIN chain' \/ chain[m].payload \in pruned'
<1> DEFINE no == MaxNo(chain) + 1
           rows == [m \in DOMAIN chain \cup {no} |->
                       IF m = no THEN [op |-> op, payload |-> payload] ELSE chain[m]]
           keep == {m \in DOMAIN rows : m > retention_cutoff(no)}
<1>1. no = records + 1 /\ records \in Nat /\ no \in Nat
  BY LastNumber DEF LogOK
<1>2. /\ records' = no /\ chain' = [m \in keep |-> rows[m]]
      /\ pruned' = pruned \cup {rows[m].payload : m \in DOMAIN rows \ keep}
  BY <1>1 DEF record_once
<1>3. retention_cutoff(no) < no
  <2>1. statics[Log] \in Int
    BY SurfaceAssumption DEF LogOK
  <2>2. revision_retention \in Int /\ revision_retention >= 1
    BY <2>1, InRange DEF revision_retention
  <2> QED
    BY <1>1, <2>2 DEF retention_cutoff
<1>4. DOMAIN chain \subseteq 1 .. records /\ no \notin DOMAIN chain
  BY <1>1 DEF LogOK
<1>5. /\ DOMAIN rows = DOMAIN chain \cup {no} /\ rows[no] = [op |-> op, payload |-> payload]
      /\ \A m \in DOMAIN chain : rows[m] = chain[m]
      /\ \A m \in DOMAIN rows : rows[m] \in Revisions
  BY <1>4 DEF LogOK, Revisions
<1>6. no \in keep /\ keep \subseteq DOMAIN chain \cup {no}
  BY <1>1, <1>3, <1>5
<1> HIDE DEF rows, keep, no
<1>7. rows[no].payload = payload
  BY <1>5
<1>8. chain' \in [keep -> Revisions] /\ \A m \in keep : chain'[m] = rows[m]
  BY <1>2, <1>5, <1>6
<1>9. \A m \in DOMAIN chain : m \in keep \/ chain[m].payload \in pruned'
  BY <1>2, <1>5
<1>10. keep \subseteq 1 .. records'
  BY <1>1, <1>2, <1>4, <1>6
<1> QED
  BY <1>1, <1>2, <1>5, <1>6, <1>7, <1>8, <1>9, <1>10

\* A write: a row is recorded that keeps what was live, and the text changes.
LEMMA Writes ==
    ASSUME SurfaceInv, NEW op \in {"create", "update", "delete", "restore"}, NEW payload \in Concepts \cup {Empty},
           record_once(op, payload), NEW c \in Concepts \cup {NoConcept}, Becomes(c),
           text # NoConcept => payload = text,
           act' \in [Readers -> SUBSET Concepts], UNCHANGED <<shelf, knobs>>,
           page' \in [Readers -> SUBSET ((1 .. records) \X (Concepts \cup {Empty}))],
           \A u \in Readers : page'[u] = page[u] \/ page'[u] = {}
    PROVE  SurfaceInv'
<1>0. LogOK
  BY DEF SurfaceInv
<1>1. /\ records' = records + 1 /\ records' \in Nat
      /\ DOMAIN chain' \subseteq DOMAIN chain \cup {records'} /\ DOMAIN chain' \subseteq 1 .. records'
      /\ records' \in DOMAIN chain' /\ chain' \in [DOMAIN chain' -> Revisions]
      /\ chain'[records'].payload = payload
      /\ \A m \in DOMAIN chain' : m # records' => m \in DOMAIN chain /\ chain'[m] = chain[m]
      /\ pruned \subseteq pruned'
      /\ \A m \in DOMAIN chain : m \in DOMAIN chain' \/ chain[m].payload \in pruned'
  BY <1>0, Records
<1>2. records \in Nat /\ DOMAIN chain \subseteq 1 .. records
  BY <1>0 DEF LogOK
<1>3. text' = c /\ ever' = ever \cup ({c} \ {NoConcept})
  BY DEF Becomes
<1>4. LogOK'
  <2>1. 1 .. records \subseteq 1 .. records'
    BY <1>1, <1>2
  <2>2. page' \in [Readers -> SUBSET ((1 .. records') \X (Concepts \cup {Empty}))]
    BY <2>1
  <2>3. UNCHANGED <<config, statics, shelf>>
    BY DEF knobs
  <2> QED
    BY <1>0, <1>1, <1>3, <2>2, <2>3 DEF LogOK
<1>5. ConfirmHolds'
  <2> SUFFICES ASSUME NEW u \in Readers, NEW s \in page'[u], s[1] \in DOMAIN chain'
               PROVE  chain'[s[1]].payload = s[2]
    BY DEF ConfirmHolds
  <2>1. s \in page[u] /\ s \in (1 .. records) \X (Concepts \cup {Empty})
    BY <1>0 DEF LogOK
  <2>2. s[1] # records'
    BY <1>1, <1>2, <2>1
  <2>3. s[1] \in DOMAIN chain /\ chain'[s[1]] = chain[s[1]]
    BY <1>1, <2>2
  <2> QED
    BY <2>1, <2>3 DEF SurfaceInv, ConfirmHolds
<1>6. NothingLost'
  <2> SUFFICES ASSUME NEW x \in ever'
               PROVE  x = text' \/ x \in pruned' \/ \E m \in DOMAIN chain' : chain'[m].payload = x
    BY DEF NothingLost
  <2>1. CASE x = c
    BY <1>3, <2>1
  <2>2. CASE x \in ever
    <3>1. x # NoConcept
      BY <1>0, <2>2, SurfaceAssumption DEF LogOK
    <3>2. CASE x = text
      BY <1>1, <3>1, <3>2
    <3>3. CASE x \in pruned
      BY <1>1, <3>3
    <3>4. CASE \E m \in DOMAIN chain : chain[m].payload = x
      <4>1. PICK m \in DOMAIN chain : chain[m].payload = x
        BY <3>4
      <4>2. CASE m \in DOMAIN chain'
        <5>1. m # records'
          BY <1>1, <1>2
        <5> QED
          BY <1>1, <4>1, <4>2, <5>1
      <4>3. CASE chain[m].payload \in pruned'
        BY <4>1, <4>3
      <4> QED
        BY <1>1, <4>2, <4>3
    <3> QED
      BY <2>2, <3>2, <3>3, <3>4 DEF SurfaceInv, NothingLost
  <2> QED
    BY <1>3, <2>1, <2>2
<1> QED
  BY <1>4, <1>5, <1>6 DEF SurfaceInv

LEMMA PutWrites ==
    ASSUME SurfaceInv, NEW c \in Concepts, put(c),
           act' \in [Readers -> SUBSET Concepts], UNCHANGED <<shelf, knobs>>,
           page' \in [Readers -> SUBSET ((1 .. records) \X (Concepts \cup {Empty}))],
           \A u \in Readers : page'[u] = page[u] \/ page'[u] = {}
    PROVE  SurfaceInv'
<1>1. text \in Concepts \cup {NoConcept}
  BY DEF SurfaceInv, LogOK
<1>2. Becomes(c)
  BY DEF put
<1>3. CASE text = NoConcept
  <2>1. record_once("create", c)
    BY <1>3 DEF put
  <2> QED
    BY <1>2, <1>3, <2>1, Writes
<1>4. CASE text # NoConcept
  <2>1. record_once("update", text)
    BY <1>4 DEF put
  <2> QED
    BY <1>1, <1>2, <1>4, <2>1, Writes
<1> QED
  BY <1>3, <1>4

LEMMA DeleteWrites ==
    ASSUME SurfaceInv, delete,
           act' \in [Readers -> SUBSET Concepts], UNCHANGED <<shelf, knobs>>,
           page' \in [Readers -> SUBSET ((1 .. records) \X (Concepts \cup {Empty}))],
           \A u \in Readers : page'[u] = page[u] \/ page'[u] = {}
    PROVE  SurfaceInv'
<1>1. text \in Concepts
  BY DEF SurfaceInv, LogOK, delete
<1>2. record_once("delete", text) /\ Becomes(NoConcept)
  BY DEF delete
<1> QED
  BY <1>1, <1>2, Writes

LEMMA NewTexts == ASSUME SurfaceInv, NEW p \in BOOLEAN PROVE NewText(p) \in Concepts
BY DEF NewText, Concepts, SurfaceInv, LogOK

\* What the pages keep when a handler answers with a redirect.
LEMMA PagesKept ==
    ASSUME SurfaceInv
    PROVE  /\ page \in [Readers -> SUBSET ((1 .. records) \X (Concepts \cup {Empty}))]
           /\ act \in [Readers -> SUBSET Concepts]
           /\ \A u \in Readers : /\ [page EXCEPT ![u] = {}] \in [Readers -> SUBSET ((1 .. records) \X (Concepts \cup {Empty}))]
                                 /\ \A v \in Readers : [page EXCEPT ![u] = {}][v] \in {page[v], {}}
                                 /\ [act EXCEPT ![u] = {}] \in [Readers -> SUBSET Concepts]
BY DEF SurfaceInv, LogOK

LEMMA WriteHandlers ==
    ASSUME SurfaceInv, NEW u \in Readers, NEW p \in BOOLEAN,
           \/ concept_submit(u, p) \/ api_put_concept(u, p) \/ concept_delete(u) \/ api_delete_concept(u)
           \/ activate_and_redirect(u) \/ LibrarianWrites(p)
    PROVE  SurfaceInv'
<1>0. NewText(p) \in Concepts
  BY NewTexts
<1>1. CASE concept_submit(u, p)
  BY <1>0, <1>1, PutWrites, PagesKept DEF concept_submit
<1>2. CASE api_put_concept(u, p)
  BY <1>0, <1>2, PutWrites, PagesKept DEF api_put_concept
<1>3. CASE concept_delete(u)
  BY <1>3, DeleteWrites, PagesKept DEF concept_delete
<1>4. CASE api_delete_concept(u)
  BY <1>4, DeleteWrites, PagesKept DEF api_delete_concept
<1>5. CASE activate_and_redirect(u)
  <2>1. PICK c \in act[u] : put(c)
    BY <1>5 DEF activate_and_redirect
  <2>2. c \in Concepts
    BY <2>1, PagesKept
  <2> QED
    BY <1>5, <2>1, <2>2, PutWrites, PagesKept DEF activate_and_redirect
<1>6. CASE LibrarianWrites(p)
  BY <1>0, <1>6, PutWrites, DeleteWrites, PagesKept DEF LibrarianWrites
<1> QED
  BY <1>1, <1>2, <1>3, <1>4, <1>5, <1>6

LEMMA RestoreHandler ==
    ASSUME SurfaceInv, NEW u \in Readers, NEW n, api_revisions_restore(u, n)
    PROVE  SurfaceInv'
<1>1. n \in DOMAIN chain /\ chain[n].payload # Empty /\ restore(n)
  BY DEF api_revisions_restore, Restores
<1>2. chain[n].payload \in Concepts /\ text \in Concepts \cup {NoConcept}
  BY <1>1 DEF SurfaceInv, LogOK, Revisions
<1> DEFINE was == IF text = NoConcept THEN Empty ELSE text
<1>3. record_once("restore", was) /\ Becomes(chain[n].payload)
  BY <1>1 DEF restore
<1>4. was \in Concepts \cup {Empty} /\ (text # NoConcept => was = text)
  BY <1>2
<1> HIDE DEF was
<1>5. /\ act' \in [Readers -> SUBSET Concepts] /\ UNCHANGED <<shelf, knobs>>
      /\ page' \in [Readers -> SUBSET ((1 .. records) \X (Concepts \cup {Empty}))]
      /\ \A v \in Readers : page'[v] = page[v] \/ page'[v] = {}
  BY PagesKept DEF api_revisions_restore
<1> QED
  BY <1>2, <1>3, <1>4, <1>5, Writes

LEMMA ActivateReads ==
    ASSUME SurfaceInv, NEW u \in Readers, concept_activate(u)
    PROVE  SurfaceInv'
<1>1. text \in Concepts
  BY DEF concept_activate, Deletes, SurfaceInv, LogOK
<1> DEFINE c == [text EXCEPT !.paused = FALSE]
<1>2. c \in Concepts
  BY <1>1 DEF Concepts
<1>3. act' = [act EXCEPT ![u] = {c}]
  BY DEF concept_activate
<1> HIDE DEF c
<1>4. act' \in [Readers -> SUBSET Concepts]
  BY <1>2, <1>3, PagesKept
<1>5. UNCHANGED <<docs, shelf, page, knobs>>
  BY DEF concept_activate
<1> QED
  BY <1>4, <1>5 DEF SurfaceInv, LogOK, ConfirmHolds, NothingLost, docs, knobs

\* What a page displays is in the log at that moment.
LEMMA ViewReads ==
    ASSUME SurfaceInv, NEW u \in Readers, NEW q \in Queries, concept_view(u, q)
    PROVE  SurfaceInv'
<1> DEFINE mode == revisions_surface(u, q)
           nos == CASE mode = "confirm" -> {q.n}
                    [] mode = "diff" -> {q.from, q.to} \ {0}
                    [] OTHER -> {}
           shows == IF ~Opens(u, q) \/ nos = {} THEN {} ELSE {<<m, chain[m].payload>> : m \in nos}
<1>1. page' = [page EXCEPT ![u] = shows] /\ UNCHANGED <<docs, shelf, act, knobs>>
  BY DEF concept_view
<1>2. nos \subseteq DOMAIN chain
  <2>1. mode = "confirm" => q.n \in DOMAIN chain
    BY DEF revisions_surface, list
  <2>2. mode = "diff" => {q.from, q.to} \ {0} \subseteq DOMAIN chain
    BY DEF revisions_surface, diff_side_text
  <2> QED
    BY <2>1, <2>2
<1> HIDE DEF mode, nos
<1>3. shows \subseteq {<<m, chain[m].payload>> : m \in DOMAIN chain}
  BY <1>2
<1> HIDE DEF shows
<1>4. \A s \in shows : s \in (1 .. records) \X (Concepts \cup {Empty}) /\ s[1] \in DOMAIN chain /\ s[2] = chain[s[1]].payload
  BY <1>3 DEF SurfaceInv, LogOK, Revisions
<1>5. page' \in [Readers -> SUBSET ((1 .. records) \X (Concepts \cup {Empty}))]
  BY <1>1, <1>4 DEF SurfaceInv, LogOK
<1>6. \A v \in Readers : page'[v] = IF v = u THEN shows ELSE page[v]
  BY <1>1 DEF SurfaceInv, LogOK
<1>7. UNCHANGED <<at, text, chain, ever, pruned, records, config, statics, shelf, act>>
  BY <1>1 DEF docs, knobs
<1>8. ConfirmHolds'
  BY <1>4, <1>6, <1>7 DEF SurfaceInv, ConfirmHolds
<1> QED
  BY <1>5, <1>7, <1>8 DEF SurfaceInv, LogOK, NothingLost

LEMMA BookSteps ==
    ASSUME SurfaceInv, NEW b \in Books, BookStep(b)
    PROVE  SurfaceInv'
<1>1. CASE IngestWrites(b) \/ delete_book(b)
  <2>1. NewText(FALSE) \in Concepts
    BY NewTexts
  <2> QED
    BY <1>1, <2>1, PutWrites, DeleteWrites, PagesKept DEF IngestWrites, delete_book
<1>2. CASE delete_book_row(b) \/ \E s \in {"global", "private"} : create_book(b, s)
  <2>1. UNCHANGED <<docs, page, act, knobs>> /\ \E s \in {"none", "global", "private"} : shelf' = [shelf EXCEPT ![b] = s]
    BY <1>2 DEF delete_book_row, create_book
  <2>2. shelf' \in [Books -> {"none", "global", "private"}]
    BY <2>1 DEF SurfaceInv, LogOK
  <2> QED
    BY <2>1, <2>2 DEF SurfaceInv, LogOK, ConfirmHolds, NothingLost, docs, knobs
<1> QED
  BY <1>1, <1>2 DEF BookStep

\* The statics are stamped with clamped values, whatever is stored or sent.
LEMMA KnobSteps ==
    ASSUME SurfaceInv, Restart \/ \E form \in Forms : admin_save_lifecycle(form)
    PROVE  SurfaceInv'
<1>0. SurfaceInv => config \in [Tunables -> Int] /\ act \in [Readers -> SUBSET Concepts]
  BY DEF SurfaceInv, LogOK
<1>1. ASSUME NEW cfg \in [Tunables -> Int] PROVE set_tunables(cfg) \in [Tunables -> Int] /\ clamp(cfg) \in [Tunables -> Int]
  BY InRange DEF set_tunables, clamp
<1>2. CASE Restart
  <2>1. statics' \in [Tunables -> Int] /\ act' \in [Readers -> SUBSET Concepts] /\ UNCHANGED <<docs, shelf, page, config>>
    BY <1>0, <1>1, <1>2 DEF Restart, sync_lifecycle_from_store
  <2> QED
    BY <2>1 DEF SurfaceInv, LogOK, ConfirmHolds, NothingLost, docs
<1>3. ASSUME NEW form \in Forms, admin_save_lifecycle(form) PROVE SurfaceInv'
  <2> DEFINE laid == [f \in Tunables |-> lifecycle_u32_field(form[f], config[f])]
  <2>1. laid \in [Tunables -> Int]
    <3>1. \A f \in Tunables : form[f] \in Int /\ config[f] \in Int
      BY <1>0, SurfaceAssumption DEF Forms, Raw, Blank
    <3> QED
      BY <3>1 DEF lifecycle_u32_field
  <2>2. config' = clamp(laid) /\ statics' = set_tunables(config') /\ UNCHANGED <<docs, shelf, page, act>>
    BY <1>3 DEF admin_save_lifecycle, sync_lifecycle_from_store
  <2> HIDE DEF laid
  <2>3. config' \in [Tunables -> Int] /\ statics' \in [Tunables -> Int]
    BY <1>1, <2>1, <2>2
  <2> QED
    BY <2>2, <2>3 DEF SurfaceInv, LogOK, ConfirmHolds, NothingLost, docs
<1> QED
  BY <1>2, <1>3

LEMMA InitSurface == Begins => SurfaceInv
<1> SUFFICES ASSUME Begins PROVE SurfaceInv
  OBVIOUS
<1>1. SurfaceInit
  BY DEF Begins
<1>2. config \in [Tunables -> Int] /\ statics \in [Tunables -> Int]
  <2>1. config \in [Tunables -> Int]
    BY <1>1, SurfaceAssumption DEF SurfaceInit
  <2> QED
    BY <1>1, <2>1, InRange DEF SurfaceInit, set_tunables
<1>3. DOMAIN chain = {} /\ records = 0 /\ text = NoConcept /\ ever = {}
  BY <1>1 DEF SurfaceInit
<1>4. /\ \A u \in Readers : page[u] = {}
      /\ page \in [Readers -> SUBSET ((1 .. records) \X (Concepts \cup {Empty}))]
      /\ act \in [Readers -> SUBSET Concepts] /\ shelf \in [Books -> {"none", "global", "private"}]
  BY <1>1 DEF SurfaceInit
<1>5. chain \in [DOMAIN chain -> Revisions]
  <2>1. chain = << >>
    BY <1>1 DEF SurfaceInit
  <2> QED
    BY <2>1
<1> QED
  BY <1>2, <1>3, <1>4, <1>5 DEF SurfaceInv, LogOK, ConfirmHolds, NothingLost

LEMMA NextSurface ==
    ASSUME SurfaceInv, [Next]_avars
    PROVE  SurfaceInv'
<1>0. [SurfaceNext]_svars
  BY SurfaceSteps
<1>1. CASE UNCHANGED svars
  BY <1>1 DEF svars, docs, knobs, SurfaceInv, LogOK, ConfirmHolds, NothingLost
<1>2. ASSUME NEW u \in Readers, ReaderStep(u) PROVE SurfaceInv'
  <2>1. TRUE \in BOOLEAN
    OBVIOUS
  <2> QED
    BY <1>2, <2>1, ViewReads, WriteHandlers, RestoreHandler, ActivateReads DEF ReaderStep
<1>3. ASSUME NEW p \in BOOLEAN, LibrarianWrites(p) PROVE SurfaceInv'
  <2>1. NewText(p) \in Concepts
    BY NewTexts
  <2> QED
    BY <1>3, <2>1, PutWrites, DeleteWrites, PagesKept DEF LibrarianWrites
<1>4. ASSUME NEW b \in Books, BookStep(b) PROVE SurfaceInv'
  BY <1>4, BookSteps
<1>5. CASE Restart \/ \E form \in Forms : admin_save_lifecycle(form)
  BY <1>5, KnobSteps
<1> QED
  BY <1>0, <1>1, <1>2, <1>3, <1>4, <1>5 DEF SurfaceNext

\* The revision a page displays is, whenever it is clicked, what a restore of its
\* number brings back, or the restore is refused: record_once numbers on from the
\* newest row, which no retention drops because its clamp keeps at least one, for
\* any readers, writers, prunes, retention changes and restarts in between.
THEOREM ConfirmStays == WebSpec => []ConfirmHolds
<1>1. SurfaceInv => ConfirmHolds
  BY DEF SurfaceInv
<1> QED
  BY <1>1, InitSurface, NextSurface, PTL DEF WebSpec

\* No concept that was ever live is lost to an edit on an old page, an activation
\* that read before another write, a delete or a restore: it is live, in the undo
\* log, or dropped by retention, after any number of writes.
THEOREM NothingLostHolds == WebSpec => []NothingLost
<1>1. SurfaceInv => NothingLost
  BY DEF SurfaceInv
<1> QED
  BY <1>1, InitSurface, NextSurface, PTL DEF WebSpec

\* A registered book is open to a reader on the concept page and the revisions
\* routes, in search and chat, in the passages and on the books page, or on none of
\* them: four gates written apart (library_path_visible, visible_library_slugs,
\* resolve_passage, books_view), for any readers, admins and books.
THEOREM SurfacesAgreeHolds == WebSpec => []SurfacesAgree
<1>1. SurfaceInv => SurfacesAgree
  <2> SUFFICES ASSUME SurfaceInv, NEW u \in Readers, NEW b \in Books, shelf[b] # "none"
               PROVE  /\ read_gate_store_scope(u, Book(b)) = (b \in books_view(u))
                      /\ (Book(b) \in search_all_scopes(u)) = (b \in books_view(u))
                      /\ resolve_passage(u, b) = (b \in books_view(u))
    BY DEF SurfacesAgree
  <2>1. (b \in books_view(u)) = (shelf[b] = "global" \/ Admin(u))
    BY DEF books_view, Admin
  <2>2. Book(b).scope = "library" /\ Book(b).of = b
    BY DEF Book
  <2>3. read_gate_store_scope(u, Book(b)) = (shelf[b] = "global" \/ Admin(u))
    BY <2>2 DEF read_gate_store_scope, library_path_visible, Admin
  <2>4. Book(b) # User(u) /\ Book(b) # Skills /\ \A x \in Books : Book(x) = Book(b) => x = b
    BY DEF Book, User, Skills
  <2>5. (Book(b) \in search_all_scopes(u)) = (b \in visible_library_slugs(u))
    <3>1. Book(b) \in {Book(x) : x \in visible_library_slugs(u)} <=> b \in visible_library_slugs(u)
      <4>1. visible_library_slugs(u) \subseteq Books
        BY DEF visible_library_slugs
      <4> QED
        BY <2>4, <4>1, Zenon
    <3>2. Book(b) \in search_all_scopes(u) <=> Book(b) \in {Book(x) : x \in visible_library_slugs(u)}
      BY <2>4, Zenon DEF search_all_scopes
    <3> QED
      BY <3>1, <3>2, SMT
  <2>6. (b \in visible_library_slugs(u)) = (shelf[b] = "global" \/ Admin(u))
    BY DEF visible_library_slugs, Admin
  <2>7. resolve_passage(u, b) = (shelf[b] = "global" \/ Admin(u))
    BY DEF resolve_passage, Admin
  <2> QED
    BY <2>1, <2>3, <2>5, <2>6, <2>7, Zenon
<1> QED
  BY <1>1, InitSurface, NextSurface, PTL DEF WebSpec

\* A row of the revisions browser opens its page, and has a title while it is live.
LEMMA RowsOpen ==
    ASSUME LogOK, records > 0, NEW u \in Readers, NEW s \in {"user", "skills", "library"},
           NEW r \in revisions_view(u, s), s # "library" \/ shelf[r.place.of] # "none", NEW q \in Queries
    PROVE  Opens(u, q) /\ (r.live => revisions_row_title(r) \notin {NoConcept, Empty})
<1>1. /\ revisions_index_store(u, s) /\ r.place = at /\ at.scope = s /\ (s # "user" \/ at.of = u)
      /\ r.live = (text # NoConcept) /\ DOMAIN chain # {}
  <2>1. r \in list_paths(s) /\ revisions_index_store(u, s) /\ (s # "user" \/ r.place.of = u)
    BY DEF revisions_view
  <2>2. at.scope = s /\ DOMAIN chain # {} /\ r = [place |-> at, live |-> text # NoConcept]
    BY <2>1 DEF list_paths
  <2> QED
    BY <2>1, <2>2
<1>2. read_gate_store_scope(u, at)
  <2>1. CASE s = "user"
    BY <1>1, <2>1 DEF read_gate_store_scope
  <2>2. CASE s = "skills"
    BY <1>1, <2>2 DEF read_gate_store_scope
  <2>3. CASE s = "library"
    BY <1>1, <2>3 DEF read_gate_store_scope, library_path_visible, revisions_index_store
  <2> QED
    BY <2>1, <2>2, <2>3
<1>3. text = NoConcept => revisions_surface(u, q) # "none"
  <2>1. list # {}
    BY <1>1 DEF list
  <2> QED
    BY <2>1 DEF revisions_surface
<1>4. r.live => revisions_row_title(r) \notin {NoConcept, Empty}
  <2>1. chain[MaxNo(chain)].payload \in Concepts \cup {Empty}
    BY LastNumber DEF LogOK, Revisions
  <2>2. text \in Concepts \cup {NoConcept}
    BY DEF LogOK
  <2> QED
    BY <1>1, <2>1, <2>2, SurfaceAssumption DEF revisions_row_title
<1> QED
  BY <1>2, <1>3, <1>4 DEF Opens

\* What a page offers, its handler takes.
LEMMA OffersTaken ==
    ASSUME NEW u \in Readers, NEW q \in Queries, NEW o \in concept_editor(u, q)
    PROVE  IF o[1] = "restore" THEN Restores(u, o[2]) ELSE Deletes(u)
<1> DEFINE mode == revisions_surface(u, q)
           cells == CASE mode = "confirm" -> {<<"restore", q.n>>}
                      [] mode \in {"list", "diff"} -> revision_row_cells(u)
                      [] OTHER -> {}
           grid == text # NoConcept /\ mode \in {"none", "list"}
<1>1. mode = "confirm" => Restores(u, q.n)
  <2> SUFFICES ASSUME mode = "confirm" PROVE Restores(u, q.n)
    OBVIOUS
  <2>1. Editable(u) /\ \E r \in list : r.no = q.n /\ ~r.empty
    BY DEF revisions_surface
  <2>2. PICK r \in list : r.no = q.n /\ ~r.empty
    BY <2>1
  <2>3. r.no \in DOMAIN chain /\ r.empty = (chain[r.no].payload = Empty)
    BY DEF list
  <2> QED
    BY <2>1, <2>2, <2>3 DEF Restores
<1>2. ASSUME NEW x \in revision_row_cells(u) PROVE x[1] = "restore" /\ Restores(u, x[2])
  <2>1. Editable(u) /\ \E r \in list : ~r.empty /\ x = <<"restore", r.no>>
    BY <1>2 DEF revision_row_cells
  <2>2. PICK r \in list : ~r.empty /\ x = <<"restore", r.no>>
    BY <2>1
  <2>3. r.no \in DOMAIN chain /\ r.empty = (chain[r.no].payload = Empty)
    BY DEF list
  <2> QED
    BY <2>1, <2>2, <2>3 DEF Restores
<1>3. ASSUME NEW x \in cells PROVE x[1] = "restore" /\ Restores(u, x[2])
  <2>1. CASE mode = "confirm"
    <3>1. x = <<"restore", q.n>>
      BY <1>3, <2>1
    <3> QED
      BY <1>1, <2>1, <3>1
  <2>2. CASE mode # "confirm"
    <3>1. x \in revision_row_cells(u)
      BY <1>3, <2>2
    <3> QED
      BY <1>2, <3>1
  <2> QED
    BY <2>1, <2>2
<1>4. o \in cells \/ (grid /\ Editable(u) /\ o \in {<<"save">>, <<"delete">>, <<"activate">>})
  BY DEF concept_editor
<1>5. CASE o \in cells
  BY <1>3, <1>5
<1>6. CASE grid /\ Editable(u) /\ o \in {<<"save">>, <<"delete">>, <<"activate">>}
  <2>1. o[1] # "restore"
    BY <1>6
  <2> QED
    BY <1>6, <2>1 DEF Deletes
<1> QED
  BY <1>4, <1>5, <1>6

\* Every link and button leads somewhere: a row of the revisions browser opens its
\* page and every button of a page is one its handler takes, for any readers and
\* after any history of writes, prunes and deletions.
THEOREM NoDeadLinksHolds == WebSpec => []NoDeadLinks
<1>1. SurfaceInv => NoDeadLinks
  <2>1. SurfaceInv => LogOK
    BY DEF SurfaceInv
  <2> QED
    <3> SUFFICES ASSUME LogOK, records > 0, NEW u \in Readers
                 PROVE  /\ \A s \in {"user", "skills", "library"} : \A r \in revisions_view(u, s) :
                              s # "library" \/ shelf[r.place.of] # "none" =>
                                 /\ \A q \in Queries : Opens(u, q)
                                 /\ r.live => revisions_row_title(r) \notin {NoConcept, Empty}
                        /\ \A q \in Queries : \A o \in concept_editor(u, q) :
                              IF o[1] = "restore" THEN Restores(u, o[2]) ELSE Deletes(u)
      BY <2>1 DEF NoDeadLinks
    <3>1. [revs |-> FALSE, n |-> 0, from |-> 0, to |-> 0] \in Queries
      BY DEF Queries
    <3>2. \A q \in Queries : \A o \in concept_editor(u, q) :
             IF o[1] = "restore" THEN Restores(u, o[2]) ELSE Deletes(u)
      BY OffersTaken
    <3>3. ASSUME NEW s \in {"user", "skills", "library"}, NEW r \in revisions_view(u, s),
                 s # "library" \/ shelf[r.place.of] # "none"
          PROVE  /\ \A q \in Queries : Opens(u, q)
                 /\ r.live => revisions_row_title(r) \notin {NoConcept, Empty}
      BY <3>1, <3>3, RowsOpen
    <3> QED
      BY <3>2, <3>3
<1> QED
  BY <1>1, InitSurface, NextSurface, PTL DEF WebSpec
-----------------------------------------------------------------------------
(* Tls: the handlers' plans *)

Vals == {NoFile, Torn} \cup Certs \cup SanSets \cup {Key(n) : n \in 0 .. MaxKeys}
Ops == [do : {"write", "create", "remove", "readcert", "readkey", "swap", "decide"}, file : Files, val : Vals]
Runs == [kind : Kinds \cup {"new", "done"}, todo : Seq(Ops), got : Vals, over : BOOLEAN]
Actors == Requests \cup {Boot}

\* The requests' plans, written out.
upload_plan(c) ==
    <<Write("upcert", c), Remove("upkey"), Create("upkey", c.id), Write("upmeta", c.id),
      Op("readcert", "upcert", NoFile), Op("readkey", "upkey", NoFile), Op("swap", "upcert", NoFile)>>

upload_and_clear_plan(c) ==
    <<Write("upcert", c), Remove("upkey"), Create("upkey", c.id), Write("upmeta", c.id),
      Op("readcert", "upcert", NoFile), Op("readkey", "upkey", NoFile), Op("swap", "upcert", NoFile),
      Remove("pkey"), Remove("pmeta")>>

regenerate_plan(c) ==
    <<Remove("cert"), Remove("key"), Write("cert", c), Create("key", c.id), Write("sans", c.sans),
      Op("decide", "cert", NoFile)>>

reset_plan ==
    <<Remove("upcert"), Remove("upkey"), Remove("upmeta"),
      Op("readcert", "cert", NoFile), Op("readkey", "key", NoFile), Op("swap", "cert", NoFile)>>

LEMMA ValsFacts ==
    /\ NoFile \in Vals /\ Torn \in Vals /\ Certs \subseteq Vals /\ SanSets \subseteq Vals
    /\ \A c \in Certs : c.id \in Vals \ {NoFile, Torn} /\ c.sans \in SanSets
    /\ NoFile \notin Certs /\ Torn \notin Certs /\ NoFile \notin SanSets /\ Torn \notin SanSets
    /\ \A n \in 1 .. MaxKeys : Key(n) \in Vals
<1>1. \A n \in 1 .. MaxKeys : n \in 0 .. MaxKeys
  BY TlsAssumption
<1>2. \A c \in Certs : c.id \in {Key(n) : n \in 1 .. MaxKeys} /\ c.sans \in SanSets
  BY DEF Certs
<1>3. \A c \in Certs : c.id \in {Key(n) : n \in 0 .. MaxKeys}
  BY <1>1, <1>2
<1> QED
  BY <1>1, <1>2, <1>3, TlsAssumption DEF Vals

LEMMA PlansAreOps ==
    /\ remove_uploaded_pair \in Seq(Ops) /\ clear_pending \in Seq(Ops) /\ reset_plan \in Seq(Ops)
    /\ Reload("cert", "key") \in Seq(Ops)
    /\ \A v \in Vals : save_pending(v) \in Seq(Ops)
    /\ \A c \in Certs : /\ upload_plan(c) \in Seq(Ops) /\ upload_and_clear_plan(c) \in Seq(Ops)
                        /\ regenerate_plan(c) \in Seq(Ops) /\ regenerate_managed_pair(c) \in Seq(Ops)
<1>1. /\ remove_uploaded_pair \in Seq(Ops) /\ clear_pending \in Seq(Ops) /\ reset_plan \in Seq(Ops)
      /\ Reload("cert", "key") \in Seq(Ops)
  BY ValsFacts DEF remove_uploaded_pair, clear_pending, reset_plan, Reload, Ops, Op, Remove, Files
<1>2. \A v \in Vals : save_pending(v) \in Seq(Ops)
  BY ValsFacts DEF save_pending, Ops, Op, Remove, Create, Write, Files
<1>3. ASSUME NEW c \in Certs
      PROVE  /\ upload_plan(c) \in Seq(Ops) /\ upload_and_clear_plan(c) \in Seq(Ops)
             /\ regenerate_plan(c) \in Seq(Ops) /\ regenerate_managed_pair(c) \in Seq(Ops)
  <2>1. c \in Vals /\ c.id \in Vals /\ c.sans \in Vals /\ NoFile \in Vals
    BY ValsFacts
  <2> QED
    BY <2>1 DEF upload_plan, upload_and_clear_plan, regenerate_plan, regenerate_managed_pair,
                Ops, Op, Remove, Create, Write, Files
<1> QED
  BY <1>1, <1>2, <1>3

\* What the requests start with is their plan.
LEMMA Joined ==
    ASSUME NEW a \in Seq(Ops), NEW b \in Seq(Ops)
    PROVE  /\ a \o b \in Seq(Ops) /\ Len(a \o b) = Len(a) + Len(b)
           /\ \A i \in 1 .. Len(a) : (a \o b)[i] = a[i]
           /\ \A i \in 1 .. Len(b) : (a \o b)[Len(a) + i] = b[i]
OBVIOUS

LEMMA SameOps ==
    ASSUME NEW s \in Seq(Ops), NEW p \in Seq(Ops), Len(s) = Len(p), \A i \in 1 .. Len(s) : s[i] = p[i]
    PROVE  s = p
OBVIOUS

LEMMA JoinedIs ==
    ASSUME NEW a \in Seq(Ops), NEW b \in Seq(Ops), NEW p \in Seq(Ops), Len(p) = Len(a) + Len(b),
           \A i \in 1 .. Len(a) : p[i] = a[i],
           \A i \in 1 .. Len(b) : p[Len(a) + i] = b[i]
    PROVE  a \o b = p
<1> DEFINE s == a \o b
<1>1. s \in Seq(Ops) /\ Len(s) = Len(a) + Len(b) /\ Len(a) \in Nat /\ Len(b) \in Nat
  OBVIOUS
<1>2. ASSUME NEW i \in 1 .. Len(s) PROVE s[i] = p[i]
  <2>1. CASE i \in 1 .. Len(a)
    BY <1>1, <2>1
  <2>2. CASE i \notin 1 .. Len(a)
    <3>1. i - Len(a) \in 1 .. Len(b) /\ i = Len(a) + (i - Len(a))
      BY <1>1, <2>2
    <3>2. s[i] = b[i - Len(a)]
      BY <1>1, <2>2
    <3>3. p[i] = b[i - Len(a)]
      BY <3>1
    <3> QED
      BY <3>2, <3>3
  <2> QED
    BY <2>1, <2>2
<1> HIDE DEF s
<1>3. s = p
  BY <1>1, <1>2, SameOps
<1> QED
  BY <1>3 DEF s

LEMMA UploadPlan ==
    ASSUME NEW c \in Certs
    PROVE  LET s == upload_writes(c) \o Reload("upcert", "upkey") IN
           s \o <<>> = upload_plan(c) /\ s \o clear_pending = upload_and_clear_plan(c)
<1> DEFINE k == <<Remove("upkey"), Create("upkey", c.id)>>
           u == <<Write("upcert", c)>> \o k
           w == u \o <<Write("upmeta", c.id)>>
           l == <<Op("readcert", "upcert", NoFile), Op("readkey", "upkey", NoFile), Op("swap", "upcert", NoFile)>>
           s == w \o l
<1>1. upload_writes(c) = w /\ Reload("upcert", "upkey") = l
  BY DEF upload_writes, write_key_0600, Reload
<1>2. /\ <<Write("upcert", c)>> \in Seq(Ops) /\ k \in Seq(Ops) /\ <<Write("upmeta", c.id)>> \in Seq(Ops)
      /\ l \in Seq(Ops) /\ clear_pending \in Seq(Ops)
  BY ValsFacts DEF clear_pending, Ops, Op, Remove, Create, Write, Files
<1>3. u \in Seq(Ops) /\ Len(u) = 3 /\ u[1] = Write("upcert", c) /\ u[2] = Remove("upkey") /\ u[3] = Create("upkey", c.id)
  <2> HIDE DEF Write, Remove, Create
  <2> QED
    BY <1>2
<1> HIDE DEF u
<1>4. /\ w \in Seq(Ops) /\ Len(w) = 4 /\ w[1] = Write("upcert", c) /\ w[2] = Remove("upkey")
      /\ w[3] = Create("upkey", c.id) /\ w[4] = Write("upmeta", c.id)
  <2> DEFINE m == <<Write("upmeta", c.id)>>
  <2>1. m \in Seq(Ops) /\ Len(m) = 1 /\ m[1] = Write("upmeta", c.id)
    BY <1>2
  <2> HIDE DEF m
  <2>2. /\ u \o m \in Seq(Ops) /\ Len(u \o m) = Len(u) + Len(m)
        /\ \A i \in 1 .. Len(u) : (u \o m)[i] = u[i]
        /\ \A i \in 1 .. Len(m) : (u \o m)[Len(u) + i] = m[i]
    BY <1>3, <2>1, Joined
  <2>3. w = u \o m
    BY DEF m
  <2> HIDE DEF w
  <2>4. (u \o m)[3 + 1] = m[1] /\ \A i \in 1 .. 3 : (u \o m)[i] = u[i]
    BY <1>3, <2>1, <2>2
  <2> QED
    BY <1>3, <2>1, <2>2, <2>3, <2>4
<1> HIDE DEF w
<1>5. /\ s \in Seq(Ops) /\ Len(s) = 7 /\ \A i \in 1 .. 4 : s[i] = w[i]
      /\ s[5] = l[1] /\ s[6] = l[2] /\ s[7] = l[3]
  <2>1. Len(l) = 3
    OBVIOUS
  <2> HIDE DEF l
  <2>2. /\ s \in Seq(Ops) /\ Len(s) = Len(w) + Len(l)
        /\ \A i \in 1 .. Len(w) : s[i] = w[i]
        /\ \A i \in 1 .. Len(l) : s[Len(w) + i] = l[i]
    BY <1>2, <1>4, Joined
  <2> HIDE DEF s
  <2>3. s[4 + 1] = l[1] /\ s[4 + 2] = l[2] /\ s[4 + 3] = l[3]
    BY <1>4, <2>1, <2>2
  <2> QED
    BY <1>4, <2>1, <2>2, <2>3
<1>6. s \in Seq(Ops) /\ Len(s) = 7 /\ \A i \in 1 .. 7 : s[i] = upload_plan(c)[i] /\ s[i] = upload_and_clear_plan(c)[i]
  BY <1>4, <1>5 DEF upload_plan, upload_and_clear_plan
<1> HIDE DEF s, l
<1>7. s \o <<>> = upload_plan(c)
  <2>1. Len(upload_plan(c)) = 7
    BY DEF upload_plan
  <2>2. <<>> \in Seq(Ops) /\ Len(<<>>) = 0 /\ \A i \in 1 .. Len(<<>>) : upload_plan(c)[Len(s) + i] = <<>>[i]
    OBVIOUS
  <2>3. Len(upload_plan(c)) = Len(s) + Len(<<>>) /\ \A i \in 1 .. Len(s) : upload_plan(c)[i] = s[i]
    BY <1>6, <2>1, <2>2
  <2> QED
    BY <1>6, <2>2, <2>3, PlansAreOps, JoinedIs
<1>8. s \o clear_pending = upload_and_clear_plan(c)
  <2>1. Len(upload_and_clear_plan(c)) = 9 /\ Len(clear_pending) = 2
    BY DEF upload_and_clear_plan, clear_pending
  <2>2. \A i \in 1 .. Len(clear_pending) : upload_and_clear_plan(c)[Len(s) + i] = clear_pending[i]
    BY <1>6 DEF upload_and_clear_plan, clear_pending
  <2>3. upload_and_clear_plan(c) \in Seq(Ops)
    BY PlansAreOps
  <2>4. /\ Len(upload_and_clear_plan(c)) = Len(s) + Len(clear_pending)
        /\ \A i \in 1 .. Len(s) : upload_and_clear_plan(c)[i] = s[i]
    BY <1>6, <2>1
  <2> QED
    BY <1>2, <1>6, <2>2, <2>3, <2>4, JoinedIs, ZenonT(30)
<1> QED
  BY <1>1, <1>7, <1>8 DEF s

LEMMA ResetPlan ==
    remove_uploaded_pair \o Reload("cert", "key") = reset_plan
<1>1. Len(remove_uploaded_pair) = 3 /\ Len(Reload("cert", "key")) = 3 /\ Len(reset_plan) = 6
  BY DEF remove_uploaded_pair, Reload, reset_plan
<1>2. \A i \in 1 .. 3 : reset_plan[i] = remove_uploaded_pair[i] /\ reset_plan[3 + i] = Reload("cert", "key")[i]
  BY DEF remove_uploaded_pair, Reload, reset_plan
<1> DEFINE a == remove_uploaded_pair
           b == Reload("cert", "key")
<1>3. /\ Len(reset_plan) = Len(a) + Len(b) /\ \A i \in 1 .. Len(a) : reset_plan[i] = a[i]
      /\ \A i \in 1 .. Len(b) : reset_plan[Len(a) + i] = b[i]
  <2>1. /\ Len(a) = 3 /\ Len(b) = 3 /\ Len(reset_plan) = 6
        /\ \A i \in 1 .. 3 : reset_plan[i] = a[i] /\ reset_plan[3 + i] = b[i]
    BY <1>1, <1>2
  <2> HIDE DEF a, b
  <2> QED
    BY <2>1
<1>4. a \in Seq(Ops) /\ b \in Seq(Ops)
  BY PlansAreOps
<1> HIDE DEF a, b
<1>5. a \o b = reset_plan
  BY <1>3, <1>4, PlansAreOps, JoinedIs
<1> QED
  BY <1>5 DEF a, b

LEMMA RegeneratePlan ==
    ASSUME NEW c \in Certs
    PROVE  regenerate_managed_pair(c) \o <<Op("decide", "cert", NoFile)>> = regenerate_plan(c)
<1> DEFINE d == <<Op("decide", "cert", NoFile)>>
<1>1. d \in Seq(Ops) /\ Len(d) = 1
  BY ValsFacts DEF Ops, Op, Files
<1>2. Len(regenerate_managed_pair(c)) = 5 /\ Len(regenerate_plan(c)) = 6
  BY DEF regenerate_managed_pair, regenerate_plan
<1>3. \A i \in 1 .. 5 : regenerate_plan(c)[i] = regenerate_managed_pair(c)[i]
  BY DEF regenerate_managed_pair, regenerate_plan
<1>4. regenerate_plan(c)[5 + 1] = d[1]
  BY DEF regenerate_plan
<1> DEFINE a == regenerate_managed_pair(c)
<1>5. /\ Len(regenerate_plan(c)) = Len(a) + Len(d) /\ \A i \in 1 .. Len(a) : regenerate_plan(c)[i] = a[i]
      /\ \A i \in 1 .. Len(d) : regenerate_plan(c)[Len(a) + i] = d[i]
  <2> HIDE DEF d
  <2> QED
    BY <1>1, <1>2, <1>3, <1>4
<1>6. a \in Seq(Ops)
  BY PlansAreOps
<1> HIDE DEF a, d
<1>7. a \o d = regenerate_plan(c)
  BY <1>1, <1>5, <1>6, PlansAreOps, JoinedIs
<1> QED
  BY <1>7 DEF a, d

-----------------------------------------------------------------------------
\* From n on, s holds an operation of one of the sorts D on one of the files F.
Later(s, n, D, F) == \E j \in n .. Len(s) : s[j].do \in D /\ s[j].file \in F

FileWrites == {"write", "create"}
Touches == {"write", "create", "remove"}
Uploaded == {"upcert", "upkey"}
Managed == {"cert", "key", "sans"}
CertOf(k) == IF k = "upload" THEN "upcert" ELSE "cert"
KeyOf(k) == IF k = "upload" THEN "upkey" ELSE "key"

\* An operation that brings a mixed uploaded pair to light, or removes it.
Mark(op) ==
    \/ op.do = "create" /\ op.file = "upkey"
    \/ op.do = "readcert" /\ op.file = "upcert"
    \/ op.do = "remove" /\ op.file = "upcert"

\* The operations of a handler of kind k.
OpFits(k, op) ==
    /\ op.file \in Uploaded => k \in {"upload", "reset"}
    /\ op.file \in Uploaded /\ op.do \in FileWrites => k = "upload"
    /\ op.file \in Managed /\ op.do \in Touches => k \in {"regen", "boot"}
    /\ op.do = "write" => op.file \notin {"upkey", "key"}
    /\ op.do = "create" => op.file \notin {"upcert", "cert", "sans"}
    /\ op.do = "remove" => op.file # "sans" /\ op.val = NoFile
    /\ op.do \in FileWrites => op.val \notin {NoFile, Torn}
    /\ op.do = "write" /\ op.file = "cert" => op.val \in Certs /\ op.val.sound
    /\ op.do = "write" /\ op.file = "sans" => op.val \in SanSets
    /\ op.do = "decide" => k = "regen"
    /\ op.do \in {"readcert", "readkey", "swap"} => k \in {"upload", "reset", "regen"}
    /\ op.do = "readcert" => op.file = CertOf(k)
    /\ op.do = "readkey" => op.file = KeyOf(k)
    /\ k \in {"csr", "discard"} => op.do \in Touches /\ op.file \in {"pkey", "pmeta"}
    /\ k = "reset" => op.do \notin FileWrites
    /\ k = "boot" => op.do \in Touches /\ op.file \in Managed

\* What an operation leaves for later ones to do.
Leaves(k, s, n) ==
    LET op == s[n] IN
    /\ op.do \in FileWrites /\ op.file \in Uploaded => \E j \in n + 1 .. Len(s) : Mark(s[j])
    /\ op.do = "readcert" => n < Len(s) /\ s[n + 1].do = "readkey"
    /\ op.do = "readkey" => n < Len(s) /\ s[n + 1].do = "swap"
    /\ k = "regen" /\ op.do \in Touches => n < Len(s)
    /\ op.do = "remove" /\ op.file \in Managed => Later(s, n + 1, FileWrites, {op.file})
    /\ op.do = "decide" => n = Len(s)
    /\ op.do = "swap" => (\A j \in n + 1 .. Len(s) : s[j].do # "swap") /\ (k # "upload" => n = Len(s))
    /\ k = "reset" => s[Len(s)].do = "swap"
    /\ k = "upload" /\ op.do # "remove" => \E j \in n .. Len(s) : s[j].do = "swap"

\* What comes before an operation.
Follows(k, s, n) ==
    LET op == s[n] next == s[n + 1] IN
    /\ ~(next.do = "remove" /\ next.file \in {"upcert", "cert"})
    /\ next.do = "remove" /\ next.file = "key" => op.do = "remove" /\ op.file = "cert"
    /\ next.do = "write" /\ next.file = "cert" => op.do = "remove" /\ op.file = "key"
    /\ next.do = "create" /\ next.file = "key" => op.do = "write" /\ op.file = "cert" /\ next.val = op.val.id
    /\ next.do = "readkey" => op.do = "readcert"
    /\ next.do = "swap" => op.do = "readkey"
    /\ next.do = "readcert" => k \in {"upload", "reset"}
    /\ k = "reset" => ~Mark(next)
    /\ next.file = "upkey" => (op.do = "remove" /\ op.file = "upcert") \/ \E j \in n + 1 .. Len(s) : s[j].do = "swap"

Shaped(k, s) ==
    \A n \in 1 .. Len(s) : OpFits(k, s[n]) /\ Leaves(k, s, n) /\ (n < Len(s) => Follows(k, s, n))

LEMMA ShapedTail ==
    ASSUME NEW k, NEW s \in Seq(Ops), s # <<>>, Shaped(k, s)
    PROVE  Shaped(k, Tail(s))
<1> DEFINE t == Tail(s)
<1>1. t \in Seq(Ops) /\ Len(t) = Len(s) - 1 /\ \A i \in 1 .. Len(t) : t[i] = s[i + 1]
  OBVIOUS
<1>2. Len(s) \in Nat /\ Len(t) \in Nat
  BY <1>1
<1> HIDE DEF t
<1> SUFFICES ASSUME NEW n \in 1 .. Len(t)
             PROVE  OpFits(k, t[n]) /\ Leaves(k, t, n) /\ (n < Len(t) => Follows(k, t, n))
  BY DEF Shaped, t
<1>3. /\ n + 1 \in 1 .. Len(s) /\ t[n] = s[n + 1]
      /\ n < Len(t) => n + 1 < Len(s) /\ t[n + 1] = s[n + 2]
      /\ \A j \in 1 .. Len(t) : j + 1 \in 2 .. Len(s) /\ t[j] = s[j + 1]
      /\ \A j \in 2 .. Len(s) : j - 1 \in 1 .. Len(t) /\ t[j - 1] = s[j]
      /\ n \in Nat
  BY <1>1, <1>2
<1>4. OpFits(k, s[n + 1]) /\ Leaves(k, s, n + 1) /\ (n + 1 < Len(s) => Follows(k, s, n + 1))
  BY <1>3 DEF Shaped
<1>5. ASSUME NEW m \in 1 .. Len(t) + 1
      PROVE  \A j \in m + 1 .. Len(s) : j - 1 \in m .. Len(t) /\ t[j - 1] = s[j]
  BY <1>1, <1>2, <1>3
<1>6. OpFits(k, t[n])
  BY <1>3, <1>4
<1>7. Leaves(k, t, n)
  <2> DEFINE op == t[n]
  <2>1. op.do \in FileWrites /\ op.file \in Uploaded => \E j \in n + 1 .. Len(t) : Mark(t[j])
    <3> SUFFICES ASSUME op.do \in FileWrites, op.file \in Uploaded PROVE \E j \in n + 1 .. Len(t) : Mark(t[j])
      OBVIOUS
    <3>1. PICK j \in (n + 1) + 1 .. Len(s) : Mark(s[j])
      BY <1>3, <1>4 DEF Leaves
    <3>2. j - 1 \in n + 1 .. Len(t) /\ t[j - 1] = s[j]
      BY <1>1, <1>2, <1>3
    <3> QED
      BY <3>1, <3>2
  <2>2. /\ op.do = "readcert" => n < Len(t) /\ t[n + 1].do = "readkey"
        /\ op.do = "readkey" => n < Len(t) /\ t[n + 1].do = "swap"
        /\ k = "regen" /\ op.do \in Touches => n < Len(t)
    <3>1. /\ op.do = "readcert" => n + 1 < Len(s) /\ s[(n + 1) + 1].do = "readkey"
          /\ op.do = "readkey" => n + 1 < Len(s) /\ s[(n + 1) + 1].do = "swap"
          /\ k = "regen" /\ op.do \in Touches => n + 1 < Len(s)
      BY <1>3, <1>4 DEF Leaves
    <3> QED
      BY <1>1, <1>2, <1>3, <3>1
  <2>3. op.do = "remove" /\ op.file \in Managed => Later(t, n + 1, FileWrites, {op.file})
    <3> SUFFICES ASSUME op.do = "remove", op.file \in Managed PROVE Later(t, n + 1, FileWrites, {op.file})
      OBVIOUS
    <3>1. PICK j \in (n + 1) + 1 .. Len(s) : s[j].do \in FileWrites /\ s[j].file \in {op.file}
      BY <1>3, <1>4 DEF Leaves, Later
    <3>2. j - 1 \in n + 1 .. Len(t) /\ t[j - 1] = s[j]
      BY <1>2, <1>3, <1>5
    <3> QED
      BY <3>1, <3>2 DEF Later
  <2>4. op.do = "decide" => n = Len(t)
    BY <1>1, <1>2, <1>3, <1>4 DEF Leaves
  <2>5. op.do = "swap" => (\A j \in n + 1 .. Len(t) : t[j].do # "swap") /\ (k # "upload" => n = Len(t))
    <3> SUFFICES ASSUME op.do = "swap"
                 PROVE  (\A j \in n + 1 .. Len(t) : t[j].do # "swap") /\ (k # "upload" => n = Len(t))
      OBVIOUS
    <3>1. (\A j \in (n + 1) + 1 .. Len(s) : s[j].do # "swap") /\ (k # "upload" => n + 1 = Len(s))
      BY <1>3, <1>4 DEF Leaves
    <3>2. \A j \in n + 1 .. Len(t) : j + 1 \in (n + 1) + 1 .. Len(s) /\ t[j] = s[j + 1]
      BY <1>1, <1>2, <1>3
    <3>3. \A j \in n + 1 .. Len(t) : t[j].do # "swap"
      BY <3>1, <3>2
    <3> QED
      BY <1>1, <1>2, <1>3, <3>1, <3>3
  <2>6. k = "reset" => t[Len(t)].do = "swap"
    BY <1>1, <1>2, <1>3, <1>4 DEF Leaves
  <2>7. k = "upload" /\ op.do # "remove" => \E j \in n .. Len(t) : t[j].do = "swap"
    <3> SUFFICES ASSUME k = "upload", op.do # "remove" PROVE \E j \in n .. Len(t) : t[j].do = "swap"
      OBVIOUS
    <3>1. PICK j \in n + 1 .. Len(s) : s[j].do = "swap"
      BY <1>3, <1>4 DEF Leaves
    <3>2. j - 1 \in n .. Len(t) /\ t[j - 1] = s[j]
      BY <1>1, <1>2, <1>3
    <3> QED
      BY <3>1, <3>2
  <2> QED
    BY <2>1, <2>2, <2>3, <2>4, <2>5, <2>6, <2>7 DEF Leaves
<1>8. ASSUME n < Len(t) PROVE Follows(k, t, n)
  <2>1. Follows(k, s, n + 1) /\ t[n + 1] = s[(n + 1) + 1] /\ t[n] = s[n + 1]
    BY <1>1, <1>2, <1>3, <1>4, <1>8
  <2>2. ASSUME NEW j \in (n + 1) + 1 .. Len(s), s[j].do = "swap"
        PROVE  \E i \in n + 1 .. Len(t) : t[i].do = "swap"
    <3>1. j - 1 \in n + 1 .. Len(t) /\ t[j - 1] = s[j]
      BY <1>1, <1>2, <1>3
    <3> QED
      BY <2>2, <3>1
  <2> QED
    BY <2>1, <2>2 DEF Follows
<1> QED
  BY <1>6, <1>7, <1>8


LEMMA UploadShape ==
    ASSUME NEW c \in Certs
    PROVE  Shaped("upload", upload_plan(c)) /\ Shaped("upload", upload_and_clear_plan(c))
<1> DEFINE p == upload_and_clear_plan(c)
           q == upload_plan(c)
<1>1. /\ Len(p) = 9 /\ p[1] = Op("write", "upcert", c) /\ p[2] = Op("remove", "upkey", NoFile)
      /\ p[3] = Op("create", "upkey", c.id) /\ p[4] = Op("write", "upmeta", c.id)
      /\ p[5] = Op("readcert", "upcert", NoFile) /\ p[6] = Op("readkey", "upkey", NoFile)
      /\ p[7] = Op("swap", "upcert", NoFile)
      /\ p[8] = Op("remove", "pkey", NoFile) /\ p[9] = Op("remove", "pmeta", NoFile)
  BY DEF upload_and_clear_plan, Write, Create, Remove
<1>2. Len(q) = 7 /\ \A i \in 1 .. 7 : q[i] = p[i]
  BY DEF upload_plan, upload_and_clear_plan, Write, Create, Remove
<1>3. c.id \notin {NoFile, Torn} /\ c \notin {NoFile, Torn}
  BY ValsFacts
<1> HIDE DEF p, q
<1>4. \A i \in 1 .. 9 : i \in {1, 2, 3, 4, 5, 6, 7, 8, 9}
  OBVIOUS
<1>5. \A i \in 1 .. 9 : OpFits("upload", p[i])
  BY <1>1, <1>3, <1>4 DEF OpFits, Op, FileWrites, Touches, Managed, Uploaded, CertOf, KeyOf
<1>6. Mark(p[3]) /\ Mark(p[5]) /\ p[6].do = "readkey" /\ p[7].do = "swap" /\ p[8].do = "remove" /\ p[9].do = "remove"
  BY <1>1 DEF Mark, Op
<1>7. ASSUME NEW i \in 1 .. 9
      PROVE  /\ p[i].do = "swap" => i = 7
             /\ p[i].do \in FileWrites /\ p[i].file \in Uploaded => i \in {1, 3}
             /\ p[i].do = "readcert" => i = 5
             /\ p[i].do = "readkey" => i = 6
             /\ p[i].do = "remove" => p[i].file \notin Managed
             /\ p[i].do # "decide"
             /\ p[i].do # "remove" => i <= 7
  BY <1>1, <1>4 DEF Op, FileWrites, Managed, Uploaded
<1>8. ASSUME NEW s, NEW m \in {7, 9}, Len(s) = m, \A i \in 1 .. m : s[i] = p[i]
      PROVE  Shaped("upload", s)
  <2> SUFFICES ASSUME NEW n \in 1 .. m
               PROVE  OpFits("upload", s[n]) /\ Leaves("upload", s, n) /\ (n < m => Follows("upload", s, n))
    BY <1>8 DEF Shaped
  <2>1. s[n] = p[n] /\ n \in 1 .. 9 /\ s[7] = p[7] /\ s[3] = p[3] /\ s[5] = p[5]
    BY <1>8
  <2>2. Leaves("upload", s, n)
    <3>1. s[n].do \in FileWrites /\ s[n].file \in Uploaded => \E j \in n + 1 .. Len(s) : Mark(s[j])
      <4>1. CASE n = 1
        BY <1>6, <1>8, <2>1, <4>1
      <4>2. CASE n = 3
        BY <1>6, <1>8, <2>1, <4>2
      <4> QED
        BY <1>7, <2>1, <4>1, <4>2
    <3>2. /\ s[n].do = "readcert" => n < Len(s) /\ s[n + 1].do = "readkey"
          /\ s[n].do = "readkey" => n < Len(s) /\ s[n + 1].do = "swap"
      BY <1>6, <1>7, <1>8, <2>1
    <3>3. s[n].do = "swap" => \A j \in n + 1 .. Len(s) : s[j].do # "swap"
      BY <1>7, <1>8, <2>1
    <3>4. s[n].do # "remove" => \E j \in n .. Len(s) : s[j].do = "swap"
      BY <1>6, <1>7, <1>8, <2>1
    <3> QED
      BY <1>7, <2>1, <3>1, <3>2, <3>3, <3>4 DEF Leaves
  <2>3. ASSUME n < m PROVE Follows("upload", s, n)
    <3>1. s[n + 1] = p[n + 1] /\ n \in 1 .. 8
      BY <1>8, <2>3
    <3>2. ASSUME s[n + 1].file = "upkey" PROVE \E j \in n + 1 .. Len(s) : s[j].do = "swap"
      <4>1. n + 1 \in {2, 3, 6}
        BY <1>1, <3>1, <3>2 DEF Op
      <4> QED
        BY <1>6, <1>8, <2>1, <4>1
    <3>3. n \in {1, 2, 3, 4, 5, 6, 7, 8}
      BY <3>1
    <3> QED
      BY <1>1, <2>1, <3>1, <3>2, <3>3 DEF Follows, Op
  <2> QED
    BY <1>5, <2>1, <2>2, <2>3
<1>9. Shaped("upload", p)
  BY <1>1, <1>8
<1>10. Shaped("upload", q)
  BY <1>2, <1>8
<1> QED
  BY <1>9, <1>10 DEF p, q

LEMMA RegenerateShape ==
    ASSUME NEW c \in Certs, c.sound
    PROVE  Shaped("regen", regenerate_plan(c)) /\ Shaped("boot", regenerate_managed_pair(c))
<1> DEFINE p == regenerate_plan(c)
           q == regenerate_managed_pair(c)
<1>1. /\ Len(p) = 6 /\ p[1] = Op("remove", "cert", NoFile) /\ p[2] = Op("remove", "key", NoFile)
      /\ p[3] = Op("write", "cert", c) /\ p[4] = Op("create", "key", c.id)
      /\ p[5] = Op("write", "sans", c.sans) /\ p[6] = Op("decide", "cert", NoFile)
  BY DEF regenerate_plan, Write, Create, Remove
<1>2. Len(q) = 5 /\ \A i \in 1 .. 5 : q[i] = p[i]
  BY DEF regenerate_plan, regenerate_managed_pair
<1>3. c.id \notin {NoFile, Torn} /\ c \notin {NoFile, Torn} /\ c.sans \notin {NoFile, Torn} /\ c.sans \in SanSets
  BY ValsFacts
<1> HIDE DEF p, q
<1>4. \A i \in 1 .. 6 : i \in {1, 2, 3, 4, 5, 6}
  OBVIOUS
<1>5. \A i \in 1 .. 6 : OpFits("regen", p[i])
  BY <1>1, <1>3, <1>4 DEF OpFits, Op, FileWrites, Touches, Managed, Uploaded, CertOf, KeyOf
<1>6. \A i \in 1 .. 5 : OpFits("boot", p[i])
  <2>1. \A i \in 1 .. 5 : i \in {1, 2, 3, 4, 5}
    OBVIOUS
  <2> QED
    BY <1>1, <1>3, <2>1 DEF OpFits, Op, FileWrites, Touches, Managed, Uploaded, CertOf, KeyOf
<1>7. ASSUME NEW i \in 1 .. 6
      PROVE  /\ p[i].file \notin Uploaded /\ p[i].do \notin {"readcert", "readkey", "swap"}
             /\ p[i].do = "remove" => i \in {1, 2} /\ p[i + 2].do \in FileWrites /\ p[i + 2].file = p[i].file
             /\ p[i].do = "decide" <=> i = 6
  BY <1>1, <1>4 DEF Op, FileWrites, Uploaded
<1>8. ASSUME NEW k \in {"regen", "boot"}, NEW s, NEW m \in {5, 6}, k = "regen" => m = 6, Len(s) = m, \A i \in 1 .. m : s[i] = p[i],
             \A i \in 1 .. m : OpFits(k, p[i])
      PROVE  Shaped(k, s)
  <2> SUFFICES ASSUME NEW n \in 1 .. m
               PROVE  OpFits(k, s[n]) /\ Leaves(k, s, n) /\ (n < m => Follows(k, s, n))
    BY <1>8 DEF Shaped
  <2>1. s[n] = p[n] /\ n \in 1 .. 6
    BY <1>8
  <2>2. Leaves(k, s, n)
    <3>1. ASSUME s[n].do = "remove" PROVE Later(s, n + 1, FileWrites, {s[n].file})
      <4>1. n \in {1, 2} /\ p[n + 2].do \in FileWrites /\ p[n + 2].file = p[n].file
        BY <1>7, <2>1, <3>1
      <4>2. n + 2 \in n + 1 .. Len(s) /\ s[n + 2] = p[n + 2]
        BY <1>8, <4>1
      <4> QED
        BY <2>1, <4>1, <4>2 DEF Later
    <3>2. s[n].do = "decide" => n = Len(s)
      BY <1>7, <1>8, <2>1
    <3>3. k = "regen" /\ s[n].do \in Touches => n < Len(s)
      BY <1>7, <1>8, <2>1 DEF Touches
    <3> QED
      BY <1>7, <2>1, <3>1, <3>2, <3>3 DEF Leaves
  <2>3. ASSUME n < m PROVE Follows(k, s, n)
    <3>1. s[n + 1] = p[n + 1] /\ n \in 1 .. 5
      BY <1>8, <2>3
    <3>2. n \in {1, 2, 3, 4, 5}
      BY <3>1
    <3> QED
      BY <1>1, <2>1, <3>1, <3>2 DEF Follows, Op
  <2> QED
    BY <1>8, <2>1, <2>2, <2>3
<1>9. Shaped("regen", p)
  BY <1>1, <1>5, <1>8
<1>10. Shaped("boot", q)
  BY <1>2, <1>6, <1>8
<1> QED
  BY <1>9, <1>10 DEF p, q

LEMMA ResetShape == Shaped("reset", reset_plan)
<1> DEFINE p == reset_plan
<1>1. /\ Len(p) = 6 /\ p[1] = Op("remove", "upcert", NoFile) /\ p[2] = Op("remove", "upkey", NoFile)
      /\ p[3] = Op("remove", "upmeta", NoFile) /\ p[4] = Op("readcert", "cert", NoFile)
      /\ p[5] = Op("readkey", "key", NoFile) /\ p[6] = Op("swap", "cert", NoFile)
  BY DEF reset_plan, Remove
<1> HIDE DEF p
<1>2. \A i \in 1 .. 6 : i \in {1, 2, 3, 4, 5, 6}
  OBVIOUS
<1> SUFFICES ASSUME NEW n \in 1 .. 6
             PROVE  OpFits("reset", p[n]) /\ Leaves("reset", p, n) /\ (n < 6 => Follows("reset", p, n))
  BY <1>1 DEF Shaped, p
<1>3. OpFits("reset", p[n])
  BY <1>1, <1>2 DEF OpFits, Op, FileWrites, Touches, Managed, Uploaded, CertOf, KeyOf
<1>4. Leaves("reset", p, n)
  <2>1. p[n].do \notin FileWrites /\ p[n].do # "decide" /\ (p[n].do = "remove" => p[n].file \notin Managed)
    BY <1>1, <1>2 DEF Op, FileWrites, Managed
  <2>2. (p[n].do = "swap" => n = 6) /\ (p[n].do = "readcert" => n = 4) /\ (p[n].do = "readkey" => n = 5)
    BY <1>1, <1>2 DEF Op
  <2>3. p[5].do = "readkey" /\ p[6].do = "swap"
    BY <1>1 DEF Op
  <2> QED
    BY <1>1, <2>1, <2>2, <2>3 DEF Leaves
<1>5. ASSUME n < 6 PROVE Follows("reset", p, n)
  <2>1. n \in {1, 2, 3, 4, 5}
    BY <1>5
  <2>2. p[n + 1].file = "upkey" => p[n].do = "remove" /\ p[n].file = "upcert"
    BY <1>1, <2>1 DEF Op
  <2> QED
    BY <1>1, <2>1, <2>2 DEF Follows, Op, Mark
<1> QED
  BY <1>3, <1>4, <1>5

LEMMA ReloadShape == Shaped("regen", Reload("cert", "key"))
<1> DEFINE p == Reload("cert", "key")
<1>1. /\ Len(p) = 3 /\ p[1] = Op("readcert", "cert", NoFile)
      /\ p[2] = Op("readkey", "key", NoFile) /\ p[3] = Op("swap", "cert", NoFile)
  BY DEF Reload
<1> HIDE DEF p
<1>2. \A i \in 1 .. 3 : i \in {1, 2, 3}
  OBVIOUS
<1> SUFFICES ASSUME NEW n \in 1 .. 3
             PROVE  OpFits("regen", p[n]) /\ Leaves("regen", p, n) /\ (n < 3 => Follows("regen", p, n))
  BY <1>1 DEF Shaped, p
<1>3. OpFits("regen", p[n])
  BY <1>1, <1>2 DEF OpFits, Op, FileWrites, Touches, Managed, Uploaded, CertOf, KeyOf
<1>4. Leaves("regen", p, n)
  BY <1>1, <1>2 DEF Leaves, Op, FileWrites, Touches
<1>5. ASSUME n < 3 PROVE Follows("regen", p, n)
  BY <1>1, <1>2, <1>5 DEF Follows, Op
<1> QED
  BY <1>3, <1>4, <1>5

\* The plans that only touch a file each.
LEMMA OtherShapes ==
    /\ Shaped("upload", remove_uploaded_pair) /\ Shaped("discard", clear_pending)
    /\ \A n \in 1 .. MaxKeys : Shaped("csr", save_pending(Key(n)))
    /\ \A k : Shaped(k, <<>>)
<1>1. Shaped("upload", remove_uploaded_pair)
  <2> DEFINE p == remove_uploaded_pair
  <2>1. /\ Len(p) = 3 /\ p[1] = Op("remove", "upcert", NoFile) /\ p[2] = Op("remove", "upkey", NoFile)
        /\ p[3] = Op("remove", "upmeta", NoFile)
    BY DEF remove_uploaded_pair, Remove
  <2> HIDE DEF p
  <2>2. \A i \in 1 .. 3 : i \in {1, 2, 3}
    OBVIOUS
  <2> SUFFICES ASSUME NEW n \in 1 .. 3
               PROVE  OpFits("upload", p[n]) /\ Leaves("upload", p, n) /\ (n < 3 => Follows("upload", p, n))
    BY <2>1 DEF Shaped, p
  <2>3. OpFits("upload", p[n])
    BY <2>1, <2>2 DEF OpFits, Op, FileWrites, Touches, Managed, Uploaded, CertOf, KeyOf
  <2>4. Leaves("upload", p, n)
    BY <2>1, <2>2 DEF Leaves, Op, FileWrites, Managed
  <2>5. ASSUME n < 3 PROVE Follows("upload", p, n)
    BY <2>1, <2>2, <2>5 DEF Follows, Op
  <2> QED
    BY <2>3, <2>4, <2>5
<1>2. Shaped("discard", clear_pending)
  <2> DEFINE p == clear_pending
  <2>1. Len(p) = 2 /\ p[1] = Op("remove", "pkey", NoFile) /\ p[2] = Op("remove", "pmeta", NoFile)
    BY DEF clear_pending, Remove
  <2> HIDE DEF p
  <2>2. \A i \in 1 .. 2 : i \in {1, 2}
    OBVIOUS
  <2> SUFFICES ASSUME NEW n \in 1 .. 2
               PROVE  OpFits("discard", p[n]) /\ Leaves("discard", p, n) /\ (n < 2 => Follows("discard", p, n))
    BY <2>1 DEF Shaped, p
  <2>3. OpFits("discard", p[n])
    BY <2>1, <2>2 DEF OpFits, Op, FileWrites, Touches, Managed, Uploaded, CertOf, KeyOf
  <2>4. Leaves("discard", p, n)
    BY <2>1, <2>2 DEF Leaves, Op, FileWrites, Managed
  <2>5. ASSUME n < 2 PROVE Follows("discard", p, n)
    BY <2>1, <2>2, <2>5 DEF Follows, Op
  <2> QED
    BY <2>3, <2>4, <2>5
<1>3. ASSUME NEW v \in 1 .. MaxKeys PROVE Shaped("csr", save_pending(Key(v)))
  <2> DEFINE p == save_pending(Key(v))
             w == Key(v)
  <2>1. Len(p) = 3 /\ p[1] = Op("remove", "pkey", NoFile) /\ p[2] = Op("create", "pkey", w) /\ p[3] = Op("write", "pmeta", w)
    BY DEF save_pending, Remove, Create, Write
  <2> HIDE DEF p
  <2>2. \A i \in 1 .. 3 : i \in {1, 2, 3}
    OBVIOUS
  <2> SUFFICES ASSUME NEW n \in 1 .. 3
               PROVE  OpFits("csr", p[n]) /\ Leaves("csr", p, n) /\ (n < 3 => Follows("csr", p, n))
    BY <2>1 DEF Shaped, p
  <2>3. w \notin {NoFile, Torn}
    <3>1. v \in 0 .. MaxKeys
      BY TlsAssumption
    <3> QED
      BY <3>1, TlsAssumption
  <2> HIDE DEF w
  <2>4. OpFits("csr", p[n])
    BY <2>1, <2>2, <2>3 DEF OpFits, Op, FileWrites, Touches, Managed, Uploaded, CertOf, KeyOf
  <2>5. Leaves("csr", p, n)
    BY <2>1, <2>2 DEF Leaves, Op, FileWrites, Managed, Uploaded
  <2>6. ASSUME n < 3 PROVE Follows("csr", p, n)
    BY <2>1, <2>2, <2>6 DEF Follows, Op
  <2> QED
    BY <2>4, <2>5, <2>6
<1>4. ASSUME NEW k PROVE Shaped(k, <<>>)
  BY DEF Shaped
<1> QED
  BY <1>1, <1>2, <1>3, <1>4

-----------------------------------------------------------------------------
(* Tls: handlers, the boot and the listener *)

TlsTypes ==
    /\ disk \in [Files -> Vals] /\ req \in [Actors -> Runs] /\ minted \in Nat
    /\ disk["sans"] \in SanSets \cup {NoFile, Torn}

\* Every actor has a plan's rest left and nothing once it is over; nobody but
\* the boot runs while the listener is down; what is swapped in was read.
Handlers ==
    /\ \A r \in Actors : /\ Shaped(req[r].kind, req[r].todo)
                         /\ req[r].kind \in {"new", "done"} => req[r].todo = <<>>
                         /\ req[r].todo # <<>> /\ req[r].todo[1].do = "swap" => req[r].got # NoFile
                         /\ req[r].kind = "boot" <=> (r = Boot /\ req[r].kind # "new")
    /\ \A r \in Requests : live = NoFile => req[r].todo = <<>>
    /\ req[Boot].kind = "boot" => live = NoFile

LEMMA IdleRun == Idle \in Runs /\ [Idle EXCEPT !.kind = "done"] \in Runs
             /\ Idle.todo = <<>> /\ Idle.kind = "new" /\ [Idle EXCEPT !.kind = "done"].todo = <<>>
             /\ [Idle EXCEPT !.kind = "done"].kind = "done"
<1>1. <<>> \in Seq(Ops) /\ NoFile \in Vals
  BY ValsFacts
<1> QED
  BY <1>1 DEF Idle, Runs

\* What Goes does to the handlers.
LEMMA GoesTo ==
    ASSUME TlsTypes, NEW r \in Actors, NEW ops \in Seq(Ops), NEW got \in Vals, Goes(r, ops, got)
    PROVE  /\ req' \in [Actors -> Runs] /\ req'[r].todo = ops
           /\ \A q \in Actors : q # r => req'[q] = req[q]
           /\ ops # <<>> \/ r = Boot => /\ req'[r].kind = req[r].kind
                                        /\ req'[r].got = got /\ req'[r].over = req[r].over
           /\ ops = <<>> /\ r # Boot => req'[r].kind = "done"
<1> DEFINE new == IF ops = <<>> /\ r # Boot THEN [Idle EXCEPT !.kind = "done"]
                  ELSE [req[r] EXCEPT !.todo = ops, !.got = got]
<1>1. req[r] \in Runs
  BY DEF TlsTypes
<1>2. /\ new \in Runs /\ new.todo = ops
      /\ ops # <<>> \/ r = Boot => new.kind = req[r].kind /\ new.got = got /\ new.over = req[r].over
      /\ ops = <<>> /\ r # Boot => new.kind = "done"
  BY <1>1, IdleRun DEF Runs
<1>3. req' = [req EXCEPT ![r] = new]
  BY DEF Goes, TlsTypes
<1> HIDE DEF new
<1> QED
  BY <1>2, <1>3 DEF TlsTypes

\* An actor with something left, and its operation.
LEMMA HeadOp ==
    ASSUME TlsTypes, NEW r \in Actors, req[r].todo # <<>>
    PROVE  /\ Head1(r) \in Ops /\ Head1(r) = req[r].todo[1] /\ req[r] \in Runs /\ req[r].todo \in Seq(Ops)
           /\ Tail(req[r].todo) \in Seq(Ops) /\ Len(req[r].todo) \in Nat /\ Len(req[r].todo) >= 1
           /\ Len(Tail(req[r].todo)) = Len(req[r].todo) - 1
           /\ \A i \in 1 .. Len(Tail(req[r].todo)) : Tail(req[r].todo)[i] = req[r].todo[i + 1]
<1>1. req[r] \in Runs
  BY DEF TlsTypes
<1>2. req[r].todo \in Seq(Ops)
  BY <1>1 DEF Runs
<1> QED
  BY <1>1, <1>2 DEF Head1

\* A handler that fails: an upload is rolled back, anything else ends.
LEMMA FailsTo ==
    ASSUME TlsTypes, Handlers, NEW r \in Actors, req[r].todo # <<>>, Fails(r)
    PROVE  /\ req' \in [Actors -> Runs]
           /\ \A q \in Actors : q # r => req'[q] = req[q]
           /\ req[r].kind # "upload" => req'[r].todo = <<>>
           /\ req[r].kind = "upload" => /\ req'[r].todo = remove_uploaded_pair /\ req'[r].kind = "upload"
                                        /\ req'[r].over = req[r].over /\ r # Boot
           /\ r = Boot => req'[r].kind = "new"
           /\ r # Boot => req'[r].kind \in {"done", "upload"}
           /\ spoiled' = (spoiled \/ req[r].kind \in {"regen", "reset"} \/ (req[r].kind = "upload" /\ req[r].over))
<1>1. req[r] \in Runs /\ <<>> \in Seq(Ops) /\ remove_uploaded_pair \in Seq(Ops) /\ NoFile \in Vals
  BY HeadOp, PlansAreOps, ValsFacts
<1>2. remove_uploaded_pair # <<>>
  BY DEF remove_uploaded_pair
<1>3. spoiled' = (spoiled \/ req[r].kind \in {"regen", "reset"} \/ (req[r].kind = "upload" /\ req[r].over))
  BY DEF Fails
<1>4. req[r].kind = "boot" <=> r = Boot
  BY DEF Handlers
<1>5. CASE r = Boot
  <2>1. req' = [req EXCEPT ![r] = Idle]
    BY <1>4, <1>5 DEF Fails
  <2> QED
    BY <1>3, <1>4, <1>5, <2>1, IdleRun DEF TlsTypes
<1>6. CASE r # Boot /\ req[r].kind = "upload"
  <2>1. Goes(r, remove_uploaded_pair, NoFile)
    BY <1>4, <1>6 DEF Fails
  <2> QED
    BY <1>1, <1>2, <1>3, <1>4, <1>6, <2>1, GoesTo
<1>7. CASE r # Boot /\ req[r].kind # "upload"
  <2>1. Goes(r, <<>>, NoFile)
    BY <1>4, <1>7 DEF Fails
  <2> QED
    BY <1>1, <1>2, <1>3, <1>4, <1>7, <2>1, GoesTo
<1> QED
  BY <1>5, <1>6, <1>7

\* A handler that has done its operation.
LEMMA DoneTo ==
    ASSUME TlsTypes, NEW r \in Actors, req[r].todo # <<>>, NEW got \in Vals, Done(r, got)
    PROVE  /\ req' \in [Actors -> Runs] /\ req'[r].todo = Tail(req[r].todo)
           /\ \A q \in Actors : q # r => req'[q] = req[q]
           /\ req'[r].todo # <<>> \/ r = Boot => /\ req'[r].kind = req[r].kind
                                                 /\ req'[r].got = got /\ req'[r].over = req[r].over
           /\ req'[r].todo = <<>> /\ r # Boot => req'[r].kind = "done"
           /\ spoiled' = spoiled
BY HeadOp, GoesTo DEF Done

\* A handler that starts.
LEMMA BeginsTo ==
    ASSUME TlsTypes, NEW r \in Requests, NEW k \in Kinds, NEW ops \in Seq(Ops), Begin(r, k, ops)
    PROVE  /\ req' \in [Actors -> Runs] /\ req'[r].todo = ops
           /\ \A q \in Actors : q # r => req'[q] = req[q]
           /\ ops # <<>> => req'[r].kind = k /\ req'[r].got = NoFile /\ req'[r].over = ~Missing("upcert")
           /\ ops = <<>> => req'[r].kind = "done"
           /\ live # NoFile /\ req[r].kind = "new"
           /\ UNCHANGED <<disk, live, mount, spoiled, strikes>>
           /\ clash' = clash \cup UNION {{"any"} \cup ({k} \cap {req[q].kind}) : q \in InFlight}
<1> DEFINE new == IF ops = <<>> THEN [Idle EXCEPT !.kind = "done"]
                  ELSE [kind |-> k, todo |-> ops, got |-> NoFile, over |-> ~Missing("upcert")]
<1>1. /\ new \in Runs /\ new.todo = ops
      /\ ops # <<>> => new.kind = k /\ new.got = NoFile /\ new.over = ~Missing("upcert")
      /\ ops = <<>> => new.kind = "done"
  BY IdleRun, ValsFacts DEF Runs, Missing
<1>2. req' = [req EXCEPT ![r] = new]
  BY DEF Begin
<1>3. r \in Actors
  BY DEF Actors
<1> HIDE DEF new
<1>4. /\ req' \in [Actors -> Runs] /\ req'[r] = new /\ \A q \in Actors : q # r => req'[q] = req[q]
  BY <1>1, <1>2, <1>3 DEF TlsTypes
<1> QED
  BY <1>1, <1>4 DEF Begin, Calm

\* What the requests begin.
StartsWith(r, k, ops) ==
    /\ ops \in Seq(Ops) /\ Shaped(k, ops) /\ k \in Kinds \ {"boot"} /\ Begin(r, k, ops) /\ minted' \in Nat
    /\ \/ ops = <<>>
       \/ k = "upload" /\ ops[1].do = "write" /\ ops[1].file = "upcert" /\ \E i \in 1 .. Len(ops) : ops[i].do = "swap"
       \/ k \in {"csr", "discard"} /\ ops[1].do = "remove" /\ ops[1].file = "pkey"
       \/ k = "regen" /\ ops[1].do = "remove" /\ ops[1].file = "cert"
       \/ k = "reset" /\ ops[1].do = "remove" /\ ops[1].file = "upcert"

Starts(r) ==
    \/ \E c \in Certs : tls_upload(r, c)
    \/ tls_csr(r) \/ tls_pending_discard(r) \/ tls_reset(r)
    \/ \E s \in SanSets : tls_regenerate(r, s)

LEMMA MintedKey ==
    ASSUME TlsTypes, Mint
    PROVE  minted' \in Nat /\ minted + 1 \in 1 .. MaxKeys
BY TlsAssumption DEF TlsTypes, Mint

LEMMA MintedCert ==
    ASSUME TlsTypes, Mint, NEW s \in SanSets
    PROVE  /\ [id |-> Key(minted + 1), sans |-> s, sound |-> TRUE] \in Certs
           /\ [id |-> Key(minted + 1), sans |-> s, sound |-> TRUE].sound
BY MintedKey DEF Certs

LEMMA RequestsStart ==
    ASSUME TlsTypes, NEW r \in Requests, Starts(r)
    PROVE  \E k \in Kinds, ops \in Seq(Ops) : StartsWith(r, k, ops)
<1>1. ASSUME NEW c \in Certs, tls_upload(r, c) PROVE \E k \in Kinds, ops \in Seq(Ops) : StartsWith(r, k, ops)
  <2>1. minted' \in Nat
    BY <1>1, MintedKey DEF tls_upload, TlsTypes
  <2>2. "upload" \in Kinds \ {"boot"} /\ <<>> \in Seq(Ops)
    BY DEF Kinds
  <2>3. CASE disk["pkey"] \in {NoFile, c.id}
    <3>1. \/ Begin(r, "upload", upload_plan(c))
          \/ Begin(r, "upload", upload_and_clear_plan(c))
      BY <1>1, <2>3, UploadPlan DEF tls_upload
    <3>2. /\ upload_plan(c)[1].do = "write" /\ upload_plan(c)[1].file = "upcert"
          /\ Len(upload_plan(c)) = 7 /\ upload_plan(c)[7].do = "swap"
      BY DEF upload_plan, Write, Op
    <3>3. /\ upload_and_clear_plan(c)[1].do = "write" /\ upload_and_clear_plan(c)[1].file = "upcert"
          /\ Len(upload_and_clear_plan(c)) = 9 /\ upload_and_clear_plan(c)[7].do = "swap"
      BY DEF upload_and_clear_plan, Write, Op
    <3>4. CASE Begin(r, "upload", upload_plan(c))
      <4>1. StartsWith(r, "upload", upload_plan(c))
        BY <2>1, <2>2, <3>2, <3>4, UploadShape, PlansAreOps DEF StartsWith
      <4> QED
        BY <2>2, <4>1, PlansAreOps
    <3>5. CASE Begin(r, "upload", upload_and_clear_plan(c))
      <4>1. StartsWith(r, "upload", upload_and_clear_plan(c))
        BY <2>1, <2>2, <3>3, <3>5, UploadShape, PlansAreOps DEF StartsWith
      <4> QED
        BY <2>2, <4>1, PlansAreOps
    <3> QED
      BY <3>1, <3>4, <3>5
  <2>4. CASE disk["pkey"] \notin {NoFile, c.id}
    <3>1. Begin(r, "upload", <<>>)
      BY <1>1, <2>4 DEF tls_upload
    <3>2. StartsWith(r, "upload", <<>>)
      BY <2>1, <2>2, <3>1, OtherShapes DEF StartsWith
    <3> QED
      BY <2>2, <3>2
  <2> QED
    BY <2>3, <2>4
<1>2. ASSUME tls_csr(r) PROVE \E k \in Kinds, ops \in Seq(Ops) : StartsWith(r, k, ops)
  <2> DEFINE p == save_pending(Key(minted + 1))
  <2>1. minted' \in Nat /\ minted + 1 \in 1 .. MaxKeys /\ Begin(r, "csr", p)
    BY <1>2, MintedKey DEF tls_csr
  <2>2. p \in Seq(Ops) /\ Shaped("csr", p)
    BY <2>1, ValsFacts, PlansAreOps, OtherShapes
  <2>3. p[1].do = "remove" /\ p[1].file = "pkey"
    BY DEF save_pending, Remove, Op
  <2> HIDE DEF p
  <2>4. "csr" \in Kinds /\ StartsWith(r, "csr", p)
    BY <2>1, <2>2, <2>3 DEF StartsWith, Kinds
  <2> QED
    BY <2>2, <2>4
<1>3. ASSUME tls_pending_discard(r) PROVE \E k \in Kinds, ops \in Seq(Ops) : StartsWith(r, k, ops)
  <2>1. clear_pending[1].do = "remove" /\ clear_pending[1].file = "pkey"
    BY DEF clear_pending, Remove, Op
  <2>2. minted' \in Nat /\ Begin(r, "discard", clear_pending)
    BY <1>3 DEF tls_pending_discard, TlsTypes
  <2>3. "discard" \in Kinds /\ StartsWith(r, "discard", clear_pending)
    BY <2>1, <2>2, PlansAreOps, OtherShapes DEF StartsWith, Kinds
  <2> QED
    BY <2>3, PlansAreOps
<1>4. ASSUME tls_reset(r) PROVE \E k \in Kinds, ops \in Seq(Ops) : StartsWith(r, k, ops)
  <2>1. reset_plan[1].do = "remove" /\ reset_plan[1].file = "upcert"
    BY DEF reset_plan, Remove, Op
  <2>2. minted' \in Nat /\ Begin(r, "reset", reset_plan)
    BY <1>4, ResetPlan DEF tls_reset, TlsTypes
  <2>3. "reset" \in Kinds /\ StartsWith(r, "reset", reset_plan)
    BY <2>1, <2>2, PlansAreOps, ResetShape DEF StartsWith, Kinds
  <2> QED
    BY <2>3, PlansAreOps
<1>5. ASSUME NEW s \in SanSets, tls_regenerate(r, s) PROVE \E k \in Kinds, ops \in Seq(Ops) : StartsWith(r, k, ops)
  <2> DEFINE c == [id |-> Key(minted + 1), sans |-> s, sound |-> TRUE]
  <2>1. minted' \in Nat /\ c \in Certs /\ c.sound
    BY <1>5, MintedKey, MintedCert DEF tls_regenerate
  <2>2. Begin(r, "regen", regenerate_managed_pair(c) \o <<Op("decide", "cert", NoFile)>>)
    BY <1>5 DEF tls_regenerate
  <2> HIDE DEF c
  <2>3. Begin(r, "regen", regenerate_plan(c))
    BY <2>1, <2>2, RegeneratePlan
  <2>4. regenerate_plan(c)[1].do = "remove" /\ regenerate_plan(c)[1].file = "cert"
    BY DEF regenerate_plan, Remove, Op
  <2>5. "regen" \in Kinds /\ StartsWith(r, "regen", regenerate_plan(c))
    BY <2>1, <2>3, <2>4, PlansAreOps, RegenerateShape DEF StartsWith, Kinds
  <2> QED
    BY <2>1, <2>5, PlansAreOps
<1> QED
  BY <1>1, <1>2, <1>3, <1>4, <1>5 DEF Starts

\* One actor moves on.
LEMMA HandlerMoves ==
    ASSUME Handlers, NEW r \in Actors, req' \in [Actors -> Runs], \A q \in Actors : q # r => req'[q] = req[q],
           Shaped(req'[r].kind, req'[r].todo), req'[r].kind \in {"new", "done"} => req'[r].todo = <<>>,
           req'[r].todo # <<>> /\ req'[r].todo[1].do = "swap" => req'[r].got # NoFile,
           req'[r].kind = "boot" <=> (r = Boot /\ req'[r].kind # "new"),
           live' # live => live' # NoFile /\ req[Boot].kind # "boot",
           req'[r].todo # <<>> /\ r # Boot => live' # NoFile,
           r = Boot /\ req'[r].kind = "boot" => live' = NoFile
    PROVE  Handlers'
<1>1. ASSUME NEW q \in Actors
      PROVE  /\ Shaped(req'[q].kind, req'[q].todo)
             /\ req'[q].kind \in {"new", "done"} => req'[q].todo = <<>>
             /\ req'[q].todo # <<>> /\ req'[q].todo[1].do = "swap" => req'[q].got # NoFile
             /\ req'[q].kind = "boot" <=> (q = Boot /\ req'[q].kind # "new")
  BY DEF Handlers
<1>2. ASSUME NEW q \in Requests, live' = NoFile PROVE req'[q].todo = <<>>
  <2>1. q # Boot /\ q \in Actors
    BY TlsAssumption DEF Actors
  <2> QED
    BY <1>2, <2>1 DEF Handlers
<1>3. req'[Boot].kind = "boot" => live' = NoFile
  <2>1. Boot \in Actors
    BY DEF Actors
  <2> QED
    BY <2>1 DEF Handlers
<1> QED
  BY <1>1, <1>2, <1>3 DEF Handlers

\* After its operation an actor has the rest of its plan left.
LEMMA DoneMoves ==
    ASSUME TlsTypes, Handlers, NEW r \in Actors, req[r].todo # <<>>, NEW got \in Vals, Done(r, got),
           Head1(r).do = "readkey" => got # NoFile, live' = live \/ (live' # NoFile /\ req[Boot].kind # "boot")
    PROVE  req' \in [Actors -> Runs] /\ Handlers'
<1> DEFINE s == req[r].todo
           k == req[r].kind
<1>1. /\ req' \in [Actors -> Runs] /\ req'[r].todo = Tail(s)
      /\ \A q \in Actors : q # r => req'[q] = req[q]
      /\ req'[r].todo # <<>> \/ r = Boot => req'[r].kind = k /\ req'[r].got = got
      /\ req'[r].todo = <<>> /\ r # Boot => req'[r].kind = "done"
  BY DoneTo
<1>2. s \in Seq(Ops) /\ Tail(s) \in Seq(Ops) /\ Shaped(k, s) /\ Head1(r) = s[1] /\ Len(s) \in Nat /\ Len(s) >= 1
  BY HeadOp DEF Handlers
<1>3. Shaped(k, Tail(s)) /\ Shaped("done", <<>>)
  BY <1>2, ShapedTail, OtherShapes
<1>4. ASSUME Tail(s) # <<>>, Tail(s)[1].do = "swap" PROVE got # NoFile
  <2>1. Len(s) > 1 /\ Tail(s)[1] = s[2]
    BY <1>2, <1>4
  <2>2. Follows(k, s, 1)
    BY <1>2, <2>1 DEF Shaped
  <2> QED
    BY <1>2, <1>4, <2>1, <2>2 DEF Follows
<1>5. k \notin {"new", "done"} /\ (k = "boot" <=> r = Boot)
  BY DEF Handlers
<1>6. r # Boot => r \in Requests /\ live # NoFile
  BY DEF Handlers, Actors
<1>7. r = Boot => live = NoFile /\ req[Boot].kind = "boot"
  BY <1>5 DEF Handlers
<1> HIDE DEF s, k
<1>8. /\ Shaped(req'[r].kind, req'[r].todo) /\ (req'[r].kind \in {"new", "done"} => req'[r].todo = <<>>)
      /\ req'[r].todo # <<>> /\ req'[r].todo[1].do = "swap" => req'[r].got # NoFile
      /\ req'[r].kind = "boot" <=> (r = Boot /\ req'[r].kind # "new")
  <2>1. CASE Tail(s) = <<>> /\ r # Boot
    BY <1>1, <1>3, <2>1
  <2>2. CASE Tail(s) # <<>> \/ r = Boot
    BY <1>1, <1>3, <1>4, <1>5, <2>2
  <2> QED
    BY <2>1, <2>2
<1>9. /\ live' # live => live' # NoFile /\ req[Boot].kind # "boot"
      /\ req'[r].todo # <<>> /\ r # Boot => live' # NoFile
      /\ r = Boot /\ req'[r].kind = "boot" => live' = NoFile
  BY <1>6, <1>7
<1> QED
  BY <1>1, <1>8, <1>9, HandlerMoves

LEMMA FailsMoves ==
    ASSUME TlsTypes, Handlers, NEW r \in Actors, req[r].todo # <<>>, Fails(r), live' = live
    PROVE  req' \in [Actors -> Runs] /\ Handlers'
<1>1. /\ req' \in [Actors -> Runs] /\ \A q \in Actors : q # r => req'[q] = req[q]
      /\ req[r].kind # "upload" => req'[r].todo = <<>>
      /\ req[r].kind = "upload" => req'[r].todo = remove_uploaded_pair /\ req'[r].kind = "upload" /\ r # Boot
      /\ r = Boot => req'[r].kind = "new"
      /\ r # Boot => req'[r].kind \in {"done", "upload"}
  BY FailsTo
<1>2. remove_uploaded_pair[1].do = "remove"
  BY DEF remove_uploaded_pair, Remove, Op
<1>3. Shaped(req'[r].kind, req'[r].todo) /\ (req'[r].todo # <<>> => req'[r].todo[1].do # "swap" /\ req'[r].kind = "upload")
  BY <1>1, <1>2, OtherShapes
<1>4. req'[r].kind \in {"new", "done"} => req'[r].todo = <<>>
  BY <1>1
<1>5. r # Boot => r \in Requests /\ live # NoFile
  BY DEF Handlers, Actors
<1> QED
  BY <1>1, <1>3, <1>4, <1>5, HandlerMoves

\* An actor's own steps.
Works(r) ==
    req[r].todo # <<>> /\ (FileOp(r) \/ FileOpFails(r) \/ Decide(r) \/ ReadPem(r) \/ Swap(r) \/ Disconnect(r))

LEMMA WorksHandlers ==
    ASSUME TlsTypes, Handlers, NEW r \in Actors, Works(r)
    PROVE  TlsTypes' /\ Handlers'
<1> DEFINE op == Head1(r)
<1>1. op \in Ops /\ op = req[r].todo[1] /\ req[r] \in Runs /\ req[r].todo # <<>>
  BY HeadOp DEF Works
<1>2. op.file \in Files /\ op.val \in Vals /\ req[r].got \in Vals /\ Torn \in Vals /\ NoFile \in Vals
  BY <1>1, ValsFacts DEF Ops, Runs
<1>3. Shaped(req[r].kind, req[r].todo) /\ OpFits(req[r].kind, op)
  BY <1>1, HeadOp DEF Handlers, Shaped
<1> HIDE DEF op
<1>4. CASE FileOp(r)
  <2>1. disk' = [disk EXCEPT ![op.file] = op.val] /\ live' = live /\ minted' = minted /\ Done(r, req[r].got) /\ op.do # "readkey"
    BY <1>4 DEF FileOp, Same, op
  <2>2. op.file = "sans" => op.val \in SanSets
    BY <1>3, <1>4 DEF FileOp, OpFits, op
  <2>3. disk' \in [Files -> Vals] /\ (disk'["sans"] = disk["sans"] \/ disk'["sans"] \in SanSets)
    BY <1>2, <2>1, <2>2 DEF TlsTypes, Files
  <2>4. req' \in [Actors -> Runs] /\ Handlers'
    BY <1>1, <1>2, <2>1, DoneMoves DEF op
  <2> QED
    BY <2>1, <2>3, <2>4 DEF TlsTypes
<1>5. CASE FileOpFails(r)
  <2>1. (disk' = disk \/ disk' = [disk EXCEPT ![op.file] = Torn]) /\ live' = live /\ minted' = minted /\ Fails(r)
    BY <1>5 DEF FileOpFails, Same, op
  <2>2. disk' \in [Files -> Vals] /\ (disk'["sans"] = disk["sans"] \/ disk'["sans"] = Torn)
    BY <1>2, <2>1 DEF TlsTypes, Files
  <2>3. req' \in [Actors -> Runs] /\ Handlers'
    BY <1>1, <2>1, FailsMoves
  <2> QED
    BY <2>1, <2>2, <2>3 DEF TlsTypes
<1>6. CASE Decide(r)
  <2> DEFINE ops == IF Missing("upcert") \/ Missing("upkey") THEN Reload("cert", "key") ELSE <<>>
  <2>1. op.do = "decide" /\ Goes(r, ops, NoFile) /\ disk' = disk /\ live' = live /\ minted' = minted
    BY <1>6 DEF Decide, Same, op
  <2>2. req[r].kind = "regen"
    BY <1>3, <2>1 DEF OpFits
  <2>3. ops \in Seq(Ops) /\ Shaped("regen", ops) /\ Shaped("done", <<>>)
    BY PlansAreOps, ReloadShape, OtherShapes
  <2>4. ops # <<>> => ops[1].do = "readcert"
    BY DEF Reload, Op
  <2>5. r # Boot /\ r \in Requests /\ live # NoFile
    BY <1>1, <2>2 DEF Handlers, Actors
  <2> HIDE DEF ops
  <2>6. /\ req' \in [Actors -> Runs] /\ req'[r].todo = ops /\ \A q \in Actors : q # r => req'[q] = req[q]
        /\ ops # <<>> => req'[r].kind = "regen"
        /\ ops = <<>> => req'[r].kind = "done"
    BY <1>2, <2>1, <2>2, <2>3, <2>5, GoesTo
  <2>7. Shaped(req'[r].kind, req'[r].todo) /\ (req'[r].kind \in {"new", "done"} => req'[r].todo = <<>>)
    BY <2>3, <2>6
  <2>8. Handlers'
    BY <2>1, <2>4, <2>5, <2>6, <2>7, HandlerMoves
  <2> QED
    BY <2>1, <2>6, <2>8 DEF TlsTypes
<1>7. CASE ReadPem(r)
  <2>1. live' = live /\ disk' = disk /\ minted' = minted
    BY <1>7 DEF ReadPem, Same
  <2>2. CASE Fails(r)
    BY <1>1, <2>1, <2>2, FailsMoves DEF TlsTypes
  <2>3. CASE op.do = "readcert" /\ Done(r, disk[op.file])
    <3>1. disk[op.file] \in Vals
      BY <1>2 DEF TlsTypes
    <3> QED
      BY <1>1, <2>1, <2>3, <3>1, DoneMoves DEF TlsTypes, op
  <2>4. CASE Loads(req[r].got, disk[op.file]) /\ Done(r, req[r].got)
    <3>1. req[r].got # NoFile
      BY <2>4, ValsFacts DEF Loads
    <3> QED
      BY <1>1, <1>2, <2>1, <2>4, <3>1, DoneMoves DEF TlsTypes, op
  <2>5. op.do \in {"readcert", "readkey"}
    BY <1>7 DEF ReadPem, op
  <2> QED
    BY <1>7, <2>2, <2>3, <2>4, <2>5 DEF ReadPem, op
<1>8. CASE Swap(r)
  <2>1. op.do = "swap" /\ live' = req[r].got /\ Done(r, NoFile) /\ disk' = disk /\ minted' = minted
    BY <1>8 DEF Swap, op
  <2>2. req[r].got # NoFile
    BY <1>1, <2>1 DEF Handlers
  <2>3. req[Boot].kind # "boot"
    <3>1. req[r].kind # "boot"
      BY <1>3, <2>1 DEF OpFits
    <3>2. r \in Requests /\ live # NoFile
      BY <1>1, <3>1 DEF Handlers, Actors
    <3> QED
      BY <3>2 DEF Handlers
  <2> QED
    BY <1>1, <1>2, <2>1, <2>2, <2>3, DoneMoves DEF TlsTypes, op
<1>9. CASE Disconnect(r)
  <2>1. op.do \in {"readcert", "readkey", "swap"} /\ Goes(r, <<>>, NoFile) /\ disk' = disk /\ live' = live /\ minted' = minted
    BY <1>9 DEF Disconnect, op
  <2>2. r # Boot
    <3>1. req[r].kind # "boot"
      BY <1>3, <2>1 DEF OpFits
    <3> QED
      BY <1>1, <3>1 DEF Handlers, Actors
  <2>3. /\ req' \in [Actors -> Runs] /\ req'[r].todo = <<>> /\ \A q \in Actors : q # r => req'[q] = req[q]
        /\ req'[r].kind = "done"
    <3>1. <<>> \in Seq(Ops)
      OBVIOUS
    <3> QED
      BY <1>2, <2>1, <2>2, <3>1, GoesTo
  <2>4. Shaped(req'[r].kind, req'[r].todo)
    BY <2>3, OtherShapes
  <2>5. Handlers'
    BY <2>1, <2>2, <2>3, <2>4, HandlerMoves
  <2> QED
    BY <2>1, <2>3, <2>5 DEF TlsTypes
<1> QED
  BY <1>4, <1>5, <1>6, <1>7, <1>8, <1>9 DEF Works

\* The boot starts, with a regeneration or without.
LEMMA BootTo ==
    ASSUME TlsTypes, Handlers, ensure_managed_pair
    PROVE  /\ req' \in [Actors -> Runs] /\ \A q \in Actors : q # Boot => req'[q] = req[q]
           /\ req'[Boot].kind = "boot" /\ live = NoFile /\ req[Boot].kind = "new" /\ req[Boot].todo = <<>>
           /\ \/ req'[Boot].todo = <<>> /\ (mount # NoFile \/ ~ensure_regenerates(disk))
              \/ \E c \in Certs : c.sound /\ req'[Boot].todo = regenerate_managed_pair(c)
           /\ minted' \in Nat /\ UNCHANGED <<disk, live, mount, clash, spoiled, strikes>>
<1>1. Boot \in Actors /\ req[Boot] \in Runs /\ req[Boot].kind = "new" /\ req[Boot].todo = <<>> /\ live = NoFile
  BY DEF Actors, TlsTypes, Handlers, ensure_managed_pair
<1>2. UNCHANGED <<disk, live, mount, clash, spoiled, strikes>>
  BY DEF ensure_managed_pair, Calm
<1>3. CASE mount = NoFile /\ ensure_regenerates(disk)
  <2> DEFINE s == IF Written("sans") THEN disk["sans"] ELSE Env
             c == [id |-> Key(minted + 1), sans |-> s, sound |-> TRUE]
             ops == regenerate_managed_pair(c)
             new == [Idle EXCEPT !.kind = "boot", !.todo = ops]
  <2>1. Mint /\ req' = [req EXCEPT ![Boot] = new]
    BY <1>3 DEF ensure_managed_pair
  <2>2. s \in SanSets
    BY TlsAssumption DEF TlsTypes, Written
  <2>3. c \in Certs /\ c.sound /\ minted' \in Nat
    BY <2>1, <2>2, MintedKey, MintedCert
  <2> HIDE DEF c
  <2>4. ops \in Seq(Ops)
    BY <2>3, PlansAreOps
  <2> HIDE DEF ops
  <2>5. new \in Runs /\ new.kind = "boot" /\ new.todo = ops
    BY <2>4, ValsFacts DEF Idle, Runs, Kinds
  <2> HIDE DEF new
  <2>6. req' \in [Actors -> Runs] /\ req'[Boot] = new /\ \A q \in Actors : q # Boot => req'[q] = req[q]
    BY <1>1, <2>1, <2>5 DEF TlsTypes
  <2> QED
    BY <1>1, <1>2, <2>3, <2>5, <2>6 DEF ops
<1>4. CASE ~(mount = NoFile /\ ensure_regenerates(disk))
  <2>1. req' = [req EXCEPT ![Boot].kind = "boot"] /\ minted' = minted
    BY <1>4 DEF ensure_managed_pair
  <2> QED
    BY <1>1, <1>2, <1>4, <2>1 DEF TlsTypes, Runs, Kinds
<1> QED
  BY <1>3, <1>4

\* A crash ends every handler, and may tear the file that one was writing.
LEMMA CrashTo ==
    ASSUME TlsTypes, Handlers, Crash
    PROVE  /\ req' \in [Actors -> Runs] /\ \A r \in Actors : req'[r].todo = <<>>
           /\ req'[Boot].kind = "new" /\ \A r \in Requests : req'[r].kind # "boot"
           /\ disk' \in [Files -> Vals]
           /\ \A f \in Files : \/ disk'[f] = disk[f]
                               \/ /\ disk'[f] = Torn
                                  /\ \E r \in Actors : /\ req[r].todo # <<>> /\ Head1(r).file = f
                                                       /\ Head1(r).do \in {"write", "create"}
           /\ live' = NoFile /\ UNCHANGED <<mount, minted, clash>> /\ strikes' = strikes + 1
           /\ spoiled' = (spoiled \/ \E r \in InFlight : req[r].kind = "upload")
<1> DEFINE busy == {r \in DOMAIN req : req[r].todo # <<>> /\ Head1(r).do \in {"write", "create"}}
           tearable == {Head1(r).file : r \in {b \in busy : Head1(b).do = "write" \/ Missing(Head1(b).file)}}
           done == [Idle EXCEPT !.kind = "done"]
<1>1. DOMAIN req = Actors /\ \A r \in Actors : req[r] \in Runs
  BY DEF TlsTypes
<1>2. /\ req' = [r \in Actors |-> IF r \in InFlight THEN done ELSE IF r = Boot THEN Idle ELSE req[r]]
      /\ live' = NoFile /\ UNCHANGED <<mount, minted, clash>> /\ strikes' = strikes + 1
      /\ spoiled' = (spoiled \/ \E r \in InFlight : req[r].kind = "upload")
  BY <1>1 DEF Crash, Strike
<1>3. PICK T \in SUBSET tearable : disk' = [f \in Files |-> IF f \in T THEN Torn ELSE disk[f]]
  BY DEF Crash
<1>4. \A f \in T : \E r \in Actors : req[r].todo # <<>> /\ Head1(r).file = f /\ Head1(r).do \in {"write", "create"}
  BY <1>1
<1> HIDE DEF tearable, busy
<1>5. disk' \in [Files -> Vals] /\ \A f \in Files : disk'[f] = disk[f] \/ (disk'[f] = Torn /\ f \in T)
  BY <1>3, ValsFacts DEF TlsTypes
<1>6. done \in Runs /\ Idle \in Runs /\ done.todo = <<>> /\ done.kind = "done" /\ Idle.todo = <<>> /\ Idle.kind = "new"
  BY IdleRun
<1> HIDE DEF done
<1>7. InFlight \subseteq Requests /\ Boot \notin Requests /\ Boot \in Actors
  BY TlsAssumption DEF InFlight, Actors
<1>8. \A r \in Actors : req'[r] = IF r \in InFlight THEN done ELSE IF r = Boot THEN Idle ELSE req[r]
  BY <1>2
<1>9. req' \in [Actors -> Runs]
  BY <1>1, <1>2, <1>6
<1>10. req'[Boot] = Idle
  BY <1>7, <1>8
<1>11. ASSUME NEW r \in Requests PROVE req'[r].todo = <<>> /\ req'[r].kind # "boot"
  <2>1. r \in Actors /\ r # Boot
    BY <1>7 DEF Actors
  <2>2. CASE r \in InFlight
    BY <1>6, <1>8, <2>1, <2>2
  <2>3. CASE r \notin InFlight
    <3>1. req'[r] = req[r] /\ req[r].todo = <<>>
      BY <1>8, <2>1, <2>3 DEF InFlight
    <3> QED
      BY <2>1, <3>1 DEF Handlers
  <2> QED
    BY <2>2, <2>3
<1>12. \A r \in Actors : req'[r].todo = <<>>
  BY <1>6, <1>10, <1>11 DEF Actors
<1>13. \A f \in Files : \/ disk'[f] = disk[f]
                        \/ /\ disk'[f] = Torn
                           /\ \E r \in Actors : /\ req[r].todo # <<>> /\ Head1(r).file = f
                                                /\ Head1(r).do \in {"write", "create"}
  BY <1>4, <1>5
<1> QED
  BY <1>2, <1>5, <1>6, <1>9, <1>10, <1>11, <1>12, <1>13

LEMMA TlsCases ==
    ASSUME TlsTypes, TlsNext
    PROVE  \/ ensure_managed_pair \/ load_or_create_tls_config \/ Crash
           \/ \E r \in Requests : Starts(r)
           \/ \E r \in Actors : Works(r)
<1>1. DOMAIN req = Actors
  BY DEF TlsTypes
<1> QED
  BY <1>1 DEF TlsNext, Starts, Works

LEMMA TlsSteps == [Next]_avars => [TlsNext]_tvars
BY DEF Next, avars, tvars

LEMMA TlsStarts == Begins => TlsTypes /\ Handlers
<1> SUFFICES ASSUME NEW made \in SUBSET Requests, NEW keys \in Nat, NEW hits \in Nat, TlsInit(made, keys, hits)
             PROVE  TlsTypes /\ Handlers
  BY DEF Begins
<1> DEFINE done == [Idle EXCEPT !.kind = "done"]
<1>1. disk = [f \in Files |-> NoFile] /\ minted = keys /\ live = NoFile
  BY DEF TlsInit
<1>2. req = [r \in Actors |-> IF r \in made THEN done ELSE Idle]
  BY DEF TlsInit, Actors
<1>3. done \in Runs /\ Idle \in Runs /\ done.todo = <<>> /\ done.kind = "done" /\ Idle.todo = <<>> /\ Idle.kind = "new"
  BY IdleRun
<1> HIDE DEF done
<1>4. Boot \notin Requests /\ Boot \in Actors /\ Boot \notin made /\ \A r \in Requests : r \in Actors
  BY TlsAssumption DEF Actors
<1>5. \A r \in Actors : req[r].todo = <<>> /\ req[r].kind \in {"new", "done"}
  BY <1>2, <1>3
<1>6. req[Boot].kind = "new"
  BY <1>2, <1>3, <1>4
<1>7. \A r \in Actors : Shaped(req[r].kind, req[r].todo)
  BY <1>5, OtherShapes
<1>8. TlsTypes
  BY <1>1, <1>2, <1>3, ValsFacts DEF TlsTypes, Files
<1> QED
  BY <1>4, <1>5, <1>6, <1>7, <1>8 DEF Handlers

LEMMA TlsHandlers == TlsTypes /\ Handlers /\ [TlsNext]_tvars => TlsTypes' /\ Handlers'
<1> SUFFICES ASSUME TlsTypes, Handlers, [TlsNext]_tvars PROVE TlsTypes' /\ Handlers'
  OBVIOUS
<1>1. CASE ensure_managed_pair
  <2>1. /\ req' \in [Actors -> Runs] /\ \A q \in Actors : q # Boot => req'[q] = req[q]
        /\ req'[Boot].kind = "boot" /\ live = NoFile /\ minted' \in Nat /\ disk' = disk /\ live' = live
        /\ \/ req'[Boot].todo = <<>>
           \/ \E c \in Certs : c.sound /\ req'[Boot].todo = regenerate_managed_pair(c)
    BY <1>1, BootTo
  <2>2. \A c : regenerate_managed_pair(c)[1].do = "remove"
    BY DEF regenerate_managed_pair, Remove, Op
  <2>3. Shaped("boot", req'[Boot].todo) /\ (req'[Boot].todo # <<>> => req'[Boot].todo[1].do # "swap")
    BY <2>1, <2>2, RegenerateShape, OtherShapes
  <2>4. Boot \in Actors
    BY DEF Actors
  <2>5. Handlers'
    BY <2>1, <2>3, <2>4, HandlerMoves
  <2> QED
    BY <2>1, <2>5 DEF TlsTypes
<1>2. CASE load_or_create_tls_config
  <2>1. req' = [req EXCEPT ![Boot] = Idle] /\ minted' = minted /\ disk' = disk /\ req[Boot].kind = "boot"
    BY <1>2 DEF load_or_create_tls_config
  <2>2. Boot \in Actors /\ \A r \in Requests : r \in Actors /\ r # Boot
    BY TlsAssumption DEF Actors
  <2>3. req' \in [Actors -> Runs] /\ req'[Boot] = Idle /\ \A q \in Actors : q # Boot => req'[q] = req[q]
    BY <2>1, <2>2, IdleRun DEF TlsTypes
  <2>4. \A r \in Requests : req'[r].todo = <<>>
    BY <2>1, <2>2, <2>3 DEF Handlers
  <2>5. \A r \in Actors : /\ Shaped(req'[r].kind, req'[r].todo)
                          /\ req'[r].kind \in {"new", "done"} => req'[r].todo = <<>>
                          /\ req'[r].todo # <<>> /\ req'[r].todo[1].do = "swap" => req'[r].got # NoFile
                          /\ req'[r].kind = "boot" <=> (r = Boot /\ req'[r].kind # "new")
    BY <2>3, IdleRun, OtherShapes DEF Handlers
  <2>6. req'[Boot].kind = "new"
    BY <2>3, IdleRun
  <2>7. Handlers'
    BY <2>4, <2>5, <2>6 DEF Handlers
  <2> QED
    BY <2>1, <2>3, <2>7 DEF TlsTypes
<1>3. CASE Crash
  <2>1. /\ req' \in [Actors -> Runs] /\ \A r \in Actors : req'[r].todo = <<>>
        /\ req'[Boot].kind = "new" /\ \A r \in Requests : req'[r].kind # "boot"
        /\ disk' \in [Files -> Vals] /\ \A f \in Files : disk'[f] = disk[f] \/ disk'[f] = Torn
        /\ minted' = minted
    BY <1>3, CrashTo
  <2>2. \A r \in Actors : Shaped(req'[r].kind, req'[r].todo)
    BY <2>1, OtherShapes
  <2>3. \A r \in Requests : r \in Actors
    BY DEF Actors
  <2>4. \A r \in Actors : req'[r].kind = "boot" <=> (r = Boot /\ req'[r].kind # "new")
    BY <2>1 DEF Actors
  <2>5. Handlers'
    BY <2>1, <2>2, <2>3, <2>4 DEF Handlers
  <2>6. "sans" \in Files
    BY DEF Files
  <2> QED
    BY <2>1, <2>5, <2>6 DEF TlsTypes
<1>4. ASSUME NEW r \in Requests, Starts(r) PROVE TlsTypes' /\ Handlers'
  <2>1. PICK k \in Kinds, ops \in Seq(Ops) : StartsWith(r, k, ops)
    BY <1>4, RequestsStart
  <2>2. Begin(r, k, ops) /\ Shaped(k, ops) /\ k # "boot" /\ minted' \in Nat /\ (ops # <<>> => ops[1].do # "swap")
    BY <2>1 DEF StartsWith
  <2>3. /\ req' \in [Actors -> Runs] /\ req'[r].todo = ops
        /\ \A q \in Actors : q # r => req'[q] = req[q]
        /\ ops # <<>> => req'[r].kind = k
        /\ ops = <<>> => req'[r].kind = "done"
        /\ live # NoFile /\ disk' = disk /\ live' = live
    BY <2>2, BeginsTo
  <2>4. r \in Actors /\ r # Boot /\ k \notin {"new", "done"}
    BY TlsAssumption DEF Actors, Kinds
  <2>5. Shaped(req'[r].kind, req'[r].todo)
    BY <2>2, <2>3, OtherShapes
  <2>6. Handlers'
    BY <2>2, <2>3, <2>4, <2>5, HandlerMoves
  <2> QED
    BY <2>2, <2>3, <2>6 DEF TlsTypes
<1>5. ASSUME NEW r \in Actors, Works(r) PROVE TlsTypes' /\ Handlers'
  BY <1>5, WorksHandlers
<1>6. CASE UNCHANGED tvars
  BY <1>6 DEF tvars, TlsTypes, Handlers
<1> QED
  BY <1>1, <1>2, <1>3, <1>4, <1>5, <1>6, TlsCases

-----------------------------------------------------------------------------
(* Tls: uploads that run at once *)

\* A handler that will still read the uploaded pair or remove it, or that is
\* about to check the certificate c it has read against the key.
Sees(run, c) ==
    \/ \E i \in 1 .. Len(run.todo) : Mark(run.todo[i])
    \/ run.todo # <<>> /\ run.todo[1].do = "readkey" /\ run.todo[1].file = "upkey" /\ run.got = c

Mixed(d) == d["upcert"] # NoFile /\ d["upkey"] # NoFile /\ ~Loads(d["upcert"], d["upkey"])

\* A mixed pair has a handler that will notice.
PairInv ==
    /\ strikes \in Nat
    /\ strikes = 0 /\ Mixed(disk) => \E r \in Requests : Sees(req[r], disk["upcert"])

LEMMA SeesKind ==
    ASSUME TlsTypes, Handlers, NEW r \in Actors, NEW c, Sees(req[r], c)
    PROVE  /\ req[r].todo # <<>> /\ req[r].kind \in {"upload", "reset"}
           /\ req[r].kind = "reset" => Mark(Head1(r))
<1> DEFINE s == req[r].todo
           k == req[r].kind
<1>1. s # <<>>
  <2>1. CASE \E i \in 1 .. Len(s) : Mark(s[i])
    BY <2>1
  <2>2. CASE s # <<>>
    BY <2>2
  <2> QED
    BY <2>1, <2>2 DEF Sees
<1>2. s \in Seq(Ops) /\ Len(s) \in Nat /\ Len(s) >= 1 /\ Head1(r) = s[1] /\ Shaped(k, s)
  BY <1>1, HeadOp DEF Handlers
<1> HIDE DEF s, k
<1>3. CASE \E i \in 1 .. Len(s) : Mark(s[i])
  <2>1. PICK i \in 1 .. Len(s) : Mark(s[i])
    BY <1>3
  <2>2. s[i].file \in Uploaded
    BY <2>1 DEF Mark, Uploaded
  <2>3. k \in {"upload", "reset"}
    BY <2>2 , <1>2 DEF Shaped, OpFits
  <2>4. ASSUME k = "reset", i # 1 PROVE FALSE
    <3>1. i - 1 \in 1 .. Len(s) /\ i - 1 < Len(s) /\ (i - 1) + 1 = i
      BY <1>2, <2>4
    <3>2. Follows(k, s, i - 1)
      BY <1>2, <3>1 DEF Shaped
    <3> QED
      BY <2>1, <2>4, <3>1, <3>2 DEF Follows
  <2> QED
    BY <1>1, <1>2, <2>1, <2>3, <2>4 DEF s, k
<1>4. CASE s[1].do = "readkey" /\ s[1].file = "upkey"
  <2>1. OpFits(k, s[1])
    BY <1>2 DEF Shaped
  <2>2. k = "upload"
    BY <1>4, <2>1 DEF OpFits, KeyOf, Uploaded
  <2> QED
    BY <1>1, <2>2 DEF s, k
<1> QED
  BY <1>3, <1>4 DEF Sees, s

\* An operation that is not one of theirs leaves them to do.
LEMMA StillSees ==
    ASSUME TlsTypes, NEW r \in Actors, req[r].todo # <<>>, NEW c, Sees(req[r], c), ~Mark(Head1(r)),
           req'[r].todo = Tail(req[r].todo),
           ~(Head1(r).do = "readkey" /\ Head1(r).file = "upkey" /\ req[r].got = c)
    PROVE  \A d : Sees(req'[r], d)
<1> DEFINE s == req[r].todo
<1>1. /\ s \in Seq(Ops) /\ Len(s) \in Nat /\ Head1(r) = s[1] /\ Len(Tail(s)) = Len(s) - 1
      /\ \A i \in 1 .. Len(Tail(s)) : Tail(s)[i] = s[i + 1]
  BY HeadOp
<1>2. PICK i \in 1 .. Len(s) : Mark(s[i])
  BY <1>1 DEF Sees
<1> HIDE DEF s
<1>3. i # 1
  BY <1>1, <1>2
<1>4. i - 1 \in 1 .. Len(Tail(s)) /\ Tail(s)[i - 1] = s[i]
  BY <1>1, <1>3
<1>5. req'[r].todo = Tail(s)
  BY DEF s
<1> QED
  BY <1>2, <1>4, <1>5 DEF Sees

\* The handler r has moved, and the files are mixed as before.
LEMMA PairMoves ==
    ASSUME TlsTypes, Handlers, PairInv, NEW r \in Actors, strikes' = strikes,
           \A q \in Actors : q # r => req'[q] = req[q],
           disk'["upcert"] = disk["upcert"], disk'["upkey"] = disk["upkey"],
           Mixed(disk) /\ Sees(req[r], disk["upcert"]) => r \in Requests /\ Sees(req'[r], disk["upcert"])
    PROVE  PairInv'
<1> SUFFICES ASSUME strikes' = 0, Mixed(disk') PROVE \E q \in Requests : Sees(req'[q], disk'["upcert"])
  BY DEF PairInv
<1>1. Mixed(disk)
  BY DEF Mixed, Loads
<1>2. PICK q \in Requests : Sees(req[q], disk["upcert"])
  BY <1>1 DEF PairInv
<1>3. q \in Actors
  BY DEF Actors
<1>4. CASE q = r
  BY <1>1, <1>2, <1>4
<1>5. CASE q # r
  BY <1>2, <1>3, <1>5
<1> QED
  BY <1>4, <1>5

LEMMA RollBackSees == \A run, c : run.todo = remove_uploaded_pair => Sees(run, c)
<1>1. Len(remove_uploaded_pair) = 3 /\ Mark(remove_uploaded_pair[1])
  BY DEF remove_uploaded_pair, Remove, Op, Mark
<1> QED
  BY <1>1 DEF Sees

LEMMA WorksPair ==
    ASSUME TlsTypes, Handlers, PairInv, NEW r \in Actors, Works(r)
    PROVE  PairInv'
<1> DEFINE op == Head1(r)
           s == req[r].todo
           k == req[r].kind
<1>1. /\ op \in Ops /\ op = s[1] /\ req[r] \in Runs /\ s # <<>> /\ s \in Seq(Ops) /\ Len(s) \in Nat /\ Len(s) >= 1
      /\ Tail(s) \in Seq(Ops) /\ Len(Tail(s)) = Len(s) - 1 /\ \A i \in 1 .. Len(Tail(s)) : Tail(s)[i] = s[i + 1]
  BY HeadOp DEF Works
<1>2. op.file \in Files /\ op.val \in Vals /\ req[r].got \in Vals /\ NoFile \in Vals
  BY <1>1, ValsFacts DEF Ops, Runs
<1>3. Shaped(k, s) /\ OpFits(k, op) /\ Leaves(k, s, 1) /\ (k = "boot" <=> r = Boot)
  BY <1>1 DEF Handlers, Shaped
<1>4. k = "upload" => r \in Requests
  BY <1>3 DEF Actors
<1>5. Sees(req[r], disk["upcert"]) => k \in {"upload", "reset"} /\ (k = "reset" => Mark(op)) /\ r \in Requests
  BY <1>3, SeesKind DEF Actors
<1>6. CASE FileOp(r)
  <2>1. /\ disk' = [disk EXCEPT ![op.file] = op.val] /\ strikes' = strikes /\ Done(r, req[r].got)
        /\ op.do \in {"write", "create", "remove"}
    BY <1>6 DEF FileOp, Calm
  <2>2. req'[r].todo = Tail(s) /\ \A q \in Actors : q # r => req'[q] = req[q]
    BY <1>1, <1>2, <2>1, DoneTo
  <2>3. CASE op.file \notin Uploaded
    <3>1. disk'["upcert"] = disk["upcert"] /\ disk'["upkey"] = disk["upkey"]
      BY <2>1, <2>3 DEF TlsTypes, Uploaded, Files
    <3>2. ~Mark(op) /\ op.do # "readkey"
      BY <2>1, <2>3 DEF Mark, Uploaded
    <3>3. Sees(req[r], disk["upcert"]) => Sees(req'[r], disk["upcert"])
      BY <1>1, <2>2, <3>2, StillSees
    <3> QED
      BY <1>5, <2>1, <2>2, <3>1, <3>3, PairMoves
  <2>4. CASE op.file \in Uploaded /\ op.do = "remove"
    <3>1. op.val = NoFile
      BY <1>3, <2>4 DEF OpFits
    <3>2. ~Mixed(disk')
      BY <1>2, <2>1, <2>4, <3>1 DEF Mixed, Uploaded, TlsTypes, Files
    <3> QED
      BY <2>1, <3>2 DEF PairInv
  <2>5. CASE op.file \in Uploaded /\ op.do \in FileWrites
    <3>1. PICK j \in 2 .. Len(s) : Mark(s[j])
      BY <1>1, <1>3, <2>5 DEF Leaves
    <3>2. j - 1 \in 1 .. Len(Tail(s)) /\ Tail(s)[j - 1] = s[j]
      BY <1>1
    <3>3. Sees(req'[r], disk'["upcert"])
      BY <2>2, <3>1, <3>2 DEF Sees
    <3>4. r \in Requests
      BY <1>3, <1>4, <2>5 DEF OpFits
    <3> QED
      BY <2>1, <3>3, <3>4 DEF PairInv
  <2> QED
    BY <2>1, <2>3, <2>4, <2>5 DEF FileWrites
<1>7. ASSUME Fails(r), strikes' = strikes, disk' = disk, k # "upload" => ~Sees(req[r], disk["upcert"])
      PROVE  PairInv'
  <2>1. /\ \A q \in Actors : q # r => req'[q] = req[q]
        /\ k = "upload" => req'[r].todo = remove_uploaded_pair
    BY <1>1, <1>7, FailsTo
  <2>2. k = "upload" => Sees(req'[r], disk["upcert"])
    BY <2>1, RollBackSees
  <2> QED
    BY <1>4, <1>7, <2>1, <2>2, PairMoves
<1>8. CASE FileOpFails(r)
  <2>1. CASE op.do = "create" /\ strikes' = strikes /\ disk' = disk /\ Fails(r)
    <3>1. k # "reset"
      BY <1>3, <2>1 DEF OpFits, FileWrites
    <3> QED
      BY <1>5, <1>7, <2>1, <3>1
  <2>2. CASE Strike
    BY <2>2 DEF Strike, PairInv
  <2> QED
    BY <1>8, <2>1, <2>2 DEF FileOpFails, Calm
<1>9. CASE Decide(r)
  <2> DEFINE ops == IF Missing("upcert") \/ Missing("upkey") THEN Reload("cert", "key") ELSE <<>>
  <2>1. op.do = "decide" /\ Goes(r, ops, NoFile) /\ disk' = disk /\ strikes' = strikes
    BY <1>9 DEF Decide, Calm
  <2>2. ops \in Seq(Ops)
    BY PlansAreOps
  <2> HIDE DEF ops
  <2>3. \A q \in Actors : q # r => req'[q] = req[q]
    BY <1>2, <2>1, <2>2, GoesTo
  <2>4. k = "regen"
    BY <1>3, <2>1 DEF OpFits
  <2> QED
    BY <1>5, <2>1, <2>3, <2>4, PairMoves
<1>10. CASE ReadPem(r)
  <2>1. disk' = disk /\ strikes' = strikes /\ op.do \in {"readcert", "readkey"}
    BY <1>10 DEF ReadPem, Calm
  <2>2. k # "upload" => ~Mark(op) /\ op.file # "upkey"
    BY <1>3, <2>1 DEF OpFits, CertOf, KeyOf, Mark
  <2>3. CASE Fails(r)
    BY <1>5, <1>7, <2>1, <2>2, <2>3
  <2>4. CASE op.do = "readcert" /\ Done(r, disk[op.file])
    <3>1. disk[op.file] \in Vals
      BY <1>2 DEF TlsTypes
    <3>2. /\ req'[r].todo = Tail(s) /\ \A q \in Actors : q # r => req'[q] = req[q]
          /\ req'[r].todo # <<>> => req'[r].got = disk[op.file]
      BY <1>1, <2>4, <3>1, DoneTo
    <3>3. CASE k = "upload"
      <4>1. op.file = "upcert" /\ 1 < Len(s) /\ s[1 + 1].do = "readkey"
        BY <1>1, <1>3, <2>4, <3>3 DEF OpFits, Leaves, CertOf
      <4>2. s[2].file = "upkey"
        BY <1>1, <1>3, <3>3, <4>1 DEF Shaped, OpFits, KeyOf
      <4>3. Tail(s) # <<>> /\ Tail(s)[1] = s[2]
        <5>1. Len(Tail(s)) \in Nat /\ Len(Tail(s)) >= 1
          BY <1>1, <4>1
        <5>2. 1 \in 1 .. Len(Tail(s)) /\ Tail(s)[1] = s[1 + 1]
          BY <1>1, <5>1
        <5> HIDE DEF s
        <5> QED
          BY <5>1, <5>2
      <4>4. Sees(req'[r], disk["upcert"])
        BY <3>2, <4>1, <4>2, <4>3 DEF Sees
      <4> QED
        BY <1>4, <2>1, <3>2, <3>3, <4>4, PairMoves
    <3>4. CASE k # "upload"
      <4>1. Sees(req[r], disk["upcert"]) => Sees(req'[r], disk["upcert"])
        BY <1>1, <2>2, <2>4, <3>2, <3>4, StillSees
      <4> QED
        BY <1>5, <2>1, <3>2, <4>1, PairMoves
    <3> QED
      BY <3>3, <3>4
  <2>5. CASE op.do = "readkey" /\ Loads(req[r].got, disk[op.file]) /\ Done(r, req[r].got)
    <3>1. req'[r].todo = Tail(s) /\ \A q \in Actors : q # r => req'[q] = req[q]
      BY <1>1, <1>2, <2>5, DoneTo
    <3>2. ~Mark(op)
      BY <2>5 DEF Mark
    <3>3. ASSUME Mixed(disk), Sees(req[r], disk["upcert"]) PROVE Sees(req'[r], disk["upcert"])
      <4>1. ~(op.file = "upkey" /\ req[r].got = disk["upcert"])
        BY <2>5, <3>3 DEF Mixed
      <4> QED
        BY <1>1, <3>1, <3>2, <3>3, <4>1, StillSees
    <3> QED
      BY <1>5, <2>1, <3>1, <3>3, PairMoves
  <2> QED
    BY <1>10, <2>1, <2>3, <2>4, <2>5 DEF ReadPem
<1>11. CASE Swap(r)
  <2>1. op.do = "swap" /\ Done(r, NoFile) /\ disk' = disk /\ strikes' = strikes
    BY <1>11 DEF Swap, Calm
  <2>2. req'[r].todo = Tail(s) /\ \A q \in Actors : q # r => req'[q] = req[q]
    BY <1>1, <1>2, <2>1, DoneTo
  <2>3. ~Mark(op)
    BY <2>1 DEF Mark
  <2>4. Sees(req[r], disk["upcert"]) => Sees(req'[r], disk["upcert"])
    BY <1>1, <2>1, <2>2, <2>3, StillSees
  <2> QED
    BY <1>5, <2>1, <2>2, <2>4, PairMoves
<1>12. CASE Disconnect(r)
  BY <1>12 DEF Disconnect, Strike, PairInv
<1> QED
  BY <1>6, <1>8, <1>9, <1>10, <1>11, <1>12 DEF Works

LEMMA NextPair == TlsTypes /\ Handlers /\ PairInv /\ [TlsNext]_tvars => PairInv'
<1> SUFFICES ASSUME TlsTypes, Handlers, PairInv, [TlsNext]_tvars PROVE PairInv'
  OBVIOUS
<1>1. ASSUME \A q \in Requests : req'[q] = req[q], disk' = disk, strikes' = strikes PROVE PairInv'
  BY <1>1 DEF PairInv
<1>2. \A q \in Requests : q \in Actors /\ q # Boot
  BY TlsAssumption DEF Actors
<1>3. CASE ensure_managed_pair
  BY <1>1, <1>2, <1>3, BootTo
<1>4. CASE load_or_create_tls_config
  BY <1>1, <1>2, <1>4 DEF load_or_create_tls_config, Calm, TlsTypes
<1>5. CASE Crash
  BY <1>5 DEF Crash, Strike, PairInv
<1>6. ASSUME NEW r \in Requests, Starts(r) PROVE PairInv'
  <2>1. PICK k \in Kinds, ops \in Seq(Ops) : StartsWith(r, k, ops)
    BY <1>6, RequestsStart
  <2>2. /\ \A q \in Actors : q # r => req'[q] = req[q]
        /\ req[r].kind = "new" /\ disk' = disk /\ strikes' = strikes
    BY <2>1, BeginsTo DEF StartsWith
  <2>3. ~Sees(req[r], disk["upcert"])
    BY <1>2, <2>2, SeesKind
  <2> QED
    BY <1>2, <2>2, <2>3, PairMoves
<1>7. ASSUME NEW r \in Actors, Works(r) PROVE PairInv'
  BY <1>7, WorksPair
<1>8. CASE UNCHANGED tvars
  BY <1>1, <1>8 DEF tvars
<1> QED
  BY <1>3, <1>4, <1>5, <1>6, <1>7, <1>8, TlsCases

\* Uploads that run at the same time may mix their files, but the pair that is
\* left once all have ended matches: for any number of requests of every kind,
\* in any interleaving of their file operations.
THEOREM UploadedPairMatchesHolds == WebSpec => []UploadedPairMatches
<1>1. Begins => PairInv
  <2> SUFFICES ASSUME NEW made \in SUBSET Requests, NEW keys \in Nat, NEW hits \in Nat, TlsInit(made, keys, hits)
               PROVE  PairInv
    BY DEF Begins
  <2> QED
    BY DEF TlsInit, PairInv, Mixed, Files
<1>2. TlsTypes /\ Handlers /\ PairInv => UploadedPairMatches
  <2> SUFFICES ASSUME TlsTypes, Handlers, PairInv, InFlight = {}, strikes = 0, ~Missing("upcert"), ~Missing("upkey"),
                      ~Loads(disk["upcert"], disk["upkey"])
               PROVE  FALSE
    BY DEF UploadedPairMatches
  <2>1. PICK r \in Requests : Sees(req[r], disk["upcert"])
    BY DEF PairInv, Mixed, Missing
  <2>2. req[r].todo # <<>>
    BY <2>1, SeesKind DEF Actors
  <2> QED
    BY <2>2 DEF InFlight
<1> QED
  BY <1>1, <1>2, TlsStarts, TlsHandlers, TlsSteps, NextPair, PTL DEF WebSpec

-----------------------------------------------------------------------------
(* Tls: the managed pair *)

\* What is left of a regeneration that touches the pair.
Busy(s) == \E i \in 1 .. Len(s) : s[i].do \in Touches /\ s[i].file \in {"cert", "key"}

\* The files as a boot can take them.
Sane(d) == {NoFile, Torn} \cap {d["cert"], d["key"]} # {} \/ Loads(d["cert"], d["key"])

\* What a regeneration has done before its operation op.
Stage(op, d) ==
    /\ op.do = "remove" /\ op.file = "key" => d["cert"] = NoFile
    /\ op.do = "write" /\ op.file = "cert" => d["cert"] = NoFile /\ d["key"] = NoFile
    /\ op.do = "create" /\ op.file = "key" => d["key"] = NoFile /\ d["cert"] \in Certs /\ d["cert"].sound /\ op.val = d["cert"].id

\* Without two regenerations at once, one actor at most works on the pair.
BootInv ==
    "regen" \notin clash =>
        /\ \A r, q \in Actors : Busy(req[r].todo) /\ Busy(req[q].todo) => r = q
        /\ Sane(disk)
        /\ \A r \in Actors : req[r].todo # <<>> => Stage(req[r].todo[1], disk)

LEMMA BusyKind ==
    ASSUME NEW k, NEW s, Shaped(k, s), Busy(s)
    PROVE  k \in {"regen", "boot"}
BY DEF Shaped, Busy, OpFits, Managed

LEMMA BusyTail ==
    ASSUME NEW s \in Seq(Ops), s # <<>>, Busy(Tail(s))
    PROVE  Busy(s)
<1>1. PICK i \in 1 .. Len(Tail(s)) : Tail(s)[i].do \in Touches /\ Tail(s)[i].file \in {"cert", "key"}
  BY DEF Busy
<1>2. i + 1 \in 1 .. Len(s) /\ Tail(s)[i] = s[i + 1]
  OBVIOUS
<1> QED
  BY <1>1, <1>2 DEF Busy

LEMMA NotBusy == ~Busy(<<>>) /\ ~Busy(remove_uploaded_pair) /\ ~Busy(Reload("cert", "key"))
<1>1. ~Busy(<<>>)
  BY DEF Busy
<1>2. ~Busy(remove_uploaded_pair)
  BY BusyKind, OtherShapes
<1>3. ~Busy(Reload("cert", "key"))
  <2> DEFINE p == Reload("cert", "key")
  <2>1. /\ Len(p) = 3 /\ p[1].do = "readcert" /\ p[2].do = "readkey" /\ p[3].do = "swap"
    BY DEF Reload, Op
  <2> HIDE DEF p
  <2>2. \A i \in 1 .. 3 : p[i].do \notin Touches
    BY <2>1 DEF Touches
  <2>3. ~Busy(p)
    BY <2>1, <2>2 DEF Busy
  <2> QED
    BY <2>3 DEF p
<1> QED
  BY <1>1, <1>2, <1>3

\* One actor moves on; if it has touched the pair it was the one at work on it.
LEMMA BootMoves ==
    ASSUME TlsTypes, BootInv, NEW r \in Actors, clash' = clash, \A q \in Actors : q # r => req'[q] = req[q],
           Busy(req'[r].todo) => Busy(req[r].todo),
           "regen" \notin clash => /\ Sane(disk')
                                   /\ req'[r].todo # <<>> => Stage(req'[r].todo[1], disk'),
           \/ disk'["cert"] = disk["cert"] /\ disk'["key"] = disk["key"]
           \/ Busy(req[r].todo)
    PROVE  BootInv'
<1> SUFFICES ASSUME "regen" \notin clash'
             PROVE  /\ \A p, q \in Actors : Busy(req'[p].todo) /\ Busy(req'[q].todo) => p = q
                    /\ Sane(disk')
                    /\ \A q \in Actors : req'[q].todo # <<>> => Stage(req'[q].todo[1], disk')
  BY DEF BootInv
<1>1. \A p, q \in Actors : Busy(req[p].todo) /\ Busy(req[q].todo) => p = q
  BY DEF BootInv
<1>2. \A q \in Actors : Busy(req'[q].todo) => Busy(req[q].todo)
  OBVIOUS
<1>3. ASSUME NEW q \in Actors, q # r, req'[q].todo # <<>> PROVE Stage(req'[q].todo[1], disk')
  <2>1. req'[q] = req[q] /\ Stage(req[q].todo[1], disk)
    BY <1>3 DEF BootInv
  <2>2. CASE disk'["cert"] = disk["cert"] /\ disk'["key"] = disk["key"]
    BY <2>1, <2>2 DEF Stage
  <2>3. CASE Busy(req[r].todo)
    <3>1. ~Busy(req[q].todo)
      BY <1>1, <1>3, <2>3
    <3>2. req[q].todo \in Seq(Ops) /\ 1 \in 1 .. Len(req[q].todo)
      BY <1>3, <2>1, HeadOp
    <3>3. ~(req[q].todo[1].do \in Touches /\ req[q].todo[1].file \in {"cert", "key"})
      BY <3>1, <3>2 DEF Busy
    <3> QED
      BY <2>1, <3>3 DEF Stage, Touches
  <2> QED
    BY <2>2, <2>3
<1>4. Sane(disk') /\ (req'[r].todo # <<>> => Stage(req'[r].todo[1], disk'))
  OBVIOUS
<1> QED
  BY <1>1, <1>2, <1>3, <1>4

\* The next operation of an actor that has not touched the pair.
LEMMA StageTail ==
    ASSUME NEW k, NEW s \in Seq(Ops), s # <<>>, Shaped(k, s), Tail(s) # <<>>, NEW d,
           ~(s[1].do \in Touches /\ s[1].file \in {"cert", "key"})
    PROVE  Stage(Tail(s)[1], d)
<1>1. 1 \in 1 .. Len(s) /\ 1 < Len(s) /\ Tail(s)[1] = s[1 + 1]
  OBVIOUS
<1>2. Follows(k, s, 1)
  BY <1>1 DEF Shaped
<1> QED
  BY <1>1, <1>2 DEF Follows, Stage, Touches

LEMMA WorksBoot ==
    ASSUME TlsTypes, Handlers, BootInv, NEW r \in Actors, Works(r)
    PROVE  BootInv'
<1> DEFINE op == Head1(r)
           s == req[r].todo
           k == req[r].kind
<1>1. /\ op \in Ops /\ op = s[1] /\ req[r] \in Runs /\ s # <<>> /\ s \in Seq(Ops) /\ Len(s) \in Nat /\ Len(s) >= 1
      /\ Tail(s) \in Seq(Ops) /\ Len(Tail(s)) = Len(s) - 1 /\ \A i \in 1 .. Len(Tail(s)) : Tail(s)[i] = s[i + 1]
  BY HeadOp DEF Works
<1>2. op.file \in Files /\ op.val \in Vals /\ req[r].got \in Vals /\ NoFile \in Vals
  BY <1>1, ValsFacts DEF Ops, Runs
<1>3. Shaped(k, s) /\ OpFits(k, op)
  BY <1>1 DEF Handlers, Shaped
<1>4. "regen" \notin clash => Sane(disk) /\ Stage(op, disk)
  BY <1>1 DEF BootInv
<1>5. op.do \in Touches /\ op.file \in {"cert", "key"} => Busy(s)
  BY <1>1 DEF Busy
<1>6. Busy(Tail(s)) => Busy(s)
  BY <1>1, BusyTail
\* The pair is as it was, and the actor goes on or ends.
<1>7. ASSUME clash' = clash, \A q \in Actors : q # r => req'[q] = req[q],
             disk'["cert"] = disk["cert"], disk'["key"] = disk["key"],
             \/ req'[r].todo = Tail(s) /\ ~(op.do \in Touches /\ op.file \in {"cert", "key"})
             \/ req'[r].todo \in {<<>>, remove_uploaded_pair, Reload("cert", "key")}
      PROVE  BootInv'
  <2>1. Sane(disk) => Sane(disk')
    BY <1>7 DEF Sane
  <2>2. Busy(req'[r].todo) => Busy(s)
    BY <1>6, <1>7, NotBusy
  <2>3. remove_uploaded_pair[1].file = "upcert" /\ Reload("cert", "key")[1].do = "readcert"
    BY DEF remove_uploaded_pair, Reload, Remove, Op
  <2>4. req'[r].todo # <<>> => Stage(req'[r].todo[1], disk')
    <3>1. CASE req'[r].todo = Tail(s) /\ ~(op.do \in Touches /\ op.file \in {"cert", "key"})
      BY <1>1, <1>3, <3>1, StageTail
    <3>2. CASE req'[r].todo = remove_uploaded_pair \/ req'[r].todo = Reload("cert", "key")
      BY <2>3, <3>2 DEF Stage
    <3> QED
      BY <1>7, <3>1, <3>2
  <2> QED
    BY <1>4, <1>7, <2>1, <2>2, <2>4, BootMoves
<1>8. ASSUME Fails(r)
      PROVE  /\ \A q \in Actors : q # r => req'[q] = req[q]
             /\ req'[r].todo \in {<<>>, remove_uploaded_pair}
  BY <1>1, <1>8, FailsTo
<1>9. CASE FileOp(r)
  <2>1. /\ disk' = [disk EXCEPT ![op.file] = op.val] /\ clash' = clash /\ Done(r, req[r].got)
        /\ op.do \in {"write", "create", "remove"} /\ (op.do = "create" => Missing(op.file))
    BY <1>9 DEF FileOp, Same
  <2>2. req'[r].todo = Tail(s) /\ \A q \in Actors : q # r => req'[q] = req[q]
    BY <1>1, <1>2, <2>1, DoneTo
  <2>3. CASE op.file \notin {"cert", "key"}
    <3>1. disk'["cert"] = disk["cert"] /\ disk'["key"] = disk["key"]
      BY <2>1, <2>3 DEF TlsTypes, Files
    <3> QED
      BY <1>7, <2>1, <2>2, <2>3, <3>1
  <2>4. CASE op.file \in {"cert", "key"}
    <3>1. Busy(s)
      BY <1>5, <2>1, <2>4 DEF Touches
    <3>2. /\ op.do = "remove" => op.val = NoFile
          /\ op.do = "write" => op.file = "cert" /\ op.val \in Certs /\ op.val.sound
          /\ op.do = "create" => op.file = "key"
      BY <1>3, <2>4 DEF OpFits
    <3>3. /\ op.file = "cert" => disk'["cert"] = op.val /\ disk'["key"] = disk["key"]
          /\ op.file = "key" => disk'["key"] = op.val /\ disk'["cert"] = disk["cert"]
      BY <2>1 DEF TlsTypes, Files
    <3>4. ASSUME "regen" \notin clash PROVE Sane(disk')
      <4>1. CASE op.do = "remove"
        BY <2>4, <3>2, <3>3, <4>1 DEF Sane
      <4>2. CASE op.do = "write"
        BY <1>4, <3>2, <3>3, <3>4, <4>2 DEF Sane, Stage
      <4>3. CASE op.do = "create"
        BY <1>4, <3>2, <3>3, <3>4, <4>3 DEF Sane, Stage, Loads
      <4> QED
        BY <2>1, <4>1, <4>2, <4>3
    <3>5. ASSUME "regen" \notin clash, Tail(s) # <<>> PROVE Stage(Tail(s)[1], disk')
      <4>1. 1 \in 1 .. Len(s) /\ 1 < Len(s) /\ Tail(s)[1] = s[1 + 1]
        BY <1>1, <3>5
      <4>2. Follows(k, s, 1)
        BY <1>3, <4>1 DEF Shaped
      <4> HIDE DEF s, op
      <4>3. op = s[1]
        BY <1>1
      <4> QED
        BY <1>4, <3>2, <3>3, <3>5, <4>1, <4>2, <4>3 DEF Follows, Stage
    <3> QED
      BY <1>6, <2>1, <2>2, <3>1, <3>4, <3>5, BootMoves
  <2> QED
    BY <2>3, <2>4
<1>10. CASE FileOpFails(r)
  <2>1. /\ disk' = disk \/ (disk' = [disk EXCEPT ![op.file] = Torn] /\ op.do \in {"write", "create"})
        /\ clash' = clash /\ Fails(r)
    BY <1>10 DEF FileOpFails, Same
  <2>2. CASE disk'["cert"] = disk["cert"] /\ disk'["key"] = disk["key"]
    BY <1>7, <1>8, <2>1, <2>2
  <2>3. CASE op.file \in {"cert", "key"} /\ disk' = [disk EXCEPT ![op.file] = Torn] /\ op.do \in {"write", "create"}
    <3>1. disk'["cert"] = Torn \/ disk'["key"] = Torn
      BY <2>3 DEF TlsTypes, Files
    <3>2. Sane(disk')
      BY <3>1 DEF Sane
    <3>3. Busy(s)
      BY <1>5, <2>3 DEF Touches
    <3>4. remove_uploaded_pair[1].file = "upcert"
      BY DEF remove_uploaded_pair, Remove, Op
    <3>5. req'[r].todo # <<>> => Stage(req'[r].todo[1], disk')
      BY <1>8, <2>1, <3>4 DEF Stage
    <3> QED
      BY <1>8, <2>1, <3>2, <3>3, <3>5, BootMoves
  <2> QED
    BY <1>2, <2>1, <2>2, <2>3 DEF TlsTypes, Files
<1>11. CASE Decide(r)
  <2> DEFINE ops == IF Missing("upcert") \/ Missing("upkey") THEN Reload("cert", "key") ELSE <<>>
  <2>1. Goes(r, ops, NoFile) /\ disk' = disk /\ clash' = clash
    BY <1>11 DEF Decide, Same
  <2>2. ops \in Seq(Ops) /\ ops \in {<<>>, Reload("cert", "key")}
    BY PlansAreOps
  <2> HIDE DEF ops
  <2>3. req'[r].todo = ops /\ \A q \in Actors : q # r => req'[q] = req[q]
    BY <1>2, <2>1, <2>2, GoesTo
  <2> QED
    BY <1>7, <2>1, <2>2, <2>3
<1>12. CASE ReadPem(r)
  <2>1. disk' = disk /\ clash' = clash /\ op.do \in {"readcert", "readkey"}
    BY <1>12 DEF ReadPem, Same
  <2>2. CASE Fails(r)
    BY <1>7, <1>8, <2>1, <2>2
  <2>3. ASSUME NEW got \in Vals, Done(r, got) PROVE BootInv'
    <3>1. req'[r].todo = Tail(s) /\ \A q \in Actors : q # r => req'[q] = req[q]
      BY <1>1, <2>3, DoneTo
    <3> QED
      BY <1>7, <2>1, <3>1 DEF Touches
  <2>4. disk[op.file] \in Vals
    BY <1>2 DEF TlsTypes
  <2> QED
    BY <1>2, <1>12, <2>2, <2>3, <2>4 DEF ReadPem
<1>13. CASE Swap(r)
  <2>1. op.do = "swap" /\ Done(r, NoFile) /\ disk' = disk /\ clash' = clash
    BY <1>13 DEF Swap
  <2>2. req'[r].todo = Tail(s) /\ \A q \in Actors : q # r => req'[q] = req[q]
    BY <1>1, <1>2, <2>1, DoneTo
  <2> QED
    BY <1>7, <2>1, <2>2 DEF Touches
<1>14. CASE Disconnect(r)
  <2>1. Goes(r, <<>>, NoFile) /\ disk' = disk /\ clash' = clash /\ <<>> \in Seq(Ops)
    BY <1>14 DEF Disconnect
  <2>2. req'[r].todo = <<>> /\ \A q \in Actors : q # r => req'[q] = req[q]
    BY <1>2, <2>1, GoesTo
  <2> QED
    BY <1>7, <2>1, <2>2
<1> QED
  BY <1>9, <1>10, <1>11, <1>12, <1>13, <1>14 DEF Works

\* An actor that starts has the pair to itself.
LEMMA BootBegins ==
    ASSUME TlsTypes, BootInv, NEW r \in Actors, NEW ops, \A q \in Actors : q # r => req'[q] = req[q],
           req'[r].todo = ops, disk' = disk, clash \subseteq clash',
           ops # <<>> => Stage(ops[1], disk),
           Busy(ops) /\ "regen" \notin clash' => \A q \in Actors : q # r => ~Busy(req[q].todo)
    PROVE  BootInv'
<1> SUFFICES ASSUME "regen" \notin clash'
             PROVE  /\ \A p, q \in Actors : Busy(req'[p].todo) /\ Busy(req'[q].todo) => p = q
                    /\ Sane(disk')
                    /\ \A q \in Actors : req'[q].todo # <<>> => Stage(req'[q].todo[1], disk')
  BY DEF BootInv
<1>1. /\ \A p, q \in Actors : Busy(req[p].todo) /\ Busy(req[q].todo) => p = q
      /\ Sane(disk)
      /\ \A q \in Actors : req[q].todo # <<>> => Stage(req[q].todo[1], disk)
  BY DEF BootInv
<1>2. \A q \in Actors : req'[q].todo # <<>> => Stage(req'[q].todo[1], disk')
  BY <1>1
<1>3. \A p, q \in Actors : Busy(req'[p].todo) /\ Busy(req'[q].todo) => p = q
  BY <1>1
<1> QED
  BY <1>1, <1>2, <1>3

LEMMA NextBoot == TlsTypes /\ Handlers /\ BootInv /\ [TlsNext]_tvars => BootInv'
<1> SUFFICES ASSUME TlsTypes, Handlers, BootInv, [TlsNext]_tvars PROVE BootInv'
  OBVIOUS
<1>1. Boot \in Actors /\ \A q \in Requests : q \in Actors /\ q # Boot
  BY TlsAssumption DEF Actors
<1>2. ASSUME NEW q \in Actors, Busy(req[q].todo)
      PROVE  req[q].todo # <<>> /\ IF q = Boot THEN req[q].kind = "boot" ELSE q \in Requests /\ req[q].kind = "regen"
  <2>1. req[q].kind \in {"regen", "boot"} /\ req[q].todo # <<>>
    BY <1>2, BusyKind, NotBusy DEF Handlers
  <2> QED
    BY <2>1 DEF Handlers, Actors
<1>3. CASE ensure_managed_pair
  <2>1. /\ \A q \in Actors : q # Boot => req'[q] = req[q]
        /\ live = NoFile /\ disk' = disk /\ clash' = clash
        /\ \/ req'[Boot].todo = <<>>
           \/ \E c \in Certs : c.sound /\ req'[Boot].todo = regenerate_managed_pair(c)
    BY <1>3, BootTo
  <2>2. \A c : regenerate_managed_pair(c)[1].do = "remove" /\ regenerate_managed_pair(c)[1].file = "cert"
    BY DEF regenerate_managed_pair, Remove, Op
  <2>3. \A q \in Actors : q # Boot => ~Busy(req[q].todo)
    BY <1>2, <2>1 DEF Handlers
  <2> DEFINE ops == req'[Boot].todo
  <2>4. ops # <<>> => Stage(ops[1], disk)
    BY <2>1, <2>2 DEF Stage
  <2> HIDE DEF ops
  <2>5. req'[Boot].todo = ops
    BY DEF ops
  <2> QED
    BY <1>1, <2>1, <2>3, <2>4, <2>5, BootBegins
<1>4. CASE load_or_create_tls_config
  <2>1. req' = [req EXCEPT ![Boot] = Idle] /\ disk' = disk /\ clash' = clash
    BY <1>4 DEF load_or_create_tls_config
  <2>2. req'[Boot].todo = <<>> /\ \A q \in Actors : q # Boot => req'[q] = req[q]
    BY <1>1, <2>1, IdleRun DEF TlsTypes
  <2>3. ~Busy(<<>>)
    BY NotBusy
  <2> QED
    BY <1>1, <2>1, <2>2, <2>3, BootBegins
<1>5. CASE Crash
  <2>1. /\ \A r \in Actors : req'[r].todo = <<>>
        /\ \A f \in Files : disk'[f] = disk[f] \/ disk'[f] = Torn
        /\ clash' = clash
    BY <1>5, CrashTo
  <2>2. /\ disk'["cert"] = disk["cert"] \/ disk'["cert"] = Torn
        /\ disk'["key"] = disk["key"] \/ disk'["key"] = Torn
    BY <2>1 DEF Files
  <2>3. Sane(disk) => Sane(disk')
    BY <2>2 DEF Sane
  <2>4. ~Busy(<<>>)
    BY NotBusy
  <2> QED
    BY <2>1, <2>3, <2>4 DEF BootInv
<1>6. ASSUME NEW r \in Requests, Starts(r) PROVE BootInv'
  <2>1. PICK k \in Kinds, ops \in Seq(Ops) : StartsWith(r, k, ops)
    BY <1>6, RequestsStart
  <2>2. /\ req'[r].todo = ops /\ \A q \in Actors : q # r => req'[q] = req[q]
        /\ disk' = disk /\ live # NoFile
        /\ clash' = clash \cup UNION {{"any"} \cup ({k} \cap {req[q].kind}) : q \in InFlight}
    BY <2>1, BeginsTo DEF StartsWith
  <2>3. Shaped(k, ops) /\ k # "boot"
    BY <2>1 DEF StartsWith
  <2>4. ASSUME Busy(ops), "regen" \notin clash', NEW q \in Actors, q # r, Busy(req[q].todo) PROVE FALSE
    <3>1. k = "regen"
      BY <2>3, <2>4, BusyKind
    <3>2. q # Boot
      BY <1>2, <2>2, <2>4 DEF Handlers
    <3>3. q \in InFlight /\ req[q].kind = "regen"
      BY <1>2, <2>4, <3>2 DEF InFlight
    <3>4. "regen" \in {"any"} \cup ({k} \cap {req[q].kind})
      BY <3>1, <3>3
    <3> QED
      BY <2>2, <2>4, <3>3, <3>4
  <2>5. (ops # <<>> => Stage(ops[1], disk)) /\ clash \subseteq clash'
    BY <2>1, <2>2 DEF StartsWith, Stage
  <2> QED
    BY <1>1, <2>2, <2>4, <2>5, BootBegins
<1>7. ASSUME NEW r \in Actors, Works(r) PROVE BootInv'
  BY <1>7, WorksBoot
<1>8. CASE UNCHANGED tvars
  BY <1>8 DEF tvars, BootInv
<1> QED
  BY <1>3, <1>4, <1>5, <1>6, <1>7, <1>8, TlsCases

\* A boot comes up from the files of any moment, a crash inside a regeneration
\* included, unless two regenerations ran at once or a managed file is torn: for
\* any number of requests, crashes, disconnects and failed file operations.
THEOREM BootComesUpHolds == WebSpec => []BootComesUp
<1>1. Begins => BootInv
  <2> SUFFICES ASSUME TlsTypes, Handlers, disk = [f \in Files |-> NoFile], \A r \in Actors : req[r].todo = <<>>
               PROVE  BootInv
    <3>1. Begins => disk = [f \in Files |-> NoFile] /\ req \in [Actors -> {Idle, [Idle EXCEPT !.kind = "done"]}]
      BY DEF Begins, TlsInit, Actors
    <3> QED
      BY <3>1, TlsStarts, IdleRun
  <2> QED
    BY NotBusy DEF BootInv, Sane, Files
<1>2. BootInv => BootComesUp
  <2>1. Loads(disk["cert"], disk["key"]) => load_tls_config(disk) # NoFile \/ mount # NoFile
    BY ValsFacts DEF load_tls_config, Loads
  <2> QED
    BY <2>1 DEF BootInv, BootComesUp, Sane, ensure_regenerates
<1> QED
  BY <1>1, <1>2, TlsStarts, TlsHandlers, TlsSteps, NextBoot, PTL DEF WebSpec

-----------------------------------------------------------------------------
(* Tls: the listener and the disk *)

HasSwap(s) == \E i \in 1 .. Len(s) : s[i].do = "swap"

\* No mounted pair, no requests that overlapped, none cut short.
Undisturbed == mount = NoFile /\ clash = {} /\ ~spoiled

\* A file that the boot takes for complete is there, or about to be written.
Present(f, v) == v # NoFile /\ (f = "sans" => v # Torn)
Supplied(f) == Present(f, disk[f]) \/ \E r \in Actors : Later(req[r].todo, 1, FileWrites, {f})

SupplyInv == Undisturbed /\ (live # NoFile \/ req[Boot].kind = "boot") => \A f \in Managed : Supplied(f)

\* The uploaded pair is absent or whole; what is served is what is there.
Paired(d) == d["upcert"] = NoFile \/ Loads(d["upcert"], d["upkey"])
ServesManaged(d, l) == Loads(d["cert"], d["key"]) /\ l = d["cert"]
Rest(d, l) ==
    /\ Paired(d)
    /\ IF d["upcert"] = NoFile THEN ServesManaged(d, l) ELSE l = d["upcert"]

\* What holds before a handler's next operation.
Phase(run, d, l) ==
    LET k == run.kind s == run.todo op == run.todo[1] IN
    /\ k \in {"csr", "discard"} => Rest(d, l)
    /\ k = "reset" => IF Mark(op) THEN Rest(d, l) ELSE d["upcert"] = NoFile
    /\ k = "upload" /\ HasSwap(s) /\ ~run.over => ServesManaged(d, l)
    /\ k = "upload" /\ ~HasSwap(s) => IF op.file = "upcert" THEN ServesManaged(d, l)
                                      ELSE Rest(d, l) /\ (op.file = "upkey" => d["upcert"] = NoFile)
    /\ k = "regen" => /\ Paired(d) /\ (d["upcert"] # NoFile => l = d["upcert"])
                      /\ op.do \in {"readcert", "readkey", "swap"} => d["upcert"] = NoFile
    /\ op.do \in {"readkey", "swap"} => run.got = d[CertOf(k)]
    /\ op.do = "swap" => Loads(d[CertOf(k)], d[KeyOf(k)])

\* One request at a time is in some phase; between requests the disk and the
\* listener agree; while the listener is down the uploaded pair is whole.
RestInv ==
    Undisturbed =>
        /\ \A r, q \in Requests : req[r].todo # <<>> /\ req[q].todo # <<>> => r = q
        /\ live = NoFile => Paired(disk)
        /\ live # NoFile /\ InFlight = {} => Rest(disk, live)
        /\ live # NoFile => \A r \in InFlight : Phase(req[r], disk, live)

LEMMA LaterTail ==
    ASSUME NEW s \in Seq(Ops), s # <<>>, NEW D, NEW F
    PROVE  /\ Later(s, 1, D, F) <=> (s[1].do \in D /\ s[1].file \in F) \/ Later(Tail(s), 1, D, F)
           /\ Later(s, 2, D, F) => Later(Tail(s), 1, D, F)
<1> DEFINE t == Tail(s)
<1>1. /\ Len(t) = Len(s) - 1 /\ Len(s) \in Nat /\ Len(s) >= 1
      /\ \A i \in 1 .. Len(t) : i + 1 \in 2 .. Len(s) /\ t[i] = s[i + 1]
      /\ \A i \in 2 .. Len(s) : i - 1 \in 1 .. Len(t) /\ t[i - 1] = s[i]
  OBVIOUS
<1> HIDE DEF t
<1>2. Later(s, 2, D, F) => Later(t, 1, D, F)
  BY <1>1 DEF Later
<1>3. Later(t, 1, D, F) => Later(s, 1, D, F)
  <2> SUFFICES ASSUME NEW j \in 1 .. Len(t), t[j].do \in D, t[j].file \in F PROVE Later(s, 1, D, F)
    BY DEF Later
  <2>1. j + 1 \in 1 .. Len(s) /\ t[j] = s[j + 1]
    BY <1>1
  <2> QED
    BY <2>1 DEF Later
<1>4. s[1].do \in D /\ s[1].file \in F => Later(s, 1, D, F)
  BY <1>1 DEF Later
<1>5. ASSUME Later(s, 1, D, F), ~(s[1].do \in D /\ s[1].file \in F) PROVE Later(s, 2, D, F)
  <2>1. PICK j \in 1 .. Len(s) : s[j].do \in D /\ s[j].file \in F
    BY <1>5 DEF Later
  <2>2. j # 1
    BY <1>5, <2>1
  <2>3. j \in 2 .. Len(s)
    BY <1>1, <2>2
  <2> QED
    BY <2>1, <2>3 DEF Later
<1> QED
  BY <1>2, <1>3, <1>4, <1>5 DEF t

LEMMA LaterNone == \A D, F : ~Later(<<>>, 1, D, F)
BY DEF Later

\* Only a regeneration or a boot supplies the managed files.
LEMMA LaterKind ==
    ASSUME NEW k, NEW s, Shaped(k, s), NEW f \in Managed, Later(s, 1, FileWrites, {f})
    PROVE  k \in {"regen", "boot"}
BY DEF Shaped, Later, OpFits, FileWrites, Touches

\* One actor moves on; what it was to supply is there or still to come.
LEMMA SupplyMoves ==
    ASSUME TlsTypes, NEW r \in Actors, \A q \in Actors : q # r => req'[q] = req[q], NEW f, Supplied(f),
           \/ Present(f, disk'[f]) \/ Later(req'[r].todo, 1, FileWrites, {f})
           \/ disk'[f] = disk[f] /\ ~Later(req[r].todo, 1, FileWrites, {f})
    PROVE  Supplied(f)'
BY DEF Supplied

LEMMA WorksSupply ==
    ASSUME TlsTypes, Handlers, NEW r \in Actors, Works(r), ~spoiled', req'[Boot].kind = "boot" \/ live' # NoFile,
           NEW f \in Managed, Supplied(f)
    PROVE  Supplied(f)'
<1> DEFINE op == Head1(r)
           s == req[r].todo
           k == req[r].kind
<1>1. op \in Ops /\ op = s[1] /\ req[r] \in Runs /\ s # <<>> /\ s \in Seq(Ops) /\ Len(s) \in Nat /\ Len(s) >= 1
  BY HeadOp DEF Works
<1>2. op.file \in Files /\ op.val \in Vals /\ req[r].got \in Vals /\ NoFile \in Vals /\ f \in Files
  BY <1>1, ValsFacts DEF Ops, Runs, Managed, Files
<1>3. Shaped(k, s) /\ OpFits(k, op) /\ Leaves(k, s, 1) /\ (k = "boot" <=> r = Boot)
  BY <1>1 DEF Handlers, Shaped
<1>4. Later(s, 1, FileWrites, {f}) => (op.do \in FileWrites /\ op.file = f) \/ Later(Tail(s), 1, FileWrites, {f})
  BY <1>1, LaterTail
<1>5. Later(s, 1, FileWrites, {f}) => k \in {"regen", "boot"}
  BY <1>3, LaterKind
<1>6. CASE FileOp(r)
  <2>1. disk' = [disk EXCEPT ![op.file] = op.val] /\ Done(r, req[r].got) /\ op.do \in {"write", "create", "remove"}
    BY <1>6 DEF FileOp
  <2>2. req'[r].todo = Tail(s) /\ \A q \in Actors : q # r => req'[q] = req[q]
    BY <1>1, <1>2, <2>1, DoneTo
  <2>3. CASE op.file # f
    <3>1. disk'[f] = disk[f]
      BY <1>2, <2>1, <2>3 DEF TlsTypes
    <3> QED
      BY <1>4, <2>2, <2>3, <3>1, SupplyMoves
  <2>4. CASE op.file = f /\ op.do \in FileWrites
    <3>1. disk'[f] \notin {NoFile, Torn}
      BY <1>2, <1>3, <2>1, <2>4 DEF TlsTypes, OpFits
    <3> QED
      BY <2>2, <3>1, SupplyMoves DEF Present
  <2>5. CASE op.file = f /\ op.do = "remove"
    <3>1. Later(s, 2, FileWrites, {f})
      BY <1>1, <1>3, <2>5 DEF Leaves
    <3>2. Later(Tail(s), 1, FileWrites, {f})
      BY <1>1, <3>1, LaterTail
    <3> QED
      BY <2>2, <3>2, SupplyMoves
  <2> QED
    BY <2>1, <2>3, <2>4, <2>5 DEF FileWrites
<1>7. ASSUME Fails(r), live' = live, disk'[f] = disk[f] \/ k \in {"regen", "boot"} PROVE Supplied(f)'
  <2>1. /\ \A q \in Actors : q # r => req'[q] = req[q]
        /\ r = Boot => req'[r].kind = "new"
        /\ spoiled' = (spoiled \/ k \in {"regen", "reset"} \/ (k = "upload" /\ req[r].over))
    BY <1>1, <1>7, FailsTo
  <2>2. k # "regen"
    BY <2>1
  <2>3. k # "boot"
    BY <1>1, <1>3, <1>7, <2>1 DEF Handlers
  <2> QED
    BY <1>5, <1>7, <2>1, <2>2, <2>3, SupplyMoves
<1>8. CASE FileOpFails(r)
  <2>1. live' = live /\ Fails(r) /\ (disk' = disk \/ (disk' = [disk EXCEPT ![op.file] = Torn] /\ op.do \in FileWrites))
    BY <1>8 DEF FileOpFails, Same, FileWrites
  <2>2. disk'[f] = disk[f] \/ (op.file = f /\ op.do \in FileWrites)
    BY <1>2, <2>1 DEF TlsTypes
  <2>3. op.file = f /\ op.do \in FileWrites => k \in {"regen", "boot"}
    BY <1>3 DEF OpFits, FileWrites, Touches
  <2> QED
    BY <1>7, <2>1, <2>2, <2>3
<1>9. CASE Decide(r)
  <2> DEFINE ops == IF Missing("upcert") \/ Missing("upkey") THEN Reload("cert", "key") ELSE <<>>
  <2>1. Goes(r, ops, NoFile) /\ disk' = disk /\ op.do = "decide"
    BY <1>9 DEF Decide
  <2>2. ops \in Seq(Ops)
    BY PlansAreOps
  <2> HIDE DEF ops
  <2>3. \A q \in Actors : q # r => req'[q] = req[q]
    BY <1>2, <2>1, <2>2, GoesTo
  <2>4. 1 = Len(s)
    BY <1>1, <1>3, <2>1 DEF Leaves
  <2>5. ~Later(s, 1, FileWrites, {f})
    BY <1>1, <2>1, <2>4 DEF Later, FileWrites
  <2> QED
    BY <2>1, <2>3, <2>5, SupplyMoves
<1>10. ASSUME NEW got \in Vals, Done(r, got), disk' = disk, op.do \notin FileWrites PROVE Supplied(f)'
  <2>1. req'[r].todo = Tail(s) /\ \A q \in Actors : q # r => req'[q] = req[q]
    BY <1>1, <1>10, DoneTo
  <2> QED
    BY <1>4, <1>10, <2>1, SupplyMoves
<1>11. CASE ReadPem(r)
  <2>1. disk' = disk /\ live' = live /\ op.do \in {"readcert", "readkey"}
    BY <1>11 DEF ReadPem, Same
  <2>2. disk[op.file] \in Vals
    BY <1>2 DEF TlsTypes
  <2>3. Fails(r) \/ \E got \in Vals : Done(r, got)
    BY <1>2, <1>11, <2>2 DEF ReadPem
  <2> QED
    BY <1>7, <1>10, <2>1, <2>3 DEF FileWrites
<1>12. CASE Swap(r)
  <2>1. op.do = "swap" /\ Done(r, NoFile) /\ disk' = disk
    BY <1>12 DEF Swap
  <2> QED
    BY <1>2, <1>10, <2>1 DEF FileWrites
<1>13. CASE Disconnect(r)
  BY <1>13 DEF Disconnect
<1> QED
  BY <1>6, <1>8, <1>9, <1>11, <1>12, <1>13 DEF Works

\* Nothing that ends a disturbance.
LEMMA StaysDisturbed ==
    ASSUME TlsTypes, Handlers, TlsNext, Undisturbed'
    PROVE  Undisturbed
<1>1. mount' = mount /\ clash \subseteq clash' /\ (spoiled => spoiled')
  <2>1. CASE ensure_managed_pair
    BY <2>1 DEF ensure_managed_pair
  <2>2. CASE load_or_create_tls_config
    BY <2>2 DEF load_or_create_tls_config
  <2>3. CASE Crash
    BY <2>3 DEF Crash
  <2>4. ASSUME NEW r \in Requests, Starts(r) PROVE mount' = mount /\ clash \subseteq clash' /\ (spoiled => spoiled')
    <3>1. PICK k \in Kinds, ops \in Seq(Ops) : StartsWith(r, k, ops)
      BY <2>4, RequestsStart
    <3> QED
      BY <3>1 DEF StartsWith, Begin
  <2>5. ASSUME NEW r \in Actors, Works(r) PROVE mount' = mount /\ clash \subseteq clash' /\ (spoiled => spoiled')
    <3>1. mount' = mount /\ clash' = clash
      BY <2>5 DEF Works, FileOp, FileOpFails, Decide, ReadPem, Swap, Disconnect, Same
    <3>2. spoiled => spoiled'
      BY <2>5 DEF Works, FileOp, FileOpFails, Decide, ReadPem, Swap, Disconnect, Done, Fails
    <3> QED
      BY <3>1, <3>2
  <2> QED
    BY <2>1, <2>2, <2>3, <2>4, <2>5, TlsCases
<1> QED
  BY <1>1 DEF Undisturbed

LEMMA NextSupply == TlsTypes /\ Handlers /\ SupplyInv /\ [TlsNext]_tvars => SupplyInv'
<1> SUFFICES ASSUME TlsTypes, Handlers, SupplyInv, TlsNext, Undisturbed', live' # NoFile \/ req'[Boot].kind = "boot",
                    NEW f \in Managed
             PROVE  Supplied(f)'
  <2>1. CASE UNCHANGED tvars
    BY <2>1 DEF tvars, SupplyInv, Supplied, Undisturbed
  <2> QED
    BY <2>1 DEF SupplyInv
<1>1. Undisturbed
  BY StaysDisturbed
<1>2. Boot \in Actors /\ \A q \in Requests : q \in Actors /\ q # Boot
  BY TlsAssumption DEF Actors
<1>3. CASE ensure_managed_pair
  <2>1. /\ disk' = disk /\ mount = NoFile
        /\ \/ req'[Boot].todo = <<>> /\ ~ensure_regenerates(disk)
           \/ \E c \in Certs : c.sound /\ req'[Boot].todo = regenerate_managed_pair(c)
    BY <1>1, <1>3, BootTo DEF Undisturbed
  <2>2. CASE ~ensure_regenerates(disk)
    BY <2>1, <2>2 DEF ensure_regenerates, Supplied, Present, Managed
  <2>3. ASSUME NEW c \in Certs, req'[Boot].todo = regenerate_managed_pair(c) PROVE Supplied(f)'
    <3> DEFINE p == regenerate_managed_pair(c)
    <3>1. /\ Len(p) = 5 /\ p[3].do = "write" /\ p[3].file = "cert" /\ p[4].do = "create" /\ p[4].file = "key"
          /\ p[5].do = "write" /\ p[5].file = "sans"
      BY DEF regenerate_managed_pair, Write, Create, Op
    <3> HIDE DEF p
    <3>2. \E j \in {3, 4, 5} : p[j].do \in FileWrites /\ p[j].file \in {f}
      BY <3>1 DEF Managed, FileWrites
    <3>3. Later(p, 1, FileWrites, {f})
      BY <3>1, <3>2 DEF Later
    <3> QED
      BY <1>2, <2>3, <3>3 DEF Supplied, p
  <2> QED
    BY <2>1, <2>2, <2>3
<1>4. CASE load_or_create_tls_config
  <2>1. disk' = disk /\ req[Boot].kind = "boot" /\ req[Boot].todo = <<>>
    BY <1>4 DEF load_or_create_tls_config
  <2>2. \A r \in Actors : req[r].todo = <<>>
    BY <2>1 DEF Handlers, Actors
  <2>3. Supplied(f)
    BY <1>1, <2>1 DEF SupplyInv
  <2> QED
    BY <2>1, <2>2, <2>3, LaterNone DEF Supplied
<1>5. CASE Crash
  BY <1>5, CrashTo
<1>6. ASSUME NEW r \in Requests, Starts(r) PROVE Supplied(f)'
  <2>1. PICK k \in Kinds, ops \in Seq(Ops) : StartsWith(r, k, ops)
    BY <1>6, RequestsStart
  <2>2. /\ \A q \in Actors : q # r => req'[q] = req[q]
        /\ disk' = disk /\ live # NoFile /\ req[r].kind = "new"
    BY <2>1, BeginsTo DEF StartsWith
  <2>3. Supplied(f) /\ req[r].todo = <<>>
    BY <1>1, <1>2, <2>2 DEF SupplyInv, Handlers
  <2> QED
    BY <1>2, <2>2, <2>3, LaterNone, SupplyMoves
<1>7. ASSUME NEW r \in Actors, Works(r) PROVE Supplied(f)'
  <2>1. live # NoFile \/ req[Boot].kind = "boot"
    <3>1. req[r].todo # <<>>
      BY <1>7 DEF Works
    <3> QED
      BY <3>1 DEF Handlers, Actors
  <2>2. Supplied(f)
    BY <1>1, <2>1 DEF SupplyInv
  <2> QED
    BY <1>7, <2>2, WorksSupply DEF Undisturbed
<1> QED
  BY <1>3, <1>4, <1>5, <1>6, <1>7, TlsCases

\* The request r has moved on, alone: in its next phase, or at rest.
LEMMA RestMoves ==
    ASSUME TlsTypes, RestInv, Undisturbed, NEW r \in Requests, req[r].todo # <<>>, live' # NoFile,
           \A q \in Actors : q # r => req'[q] = req[q],
           IF req'[r].todo = <<>> THEN Rest(disk', live') ELSE Phase(req'[r], disk', live')
    PROVE  RestInv'
<1>1. \A q \in Requests : q # r => req'[q].todo = <<>>
  BY DEF RestInv, Actors
<1>2. InFlight' \subseteq {r} /\ (InFlight' = {} => req'[r].todo = <<>>) /\ (r \in InFlight' => req'[r].todo # <<>>)
  BY <1>1 DEF InFlight
<1>3. InFlight' = {} => Rest(disk', live')
  BY <1>2
<1>4. \A q \in InFlight' : Phase(req'[q], disk', live')
  BY <1>2
<1>5. \A p, q \in Requests : req'[p].todo # <<>> /\ req'[q].todo # <<>> => p = q
  BY <1>1
<1> QED
  BY <1>3, <1>4, <1>5 DEF RestInv

LEMMA SwapTail ==
    ASSUME NEW s \in Seq(Ops), s # <<>>
    PROVE  HasSwap(s) <=> s[1].do = "swap" \/ HasSwap(Tail(s))
<1> DEFINE t == Tail(s)
<1>1. /\ Len(t) = Len(s) - 1 /\ Len(s) \in Nat /\ Len(s) >= 1
      /\ \A i \in 1 .. Len(t) : i + 1 \in 1 .. Len(s) /\ t[i] = s[i + 1]
      /\ \A i \in 2 .. Len(s) : i - 1 \in 1 .. Len(t) /\ t[i - 1] = s[i]
  OBVIOUS
<1> HIDE DEF t
<1>2. HasSwap(t) => HasSwap(s)
  BY <1>1 DEF HasSwap
<1>3. s[1].do = "swap" => HasSwap(s)
  BY <1>1 DEF HasSwap
<1>4. ASSUME HasSwap(s), s[1].do # "swap" PROVE HasSwap(t)
  <2>1. PICK j \in 1 .. Len(s) : s[j].do = "swap"
    BY <1>4 DEF HasSwap
  <2>2. j \in 2 .. Len(s)
    BY <1>1, <1>4, <2>1
  <2> QED
    BY <1>1, <2>1, <2>2 DEF HasSwap
<1> QED
  BY <1>2, <1>3, <1>4 DEF t

\* What a plan says of its next two operations.
LEMMA NextOp ==
    ASSUME NEW k, NEW s \in Seq(Ops), s # <<>>, Shaped(k, s)
    PROVE  /\ OpFits(k, s[1])
           /\ k \in {"reset", "regen"} /\ s[1].do \in Touches => Tail(s) # <<>>
           /\ s[1].do \in {"readcert", "readkey"} => Tail(s) # <<>>
           /\ s[1].do = "readkey" => Tail(s)[1].do = "swap"
           /\ s[1].do = "swap" /\ k # "upload" => Tail(s) = <<>>
           /\ s[1].do = "swap" => ~HasSwap(Tail(s))
           /\ k = "upload" /\ s[1].do # "remove" => HasSwap(s)
           /\ Tail(s) # <<>> =>
                 /\ OpFits(k, Tail(s)[1])
                 /\ ~(Tail(s)[1].do = "remove" /\ Tail(s)[1].file = "upcert")
                 /\ Tail(s)[1].do = "readkey" => s[1].do = "readcert"
                 /\ Tail(s)[1].do = "swap" => s[1].do = "readkey"
                 /\ Tail(s)[1].do = "readcert" => k \in {"upload", "reset"}
                 /\ k = "reset" => ~Mark(Tail(s)[1])
                 /\ k = "upload" /\ ~HasSwap(Tail(s)) =>
                       /\ Tail(s)[1].do = "remove"
                       /\ Tail(s)[1].file = "upkey" => s[1].do = "remove" /\ s[1].file = "upcert"
<1> DEFINE t == Tail(s)
<1>1. /\ Len(t) = Len(s) - 1 /\ Len(s) \in Nat /\ Len(s) >= 1 /\ t \in Seq(Ops) /\ Len(t) \in Nat
      /\ \A i \in 1 .. Len(t) : i + 1 \in 2 .. Len(s) /\ t[i] = s[i + 1]
      /\ \A i \in 2 .. Len(s) : i - 1 \in 1 .. Len(t) /\ t[i - 1] = s[i]
  OBVIOUS
<1> HIDE DEF t
<1>2. (t = <<>>) <=> (Len(t) = 0)
  BY <1>1
<1>3. OpFits(k, s[1]) /\ Leaves(k, s, 1)
  BY <1>1 DEF Shaped
<1>4. Len(s) > 1 => /\ OpFits(k, s[2]) /\ Leaves(k, s, 2) /\ Follows(k, s, 1) /\ t[1] = s[2]
  BY <1>1 DEF Shaped
<1>5. k = "reset" /\ s[1].do \in Touches => t # <<>>
  BY <1>1, <1>2, <1>3 DEF Leaves, Touches
<1>6. k = "regen" /\ s[1].do \in Touches => t # <<>>
  BY <1>1, <1>2, <1>3 DEF Leaves
<1>7. s[1].do \in {"readcert", "readkey"} => t # <<>>
  BY <1>1, <1>2, <1>3 DEF Leaves
<1>8. s[1].do = "readkey" => t[1].do = "swap"
  BY <1>1, <1>3, <1>4 DEF Leaves
<1>9. s[1].do = "swap" /\ k # "upload" => t = <<>>
  BY <1>1, <1>2, <1>3 DEF Leaves
<1>10. s[1].do = "swap" => ~HasSwap(t)
  BY <1>1, <1>2, <1>3 DEF Leaves, HasSwap
<1>11. k = "upload" /\ s[1].do # "remove" => HasSwap(s)
  BY <1>1, <1>2, <1>3 DEF Leaves, HasSwap
<1>12. ASSUME t # <<>>
       PROVE  /\ OpFits(k, t[1])
              /\ ~(t[1].do = "remove" /\ t[1].file = "upcert")
              /\ t[1].do = "readkey" => s[1].do = "readcert"
              /\ t[1].do = "swap" => s[1].do = "readkey"
              /\ t[1].do = "readcert" => k \in {"upload", "reset"}
              /\ k = "reset" => ~Mark(t[1])
              /\ k = "upload" /\ ~HasSwap(t) =>
                    /\ t[1].do = "remove"
                    /\ t[1].file = "upkey" => s[1].do = "remove" /\ s[1].file = "upcert"
  <2>1. Len(s) > 1 /\ OpFits(k, s[2]) /\ Leaves(k, s, 2) /\ Follows(k, s, 1) /\ t[1] = s[2]
    BY <1>1, <1>2, <1>4, <1>12
  <2>2. (\E j \in 2 .. Len(s) : s[j].do = "swap") => HasSwap(t)
    BY <1>1 DEF HasSwap
  <2>3. k = "upload" /\ s[2].do # "remove" => HasSwap(t)
    BY <2>1, <2>2 DEF Leaves
  <2>4. s[2].file = "upkey" => (s[1].do = "remove" /\ s[1].file = "upcert") \/ HasSwap(t)
    BY <2>1, <2>2 DEF Follows
  <2> QED
    BY <2>1, <2>3, <2>4 DEF Follows
<1> QED
  BY <1>3, <1>5, <1>6, <1>7, <1>8, <1>9, <1>10, <1>11, <1>12 DEF t

\* The files and the listener that the phases look at.
LEMMA SameRest ==
    ASSUME NEW d, NEW e, NEW l, \A f \in {"cert", "key", "upcert", "upkey"} : e[f] = d[f]
    PROVE  (Rest(e, l) <=> Rest(d, l)) /\ (Paired(e) <=> Paired(d)) /\ (ServesManaged(e, l) <=> ServesManaged(d, l))
BY DEF Rest, Paired, ServesManaged, Loads

LEMMA WorksRest ==
    ASSUME TlsTypes, Handlers, RestInv, Undisturbed, Undisturbed', NEW r \in Requests, Works(r)
    PROVE  RestInv'
<1> DEFINE op == Head1(r)
           s == req[r].todo
           k == req[r].kind
           d == disk
<1>1. r \in Actors /\ r # Boot
  BY TlsAssumption DEF Actors
<1>2. op \in Ops /\ op = s[1] /\ req[r] \in Runs /\ s # <<>> /\ s \in Seq(Ops) /\ Tail(s) \in Seq(Ops)
  BY <1>1, HeadOp DEF Works
<1>3. /\ op.file \in Files /\ op.val \in Vals /\ req[r].got \in Vals /\ NoFile \in Vals
      /\ k \in {"upload", "csr", "discard", "regen", "reset"}
  BY <1>1, <1>2, ValsFacts DEF Ops, Runs, Kinds, Handlers
<1>4. Shaped(k, s) /\ live # NoFile
  BY <1>1, <1>2 DEF Handlers
<1>5. Phase(req[r], disk, live)
  BY <1>2, <1>4 DEF RestInv, InFlight
<1>6. OpFits(k, op)
  BY <1>2, <1>4, NextOp
<1>7. HasSwap(s) <=> op.do = "swap" \/ HasSwap(Tail(s))
  BY <1>2, SwapTail
\* It ends, or goes on with the rest of its plan.
<1>8. ASSUME live' # NoFile, NEW got \in Vals, Done(r, got),
             Tail(s) = <<>> => Rest(disk', live'),
             Tail(s) # <<>> => \A run : run.kind = k /\ run.todo = Tail(s) /\ run.got = got /\ run.over = req[r].over
                                            => Phase(run, disk', live')
      PROVE  RestInv'
  <2>1. /\ req'[r].todo = Tail(s) /\ \A q \in Actors : q # r => req'[q] = req[q]
        /\ req'[r].todo # <<>> => req'[r].kind = k /\ req'[r].got = got /\ req'[r].over = req[r].over
    BY <1>1, <1>2, <1>8, DoneTo
  <2> QED
    BY <1>2, <1>8, <2>1, RestMoves
<1>9. CASE FileOp(r)
  <2>1. /\ disk' = [disk EXCEPT ![op.file] = op.val] /\ live' = live /\ Done(r, req[r].got)
        /\ op.do \in {"write", "create", "remove"}
    BY <1>9 DEF FileOp, Same
  <2>2. \A f \in Files : disk'[f] = IF f = op.file THEN op.val ELSE disk[f]
    BY <2>1 DEF TlsTypes
  <2>3. op.do \in Touches /\ op.do \notin {"readcert", "readkey", "swap"}
    BY <2>1 DEF Touches
  <2> DEFINE e == disk'
  <2>4. ASSUME NEW f \in {"cert", "key", "upcert", "upkey"}, op.file # f PROVE e[f] = disk[f]
    BY <2>2, <2>4 DEF Files
  <2> HIDE DEF e
  \* No reading follows a change of the files.
  <2>5. Tail(s) # <<>> => Tail(s)[1].do \notin {"readkey", "swap"}
    BY <1>2, <1>4, <2>3, NextOp
  <2>6. CASE k \in {"csr", "discard"}
    <3>1. op.file \in {"pkey", "pmeta"}
      BY <1>6, <2>6 DEF OpFits
    <3>2. Rest(e, live)
      <4>1. Rest(disk, live)
        BY <1>5, <2>6 DEF Phase
      <4> QED
        BY <2>4, <3>1, <4>1, SameRest
    <3>3. ASSUME NEW run, run.kind = k, run.todo = Tail(s), Tail(s) # <<>> PROVE Phase(run, e, live)
      BY <2>5, <2>6, <3>2, <3>3 DEF Phase
    <3> QED
      BY <1>3, <1>4, <1>8, <2>1, <3>2, <3>3 DEF e
  <2>7. CASE k = "reset"
    <3>1. op.do = "remove"
      BY <1>6, <2>1, <2>7 DEF OpFits, FileWrites
    <3>2. e["upcert"] = NoFile
      <4>1. CASE op.file = "upcert"
        BY <1>6, <2>2, <3>1, <4>1 DEF OpFits, Files, e
      <4>2. CASE op.file # "upcert"
        <5>1. ~Mark(op)
          BY <3>1, <4>2 DEF Mark
        <5>2. disk["upcert"] = NoFile
          BY <1>2, <1>5, <2>7, <5>1 DEF Phase
        <5> QED
          BY <2>4, <4>2, <5>2
      <4> QED
        BY <4>1, <4>2
    <3>3. Tail(s) # <<>> /\ ~Mark(Tail(s)[1])
      BY <1>2, <1>4, <2>3, <2>7, NextOp
    <3>4. ASSUME NEW run, run.kind = k, run.todo = Tail(s) PROVE Phase(run, e, live)
      BY <2>5, <2>7, <3>2, <3>3, <3>4 DEF Phase
    <3> QED
      BY <1>3, <1>4, <1>8, <2>1, <3>3, <3>4 DEF e
  <2>8. CASE k = "upload" /\ HasSwap(s)
    <3>1. op.file \notin {"cert", "key"}
      BY <1>6, <2>3, <2>8 DEF OpFits, Managed
    <3>2. HasSwap(Tail(s)) /\ Tail(s) # <<>>
      <4>1. HasSwap(Tail(s))
        BY <1>7, <2>3, <2>8
      <4>2. ~HasSwap(<<>>)
        BY DEF HasSwap
      <4> QED
        BY <4>1, <4>2
    <3>3. ~req[r].over => ServesManaged(e, live)
      <4>1. ~req[r].over => ServesManaged(disk, live)
        BY <1>5, <2>8 DEF Phase
      <4>2. e["cert"] = disk["cert"] /\ e["key"] = disk["key"]
        BY <2>4, <3>1
      <4> QED
        BY <4>1, <4>2 DEF ServesManaged, Loads
    <3>4. ASSUME NEW run, run.kind = k, run.todo = Tail(s), run.over = req[r].over PROVE Phase(run, e, live)
      BY <2>5, <2>8, <3>2, <3>3, <3>4 DEF Phase
    <3> QED
      BY <1>3, <1>4, <1>8, <2>1, <3>2, <3>4 DEF e
  <2>9. CASE k = "upload" /\ ~HasSwap(s)
    <3>1. op.do = "remove" /\ ~HasSwap(Tail(s)) /\ op.val = NoFile
      BY <1>2, <1>4, <1>6, <1>7, <2>9, NextOp DEF OpFits
    <3>2. op.file \notin {"cert", "key"}
      BY <1>6, <2>3, <2>9 DEF OpFits, Managed
    <3>3. e["cert"] = disk["cert"] /\ e["key"] = disk["key"]
      BY <2>4, <3>2
    <3>4. Rest(e, live) /\ (op.file = "upcert" => e["upcert"] = NoFile)
      <4>1. CASE op.file = "upcert"
        <5>1. ServesManaged(disk, live)
          BY <1>2, <1>5, <2>9, <4>1 DEF Phase
        <5>2. e["upcert"] = NoFile
          BY <2>2, <3>1, <4>1 DEF Files, e
        <5> QED
          BY <3>3, <5>1, <5>2 DEF Rest, Paired, ServesManaged, Loads
      <4>2. CASE op.file # "upcert"
        <5>1. Rest(disk, live) /\ (op.file = "upkey" => disk["upcert"] = NoFile) /\ e["upcert"] = disk["upcert"]
          BY <1>2, <1>5, <2>4, <2>9, <4>2 DEF Phase
        <5>2. op.file # "upkey" => e["upkey"] = disk["upkey"]
          BY <2>4
        <5> QED
          BY <3>3, <4>2, <5>1, <5>2 DEF Rest, Paired, ServesManaged, Loads
      <4> QED
        BY <4>1, <4>2
    <3>5. Tail(s) # <<>> => /\ Tail(s)[1].file # "upcert"
                            /\ Tail(s)[1].file = "upkey" => op.file = "upcert"
      BY <1>2, <1>4, <2>9, <3>1, NextOp
    <3>6. ASSUME NEW run, run.kind = k, run.todo = Tail(s), Tail(s) # <<>> PROVE Phase(run, e, live)
      BY <2>5, <2>9, <3>1, <3>4, <3>5, <3>6 DEF Phase
    <3> QED
      BY <1>3, <1>4, <1>8, <2>1, <3>4, <3>6 DEF e
  <2>10. CASE k = "regen"
    <3>1. op.file \notin {"upcert", "upkey"}
      BY <1>6, <2>10 DEF OpFits, Uploaded
    <3>2. e["upcert"] = disk["upcert"] /\ e["upkey"] = disk["upkey"]
      BY <2>4, <3>1
    <3>3. Paired(e) /\ (e["upcert"] # NoFile => live = e["upcert"])
      BY <1>5, <2>10, <3>2 DEF Phase, Paired, Loads
    <3>4. Tail(s) # <<>> /\ Tail(s)[1].do \notin {"readcert", "readkey", "swap"}
      BY <1>2, <1>4, <2>3, <2>5, <2>10, NextOp
    <3>5. ASSUME NEW run, run.kind = k, run.todo = Tail(s) PROVE Phase(run, e, live)
      BY <2>10, <3>3, <3>4, <3>5 DEF Phase
    <3> QED
      BY <1>3, <1>4, <1>8, <2>1, <3>4, <3>5 DEF e
  <2> QED
    BY <1>3, <2>6, <2>7, <2>8, <2>9, <2>10
\* An upload that replaced nothing is rolled back; a CSR leaves the pairs alone.
<1>10. ASSUME Fails(r), live' = live, op.do # "remove" \/ k # "upload",
              \A f \in Files : f # op.file \/ op.do \notin FileWrites => disk'[f] = disk[f]
       PROVE  RestInv'
  <2>1. /\ \A q \in Actors : q # r => req'[q] = req[q]
        /\ k # "upload" => req'[r].todo = <<>>
        /\ k = "upload" => req'[r].todo = remove_uploaded_pair /\ req'[r].kind = "upload"
        /\ spoiled' = (spoiled \/ k \in {"regen", "reset"} \/ (k = "upload" /\ req[r].over))
    BY <1>1, <1>2, <1>10, FailsTo
  <2>2. k \in {"csr", "discard"} \/ (k = "upload" /\ ~req[r].over)
    BY <1>3, <2>1 DEF Undisturbed
  <2> DEFINE e == disk'
  <2>3. ASSUME NEW f \in {"cert", "key", "upcert", "upkey"}, op.file # f \/ op.do \notin FileWrites PROVE e[f] = disk[f]
    BY <1>10, <2>3 DEF Files
  <2> HIDE DEF e
  <2>4. CASE k = "upload"
    <3>1. HasSwap(s)
      BY <1>2, <1>4, <1>10, <2>4, NextOp
    <3>2. op.file \notin {"cert", "key"} \/ op.do \notin FileWrites
      BY <1>6, <2>4 DEF OpFits, Managed, Touches, FileWrites
    <3>3. ServesManaged(disk, live)
      BY <1>5, <2>2, <2>4, <3>1 DEF Phase
    <3>4. e["cert"] = disk["cert"] /\ e["key"] = disk["key"]
      BY <2>3, <3>2
    <3>5. ServesManaged(e, live)
      BY <3>3, <3>4 DEF ServesManaged, Loads
    <3> DEFINE p == remove_uploaded_pair
    <3>6. /\ Len(p) = 3 /\ p[1].file = "upcert" /\ p[1].do = "remove"
          /\ p[2].do = "remove" /\ p[3].do = "remove"
      BY DEF remove_uploaded_pair, Remove, Op
    <3> HIDE DEF p
    <3>7. ~HasSwap(p) /\ p # <<>>
      BY <3>6 DEF HasSwap
    <3>8. req'[r].todo = p
      BY <2>1, <2>4 DEF p
    <3>9. Phase(req'[r], e, live)
      BY <2>1, <2>4, <3>5, <3>6, <3>7, <3>8 DEF Phase
    <3> QED
      BY <1>2, <1>4, <1>10, <2>1, <3>7, <3>8, <3>9, RestMoves DEF e
  <2>5. CASE k \in {"csr", "discard"}
    <3>1. op.file \in {"pkey", "pmeta"}
      BY <1>6, <2>5 DEF OpFits
    <3>2. Rest(disk, live)
      BY <1>5, <2>5 DEF Phase
    <3>3. Rest(e, live)
      BY <2>3, <3>1, <3>2, SameRest
    <3> QED
      BY <1>2, <1>4, <1>10, <2>1, <2>5, <3>3, RestMoves DEF e
  <2> QED
    BY <2>2, <2>4, <2>5
<1>11. CASE FileOpFails(r)
  <2>1. live' = live /\ Fails(r) /\ (disk' = disk \/ (disk' = [disk EXCEPT ![op.file] = Torn] /\ op.do \in FileWrites))
    BY <1>11 DEF FileOpFails, Same, FileWrites
  <2>2. op.do # "remove" \/ k # "upload"
    BY <1>11 DEF FileOpFails
  <2>3. \A f \in Files : f # op.file \/ op.do \notin FileWrites => disk'[f] = disk[f]
    BY <2>1 DEF TlsTypes
  <2> QED
    BY <1>10, <2>1, <2>2, <2>3
<1>12. CASE Decide(r)
  <2> DEFINE ops == IF Missing("upcert") \/ Missing("upkey") THEN Reload("cert", "key") ELSE <<>>
  <2>1. Goes(r, ops, NoFile) /\ disk' = disk /\ live' = live /\ op.do = "decide"
    BY <1>12 DEF Decide, Same
  <2>2. k = "regen"
    BY <1>6, <2>1 DEF OpFits
  <2>3. Paired(disk) /\ (disk["upcert"] # NoFile => live = disk["upcert"])
    BY <1>5, <2>2 DEF Phase
  <2>4. disk["upcert"] # NoFile => disk["upkey"] # NoFile
    BY <2>3, ValsFacts DEF Paired, Loads
  <2>5. ops \in Seq(Ops)
    BY PlansAreOps
  <2>6. IF disk["upcert"] = NoFile THEN ops = Reload("cert", "key") ELSE ops = <<>>
    BY <2>4 DEF Missing
  <2>7. Reload("cert", "key") # <<>> /\ Reload("cert", "key")[1].do = "readcert"
    BY DEF Reload, Op
  <2> HIDE DEF ops
  <2>8. /\ req'[r].todo = ops /\ \A q \in Actors : q # r => req'[q] = req[q]
        /\ ops # <<>> => req'[r].kind = k
    BY <1>1, <1>3, <2>1, <2>5, GoesTo
  <2>9. CASE disk["upcert"] = NoFile
    <3>1. Phase(req'[r], disk, live)
      BY <2>2, <2>3, <2>6, <2>7, <2>8, <2>9 DEF Phase
    <3> QED
      BY <1>2, <1>4, <2>1, <2>6, <2>7, <2>8, <2>9, <3>1, RestMoves
  <2>10. CASE disk["upcert"] # NoFile
    <3>1. Rest(disk, live)
      BY <2>3, <2>10 DEF Rest
    <3> QED
      BY <1>2, <1>4, <2>1, <2>6, <2>8, <2>10, <3>1, RestMoves
  <2> QED
    BY <2>9, <2>10
<1>13. CASE ReadPem(r)
  <2>1. disk' = disk /\ live' = live /\ op.do \in {"readcert", "readkey"}
    BY <1>13 DEF ReadPem, Same
  <2>2. /\ k \in {"upload", "reset", "regen"} /\ (op.do = "readcert" => op.file = CertOf(k))
        /\ op.do = "readkey" => op.file = KeyOf(k)
    BY <1>6, <2>1 DEF OpFits
  <2>3. CASE Fails(r)
    BY <1>10, <2>1, <2>3 DEF FileWrites
  \* The phase but for what has been read.
  <2>4. ASSUME NEW run, run.kind = k, run.todo = Tail(s), run.over = req[r].over, run.got = disk[CertOf(k)],
               Tail(s)[1].do = "swap" => Loads(disk[CertOf(k)], disk[KeyOf(k)])
        PROVE  Phase(run, disk, live)
    <3>1. Tail(s) # <<>>
      BY <1>2, <1>4, <2>1, NextOp
    <3>2. k = "reset" => ~Mark(op) /\ ~Mark(Tail(s)[1])
      BY <1>2, <1>4, <2>1, <2>2, <3>1, NextOp DEF Mark, CertOf
    <3>3. k = "reset" => disk["upcert"] = NoFile
      BY <1>2, <1>5, <3>2 DEF Phase
    <3>4. k = "upload" => HasSwap(Tail(s)) /\ HasSwap(s)
      BY <1>2, <1>4, <1>7, <2>1, NextOp
    <3>5. k = "upload" /\ ~req[r].over => ServesManaged(disk, live)
      BY <1>5, <3>4 DEF Phase
    <3>6. k = "regen" => Paired(disk) /\ disk["upcert"] = NoFile
      BY <1>2, <1>5, <2>1 DEF Phase
    <3> QED
      BY <2>2, <2>4, <3>2, <3>3, <3>4, <3>5, <3>6 DEF Phase
  <2>5. Tail(s) # <<>>
    BY <1>2, <1>4, <2>1, NextOp
  <2>6. CASE op.do = "readcert" /\ Done(r, disk[op.file])
    <3>1. disk[op.file] \in Vals /\ Tail(s)[1].do # "swap"
      BY <1>2, <1>3, <1>4, <2>5, <2>6, NextOp DEF TlsTypes
    <3>2. \A run : run.kind = k /\ run.todo = Tail(s) /\ run.got = disk[op.file] /\ run.over = req[r].over
                      => Phase(run, disk', live')
      BY <2>1, <2>2, <2>4, <2>6, <3>1
    <3> QED
      BY <1>4, <1>8, <2>1, <2>5, <2>6, <3>1, <3>2
  <2>7. CASE op.do = "readkey" /\ Loads(req[r].got, disk[op.file]) /\ Done(r, req[r].got)
    <3>1. req[r].got = disk[CertOf(k)]
      BY <1>2, <1>5, <2>7 DEF Phase
    <3>2. Loads(disk[CertOf(k)], disk[KeyOf(k)])
      BY <2>2, <2>7, <3>1
    <3>3. \A run : run.kind = k /\ run.todo = Tail(s) /\ run.got = req[r].got /\ run.over = req[r].over
                      => Phase(run, disk', live')
      BY <2>1, <2>4, <3>1, <3>2
    <3> QED
      BY <1>3, <1>4, <1>8, <2>1, <2>5, <2>7, <3>3
  <2> QED
    BY <1>13, <2>1, <2>3, <2>6, <2>7 DEF ReadPem
<1>14. CASE Swap(r)
  <2>1. op.do = "swap" /\ live' = req[r].got /\ Done(r, NoFile) /\ disk' = disk
    BY <1>14 DEF Swap
  <2>2. req[r].got = disk[CertOf(k)] /\ Loads(disk[CertOf(k)], disk[KeyOf(k)])
    BY <1>2, <1>5, <2>1 DEF Phase
  <2>3. live' # NoFile
    BY <2>1, <2>2, ValsFacts DEF Loads
  <2>4. k \in {"upload", "reset", "regen"}
    BY <1>6, <2>1 DEF OpFits
  <2>5. Rest(disk, live')
    <3>1. CASE k = "upload"
      BY <2>1, <2>2, <2>3, <3>1 DEF CertOf, KeyOf, Rest, Paired
    <3>2. CASE k # "upload"
      <4>1. disk["upcert"] = NoFile
        <5>1. ~Mark(op)
          BY <2>1 DEF Mark
        <5> QED
          BY <1>2, <1>5, <2>1, <2>4, <3>2, <5>1 DEF Phase
      <4> QED
        BY <2>1, <2>2, <3>2, <4>1 DEF CertOf, KeyOf, Rest, Paired, ServesManaged
    <3> QED
      BY <3>1, <3>2
  <2>6. Tail(s) # <<>> => /\ k = "upload" /\ ~HasSwap(Tail(s)) /\ Tail(s)[1].do = "remove"
                          /\ Tail(s)[1].file \notin {"upcert", "upkey"}
    BY <1>2, <1>4, <2>1, NextOp
  <2>7. ASSUME NEW run, run.kind = k, run.todo = Tail(s), Tail(s) # <<>> PROVE Phase(run, disk, live')
    BY <2>5, <2>6, <2>7 DEF Phase
  <2> QED
    BY <1>3, <1>8, <2>1, <2>3, <2>5, <2>7
<1>15. CASE Disconnect(r)
  BY <1>15 DEF Disconnect, Undisturbed
<1> QED
  BY <1>9, <1>11, <1>12, <1>13, <1>14, <1>15 DEF Works

LEMMA NextRest == TlsTypes /\ Handlers /\ RestInv /\ [TlsNext]_tvars => RestInv'
<1> SUFFICES ASSUME TlsTypes, Handlers, RestInv, TlsNext, Undisturbed, Undisturbed' PROVE RestInv'
  <2>1. CASE UNCHANGED tvars
    BY <2>1 DEF tvars, RestInv, Undisturbed, InFlight
  <2>2. ~Undisturbed' => RestInv'
    BY DEF RestInv
  <2> QED
    BY <2>1, <2>2, StaysDisturbed
<1>1. Boot \in Actors /\ \A q \in Requests : q \in Actors /\ q # Boot
  BY TlsAssumption DEF Actors
<1>2. CASE ensure_managed_pair
  <2>1. (\A q \in Actors : q # Boot => req'[q] = req[q]) /\ disk' = disk /\ live' = live
    BY <1>2, BootTo
  <2>2. \A q \in Requests : req'[q] = req[q]
    BY <1>1, <2>1
  <2>3. InFlight' = InFlight
    BY <2>2 DEF InFlight
  <2> QED
    BY <2>1, <2>2, <2>3 DEF RestInv, InFlight
<1>3. CASE load_or_create_tls_config
  <2>1. /\ req' = [req EXCEPT ![Boot] = Idle] /\ disk' = disk /\ req[Boot].kind = "boot"
        /\ live' = load_tls_config(disk)
    BY <1>3 DEF load_or_create_tls_config
  <2>2. live = NoFile /\ mount = NoFile /\ Paired(disk)
    BY <2>1 DEF Handlers, RestInv, Undisturbed
  <2>3. \A q \in Requests : req'[q].todo = <<>>
    BY <1>1, <2>1, <2>2 DEF Handlers, TlsTypes
  <2>4. live' # NoFile => Rest(disk, live')
    BY <2>1, <2>2, ValsFacts DEF load_tls_config, Rest, Paired, ServesManaged, Loads
  <2>5. InFlight' = {}
    BY <2>3 DEF InFlight
  <2> QED
    BY <2>1, <2>2, <2>3, <2>4, <2>5 DEF RestInv
<1>4. CASE Crash
  <2>1. /\ \A r \in Actors : req'[r].todo = <<>>
        /\ \A f \in Files : \/ disk'[f] = disk[f]
                            \/ /\ disk'[f] = Torn
                               /\ \E r \in Actors : /\ req[r].todo # <<>> /\ Head1(r).file = f
                                                    /\ Head1(r).do \in {"write", "create"}
        /\ live' = NoFile /\ spoiled' = (spoiled \/ \E r \in InFlight : req[r].kind = "upload")
    BY <1>4, CrashTo
  <2>2. \A r \in InFlight : req[r].kind # "upload"
    BY <2>1 DEF Undisturbed
  <2>3. ASSUME NEW f \in Uploaded PROVE disk'[f] = disk[f]
    <3>1. ASSUME NEW r \in Actors, req[r].todo # <<>>, Head1(r).file = f, Head1(r).do \in {"write", "create"} PROVE FALSE
      <4>1. OpFits(req[r].kind, Head1(r))
        BY <3>1, HeadOp DEF Handlers, Shaped
      <4>2. req[r].kind = "upload"
        BY <3>1, <4>1 DEF OpFits, FileWrites
      <4>3. r \in InFlight
        BY <3>1, <4>2 DEF Handlers, InFlight, Actors
      <4> QED
        BY <2>2, <4>2, <4>3
    <3>2. f \in Files
      BY DEF Uploaded, Files
    <3> QED
      BY <2>1, <3>1, <3>2
  <2>4. Paired(disk)
    <3>1. CASE live = NoFile
      BY <3>1 DEF RestInv
    <3>2. CASE live # NoFile /\ InFlight = {}
      BY <3>2 DEF RestInv, Rest
    <3>3. ASSUME live # NoFile, NEW r \in InFlight PROVE Paired(disk)
      <4>1. Phase(req[r], disk, live)
        BY <3>3 DEF RestInv
      <4>2. r \in Requests /\ req[r].todo # <<>> /\ req[r] \in Runs
        BY <1>1 DEF InFlight, TlsTypes
      <4>3. req[r].kind \in {"csr", "discard", "regen", "reset"}
        BY <1>1, <2>2, <3>3, <4>2 DEF Handlers, Runs, Kinds
      <4> QED
        BY <4>1, <4>3 DEF Phase, Rest, Paired
    <3> QED
      BY <3>1, <3>2, <3>3
  <2>5. Paired(disk')
    BY <2>3, <2>4 DEF Paired, Uploaded, Loads
  <2> QED
    BY <1>1, <2>1, <2>5 DEF RestInv
<1>5. ASSUME NEW r \in Requests, Starts(r) PROVE RestInv'
  <2>1. PICK k \in Kinds, ops \in Seq(Ops) : StartsWith(r, k, ops)
    BY <1>5, RequestsStart
  <2>2. /\ req' \in [Actors -> Runs] /\ req'[r].todo = ops
        /\ \A q \in Actors : q # r => req'[q] = req[q]
        /\ ops # <<>> => req'[r].kind = k /\ req'[r].over = ~Missing("upcert")
        /\ live # NoFile /\ disk' = disk /\ live' = live
        /\ clash' = clash \cup UNION {{"any"} \cup ({k} \cap {req[q].kind}) : q \in InFlight}
    BY <2>1, BeginsTo DEF StartsWith
  <2>3. InFlight = {}
    <3> SUFFICES ASSUME NEW q \in InFlight PROVE FALSE
      OBVIOUS
    <3>1. "any" \in {"any"} \cup ({k} \cap {req[q].kind})
      OBVIOUS
    <3>2. "any" \in clash'
      BY <2>2, <3>1
    <3> QED
      BY <3>2 DEF Undisturbed
  <2>4. Rest(disk, live)
    BY <2>2, <2>3 DEF RestInv
  <2>5. \A q \in Requests : q # r => req'[q].todo = <<>>
    BY <1>1, <2>2, <2>3 DEF InFlight
  <2>6. ASSUME ops # <<>> PROVE Phase(req'[r], disk, live)
    <3>1. CASE k = "upload" /\ ops[1].do = "write" /\ HasSwap(ops)
      <4>1. ~req'[r].over => ServesManaged(disk, live)
        BY <2>2, <2>4, <2>6 DEF Missing, Rest
      <4> QED
        BY <2>2, <2>6, <3>1, <4>1 DEF Phase
    <3>2. CASE k \in {"csr", "discard"} /\ ops[1].do = "remove"
      BY <2>2, <2>4, <2>6, <3>2 DEF Phase
    <3>3. CASE k = "regen" /\ ops[1].do = "remove"
      BY <2>2, <2>4, <2>6, <3>3 DEF Phase, Rest
    <3>4. CASE k = "reset" /\ ops[1].do = "remove" /\ ops[1].file = "upcert"
      <4>1. Mark(ops[1])
        BY <3>4 DEF Mark
      <4> QED
        BY <2>2, <2>4, <2>6, <3>4, <4>1 DEF Phase
    <3> QED
      BY <2>1, <2>6, <3>1, <3>2, <3>3, <3>4 DEF StartsWith, HasSwap
  <2>7. InFlight' = IF ops = <<>> THEN {} ELSE {r}
    BY <2>2, <2>5 DEF InFlight
  <2>8. \A p, q \in Requests : req'[p].todo # <<>> /\ req'[q].todo # <<>> => p = q
    BY <2>5
  <2> QED
    BY <2>2, <2>4, <2>6, <2>7, <2>8 DEF RestInv
<1>6. ASSUME NEW r \in Requests, Works(r) PROVE RestInv'
  BY <1>6, WorksRest
\* The boot works on the managed files while the listener is down.
<1>7. CASE Works(Boot)
  <2> DEFINE op == Head1(Boot)
  <2>1. req[Boot].todo # <<>> /\ op \in Ops /\ op = req[Boot].todo[1] /\ req[Boot].kind = "boot" /\ live = NoFile
    BY <1>1, <1>7, HeadOp DEF Works, Handlers
  <2>2. OpFits("boot", op)
    BY <1>1, <2>1, HeadOp DEF Handlers, Shaped
  <2>3. op.do \in Touches /\ op.file \in Managed
    BY <2>2 DEF OpFits
  <2>4. /\ disk' = disk \/ \E v : disk' = [disk EXCEPT ![op.file] = v]
        /\ live' = live /\ (Fails(Boot) \/ Done(Boot, req[Boot].got))
    BY <1>7, <2>3 DEF Works, FileOp, FileOpFails, Decide, ReadPem, Swap, Disconnect, Same, Touches
  <2>5. \A q \in Requests : req'[q] = req[q]
    <3>1. req[Boot].got \in Vals
      BY <1>1 DEF TlsTypes, Runs
    <3>2. CASE Fails(Boot)
      BY <1>1, <2>1, <3>2, FailsTo
    <3>3. CASE Done(Boot, req[Boot].got)
      BY <1>1, <2>1, <3>1, <3>3, DoneTo
    <3> QED
      BY <2>4, <3>2, <3>3
  <2>6. disk'["upcert"] = disk["upcert"] /\ disk'["upkey"] = disk["upkey"]
    BY <2>3, <2>4 DEF TlsTypes, Managed, Files
  <2>7. Paired(disk')
    BY <2>1, <2>6 DEF RestInv, Paired, Loads
  <2> QED
    BY <2>1, <2>4, <2>5, <2>7 DEF RestInv
<1> QED
  BY <1>2, <1>3, <1>4, <1>5, <1>6, <1>7, TlsCases DEF Actors

\* A restart changes nothing: between requests that ran one after the other and
\* to their end, the listener serves what a boot would load and what the card
\* shows, whatever was uploaded, regenerated, reset or crashed before.
THEOREM RestartChangesNothingHolds == WebSpec => []RestartChangesNothing
<1>1. Begins => SupplyInv /\ RestInv
  <2> SUFFICES ASSUME Begins PROVE SupplyInv /\ RestInv
    OBVIOUS
  <2>1. /\ disk = [f \in Files |-> NoFile] /\ req \in [Actors -> {Idle, [Idle EXCEPT !.kind = "done"]}]
        /\ live = NoFile
    BY DEF Begins, TlsInit, Actors
  <2>2. Boot \in Actors /\ \A r \in Requests : r \in Actors
    BY DEF Actors
  <2>3. (\A r \in Requests : req[r].todo = <<>>) /\ req[Boot].kind # "boot"
    BY <2>1, <2>2, IdleRun
  <2>4. Paired(disk)
    BY <2>1 DEF Paired, Files
  <2> QED
    BY <2>1, <2>3, <2>4 DEF SupplyInv, RestInv
<1>2. TlsTypes /\ Handlers /\ SupplyInv /\ RestInv => RestartChangesNothing
  <2> SUFFICES ASSUME Handlers, SupplyInv, RestInv, Quiet, Undisturbed
               PROVE  ~ensure_regenerates(disk) /\ live = load_tls_config(disk) /\ live = active_cert
    BY DEF RestartChangesNothing, Undisturbed
  <2>1. live # NoFile /\ InFlight = {} /\ mount = NoFile
    BY DEF Quiet, Undisturbed
  <2>2. Rest(disk, live) /\ \A f \in Managed : Supplied(f)
    BY <2>1 DEF RestInv, SupplyInv
  <2>3. \A r \in Actors : req[r].todo = <<>>
    BY <2>1 DEF InFlight, Actors, Handlers
  <2>4. \A f \in Managed : Present(f, disk[f])
    BY <2>2, <2>3, LaterNone DEF Supplied
  <2>5. ~ensure_regenerates(disk)
    BY <2>4 DEF ensure_regenerates, Present, Managed
  <2> QED
    BY <2>1, <2>2, <2>5, ValsFacts DEF Rest, Paired, ServesManaged, Loads, load_tls_config, active_cert, Missing
<1> QED
  BY <1>1, <1>2, TlsStarts, TlsHandlers, TlsSteps, NextSupply, NextRest, PTL DEF WebSpec

-----------------------------------------------------------------------------
(* ChatPage: the rows a stream brings *)

\* Row m is no loss for a page whose cursor is ls: it is below the cursor,
\* nobody is told of it, or a newer turn has begun.
Fine(m, ls, q, t) == m <= ls \/ m \in q \/ \E k \in m .. Len(t) : t[k] = "user"

\* Row m is no loss for the stream x.
Brings(m, x, ls, q, t) == Fine(m, ls, q, t) \/ m \in x.replay

Telling(r) == r.at \in {"agent", "broadcast"}

Receivers == [on : BOOLEAN, buffer : Seq(Nat), lagged : BOOLEAN]
Stages == {"idle", "asked", "spawn", "subscribe", "snapshot", "flow", "end", "broken", "refused"}
PageRequests ==
    [kind : {"none", "submit", "tail", "final", "spent"}, at : Stages, cursor : Nat, replay : SUBSET Nat,
     rx : Receivers, saw : BOOLEAN]

IsRequest(x, t) == x \in PageRequests /\ x.replay \subseteq 1 .. Len(t) /\ x.rx.buffer \in Seq(1 .. Len(t))

\* Where a stream starts, and that its receiver is closed with its channel.
Opened(x, ls, t, c) ==
    /\ x.kind # "submit" => x.cursor <= ls
    /\ x.kind = "submit" /\ x.at \in {"spawn", "subscribe", "snapshot"} =>
         x.cursor \in 1 .. Len(t) /\ t[x.cursor] = "user"
    /\ x.at \in {"idle", "asked"} => x.rx.on = FALSE
    /\ x.at \in {"snapshot", "flow"} /\ c = FALSE => x.rx.on = FALSE

\* A row is replayed, or waits in the buffer, behind all those before it that
\* the page lacks; while the run may still broadcast on its receiver, what is
\* not there is the row about to be broadcast.
InOrder(x, ls, q, t) ==
    /\ \A n \in x.replay : \A m \in 1 .. n - 1 : Brings(m, x, ls, q, t)
    /\ x.rx.lagged = FALSE => \A i \in 1 .. Len(x.rx.buffer) : \A m \in 1 .. x.rx.buffer[i] - 1 :
         Brings(m, x, ls, q, t) \/ \E j \in 1 .. i - 1 : x.rx.buffer[j] = m

UpToDate(x, ls, q, t, r) ==
    x.rx.lagged = FALSE /\ x.rx.on # FALSE /\ Telling(r) => \A m \in 1 .. Len(t) :
        \/ Brings(m, x, ls, q, t)
        \/ \E j \in 1 .. Len(x.rx.buffer) : x.rx.buffer[j] = m
        \/ r.at = "broadcast" /\ m = r.row

StreamOK(x, ls, q, t, r, c) ==
    /\ IsRequest(x, t) /\ Opened(x, ls, t, c)
    /\ x.at = "flow" => InOrder(x, ls, q, t) /\ UpToDate(x, ls, q, t, r)

\* A replay that still is to bring row n.
Promises(x, n) ==
    /\ x.kind \in {"final", "spent"} /\ x.cursor < n
    /\ x.at \in {"asked", "subscribe", "snapshot", "broken", "refused"} \/ (x.at = "flow" /\ n \in x.replay)

\* The rows of the newest turn below the cursor.
Passed(n, ls, t) == n \in 1 .. ls /\ n \in 1 .. Len(t) /\ t[n] # "user" /\ \A k \in 1 .. Len(t) : t[k] = "user" => k < n

Shown(tb, sk, q, t, st) ==
    tb.at = "open" => \A n \in 1 .. tb.lastSeq : Passed(n, tb.lastSeq, t) =>
        n \in tb.shown \cup sk \cup q \/ \E s \in Streams : Promises(st[s], n)

PageTurns == [status : Statuses, attempts : Nat, park : Statuses]
PageRuns ==
    [at : {"off", "agent", "broadcast", "finalize", "remove", "guard", "guard row", "claimed"}, row : Nat,
     verdict : Statuses, resumed : BOOLEAN]
PagePolls ==
    [at : {"idle", "asked", "turn", "answer", "broken"}, cursor : Nat, status : Statuses, resumable : BOOLEAN,
     max_seq : Nat]
PageTabs ==
    [at : {"none", "turn", "max_seq", "open"}, lastSeq : Nat, status : Statuses, seen : SUBSET Nat,
     shown : SUBSET Nat, busy : BOOLEAN, reopenAttempts : Nat, reopenTimer : BOOLEAN, polling : BOOLEAN,
     note : BOOLEAN]

IsTab(tb, t) ==
    /\ tb \in PageTabs /\ tb.lastSeq <= Len(t)
    /\ tb.seen \subseteq 1 .. tb.lastSeq /\ tb.seen \subseteq tb.shown

IsPoll(pl, ls, t) == pl \in PagePolls /\ pl.cursor <= ls /\ pl.max_seq <= Len(t)

IsRun(r, t) == r \in PageRuns /\ (r.at = "broadcast" => r.row \in 1 .. Len(t))

\* Before the page is open it has asked for nothing.
Unopened(tb, pl, st) ==
    tb.at # "open" =>
        /\ tb.seen = {} /\ tb.reopenTimer = FALSE /\ tb.polling = FALSE /\ pl = NoPoll
        /\ \A s \in Streams : st[s] = Unasked

PageInv ==
    /\ transcript \in Seq(Roles) /\ channel \in BOOLEAN /\ turn \in PageTurns
    /\ IsTab(tab, transcript) /\ IsPoll(poll, tab.lastSeq, transcript) /\ IsRun(runner, transcript)
    /\ Unopened(tab, poll, stream)
    /\ stream = [s \in Streams |-> stream[s]]
    /\ \A s \in Streams : StreamOK(stream[s], tab.lastSeq, quiet, transcript, runner, channel)
    /\ Shown(tab, skipped, quiet, transcript, stream)

-----------------------------------------------------------------------------
(* ChatPage: what others do to a stream *)

LEMMA FineGrows ==
    ASSUME NEW t \in Seq(Roles), NEW m \in Nat, NEW ls \in Nat, NEW ls2 \in Nat, ls <= ls2, NEW q, NEW q2, q \subseteq q2,
           NEW t2, t2 = t \/ \E role \in Roles : t2 = Append(t, role), Fine(m, ls, q, t)
    PROVE  Fine(m, ls2, q2, t2)
<1>1. t2 \in Seq(Roles) /\ Len(t2) >= Len(t) /\ \A k \in 1 .. Len(t) : t2[k] = t[k]
  OBVIOUS
<1>2. \A k \in m .. Len(t) : t[k] = "user" => k \in m .. Len(t2)
  BY <1>1
<1>3. ASSUME NEW k \in m .. Len(t), t[k] = "user" PROVE t2[k] = "user" \/ m <= ls2
  <2>1. CASE k = 0
    BY <2>1
  <2>2. CASE k # 0
    BY <1>1, <1>3, <2>2
  <2> QED
    BY <2>1, <2>2
<1> QED
  BY <1>2, <1>3 DEF Fine

LEMMA BringsGrows ==
    ASSUME NEW t \in Seq(Roles), NEW m \in Nat, NEW ls \in Nat, NEW ls2 \in Nat, ls <= ls2, NEW q, NEW q2, q \subseteq q2,
           NEW t2, t2 = t \/ \E role \in Roles : t2 = Append(t, role), NEW x, Brings(m, x, ls, q, t)
    PROVE  Brings(m, x, ls2, q2, t2)
BY FineGrows DEF Brings

LEMMA RequestGrows ==
    ASSUME NEW t \in Seq(Roles), NEW t2, t2 = t \/ \E role \in Roles : t2 = Append(t, role), NEW x, IsRequest(x, t)
    PROVE  IsRequest(x, t2)
<1>1. Len(t) \in Nat /\ Len(t2) \in Nat /\ Len(t2) >= Len(t)
  OBVIOUS
<1>2. 1 .. Len(t) \subseteq 1 .. Len(t2)
  BY <1>1
<1>3. \A b \in Seq(1 .. Len(t)) : b \in Seq(1 .. Len(t2))
  BY <1>2
<1> QED
  BY <1>2, <1>3 DEF IsRequest

LEMMA OpenedGrows ==
    ASSUME NEW t \in Seq(Roles), NEW t2, t2 = t \/ \E role \in Roles : t2 = Append(t, role), NEW x, IsRequest(x, t),
           NEW ls \in Nat, NEW ls2 \in Nat, ls <= ls2, NEW c, Opened(x, ls, t, c)
    PROVE  Opened(x, ls2, t2, c)
<1>1. Len(t) \in Nat /\ Len(t2) \in Nat /\ Len(t2) >= Len(t) /\ \A k \in 1 .. Len(t) : k \in 1 .. Len(t2) /\ t2[k] = t[k]
  OBVIOUS
<1>2. x.cursor \in Nat
  BY DEF IsRequest, PageRequests
<1> QED
  BY <1>1, <1>2 DEF Opened

LEMMA OrderGrows ==
    ASSUME NEW t \in Seq(Roles), NEW t2, t2 = t \/ \E role \in Roles : t2 = Append(t, role), NEW x, IsRequest(x, t),
           NEW ls \in Nat, NEW ls2 \in Nat, ls <= ls2, NEW q, NEW q2, q \subseteq q2, InOrder(x, ls, q, t)
    PROVE  InOrder(x, ls2, q2, t2)
<1>1. \A m \in Nat : Brings(m, x, ls, q, t) => Brings(m, x, ls2, q2, t2)
  BY BringsGrows
<1>2. \A n \in x.replay : \A m \in 1 .. n - 1 : m \in Nat
  OBVIOUS
<1>3. \A i \in 1 .. Len(x.rx.buffer) : \A m \in 1 .. x.rx.buffer[i] - 1 : m \in Nat
  OBVIOUS
<1> QED
  BY <1>1, <1>2, <1>3 DEF InOrder

\* The cursor, the quiet rows and the transcript grow; a row that is told of
\* is about to be broadcast, and a run that told nothing tells nothing.
LEMMA StreamGrows ==
    ASSUME NEW t \in Seq(Roles), NEW t2, t2 = t \/ \E role \in Roles : t2 = Append(t, role),
           NEW ls \in Nat, NEW ls2 \in Nat, ls <= ls2, NEW q, NEW q2, q \subseteq q2, NEW r, NEW r2, NEW x, NEW c,
           StreamOK(x, ls, q, t, r, c), Telling(r2) => Telling(r),
           Telling(r2) /\ r.at = "broadcast" => r2 = r,
           Telling(r2) /\ t2 # t => Len(t2) \in q2 \/ (r2.at = "broadcast" /\ r2.row = Len(t2))
    PROVE  StreamOK(x, ls2, q2, t2, r2, c)
<1>1. IsRequest(x, t2) /\ Opened(x, ls2, t2, c)
  BY RequestGrows, OpenedGrows DEF StreamOK
<1>2. x.at = "flow" => InOrder(x, ls2, q2, t2)
  BY OrderGrows DEF StreamOK
<1>3. ASSUME x.at = "flow", x.rx.lagged = FALSE, x.rx.on # FALSE, Telling(r2), NEW m \in 1 .. Len(t2)
      PROVE  \/ Brings(m, x, ls2, q2, t2)
             \/ \E j \in 1 .. Len(x.rx.buffer) : x.rx.buffer[j] = m
             \/ r2.at = "broadcast" /\ m = r2.row
  <2>1. CASE m \in 1 .. Len(t)
    <3>1. \/ Brings(m, x, ls, q, t)
          \/ \E j \in 1 .. Len(x.rx.buffer) : x.rx.buffer[j] = m
          \/ r.at = "broadcast" /\ m = r.row
      BY <1>3, <2>1 DEF StreamOK, UpToDate
    <3>2. Brings(m, x, ls, q, t) => Brings(m, x, ls2, q2, t2)
      BY BringsGrows
    <3> QED
      BY <1>3, <3>1, <3>2
  <2>2. CASE m \notin 1 .. Len(t)
    <3>1. t2 # t /\ m = Len(t2)
      BY <2>2
    <3> QED
      BY <1>3, <3>1 DEF Brings, Fine
  <2> QED
    BY <2>1, <2>2
<1> QED
  BY <1>1, <1>2, <1>3 DEF StreamOK, UpToDate

\* A new message ends the turn: no row before it is a loss.
LEMMA AllFine ==
    ASSUME NEW t \in Seq(Roles), NEW m \in 1 .. Len(t) + 1, NEW ls, NEW q
    PROVE  Fine(m, ls, q, Append(t, "user"))
<1>1. Len(t) + 1 \in m .. Len(Append(t, "user")) /\ Append(t, "user")[Len(t) + 1] = "user"
  BY DEF Roles
<1> QED
  BY <1>1 DEF Fine

LEMMA UserRow ==
    ASSUME NEW t \in Seq(Roles), NEW ls \in Nat, NEW q, NEW r, NEW x, NEW c, StreamOK(x, ls, q, t, r, c), NEW r2
    PROVE  StreamOK(x, ls, q, Append(t, "user"), r2, c)
<1> DEFINE t2 == Append(t, "user")
<1>0. "user" \in Roles /\ t2 \in Seq(Roles) /\ Len(t2) = Len(t) + 1 /\ Len(t) \in Nat
  BY DEF Roles
<1>01. \E role \in Roles : t2 = Append(t, role)
  BY <1>0
<1>02. IsRequest(x, t) /\ Opened(x, ls, t, c)
  BY DEF StreamOK
<1> HIDE DEF t2
<1>1. IsRequest(x, t2) /\ Opened(x, ls, t2, c)
  <2>1. IsRequest(x, t2)
    BY <1>01, <1>02, RequestGrows
  <2>2. ls <= ls
    OBVIOUS
  <2>3. Opened(x, ls, t2, c)
    BY <1>01, <1>02, <2>2, OpenedGrows
  <2> QED
    BY <2>1, <2>3
<1> USE DEF t2
<1>2. \A m \in 1 .. Len(t2) : Brings(m, x, ls, q, t2)
  BY <1>0, AllFine DEF Brings
<1> HIDE DEF t2
<1>3. \A n \in x.replay : \A m \in 1 .. n - 1 : m \in 1 .. Len(t2)
  BY <1>0, <1>1 DEF IsRequest
<1>4. \A i \in 1 .. Len(x.rx.buffer) : \A m \in 1 .. x.rx.buffer[i] - 1 : m \in 1 .. Len(t2)
  <2> SUFFICES ASSUME NEW i \in 1 .. Len(x.rx.buffer), NEW m \in 1 .. x.rx.buffer[i] - 1 PROVE m \in 1 .. Len(t2)
    OBVIOUS
  <2>1. x.rx.buffer[i] \in 1 .. Len(t2)
    BY <1>1 DEF IsRequest
  <2> QED
    BY <1>0, <2>1
<1> QED
  BY <1>1, <1>2, <1>3, <1>4 DEF StreamOK, InOrder, UpToDate, t2

\* The registry's entry is replaced or removed.
LEMMA Closes ==
    ASSUME NEW t \in Seq(Roles), NEW ls \in Nat, NEW q, NEW r, NEW x, NEW c, StreamOK(x, ls, q, t, r, c), NEW r2, NEW c2
    PROVE  StreamOK([x EXCEPT !.rx.on = FALSE], ls, q, t, r2, c2)
<1> DEFINE y == [x EXCEPT !.rx.on = FALSE]
<1>0. x \in PageRequests /\ x.rx.buffer \in Seq(1 .. Len(t)) /\ x.replay \subseteq 1 .. Len(t)
  BY DEF StreamOK, IsRequest
<1>1. /\ y.kind = x.kind /\ y.at = x.at /\ y.cursor = x.cursor /\ y.replay = x.replay
      /\ y.rx.on = FALSE /\ y.rx.buffer = x.rx.buffer /\ y.rx.lagged = x.rx.lagged
      /\ y \in PageRequests
  BY <1>0 DEF PageRequests, Receivers
<1> HIDE DEF y
<1>2. IsRequest(y, t)
  BY <1>0, <1>1 DEF IsRequest
<1>3. Opened(y, ls, t, c2)
  BY <1>1 DEF StreamOK, Opened
<1>4. y.at = "flow" => InOrder(y, ls, q, t) /\ UpToDate(y, ls, q, t, r2)
  <2>1. UpToDate(y, ls, q, t, r2)
    BY <1>1 DEF UpToDate
  <2>2. Fine(0, ls, q, t) \in BOOLEAN /\ \A m : Brings(m, x, ls, q, t) <=> Brings(m, y, ls, q, t)
    BY <1>1 DEF Brings, Fine
  <2>3. x.at = "flow" => InOrder(y, ls, q, t)
    <3> SUFFICES ASSUME InOrder(x, ls, q, t) PROVE InOrder(y, ls, q, t)
      BY DEF StreamOK
    <3>1. \A n \in y.replay : \A m \in 1 .. n - 1 : Brings(m, y, ls, q, t)
      BY <1>1, <2>2 DEF InOrder
    <3>2. y.rx.lagged = FALSE => \A i \in 1 .. Len(y.rx.buffer) : \A m \in 1 .. y.rx.buffer[i] - 1 :
            Brings(m, y, ls, q, t) \/ \E j \in 1 .. i - 1 : y.rx.buffer[j] = m
      BY <1>1, <2>2 DEF InOrder
    <3> QED
      BY <3>1, <3>2 DEF InOrder
  <2> QED
    BY <1>1, <2>1, <2>3
<1> QED
  BY <1>2, <1>3, <1>4 DEF StreamOK, y

LEMMA Numbers ==
    ASSUME NEW n \in Nat, NEW b \in Seq(1 .. n)
    PROVE  b \in Seq(Nat)
OBVIOUS

LEMMA Shifted ==
    ASSUME NEW S, NEW b \in Seq(S), b # <<>>, NEW e \in S
    PROVE  Append(Tail(b), e) \in Seq(S)
<1> DEFINE c == Tail(b)
<1>1. c \in Seq(S)
  OBVIOUS
<1> HIDE DEF c
<1>2. Append(c, e) \in Seq(S)
  BY <1>1
<1> QED
  BY <1>2 DEF c

\* The row is broadcast.
LEMMA Tells ==
    ASSUME NEW t \in Seq(Roles), NEW ls \in Nat, NEW q, NEW r, NEW x, StreamOK(x, ls, q, t, r, TRUE), IsRun(r, t),
           r.at = "broadcast", NEW r2, r2.at # "broadcast"
    PROVE  StreamOK([x EXCEPT !.rx = Received(@, r.row)], ls, q, t, r2, TRUE)
<1> DEFINE y == [x EXCEPT !.rx = Received(@, r.row)]
           b == x.rx.buffer
           z == Received(x.rx, r.row)
<1>0. r.row \in 1 .. Len(t)
  BY DEF IsRun
<1>1. CASE x.rx.on = FALSE
  <2>1. z = x.rx
    BY <1>1 DEF Received
  <2>2. y = x
    BY <2>1 DEF StreamOK, IsRequest, PageRequests
  <2> QED
    BY <1>1, <2>2 DEF StreamOK, UpToDate
<1>2. CASE x.rx.on # FALSE
  <2>0. x.rx \in Receivers /\ b \in Seq(1 .. Len(t)) /\ x \in PageRequests /\ x.rx.on = TRUE
    BY <1>2 DEF StreamOK, IsRequest, PageRequests, Receivers
  <2>1. /\ z \in Receivers /\ z.on = TRUE /\ z.buffer \in Seq(1 .. Len(t))
        /\ z.lagged = FALSE => x.rx.lagged = FALSE /\ z.buffer = Append(b, r.row)
    <3>0. Len(t) \in Nat /\ 1 .. Len(t) \subseteq Nat /\ Append(b, r.row) \in Seq(1 .. Len(t))
      BY <1>0, <2>0
    <3>1. CASE Len(b) = CHAT_CHANNEL_CAPACITY
      <4>1. z = [x.rx EXCEPT !.buffer = Append(Tail(b), r.row), !.lagged = TRUE]
        BY <2>0, <3>1 DEF Received
      <4>2. b # <<>>
        BY <3>1, ChatPageAssumption
      <4>4. Append(Tail(b), r.row) \in Seq(1 .. Len(t))
        BY <1>0, <2>0, <4>2, Shifted
      <4>5. Append(Tail(b), r.row) \in Seq(Nat)
        BY <3>0, <4>4, Numbers
      <4> QED
        BY <2>0, <4>1, <4>4, <4>5 DEF Receivers
    <3>2. CASE Len(b) # CHAT_CHANNEL_CAPACITY
      <4>1. z = [x.rx EXCEPT !.buffer = Append(b, r.row)]
        BY <2>0, <3>2 DEF Received
      <4>2. Append(b, r.row) \in Seq(Nat)
        BY <3>0, Numbers
      <4> QED
        BY <2>0, <3>0, <4>1, <4>2 DEF Receivers
    <3> QED
      BY <3>1, <3>2
  <2>3. z.on = x.rx.on /\ (z.lagged = FALSE => x.rx.lagged = FALSE /\ z.buffer = Append(b, r.row)) /\ z.lagged \in BOOLEAN
    BY <2>0, <2>1 DEF Receivers
  <2>5. y = [x EXCEPT !.rx = z]
    BY <2>0 DEF PageRequests
  <2> HIDE DEF z, y
  <2>6. /\ y.kind = x.kind /\ y.at = x.at /\ y.cursor = x.cursor /\ y.replay = x.replay /\ y.saw = x.saw
        /\ y.rx = z /\ y \in PageRequests
    BY <2>0, <2>1, <2>5 DEF PageRequests
  <2>7. IsRequest(y, t)
    BY <2>1, <2>6 DEF StreamOK, IsRequest
  <2>8. Opened(y, ls, t, TRUE)
    BY <2>3, <2>6 DEF StreamOK, Opened
  <2>9. ASSUME x.at = "flow" PROVE InOrder(y, ls, q, t) /\ UpToDate(y, ls, q, t, r2)
    <3>1. \A m : Brings(m, x, ls, q, t) <=> Brings(m, y, ls, q, t)
      BY <2>6 DEF Brings
    <3>2. CASE z.lagged = TRUE
      BY <2>6, <2>9, <3>1, <3>2 DEF StreamOK, InOrder, UpToDate
    <3>3. CASE z.lagged = FALSE
      <4>1. x.rx.lagged = FALSE /\ z.buffer = Append(b, r.row)
        BY <2>3, <3>3
      <4>2. /\ Len(b) \in Nat /\ Len(z.buffer) = Len(b) + 1 /\ z.buffer[Len(b) + 1] = r.row
            /\ \A i \in 1 .. Len(b) : z.buffer[i] = b[i]
        BY <1>0, <2>0, <4>1
      <4>3. \A m \in 1 .. Len(t) : Brings(m, x, ls, q, t) \/ (\E j \in 1 .. Len(b) : b[j] = m) \/ m = r.row
        BY <1>2, <2>9, <4>1 DEF StreamOK, UpToDate, Telling
      <4>4. \A i \in 1 .. Len(b) : \A m \in 1 .. b[i] - 1 : Brings(m, x, ls, q, t) \/ \E j \in 1 .. i - 1 : b[j] = m
        BY <2>9, <4>1 DEF StreamOK, InOrder
      <4> HIDE DEF b
      <4>5. ASSUME NEW i \in 1 .. Len(z.buffer), NEW m \in 1 .. z.buffer[i] - 1
            PROVE  Brings(m, y, ls, q, t) \/ \E j \in 1 .. i - 1 : z.buffer[j] = m
        <5>1. CASE i \in 1 .. Len(b)
          <6>1. \A j \in 1 .. i - 1 : j \in 1 .. Len(b)
            BY <4>2, <5>1
          <6> QED
            BY <3>1, <4>2, <4>4, <4>5, <5>1, <6>1
        <5>2. CASE i = Len(b) + 1
          <6>1. m \in 1 .. Len(t) /\ m # r.row
            BY <1>0, <4>2, <5>2
          <6>2. 1 .. i - 1 = 1 .. Len(b)
            BY <4>2, <5>2
          <6> QED
            BY <3>1, <4>2, <4>3, <6>1, <6>2
        <5> QED
          BY <4>2, <5>1, <5>2
      <4>6. \A m \in 1 .. Len(t) : Brings(m, y, ls, q, t) \/ \E j \in 1 .. Len(z.buffer) : z.buffer[j] = m
        <5>1. \A j \in 1 .. Len(b) + 1 : j \in 1 .. Len(z.buffer)
          BY <4>2
        <5>2. Len(b) + 1 \in 1 .. Len(z.buffer) /\ \A j \in 1 .. Len(b) : j \in 1 .. Len(z.buffer)
          BY <4>2
        <5> QED
          BY <3>1, <4>2, <4>3, <5>2
      <4>7. \A n \in y.replay : \A m \in 1 .. n - 1 : Brings(m, y, ls, q, t)
        BY <2>6, <2>9, <3>1 DEF StreamOK, InOrder
      <4>8. InOrder(y, ls, q, t)
        BY <2>6, <4>5, <4>7 DEF InOrder
      <4> QED
        BY <2>6, <4>6, <4>8 DEF UpToDate
    <3> QED
      BY <2>3, <3>2, <3>3
  <2> QED
    BY <2>6, <2>7, <2>8, <2>9 DEF StreamOK, y
<1> QED
  BY <1>1, <1>2

\* A row below the cursor stays where it is shown, or is.
LEMMA ShownStays ==
    ASSUME NEW t \in Seq(Roles), NEW t2, t2 = t \/ \E role \in Roles : t2 = Append(t, role),
           NEW tb, NEW tb2, NEW sk, NEW sk2, NEW q, NEW q2, NEW st, NEW st2, Shown(tb, sk, q, t, st),
           tb.lastSeq \in 0 .. Len(t), tb2.lastSeq = tb.lastSeq, tb2.at = "open" => tb.at = "open",
           tb.shown \subseteq tb2.shown, sk \subseteq sk2, q \subseteq q2,
           \A s \in Streams : \A n \in 1 .. tb.lastSeq : Promises(st[s], n) /\ Passed(n, tb.lastSeq, t) =>
              n \in tb2.shown \cup sk2 \cup q2 \/ \E u \in Streams : Promises(st2[u], n)
    PROVE  Shown(tb2, sk2, q2, t2, st2)
<1>1. t2 \in Seq(Roles) /\ Len(t2) >= Len(t) /\ Len(t) \in Nat /\ \A k \in 1 .. Len(t) : k \in 1 .. Len(t2) /\ t2[k] = t[k]
  OBVIOUS
<1> SUFFICES ASSUME tb2.at = "open", NEW n \in 1 .. tb.lastSeq, Passed(n, tb.lastSeq, t2)
             PROVE  n \in tb2.shown \cup sk2 \cup q2 \/ \E s \in Streams : Promises(st2[s], n)
  BY DEF Shown
<1>2. Passed(n, tb.lastSeq, t)
  <2>1. n \in 1 .. Len(t)
    BY <1>1
  <2>2. t[n] # "user" /\ \A k \in 1 .. Len(t) : t[k] = "user" => k < n
    BY <1>1, <2>1 DEF Passed
  <2> QED
    BY <2>1, <2>2 DEF Passed
<1> QED
  BY <1>2 DEF Shown

LEMMA Unasks ==
    /\ Unasked \in PageRequests /\ [Unasked EXCEPT !.rx.on = FALSE] = Unasked
    /\ \A n : [Unasked EXCEPT !.rx = Received(@, n)] = Unasked
<1>1. Detached \in Receivers /\ Detached.on = FALSE
  BY DEF Detached, Receivers
<1>2. Unasked \in PageRequests /\ Unasked.rx = Detached
  BY <1>1 DEF Unasked, PageRequests, Stages
<1>3. \A x \in Receivers : x.on = FALSE => [x EXCEPT !.on = FALSE] = x
  BY DEF Receivers
<1>4. \A n : Received(Detached, n) = Detached
  BY <1>1 DEF Received
<1>5. \A x \in PageRequests : [x EXCEPT !.rx.on = FALSE] = [x EXCEPT !.rx = [x.rx EXCEPT !.on = FALSE]]
  OBVIOUS
<1>6. \A x \in PageRequests : [x EXCEPT !.rx = x.rx] = x
  BY DEF PageRequests
<1>7. \A n : [Unasked EXCEPT !.rx = Received(@, n)] = [Unasked EXCEPT !.rx = Received(Unasked.rx, n)]
  OBVIOUS
<1> QED
  BY <1>1, <1>2, <1>3, <1>4, <1>5, <1>6, <1>7

-----------------------------------------------------------------------------
(* ChatPage: steps of the server *)

\* A step that leaves the page alone, but for its meta request.
LEMMA ServerMoves ==
    ASSUME PageInv, UNCHANGED <<tab, skipped>>, IsPoll(poll', tab.lastSeq, transcript), poll = NoPoll => poll' = NoPoll,
           quiet \subseteq quiet',
           transcript' = transcript \/ \E role \in Roles : transcript' = Append(transcript, role),
           IsRun(runner', transcript'), channel' \in BOOLEAN, turn' \in PageTurns, stream' = [s \in Streams |-> stream'[s]],
           \A s \in Streams :
              /\ StreamOK(stream'[s], tab.lastSeq, quiet', transcript', runner', channel')
              /\ stream[s] = Unasked => stream'[s] = Unasked
              /\ \A n \in 1 .. tab.lastSeq : Promises(stream[s], n) => Promises(stream'[s], n)
    PROVE  PageInv'
<1>1. /\ transcript \in Seq(Roles) /\ transcript' \in Seq(Roles) /\ Len(transcript) \in Nat /\ Len(transcript') \in Nat
      /\ Len(transcript) <= Len(transcript')
  BY DEF PageInv
<1>2. IsTab(tab', transcript') /\ IsPoll(poll', tab'.lastSeq, transcript')
  <2>1. IsTab(tab, transcript)
    BY DEF PageInv
  <2> QED
    BY <1>1, <2>1 DEF IsTab, IsPoll, PageTabs, PagePolls
<1>3. Unopened(tab', poll', stream')
  BY DEF PageInv, Unopened
<1>4. Shown(tab', skipped', quiet', transcript', stream')
  <2>1. tab.lastSeq \in 0 .. Len(transcript) /\ Shown(tab, skipped, quiet, transcript, stream)
    BY DEF PageInv, IsTab, PageTabs
  <2> QED
    BY <1>1, <2>1, ShownStays
<1> QED
  BY <1>1, <1>2, <1>3, <1>4 DEF PageInv

LEMMA ServerStep ==
    ASSUME PageInv, UNCHANGED <<tab, poll, skipped>>, quiet \subseteq quiet',
           transcript' = transcript \/ \E role \in Roles : transcript' = Append(transcript, role),
           IsRun(runner', transcript'), channel' \in BOOLEAN, turn' \in PageTurns, stream' = [s \in Streams |-> stream'[s]],
           \A s \in Streams :
              /\ StreamOK(stream'[s], tab.lastSeq, quiet', transcript', runner', channel')
              /\ stream[s] = Unasked => stream'[s] = Unasked
              /\ \A n \in 1 .. tab.lastSeq : Promises(stream[s], n) => Promises(stream'[s], n)
    PROVE  PageInv'
<1>1. IsPoll(poll, tab.lastSeq, transcript)
  BY DEF PageInv
<1> QED
  BY <1>1, ServerMoves

\* One that leaves the streams alone, too.
LEMMA RunOnlyStep ==
    ASSUME PageInv, UNCHANGED <<tab, poll, skipped, stream, channel>>, quiet \subseteq quiet',
           transcript' = transcript \/ \E role \in Roles : transcript' = Append(transcript, role),
           turn' \in PageTurns, IsRun(runner', transcript'), Telling(runner') => Telling(runner),
           Telling(runner') /\ runner.at = "broadcast" => runner' = runner,
           Telling(runner') /\ transcript' # transcript =>
              Len(transcript') \in quiet' \/ (runner'.at = "broadcast" /\ runner'.row = Len(transcript'))
    PROVE  PageInv'
<1>1. tab.lastSeq \in Nat /\ tab.lastSeq <= tab.lastSeq /\ transcript \in Seq(Roles)
  BY DEF PageInv, IsTab, PageTabs
<1>2. \A s \in Streams : StreamOK(stream[s], tab.lastSeq, quiet, transcript, runner, channel)
  BY DEF PageInv
<1>3. \A s \in Streams : StreamOK(stream[s], tab.lastSeq, quiet', transcript', runner', channel)
  BY <1>1, <1>2, StreamGrows
<1>4. channel' \in BOOLEAN /\ stream' = [s \in Streams |-> stream'[s]]
  BY DEF PageInv
<1> QED
  BY <1>3, <1>4, ServerStep

\* The streams of an entry that goes, whatever becomes of the run.
LEMMA ClosingStep ==
    ASSUME PageInv, UNCHANGED <<tab, poll, skipped, quiet>>,
           transcript' = transcript \/ transcript' = Append(transcript, "user"),
           IsRun(runner', transcript'), channel' \in BOOLEAN, turn' \in PageTurns, stream' = Closing(stream)
    PROVE  PageInv'
<1>1. tab.lastSeq \in Nat /\ transcript \in Seq(Roles) /\ "user" \in Roles
  BY DEF PageInv, IsTab, PageTabs, Roles
<1>2. \A s \in Streams : StreamOK(stream[s], tab.lastSeq, quiet, transcript, runner, channel)
  BY DEF PageInv
<1>3. \A s \in Streams : stream'[s] = [stream[s] EXCEPT !.rx.on = FALSE]
  BY DEF Closing
<1>4. \A s \in Streams : StreamOK(stream'[s], tab.lastSeq, quiet, transcript, runner', channel')
  <2> SUFFICES ASSUME NEW s \in Streams PROVE StreamOK(stream'[s], tab.lastSeq, quiet, transcript, runner', channel')
    OBVIOUS
  <2>1. StreamOK(stream[s], tab.lastSeq, quiet, transcript, runner, channel)
    BY <1>2
  <2>2. StreamOK([stream[s] EXCEPT !.rx.on = FALSE], tab.lastSeq, quiet, transcript, runner', channel')
    BY <1>1, <2>1, Closes, Zenon
  <2> QED
    BY <1>3, <2>2
<1>5. \A s \in Streams : StreamOK(stream'[s], tab.lastSeq, quiet', transcript', runner', channel')
  BY <1>1, <1>4, UserRow
<1>6. \A s \in Streams : stream[s] = Unasked => stream'[s] = Unasked
  BY <1>3, Unasks
<1>7. ASSUME NEW s \in Streams PROVE \A n : Promises(stream[s], n) => Promises(stream'[s], n)
  <2>1. stream[s] \in PageRequests
    BY <1>2 DEF StreamOK, IsRequest
  <2>2. stream'[s].kind = stream[s].kind /\ stream'[s].at = stream[s].at /\ stream'[s].cursor = stream[s].cursor /\ stream'[s].replay = stream[s].replay
    BY <1>3, <2>1 DEF PageRequests
  <2> QED
    BY <2>2 DEF Promises
<1>8. stream' = [s \in Streams |-> stream'[s]]
  BY DEF Closing
<1> QED
  BY <1>1, <1>5, <1>6, <1>7, <1>8, ServerStep

LEMMA FreshRun ==
    ASSUME NEW t, NEW b \in BOOLEAN
    PROVE  IsRun(NoRun, t) /\ IsRun([NoRun EXCEPT !.at = "claimed"], t) /\ IsRun([NoRun EXCEPT !.at = "agent", !.resumed = b], t)
           /\ ~Telling([NoRun EXCEPT !.at = "claimed"])
BY DEF IsRun, PageRuns, Statuses, NoRun, Telling

LEMMA RunGrows ==
    ASSUME NEW r, NEW t \in Seq(Roles), IsRun(r, t), NEW role \in Roles
    PROVE  IsRun(r, Append(t, role))
<1>1. \A k \in 1 .. Len(t) : k \in 1 .. Len(Append(t, role))
  OBVIOUS
<1> QED
  BY <1>1 DEF IsRun

LEMMA TurnMoves ==
    ASSUME NEW u \in PageTurns, NEW v \in Statuses, NEW w \in Statuses, NEW k \in Nat
    PROVE  /\ [u EXCEPT !.status = v] \in PageTurns
           /\ [u EXCEPT !.status = v, !.park = w, !.attempts = k] \in PageTurns
BY DEF PageTurns

LEMMA RunFacts ==
    ASSUME PageInv
    PROVE  /\ transcript \in Seq(Roles) /\ IsRun(runner, transcript) /\ runner.verdict \in Statuses /\ turn \in PageTurns
           /\ turn.status \in Statuses /\ turn.park \in Statuses /\ turn.attempts \in Nat /\ PathVerdict \in Statuses
BY DEF PageInv, IsRun, PageRuns, PageTurns, PathVerdict, Statuses

LEMMA RowStep ==
    ASSUME PageInv, NEW role \in Roles, NEW v \in Statuses, runner.at = "agent", AppendRow(role, v)
    PROVE  PageInv'
<1>0. UNCHANGED <<tab, poll, skipped, stream, channel, quiet, turn>> /\ Telling(runner)
  BY DEF AppendRow, RunOnly, client, Telling
<1>1. CASE transcript' = Append(transcript, role)
           /\ runner' = [runner EXCEPT !.at = "broadcast", !.row = Len(transcript) + 1, !.verdict = v]
  <2>1. IsRun(runner', transcript') /\ runner'.at = "broadcast" /\ runner'.row = Len(transcript')
    <3> DEFINE n == Len(transcript) + 1
    <3>1. n \in Nat /\ n \in 1 .. Len(transcript') /\ Len(transcript') = n
      BY <1>1, RunFacts
    <3>2. runner' = [runner EXCEPT !.at = "broadcast", !.row = n, !.verdict = v]
      BY <1>1
    <3> HIDE DEF n
    <3> QED
      BY <3>1, <3>2, RunFacts DEF IsRun, PageRuns
  <2> QED
    BY <1>0, <1>1, <2>1, RunFacts, RunOnlyStep
<1>2. CASE transcript' = transcript
           /\ runner' = [runner EXCEPT !.at = IF v = "none" THEN "agent" ELSE "finalize", !.verdict = v]
  <2>1. PICK a \in {"agent", "finalize"} : runner' = [runner EXCEPT !.at = a, !.verdict = v]
    BY <1>2
  <2>2. IsRun(runner', transcript') /\ runner'.at # "broadcast"
    BY <1>2, <2>1, RunFacts DEF IsRun, PageRuns
  <2> QED
    BY <1>0, <1>2, <2>2, RunFacts, RunOnlyStep
<1> QED
  BY <1>1, <1>2 DEF AppendRow

LEMMA BroadcastStep ==
    ASSUME PageInv, Broadcast
    PROVE  PageInv'
<1>0. /\ UNCHANGED <<tab, poll, skipped, channel, quiet, turn, transcript>> /\ runner.at = "broadcast"
      /\ runner' = [runner EXCEPT !.row = 0, !.at = IF runner.verdict = "none" THEN "agent" ELSE "finalize"]
      /\ stream' = IF channel THEN [s \in Streams |-> [stream[s] EXCEPT !.rx = Received(@, runner.row)]] ELSE stream
  BY DEF Broadcast, send_broadcast, RunOnly, client
<1>1. IsRun(runner', transcript') /\ runner'.at # "broadcast"
  <2>1. PICK a \in {"agent", "finalize"} : runner' = [runner EXCEPT !.row = 0, !.at = a]
    BY <1>0
  <2>2. IsRun([runner EXCEPT !.row = 0, !.at = a], transcript) /\ [runner EXCEPT !.row = 0, !.at = a].at = a
    BY RunFacts DEF IsRun, PageRuns
  <2> QED
    BY <1>0, <2>1, <2>2
<1>2. tab.lastSeq \in Nat /\ channel \in BOOLEAN /\ stream = [s \in Streams |-> stream[s]]
  BY DEF PageInv, IsTab, PageTabs
<1>3. \A s \in Streams : StreamOK(stream[s], tab.lastSeq, quiet, transcript, runner, channel)
  BY DEF PageInv
<1>4. CASE channel = TRUE
  <2>1. \A s \in Streams : stream'[s] = [stream[s] EXCEPT !.rx = Received(@, runner.row)]
    BY <1>0, <1>4
  <2>2. ASSUME NEW s \in Streams
        PROVE  /\ StreamOK(stream'[s], tab.lastSeq, quiet, transcript, runner', channel)
               /\ stream[s] = Unasked => stream'[s] = Unasked
               /\ \A n : Promises(stream[s], n) => Promises(stream'[s], n)
    <3>1. StreamOK(stream[s], tab.lastSeq, quiet, transcript, runner, TRUE)
      BY <1>3, <1>4
    <3>2. StreamOK([stream[s] EXCEPT !.rx = Received(@, runner.row)], tab.lastSeq, quiet, transcript, runner', TRUE)
      BY <1>0, <1>1, <1>2, <3>1, RunFacts, Tells, Zenon
    <3>3. stream[s] = Unasked => stream'[s] = Unasked
      BY <2>1, Unasks
    <3>4. stream[s] \in PageRequests
      BY <3>1 DEF StreamOK, IsRequest
    <3>5. stream'[s].kind = stream[s].kind /\ stream'[s].at = stream[s].at /\ stream'[s].cursor = stream[s].cursor /\ stream'[s].replay = stream[s].replay
      BY <2>1, <3>4 DEF PageRequests
    <3> QED
      BY <1>4, <2>1, <3>2, <3>3, <3>5 DEF Promises
  <2>3. stream' = [s \in Streams |-> stream'[s]]
    BY <1>0, <1>4
  <2> QED
    BY <1>0, <1>1, <1>2, <2>2, <2>3, RunFacts, ServerStep
<1>5. CASE channel = FALSE
  <2>1. stream' = stream
    BY <1>0, <1>5
  <2>2. ASSUME NEW s \in Streams PROVE StreamOK(stream[s], tab.lastSeq, quiet, transcript, runner', channel)
    BY <1>3, <1>5 DEF StreamOK, Opened, UpToDate
  <2> QED
    BY <1>0, <1>1, <1>2, <2>1, <2>2, RunFacts, ServerStep
<1> QED
  BY <1>2, <1>4, <1>5

\* A run that goes to a stage from which it tells nothing more.
LEMMA SilentStep ==
    ASSUME PageInv, UNCHANGED <<tab, poll, skipped, stream, channel>>, turn' \in PageTurns,
           \/ transcript' = transcript /\ quiet' = quiet
           \/ transcript' = Append(transcript, "error") /\ quiet' = quiet \cup {Len(transcript) + 1},
           IsRun(runner', transcript'), runner' = runner \/ ~Telling(runner')
    PROVE  PageInv'
<1>1. "error" \in Roles /\ transcript \in Seq(Roles) /\ Len(Append(transcript, "error")) = Len(transcript) + 1
  BY DEF Roles, PageInv
<1> QED
  BY <1>1, RunOnlyStep

LEMMA RunnerSteps ==
    ASSUME PageInv, RunnerStep
    PROVE  PageInv'
<1>0. /\ "error" \in Roles /\ "tool" \in Roles /\ "assistant" \in Roles /\ {"none", "done", "failed", "interrupted"} \subseteq Statuses
  BY DEF Roles, Statuses
<1>1. CASE late_row
  <2>1. IsRun(runner, Append(transcript, "error"))
    BY <1>0, RunFacts, RunGrows
  <2> QED
    BY <1>1, <2>1, RunFacts, SilentStep DEF late_row, client
<1>2. CASE late_remove
  BY <1>2, RunFacts, ClosingStep DEF late_remove, remove, client
<1>3. CASE emit_event
  BY <1>0, <1>3, RowStep DEF emit_event
<1>4. CASE finish_with_error_row
  BY <1>0, <1>4, RowStep, RunFacts DEF finish_with_error_row
<1>5. CASE Broadcast
  BY <1>5, BroadcastStep
<1>6. CASE finalize_turn
  <2>1. IsRun(runner', transcript') /\ ~Telling(runner') /\ transcript' = transcript
    BY <1>6, RunFacts DEF IsRun, PageRuns, finalize_turn, Telling
  <2>2. turn' \in PageTurns
    BY <1>6, RunFacts, TurnMoves DEF finalize_turn
  <2> QED
    BY <1>6, <2>1, <2>2, SilentStep DEF finalize_turn, RunOnly, client
<1>7. CASE park_turn
  <2>1. IsRun(runner', transcript') /\ ~Telling(runner') /\ transcript' = transcript
    BY <1>7, RunFacts DEF IsRun, PageRuns, park_turn, Telling
  <2>2. turn' \in PageTurns
    BY <1>7, RunFacts, TurnMoves DEF park_turn, Statuses
  <2> QED
    BY <1>7, <2>1, <2>2, SilentStep DEF park_turn, RunOnly, client
<1>8. CASE gate_closed
  <2>1. IsRun(runner', transcript') /\ ~Telling(runner') /\ transcript' = transcript
    BY <1>0, <1>8, RunFacts DEF IsRun, PageRuns, gate_closed, Telling
  <2> QED
    BY <1>8, <2>1, RunFacts, SilentStep DEF gate_closed, RunOnly, client
<1>9. CASE unregister
  BY <1>9, RunFacts, FreshRun, ClosingStep DEF unregister, remove, RunOnly, client
<1>10. CASE Panic
  <2>1. IsRun(runner', transcript') /\ ~Telling(runner') /\ transcript' = transcript
    BY <1>10, RunFacts DEF IsRun, PageRuns, Panic, Telling
  <2> QED
    BY <1>10, <2>1, RunFacts, SilentStep DEF Panic, RunOnly, client
<1>11. CASE guard_drop
  <2>0. UNCHANGED <<tab, poll, skipped, stream, channel>>
    BY <1>11 DEF guard_drop, RunOnly, client
  <2>1. CASE runner.at = "guard"
    <3>1. IsRun(runner', transcript') /\ ~Telling(runner') /\ transcript' = transcript
      BY <1>11, <2>1, RunFacts DEF IsRun, PageRuns, guard_drop, Telling
    <3>2. turn' \in PageTurns /\ quiet' = quiet
      BY <1>11, <2>1, RunFacts, TurnMoves DEF guard_drop
    <3> QED
      BY <2>0, <3>1, <3>2, SilentStep
  <2>2. CASE runner.at = "guard row"
    <3>1. IsRun(runner', transcript) /\ ~Telling(runner') /\ transcript' = Append(transcript, "error")
      BY <1>11, <2>2, RunFacts DEF IsRun, PageRuns, guard_drop, Telling
    <3>2. IsRun(runner', transcript')
      BY <1>0, <3>1, RunFacts, RunGrows
    <3>3. turn' = turn /\ quiet' = quiet \cup {Len(transcript) + 1}
      BY <1>11, <2>2 DEF guard_drop
    <3> QED
      BY <2>0, <3>1, <3>2, <3>3, RunFacts, SilentStep
  <2> QED
    BY <1>11, <2>1, <2>2 DEF guard_drop
<1> QED
  BY <1>1, <1>2, <1>3, <1>4, <1>5, <1>6, <1>7, <1>8, <1>9, <1>10, <1>11 DEF RunnerStep

LEMMA TurnSteps ==
    ASSUME PageInv, AskElsewhere \/ Claim \/ ResumeSpawn \/ ProcessBoots
    PROVE  PageInv'
<1>1. CASE AskElsewhere
  <2>1. /\ UNCHANGED <<tab, poll, skipped, quiet>> /\ transcript' = Append(transcript, "user") /\ channel' = TRUE
        /\ stream' = Closing(stream) /\ runner' = [NoRun EXCEPT !.at = "agent", !.resumed = FALSE]
        /\ turn' = [status |-> "running", attempts |-> 0, park |-> "interrupted"]
    BY <1>1 DEF AskElsewhere, create_turn, spawn_chat_run, register, client
  <2>2. IsRun(runner', transcript')
    BY <2>1, FreshRun
  <2>3. turn' \in PageTurns
    BY <2>1 DEF PageTurns, Statuses
  <2> QED
    BY <2>1, <2>2, <2>3, ClosingStep
<1>2. CASE Claim
  <2>1. /\ UNCHANGED <<tab, poll, skipped, quiet, stream, channel, transcript>> /\ runner' = [NoRun EXCEPT !.at = "claimed"]
        /\ turn' = [turn EXCEPT !.status = "running", !.park = turn.status,
                                !.attempts = IF turn.status = "interrupted" THEN 1 ELSE @]
    BY <1>2 DEF Claim, client
  <2>2. IsRun(runner', transcript') /\ ~Telling(runner')
    BY <2>1, FreshRun
  <2>3. turn' \in PageTurns
    BY <2>1, RunFacts DEF PageTurns, Statuses
  <2> QED
    BY <2>1, <2>2, <2>3, SilentStep
<1>3. CASE ResumeSpawn
  <2>1. /\ UNCHANGED <<tab, poll, skipped, quiet, transcript, turn>> /\ channel' = TRUE
        /\ stream' = Closing(stream) /\ runner' = [NoRun EXCEPT !.at = "agent", !.resumed = TRUE]
    BY <1>3 DEF ResumeSpawn, spawn_chat_run, register, client
  <2>2. IsRun(runner', transcript')
    BY <2>1, FreshRun
  <2> QED
    BY <2>1, <2>2, RunFacts, ClosingStep
<1>4. CASE ProcessBoots
  <2>1. turn' \in PageTurns
    BY <1>4, RunFacts, TurnMoves DEF ProcessBoots
  <2> QED
    BY <1>4, <2>1, RunFacts, SilentStep DEF ProcessBoots, client
<1> QED
  BY <1>1, <1>2, <1>3, <1>4

-----------------------------------------------------------------------------
(* ChatPage: steps of the page *)

\* A step of the page, and perhaps of one stream, the cursor where it was.
LEMMA PageStep ==
    ASSUME PageInv, UNCHANGED <<transcript, turn, channel, runner, quiet>>, skipped \subseteq skipped',
           IsTab(tab', transcript), IsPoll(poll', tab'.lastSeq, transcript), Unopened(tab', poll', stream'),
           tab.lastSeq <= tab'.lastSeq, stream' = [s \in Streams |-> stream'[s]],
           \A s \in Streams : stream'[s] = stream[s]
              \/ StreamOK(stream'[s], tab'.lastSeq, quiet, transcript, runner, channel),
           Shown(tab', skipped', quiet, transcript, stream')
    PROVE  PageInv'
<1>1. transcript \in Seq(Roles) /\ tab.lastSeq \in Nat /\ tab'.lastSeq \in Nat
  BY DEF PageInv, IsTab, PageTabs
<1>2. \A s \in Streams : StreamOK(stream[s], tab.lastSeq, quiet, transcript, runner, channel)
  BY DEF PageInv
<1>3. \A s \in Streams : StreamOK(stream[s], tab'.lastSeq, quiet, transcript, runner, channel)
  BY <1>1, <1>2, StreamGrows
<1> QED
  BY <1>1, <1>3 DEF PageInv

LEMMA PageFacts ==
    ASSUME PageInv
    PROVE  /\ transcript \in Seq(Roles) /\ Len(transcript) \in Nat /\ tab \in PageTabs /\ poll \in PagePolls
           /\ tab.lastSeq \in Nat /\ tab.lastSeq <= Len(transcript) /\ IsTab(tab, transcript)
           /\ IsPoll(poll, tab.lastSeq, transcript) /\ Unopened(tab, poll, stream)
           /\ stream = [s \in Streams |-> stream[s]]
           /\ \A s \in Streams : stream[s] \in PageRequests /\ IsRequest(stream[s], transcript)
           /\ \A s \in Streams : StreamOK(stream[s], tab.lastSeq, quiet, transcript, runner, channel)
           /\ Shown(tab, skipped, quiet, transcript, stream)
BY DEF PageInv, IsTab, PageTabs, IsPoll, StreamOK, IsRequest

\* A stream that is in none of the stages its rows come in.
LEMMA Elsewhere ==
    ASSUME NEW x, NEW y, NEW ls, NEW q, NEW t, NEW r, NEW c, StreamOK(x, ls, q, t, r, c),
           NEW a \in {"end", "broken", "refused"}, y = [x EXCEPT !.at = a]
    PROVE  StreamOK(y, ls, q, t, r, c) /\ y.kind = x.kind /\ y.cursor = x.cursor /\ y.at = a /\ y.replay = x.replay
<1>1. x \in PageRequests
  BY DEF StreamOK, IsRequest
<1>2. y \in PageRequests /\ y.kind = x.kind /\ y.cursor = x.cursor /\ y.at = a /\ y.replay = x.replay /\ y.rx = x.rx
  BY <1>1 DEF PageRequests, Stages
<1> QED
  BY <1>2 DEF StreamOK, IsRequest, Opened

\* The stream of one request goes on.
LEMMA OneStream ==
    ASSUME PageInv, NEW s \in Streams, NEW x, stream' = [stream EXCEPT ![s] = x]
    PROVE  /\ stream' = [u \in Streams |-> stream'[u]] /\ stream'[s] = x
           /\ \A u \in Streams : u # s => stream'[u] = stream[u]
BY DEF PageInv

\* A step of an open page: the rows its cursor passes, and those a stream
\* promised, are shown, excepted, or promised.
LEMMA PageMove ==
    ASSUME PageInv, UNCHANGED <<transcript, turn, channel, runner, quiet>>, skipped \subseteq skipped',
           tab.at = "open", tab'.at = "open", tab.lastSeq <= tab'.lastSeq, tab.shown \subseteq tab'.shown,
           IsTab(tab', transcript), IsPoll(poll', tab'.lastSeq, transcript), stream' = [s \in Streams |-> stream'[s]],
           \A s \in Streams : stream'[s] = stream[s]
              \/ StreamOK(stream'[s], tab'.lastSeq, quiet, transcript, runner, channel),
           \A n \in 1 .. tab'.lastSeq : Passed(n, tab'.lastSeq, transcript) =>
              \/ n \in tab'.shown \cup skipped' \cup quiet
              \/ \E u \in Streams : Promises(stream'[u], n)
              \/ n <= tab.lastSeq /\ \A u \in Streams : Promises(stream[u], n) => Promises(stream'[u], n)
    PROVE  PageInv'
<1>1. Unopened(tab', poll', stream')
  BY DEF Unopened
<1>2. ASSUME NEW n \in 1 .. tab'.lastSeq, Passed(n, tab'.lastSeq, transcript)
      PROVE  n \in tab'.shown \cup skipped' \cup quiet \/ \E u \in Streams : Promises(stream'[u], n)
  <2>1. CASE n <= tab.lastSeq /\ \A u \in Streams : Promises(stream[u], n) => Promises(stream'[u], n)
    <3>1. n \in 1 .. tab.lastSeq /\ Passed(n, tab.lastSeq, transcript)
      BY <1>2, <2>1, PageFacts DEF Passed
    <3>2. n \in tab.shown \cup skipped \cup quiet \/ \E u \in Streams : Promises(stream[u], n)
      BY <3>1, PageFacts DEF Shown
    <3> QED
      BY <2>1, <3>2
  <2> QED
    BY <1>2, <2>1
<1>3. Shown(tab', skipped', quiet, transcript, stream')
  BY <1>2 DEF Shown
<1> QED
  BY <1>1, <1>3, PageStep

\* One stream goes on.
LEMMA StreamMove ==
    ASSUME PageInv, UNCHANGED <<transcript, turn, channel, runner, quiet, poll>>, skipped \subseteq skipped',
           tab.at = "open", tab'.at = "open", tab.lastSeq <= tab'.lastSeq, tab.shown \subseteq tab'.shown,
           IsTab(tab', transcript), NEW s \in Streams, NEW x, stream' = [stream EXCEPT ![s] = x],
           StreamOK(x, tab'.lastSeq, quiet, transcript, runner, channel),
           \A n \in 1 .. tab'.lastSeq : Passed(n, tab'.lastSeq, transcript) =>
              \/ n \in tab'.shown \cup skipped' \cup quiet
              \/ n <= tab.lastSeq /\ (Promises(stream[s], n) => Promises(x, n))
    PROVE  PageInv'
<1>1. /\ stream' = [u \in Streams |-> stream'[u]] /\ stream'[s] = x
      /\ \A u \in Streams : u # s => stream'[u] = stream[u]
  BY OneStream
<1>2. IsPoll(poll', tab'.lastSeq, transcript)
  BY PageFacts DEF IsPoll, IsTab, PageTabs, PagePolls
<1>3. \A u \in Streams : stream'[u] = stream[u]
              \/ StreamOK(stream'[u], tab'.lastSeq, quiet, transcript, runner, channel)
  BY <1>1
<1>4. ASSUME NEW n \in 1 .. tab'.lastSeq, Passed(n, tab'.lastSeq, transcript)
      PROVE \/ n \in tab'.shown \cup skipped' \cup quiet
            \/ \E u \in Streams : Promises(stream'[u], n)
            \/ n <= tab.lastSeq /\ \A u \in Streams : Promises(stream[u], n) => Promises(stream'[u], n)
  BY <1>1, <1>4
<1> QED
  BY <1>1, <1>2, <1>3, <1>4, PageMove

\* The page makes a request.
LEMMA RequestMove ==
    ASSUME PageInv, UNCHANGED <<transcript, turn, channel, runner, quiet>>, skipped \subseteq skipped',
           tab.at = "open", tab'.at = "open", tab.lastSeq <= tab'.lastSeq, tab.shown \subseteq tab'.shown,
           IsTab(tab', transcript), IsPoll(poll', tab'.lastSeq, transcript),
           NEW s \in Streams, NEW x, stream[s] = Unasked, stream' = [stream EXCEPT ![s] = x],
           StreamOK(x, tab'.lastSeq, quiet, transcript, runner, channel),
           \A n \in 1 .. tab'.lastSeq : Passed(n, tab'.lastSeq, transcript) =>
              n \in tab'.shown \cup skipped' \cup quiet \/ n <= tab.lastSeq \/ Promises(x, n)
    PROVE  PageInv'
<1>1. /\ stream' = [u \in Streams |-> stream'[u]] /\ stream'[s] = x
      /\ \A u \in Streams : u # s => stream'[u] = stream[u]
  BY OneStream
<1>2. \A n : ~Promises(stream[s], n)
  BY DEF Promises, Unasked
<1>3. \A u \in Streams : stream'[u] = stream[u]
              \/ StreamOK(stream'[u], tab'.lastSeq, quiet, transcript, runner, channel)
  BY <1>1
<1>4. ASSUME NEW n \in 1 .. tab'.lastSeq, Passed(n, tab'.lastSeq, transcript)
      PROVE \/ n \in tab'.shown \cup skipped' \cup quiet
            \/ \E u \in Streams : Promises(stream'[u], n)
            \/ n <= tab.lastSeq /\ \A u \in Streams : Promises(stream[u], n) => Promises(stream'[u], n)
  BY <1>1, <1>2, <1>4
<1> QED
  BY <1>1, <1>3, <1>4, PageMove

\* A request takes a place nobody uses.
Takes(s, x, kind, cursor, ls) ==
    /\ stream[s] = Unasked /\ stream' = [stream EXCEPT ![s] = x]
    /\ StreamOK(x, ls, quiet, transcript, runner, channel) /\ x.kind = kind /\ x.cursor = cursor /\ x.at = "asked"

LEMMA Asks ==
    ASSUME PageInv, NEW kind \in {"submit", "tail", "final", "spent"}, NEW cursor \in Nat, Request(kind, cursor),
           NEW ls \in Nat, kind # "submit" => cursor <= ls
    PROVE  \E s \in Streams : \E x : Takes(s, x, kind, cursor, ls)
<1>1. PICK s \in Free : stream' = [stream EXCEPT ![s] = [Unasked EXCEPT !.kind = kind, !.at = "asked", !.cursor = cursor]]
  BY DEF Request
<1> DEFINE x == [Unasked EXCEPT !.kind = kind, !.at = "asked", !.cursor = cursor]
<1>2. /\ x \in PageRequests /\ x.kind = kind /\ x.cursor = cursor /\ x.at = "asked" /\ x.replay = {}
      /\ x.rx.on = FALSE /\ x.rx.buffer = <<>>
  BY Unasks DEF Unasked, Detached, PageRequests, Stages
<1>3. s \in Streams /\ stream[s] = Unasked
  BY DEF Free
<1> HIDE DEF x
<1>4. <<>> \in Seq(1 .. Len(transcript))
  OBVIOUS
<1>5. StreamOK(x, ls, quiet, transcript, runner, channel)
  BY <1>2, <1>4 DEF StreamOK, IsRequest, Opened
<1>6. Takes(s, x, kind, cursor, ls)
  BY <1>1, <1>2, <1>3, <1>5 DEF x, Takes
<1> QED
  BY <1>3, <1>6

\* A page with the same rows, whatever it waits for.
LEMMA SameRows ==
    ASSUME PageInv, NEW tb \in PageTabs, tb.lastSeq = tab.lastSeq, tb.seen = tab.seen, tb.shown = tab.shown
    PROVE  IsTab(tb, transcript)
BY PageFacts DEF IsTab

\* What a step of an open page without a new row leaves.
Unmoved(tb) == tb \in PageTabs /\ tb.at = tab.at /\ tb.lastSeq = tab.lastSeq /\ tb.seen = tab.seen /\ tb.shown = tab.shown

\* A step of the page's meta request.
LEMMA PollMove ==
    ASSUME PageInv, UNCHANGED <<transcript, turn, channel, runner, quiet, stream, skipped>>, tab.at = "open", Unmoved(tab'),
           IsPoll(poll', tab.lastSeq, transcript)
    PROVE  PageInv'
<1>1. IsTab(tab', transcript)
  BY SameRows DEF Unmoved
<1>2. tab.lastSeq <= tab'.lastSeq
  BY PageFacts DEF Unmoved
<1>3. stream' = [s \in Streams |-> stream'[s]] /\ \A s \in Streams : stream'[s] = stream[s]
  BY PageFacts
<1>4. IsPoll(poll', tab'.lastSeq, transcript) /\ tab'.at = "open" /\ tab.shown \subseteq tab'.shown /\ tab'.lastSeq = tab.lastSeq
  BY DEF Unmoved
<1>5. \A n \in 1 .. tab'.lastSeq : n <= tab.lastSeq
  BY <1>4, PageFacts
<1> QED
  BY <1>1, <1>2, <1>3, <1>4, <1>5, PageMove

LEMMA NoPolls ==
    ASSUME PageInv
    PROVE  /\ \A ls \in Nat : IsPoll(NoPoll, ls, transcript)
           /\ poll.at # "idle" \/ tab.reopenTimer \/ tab.polling => tab.at = "open"
           /\ \A s \in Streams : stream[s].at # "idle" => tab.at = "open"
<1>1. NoPoll \in PagePolls /\ NoPoll.at = "idle" /\ NoPoll.cursor = 0 /\ NoPoll.max_seq = 0 /\ Unasked.at = "idle"
  BY DEF NoPoll, PagePolls, Unasked, Statuses
<1>2. Len(transcript) \in Nat
  BY PageFacts
<1>3. \A ls \in Nat : IsPoll(NoPoll, ls, transcript)
  BY <1>1, <1>2 DEF IsPoll
<1> QED
  BY <1>1, <1>3, PageFacts DEF Unopened

LEMMA MetaSteps ==
    ASSUME PageInv, session_meta \/ pollMeta \/ PollFails
    PROVE  PageInv'
<1>0. Unmoved(tab)
  BY PageFacts DEF Unmoved
<1>1. CASE session_meta
  <2>0. UNCHANGED <<transcript, turn, channel, runner, quiet, stream, skipped, tab>> /\ poll.at # "idle"
    BY <1>1 DEF session_meta, server
  <2>1. IsPoll(poll', tab.lastSeq, transcript)
    <3>1. CASE poll' = [poll EXCEPT !.at = "turn", !.status = turn.status, !.resumable = turn_resumable]
      <4>1. turn_resumable \in BOOLEAN
        BY DEF turn_resumable
      <4> QED
        BY <3>1, <4>1, PageFacts, RunFacts DEF IsPoll, PagePolls
    <3>2. CASE poll' = [poll EXCEPT !.at = "answer", !.max_seq = Len(transcript)]
      <4> DEFINE k == Len(transcript)
      <4>1. poll' = [poll EXCEPT !.at = "answer", !.max_seq = k] /\ k \in Nat /\ k <= Len(transcript) /\ poll \in PagePolls
        BY <3>2, PageFacts
      <4>2. poll.cursor <= tab.lastSeq
        BY PageFacts DEF IsPoll
      <4> HIDE DEF k
      <4> QED
        BY <4>1, <4>2 DEF IsPoll, PagePolls
    <3> QED
      BY <1>1, <3>1, <3>2 DEF session_meta
  <2> QED
    BY <1>0, <2>0, <2>1, NoPolls, PollMove
<1>2. CASE pollMeta
  <2>0. UNCHANGED <<transcript, turn, channel, runner, quiet, stream, skipped, tab>> /\ tab.polling
    BY <1>2 DEF pollMeta, PageOnly, server
  <2>1. IsPoll(poll', tab.lastSeq, transcript)
    <3>1. poll' = [NoPoll EXCEPT !.at = "asked", !.cursor = tab.lastSeq]
      BY <1>2 DEF pollMeta
    <3>2. NoPoll \in PagePolls /\ NoPoll.max_seq = 0
      BY DEF NoPoll, PagePolls, Statuses
    <3>3. tab.lastSeq \in Nat /\ Len(transcript) \in Nat
      BY PageFacts
    <3>4. poll' \in PagePolls /\ poll'.cursor = tab.lastSeq /\ poll'.max_seq = 0
      BY <3>1, <3>2, <3>3 DEF PagePolls
    <3> QED
      BY <3>3, <3>4 DEF IsPoll
  <2> QED
    BY <1>0, <2>0, <2>1, NoPolls, PollMove
<1>3. CASE PollFails
  <2>0. UNCHANGED <<transcript, turn, channel, runner, quiet, stream, skipped>> /\ poll.at # "idle" /\ poll' = NoPoll
    BY <1>3 DEF PollFails, PageOnly, server
  <2>1. Unmoved(tab')
    <3>1. tab' = tab \/ tab' = [tab EXCEPT !.polling = FALSE, !.busy = FALSE]
      BY <1>3 DEF PollFails
    <3> QED
      BY <1>0, <3>1, PageFacts DEF Unmoved, PageTabs
  <2> QED
    BY <2>0, <2>1, NoPolls, PageFacts, PollMove
<1> QED
  BY <1>1, <1>2, <1>3

\* The rows the page's cursor is moved past.
LEMMA RowsPassed ==
    ASSUME NEW lo \in Nat, NEW ls \in Nat, NEW n, Passed(n, ls, transcript), lo < n, transcript \in Seq(Roles)
    PROVE  n \in AgentRows(lo, ls)
BY DEF Passed, AgentRows

LEMMA PollAnswers ==
    ASSUME PageInv, PollAnswer
    PROVE  PageInv'
<1>0. UNCHANGED <<transcript, turn, channel, runner, quiet>> /\ poll.at # "idle" /\ poll' = NoPoll
  BY DEF PollAnswer, PageOnly, server
<1>1. tab.at = "open" /\ tab \in PageTabs /\ tab.lastSeq \in Nat /\ Len(transcript) \in Nat /\ poll.cursor \in Nat /\ poll.max_seq \in Nat
  BY <1>0, NoPolls, PageFacts DEF PagePolls
<1>2. poll.cursor <= tab.lastSeq /\ poll.max_seq <= Len(transcript) /\ tab.lastSeq <= Len(transcript)
  BY PageFacts DEF IsPoll
<1> DEFINE top == IF poll.max_seq > tab.lastSeq THEN poll.max_seq ELSE tab.lastSeq
<1>3. top \in Nat /\ tab.lastSeq <= top /\ top <= Len(transcript)
  BY <1>1, <1>2
<1>4. Refreshed = [tab EXCEPT !.lastSeq = top]
  BY <1>1 DEF Refreshed, PageTabs
<1> HIDE DEF top
<1> DEFINE Moved(tb) == /\ tb \in PageTabs /\ tb.at = "open" /\ tb.lastSeq = top /\ tb.seen = tab.seen /\ tb.shown = tab.shown
<1>5. Refreshed \in PageTabs /\ Moved(Refreshed)
  BY <1>1, <1>3, <1>4 DEF PageTabs
<1>6. ASSUME Moved(tab') PROVE IsTab(tab', transcript) /\ tab.lastSeq <= tab'.lastSeq /\ tab.shown \subseteq tab'.shown
                              /\ IsPoll(poll', tab'.lastSeq, transcript) /\ tab'.at = "open" /\ tab'.lastSeq = top
  <2>1. IsTab(tab', transcript)
    BY <1>3, <1>6, PageFacts DEF IsTab
  <2> QED
    BY <1>0, <1>3, <1>6, <2>1, NoPolls
<1>7. CASE /\ tab' = [Refreshed EXCEPT !.polling = FALSE, !.reopenAttempts = 0, !.busy = TRUE, !.note = FALSE]
           /\ Request("tail", tab'.lastSeq)
           /\ skipped' = skipped \cup (AgentRows(tab.lastSeq, tab'.lastSeq) \ tab.shown)
  <2>1. Moved(tab')
    BY <1>5, <1>7 DEF PageTabs
  <2>2. PICK s \in Streams : \E x : Takes(s, x, "tail", top, top)
    <3>1. Request("tail", top) /\ top <= top
      BY <1>3, <1>7, <2>1
    <3>2. "tail" \in {"submit", "tail", "final", "spent"} /\ ("tail" # "submit" => top <= top)
      BY <3>1
    <3> QED
      BY <1>3, <3>1, <3>2, Asks
  <2>3. ASSUME NEW n \in 1 .. top, Passed(n, top, transcript) PROVE n \in tab'.shown \cup skipped' \/ n <= tab.lastSeq
    BY <1>1, <1>3, <1>7, <2>1, <2>3, PageFacts, RowsPassed
  <2> QED
    BY <1>0, <1>1, <1>6, <1>7, <2>1, <2>2, <2>3, RequestMove DEF Takes
<1>8. CASE /\ tab' = [Refreshed EXCEPT !.polling = FALSE] /\ UNCHANGED skipped
           /\ \E kind \in {"final", "spent"} : Request(kind, poll.cursor)
  <2>1. Moved(tab')
    BY <1>5, <1>8 DEF PageTabs
  <2>2. PICK kind \in {"final", "spent"} : Request(kind, poll.cursor)
    BY <1>8
  <2>3. PICK s \in Streams : \E x : Takes(s, x, kind, poll.cursor, top)
    BY <1>1, <1>2, <1>3, <2>2, Asks
  <2>4. PICK x : Takes(s, x, kind, poll.cursor, top)
    BY <2>3
  <2>5. ASSUME NEW n \in 1 .. top PROVE n <= tab.lastSeq \/ Promises(x, n)
    BY <1>1, <1>2, <1>3, <2>4 DEF Promises, Takes
  <2> QED
    BY <1>0, <1>1, <1>6, <1>8, <2>1, <2>4, <2>5, RequestMove DEF Takes
<1>9. CASE tab' = [Refreshed EXCEPT !.polling = FALSE, !.busy = FALSE] /\ UNCHANGED <<stream, skipped>> /\ ~(poll.max_seq > poll.cursor)
  <2>1. top = tab.lastSeq
    BY <1>1, <1>2, <1>9 DEF top
  <2>2. Unmoved(tab')
    BY <1>1, <1>5, <1>9, <2>1 DEF PageTabs, Unmoved
  <2> QED
    BY <1>0, <1>1, <1>9, <2>2, NoPolls, PollMove
<1>10. CASE tab' = Refreshed /\ skipped' = skipped \cup (AgentRows(tab.lastSeq, tab'.lastSeq) \ tab.shown) /\ UNCHANGED stream
  <2>1. Moved(tab')
    BY <1>5, <1>10
  <2>2. ASSUME NEW n \in 1 .. top, Passed(n, top, transcript) PROVE n \in tab'.shown \cup skipped' \/ n <= tab.lastSeq
    BY <1>1, <1>3, <1>10, <2>1, <2>2, PageFacts, RowsPassed
  <2>3. stream' = [s \in Streams |-> stream'[s]] /\ \A s \in Streams : stream'[s] = stream[s]
    BY <1>10, PageFacts
  <2> QED
    BY <1>0, <1>1, <1>6, <1>10, <2>1, <2>2, <2>3, PageMove
<1> QED
  BY <1>7, <1>8, <1>9, <1>10 DEF PollAnswer, replay_cursor

\* The page reads its meta and its rows, and starts.
LEMMA PageLoads ==
    ASSUME PageInv, load_active
    PROVE  PageInv'
<1>0. UNCHANGED <<transcript, turn, channel, runner, quiet, poll, skipped>> /\ tab.at # "open"
  BY DEF load_active, PageOnly, server
<1>1. /\ tab \in PageTabs /\ tab.lastSeq \in Nat /\ Len(transcript) \in Nat /\ tab.lastSeq <= Len(transcript) /\ tab.seen = {}
      /\ tab.reopenTimer = FALSE /\ tab.polling = FALSE /\ poll = NoPoll /\ turn.status \in Statuses
      /\ \A s \in Streams : stream[s] = Unasked
  BY <1>0, PageFacts, RunFacts DEF Unopened
<1>2. stream = [s \in Streams |-> stream[s]] /\ turn_resumable \in BOOLEAN
  BY PageFacts DEF turn_resumable
<1>3. ASSUME UNCHANGED stream, tab' \in PageTabs, tab'.at # "open", tab'.seen = {}, tab'.reopenTimer = FALSE, tab'.polling = FALSE,
             tab.lastSeq <= tab'.lastSeq, tab'.lastSeq <= Len(transcript)
      PROVE  PageInv'
  <2>1. IsTab(tab', transcript)
    BY <1>3 DEF IsTab
  <2>2. IsPoll(poll', tab'.lastSeq, transcript)
    BY <1>0, <1>1, <1>3, NoPolls DEF PageTabs
  <2>3. Unopened(tab', poll', stream') /\ Shown(tab', skipped', quiet, transcript, stream')
    BY <1>0, <1>1, <1>3 DEF Unopened, Shown
  <2> QED
    BY <1>0, <1>2, <1>3, <2>1, <2>2, <2>3, PageStep
<1>4. CASE tab' = [tab EXCEPT !.at = "turn", !.status = turn.status, !.note = turn_resumable] /\ UNCHANGED stream
  <2>1. tab' \in PageTabs /\ tab'.at = "turn" /\ tab'.lastSeq = tab.lastSeq /\ tab'.seen = {} /\ tab'.reopenTimer = FALSE /\ tab'.polling = FALSE
    BY <1>1, <1>2, <1>4 DEF PageTabs
  <2>2. tab'.at # "open" /\ tab.lastSeq <= tab'.lastSeq /\ tab'.lastSeq <= Len(transcript)
    BY <1>1, <2>1
  <2> QED
    BY <1>3, <1>4, <2>1, <2>2, ZenonT(30)
<1>5. CASE tab' = [tab EXCEPT !.at = "max_seq", !.lastSeq = Len(transcript)] /\ UNCHANGED stream
  <2> DEFINE k == Len(transcript)
  <2>0. tab' = [tab EXCEPT !.at = "max_seq", !.lastSeq = k] /\ k \in Nat /\ k = Len(transcript)
    BY <1>1, <1>5
  <2> HIDE DEF k
  <2>1. tab' \in PageTabs /\ tab'.at = "max_seq" /\ tab'.lastSeq = k /\ tab'.seen = {} /\ tab'.reopenTimer = FALSE /\ tab'.polling = FALSE
    BY <1>1, <2>0 DEF PageTabs
  <2>2. tab'.at # "open" /\ tab.lastSeq <= tab'.lastSeq /\ tab'.lastSeq <= Len(transcript)
    BY <1>1, <2>0, <2>1
  <2> QED
    BY <1>3, <1>5, <2>1, <2>2, ZenonT(30)
<1>6. CASE /\ tab' = [tab EXCEPT !.at = "open", !.status = "none", !.shown = AgentRows(0, Len(transcript)),
                                 !.busy = tab.status = "running", !.polling = tab.status = "interrupted"]
           /\ Request("tail", tab.lastSeq) \/ UNCHANGED stream
  <2> DEFINE rows == AgentRows(0, Len(transcript))
  <2>0. rows \subseteq Nat /\ \A n : Passed(n, tab.lastSeq, transcript) => n \in rows
    <3>1. rows \subseteq Nat
      BY <1>1 DEF AgentRows
    <3>2. ASSUME NEW n, Passed(n, tab.lastSeq, transcript) PROVE n \in rows
      BY <1>1, <3>2, PageFacts DEF Passed, AgentRows
    <3> QED
      BY <3>1, <3>2
  <2>1. tab' = [tab EXCEPT !.at = "open", !.status = "none", !.shown = rows, !.busy = tab.status = "running", !.polling = tab.status = "interrupted"]
    BY <1>6
  <2> HIDE DEF rows
  <2>2. tab' \in PageTabs /\ tab'.at = "open" /\ tab'.lastSeq = tab.lastSeq /\ tab'.seen = {} /\ tab'.shown = rows
    BY <1>1, <2>0, <2>1 DEF PageTabs, Statuses
  <2>3. IsTab(tab', transcript) /\ IsPoll(poll', tab'.lastSeq, transcript) /\ Unopened(tab', poll', stream')
    <3>1. IsTab(tab', transcript)
      BY <1>1, <2>2 DEF IsTab
    <3>2. IsPoll(poll', tab'.lastSeq, transcript)
      BY <1>0, <1>1, <2>2, NoPolls
    <3> QED
      BY <2>2, <3>1, <3>2 DEF Unopened
  <2>4. Shown(tab', skipped', quiet, transcript, stream') /\ tab.lastSeq <= tab'.lastSeq
    BY <1>1, <2>0, <2>2 DEF Shown
  <2>5. CASE UNCHANGED stream
    BY <1>0, <1>2, <2>3, <2>4, <2>5, PageStep
  <2>6. CASE Request("tail", tab.lastSeq)
    <3>0. PICK s \in Streams : \E x : Takes(s, x, "tail", tab.lastSeq, tab.lastSeq)
      <4>1. "tail" \in {"submit", "tail", "final", "spent"} /\ ("tail" # "submit" => tab.lastSeq <= tab.lastSeq)
        BY <1>1
      <4> QED
        BY <1>1, <2>6, <4>1, Asks
    <3>1. PICK x : Takes(s, x, "tail", tab.lastSeq, tab.lastSeq)
      BY <3>0
    <3>2. /\ stream' = [u \in Streams |-> stream'[u]] /\ stream'[s] = x
          /\ \A u \in Streams : u # s => stream'[u] = stream[u]
      BY <3>1, OneStream DEF Takes
    <3>3. \A u \in Streams : stream'[u] = stream[u]
              \/ StreamOK(stream'[u], tab'.lastSeq, quiet, transcript, runner, channel)
      BY <2>2, <3>1, <3>2 DEF Takes
    <3> QED
      BY <1>0, <2>3, <2>4, <3>2, <3>3, PageStep
  <2> QED
    BY <1>6, <2>5, <2>6
<1> QED
  BY <1>4, <1>5, <1>6 DEF load_active

\* The page asks, or reopens its stream.
LEMMA SendSteps ==
    ASSUME PageInv, send \/ openStream
    PROVE  PageInv'
<1>0. UNCHANGED <<transcript, turn, channel, runner, quiet, poll, skipped>>
  BY DEF send, openStream, PageOnly, server
<1>1. tab.at = "open"
  BY NoPolls DEF send, openStream
<1>2. Unmoved(tab')
  <2>1. \/ tab' = [tab EXCEPT !.busy = TRUE, !.polling = FALSE, !.reopenTimer = FALSE, !.reopenAttempts = 0]
        \/ tab' = [tab EXCEPT !.reopenTimer = FALSE]
    BY DEF send, openStream
  <2>2. tab \in PageTabs
    BY PageFacts
  <2>3. CASE tab' = [tab EXCEPT !.busy = TRUE, !.polling = FALSE, !.reopenTimer = FALSE, !.reopenAttempts = 0]
    BY <2>2, <2>3 DEF Unmoved, PageTabs
  <2>4. CASE tab' = [tab EXCEPT !.reopenTimer = FALSE]
    BY <2>2, <2>4 DEF Unmoved, PageTabs
  <2> QED
    BY <2>1, <2>3, <2>4
<1>3. IsTab(tab', transcript) /\ tab'.lastSeq = tab.lastSeq /\ tab'.shown = tab.shown /\ tab'.at = "open"
  BY <1>1, <1>2, SameRows DEF Unmoved
<1>4. \E kind \in {"submit", "tail", "final", "spent"}, cursor \in Nat :
        Request(kind, cursor) /\ (kind # "submit" => cursor <= tab.lastSeq)
  <2>1. CASE send
    BY <2>1 DEF send
  <2>2. CASE openStream
    <3>1. Request("tail", tab.lastSeq) /\ tab.lastSeq \in Nat /\ tab.lastSeq <= tab.lastSeq
      BY <2>2, PageFacts DEF openStream
    <3> QED
      BY <3>1
  <2> QED
    BY <2>1, <2>2
<1>5. PICK kind \in {"submit", "tail", "final", "spent"}, cursor \in Nat :
        Request(kind, cursor) /\ (kind # "submit" => cursor <= tab.lastSeq)
  BY <1>4
<1>6. PICK s \in Streams : \E x : Takes(s, x, kind, cursor, tab.lastSeq)
  BY <1>5, PageFacts, Asks
<1>61. PICK x : Takes(s, x, kind, cursor, tab.lastSeq)
  BY <1>6
<1>7. \A n \in 1 .. tab'.lastSeq : n <= tab.lastSeq
  BY <1>3, PageFacts
<1>8. IsPoll(poll', tab'.lastSeq, transcript) /\ tab.lastSeq <= tab'.lastSeq
  BY <1>0, <1>3, PageFacts
<1>9. StreamOK(x, tab'.lastSeq, quiet, transcript, runner, channel) /\ stream[s] = Unasked /\ stream' = [stream EXCEPT ![s] = x]
  BY <1>3, <1>61 DEF Takes
<1> QED
  BY <1>0, <1>1, <1>3, <1>7, <1>8, <1>9, RequestMove

\* The process dies with its runs and channels.
LEMMA Dies ==
    ASSUME PageInv, ProcessDies
    PROVE  PageInv'
<1>0. /\ UNCHANGED <<transcript, turn, quiet, tab, skipped>> /\ runner' = NoRun /\ channel' = FALSE
      /\ stream' = [s \in Streams |-> IF stream[s].at \in {"idle", "end", "refused"} THEN stream[s]
                                   ELSE [stream[s] EXCEPT !.at = "broken"]]
      /\ poll' = IF poll.at = "idle" THEN poll ELSE [poll EXCEPT !.at = "broken"]
  BY DEF ProcessDies
<1>1. IsPoll(poll', tab.lastSeq, transcript) /\ (poll = NoPoll => poll' = NoPoll)
  <2>1. NoPoll.at = "idle"
    BY DEF NoPoll
  <2> QED
    BY <1>0, <2>1, PageFacts DEF IsPoll, PagePolls
<1>2. IsRun(runner', transcript') /\ runner'.at = "off"
  BY <1>0, FreshRun DEF NoRun
<1>3. ASSUME NEW s \in Streams
      PROVE  /\ StreamOK(stream'[s], tab.lastSeq, quiet, transcript, runner', FALSE)
             /\ stream[s] = Unasked => stream'[s] = Unasked
             /\ \A n \in 1 .. tab.lastSeq : Promises(stream[s], n) => Promises(stream'[s], n)
  <2>0. StreamOK(stream[s], tab.lastSeq, quiet, transcript, runner, channel) /\ Unasked.at = "idle"
    BY PageFacts DEF Unasked
  <2>1. CASE stream[s].at \in {"idle", "end", "refused"}
    <3>1. stream'[s] = stream[s]
      BY <1>0, <2>1
    <3> QED
      BY <2>0, <2>1, <3>1 DEF StreamOK, Opened
  <2>2. CASE stream[s].at \notin {"idle", "end", "refused"}
    <3>1. stream'[s] = [stream[s] EXCEPT !.at = "broken"]
      BY <1>0, <2>2
    <3>2. /\ StreamOK(stream'[s], tab.lastSeq, quiet, transcript, runner, channel) /\ stream'[s].kind = stream[s].kind
          /\ stream'[s].cursor = stream[s].cursor /\ stream'[s].at = "broken"
      BY <2>0, <3>1, Elsewhere
    <3> QED
      BY <2>0, <2>2, <3>2 DEF StreamOK, Opened, Promises
  <2> QED
    BY <2>1, <2>2
<1>4. stream' = [s \in Streams |-> stream'[s]] /\ turn' \in PageTurns
  BY <1>0, RunFacts
<1> QED
  BY <1>0, <1>1, <1>2, <1>3, <1>4, ServerMoves

-----------------------------------------------------------------------------
(* ChatPage: steps of a stream *)

LEMMA StreamFacts ==
    ASSUME PageInv, NEW s \in Streams
    PROVE  /\ StreamOK(stream[s], tab.lastSeq, quiet, transcript, runner, channel) /\ stream[s] \in PageRequests
           /\ IsRequest(stream[s], transcript) /\ Opened(stream[s], tab.lastSeq, transcript, channel)
           /\ stream[s].kind \in {"none", "submit", "tail", "final", "spent"} /\ stream[s].at \in Stages /\ stream[s].cursor \in Nat
           /\ stream[s].rx \in Receivers /\ stream[s].replay \subseteq 1 .. Len(transcript)
           /\ stream[s].rx.buffer \in Seq(1 .. Len(transcript))
BY PageFacts DEF StreamOK, IsRequest, PageRequests

\* A step of one stream that leaves the page alone.
LEMMA QuietMove ==
    ASSUME PageInv, UNCHANGED <<transcript, turn, channel, runner, quiet, tab, poll, skipped>>, NEW s \in Streams, NEW x,
           stream' = [stream EXCEPT ![s] = x], stream[s].at # "idle", StreamOK(x, tab.lastSeq, quiet, transcript, runner, channel),
           \A n \in 1 .. tab.lastSeq : Passed(n, tab.lastSeq, transcript) /\ Promises(stream[s], n) => Promises(x, n)
    PROVE  PageInv'
<1>1. tab.at = "open" /\ tab'.at = "open" /\ tab.lastSeq <= tab'.lastSeq /\ tab.shown \subseteq tab'.shown
      /\ IsTab(tab', transcript) /\ skipped \subseteq skipped' /\ tab'.lastSeq = tab.lastSeq /\ tab'.shown = tab.shown
  BY NoPolls, PageFacts
<1>2. \A n \in 1 .. tab'.lastSeq : n <= tab.lastSeq
  BY <1>1, PageFacts
<1> QED
  BY <1>1, <1>2, StreamMove

LEMMA BreakSteps ==
    ASSUME PageInv, NEW s \in Streams, Drop(s) \/ Refuse(s)
    PROVE  PageInv'
<1>1. PICK a \in {"broken", "refused"} : stream' = [stream EXCEPT ![s].at = a]
  BY DEF Drop, Refuse
<1>2. UNCHANGED <<transcript, turn, channel, runner, quiet, tab, poll, skipped>> /\ stream[s].at # "idle"
  BY DEF Drop, Refuse, PageOnly, server, client
<1> DEFINE x == [stream[s] EXCEPT !.at = a]
<1>3. stream' = [stream EXCEPT ![s] = x]
  BY <1>1, PageFacts
<1>4. StreamOK(x, tab.lastSeq, quiet, transcript, runner, channel) /\ x.kind = stream[s].kind /\ x.cursor = stream[s].cursor /\ x.at = a
  BY StreamFacts, Elsewhere
<1>5. \A n : Promises(stream[s], n) => Promises(x, n)
  BY <1>4 DEF Promises
<1> HIDE DEF x
<1> QED
  BY <1>2, <1>3, <1>4, <1>5, QuietMove

\* The page makes its request anew.
LEMMA EmptyStream ==
    ASSUME PageInv, NEW ls \in Nat
    PROVE  StreamOK(Unasked, ls, quiet, transcript, runner, channel)
<1>1. /\ Unasked \in PageRequests /\ Unasked.kind = "none" /\ Unasked.at = "idle" /\ Unasked.cursor = 0 /\ Unasked.replay = {}
      /\ Unasked.rx.on = FALSE /\ Unasked.rx.buffer = <<>>
  BY Unasks DEF Unasked, Detached
<1>2. <<>> \in Seq(1 .. Len(transcript))
  OBVIOUS
<1> QED
  BY <1>1, <1>2 DEF StreamOK, IsRequest, Opened

LEMMA Scheduled ==
    ASSUME PageInv, NEW saw, onStreamEnd(saw)
    PROVE  Unmoved(tab')
<1>1. PICK k \in Nat : k = tab.reopenAttempts + 1
  BY PageFacts DEF PageTabs
<1>2. \/ tab' = tab \/ tab' = [tab EXCEPT !.busy = FALSE] \/ tab' = [tab EXCEPT !.polling = TRUE]
      \/ tab' = [tab EXCEPT !.reopenAttempts = k, !.reopenTimer = TRUE]
  BY <1>1, PageFacts DEF onStreamEnd, scheduleReopen, PageTabs
<1> QED
  BY <1>2, PageFacts DEF Unmoved, PageTabs

LEMMA EndSteps ==
    ASSUME PageInv, NEW s \in Streams, StreamEnd(s) \/ StreamBroken(s)
    PROVE  PageInv'
<1>0. UNCHANGED <<transcript, turn, channel, runner, quiet, poll>> /\ stream[s].at # "idle" /\ stream' = [stream EXCEPT ![s] = Unasked]
  BY DEF StreamEnd, StreamBroken, PageOnly, server
<1>1. tab.at = "open"
  BY <1>0, NoPolls
<1>2. Unmoved(tab')
  <2>1. \/ tab' = tab \/ tab' = [tab EXCEPT !.busy = FALSE] \/ tab' = [tab EXCEPT !.busy = FALSE, !.note = FALSE]
        \/ onStreamEnd(stream[s].saw) \/ onStreamEnd(FALSE)
    BY DEF StreamEnd, StreamBroken
  <2>2. CASE tab' = tab \/ tab' = [tab EXCEPT !.busy = FALSE] \/ tab' = [tab EXCEPT !.busy = FALSE, !.note = FALSE]
    BY <2>2, PageFacts DEF Unmoved, PageTabs
  <2> QED
    BY <2>1, <2>2, Scheduled
<1>3. IsTab(tab', transcript) /\ tab'.lastSeq = tab.lastSeq /\ tab'.shown = tab.shown /\ tab'.at = "open"
  BY <1>1, <1>2, SameRows DEF Unmoved
<1>4. skipped \subseteq skipped' /\ \A n \in 1 .. tab.lastSeq : Passed(n, tab.lastSeq, transcript) /\ Promises(stream[s], n) =>
        n \in tab.shown \cup skipped'
  <2>1. CASE StreamEnd(s)
    BY <2>1 DEF StreamEnd, Promises
  <2>2. CASE StreamBroken(s)
    <3>1. ASSUME NEW n \in 1 .. tab.lastSeq, Passed(n, tab.lastSeq, transcript), Promises(stream[s], n)
          PROVE  n \in tab.shown \cup skipped'
      <4>1. n \in AgentRows(stream[s].cursor, tab.lastSeq)
        BY <3>1, PageFacts, StreamFacts, RowsPassed DEF Promises
      <4> QED
        BY <2>2, <3>1, <4>1 DEF StreamBroken, Promises
    <3>2. skipped \subseteq skipped'
      BY <2>2 DEF StreamBroken
    <3> QED
      BY <3>1, <3>2
  <2> QED
    BY <2>1, <2>2
<1>5. StreamOK(Unasked, tab'.lastSeq, quiet, transcript, runner, channel) /\ tab.lastSeq <= tab'.lastSeq
  BY <1>3, PageFacts, EmptyStream
<1>6. \A n \in 1 .. tab'.lastSeq : n <= tab.lastSeq
  BY <1>3, PageFacts
<1> QED
  BY <1>0, <1>1, <1>3, <1>4, <1>5, <1>6, StreamMove

LEMMA Reattaches ==
    ASSUME PageInv, NEW s \in Streams, api_chat_reattach(s)
    PROVE  PageInv'
<1>1. PICK a \in {"subscribe", "snapshot"} : stream' = [stream EXCEPT ![s].at = a]
  BY DEF api_chat_reattach
<1>2. /\ UNCHANGED <<transcript, turn, channel, runner, quiet, tab, poll, skipped>> /\ stream[s].at = "asked"
      /\ stream[s].kind # "submit"
  BY DEF api_chat_reattach, StreamOnly, client
<1> DEFINE x == [stream[s] EXCEPT !.at = a]
<1>3. stream' = [stream EXCEPT ![s] = x]
  BY <1>1, PageFacts
<1>4. /\ x \in PageRequests /\ x.kind = stream[s].kind /\ x.at = a /\ x.cursor = stream[s].cursor /\ x.replay = stream[s].replay
      /\ x.rx = stream[s].rx
  <2>1. stream[s] \in PageRequests /\ a \in Stages
    BY StreamFacts DEF Stages
  <2> QED
    BY <2>1 DEF PageRequests
<1> HIDE DEF x
<1>5. StreamOK(x, tab.lastSeq, quiet, transcript, runner, channel)
  BY <1>2, <1>4, StreamFacts DEF StreamOK, IsRequest, Opened
<1>6. \A n : Promises(stream[s], n) => Promises(x, n)
  BY <1>4, <1>2 DEF Promises
<1> QED
  BY <1>2, <1>3, <1>5, <1>6, QuietMove

\* A snapshot has every row behind the cursor but the user's: whatever the
\* buffer has already, no row of the turn is missing.
LEMMA Snapshot ==
    ASSUME PageInv, NEW s \in Streams, stream[s].at = "snapshot", NEW m \in 1 .. Len(transcript), NEW x,
           x.replay = messages_after(stream[s].cursor)
    PROVE  Brings(m, x, tab.lastSeq, quiet, transcript)
<1>1. Opened(stream[s], tab.lastSeq, transcript, channel) /\ stream[s].cursor \in Nat /\ tab.lastSeq \in Nat /\ Len(transcript) \in Nat
  BY StreamFacts, PageFacts
<1>2. CASE transcript[m] = "user"
  BY <1>1, <1>2 DEF Brings, Fine
<1>3. CASE m > stream[s].cursor /\ transcript[m] # "user"
  BY <1>3, PageFacts DEF Brings, messages_after
<1>4. CASE m <= stream[s].cursor
  <2>1. CASE stream[s].kind = "submit"
    <3>1. stream[s].cursor \in 1 .. Len(transcript) /\ transcript[stream[s].cursor] = "user"
      BY <1>1, <2>1 DEF Opened
    <3>2. stream[s].cursor \in m .. Len(transcript)
      BY <1>4, <3>1
    <3> QED
      BY <3>1, <3>2 DEF Brings, Fine
  <2>2. CASE stream[s].kind # "submit"
    BY <1>1, <1>4, <2>2 DEF Opened, Brings, Fine
  <2> QED
    BY <2>1, <2>2
<1> QED
  BY <1>1, <1>2, <1>3, <1>4

LEMMA Subscribes ==
    ASSUME PageInv, NEW s \in Streams, chat_stream_response(s)
    PROVE  PageInv'
<1>0. UNCHANGED <<transcript, turn, channel, runner, quiet, tab, poll, skipped>>
  BY DEF chat_stream_response, StreamOnly, client
<1>01. stream[s] \in PageRequests /\ channel \in BOOLEAN
  BY StreamFacts DEF PageInv
<1>1. CASE stream[s].at = "subscribe" /\ stream' = [stream EXCEPT ![s].rx = subscribe, ![s].at = "snapshot"]
  <2> DEFINE rx == subscribe
             x == [stream[s] EXCEPT !.rx = rx, !.at = "snapshot"]
  <2>1. rx \in Receivers /\ rx.on = channel /\ rx.buffer = <<>>
    <3>1. Detached \in Receivers /\ Detached.buffer = <<>> /\ rx = [Detached EXCEPT !.on = channel]
      BY DEF Detached, Receivers, subscribe
    <3> QED
      BY <1>01, <3>1 DEF Receivers
  <2> HIDE DEF rx
  <2>2. /\ x \in PageRequests /\ x.kind = stream[s].kind /\ x.at = "snapshot" /\ x.cursor = stream[s].cursor
        /\ x.replay = stream[s].replay /\ x.rx = rx
    BY <1>01, <2>1 DEF PageRequests, Stages
  <2>3. stream' = [stream EXCEPT ![s] = x]
    BY <1>1, PageFacts DEF rx
  <2> HIDE DEF x
  <2>4. <<>> \in Seq(1 .. Len(transcript))
    OBVIOUS
  <2>5. StreamOK(x, tab.lastSeq, quiet, transcript, runner, channel)
    BY <1>01, <1>1, <2>1, <2>2, <2>4, StreamFacts DEF StreamOK, IsRequest, Opened
  <2>6. \A n : Promises(stream[s], n) => Promises(x, n)
    BY <1>1, <2>2 DEF Promises
  <2> QED
    BY <1>0, <1>1, <2>3, <2>5, <2>6, QuietMove
<1>2. CASE stream[s].at = "snapshot" /\ stream' = [stream EXCEPT ![s].replay = messages_after(stream[s].cursor), ![s].at = "flow"]
  <2> DEFINE rows == messages_after(stream[s].cursor)
             x == [stream[s] EXCEPT !.replay = rows, !.at = "flow"]
  <2>1. rows \subseteq 1 .. Len(transcript) /\ rows \subseteq Nat
    BY PageFacts DEF messages_after
  <2>3. stream' = [stream EXCEPT ![s] = x]
    BY <1>2, PageFacts
  <2>4. \A n : Passed(n, tab.lastSeq, transcript) /\ stream[s].cursor < n => n \in rows
    BY PageFacts DEF messages_after, Passed
  <2>5. ASSUME NEW y, y.replay = rows, NEW m \in 1 .. Len(transcript) PROVE Brings(m, y, tab.lastSeq, quiet, transcript)
    BY <1>2, <2>5, Snapshot
  <2> HIDE DEF rows
  <2>2. /\ x \in PageRequests /\ x.kind = stream[s].kind /\ x.at = "flow" /\ x.cursor = stream[s].cursor
        /\ x.replay = rows /\ x.rx = stream[s].rx
    BY <1>01, <2>1 DEF PageRequests, Stages
  <2> HIDE DEF x
  <2>6. \A m \in 1 .. Len(transcript) : Brings(m, x, tab.lastSeq, quiet, transcript)
    BY <2>2, <2>5
  <2>7. IsRequest(x, transcript) /\ Opened(x, tab.lastSeq, transcript, channel)
    BY <1>2, <2>1, <2>2, StreamFacts DEF IsRequest, Opened
  <2>8. InOrder(x, tab.lastSeq, quiet, transcript)
    <3>1. \A n \in x.replay : \A m \in 1 .. n - 1 : m \in 1 .. Len(transcript)
      BY <2>7, PageFacts DEF IsRequest
    <3>2. \A i \in 1 .. Len(x.rx.buffer) : \A m \in 1 .. x.rx.buffer[i] - 1 : m \in 1 .. Len(transcript)
      <4> SUFFICES ASSUME NEW i \in 1 .. Len(x.rx.buffer), NEW m \in 1 .. x.rx.buffer[i] - 1 PROVE m \in 1 .. Len(transcript)
        OBVIOUS
      <4>1. x.rx.buffer[i] \in 1 .. Len(transcript)
        BY <2>7 DEF IsRequest
      <4> QED
        BY <4>1, PageFacts
    <3> QED
      BY <2>6, <3>1, <3>2 DEF InOrder
  <2>9. StreamOK(x, tab.lastSeq, quiet, transcript, runner, channel)
    BY <2>6, <2>7, <2>8 DEF StreamOK, UpToDate
  <2>10. \A n : Passed(n, tab.lastSeq, transcript) /\ Promises(stream[s], n) => Promises(x, n)
    BY <1>2, <2>2, <2>4 DEF Promises
  <2> QED
    BY <1>0, <1>2, <2>3, <2>9, <2>10, QuietMove
<1> QED
  BY <1>1, <1>2 DEF chat_stream_response

LEMMA Submits ==
    ASSUME PageInv, NEW s \in Streams, submit_turn(s)
    PROVE  PageInv'
<1>0. UNCHANGED <<quiet, tab, poll, skipped>> /\ stream[s].kind = "submit" /\ stream[s].at # "idle"
  BY DEF submit_turn, StreamOnly, client
<1>01. /\ transcript \in Seq(Roles) /\ "user" \in Roles /\ Len(transcript) \in Nat /\ tab.lastSeq \in Nat
       /\ stream[s] \in PageRequests /\ Unasked.at = "idle" /\ stream = [u \in Streams |-> stream[u]]
  BY PageFacts DEF Roles, Unasked
<1>1. CASE stream[s].at = "asked" /\ turn.status = "running" /\ stream' = [stream EXCEPT ![s].at = "refused"]
           /\ UNCHANGED <<transcript, turn, channel, runner>>
  <2> DEFINE x == [stream[s] EXCEPT !.at = "refused"]
  <2>1. stream' = [stream EXCEPT ![s] = x]
    BY <1>1, PageFacts
  <2>2. StreamOK(x, tab.lastSeq, quiet, transcript, runner, channel)
    BY StreamFacts, Elsewhere
  <2>3. \A n : ~Promises(stream[s], n)
    BY <1>0 DEF Promises
  <2> HIDE DEF x
  <2> QED
    BY <1>0, <1>1, <2>1, <2>2, <2>3, QuietMove
\* The others' receivers are closed, the request goes on.
<1>2. ASSUME NEW x, \A u \in Streams : u # s => stream'[u] = [stream[u] EXCEPT !.rx.on = FALSE], stream'[s] = x,
             stream' = [u \in Streams |-> stream'[u]], IsRun(runner', transcript'), channel' \in BOOLEAN, turn' \in PageTurns,
             transcript' = transcript \/ transcript' = Append(transcript, "user"),
             StreamOK(x, tab.lastSeq, quiet, transcript', runner', channel')
      PROVE  PageInv'
  <2>1. ASSUME NEW u \in Streams, u # s
        PROVE  /\ StreamOK(stream'[u], tab.lastSeq, quiet, transcript', runner', channel')
               /\ stream[u] = Unasked => stream'[u] = Unasked
               /\ \A n : Promises(stream[u], n) => Promises(stream'[u], n)
    <3>1. StreamOK(stream[u], tab.lastSeq, quiet, transcript, runner, channel) /\ stream[u] \in PageRequests
      BY StreamFacts
    <3>2. StreamOK([stream[u] EXCEPT !.rx.on = FALSE], tab.lastSeq, quiet, transcript, runner', channel')
      BY <1>01, <3>1, Closes, ZenonT(30)
    <3>3. StreamOK(stream'[u], tab.lastSeq, quiet, transcript, runner', channel')
      BY <1>2, <2>1, <3>2
    <3>4. StreamOK(stream'[u], tab.lastSeq, quiet, transcript', runner', channel')
      <4>1. CASE transcript' = transcript
        BY <3>3, <4>1
      <4>2. CASE transcript' = Append(transcript, "user")
        <5>1. StreamOK(stream'[u], tab.lastSeq, quiet, Append(transcript, "user"), runner', channel')
          BY <1>01, <3>3, UserRow, ZenonT(30)
        <5> QED
          BY <4>2, <5>1
      <4> QED
        BY <1>2, <4>1, <4>2
    <3>5. stream'[u].kind = stream[u].kind /\ stream'[u].at = stream[u].at /\ stream'[u].cursor = stream[u].cursor /\ stream'[u].replay = stream[u].replay
      BY <1>2, <2>1, <3>1 DEF PageRequests
    <3>6. stream[u] = Unasked => stream'[u] = Unasked
      BY <1>2, <2>1, Unasks
    <3> QED
      BY <3>4, <3>5, <3>6 DEF Promises
  <2>2. stream[s] # Unasked /\ \A n : ~Promises(stream[s], n)
    BY <1>0, <1>01 DEF Promises
  <2>3. \A u \in Streams : /\ StreamOK(stream'[u], tab.lastSeq, quiet', transcript', runner', channel')
                           /\ stream[u] = Unasked => stream'[u] = Unasked
                           /\ \A n \in 1 .. tab.lastSeq : Promises(stream[u], n) => Promises(stream'[u], n)
    BY <1>0, <1>2, <2>1, <2>2
  <2>4. transcript' = transcript \/ \E role \in Roles : transcript' = Append(transcript, role)
    BY <1>01, <1>2
  <2> QED
    BY <1>0, <1>2, <2>3, <2>4, ServerStep
<1>3. CASE /\ stream[s].at = "asked" /\ create_turn /\ runner' = NoRun
           /\ remove([stream EXCEPT ![s].at = "spawn", ![s].cursor = Len(transcript) + 1])
  <2> DEFINE k == Len(transcript) + 1
             z == [stream[s] EXCEPT !.at = "spawn", !.cursor = k]
             x == [z EXCEPT !.rx.on = FALSE]
  <2>1. k \in Nat /\ transcript' = Append(transcript, "user") /\ k \in 1 .. Len(transcript') /\ transcript'[k] = "user" /\ channel' = FALSE
    BY <1>01, <1>3 DEF create_turn, remove
  <2>2. stream' = [u \in Streams |-> stream'[u]] /\ stream'[s] = x /\ \A u \in Streams : u # s => stream'[u] = [stream[u] EXCEPT !.rx.on = FALSE]
    BY <1>01, <1>3 DEF remove, Closing
  <2> HIDE DEF k
  <2>3. z \in PageRequests /\ z.kind = stream[s].kind /\ z.at = "spawn" /\ z.cursor = k /\ z.replay = stream[s].replay /\ z.rx = stream[s].rx
    BY <1>01, <2>1 DEF PageRequests, Stages
  <2> HIDE DEF z
  <2>4. x \in PageRequests /\ x.kind = z.kind /\ x.at = "spawn" /\ x.cursor = k /\ x.replay = z.replay /\ x.rx.buffer = z.rx.buffer /\ x.rx.on = FALSE
    BY <2>3 DEF PageRequests, Receivers
  <2> HIDE DEF x
  <2>5. IsRequest(x, transcript)
    BY <2>3, <2>4, StreamFacts DEF IsRequest
  <2>6. IsRequest(x, transcript')
    BY <1>01, <2>1, <2>5, RequestGrows
  <2>7. StreamOK(x, tab.lastSeq, quiet, transcript', runner', channel')
    BY <1>0, <2>1, <2>3, <2>4, <2>6 DEF StreamOK, Opened
  <2>8. turn' \in PageTurns
    BY <1>3 DEF create_turn, PageTurns, Statuses
  <2> QED
    BY <1>2, <1>3, <2>1, <2>2, <2>7, <2>8, FreshRun
<1>4. CASE /\ stream[s].at = "spawn" /\ spawn_chat_run(FALSE, [stream EXCEPT ![s].at = "subscribe"])
           /\ UNCHANGED <<transcript, turn>>
  <2> DEFINE z == [stream[s] EXCEPT !.at = "subscribe"]
             x == [z EXCEPT !.rx.on = FALSE]
  <2>2. stream' = [u \in Streams |-> stream'[u]] /\ stream'[s] = x /\ \A u \in Streams : u # s => stream'[u] = [stream[u] EXCEPT !.rx.on = FALSE]
    BY <1>01, <1>4 DEF spawn_chat_run, register, Closing
  <2>3. z \in PageRequests /\ z.kind = stream[s].kind /\ z.at = "subscribe" /\ z.cursor = stream[s].cursor /\ z.replay = stream[s].replay /\ z.rx = stream[s].rx
    BY <1>01 DEF PageRequests, Stages
  <2> HIDE DEF z
  <2>4. x \in PageRequests /\ x.kind = z.kind /\ x.at = "subscribe" /\ x.cursor = z.cursor /\ x.replay = z.replay /\ x.rx.buffer = z.rx.buffer /\ x.rx.on = FALSE
    BY <2>3 DEF PageRequests, Receivers
  <2> HIDE DEF x
  <2>5. IsRequest(x, transcript)
    BY <2>3, <2>4, StreamFacts DEF IsRequest
  <2>6. StreamOK(x, tab.lastSeq, quiet, transcript', runner', channel')
    BY <1>0, <1>4, <2>3, <2>4, <2>5, StreamFacts DEF StreamOK, Opened
  <2>7. IsRun(runner', transcript') /\ channel' = TRUE /\ turn' \in PageTurns
    BY <1>4, FreshRun, RunFacts DEF spawn_chat_run, register
  <2> QED
    BY <1>2, <1>4, <2>2, <2>6, <2>7
<1> QED
  BY <1>1, <1>3, <1>4 DEF submit_turn

\* The page has row n, and its cursor is at it at least.
LEMMA Handled ==
    ASSUME PageInv, NEW s \in Streams, NEW n \in 1 .. Len(transcript), NEW replayed \in BOOLEAN, handleEvent(s, n, replayed)
    PROVE  /\ IsTab(tab', transcript) /\ tab'.at = tab.at /\ tab.shown \subseteq tab'.shown /\ n \in tab'.shown
           /\ tab.lastSeq <= tab'.lastSeq /\ n <= tab'.lastSeq /\ (tab'.lastSeq = tab.lastSeq \/ tab'.lastSeq = n)
<1>0. tab \in PageTabs /\ tab.lastSeq \in Nat /\ tab.lastSeq <= Len(transcript) /\ Len(transcript) \in Nat
      /\ tab.seen \subseteq 1 .. tab.lastSeq /\ tab.seen \subseteq tab.shown
  BY PageFacts DEF IsTab
<1>1. CASE n \in tab.seen
  <2>1. tab' = tab
    BY <1>1 DEF handleEvent
  <2> QED
    BY <1>0, <1>1, <2>1, PageFacts
<1>2. CASE n \notin tab.seen
  <2> DEFINE top == IF n > tab.lastSeq THEN n ELSE tab.lastSeq
             b == tab.busy /\ transcript[n] # "error" /\ ~(transcript[n] = "assistant" /\ ~replayed)
  <2>1. tab' = [tab EXCEPT !.seen = tab.seen \cup {n}, !.shown = tab.shown \cup {n}, !.lastSeq = top, !.busy = b]
    BY <1>0, <1>2 DEF handleEvent, PageTabs
  <2>2. top \in Nat /\ tab.lastSeq <= top /\ n <= top /\ top <= Len(transcript) /\ (top = tab.lastSeq \/ top = n)
    BY <1>0
  <2>3. b \in BOOLEAN /\ n \in Nat
    OBVIOUS
  <2> HIDE DEF top, b
  <2>4. /\ tab' \in PageTabs /\ tab'.at = tab.at /\ tab'.lastSeq = top /\ tab'.seen = tab.seen \cup {n}
        /\ tab'.shown = tab.shown \cup {n}
    BY <1>0, <2>1, <2>2, <2>3 DEF PageTabs
  <2> QED
    BY <1>0, <2>2, <2>4 DEF IsTab
<1> QED
  BY <1>1, <1>2

\* The rows replayed come in order, so the cursor passes none.
LEMMA Replays ==
    ASSUME PageInv, NEW s \in Streams, stream[s].at = "flow", UNCHANGED <<transcript, turn, channel, runner, quiet, poll, skipped>>,
           NEW n \in stream[s].replay, \A m \in stream[s].replay : n <= m, handleEvent(s, n, TRUE), NEW w \in BOOLEAN,
           stream' = [stream EXCEPT ![s].replay = @ \ {n}, ![s].saw = w]
    PROVE  PageInv'
<1> DEFINE old == stream[s]
           x == [old EXCEPT !.replay = old.replay \ {n}, !.saw = w]
<1>0. /\ old \in PageRequests /\ n \in 1 .. Len(transcript) /\ old.replay \subseteq 1 .. Len(transcript) /\ tab.at = "open"
      /\ Len(transcript) \in Nat /\ tab.lastSeq \in Nat /\ transcript \in Seq(Roles)
      /\ StreamOK(old, tab.lastSeq, quiet, transcript, runner, channel)
  BY StreamFacts, NoPolls, PageFacts
<1>1. /\ IsTab(tab', transcript) /\ tab'.at = tab.at /\ tab.shown \subseteq tab'.shown /\ n \in tab'.shown
      /\ tab.lastSeq <= tab'.lastSeq /\ n <= tab'.lastSeq /\ (tab'.lastSeq = tab.lastSeq \/ tab'.lastSeq = n)
  BY <1>0, Handled
<1>2. tab'.lastSeq \in Nat
  BY <1>1 DEF IsTab, PageTabs
<1>3. stream' = [stream EXCEPT ![s] = x]
  BY PageFacts
<1>4. /\ x \in PageRequests /\ x.kind = old.kind /\ x.at = "flow" /\ x.cursor = old.cursor
      /\ x.replay = old.replay \ {n} /\ x.rx = old.rx
  BY <1>0 DEF PageRequests
<1> HIDE DEF x, old
<1>5. StreamOK(old, tab'.lastSeq, quiet, transcript, runner, channel)
  BY <1>0, <1>1, <1>2, StreamGrows
<1>6. \A m \in Nat : Brings(m, old, tab'.lastSeq, quiet, transcript) => Brings(m, x, tab'.lastSeq, quiet, transcript)
  BY <1>1, <1>4 DEF Brings, Fine
<1>7. StreamOK(x, tab'.lastSeq, quiet, transcript, runner, channel)
  <2>1. IsRequest(x, transcript) /\ Opened(x, tab'.lastSeq, transcript, channel)
    BY <1>4, <1>5 DEF StreamOK, IsRequest, Opened, old
  <2>2. InOrder(old, tab'.lastSeq, quiet, transcript) /\ UpToDate(old, tab'.lastSeq, quiet, transcript, runner)
    BY <1>5 DEF StreamOK, old
  <2>3. InOrder(x, tab'.lastSeq, quiet, transcript)
    <3>1. \A k \in x.replay : \A m \in 1 .. k - 1 : m \in Nat /\ Brings(m, x, tab'.lastSeq, quiet, transcript)
      BY <1>4, <1>6, <2>2 DEF InOrder
    <3>2. old.rx.lagged = FALSE => \A i \in 1 .. Len(old.rx.buffer) : \A m \in 1 .. old.rx.buffer[i] - 1 :
            m \in Nat /\ (Brings(m, x, tab'.lastSeq, quiet, transcript) \/ \E j \in 1 .. i - 1 : old.rx.buffer[j] = m)
      BY <1>6, <2>2 DEF InOrder
    <3> QED
      BY <1>4, <3>1, <3>2 DEF InOrder
  <2>4. UpToDate(x, tab'.lastSeq, quiet, transcript, runner)
    <3>1. \A m \in 1 .. Len(transcript) : m \in Nat
      OBVIOUS
    <3> SUFFICES ASSUME old.rx.lagged = FALSE, old.rx.on # FALSE, Telling(runner), NEW m \in 1 .. Len(transcript)
                 PROVE  \/ Brings(m, x, tab'.lastSeq, quiet, transcript)
                        \/ \E j \in 1 .. Len(old.rx.buffer) : old.rx.buffer[j] = m
                        \/ runner.at = "broadcast" /\ m = runner.row
      BY <1>4 DEF UpToDate
    <3>2. \/ Brings(m, old, tab'.lastSeq, quiet, transcript)
          \/ \E j \in 1 .. Len(old.rx.buffer) : old.rx.buffer[j] = m
          \/ runner.at = "broadcast" /\ m = runner.row
      BY <2>2 DEF UpToDate
    <3> QED
      BY <1>6, <3>1, <3>2
  <2> QED
    BY <2>1, <2>3, <2>4 DEF StreamOK
<1>8. ASSUME NEW m \in 1 .. tab'.lastSeq, Passed(m, tab'.lastSeq, transcript)
      PROVE  \/ m \in tab'.shown \cup skipped' \cup quiet
             \/ m <= tab.lastSeq /\ (Promises(stream[s], m) => Promises(x, m))
  <2>1. CASE m = n
    BY <1>1, <2>1
  <2>2. CASE m <= tab.lastSeq /\ m # n
    BY <1>4, <2>2 DEF Promises, old
  <2>3. CASE ~(m <= tab.lastSeq) /\ m # n
    <3>1. m \in 1 .. n - 1 /\ m \in 1 .. Len(transcript)
      BY <1>0, <1>1, <1>2, <2>3
    <3>2. Brings(m, old, tab.lastSeq, quiet, transcript)
      BY <1>0, <3>1 DEF StreamOK, InOrder, old
    <3>3. m \notin old.replay
      BY <1>0, <3>1 DEF old
    <3>4. ~\E k \in m .. Len(transcript) : transcript[k] = "user"
      BY <1>8, <3>1 DEF Passed
    <3> QED
      BY <2>3, <3>2, <3>3, <3>4 DEF Brings, Fine
  <2> QED
    BY <2>1, <2>2, <2>3
<1> QED
  BY <1>0, <1>1, <1>3, <1>7, <1>8, StreamMove

LEMMA Tails ==
    ASSUME NEW S, NEW b \in Seq(S), b # <<>>
    PROVE  /\ Len(b) \in Nat /\ Len(b) >= 1 /\ Head(b) = b[1] /\ b[1] \in S /\ Tail(b) \in Seq(S)
           /\ Len(Tail(b)) = Len(b) - 1 /\ \A i \in 1 .. Len(Tail(b)) : Tail(b)[i] = b[i + 1]
<1>1. Len(b) \in Nat /\ Len(b) >= 1 /\ Head(b) = b[1] /\ b[1] \in S
  OBVIOUS
<1>2. Tail(b) \in Seq(S) /\ Len(Tail(b)) = Len(b) - 1
  OBVIOUS
<1>3. \A i \in 1 .. Len(b) - 1 : Tail(b)[i] = b[i + 1]
  OBVIOUS
<1> QED
  BY <1>1, <1>2, <1>3

\* Of the live events, too, the next is the next the page lacks.
LEMMA Lives ==
    ASSUME PageInv, NEW s \in Streams, stream[s].at = "flow", UNCHANGED <<transcript, turn, channel, runner, quiet, poll, skipped>>,
           stream[s].replay = {}, stream[s].rx.lagged = FALSE, stream[s].rx.buffer # <<>>, NEW n, n = Head(stream[s].rx.buffer),
           handleEvent(s, n, FALSE), NEW w \in BOOLEAN, NEW a \in {"end", "flow"},
           stream' = [stream EXCEPT ![s].rx.buffer = Tail(@), ![s].saw = w, ![s].at = a]
    PROVE  PageInv'
<1> DEFINE old == stream[s]
           b == old.rx.buffer
           c == Tail(b)
           z == [old.rx EXCEPT !.buffer = c]
           x == [old EXCEPT !.rx = z, !.saw = w, !.at = a]
<1>0. /\ old \in PageRequests /\ b \in Seq(1 .. Len(transcript)) /\ tab.at = "open" /\ old.rx \in Receivers
      /\ Len(transcript) \in Nat /\ tab.lastSeq \in Nat /\ transcript \in Seq(Roles)
      /\ StreamOK(old, tab.lastSeq, quiet, transcript, runner, channel)
  BY StreamFacts, NoPolls, PageFacts
<1>01. /\ Len(b) \in Nat /\ Len(b) >= 1 /\ n = b[1] /\ n \in 1 .. Len(transcript) /\ c \in Seq(1 .. Len(transcript))
       /\ Len(c) = Len(b) - 1 /\ \A i \in 1 .. Len(c) : c[i] = b[i + 1]
  <2>1. b \in Seq(1 .. Len(transcript)) /\ b # <<>> /\ n = Head(b) /\ c = Tail(b)
    BY <1>0
  <2> HIDE DEF b, c
  <2> QED
    BY <2>1, Tails
<1>011. n = b[1] /\ Len(c) = Len(b) - 1 /\ Len(b) \in Nat /\ n \in Nat
  BY <1>01
<1>02. c \in Seq(Nat)
  BY <1>0, <1>01, Numbers
<1>1. /\ IsTab(tab', transcript) /\ tab'.at = tab.at /\ tab.shown \subseteq tab'.shown /\ n \in tab'.shown
      /\ tab.lastSeq <= tab'.lastSeq /\ n <= tab'.lastSeq /\ (tab'.lastSeq = tab.lastSeq \/ tab'.lastSeq = n)
  BY <1>01, Handled
<1>2. tab'.lastSeq \in Nat
  BY <1>1 DEF IsTab, PageTabs
<1>3. stream' = [stream EXCEPT ![s] = x]
  BY <1>0, PageFacts
<1> HIDE DEF c
<1>4. z \in Receivers /\ z.buffer = c /\ z.on = old.rx.on /\ z.lagged = old.rx.lagged
  BY <1>0, <1>02 DEF Receivers
<1> HIDE DEF z
<1>5. /\ x \in PageRequests /\ x.kind = old.kind /\ x.at = a /\ x.cursor = old.cursor /\ x.replay = {} /\ x.rx = z
  BY <1>0, <1>4 DEF PageRequests, Stages
<1> HIDE DEF x, b, old
<1>6. /\ StreamOK(old, tab'.lastSeq, quiet, transcript, runner, channel)
      /\ InOrder(old, tab'.lastSeq, quiet, transcript) /\ UpToDate(old, tab'.lastSeq, quiet, transcript, runner)
  <2>1. StreamOK(old, tab'.lastSeq, quiet, transcript, runner, channel)
    BY <1>0, <1>1, <1>2, StreamGrows
  <2> QED
    BY <2>1 DEF StreamOK, old
<1>7. \A m \in Nat : Brings(m, old, tab'.lastSeq, quiet, transcript) \/ m = n => Brings(m, x, tab'.lastSeq, quiet, transcript)
  BY <1>1, <1>5 DEF Brings, Fine, old
<1>8. StreamOK(x, tab'.lastSeq, quiet, transcript, runner, channel)
  <2>1. IsRequest(x, transcript)
    BY <1>01, <1>4, <1>5 DEF IsRequest
  <2>2. Opened(x, tab'.lastSeq, transcript, channel)
    BY <1>4, <1>5, <1>6 DEF StreamOK, Opened, old
  <2>3. ASSUME NEW i \in 1 .. Len(c), NEW m \in 1 .. c[i] - 1
        PROVE  Brings(m, x, tab'.lastSeq, quiet, transcript) \/ \E j \in 1 .. i - 1 : c[j] = m
    <3>1. i + 1 \in 1 .. Len(b) /\ m \in 1 .. b[i + 1] - 1 /\ i \in Nat
      BY <1>01
    <3>11. 1 .. (i + 1) - 1 = 1 .. i /\ m \in Nat
      BY <3>1
    <3>12. Brings(m, old, tab'.lastSeq, quiet, transcript) \/ \E j \in 1 .. (i + 1) - 1 : b[j] = m
      BY <1>6, <3>1 DEF InOrder, old, b
    <3>2. Brings(m, old, tab'.lastSeq, quiet, transcript) \/ \E j \in 1 .. i : b[j] = m
      BY <3>11, <3>12
    <3>3. CASE \E j \in 1 .. i : b[j] = m
      <4>1. PICK j \in 1 .. i : b[j] = m
        BY <3>3
      <4>2. CASE j = 1
        <5>1. m = n
          BY <1>011, <4>1, <4>2
        <5> QED
          BY <1>7, <3>11, <5>1
      <4>3. CASE j # 1
        <5>0. i \in Nat /\ i <= Len(c) /\ Len(c) \in Nat /\ j \in Nat /\ j >= 2 /\ j <= i
          BY <1>011, <3>1, <4>3
        <5>1. j - 1 \in 1 .. i - 1 /\ j - 1 \in 1 .. Len(c) /\ (j - 1) + 1 = j
          BY <5>0
        <5>2. c[j - 1] = m
          BY <1>01, <4>1, <5>1
        <5> QED
          BY <5>1, <5>2
      <4> QED
        BY <4>2, <4>3
    <3> QED
      BY <1>7, <3>2, <3>3
  <2>4. InOrder(x, tab'.lastSeq, quiet, transcript)
    BY <1>4, <1>5, <2>3 DEF InOrder
  <2>5. ASSUME x.rx.on # FALSE, Telling(runner), NEW m \in 1 .. Len(transcript)
        PROVE  \/ Brings(m, x, tab'.lastSeq, quiet, transcript)
               \/ \E j \in 1 .. Len(c) : c[j] = m
               \/ runner.at = "broadcast" /\ m = runner.row
    <3>1. \/ Brings(m, old, tab'.lastSeq, quiet, transcript)
          \/ \E j \in 1 .. Len(b) : b[j] = m
          \/ runner.at = "broadcast" /\ m = runner.row
      BY <1>4, <1>5, <1>6, <2>5 DEF UpToDate, old, b
    <3>2. CASE \E j \in 1 .. Len(b) : b[j] = m
      <4>1. PICK j \in 1 .. Len(b) : b[j] = m
        BY <3>2
      <4>2. CASE j = 1
        <5>1. m = n /\ m \in Nat
          BY <1>011, <4>1, <4>2
        <5> QED
          BY <1>7, <5>1
      <4>3. CASE j # 1
        <5>1. j - 1 \in 1 .. Len(c) /\ (j - 1) + 1 = j
          BY <1>01, <4>3
        <5>2. c[j - 1] = m
          BY <1>01, <4>1, <5>1
        <5> QED
          BY <5>1, <5>2
      <4> QED
        BY <4>2, <4>3
    <3> QED
      BY <1>7, <3>1, <3>2
  <2>6. UpToDate(x, tab'.lastSeq, quiet, transcript, runner)
    BY <1>4, <1>5, <2>5 DEF UpToDate
  <2> QED
    BY <2>1, <2>2, <2>4, <2>6 DEF StreamOK
<1>9. ASSUME NEW m \in 1 .. tab'.lastSeq, Passed(m, tab'.lastSeq, transcript)
      PROVE  \/ m \in tab'.shown \cup skipped' \cup quiet
             \/ m <= tab.lastSeq /\ (Promises(stream[s], m) => Promises(x, m))
  <2>1. CASE m = n
    BY <1>1, <2>1
  <2>2. CASE m <= tab.lastSeq /\ m # n
    BY <2>2 DEF Promises
  <2>3. CASE ~(m <= tab.lastSeq) /\ m # n
    <3>1. m \in 1 .. n - 1 /\ m \in 1 .. Len(transcript)
      BY <1>0, <1>01, <1>1, <1>2, <2>3
    <3>2. InOrder(old, tab.lastSeq, quiet, transcript)
      BY <1>0 DEF StreamOK, old
    <3>3. 1 \in 1 .. Len(b) /\ m \in 1 .. b[1] - 1
      BY <1>01, <3>1
    <3>4. Brings(m, old, tab.lastSeq, quiet, transcript) \/ \E j \in 1 .. 1 - 1 : b[j] = m
      BY <3>2, <3>3 DEF InOrder, old, b
    <3>5. Brings(m, old, tab.lastSeq, quiet, transcript) /\ m \notin old.replay
      BY <3>4 DEF old
    <3>6. ~\E k \in m .. Len(transcript) : transcript[k] = "user"
      BY <1>9, <3>1 DEF Passed
    <3> QED
      BY <2>3, <3>5, <3>6 DEF Brings, Fine
  <2> QED
    BY <2>1, <2>2, <2>3
<1> QED
  BY <1>0, <1>1, <1>3, <1>8, <1>9, StreamMove

LEMMA Delivers ==
    ASSUME PageInv, NEW s \in Streams, Deliver(s)
    PROVE  PageInv'
<1>0. UNCHANGED <<transcript, turn, channel, runner, quiet, poll, skipped>> /\ stream[s].at = "flow"
  BY DEF Deliver, PageOnly, server
<1>1. ASSUME NEW n \in stream[s].replay, \A m \in stream[s].replay : n <= m, handleEvent(s, n, TRUE),
             stream' = [stream EXCEPT ![s].replay = @ \ {n}, ![s].saw = Marks(s, n, TRUE)]
      PROVE  PageInv'
  <2>1. Marks(s, n, TRUE) \in BOOLEAN
    BY DEF Marks
  <2> QED
    BY <1>0, <1>1, <2>1, Replays
<1>2. ASSUME stream[s].replay = {}, ~stream[s].rx.lagged, stream[s].rx.buffer # <<>>, handleEvent(s, Head(stream[s].rx.buffer), FALSE),
             stream' = [stream EXCEPT ![s].rx.buffer = Tail(@), ![s].saw = Marks(s, Head(stream[s].rx.buffer), FALSE),
                                      ![s].at = IF Terminal(Head(stream[s].rx.buffer)) THEN "end" ELSE "flow"]
      PROVE  PageInv'
  <2> DEFINE n == Head(stream[s].rx.buffer)
             a == IF Terminal(n) THEN "end" ELSE "flow"
             w == Marks(s, n, FALSE)
  <2>1. w \in BOOLEAN /\ a \in {"end", "flow"} /\ stream[s].rx.lagged = FALSE
    BY <1>2, StreamFacts DEF Marks, Receivers
  <2>2. stream' = [stream EXCEPT ![s].rx.buffer = Tail(@), ![s].saw = w, ![s].at = a] /\ n = Head(stream[s].rx.buffer)
        /\ handleEvent(s, n, FALSE)
    BY <1>2
  <2> HIDE DEF n, a, w
  <2> QED
    BY <1>0, <1>2, <2>1, <2>2, Lives
<1>3. ASSUME stream[s].replay = {}, stream' = [stream EXCEPT ![s].at = "end"], UNCHANGED tab
      PROVE  PageInv'
  <2> DEFINE x == [stream[s] EXCEPT !.at = "end"]
  <2>1. stream' = [stream EXCEPT ![s] = x]
    BY <1>3, PageFacts
  <2>2. StreamOK(x, tab.lastSeq, quiet, transcript, runner, channel)
    BY StreamFacts, Elsewhere
  <2>3. \A n : ~Promises(stream[s], n)
    BY <1>0, <1>3 DEF Promises
  <2> HIDE DEF x
  <2> QED
    BY <1>0, <1>3, <2>1, <2>2, <2>3, QuietMove
<1> QED
  BY <1>1, <1>2, <1>3 DEF Deliver

-----------------------------------------------------------------------------
LEMMA PageInvStart ==
    ASSUME NEW asked, NEW had, PageInit(asked, had)
    PROVE  PageInv
<1>0. <<>> \in Seq(Roles) /\ Len(<<>>) = 0
  OBVIOUS
<1>1. transcript = <<>> /\ transcript \in Seq(Roles) /\ Len(transcript) = 0 /\ channel \in BOOLEAN
  BY <1>0 DEF PageInit
<1>2. turn \in PageTurns
  BY DEF PageInit, PageTurns, Statuses
<1>3. tab = NoTab /\ NoTab \in PageTabs /\ NoTab.lastSeq = 0 /\ NoTab.seen = {} /\ NoTab.at = "none" /\ NoTab.reopenTimer = FALSE /\ NoTab.polling = FALSE
  BY DEF PageInit, NoTab, PageTabs, Statuses
<1>4. poll = NoPoll /\ NoPoll \in PagePolls /\ NoPoll.cursor = 0 /\ NoPoll.max_seq = 0
  BY DEF PageInit, NoPoll, PagePolls, Statuses
<1>5. IsRun(runner, transcript)
  BY FreshRun DEF PageInit
<1>6. stream = [s \in Streams |-> Unasked]
  BY DEF PageInit
<1>7. /\ Unasked \in PageRequests /\ Unasked.kind = "none" /\ Unasked.at = "idle" /\ Unasked.cursor = 0 /\ Unasked.replay = {}
      /\ Unasked.rx.on = FALSE /\ Unasked.rx.buffer = <<>>
  BY Unasks DEF Unasked, Detached
<1>8. <<>> \in Seq(1 .. Len(transcript))
  OBVIOUS
<1>9. StreamOK(Unasked, tab.lastSeq, quiet, transcript, runner, channel)
  BY <1>3, <1>7, <1>8 DEF StreamOK, IsRequest, Opened
<1>10. IsTab(tab, transcript) /\ IsPoll(poll, tab.lastSeq, transcript)
  BY <1>1, <1>3, <1>4 DEF IsTab, IsPoll
<1>11. Unopened(tab, poll, stream) /\ Shown(tab, skipped, quiet, transcript, stream)
  BY <1>3, <1>4, <1>6 DEF Unopened, Shown
<1> QED
  BY <1>1, <1>2, <1>5, <1>6, <1>9, <1>10, <1>11 DEF PageInv

LEMMA PageInvStep ==
    ASSUME PageInv, [PageNext]_pvars
    PROVE  PageInv'
<1>1. CASE UNCHANGED pvars
  BY <1>1 DEF PageInv, pvars, server, client, turn_resumable
<1>2. ASSUME NEW s \in Streams, StreamStep(s) PROVE PageInv'
  BY <1>2, Submits, Reattaches, Subscribes, Delivers, EndSteps, BreakSteps DEF StreamStep
<1> QED
  BY <1>1, <1>2, RunnerSteps, TurnSteps, Dies, PageLoads, SendSteps, MetaSteps, PollAnswers DEF PageNext

LEMMA PageKeeps ==
    ASSUME PageInv
    PROVE  NoRowSkipped
<1> SUFFICES ASSUME tab.at = "open", NEW n \in AgentRows(0, tab.lastSeq), after_user_seq(n)
             PROVE  \/ n \in tab.shown \cup skipped \cup quiet
                    \/ \E s \in Streams : stream[s].kind \in {"final", "spent"} /\ stream[s].cursor < n
  BY DEF NoRowSkipped
<1>1. n \in 1 .. tab.lastSeq /\ Passed(n, tab.lastSeq, transcript)
  BY PageFacts DEF AgentRows, after_user_seq, Passed
<1>2. n \in tab.shown \cup skipped \cup quiet \/ \E s \in Streams : Promises(stream[s], n)
  BY <1>1, PageFacts DEF Shown
<1> QED
  BY <1>2 DEF Promises

LEMMA PageSteps == [Next]_avars => [PageNext]_pvars
BY DEF Next, avars

\* The page's cursor passes no row the page does not have, however many
\* streams, drops, lags, reopenings, polls and crashes there are.
THEOREM NoRowSkippedHolds == WebSpec => []NoRowSkipped
<1>1. Begins => PageInv
  BY PageInvStart DEF Begins
<1>2. PageInv /\ [PageNext]_pvars => PageInv'
  BY PageInvStep
<1>3. PageInv => NoRowSkipped
  BY PageKeeps
<1> QED
  BY <1>1, <1>2, <1>3, PageSteps, PTL DEF WebSpec
=============================================================================
