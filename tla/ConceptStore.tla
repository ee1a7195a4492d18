---------------------------- MODULE ConceptStore ----------------------------
(***************************************************************************)
(* One scope of the concept store (mycelium-store): the encrypted files    *)
(* (file_repo.rs), the scope_files registry and the facade that keeps them *)
(* in step (concept_store.rs), the search index (search_index.rs), the     *)
(* revision log (revisions.rs) and the generated index.md files, under     *)
(* tasks that put, patch, restore, delete and sweep concepts at the same   *)
(* time.                                                                   *)
(*                                                                         *)
(* Nothing holds a lock across an operation, so a step is one SQL          *)
(* statement or transaction, or one read, rename or unlink of a file.  A   *)
(* task may end between any two steps: a statement fails, the connection   *)
(* of its request drops, the process dies.  All of that is Abort.          *)
(*                                                                         *)
(* A concept is abstracted to a content; what a registry row, an index row *)
(* and a line of an index.md say of it is the content they were made from. *)
(* Provenance, timestamps and encryption are left out, and so are requests *)
(* refused before the first step (reserved names, staging paths, invalid   *)
(* frontmatter): they change nothing.  The vector rows are another part.   *)
(***************************************************************************)
EXTENDS Naturals, Sequences, FiniteSets, SequencesExt

CONSTANTS
    Paths,
    Staging,      \* the paths under /mutation-queue/
    Contents,
    Absent,       \* no file, no row, an empty payload
    Dirs,         \* the directories, in path order, the root first
    DirOf,        \* the directory of a path
    Tasks,        \* bound: operations in flight at once
    Tags,         \* revision ops a put may carry ("none": derived)
    Batches,      \* what the callers put: sequences of [path, content]
    Stores,       \* the contents of the store at the start
    Retention,    \* REVISION_RETENTION
    MaxRevisions, \* bound: revision numbers of one path
    MaxOps        \* bound: operations in one behaviour

ASSUME StoreAssumption ==
    /\ Staging \subseteq Paths
    /\ Absent \notin Contents
    /\ Dirs \in Seq(STRING) /\ Len(Dirs) > 0
    /\ DirOf \in [Paths -> ToSet(Dirs)]
    /\ Tags \subseteq {"none", "migration", "merge", "consolidate"}
    /\ Batches \subseteq Seq([path : Paths, content : Contents])
    /\ \A b \in Batches : b # <<>>
    /\ Stores \subseteq [Paths -> Contents \cup {Absent}]
    /\ Retention \in Nat \ {0} /\ MaxRevisions \in Nat /\ MaxOps \in Nat

VARIABLES
    file,      \* the content of the file at a path
    registry,  \* the scope_files rows
    index,     \* the search_docs and search_tokens rows
    log,       \* the concept_revisions rows of a path
    indexMd,   \* what the index.md of a directory lists
    task,      \* the operations in flight
    \* history
    ops,       \* operations started
    raced      \* paths two writing operations were at work on at once

stored == <<file, registry, index, log, indexMd>>
vars   == <<stored, task, ops, raced>>

-----------------------------------------------------------------------------
(* Types *)

Maybe    == Contents \cup {Absent}
Listings == [Paths -> Maybe]
Ops      == {"create", "update", "delete", "restore", "migration", "merge", "consolidate"}

\* A row of concept_revisions.
Revision == [no : 1 .. MaxRevisions, op : Ops, payload : Maybe]

Kinds    == {"put", "delete", "sweep"}
PutSteps == {"exists", "preRead", "record", "write", "register", "addIndex"}
DelSteps == {"readDoomed", "recordDelete", "unregister", "unindex", "unlink"}
Steps    == PutSteps \cup DelSteps \cup {"snapshot", "list", "regen", "lookup", "removeRow", "done"}

\* The locals of put_batch_with_revision, restore, delete_internal and the
\* dead-concept sweep.
Task == [kind : Kinds, at : Steps, batch : Seq([path : Paths, content : Maybe]),
         todo : Seq([path : Paths, content : Maybe]), tag : Tags \cup {"none", "restore"},
         rev : [op : Ops, payload : Maybe], from : 0 .. MaxRevisions,
         seen : Listings, dirs : SUBSET ToSet(Dirs), alone : BOOLEAN]

Idle == [kind |-> "idle"]

TypeOK ==
    /\ file \in Listings /\ registry \in Listings /\ index \in Listings
    /\ log \in [Paths -> SUBSET Revision]
    /\ indexMd \in [ToSet(Dirs) -> Listings]
    /\ \A k \in Tasks : task[k] \in {Idle} \cup Task
    /\ ops \in 0 .. MaxOps /\ raced \subseteq Paths

-----------------------------------------------------------------------------
(* The revision log: the chain of a path is a set of revisions *)

Numbers(chain) == {r.no : r \in chain}
Latest(chain)  == IF chain = {} THEN 0 ELSE Max(Numbers(chain))
Newest(chain)  == CHOOSE r \in chain : r.no = Latest(chain)

\* retention_cutoff: what is at or below it is pruned.
Cutoff(max) == IF max > Retention THEN max - Retention ELSE 0

\* record_once: MAX + 1, the insert and the prune are one transaction.
Recorded(chain, op, payload) ==
    LET no == Latest(chain) + 1
    IN  {r \in chain \cup {[no |-> no, op |-> op, payload |-> payload]} : r.no > Cutoff(no)}

Record(p, rev) ==
    /\ Latest(log[p]) < MaxRevisions
    /\ log' = [log EXCEPT ![p] = Recorded(@, rev.op, rev.payload)]

-----------------------------------------------------------------------------
(* Tasks *)

Busy       == {k \in Tasks : task[k].kind # "idle"}
Touched(t) == {t.batch[i].path : i \in DOMAIN t.batch}

\* A new operation; what overlaps it is noted for the properties.
Start(k, t) ==
    /\ task[k] = Idle
    /\ ops < MaxOps
    /\ ops' = ops + 1
    /\ task' = [j \in Tasks |-> IF j = k THEN [t EXCEPT !.alone = (Busy = {})]
                                ELSE IF j \in Busy THEN [task[j] EXCEPT !.alone = FALSE] ELSE task[j]]
    /\ raced' = raced \cup
         IF t.kind = "sweep" THEN {}
         ELSE Touched(t) \cap UNION {Touched(task[j]) : j \in {j \in Busy : task[j].kind # "sweep"}}
    /\ UNCHANGED stored

NoListing  == [p \in Paths |-> Absent]
NoRevision == [op |-> "create", payload |-> Absent]

NewTask(kind, at, batch, tag, from) ==
    [kind |-> kind, at |-> at, batch |-> batch, todo |-> batch, tag |-> tag,
     rev |-> NoRevision, from |-> from,
     seen |-> NoListing, dirs |-> {}, alone |-> TRUE]

At(k, kind, step) == task[k].kind = kind /\ task[k].at = step
Path(k)           == task[k].todo[1].path
Content(k)        == task[k].todo[1].content
Goto(k, step)     == task' = [task EXCEPT ![k].at = step]
Return(k)         == Goto(k, "done")
Refuse(k)         == task' = [task EXCEPT ![k] = Idle]
ghosts            == <<ops, raced>>

-----------------------------------------------------------------------------
(* put, put_batch, put_batch_internal *)

\* Mutant: a system-driven rewrite records nothing.
FirstStepUntagged(p, tag) == IF p \in Staging \/ tag # "none" THEN "write" ELSE "exists"

\* The first step of an item: a staging note records no revision, a tagged
\* put goes straight to the pre-mutation file, any other asks the registry.
FirstStep(p, tag) == IF p \in Staging THEN "write" ELSE IF tag = "none" THEN "exists" ELSE "preRead"

\* Only the queue's internal path may name a staging path, and it has no tag.
Put(k) ==
    \E b \in Batches, tag \in Tags :
        /\ \A i \in DOMAIN b : b[i].path \in Staging => tag = "none"
        /\ Start(k, NewTask("put", FirstStep(b[1].path, tag), b, tag, 0))

Decide(k, op, payload) ==
    task' = [task EXCEPT ![k].at = "record", ![k].rev = [op |-> op, payload |-> payload]]

\* SELECT EXISTS: without a registry row the put creates.
Exists(k) ==
    /\ At(k, "put", "exists")
    /\ IF registry[Path(k)] = Absent THEN Decide(k, "create", Content(k)) ELSE Goto(k, "preRead")
    /\ UNCHANGED <<stored, ghosts>>

\* Mutant: an update logs what it writes, as a create does.
PreReadNew(k) ==
    /\ At(k, "put", "preRead")
    /\ Decide(k, IF task[k].tag = "none" THEN "update" ELSE task[k].tag, Content(k))
    /\ UNCHANGED <<stored, ghosts>>

\* The bytes a put is about to replace are its payload.  With no file an
\* untagged put creates after all, a restore undeletes, any other tag logs
\* what it writes.
PreRead(k) ==
    /\ At(k, "put", "preRead")
    /\ LET pre     == file[Path(k)]
           tag     == task[k].tag
           op      == IF tag # "none" THEN tag ELSE IF pre = Absent THEN "create" ELSE "update"
           payload == IF pre # Absent \/ tag = "restore" THEN pre ELSE Content(k)
       IN  Decide(k, op, payload)
    /\ UNCHANGED <<stored, ghosts>>

RecordPut(k) ==
    /\ At(k, "put", "record")
    /\ Record(Path(k), task[k].rev)
    /\ task' = [task EXCEPT ![k].at = "write", ![k].rev = NoRevision]
    /\ UNCHANGED <<file, registry, index, indexMd, ghosts>>

\* FileRepo::write: the rename of a synced temporary file.
Write(k) ==
    /\ At(k, "put", "write")
    /\ file' = [file EXCEPT ![Path(k)] = Content(k)]
    /\ Goto(k, "register")
    /\ UNCHANGED <<registry, index, log, indexMd, ghosts>>

Register(k) ==
    /\ At(k, "put", "register")
    /\ registry' = [registry EXCEPT ![Path(k)] = Content(k)]
    /\ Goto(k, "addIndex")
    /\ UNCHANGED <<file, index, log, indexMd, ghosts>>

\* Mutant: INSERT OR IGNORE, a stale row of the path stays.
AddIndexIgnore(k) ==
    /\ At(k, "put", "addIndex")
    /\ index' = [index EXCEPT ![Path(k)] = IF @ = Absent THEN Content(k) ELSE @]
    /\ LET rest == Tail(task[k].todo)
           step == IF rest = <<>> THEN "list" ELSE FirstStep(rest[1].path, task[k].tag)
       IN  task' = [task EXCEPT ![k].at = step, ![k].todo = rest]
    /\ UNCHANGED <<file, registry, log, indexMd, ghosts>>

\* EncryptedIndex::add_async replaces the path's rows in one transaction;
\* then the next concept of the batch, or the listing.
AddIndex(k) ==
    /\ At(k, "put", "addIndex")
    /\ index' = [index EXCEPT ![Path(k)] = Content(k)]
    /\ LET rest == Tail(task[k].todo)
           step == IF rest = <<>> THEN "list" ELSE FirstStep(rest[1].path, task[k].tag)
       IN  task' = [task EXCEPT ![k].at = step, ![k].todo = rest]
    /\ UNCHANGED <<file, registry, log, indexMd, ghosts>>

\* restore: the snapshot of a revision is put back under the tag `restore`.
Restore(k) ==
    \E p \in Paths \ Staging : \E n \in 1 .. Latest(log[p]) :
        Start(k, NewTask("put", "snapshot", <<[path |-> p, content |-> Absent]>>, "restore", n))

\* A missing revision, and an empty payload (which does not parse), are
\* refused with nothing changed.
Snapshot(k) ==
    /\ At(k, "put", "snapshot")
    /\ LET p    == Path(k)
           hits == {r \in log[p] : r.no = task[k].from /\ r.payload # Absent}
       IN  \/ /\ hits = {}
              /\ Refuse(k)
           \/ \E r \in hits :
                LET b == <<[path |-> p, content |-> r.payload]>>
                IN  task' = [task EXCEPT ![k].batch = b, ![k].todo = b, ![k].from = 0, ![k].at = "preRead"]
    /\ UNCHANGED <<stored, ghosts>>

-----------------------------------------------------------------------------
(* regen_index_md *)

\* One directory listing per directory that has concepts, and the root's.
ListedDirs(rows) ==
    {d \in ToSet(Dirs) : d = Dirs[1] \/ \E p \in Paths : rows[p] # Absent /\ DirOf[p] = d}

List(k) ==
    /\ task[k].kind # "idle" /\ task[k].at = "list"
    /\ task' = [task EXCEPT ![k].seen = registry, ![k].dirs = ListedDirs(registry), ![k].at = "regen"]
    /\ UNCHANGED <<stored, ghosts>>

\* The concepts of a directory, and for the root what its subdirectories
\* hold, are what its index.md is made of.
Listing(d, rows) == [p \in Paths |-> IF DirOf[p] = d \/ d = Dirs[1] THEN rows[p] ELSE Absent]

\* The directories still to do, in path order.
FirstOf(i, dirs) == Dirs[i] \in dirs /\ \A j \in 1 .. i - 1 : Dirs[j] \notin dirs

Regen(k) ==
    /\ task[k].kind # "idle" /\ task[k].at = "regen"
    /\ \E i \in DOMAIN Dirs :
         LET d    == Dirs[i]
             rest == task[k].dirs \ {d}
         IN  /\ FirstOf(i, task[k].dirs)
             /\ indexMd' = [indexMd EXCEPT ![d] = Listing(d, task[k].seen)]
             /\ IF rest = {}
                THEN task' = [task EXCEPT ![k].dirs = {}, ![k].seen = NoListing, ![k].at = "done"]
                ELSE task' = [task EXCEPT ![k].dirs = rest]
    /\ UNCHANGED <<file, registry, index, log, ghosts>>

-----------------------------------------------------------------------------
(* delete, delete_internal *)

Delete(k) ==
    \E p \in Paths : Start(k, NewTask("delete", "readDoomed", <<[path |-> p, content |-> Absent]>>, "none", 0))

\* The re-delete contract: no file, no change.
ReadDoomed(k) ==
    /\ At(k, "delete", "readDoomed")
    /\ IF file[Path(k)] = Absent THEN Refuse(k)
       ELSE task' = [task EXCEPT ![k].at = IF Path(k) \in Staging THEN "unregister" ELSE "recordDelete",
                                 ![k].rev = [op |-> "delete", payload |-> file[Path(k)]]]
    /\ UNCHANGED <<stored, ghosts>>

RecordDelete(k) ==
    /\ At(k, "delete", "recordDelete")
    /\ Record(Path(k), task[k].rev)
    /\ task' = [task EXCEPT ![k].at = "unregister", ![k].rev = NoRevision]
    /\ UNCHANGED <<file, registry, index, indexMd, ghosts>>

\* Mutant: the index row is left to a later sweep.
UnregisterOnly(k) ==
    /\ At(k, "delete", "unregister")
    /\ registry' = [registry EXCEPT ![Path(k)] = Absent]
    /\ Goto(k, "unlink")
    /\ UNCHANGED <<file, index, log, indexMd, ghosts>>

Unregister(k) ==
    /\ At(k, "delete", "unregister")
    /\ registry' = [registry EXCEPT ![Path(k)] = Absent]
    /\ Goto(k, "unindex")
    /\ UNCHANGED <<file, index, log, indexMd, ghosts>>

Unindex(k) ==
    /\ At(k, "delete", "unindex")
    /\ index' = [index EXCEPT ![Path(k)] = Absent]
    /\ Goto(k, "unlink")
    /\ UNCHANGED <<file, registry, log, indexMd, ghosts>>

Unlink(k) ==
    /\ At(k, "delete", "unlink")
    /\ file' = [file EXCEPT ![Path(k)] = Absent]
    /\ Goto(k, "list")
    /\ UNCHANGED <<registry, index, log, indexMd, ghosts>>

-----------------------------------------------------------------------------
(* The vector worker's sweep of dead concepts, and the boot reindex *)

\* backlog_paths enumerates index rows.
Sweep(k) ==
    \E p \in Paths :
        /\ index[p] # Absent
        /\ Start(k, NewTask("sweep", "lookup", <<[path |-> p, content |-> Absent]>>, "none", 0))

\* cs.get: a readable concept is not swept.
Lookup(k) ==
    /\ At(k, "sweep", "lookup")
    /\ IF file[Path(k)] = Absent THEN Goto(k, "removeRow") ELSE Refuse(k)
    /\ UNCHANGED <<stored, ghosts>>

\* sweep_index_row
RemoveRow(k) ==
    /\ At(k, "sweep", "removeRow")
    /\ index' = [index EXCEPT ![Path(k)] = Absent]
    /\ Return(k)
    /\ UNCHANGED <<file, registry, log, indexMd, ghosts>>

\* reindex, at boot, before any other task: read the concept, index it.
Reindex ==
    \E p \in Paths \ Staging :
        /\ Busy = {}
        /\ index[p] # Absent /\ file[p] # Absent
        /\ index' = [index EXCEPT ![p] = file[p]]
        /\ UNCHANGED <<file, registry, log, indexMd, task, ghosts>>

-----------------------------------------------------------------------------
\* The caller has its answer.
Finish(k) ==
    /\ task[k].kind # "idle" /\ task[k].at = "done"
    /\ Refuse(k)
    /\ UNCHANGED <<stored, ghosts>>

\* A failed statement, a dropped request, a dead process.
Abort(k) ==
    /\ task[k].kind # "idle" /\ task[k].at # "done"
    /\ Refuse(k)
    /\ UNCHANGED <<stored, ghosts>>

\* A store at rest, in which each path has a concept or never had one.
Init ==
    /\ file \in Stores
    /\ registry = file /\ index = file
    /\ log = [p \in Paths |-> IF file[p] = Absent \/ p \in Staging THEN {}
                              ELSE {[no |-> 1, op |-> "create", payload |-> file[p]]}]
    /\ indexMd = [d \in ToSet(Dirs) |-> Listing(d, registry)]
    /\ task = [k \in Tasks |-> Idle]
    /\ ops = 0 /\ raced = {}

Step(k) ==
    \/ Exists(k) \/ PreRead(k) \/ RecordPut(k) \/ Write(k) \/ Register(k) \/ AddIndex(k)
    \/ Snapshot(k) \/ List(k) \/ Regen(k)
    \/ ReadDoomed(k) \/ RecordDelete(k) \/ Unregister(k) \/ Unindex(k) \/ Unlink(k)
    \/ Lookup(k) \/ RemoveRow(k) \/ Finish(k)

Next ==
    \/ \E k \in Tasks : Put(k) \/ Restore(k) \/ Delete(k) \/ Sweep(k) \/ Step(k) \/ Abort(k)
    \/ Reindex

Spec == Init /\ [][Next]_vars
-----------------------------------------------------------------------------
(* Properties *)

\* The numbers of a chain are the newest Retention ones, without a gap:
\* "monotonic contiguous numbering makes the cutoff exact" (revisions.rs),
\* however many writers assign MAX + 1 to the same path.
ChainShape ==
    \A p \in Paths : Numbers(log[p]) = Cutoff(Latest(log[p])) + 1 .. Latest(log[p])

\* A revision number names one snapshot for ever: a row is never rewritten,
\* and a number that was pruned is not given out again, so that restoring
\* to N means what the history page showed.
ChainAppends ==
    [][\A p \in Paths : \A r \in log'[p] \ log[p] : r.no > Latest(log[p])]_vars

\* Write-ahead: nothing of a concept (a file, a registry row, an index row)
\* exists without a revision behind it, wherever its writers stopped and
\* whatever the retention pruned.
NoUnloggedConcept ==
    \A p \in Paths \ Staging :
        (file[p] # Absent \/ registry[p] # Absent \/ index[p] # Absent) => log[p] # {}

\* As long as the writers of a path never overlapped, what a put or a delete
\* is about to take from a listed concept is the payload of the revision it
\* has just recorded: the undo row undoes it.
UndoRow ==
    \A k \in Busy :
        \/ task[k].at \notin {"write", "unregister"}
        \/ Path(k) \in raced \cup Staging
        \/ registry[Path(k)] = Absent
        \/ Newest(log[Path(k)]).payload = file[Path(k)]

\* As long as the writers of a path never overlapped, no crash of one, and
\* no sweep at any moment, leaves a listing or a search hit whose concept
\* cannot be read.
NothingDangles ==
    \A p \in Paths \ raced :
        (registry[p] # Absent \/ index[p] # Absent) => file[p] # Absent

\* The i-th concept of a batch is the last of its path.
LastOfPath(batch, i) == \A j \in DOMAIN batch : j > i => batch[j].path # batch[i].path

\* "Self-heals on next put": whatever earlier crashes and races left behind,
\* an operation that runs to its end with no other in flight leaves file,
\* registry, index and the listings of the directories in use in agreement.
SoloHeals ==
    \A k \in Busy : task[k].at = "done" /\ task[k].alone /\ task[k].kind # "sweep" =>
        /\ \A i \in DOMAIN task[k].batch : LastOfPath(task[k].batch, i) =>
             LET p == task[k].batch[i].path
                 c == task[k].batch[i].content
             IN  file[p] = c /\ registry[p] = c /\ index[p] = c
        /\ \A d \in ListedDirs(registry) : indexMd[d] = Listing(d, registry)

=============================================================================
