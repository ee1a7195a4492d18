------------------------- MODULE ConceptStoreProofs -------------------------
(***************************************************************************)
(* Theorems about ConceptStore, for any number of paths, tasks, contents   *)
(* and operations and any retention of at least one revision.              *)
(***************************************************************************)
EXTENDS ConceptStore, TLAPS, SequenceTheorems

-----------------------------------------------------------------------------
(* The revision chain of one path *)

Chains == SUBSET [no : Nat, op : Ops, payload : Maybe]

\* The numbers of a chain: the newest Retention ones, and no gap.
Exact(chain) ==
    /\ chain \in Chains
    /\ Latest(chain) \in Nat
    /\ Numbers(chain) = Cutoff(Latest(chain)) + 1 .. Latest(chain)

\* The largest number of an interval is its upper end.
LEMMA MaxInterval ==
    ASSUME NEW m \in Nat, NEW n \in Nat, m <= n
    PROVE  Max(m .. n) = n
<1>1. n \in m .. n /\ \A y \in m .. n : n >= y
  OBVIOUS
<1>2. \A x \in m .. n : (\A y \in m .. n : x >= y) => x = n
  OBVIOUS
<1> QED BY <1>1, <1>2 DEF Max

\* The cutoff is a natural number below the newest row, and never falls.
LEMMA CutoffBounds ==
    ASSUME NEW n \in Nat
    PROVE  /\ Cutoff(n) \in Nat /\ Cutoff(n + 1) \in Nat
           /\ Cutoff(n) <= Cutoff(n + 1) /\ Cutoff(n + 1) <= n
BY StoreAssumption DEF Cutoff

\* record_once appends: the new row has the next number, everything else was
\* there before.
LEMMA RecordedAppends ==
    ASSUME NEW chain, Exact(chain), NEW op \in Ops, NEW payload \in Maybe
    PROVE  /\ Recorded(chain, op, payload) \in Chains
           /\ \A r \in Recorded(chain, op, payload) \ chain : r.no = Latest(chain) + 1
<1> DEFINE new == [no |-> Latest(chain) + 1, op |-> op, payload |-> payload]
<1>1. new \in [no : Nat, op : Ops, payload : Maybe] /\ new.no = Latest(chain) + 1
  BY DEF Exact
<1>2. Recorded(chain, op, payload) \subseteq chain \cup {new}
  BY DEF Recorded
<1> QED
  BY <1>1, <1>2 DEF Exact, Chains

\* record_once keeps a chain exact, and its newest row is the one recorded.
LEMMA RecordedExact ==
    ASSUME NEW chain, Exact(chain), NEW op \in Ops, NEW payload \in Maybe
    PROVE  /\ Exact(Recorded(chain, op, payload)) /\ Recorded(chain, op, payload) # {}
           /\ Newest(Recorded(chain, op, payload)).payload = payload
<1> DEFINE n   == Latest(chain) + 1
           new == [no |-> n, op |-> op, payload |-> payload]
           out == Recorded(chain, op, payload)
<1>1. /\ Latest(chain) \in Nat /\ n \in Nat
      /\ Cutoff(n - 1) \in Nat /\ Cutoff(n) \in Nat /\ Cutoff(n - 1) <= Cutoff(n) /\ Cutoff(n) < n
  <2>1. Latest(chain) \in Nat
    BY DEF Exact
  <2>2. n - 1 = Latest(chain)
    BY <2>1
  <2> QED
    BY <2>1, <2>2, CutoffBounds
<1>2. out = {r \in chain \cup {new} : r.no > Cutoff(n)}
  BY DEF Recorded
<1>3. new.no = n /\ new \in out
  BY <1>1, <1>2
<1>4. Numbers(chain) = Cutoff(n - 1) + 1 .. n - 1
  <2>1. n - 1 = Latest(chain)
    BY <1>1
  <2> QED
    BY <2>1 DEF Exact
<1>5. Numbers(out) = Cutoff(n) + 1 .. n
  <2>1. ASSUME NEW x \in Numbers(out)
        PROVE  x \in Cutoff(n) + 1 .. n
    <3>1. PICK r \in out : x = r.no
      BY DEF Numbers
    <3>2. CASE r = new
      BY <1>1, <1>2, <1>3, <3>1, <3>2
    <3>3. CASE r \in chain
      <4>1. r.no \in Cutoff(n - 1) + 1 .. n - 1
        BY <1>4, <3>3 DEF Numbers
      <4> QED
        BY <1>1, <1>2, <3>1, <4>1
    <3> QED
      BY <1>2, <3>2, <3>3
  <2>2. ASSUME NEW x \in Cutoff(n) + 1 .. n
        PROVE  x \in Numbers(out)
    <3>1. CASE x = n
      BY <1>3, <3>1 DEF Numbers
    <3>2. CASE x # n
      <4>1. x \in Cutoff(n - 1) + 1 .. n - 1
        BY <1>1, <3>2
      <4>2. PICK r \in chain : r.no = x
        BY <1>4, <4>1 DEF Numbers
      <4>3. r \in out
        BY <1>1, <1>2, <4>2
      <4> QED
        BY <4>2, <4>3 DEF Numbers
    <3> QED
      BY <3>1, <3>2
  <2> QED
    BY <2>1, <2>2
<1>6. Latest(out) = n
  <2>1. Max(Cutoff(n) + 1 .. n) = n
    BY <1>1, MaxInterval
  <2> QED
    BY <1>3, <1>5, <2>1 DEF Latest
<1>7. out \in Chains
  BY RecordedAppends
<1>8. \A r \in out : r.no = Latest(out) => r = new
  <2>1. \A r \in chain : r.no # n
    BY <1>1, <1>4 DEF Numbers
  <2> QED
    BY <1>2, <1>6, <2>1
<1>9. Newest(out) = new
  BY <1>3, <1>6, <1>8 DEF Newest
<1> QED
  BY <1>1, <1>3, <1>5, <1>6, <1>7, <1>9 DEF Exact

-----------------------------------------------------------------------------
(* The inductive invariant *)

Items == [path : Paths, content : Maybe]

\* The locals of an operation.
IsRecord(t) ==
    t = [kind |-> t.kind, at |-> t.at, batch |-> t.batch, todo |-> t.todo, tag |-> t.tag,
         rev |-> t.rev, from |-> t.from, seen |-> t.seen, dirs |-> t.dirs, alone |-> t.alone]

\* What a task holds, as far as the log depends on it: a concept to work on
\* as long as it has one, and a revision the log can take.
IsTask(t) ==
    /\ IsRecord(t)
    /\ t.kind \in Kinds
    /\ t.todo \in Seq(Items)
    /\ t.rev \in [op : Ops, payload : Maybe]
    /\ t.tag \in {"none", "restore", "migration", "merge", "consolidate"}
    /\ t.at \notin {"list", "regen", "done"} => t.todo # <<>>

\* A put that is past its record works on a path with a revision.
Logged(t, chains) ==
    t.at \in {"write", "register", "addIndex"} /\ t.todo[1].path \notin Staging
        => chains[t.todo[1].path] # {}

TasksOK ==
    /\ task = [k \in Tasks |-> task[k]]
    /\ \A k \in Tasks : task[k] = Idle \/ (IsTask(task[k]) /\ Logged(task[k], log))

LogOK == log = [p \in Paths |-> log[p]] /\ \A p \in Paths : Exact(log[p])

RowsOK == file \in Listings /\ registry \in Listings /\ index \in Listings

IInv == RowsOK /\ LogOK /\ TasksOK /\ NoUnloggedConcept

\* The invariant holds at the start.
LEMMA InitIInv == Init => IInv
<1> SUFFICES ASSUME Init PROVE IInv
  OBVIOUS
<1>1. RowsOK
  BY StoreAssumption DEF Init, RowsOK, Listings, Maybe
<1>2. LogOK
  <2>1. log = [p \in Paths |-> log[p]]
    BY DEF Init
  <2>2. Exact({})
    BY StoreAssumption DEF Exact, Chains, Latest, Numbers, Cutoff
  <2>3. ASSUME NEW p \in Paths, log[p] # {} PROVE Exact(log[p])
    <3> DEFINE r == [no |-> 1, op |-> "create", payload |-> file[p]]
    <3>1. log[p] = {r} /\ r.no = 1
      BY <2>3 DEF Init
    <3>2. Latest({}) + 1 = 1 /\ Cutoff(1) = 0
      BY StoreAssumption DEF Latest, Cutoff
    <3>3. Recorded({}, "create", file[p]) = {r}
      BY <3>2 DEF Recorded
    <3>4. "create" \in Ops /\ file[p] \in Maybe
      BY <1>1 DEF RowsOK, Listings, Ops
    <3>5. Exact(Recorded({}, "create", file[p]))
      BY <2>2, <3>4, RecordedExact
    <3> QED
      BY <3>1, <3>3, <3>5
  <2> QED
    BY <2>1, <2>2, <2>3 DEF LogOK
<1>3. TasksOK
  BY DEF Init, TasksOK
<1>4. NoUnloggedConcept
  BY DEF Init, NoUnloggedConcept
<1> QED
  BY <1>1, <1>2, <1>3, <1>4 DEF IInv

\* A step that leaves the log alone keeps what it owes to the log, if the
\* rows it adds have a revision and the task it changes is in order.
LEMMA QuietStep ==
    ASSUME IInv, UNCHANGED log, RowsOK', NEW k \in Tasks,
           task' = [task EXCEPT ![k] = task'[k]],
           task'[k] = Idle \/ (IsTask(task'[k]) /\ Logged(task'[k], log)),
           \A p \in Paths \ Staging :
               \/ log[p] # {}
               \/ file'[p] = file[p] /\ registry'[p] = registry[p] /\ index'[p] = index[p]
    PROVE  IInv'
<1>1. LogOK'
  BY DEF IInv, LogOK
<1>2. TasksOK'
  BY DEF IInv, TasksOK, Logged
<1>3. NoUnloggedConcept'
  BY DEF IInv, NoUnloggedConcept
<1> QED
  BY <1>1, <1>2, <1>3 DEF IInv

\* A record keeps every chain exact and makes none empty.
LEMMA RecordStep ==
    ASSUME IInv, NEW p \in Paths, NEW rev \in [op : Ops, payload : Maybe],
           log' = [log EXCEPT ![p] = Recorded(@, rev.op, rev.payload)]
    PROVE  /\ LogOK'
           /\ log'[p] # {}
           /\ \A q \in Paths : log[q] # {} => log'[q] # {}
           /\ \A q \in Paths : \A r \in log'[q] \ log[q] : r.no > Latest(log[q])
<1>1. Exact(log[p]) /\ Latest(log[p]) \in Nat /\ rev.op \in Ops /\ rev.payload \in Maybe
  BY DEF IInv, LogOK, Exact
<1>2. log'[p] = Recorded(log[p], rev.op, rev.payload) /\ \A q \in Paths \ {p} : log'[q] = log[q]
  BY DEF IInv, LogOK
<1>3. log' = [q \in Paths |-> log'[q]]
  BY DEF IInv, LogOK
<1>4. Exact(log'[p]) /\ log'[p] # {}
  BY <1>1, <1>2, RecordedExact
<1>5. \A r \in log'[p] \ log[p] : r.no > Latest(log[p])
  BY <1>1, <1>2, RecordedAppends
<1>6. LogOK'
  BY <1>2, <1>3, <1>4 DEF IInv, LogOK
<1> QED
  BY <1>2, <1>4, <1>5, <1>6

\* Starting an operation touches neither the rows nor the log.
LEMMA StartStep ==
    ASSUME IInv, NEW k \in Tasks, NEW t, Start(k, t), IsTask(t), t.at = "write" => t.todo[1].path \in Staging,
           t.at \notin {"register", "addIndex"}
    PROVE  IInv'
<1>1. RowsOK' /\ LogOK' /\ NoUnloggedConcept'
  BY DEF IInv, RowsOK, LogOK, NoUnloggedConcept, Start, stored
<1>2. task' = [j \in Tasks |-> task'[j]]
  BY DEF Start
<1>3. ASSUME NEW j \in Tasks
      PROVE  task'[j] = Idle \/ (IsTask(task'[j]) /\ Logged(task'[j], log'))
  <2>1. log' = log
    BY DEF Start, stored
  <2>2. CASE j = k
    <3>1. task'[j] = [t EXCEPT !.alone = (Busy = {})]
      BY <2>2 DEF Start
    <3>2. IsTask(task'[j])
      BY <3>1 DEF IsTask, IsRecord
    <3>3. task'[j].at = t.at /\ task'[j].todo = t.todo
      BY <3>1 DEF IsTask, IsRecord
    <3> QED
      BY <3>2, <3>3 DEF Logged
  <2>3. CASE j # k /\ task'[j] = task[j]
    BY <2>1, <2>3 DEF IInv, TasksOK, Logged
  <2>4. CASE j # k /\ j \in Busy
    <3>1. task'[j] = [task[j] EXCEPT !.alone = FALSE]
      BY <2>4 DEF Start
    <3>2. IsTask(task[j]) /\ Logged(task[j], log)
      BY <2>4 DEF Busy, IInv, TasksOK, Idle
    <3>3. IsTask(task'[j])
      BY <3>1, <3>2 DEF IsTask, IsRecord
    <3>4. task'[j].at = task[j].at /\ task'[j].todo = task[j].todo
      BY <3>1, <3>2 DEF IsTask, IsRecord
    <3> QED
      BY <2>1, <3>2, <3>3, <3>4 DEF Logged
  <2> QED
    BY <2>2, <2>3, <2>4 DEF Start
<1> QED
  BY <1>1, <1>2, <1>3 DEF IInv, TasksOK

\* The task of NewTask is in order when its batch and tag are.
LEMMA NewTaskIsTask ==
    ASSUME NEW kind \in Kinds, NEW at, NEW batch \in Seq(Items), batch # <<>>, NEW from,
           NEW tag \in {"none", "restore", "migration", "merge", "consolidate"}
    PROVE  LET t == NewTask(kind, at, batch, tag, from)
           IN  IsTask(t) /\ t.at = at /\ t.todo = batch
<1>1. NoRevision \in [op : Ops, payload : Maybe]
  BY DEF NoRevision, Ops, Maybe
<1> QED
  BY <1>1 DEF NewTask, IsTask, IsRecord

-----------------------------------------------------------------------------
(* One lemma per action *)

\* A request for a concept: the task it starts is in order.
LEMMA StartNew ==
    ASSUME IInv, NEW k \in Tasks, NEW kind \in Kinds, NEW batch \in Seq(Items), batch # <<>>, NEW from,
           NEW tag \in {"none", "restore", "migration", "merge", "consolidate"}, NEW at,
           at = "write" => batch[1].path \in Staging, at \notin {"register", "addIndex"},
           Start(k, NewTask(kind, at, batch, tag, from))
    PROVE  IInv'
<1> DEFINE t == NewTask(kind, at, batch, tag, from)
<1>1. IsTask(t) /\ t.at = at /\ t.todo = batch
  BY NewTaskIsTask
<1> HIDE DEF t
<1> QED
  BY <1>1, StartStep DEF t

\* The requests.
LEMMA RequestStep ==
    ASSUME IInv, NEW k \in Tasks, Put(k) \/ Restore(k) \/ Delete(k) \/ Sweep(k)
    PROVE  IInv'
<1>1. CASE Put(k)
  <2>1. PICK b \in Batches, tag \in Tags : Start(k, NewTask("put", FirstStep(b[1].path, tag), b, tag, 0))
    BY <1>1 DEF Put
  <2>2. b \in Seq(Items) /\ b # <<>> /\ tag \in {"none", "restore", "migration", "merge", "consolidate"}
    <3>1. b \in Seq([path : Paths, content : Contents]) /\ b # <<>>
      BY StoreAssumption
    <3>2. [path : Paths, content : Contents] \subseteq Items
      BY DEF Items, Maybe
    <3>4. b \in Seq(Items)
      BY <3>1, <3>2, SeqMonotonic
    <3> QED
      BY <3>1, <3>4, StoreAssumption
  <2>3. /\ FirstStep(b[1].path, tag) = "write" => b[1].path \in Staging
        /\ FirstStep(b[1].path, tag) \notin {"register", "addIndex"}
    BY DEF FirstStep
  <2>4. "put" \in Kinds
    BY DEF Kinds
  <2> QED
    BY <2>1, <2>2, <2>3, <2>4, StartNew
<1>2. CASE Restore(k)
  <2>a. PICK p \in Paths :
          \E n : Start(k, NewTask("put", "snapshot", <<[path |-> p, content |-> Absent]>>, "restore", n))
    BY <1>2 DEF Restore
  <2>1. PICK n : Start(k, NewTask("put", "snapshot", <<[path |-> p, content |-> Absent]>>, "restore", n))
    BY <2>a
  <2> DEFINE b == <<[path |-> p, content |-> Absent]>>
  <2>2. b \in Seq(Items) /\ b # <<>>
    BY DEF Items, Maybe
  <2>3. "put" \in Kinds /\ "restore" \in {"none", "restore", "migration", "merge", "consolidate"}
    BY DEF Kinds
  <2>4. "snapshot" # "write" /\ "snapshot" \notin {"register", "addIndex"}
    OBVIOUS
  <2>5. Start(k, NewTask("put", "snapshot", b, "restore", n))
    BY <2>1
  <2> HIDE DEF b
  <2> QED
    BY <2>2, <2>3, <2>4, <2>5, StartNew
<1>3. CASE Delete(k)
  <2>1. PICK p \in Paths : Start(k, NewTask("delete", "readDoomed", <<[path |-> p, content |-> Absent]>>, "none", 0))
    BY <1>3 DEF Delete
  <2> DEFINE b == <<[path |-> p, content |-> Absent]>>
  <2>2. b \in Seq(Items) /\ b # <<>>
    BY DEF Items, Maybe
  <2>3. "delete" \in Kinds /\ "none" \in {"none", "restore", "migration", "merge", "consolidate"}
    BY DEF Kinds
  <2>4. "readDoomed" # "write" /\ "readDoomed" \notin {"register", "addIndex"}
    OBVIOUS
  <2>5. Start(k, NewTask("delete", "readDoomed", b, "none", 0))
    BY <2>1
  <2> HIDE DEF b
  <2> QED
    BY <2>2, <2>3, <2>4, <2>5, StartNew
<1>4. CASE Sweep(k)
  <2>1. PICK p \in Paths : Start(k, NewTask("sweep", "lookup", <<[path |-> p, content |-> Absent]>>, "none", 0))
    BY <1>4 DEF Sweep
  <2> DEFINE b == <<[path |-> p, content |-> Absent]>>
  <2>2. b \in Seq(Items) /\ b # <<>>
    BY DEF Items, Maybe
  <2>3. "sweep" \in Kinds /\ "none" \in {"none", "restore", "migration", "merge", "consolidate"}
    BY DEF Kinds
  <2>4. "lookup" # "write" /\ "lookup" \notin {"register", "addIndex"}
    OBVIOUS
  <2>5. Start(k, NewTask("sweep", "lookup", b, "none", 0))
    BY <2>1
  <2> HIDE DEF b
  <2> QED
    BY <2>2, <2>3, <2>4, <2>5, StartNew
<1> QED
  BY <1>1, <1>2, <1>3, <1>4

\* A task in flight has, until it lists, a concept to work on.
LEMMA InFlight ==
    ASSUME IInv, NEW k \in Tasks, task[k].kind # "idle"
    PROVE  /\ IsTask(task[k]) /\ Logged(task[k], log)
           /\ task[k].at \notin {"list", "regen", "done"} => Path(k) \in Paths /\ Content(k) \in Maybe
<1>1. IsTask(task[k]) /\ Logged(task[k], log)
  BY DEF IInv, TasksOK, Idle
<1>2. ASSUME task[k].at \notin {"list", "regen", "done"}
      PROVE  Path(k) \in Paths /\ Content(k) \in Maybe
  <2>1. task[k].todo \in Seq(Items) /\ task[k].todo # <<>>
    BY <1>1, <1>2 DEF IsTask, IsRecord
  <2>2. task[k].todo[1] \in Items
    BY <2>1
  <2> QED
    BY <2>2 DEF Path, Content, Items
<1> QED
  BY <1>1, <1>2

\* The end of a task: its answer, a refusal or an abort.
LEMMA RefuseStep ==
    ASSUME IInv, NEW k \in Tasks, Refuse(k), UNCHANGED stored
    PROVE  IInv'
<1>1. task'[k] = Idle /\ task' = [task EXCEPT ![k] = task'[k]]
  BY DEF Refuse, IInv, TasksOK
<1>2. RowsOK' /\ UNCHANGED <<log, file, registry, index>>
  BY DEF stored, IInv, RowsOK
<1> QED
  BY <1>1, <1>2, QuietStep

\* A step from one point of an operation to the next.
LEMMA GotoStep ==
    ASSUME IInv, NEW k \in Tasks, NEW step, task[k].kind # "idle", Goto(k, step), UNCHANGED log, RowsOK',
           task[k].at \notin {"list", "regen", "done"},
           step \in {"write", "register", "addIndex"} => task[k].at \in {"write", "register", "addIndex"},
           \A p \in Paths \ Staging :
               \/ log[p] # {}
               \/ file'[p] = file[p] /\ registry'[p] = registry[p] /\ index'[p] = index[p]
    PROVE  IInv'
<1> DEFINE t == task[k]
           u == [t EXCEPT !.at = step]
<1>1. IsTask(t) /\ Logged(t, log)
  BY InFlight
<1>2. task'[k] = u /\ task' = [task EXCEPT ![k] = task'[k]]
  BY DEF Goto, IInv, TasksOK
<1>3. u.at = step /\ u.todo = t.todo /\ IsTask(u)
  BY <1>1 DEF IsTask, IsRecord
<1>4. Logged(u, log)
  BY <1>1, <1>3 DEF Logged
<1> HIDE DEF u
<1> QED
  BY <1>2, <1>3, <1>4, QuietStep

Moved(t, at, rev) == [t EXCEPT !.at = at, !.rev = rev]

\* A task that moves on with another revision is in order.
LEMMA MovedTask ==
    ASSUME NEW t, IsTask(t), t.at \notin {"list", "regen", "done"},
           NEW at, NEW rev \in [op : Ops, payload : Maybe]
    PROVE  LET u == Moved(t, at, rev)
           IN  IsTask(u) /\ u.at = at /\ u.todo = t.todo
<1> DEFINE v == [t EXCEPT !.at = at]
           w == [v EXCEPT !.rev = rev]
<1>1. Moved(t, at, rev) = w
  BY DEF Moved
<1>2. IsTask(v) /\ v.at = at /\ v.todo = t.todo /\ v.todo # <<>>
  BY DEF IsTask, IsRecord
<1> HIDE DEF v
<1>3. IsTask(w) /\ w.at = v.at /\ w.todo = v.todo
  BY <1>2 DEF IsTask, IsRecord
<1> HIDE DEF w
<1> QED
  BY <1>1, <1>2, <1>3

\* The revision of a put is decided.
LEMMA DecideStep ==
    ASSUME IInv, NEW k \in Tasks, NEW op \in Ops, NEW payload \in Maybe, task[k].kind # "idle",
           task[k].at \notin {"list", "regen", "done"}, Decide(k, op, payload), UNCHANGED stored
    PROVE  IInv'
<1> DEFINE t == task[k]
           u == [t EXCEPT !.at = "record", !.rev = [op |-> op, payload |-> payload]]
<1>1. IsTask(t)
  BY InFlight
<1>2. task'[k] = u /\ task' = [task EXCEPT ![k] = task'[k]]
  BY DEF Decide, IInv, TasksOK
<1>3. u.at = "record" /\ IsTask(u)
  <2>1. [op |-> op, payload |-> payload] \in [op : Ops, payload : Maybe]
    OBVIOUS
  <2>2. u = Moved(t, "record", [op |-> op, payload |-> payload])
    BY DEF Moved
  <2>3. t.at \notin {"list", "regen", "done"}
    OBVIOUS
  <2> HIDE DEF t, u
  <2> QED
    BY <1>1, <2>1, <2>2, <2>3, MovedTask
<1>4. Logged(u, log)
  BY <1>3 DEF Logged
<1>5. RowsOK' /\ UNCHANGED <<log, file, registry, index>>
  BY DEF stored, IInv, RowsOK
<1> HIDE DEF u
<1> QED
  BY <1>2, <1>3, <1>4, <1>5, QuietStep

\* A put up to its record.
LEMMA DecidingSteps ==
    ASSUME IInv, NEW k \in Tasks, Exists(k) \/ PreRead(k)
    PROVE  IInv'
<1>1. task[k].kind = "put" /\ task[k].at \in {"exists", "preRead"} /\ UNCHANGED stored
  BY DEF Exists, PreRead, At
<1>2. task[k].kind # "idle" /\ task[k].at \notin {"list", "regen", "done"}
  BY <1>1
<1>3. Path(k) \in Paths /\ Content(k) \in Maybe /\ IsTask(task[k])
  BY <1>2, InFlight
<1>4. file[Path(k)] \in Maybe
  BY <1>3 DEF IInv, RowsOK, Listings
<1>5. CASE \E op \in Ops, payload \in Maybe : Decide(k, op, payload)
  BY <1>1, <1>2, <1>5, DecideStep
<1>6. CASE Goto(k, "preRead")
  <2>1. RowsOK' /\ UNCHANGED <<log, file, registry, index>>
    BY <1>1 DEF stored, IInv, RowsOK
  <2>2. "preRead" \notin {"write", "register", "addIndex"}
    OBVIOUS
  <2> QED
    BY <1>2, <1>6, <2>1, <2>2, GotoStep
<1>7. "create" \in Ops /\ "update" \in Ops
  BY DEF Ops
<1>8. CASE Exists(k)
  BY <1>3, <1>5, <1>6, <1>7, <1>8 DEF Exists
<1>9. CASE PreRead(k)
  <2>1. task[k].tag # "none" => task[k].tag \in Ops
    BY <1>3 DEF IsTask, IsRecord, Ops
  <2> DEFINE pre     == file[Path(k)]
             tag     == task[k].tag
             op      == IF tag # "none" THEN tag ELSE IF pre = Absent THEN "create" ELSE "update"
             payload == IF pre # Absent \/ tag = "restore" THEN pre ELSE Content(k)
  <2>2. op \in Ops /\ payload \in Maybe
    BY <1>3, <1>4, <1>7, <2>1
  <2>3. Decide(k, op, payload)
    BY <1>9 DEF PreRead
  <2> QED
    BY <1>5, <2>2, <2>3
<1> QED
  BY <1>8, <1>9

\* A record, of a put or of a delete.
LEMMA RecordingSteps ==
    ASSUME IInv, NEW k \in Tasks, RecordPut(k) \/ RecordDelete(k)
    PROVE  IInv'
<1> DEFINE t == task[k]
           step == IF RecordPut(k) THEN "write" ELSE "unregister"
           u == [t EXCEPT !.at = step, !.rev = NoRevision]
<1>1. /\ t.kind # "idle" /\ t.at \notin {"list", "regen", "done"}
      /\ UNCHANGED <<file, registry, index>>
      /\ log' = [log EXCEPT ![Path(k)] = Recorded(@, t.rev.op, t.rev.payload)]
  BY DEF RecordPut, RecordDelete, At, Record
<1>2. Path(k) \in Paths /\ IsTask(t)
  BY <1>1, InFlight
<1>3. t.rev \in [op : Ops, payload : Maybe]
  BY <1>2 DEF IsTask, IsRecord
<1>4. /\ LogOK' /\ log'[Path(k)] # {}
      /\ \A q \in Paths : log[q] # {} => log'[q] # {}
  BY <1>1, <1>2, <1>3, RecordStep
<1>5. task' = [task EXCEPT ![k] = u]
  BY DEF RecordPut, RecordDelete, At
<1>6. NoRevision \in [op : Ops, payload : Maybe]
  BY DEF NoRevision, Ops, Maybe
<1>7. u.at = step /\ u.todo = t.todo /\ IsTask(u) /\ step \in {"write", "unregister"}
  <2>1. step \in {"write", "unregister"}
    OBVIOUS
  <2>2. u = Moved(t, step, NoRevision)
    BY DEF Moved
  <2> HIDE DEF step, t, u
  <2> QED
    BY <1>1, <1>2, <1>6, <2>1, <2>2, MovedTask
<1>8. Logged(u, log')
  BY <1>4, <1>7 DEF Logged, Path
<1>9. TasksOK'
  <2>1. task' = [j \in Tasks |-> task'[j]] /\ task'[k] = u /\ \A j \in Tasks \ {k} : task'[j] = task[j]
    BY <1>5 DEF IInv, TasksOK
  <2>2. ASSUME NEW j \in Tasks, task[j] # Idle
        PROVE  Logged(task[j], log) => Logged(task[j], log')
    <3>1. IsTask(task[j])
      BY <2>2 DEF IInv, TasksOK
    <3>2. task[j].at \in {"write", "register", "addIndex"} => task[j].todo[1].path \in Paths
      <4>1. ASSUME task[j].at \in {"write", "register", "addIndex"}
            PROVE  task[j].todo \in Seq(Items) /\ task[j].todo # <<>>
        BY <3>1, <4>1 DEF IsTask, IsRecord
      <4>2. ASSUME task[j].at \in {"write", "register", "addIndex"}
            PROVE  task[j].todo[1] \in Items
        BY <4>1, <4>2
      <4> QED
        BY <4>2 DEF Items
    <3> QED
      BY <1>4, <3>2 DEF Logged
  <2> HIDE DEF u
  <2> QED
    BY <1>7, <1>8, <2>1, <2>2 DEF IInv, TasksOK
<1>10. NoUnloggedConcept' /\ RowsOK'
  BY <1>1, <1>4 DEF IInv, NoUnloggedConcept, RowsOK
<1> QED
  BY <1>4, <1>9, <1>10 DEF IInv

\* The updates of one field of a task.
WithAt(t, x)    == [t EXCEPT !.at = x]
WithTodo(t, x)  == [t EXCEPT !.todo = x]
WithBatch(t, x) == [t EXCEPT !.batch = x]
WithFrom(t, x)  == [t EXCEPT !.from = x]
WithSeen(t, x)  == [t EXCEPT !.seen = x]
WithDirs(t, x)  == [t EXCEPT !.dirs = x]

\* What the log depends on survives an update of the other fields.
LEMMA OtherFields ==
    ASSUME NEW t, IsTask(t), NEW x,
           NEW u \in {WithBatch(t, x), WithFrom(t, x), WithSeen(t, x), WithDirs(t, x)}
    PROVE  IsTask(u) /\ u.at = t.at /\ u.todo = t.todo
<1>1. CASE u = WithBatch(t, x)
  BY <1>1 DEF IsTask, IsRecord, WithBatch
<1>2. CASE u = WithFrom(t, x)
  BY <1>2 DEF IsTask, IsRecord, WithFrom
<1>3. CASE u = WithSeen(t, x)
  BY <1>3 DEF IsTask, IsRecord, WithSeen
<1>4. CASE u = WithDirs(t, x)
  BY <1>4 DEF IsTask, IsRecord, WithDirs
<1> QED
  BY <1>1, <1>2, <1>3, <1>4

\* A task that moves on is in order if it still has a concept to work on, or
\* needs none.
LEMMA AtField ==
    ASSUME NEW t, IsTask(t), NEW x, x \in {"list", "regen", "done"} \/ t.todo # <<>>
    PROVE  IsTask(WithAt(t, x)) /\ WithAt(t, x).at = x /\ WithAt(t, x).todo = t.todo
BY DEF IsTask, IsRecord, WithAt

\* A task takes up what is left of its batch.
LEMMA TodoField ==
    ASSUME NEW t, IsTask(t), NEW x \in Seq(Items), x # <<>> \/ t.at \in {"list", "regen", "done"}
    PROVE  IsTask(WithTodo(t, x)) /\ WithTodo(t, x).at = t.at /\ WithTodo(t, x).todo = x
BY DEF IsTask, IsRecord, WithTodo

\* What empties a row of a path without a revision finds it empty.
LEMMA EmptyRows ==
    ASSUME IInv, NEW p \in Paths \ Staging, log[p] = {}
    PROVE  file[p] = Absent /\ registry[p] = Absent /\ index[p] = Absent
BY DEF IInv, NoUnloggedConcept

\* The writes of a put, which are past its record.
LEMMA WritingSteps ==
    ASSUME IInv, NEW k \in Tasks, Write(k) \/ Register(k)
    PROVE  IInv'
<1>1. task[k].kind # "idle" /\ task[k].at \in {"write", "register"} /\ UNCHANGED log
  BY DEF Write, Register, At
<1>2. Path(k) \in Paths /\ Content(k) \in Maybe /\ Logged(task[k], log)
  BY <1>1, InFlight
<1>3. Path(k) \notin Staging => log[Path(k)] # {}
  BY <1>1, <1>2 DEF Logged, Path
<1>4. RowsOK'
  BY <1>2 DEF Write, Register, IInv, RowsOK, Listings
<1>5. \A p \in Paths \ Staging :
        \/ log[p] # {}
        \/ file'[p] = file[p] /\ registry'[p] = registry[p] /\ index'[p] = index[p]
  BY <1>2, <1>3 DEF Write, Register, IInv, RowsOK, Listings
<1>6. \E step : Goto(k, step)
  BY DEF Write, Register
<1> QED
  BY <1>1, <1>4, <1>5, <1>6, GotoStep

\* The steps of a delete and of a sweep, which only empty rows.
LEMMA RemovingSteps ==
    ASSUME IInv, NEW k \in Tasks, Unregister(k) \/ Unindex(k) \/ Unlink(k) \/ RemoveRow(k)
    PROVE  IInv'
<1>1. /\ task[k].kind # "idle" /\ task[k].at \notin {"list", "regen", "done"} /\ UNCHANGED log
  BY DEF Unregister, Unindex, Unlink, RemoveRow, At
<1>2. Path(k) \in Paths
  BY <1>1, InFlight
<1>3. RowsOK'
  BY <1>2 DEF Unregister, Unindex, Unlink, RemoveRow, IInv, RowsOK, Listings, Maybe
<1>4. ASSUME NEW p \in Paths \ Staging, log[p] = {}
      PROVE  file'[p] = file[p] /\ registry'[p] = registry[p] /\ index'[p] = index[p]
  <2>1. file[p] = Absent /\ registry[p] = Absent /\ index[p] = Absent
    BY <1>4, EmptyRows
  <2> QED
    BY <1>2, <2>1 DEF Unregister, Unindex, Unlink, RemoveRow, IInv, RowsOK, Listings
<1>5. \E step \in {"unindex", "unlink", "list", "done"} : Goto(k, step)
  BY DEF Unregister, Unindex, Unlink, RemoveRow, Return
<1>6. \A step \in {"unindex", "unlink", "list", "done"} : step \notin {"write", "register", "addIndex"}
  OBVIOUS
<1> QED
  BY <1>1, <1>3, <1>4, <1>5, <1>6, GotoStep

\* The last step of a put, to the next concept of its batch.
LEMMA AddIndexStep ==
    ASSUME IInv, NEW k \in Tasks, AddIndex(k)
    PROVE  IInv'
<1> DEFINE t    == task[k]
           rest == Tail(t.todo)
           step == IF rest = <<>> THEN "list" ELSE FirstStep(rest[1].path, t.tag)
           v    == WithAt(t, step)
           w    == WithTodo(v, rest)
<1>1. t.kind # "idle" /\ t.at = "addIndex" /\ UNCHANGED <<file, registry, log>>
  BY DEF AddIndex, At
<1>2. /\ Path(k) \in Paths /\ Content(k) \in Maybe
      /\ IsTask(t) /\ Logged(t, log)
  BY <1>1, InFlight
<1>3. Path(k) \notin Staging => log[Path(k)] # {}
  BY <1>1, <1>2 DEF Logged, Path
<1>4. RowsOK'
  BY <1>1, <1>2 DEF AddIndex, IInv, RowsOK, Listings
<1>5. \A p \in Paths \ Staging :
        \/ log[p] # {}
        \/ file'[p] = file[p] /\ registry'[p] = registry[p] /\ index'[p] = index[p]
  BY <1>1, <1>2, <1>3 DEF AddIndex, IInv, RowsOK, Listings
<1>6. task'[k] = w /\ task' = [task EXCEPT ![k] = task'[k]]
  BY DEF AddIndex, IInv, TasksOK, WithAt, WithTodo
<1>7. t.todo \in Seq(Items) /\ t.todo # <<>> /\ rest \in Seq(Items)
  BY <1>1, <1>2 DEF IsTask, IsRecord
<1>8. /\ rest = <<>> => step = "list"
      /\ step = "write" => rest[1].path \in Staging
      /\ step \notin {"register", "addIndex"}
  BY DEF FirstStep
<1> HIDE DEF rest, step
<1>9. IsTask(v) /\ v.at = step
  BY <1>2, <1>7, AtField
<1> HIDE DEF v
<1>10. IsTask(w) /\ w.at = step /\ w.todo = rest
  BY <1>7, <1>8, <1>9, TodoField
<1> HIDE DEF w
<1>11. Logged(w, log)
  BY <1>8, <1>10 DEF Logged
<1> QED
  BY <1>1, <1>4, <1>5, <1>6, <1>10, <1>11, QuietStep

\* A step that changes no row and no chain, of a task that stays in order and
\* is not past a record.
LEMMA LocalStep ==
    ASSUME IInv, NEW k \in Tasks, UNCHANGED <<file, registry, index, log>>, NEW u,
           task' = [task EXCEPT ![k] = u], IsTask(u), u.at \notin {"write", "register", "addIndex"}
    PROVE  IInv'
<1>1. task'[k] = u /\ task' = [task EXCEPT ![k] = task'[k]]
  BY DEF IInv, TasksOK
<1>2. RowsOK' /\ Logged(u, log)
  BY DEF IInv, RowsOK, Logged
<1> QED
  BY <1>1, <1>2, QuietStep

\* A restore reads its snapshot.
LEMMA SnapshotStep ==
    ASSUME IInv, NEW k \in Tasks, Snapshot(k)
    PROVE  IInv'
<1> DEFINE t == task[k]
<1>1. t.kind # "idle" /\ t.at = "snapshot" /\ UNCHANGED stored
  BY DEF Snapshot, At
<1>2. IsTask(t) /\ Path(k) \in Paths
  BY <1>1, InFlight
<1>3. CASE Refuse(k)
  BY <1>1, <1>3, RefuseStep
<1>4. ASSUME NEW r \in log[Path(k)],
             LET b == <<[path |-> Path(k), content |-> r.payload]>>
             IN  task' = [task EXCEPT ![k].batch = b, ![k].todo = b, ![k].from = 0, ![k].at = "preRead"]
      PROVE  IInv'
  <2> DEFINE b  == <<[path |-> Path(k), content |-> r.payload]>>
             u1 == WithBatch(t, b)
             u2 == WithTodo(u1, b)
             u3 == WithFrom(u2, 0)
             u4 == WithAt(u3, "preRead")
  <2>1. r.payload \in Maybe
    BY <1>2 DEF IInv, LogOK, Exact, Chains
  <2>2. b \in Seq(Items) /\ b # <<>>
    BY <1>2, <2>1 DEF Items
  <2>3. task' = [task EXCEPT ![k] = u4]
    BY <1>4 DEF IInv, TasksOK, WithBatch, WithTodo, WithFrom, WithAt
  <2> HIDE DEF b
  <2>4. IsTask(u1)
    BY <1>2, OtherFields
  <2> HIDE DEF u1
  <2>5. IsTask(u2) /\ u2.todo = b
    BY <2>2, <2>4, TodoField
  <2> HIDE DEF u2
  <2>6. IsTask(u3) /\ u3.todo = b
    BY <2>5, OtherFields
  <2> HIDE DEF u3
  <2>7. IsTask(u4) /\ u4.at = "preRead"
    BY <2>2, <2>6, AtField
  <2>8. u4.at \notin {"write", "register", "addIndex"}
    BY <2>7
  <2> HIDE DEF u4
  <2> QED
    BY <1>1, <2>3, <2>7, <2>8, LocalStep DEF stored
<1> QED
  BY <1>3, <1>4 DEF Snapshot

\* The index.md files are made from the registry.
LEMMA ListingSteps ==
    ASSUME IInv, NEW k \in Tasks, List(k) \/ Regen(k)
    PROVE  IInv'
<1> DEFINE t == task[k]
<1>1. /\ t.kind # "idle" /\ t.at \in {"list", "regen"}
      /\ UNCHANGED <<file, registry, index, log>>
  BY DEF List, Regen, stored
<1>2. IsTask(t)
  BY <1>1, InFlight
<1>3. \E seen, dirs, at : at \in {"regen", "done"} /\
        \/ task' = [task EXCEPT ![k] = WithAt(WithDirs(WithSeen(t, seen), dirs), at)]
        \/ task' = [task EXCEPT ![k] = WithAt(WithSeen(WithDirs(t, dirs), seen), at)]
        \/ t.at = "regen" /\ task' = [task EXCEPT ![k] = WithDirs(t, dirs)]
  <2>1. CASE List(k)
    <3>1. task' = [task EXCEPT ![k] = WithAt(WithDirs(WithSeen(t, registry), ListedDirs(registry)), "regen")]
      BY <2>1 DEF List, IInv, TasksOK, WithAt, WithDirs, WithSeen
    <3> QED
      BY <3>1
  <2>2. CASE Regen(k)
    <3>1. CASE task' = [task EXCEPT ![k].dirs = {}, ![k].seen = NoListing, ![k].at = "done"]
      <4>1. task' = [task EXCEPT ![k] = WithAt(WithSeen(WithDirs(t, {}), NoListing), "done")]
        BY <3>1 DEF IInv, TasksOK, WithAt, WithDirs, WithSeen
      <4> QED
        BY <4>1
    <3>2. ASSUME NEW rest, task' = [task EXCEPT ![k].dirs = rest]
          PROVE  task' = [task EXCEPT ![k] = WithDirs(t, rest)] /\ t.at = "regen"
      BY <2>2, <3>2 DEF Regen, IInv, TasksOK, WithDirs
    <3> QED
      BY <2>2, <3>1, <3>2 DEF Regen
  <2> QED
    BY <2>1, <2>2
<1>4. PICK seen, dirs, at : at \in {"regen", "done"} /\
        \/ task' = [task EXCEPT ![k] = WithAt(WithDirs(WithSeen(t, seen), dirs), at)]
        \/ task' = [task EXCEPT ![k] = WithAt(WithSeen(WithDirs(t, dirs), seen), at)]
        \/ t.at = "regen" /\ task' = [task EXCEPT ![k] = WithDirs(t, dirs)]
  BY <1>3
<1> HIDE DEF t
<1>5. ASSUME NEW u, IsTask(u)
      PROVE  IsTask(WithSeen(u, seen)) /\ IsTask(WithDirs(u, dirs)) /\ WithDirs(u, dirs).at = u.at
             /\ IsTask(WithAt(u, at)) /\ WithAt(u, at).at = at
  BY <1>4, <1>5, OtherFields, AtField
<1>6. at \notin {"write", "register", "addIndex"} /\ "regen" \notin {"write", "register", "addIndex"}
  BY <1>4
<1>7. CASE task' = [task EXCEPT ![k] = WithAt(WithDirs(WithSeen(t, seen), dirs), at)]
  <2> DEFINE u == WithAt(WithDirs(WithSeen(t, seen), dirs), at)
  <2>1. IsTask(u) /\ u.at = at /\ task' = [task EXCEPT ![k] = u]
    BY <1>2, <1>5, <1>7 DEF t
  <2> HIDE DEF u
  <2> QED
    BY <1>1, <1>6, <2>1, LocalStep
<1>8. CASE task' = [task EXCEPT ![k] = WithAt(WithSeen(WithDirs(t, dirs), seen), at)]
  <2> DEFINE u == WithAt(WithSeen(WithDirs(t, dirs), seen), at)
  <2>1. IsTask(u) /\ u.at = at /\ task' = [task EXCEPT ![k] = u]
    BY <1>2, <1>5, <1>8 DEF t
  <2> HIDE DEF u
  <2> QED
    BY <1>1, <1>6, <2>1, LocalStep
<1>9. CASE t.at = "regen" /\ task' = [task EXCEPT ![k] = WithDirs(t, dirs)]
  <2> DEFINE u == WithDirs(t, dirs)
  <2>1. IsTask(u) /\ u.at = "regen" /\ task' = [task EXCEPT ![k] = u]
    BY <1>2, <1>5, <1>9 DEF t
  <2> HIDE DEF u
  <2> QED
    BY <1>1, <1>6, <2>1, LocalStep
<1> QED
  BY <1>4, <1>7, <1>8, <1>9

\* A delete reads the concept, a sweep looks for it.
LEMMA ReadingSteps ==
    ASSUME IInv, NEW k \in Tasks, ReadDoomed(k) \/ Lookup(k)
    PROVE  IInv'
<1> DEFINE t   == task[k]
           rev == [op |-> "delete", payload |-> file[Path(k)]]
           at  == IF Path(k) \in Staging THEN "unregister" ELSE "recordDelete"
           u   == Moved(t, at, rev)
<1>1. t.kind # "idle" /\ t.at \notin {"list", "regen", "done"} /\ UNCHANGED stored
  BY DEF ReadDoomed, Lookup, At
<1>2. IsTask(t) /\ Path(k) \in Paths
  BY <1>1, InFlight
<1>3. CASE Refuse(k)
  BY <1>1, <1>3, RefuseStep
<1>4. CASE Goto(k, "removeRow")
  <2>1. RowsOK' /\ UNCHANGED <<log, file, registry, index>>
    BY <1>1 DEF stored, IInv, RowsOK
  <2>2. "removeRow" \notin {"write", "register", "addIndex"}
    OBVIOUS
  <2> QED
    BY <1>1, <1>4, <2>1, <2>2, GotoStep
<1>5. CASE task' = [task EXCEPT ![k].at = at, ![k].rev = rev]
  <2>1. rev \in [op : Ops, payload : Maybe]
    BY <1>2 DEF IInv, RowsOK, Listings, Ops
  <2>2. task' = [task EXCEPT ![k] = u]
    BY <1>5 DEF Moved, IInv, TasksOK
  <2>3. at \notin {"write", "register", "addIndex"}
    OBVIOUS
  <2> HIDE DEF rev, at
  <2>4. IsTask(u) /\ u.at = at
    BY <1>1, <1>2, <2>1, MovedTask
  <2> HIDE DEF u
  <2> QED
    BY <1>1, <2>2, <2>3, <2>4, LocalStep DEF stored
<1> QED
  BY <1>3, <1>4, <1>5 DEF ReadDoomed, Lookup

\* The boot reindex refreshes rows of concepts that have a revision.
LEMMA ReindexStep ==
    ASSUME IInv, Reindex
    PROVE  IInv'
<1>1. PICK p \in Paths \ Staging :
        /\ index[p] # Absent
        /\ index' = [index EXCEPT ![p] = file[p]]
        /\ UNCHANGED <<file, registry, log, task>>
  BY DEF Reindex
<1>2. RowsOK'
  BY <1>1 DEF IInv, RowsOK, Listings
<1>3. LogOK' /\ TasksOK'
  BY <1>1 DEF IInv, LogOK, TasksOK
<1>4. log[p] # {}
  BY <1>1 DEF IInv, NoUnloggedConcept
<1>5. NoUnloggedConcept'
  BY <1>1, <1>4 DEF IInv, NoUnloggedConcept, RowsOK, Listings
<1> QED
  BY <1>2, <1>3, <1>5 DEF IInv

\* Every step keeps the invariant.
LEMMA NextIInv == IInv /\ [Next]_vars => IInv'
<1> SUFFICES ASSUME IInv, [Next]_vars PROVE IInv'
  OBVIOUS
<1>1. CASE UNCHANGED vars
  BY <1>1 DEF vars, stored, IInv, RowsOK, LogOK, TasksOK, NoUnloggedConcept
<1>2. CASE Reindex
  BY <1>2, ReindexStep
<1>3. ASSUME NEW k \in Tasks, Put(k) \/ Restore(k) \/ Delete(k) \/ Sweep(k)
      PROVE  IInv'
  BY <1>3, RequestStep
<1>4. ASSUME NEW k \in Tasks, Abort(k) \/ Finish(k)
      PROVE  IInv'
  <2>1. Refuse(k) /\ UNCHANGED stored
    BY <1>4 DEF Abort, Finish
  <2> QED
    BY <2>1, RefuseStep
<1>5. ASSUME NEW k \in Tasks, Step(k)
      PROVE  IInv'
  <2>1. CASE Exists(k) \/ PreRead(k)
    BY <2>1, DecidingSteps
  <2>2. CASE RecordPut(k) \/ RecordDelete(k)
    BY <2>2, RecordingSteps
  <2>3. CASE Write(k) \/ Register(k)
    BY <2>3, WritingSteps
  <2>4. CASE AddIndex(k)
    BY <2>4, AddIndexStep
  <2>5. CASE Snapshot(k)
    BY <2>5, SnapshotStep
  <2>6. CASE List(k) \/ Regen(k)
    BY <2>6, ListingSteps
  <2>7. CASE ReadDoomed(k) \/ Lookup(k)
    BY <2>7, ReadingSteps
  <2>8. CASE Unregister(k) \/ Unindex(k) \/ Unlink(k) \/ RemoveRow(k)
    BY <2>8, RemovingSteps
  <2>9. CASE Finish(k)
    BY <1>4, <2>9
  <2> QED
    BY <1>5, <2>1, <2>2, <2>3, <2>4, <2>5, <2>6, <2>7, <2>8, <2>9 DEF Step
<1> QED
  BY <1>1, <1>2, <1>3, <1>4, <1>5 DEF Next

-----------------------------------------------------------------------------
(* The theorems *)

\* The numbers record_once hands out leave no gap, and the prune keeps
\* exactly the newest Retention of them, for any number of concurrent
\* writers, aborted at any point.
THEOREM ChainShapeHolds == Spec => []ChainShape
<1>1. IInv => ChainShape
  BY DEF IInv, LogOK, Exact, ChainShape
<1> QED
  BY <1>1, InitIInv, NextIInv, PTL DEF Spec

\* Write-ahead: the file, the registry row and the index row of a concept all
\* come after a record of its path, and the prune never empties a chain.
THEOREM NoUnloggedHolds == Spec => []NoUnloggedConcept
<1>1. IInv => NoUnloggedConcept
  BY DEF IInv
<1> QED
  BY <1>1, InitIInv, NextIInv, PTL DEF Spec

\* No step rewrites a revision or gives out a number a second time.
THEOREM ChainAppendsHolds == Spec => ChainAppends
<1>1. ASSUME IInv, [Next]_vars
      PROVE  [\A p \in Paths : \A r \in log'[p] \ log[p] : r.no > Latest(log[p])]_vars
  <2>1. CASE UNCHANGED log
    BY <2>1
  <2>2. ASSUME NEW k \in Tasks, RecordPut(k) \/ RecordDelete(k)
        PROVE  \A p \in Paths : \A r \in log'[p] \ log[p] : r.no > Latest(log[p])
    <3>1. /\ task[k].kind # "idle" /\ task[k].at \notin {"list", "regen", "done"}
          /\ log' = [log EXCEPT ![Path(k)] = Recorded(@, task[k].rev.op, task[k].rev.payload)]
      BY <2>2 DEF RecordPut, RecordDelete, At, Record
    <3>2. Path(k) \in Paths /\ IsTask(task[k])
      BY <1>1, <3>1, InFlight
    <3>3. task[k].rev \in [op : Ops, payload : Maybe]
      BY <3>2 DEF IsTask, IsRecord
    <3> QED
      BY <1>1, <3>1, <3>2, <3>3, RecordStep
  <2>3. UNCHANGED log \/ \E k \in Tasks : RecordPut(k) \/ RecordDelete(k)
    BY <1>1, ZenonT(30) DEF vars, stored, Next, Step, Put, Restore, Delete, Sweep, Start, Abort, Reindex, Exists, PreRead,
                Write, Register, AddIndex, Snapshot, List, Regen, ReadDoomed, Unregister, Unindex, Unlink,
                Lookup, RemoveRow, Finish
  <2> QED
    BY <2>1, <2>2, <2>3
<1> QED
  BY <1>1, InitIInv, NextIInv, PTL DEF Spec, ChainAppends

-----------------------------------------------------------------------------
(* Writers that never overlapped *)

Writer(t) == t # Idle /\ t.kind # "sweep"

\* What is left to do is the end of the batch; a put, once it has its
\* snapshot, puts something, and a delete has one path.
Shape(t) ==
    /\ t.batch \in Seq(Items) /\ t.todo \in Seq(Items)
    /\ Len(t.todo) <= Len(t.batch)
    /\ \A i \in 1 .. Len(t.todo) : t.todo[i] = t.batch[Len(t.batch) - Len(t.todo) + i]
    /\ t.kind = "sweep" => t.at \in {"lookup", "removeRow", "done"}
    /\ t.kind = "put" /\ t.at # "snapshot" =>
         \A i \in 1 .. Len(t.todo) : t.todo[i].content # Absent
    /\ t.kind = "put" /\ t.at \in {"list", "regen", "done"} => t.todo = <<>>
    /\ t.kind = "delete" =>
         t.todo = t.batch /\ Len(t.batch) = 1 /\ t.batch[1].content = Absent

\* What a writer relies on at the path it works on, if no other one raced it:
\* a put has its file when it registers it, a delete has taken the rows when
\* it unlinks, and the revision is the undo of what comes after it.
Guard(t, f, g, x, l, r) ==
    LET p == t.todo[1].path
        undo(payload) == p \notin Staging /\ g[p] # Absent => payload = f[p]
    IN  t.at \notin {"list", "regen", "done"} /\ p \notin r =>
          /\ t.kind = "put" /\ t.at \in {"register", "addIndex"} => f[p] # Absent
          /\ t.kind = "delete" /\ t.at \in {"unindex", "unlink"} => g[p] = Absent
          /\ t.kind = "delete" /\ t.at = "unlink" => x[p] = Absent
          /\ t.at \in {"record", "recordDelete"} => undo(t.rev.payload)
          /\ t.at \in {"write", "unregister"} => undo(Newest(l[p]).payload)

Apart ==
    /\ \A k \in Tasks : task[k] # Idle => Shape(task[k])
    /\ \A j, k \in Tasks : j # k /\ Writer(task[j]) /\ Writer(task[k]) =>
         Touched(task[j]) \cap Touched(task[k]) \subseteq raced
    /\ \A k \in Tasks :
         Writer(task[k]) => Guard(task[k], file, registry, index, log, raced)

Readable(p, f, g, x) == g[p] # Absent \/ x[p] # Absent => f[p] # Absent

RaceInv == Apart /\ NothingDangles

\* What another task sees of a step: nothing, or a swept index row.
Untouched(q) ==
    /\ file'[q] = file[q] /\ registry'[q] = registry[q] /\ log'[q] = log[q]
    /\ index'[q] \in {index[q], Absent}

\* A guard depends on one path.
LEMMA GuardKept ==
    ASSUME NEW t, NEW f, NEW g, NEW x, NEW l, NEW r,
           NEW f2, NEW g2, NEW x2, NEW l2, NEW r2,
           Guard(t, f, g, x, l, r), r \subseteq r2,
           t.at \notin {"list", "regen", "done"} /\ t.todo[1].path \notin r2 =>
             LET p == t.todo[1].path
             IN  /\ f2[p] = f[p] /\ g2[p] = g[p] /\ l2[p] = l[p]
                 /\ x2[p] \in {x[p], Absent}
    PROVE  Guard(t, f2, g2, x2, l2, r2)
<1> DEFINE p == t.todo[1].path
<1>1. CASE t.at \in {"list", "regen", "done"} \/ p \in r2
  BY <1>1 DEF Guard
<1>2. CASE t.at \notin {"list", "regen", "done"} /\ p \notin r2
  BY <1>2 DEF Guard
<1> QED
  BY <1>1, <1>2

\* The path a task works on is one of its batch.
LEMMA PathTouched ==
    ASSUME NEW t, Shape(t), t.todo # <<>>
    PROVE  t.todo[1].path \in Touched(t)
<1>1. /\ t.todo \in Seq(Items) /\ t.batch \in Seq(Items) /\ Len(t.todo) <= Len(t.batch)
      /\ \A i \in 1 .. Len(t.todo) : t.todo[i] = t.batch[Len(t.batch) - Len(t.todo) + i]
  BY DEF Shape
<1>2. /\ Len(t.todo) \in Nat /\ Len(t.todo) > 0 /\ Len(t.batch) \in Nat
      /\ Len(t.todo) <= Len(t.batch)
  BY <1>1
<1>3. 1 \in 1 .. Len(t.todo) /\ Len(t.batch) - Len(t.todo) + 1 \in 1 .. Len(t.batch)
  <2> DEFINE m == Len(t.todo)
             n == Len(t.batch)
  <2>1. m \in Nat /\ m > 0 /\ n \in Nat /\ m <= n
    BY <1>2
  <2> HIDE DEF m, n
  <2>2. 1 \in 1 .. m /\ n - m + 1 \in 1 .. n
    BY <2>1
  <2> QED
    BY <2>2 DEF m, n
<1>4. DOMAIN t.batch = 1 .. Len(t.batch)
  BY <1>1
<1>5. t.todo[1] = t.batch[Len(t.batch) - Len(t.todo) + 1]
  BY <1>1, <1>3, Zenon
<1> QED
  BY <1>3, <1>4, <1>5 DEF Touched

\* A step of one task keeps the others apart: it changes one path, which no
\* other writer works on unless they raced.
LEMMA StepApart ==
    ASSUME IInv, RaceInv, NEW k \in Tasks, task[k] # Idle, raced' = raced,
           NEW u, task' = [task EXCEPT ![k] = u],
           \A q \in Paths : Untouched(q)
             \/ /\ q = Path(k) /\ Writer(task[k]) /\ task[k].at \notin {"list", "regen", "done"}
                /\ q \notin raced => Readable(q, file', registry', index'),
           \/ u = Idle
           \/ /\ u.kind = task[k].kind /\ Touched(u) \subseteq Touched(task[k]) /\ Shape(u)
              /\ Writer(task[k]) => Guard(u, file', registry', index', log', raced)
    PROVE  RaceInv'
<1>0. task'[k] = u /\ \A j \in Tasks \ {k} : task'[j] = task[j]
  BY DEF IInv, TasksOK
<1>1. ASSUME NEW j \in Tasks, task'[j] # Idle PROVE Shape(task'[j])
  BY <1>0, <1>1 DEF RaceInv, Apart
<1>a. ASSUME NEW j \in Tasks
      PROVE  /\ Writer(task'[j]) => Writer(task[j])
             /\ Writer(task'[j]) => Touched(task'[j]) \subseteq Touched(task[j])
  BY <1>0, <1>a DEF Writer
<1>2. ASSUME NEW i \in Tasks, NEW j \in Tasks, i # j, Writer(task'[i]), Writer(task'[j])
      PROVE  Touched(task'[i]) \cap Touched(task'[j]) \subseteq raced
  <2>1. Touched(task[i]) \cap Touched(task[j]) \subseteq raced
    BY <1>a, <1>2 DEF RaceInv, Apart
  <2> QED
    BY <1>a, <1>2, <2>1
<1>3. ASSUME NEW j \in Tasks, Writer(task'[j])
      PROVE  Guard(task'[j], file', registry', index', log', raced)
  <2>1. CASE j = k
    BY <1>0, <1>3, <2>1 DEF Writer
  <2>2. CASE j # k
    <3> DEFINE t == task[j]
               p == t.todo[1].path
    <3>1. /\ task'[j] = t /\ t # Idle /\ Writer(t)
          /\ Guard(t, file, registry, index, log, raced)
          /\ Shape(t) /\ IsTask(t)
      BY <1>0, <1>3, <2>2 DEF RaceInv, Apart, Writer, IInv, TasksOK
    <3>2. ASSUME t.at \notin {"list", "regen", "done"}, p \notin raced
          PROVE  Untouched(p)
      <4>1. t.todo # <<>> /\ t.todo \in Seq(Items)
        BY <3>1, <3>2 DEF IsTask
      <4>2. p \in Touched(t)
        BY <3>1, <4>1, PathTouched
      <4>3. t.todo[1] \in Items
        BY <4>1
      <4>4. p \in Paths
        BY <4>3 DEF Items
      <4>5. ASSUME p = Path(k), Writer(task[k]), task[k].at \notin {"list", "regen", "done"}
            PROVE  FALSE
        <5>1. Shape(task[k]) /\ IsTask(task[k])
          BY <4>5 DEF RaceInv, Apart, Writer, IInv, TasksOK
        <5>2. task[k].todo # <<>>
          BY <4>5, <5>1 DEF IsTask
        <5>3. p \in Touched(task[k])
          BY <4>5, <5>1, <5>2, PathTouched DEF Path
        <5>4. Touched(t) \cap Touched(task[k]) \subseteq raced
          BY <2>2, <3>1, <4>5 DEF RaceInv, Apart
        <5> QED
          BY <3>2, <4>2, <5>3, <5>4
      <4> QED
        BY <4>4, <4>5
    <3> HIDE DEF t
    <3>3. Guard(t, file', registry', index', log', raced)
      BY <3>1, <3>2, GuardKept DEF Untouched
    <3> QED
      BY <3>1, <3>3
  <2> QED
    BY <2>1, <2>2
<1>4. ASSUME NEW q \in Paths, q \notin raced PROVE Readable(q, file', registry', index')
  <2>1. CASE Untouched(q)
    <3>1. Readable(q, file, registry, index)
      BY <1>4 DEF RaceInv, NothingDangles, Readable
    <3> QED
      BY <2>1, <3>1 DEF Untouched, Readable
  <2> QED
    BY <1>4, <2>1
<1>5. NothingDangles'
  BY <1>4 DEF NothingDangles, Readable
<1>6. Apart'
  BY <1>1, <1>2, <1>3 DEF Apart
<1> QED
  BY <1>5, <1>6 DEF RaceInv

\* A task that moves on with the same batch keeps its shape.
LEMMA ShapeMoved ==
    ASSUME NEW t, NEW u, Shape(t), u.kind = t.kind, u.batch = t.batch, u.todo = t.todo,
           t.kind = "sweep" => u.at \in {"lookup", "removeRow", "done"},
           t.kind = "put" =>
             t.at # "snapshot" /\ (u.at \in {"list", "regen", "done"} => t.todo = <<>>)
    PROVE  Shape(u) /\ Touched(u) = Touched(t)
BY DEF Shape, Touched

\* A task in flight, as the lemmas below need it.
LEMMA Working ==
    ASSUME IInv, RaceInv, NEW k \in Tasks, task[k].kind # "idle"
    PROVE  /\ task[k] # Idle /\ IsTask(task[k]) /\ Shape(task[k])
           /\ Writer(task[k]) => Guard(task[k], file, registry, index, log, raced)
           /\ task[k].at \notin {"list", "regen", "done"} =>
                /\ Path(k) \in Paths /\ Content(k) \in Maybe
                /\ task[k].kind = "put" /\ task[k].at # "snapshot" => Content(k) # Absent
                /\ Path(k) \notin raced => Readable(Path(k), file, registry, index)
<1>1. task[k] # Idle /\ IsTask(task[k]) /\ Shape(task[k])
  BY InFlight DEF Idle, RaceInv, Apart
<1>2. ASSUME task[k].at \notin {"list", "regen", "done"}
      PROVE  /\ Path(k) \in Paths /\ Content(k) \in Maybe
             /\ task[k].kind = "put" /\ task[k].at # "snapshot" => Content(k) # Absent
             /\ Path(k) \notin raced => Readable(Path(k), file, registry, index)
  <2>1. task[k].todo \in Seq(Items) /\ task[k].todo # <<>>
    BY <1>1, <1>2 DEF IsTask
  <2>2. 1 \in 1 .. Len(task[k].todo)
    BY <2>1
  <2>3. task[k].kind = "put" /\ task[k].at # "snapshot" => Content(k) # Absent
    BY <1>1, <2>2, Zenon DEF Shape, Content
  <2>4. Path(k) \in Paths /\ Content(k) \in Maybe
    BY <1>2, InFlight
  <2> QED
    BY <2>3, <2>4 DEF RaceInv, NothingDangles, Readable
<1> QED
  BY <1>1, <1>2 DEF RaceInv, Apart

\* The end of a task changes nothing for the others.
LEMMA RefuseApart ==
    ASSUME IInv, RaceInv, NEW k \in Tasks, task[k].kind # "idle", Refuse(k),
           UNCHANGED <<stored, raced>>
    PROVE  RaceInv'
<1>1. task[k] # Idle
  BY DEF Idle
<1>2. \A q \in Paths : Untouched(q)
  BY DEF stored, Untouched
<1> QED
  BY <1>1, <1>2, StepApart DEF Refuse

\* The fields of a task that goes to a step.
LEMMA GotoFields ==
    ASSUME IInv, NEW k \in Tasks, task[k].kind # "idle", NEW step,
           NEW u, u = [task[k] EXCEPT !.at = step]
    PROVE  /\ u.at = step /\ u.kind = task[k].kind /\ u.batch = task[k].batch
           /\ u.todo = task[k].todo /\ u.rev = task[k].rev
<1>1. IsTask(task[k])
  BY InFlight
<1> QED
  BY <1>1 DEF IsTask, IsRecord

LEMMA WriteApart ==
    ASSUME IInv, RaceInv, NEW k \in Tasks, Write(k) \/ Register(k)
    PROVE  RaceInv'
<1> DEFINE t == task[k]
           step == IF Write(k) THEN "register" ELSE "addIndex"
           u == [t EXCEPT !.at = step]
           p == Path(k)
<1>1. /\ t.kind = "put" /\ t.at \in {"write", "register"}
      /\ raced' = raced /\ log' = log /\ index' = index
  BY DEF Write, Register, At, ghosts
<1>2. /\ t # Idle /\ Shape(t) /\ Writer(t) /\ Guard(t, file, registry, index, log, raced)
      /\ p \in Paths /\ Content(k) \in Maybe /\ Content(k) # Absent
  BY <1>1, Working DEF Writer
<1>3. task' = [task EXCEPT ![k] = u]
  BY DEF Write, Register, Goto, At, IInv, TasksOK
<1>4. step \in {"register", "addIndex"}
  OBVIOUS
<1>5. /\ u.at = step /\ u.kind = t.kind /\ u.batch = t.batch /\ u.todo = t.todo
  BY <1>1, GotoFields
<1>6. file'[p] # Absent \/ p \in raced
  <2>1. CASE Write(k)
    BY <1>2, <2>1 DEF Write, IInv, RowsOK, Listings
  <2>2. CASE Register(k)
    BY <1>1, <1>2, <2>2 DEF Register, At, Guard, Path
  <2> QED
    BY <2>1, <2>2
<1>7. \A q \in Paths \ {p} : Untouched(q)
  BY <1>1, <1>2 DEF Write, Register, IInv, RowsOK, Listings, Untouched
<1> HIDE DEF u, step
<1>8. Shape(u) /\ Touched(u) = Touched(t)
  <2>1. t.kind # "sweep" /\ t.at # "snapshot" /\ u.at \notin {"list", "regen", "done"}
    BY <1>1, <1>4, <1>5
  <2> QED
    BY <1>2, <1>5, <2>1, ShapeMoved
<1>9. Guard(u, file', registry', index', log', raced)
  BY <1>1, <1>4, <1>5, <1>6 DEF Guard, Path
<1>10. p \notin raced => Readable(p, file', registry', index')
  BY <1>6 DEF Readable
<1>11. t.at \notin {"list", "regen", "done"}
  BY <1>1
<1> QED
  BY <1>1, <1>2, <1>3, <1>5, <1>7, <1>8, <1>9, <1>10, <1>11, StepApart

\* The steps that only decide: the task takes another revision.
LEMMA DecideApart ==
    ASSUME IInv, RaceInv, NEW k \in Tasks, task[k].kind \in {"put", "delete"},
           task[k].at \in {"exists", "preRead", "readDoomed"}, UNCHANGED <<stored, raced>>,
           NEW step \in {"record", "recordDelete", "unregister"}, NEW rev,
           task' = [task EXCEPT ![k].at = step, ![k].rev = rev],
           step = "unregister" => Path(k) \in Staging,
           Path(k) \notin raced /\ registry[Path(k)] # Absent => rev.payload = file[Path(k)]
    PROVE  RaceInv'
<1> DEFINE t == task[k]
           u == [t EXCEPT !.at = step, !.rev = rev]
<1>1. task' = [task EXCEPT ![k] = u] /\ t.kind # "idle"
  BY DEF IInv, TasksOK
<1>2. t # Idle /\ Shape(t)
  BY <1>1, Working
<1>3. /\ u.at = step /\ u.kind = t.kind /\ u.batch = t.batch /\ u.todo = t.todo /\ u.rev = rev
  <2>1. IsTask(t)
    BY <1>1, InFlight
  <2> QED
    BY <2>1 DEF IsTask, IsRecord
<1>4. \A q \in Paths : Untouched(q)
  BY DEF stored, Untouched
<1> HIDE DEF u
<1>5. Shape(u) /\ Touched(u) = Touched(t)
  <2>1. t.kind # "sweep" /\ t.at # "snapshot" /\ u.at \notin {"list", "regen", "done"}
    BY <1>3
  <2> QED
    BY <1>2, <1>3, <2>1, ShapeMoved
<1>6. file' = file /\ registry' = registry /\ index' = index /\ log' = log
  BY DEF stored
<1>7. Guard(u, file, registry, index, log, raced)
  BY <1>3 DEF Guard, Path
<1> QED
  BY <1>1, <1>2, <1>3, <1>4, <1>5, <1>6, <1>7, StepApart

\* A step of a task that moves on and changes nothing else.
LEMMA QuietApart ==
    ASSUME IInv, RaceInv, NEW k \in Tasks, task[k].kind # "idle",
           \A q \in Paths : Untouched(q), raced' = raced,
           NEW step \in {"preRead", "removeRow", "done"}, Goto(k, step),
           task[k].kind = "sweep" => step # "preRead",
           task[k].kind = "put" => step = "preRead" /\ task[k].at # "snapshot",
           task[k].kind # "delete"
    PROVE  RaceInv'
<1> DEFINE t == task[k]
           u == [t EXCEPT !.at = step]
<1>1. task' = [task EXCEPT ![k] = u]
  BY DEF Goto, IInv, TasksOK
<1>2. t # Idle /\ Shape(t)
  BY Working
<1>3. u.at = step /\ u.kind = t.kind /\ u.batch = t.batch /\ u.todo = t.todo
  BY GotoFields
<1> HIDE DEF u
<1>4. Shape(u) /\ Touched(u) = Touched(t)
  <2>1. /\ t.kind = "sweep" => u.at \in {"lookup", "removeRow", "done"}
        /\ t.kind = "put" => t.at # "snapshot" /\ u.at \notin {"list", "regen", "done"}
    BY <1>3
  <2> QED
    BY <1>2, <1>3, <2>1, ShapeMoved
<1>5. Guard(u, file', registry', index', log', raced)
  BY <1>3 DEF Guard
<1> QED
  BY <1>1, <1>2, <1>3, <1>4, <1>5, StepApart

LEMMA DecidingApart ==
    ASSUME IInv, RaceInv, NEW k \in Tasks, Exists(k) \/ PreRead(k) \/ ReadDoomed(k)
    PROVE  RaceInv'
<1> DEFINE t == task[k]
           p == Path(k)
<1>1. /\ t.kind \in {"put", "delete"} /\ t.at \in {"exists", "preRead", "readDoomed"}
      /\ t.kind # "idle" /\ UNCHANGED <<stored, raced>>
  BY DEF Exists, PreRead, ReadDoomed, At, ghosts
<1>2. p \in Paths /\ (p \notin raced => Readable(p, file, registry, index))
  BY <1>1, Working
<1>3. CASE Exists(k)
  <2>1. CASE registry[p] = Absent
    <3>1. task' = [task EXCEPT ![k].at = "record",
                               ![k].rev = [op |-> "create", payload |-> Content(k)]]
      BY <1>3, <2>1 DEF Exists, Decide
    <3> QED
      BY <1>1, <2>1, <3>1, DecideApart
  <2>2. CASE registry[p] # Absent
    <3>1. Goto(k, "preRead") /\ t.kind = "put" /\ t.at # "snapshot"
      BY <1>3, <2>2 DEF Exists, At
    <3>2. \A q \in Paths : Untouched(q)
      BY <1>1 DEF stored, Untouched
    <3> QED
      BY <1>1, <3>1, <3>2, QuietApart
  <2> QED
    BY <2>1, <2>2
<1>4. CASE PreRead(k)
  <2> DEFINE pre     == file[p]
             tag     == t.tag
             op      == IF tag # "none" THEN tag ELSE IF pre = Absent THEN "create" ELSE "update"
             payload == IF pre # Absent \/ tag = "restore" THEN pre ELSE Content(k)
             rev     == [op |-> op, payload |-> payload]
  <2>1. task' = [task EXCEPT ![k].at = "record", ![k].rev = rev]
    BY <1>4 DEF PreRead, Decide
  <2>2. p \notin raced /\ registry[p] # Absent => rev.payload = file[p]
    BY <1>2 DEF Readable
  <2> HIDE DEF rev
  <2> QED
    BY <1>1, <2>1, <2>2, DecideApart
<1>5. CASE ReadDoomed(k)
  <2>1. CASE Refuse(k)
    BY <1>1, <2>1, RefuseApart
  <2>2. CASE ~Refuse(k)
    <3> DEFINE step == IF p \in Staging THEN "unregister" ELSE "recordDelete"
               rev  == [op |-> "delete", payload |-> file[p]]
    <3>1. task' = [task EXCEPT ![k].at = step, ![k].rev = rev]
      BY <1>5, <2>2 DEF ReadDoomed
    <3>2. /\ rev.payload = file[p] /\ (step = "unregister" => p \in Staging)
          /\ step \in {"record", "recordDelete", "unregister"}
      OBVIOUS
    <3> HIDE DEF rev, step
    <3> QED
      BY <1>1, <3>1, <3>2, DecideApart
  <2> QED
    BY <2>1, <2>2
<1> QED
  BY <1>3, <1>4, <1>5

\* The record of a put or a delete is the undo of what is there.
LEMMA RecordApart ==
    ASSUME IInv, RaceInv, NEW k \in Tasks, RecordPut(k) \/ RecordDelete(k)
    PROVE  RaceInv'
<1> DEFINE t == task[k]
           p == Path(k)
           step == IF RecordPut(k) THEN "write" ELSE "unregister"
           u == [t EXCEPT !.at = step, !.rev = NoRevision]
<1>1. /\ t.kind \in {"put", "delete"} /\ t.at \in {"record", "recordDelete"}
      /\ raced' = raced /\ file' = file /\ registry' = registry /\ index' = index
      /\ log' = [log EXCEPT ![p] = Recorded(@, t.rev.op, t.rev.payload)]
  BY DEF RecordPut, RecordDelete, At, Record, ghosts
<1>2. /\ t # Idle /\ Shape(t) /\ Writer(t) /\ Guard(t, file, registry, index, log, raced)
      /\ p \in Paths /\ IsTask(t) /\ (p \notin raced => Readable(p, file, registry, index))
  BY <1>1, Working DEF Writer
<1>3. task' = [task EXCEPT ![k] = u]
  BY DEF RecordPut, RecordDelete, At, IInv, TasksOK
<1>4. step \in {"write", "unregister"}
  OBVIOUS
<1>5. u.at = step /\ u.kind = t.kind /\ u.batch = t.batch /\ u.todo = t.todo
  BY <1>2 DEF IsTask, IsRecord
<1>6. Newest(log'[p]).payload = t.rev.payload
  <2>1. Exact(log[p]) /\ t.rev.op \in Ops /\ t.rev.payload \in Maybe
    BY <1>2 DEF IInv, LogOK, IsTask
  <2>2. log'[p] = Recorded(log[p], t.rev.op, t.rev.payload)
    BY <1>1, <1>2 DEF IInv, LogOK
  <2> QED
    BY <2>1, <2>2, RecordedExact
<1>7. \A q \in Paths \ {p} : Untouched(q)
  BY <1>1, <1>2 DEF IInv, LogOK, Untouched
<1> HIDE DEF u, step
<1>8. Shape(u) /\ Touched(u) = Touched(t)
  <2>1. t.kind # "sweep" /\ t.at # "snapshot" /\ u.at \notin {"list", "regen", "done"}
    BY <1>1, <1>4, <1>5
  <2> QED
    BY <1>2, <1>5, <2>1, ShapeMoved
<1>9. p \notin raced /\ p \notin Staging /\ registry[p] # Absent => t.rev.payload = file[p]
  BY <1>1, <1>2 DEF Guard, Path
<1>10. Guard(u, file, registry, index, log', raced)
  BY <1>4, <1>5, <1>6, <1>9 DEF Guard, Path
<1>11. p \notin raced => Readable(p, file', registry', index')
  BY <1>1, <1>2
<1>12. t.at \notin {"list", "regen", "done"}
  BY <1>1
<1> QED
  BY <1>1, <1>2, <1>3, <1>5, <1>7, <1>8, <1>10, <1>11, <1>12, StepApart

\* A delete takes the rows before the file.
LEMMA DeleteApart ==
    ASSUME IInv, RaceInv, NEW k \in Tasks, Unregister(k) \/ Unindex(k) \/ Unlink(k)
    PROVE  RaceInv'
<1> DEFINE t == task[k]
           p == Path(k)
           step == IF Unregister(k) THEN "unindex" ELSE IF Unindex(k) THEN "unlink" ELSE "list"
           u == [t EXCEPT !.at = step]
<1>1. /\ t.kind = "delete" /\ t.at \in {"unregister", "unindex", "unlink"}
      /\ raced' = raced /\ log' = log
  BY DEF Unregister, Unindex, Unlink, At, ghosts
<1>2. /\ t # Idle /\ Shape(t) /\ Writer(t) /\ Guard(t, file, registry, index, log, raced)
      /\ p \in Paths /\ (p \notin raced => Readable(p, file, registry, index))
  BY <1>1, Working DEF Writer
<1>3. task' = [task EXCEPT ![k] = u]
  BY DEF Unregister, Unindex, Unlink, Goto, At, IInv, TasksOK
<1>4. step \in {"unindex", "unlink", "list"}
  OBVIOUS
<1>5. u.at = step /\ u.kind = t.kind /\ u.batch = t.batch /\ u.todo = t.todo
  BY <1>1, GotoFields
<1>6. \A q \in Paths \ {p} : Untouched(q)
  BY <1>1, <1>2 DEF Unregister, Unindex, Unlink, IInv, RowsOK, Listings, Untouched
<1>7. p \notin raced =>
        /\ Readable(p, file', registry', index')
        /\ step \in {"unindex", "unlink"} => registry'[p] = Absent
        /\ step = "unlink" => index'[p] = Absent
  <2>1. CASE Unregister(k)
    BY <1>2, <2>1 DEF Unregister, Readable, IInv, RowsOK, Listings
  <2>2. CASE Unindex(k)
    <3>1. t.at = "unindex" /\ registry' = registry /\ index'[p] = Absent
      BY <1>2, <2>2 DEF Unindex, At, IInv, RowsOK, Listings
    <3>2. p \notin raced => registry[p] = Absent
      BY <1>1, <1>2, <3>1 DEF Guard, Path
    <3> QED
      BY <3>1, <3>2 DEF Readable
  <2>3. CASE Unlink(k)
    <3>1. t.at = "unlink" /\ registry' = registry /\ index' = index /\ step = "list"
      BY <2>3 DEF Unlink, At, Unregister, Unindex
    <3>2. p \notin raced => registry[p] = Absent /\ index[p] = Absent
      BY <1>1, <1>2, <3>1 DEF Guard, Path
    <3> QED
      BY <3>1, <3>2 DEF Readable
  <2> QED
    BY <2>1, <2>2, <2>3
<1> HIDE DEF u, step
<1>8. Shape(u) /\ Touched(u) = Touched(t)
  BY <1>1, <1>2, <1>5, ShapeMoved
<1>9. Guard(u, file', registry', index', log', raced)
  BY <1>1, <1>4, <1>5, <1>7 DEF Guard, Path
<1>10. t.at \notin {"list", "regen", "done"}
  BY <1>1
<1> QED
  BY <1>1, <1>2, <1>3, <1>5, <1>6, <1>7, <1>8, <1>9, <1>10, StepApart

\* A put that turns to the next concept of its batch keeps its shape.
LEMMA ShapeTail ==
    ASSUME NEW t, NEW u, Shape(t), t.kind = "put", t.at # "snapshot", t.todo # <<>>,
           u.kind = t.kind, u.batch = t.batch, u.todo = Tail(t.todo),
           u.at \in {"list", "regen", "done"} => Tail(t.todo) = <<>>
    PROVE  Shape(u) /\ Touched(u) = Touched(t)
<1> DEFINE m == Len(t.todo)
           n == Len(t.batch)
           rest == Tail(t.todo)
<1>1. /\ t.todo \in Seq(Items) /\ t.batch \in Seq(Items)
      /\ \A i \in 1 .. m : t.todo[i] = t.batch[n - m + i] /\ t.todo[i].content # Absent
  BY DEF Shape
<1>2. m \in Nat /\ n \in Nat /\ m <= n /\ m # 0
  BY <1>1 DEF Shape
<1>3. rest \in Seq(Items) /\ Len(rest) = m - 1 /\ \A i \in 1 .. m - 1 : rest[i] = t.todo[i + 1]
  BY <1>1
<1> HIDE DEF m, n, rest
<1>4. ASSUME NEW i \in 1 .. Len(rest)
      PROVE  rest[i] = t.batch[n - Len(rest) + i] /\ rest[i].content # Absent
  <2>1. i + 1 \in 1 .. m /\ i \in 1 .. m - 1 /\ n - Len(rest) + i = n - m + (i + 1)
    BY <1>2, <1>3, <1>4
  <2>2. rest[i] = t.todo[i + 1]
    BY <1>3, <2>1
  <2>3. t.todo[i + 1] = t.batch[n - m + (i + 1)] /\ t.todo[i + 1].content # Absent
    BY <1>1, <2>1
  <2> QED
    BY <2>1, <2>2, <2>3
<1>5. Len(rest) <= n
  BY <1>2, <1>3
<1>6. u.todo = rest /\ n = Len(u.batch) /\ u.batch \in Seq(Items)
  BY <1>1 DEF rest, n
<1>7. u.at \in {"list", "regen", "done"} => rest = <<>>
  BY DEF rest
<1>8. Shape(u)
  BY <1>3, <1>4, <1>5, <1>6, <1>7 DEF Shape
<1> QED
  BY <1>8 DEF Touched

LEMMA AddIndexApart ==
    ASSUME IInv, RaceInv, NEW k \in Tasks, AddIndex(k)
    PROVE  RaceInv'
<1> DEFINE t == task[k]
           p == Path(k)
           rest == Tail(t.todo)
           step == IF rest = <<>> THEN "list" ELSE FirstStep(rest[1].path, t.tag)
           u == [t EXCEPT !.at = step, !.todo = rest]
<1>1. /\ t.kind = "put" /\ t.at = "addIndex" /\ raced' = raced
      /\ log' = log /\ file' = file /\ registry' = registry
  BY DEF AddIndex, At, ghosts
<1>2. /\ t # Idle /\ Shape(t) /\ Writer(t) /\ Guard(t, file, registry, index, log, raced)
      /\ p \in Paths /\ IsTask(t) /\ t.todo # <<>>
  BY <1>1, Working DEF Writer, IsTask
<1>3. task' = [task EXCEPT ![k] = u]
  BY DEF AddIndex, At, IInv, TasksOK
<1>4. /\ step \in {"list", "regen", "done"} => rest = <<>>
      /\ step \in {"list", "exists", "preRead"} \/ (step = "write" /\ rest[1].path \in Staging)
  BY DEF FirstStep
<1> HIDE DEF step
<1>5. u.at = step /\ u.kind = t.kind /\ u.batch = t.batch /\ u.todo = rest
  BY <1>2 DEF IsTask, IsRecord
<1>6. \A q \in Paths \ {p} : Untouched(q)
  BY <1>1, <1>2 DEF AddIndex, IInv, RowsOK, Listings, Untouched
<1>7. p \notin raced => Readable(p, file', registry', index')
  BY <1>1, <1>2 DEF Guard, Path, Readable
<1> HIDE DEF u
<1>8. Shape(u) /\ Touched(u) = Touched(t)
  BY <1>1, <1>2, <1>4, <1>5, ShapeTail
<1>9. Guard(u, file', registry', index', log', raced)
  BY <1>1, <1>4, <1>5 DEF Guard
<1>10. t.at \notin {"list", "regen", "done"}
  BY <1>1
<1> QED
  BY <1>1, <1>2, <1>3, <1>5, <1>6, <1>7, <1>8, <1>9, <1>10, StepApart

\* A batch of one.
LEMMA ShapeSingle ==
    ASSUME NEW u, NEW x \in Items, u.batch = <<x>>, u.todo = <<x>>,
           u.at \notin {"list", "regen", "done"},
           u.kind = "sweep" => u.at = "lookup",
           u.kind = "put" => u.at = "snapshot" \/ x.content # Absent,
           u.kind = "delete" => x.content = Absent
    PROVE  Shape(u) /\ Touched(u) = {x.path}
<1> DEFINE b == <<x>>
<1>1. b \in Seq(Items) /\ Len(b) = 1 /\ b[1] = x /\ DOMAIN b = {1}
  OBVIOUS
<1>2. \A i \in 1 .. Len(b) : b[i] = b[Len(b) - Len(b) + i] /\ b[i] = x
  BY <1>1
<1>3. u.batch = b /\ u.todo = b
  OBVIOUS
<1> HIDE DEF b
<1> QED
  BY <1>1, <1>2, <1>3 DEF Shape, Touched

LEMMA SnapshotApart ==
    ASSUME IInv, RaceInv, NEW k \in Tasks, Snapshot(k)
    PROVE  RaceInv'
<1> DEFINE t == task[k]
           p == Path(k)
<1>1. t.kind = "put" /\ t.at = "snapshot" /\ t.kind # "idle" /\ UNCHANGED <<stored, raced>>
  BY DEF Snapshot, At, ghosts
<1>2. t # Idle /\ IsTask(t) /\ Shape(t) /\ p \in Paths
  BY <1>1, Working
<1>3. CASE Refuse(k)
  BY <1>1, <1>3, RefuseApart
<1>4. ASSUME NEW r \in log[p], r.payload # Absent,
             LET b == <<[path |-> p, content |-> r.payload]>>
             IN  task' = [task EXCEPT ![k].batch = b, ![k].todo = b, ![k].from = 0, ![k].at = "preRead"]
      PROVE  RaceInv'
  <2> DEFINE x == [path |-> p, content |-> r.payload]
             b == <<x>>
             u == [t EXCEPT !.batch = b, !.todo = b, !.from = 0, !.at = "preRead"]
  <2>1. x \in Items /\ x.content # Absent /\ x.path = p
    BY <1>2, <1>4 DEF IInv, LogOK, Exact, Chains, Items
  <2>2. task' = [task EXCEPT ![k] = u]
    BY <1>4 DEF IInv, TasksOK
  <2> HIDE DEF x
  <2>3. u.at = "preRead" /\ u.kind = "put" /\ u.batch = <<x>> /\ u.todo = <<x>>
    BY <1>1, <1>2 DEF IsTask, IsRecord
  <2> HIDE DEF u
  <2>4. Shape(u) /\ Touched(u) = {p}
    BY <2>1, <2>3, ShapeSingle
  <2>5. p \in Touched(t)
    <3>1. t.todo # <<>>
      BY <1>1, <1>2 DEF IsTask
    <3> QED
      BY <1>2, <3>1, PathTouched DEF Path
  <2>6. Guard(u, file', registry', index', log', raced)
    BY <2>3 DEF Guard
  <2>7. \A q \in Paths : Untouched(q)
    BY <1>1 DEF stored, Untouched
  <2> QED
    BY <1>1, <1>2, <2>2, <2>3, <2>4, <2>5, <2>6, <2>7, StepApart
<1> QED
  BY <1>3, <1>4 DEF Snapshot

\* The listing touches no concept.
LEMMA ListApart ==
    ASSUME IInv, RaceInv, NEW k \in Tasks, List(k) \/ Regen(k)
    PROVE  RaceInv'
<1> DEFINE t == task[k]
<1>1. /\ t.kind # "idle" /\ t.at \in {"list", "regen"} /\ raced' = raced
      /\ \A q \in Paths : Untouched(q)
  BY DEF List, Regen, stored, ghosts, Untouched
<1>2. t # Idle /\ IsTask(t) /\ Shape(t)
  BY <1>1, Working
<1>3. PICK u : /\ task' = [task EXCEPT ![k] = u]
               /\ u.kind = t.kind /\ u.batch = t.batch /\ u.todo = t.todo
               /\ u.at \in {"list", "regen", "done"}
  <2>1. CASE List(k)
    <3> DEFINE u == [t EXCEPT !.seen = registry, !.dirs = ListedDirs(registry), !.at = "regen"]
    <3>1. task' = [task EXCEPT ![k] = u]
      BY <2>1 DEF List, IInv, TasksOK
    <3>2. u.kind = t.kind /\ u.batch = t.batch /\ u.todo = t.todo /\ u.at = "regen"
      BY <1>2 DEF IsTask, IsRecord
    <3> QED
      BY <3>1, <3>2
  <2>2. CASE task' = [task EXCEPT ![k].dirs = {}, ![k].seen = NoListing, ![k].at = "done"]
    <3> DEFINE u == [t EXCEPT !.dirs = {}, !.seen = NoListing, !.at = "done"]
    <3>1. task' = [task EXCEPT ![k] = u]
      BY <2>2 DEF IInv, TasksOK
    <3>2. u.kind = t.kind /\ u.batch = t.batch /\ u.todo = t.todo /\ u.at = "done"
      BY <1>2 DEF IsTask, IsRecord
    <3> QED
      BY <3>1, <3>2
  <2>3. CASE \E rest : task' = [task EXCEPT ![k].dirs = rest]
    <3>0. PICK rest : task' = [task EXCEPT ![k].dirs = rest]
      BY <2>3
    <3> DEFINE u == [t EXCEPT !.dirs = rest]
    <3>1. task' = [task EXCEPT ![k] = u]
      BY <3>0 DEF IInv, TasksOK
    <3>2. u.kind = t.kind /\ u.batch = t.batch /\ u.todo = t.todo /\ u.at = t.at
      BY <1>2 DEF IsTask, IsRecord
    <3> QED
      BY <1>1, <3>1, <3>2
  <2> QED
    BY <2>1, <2>2, <2>3 DEF Regen
<1>4. Shape(u) /\ Touched(u) = Touched(t)
  <2>1. t.kind # "sweep" /\ t.at # "snapshot" /\ (t.kind = "put" => t.todo = <<>>)
    BY <1>1, <1>2 DEF Shape
  <2> QED
    BY <1>2, <1>3, <2>1, ShapeMoved
<1>5. Guard(u, file', registry', index', log', raced)
  BY <1>3 DEF Guard
<1> QED
  BY <1>1, <1>2, <1>3, <1>4, <1>5, StepApart

\* A sweep only takes index rows.
LEMMA SweepApart ==
    ASSUME IInv, RaceInv, NEW k \in Tasks, Lookup(k) \/ RemoveRow(k)
    PROVE  RaceInv'
<1>1. /\ task[k].kind = "sweep" /\ task[k].kind # "idle" /\ raced' = raced
      /\ task[k].at \notin {"list", "regen", "done"}
  BY DEF Lookup, RemoveRow, At, ghosts
<1>2. Path(k) \in Paths
  BY <1>1, Working
<1>3. CASE Refuse(k) /\ UNCHANGED stored
  BY <1>1, <1>3, RefuseApart
<1>4. CASE Goto(k, "removeRow") /\ UNCHANGED stored
  <2>1. \A q \in Paths : Untouched(q)
    BY <1>4 DEF stored, Untouched
  <2> QED
    BY <1>1, <1>4, <2>1, QuietApart
<1>5. CASE RemoveRow(k)
  <2>1. Goto(k, "done") /\ \A q \in Paths : Untouched(q)
    BY <1>2, <1>5 DEF RemoveRow, Return, IInv, RowsOK, Listings, Untouched
  <2> QED
    BY <1>1, <2>1, QuietApart
<1> QED
  BY <1>3, <1>4, <1>5 DEF Lookup

LEMMA ReindexApart ==
    ASSUME IInv, RaceInv, Reindex
    PROVE  RaceInv'
<1>1. PICK p \in Paths :
        /\ Busy = {} /\ file[p] # Absent
        /\ index' = [index EXCEPT ![p] = file[p]]
        /\ UNCHANGED <<file, registry, log, task, raced>>
  BY DEF Reindex, ghosts
<1>2. \A k \in Tasks : task[k] = Idle
  BY <1>1 DEF Busy, IInv, TasksOK, IsTask, Kinds
<1>3. Apart'
  BY <1>1, <1>2 DEF Apart, Writer
<1>4. NothingDangles'
  BY <1>1 DEF RaceInv, NothingDangles, IInv, RowsOK, Listings
<1> QED
  BY <1>3, <1>4 DEF RaceInv

\* Two views of one task that differ in what Start notes.
Alike(t, u) ==
    /\ u.kind = t.kind /\ u.at = t.at /\ u.batch = t.batch /\ u.todo = t.todo /\ u.rev = t.rev
    /\ u.seen = t.seen /\ u.dirs = t.dirs

LEMMA AlikeAlone ==
    ASSUME NEW t, IsRecord(t), NEW x
    PROVE  LET u == [t EXCEPT !.alone = x] IN Alike(t, u) /\ u.alone = x
BY DEF IsRecord, Alike

LEMMA AlikeShape ==
    ASSUME NEW t, NEW u, Alike(t, u)
    PROVE  /\ Touched(u) = Touched(t)
           /\ Shape(t) => Shape(u)
           /\ \A f, g, x, l, r : Guard(t, f, g, x, l, r) => Guard(u, f, g, x, l, r)
<1>1. Touched(u) = Touched(t)
  BY DEF Alike, Touched
<1>2. Shape(t) => Shape(u)
  BY DEF Alike, Shape
<1>3. ASSUME NEW f, NEW g, NEW x, NEW l, NEW r, Guard(t, f, g, x, l, r)
      PROVE  Guard(u, f, g, x, l, r)
  BY <1>3 DEF Alike, Guard
<1> QED
  BY <1>1, <1>2, <1>3

\* What an operation starts with: nothing decided, nothing relied upon.
Opening(t) ==
    /\ IsTask(t) /\ Shape(t) /\ t.todo = t.batch
    /\ \/ t.at \in {"exists", "preRead", "snapshot", "readDoomed", "lookup"}
       \/ t.at = "write" /\ t.todo[1].path \in Staging

\* What Start does to the tasks.
LEMMA StartTasks ==
    ASSUME IInv, NEW k \in Tasks, NEW t, IsTask(t), Start(k, t)
    PROVE  /\ task[k] = Idle /\ Alike(t, task'[k]) /\ task'[k] # Idle
           /\ task'[k].alone = (Busy = {})
           /\ \A j \in Tasks \ {k} :
                \/ task[j] = Idle /\ task'[j] = Idle
                \/ /\ task[j] # Idle /\ Alike(task[j], task'[j])
                   /\ task'[j] # Idle /\ task'[j].alone = FALSE
           /\ \A j \in Tasks : j \in Busy <=> task[j] # Idle
<1>0. ASSUME NEW u, u = Idle PROVE u.kind = "idle"
  BY <1>0 DEF Idle
<1>1. \A j \in Tasks : j \in Busy <=> task[j] # Idle
  BY <1>0 DEF Busy, IInv, TasksOK, IsTask, Kinds
<1>2. task[k] = Idle /\ Alike(t, task'[k]) /\ task'[k].alone = (Busy = {})
  <2>1. task'[k] = [t EXCEPT !.alone = (Busy = {})] /\ task[k] = Idle
    BY DEF Start
  <2>2. IsRecord(t)
    BY DEF IsTask
  <2> QED
    BY <2>1, <2>2, AlikeAlone
<1>3. t.kind # "idle"
  BY DEF IsTask, Kinds
<1>4. task'[k] # Idle
  BY <1>0, <1>2, <1>3 DEF Alike
<1>5. ASSUME NEW j \in Tasks \ {k}, task[j] = Idle PROVE task'[j] = Idle
  <2>1. j \notin Busy
    BY <1>1, <1>5
  <2> QED
    BY <1>5, <2>1 DEF Start
<1>6. ASSUME NEW j \in Tasks \ {k}, task[j] # Idle
      PROVE  Alike(task[j], task'[j]) /\ task'[j] # Idle /\ task'[j].alone = FALSE
  <2>1. j \in Busy /\ IsTask(task[j])
    BY <1>1, <1>6 DEF IInv, TasksOK
  <2>2. task'[j] = [task[j] EXCEPT !.alone = FALSE]
    BY <1>6, <2>1 DEF Start
  <2>a. IsRecord(task[j])
    BY <2>1 DEF IsTask
  <2>3. Alike(task[j], task'[j]) /\ task'[j].alone = FALSE
    BY <2>2, <2>a, AlikeAlone
  <2>4. task[j].kind # "idle"
    BY <2>1 DEF IsTask, Kinds
  <2> QED
    BY <1>0, <2>3, <2>4 DEF Alike
<1> QED
  BY <1>1, <1>2, <1>4, <1>5, <1>6

LEMMA StartApart ==
    ASSUME IInv, RaceInv, NEW k \in Tasks, NEW t, Opening(t), Start(k, t)
    PROVE  RaceInv'
<1>0. IsTask(t) /\ Shape(t)
  BY DEF Opening
<1>1. /\ task[k] = Idle /\ Alike(t, task'[k]) /\ task'[k] # Idle
      /\ \A j \in Tasks \ {k} :
           \/ task[j] = Idle /\ task'[j] = Idle
           \/ task[j] # Idle /\ Alike(task[j], task'[j])
      /\ \A j \in Tasks : j \in Busy <=> task[j] # Idle
  BY <1>0, StartTasks
<1>2. raced \subseteq raced' /\ UNCHANGED <<file, registry, index, log>>
  BY DEF Start, stored
<1>3. ASSUME NEW j \in Tasks, task'[j] # Idle PROVE Shape(task'[j])
  <2>1. CASE j = k
    BY <1>0, <1>1, <2>1, AlikeShape
  <2>2. CASE j # k
    <3>1. task[j] # Idle /\ Alike(task[j], task'[j])
      BY <1>1, <1>3, <2>2
    <3>2. Shape(task[j])
      BY <3>1 DEF RaceInv, Apart
    <3> QED
      BY <3>1, <3>2, AlikeShape
  <2> QED
    BY <2>1, <2>2
<1>4. ASSUME NEW j \in Tasks \ {k}, Writer(task'[j])
      PROVE  Writer(task[j]) /\ Alike(task[j], task'[j]) /\ Touched(task'[j]) = Touched(task[j])
  <2>1. task[j] # Idle /\ Alike(task[j], task'[j])
    BY <1>1, <1>4 DEF Writer
  <2> QED
    BY <1>4, <2>1, AlikeShape DEF Writer, Alike
<1>5. ASSUME NEW j \in Tasks \ {k}, Writer(task'[j]), Writer(task'[k])
      PROVE  Touched(task'[j]) \cap Touched(task'[k]) \subseteq raced'
  <2>1. t.kind # "sweep" /\ Touched(task'[k]) = Touched(t)
    BY <1>1, <1>5, AlikeShape DEF Writer, Alike
  <2>2. j \in {i \in Busy : task[i].kind # "sweep"} /\ Touched(task'[j]) = Touched(task[j])
    BY <1>1, <1>4, <1>5 DEF Writer
  <2>3. Touched(t) \cap UNION {Touched(task[i]) : i \in {i \in Busy : task[i].kind # "sweep"}}
          \subseteq raced'
    BY <2>1 DEF Start
  <2> QED
    BY <2>1, <2>2, <2>3
<1>6. ASSUME NEW i \in Tasks, NEW j \in Tasks, i # j, Writer(task'[i]), Writer(task'[j])
      PROVE  Touched(task'[i]) \cap Touched(task'[j]) \subseteq raced'
  <2>1. CASE i = k \/ j = k
    BY <1>5, <1>6, <2>1
  <2>2. CASE i # k /\ j # k
    <3>1. Touched(task[i]) \cap Touched(task[j]) \subseteq raced
      BY <1>4, <1>6, <2>2 DEF RaceInv, Apart
    <3> QED
      BY <1>2, <1>4, <1>6, <2>2, <3>1
  <2> QED
    BY <2>1, <2>2
<1>7. ASSUME NEW j \in Tasks, Writer(task'[j])
      PROVE  Guard(task'[j], file, registry, index, log, raced')
  <2>1. CASE j = k
    <3>1. Guard(t, file, registry, index, log, raced')
      BY DEF Opening, Guard
    <3> QED
      BY <1>1, <2>1, <3>1, AlikeShape
  <2>2. CASE j # k
    <3>1. Guard(task[j], file, registry, index, log, raced) /\ Alike(task[j], task'[j])
      BY <1>4, <1>7, <2>2 DEF RaceInv, Apart
    <3>2. Guard(task[j], file, registry, index, log, raced')
      BY <1>2, <3>1, GuardKept
    <3> QED
      BY <3>1, <3>2, AlikeShape
  <2> QED
    BY <2>1, <2>2
<1>8. Apart'
  BY <1>2, <1>3, <1>6, <1>7 DEF Apart
<1>9. NothingDangles'
  BY <1>2 DEF RaceInv, NothingDangles
<1> QED
  BY <1>8, <1>9 DEF RaceInv

\* Every operation opens like that.
LEMMA Opens ==
    ASSUME IInv, NEW k \in Tasks, Put(k) \/ Restore(k) \/ Delete(k) \/ Sweep(k)
    PROVE  \E t : Opening(t) /\ Start(k, t)
<1>1. CASE Put(k)
  <2>1. PICK b \in Batches, tag \in Tags : Start(k, NewTask("put", FirstStep(b[1].path, tag), b, tag, 0))
    BY <1>1 DEF Put
  <2> DEFINE step == FirstStep(b[1].path, tag)
             t == NewTask("put", step, b, tag, 0)
  <2>2. /\ b \in Seq([path : Paths, content : Contents]) /\ b # <<>>
        /\ tag \in {"none", "restore", "migration", "merge", "consolidate"}
    BY StoreAssumption
  <2>3. b \in Seq(Items) /\ \A i \in 1 .. Len(b) : b[i].content # Absent
    <3>1. [path : Paths, content : Contents] \subseteq Items
      BY DEF Items, Maybe
    <3>2. b \in Seq(Items)
      BY <2>2, <3>1, SeqMonotonic
    <3>3. \A i \in 1 .. Len(b) : b[i] \in [path : Paths, content : Contents]
      <4> DEFINE I == [path : Paths, content : Contents]
      <4>1. b \in Seq(I)
        BY <2>2
      <4> HIDE DEF I
      <4>2. \A i \in 1 .. Len(b) : b[i] \in I
        BY <4>1
      <4> QED
        BY <4>2 DEF I
    <3> QED
      BY <3>2, <3>3, StoreAssumption
  <2>4. step \in {"exists", "preRead"} \/ (step = "write" /\ b[1].path \in Staging)
    BY DEF FirstStep
  <2>5. "put" \in Kinds
    BY DEF Kinds
  <2> HIDE DEF step
  <2>6. /\ IsTask(t) /\ t.at = step /\ t.todo = b
        /\ t.batch = b /\ t.kind = "put"
    BY <2>2, <2>3, <2>5, NewTaskIsTask DEF NewTask
  <2>7. Start(k, t)
    BY <2>1 DEF step
  <2> HIDE DEF t
  <2>8. /\ t.kind # "sweep" /\ t.kind # "delete" /\ t.at \notin {"list", "regen", "done"}
        /\ \A i \in 1 .. Len(b) : b[i] = b[Len(b) - Len(b) + i]
    BY <2>3, <2>4, <2>6
  <2>9. Len(t.todo) <= Len(t.batch)
    BY <2>3, <2>6
  <2>10. Shape(t)
    BY <2>3, <2>6, <2>8, <2>9 DEF Shape
  <2> QED
    BY <2>4, <2>6, <2>7, <2>10 DEF Opening
<1>2. ASSUME NEW p \in Paths, NEW kind \in Kinds, NEW from,
             NEW at \in {"snapshot", "readDoomed", "lookup"}, NEW tag \in {"none", "restore"},
             kind = "put" => at = "snapshot", kind = "sweep" => at = "lookup",
             Start(k, NewTask(kind, at, <<[path |-> p, content |-> Absent]>>, tag, from))
      PROVE  \E t : Opening(t) /\ Start(k, t)
  <2> DEFINE x == [path |-> p, content |-> Absent]
             b == <<x>>
             t == NewTask(kind, at, b, tag, from)
  <2>1. x \in Items /\ x.content = Absent
    BY DEF Items, Maybe
  <2>2. Start(k, t)
    BY <1>2
  <2> HIDE DEF x
  <2>3. b \in Seq(Items) /\ b # <<>>
    BY <2>1
  <2>4. /\ IsTask(t) /\ t.at = at /\ t.todo = b
        /\ t.batch = b /\ t.kind = kind
    BY <2>3, NewTaskIsTask DEF NewTask
  <2> HIDE DEF t
  <2>5. t.at \notin {"list", "regen", "done"}
    BY <2>4
  <2>6. Shape(t)
    BY <1>2, <2>1, <2>4, <2>5, ShapeSingle
  <2> QED
    BY <2>2, <2>4, <2>6 DEF Opening
<1>3. CASE Restore(k)
  <2>a. PICK p \in Paths :
          \E n : Start(k, NewTask("put", "snapshot", <<[path |-> p, content |-> Absent]>>, "restore", n))
    BY <1>3 DEF Restore
  <2>1. PICK n : Start(k, NewTask("put", "snapshot", <<[path |-> p, content |-> Absent]>>, "restore", n))
    BY <2>a
  <2> QED
    BY <1>2, <2>1 DEF Kinds
<1>4. CASE Delete(k)
  BY <1>2, <1>4 DEF Delete, Kinds
<1>5. CASE Sweep(k)
  BY <1>2, <1>5 DEF Sweep, Kinds
<1> QED
  BY <1>1, <1>3, <1>4, <1>5

LEMMA NextRaceInv == IInv /\ RaceInv /\ [Next]_vars => RaceInv'
<1> SUFFICES ASSUME IInv, RaceInv, [Next]_vars PROVE RaceInv'
  OBVIOUS
<1>1. CASE UNCHANGED vars
  BY <1>1 DEF vars, stored, RaceInv, Apart, NothingDangles
<1>2. CASE Reindex
  BY <1>2, ReindexApart
<1>3. ASSUME NEW k \in Tasks, Put(k) \/ Restore(k) \/ Delete(k) \/ Sweep(k)
      PROVE  RaceInv'
  BY <1>3, Opens, StartApart
<1>4. ASSUME NEW k \in Tasks, Abort(k) \/ Finish(k)
      PROVE  RaceInv'
  BY <1>4, RefuseApart DEF Abort, Finish, ghosts
<1>5. ASSUME NEW k \in Tasks, Step(k)
      PROVE  RaceInv'
  BY <1>4, <1>5, DecidingApart, RecordApart, WriteApart, AddIndexApart, SnapshotApart,
     ListApart, DeleteApart, SweepApart DEF Step
<1> QED
  BY <1>1, <1>2, <1>3, <1>4, <1>5 DEF Next

LEMMA InitRaceInv == Init => RaceInv
<1> SUFFICES ASSUME Init PROVE RaceInv
  OBVIOUS
<1>1. \A k \in Tasks : task[k] = Idle
  BY DEF Init
<1>2. Apart
  BY <1>1 DEF Apart, Writer
<1>3. NothingDangles
  BY DEF Init, NothingDangles
<1> QED
  BY <1>2, <1>3 DEF RaceInv

\* As long as no two writers of a path overlapped, no crash of one and no
\* sweep in between leaves a listing or a search hit without its concept: the
\* order file, registry, index of a put and registry, index, file of a delete
\* is right at every point of either.
THEOREM NothingDanglesHolds == Spec => []NothingDangles
<1>1. RaceInv => NothingDangles
  BY DEF RaceInv
<1> QED
  BY <1>1, InitIInv, NextIInv, InitRaceInv, NextRaceInv, PTL DEF Spec

\* As long as no two writers of a path overlapped, the newest revision of a
\* listed concept is, at the moment a put replaces it or a delete takes it,
\* the very content that goes: the undo row undoes it.
THEOREM UndoRowHolds == Spec => []UndoRow
<1>1. IInv /\ RaceInv => UndoRow
  <2> SUFFICES ASSUME IInv, RaceInv, NEW k \in Busy, task[k].at \in {"write", "unregister"},
                      Path(k) \notin raced \cup Staging, registry[Path(k)] # Absent
               PROVE  Newest(log[Path(k)]).payload = file[Path(k)]
    BY DEF UndoRow
  <2>1. k \in Tasks /\ task[k].kind # "idle"
    BY DEF Busy
  <2>2. task[k] # Idle /\ Shape(task[k])
    BY <2>1, Working
  <2>3. Writer(task[k])
    BY <2>2 DEF Writer, Shape
  <2>4. Guard(task[k], file, registry, index, log, raced)
    BY <2>1, <2>3, Working
  <2> QED
    BY <2>4 DEF Guard, Path
<1> QED
  BY <1>1, InitIInv, NextIInv, InitRaceInv, NextRaceInv, PTL DEF Spec

-----------------------------------------------------------------------------
(* A writer that ran alone *)

\* The i-th concept of a batch is in its three places.
Placed(item, f, g, x) ==
    f[item.path] = item.content /\ g[item.path] = item.content /\ x[item.path] = item.content

\* What the items a writer is done with have come to.
Settled(t, f, g, x) ==
    \A i \in 1 .. Len(t.batch) - Len(t.todo) : LastOfPath(t.batch, i) => Placed(t.batch[i], f, g, x)

\* How far it is with the one it works on.
Halfway(t, f, g, x) ==
    /\ t.kind = "put" /\ t.at \in {"register", "addIndex"} => f[t.todo[1].path] = t.todo[1].content
    /\ t.kind = "put" /\ t.at = "addIndex" => g[t.todo[1].path] = t.todo[1].content
    /\ t.kind = "delete" /\ t.at \in {"unindex", "unlink", "list", "regen", "done"} =>
         g[t.batch[1].path] = Absent
    /\ t.kind = "delete" /\ t.at \in {"unlink", "list", "regen", "done"} => x[t.batch[1].path] = Absent
    /\ t.kind = "delete" /\ t.at \in {"list", "regen", "done"} => f[t.batch[1].path] = Absent

\* How far it is with the listings.
Relisted(t, g, m) ==
    /\ t.at = "regen" => t.seen = g
    /\ t.at = "regen" => \A d \in ListedDirs(g) \ t.dirs : m[d] = Listing(d, g)
    /\ t.at = "done" => \A d \in ListedDirs(g) : m[d] = Listing(d, g)

Solo(t, f, g, x, m) == t.kind # "sweep" => Settled(t, f, g, x) /\ Halfway(t, f, g, x) /\ Relisted(t, g, m)

SoloInv ==
    /\ indexMd = [d \in ToSet(Dirs) |-> indexMd[d]]
    /\ \A k \in Tasks : task[k] # Idle /\ task[k].alone =>
         /\ \A j \in Tasks \ {k} : task[j] = Idle
         /\ Solo(task[k], file, registry, index, indexMd)

\* A step of a task: every other one that ran alone is over.
LEMMA SoloStep ==
    ASSUME IInv, SoloInv, NEW k \in Tasks, task[k] # Idle,
           NEW u, task' = [task EXCEPT ![k] = u], u.alone = task[k].alone,
           indexMd' = [d \in ToSet(Dirs) |-> indexMd'[d]],
           Solo(task[k], file, registry, index, indexMd)
             => Solo(u, file', registry', index', indexMd')
    PROVE  SoloInv'
<1>1. task'[k] = u /\ \A j \in Tasks \ {k} : task'[j] = task[j]
  BY DEF IInv, TasksOK
<1>2. ASSUME NEW j \in Tasks, task'[j] # Idle, task'[j].alone
      PROVE  /\ \A i \in Tasks \ {j} : task'[i] = Idle
             /\ Solo(task'[j], file', registry', index', indexMd')
  <2>1. j = k
    BY <1>1, <1>2 DEF SoloInv
  <2> QED
    BY <1>1, <1>2, <2>1 DEF SoloInv
<1> QED
  BY <1>2 DEF SoloInv

LEMMA SoloRefuse ==
    ASSUME IInv, SoloInv, NEW k \in Tasks, task[k] # Idle, Refuse(k), indexMd' = indexMd
    PROVE  SoloInv'
<1>1. task'[k] = Idle /\ \A j \in Tasks \ {k} : task'[j] = task[j]
  BY DEF Refuse, IInv, TasksOK
<1>2. ASSUME NEW j \in Tasks, task'[j] # Idle PROVE ~task'[j].alone
  BY <1>1, <1>2 DEF SoloInv
<1> QED
  BY <1>2 DEF SoloInv

\* The steps before the first change to a concept.
Early == {"exists", "preRead", "record", "write", "readDoomed", "recordDelete", "unregister", "removeRow"}

LEMMA SoloEarly ==
    ASSUME IInv, SoloInv, NEW k \in Tasks, task[k] # Idle,
           NEW u, task' = [task EXCEPT ![k] = u], u.alone = task[k].alone,
           u.kind = task[k].kind, u.batch = task[k].batch, u.todo = task[k].todo, u.at \in Early,
           UNCHANGED <<file, registry, index, indexMd>>
    PROVE  SoloInv'
<1>1. ASSUME Solo(task[k], file, registry, index, indexMd)
      PROVE  Solo(u, file, registry, index, indexMd)
  <2>1. CASE u.kind = "sweep"
    BY <2>1 DEF Solo
  <2>2. CASE u.kind # "sweep"
    <3>1. Settled(u, file, registry, index)
      BY <1>1, <2>2 DEF Solo, Settled
    <3>2. Halfway(u, file, registry, index)
      BY DEF Halfway, Early
    <3>3. Relisted(u, registry, indexMd)
      BY DEF Relisted, Early
    <3> QED
      BY <3>1, <3>2, <3>3 DEF Solo
  <2> QED
    BY <2>1, <2>2
<1>2. indexMd' = [d \in ToSet(Dirs) |-> indexMd'[d]]
  BY DEF SoloInv
<1> QED
  BY <1>1, <1>2, SoloStep

LEMMA DecidingSolo ==
    ASSUME IInv, RaceInv, SoloInv, NEW k \in Tasks,
           \/ Exists(k) \/ PreRead(k) \/ RecordPut(k)
           \/ ReadDoomed(k) \/ RecordDelete(k) \/ Lookup(k)
    PROVE  SoloInv'
<1> DEFINE t == task[k]
<1>1. t.kind # "idle" /\ UNCHANGED <<file, registry, index, indexMd>>
  BY DEF Exists, PreRead, RecordPut, ReadDoomed, RecordDelete, Lookup, At, stored
<1>2. t # Idle /\ IsRecord(t)
  BY <1>1, Working DEF IsTask
<1>3. ASSUME NEW step \in Early, NEW rev,
             \/ task' = [task EXCEPT ![k].at = step]
             \/ task' = [task EXCEPT ![k].at = step, ![k].rev = rev]
      PROVE  SoloInv'
  <2>1. PICK u : /\ task' = [task EXCEPT ![k] = u]
                 /\ u = [t EXCEPT !.at = step] \/ u = [t EXCEPT !.at = step, !.rev = rev]
    BY <1>3
  <2>2. /\ u.at = step /\ u.kind = t.kind /\ u.batch = t.batch /\ u.todo = t.todo
        /\ u.alone = t.alone
    BY <1>2, <2>1 DEF IsRecord
  <2> QED
    BY <1>1, <1>2, <2>1, <2>2, SoloEarly
<1>4. CASE Refuse(k)
  BY <1>1, <1>2, <1>4, SoloRefuse
<1>5. CASE Exists(k)
  BY <1>3, <1>5 DEF Exists, Decide, Goto, Early
<1>6. CASE PreRead(k)
  BY <1>3, <1>6 DEF PreRead, Decide, Early
<1>7. CASE RecordPut(k)
  BY <1>3, <1>7 DEF RecordPut, Early
<1>8. CASE ReadDoomed(k)
  BY <1>3, <1>4, <1>8 DEF ReadDoomed, Early
<1>9. CASE RecordDelete(k)
  BY <1>3, <1>9 DEF RecordDelete, Early
<1>10. CASE Lookup(k)
  BY <1>3, <1>4, <1>10 DEF Lookup, Goto, Early
<1> QED
  BY <1>5, <1>6, <1>7, <1>8, <1>9, <1>10

\* The items behind the one a put works on have other paths, or are not the
\* last of theirs.
LEMMA BehindOthers ==
    ASSUME NEW t, Shape(t), t.todo # <<>>, NEW i \in 1 .. Len(t.batch) - Len(t.todo),
           LastOfPath(t.batch, i)
    PROVE  t.batch[i] \in Items /\ t.batch[i].path # t.todo[1].path
<1> DEFINE m == Len(t.todo)
           n == Len(t.batch)
<1>1. /\ t.todo \in Seq(Items) /\ t.batch \in Seq(Items) /\ m \in Nat /\ n \in Nat
      /\ m <= n /\ m # 0 /\ DOMAIN t.batch = 1 .. n
  BY DEF Shape
<1>6. \A j \in 1 .. m : t.todo[j] = t.batch[n - m + j]
  BY DEF Shape
<1>2. i \in 1 .. n - m
  OBVIOUS
<1>3. \A j \in 1 .. n : t.batch[j] \in Items
  BY <1>1
<1> HIDE DEF m, n
<1>4. 1 \in 1 .. m /\ n - m + 1 \in 1 .. n /\ n - m + 1 > i /\ i \in 1 .. n
  BY <1>1, <1>2
<1>5. t.todo[1] = t.batch[n - m + 1]
  BY <1>4, <1>6
<1> QED
  BY <1>1, <1>3, <1>4, <1>5 DEF LastOfPath

\* A row of the path in work changes no item behind it.
LEMMA SettledKept ==
    ASSUME NEW t, Shape(t), t.todo # <<>>, NEW u, u.batch = t.batch, u.todo = t.todo,
           NEW f, NEW g, NEW x, NEW ff, NEW gg, NEW xx, Settled(t, f, g, x),
           \A q \in Paths : q # t.todo[1].path => ff[q] = f[q] /\ gg[q] = g[q] /\ xx[q] = x[q]
    PROVE  Settled(u, ff, gg, xx)
<1> SUFFICES ASSUME NEW i \in 1 .. Len(t.batch) - Len(t.todo), LastOfPath(t.batch, i)
             PROVE  Placed(t.batch[i], ff, gg, xx)
  BY DEF Settled
<1>1. t.batch[i] \in Items /\ t.batch[i].path # t.todo[1].path
  BY BehindOthers
<1>2. t.batch[i].path \in Paths
  BY <1>1 DEF Items
<1>3. Placed(t.batch[i], f, g, x)
  BY DEF Settled
<1> QED
  BY <1>1, <1>2, <1>3 DEF Placed

LEMMA WriteSolo ==
    ASSUME IInv, RaceInv, SoloInv, NEW k \in Tasks, Write(k) \/ Register(k)
    PROVE  SoloInv'
<1> DEFINE t == task[k]
           step == IF Write(k) THEN "register" ELSE "addIndex"
           u == [t EXCEPT !.at = step]
           p == Path(k)
<1>1. /\ t.kind = "put" /\ t.at \in {"write", "register"}
      /\ index' = index /\ indexMd' = indexMd
  BY DEF Write, Register, At
<1>2. /\ t # Idle /\ Shape(t) /\ IsTask(t) /\ p \in Paths /\ t.todo # <<>>
  BY <1>1, Working DEF IsTask
<1>3. task' = [task EXCEPT ![k] = u]
  BY DEF Write, Register, Goto, At, IInv, TasksOK
<1>4. step \in {"register", "addIndex"}
  OBVIOUS
<1>5. /\ u.at = step /\ u.kind = t.kind /\ u.batch = t.batch /\ u.todo = t.todo
      /\ u.alone = t.alone
  BY <1>2 DEF IsTask, IsRecord
<1>6. \A q \in Paths : q # p => file'[q] = file[q] /\ registry'[q] = registry[q] /\ index'[q] = index[q]
  BY <1>1, <1>2 DEF Write, Register, IInv, RowsOK, Listings
<1>7. ASSUME Solo(t, file, registry, index, indexMd)
      PROVE  Solo(u, file', registry', index', indexMd')
  <2>1. Settled(t, file, registry, index) /\ Halfway(t, file, registry, index)
    BY <1>1, <1>7 DEF Solo
  <2>2. Settled(u, file', registry', index')
    <3>1. \A q \in Paths : q # t.todo[1].path =>
            file'[q] = file[q] /\ registry'[q] = registry[q] /\ index'[q] = index[q]
      BY <1>6 DEF Path
    <3> HIDE DEF u
    <3> QED
      BY <1>2, <1>5, <2>1, <3>1, SettledKept
  <2>3. /\ file'[p] = Content(k)
        /\ step = "addIndex" => registry'[p] = Content(k)
    <3>1. CASE Write(k)
      BY <1>2, <3>1 DEF Write, IInv, RowsOK, Listings
    <3>2. CASE ~Write(k)
      BY <1>1, <1>2, <2>1, <3>2 DEF Register, At, IInv, RowsOK, Listings, Halfway, Path, Content
    <3> QED
      BY <3>1, <3>2
  <2> HIDE DEF step, u
  <2>4. Halfway(u, file', registry', index')
    BY <1>1, <1>4, <1>5, <2>3 DEF Halfway, Path, Content
  <2>5. Relisted(u, registry', indexMd')
    BY <1>4, <1>5 DEF Relisted
  <2> QED
    BY <2>2, <2>4, <2>5 DEF Solo
<1>8. indexMd' = [d \in ToSet(Dirs) |-> indexMd'[d]]
  BY <1>1 DEF SoloInv
<1> HIDE DEF u
<1> QED
  BY <1>2, <1>3, <1>5, <1>7, <1>8, SoloStep

LEMMA DeleteSolo ==
    ASSUME IInv, RaceInv, SoloInv, NEW k \in Tasks, Unregister(k) \/ Unindex(k) \/ Unlink(k)
    PROVE  SoloInv'
<1> DEFINE t == task[k]
           step == IF Unregister(k) THEN "unindex" ELSE IF Unindex(k) THEN "unlink" ELSE "list"
           u == [t EXCEPT !.at = step]
           p == Path(k)
<1>1. t.kind = "delete" /\ indexMd' = indexMd /\ t.at \in {"unregister", "unindex", "unlink"}
  BY DEF Unregister, Unindex, Unlink, At
<1>2. /\ t # Idle /\ Shape(t) /\ IsTask(t) /\ p \in Paths /\ t.todo # <<>>
  BY <1>1, Working DEF IsTask
<1>3. task' = [task EXCEPT ![k] = u]
  BY DEF Unregister, Unindex, Unlink, Goto, At, IInv, TasksOK
<1>4. step \in {"unindex", "unlink", "list"}
  OBVIOUS
<1>5. /\ u.at = step /\ u.kind = t.kind /\ u.batch = t.batch /\ u.todo = t.todo
      /\ u.alone = t.alone
  BY <1>2 DEF IsTask, IsRecord
<1>6. \A q \in Paths : q # p => file'[q] = file[q] /\ registry'[q] = registry[q] /\ index'[q] = index[q]
  BY <1>1, <1>2 DEF Unregister, Unindex, Unlink, IInv, RowsOK, Listings
<1>7. ASSUME Solo(t, file, registry, index, indexMd)
      PROVE  Solo(u, file', registry', index', indexMd')
  <2>1. Settled(t, file, registry, index) /\ Halfway(t, file, registry, index)
    BY <1>1, <1>7 DEF Solo
  <2>2. Settled(u, file', registry', index')
    <3>1. \A q \in Paths : q # t.todo[1].path =>
            file'[q] = file[q] /\ registry'[q] = registry[q] /\ index'[q] = index[q]
      BY <1>6 DEF Path
    <3> HIDE DEF u
    <3> QED
      BY <1>2, <1>5, <2>1, <3>1, SettledKept
  <2>3. p = t.batch[1].path
    BY <1>1, <1>2 DEF Shape, Path
  <2>4. /\ registry'[p] = Absent
        /\ step # "unindex" => index'[p] = Absent
        /\ step = "list" => file'[p] = Absent
    <3>1. CASE Unregister(k)
      BY <1>2, <3>1 DEF Unregister, IInv, RowsOK, Listings
    <3>2. CASE ~Unregister(k) /\ Unindex(k)
      BY <1>1, <1>2, <2>1, <2>3, <3>2 DEF Unindex, At, IInv, RowsOK, Listings, Halfway
    <3>3. CASE ~Unregister(k) /\ ~Unindex(k) /\ Unlink(k)
      BY <1>1, <1>2, <2>1, <2>3, <3>3 DEF Unlink, At, IInv, RowsOK, Listings, Halfway
    <3> QED
      BY <3>1, <3>2, <3>3
  <2> HIDE DEF step, u
  <2>5. Halfway(u, file', registry', index')
    BY <1>1, <1>4, <1>5, <2>3, <2>4 DEF Halfway
  <2>6. Relisted(u, registry', indexMd')
    BY <1>4, <1>5 DEF Relisted
  <2> QED
    BY <2>2, <2>5, <2>6 DEF Solo
<1>8. indexMd' = [d \in ToSet(Dirs) |-> indexMd'[d]]
  BY <1>1 DEF SoloInv
<1> HIDE DEF u
<1> QED
  BY <1>2, <1>3, <1>5, <1>7, <1>8, SoloStep

LEMMA AddIndexSolo ==
    ASSUME IInv, RaceInv, SoloInv, NEW k \in Tasks, AddIndex(k)
    PROVE  SoloInv'
<1> DEFINE t == task[k]
           p == Path(k)
           rest == Tail(t.todo)
           step == IF rest = <<>> THEN "list" ELSE FirstStep(rest[1].path, t.tag)
           u == [t EXCEPT !.at = step, !.todo = rest]
<1>1. /\ t.kind = "put" /\ t.at = "addIndex"
      /\ file' = file /\ registry' = registry /\ indexMd' = indexMd
  BY DEF AddIndex, At
<1>2. t # Idle /\ Shape(t) /\ IsTask(t) /\ p \in Paths /\ t.todo # <<>>
  BY <1>1, Working DEF IsTask
<1>3. task' = [task EXCEPT ![k] = u]
  BY DEF AddIndex, At, IInv, TasksOK
<1>4. step \in {"list", "exists", "preRead", "write"}
  BY DEF FirstStep
<1> HIDE DEF step
<1>5. /\ u.at = step /\ u.kind = t.kind /\ u.batch = t.batch /\ u.todo = rest
      /\ u.alone = t.alone
  BY <1>2 DEF IsTask, IsRecord
<1>6. index' = [index EXCEPT ![p] = Content(k)] /\ p \in DOMAIN index
  BY <1>2 DEF AddIndex, IInv, RowsOK, Listings
<1> HIDE DEF u
<1>7. ASSUME Solo(t, file, registry, index, indexMd)
      PROVE  Solo(u, file', registry', index', indexMd')
  <2>1. Settled(t, file, registry, index) /\ Halfway(t, file, registry, index)
    BY <1>1, <1>7 DEF Solo
  <2>2. Settled(t, file', registry', index')
    <3>1. \A q \in Paths : q # t.todo[1].path =>
            file'[q] = file[q] /\ registry'[q] = registry[q] /\ index'[q] = index[q]
      BY <1>1, <1>6 DEF Path
    <3> QED
      BY <1>2, <2>1, <3>1, SettledKept
  <2>3. Placed(t.todo[1], file', registry', index')
    BY <1>1, <1>6, <2>1 DEF Halfway, Placed, Path, Content
  <2>4. Settled(u, file', registry', index')
    <3> DEFINE m == Len(t.todo)
               n == Len(t.batch)
    <3>1. m \in Nat /\ n \in Nat /\ m <= n /\ m # 0 /\ Len(rest) = m - 1
      BY <1>2 DEF Shape
    <3>2. \A j \in 1 .. m : t.todo[j] = t.batch[n - m + j]
      BY <1>2 DEF Shape
    <3>3. \A i \in 1 .. n - m : LastOfPath(t.batch, i) => Placed(t.batch[i], file', registry', index')
      BY <2>2 DEF Settled
    <3>4. Len(u.batch) - Len(u.todo) = n - Len(rest)
      BY <1>5
    <3> HIDE DEF m, n
    <3>5. ASSUME NEW i \in 1 .. n - Len(rest), LastOfPath(t.batch, i)
          PROVE  Placed(t.batch[i], file', registry', index')
      <4>1. i \in 1 .. n - m \/ (i = n - m + 1 /\ 1 \in 1 .. m)
        BY <3>1
      <4> QED
        BY <2>3, <3>2, <3>3, <3>5, <4>1
    <3> QED
      BY <1>5, <3>4, <3>5 DEF Settled
  <2>5. Halfway(u, file', registry', index') /\ Relisted(u, registry', indexMd')
    BY <1>1, <1>4, <1>5 DEF Halfway, Relisted
  <2> QED
    BY <2>4, <2>5 DEF Solo
<1>8. indexMd' = [d \in ToSet(Dirs) |-> indexMd'[d]]
  BY <1>1 DEF SoloInv
<1> QED
  BY <1>2, <1>3, <1>5, <1>7, <1>8, SoloStep

LEMMA SnapshotSolo ==
    ASSUME IInv, RaceInv, SoloInv, NEW k \in Tasks, Snapshot(k)
    PROVE  SoloInv'
<1> DEFINE t == task[k]
           p == Path(k)
<1>1. t.kind = "put" /\ t.at = "snapshot" /\ UNCHANGED <<file, registry, index, indexMd>>
  BY DEF Snapshot, At, stored
<1>2. t # Idle /\ IsRecord(t)
  BY <1>1, Working DEF IsTask
<1>3. CASE Refuse(k)
  BY <1>1, <1>2, <1>3, SoloRefuse
<1>4. ASSUME NEW b, task' = [task EXCEPT ![k].batch = b, ![k].todo = b, ![k].from = 0, ![k].at = "preRead"],
             Len(b) = 1
      PROVE  SoloInv'
  <2> DEFINE u == [t EXCEPT !.batch = b, !.todo = b, !.from = 0, !.at = "preRead"]
  <2>1. task' = [task EXCEPT ![k] = u]
    BY <1>4 DEF IInv, TasksOK
  <2>2. u.at = "preRead" /\ u.kind = "put" /\ u.batch = b /\ u.todo = b /\ u.alone = t.alone
    BY <1>1, <1>2 DEF IsRecord
  <2> HIDE DEF u
  <2>3. Solo(u, file', registry', index', indexMd')
    <3>1. 1 .. Len(u.batch) - Len(u.todo) = {}
      BY <1>4, <2>2
    <3>2. Settled(u, file', registry', index')
      BY <3>1 DEF Settled
    <3>3. Halfway(u, file', registry', index') /\ Relisted(u, registry', indexMd')
      BY <2>2 DEF Halfway, Relisted
    <3> QED
      BY <3>2, <3>3 DEF Solo
  <2>4. indexMd' = [d \in ToSet(Dirs) |-> indexMd'[d]]
    BY <1>1 DEF SoloInv
  <2> QED
    BY <1>2, <2>1, <2>2, <2>3, <2>4, SoloStep
<1>5. ASSUME NEW c, LET b == <<[path |-> p, content |-> c]>>
                    IN  task' = [task EXCEPT ![k].batch = b, ![k].todo = b, ![k].from = 0, ![k].at = "preRead"]
      PROVE  SoloInv'
  <2> DEFINE b == <<[path |-> p, content |-> c]>>
  <2>1. Len(b) = 1
    OBVIOUS
  <2>2. task' = [task EXCEPT ![k].batch = b, ![k].todo = b, ![k].from = 0, ![k].at = "preRead"]
    BY <1>5
  <2> HIDE DEF b
  <2> QED
    BY <1>4, <2>1, <2>2
<1> QED
  BY <1>3, <1>5 DEF Snapshot

LEMMA ListSolo ==
    ASSUME IInv, RaceInv, SoloInv, NEW k \in Tasks, List(k)
    PROVE  SoloInv'
<1> DEFINE t == task[k]
           u == [t EXCEPT !.seen = registry, !.dirs = ListedDirs(registry), !.at = "regen"]
<1>1. t.kind # "idle" /\ t.at = "list" /\ UNCHANGED <<file, registry, index, indexMd>>
  BY DEF List, stored
<1>2. t # Idle /\ IsRecord(t)
  BY <1>1, Working DEF IsTask
<1>3. task' = [task EXCEPT ![k] = u]
  BY DEF List, IInv, TasksOK
<1>4. /\ u.at = "regen" /\ u.kind = t.kind /\ u.batch = t.batch /\ u.todo = t.todo
      /\ u.alone = t.alone /\ u.seen = registry /\ u.dirs = ListedDirs(registry)
  BY <1>2 DEF IsRecord
<1> HIDE DEF u
<1>5. ASSUME Solo(t, file, registry, index, indexMd), u.kind # "sweep"
      PROVE  Settled(u, file, registry, index) /\ Halfway(u, file, registry, index) /\ Relisted(u, registry, indexMd)
  <2>1. Settled(t, file, registry, index) /\ Halfway(t, file, registry, index)
    BY <1>4, <1>5 DEF Solo
  <2>2. Settled(u, file, registry, index)
    BY <1>4, <2>1 DEF Settled
  <2>3. Halfway(u, file, registry, index)
    BY <1>1, <1>4, <2>1 DEF Halfway
  <2>4. Relisted(u, registry, indexMd)
    BY <1>4 DEF Relisted
  <2> QED
    BY <2>2, <2>3, <2>4
<1>6. Solo(t, file, registry, index, indexMd) => Solo(u, file', registry', index', indexMd')
  BY <1>1, <1>5 DEF Solo
<1>7. indexMd' = [d \in ToSet(Dirs) |-> indexMd'[d]]
  BY <1>1 DEF SoloInv
<1> QED
  BY <1>2, <1>3, <1>4, <1>6, <1>7, SoloStep

LEMMA RegenSolo ==
    ASSUME IInv, RaceInv, SoloInv, NEW k \in Tasks, Regen(k)
    PROVE  SoloInv'
<1> DEFINE t == task[k]
<1>1. t.kind # "idle" /\ t.at = "regen" /\ UNCHANGED <<file, registry, index>>
  BY DEF Regen
<1>2. t # Idle /\ IsRecord(t)
  BY <1>1, Working DEF IsTask
<1>3. PICK d : /\ indexMd' = [indexMd EXCEPT ![d] = Listing(d, t.seen)]
               /\ IF t.dirs \ {d} = {}
                  THEN task' = [task EXCEPT ![k].dirs = {}, ![k].seen = NoListing, ![k].at = "done"]
                  ELSE task' = [task EXCEPT ![k].dirs = t.dirs \ {d}]
               /\ d \in t.dirs
  BY DEF Regen, FirstOf
<1>4. PICK u : /\ task' = [task EXCEPT ![k] = u]
               /\ u.kind = t.kind /\ u.batch = t.batch /\ u.todo = t.todo /\ u.alone = t.alone
               /\ \/ u.at = "done" /\ t.dirs \ {d} = {}
                  \/ u.at = "regen" /\ u.seen = t.seen /\ u.dirs = t.dirs \ {d}
  <2>1. CASE t.dirs \ {d} = {}
    <3> DEFINE u == [t EXCEPT !.dirs = {}, !.seen = NoListing, !.at = "done"]
    <3>1. task' = [task EXCEPT ![k] = u]
      BY <1>3, <2>1 DEF IInv, TasksOK
    <3>2. u.kind = t.kind /\ u.batch = t.batch /\ u.todo = t.todo /\ u.alone = t.alone /\ u.at = "done"
      BY <1>2 DEF IsRecord
    <3> HIDE DEF u
    <3> QED
      BY <2>1, <3>1, <3>2
  <2>2. CASE t.dirs \ {d} # {}
    <3> DEFINE u == [t EXCEPT !.dirs = t.dirs \ {d}]
    <3>1. task' = [task EXCEPT ![k] = u]
      BY <1>3, <2>2 DEF IInv, TasksOK
    <3>2. /\ u.kind = t.kind /\ u.batch = t.batch /\ u.todo = t.todo /\ u.alone = t.alone
          /\ u.at = "regen" /\ u.seen = t.seen /\ u.dirs = t.dirs \ {d}
      BY <1>1, <1>2 DEF IsRecord
    <3> HIDE DEF u
    <3> QED
      BY <3>1, <3>2
  <2> QED
    BY <2>1, <2>2
<1>5. ASSUME Solo(t, file, registry, index, indexMd), u.kind # "sweep"
      PROVE  Settled(u, file, registry, index) /\ Halfway(u, file, registry, index) /\ Relisted(u, registry, indexMd')
  <2>1. Settled(t, file, registry, index) /\ Halfway(t, file, registry, index) /\ Relisted(t, registry, indexMd)
    BY <1>4, <1>5 DEF Solo
  <2>2. Settled(u, file, registry, index)
    BY <1>4, <2>1 DEF Settled
  <2>3. Halfway(u, file, registry, index)
    BY <1>1, <1>4, <2>1 DEF Halfway
  <2>4. \A e \in ListedDirs(registry) \ (t.dirs \ {d}) : indexMd'[e] = Listing(e, registry)
    <3>1. t.seen = registry /\ \A e \in ListedDirs(registry) \ t.dirs : indexMd[e] = Listing(e, registry)
      BY <1>1, <2>1 DEF Relisted
    <3>2. ListedDirs(registry) \subseteq DOMAIN indexMd
      BY DEF ListedDirs, SoloInv
    <3> QED
      BY <1>3, <3>1, <3>2
  <2>5. t.seen = registry
    BY <1>1, <2>1 DEF Relisted
  <2>6. Relisted(u, registry, indexMd')
    BY <1>4, <2>4, <2>5 DEF Relisted
  <2> QED
    BY <2>2, <2>3, <2>6
<1>6. Solo(t, file, registry, index, indexMd) => Solo(u, file', registry', index', indexMd')
  BY <1>1, <1>5 DEF Solo
<1>7. indexMd' = [e \in ToSet(Dirs) |-> indexMd'[e]]
  BY <1>3 DEF SoloInv
<1> QED
  BY <1>2, <1>4, <1>6, <1>7, SoloStep

LEMMA RemoveRowSolo ==
    ASSUME IInv, RaceInv, SoloInv, NEW k \in Tasks, RemoveRow(k)
    PROVE  SoloInv'
<1> DEFINE t == task[k]
           u == [t EXCEPT !.at = "done"]
<1>1. t.kind = "sweep" /\ indexMd' = indexMd
  BY DEF RemoveRow, At
<1>2. t # Idle /\ IsRecord(t)
  BY <1>1, Working DEF IsTask
<1>3. task' = [task EXCEPT ![k] = u]
  BY DEF RemoveRow, Return, Goto, IInv, TasksOK
<1>4. u.kind = "sweep" /\ u.alone = t.alone
  BY <1>1, <1>2 DEF IsRecord
<1> HIDE DEF u
<1>5. Solo(u, file', registry', index', indexMd')
  BY <1>4 DEF Solo
<1>6. indexMd' = [d \in ToSet(Dirs) |-> indexMd'[d]]
  BY <1>1 DEF SoloInv
<1> QED
  BY <1>2, <1>3, <1>4, <1>5, <1>6, SoloStep

\* An operation that starts takes the mark from the others, and has it only
\* if there are none.
LEMMA StartSolo ==
    ASSUME IInv, SoloInv, NEW k \in Tasks, NEW t, Opening(t), Start(k, t)
    PROVE  SoloInv'
<1>0. IsTask(t) /\ t.todo = t.batch
  BY DEF Opening
<1>1. /\ Alike(t, task'[k]) /\ task'[k].alone = (Busy = {})
      /\ \A j \in Tasks \ {k} :
           \/ task[j] = Idle /\ task'[j] = Idle
           \/ task[j] # Idle /\ task'[j] # Idle /\ task'[j].alone = FALSE
      /\ \A j \in Tasks : j \in Busy <=> task[j] # Idle
  BY <1>0, StartTasks
<1>2. UNCHANGED <<file, registry, index, indexMd>>
  BY DEF Start, stored
<1> DEFINE u == task'[k]
<1>3. Solo(u, file, registry, index, indexMd)
  <2>1. /\ u.at \in {"exists", "preRead", "snapshot", "readDoomed", "lookup", "write"}
        /\ u.todo = u.batch /\ u.batch = t.batch
    BY <1>0, <1>1 DEF Opening, Alike
  <2>2. 1 .. Len(u.batch) - Len(u.todo) = {}
    <3>1. Len(t.batch) \in Nat
      BY <1>0 DEF IsTask
    <3> QED
      BY <2>1, <3>1
  <2>3. Settled(u, file, registry, index)
    BY <2>2 DEF Settled
  <2>4. Halfway(u, file, registry, index) /\ Relisted(u, registry, indexMd)
    BY <2>1 DEF Halfway, Relisted
  <2> QED
    BY <2>3, <2>4 DEF Solo
<1>4. ASSUME NEW j \in Tasks, task'[j] # Idle, task'[j].alone
      PROVE  /\ \A i \in Tasks \ {j} : task'[i] = Idle
             /\ Solo(task'[j], file, registry, index, indexMd)
  <2>1. j = k
    BY <1>1, <1>4
  <2>2. Busy = {}
    BY <1>1, <1>4, <2>1
  <2>3. \A i \in Tasks \ {k} : task'[i] = Idle
    BY <1>1, <2>2
  <2> QED
    BY <1>3, <2>1, <2>3
<1> QED
  BY <1>2, <1>4 DEF SoloInv

LEMMA NextSolo == IInv /\ RaceInv /\ SoloInv /\ [Next]_vars => SoloInv'
<1> SUFFICES ASSUME IInv, RaceInv, SoloInv, [Next]_vars PROVE SoloInv'
  OBVIOUS
<1>1. CASE UNCHANGED vars
  BY <1>1 DEF vars, stored, SoloInv
<1>2. CASE Reindex
  <2>1. Busy = {} /\ task' = task /\ indexMd' = indexMd
    BY <1>2 DEF Reindex
  <2>2. \A k \in Tasks : task[k] = Idle
    BY <2>1 DEF Busy, IInv, TasksOK, IsTask, Kinds
  <2> QED
    BY <2>1, <2>2 DEF SoloInv
<1>3. ASSUME NEW k \in Tasks, Put(k) \/ Restore(k) \/ Delete(k) \/ Sweep(k)
      PROVE  SoloInv'
  BY <1>3, Opens, StartSolo
<1>4. ASSUME NEW k \in Tasks, Abort(k) \/ Finish(k)
      PROVE  SoloInv'
  <2>1. task[k].kind # "idle" /\ Refuse(k) /\ indexMd' = indexMd
    BY <1>4 DEF Abort, Finish, stored
  <2>2. task[k] # Idle
    BY <2>1, Working
  <2> QED
    BY <2>1, <2>2, SoloRefuse
<1>5. ASSUME NEW k \in Tasks, Step(k)
      PROVE  SoloInv'
  BY <1>4, <1>5, DecidingSolo, WriteSolo, AddIndexSolo, SnapshotSolo, ListSolo, RegenSolo,
     DeleteSolo, RemoveRowSolo DEF Step
<1> QED
  BY <1>1, <1>2, <1>3, <1>4, <1>5 DEF Next

LEMMA InitSolo == Init => SoloInv
<1> SUFFICES ASSUME Init PROVE SoloInv
  OBVIOUS
<1>1. indexMd = [d \in ToSet(Dirs) |-> indexMd[d]]
  BY DEF Init
<1> QED
  BY <1>1 DEF Init, SoloInv

LEMMA SoloInvHeals == IInv /\ RaceInv /\ SoloInv => SoloHeals
<1> SUFFICES ASSUME IInv, RaceInv, SoloInv, NEW k \in Busy,
                    task[k].at = "done", task[k].alone, task[k].kind # "sweep"
             PROVE  /\ \A i \in DOMAIN task[k].batch : LastOfPath(task[k].batch, i) =>
                         Placed(task[k].batch[i], file, registry, index)
                    /\ \A d \in ListedDirs(registry) : indexMd[d] = Listing(d, registry)
  BY DEF SoloHeals, Placed
<1> DEFINE t == task[k]
<1>1. k \in Tasks /\ t # Idle /\ Shape(t) /\ t.kind \in Kinds
  BY Working DEF Busy, IsTask
<1>2. Settled(t, file, registry, index) /\ Halfway(t, file, registry, index) /\ Relisted(t, registry, indexMd)
  BY <1>1 DEF SoloInv, Solo
<1>3. \A d \in ListedDirs(registry) : indexMd[d] = Listing(d, registry)
  BY <1>2 DEF Relisted
<1>4. t.batch \in Seq(Items) /\ DOMAIN t.batch = 1 .. Len(t.batch) /\ Len(t.batch) \in Nat
  BY <1>1 DEF Shape
<1>5. CASE t.kind = "put"
  <2>1. Len(t.todo) = 0
    BY <1>1, <1>5 DEF Shape
  <2>2. 1 .. Len(t.batch) - Len(t.todo) = 1 .. Len(t.batch)
    BY <1>4, <2>1
  <2> QED
    BY <1>2, <1>3, <1>4, <2>2 DEF Settled
<1>6. CASE t.kind = "delete"
  <2>1. Len(t.batch) = 1 /\ t.batch[1].content = Absent
    BY <1>1, <1>6 DEF Shape
  <2>2. Placed(t.batch[1], file, registry, index)
    BY <1>2, <1>6, <2>1 DEF Halfway, Placed
  <2>3. DOMAIN t.batch = {1}
    BY <1>4, <2>1
  <2> QED
    BY <1>3, <2>2, <2>3
<1> QED
  BY <1>1, <1>5, <1>6 DEF Kinds

\* "Self-heals on next put": a put, a restore or a delete that met no other
\* operation ends with file, registry, index and every listing in use in
\* agreement, whatever crashes and races had left before it and however many
\* concepts its batch has.
THEOREM SoloHealsHolds == Spec => []SoloHeals
<1>1. Init => IInv /\ RaceInv /\ SoloInv
  BY InitIInv, InitRaceInv, InitSolo
<1>2. IInv /\ RaceInv /\ SoloInv /\ [Next]_vars => (IInv /\ RaceInv /\ SoloInv)'
  BY NextIInv, NextRaceInv, NextSolo
<1>3. IInv /\ RaceInv /\ SoloInv => SoloHeals
  BY SoloInvHeals
<1> QED
  BY <1>1, <1>2, <1>3, PTL DEF Spec
=============================================================================
