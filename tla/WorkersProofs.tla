--------------------------- MODULE WorkersProofs ---------------------------
(***************************************************************************)
(* Theorems about Workers: book ingest for any number of uploads, users    *)
(* and slugs and any books, dream backfills for any number of clicks and   *)
(* scopes, with any number of faults, disconnects and restarts.            *)
(***************************************************************************)
EXTENDS Workers, FiniteSetTheorems, WellFoundedInduction, TLAPS

\* The workers from their start, with part of the ingest bound spent or not;
\* the instances for TLC start from some of these states.
Begins == (\E spent \in Nat : IngestStart(Books, spent)) /\ DreamInit

WorkersSpec == Begins /\ [][Next]_wvars

LEMMA IngestSteps == [Next]_wvars => [IngestNext]_ivars
BY DEF Next, wvars, ivars

LEMMA DreamSteps == [Next]_wvars => [DreamNext]_dvars
BY DEF Next, wvars, dvars

-----------------------------------------------------------------------------
(* Ingest: where runners and jobs can be *)

Early   == {"new", "delete row", "delete catalog", "delete stack", "reserve", "create book", "create job"}
Claimed == {"take", "stack", "hub", "chapters", "done", "fail"}
Working == Claimed \cup {"release"}
Places  == Early \cup Working \cup {"stage", "slot", "load", "claim", "idle", "next", "end"}
States  == {"none", "pending", "running", "done", "failed"}

Shape ==
    /\ runner \in [Runners -> [at : Places, job : Runners, todo : SUBSET Uploads]]
    /\ \A u \in Uploads : runner[u].job = u
    /\ runner["sweep"].at \in Working \cup {"idle", "next", "load", "claim"}
    /\ runner["sweep"].at \notin {"idle", "next"} => runner["sweep"].job \in Uploads
    /\ job \in [Uploads -> States]
    /\ slot = [w \in Users |-> slot[w]]

\* Runner r has job u in its hands.
WorksOn(x, u) == x.at \in Working /\ x.job = u

\* One runner at a time has a job, and only one that is no longer pending; an
\* upload that has no row yet is in nobody's hands.
Owned ==
    /\ \A u \in Uploads : runner[u].at \in Early =>
          job[u] = "none" /\ \A r \in Runners : ~WorksOn(runner[r], u)
    /\ \A r \in Runners : runner[r].at \in Working => job[runner[r].job] # "pending"
    /\ \A r \in Runners : runner[r].at \in Claimed => job[runner[r].job] \in {"running", "none"}
    /\ \A r, q \in Runners : \A u \in Uploads : WorksOn(runner[r], u) /\ WorksOn(runner[q], u) => r = q

LEMMA Sweeper == "sweep" \in Runners /\ "sweep" \notin Uploads /\ \A u \in Uploads : u \in Runners
BY IngestAssumption DEF Runners

\* A runner that moves on, and all the others.
LEMMA Moves ==
    ASSUME Shape, NEW r \in Runners, NEW p \in Places, Goes(r, p)
    PROVE  /\ runner' \in [Runners -> [at : Places, job : Runners, todo : SUBSET Uploads]]
           /\ runner'[r].at = p /\ runner'[r].job = runner[r].job
           /\ \A q \in Runners : q # r => runner'[q] = runner[q]
BY DEF Goes, Shape

LEMMA HasJob ==
    ASSUME Shape, NEW r \in Runners, runner[r].at \in Working \cup {"load", "claim"}
    PROVE  runner[r].job \in Uploads
BY DEF Shape, Runners, Working, Claimed

-----------------------------------------------------------------------------
(* Ingest: the right to the slot of a user *)

\* Upload u will still use the slot of its user: it has reserved it and has no
\* job yet, or its job waits or is in somebody's hands.
Token(u, run, jb) ==
    \/ run[u].at \in {"create book", "create job"}
    \/ jb[u] = "pending"
    \/ \E r \in Runners : WorksOn(run[r], u)

\* A user has one such upload, and then the slot is taken.
OneToken ==
    ~leftover =>
      /\ \A u, v \in Uploads : Token(u, runner, job) /\ Token(v, runner, job) /\ Owner[u] = Owner[v] => u = v
      /\ \A u \in Uploads : Token(u, runner, job) => slot[Owner[u]] # None

IngestInv == Shape /\ Owned /\ OneToken

LEMMA FewerTokens ==
    ASSUME OneToken, leftover' = leftover,
           \A u \in Uploads : Token(u, runner', job') => Token(u, runner, job),
           \A u \in Uploads : Token(u, runner', job') => slot'[Owner[u]] = slot[Owner[u]] \/ slot'[Owner[u]] # None
    PROVE  OneToken'
BY DEF OneToken

\* A step that moves r to a place where it holds nothing; jobs may be deleted.
LEMMA MovesOff ==
    ASSUME Shape, Owned, NEW r \in Runners, NEW p \in Places, Goes(r, p),
           p \notin Working, p \in Early => runner[r].at \in Early,
           r = "sweep" => p \in {"idle", "next"} \/ (p = "claim" /\ runner[r].at = "load"),
           job' \in [Uploads -> States], \A u \in Uploads : job'[u] = job[u] \/ job'[u] = "none",
           slot' = [w \in Users |-> slot'[w]]
    PROVE  /\ Shape' /\ Owned'
           /\ runner'[r].at = p /\ \A q \in Runners : q # r => runner'[q] = runner[q]
           /\ \A u \in Uploads : Token(u, runner', job') =>
                Token(u, runner, job) \/ (u = r /\ p \in {"create book", "create job"})
<1>1. /\ runner' \in [Runners -> [at : Places, job : Runners, todo : SUBSET Uploads]]
      /\ runner'[r].at = p /\ runner'[r].job = runner[r].job
      /\ \A q \in Runners : q # r => runner'[q] = runner[q]
  BY Moves
<1>2. Shape'
  BY <1>1, Sweeper DEF Shape, Working, Claimed
<1>3. \A q \in Runners : \A u \in Uploads : WorksOn(runner'[q], u) => WorksOn(runner[q], u) /\ runner'[q] = runner[q]
  BY <1>1 DEF WorksOn
<1>4. \A q \in Runners : runner'[q].at \in Working => runner'[q] = runner[q] /\ runner[q].job \in Uploads
  BY <1>1, HasJob
<1>5. \A u \in Uploads : runner'[u].at \in Early => runner[u].at \in Early
  BY <1>1, Sweeper
<1>6. \A q \in Runners : runner'[q].at \in Claimed => runner'[q] = runner[q] /\ runner[q].job \in Uploads
  BY <1>4 DEF Working
<1>7. Owned'
  BY <1>3, <1>4, <1>5, <1>6 DEF Owned
<1>8. ASSUME NEW u \in Uploads, Token(u, runner', job')
      PROVE  Token(u, runner, job) \/ (u = r /\ p \in {"create book", "create job"})
  BY <1>1, <1>3, <1>8, Sweeper DEF Token
<1> QED
  BY <1>1, <1>2, <1>7, <1>8

\* A step of a runner that keeps its job in its hands.
LEMMA MovesOn ==
    ASSUME Shape, Owned, NEW r \in Runners, NEW p \in Working, Goes(r, p), runner[r].at \in Claimed,
           job' \in [Uploads -> States], \A u \in Uploads : u # runner[r].job => job'[u] = job[u],
           job'[runner[r].job] # "pending",
           p \in Claimed => job'[runner[r].job] \in {"running", "none"},
           slot' = [w \in Users |-> slot'[w]]
    PROVE  /\ Shape' /\ Owned'
           /\ runner'[r].at = p /\ \A q \in Runners : q # r => runner'[q] = runner[q]
           /\ \A u \in Uploads : Token(u, runner', job') => Token(u, runner, job)
<1> DEFINE j == runner[r].job
<1>0. j \in Uploads /\ p \in Places /\ runner[r].at \in Working
  BY HasJob DEF Places, Working
<1>1. /\ runner' \in [Runners -> [at : Places, job : Runners, todo : SUBSET Uploads]]
      /\ runner'[r].at = p /\ runner'[r].job = j
      /\ \A q \in Runners : q # r => runner'[q] = runner[q]
  BY <1>0, Moves
<1> HIDE DEF j
<1>2. Shape'
  BY <1>0, <1>1, Sweeper DEF Shape, j
<1>3. \A q \in Runners : \A u \in Uploads : WorksOn(runner'[q], u) <=> WorksOn(runner[q], u)
  BY <1>0, <1>1 DEF WorksOn, j
<1>4. \A u \in Uploads : runner'[u].at \in Early => runner[u].at \in Early /\ u # j
  BY <1>0, <1>1, Sweeper DEF Early, Working, Claimed, Owned, WorksOn, j
<1>5. \A q \in Runners : q # r /\ runner[q].at \in Working => runner[q].job # j /\ runner[q].job \in Uploads
  BY <1>0, HasJob DEF Owned, WorksOn, j
<1>6. \A q \in Runners : runner'[q].at \in Working => job'[runner'[q].job] # "pending"
  BY <1>1, <1>5 DEF Owned, j
<1>7. \A q \in Runners : runner'[q].at \in Claimed => job'[runner'[q].job] \in {"running", "none"}
  BY <1>1, <1>5 DEF Owned, Working, j
<1>8. Owned'
  BY <1>3, <1>4, <1>6, <1>7 DEF Owned, j
<1>9. ASSUME NEW u \in Uploads, Token(u, runner', job') PROVE Token(u, runner, job)
  <2>1. CASE \E q \in Runners : WorksOn(runner'[q], u)
    BY <1>3, <2>1 DEF Token
  <2>2. CASE runner'[u].at \in {"create book", "create job"}
    BY <1>1, <2>2, Sweeper DEF Token, Working, Claimed
  <2>3. CASE job'[u] = "pending"
    BY <2>3 DEF Token, j
  <2> QED
    BY <1>9, <2>1, <2>2, <2>3 DEF Token
<1> QED
  BY <1>1, <1>2, <1>8, <1>9


\* A runner that lets go, the slots as they were.
LEMMA LetsGo ==
    ASSUME IngestInv, NEW r \in Runners, NEW p \in Places, Goes(r, p),
           p \notin Working, p \in Early => runner[r].at \in Early, p # "create book",
           p = "create job" => runner[r].at = "create book",
           r = "sweep" => p \in {"idle", "next"} \/ (p = "claim" /\ runner[r].at = "load"),
           job' \in [Uploads -> States], \A u \in Uploads : job'[u] = job[u] \/ job'[u] = "none",
           slot' = slot, leftover' = leftover
    PROVE  IngestInv'
<1>1. Shape /\ Owned /\ slot' = [w \in Users |-> slot'[w]]
  BY DEF IngestInv, Shape
<1>2. /\ Shape' /\ Owned'
      /\ \A u \in Uploads : Token(u, runner', job') =>
            Token(u, runner, job) \/ (u = r /\ p \in {"create book", "create job"})
  BY <1>1, MovesOff
<1>3. \A u \in Uploads : Token(u, runner', job') => Token(u, runner, job)
  BY <1>2 DEF Token
<1>4. OneToken'
  BY <1>3, FewerTokens DEF IngestInv
<1> QED
  BY <1>2, <1>4 DEF IngestInv

\* A runner that goes on, the slots as they were.
LEMMA GoesAhead ==
    ASSUME IngestInv, NEW r \in Runners, NEW p \in Working, Goes(r, p), runner[r].at \in Claimed,
           job' \in [Uploads -> States], \A u \in Uploads : u # runner[r].job => job'[u] = job[u],
           job'[runner[r].job] # "pending",
           p \in Claimed => job'[runner[r].job] \in {"running", "none"},
           slot' = slot, leftover' = leftover
    PROVE  IngestInv'
<1>1. Shape /\ Owned /\ slot' = [w \in Users |-> slot'[w]]
  BY DEF IngestInv, Shape
<1>2. /\ Shape' /\ Owned'
      /\ \A u \in Uploads : Token(u, runner', job') => Token(u, runner, job)
  BY <1>1, MovesOn
<1>3. OneToken'
  BY <1>2, FewerTokens DEF IngestInv
<1> QED
  BY <1>2, <1>3 DEF IngestInv

LEMMA JobsKept == IngestInv => job \in [Uploads -> States]
BY DEF IngestInv, Shape

\* Where the upload handler goes before it has a slot.
LEMMA UploadSteps ==
    ASSUME IngestInv, NEW u \in Uploads,
           \/ api_upload_book(u) \/ delete_book_row(u) \/ delete_catalog(u) \/ delete_stack(u)
           \/ stage_text(u) \/ Disconnect(u)
    PROVE  IngestInv'
<1>1. /\ slot' = slot /\ leftover' = leftover
      /\ job' \in [Uploads -> States] /\ \A v \in Uploads : job'[v] = job[v] \/ job'[v] = "none"
  <2>1. CASE delete_book_row(u)
    BY <2>1, JobsKept, ZenonT(30) DEF delete_book_row, tables, States
  <2>2. CASE \/ api_upload_book(u) \/ delete_catalog(u) \/ delete_stack(u) \/ stage_text(u) \/ Disconnect(u)
    BY <2>2, JobsKept DEF api_upload_book, delete_catalog, delete_stack, stage_text, Disconnect, tables
  <2> QED
    BY <2>1, <2>2
<1>2. \E p \in {"delete row", "delete catalog", "delete stack", "reserve", "slot", "end"} :
         Goes(u, p) /\ (p \in Early => runner[u].at \in Early)
  BY DEF api_upload_book, delete_book_row, delete_catalog, delete_stack, stage_text, Disconnect, At, Early
<1>3. PICK p \in {"delete row", "delete catalog", "delete stack", "reserve", "slot", "end"} :
         Goes(u, p) /\ (p \in Early => runner[u].at \in Early)
  BY <1>2
<1>4. p \in Places /\ p \notin Working /\ p # "create book" /\ p # "create job"
  BY DEF Places, Early, Working, Claimed
<1> QED
  BY <1>1, <1>3, <1>4, LetsGo, Sweeper

LEMMA ReserveStep ==
    ASSUME IngestInv, NEW u \in Uploads, reserve_slot(u)
    PROVE  IngestInv'
<1>0. Owner[u] \in Users /\ "nil" # None
  BY IngestAssumption
<1>1. job' = job /\ leftover' = leftover /\ runner[u].at = "reserve"
  BY DEF reserve_slot, tables, At
<1>2. CASE ~SlotFree(u)
  <2>1. Goes(u, "end") /\ slot' = slot
    BY <1>2 DEF reserve_slot
  <2>2. "end" \in Places /\ "end" \notin Working /\ "end" \notin Early
    BY DEF Places, Early, Working, Claimed
  <2> QED
    BY <1>1, <2>1, <2>2, JobsKept, LetsGo, Sweeper
<1>3. CASE SlotFree(u)
  <2>1. Goes(u, "create book") /\ slot' = [slot EXCEPT ![Owner[u]] = "nil"]
    BY <1>3 DEF reserve_slot
  <2>2. "create book" \in Places /\ "create book" \notin Working /\ runner[u].at \in Early
    BY <1>1 DEF Places, Early, Working, Claimed
  <2>3. Shape /\ Owned /\ slot = [w \in Users |-> slot[w]]
    BY DEF IngestInv, Shape
  <2>4. /\ slot' = [w \in Users |-> slot'[w]] /\ slot'[Owner[u]] = "nil"
        /\ \A w \in Users : slot'[w] = slot[w] \/ slot'[w] = "nil"
    BY <1>0, <2>1, <2>3
  <2>5. /\ Shape' /\ Owned'
        /\ \A v \in Uploads : Token(v, runner', job') => Token(v, runner, job) \/ v = u
    BY <1>1, <2>1, <2>2, <2>3, <2>4, JobsKept, MovesOff, Sweeper
  <2>6. slot[Owner[u]] = None
    BY <1>3 DEF SlotFree
  <2>7. OneToken'
    <3> SUFFICES ASSUME ~leftover
                 PROVE  /\ \A v, w \in Uploads : Token(v, runner', job') /\ Token(w, runner', job') /\ Owner[v] = Owner[w] => v = w
                        /\ \A v \in Uploads : Token(v, runner', job') => slot'[Owner[v]] # None
      BY <1>1 DEF OneToken
    <3>1. \A v \in Uploads : Token(v, runner, job) => slot[Owner[v]] # None /\ Owner[v] # Owner[u] /\ Owner[v] \in Users
      BY <2>6, IngestAssumption DEF IngestInv, OneToken
    <3>2. \A v, w \in Uploads : Token(v, runner, job) /\ Token(w, runner, job) /\ Owner[v] = Owner[w] => v = w
      BY DEF IngestInv, OneToken
    <3> QED
      BY <1>0, <2>4, <2>5, <3>1, <3>2
  <2> QED
    BY <2>5, <2>7 DEF IngestInv
<1> QED
  BY <1>2, <1>3

\* A handler without a job gives its slot back.
LEMMA GivesUp ==
    ASSUME IngestInv, NEW u \in Uploads, runner[u].at \in {"create book", "create job"}, Goes(u, "release"),
           job' = job, slot' = slot, leftover' = leftover
    PROVE  IngestInv'
<1>0. "release" \in Places /\ "release" \in Working /\ "release" \notin Claimed /\ "release" \notin Early
  BY DEF Places, Working, Claimed, Early
<1>1. /\ runner' \in [Runners -> [at : Places, job : Runners, todo : SUBSET Uploads]]
      /\ runner'[u].at = "release" /\ runner'[u].job = u
      /\ \A q \in Runners : q # u => runner'[q] = runner[q]
  BY <1>0, Moves, Sweeper DEF IngestInv, Shape
<1>2. Shape'
  BY <1>1, Sweeper DEF IngestInv, Shape
<1>3. /\ runner[u].at \in Early /\ job[u] = "none"
      /\ \A r \in Runners : ~WorksOn(runner[r], u)
  BY DEF IngestInv, Owned, Early
<1>4. \A q \in Runners : \A v \in Uploads : WorksOn(runner'[q], v) => WorksOn(runner[q], v) \/ (q = u /\ v = u)
  BY <1>1 DEF WorksOn
<1>5. Owned'
  <2>1. \A v \in Uploads : runner'[v].at \in Early =>
          job[v] = "none" /\ \A r \in Runners : ~WorksOn(runner'[r], v)
    BY <1>0, <1>1, <1>4, Sweeper, ZenonT(30) DEF IngestInv, Owned
  <2>2. \A r \in Runners : runner'[r].at \in Working => job[runner'[r].job] # "pending"
    BY <1>1, <1>3 DEF IngestInv, Owned
  <2>3. \A r \in Runners : runner'[r].at \in Claimed => job[runner'[r].job] \in {"running", "none"}
    BY <1>1, <1>3 DEF IngestInv, Owned
  <2>4. \A r, q \in Runners : \A v \in Uploads : WorksOn(runner'[r], v) /\ WorksOn(runner'[q], v) => r = q
    BY <1>3, <1>4 DEF IngestInv, Owned
  <2> QED
    BY <2>1, <2>2, <2>3, <2>4 DEF Owned
<1>6. ASSUME NEW v \in Uploads, Token(v, runner', job') PROVE Token(v, runner, job)
  BY <1>1, <1>4, <1>6, Sweeper DEF Token
<1>7. OneToken'
  BY <1>6, FewerTokens DEF IngestInv
<1> QED
  BY <1>2, <1>5, <1>7 DEF IngestInv

LEMMA CreateBookStep ==
    ASSUME IngestInv, NEW u \in Uploads, create_book(u)
    PROVE  IngestInv'
<1>1. /\ job' = job /\ slot' = slot /\ leftover' = leftover /\ runner[u].at = "create book"
      /\ Goes(u, "create job") \/ Goes(u, "release")
  BY DEF create_book, At
<1>2. "create job" \in Places /\ "create job" \notin Working /\ runner[u].at \in Early
  BY <1>1 DEF Places, Early, Working, Claimed
<1>3. CASE Goes(u, "create job")
  BY <1>1, <1>2, <1>3, JobsKept, LetsGo, Sweeper
<1>4. CASE Goes(u, "release")
  BY <1>1, <1>4, GivesUp
<1> QED
  BY <1>1, <1>3, <1>4

\* The job of an upload is created once, when nobody has it.
LEMMA CreateJobStep ==
    ASSUME IngestInv, NEW u \in Uploads, create_ingest_job(u)
    PROVE  IngestInv'
<1>1. /\ slot' = slot /\ leftover' = leftover /\ runner[u].at = "create job"
      /\ \/ job' = job /\ Goes(u, "release")
         \/ job' = [job EXCEPT ![u] = "pending"] /\ Goes(u, "stage")
  BY DEF create_ingest_job, At
<1>2. CASE job' = job /\ Goes(u, "release")
  BY <1>1, <1>2, GivesUp
<1>3. CASE job' = [job EXCEPT ![u] = "pending"] /\ Goes(u, "stage")
  <2>0. "stage" \in Places /\ "stage" \notin Working /\ "stage" \notin Early
    BY DEF Places, Working, Claimed, Early
  <2>1. /\ runner' \in [Runners -> [at : Places, job : Runners, todo : SUBSET Uploads]]
        /\ runner'[u].at = "stage" /\ runner'[u].job = u
        /\ \A q \in Runners : q # u => runner'[q] = runner[q]
    BY <1>3, <2>0, Moves, Sweeper DEF IngestInv, Shape
  <2>2. job' \in [Uploads -> States] /\ \A v \in Uploads : v # u => job'[v] = job[v]
    BY <1>3 DEF IngestInv, Shape, States
  <2>3. Shape'
    BY <1>1, <2>1, <2>2, Sweeper DEF IngestInv, Shape
  <2>4. \A r \in Runners : ~WorksOn(runner[r], u)
    BY <1>1 DEF IngestInv, Owned, Early
  <2>5. \A q \in Runners : \A v \in Uploads : WorksOn(runner'[q], v) => WorksOn(runner[q], v) /\ v # u
    BY <2>0, <2>1, <2>4 DEF WorksOn
  <2>6. \A q \in Runners : runner'[q].at \in Working =>
           runner'[q] = runner[q] /\ runner[q].job \in Uploads /\ runner[q].job # u
    BY <2>0, <2>1, <2>4, HasJob DEF WorksOn, IngestInv
  <2>7. Owned'
    <3>1. \A v \in Uploads : runner'[v].at \in Early => v # u /\ runner[v].at \in Early
      BY <2>0, <2>1, Sweeper
    <3>2. \A q \in Runners : runner'[q].at \in Claimed => job'[runner'[q].job] \in {"running", "none"}
      BY <2>2, <2>6 DEF IngestInv, Owned, Working
    <3>3. \A q \in Runners : runner'[q].at \in Working => job'[runner'[q].job] # "pending"
      BY <2>2, <2>6 DEF IngestInv, Owned
    <3> QED
      BY <2>2, <2>5, <3>1, <3>2, <3>3 DEF IngestInv, Owned
  <2>8. ASSUME NEW v \in Uploads, Token(v, runner', job') PROVE Token(v, runner, job)
    BY <1>1, <2>1, <2>2, <2>5, <2>8, Sweeper DEF Token
  <2>9. OneToken'
    BY <1>1, <2>8, FewerTokens DEF IngestInv
  <2> QED
    BY <2>3, <2>7, <2>9 DEF IngestInv
<1> QED
  BY <1>1, <1>2, <1>3

LEMMA PointStep ==
    ASSUME IngestInv, NEW u \in Uploads, point_slot(u)
    PROVE  IngestInv'
<1>0. Owner[u] \in Users /\ u # None
  BY IngestAssumption
<1>1. /\ job' = job /\ leftover' = leftover /\ Goes(u, "load")
      /\ slot' = [slot EXCEPT ![Owner[u]] = u]
  BY DEF point_slot, tables
<1>2. Shape /\ Owned /\ slot = [w \in Users |-> slot[w]]
  BY DEF IngestInv, Shape
<1>3. /\ slot' = [w \in Users |-> slot'[w]]
      /\ \A w \in Users : slot'[w] = slot[w] \/ slot'[w] # None
  BY <1>0, <1>1, <1>2
<1>4. "load" \in Places /\ "load" \notin Working /\ "load" \notin Early
  BY DEF Places, Working, Claimed, Early
<1>5. Shape' /\ Owned' /\ \A v \in Uploads : Token(v, runner', job') => Token(v, runner, job)
  BY <1>1, <1>2, <1>3, <1>4, JobsKept, MovesOff, Sweeper
<1>6. OneToken'
  BY <1>1, <1>3, <1>5, FewerTokens, IngestAssumption DEF IngestInv
<1> QED
  BY <1>5, <1>6 DEF IngestInv

\* The sweep turns to another job, or to none.
LEMMA SweepTurns ==
    ASSUME IngestInv, NEW x \in [at : {"idle", "next", "load"}, job : Runners, todo : SUBSET Uploads],
           x.at = "load" => x.job \in Uploads,
           runner' = [runner EXCEPT !["sweep"] = x], job' = job, slot' = slot, leftover' = leftover
    PROVE  IngestInv'
<1>0. x.at \in Places /\ x.at \notin Working /\ x.at \notin Claimed /\ x \in [at : Places, job : Runners, todo : SUBSET Uploads]
  BY DEF Places, Working, Claimed
<1>1. /\ runner' \in [Runners -> [at : Places, job : Runners, todo : SUBSET Uploads]]
      /\ runner'["sweep"] = x
      /\ \A q \in Runners : q # "sweep" => runner'[q] = runner[q]
      /\ \A u \in Uploads : runner'[u] = runner[u]
  BY <1>0, Sweeper DEF IngestInv, Shape
<1>2. Shape'
  BY <1>1, Sweeper DEF IngestInv, Shape
<1>3. \A q \in Runners : runner'[q].at \in Working => runner'[q] = runner[q]
  BY <1>0, <1>1
<1>4. \A q \in Runners : \A u \in Uploads : WorksOn(runner'[q], u) => WorksOn(runner[q], u)
  BY <1>3 DEF WorksOn
<1>5. Owned'
  <2>1. \A q \in Runners : runner'[q].at \in Claimed => runner'[q] = runner[q]
    BY <1>3 DEF Working
  <2> QED
    BY <1>1, <1>3, <1>4, <2>1 DEF IngestInv, Owned
<1>6. \A u \in Uploads : Token(u, runner', job') => Token(u, runner, job)
  BY <1>1, <1>4 DEF Token
<1>7. OneToken'
  BY <1>6, FewerTokens DEF IngestInv
<1> QED
  BY <1>2, <1>5, <1>7 DEF IngestInv

LEMMA SweepSteps ==
    ASSUME IngestInv, spawn \/ run_pending
    PROVE  IngestInv'
<1>0. "sweep" \in Runners /\ runner["sweep"] \in [at : Places, job : Runners, todo : SUBSET Uploads]
  BY Sweeper DEF IngestInv, Shape
<1>1. job' = job /\ slot' = slot /\ leftover' = leftover
  BY DEF spawn, run_pending, tables
<1>2. CASE spawn
  <2> DEFINE x == [at |-> "next", job |-> "sweep", todo |-> {u \in Uploads : job[u] = "pending"}]
  <2>1. runner' = [runner EXCEPT !["sweep"] = x]
    BY <1>2 DEF spawn
  <2>2. x \in [at : {"idle", "next", "load"}, job : Runners, todo : SUBSET Uploads] /\ x.at # "load"
    BY <1>0
  <2> HIDE DEF x
  <2> QED
    BY <1>1, <2>1, <2>2, SweepTurns
<1>3. CASE run_pending
  <2>1. CASE \E u \in runner["sweep"].todo :
               runner' = [runner EXCEPT !["sweep"] = [at |-> "load", job |-> u, todo |-> runner["sweep"].todo \ {u}]]
    <3>1. PICK u \in runner["sweep"].todo :
               runner' = [runner EXCEPT !["sweep"] = [at |-> "load", job |-> u, todo |-> runner["sweep"].todo \ {u}]]
      BY <2>1
    <3> DEFINE x == [at |-> "load", job |-> u, todo |-> runner["sweep"].todo \ {u}]
    <3>2. x \in [at : {"idle", "next", "load"}, job : Runners, todo : SUBSET Uploads] /\ x.job \in Uploads
      BY <1>0, <3>1, Sweeper
    <3>3. runner' = [runner EXCEPT !["sweep"] = x]
      BY <3>1
    <3> HIDE DEF x
    <3> QED
      BY <1>1, <3>2, <3>3, SweepTurns
  <2>2. CASE Goes("sweep", "idle")
    <3>1. "idle" \in Places /\ "idle" \notin Working /\ "idle" \notin Early
      BY DEF Places, Working, Claimed, Early
    <3> QED
      BY <1>0, <1>1, <2>2, <3>1, JobsKept, LetsGo
  <2> QED
    BY <1>3, <2>1, <2>2 DEF run_pending
<1> QED
  BY <1>2, <1>3

\* run_job returns.
LEMMA ReturnPlace ==
    ASSUME NEW r \in Runners, Returns(r) \/ ReturnsErr(r)
    PROVE  \E p \in {"next", "idle", "end"} : Goes(r, p) /\ (r = "sweep" => p \in {"next", "idle"})
BY DEF Returns, ReturnsErr

LEMMA ReturnStep ==
    ASSUME IngestInv, NEW r \in Runners, Returns(r) \/ ReturnsErr(r),
           job' = job, slot' = slot, leftover' = leftover
    PROVE  IngestInv'
<1>1. PICK p \in {"next", "idle", "end"} : Goes(r, p) /\ (r = "sweep" => p \in {"next", "idle"})
  BY ReturnPlace
<1>2. p \in Places /\ p \notin Working /\ p \notin Early /\ p # "create book" /\ p # "create job"
  BY DEF Places, Working, Claimed, Early
<1> QED
  BY <1>1, <1>2, JobsKept, LetsGo

LEMMA LoadStep ==
    ASSUME IngestInv, NEW r \in Runners, load_job(r)
    PROVE  IngestInv'
<1>1. job' = job /\ slot' = slot /\ leftover' = leftover /\ runner[r].at = "load"
  BY DEF load_job, tables, At
<1>2. CASE Goes(r, "claim")
  <2>1. "claim" \in Places /\ "claim" \notin Working /\ "claim" \notin Early
    BY DEF Places, Working, Claimed, Early
  <2> QED
    BY <1>1, <1>2, <2>1, JobsKept, LetsGo
<1>3. CASE Returns(r) \/ ReturnsErr(r)
  BY <1>1, <1>3, ReturnStep
<1> QED
  BY <1>2, <1>3 DEF load_job

LEMMA ClaimStep ==
    ASSUME IngestInv, NEW r \in Runners, claim_ingest_job(r)
    PROVE  IngestInv'
<1> DEFINE j == runner[r].job
<1>1. slot' = slot /\ leftover' = leftover /\ runner[r].at = "claim"
  BY DEF claim_ingest_job, At
<1>2. CASE (Returns(r) \/ ReturnsErr(r)) /\ job' = job
  BY <1>1, <1>2, ReturnStep
<1>3. CASE job[j] = "pending" /\ job' = [job EXCEPT ![j] = "running"] /\ Goes(r, "take")
  <2>0. "take" \in Places /\ "take" \in Working /\ "take" \in Claimed /\ "take" \notin Early
    BY DEF Places, Working, Claimed, Early
  <2>1. /\ runner' \in [Runners -> [at : Places, job : Runners, todo : SUBSET Uploads]]
        /\ runner'[r].at = "take" /\ runner'[r].job = j
        /\ \A q \in Runners : q # r => runner'[q] = runner[q]
    BY <1>3, <2>0, Moves DEF IngestInv
  <2>2. j \in Uploads
    BY <1>1, HasJob DEF IngestInv
  <2>3. /\ job' \in [Uploads -> States] /\ job'[j] = "running"
        /\ \A u \in Uploads : u # j => job'[u] = job[u]
    BY <1>3, <2>2, JobsKept DEF States
  <2>4. job[j] = "pending"
    BY <1>3
  <2>5. \A q \in Runners : runner[q].at \in Working => runner[q].job # j /\ runner[q].job \in Uploads
    BY <2>4, HasJob DEF IngestInv, Owned
  <2>6. \A u \in Uploads : runner'[u].at \in Early => runner[u].at \in Early /\ u # j
    BY <2>0, <2>1, <2>4, Sweeper DEF IngestInv, Owned
  <2> HIDE DEF j
  <2>7. Shape'
    <3>1. \A u \in Uploads : runner'[u].job = u
      BY <2>1, Sweeper DEF j, IngestInv, Shape
    <3> QED
      BY <1>1, <2>0, <2>1, <2>2, <2>3, <3>1, Sweeper DEF IngestInv, Shape
  <2>8. \A q \in Runners : \A u \in Uploads :
          WorksOn(runner'[q], u) => (q = r /\ u = j) \/ (q # r /\ u # j /\ WorksOn(runner[q], u))
    BY <2>1, <2>5 DEF WorksOn
  <2>9. Owned'
    <3>1. \A u \in Uploads : runner'[u].at \in Early =>
            job'[u] = "none" /\ \A q \in Runners : ~WorksOn(runner'[q], u)
      BY <2>3, <2>6, <2>8 DEF IngestInv, Owned
    <3>2. \A q \in Runners : runner'[q].at \in Working => job'[runner'[q].job] # "pending"
      BY <2>1, <2>3, <2>5 DEF IngestInv, Owned
    <3>3. \A q \in Runners : runner'[q].at \in Claimed => job'[runner'[q].job] \in {"running", "none"}
      BY <2>1, <2>3, <2>5 DEF IngestInv, Owned, Working
    <3>4. \A p, q \in Runners : \A u \in Uploads : WorksOn(runner'[p], u) /\ WorksOn(runner'[q], u) => p = q
      BY <2>8 DEF IngestInv, Owned
    <3> QED
      BY <3>1, <3>2, <3>3, <3>4 DEF Owned
  <2>10. ASSUME NEW u \in Uploads, Token(u, runner', job') PROVE Token(u, runner, job)
    BY <2>1, <2>3, <2>4, <2>8, <2>10, Sweeper DEF Token
  <2>11. OneToken'
    BY <1>1, <2>10, FewerTokens DEF IngestInv
  <2> QED
    BY <2>7, <2>9, <2>11 DEF IngestInv
<1> QED
  BY <1>2, <1>3 DEF claim_ingest_job

\* The steps of a job that is in a runner's hands.
LEMMA WriteSteps ==
    ASSUME IngestInv, NEW r \in Runners,
           take_staged(r) \/ write_stack_text(r) \/ write_catalog_hub(r) \/ write_catalog(r)
    PROVE  IngestInv'
<1>1. job' = job /\ slot' = slot /\ leftover' = leftover
  BY DEF take_staged, write_stack_text, write_catalog_hub, write_catalog, tables
<1>2. runner[r].at \in Claimed /\ \E p \in Claimed : Goes(r, p)
  BY DEF take_staged, write_stack_text, write_catalog_hub, write_catalog, At, Claimed
<1>3. PICK p \in Claimed : Goes(r, p)
  BY <1>2
<1>4. p \in Working /\ runner[r].at \in Working
  BY <1>2 DEF Working
<1>5. job[runner[r].job] # "pending" /\ job[runner[r].job] \in {"running", "none"}
  BY <1>2, <1>4 DEF IngestInv, Owned
<1> QED
  BY <1>1, <1>2, <1>3, <1>4, <1>5, JobsKept, GoesAhead

LEMMA UpdateStep ==
    ASSUME IngestInv, NEW r \in Runners, update_ingest_job(r)
    PROVE  IngestInv'
<1>1. slot' = slot /\ leftover' = leftover
  BY DEF update_ingest_job
<1>2. PICK p \in {<<"done", "done">>, <<"fail", "failed">>} :
          /\ At(r, p[1])
          /\ LET u == runner[r].job IN
             \/ /\ job' = [job EXCEPT ![u] = IF @ = "none" THEN @ ELSE p[2]]
                /\ Goes(r, "release") /\ Fine
             \/ Mishap /\ ReturnsErr(r) /\ UNCHANGED job
  BY DEF update_ingest_job
<1>3. runner[r].at \in Claimed /\ p[2] \in {"done", "failed"}
  BY <1>2 DEF At, Claimed
<1>4. CASE ReturnsErr(r) /\ job' = job
  BY <1>1, <1>4, ReturnStep
<1> DEFINE j == runner[r].job
<1>5. CASE job' = [job EXCEPT ![j] = IF @ = "none" THEN @ ELSE p[2]] /\ Goes(r, "release")
  <2>1. j \in Uploads
    BY <1>3, HasJob DEF IngestInv, Working
  <2>2. /\ job' \in [Uploads -> States] /\ job'[j] # "pending"
        /\ \A u \in Uploads : u # j => job'[u] = job[u]
    BY <1>3, <1>5, <2>1, JobsKept DEF States
  <2>3. "release" \in Working /\ "release" \notin Claimed
    BY DEF Working, Claimed
  <2> QED
    BY <1>1, <1>3, <1>5, <2>2, <2>3, GoesAhead
<1> QED
  BY <1>2, <1>4, <1>5

\* The slot goes back: the job was the one upload of its user that had a right to it.
LEMMA ReleaseStep ==
    ASSUME IngestInv, NEW r \in Runners, release_slot(r)
    PROVE  IngestInv'
<1> DEFINE j == runner[r].job
<1>1. job' = job /\ leftover' = leftover /\ runner[r].at = "release" /\ Returns(r)
      /\ slot' = [slot EXCEPT ![Owner[j]] = None]
  BY DEF release_slot, tables, At
<1>2. j \in Uploads /\ runner[r].at \in Working
  BY <1>1, HasJob DEF IngestInv, Working
<1>3. Owner[j] \in Users
  BY <1>2, IngestAssumption
<1>4. PICK p \in {"next", "idle", "end"} : Goes(r, p) /\ (r = "sweep" => p \in {"next", "idle"})
  BY <1>1, ReturnPlace
<1>5. p \in Places /\ p \notin Working /\ p \notin Early /\ p # "create book" /\ p # "create job"
  BY DEF Places, Working, Claimed, Early
<1>6. Shape /\ Owned /\ slot = [w \in Users |-> slot[w]]
  BY DEF IngestInv, Shape
<1>7. slot' = [w \in Users |-> slot'[w]] /\ \A w \in Users : w # Owner[j] => slot'[w] = slot[w]
  BY <1>1, <1>3, <1>6
<1>8. /\ Shape' /\ Owned'
      /\ runner'[r].at = p /\ \A q \in Runners : q # r => runner'[q] = runner[q]
      /\ \A u \in Uploads : Token(u, runner', job') => Token(u, runner, job)
  BY <1>1, <1>4, <1>5, <1>6, <1>7, JobsKept, MovesOff
<1>9. Token(j, runner, job)
  BY <1>2 DEF Token, WorksOn
<1>10. ~Token(j, runner', job')
  <2>1. job[j] # "pending"
    BY <1>2 DEF IngestInv, Owned
  <2>2. \A q \in Runners : WorksOn(runner[q], j) => q = r
    BY <1>2 DEF IngestInv, Owned, WorksOn
  <2>3. \A q \in Runners : ~WorksOn(runner'[q], j)
    BY <1>5, <1>8, <2>2 DEF WorksOn
  <2>4. runner'[j].at \notin {"create book", "create job"}
    <3>1. runner[j].at \notin Early
      BY <1>2 DEF IngestInv, Owned, WorksOn
    <3>2. runner'[j].at = p \/ runner'[j] = runner[j]
      BY <1>2, <1>8, Sweeper
    <3> QED
      BY <1>5, <3>1, <3>2 DEF Early
  <2> QED
    BY <1>1, <2>1, <2>3, <2>4 DEF Token
<1> HIDE DEF j
<1>11. OneToken'
  <2> SUFFICES ASSUME ~leftover
               PROVE  /\ \A v, w \in Uploads : Token(v, runner', job') /\ Token(w, runner', job') /\ Owner[v] = Owner[w] => v = w
                      /\ \A v \in Uploads : Token(v, runner', job') => slot'[Owner[v]] # None
    BY <1>1 DEF OneToken
  <2>1. /\ \A v, w \in Uploads : Token(v, runner, job) /\ Token(w, runner, job) /\ Owner[v] = Owner[w] => v = w
        /\ \A v \in Uploads : Token(v, runner, job) => slot[Owner[v]] # None
    BY DEF IngestInv, OneToken
  <2>2. \A v \in Uploads : Owner[v] \in Users
    BY IngestAssumption
  <2>3. \A v \in Uploads : Token(v, runner', job') => Owner[v] # Owner[j] /\ Token(v, runner, job)
    BY <1>2, <1>8, <1>9, <1>10, <2>1
  <2> QED
    BY <1>7, <2>1, <2>2, <2>3
<1> QED
  BY <1>8, <1>11 DEF IngestInv

\* The boot pass makes no rows, and leaves no status but the table's.
LEMMA BootJobs ==
    ASSUME job \in [Uploads -> States], NEW j \in BootPass
    PROVE  j \in [Uploads -> States] /\ \A u \in Uploads : job[u] = "none" => j[u] = "none"
<1> DEFINE Closed(left) == [u \in Uploads |-> IF u \in Open \ left THEN "failed" ELSE job[u]]
           pending == {u \in Uploads : job[u] = "pending"}
<1>1. \A left : Closed(left) \in [Uploads -> States] /\ \A u \in Uploads : job[u] = "none" => Closed(left)[u] = "none"
  BY DEF States, Open
<1>2. CASE j = job
  BY <1>2
<1>3. CASE \E left \in SUBSET pending : j = Closed(left)
  BY <1>1, <1>3
<1>4. CASE \E left \in SUBSET pending : \E v \in left : j = [Closed(left) EXCEPT ![v] = "running"]
  <2>1. PICK left \in SUBSET pending : \E v \in left : j = [Closed(left) EXCEPT ![v] = "running"]
    BY <1>4
  <2>2. PICK v \in left : j = [Closed(left) EXCEPT ![v] = "running"]
    BY <2>1
  <2>3. v \in Uploads /\ job[v] = "pending" /\ "running" \in States
    BY DEF States
  <2>4. Closed(left) \in [Uploads -> States] /\ \A u \in Uploads : job[u] = "none" => Closed(left)[u] = "none"
    BY <1>1
  <2> HIDE DEF Closed, pending
  <2> QED
    BY <2>2, <2>3, <2>4
<1>5. j = job \/ (\E left \in SUBSET pending : j = Closed(left))
      \/ (\E left \in SUBSET pending : \E v \in left : j = [Closed(left) EXCEPT ![v] = "running"])
  <2> DEFINE Again(left) == {[Closed(left) EXCEPT ![v] = "running"] : v \in left}
  <2>1. j \in {job} \cup {Closed(left) : left \in SUBSET pending} \cup UNION {Again(left) : left \in SUBSET pending}
    BY DEF BootPass
  <2>2. ASSUME NEW left, j \in Again(left) PROVE \E v \in left : j = [Closed(left) EXCEPT ![v] = "running"]
    BY <2>2
  <2> HIDE DEF Closed, pending, Again
  <2> QED
    BY <2>1, <2>2
<1> QED
  BY <1>2, <1>3, <1>4, <1>5

LEMMA BootStep ==
    ASSUME IngestInv, recover_on_boot
    PROVE  IngestInv'
<1>1. /\ job' \in [Uploads -> States] /\ \A u \in Uploads : job[u] = "none" => job'[u] = "none"
  BY JobsKept, BootJobs DEF recover_on_boot
<1>2. /\ \A r \in Runners : /\ runner'[r].job = r /\ runner'[r].todo = {}
                            /\ runner'[r].at \in {"idle", "new", "end"}
                            /\ runner'[r].at = "new" => runner[r].at = "new"
                            /\ r = "sweep" => runner'[r].at = "idle"
      /\ runner' \in [Runners -> [at : {"idle", "new", "end"}, job : Runners, todo : {{}}]]
  BY DEF recover_on_boot, At
<1>3. \A r \in Runners : runner'[r].at \notin Working /\ runner'[r].at \in Places /\ (runner'[r].at \in Early => runner[r].at \in Early)
  BY <1>2 DEF Working, Claimed, Early, Places
<1>4. Shape'
  <2>1. runner' \in [Runners -> [at : Places, job : Runners, todo : SUBSET Uploads]]
    <3>1. {"idle", "new", "end"} \subseteq Places /\ {{}} \subseteq SUBSET Uploads
      BY DEF Places, Early
    <3>2. ASSUME NEW r \in Runners PROVE runner'[r] \in [at : Places, job : Runners, todo : SUBSET Uploads]
      BY <1>2, <3>1
    <3> QED
      BY <1>2, <3>2
  <2>2. slot' = [w \in Users |-> slot'[w]]
    BY DEF recover_on_boot
  <2> QED
    BY <1>1, <1>2, <2>1, <2>2, Sweeper DEF Shape
<1>5. \A r \in Runners : runner'[r].at \notin Claimed /\ \A u \in Uploads : ~WorksOn(runner'[r], u)
  BY <1>3 DEF WorksOn, Working
<1>6. Owned'
  BY <1>1, <1>3, <1>5, Sweeper DEF IngestInv, Owned
<1>7. ASSUME NEW u \in Uploads, Token(u, runner', job') PROVE job'[u] = "pending"
  BY <1>2, <1>5, <1>7, Sweeper DEF Token
<1>8. OneToken'
  <2>1. (\E u \in Uploads : job'[u] \in {"pending", "running"}) => leftover'
    BY DEF recover_on_boot
  <2> QED
    BY <1>7, <2>1 DEF OneToken
<1> QED
  BY <1>4, <1>6, <1>8 DEF IngestInv

LEMMA InitIngest == Begins => IngestInv
<1> SUFFICES ASSUME Begins PROVE IngestInv
  OBVIOUS
<1>1. PICK spent \in Nat : IngestStart(Books, spent)
  BY DEF Begins
<1>2. /\ runner = [r \in Runners |-> [at |-> IF r = "sweep" THEN "idle" ELSE "new", job |-> r, todo |-> {}]]
      /\ job = [u \in Uploads |-> "none"] /\ slot = [w \in Users |-> None]
  BY <1>1 DEF IngestStart
<1>3. \A r \in Runners : runner[r].job = r /\ runner[r].at = (IF r = "sweep" THEN "idle" ELSE "new")
  BY <1>2
<1>4. Shape
  <2>1. runner \in [Runners -> [at : Places, job : Runners, todo : SUBSET Uploads]]
    BY <1>2 DEF Places, Working, Claimed, Early
  <2> QED
    BY <1>2, <1>3, <2>1, Sweeper DEF Shape, States
<1>5. \A r \in Runners : runner[r].at \notin Working /\ runner[r].at \notin Claimed
  BY <1>3 DEF Working, Claimed
<1>6. Owned
  BY <1>2, <1>5 DEF Owned, WorksOn
<1>7. \A u \in Uploads : ~Token(u, runner, job)
  BY <1>2, <1>3, <1>5, Sweeper DEF Token, WorksOn
<1>8. OneToken
  BY <1>7 DEF OneToken
<1> QED
  BY <1>4, <1>6, <1>8 DEF IngestInv

LEMMA NextIngest ==
    ASSUME IngestInv, [Next]_wvars
    PROVE  IngestInv'
<1>0. [IngestNext]_ivars
  BY IngestSteps
<1>1. CASE UNCHANGED ivars
  BY <1>1 DEF ivars, tables, IngestInv, Shape, Owned, OneToken
<1>2. CASE recover_on_boot
  BY <1>2, BootStep
<1>3. CASE spawn \/ run_pending
  BY <1>3, SweepSteps
<1>4. ASSUME NEW r \in Runners, run_job(r) PROVE IngestInv'
  BY <1>4, LoadStep, ClaimStep, WriteSteps, UpdateStep, ReleaseStep DEF run_job
<1>5. ASSUME NEW u \in Uploads,
             \/ api_upload_book(u) \/ delete_book_row(u) \/ delete_catalog(u) \/ delete_stack(u)
             \/ reserve_slot(u) \/ create_book(u) \/ create_ingest_job(u) \/ stage_text(u)
             \/ point_slot(u) \/ Disconnect(u)
      PROVE  IngestInv'
  BY <1>5, UploadSteps, ReserveStep, CreateBookStep, CreateJobStep, PointStep
<1> QED
  BY <1>0, <1>1, <1>2, <1>3, <1>4, <1>5, Sweeper DEF IngestNext, Sweep

\* worker.rs "One ingest job per user at a time (DESIGN)": as long as no boot pass
\* is cut short, a user's slot is reserved (reserve_slot) before its job has a row,
\* no second upload of the user passes the check while the job waits or is in a
\* runner's hands, and only the one runner that claimed a job (claim_ingest_job)
\* writes its book: for any number of uploads, users and slugs, disconnects and
\* restarts.
THEOREM OneIngestHolds == WorkersSpec => []OneIngestPerUser
<1>1. IngestInv => OneIngestPerUser
  <2> SUFFICES ASSUME IngestInv, NEW r \in Runners, NEW q \in Runners, r # q, ~leftover,
                      {runner[r].at, runner[q].at} \subseteq {"stack", "hub", "chapters"},
                      Owner[runner[r].job] = Owner[runner[q].job]
               PROVE  FALSE
    BY DEF OneIngestPerUser
  <2>1. runner[r].at \in Working /\ runner[q].at \in Working
    BY DEF Working, Claimed
  <2>2. runner[r].job \in Uploads /\ runner[q].job \in Uploads
    BY <2>1, HasJob DEF IngestInv
  <2>3. Token(runner[r].job, runner, job) /\ Token(runner[q].job, runner, job)
    BY <2>1, <2>2 DEF Token, WorksOn
  <2>4. runner[r].job = runner[q].job
    BY <2>2, <2>3 DEF IngestInv, OneToken
  <2> QED
    BY <2>1, <2>2, <2>4 DEF IngestInv, Owned, WorksOn
<1> QED
  BY <1>1, InitIngest, NextIngest, PTL DEF WorkersSpec

-----------------------------------------------------------------------------
(* The two readers of a book agree *)

LEMMA Kinds ==
    ASSUME NEW x \in Ids
    PROVE  /\ x.of \in {"none", "ch", "sec"}
           /\ x.of = "none" <=> x = NoId
           /\ x.of = "ch" => x.n \in Nat /\ x = Ch(x.n)
           /\ x.of = "sec" => x.n \in Nat /\ x.s \in Nat /\ x = Sec(x.n, x.s)
BY DEF Ids, NoId, Ch, Sec

LEMMA HeadingLines ==
    ASSUME NEW t \in Seq(Line), NEW i \in collect_headings(t)
    PROVE  /\ i \in 1 .. Len(t) /\ i \in Nat /\ t[i] \in Line
           /\ t[i].id \in Ids /\ t[i].level \in Nat
<1>1. i \in 1 .. Len(t) /\ t[i] \in Line
  BY DEF collect_headings
<1> QED
  BY <1>1 DEF Line

\* A heading that alone carries its id is found by it.
LEMMA LeastOne == ASSUME NEW i \in Int PROVE Min({i}) = i
BY DEF Min

\* A set of lines that is not empty has a first one.
LEMMA LeastOf ==
    ASSUME NEW m \in Nat, NEW S \in SUBSET (1 .. m), S # {}
    PROVE  Min(S) \in S /\ \A k \in S : Min(S) <= k
<1> DEFINE R == OpToRel(<, Nat)
<1>0. \A x \in S : x \in Nat
  OBVIOUS
<1>1. IsWellFoundedOn(R, Nat)
  BY NatLessThanWellFounded, Zenon
<1>2. \A x, y \in Nat : <<y, x>> \in R <=> y < x
  BY DEF OpToRel
<1> HIDE DEF R
<1>3. \E x \in S : \A y \in S : ~(<<y, x>> \in R)
  BY <1>0, <1>1, WFMin
<1>4. PICK x \in S : \A y \in S : ~(<<y, x>> \in R)
  BY <1>3
<1>5. \A y \in S : x <= y
  <2> SUFFICES ASSUME NEW y \in S PROVE x <= y
    OBVIOUS
  <2>1. x \in Nat /\ y \in Nat /\ ~(y < x)
    BY <1>0, <1>2, <1>4
  <2> QED
    BY <2>1
<1> QED
  BY <1>5 DEF Min

LEMMA SpanFrom ==
    ASSUME NEW t, NEW i, NEW B
    PROVE  Span(t, i, B) # NotFound /\ Span(t, i, B).from = i
BY DEF Span, NotFound

LEMMA Seen ==
    ASSUME NEW t \in Seq(Line), WellFormed(t), NEW i \in collect_headings(t)
    PROVE  /\ heading_anchor_id(t[i]) = t[i].id
           /\ t[i].id.of = "sec" => t[i].id.s > 0
           /\ \A j \in collect_headings(t) : t[i].id = t[j].id /\ t[i].id # NoId => i = j
BY DEF WellFormed, heading_anchor_id

LEMMA ChapterByAnchor ==
    ASSUME NEW t \in Seq(Line), WellFormed(t), NEW i \in collect_headings(t),
           t[i].id.of = "ch", t[i].id.n > 0
    PROVE  LinkHits(t, [anchor |-> t[i].id, line |-> i])
<1> DEFINE H == collect_headings(t)
           n == t[i].id.n
           chs == {k \in H : t[k].id.of = "ch"}
           hit == {k \in chs : t[k].id.n = n}
<1>1. i \in Nat /\ t[i].id = Ch(n) /\ t[i].id # NoId
  BY HeadingLines, Kinds
<1>2. ASSUME NEW k \in hit PROVE k = i
  <2>1. t[k].id = Ch(n)
    BY HeadingLines, Kinds
  <2> QED
    BY <1>1, <2>1, Seen
<1>3. hit = {i}
  BY <1>2
<1>4. extract_chapter(t, n) = Span(t, Min(hit), chs)
  BY <1>1, <1>3 DEF extract_chapter
<1>5. extract_passage(t, t[i].id) = extract_chapter(t, n)
  BY DEF extract_passage
<1>6. Min(hit) = i
  BY <1>1, <1>3, LeastOne
<1> HIDE DEF hit, chs, n
<1>7. extract_passage(t, t[i].id) # NotFound /\ extract_passage(t, t[i].id).from = i
  BY <1>4, <1>5, <1>6, SpanFrom
<1> QED
  BY <1>7 DEF LinkHits

LEMMA SectionByAnchor ==
    ASSUME NEW t \in Seq(Line), WellFormed(t), NEW i \in collect_headings(t),
           t[i].id.of = "sec", t[i].id.n > 0
    PROVE  LinkHits(t, [anchor |-> t[i].id, line |-> i])
<1> DEFINE H == collect_headings(t)
           c == t[i].id.n
           s == t[i].id.s
           hit == {k \in H : t[k].id = Sec(c, s)}
           B == {k \in H : t[k].level <= t[Min(hit)].level}
<1>1. i \in Nat /\ t[i].id = Sec(c, s) /\ t[i].id # NoId /\ s > 0
  BY HeadingLines, Kinds, Seen
<1>2. hit = {i}
  BY <1>1, Seen
<1>3. extract_section(t, c, s) = Span(t, Min(hit), B)
  BY <1>2 DEF extract_section
<1>4. extract_passage(t, t[i].id) = extract_section(t, c, s)
  BY <1>1 DEF extract_passage
<1>5. Min(hit) = i
  BY <1>1, <1>2, LeastOne
<1> HIDE DEF hit, B, c, s
<1>6. extract_passage(t, t[i].id) # NotFound /\ extract_passage(t, t[i].id).from = i
  BY <1>3, <1>4, <1>5, SpanFrom
<1> QED
  BY <1>6 DEF LinkHits

\* Counting is the same on both sides: the place of a line in a set of lines is its own.
LEMMA PlaceIsOwn ==
    ASSUME NEW m \in Nat, NEW S \in SUBSET (1 .. m), NEW i \in S
    PROVE  /\ Cardinality({j \in S : j <= i}) \in Nat \ {0}
           /\ \A k \in S : Cardinality({j \in S : j <= k}) = Cardinality({j \in S : j <= i}) => k = i
<1> DEFINE Upto(k) == {j \in S : j <= k}
<1>0. \A k \in S : k \in Int
  OBVIOUS
<1>1. IsFiniteSet(S)
  <2>1. IsFiniteSet(1 .. m)
    BY FS_Interval
  <2> QED
    BY <2>1, FS_Subset
<1>2. \A k \in S : IsFiniteSet(Upto(k)) /\ Cardinality(Upto(k)) \in Nat /\ k \in Upto(k)
  BY <1>1, FS_Subset, FS_CardinalityType
<1>3. Cardinality(Upto(i)) # 0
  BY <1>2, FS_EmptySet
<1>4. ASSUME NEW k \in S, Cardinality(Upto(k)) = Cardinality(Upto(i)) PROVE k = i
  <2>1. \A a, b \in S : a < b => Upto(a) \subseteq Upto(b) /\ b \notin Upto(a)
    <3> SUFFICES ASSUME NEW a \in S, NEW b \in S, a < b PROVE Upto(a) \subseteq Upto(b) /\ b \notin Upto(a)
      OBVIOUS
    <3>1. ~(b <= a) /\ \A j \in S : j <= a => j <= b
      BY <1>0
    <3> QED
      BY <3>1, Zenon
  <2>2. \A a, b \in S : a < b => Cardinality(Upto(a)) # Cardinality(Upto(b))
    BY <1>2, <2>1, FS_Subset
  <2> QED
    BY <1>4, <2>2
<1> QED
  BY <1>2, <1>3, <1>4

\* A plain text has no ids, so both readers count.
LEMMA PlainIds ==
    ASSUME NEW t \in Seq(Line), WellFormed(t), ~Anchored(t)
    PROVE  \A i \in collect_headings(t) : t[i].id = NoId
BY Seen DEF Anchored

H1(t) == {i \in collect_headings(t) : t[i].level = 1}
Nth(S, i) == Cardinality({j \in S : j <= i})
Secs(t, i) == {j \in collect_headings(t) : t[j].level = 2 /\ j > i /\ \A k \in H1(t) : ~(i < k /\ k < j)}

LEMMA CountedChapter ==
    ASSUME NEW t \in Seq(Line), NEW i \in H1(t)
    PROVE  /\ Nth(H1(t), i) \in Nat \ {0}
           /\ count_based_chapter(t, Nth(H1(t), i)) = Span(t, i, H1(t))
<1> DEFINE S == H1(t)
           n == Nth(S, i)
           hit == {k \in S : Cardinality({j \in S : j <= k}) = n}
<1>1. Len(t) \in Nat /\ S \in SUBSET (1 .. Len(t)) /\ i \in S /\ i \in Int
  BY HeadingLines DEF H1
<1>2. n \in Nat \ {0} /\ \A k \in S : Nth(S, k) = n => k = i
  <2> HIDE DEF S
  <2> QED
    BY <1>1, PlaceIsOwn DEF Nth
<1>3. hit = {i}
  BY <1>1, <1>2 DEF Nth
<1>4. count_based_chapter(t, n) = IF hit = {} THEN NotFound ELSE Span(t, Min(hit), S)
  BY DEF count_based_chapter, H1
<1>5. Min(hit) = i
  BY <1>1, <1>3, LeastOne
<1> QED
  BY <1>2, <1>3, <1>4, <1>5

LEMMA ChapterByCount ==
    ASSUME NEW t \in Seq(Line), WellFormed(t), ~Anchored(t), NEW i \in H1(t)
    PROVE  LinkHits(t, [anchor |-> Ch(Nth(H1(t), i)), line |-> i])
<1> DEFINE n == Nth(H1(t), i)
<1>1. n \in Nat /\ n > 0 /\ count_based_chapter(t, n) = Span(t, i, H1(t))
  BY CountedChapter
<1> HIDE DEF n
<1>2. extract_chapter(t, n) = count_based_chapter(t, n)
  <2>1. \A k \in collect_headings(t) : t[k].id = NoId
    BY PlainIds
  <2>2. ~\E k \in collect_headings(t) : t[k].id # NoId
    BY <2>1
  <2>3. {k \in collect_headings(t) : t[k].id.of = "ch"} = {}
    BY <2>1 DEF NoId
  <2> QED
    BY <2>1, <2>2, <2>3 DEF extract_chapter
<1>3. extract_passage(t, Ch(n)) = extract_chapter(t, n)
  BY <1>1 DEF extract_passage, Ch
<1>4. extract_passage(t, Ch(n)) # NotFound /\ extract_passage(t, Ch(n)).from = i
  BY <1>1, <1>2, <1>3, SpanFrom
<1> QED
  BY <1>4 DEF LinkHits, n

\* The lines of a counted chapter, as the outline and as the extractor delimit them.
LEMMA SameSections ==
    ASSUME NEW t \in Seq(Line), NEW i \in H1(t)
    PROVE  Secs(t, i) = {j \in collect_headings(t) :
                           t[j].level = 2 /\ Span(t, i, H1(t)).from < j /\ j < Span(t, i, H1(t)).upto}
<1> DEFINE after == {k \in H1(t) : k > i}
           upto == IF after = {} THEN Len(t) + 1 ELSE Min(after)
<1>1. Span(t, i, H1(t)).from = i /\ Span(t, i, H1(t)).upto = upto
  BY DEF Span
<1>2. \A j \in collect_headings(t) : j \in Int /\ j < Len(t) + 1
  BY HeadingLines
<1>3. after # {} => upto \in after /\ \A k \in after : upto <= k
  <2> SUFFICES ASSUME after # {} PROVE Min(after) \in after /\ \A k \in after : Min(after) <= k
    OBVIOUS
  <2>1. after \in SUBSET Int /\ after \in SUBSET (1 .. Len(t)) /\ Len(t) \in Nat
    BY HeadingLines DEF H1
  <2> HIDE DEF after
  <2> QED
    BY <2>1, LeastOf
<1>4. ASSUME NEW j \in collect_headings(t), t[j].level = 2, j > i
      PROVE  (\A k \in H1(t) : ~(i < k /\ k < j)) <=> j < upto
  <2>1. j \notin H1(t) /\ \A k \in H1(t) : k \in Int
    BY <1>2, <1>4 DEF H1
  <2>2. CASE after = {}
    BY <1>2, <2>1, <2>2
  <2>3. CASE after # {}
    <3> HIDE DEF upto
    <3> QED
      BY <1>2, <1>3, <1>4, <2>1, <2>3
  <2> QED
    BY <2>2, <2>3
<1> HIDE DEF upto
<1> QED
  BY <1>1, <1>4 DEF Secs

LEMMA SectionByCount ==
    ASSUME NEW t \in Seq(Line), WellFormed(t), ~Anchored(t), NEW i \in H1(t), NEW j \in Secs(t, i)
    PROVE  LinkHits(t, [anchor |-> Sec(Nth(H1(t), i), Nth(Secs(t, i), j)), line |-> j])
<1> DEFINE c == Nth(H1(t), i)
           S == Secs(t, i)
           s == Nth(S, j)
           chapter == count_based_chapter(t, c)
           hit == {k \in S : Cardinality({m \in S : m <= k}) = s}
<1>1. c \in Nat /\ c > 0 /\ chapter = Span(t, i, H1(t)) /\ chapter # NotFound
  BY CountedChapter, SpanFrom
<1>2. Len(t) \in Nat /\ S \in SUBSET (1 .. Len(t)) /\ j \in S /\ j \in Int
  BY HeadingLines DEF Secs
<1>3. s \in Nat \ {0} /\ \A k \in S : Nth(S, k) = s => k = j
  <2> HIDE DEF S
  <2> QED
    BY <1>2, PlaceIsOwn DEF Nth
<1>4. hit = {j}
  BY <1>2, <1>3 DEF Nth
<1>5. S = {k \in collect_headings(t) : t[k].level = 2 /\ chapter.from < k /\ k < chapter.upto}
  BY <1>1, SameSections
<1> HIDE DEF c, S, s
<1>6. count_based_section(t, c, s) = Span(t, Min(hit), S \cup {chapter.upto})
  BY <1>1, <1>4, <1>5 DEF count_based_section
<1>7. Min(hit) = j
  BY <1>2, <1>4, LeastOne
<1> HIDE DEF hit, chapter
<1>8. extract_section(t, c, s) = count_based_section(t, c, s)
  <2>1. {k \in collect_headings(t) : t[k].id = Sec(c, s)} = {}
    BY PlainIds DEF NoId, Sec
  <2> QED
    BY <2>1 DEF extract_section
<1>9. extract_passage(t, Sec(c, s)) = extract_section(t, c, s)
  BY <1>1, <1>3 DEF extract_passage, Sec
<1>10. extract_passage(t, Sec(c, s)) # NotFound /\ extract_passage(t, Sec(c, s)).from = j
  BY <1>6, <1>7, <1>8, <1>9, SpanFrom
<1> QED
  BY <1>10 DEF LinkHits, c, s, S

LEMMA SoundIfHits ==
    ASSUME NEW t,
           \A ch \in parse_outline(t) :
              /\ LinkHits(t, [anchor |-> ch.anchor, line |-> ch.line])
              /\ \A s \in ch.sections : LinkHits(t, [anchor |-> s.anchor, line |-> s.line])
    PROVE  Sound(t)
<1> SUFFICES ASSUME NEW c \in build_catalog(t)
             PROVE  LinkHits(t, [anchor |-> c.resource, line |-> c.line]) /\ \A l \in c.links : LinkHits(t, l)
  BY DEF Sound
<1>1. PICK ch \in parse_outline(t) : c = build_chapter_concept(t, ch)
  BY DEF build_catalog
<1>2. /\ c.resource = ch.anchor /\ c.line = ch.line
      /\ c.links = {[anchor |-> s.anchor, line |-> s.line] : s \in ch.sections}
  BY <1>1 DEF build_chapter_concept
<1> QED
  BY <1>2

\* build_chapter_concept "so every link resolves": the outline and the extractor
\* are written twice, and agree on every well-formed text.
THEOREM LinksResolve == \A t \in Seq(Line) : WellFormed(t) => Sound(t)
<1> SUFFICES ASSUME NEW t \in Seq(Line), WellFormed(t) PROVE Sound(t)
  OBVIOUS
<1> DEFINE Hits(ch) == /\ LinkHits(t, [anchor |-> ch.anchor, line |-> ch.line])
                       /\ \A s \in ch.sections : LinkHits(t, [anchor |-> s.anchor, line |-> s.line])
<1>1. CASE Anchored(t)
  <2> DEFINE H == collect_headings(t)
             ids == [i \in H |-> heading_anchor_id(t[i])]
             Of(kind) == {i \in DOMAIN ids : ids[i].of = kind /\ ids[i].n > 0}
             First(i) == \A j \in Of("ch") : ids[j].n = ids[i].n => j >= i
             sects(i) == IF First(i)
                         THEN {[index |-> ids[j].s, line |-> j, anchor |-> ids[j]] :
                                 j \in {k \in Of("sec") : ids[k].n = ids[i].n}}
                         ELSE {}
             chap_(i) == [index |-> ids[i].n, line |-> i, anchor |-> ids[i], sections |-> sects(i)]
  <2>0. DOMAIN ids = H /\ \A i \in H : ids[i] = t[i].id
    BY Seen
  <2>1. parse_outline(t) = {chap_(i) : i \in Of("ch")}
    BY <1>1, Zenon DEF parse_outline, AnchoredChapters
  <2> HIDE DEF ids
  <2>2. ASSUME NEW ch \in parse_outline(t) PROVE Hits(ch)
    <3>1. PICK i \in Of("ch") : ch = chap_(i)
      BY <2>1
    <3>2. ch.anchor = ids[i] /\ ch.line = i /\ ch.sections = sects(i)
      BY <3>1
    <3>3. LinkHits(t, [anchor |-> ch.anchor, line |-> ch.line])
      BY <2>0, <3>1, <3>2, ChapterByAnchor
    <3>4. ASSUME NEW s \in ch.sections PROVE LinkHits(t, [anchor |-> s.anchor, line |-> s.line])
      <4>1. PICK j \in Of("sec") : s = [index |-> ids[j].s, line |-> j, anchor |-> ids[j]]
        BY <3>2, <3>4
      <4> QED
        BY <2>0, <4>1, SectionByAnchor
    <3> QED
      BY <3>3, <3>4
  <2> QED
    BY <2>2, SoundIfHits
<1>2. CASE ~Anchored(t)
  <2> DEFINE sects(i) == {[index |-> Nth(Secs(t, i), j), line |-> j,
                           anchor |-> Sec(Nth(H1(t), i), Nth(Secs(t, i), j))] : j \in Secs(t, i)}
             chap_(i) == [index |-> Nth(H1(t), i), line |-> i, anchor |-> Ch(Nth(H1(t), i)), sections |-> sects(i)]
  <2>1. parse_outline(t) = {chap_(i) : i \in H1(t)}
    BY <1>2, ZenonT(30) DEF parse_outline, CountedChapters, Secs, H1, Nth
  <2>2. ASSUME NEW ch \in parse_outline(t) PROVE Hits(ch)
    <3>1. PICK i \in H1(t) : ch = chap_(i)
      BY <2>1
    <3>2. ch.anchor = Ch(Nth(H1(t), i)) /\ ch.line = i /\ ch.sections = sects(i)
      BY <3>1
    <3>3. LinkHits(t, [anchor |-> ch.anchor, line |-> ch.line])
      BY <1>2, <3>1, <3>2, ChapterByCount
    <3>4. ASSUME NEW s \in ch.sections PROVE LinkHits(t, [anchor |-> s.anchor, line |-> s.line])
      <4>1. PICK j \in Secs(t, i) : s = [index |-> Nth(Secs(t, i), j), line |-> j,
                                        anchor |-> Sec(Nth(H1(t), i), Nth(Secs(t, i), j))]
        BY <3>2, <3>4
      <4>2. s.anchor = Sec(Nth(H1(t), i), Nth(Secs(t, i), j)) /\ s.line = j
        BY <4>1
      <4> QED
        BY <1>2, <4>1, <4>2, SectionByCount
    <3> QED
      BY <3>3, <3>4
  <2> QED
    BY <2>2, SoundIfHits
<1> QED
  BY <1>1, <1>2

-----------------------------------------------------------------------------
(* Ingest: what done promises *)

\* A runner still writes the book of its job.
Writing == {"take", "stack", "hub", "chapters"}

Stores ==
    /\ book \in [Slugs -> Uploads \cup {None}] /\ text \in Books
    /\ stack \in [Slugs -> Uploads \cup {None}] /\ hub \in [Slugs -> Uploads \cup {None}]
    /\ chap \in [Slugs -> Uploads \cup {None}]

\* A job has a row only under the row of its own book; a runner that writes a book
\* does so under it, too, unless a replace crossed it.
Rooted ==
    /\ \A u \in Uploads : job[u] # "none" => book[Slug[u]] = u
    /\ \A r \in Runners : runner[r].at \in Writing /\ Slug[runner[r].job] \notin crossed
          => book[Slug[runner[r].job]] = runner[r].job

\* What runner x has written of the book of u so far, and what a job that is done left.
Wrote(x, u) ==
    /\ x.at \in {"hub", "chapters"} => stack[Slug[u]] = u
    /\ x.at = "chapters" => hub[Slug[u]] = u
    /\ x.at = "done" /\ job[u] # "none" => Whole(u)

Written ==
    /\ \A r \in Runners : runner[r].at \in Claimed /\ Slug[runner[r].job] \notin crossed
          => Wrote(runner[r], runner[r].job)
    /\ \A u \in Uploads : job[u] = "done" /\ Slug[u] \notin crossed => Whole(u)

DoneInv == IngestInv /\ Stores /\ Rooted /\ Written

LEMMA SlugOf == \A u \in Uploads : Slug[u] \in Slugs /\ u # None
BY IngestAssumption

\* A book that is being written or is done has its row, and it is its own.
LEMMA HasRow ==
    ASSUME DoneInv
    PROVE  /\ \A r \in Runners : runner[r].at \in Claimed => runner[r].job \in Uploads
           /\ \A r \in Runners : /\ runner[r].at \in Claimed /\ Slug[runner[r].job] \notin crossed
                                 /\ runner[r].at \in Writing \/ job[runner[r].job] # "none"
                 => book[Slug[runner[r].job]] = runner[r].job
           /\ \A u \in Uploads : job[u] = "done" => book[Slug[u]] = u
<1>1. \A r \in Runners : runner[r].at \in Claimed => runner[r].job \in Uploads
  BY HasJob DEF DoneInv, IngestInv, Working
<1> QED
  BY <1>1 DEF DoneInv, Rooted

\* A step that leaves the files alone: what was written stays so, as long as a
\* runner that goes on has written what its next place says.
LEMMA FilesKept ==
    ASSUME DoneInv, IngestInv', Stores', UNCHANGED <<stack, hub, chap>>, crossed \subseteq crossed',
           \A u \in Uploads : job'[u] # "none" => job[u] # "none" \/ (book'[Slug[u]] = u /\ runner[u].at \in Early),
           \A u \in Uploads : job[u] # "none" /\ job'[u] # "none" => book'[Slug[u]] = book[Slug[u]],
           \A u \in Uploads : job'[u] = "done" /\ job[u] # "done" /\ Slug[u] \notin crossed' => Whole(u),
           \A r \in Runners : runner'[r].at \in Writing /\ Slug[runner'[r].job] \notin crossed'
              => book'[Slug[runner'[r].job]] = runner'[r].job,
           \A r \in Runners : runner'[r].at \in Claimed /\ Slug[runner'[r].job] \notin crossed' =>
              \/ runner'[r].at = runner[r].at /\ runner'[r].job = runner[r].job
              \/ runner'[r].at \in {"take", "stack", "fail"}
    PROVE  DoneInv'
<1>1. Rooted'
  BY DEF DoneInv, Rooted
<1>2. \A u : Whole(u)' <=> Whole(u)
  BY DEF Whole
<1>3. \A r \in Runners : runner'[r].at \in Claimed => runner'[r].job \in Uploads
  <2>1. Shape'
    BY DEF IngestInv
  <2> QED
    BY <2>1, Sweeper DEF Shape, Runners, Claimed, Working
<1>4. Written'
  <2>1. ASSUME NEW r \in Runners, runner'[r].at \in Claimed, Slug[runner'[r].job] \notin crossed'
        PROVE  Wrote(runner[r], runner[r].job)' 
    <3>1. runner'[r].job \in Uploads
      BY <1>3, <2>1
    <3>2. CASE runner'[r].at \in {"take", "stack", "fail"}
      BY <3>2 DEF Wrote
    <3>3. CASE runner'[r].at = runner[r].at /\ runner'[r].job = runner[r].job
      <4>1. Wrote(runner[r], runner[r].job)
        BY <2>1, <3>3 DEF DoneInv, Written
      <4>2. runner'[r].at = "done" /\ job'[runner'[r].job] # "none" => job[runner'[r].job] # "none"
        <5> SUFFICES ASSUME runner[r].at = "done" PROVE runner[runner[r].job].at \notin Early
          BY <3>1, <3>3
        <5>1. WorksOn(runner[r], runner[r].job)
          BY DEF WorksOn, Working, Claimed
        <5> QED
          BY <3>1, <3>3, <5>1 DEF DoneInv, IngestInv, Owned
      <4> QED
        BY <1>2, <3>3, <4>1, <4>2 DEF Wrote
    <3> QED
      BY <2>1, <3>2, <3>3
  <2>2. \A u \in Uploads : job'[u] = "done" /\ Slug[u] \notin crossed' => Whole(u)'
    BY <1>2 DEF DoneInv, Written
  <2> QED
    BY <2>1, <2>2 DEF Written
<1> QED
  BY <1>1, <1>4 DEF DoneInv

LEMMA Moved ==
    ASSUME Shape, NEW r \in Runners, NEW p, Goes(r, p)
    PROVE  \A q \in Runners : /\ runner'[q].job = runner[q].job
                              /\ runner'[q].at = IF q = r THEN p ELSE runner[q].at
BY DEF Shape, Goes

\* A step that touches neither the tables nor the files.
LEMMA Quiet ==
    ASSUME DoneInv, IngestInv', UNCHANGED <<text, book, job, stack, hub, chap, crossed>>,
           \A r \in Runners : runner'[r].at \in Claimed =>
              /\ runner'[r].job = runner[r].job
              /\ \/ runner'[r].at = runner[r].at
                 \/ runner[r].at = "take" /\ runner'[r].at \in {"stack", "fail"}
                 \/ runner[r].at \in Claimed /\ runner'[r].at = "fail"
    PROVE  DoneInv'
<1>1. Stores'
  BY DEF DoneInv, Stores
<1>2. \A r \in Runners : runner'[r].at \in Writing /\ Slug[runner'[r].job] \notin crossed'
              => book'[Slug[runner'[r].job]] = runner'[r].job
  BY DEF DoneInv, Rooted, Writing, Claimed
<1> QED
  BY <1>1, <1>2, FilesKept DEF Claimed

LEMMA QuietUpload ==
    ASSUME DoneInv, IngestInv', NEW u \in Uploads,
           api_upload_book(u) \/ reserve_slot(u) \/ stage_text(u) \/ point_slot(u) \/ Disconnect(u)
    PROVE  DoneInv'
<1>1. UNCHANGED <<text, book, job, stack, hub, chap, crossed>>
  BY DEF api_upload_book, reserve_slot, stage_text, point_slot, Disconnect, tables, files
<1>2. PICK p \in {"delete row", "reserve", "create book", "end", "slot", "load"} : Goes(u, p)
  BY DEF api_upload_book, reserve_slot, stage_text, point_slot, Disconnect
<1>3. p \notin Claimed
  BY DEF Claimed
<1>4. \A q \in Runners : /\ runner'[q].job = runner[q].job
                         /\ runner'[q].at = IF q = u THEN p ELSE runner[q].at
  BY <1>2, Moved, Sweeper DEF DoneInv, IngestInv
<1> QED
  BY <1>1, <1>3, <1>4, Quiet

LEMMA QuietSweep ==
    ASSUME DoneInv, IngestInv', spawn \/ run_pending
    PROVE  DoneInv'
<1>1. UNCHANGED <<text, book, job, stack, hub, chap, crossed>>
  BY DEF spawn, run_pending, tables, files
<1>2. /\ runner'["sweep"].at \in {"next", "load", "idle"}
      /\ \A q \in Runners : q # "sweep" => runner'[q] = runner[q]
  <2>1. runner \in [Runners -> [at : Places, job : Runners, todo : SUBSET Uploads]]
    BY DEF DoneInv, IngestInv, Shape
  <2> QED
    BY <2>1, Sweeper DEF spawn, run_pending, Goes
<1>3. {"next", "load", "idle"} \cap Claimed = {}
  BY DEF Claimed
<1> QED
  BY <1>1, <1>2, <1>3, Quiet

LEMMA QuietRun ==
    ASSUME DoneInv, IngestInv', NEW r \in Runners, load_job(r) \/ take_staged(r) \/ release_slot(r)
    PROVE  DoneInv'
<1>1. UNCHANGED <<text, book, job, stack, hub, chap, crossed>>
  BY DEF load_job, take_staged, release_slot, tables, files
<1>2. \E p : Goes(r, p) /\ (p \notin Claimed \/ (runner[r].at = "take" /\ p \in {"stack", "fail"}))
  BY DEF load_job, take_staged, release_slot, Returns, ReturnsErr, At, Claimed
<1>3. PICK p : Goes(r, p) /\ (p \notin Claimed \/ (runner[r].at = "take" /\ p \in {"stack", "fail"}))
  BY <1>2
<1>4. \A q \in Runners : /\ runner'[q].job = runner[q].job
                         /\ runner'[q].at = IF q = r THEN p ELSE runner[q].at
  BY <1>3, Moved DEF DoneInv, IngestInv
<1> QED
  BY <1>1, <1>3, <1>4, Quiet

LEMMA DeleteRow ==
    ASSUME DoneInv, IngestInv', NEW u \in Uploads, delete_book_row(u)
    PROVE  DoneInv'
<1> DEFINE s == Slug[u]
<1>0. s \in Slugs
  BY SlugOf
<1>1. UNCHANGED <<text, stack, hub, chap>> /\ Goes(u, "delete catalog")
  BY DEF delete_book_row, files
<1>2. /\ \A q \in Runners : /\ runner'[q].job = runner[q].job
                            /\ runner'[q].at = IF q = u THEN "delete catalog" ELSE runner[q].at
      /\ "delete catalog" \notin Claimed /\ "delete catalog" \notin Writing
  BY <1>1, Moved, Sweeper DEF DoneInv, IngestInv, Claimed, Writing
<1>3. CASE /\ book' = [book EXCEPT ![s] = None]
           /\ job' = [v \in Uploads |-> IF book[s] = v THEN "none" ELSE job[v]]
           /\ crossed' = IF Busy(s) THEN crossed \cup {s} ELSE crossed
  <2>1. Stores'
    BY <1>0, <1>1, <1>3 DEF DoneInv, Stores
  <2>2. \A t \in Slugs : book'[t] = IF t = s THEN None ELSE book[t]
    BY <1>0, <1>3 DEF DoneInv, Stores
  <2>3. \A v \in Uploads : job'[v] # "none" => job'[v] = job[v] /\ book[s] # v
    BY <1>3
  <2>4. \A v \in Uploads : job[v] # "none" /\ job'[v] # "none" => book'[Slug[v]] = book[Slug[v]]
    BY <2>2, <2>3, SlugOf DEF DoneInv, Rooted
  <2>5. \A q \in Runners : runner[q].at \in Writing /\ Slug[runner[q].job] \notin crossed' => Slug[runner[q].job] # s
    BY <1>3 DEF Busy, Writing
  <2>6. \A q \in Runners : runner'[q].at \in Writing => runner'[q].at = runner[q].at /\ runner[q].job \in Uploads
    BY <1>2, HasRow DEF Writing, Claimed
  <2>7. crossed \subseteq crossed'
    BY <1>3
  <2> HIDE DEF s
  <2>8. \A q \in Runners : runner'[q].at \in Writing /\ Slug[runner'[q].job] \notin crossed'
              => book'[Slug[runner'[q].job]] = runner'[q].job
    <3> SUFFICES ASSUME NEW q \in Runners, runner'[q].at \in Writing, Slug[runner'[q].job] \notin crossed'
                 PROVE  book'[Slug[runner'[q].job]] = runner'[q].job
      OBVIOUS
    <3>1. /\ runner'[q].job = runner[q].job /\ runner[q].job \in Uploads /\ runner[q].at \in Writing
          /\ Slug[runner[q].job] \notin crossed /\ Slug[runner[q].job] # s
      BY <1>2, <2>5, <2>6, <2>7
    <3>2. book[Slug[runner[q].job]] = runner[q].job
      BY <3>1 DEF DoneInv, Rooted
    <3> QED
      BY <2>2, <3>1, <3>2, SlugOf
  <2> QED
    BY <1>1, <1>2, <2>1, <2>3, <2>4, <2>7, <2>8, FilesKept
<1>4. CASE book' = book /\ job' = job /\ crossed' = crossed \cup {s}
  <2>1. Stores'
    BY <1>1, <1>4 DEF DoneInv, Stores
  <2>2. \A q \in Runners : runner'[q].at \in Writing => runner'[q].at = runner[q].at
    BY <1>2
  <2>3. \A q \in Runners : runner'[q].at \in Writing /\ Slug[runner'[q].job] \notin crossed'
              => book'[Slug[runner'[q].job]] = runner'[q].job
    BY <1>2, <1>4, <2>2 DEF DoneInv, Rooted
  <2> QED
    BY <1>1, <1>2, <1>4, <2>1, <2>3, FilesKept
<1> QED
  BY <1>3, <1>4 DEF delete_book_row, tables

LEMMA CreateBook ==
    ASSUME DoneInv, IngestInv', NEW u \in Uploads, create_book(u)
    PROVE  DoneInv'
<1> DEFINE s == Slug[u]
<1>0. s \in Slugs
  BY SlugOf
<1>1. UNCHANGED <<text, job, stack, hub, chap, crossed>>
  BY DEF create_book, files
<1>2. PICK p \in {"create job", "release"} : Goes(u, p)
  BY DEF create_book
<1>3. /\ \A q \in Runners : /\ runner'[q].job = runner[q].job
                            /\ runner'[q].at = IF q = u THEN p ELSE runner[q].at
      /\ p \notin Claimed /\ p \notin Writing
  BY <1>2, Moved, Sweeper DEF DoneInv, IngestInv, Claimed, Writing
<1>4. CASE book' = book
  BY <1>1, <1>3, <1>4, Quiet
<1>5. CASE book[s] = None /\ book' = [book EXCEPT ![s] = u]
  <2>1. Stores'
    BY <1>0, <1>1, <1>5 DEF DoneInv, Stores
  <2>2. \A t \in Slugs : t # s => book'[t] = book[t]
    BY <1>0, <1>5 DEF DoneInv, Stores
  <2>3. \A v \in Uploads : job[v] # "none" => Slug[v] # s
    BY <1>5, SlugOf DEF DoneInv, Rooted
  <2>4. \A q \in Runners : runner'[q].at \in Writing /\ Slug[runner'[q].job] \notin crossed' =>
          runner'[q].at = runner[q].at /\ runner[q].job \in Uploads /\ book[Slug[runner[q].job]] = runner[q].job
    BY <1>1, <1>3, HasRow DEF DoneInv, Rooted, Writing, Claimed
  <2> HIDE DEF s
  <2>5. \A q \in Runners : runner'[q].at \in Writing /\ Slug[runner'[q].job] \notin crossed'
              => book'[Slug[runner'[q].job]] = runner'[q].job
    BY <1>3, <1>5, <2>2, <2>4, SlugOf, ZenonT(30)
  <2>6. \A v \in Uploads : job[v] # "none" => book'[Slug[v]] = book[Slug[v]]
    BY <2>2, <2>3, SlugOf
  <2> QED
    BY <1>1, <1>3, <2>1, <2>5, <2>6, FilesKept
<1> QED
  BY <1>4, <1>5 DEF create_book

LEMMA CreateJob ==
    ASSUME DoneInv, IngestInv', NEW u \in Uploads, create_ingest_job(u)
    PROVE  DoneInv'
<1>1. UNCHANGED <<text, book, stack, hub, chap, crossed>> /\ runner[u].at = "create job"
  BY DEF create_ingest_job, files, At
<1>2. PICK p \in {"stage", "release"} : Goes(u, p)
  BY DEF create_ingest_job
<1>3. /\ \A q \in Runners : /\ runner'[q].job = runner[q].job
                            /\ runner'[q].at = IF q = u THEN p ELSE runner[q].at
      /\ p \notin Claimed /\ p \notin Writing
  BY <1>2, Moved, Sweeper DEF DoneInv, IngestInv, Claimed, Writing
<1>4. CASE job' = job
  BY <1>1, <1>3, <1>4, Quiet
<1>5. CASE book[Slug[u]] = u /\ job' = [job EXCEPT ![u] = "pending"]
  <2>1. Stores'
    BY <1>1 DEF DoneInv, Stores
  <2>2. job'[u] = "pending" /\ \A v \in Uploads : v # u => job'[v] = job[v]
    BY <1>5, JobsKept DEF DoneInv
  <2>3. runner[u].at \in Early
    BY <1>1 DEF Early
  <2>4. \A q \in Runners : runner'[q].at \in Writing /\ Slug[runner'[q].job] \notin crossed'
              => book'[Slug[runner'[q].job]] = runner'[q].job
    BY <1>1, <1>3 DEF DoneInv, Rooted
  <2> QED
    BY <1>1, <1>3, <1>5, <2>1, <2>2, <2>3, <2>4, FilesKept
<1> QED
  BY <1>4, <1>5 DEF create_ingest_job

LEMMA ClaimJob ==
    ASSUME DoneInv, IngestInv', NEW r \in Runners, claim_ingest_job(r)
    PROVE  DoneInv'
<1> DEFINE j == runner[r].job
<1>1. UNCHANGED <<text, book, stack, hub, chap, crossed>> /\ runner[r].at = "claim"
  BY DEF claim_ingest_job, files, At
<1>2. CASE job' = job /\ (Returns(r) \/ ReturnsErr(r))
  <2>1. PICK p \in {"next", "idle", "end"} : Goes(r, p)
    BY <1>2, ReturnPlace
  <2>2. p \notin Claimed /\ \A q \in Runners : runner'[q].job = runner[q].job /\ runner'[q].at = IF q = r THEN p ELSE runner[q].at
    BY <2>1, Moved DEF DoneInv, IngestInv, Claimed
  <2> QED
    BY <1>1, <1>2, <2>2, Quiet
<1>3. CASE job[j] = "pending" /\ job' = [job EXCEPT ![j] = "running"] /\ Goes(r, "take")
  <2>1. j \in Uploads
    BY <1>1, HasJob DEF DoneInv, IngestInv
  <2>2. \A q \in Runners : runner'[q].job = runner[q].job /\ runner'[q].at = IF q = r THEN "take" ELSE runner[q].at
    BY <1>3, Moved DEF DoneInv, IngestInv
  <2>3. job'[j] = "running" /\ \A v \in Uploads : v # j => job'[v] = job[v]
    BY <1>3, <2>1, JobsKept DEF DoneInv
  <2>4. Stores'
    BY <1>1 DEF DoneInv, Stores
  <2>5. job[j] = "pending" /\ book[Slug[j]] = j
    BY <1>3, <2>1 DEF DoneInv, Rooted
  <2> HIDE DEF j
  <2>6. \A q \in Runners : runner'[q].at \in Writing /\ Slug[runner'[q].job] \notin crossed'
              => book'[Slug[runner'[q].job]] = runner'[q].job
    BY <1>1, <2>2, <2>5 DEF DoneInv, Rooted, j
  <2>7. \A v \in Uploads : /\ job'[v] # "none" => job[v] # "none"
                           /\ job'[v] = "done" => job[v] = "done"
    BY <2>3, <2>5
  <2>8. \A q \in Runners : runner'[q].at = runner[q].at \/ runner'[q].at = "take"
    BY <2>2
  <2> QED
    BY <1>1, <2>2, <2>4, <2>6, <2>7, <2>8, FilesKept
<1> QED
  BY <1>2, <1>3 DEF claim_ingest_job

LEMMA UpdateJob ==
    ASSUME DoneInv, IngestInv', NEW r \in Runners, update_ingest_job(r)
    PROVE  DoneInv'
<1> DEFINE j == runner[r].job
<1>1. UNCHANGED <<text, book, stack, hub, chap, crossed>>
  BY DEF update_ingest_job, files
<1>2. PICK p \in {<<"done", "done">>, <<"fail", "failed">>} :
          /\ At(r, p[1])
          /\ LET u == runner[r].job IN
             \/ /\ job' = [job EXCEPT ![u] = IF @ = "none" THEN @ ELSE p[2]]
                /\ Goes(r, "release") /\ Fine
             \/ Mishap /\ ReturnsErr(r) /\ UNCHANGED job
  BY DEF update_ingest_job
<1>3. runner[r].at \in Claimed /\ (p[2] = "done" => runner[r].at = "done") /\ p[2] # "none"
  BY <1>2 DEF At, Claimed
<1>4. j \in Uploads
  BY <1>3, HasRow
<1>5. CASE job' = job /\ ReturnsErr(r)
  <2>1. PICK to \in {"next", "idle", "end"} : Goes(r, to)
    BY <1>5, ReturnPlace
  <2>2. to \notin Claimed /\ \A q \in Runners : runner'[q].job = runner[q].job /\ runner'[q].at = IF q = r THEN to ELSE runner[q].at
    BY <2>1, Moved DEF DoneInv, IngestInv, Claimed
  <2> QED
    BY <1>1, <1>5, <2>2, Quiet
<1>6. CASE job' = [job EXCEPT ![j] = IF @ = "none" THEN @ ELSE p[2]] /\ Goes(r, "release")
  <2>1. /\ \A q \in Runners : runner'[q].job = runner[q].job /\ runner'[q].at = IF q = r THEN "release" ELSE runner[q].at
        /\ "release" \notin Claimed /\ "release" \notin Writing
    BY <1>6, Moved DEF DoneInv, IngestInv, Claimed, Writing
  <2>2. /\ \A v \in Uploads : v # j => job'[v] = job[v]
        /\ job'[j] = IF job[j] = "none" THEN "none" ELSE p[2]
    BY <1>4, <1>6, JobsKept DEF DoneInv
  <2>3. Stores'
    BY <1>1 DEF DoneInv, Stores
  <2>4. p[2] = "done" /\ job[j] # "none" /\ Slug[j] \notin crossed => Whole(j)
    BY <1>3 DEF DoneInv, Written, Wrote
  <2> HIDE DEF j
  <2>5. \A q \in Runners : runner'[q].at \in Writing /\ Slug[runner'[q].job] \notin crossed'
              => book'[Slug[runner'[q].job]] = runner'[q].job
    BY <1>1, <2>1 DEF DoneInv, Rooted
  <2>6. \A v \in Uploads : job'[v] # "none" => job[v] # "none"
    BY <1>3, <2>2
  <2>7. \A v \in Uploads : job'[v] = "done" /\ job[v] # "done" /\ Slug[v] \notin crossed' => Whole(v)
    BY <1>1, <2>2, <2>4
  <2> QED
    BY <1>1, <2>1, <2>3, <2>5, <2>6, <2>7, FilesKept
<1> QED
  BY <1>2, <1>5, <1>6

\* The boot pass makes no job done.
LEMMA BootDone ==
    ASSUME job \in [Uploads -> States], NEW jb \in BootPass
    PROVE  \A u \in Uploads : jb[u] = "done" => job[u] = "done"
<1> DEFINE Closed(left) == [u \in Uploads |-> IF u \in Open \ left THEN "failed" ELSE job[u]]
           pending == {u \in Uploads : job[u] = "pending"}
           Again(left) == {[Closed(left) EXCEPT ![v] = "running"] : v \in left}
<1>1. \A left : \A u \in Uploads : Closed(left)[u] = "done" => job[u] = "done"
  OBVIOUS
<1>2. jb \in {job} \cup {Closed(left) : left \in SUBSET pending} \cup UNION {Again(left) : left \in SUBSET pending}
  BY DEF BootPass
<1>3. ASSUME NEW left, jb \in Again(left) PROVE \A u \in Uploads : jb[u] = "done" => job[u] = "done"
  <2>1. PICK v \in left : jb = [Closed(left) EXCEPT ![v] = "running"]
    BY <1>3
  <2>2. DOMAIN Closed(left) = Uploads /\ \A u \in Uploads : Closed(left)[u] = "done" => job[u] = "done"
    BY <1>1
  <2> HIDE DEF Closed
  <2>3. \A u \in Uploads : jb[u] = IF u = v THEN "running" ELSE Closed(left)[u]
    BY <2>1, <2>2
  <2> QED
    BY <2>2, <2>3
<1> HIDE DEF Closed, pending, Again
<1> QED
  BY <1>1, <1>2, <1>3

LEMMA BootKeeps ==
    ASSUME DoneInv, IngestInv', recover_on_boot
    PROVE  DoneInv'
<1>1. UNCHANGED <<text, book, stack, hub, chap, crossed>>
  BY DEF recover_on_boot, files
<1>2. \A u \in Uploads : /\ job'[u] # "none" => job[u] # "none"
                         /\ job'[u] = "done" => job[u] = "done"
  BY JobsKept, BootJobs, BootDone DEF recover_on_boot, DoneInv
<1>3. \A r \in Runners : runner'[r].at \in {"idle", "new", "end"}
  BY DEF recover_on_boot
<1>4. {"idle", "new", "end"} \cap (Claimed \cup Writing) = {}
  BY DEF Claimed, Writing
<1>5. Stores'
  BY <1>1 DEF DoneInv, Stores
<1> QED
  BY <1>1, <1>2, <1>3, <1>4, <1>5, FilesKept

\* A runner writes the next part of the book of its job: nobody else's is under its slug.
LEMMA WritesOwn ==
    ASSUME DoneInv, IngestInv', NEW r \in Runners, NEW p \in Claimed, Goes(r, p), runner[r].at \in Writing,
           UNCHANGED <<text, book, job, crossed>>, Stores',
           \A t \in Slugs : t # Slug[runner[r].job] => stack'[t] = stack[t] /\ hub'[t] = hub[t] /\ chap'[t] = chap[t],
           Slug[runner[r].job] \notin crossed => Wrote(runner[r], runner[r].job)'
    PROVE  DoneInv'
<1> DEFINE j == runner[r].job
<1>1. \A q \in Runners : runner'[q].job = runner[q].job /\ runner'[q].at = IF q = r THEN p ELSE runner[q].at
  BY Moved DEF DoneInv, IngestInv
<1>2. /\ \A q \in Runners : runner[q].at \in Claimed => runner[q].job \in Uploads
      /\ runner[r].at \in Claimed /\ runner[r].at \in Working /\ j \in Uploads
  BY HasRow DEF Writing, Claimed, Working
<1>3. Slug[j] \notin crossed => book[Slug[j]] = j
  BY DEF DoneInv, Rooted
<1>4. job[j] # "done"
  BY <1>2 DEF DoneInv, IngestInv, Owned
<1>5. Rooted'
  <2>1. \A q \in Runners : runner'[q].at \in Writing => runner[q].at \in Writing
    BY <1>1
  <2> QED
    BY <1>1, <2>1 DEF DoneInv, Rooted
<1>6. \A q \in Runners : q # r /\ runner[q].at \in Claimed => runner[q].job # j
  BY <1>2 DEF DoneInv, IngestInv, Owned, WorksOn, Working
<1>7. Slug[j] \notin crossed => Wrote(runner[r], runner[r].job)'
  OBVIOUS
<1>8. \A u \in Uploads : Slug[u] # Slug[j] => (Whole(u)' <=> Whole(u))
  BY SlugOf DEF Whole
<1>9. ASSUME NEW q \in Runners, q # r, runner[q].at \in Claimed, Slug[runner[q].job] \notin crossed
      PROVE  Wrote(runner[q], runner[q].job)'
  <2> DEFINE k == runner[q].job
  <2>1. k \in Uploads /\ k # j /\ runner'[q].job = k /\ runner'[q].at = runner[q].at
    BY <1>1, <1>2, <1>6, <1>9
  <2>2. Wrote(runner[q], k)
    BY <1>9 DEF DoneInv, Written
  <2>3. CASE Slug[k] # Slug[j]
    <3>1. /\ stack'[Slug[k]] = stack[Slug[k]] /\ hub'[Slug[k]] = hub[Slug[k]] /\ chap'[Slug[k]] = chap[Slug[k]]
          /\ Whole(k)' <=> Whole(k)
      BY <1>8, <2>1, <2>3, SlugOf
    <3> QED
      BY <2>1, <2>2, <3>1 DEF Wrote
  <2>4. CASE Slug[k] = Slug[j]
    <3>1. ~(runner[q].at \in Writing \/ job[k] # "none")
      BY <1>3, <1>9, <2>1, <2>4, HasRow
    <3> QED
      BY <2>1, <3>1 DEF Wrote, Writing
  <2> QED
    BY <2>3, <2>4
<1>10. ASSUME NEW u \in Uploads, job[u] = "done", Slug[u] \notin crossed PROVE Whole(u)'
  <2>1. Slug[u] # Slug[j]
    BY <1>3, <1>4, <1>10, HasRow
  <2> QED
    BY <1>8, <1>10, <2>1 DEF DoneInv, Written
<1>11. Written'
  <2>1. ASSUME NEW q \in Runners, runner'[q].at \in Claimed, Slug[runner'[q].job] \notin crossed'
        PROVE  Wrote(runner[q], runner[q].job)'
    BY <1>1, <1>7, <1>9, <2>1
  <2> QED
    BY <1>10, <2>1 DEF Written
<1> QED
  BY <1>5, <1>11 DEF DoneInv

LEMMA WriteBook ==
    ASSUME DoneInv, IngestInv', NEW r \in Runners, write_stack_text(r) \/ write_catalog_hub(r) \/ write_catalog(r)
    PROVE  DoneInv'
<1> DEFINE j == runner[r].job
           s == Slug[j]
<1>1. UNCHANGED <<text, book, job, crossed>> /\ runner[r].at \in Writing /\ runner[r].at \in Claimed
  BY DEF write_stack_text, write_catalog_hub, write_catalog, tables, At, Writing, Claimed
<1>2. j \in Uploads
  BY <1>1, HasRow
<1>3. s \in Slugs
  BY <1>2, SlugOf
<1>4. s \notin crossed => Wrote(runner[r], j)
  BY <1>1 DEF DoneInv, Written
<1>5. /\ stack \in [Slugs -> Uploads \cup {None}] /\ hub \in [Slugs -> Uploads \cup {None}]
      /\ chap \in [Slugs -> Uploads \cup {None}]
  BY DEF DoneInv, Stores
<1>6. CASE Goes(r, "fail") /\ UNCHANGED <<stack, hub, chap>>
  <2>1. \A q \in Runners : runner'[q].job = runner[q].job /\ runner'[q].at = IF q = r THEN "fail" ELSE runner[q].at
    BY <1>6, Moved DEF DoneInv, IngestInv
  <2> QED
    BY <1>1, <1>6, <2>1, Quiet
<1>7. CASE At(r, "stack") /\ stack' = [stack EXCEPT ![s] = j] /\ Goes(r, "hub") /\ UNCHANGED <<hub, chap>>
  <2>1. runner'[r].at = "hub" /\ runner'[r].job = j
    BY <1>7, Moved DEF DoneInv, IngestInv
  <2>2. stack'[s] = j /\ Stores' /\ \A t \in Slugs : t # s => stack'[t] = stack[t]
    BY <1>1, <1>2, <1>3, <1>5, <1>7 DEF DoneInv, Stores
  <2>3. Wrote(runner[r], runner[r].job)'
    BY <2>1, <2>2 DEF Wrote
  <2>4. "hub" \in Claimed
    BY DEF Claimed
  <2> QED
    BY <1>1, <1>7, <2>2, <2>3, <2>4, WritesOwn
<1>8. CASE At(r, "hub") /\ hub' = [hub EXCEPT ![s] = j] /\ Goes(r, "chapters") /\ UNCHANGED <<stack, chap>>
  <2>1. runner'[r].at = "chapters" /\ runner'[r].job = j
    BY <1>8, Moved DEF DoneInv, IngestInv
  <2>2. hub'[s] = j /\ Stores' /\ \A t \in Slugs : t # s => hub'[t] = hub[t]
    BY <1>1, <1>2, <1>3, <1>5, <1>8 DEF DoneInv, Stores
  <2>3. s \notin crossed => Wrote(runner[r], runner[r].job)'
    BY <1>4, <1>8, <2>1, <2>2 DEF Wrote, At
  <2>4. "chapters" \in Claimed
    BY DEF Claimed
  <2> QED
    BY <1>1, <1>8, <2>2, <2>3, <2>4, WritesOwn
<1>9. CASE At(r, "chapters") /\ chap' = [chap EXCEPT ![s] = j] /\ Goes(r, "done") /\ UNCHANGED <<stack, hub>>
  <2>1. runner'[r].at = "done" /\ runner'[r].job = j
    BY <1>9, Moved DEF DoneInv, IngestInv
  <2>2. chap'[s] = j /\ Stores' /\ \A t \in Slugs : t # s => chap'[t] = chap[t]
    BY <1>1, <1>2, <1>3, <1>5, <1>9 DEF DoneInv, Stores
  <2>3. s \notin crossed => Wrote(runner[r], runner[r].job)'
    BY <1>4, <1>9, <2>1, <2>2 DEF Wrote, At, Whole
  <2>4. "done" \in Claimed
    BY DEF Claimed
  <2> QED
    BY <1>1, <1>9, <2>2, <2>3, <2>4, WritesOwn
<1> QED
  BY <1>6, <1>7, <1>8, <1>9 DEF write_stack_text, write_catalog_hub, write_catalog

LEMMA DeleteFiles ==
    ASSUME DoneInv, IngestInv', NEW u \in Uploads, delete_catalog(u) \/ delete_stack(u)
    PROVE  DoneInv'
<1> DEFINE s == Slug[u]
<1>0. s \in Slugs
  BY SlugOf
<1>1. /\ UNCHANGED <<text, book, job>>
      /\ crossed' = IF book[s] # None THEN crossed \cup {s} ELSE crossed
  BY DEF delete_catalog, delete_stack, tables
<1>2. PICK p \in {"delete stack", "reserve"} : Goes(u, p)
  BY DEF delete_catalog, delete_stack
<1>3. /\ \A q \in Runners : runner'[q].job = runner[q].job /\ runner'[q].at = IF q = u THEN p ELSE runner[q].at
      /\ p \notin Claimed /\ p \notin Writing
  BY <1>2, Moved, Sweeper DEF DoneInv, IngestInv, Claimed, Writing
<1>4. /\ Stores'
      /\ \A t \in Slugs : t # s => stack'[t] = stack[t] /\ hub'[t] = hub[t] /\ chap'[t] = chap[t]
  <2>1. CASE delete_catalog(u)
    BY <1>0, <1>1, <2>1 DEF delete_catalog, DoneInv, Stores
  <2>2. CASE delete_stack(u)
    BY <1>0, <1>1, <2>2 DEF delete_stack, DoneInv, Stores
  <2> QED
    BY <2>1, <2>2
<1>5. crossed \subseteq crossed' /\ (s \notin crossed' => book[s] = None)
  BY <1>1
<1> HIDE DEF s
<1>6. Rooted'
  BY <1>1, <1>3, <1>5 DEF DoneInv, Rooted
<1>7. \A v \in Uploads : Slug[v] # s => (Whole(v)' <=> Whole(v))
  BY <1>4, SlugOf DEF Whole
<1>8. ASSUME NEW q \in Runners, runner'[q].at \in Claimed, Slug[runner'[q].job] \notin crossed'
      PROVE  Wrote(runner[q], runner[q].job)'
  <2> DEFINE k == runner[q].job
  <2>1. runner'[q].job = k /\ runner'[q].at = runner[q].at /\ k \in Uploads /\ k # None /\ Slug[k] \notin crossed
    BY <1>3, <1>5, <1>8, HasRow, SlugOf
  <2>2. Wrote(runner[q], k)
    BY <1>8, <2>1 DEF DoneInv, Written
  <2>3. CASE Slug[k] # s
    <3>1. /\ stack'[Slug[k]] = stack[Slug[k]] /\ hub'[Slug[k]] = hub[Slug[k]] /\ chap'[Slug[k]] = chap[Slug[k]]
          /\ Whole(k)' <=> Whole(k)
      BY <1>4, <1>7, <2>1, <2>3, SlugOf
    <3> QED
      BY <1>1, <2>1, <2>2, <3>1 DEF Wrote
  <2>4. CASE Slug[k] = s
    <3>1. ~(runner[q].at \in Writing \/ job[k] # "none")
      BY <1>5, <1>8, <2>1, <2>4, HasRow
    <3> QED
      BY <1>1, <2>1, <3>1 DEF Wrote, Writing
  <2> QED
    BY <2>3, <2>4
<1>9. ASSUME NEW v \in Uploads, job[v] = "done", Slug[v] \notin crossed' PROVE Whole(v)'
  <2>1. Slug[v] # s
    BY <1>5, <1>9, HasRow, SlugOf
  <2> QED
    BY <1>5, <1>7, <1>9, <2>1 DEF DoneInv, Written
<1>10. Written'
  BY <1>1, <1>8, <1>9 DEF Written
<1> QED
  BY <1>4, <1>6, <1>10 DEF DoneInv

LEMMA InitDone == Begins => DoneInv
<1> SUFFICES ASSUME Begins PROVE DoneInv
  OBVIOUS
<1>1. IngestInv
  BY InitIngest
<1>2. PICK spent \in Nat : IngestStart(Books, spent)
  BY DEF Begins
<1>3. /\ text \in Books /\ job = [u \in Uploads |-> "none"]
      /\ book = [s \in Slugs |-> None] /\ stack = [s \in Slugs |-> None] /\ hub = stack /\ chap = stack
      /\ \A r \in Runners : runner[r].at \in {"idle", "new"}
  BY <1>2 DEF IngestStart
<1>4. {"idle", "new"} \cap (Claimed \cup Writing) = {}
  BY DEF Claimed, Writing
<1>5. Stores
  BY <1>3 DEF Stores
<1>6. Rooted /\ Written
  BY <1>3, <1>4 DEF Rooted, Written
<1> QED
  BY <1>1, <1>5, <1>6 DEF DoneInv

LEMMA NextDone ==
    ASSUME DoneInv, [Next]_wvars
    PROVE  DoneInv'
<1>0. [IngestNext]_ivars /\ IngestInv'
  BY IngestSteps, NextIngest DEF DoneInv
<1>1. CASE UNCHANGED ivars
  BY <1>0, <1>1, Quiet DEF ivars, tables, files
<1>2. CASE recover_on_boot
  BY <1>0, <1>2, BootKeeps
<1>3. CASE spawn \/ run_pending
  BY <1>0, <1>3, QuietSweep
<1>4. ASSUME NEW r \in Runners, run_job(r) PROVE DoneInv'
  BY <1>0, <1>4, QuietRun, ClaimJob, WriteBook, UpdateJob DEF run_job
<1>5. ASSUME NEW u \in Uploads,
             \/ api_upload_book(u) \/ delete_book_row(u) \/ delete_catalog(u) \/ delete_stack(u)
             \/ reserve_slot(u) \/ create_book(u) \/ create_ingest_job(u) \/ stage_text(u)
             \/ point_slot(u) \/ Disconnect(u)
      PROVE  DoneInv'
  BY <1>0, <1>5, QuietUpload, DeleteRow, DeleteFiles, CreateBook, CreateJob
<1> QED
  BY <1>0, <1>1, <1>2, <1>3, <1>4, <1>5, Sweeper DEF IngestNext, Sweep

\* A job that says done (update_ingest_job) left the whole book behind it, its stack
\* text, hub and chapters, whatever faults, replaces, disconnects and restarts came
\* between, as long as its row stands and no replace took the book apart; and every
\* book:// link of a well-formed text resolves: for any uploads, slugs and texts.
THEOREM DoneMeansWholeHolds == WorkersSpec => []DoneMeansWhole
<1>1. DoneInv => DoneMeansWhole
  <2>1. DoneInv => text \in Seq(Line)
    BY IngestAssumption DEF DoneInv, Stores
  <2>2. DoneInv => (WellFormed(text) => Sound(text))
    BY <2>1, LinksResolve
  <2> QED
    BY <2>2 DEF DoneMeansWhole, DoneInv, Written
<1> QED
  BY <1>1, InitDone, NextDone, PTL DEF WorkersSpec

-----------------------------------------------------------------------------
(* Dream: whose marker it is *)

\* The click or the walk of c holds the backfill guard.
Walking(x) == x.at \in {"start", "walk", "release"}
Holding(cl, x) == cl = "delete" \/ Walking(x)

\* One click at a time holds the guard, which is then set; its walk, once
\* launched, is the one launched last, and so is the one whose marker stands.
MarkInv ==
    /\ click = [c \in Clicks |-> click[c]] /\ walk = [c \in Clicks |-> [at |-> walk[c].at, todo |-> walk[c].todo]]
    /\ \A c \in Clicks : Holding(click[c], walk[c]) => running
    /\ \A c, d \in Clicks : Holding(click[c], walk[c]) /\ Holding(click[d], walk[d]) => c = d
    /\ \A c \in Clicks : Walking(walk[c]) => latest = c /\ click[c] = "end"
    /\ MarkerHonest

\* A walk that goes on in whatever way it does.
LEMMA WalkGoesOn ==
    ASSUME MarkInv, NEW c \in Clicks, Walking(walk[c]), NEW at, NEW todos,
           walk' = [walk EXCEPT ![c] = [at |-> at, todo |-> todos]],
           UNCHANGED <<running, marker, click, latest, kept>>
    PROVE  MarkInv'
<1>1. /\ walk' = [d \in Clicks |-> [at |-> walk'[d].at, todo |-> walk'[d].todo]]
      /\ \A d \in Clicks : d # c => walk'[d] = walk[d]
  BY DEF MarkInv
<1>2. \A d \in Clicks : Walking(walk'[d]) => Walking(walk[d])
  BY <1>1
<1>3. \A d \in Clicks : Holding(click'[d], walk'[d]) => Holding(click[d], walk[d])
  BY <1>2 DEF Holding
<1> QED
  BY <1>1, <1>2, <1>3 DEF MarkInv, MarkerHonest

LEMMA EmptyHands ==
    ASSUME MarkInv, UNCHANGED fill PROVE MarkInv'
BY DEF MarkInv, MarkerHonest, fill

\* What does not touch the backfill.
LEMMA Elsewhere ==
    ASSUME \/ Weather \/ OtherWork \/ \E s \in ToSet(Order) : Register(s)
           \/ tick \/ record_pass \/ api_dream \/ api_dream_responds
           \/ \E p \in Dreamers : run_scope_pass(p)
    PROVE  UNCHANGED fill
<1>1. ASSUME NEW p \in Dreamers, run_scope_pass(p) PROVE UNCHANGED fill
  BY <1>1 DEF run_scope_pass, CheckRed, resolve_scope, TryEnter, gather_signals, run_dream
<1>2. ASSUME NEW s \in ToSet(Order), Register(s) PROVE UNCHANGED fill
  BY <1>2 DEF Register
<1>3. CASE Weather \/ OtherWork \/ tick \/ record_pass \/ api_dream \/ api_dream_responds
  BY <1>3 DEF Weather, OtherWork, tick, record_pass, api_dream, api_dream_responds
<1> QED
  BY <1>1, <1>2, <1>3

LEMMA ClickSteps ==
    ASSUME MarkInv, NEW c \in Clicks, claim_guard(c) \/ DisconnectClick(c)
    PROVE  MarkInv'
<1>1. UNCHANGED <<marker, walk, latest, kept>>
  BY DEF claim_guard, DisconnectClick
<1>2. CASE click' = [click EXCEPT ![c] = "end"] /\ running' = running
  <2>1. click' = [d \in Clicks |-> click'[d]] /\ \A d \in Clicks : click'[d] = click[d] \/ click'[d] = "end"
    BY <1>2 DEF MarkInv
  <2>2. \A d \in Clicks : Holding(click'[d], walk'[d]) => Holding(click[d], walk[d])
    BY <1>1, <2>1 DEF Holding
  <2> QED
    BY <1>1, <1>2, <2>1, <2>2 DEF MarkInv, MarkerHonest, Holding
<1>3. CASE ~running /\ click' = [click EXCEPT ![c] = "delete"] /\ running' = TRUE
  <2>1. click' = [d \in Clicks |-> click'[d]] /\ \A d \in Clicks : d # c => click'[d] = click[d]
    BY <1>3 DEF MarkInv
  <2>2. \A d \in Clicks : ~Holding(click[d], walk[d])
    BY <1>3 DEF MarkInv
  <2>3. \A d \in Clicks : Holding(click'[d], walk'[d]) => d = c
    BY <1>1, <2>1, <2>2
  <2>4. \A d \in Clicks : ~Walking(walk'[d])
    BY <1>1, <2>2 DEF Holding
  <2> QED
    BY <1>1, <1>3, <2>1, <2>3, <2>4 DEF MarkInv, MarkerHonest
<1> QED
  BY <1>2, <1>3 DEF claim_guard, DisconnectClick

LEMMA LaunchStep ==
    ASSUME MarkInv, NEW c \in Clicks, post_admin_dream_backfill(c)
    PROVE  MarkInv'
<1>1. /\ click' = [click EXCEPT ![c] = "end"] /\ walk' = [walk EXCEPT ![c].at = "start"]
      /\ latest' = c /\ running' = running /\ click[c] = "delete"
      /\ marker' = NoClick \/ kept'
  BY DEF post_admin_dream_backfill
<1>2. /\ click' = [d \in Clicks |-> click'[d]] /\ click'[c] = "end"
      /\ \A d \in Clicks : d # c => click'[d] = click[d]
  BY <1>1 DEF MarkInv
<1>3. /\ walk' = [d \in Clicks |-> [at |-> walk'[d].at, todo |-> walk'[d].todo]]
      /\ \A d \in Clicks : d # c => walk'[d] = walk[d]
  BY <1>1 DEF MarkInv
<1>4. running /\ \A d \in Clicks : d # c => ~Holding(click[d], walk[d])
  BY <1>1 DEF MarkInv, Holding
<1>5. \A d \in Clicks : d # c => ~Holding(click'[d], walk'[d]) /\ ~Walking(walk'[d])
  BY <1>2, <1>3, <1>4 DEF Holding
<1> QED
  BY <1>1, <1>2, <1>3, <1>4, <1>5 DEF MarkInv, MarkerHonest

LEMMA BackfillSteps ==
    ASSUME MarkInv, NEW c \in Clicks, run_backfill(c) \/ walk_scope(c)
    PROVE  MarkInv'
<1>0. walk = [d \in Clicks |-> [at |-> walk[d].at, todo |-> walk[d].todo]]
  BY DEF MarkInv
<1>6. walk[c] = [at |-> walk[c].at, todo |-> walk[c].todo]
  BY <1>0
<1>1. Walking(walk[c]) /\ UNCHANGED <<running, marker, click, latest, kept>>
  BY DEF run_backfill, walk_scope, Walking
<1>2. CASE walk' = walk
  BY <1>1, <1>2, EmptyHands DEF fill
<1>3. CASE walk' = [walk EXCEPT ![c] = [at |-> "walk", todo |-> rotation]]
  BY <1>1, <1>3, WalkGoesOn
<1>4. CASE walk' = [walk EXCEPT ![c].at = "release"]
  <2>1. [walk[c] EXCEPT !.at = "release"] = [at |-> "release", todo |-> walk[c].todo]
    BY <1>6
  <2>2. walk' = [walk EXCEPT ![c] = [walk[c] EXCEPT !.at = "release"]]
    BY <1>0, <1>4
  <2>3. walk' = [walk EXCEPT ![c] = [at |-> "release", todo |-> walk[c].todo]]
    BY <2>1, <2>2
  <2> QED
    BY <1>1, <2>3, WalkGoesOn
<1>5. CASE walk' = [walk EXCEPT ![c].todo = Tail(@)]
  <2> DEFINE tail == Tail(walk[c].todo)
  <2>1. [walk[c] EXCEPT !.todo = Tail(@)] = [at |-> walk[c].at, todo |-> tail]
    <3>1. [walk[c] EXCEPT !.todo = Tail(@)] = [walk[c] EXCEPT !.todo = tail]
      OBVIOUS
    <3> HIDE DEF tail
    <3>2. [walk[c] EXCEPT !.todo = tail] = [at |-> walk[c].at, todo |-> tail]
      BY <1>6
    <3> QED
      BY <3>1, <3>2
  <2>2. walk' = [walk EXCEPT ![c] = [walk[c] EXCEPT !.todo = Tail(@)]]
    BY <1>0, <1>5
  <2>3. walk' = [walk EXCEPT ![c] = [at |-> walk[c].at, todo |-> Tail(walk[c].todo)]]
    BY <2>1, <2>2
  <2> QED
    BY <1>1, <2>3, WalkGoesOn
<1> QED
  BY <1>2, <1>3, <1>4, <1>5 DEF run_backfill, walk_scope

LEMMA WalkEnds ==
    ASSUME MarkInv, NEW c \in Clicks, write_marker(c) \/ BackfillGuard(c)
    PROVE  MarkInv'
<1> DEFINE to == walk'[c].at
<1>1. /\ Walking(walk[c]) /\ UNCHANGED <<click, latest, kept>>
      /\ \/ walk' = [walk EXCEPT ![c].at = "release"] /\ running' = running /\ marker' \in {marker, c}
         \/ walk' = [walk EXCEPT ![c].at = "none"] /\ running' = FALSE /\ marker' = marker
  BY DEF write_marker, BackfillGuard, Walking
<1>2. /\ walk' = [d \in Clicks |-> [at |-> walk'[d].at, todo |-> walk'[d].todo]]
      /\ \A d \in Clicks : d # c => walk'[d] = walk[d]
      /\ (to = "release" /\ running' = running) \/ to = "none"
  BY <1>1 DEF MarkInv
<1>3. latest = c /\ click[c] # "delete" /\ \A d \in Clicks : d # c => ~Holding(click[d], walk[d])
  BY <1>1 DEF MarkInv, Holding
<1>4. \A d \in Clicks : Walking(walk'[d]) => d = c
  BY <1>2, <1>3 DEF Holding
<1>5. \A d \in Clicks : Holding(click'[d], walk'[d]) => d = c /\ to = "release"
  BY <1>1, <1>2, <1>3 DEF Holding, Walking
<1>6. running
  BY <1>1 DEF MarkInv, Holding
<1>7. MarkerHonest'
  BY <1>1, <1>3 DEF MarkInv, MarkerHonest
<1>8. click' = [d \in Clicks |-> click'[d]]
  BY <1>1 DEF MarkInv
<1>9. click[c] = "end"
  BY <1>1 DEF MarkInv
<1> HIDE DEF to
<1>10. \A d \in Clicks : Holding(click'[d], walk'[d]) => running'
  BY <1>2, <1>5, <1>6
<1> QED
  BY <1>1, <1>2, <1>3, <1>4, <1>5, <1>7, <1>8, <1>9, <1>10 DEF MarkInv

LEMMA InitMark == Begins => MarkInv
<1> SUFFICES ASSUME Begins PROVE MarkInv
  OBVIOUS
<1>1. /\ marker = NoClick /\ click = [c \in Clicks |-> "new"]
      /\ walk = [c \in Clicks |-> [at |-> "none", todo |-> <<>>]]
  BY DEF Begins, DreamInit
<1>2. \A c \in Clicks : click[c] = "new" /\ walk[c].at = "none" /\ walk[c].todo = <<>>
  BY <1>1
<1>3. \A c \in Clicks : ~Walking(walk[c]) /\ ~Holding(click[c], walk[c])
  BY <1>2 DEF Walking, Holding
<1> QED
  BY <1>1, <1>2, <1>3 DEF MarkInv, MarkerHonest

LEMMA RestartStep ==
    ASSUME MarkInv, RestartDreams
    PROVE  MarkInv'
<1>1. /\ UNCHANGED <<marker, latest, kept>>
      /\ click' = [c \in Clicks |-> IF click[c] = "new" THEN "new" ELSE "end"]
      /\ walk' = [c \in Clicks |-> [at |-> "none", todo |-> <<>>]]
  BY DEF RestartDreams
<1>2. \A c \in Clicks : click'[c] \in {"new", "end"} /\ walk'[c].at = "none" /\ walk'[c].todo = <<>>
  BY <1>1
<1>3. \A c \in Clicks : ~Walking(walk'[c]) /\ ~Holding(click'[c], walk'[c])
  BY <1>2 DEF Walking, Holding
<1> QED
  BY <1>1, <1>2, <1>3 DEF MarkInv, MarkerHonest

LEMMA NextMark ==
    ASSUME MarkInv, [Next]_wvars
    PROVE  MarkInv'
<1>0. [DreamNext]_dvars
  BY DreamSteps
<1>1. CASE UNCHANGED dvars
  BY <1>1, EmptyHands DEF dvars
<1>2. CASE RestartDreams
  BY <1>2, RestartStep
<1>3. ASSUME NEW c \in Clicks, claim_guard(c) \/ post_admin_dream_backfill(c) \/ Backfill(c) \/ DisconnectClick(c)
      PROVE  MarkInv'
  <2>1. CASE run_scope_pass(c)
    BY <2>1, Elsewhere, EmptyHands DEF Dreamers
  <2> QED
    BY <1>3, <2>1, ClickSteps, LaunchStep, BackfillSteps, WalkEnds DEF Backfill
<1>4. CASE \/ Weather \/ OtherWork \/ \E s \in ToSet(Order) : Register(s)
           \/ Scheduler \/ api_dream \/ Request
  <2>1. "tick" \in Dreamers /\ "api" \in Dreamers
    BY DEF Dreamers
  <2>2. UNCHANGED fill
    BY <1>4, <2>1, Elsewhere DEF Scheduler, Request
  <2> QED
    BY <2>2, EmptyHands
<1> QED
  BY <1>0, <1>1, <1>2, <1>3, <1>4 DEF DreamNext

\* post_admin_dream_backfill "a stale `complete` must not outlive a fresh trigger":
\* the marker /health reads is that of the walk launched last, whatever clicks race
\* and walks die, for any number of clicks, restarts and scopes, unless a click could
\* not delete the old one: the guard (claim_guard, BackfillGuard) has one holder.
THEOREM MarkerHonestHolds == WorkersSpec => []MarkerHonest
<1>1. MarkInv => MarkerHonest
  BY DEF MarkInv
<1> QED
  BY <1>1, InitMark, NextMark, PTL DEF WorkersSpec
=============================================================================
