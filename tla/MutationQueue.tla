--------------------------- MODULE MutationQueue ---------------------------
(***************************************************************************)
(* The durable mutation queue: enqueue_mutation (mycelium-mcp, tools.rs)   *)
(* creates a row, its payload blob and, for an `add`, its staging note;    *)
(* one drain task (mycelium-librarian, queue_worker.rs) reconciles staging *)
(* rows, claims due rows and integrates them by an agent run or by the     *)
(* deterministic fallback; the boot sweep repairs what a dead process left *)
(* behind.  Rows live in SQLite (mycelium-store, mutation_queue.rs), one   *)
(* statement being one atomic step; blobs and notes are files.             *)
(*                                                                         *)
(* An item is one enqueue call and the row it makes.  Time is abstracted:  *)
(* age[i] tells whether the row is younger than the age deadline, past it, *)
(* or past deadline + 300 s, and due[i] whether next_retry_at has passed.  *)
(* attempts saturates at MaxAttempts, beyond which the code does not tell  *)
(* the counts apart.  The drain's wake signal is left out: the 60 s tick   *)
(* can start a pass whenever the drain sleeps.  Whether the backend health *)
(* is Red and whether LLM_GATE.try_enter finds a slot is the environment's *)
(* choice (Backend).                                                       *)
(***************************************************************************)
EXTENDS Integers, SequencesExt

CONSTANTS
    Items,        \* the enqueue calls
    NoItem,
    Users,
    UserOf,       \* the user an item belongs to
    Adds,         \* the memory_add items: the ones with a staging note
    DepthCap,     \* QueueLimits::depth_cap
    MaxAttempts,  \* QueueLimits::max_attempts
    MaxCrashes,   \* bound: how often the process dies
    Backend,      \* "up", "flaky" (a claim may be refused) or "red" (always is)
    Faults        \* what may fail: "key" recovery, "disk" writes, "db" statements

ASSUME QueueAssumption ==
    /\ IsFiniteSet(Items) /\ NoItem \notin Items
    /\ UserOf \in [Items -> Users]
    /\ Adds \subseteq Items
    /\ DepthCap \in Nat /\ MaxAttempts \in Nat \ {0} /\ MaxCrashes \in Nat
    /\ Backend \in {"up", "flaky", "red"}
    /\ Faults \subseteq {"key", "disk", "db"}

VARIABLES
    \* the mutation_queue table
    created,   \* the rows in created_at order
    status, attempts, due, age, detail,
    \* the user's files
    payload, note,
    \* what the concept store holds: how often an item was integrated
    applied,
    \* the environment
    keyOK,     \* whether a user's master key can be recovered
    boot,      \* "down", "sweep" (recover_on_boot), "drain", "up" (listening)
    crashes,
    \* the enqueue calls
    epc,
    \* the drain task
    wpc, todo, users, progress, witem, why

table   == <<created, status, attempts, due, age, detail>>
files   == <<payload, note>>
env     == <<keyOK, boot, crashes>>
task    == <<wpc, todo, users, progress, witem, why>>
vars    == <<table, files, applied, env, epc, task>>

Statuses == {"none", "staging", "pending", "running", "done", "dead"}
Details  == {"", "missing", "unreadable", "no key", "retry", "interrupted", "enqueue failed",
             "agent", "fallback", "fallback failed"}
Whys     == {"", "agent", "age deadline", "deterministic", "attempts exhausted"}
InFlight == {"counted", "row", "blob", "noted", "abandon", "abandon_blob"}

TypeOK ==
    /\ created \in Seq(Items)
    /\ status \in [Items -> Statuses]
    /\ attempts \in [Items -> 0..MaxAttempts]
    /\ due \in [Items -> BOOLEAN]
    /\ age \in [Items -> {"fresh", "aged", "expired"}]
    /\ detail \in [Items -> Details]
    /\ payload \in [Items -> BOOLEAN] /\ note \in [Items -> BOOLEAN]
    /\ applied \in [Items -> Nat]
    /\ keyOK \in [Users -> BOOLEAN]
    /\ boot \in {"down", "sweep", "drain", "up"}
    /\ crashes \in 0..MaxCrashes
    /\ epc \in [Items -> InFlight \cup {"idle", "refused", "accepted", "errored", "gone"}]
    /\ wpc \in {"asleep", "staging", "mark dead", "activate", "delete blob", "scan",
                "user", "process", "claimed", "tidy", "loaded", "agent", "fallback",
                "mark done", "clean", "clean note"}
    /\ todo \subseteq Items /\ users \in Seq(Users)
    /\ progress \in BOOLEAN
    /\ witem \in Items \cup {NoItem}
    /\ why \in Whys

Init ==
    /\ created = <<>>
    /\ status = [i \in Items |-> "none"]
    /\ attempts = [i \in Items |-> 0]
    /\ due = [i \in Items |-> TRUE]
    /\ age = [i \in Items |-> "fresh"]
    /\ detail = [i \in Items |-> ""]
    /\ payload = [i \in Items |-> FALSE] /\ note = [i \in Items |-> FALSE]
    /\ applied = [i \in Items |-> 0]
    /\ keyOK = [u \in Users |-> TRUE]
    /\ boot = "up" /\ crashes = 0
    /\ epc = [i \in Items |-> "idle"]
    /\ wpc = "asleep" /\ todo = {} /\ users = <<>> /\ progress = FALSE
    /\ witem = NoItem /\ why = ""

-----------------------------------------------------------------------------
(* Statements on the table (mutation_queue.rs).  Only activate, the claim  *)
(* and the boot repair look at the row's status.                           *)

Terminal == {"done", "dead"}
Depth(u) == Cardinality({i \in Items : UserOf[i] = u
                            /\ status[i] \in {"staging", "pending", "running"}})
DueRow(i) == status[i] = "pending" /\ due[i]
RowsWith(st) == {i \in Items : status[i] = st}

\* ORDER BY created_at: the row of a set that was created first.
Oldest(i, S) ==
    \E k \in 1..Len(created) :
        /\ created[k] = i /\ i \in S
        /\ \A j \in 1..(k - 1) : created[j] \notin S

activate(i) ==
    /\ status' = IF status[i] \in {"staging", "pending"}
                 THEN [status EXCEPT ![i] = "pending"] ELSE status
    /\ UNCHANGED <<created, attempts, due, age, detail>>

mark_done(i, d) ==
    /\ status' = [status EXCEPT ![i] = "done"]
    /\ detail' = [detail EXCEPT ![i] = d]
    /\ due' = [due EXCEPT ![i] = TRUE]
    /\ UNCHANGED <<created, attempts, age>>

mark_failed(i, d) ==
    /\ status' = [status EXCEPT ![i] = "pending"]
    /\ detail' = [detail EXCEPT ![i] = d]
    /\ due' = [due EXCEPT ![i] = FALSE]
    /\ UNCHANGED <<created, attempts, age>>

mark_dead(i, d) ==
    /\ status' = [status EXCEPT ![i] = "dead"]
    /\ detail' = [detail EXCEPT ![i] = d]
    /\ due' = [due EXCEPT ![i] = TRUE]
    /\ UNCHANGED <<created, attempts, age>>

\* Users with a due row, the owner of the oldest one first.
queue_users_with_due ==
    FoldLeft(LAMBDA us, i : IF UserOf[i] \in Range(us) THEN us ELSE Append(us, UserOf[i]),
             <<>>, SelectSeq(created, DueRow))

\* The row claim_due_for_user takes: the user's oldest due one.
OldestDue(u, i) == Oldest(i, {j \in Items : UserOf[j] = u /\ DueRow(j)})

\* Deleting a blob is best effort: a failure is logged and ignored.
delete_payload(i) ==
    \/ payload' = [payload EXCEPT ![i] = FALSE]
    \/ "disk" \in Faults /\ payload' = payload

\* Notes of terminal rows go; without the key, or on a store error, nothing does.
reconcile_notes(u) ==
    \/ /\ keyOK[u]
       /\ note' = [i \in Items |->
                      note[i] /\ ~(UserOf[i] = u /\ status[i] \in Terminal)]
    \/ (~keyOK[u] \/ "disk" \in Faults) /\ note' = note

-----------------------------------------------------------------------------
(* enqueue_mutation, one step per statement or file operation              *)

EnqueueCheck(i) ==
    /\ boot = "up" /\ epc[i] = "idle" /\ keyOK[UserOf[i]]
    /\ epc' = [epc EXCEPT ![i] = IF Depth(UserOf[i]) >= DepthCap THEN "refused" ELSE "counted"]
    /\ UNCHANGED <<table, files, applied, env, task>>

EnqueueInsert(i) ==
    /\ epc[i] = "counted"
    /\ created' = Append(created, i)
    /\ status' = [status EXCEPT ![i] = "staging"]
    /\ epc' = [epc EXCEPT ![i] = "row"]
    /\ UNCHANGED <<attempts, due, age, detail, files, applied, env, task>>

\* The blob is written to a temporary file and renamed, so it is there or not.
WritePayload(i) ==
    /\ epc[i] = "row"
    /\ \/ /\ payload' = [payload EXCEPT ![i] = TRUE]
          /\ epc' = [epc EXCEPT ![i] = "blob"]
       \/ /\ "disk" \in Faults
          /\ epc' = [epc EXCEPT ![i] = "abandon"]
          /\ UNCHANGED payload
    /\ UNCHANGED <<table, note, applied, env, task>>

WriteNote(i) ==
    /\ epc[i] = "blob" /\ i \in Adds
    /\ \/ /\ note' = [note EXCEPT ![i] = TRUE]
          /\ epc' = [epc EXCEPT ![i] = "noted"]
       \/ /\ "disk" \in Faults
          /\ epc' = [epc EXCEPT ![i] = "abandon"]
          /\ UNCHANGED note
    /\ UNCHANGED <<table, payload, applied, env, task>>

\* Mutant: a receipt for an item that was never flipped.
EnqueueActivate_unflipped(i) ==
    /\ epc[i] = "noted" \/ (epc[i] = "blob" /\ i \notin Adds)
    /\ epc' = [epc EXCEPT ![i] = "accepted"]
    /\ UNCHANGED <<table, files, applied, env, task>>

\* The receipt is returned after the flip; a failing flip is not abandoned.
EnqueueActivate(i) ==
    /\ epc[i] = "noted" \/ (epc[i] = "blob" /\ i \notin Adds)
    /\ \/ activate(i) /\ epc' = [epc EXCEPT ![i] = "accepted"]
       \/ "db" \in Faults /\ epc' = [epc EXCEPT ![i] = "errored"] /\ UNCHANGED table
    /\ UNCHANGED <<files, applied, env, task>>

\* abandon_row: dead the row, then drop the blob, both best effort.
AbandonMark(i) ==
    /\ epc[i] = "abandon"
    /\ epc' = [epc EXCEPT ![i] = "abandon_blob"]
    /\ \/ mark_dead(i, "enqueue failed")
       \/ "db" \in Faults /\ UNCHANGED table
    /\ UNCHANGED <<files, applied, env, task>>

AbandonDelete(i) ==
    /\ epc[i] = "abandon_blob"
    /\ epc' = [epc EXCEPT ![i] = "errored"]
    /\ delete_payload(i)
    /\ UNCHANGED <<table, note, applied, env, task>>

-----------------------------------------------------------------------------
(* The drain task: one pass                                                *)

\* The end of a pass; at boot the sweep is followed by one inline pass and
\* only then does the server listen.
EndPass ==
    /\ wpc' = "asleep"
    /\ todo' = {} /\ users' = <<>> /\ progress' = FALSE
    /\ witem' = NoItem /\ why' = ""
    /\ boot' = CASE boot = "sweep" -> "drain" [] boot = "drain" -> "up" [] OTHER -> boot

\* run_pending starts with recover_staging over the rows that are staging now.
PassStart ==
    /\ wpc = "asleep" /\ boot \in {"drain", "up"}
    /\ wpc' = "staging" /\ todo' = RowsWith("staging")
    /\ UNCHANGED <<table, files, applied, env, epc, users, progress, witem, why>>

\* The blob's existence decides; without the key the row is left alone.
StagingCheck ==
    /\ wpc = "staging"
    /\ \E i \in todo :
          /\ Oldest(i, todo)
          /\ IF ~keyOK[UserOf[i]]
             THEN todo' = todo \ {i} /\ UNCHANGED <<wpc, witem>>
             ELSE /\ todo' = todo /\ witem' = i
                  /\ wpc' = IF payload[i] THEN "activate" ELSE "mark dead"
    /\ UNCHANGED <<table, files, applied, env, epc, users, progress, why>>

StagingActivate ==
    /\ wpc = "activate"
    /\ activate(witem)
    /\ wpc' = "staging" /\ todo' = todo \ {witem} /\ witem' = NoItem
    /\ UNCHANGED <<files, applied, env, epc, users, progress, why>>

StagingDead ==
    /\ wpc = "mark dead"
    /\ mark_dead(witem, "missing")
    /\ wpc' = "delete blob"
    /\ UNCHANGED <<files, applied, env, epc, todo, users, progress, witem, why>>

StagingDelete ==
    /\ wpc = "delete blob"
    /\ delete_payload(witem)
    /\ wpc' = "staging" /\ todo' = todo \ {witem} /\ witem' = NoItem
    /\ UNCHANGED <<table, note, applied, env, epc, users, progress, why>>

\* recover_on_boot ends here; run_pending goes on to the users.
StagingEnd ==
    /\ wpc = "staging" /\ todo = {}
    /\ IF boot = "sweep"
       THEN EndPass /\ UNCHANGED <<keyOK, crashes>>
       ELSE wpc' = "scan" /\ UNCHANGED <<env, todo, users, progress, witem, why>>
    /\ UNCHANGED <<table, files, applied, epc>>

Scan ==
    /\ wpc = "scan"
    /\ IF queue_users_with_due = <<>>
       THEN EndPass /\ UNCHANGED <<keyOK, crashes>>
       ELSE /\ wpc' = "user" /\ users' = queue_users_with_due /\ progress' = FALSE
            /\ UNCHANGED <<env, todo, witem, why>>
    /\ UNCHANGED <<table, files, applied, epc>>

ReconcileUser ==
    /\ wpc = "user"
    /\ reconcile_notes(Head(users))
    /\ wpc' = "process"
    /\ UNCHANGED <<table, payload, applied, env, epc, todo, users, progress, witem, why>>

\* On to the next user, the next scan, or - when a whole round got nothing
\* done - to sleep.
Advance(p) ==
    IF Len(users) > 1
    THEN /\ wpc' = "user" /\ users' = Tail(users) /\ progress' = p
         /\ witem' = NoItem /\ why' = ""
         /\ UNCHANGED <<todo, boot>>
    ELSE IF p
    THEN /\ wpc' = "scan" /\ users' = <<>> /\ progress' = FALSE
         /\ witem' = NoItem /\ why' = ""
         /\ UNCHANGED <<todo, boot>>
    ELSE EndPass

-----------------------------------------------------------------------------
(* process_next_for_user                                                   *)

\* Health is Red, the gate has no slot, or the row is gone.
ProcessNothing ==
    /\ wpc = "process"
    /\ Backend # "up" \/ ~\E i \in Items : OldestDue(Head(users), i)
    /\ Advance(progress)
    /\ UNCHANGED <<table, files, applied, keyOK, crashes, epc>>

Claim(i) ==
    /\ wpc = "process" /\ Backend # "red"
    /\ OldestDue(Head(users), i)
    /\ status' = [status EXCEPT ![i] = "running"]
    /\ attempts' = [attempts EXCEPT ![i] = IF @ < MaxAttempts THEN @ + 1 ELSE @]
    /\ witem' = i /\ wpc' = "claimed"
    /\ UNCHANGED <<created, due, age, detail, files, applied, env, epc, todo, users, progress, why>>

\* Mutant: a row whose key is lost is deferred forever.
KeyUnavailable_defers ==
    /\ wpc = "claimed" /\ ~keyOK[UserOf[witem]]
    /\ mark_failed(witem, "no key")
    /\ Advance(TRUE)
    /\ UNCHANGED <<files, applied, keyOK, crashes, epc>>

\* No key: defer, or give up past deadline + 300 s.
KeyUnavailable ==
    /\ wpc = "claimed" /\ ~keyOK[UserOf[witem]]
    /\ IF age[witem] = "expired" THEN mark_dead(witem, "no key") ELSE mark_failed(witem, "no key")
    /\ Advance(TRUE)
    /\ UNCHANGED <<files, applied, keyOK, crashes, epc>>

ReadPayload ==
    /\ wpc = "claimed" /\ keyOK[UserOf[witem]] /\ payload[witem]
    /\ wpc' = "loaded"
    /\ UNCHANGED <<table, files, applied, env, epc, todo, users, progress, witem, why>>

PayloadBad ==
    /\ wpc = "claimed" /\ keyOK[UserOf[witem]]
    /\ \/ ~payload[witem] /\ mark_dead(witem, "missing")
       \/ payload[witem] /\ "disk" \in Faults /\ mark_dead(witem, "unreadable")
    /\ wpc' = "tidy"
    /\ UNCHANGED <<files, applied, env, epc, todo, users, progress, witem, why>>

TidyBad ==
    /\ wpc = "tidy"
    /\ delete_payload(witem)
    /\ reconcile_notes(UserOf[witem])
    /\ Advance(TRUE)
    /\ UNCHANGED <<table, applied, keyOK, crashes, epc>>

\* Past the age deadline the agent is skipped.
StartRun ==
    /\ wpc = "loaded"
    /\ IF age[witem] = "fresh" THEN wpc' = "agent" /\ why' = ""
                               ELSE wpc' = "fallback" /\ why' = "age deadline"
    /\ UNCHANGED <<table, files, applied, env, epc, todo, users, progress, witem>>

\* Mutant: a successful run falls through to the fallback (the double write
\* the queue design set out to remove).
AgentOk_falls_through ==
    /\ wpc = "agent"
    /\ applied' = [applied EXCEPT ![witem] = @ + 1]
    /\ wpc' = "fallback" /\ why' = "agent"
    /\ UNCHANGED <<table, files, env, epc, todo, users, progress, witem>>

AgentOk ==
    /\ wpc = "agent"
    /\ applied' = [applied EXCEPT ![witem] = @ + 1]
    /\ wpc' = "mark done" /\ why' = "agent"
    /\ UNCHANGED <<table, files, env, epc, todo, users, progress, witem>>

MayRetry(i) == attempts[i] < MaxAttempts /\ age[i] = "fresh"

\* Mutant: the retry path drops the blob as the terminal paths do.
AgentTransient_drops_blob ==
    /\ wpc = "agent"
    /\ IF MayRetry(witem)
       THEN /\ mark_failed(witem, "retry") /\ delete_payload(witem)
            /\ Advance(TRUE)
       ELSE /\ wpc' = "fallback" /\ why' = "attempts exhausted"
            /\ UNCHANGED <<table, payload, boot, todo, users, progress, witem>>
    /\ UNCHANGED <<note, applied, keyOK, crashes, epc>>

AgentTransient ==
    /\ wpc = "agent"
    /\ IF MayRetry(witem)
       THEN mark_failed(witem, "retry") /\ Advance(TRUE)
       ELSE /\ wpc' = "fallback" /\ why' = "attempts exhausted"
            /\ UNCHANGED <<table, boot, todo, users, progress, witem>>
    /\ UNCHANGED <<files, applied, keyOK, crashes, epc>>

\* A content error of the run, or a panic caught by catch_unwind.
AgentDeterministic ==
    /\ wpc = "agent"
    /\ wpc' = "fallback" /\ why' = "deterministic"
    /\ UNCHANGED <<table, files, applied, env, epc, todo, users, progress, witem>>

\* run_fallback with the key
FallbackMissing ==
    /\ wpc = "fallback" /\ ~payload[witem]
    /\ mark_dead(witem, "missing")
    /\ delete_payload(witem)
    /\ Advance(TRUE)
    /\ UNCHANGED <<note, applied, keyOK, crashes, epc>>

FallbackOk ==
    /\ wpc = "fallback" /\ payload[witem]
    /\ applied' = [applied EXCEPT ![witem] = @ + 1]
    /\ wpc' = "mark done"
    /\ UNCHANGED <<table, files, env, epc, todo, users, progress, witem, why>>

FallbackFails ==
    /\ wpc = "fallback" /\ payload[witem]
    /\ mark_dead(witem, "fallback failed")
    /\ wpc' = "clean"
    /\ UNCHANGED <<files, applied, env, epc, todo, users, progress, witem, why>>

\* finish_success and the Ok arm of run_fallback
MarkDone ==
    /\ wpc = "mark done"
    /\ mark_done(witem, IF why = "agent" THEN "agent" ELSE "fallback")
    /\ wpc' = "clean"
    /\ UNCHANGED <<files, applied, env, epc, todo, users, progress, witem, why>>

CleanPayload ==
    /\ wpc = "clean"
    /\ delete_payload(witem)
    /\ wpc' = "clean note"
    /\ UNCHANGED <<table, note, applied, env, epc, todo, users, progress, witem, why>>

CleanNote ==
    /\ wpc = "clean note"
    /\ note' = [note EXCEPT ![witem] = FALSE]
    /\ Advance(TRUE)
    /\ UNCHANGED <<table, payload, applied, keyOK, crashes, epc>>

\* A statement of the pass fails: `?` ends the pass where it stands and the
\* wake loop logs it.
PassFails ==
    /\ "db" \in Faults /\ wpc # "asleep"
    /\ EndPass
    /\ UNCHANGED <<table, files, applied, keyOK, crashes, epc>>

-----------------------------------------------------------------------------
(* The process and its environment                                         *)

Crash ==
    /\ crashes < MaxCrashes /\ boot # "down"
    /\ crashes' = crashes + 1 /\ boot' = "down"
    /\ epc' = [i \in Items |-> IF epc[i] \in InFlight THEN "gone" ELSE epc[i]]
    /\ wpc' = "asleep" /\ todo' = {} /\ users' = <<>> /\ progress' = FALSE
    /\ witem' = NoItem /\ why' = ""
    /\ UNCHANGED <<table, files, applied, keyOK>>

\* recover_on_boot: running rows go back to pending, then recover_staging.
RecoverOnBoot ==
    /\ boot = "down"
    /\ status' = [i \in Items |-> IF status[i] = "running" THEN "pending" ELSE status[i]]
    /\ due' = [i \in Items |-> due[i] \/ status[i] = "running"]
    /\ detail' = [i \in Items |-> IF status[i] = "running" THEN "interrupted" ELSE detail[i]]
    /\ boot' = "sweep" /\ wpc' = "staging" /\ todo' = RowsWith("staging")
    /\ UNCHANGED <<created, attempts, age, files, applied, keyOK, crashes, epc,
                   users, progress, witem, why>>

TimerFires(i) ==
    /\ status[i] = "pending" /\ ~due[i]
    /\ due' = [due EXCEPT ![i] = TRUE]
    /\ UNCHANGED <<created, status, attempts, age, detail, files, applied, env, epc, task>>

GrowsOld(i) ==
    /\ status[i] \in {"staging", "pending", "running"}
    /\ \/ age[i] = "fresh" /\ age' = [age EXCEPT ![i] = "aged"]
       \/ age[i] = "aged" /\ age' = [age EXCEPT ![i] = "expired"]
    /\ UNCHANGED <<created, status, attempts, due, detail, files, applied, env, epc, task>>

KeyChanges(u) ==
    /\ "key" \in Faults
    /\ keyOK' = [keyOK EXCEPT ![u] = ~@]
    /\ UNCHANGED <<table, files, applied, boot, crashes, epc, task>>

-----------------------------------------------------------------------------
EnqueueStep(i) ==
    \/ EnqueueCheck(i) \/ EnqueueInsert(i) \/ WritePayload(i) \/ WriteNote(i)
    \/ EnqueueActivate(i) \/ AbandonMark(i) \/ AbandonDelete(i)

StagingStep ==
    \/ StagingCheck \/ StagingActivate \/ StagingDead \/ StagingDelete \/ StagingEnd

ItemStep ==
    \/ KeyUnavailable \/ ReadPayload \/ PayloadBad \/ TidyBad \/ StartRun
    \/ AgentOk \/ AgentTransient \/ AgentDeterministic
    \/ FallbackMissing \/ FallbackOk \/ FallbackFails
    \/ MarkDone \/ CleanPayload \/ CleanNote

DrainStep ==
    \/ PassStart \/ StagingStep \/ Scan \/ ReconcileUser
    \/ ProcessNothing \/ (\E i \in Items : Claim(i)) \/ ItemStep

Next ==
    \/ \E i \in Items : EnqueueStep(i)
    \/ DrainStep
    \/ PassFails
    \/ Crash
    \/ RecoverOnBoot
    \/ \E i \in Items : TimerFires(i)
    \/ \E i \in Items : GrowsOld(i)
    \/ \E u \in Users : KeyChanges(u)

Spec == Init /\ [][Next]_vars

(***************************************************************************)
(* Tokio keeps polling the drain; its ticker starts a pass every 60 s; the *)
(* clock moves, so timers fire and rows grow old; a supervisor restarts    *)
(* the process.  Claims are only assumed to succeed if health and gate let *)
(* the drain through again and again (strong fairness), and with Backend = *)
(* "red" they never do.  Nothing is assumed of the master key.             *)
(***************************************************************************)
Fairness ==
    /\ WF_vars(DrainStep)
    /\ \A i \in Items : SF_vars(Claim(i))
    /\ WF_vars(RecoverOnBoot)
    /\ \A i \in Items : WF_vars(TimerFires(i)) /\ WF_vars(GrowsOld(i))

FairSpec == Spec /\ Fairness

-----------------------------------------------------------------------------
(* Properties                                                              *)

\* A row the drain may claim has its payload on disk, and an accepted add is
\* searchable through its staging note until it is integrated - across
\* crashes at any point of an enqueue or of an integration.
RunnableIsDurable ==
    \A i \in Items : status[i] \in {"pending", "running"} =>
        /\ payload[i]
        /\ (i \in Adds /\ epc[i] = "accepted") => note[i]

\* A done row was integrated, and no row is integrated twice unless the
\* process died between the integration and mark_done.
IntegratedOnce ==
    \A i \in Items : /\ applied[i] <= 1 + crashes
                     /\ status[i] = "done" => applied[i] > 0

\* A caller holding a receipt never depends on `staging`: the row has been
\* flipped, and if the receipt says done the content was integrated.
ReceiptHonest ==
    \A i \in Items :
        /\ epc[i] = "accepted" => status[i] \notin {"none", "staging"}
        /\ status[i] = "done" => applied[i] > 0

\* Every accepted item reaches done or dead, whatever keys, runs and
\* restarts do, as long as claims are possible again and again.
EveryAcceptedResolves ==
    \A i \in Items : epc[i] = "accepted" ~> status[i] \in Terminal

=============================================================================
