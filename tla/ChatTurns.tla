----------------------------- MODULE ChatTurns -----------------------------
(***************************************************************************)
(* Chat turns from submission to verdict: the tables chat_sessions and     *)
(* chat_turns (mycelium-store, chat.rs), the submit and delete handlers    *)
(* (mycelium-web, chat_api.rs), the detached runner with its live-run      *)
(* registry and its drop guard (chat_runner.rs), the resume worker         *)
(* (chat_resume.rs), the backend probe (server.rs) and the boot sequence   *)
(* (main.rs).                                                              *)
(*                                                                         *)
(* One SQL statement or transaction is one step, and so is one lock of the *)
(* registry; what a task does between two awaits on its own state, or on   *)
(* the health machine, is folded into the neighbouring step.  Turns are    *)
(* numbered in created_at order and all sessions are one user's, so        *)
(* "oldest first" is numeric order.  A transcript is abstracted to the     *)
(* kinds of rows a turn has got; tool rows, sequence numbers and the event *)
(* streams are left out, and so is updated_at: which of several debt-free  *)
(* sessions is the oldest is a free choice.  LLM_GATE is the environment's *)
(* choice: it admits, times out or refuses (LlmGate models it).            *)
(*                                                                         *)
(* Everything that goes wrong from outside (a crash, a panic, a failed     *)
(* statement, an outage, a full gate, a dropped connection) costs one unit *)
(* of `calm`, so a behaviour has at most MaxDisturbances of them.          *)
(***************************************************************************)
EXTENDS LlmHealth, FiniteSets

CONSTANTS
    Sessions,
    MaxSessions,      \* MAX_SESSIONS_PER_USER
    MaxTurns,         \* bound: turns ever created
    MaxHandlers,      \* bound: submit and delete handlers in flight at once
    MaxRuns,          \* bound: runner tasks alive at once
    MaxDisturbances   \* bound: what may go wrong in one behaviour

ASSUME ChatAssumption ==
    /\ IsFiniteSet(Sessions) /\ Sessions # {}
    /\ MaxSessions \in Nat \ {0} /\ MaxTurns \in Nat
    /\ MaxHandlers \in Nat \ {0} /\ MaxRuns \in Nat \ {0} /\ MaxDisturbances \in Nat

VARIABLES
    \* the tables
    sessions,   \* "unborn", "live" or "deleted"
    turns,      \* the chat_turns rows
    rows,       \* the kinds of agent rows of a turn in chat_messages
    \* the process
    phase,      \* "down", "boot", "up" (listening), "stopping"
    registry,   \* the turns with an entry in ChatRunRegistry
    runs,       \* the runner tasks
    drafts,     \* sessions a draft submit created, its turn not yet inserted
    unspawned,  \* turns a submit inserted, its run not yet registered
    deleting,   \* sessions a delete found without a running turn
    supply,     \* the resume pass: turns still to visit, with the status read
    claimed,    \* the turn the pass claimed and has not spawned
    probe,      \* the backend probe: "idle" or "probing"
    health,     \* LLM_HEALTH
    \* the environment
    llmRow,     \* whether the `llm` config row is stored
    backend,    \* "up" or "down"
    calm,
    \* history
    stranded,   \* running turns whose owner was lost without a trace
    unlogged    \* turns one of whose transcript rows could not be written

tables   == <<sessions, turns, rows>>
handlers == <<drafts, unspawned, deleting>>
resume   == <<supply, claimed>>
weather  == <<probe, health, llmRow, backend>>
ghosts   == <<stranded, unlogged>>
vars     == <<tables, phase, registry, runs, handlers, resume, weather, calm, ghosts>>

-----------------------------------------------------------------------------
(* Types *)

Turns == 1 .. MaxTurns
Runs  == 1 .. MaxRuns

Statuses == {"none", "running", "done", "failed", "interrupted", "abandoned",
             "waiting_backend", "deleted"}
Parked   == {"interrupted", "waiting_backend"}
Verdicts == {"done", "failed", "interrupted"}

TurnRow == [status : Statuses, session : Sessions, attempts : 0 .. 1,
            park_state : Parked]

RunPcs == {"none", "start", "gate", "agent", "error_row", "finalize", "park",
           "remove", "guard", "guard_finalize", "guard_row"}

RunTask == [pc : RunPcs, turn : 0 .. MaxTurns, resumed : BOOLEAN,
            verdict : Verdicts, died : BOOLEAN]

IdleRun == [pc |-> "none", turn |-> 0, resumed |-> FALSE, verdict |-> "done",
            died |-> FALSE]

NewRun(t, resumed) == [pc |-> "start", turn |-> t, resumed |-> resumed,
                       verdict |-> "done", died |-> FALSE]

(* Type invariant: what the tables, the tasks of the process and the       *)
(* health machine can hold; attempts counts at most one crash resume.      *)
TypeOK ==
    /\ sessions \in [Sessions -> {"unborn", "live", "deleted"}]
    /\ turns \in [Turns -> TurnRow]
    /\ rows \in [Turns -> SUBSET {"reply", "error"}]
    /\ phase \in {"down", "boot", "up", "stopping"}
    /\ registry \subseteq Turns
    /\ runs \in [Runs -> RunTask]
    /\ drafts \subseteq Sessions /\ deleting \subseteq Sessions
    /\ unspawned \subseteq Turns
    /\ supply \subseteq Turns \X Parked
    /\ claimed \subseteq Turns
    /\ probe \in {"idle", "probing"}
    /\ health \in HealthInner
    /\ llmRow \in BOOLEAN
    /\ backend \in {"up", "down"}
    /\ calm \in 0 .. MaxDisturbances
    /\ stranded \subseteq Turns /\ unlogged \subseteq Turns

-----------------------------------------------------------------------------
(* Helpers *)

LiveSessions == {s \in Sessions : sessions[s] = "live"}
TurnsOf(s)   == {t \in Turns : turns[t].status # "none" /\ turns[t].session = s}
Alive        == phase # "down"
HandlerFree  == Cardinality(drafts) + Cardinality(unspawned) + Cardinality(deleting)
                    < MaxHandlers
Disturb      == calm > 0 /\ calm' = calm - 1

(* `interrupted` with an unspent crash-resume budget. *)
Resumable(t) == turns[t].status = "interrupted" /\ turns[t].attempts = 0

(* A turn that still owes an answer: what the admin scan lists, or running. *)
Owes(t) == turns[t].status \in {"running", "waiting_backend"} \/ Resumable(t)

(* The statement's status changes; a missing row or status is no change.   *)
WithStatus(T, st) ==
    [t \in Turns |-> IF t \in T THEN [turns[t] EXCEPT !.status = st] ELSE turns[t]]

(* Deleting a session row cascades to its turns and messages. *)
DeleteSessions(S) ==
    /\ sessions' = [s \in Sessions |-> IF s \in S THEN "deleted" ELSE sessions[s]]
    /\ turns' = WithStatus(UNION {TurnsOf(s) : s \in S}, "deleted")

CanAppend(t) == turns[t].status # "deleted"

(* append_message for a turn's session: NotFound once the session is gone; *)
(* callers log a store failure and go on.                                  *)
AppendRow(t, kind) ==
    \/ /\ CanAppend(t)
       /\ rows' = [rows EXCEPT ![t] = @ \cup {kind}]
       /\ UNCHANGED <<calm, unlogged>>
    \/ ~CanAppend(t) /\ UNCHANGED <<rows, calm, unlogged>>
    \/ Disturb /\ unlogged' = unlogged \cup {t} /\ UNCHANGED rows

(* A turn left `running` by a statement that failed or a task that vanished. *)
Strand(t) ==
    stranded' = IF turns[t].status = "running" THEN stranded \cup {t} ELSE stranded

FreeRun(r) == runs[r].pc = "none" /\ \A q \in Runs : runs[q].pc = "none" => r <= q

(* The finalize and park statements: conditional on `running`; a store     *)
(* failure is logged and leaves the row as it is.                          *)
SetFromRunning(t, st) ==
    \/ /\ turns' = IF turns[t].status = "running" THEN WithStatus({t}, st) ELSE turns
       /\ UNCHANGED <<calm, stranded>>
    \/ Disturb /\ Strand(t) /\ UNCHANGED turns

(* spawn_chat_run: register, then detach the task. *)
Spawn(t, resumed) == \E r \in Runs :
    /\ FreeRun(r)
    /\ registry' = registry \cup {t}
    /\ runs' = [runs EXCEPT ![r] = NewRun(t, resumed)]

Goto(r, pc) == runs' = [runs EXCEPT ![r].pc = pc]

(* finish_turn is entered with a verdict and perhaps an error row to write. *)
Finish(r, verdict, errorRow) ==
    runs' = [runs EXCEPT ![r].pc = IF errorRow THEN "error_row" ELSE "finalize",
                         ![r].verdict = verdict]

(* The path-dependent verdict: `failed` fresh, `interrupted` resumed. *)
PathVerdict(r) == IF runs[r].resumed THEN "interrupted" ELSE "failed"

Init ==
    /\ sessions = [s \in Sessions |-> "unborn"]
    /\ turns \in [Turns -> [status : {"none"}, session : {CHOOSE s \in Sessions : TRUE},
                            attempts : {0}, park_state : {"interrupted"}]]
    /\ rows = [t \in Turns |-> {}]
    /\ phase = "down"
    /\ registry = {} /\ runs = [r \in Runs |-> IdleRun]
    /\ drafts = {} /\ unspawned = {} /\ deleting = {}
    /\ supply = {} /\ claimed = {}
    /\ probe = "idle" /\ health = FreshHealth
    /\ llmRow \in BOOLEAN /\ backend = "up"
    /\ calm = MaxDisturbances
    /\ stranded = {} /\ unlogged = {}

-----------------------------------------------------------------------------
(* The submit and delete handlers (chat_api.rs over chat.rs) *)

(* MUTANT of Prunable: the guard as it was before turns could wait.        *)
PrunableForgetsWaiting(s) ==
    /\ sessions[s] = "live"
    /\ \A t \in TurnsOf(s) : turns[t].status # "running" /\ ~Resumable(t)

(* The sessions the prune may delete: no turn that still owes an answer.   *)
Prunable(s) ==
    /\ sessions[s] = "live"
    /\ \A t \in TurnsOf(s) :
         turns[t].status \notin {"running", "waiting_backend"} /\ ~Resumable(t)

(* api_chat_create_session up to its first await after the insert: prune   *)
(* debt-free sessions when the user is at the cap, insert the new one.     *)
CreateSession == \E s \in Sessions :
    /\ phase = "up" /\ HandlerFree /\ sessions[s] = "unborn"
    /\ LET prunable == {p \in Sessions : Prunable(p)}
           count    == Cardinality(LiveSessions)
           excess   == IF count >= MaxSessions THEN count + 1 - MaxSessions ELSE 0
           limit    == IF excess < Cardinality(prunable) THEN excess
                                                         ELSE Cardinality(prunable)
       IN  \E P \in SUBSET prunable :
             /\ Cardinality(P) = limit
             /\ sessions' = [p \in Sessions |-> CASE p = s -> "live"
                                                  [] p \in P -> "deleted"
                                                  [] OTHER -> sessions[p]]
             /\ turns' = WithStatus(UNION {TurnsOf(p) : p \in P}, "deleted")
    /\ drafts' = drafts \cup {s}
    /\ UNCHANGED <<rows, phase, registry, runs, unspawned, deleting, resume,
                   weather, calm, ghosts>>

(* MUTANT of Supersedes: only crash-interrupted turns are superseded.      *)
SupersedesInterrupted(u) == turns[u].status = "interrupted"

(* The turns a new message replaces.                                       *)
Supersedes(u) == turns[u].status \in Parked

(* create_turn, one transaction: supersede the unanswered turns, insert    *)
(* the running one.  The unique index refuses a second running turn, which *)
(* rolls the whole transaction back (Conflict); a deleted session is       *)
(* NotFound.  Both leave the tables as they are.                           *)
CreateTurn(s) == \E t \in Turns :
    /\ sessions[s] = "live"
    /\ \A u \in TurnsOf(s) : turns[u].status # "running"
    /\ turns[t].status = "none" /\ \A u \in Turns : u < t => turns[u].status # "none"
    /\ turns' = [WithStatus({u \in TurnsOf(s) : Supersedes(u)}, "abandoned")
                   EXCEPT ![t] = [status |-> "running", session |-> s, attempts |-> 0,
                                  park_state |-> "interrupted"]]
    /\ unspawned' = unspawned \cup {t}

(* A submit into an existing session, and the draft flow's own submit.     *)
SubmitTurn == \E s \in Sessions :
    /\ \/ phase = "up" /\ HandlerFree /\ UNCHANGED drafts
       \/ Alive /\ s \in drafts /\ drafts' = drafts \ {s}
    /\ CreateTurn(s)
    /\ UNCHANGED <<sessions, rows, phase, registry, runs, deleting, resume,
                   weather, calm, ghosts>>

(* A draft submit whose session was pruned or is busy gets its error.      *)
DraftRefused == \E s \in drafts :
    /\ Alive
    /\ sessions[s] # "live" \/ \E u \in TurnsOf(s) : turns[u].status = "running"
    /\ drafts' = drafts \ {s}
    /\ UNCHANGED <<tables, phase, registry, runs, unspawned, deleting, resume,
                   weather, calm, ghosts>>

(* The rest of submit_turn: the visibility lookup is over, the run starts. *)
SubmitSpawn == \E t \in unspawned :
    /\ Alive
    /\ Spawn(t, FALSE)
    /\ unspawned' = unspawned \ {t}
    /\ UNCHANGED <<tables, phase, drafts, deleting, resume, weather, calm, ghosts>>

(* The client goes away while the handler awaits: the future is dropped.   *)
(* Nothing finalizes a turn that was inserted and never spawned.           *)
ClientGone ==
    /\ Alive /\ Disturb
    /\ \/ /\ \E s \in drafts : drafts' = drafts \ {s}
          /\ UNCHANGED <<unspawned, stranded>>
       \/ /\ \E t \in unspawned : /\ unspawned' = unspawned \ {t}
                                  /\ stranded' = stranded \cup {t}
          /\ UNCHANGED drafts
    /\ UNCHANGED <<tables, phase, registry, runs, deleting, resume, weather, unlogged>>

(* delete_session, first statement: refuse while a turn is running.        *)
DeleteCheck == \E s \in LiveSessions :
    /\ phase = "up" /\ HandlerFree
    /\ \A t \in TurnsOf(s) : turns[t].status # "running"
    /\ deleting' = deleting \cup {s}
    /\ UNCHANGED <<tables, phase, registry, runs, drafts, unspawned, resume,
                   weather, calm, ghosts>>

(* delete_session, second statement: delete whatever is there by then.     *)
DeleteSession == \E s \in deleting :
    /\ Alive
    /\ DeleteSessions({s} \cap LiveSessions)
    /\ deleting' = deleting \ {s}
    /\ UNCHANGED <<rows, phase, registry, runs, drafts, unspawned, resume,
                   weather, calm, ghosts>>

-----------------------------------------------------------------------------
(* The runner (chat_runner.rs) *)

(* rebuild_history, then the parking check: an unreadable transcript fails *)
(* the turn, a Red backend parks it, else it queues at the gate.           *)
RunStart(r) ==
    /\ runs[r].pc = "start"
    /\ \/ /\ CanAppend(runs[r].turn)
          /\ Goto(r, IF BackendState(health) = "red" THEN "park" ELSE "gate")
          /\ UNCHANGED calm
       \/ ~CanAppend(runs[r].turn) /\ Finish(r, "failed", TRUE) /\ UNCHANGED calm
       \/ Disturb /\ Finish(r, "failed", TRUE)
    /\ UNCHANGED <<tables, phase, registry, handlers, resume, weather, ghosts>>

(* Gate admission: a slot, no slot within the bound, or released because   *)
(* the server is shutting down.                                            *)
RunGate(r) ==
    /\ runs[r].pc = "gate"
    /\ \/ Goto(r, "agent")
       \/ Finish(r, "failed", TRUE)
       \/ phase = "stopping" /\ Finish(r, "interrupted", FALSE)
    /\ UNCHANGED <<tables, phase, registry, handlers, resume, weather, calm, ghosts>>

(* The agent answers: record_llm_success, then emit_event(Done) persists   *)
(* the reply, and the turn finishes `done` whether or not that succeeded.  *)
AgentDone(r) ==
    /\ runs[r].pc = "agent" /\ backend = "up"
    /\ health' = NoteOk(health)
    /\ AppendRow(runs[r].turn, "reply")
    /\ Finish(r, "done", FALSE)
    /\ UNCHANGED <<sessions, turns, phase, registry, handlers, resume, probe,
                   llmRow, backend, stranded>>

(* A backend-down error: record_outcome notes the failure; weather parks   *)
(* the turn unless the machine is Disabled.                                *)
AgentDown(r) ==
    /\ runs[r].pc = "agent" /\ backend = "down"
    /\ health' = NoteFailure(health)
    /\ IF BackendState(health') # "disabled"
       THEN Goto(r, "park")
       ELSE Finish(r, PathVerdict(r), TRUE)
    /\ UNCHANGED <<tables, phase, registry, handlers, resume, probe, llmRow,
                   backend, calm, ghosts>>

(* Any other LLM error: a verdict that depends on the path.                *)
AgentLlmError(r) ==
    /\ runs[r].pc = "agent" /\ backend = "up" /\ Disturb
    /\ Finish(r, PathVerdict(r), TRUE)
    /\ UNCHANGED <<tables, phase, registry, handlers, resume, weather, ghosts>>

(* MUTANT of AgentHardError: the detail is appended when the run did emit  *)
(* its own event.                                                          *)
AgentHardErrorPolarity(r) ==
    /\ runs[r].pc = "agent" /\ backend = "up"
    /\ \/ AppendRow(runs[r].turn, "error") /\ Finish(r, "failed", TRUE)
       \/ Finish(r, "failed", FALSE) /\ UNCHANGED <<rows, calm, unlogged>>
    /\ UNCHANGED <<sessions, turns, phase, registry, handlers, resume, weather, stranded>>

(* A hard error: `failed`, with the error row written by the run's own     *)
(* Failed event or, when it emitted none, by finish_turn.                  *)
AgentHardError(r) ==
    /\ runs[r].pc = "agent" /\ backend = "up"
    /\ \/ AppendRow(runs[r].turn, "error") /\ Finish(r, "failed", FALSE)
       \/ Finish(r, "failed", TRUE) /\ UNCHANGED <<rows, calm, unlogged>>
    /\ UNCHANGED <<sessions, turns, phase, registry, handlers, resume, weather, stranded>>

(* finish_turn's error row: a store failure is logged and ignored.         *)
FinishErrorRow(r) ==
    /\ runs[r].pc = "error_row"
    /\ AppendRow(runs[r].turn, "error")
    /\ Goto(r, "finalize")
    /\ UNCHANGED <<sessions, turns, phase, registry, handlers, resume, weather, stranded>>

(* finish_turn's finalize_turn and park_turn's park_waiting.               *)
Conclude(r, st) ==
    /\ SetFromRunning(runs[r].turn, st)
    /\ Goto(r, "remove")
    /\ UNCHANGED <<sessions, rows, phase, registry, handlers, resume, weather, unlogged>>

FinalizeTurn(r) == runs[r].pc = "finalize" /\ Conclude(r, runs[r].verdict)
ParkWaiting(r)  == runs[r].pc = "park" /\ Conclude(r, "waiting_backend")

(* The registry entry goes, whoever registered it.                         *)
RemoveEntry(r) ==
    /\ runs[r].pc = "remove"
    /\ registry' = registry \ {runs[r].turn}
    /\ Goto(r, "guard")
    /\ UNCHANGED <<tables, phase, handlers, resume, weather, calm, ghosts>>

(* A panic, or a runtime teardown, anywhere before the bookkeeping ended.  *)
RunDies(r) ==
    /\ runs[r].pc \in {"start", "gate", "agent", "error_row", "finalize", "park"}
    /\ Disturb
    /\ runs' = [runs EXCEPT ![r].pc = "guard", ![r].died = TRUE]
    /\ UNCHANGED <<tables, phase, registry, handlers, resume, weather, ghosts>>

(* RunGuard::drop: the defusal check.                                      *)
GuardCheck(r) ==
    /\ runs[r].pc = "guard"
    /\ \/ /\ runs[r].turn \in registry
          /\ Goto(r, "guard_finalize") /\ UNCHANGED stranded
       \/ /\ runs[r].turn \notin registry
          /\ runs' = [runs EXCEPT ![r] = IdleRun]
          /\ IF runs[r].died THEN Strand(runs[r].turn) ELSE UNCHANGED stranded
    /\ UNCHANGED <<tables, phase, registry, handlers, resume, weather, calm, unlogged>>

(* RunGuard::drop: finalize first ...                                      *)
GuardFinalize(r) ==
    /\ runs[r].pc = "guard_finalize"
    /\ SetFromRunning(runs[r].turn, PathVerdict(r))
    /\ Goto(r, "guard_row")
    /\ UNCHANGED <<sessions, rows, phase, registry, handlers, resume, weather, unlogged>>

(* MUTANT of GuardRow: the guard does not unregister.                      *)
GuardRowKeepsEntry(r) ==
    /\ runs[r].pc = "guard_row"
    /\ AppendRow(runs[r].turn, "error")
    /\ runs' = [runs EXCEPT ![r] = IdleRun]
    /\ UNCHANGED <<sessions, turns, phase, registry, handlers, resume, weather, stranded>>

(* ... then the error row, which is not broadcast, then unregister.        *)
GuardRow(r) ==
    /\ runs[r].pc = "guard_row"
    /\ AppendRow(runs[r].turn, "error")
    /\ registry' = registry \ {runs[r].turn}
    /\ runs' = [runs EXCEPT ![r] = IdleRun]
    /\ UNCHANGED <<sessions, turns, phase, handlers, resume, weather, stranded>>

RunStep(r) ==
    \/ RunStart(r) \/ RunGate(r)
    \/ AgentDone(r) \/ AgentDown(r) \/ AgentLlmError(r) \/ AgentHardError(r)
    \/ FinishErrorRow(r) \/ FinalizeTurn(r) \/ ParkWaiting(r) \/ RemoveEntry(r)
    \/ GuardCheck(r) \/ GuardFinalize(r) \/ GuardRow(r)

-----------------------------------------------------------------------------
(* The resume worker (chat_resume.rs) *)

(* MUTANT of Supplies: the weather supply is not read.                     *)
SuppliesCrashOnly == {<<t, "interrupted">> : t \in {u \in Turns : Resumable(u)}}

(* resumable_turns and waiting_turns.                                      *)
Supplies ==
    {<<t, "interrupted">> : t \in {u \in Turns : Resumable(u)}}
    \cup {<<t, "waiting_backend">> :
             t \in {u \in Turns : turns[u].status = "waiting_backend"}}

(* run_pending up to the two supply reads: a Red or Disabled backend skips *)
(* the pass.  A pass whose user's key cannot be recovered claims nothing   *)
(* and is the same as no pass.                                             *)
ResumePass ==
    /\ phase \in {"boot", "up"} /\ supply = {} /\ claimed = {}
    /\ BackendState(health) \notin {"red", "disabled"}
    /\ supply' = Supplies
    /\ supply' # {}
    /\ UNCHANGED <<tables, phase, registry, runs, handlers, claimed, weather,
                   calm, ghosts>>

(* claim_resumable: the once-guard is `attempts = 0`.                      *)
ClaimResumable(t) ==
    IF Resumable(t)
    THEN [turns EXCEPT ![t].status = "running", ![t].attempts = @ + 1,
                       ![t].park_state = "interrupted"]
    ELSE turns

(* claim_waiting: weather never spends the crash budget.                   *)
ClaimWaiting(t) ==
    IF turns[t].status = "waiting_backend"
    THEN [turns EXCEPT ![t].status = "running", ![t].park_state = "waiting_backend"]
    ELSE turns

(* One turn of the pass, oldest first: a full gate skips it, the claim is  *)
(* dispatched by the status read at the start of the pass and may find the *)
(* turn gone, and a store error ends the pass.                             *)
ResumeClaim == \E p \in supply :
    /\ Alive /\ claimed = {} /\ \A q \in supply : p[1] <= q[1]
    /\ \/ /\ turns' = IF p[2] = "waiting_backend" THEN ClaimWaiting(p[1])
                                                  ELSE ClaimResumable(p[1])
          /\ claimed' = IF turns' # turns THEN {p[1]} ELSE {}
          /\ stranded' = stranded \ claimed'
          /\ supply' = supply \ {p}
          /\ UNCHANGED calm
       \/ /\ Disturb /\ supply' \in {supply \ {p}, {}}
          /\ UNCHANGED <<turns, claimed, stranded>>
    /\ UNCHANGED <<sessions, rows, phase, registry, runs, handlers, weather, unlogged>>

ResumeSpawn == \E t \in claimed :
    /\ Alive
    /\ Spawn(t, TRUE)
    /\ claimed' = {}
    /\ UNCHANGED <<tables, phase, handlers, supply, weather, calm, ghosts>>

-----------------------------------------------------------------------------
(* The backend and its probe (server.rs) *)

(* probe_tick up to the probe: no `llm` row pins Disabled, a row lifts it. *)
ProbeTick ==
    /\ phase = "up" /\ probe = "idle"
    /\ \/ ~llmRow /\ health' = SetDisabled(health) /\ UNCHANGED probe
       \/ llmRow /\ health' = NoteConfigured(health) /\ probe' = "probing"
    /\ UNCHANGED <<tables, phase, registry, runs, handlers, resume, llmRow,
                   backend, calm, ghosts>>

(* The probe's answer is noted; an undecryptable row notes nothing.        *)
ProbeNote ==
    /\ Alive /\ probe = "probing"
    /\ \/ /\ health' = IF backend = "up" THEN NoteOk(health) ELSE NoteFailure(health)
          /\ UNCHANGED calm
       \/ Disturb /\ UNCHANGED health
    /\ probe' = "idle"
    /\ UNCHANGED <<tables, phase, registry, runs, handlers, resume, llmRow,
                   backend, ghosts>>

(* The environment: the backend fails and recovers, an admin saves the row. *)
BackendFails ==
    /\ backend = "up" /\ Disturb /\ backend' = "down"
    /\ UNCHANGED <<tables, phase, registry, runs, handlers, resume, probe, health,
                   llmRow, ghosts>>

BackendRecovers ==
    /\ backend = "down" /\ backend' = "up"
    /\ UNCHANGED <<tables, phase, registry, runs, handlers, resume, probe, health,
                   llmRow, calm, ghosts>>

AdminSavesLlm ==
    /\ phase = "up" /\ ~llmRow /\ llmRow' = TRUE
    /\ UNCHANGED <<tables, phase, registry, runs, handlers, resume, probe, health,
                   backend, calm, ghosts>>

-----------------------------------------------------------------------------
(* The process (main.rs) *)

(* boot_sweep: every running turn goes back to its park_state.             *)
Swept(t) ==
    IF turns[t].status = "running"
    THEN [turns[t] EXCEPT !.status = turns[t].park_state]
    ELSE turns[t]

(* The boot up to the spawn of the resume worker; a failed sweep is only   *)
(* logged.                                                                 *)
BootSweep ==
    /\ phase = "down" /\ phase' = "boot"
    /\ \/ /\ turns' = [t \in Turns |-> Swept(t)]
          /\ stranded' = {} /\ UNCHANGED calm
       \/ /\ Disturb
          /\ stranded' = stranded \cup {t \in Turns : turns[t].status = "running"}
          /\ UNCHANGED turns
    /\ UNCHANGED <<sessions, rows, registry, runs, handlers, resume, weather, unlogged>>

(* The health seed, the probe task and the listener.                       *)
BootSeed ==
    /\ phase = "boot" /\ phase' = "up"
    /\ health' = SetDisabled(health)
    /\ UNCHANGED <<tables, registry, runs, handlers, resume, probe, llmRow,
                   backend, calm, ghosts>>

(* The shutdown token: the gate releases its queue, the workers end.       *)
Stop ==
    /\ phase = "up" /\ Disturb /\ phase' = "stopping"
    /\ UNCHANGED <<tables, registry, runs, handlers, resume, weather, ghosts>>

LoseProcess ==
    /\ phase' = "down"
    /\ registry' = {} /\ runs' = [r \in Runs |-> IdleRun]
    /\ drafts' = {} /\ unspawned' = {} /\ deleting' = {}
    /\ supply' = {} /\ claimed' = {}
    /\ probe' = "idle" /\ health' = FreshHealth
    /\ unlogged' = unlogged \cup {runs[r].turn : r \in {q \in Runs : runs[q].pc = "guard_row"}}
    /\ UNCHANGED <<tables, llmRow, backend, stranded>>

Exit  == phase = "stopping" /\ LoseProcess /\ UNCHANGED calm
Crash == Alive /\ Disturb /\ LoseProcess

-----------------------------------------------------------------------------
Next ==
    \/ CreateSession \/ SubmitTurn \/ DraftRefused \/ SubmitSpawn \/ ClientGone
    \/ DeleteCheck \/ DeleteSession
    \/ \E r \in Runs : RunStep(r) \/ RunDies(r)
    \/ ResumePass \/ ResumeClaim \/ ResumeSpawn
    \/ ProbeTick \/ ProbeNote \/ BackendFails \/ BackendRecovers \/ AdminSavesLlm
    \/ BootSweep \/ BootSeed \/ Stop \/ Exit \/ Crash

Spec == Init /\ [][Next]_vars

(* The tasks run, the workers' tickers fire, outages end, an operator      *)
(* restarts the process and configures a backend.                          *)
Fairness ==
    /\ \A r \in Runs : WF_vars(RunStep(r))
    /\ WF_vars(SubmitSpawn) /\ WF_vars(ResumePass) /\ WF_vars(ResumeClaim)
    /\ WF_vars(ResumeSpawn)
    /\ WF_vars(ProbeTick) /\ WF_vars(ProbeNote)
    /\ WF_vars(BackendRecovers) /\ WF_vars(AdminSavesLlm)
    /\ WF_vars(BootSweep) /\ WF_vars(BootSeed) /\ WF_vars(Exit)

FairSpec == Spec /\ Fairness

-----------------------------------------------------------------------------
(* Properties *)

(* A session never has two turns that are running or parked: create_turn's *)
(* transaction supersedes the parked ones and the unique index refuses a   *)
(* second running one, so a claim by the resume worker never meets the     *)
(* index, which would end its whole pass.                                  *)
OneUnanswered ==
    \A t, u \in Turns :
        /\ turns[t].status \in {"running"} \cup Parked
        /\ turns[u].status \in {"running"} \cup Parked
        /\ turns[t].session = turns[u].session
        => t = u

(* A turn whose verdict is spent: nothing will run it again.               *)
Settled(t) ==
    \/ turns[t].status \in {"done", "failed", "abandoned", "deleted"}
    \/ turns[t].status = "interrupted" /\ turns[t].attempts > 0

(* A verdict is final: a late finalize, park or guard of an old run, a     *)
(* claim by a pass that read the row before, or a boot sweep never changes *)
(* it.  A new message may still supersede a turn that was interrupted      *)
(* twice, and deleting the session deletes it.                             *)
VerdictsFinal == [][\A t \in Turns : Settled(t) =>
    \/ turns'[t] = turns[t]
    \/ turns'[t].status = "deleted"
    \/ turns[t].status = "interrupted" /\ turns'[t].status = "abandoned"]_vars

(* A registry entry never outlives the task that made it, whichever run    *)
(* removes it and however the task ends: a reattached stream waits for the *)
(* entry to go.                                                            *)
NoLeakedEntry ==
    \A t \in registry : \E r \in Runs : runs[r].pc # "none" /\ runs[r].turn = t

(* Once no task works on a turn, its verdict can be read in the transcript:*)
(* `done` has its reply, `failed` its error row, unless that very row      *)
(* could not be written.                                                   *)
NoSilentVerdict ==
    \A t \in Turns : (\A r \in Runs : runs[r].turn # t) =>
        /\ turns[t].status = "done" => "reply" \in rows[t] \/ t \in unlogged
        /\ turns[t].status = "failed" => "error" \in rows[t] \/ t \in unlogged

(* The prune at the session cap never takes a session that still owes an   *)
(* answer: such a turn only goes with a session its user asked to delete.  *)
DebtsSurvivePrune == [][\A t \in Turns :
    Owes(t) /\ turns'[t].status = "deleted" => turns[t].session \in deleting]_vars

(* Whatever finitely many crashes, outages, panics and errors happen, a    *)
(* turn that owes an answer gets a verdict, unless it was stranded.        *)
EveryTurnSettles ==
    \A t \in Turns : Owes(t) ~> (Settled(t) \/ t \in stranded)

=============================================================================
