-------------------------- MODULE ChatTurnsProofs --------------------------
(***************************************************************************)
(* Proofs about ChatTurns, for any sessions, turns, tasks, handlers and    *)
(* disturbances: the type invariant, that a session never has two          *)
(* unanswered turns, that verdicts are final and never silent, that no     *)
(* registry entry outlives its task and that a prune spares what owes an   *)
(* answer.                                                                 *)
(***************************************************************************)
EXTENDS ChatTurns, TLAPS

Open(t) == turns[t].status \in {"running"} \cup Parked

(* A task slot that is in use has a turn: what TypeOK needs to be          *)
(* inductive, since the runner updates the row of its turn.                *)
BusyRunsHaveTurns == \A r \in Runs : runs[r].pc # "none" => runs[r].turn \in Turns

TypeInv == TypeOK /\ BusyRunsHaveTurns

USE HealthAssumption, ChatAssumption DEF HealthAssumption, ChatAssumption

-----------------------------------------------------------------------------
(* The operations of the health machine keep its type (llm_health.rs).     *)
LEMMA HealthOps ==
    ASSUME NEW h \in HealthInner
    PROVE  /\ NoteOk(h) \in HealthInner /\ NoteFailure(h) \in HealthInner
           /\ SetDisabled(h) \in HealthInner /\ NoteConfigured(h) \in HealthInner
<1>1. FreshHealth \in HealthInner
    BY DEF HealthInner, FreshHealth
<1>2. NoteConfigured(h) \in HealthInner
    BY <1>1 DEF NoteConfigured
<1>3. NoteOk(h) \in HealthInner
    BY DEF HealthInner, NoteOk
<1>4. NoteFailure(h) \in HealthInner
    <2>1. CASE h.consecutive_failures < RedFailureThreshold
        BY <2>1 DEF HealthInner, NoteFailure
    <2>2. CASE ~(h.consecutive_failures < RedFailureThreshold)
        BY <2>2 DEF NoteFailure
    <2> QED
        BY <2>1, <2>2
<1>5. SetDisabled(h) \in HealthInner
    BY DEF HealthInner, SetDisabled
<1> QED
    BY <1>2, <1>3, <1>4, <1>5

(* A status change of some rows keeps the other columns and the types.     *)
LEMMA WithStatusType ==
    ASSUME turns \in [Turns -> TurnRow], NEW T, NEW st \in Statuses
    PROVE  /\ WithStatus(T, st) \in [Turns -> TurnRow]
           /\ \A t \in Turns : /\ WithStatus(T, st)[t].session = turns[t].session
                               /\ WithStatus(T, st)[t].attempts = turns[t].attempts
                               /\ t \in T => WithStatus(T, st)[t].status = st
                               /\ t \notin T => WithStatus(T, st)[t] = turns[t]
BY DEF WithStatus, TurnRow

(* The value of a free slot, and of a slot that a task has just taken.     *)
LEMMA NewTaskType ==
    /\ IdleRun \in RunTask
    /\ \A t \in Turns, b \in BOOLEAN : NewRun(t, b) \in RunTask
<1>1. {"none", "start"} \subseteq RunPcs /\ "done" \in Verdicts /\ FALSE \in BOOLEAN
    BY DEF RunPcs, Verdicts
<1>2. 0 \in 0 .. MaxTurns /\ Turns \subseteq 0 .. MaxTurns
    BY DEF Turns
<1> QED
    BY <1>1, <1>2, Zenon DEF IdleRun, NewRun, RunTask

LEMMA InitType == Init => TypeInv
<1> SUFFICES ASSUME Init PROVE TypeInv
    OBVIOUS
<1>1. turns \in [Turns -> TurnRow]
    BY DEF Init, TurnRow, Statuses, Parked
<1>2. runs \in [Runs -> RunTask]
    BY NewTaskType, Zenon DEF Init
<1>3. BusyRunsHaveTurns
    BY DEF Init, BusyRunsHaveTurns, IdleRun
<1>4. health \in HealthInner
    BY DEF Init, FreshHealth, HealthInner
<1> QED
    BY <1>1, <1>2, <1>3, <1>4 DEF Init, TypeInv, TypeOK

-----------------------------------------------------------------------------
(* Step lemmas shared by the actions that move one task.                   *)

LEMMA GotoType ==
    ASSUME TypeInv, NEW r \in Runs, runs[r].pc # "none",
           NEW pc \in RunPcs, Goto(r, pc)
    PROVE  /\ runs' \in [Runs -> RunTask]
           /\ \A q \in Runs : runs'[q].pc # "none" => runs'[q].turn \in Turns
           /\ \A q \in Runs : runs'[q].turn = runs[q].turn
BY DEF TypeInv, TypeOK, BusyRunsHaveTurns, Goto, RunTask

LEMMA FinishType ==
    ASSUME TypeInv, NEW r \in Runs, runs[r].pc # "none",
           NEW v \in Verdicts, NEW e, Finish(r, v, e)
    PROVE  /\ runs' \in [Runs -> RunTask]
           /\ \A q \in Runs : runs'[q].pc # "none" => runs'[q].turn \in Turns
           /\ \A q \in Runs : runs'[q].turn = runs[q].turn
           /\ runs'[r].pc # "none"
           /\ \A q \in Runs : q # r => runs'[q] = runs[q]
<1>1. PICK pc \in RunPcs \ {"none"} :
          runs' = [runs EXCEPT ![r].pc = pc, ![r].verdict = v]
    <2>1. CASE e
        BY <2>1 DEF Finish, RunPcs
    <2>2. CASE ~e
        BY <2>2 DEF Finish, RunPcs
    <2> QED
        BY <2>1, <2>2
<1> QED
    BY <1>1, ZenonT(30) DEF TypeInv, TypeOK, BusyRunsHaveTurns, RunTask

LEMMA IdleType ==
    ASSUME TypeInv, NEW r \in Runs, runs' = [runs EXCEPT ![r] = IdleRun]
    PROVE  /\ runs' \in [Runs -> RunTask]
           /\ \A q \in Runs : runs'[q].pc # "none" => runs'[q].turn \in Turns
BY DEF TypeInv, TypeOK, BusyRunsHaveTurns, IdleRun, RunTask, RunPcs, Verdicts

LEMMA SpawnType ==
    ASSUME TypeInv, NEW t \in Turns, NEW b \in BOOLEAN, Spawn(t, b)
    PROVE  /\ runs' \in [Runs -> RunTask]
           /\ \A q \in Runs : runs'[q].pc # "none" => runs'[q].turn \in Turns
           /\ registry' \subseteq Turns
<1>1. PICK r \in Runs : runs' = [runs EXCEPT ![r] = NewRun(t, b)]
    BY Zenon DEF Spawn
<1>2. NewRun(t, b) \in RunTask /\ NewRun(t, b).turn = t
    BY NewTaskType DEF NewRun
<1>3. registry' \subseteq Turns
    BY DEF Spawn, TypeInv, TypeOK
<1> QED
    BY <1>1, <1>2, <1>3 DEF TypeInv, TypeOK, BusyRunsHaveTurns

LEMMA DisturbType ==
    ASSUME calm \in 0 .. MaxDisturbances, Disturb \/ UNCHANGED calm
    PROVE  calm' \in 0 .. MaxDisturbances
BY DEF Disturb

LEMMA AppendType ==
    ASSUME TypeInv, NEW t \in Turns, NEW k \in {"reply", "error"}, AppendRow(t, k)
    PROVE  /\ rows' \in [Turns -> SUBSET {"reply", "error"}]
           /\ calm' \in 0 .. MaxDisturbances /\ unlogged' \subseteq Turns
BY DisturbType DEF TypeInv, TypeOK, AppendRow

LEMMA SetFromRunningType ==
    ASSUME TypeInv, NEW t \in Turns, NEW st \in Statuses, SetFromRunning(t, st)
    PROVE  /\ turns' \in [Turns -> TurnRow]
           /\ calm' \in 0 .. MaxDisturbances /\ stranded' \subseteq Turns
BY DisturbType, WithStatusType DEF TypeInv, TypeOK, SetFromRunning, Strand

-----------------------------------------------------------------------------
(* Every step of a runner task keeps the types.                            *)
LEMMA RunStepType ==
    ASSUME TypeInv, NEW r \in Runs, RunStep(r) \/ RunDies(r)
    PROVE  TypeInv'
<1> DEFINE t == runs[r].turn
<1> USE DEF tables, handlers, resume, weather, ghosts
<1>0. runs[r].pc # "none" => t \in Turns
    BY DEF TypeInv, BusyRunsHaveTurns
<1>a. PathVerdict(r) \in Verdicts
    BY DEF PathVerdict, Verdicts
<1>b. Verdicts \subseteq Statuses /\ "waiting_backend" \in Statuses
    BY DEF Verdicts, Statuses
<1>1. CASE RunStart(r)
    <2>1. calm' \in 0 .. MaxDisturbances
        BY <1>1, DisturbType, Zenon DEF RunStart, TypeInv, TypeOK
    <2>2. /\ runs' \in [Runs -> RunTask]
          /\ \A q \in Runs : runs'[q].pc # "none" => runs'[q].turn \in Turns
        BY <1>1, GotoType, FinishType DEF RunStart, RunPcs, Verdicts
    <2> QED
        BY <1>1, <2>1, <2>2 DEF RunStart, TypeInv, TypeOK, BusyRunsHaveTurns
<1>2. CASE RunGate(r)
    <2>1. /\ runs' \in [Runs -> RunTask]
          /\ \A q \in Runs : runs'[q].pc # "none" => runs'[q].turn \in Turns
        BY <1>2, GotoType, FinishType DEF RunGate, RunPcs, Verdicts
    <2> QED
        BY <1>2, <2>1 DEF RunGate, TypeInv, TypeOK, BusyRunsHaveTurns
<1>3. CASE AgentDone(r)
    <2>1. /\ runs' \in [Runs -> RunTask]
          /\ \A q \in Runs : runs'[q].pc # "none" => runs'[q].turn \in Turns
        BY <1>3, FinishType DEF AgentDone, Verdicts
    <2>2. /\ rows' \in [Turns -> SUBSET {"reply", "error"}]
          /\ calm' \in 0 .. MaxDisturbances /\ unlogged' \subseteq Turns
        BY <1>3, <1>0, AppendType DEF AgentDone
    <2>3. health' \in HealthInner
        BY <1>3, HealthOps DEF AgentDone, TypeInv, TypeOK
    <2> QED
        BY <1>3, <2>1, <2>2, <2>3 DEF AgentDone, TypeInv, TypeOK, BusyRunsHaveTurns
<1>4. CASE AgentDown(r)
    <2>1. /\ runs' \in [Runs -> RunTask]
          /\ \A q \in Runs : runs'[q].pc # "none" => runs'[q].turn \in Turns
        <3>1. CASE Goto(r, "park")
            BY <1>4, <3>1, GotoType DEF AgentDown, RunPcs
        <3>2. CASE Finish(r, PathVerdict(r), TRUE)
            BY <1>4, <3>2, <1>a, FinishType DEF AgentDown
        <3> QED
            BY <1>4, <3>1, <3>2, Zenon DEF AgentDown
    <2>2. health' \in HealthInner
        BY <1>4, HealthOps DEF AgentDown, TypeInv, TypeOK
    <2> QED
        BY <1>4, <2>1, <2>2 DEF AgentDown, TypeInv, TypeOK, BusyRunsHaveTurns
<1>5. CASE AgentLlmError(r)
    <2>1. /\ runs' \in [Runs -> RunTask]
          /\ \A q \in Runs : runs'[q].pc # "none" => runs'[q].turn \in Turns
        BY <1>5, <1>a, FinishType DEF AgentLlmError
    <2>2. calm' \in 0 .. MaxDisturbances
        BY <1>5, DisturbType DEF AgentLlmError, TypeInv, TypeOK
    <2> QED
        BY <1>5, <2>1, <2>2 DEF AgentLlmError, TypeInv, TypeOK, BusyRunsHaveTurns
<1>6. CASE AgentHardError(r)
    <2>1. /\ runs' \in [Runs -> RunTask]
          /\ \A q \in Runs : runs'[q].pc # "none" => runs'[q].turn \in Turns
        BY <1>6, FinishType DEF AgentHardError, Verdicts
    <2>2. /\ rows' \in [Turns -> SUBSET {"reply", "error"}]
          /\ calm' \in 0 .. MaxDisturbances /\ unlogged' \subseteq Turns
        <3>1. CASE AppendRow(t, "error")
            BY <1>6, <3>1, <1>0, AppendType DEF AgentHardError
        <3>2. CASE UNCHANGED <<rows, calm, unlogged>>
            BY <3>2 DEF TypeInv, TypeOK
        <3> QED
            BY <1>6, <3>1, <3>2, Zenon DEF AgentHardError
    <2> QED
        BY <1>6, <2>1, <2>2 DEF AgentHardError, TypeInv, TypeOK, BusyRunsHaveTurns
<1>7. CASE FinishErrorRow(r)
    <2>1. /\ runs' \in [Runs -> RunTask]
          /\ \A q \in Runs : runs'[q].pc # "none" => runs'[q].turn \in Turns
        BY <1>7, GotoType DEF FinishErrorRow, RunPcs
    <2>2. /\ rows' \in [Turns -> SUBSET {"reply", "error"}]
          /\ calm' \in 0 .. MaxDisturbances /\ unlogged' \subseteq Turns
        BY <1>7, <1>0, AppendType DEF FinishErrorRow
    <2> QED
        BY <1>7, <2>1, <2>2 DEF FinishErrorRow, TypeInv, TypeOK, BusyRunsHaveTurns
<1>8. CASE FinalizeTurn(r) \/ ParkWaiting(r)
    <2>1. PICK st \in Statuses : runs[r].pc # "none" /\ Conclude(r, st)
        <3>1. runs[r].verdict \in Statuses
            BY <1>b DEF TypeInv, TypeOK, RunTask
        <3> QED
            BY <1>8, <3>1, <1>b DEF FinalizeTurn, ParkWaiting
    <2>2. /\ runs' \in [Runs -> RunTask]
          /\ \A q \in Runs : runs'[q].pc # "none" => runs'[q].turn \in Turns
        BY <2>1, GotoType DEF Conclude, RunPcs
    <2>3. /\ turns' \in [Turns -> TurnRow]
          /\ calm' \in 0 .. MaxDisturbances /\ stranded' \subseteq Turns
        BY <2>1, <1>0, SetFromRunningType DEF Conclude
    <2> QED
        BY <2>1, <2>2, <2>3 DEF Conclude, TypeInv, TypeOK, BusyRunsHaveTurns
<1>9. CASE RemoveEntry(r)
    <2>1. /\ runs' \in [Runs -> RunTask]
          /\ \A q \in Runs : runs'[q].pc # "none" => runs'[q].turn \in Turns
        BY <1>9, GotoType DEF RemoveEntry, RunPcs
    <2> QED
        BY <1>9, <2>1 DEF RemoveEntry, TypeInv, TypeOK, BusyRunsHaveTurns
<1>10. CASE RunDies(r)
    <2>1. /\ runs' \in [Runs -> RunTask]
          /\ \A q \in Runs : runs'[q].pc # "none" => runs'[q].turn \in Turns
        <3>1. runs' = [runs EXCEPT ![r].pc = "guard", ![r].died = TRUE]
            BY <1>10 DEF RunDies
        <3>2. "guard" \in RunPcs /\ runs[r].pc # "none"
            BY <1>10 DEF RunDies, RunPcs
        <3>3. runs \in [Runs -> RunTask]
            BY DEF TypeInv, TypeOK
        <3>4. runs' \in [Runs -> RunTask]
            BY <3>1, <3>2, <3>3, Zenon DEF RunTask
        <3> QED
            BY <3>1, <3>2, <3>3, <1>0 DEF TypeInv, BusyRunsHaveTurns, RunTask
    <2>2. calm' \in 0 .. MaxDisturbances
        BY <1>10, DisturbType DEF RunDies, TypeInv, TypeOK
    <2> QED
        BY <1>10, <2>1, <2>2 DEF RunDies, TypeInv, TypeOK, BusyRunsHaveTurns
<1>11. CASE GuardCheck(r)
    <2>1. /\ runs' \in [Runs -> RunTask]
          /\ \A q \in Runs : runs'[q].pc # "none" => runs'[q].turn \in Turns
        BY <1>11, GotoType, IdleType DEF GuardCheck, RunPcs
    <2>2. stranded' \subseteq Turns
        BY <1>11, <1>0 DEF GuardCheck, Strand, TypeInv, TypeOK
    <2> QED
        BY <1>11, <2>1, <2>2 DEF GuardCheck, TypeInv, TypeOK, BusyRunsHaveTurns
<1>12. CASE GuardFinalize(r)
    <2>1. /\ runs' \in [Runs -> RunTask]
          /\ \A q \in Runs : runs'[q].pc # "none" => runs'[q].turn \in Turns
        BY <1>12, GotoType DEF GuardFinalize, RunPcs
    <2>2. /\ turns' \in [Turns -> TurnRow]
          /\ calm' \in 0 .. MaxDisturbances /\ stranded' \subseteq Turns
        BY <1>12, <1>0, <1>a, <1>b, SetFromRunningType DEF GuardFinalize
    <2> QED
        BY <1>12, <2>1, <2>2 DEF GuardFinalize, TypeInv, TypeOK, BusyRunsHaveTurns
<1>13. CASE GuardRow(r)
    <2>1. /\ runs' \in [Runs -> RunTask]
          /\ \A q \in Runs : runs'[q].pc # "none" => runs'[q].turn \in Turns
        BY <1>13, IdleType DEF GuardRow
    <2>2. /\ rows' \in [Turns -> SUBSET {"reply", "error"}]
          /\ calm' \in 0 .. MaxDisturbances /\ unlogged' \subseteq Turns
        BY <1>13, <1>0, AppendType DEF GuardRow
    <2> QED
        BY <1>13, <2>1, <2>2 DEF GuardRow, TypeInv, TypeOK, BusyRunsHaveTurns
<1> QED
    BY <1>1, <1>2, <1>3, <1>4, <1>5, <1>6, <1>7, <1>8, <1>9, <1>10, <1>11, <1>12,
       <1>13 DEF RunStep

(* The submit and delete handlers keep the types.                          *)
LEMMA HandlerType ==
    ASSUME TypeInv,
           CreateSession \/ SubmitTurn \/ DraftRefused \/ SubmitSpawn \/ ClientGone
           \/ DeleteCheck \/ DeleteSession
    PROVE  TypeInv'
<1> USE DEF tables, handlers, resume, weather, ghosts
<1>0. "deleted" \in Statuses /\ "abandoned" \in Statuses /\ "running" \in Statuses
    BY DEF Statuses
<1>1. CASE CreateSession
    <2>1. PICK s \in Sessions, P \in SUBSET Sessions :
            /\ sessions' = [p \in Sessions |-> CASE p = s -> "live"
                                                 [] p \in P -> "deleted"
                                                 [] OTHER -> sessions[p]]
            /\ turns' = WithStatus(UNION {TurnsOf(p) : p \in P}, "deleted")
            /\ drafts' = drafts \cup {s}
        <3>1. PICK s \in Sessions :
                /\ \E P \in SUBSET {p \in Sessions : Prunable(p)} :
                     /\ sessions' = [p \in Sessions |-> CASE p = s -> "live"
                                                          [] p \in P -> "deleted"
                                                          [] OTHER -> sessions[p]]
                     /\ turns' = WithStatus(UNION {TurnsOf(p) : p \in P}, "deleted")
                /\ drafts' = drafts \cup {s}
            BY <1>1, Zenon DEF CreateSession
        <3>2. {p \in Sessions : Prunable(p)} \subseteq Sessions
            OBVIOUS
        <3> QED
            BY <3>1, <3>2, Zenon
    <2>2. turns' \in [Turns -> TurnRow]
        BY <2>1, <1>0, WithStatusType, ZenonT(30) DEF TypeInv, TypeOK
    <2>3. sessions' \in [Sessions -> {"unborn", "live", "deleted"}]
        <3>1. ASSUME NEW p \in Sessions
              PROVE  sessions'[p] \in {"unborn", "live", "deleted"}
            BY <2>1 DEF TypeInv, TypeOK
        <3> QED
            BY <2>1, <3>1, Zenon
    <2> QED
        BY <1>1, <2>1, <2>2, <2>3 DEF CreateSession, TypeInv, TypeOK, BusyRunsHaveTurns
<1>2. CASE SubmitTurn
    <2>1. PICK s \in Sessions, t \in Turns :
            /\ turns' = [WithStatus({u \in TurnsOf(s) : Supersedes(u)}, "abandoned")
                           EXCEPT ![t] = [status |-> "running", session |-> s,
                                          attempts |-> 0, park_state |-> "interrupted"]]
            /\ unspawned' = unspawned \cup {t}
            /\ drafts' \subseteq drafts
        BY <1>2, Zenon DEF SubmitTurn, CreateTurn
    <2>2. turns' \in [Turns -> TurnRow]
        <3> DEFINE old == WithStatus({u \in TurnsOf(s) : Supersedes(u)}, "abandoned")
                   new == [status |-> "running", session |-> s,
                           attempts |-> 0, park_state |-> "interrupted"]
        <3>1. old \in [Turns -> TurnRow]
            BY <1>0, WithStatusType, Zenon DEF TypeInv, TypeOK
        <3>2. new \in TurnRow
            BY DEF TurnRow, Statuses, Parked
        <3>3. turns' = [old EXCEPT ![t] = new]
            BY <2>1
        <3> HIDE DEF old, new
        <3> QED
            BY <3>1, <3>2, <3>3
    <2> QED
        BY <1>2, <2>1, <2>2 DEF SubmitTurn, TypeInv, TypeOK, BusyRunsHaveTurns
<1>3. CASE DraftRefused
    BY <1>3 DEF DraftRefused, TypeInv, TypeOK, BusyRunsHaveTurns
<1>4. CASE SubmitSpawn
    <2>1. PICK t \in unspawned : Spawn(t, FALSE) /\ unspawned' = unspawned \ {t}
        BY <1>4 DEF SubmitSpawn
    <2>2. /\ runs' \in [Runs -> RunTask]
          /\ \A q \in Runs : runs'[q].pc # "none" => runs'[q].turn \in Turns
          /\ registry' \subseteq Turns
        BY <2>1, SpawnType DEF TypeInv, TypeOK
    <2> QED
        BY <1>4, <2>1, <2>2 DEF SubmitSpawn, TypeInv, TypeOK, BusyRunsHaveTurns
<1>5. CASE ClientGone
    <2>1. calm' \in 0 .. MaxDisturbances
        BY <1>5, DisturbType DEF ClientGone, TypeInv, TypeOK
    <2> QED
        BY <1>5, <2>1 DEF ClientGone, TypeInv, TypeOK, BusyRunsHaveTurns
<1>6. CASE DeleteCheck
    BY <1>6 DEF DeleteCheck, LiveSessions, TypeInv, TypeOK, BusyRunsHaveTurns
<1>7. CASE DeleteSession
    <2>1. PICK s \in deleting :
            DeleteSessions({s} \cap LiveSessions) /\ deleting' = deleting \ {s}
        BY <1>7 DEF DeleteSession
    <2>2. turns' \in [Turns -> TurnRow]
        BY <2>1, <1>0, WithStatusType, ZenonT(30) DEF DeleteSessions, TypeInv, TypeOK
    <2>3. sessions' \in [Sessions -> {"unborn", "live", "deleted"}]
        BY <2>1 DEF DeleteSessions, TypeInv, TypeOK
    <2> QED
        BY <1>7, <2>1, <2>2, <2>3 DEF DeleteSession, TypeInv, TypeOK, BusyRunsHaveTurns
<1> QED
    BY <1>1, <1>2, <1>3, <1>4, <1>5, <1>6, <1>7

(* What a claim does to the table: nothing, or one parked turn runs.       *)
LEMMA ClaimEffect ==
    ASSUME TypeInv, NEW t \in Turns,
           turns' = ClaimWaiting(t) \/ turns' = ClaimResumable(t)
    PROVE  /\ turns' \in [Turns -> TurnRow]
           /\ \A u \in Turns : turns'[u].session = turns[u].session
           /\ \A u \in Turns : u # t => turns'[u] = turns[u]
           /\ \/ turns' = turns
              \/ /\ turns[t].status = "waiting_backend" \/ Resumable(t)
                 /\ turns'[t].status = "running"
<1>1. turns \in [Turns -> TurnRow] /\ turns[t] \in TurnRow
    BY DEF TypeInv, TypeOK
<1>2. /\ "running" \in Statuses /\ 1 \in 0 .. 1
      /\ "interrupted" \in Parked /\ "waiting_backend" \in Parked
    BY DEF Statuses, Parked
<1>3. CASE turns' = turns
    BY <1>1, <1>3
<1>4. CASE turns' = ClaimWaiting(t) /\ turns' # turns
    <2> DEFINE new == [turns[t] EXCEPT !.status = "running",
                                       !.park_state = "waiting_backend"]
    <2>1. turns[t].status = "waiting_backend" /\ turns' = [turns EXCEPT ![t] = new]
        BY <1>1, <1>4 DEF ClaimWaiting
    <2>2. new \in TurnRow /\ new.session = turns[t].session /\ new.status = "running"
        BY <1>1, <1>2 DEF TurnRow
    <2> HIDE DEF new
    <2> QED
        BY <1>1, <2>1, <2>2
<1>5. CASE turns' = ClaimResumable(t) /\ turns' # turns
    <2> DEFINE new == [turns[t] EXCEPT !.status = "running", !.attempts = @ + 1,
                                       !.park_state = "interrupted"]
    <2>1. Resumable(t) /\ turns' = [turns EXCEPT ![t] = new]
        BY <1>1, <1>5 DEF ClaimResumable
    <2>2. turns[t].attempts + 1 = 1
        BY <2>1 DEF Resumable
    <2>3. new \in TurnRow /\ new.session = turns[t].session /\ new.status = "running"
        BY <1>1, <1>2, <2>2 DEF TurnRow
    <2> HIDE DEF new
    <2> QED
        BY <1>1, <2>1, <2>3
<1> QED
    BY <1>3, <1>4, <1>5

(* The resume worker, the probe, the environment and the process keep the  *)
(* types.                                                                  *)
LEMMA WorkerType ==
    ASSUME TypeInv,
           ResumePass \/ ResumeClaim \/ ResumeSpawn
           \/ ProbeTick \/ ProbeNote \/ BackendFails \/ BackendRecovers \/ AdminSavesLlm
           \/ BootSweep \/ BootSeed \/ Stop \/ Exit \/ Crash
    PROVE  TypeInv'
<1> USE DEF tables, handlers, resume, weather, ghosts
<1>d. ASSUME Disturb PROVE calm' \in 0 .. MaxDisturbances
    BY <1>d, DisturbType DEF TypeInv, TypeOK
<1>1. CASE ResumePass
    <2>1. Supplies \subseteq Turns \X Parked
        BY DEF Supplies, Parked
    <2> QED
        BY <1>1, <2>1 DEF ResumePass, TypeInv, TypeOK, BusyRunsHaveTurns
<1>2. CASE ResumeClaim
    <2>1. PICK p \in supply :
            \/ /\ turns' = IF p[2] = "waiting_backend" THEN ClaimWaiting(p[1])
                                                       ELSE ClaimResumable(p[1])
               /\ claimed' = IF turns' # turns THEN {p[1]} ELSE {}
               /\ stranded' = stranded \ claimed'
               /\ supply' = supply \ {p}
               /\ UNCHANGED calm
            \/ /\ Disturb /\ supply' \in {supply \ {p}, {}}
               /\ UNCHANGED <<turns, claimed, stranded>>
        BY <1>2, Zenon DEF ResumeClaim
    <2>2. p[1] \in Turns
        BY DEF TypeInv, TypeOK
    <2>3. turns' \in [Turns -> TurnRow]
        BY <2>1, <2>2, ClaimEffect, Zenon DEF TypeInv, TypeOK
    <2>4. /\ calm' \in 0 .. MaxDisturbances /\ claimed' \subseteq Turns
          /\ stranded' \subseteq Turns /\ supply' \subseteq Turns \X Parked
        BY <2>1, <2>2, <1>d DEF TypeInv, TypeOK
    <2> QED
        BY <1>2, <2>3, <2>4 DEF ResumeClaim, TypeInv, TypeOK, BusyRunsHaveTurns
<1>3. CASE ResumeSpawn
    <2>1. PICK t \in claimed : Spawn(t, TRUE) /\ claimed' = {}
        BY <1>3 DEF ResumeSpawn
    <2>2. /\ runs' \in [Runs -> RunTask]
          /\ \A q \in Runs : runs'[q].pc # "none" => runs'[q].turn \in Turns
          /\ registry' \subseteq Turns
        BY <2>1, SpawnType DEF TypeInv, TypeOK
    <2> QED
        BY <1>3, <2>1, <2>2 DEF ResumeSpawn, TypeInv, TypeOK, BusyRunsHaveTurns
<1>4. CASE ProbeTick
    <2>1. health' \in HealthInner
        BY <1>4, HealthOps DEF ProbeTick, TypeInv, TypeOK
    <2> QED
        BY <1>4, <2>1 DEF ProbeTick, TypeInv, TypeOK, BusyRunsHaveTurns
<1>5. CASE ProbeNote
    <2>1. health' \in HealthInner
        BY <1>5, HealthOps DEF ProbeNote, TypeInv, TypeOK
    <2>2. calm' \in 0 .. MaxDisturbances
        BY <1>5, <1>d DEF ProbeNote, TypeInv, TypeOK
    <2> QED
        BY <1>5, <2>1, <2>2 DEF ProbeNote, TypeInv, TypeOK, BusyRunsHaveTurns
<1>6. CASE BackendFails
    BY <1>6, <1>d DEF BackendFails, TypeInv, TypeOK, BusyRunsHaveTurns
<1>7. CASE BackendRecovers
    BY <1>7 DEF BackendRecovers, TypeInv, TypeOK, BusyRunsHaveTurns
<1>8. CASE AdminSavesLlm
    BY <1>8 DEF AdminSavesLlm, TypeInv, TypeOK, BusyRunsHaveTurns
<1>9. CASE BootSweep
    <2>1. ASSUME NEW t \in Turns PROVE Swept(t) \in TurnRow
        <3>1. turns[t] \in TurnRow /\ Parked \subseteq Statuses
            BY DEF TypeInv, TypeOK, Parked, Statuses
        <3> QED
            BY <3>1 DEF Swept, TurnRow
    <2>2. turns' \in [Turns -> TurnRow] /\ stranded' \subseteq Turns
        BY <1>9, <2>1 DEF BootSweep, TypeInv, TypeOK
    <2>3. calm' \in 0 .. MaxDisturbances
        BY <1>9, <1>d DEF BootSweep, TypeInv, TypeOK
    <2> QED
        BY <1>9, <2>2, <2>3 DEF BootSweep, TypeInv, TypeOK, BusyRunsHaveTurns
<1>10. CASE BootSeed
    <2>1. health' \in HealthInner
        BY <1>10, HealthOps DEF BootSeed, TypeInv, TypeOK
    <2> QED
        BY <1>10, <2>1 DEF BootSeed, TypeInv, TypeOK, BusyRunsHaveTurns
<1>11. CASE Stop
    BY <1>11, <1>d DEF Stop, TypeInv, TypeOK, BusyRunsHaveTurns
<1>12. CASE Exit \/ Crash
    <2>1. LoseProcess /\ calm' \in 0 .. MaxDisturbances
        BY <1>12, <1>d DEF Exit, Crash, TypeInv, TypeOK
    <2>2. /\ runs' \in [Runs -> RunTask]
          /\ \A r \in Runs : runs'[r].pc = "none"
        BY <2>1, NewTaskType DEF LoseProcess, IdleRun
    <2>3. health' \in HealthInner
        BY <2>1 DEF LoseProcess, FreshHealth, HealthInner
    <2>4. unlogged' \subseteq Turns
        BY <2>1 DEF LoseProcess, TypeInv, TypeOK, BusyRunsHaveTurns
    <2> QED
        BY <2>1, <2>2, <2>3, <2>4 DEF LoseProcess, TypeInv, TypeOK, BusyRunsHaveTurns
<1> QED
    BY <1>1, <1>2, <1>3, <1>4, <1>5, <1>6, <1>7, <1>8, <1>9, <1>10, <1>11, <1>12

LEMMA StepType == TypeInv /\ [Next]_vars => TypeInv'
<1> SUFFICES ASSUME TypeInv, [Next]_vars PROVE TypeInv'
    OBVIOUS
<1>1. CASE UNCHANGED vars
    BY <1>1 DEF vars, tables, handlers, resume, weather, ghosts, TypeInv, TypeOK,
                BusyRunsHaveTurns
<1> QED
    BY <1>1, RunStepType, HandlerType, WorkerType DEF Next

(* The tables, the tasks and the health machine keep their types, and a    *)
(* turn is crash-resumed at most once (attempts stays in 0 .. 1), whatever *)
(* handlers, runs, passes, crashes and restarts interleave.                *)
THEOREM ChatTypeCorrect == Spec => []TypeOK
<1>1. TypeInv => TypeOK
    BY DEF TypeInv
<1> QED
    BY <1>1, InitType, StepType, PTL DEF Spec

-----------------------------------------------------------------------------
(* What one step may do to the row of a turn that it did not just insert   *)
(* or supersede: it keeps its session, it is not opened unless it was      *)
(* open, and once settled it stays or is deleted with its session.         *)
RowKept(t) ==
    /\ turns'[t].session = turns[t].session
    /\ turns'[t].status \in {"running"} \cup Parked => Open(t)
    /\ Settled(t) => turns'[t] = turns[t] \/ turns'[t].status = "deleted"

LEMMA DeletedRowsKept ==
    ASSUME TypeInv, NEW T, turns' = WithStatus(T, "deleted")
    PROVE  \A t \in Turns : RowKept(t)
<1>1. turns \in [Turns -> TurnRow] /\ "deleted" \in Statuses
    BY DEF TypeInv, TypeOK, Statuses
<1> QED
    BY <1>1, WithStatusType DEF RowKept, Open, Parked

LEMMA ConcludedRowsKept ==
    ASSUME TypeInv, NEW u \in Turns, NEW st \in Statuses, SetFromRunning(u, st)
    PROVE  \A t \in Turns : RowKept(t)
<1>1. turns \in [Turns -> TurnRow]
    BY DEF TypeInv, TypeOK
<1>2. CASE turns' = turns
    BY <1>2 DEF RowKept, Open
<1>3. CASE turns[u].status = "running" /\ turns' = WithStatus({u}, st)
    BY <1>1, <1>3, WithStatusType DEF RowKept, Open, Settled
<1> QED
    BY <1>2, <1>3 DEF SetFromRunning

LEMMA SweptRowsKept ==
    ASSUME TypeInv, turns' = [t \in Turns |-> Swept(t)]
    PROVE  \A t \in Turns : RowKept(t)
<1> TAKE t \in Turns
<1>1. turns[t] \in TurnRow /\ turns'[t] = Swept(t)
    BY DEF TypeInv, TypeOK
<1>2. CASE turns[t].status = "running"
    BY <1>1, <1>2 DEF Swept, RowKept, Open, Settled, TurnRow
<1>3. CASE turns[t].status # "running"
    BY <1>1, <1>3 DEF Swept, RowKept, Open
<1> QED
    BY <1>2, <1>3

LEMMA ClaimedRowsKept ==
    ASSUME TypeInv, NEW u \in Turns,
           turns' = ClaimWaiting(u) \/ turns' = ClaimResumable(u)
    PROVE  \A t \in Turns : RowKept(t)
<1> TAKE t \in Turns
<1>1. CASE turns'[t] = turns[t]
    BY <1>1 DEF RowKept, Open
<1>2. CASE turns'[t] # turns[t]
    <2>1. t = u /\ turns'[t].session = turns[t].session
          /\ (turns[t].status = "waiting_backend" \/ Resumable(t))
        BY <1>2, ClaimEffect
    <2>2. Open(t) /\ ~Settled(t)
        BY <2>1 DEF Open, Settled, Resumable, Parked
    <2> QED
        BY <2>1, <2>2 DEF RowKept
<1> QED
    BY <1>1, <1>2

(* Every step other than a submit keeps every row.                         *)
LEMMA RowsKept ==
    ASSUME TypeInv, [Next]_vars
    PROVE  SubmitTurn \/ \A t \in Turns : RowKept(t)
<1> USE DEF tables, handlers, resume, weather, ghosts
<1>0. ASSUME turns' = turns PROVE \A t \in Turns : RowKept(t)
    BY <1>0 DEF RowKept, Open
<1>1. ASSUME NEW r \in Runs, RunStep(r) \/ RunDies(r)
      PROVE  \A t \in Turns : RowKept(t)
    <2>0. runs[r].pc # "none" => runs[r].turn \in Turns
        BY DEF TypeInv, BusyRunsHaveTurns
    <2>1. Verdicts \subseteq Statuses /\ "waiting_backend" \in Statuses
        BY DEF Verdicts, Statuses
    <2>2. CASE FinalizeTurn(r)
        <3>1. runs[r].verdict \in Statuses
            BY <2>1 DEF TypeInv, TypeOK, RunTask
        <3> QED
            BY <2>0, <2>2, <3>1, ConcludedRowsKept DEF FinalizeTurn, Conclude
    <2>3. CASE ParkWaiting(r)
        BY <2>0, <2>1, <2>3, ConcludedRowsKept DEF ParkWaiting, Conclude
    <2>4. CASE GuardFinalize(r)
        <3>1. PathVerdict(r) \in Statuses
            BY DEF PathVerdict, Statuses
        <3> QED
            BY <2>0, <2>4, <3>1, ConcludedRowsKept DEF GuardFinalize
    <2>5. CASE \/ RunStart(r) \/ RunGate(r) \/ AgentDone(r) \/ AgentDown(r)
               \/ AgentLlmError(r) \/ AgentHardError(r) \/ FinishErrorRow(r)
               \/ RemoveEntry(r) \/ GuardCheck(r) \/ GuardRow(r) \/ RunDies(r)
        <3>1. turns' = turns
            BY <2>5 DEF RunStart, RunGate, AgentDone, AgentDown, AgentLlmError,
                        AgentHardError, FinishErrorRow, RemoveEntry, GuardCheck,
                        GuardRow, RunDies
        <3> QED
            BY <3>1, <1>0
    <2> QED
        BY <1>1, <2>2, <2>3, <2>4, <2>5 DEF RunStep
<1>2. CASE CreateSession
    <2>1. PICK T : turns' = WithStatus(T, "deleted")
        BY <1>2, Zenon DEF CreateSession
    <2> QED
        BY <2>1, DeletedRowsKept
<1>3. CASE DeleteSession
    <2>1. PICK T : turns' = WithStatus(T, "deleted")
        BY <1>3, Zenon DEF DeleteSession, DeleteSessions
    <2> QED
        BY <2>1, DeletedRowsKept
<1>4. CASE ResumeClaim
    <2>1. PICK p \in supply : \/ turns' = turns
                              \/ turns' = ClaimWaiting(p[1])
                              \/ turns' = ClaimResumable(p[1])
        BY <1>4, Zenon DEF ResumeClaim
    <2>2. p[1] \in Turns
        BY DEF TypeInv, TypeOK
    <2> QED
        BY <2>1, <2>2, <1>0, ClaimedRowsKept
<1>5. CASE BootSweep
    <2>1. turns' = turns \/ turns' = [t \in Turns |-> Swept(t)]
        BY <1>5 DEF BootSweep
    <2> QED
        BY <2>1, <1>0, SweptRowsKept
<1>6. CASE \/ DraftRefused \/ SubmitSpawn \/ ClientGone \/ DeleteCheck \/ ResumePass
           \/ ResumeSpawn \/ ProbeTick \/ ProbeNote \/ BackendFails \/ BackendRecovers
           \/ AdminSavesLlm \/ BootSeed \/ Stop \/ Exit \/ Crash \/ UNCHANGED vars
    <2>1. turns' = turns
        BY <1>6 DEF DraftRefused, SubmitSpawn, ClientGone, DeleteCheck, ResumePass,
                    ResumeSpawn, ProbeTick, ProbeNote, BackendFails, BackendRecovers,
                    AdminSavesLlm, BootSeed, Stop, Exit, Crash, LoseProcess, vars
    <2> QED
        BY <2>1, <1>0
<1> QED
    BY <1>1, <1>2, <1>3, <1>4, <1>5, <1>6 DEF Next

(* A submit to session s opens turn n and leaves no other turn of s open.  *)
Submitted(s, n) ==
    /\ turns[n].status = "none" /\ turns'[n].session = s /\ turns'[n].status = "running"
    /\ \A t \in Turns : t # n =>
         /\ turns'[t].session = turns[t].session
         /\ \/ turns'[t] = turns[t]
            \/ turns[t].status \in Parked /\ turns'[t].status = "abandoned"
         /\ turns'[t].session = s => turns'[t].status \notin {"running"} \cup Parked

LEMMA SubmitEffect ==
    ASSUME TypeInv, SubmitTurn
    PROVE  \E s \in Sessions, n \in Turns : Submitted(s, n)
<1>1. PICK s \in Sessions, n \in Turns :
        /\ \A u \in TurnsOf(s) : turns[u].status # "running"
        /\ turns[n].status = "none"
        /\ turns' = [WithStatus({u \in TurnsOf(s) : Supersedes(u)}, "abandoned")
                       EXCEPT ![n] = [status |-> "running", session |-> s,
                                      attempts |-> 0, park_state |-> "interrupted"]]
    BY Zenon DEF SubmitTurn, CreateTurn
<1> DEFINE T == {u \in TurnsOf(s) : Supersedes(u)}
           old == WithStatus(T, "abandoned")
<1>2. turns \in [Turns -> TurnRow] /\ "abandoned" \in Statuses
    BY DEF TypeInv, TypeOK, Statuses
<1>3. \A u \in T : turns[u].status \in Parked
    BY DEF Supersedes
<1>4. \A u \in Turns \ T : turns[u].session = s =>
                             turns[u].status \notin {"running"} \cup Parked
    BY <1>1 DEF TurnsOf, Supersedes, Parked
<1>5. turns' = [old EXCEPT ![n] = [status |-> "running", session |-> s,
                                   attempts |-> 0, park_state |-> "interrupted"]]
    BY <1>1
<1> HIDE DEF T
<1>6. old \in [Turns -> TurnRow]
      /\ \A u \in Turns : /\ old[u].session = turns[u].session
                          /\ u \in T => old[u].status = "abandoned"
                          /\ u \notin T => old[u] = turns[u]
    BY <1>2, WithStatusType
<1> HIDE DEF old
<1>7. turns'[n].session = s /\ turns'[n].status = "running"
    BY <1>5, <1>6
<1>8. "abandoned" \notin {"running"} \cup Parked
    BY DEF Parked
<1>9. \A t \in Turns : t # n =>
        /\ turns'[t].session = turns[t].session
        /\ \/ turns'[t] = turns[t]
           \/ turns[t].status \in Parked /\ turns'[t].status = "abandoned"
        /\ turns'[t].session = s => turns'[t].status \notin {"running"} \cup Parked
    <2> SUFFICES ASSUME NEW t \in Turns, t # n
                 PROVE  /\ turns'[t].session = turns[t].session
                        /\ \/ turns'[t] = turns[t]
                           \/ turns[t].status \in Parked /\ turns'[t].status = "abandoned"
                        /\ turns'[t].session = s =>
                             turns'[t].status \notin {"running"} \cup Parked
        OBVIOUS
    <2>1. turns'[t] = old[t]
        BY <1>5, <1>6
    <2>2. CASE t \in T
        BY <2>1, <2>2, <1>3, <1>6, <1>8
    <2>3. CASE t \notin T
        BY <2>1, <2>3, <1>4, <1>6
    <2> QED
        BY <2>2, <2>3
<1>10. Submitted(s, n)
    BY <1>1, <1>7, <1>9, Zenon DEF Submitted
<1> QED
    BY <1>10

LEMMA StepOneUnanswered ==
    ASSUME TypeInv, OneUnanswered, [Next]_vars
    PROVE  OneUnanswered'
<1> SUFFICES ASSUME NEW t \in Turns, NEW u \in Turns,
                    turns'[t].status \in {"running"} \cup Parked,
                    turns'[u].status \in {"running"} \cup Parked,
                    turns'[t].session = turns'[u].session
             PROVE  t = u
    BY DEF OneUnanswered
<1>1. CASE \A x \in Turns : RowKept(x)
    <2>1. /\ Open(t) /\ Open(u)
          /\ turns[t].session = turns[u].session
        BY <1>1 DEF RowKept
    <2> QED
        BY <2>1 DEF OneUnanswered, Open
<1>2. CASE SubmitTurn
    <2>1. PICK s \in Sessions, n \in Turns : Submitted(s, n)
        BY <1>2, SubmitEffect
    <2>2. t = n \/ turns'[t].session # s
        BY <2>1 DEF Submitted
    <2>3. u = n \/ turns'[u].session # s
        BY <2>1 DEF Submitted
    <2>4. CASE turns'[t].session = s
        BY <2>2, <2>3, <2>4
    <2>5. CASE turns'[t].session # s
        <3>1. t # n /\ u # n
            BY <2>1, <2>5 DEF Submitted
        <3>2. "abandoned" \notin {"running"} \cup Parked
            BY DEF Parked
        <3>3. turns'[t] = turns[t] /\ turns'[u] = turns[u]
            BY <2>1, <3>1, <3>2 DEF Submitted
        <3> QED
            BY <3>3 DEF OneUnanswered
    <2> QED
        BY <2>4, <2>5
<1> QED
    BY <1>1, <1>2, RowsKept

(* No interleaving of submits, claims of the resume worker, late           *)
(* conclusions of old runs, sweeps and prunes ever gives a session two     *)
(* turns that are running or parked: create_turn supersedes in the same    *)
(* transaction that inserts, and no other statement reopens a closed turn. *)
THEOREM OneUnansweredHolds == Spec => []OneUnanswered
<1>1. Init => OneUnanswered
    <2> SUFFICES ASSUME Init PROVE OneUnanswered
        OBVIOUS
    <2>1. \A t \in Turns : turns[t].status = "none"
        BY DEF Init
    <2> QED
        BY <2>1 DEF OneUnanswered, Parked
<1>2. TypeInv /\ OneUnanswered /\ [Next]_vars => OneUnanswered'
    BY StepOneUnanswered
<1> QED
    BY <1>1, <1>2, InitType, StepType, PTL DEF Spec

LEMMA StepVerdictsFinal ==
    ASSUME TypeInv, [Next]_vars
    PROVE  \A t \in Turns : Settled(t) =>
               \/ turns'[t] = turns[t]
               \/ turns'[t].status = "deleted"
               \/ turns[t].status = "interrupted" /\ turns'[t].status = "abandoned"
<1> SUFFICES ASSUME NEW t \in Turns, Settled(t)
             PROVE  \/ turns'[t] = turns[t]
                    \/ turns'[t].status = "deleted"
                    \/ turns[t].status = "interrupted" /\ turns'[t].status = "abandoned"
    OBVIOUS
<1>1. CASE \A x \in Turns : RowKept(x)
    BY <1>1 DEF RowKept
<1>2. CASE SubmitTurn
    <2>1. PICK s \in Sessions, n \in Turns : Submitted(s, n)
        BY <1>2, SubmitEffect
    <2>2. t # n
        BY <2>1 DEF Submitted, Settled
    <2>3. turns[t].status \in Parked => turns[t].status = "interrupted"
        BY DEF Settled, Parked
    <2> QED
        BY <2>1, <2>2, <2>3 DEF Submitted
<1> QED
    BY <1>1, <1>2, RowsKept

(* A verdict is final: no late conclusion of an old run, no claim by a     *)
(* pass that read the row earlier and no sweep changes a settled turn.     *)
THEOREM VerdictsFinalHolds == Spec => VerdictsFinal
<1>1. TypeInv /\ [Next]_vars =>
        [\A t \in Turns : Settled(t) =>
            \/ turns'[t] = turns[t]
            \/ turns'[t].status = "deleted"
            \/ turns[t].status = "interrupted" /\ turns'[t].status = "abandoned"]_vars
    BY StepVerdictsFinal
<1> QED
    BY <1>1, InitType, StepType, PTL DEF Spec, VerdictsFinal

-----------------------------------------------------------------------------
(* A step that registers nothing, and after which every task that held an  *)
(* entry that is left still holds it.                                      *)
EntriesKept ==
    /\ registry' \subseteq registry
    /\ \A r \in Runs : runs[r].pc # "none" /\ runs[r].turn \in registry' =>
                         runs'[r].pc # "none" /\ runs'[r].turn = runs[r].turn

LEMMA EntriesKeptSuffices ==
    ASSUME NoLeakedEntry, EntriesKept
    PROVE  NoLeakedEntry'
<1> SUFFICES ASSUME NEW t \in registry'
             PROVE  \E r \in Runs : runs'[r].pc # "none" /\ runs'[r].turn = t
    BY DEF NoLeakedEntry
<1>1. PICK r \in Runs : runs[r].pc # "none" /\ runs[r].turn = t
    BY DEF NoLeakedEntry, EntriesKept
<1> QED
    BY <1>1 DEF EntriesKept

LEMMA GotoKeeps ==
    ASSUME TypeInv, NEW r \in Runs, NEW pc, pc # "none", Goto(r, pc),
           registry' \subseteq registry
    PROVE  EntriesKept
BY DEF TypeInv, TypeOK, RunTask, Goto, EntriesKept

LEMMA FinishKeeps ==
    ASSUME TypeInv, NEW r \in Runs, NEW v, NEW e, Finish(r, v, e),
           registry' = registry
    PROVE  EntriesKept
<1> DEFINE pc == IF e THEN "error_row" ELSE "finalize"
<1>1. pc # "none" /\ runs' = [runs EXCEPT ![r].pc = pc, ![r].verdict = v]
    BY DEF Finish
<1> HIDE DEF pc
<1> QED
    BY <1>1 DEF TypeInv, TypeOK, RunTask, EntriesKept

LEMMA IdleKeeps ==
    ASSUME TypeInv, NEW r \in Runs, runs' = [runs EXCEPT ![r] = IdleRun],
           registry' \subseteq registry, runs[r].turn \notin registry'
    PROVE  EntriesKept
BY DEF TypeInv, TypeOK, EntriesKept

(* A task that is spawned holds its entry, and takes an idle slot.         *)
LEMMA SpawnKeeps ==
    ASSUME TypeInv, NoLeakedEntry, NEW t \in Turns, NEW b \in BOOLEAN, Spawn(t, b)
    PROVE  NoLeakedEntry'
<1>1. PICK q \in Runs : /\ runs[q].pc = "none"
                        /\ registry' = registry \cup {t}
                        /\ runs' = [runs EXCEPT ![q] = NewRun(t, b)]
    BY Zenon DEF Spawn, FreeRun
<1>2. /\ runs'[q].pc # "none" /\ runs'[q].turn = t
      /\ \A r \in Runs : r # q => runs'[r] = runs[r]
    BY <1>1 DEF NewRun, TypeInv, TypeOK
<1>3. ASSUME NEW x \in registry'
      PROVE  \E r \in Runs : runs'[r].pc # "none" /\ runs'[r].turn = x
    <2>1. CASE x = t
        BY <1>2, <2>1
    <2>2. CASE x # t
        <3>1. PICK r \in Runs : runs[r].pc # "none" /\ runs[r].turn = x
            BY <1>1, <2>2 DEF NoLeakedEntry
        <3>2. runs'[r] = runs[r]
            BY <1>1, <1>2, <3>1
        <3> QED
            BY <3>1, <3>2
    <2> QED
        BY <2>1, <2>2
<1> QED
    BY <1>3 DEF NoLeakedEntry

LEMMA RunKeepsEntries ==
    ASSUME TypeInv, NEW r \in Runs, RunStep(r) \/ RunDies(r)
    PROVE  EntriesKept
<1> USE DEF tables, handlers, resume, weather, ghosts
<1>1. CASE RunStart(r)
    <2>1. CASE \E pc \in {"park", "gate"} : Goto(r, pc)
        BY <1>1, <2>1, GotoKeeps DEF RunStart
    <2>2. CASE Finish(r, "failed", TRUE)
        BY <1>1, <2>2, FinishKeeps DEF RunStart
    <2> QED
        BY <1>1, <2>1, <2>2 DEF RunStart
<1>2. CASE RunGate(r)
    BY <1>2, GotoKeeps, FinishKeeps DEF RunGate
<1>3. CASE AgentDone(r)
    BY <1>3, FinishKeeps DEF AgentDone
<1>4. CASE AgentDown(r)
    BY <1>4, GotoKeeps, FinishKeeps DEF AgentDown
<1>5. CASE AgentLlmError(r)
    BY <1>5, FinishKeeps DEF AgentLlmError
<1>6. CASE AgentHardError(r)
    BY <1>6, FinishKeeps DEF AgentHardError
<1>7. CASE FinishErrorRow(r)
    BY <1>7, GotoKeeps DEF FinishErrorRow
<1>8. CASE FinalizeTurn(r) \/ ParkWaiting(r)
    BY <1>8, GotoKeeps DEF FinalizeTurn, ParkWaiting, Conclude
<1>9. CASE RemoveEntry(r)
    BY <1>9, GotoKeeps DEF RemoveEntry
<1>10. CASE GuardCheck(r)
    BY <1>10, GotoKeeps, IdleKeeps DEF GuardCheck
<1>11. CASE GuardFinalize(r)
    BY <1>11, GotoKeeps DEF GuardFinalize
<1>12. CASE GuardRow(r)
    BY <1>12, IdleKeeps DEF GuardRow
<1>13. CASE RunDies(r)
    BY <1>13 DEF RunDies, TypeInv, TypeOK, RunTask, EntriesKept
<1> QED
    BY <1>1, <1>2, <1>3, <1>4, <1>5, <1>6, <1>7, <1>8, <1>9, <1>10, <1>11, <1>12,
       <1>13 DEF RunStep

LEMMA StepNoLeakedEntry ==
    ASSUME TypeInv, NoLeakedEntry, [Next]_vars
    PROVE  NoLeakedEntry'
<1> USE DEF tables, handlers, resume, weather, ghosts
<1>1. CASE \E r \in Runs : RunStep(r) \/ RunDies(r)
    BY <1>1, RunKeepsEntries, EntriesKeptSuffices
<1>2. CASE SubmitSpawn
    <2>1. PICK t \in unspawned : Spawn(t, FALSE)
        BY <1>2, Zenon DEF SubmitSpawn
    <2> QED
        BY <2>1, SpawnKeeps DEF TypeInv, TypeOK
<1>3. CASE ResumeSpawn
    <2>1. PICK t \in claimed : Spawn(t, TRUE)
        BY <1>3, Zenon DEF ResumeSpawn
    <2> QED
        BY <2>1, SpawnKeeps DEF TypeInv, TypeOK
<1>4. CASE Exit \/ Crash
    BY <1>4 DEF Exit, Crash, LoseProcess, NoLeakedEntry
<1>5. CASE \/ CreateSession \/ SubmitTurn \/ DraftRefused \/ ClientGone
           \/ DeleteCheck \/ DeleteSession \/ ResumePass \/ ResumeClaim
           \/ ProbeTick \/ ProbeNote \/ BackendFails \/ BackendRecovers
           \/ AdminSavesLlm \/ BootSweep \/ BootSeed \/ Stop \/ UNCHANGED vars
    <2>1. registry' = registry /\ runs' = runs
        BY <1>5 DEF CreateSession, SubmitTurn, DraftRefused, ClientGone, DeleteCheck,
                    DeleteSession, ResumePass, ResumeClaim, ProbeTick, ProbeNote,
                    BackendFails, BackendRecovers, AdminSavesLlm, BootSweep, BootSeed,
                    Stop, vars
    <2> QED
        BY <2>1 DEF NoLeakedEntry
<1> QED
    BY <1>1, <1>2, <1>3, <1>4, <1>5 DEF Next

(* A registry entry never outlives the tasks of its turn: of two runs of   *)
(* one turn, whichever removes the entry, neither leaves it behind.        *)
THEOREM NoLeakedEntryHolds == Spec => []NoLeakedEntry
<1>1. Init => NoLeakedEntry
    BY DEF Init, NoLeakedEntry
<1>2. TypeInv /\ NoLeakedEntry /\ [Next]_vars => NoLeakedEntry'
    BY StepNoLeakedEntry
<1> QED
    BY <1>1, <1>2, InitType, StepType, PTL DEF Spec

-----------------------------------------------------------------------------
(* Which statements give a row a verdict or delete it: the runner's own    *)
(* conclusion and the guard's, of a row that is still running, and the     *)
(* two deletions.                                                          *)
ConcludedBy(r, t) ==
    /\ runs[r].turn = t /\ turns[t].status = "running"
    /\ \/ FinalizeTurn(r) /\ turns'[t].status = runs[r].verdict
       \/ GuardFinalize(r) /\ turns'[t].status = PathVerdict(r)

LEMMA SetFromRunningEffect ==
    ASSUME TypeInv, NEW u \in Turns, NEW st \in Statuses, SetFromRunning(u, st),
           NEW t \in Turns, turns'[t] # turns[t]
    PROVE  t = u /\ turns[t].status = "running" /\ turns'[t].status = st
<1>1. turns \in [Turns -> TurnRow]
    BY DEF TypeInv, TypeOK
<1> QED
    BY <1>1, WithStatusType DEF SetFromRunning

LEMMA WhoConcludes ==
    ASSUME TypeInv, [Next]_vars, NEW t \in Turns,
           turns'[t].status \in {"done", "failed", "deleted"},
           turns'[t].status # turns[t].status
    PROVE  \/ turns'[t].status = "deleted" /\ (CreateSession \/ DeleteSession)
           \/ turns'[t].status # "deleted" /\ \E r \in Runs : ConcludedBy(r, t)
<1> USE DEF tables, handlers, resume, weather, ghosts
<1>0. turns \in [Turns -> TurnRow] /\ turns[t] \in TurnRow
    BY DEF TypeInv, TypeOK
<1>1. ASSUME NEW r \in Runs, RunStep(r) \/ RunDies(r)
      PROVE  turns'[t].status # "deleted" /\ ConcludedBy(r, t)
    <2>0. runs[r].pc # "none" => runs[r].turn \in Turns
        BY DEF TypeInv, BusyRunsHaveTurns
    <2>1. Verdicts \subseteq Statuses \ {"deleted"} /\ "waiting_backend" \in Statuses
        BY DEF Verdicts, Statuses
    <2>2. CASE FinalizeTurn(r)
        <3>1. runs[r].verdict \in Statuses \ {"deleted"}
            BY <2>1 DEF TypeInv, TypeOK, RunTask
        <3> QED
            BY <2>0, <2>2, <3>1, SetFromRunningEffect DEF FinalizeTurn, Conclude, ConcludedBy
    <2>3. CASE ParkWaiting(r)
        BY <2>0, <2>1, <2>3, SetFromRunningEffect DEF ParkWaiting, Conclude
    <2>4. CASE GuardFinalize(r)
        <3>1. PathVerdict(r) \in Statuses \ {"deleted"}
            BY DEF PathVerdict, Statuses
        <3> QED
            BY <2>0, <2>4, <3>1, SetFromRunningEffect DEF GuardFinalize, ConcludedBy
    <2>5. CASE \/ RunStart(r) \/ RunGate(r) \/ AgentDone(r) \/ AgentDown(r)
               \/ AgentLlmError(r) \/ AgentHardError(r) \/ FinishErrorRow(r)
               \/ RemoveEntry(r) \/ GuardCheck(r) \/ GuardRow(r) \/ RunDies(r)
        <3>1. turns' = turns
            BY <2>5 DEF RunStart, RunGate, AgentDone, AgentDown, AgentLlmError,
                        AgentHardError, FinishErrorRow, RemoveEntry, GuardCheck,
                        GuardRow, RunDies
        <3> QED
            BY <3>1
    <2> QED
        BY <1>1, <2>2, <2>3, <2>4, <2>5 DEF RunStep
<1>2. CASE CreateSession \/ DeleteSession
    <2>1. PICK T : turns' = WithStatus(T, "deleted")
        BY <1>2, Zenon DEF CreateSession, DeleteSession, DeleteSessions
    <2>2. turns'[t].status = "deleted"
        BY <1>0, <2>1, WithStatusType DEF Statuses
    <2> QED
        BY <1>2, <2>2
<1>3. ~SubmitTurn
    <2> SUFFICES ASSUME SubmitTurn PROVE FALSE
        OBVIOUS
    <2>1. PICK s \in Sessions, n \in Turns : Submitted(s, n)
        BY SubmitEffect
    <2> QED
        BY <2>1 DEF Submitted
<1>4. ~ResumeClaim
    <2> SUFFICES ASSUME ResumeClaim PROVE FALSE
        OBVIOUS
    <2>1. PICK p \in supply : \/ turns' = turns
                              \/ turns' = ClaimWaiting(p[1])
                              \/ turns' = ClaimResumable(p[1])
        BY Zenon DEF ResumeClaim
    <2>2. p[1] \in Turns
        BY DEF TypeInv, TypeOK
    <2>3. turns'[t] # turns[t] => turns'[t].status = "running"
        BY <2>1, <2>2, ClaimEffect
    <2> QED
        BY <2>3
<1>5. ~BootSweep
    <2> SUFFICES ASSUME BootSweep PROVE FALSE
        OBVIOUS
    <2>1. turns' = turns \/ turns' = [u \in Turns |-> Swept(u)]
        BY DEF BootSweep
    <2>2. turns'[t] # turns[t] => turns'[t].status \in Parked
        BY <1>0, <2>1 DEF Swept, TurnRow
    <2> QED
        BY <2>2 DEF Parked
<1>6. CASE \/ DraftRefused \/ SubmitSpawn \/ ClientGone \/ DeleteCheck \/ ResumePass
           \/ ResumeSpawn \/ ProbeTick \/ ProbeNote \/ BackendFails \/ BackendRecovers
           \/ AdminSavesLlm \/ BootSeed \/ Stop \/ Exit \/ Crash \/ UNCHANGED vars
    <2>1. turns' = turns
        BY <1>6 DEF DraftRefused, SubmitSpawn, ClientGone, DeleteCheck, ResumePass,
                    ResumeSpawn, ProbeTick, ProbeNote, BackendFails, BackendRecovers,
                    AdminSavesLlm, BootSeed, Stop, Exit, Crash, LoseProcess, vars
    <2> QED
        BY <2>1
<1> QED
    BY <1>1, <1>2, <1>3, <1>4, <1>5, <1>6 DEF Next

LEMMA StepDebtsSurvive ==
    ASSUME TypeInv, [Next]_vars, NEW t \in Turns, Owes(t), turns'[t].status = "deleted"
    PROVE  turns[t].session \in deleting
<1>0. turns \in [Turns -> TurnRow] /\ "deleted" \in Statuses
    BY DEF TypeInv, TypeOK, Statuses
<1>1. turns[t].status # "deleted"
    BY DEF Owes, Resumable
<1>2. CreateSession \/ DeleteSession
    BY <1>1, WhoConcludes
<1>3. CASE CreateSession
    <2>1. PICK P \in SUBSET {p \in Sessions : Prunable(p)} :
            turns' = WithStatus(UNION {TurnsOf(p) : p \in P}, "deleted")
        BY <1>3, Zenon DEF CreateSession
    <2>2. t \in UNION {TurnsOf(p) : p \in P}
        BY <1>0, <1>1, <2>1, WithStatusType
    <2>3. PICK p \in P : t \in TurnsOf(p)
        BY <2>2
    <2>4. Prunable(p)
        BY <2>1
    <2> QED
        BY <2>3, <2>4 DEF Prunable, Owes
<1>4. CASE DeleteSession
    <2>1. PICK s \in deleting :
            turns' = WithStatus(UNION {TurnsOf(p) : p \in {s} \cap LiveSessions}, "deleted")
        BY <1>4, Zenon DEF DeleteSession, DeleteSessions
    <2>2. t \in UNION {TurnsOf(p) : p \in {s} \cap LiveSessions}
        BY <1>0, <1>1, <2>1, WithStatusType
    <2> QED
        BY <2>2 DEF TurnsOf
<1> QED
    BY <1>2, <1>3, <1>4

(* The prune at the session cap, which the creation of any session runs,   *)
(* takes no turn that is running, parked for the backend or still to be    *)
(* resumed, whatever happens between its reads: only a session its user    *)
(* asked to delete takes such a turn along.                                *)
THEOREM DebtsSurvivePruneHolds == Spec => DebtsSurvivePrune
<1>1. TypeInv /\ [Next]_vars =>
        [\A t \in Turns :
            Owes(t) /\ turns'[t].status = "deleted" => turns[t].session \in deleting]_vars
    BY StepDebtsSurvive
<1> QED
    BY <1>1, InitType, StepType, PTL DEF Spec, DebtsSurvivePrune

-----------------------------------------------------------------------------
(* A verdict and its transcript row.  The row is there, or the history     *)
(* says that it could not be written.                                      *)
Told(t, kind) == kind \in rows[t] \/ t \in unlogged

(* A concluded turn is told, or the guard that failed it is about to tell. *)
RowTells(t) ==
    /\ turns[t].status = "done" => Told(t, "reply")
    /\ turns[t].status = "failed" =>
         \/ Told(t, "error")
         \/ \E r \in Runs : runs[r].pc = "guard_row" /\ runs[r].turn = t

(* A task on its way to its verdict has told it, unless the session is     *)
(* gone; the error row is never written for a turn that is done.           *)
RunTells(r) ==
    /\ runs[r].pc = "error_row" => runs[r].verdict # "done"
    /\ runs[r].pc = "finalize" =>
         \/ turns[runs[r].turn].status = "deleted"
         \/ /\ runs[r].verdict = "done" => Told(runs[r].turn, "reply")
            /\ runs[r].verdict = "failed" => Told(runs[r].turn, "error")

Tells == (\A t \in Turns : RowTells(t)) /\ (\A r \in Runs : RunTells(r))

(* Nothing takes a transcript row back.                                    *)
LEMMA AppendTells ==
    ASSUME TypeInv, NEW t \in Turns, NEW k \in {"reply", "error"}, AppendRow(t, k)
    PROVE  /\ turns[t].status = "deleted" \/ Told(t, k)'
           /\ unlogged \subseteq unlogged'
           /\ \A u \in Turns : rows[u] \subseteq rows'[u]
BY DEF TypeInv, TypeOK, AppendRow, CanAppend, Told

LEMMA ToldStays ==
    ASSUME TypeInv, [Next]_vars, NEW t \in Turns, NEW k, Told(t, k)
    PROVE  Told(t, k)'
<1> USE DEF tables, handlers, resume, weather, ghosts
<1>0. ASSUME unlogged \subseteq unlogged', \A u \in Turns : rows[u] \subseteq rows'[u]
      PROVE  Told(t, k)'
    BY <1>0 DEF Told
<1>1. ASSUME NEW r \in Runs, RunStep(r) \/ RunDies(r)
      PROVE  Told(t, k)'
    <2>0. runs[r].pc # "none" => runs[r].turn \in Turns
        BY DEF TypeInv, BusyRunsHaveTurns
    <2>1. CASE \/ AgentDone(r) \/ AgentHardError(r) \/ FinishErrorRow(r) \/ GuardRow(r)
        <3>1. runs[r].turn \in Turns
            BY <2>0, <2>1 DEF AgentDone, AgentHardError, FinishErrorRow, GuardRow
        <3>2. \/ rows' = rows /\ unlogged' = unlogged
              \/ \E kind \in {"reply", "error"} : AppendRow(runs[r].turn, kind)
            BY <2>1 DEF AgentDone, AgentHardError, FinishErrorRow, GuardRow
        <3> QED
            BY <1>0, <3>1, <3>2, AppendTells
    <2>2. CASE \/ RunStart(r) \/ RunGate(r) \/ AgentDown(r) \/ AgentLlmError(r)
               \/ FinalizeTurn(r) \/ ParkWaiting(r) \/ RemoveEntry(r) \/ GuardCheck(r)
               \/ GuardFinalize(r) \/ RunDies(r)
        <3>1. rows' = rows /\ unlogged' = unlogged
            BY <2>2 DEF RunStart, RunGate, AgentDown, AgentLlmError, FinalizeTurn,
                        ParkWaiting, Conclude, RemoveEntry, GuardCheck, GuardFinalize,
                        RunDies
        <3> QED
            BY <1>0, <3>1
    <2> QED
        BY <1>1, <2>1, <2>2 DEF RunStep
<1>2. CASE Exit \/ Crash
    BY <1>2 DEF Exit, Crash, LoseProcess, Told
<1>3. CASE \/ CreateSession \/ SubmitTurn \/ DraftRefused \/ SubmitSpawn \/ ClientGone
           \/ DeleteCheck \/ DeleteSession \/ ResumePass \/ ResumeClaim \/ ResumeSpawn
           \/ ProbeTick \/ ProbeNote \/ BackendFails \/ BackendRecovers
           \/ AdminSavesLlm \/ BootSweep \/ BootSeed \/ Stop \/ UNCHANGED vars
    <2>1. rows' = rows /\ unlogged' = unlogged
        BY <1>3 DEF CreateSession, SubmitTurn, DraftRefused, SubmitSpawn, ClientGone,
                    DeleteCheck, DeleteSession, ResumePass, ResumeClaim, ResumeSpawn,
                    ProbeTick, ProbeNote, BackendFails, BackendRecovers, AdminSavesLlm,
                    BootSweep, BootSeed, Stop, vars
    <2> QED
        BY <1>0, <2>1
<1> QED
    BY <1>1, <1>2, <1>3 DEF Next

LEMMA DeletedStays ==
    ASSUME TypeInv, [Next]_vars, NEW t \in Turns, turns[t].status = "deleted"
    PROVE  turns'[t].status = "deleted"
<1>1. Settled(t) /\ turns[t].status # "interrupted"
    BY DEF Settled
<1> QED
    BY <1>1, StepVerdictsFinal

(* What a step may do to a task that is not its own: nothing, unless it    *)
(* starts in a free slot or goes with the process.                         *)
TaskLeftAlone(r) ==
    \/ runs'[r] = runs[r]
    \/ runs[r].pc = "none" /\ runs'[r].pc = "start"
    \/ (Exit \/ Crash) /\ runs'[r].pc = "none"

LEMMA SpawnFrame ==
    ASSUME TypeInv, NEW t \in Turns, NEW b \in BOOLEAN, Spawn(t, b), NEW r \in Runs
    PROVE  TaskLeftAlone(r)
<1>1. PICK q \in Runs : /\ runs[q].pc = "none"
                        /\ runs' = [runs EXCEPT ![q] = NewRun(t, b)]
    BY Zenon DEF Spawn, FreeRun
<1>2. runs \in [Runs -> RunTask]
    BY DEF TypeInv, TypeOK
<1> QED
    BY <1>1, <1>2 DEF NewRun, TaskLeftAlone

LEMMA OtherTasks ==
    ASSUME TypeInv, [Next]_vars, NEW r \in Runs
    PROVE  RunStep(r) \/ RunDies(r) \/ TaskLeftAlone(r)
<1> USE DEF tables, handlers, resume, weather, ghosts
<1>0. runs \in [Runs -> RunTask]
    BY DEF TypeInv, TypeOK
<1>1. ASSUME NEW q \in Runs, q # r, RunStep(q) \/ RunDies(q)
      PROVE  runs'[r] = runs[r]
    <2>1. ASSUME NEW pc, Goto(q, pc) PROVE runs'[r] = runs[r]
        BY <1>0, <1>1, <2>1 DEF Goto
    <2>2. ASSUME NEW v, NEW e, Finish(q, v, e) PROVE runs'[r] = runs[r]
        BY <1>0, <1>1, <2>2 DEF Finish
    <2>3. CASE RunDies(q)
        BY <1>0, <1>1, <2>3 DEF RunDies
    <2>4. CASE GuardCheck(q) \/ GuardRow(q)
        BY <1>0, <1>1, <2>1, <2>4 DEF GuardCheck, GuardRow
    <2>5. CASE \/ FinishErrorRow(q) \/ FinalizeTurn(q) \/ ParkWaiting(q) \/ RemoveEntry(q)
               \/ GuardFinalize(q)
        BY <2>1, <2>5 DEF FinishErrorRow, FinalizeTurn, ParkWaiting, Conclude,
                          RemoveEntry, GuardFinalize
    <2>6. CASE RunStart(q) \/ RunGate(q) \/ AgentDown(q)
        BY <2>1, <2>2, <2>6 DEF RunStart, RunGate, AgentDown
    <2>7. CASE AgentDone(q) \/ AgentLlmError(q) \/ AgentHardError(q)
        BY <2>2, <2>7 DEF AgentDone, AgentLlmError, AgentHardError
    <2> QED
        BY <1>1, <2>3, <2>4, <2>5, <2>6, <2>7 DEF RunStep
<1>2. CASE SubmitSpawn
    BY <1>2, SpawnFrame DEF SubmitSpawn, TypeInv, TypeOK
<1>3. CASE ResumeSpawn
    BY <1>3, SpawnFrame DEF ResumeSpawn, TypeInv, TypeOK
<1>4. CASE Exit \/ Crash
    BY <1>4 DEF Exit, Crash, LoseProcess, IdleRun, TaskLeftAlone
<1>5. CASE \/ CreateSession \/ SubmitTurn \/ DraftRefused \/ ClientGone
           \/ DeleteCheck \/ DeleteSession \/ ResumePass \/ ResumeClaim
           \/ ProbeTick \/ ProbeNote \/ BackendFails \/ BackendRecovers
           \/ AdminSavesLlm \/ BootSweep \/ BootSeed \/ Stop \/ UNCHANGED vars
    <2>1. runs' = runs
        BY <1>5 DEF CreateSession, SubmitTurn, DraftRefused, ClientGone, DeleteCheck,
                    DeleteSession, ResumePass, ResumeClaim, ProbeTick, ProbeNote,
                    BackendFails, BackendRecovers, AdminSavesLlm, BootSweep, BootSeed,
                    Stop, vars
    <2> QED
        BY <2>1 DEF TaskLeftAlone
<1> QED
    BY <1>1, <1>2, <1>3, <1>4, <1>5 DEF Next, TaskLeftAlone

(* A task that enters the last two steps before its verdict tells first.   *)
LEMMA OwnStepTells ==
    ASSUME TypeInv, NEW r \in Runs, RunTells(r), RunStep(r) \/ RunDies(r)
    PROVE  RunTells(r)'
<1> USE DEF tables, handlers, resume, weather, ghosts
<1>t. PICK t : t = runs[r].turn
    OBVIOUS
<1>0. /\ runs \in [Runs -> RunTask]
      /\ runs[r].pc # "none" => t \in Turns
    BY <1>t DEF TypeInv, TypeOK, BusyRunsHaveTurns
<1>1. ASSUME runs'[r].pc \notin {"error_row", "finalize"}
      PROVE  RunTells(r)'
    BY <1>1 DEF RunTells
<1>2. ASSUME NEW v \in Verdicts \ {"done"}, Finish(r, v, TRUE)
      PROVE  RunTells(r)'
    <2>1. runs'[r].pc = "error_row" /\ runs'[r].verdict = v
        BY <1>0, <1>2 DEF Finish, RunTask
    <2> QED
        BY <2>1 DEF RunTells
<1>3. ASSUME NEW v, Finish(r, v, FALSE), turns' = turns,
             \/ turns[t].status = "deleted"
             \/ /\ v = "done" => Told(t, "reply")'
                /\ v = "failed" => Told(t, "error")'
      PROVE  RunTells(r)'
    <2>1. runs'[r].pc = "finalize" /\ runs'[r].verdict = v /\ runs'[r].turn = t
        BY <1>t, <1>0, <1>3 DEF Finish, RunTask
    <2> QED
        BY <1>3, <2>1 DEF RunTells
<1>4. ASSUME NEW pc, pc \notin {"error_row", "finalize"}, Goto(r, pc)
      PROVE  RunTells(r)'
    BY <1>0, <1>1, <1>4 DEF Goto, RunTask
<1>5. PathVerdict(r) \in Verdicts \ {"done"} /\ "failed" \in Verdicts \ {"done"}
    BY DEF PathVerdict, Verdicts
<1>6. CASE RunStart(r)
    BY <1>2, <1>4, <1>5, <1>6 DEF RunStart
<1>7. CASE RunGate(r)
    BY <1>t, <1>2, <1>3, <1>4, <1>5, <1>7 DEF RunGate
<1>8. CASE AgentDone(r)
    <2>1. t \in Turns
        BY <1>0, <1>8 DEF AgentDone
    <2>2. turns[t].status = "deleted" \/ Told(t, "reply")'
        BY <1>t, <1>8, <2>1, AppendTells DEF AgentDone
    <2> QED
        BY <1>3, <1>8, <2>2 DEF AgentDone
<1>9. CASE AgentDown(r) \/ AgentLlmError(r)
    BY <1>2, <1>4, <1>5, <1>9 DEF AgentDown, AgentLlmError
<1>10. CASE AgentHardError(r)
    <2>1. t \in Turns /\ turns' = turns
        BY <1>0, <1>10 DEF AgentHardError
    <2>2. CASE AppendRow(t, "error") /\ Finish(r, "failed", FALSE)
        BY <1>3, <2>1, <2>2, AppendTells
    <2>3. CASE Finish(r, "failed", TRUE)
        BY <1>2, <1>5, <2>3
    <2> QED
        BY <1>t, <1>10, <2>2, <2>3 DEF AgentHardError
<1>11. CASE FinishErrorRow(r)
    <2>1. t \in Turns /\ turns' = turns /\ runs[r].verdict # "done"
        BY <1>0, <1>11 DEF FinishErrorRow, RunTells
    <2>2. turns[t].status = "deleted" \/ Told(t, "error")'
        BY <1>t, <1>11, <2>1, AppendTells DEF FinishErrorRow
    <2>3. /\ runs'[r].pc = "finalize" /\ runs'[r].turn = t
          /\ runs'[r].verdict = runs[r].verdict
        BY <1>t, <1>0, <1>11 DEF FinishErrorRow, Goto, RunTask
    <2> QED
        BY <2>1, <2>2, <2>3 DEF RunTells
<1>12. CASE FinalizeTurn(r) \/ ParkWaiting(r) \/ RemoveEntry(r) \/ GuardFinalize(r)
    BY <1>4, <1>12 DEF FinalizeTurn, ParkWaiting, Conclude, RemoveEntry, GuardFinalize
<1>13. CASE GuardCheck(r) \/ GuardRow(r)
    <2>1. CASE runs' = [runs EXCEPT ![r] = IdleRun]
        BY <1>0, <1>1, <2>1 DEF IdleRun
    <2>2. CASE Goto(r, "guard_finalize")
        BY <1>4, <2>2
    <2> QED
        BY <1>13, <2>1, <2>2 DEF GuardCheck, GuardRow
<1>14. CASE RunDies(r)
    BY <1>0, <1>1, <1>14 DEF RunDies, RunTask
<1> QED
    BY <1>6, <1>7, <1>8, <1>9, <1>10, <1>11, <1>12, <1>13, <1>14 DEF RunStep

LEMMA StepRunTells ==
    ASSUME TypeInv, Tells, [Next]_vars, NEW r \in Runs
    PROVE  RunTells(r)'
<1>1. CASE RunStep(r) \/ RunDies(r)
    BY <1>1, OwnStepTells DEF Tells
<1>2. CASE runs'[r] = runs[r]
    <2>1. CASE runs[r].pc = "finalize"
        <3>0. PICK t : t = runs[r].turn
            OBVIOUS
        <3>1. t \in Turns /\ RunTells(r)
            BY <2>1, <3>0 DEF TypeInv, BusyRunsHaveTurns, Tells
        <3>2. /\ turns[runs[r].turn].status = "deleted" =>
                   turns'[runs[r].turn].status = "deleted"
              /\ \A k : Told(t, k) => Told(t, k)'
            BY <3>0, <3>1, DeletedStays, ToldStays
        <3> QED
            BY <1>2, <2>1, <3>0, <3>1, <3>2 DEF RunTells
    <2>2. CASE runs[r].pc # "finalize"
        BY <1>2, <2>2 DEF RunTells, Tells
    <2> QED
        BY <2>1, <2>2
<1>3. CASE runs'[r].pc \in {"start", "none"}
    BY <1>3 DEF RunTells
<1> QED
    BY <1>1, <1>2, <1>3, OtherTasks DEF TaskLeftAlone

LEMMA StepRowTells ==
    ASSUME TypeInv, Tells, [Next]_vars, NEW t \in Turns
    PROVE  RowTells(t)'
<1> USE DEF tables, handlers, resume, weather, ghosts
<1>0. runs \in [Runs -> RunTask]
    BY DEF TypeInv, TypeOK
<1>1. ASSUME turns'[t].status # turns[t].status,
             turns'[t].status \in {"done", "failed"}
      PROVE  RowTells(t)'
    <2>1. PICK r \in Runs : ConcludedBy(r, t)
        BY <1>1, WhoConcludes
    <2>2. CASE FinalizeTurn(r) /\ turns'[t].status = runs[r].verdict
        <3>1. /\ runs[r].verdict = "done" => Told(t, "reply")
              /\ runs[r].verdict = "failed" => Told(t, "error")
            BY <2>1, <2>2 DEF ConcludedBy, FinalizeTurn, Tells, RunTells
        <3> QED
            BY <2>2, <3>1, ToldStays DEF RowTells
    <2>3. CASE GuardFinalize(r) /\ turns'[t].status = PathVerdict(r)
        <3>1. turns'[t].status # "done"
            BY <2>3 DEF PathVerdict
        <3>2. runs'[r].pc = "guard_row" /\ runs'[r].turn = t
            BY <1>0, <2>1, <2>3 DEF ConcludedBy, GuardFinalize, Goto, RunTask
        <3> QED
            BY <3>1, <3>2 DEF RowTells
    <2> QED
        BY <2>1, <2>2, <2>3 DEF ConcludedBy
<1>2. ASSUME turns'[t].status = turns[t].status, turns[t].status = "failed",
             ~Told(t, "error")
      PROVE  \/ Told(t, "error")'
             \/ \E r \in Runs : runs'[r].pc = "guard_row" /\ runs'[r].turn = t
    <2>1. PICK r \in Runs : runs[r].pc = "guard_row" /\ runs[r].turn = t
        BY <1>2 DEF Tells, RowTells
    <2>2. CASE TaskLeftAlone(r) /\ ~(Exit \/ Crash)
        <3>1. runs'[r] = runs[r]
            BY <2>1, <2>2 DEF TaskLeftAlone
        <3> QED
            BY <2>1, <3>1
    <2>3. CASE Exit \/ Crash
        <3>1. t \in unlogged'
            BY <2>1, <2>3 DEF Exit, Crash, LoseProcess
        <3> QED
            BY <3>1 DEF Told
    <2>4. CASE RunStep(r) \/ RunDies(r)
        <3>1. GuardRow(r)
            BY <2>1, <2>4 DEF RunStep, RunDies, RunStart, RunGate, AgentDone, AgentDown,
                   AgentLlmError, AgentHardError, FinishErrorRow, FinalizeTurn,
                   ParkWaiting, RemoveEntry, GuardCheck, GuardFinalize
        <3>2. AppendRow(t, "error")
            BY <2>1, <3>1 DEF GuardRow
        <3> QED
            BY <1>2, <3>2, AppendTells
    <2> QED
        BY <2>2, <2>3, <2>4, OtherTasks
<1>3. CASE turns'[t].status = turns[t].status
    <2>1. turns[t].status = "done" => Told(t, "reply")'
        BY ToldStays DEF Tells, RowTells
    <2> QED
        BY <1>2, <1>3, <2>1, ToldStays DEF RowTells
<1>4. CASE turns'[t].status # turns[t].status /\ turns'[t].status \notin {"done", "failed"}
    BY <1>4 DEF RowTells
<1> QED
    BY <1>1, <1>3, <1>4

(* A verdict is never silent: whatever panics, crashes and failing         *)
(* statements come between a run's last row and its conclusion, and        *)
(* whichever of the run and its guard concludes, a turn that nobody works  *)
(* on any more shows its reply or its error, or that very row is one the   *)
(* history knows to have been lost.                                        *)
THEOREM NoSilentVerdictHolds == Spec => []NoSilentVerdict
<1>1. Init => Tells
    <2> SUFFICES ASSUME Init PROVE Tells
        OBVIOUS
    <2>1. \A t \in Turns : turns[t].status = "none"
        BY DEF Init
    <2>2. \A r \in Runs : runs[r].pc = "none"
        BY DEF Init, IdleRun
    <2> QED
        BY <2>1, <2>2 DEF Tells, RowTells, RunTells
<1>2. TypeInv /\ Tells /\ [Next]_vars => Tells'
    BY StepRunTells, StepRowTells DEF Tells
<1>3. Tells => NoSilentVerdict
    BY DEF Tells, RowTells, Told, NoSilentVerdict
<1> QED
    BY <1>1, <1>2, <1>3, InitType, StepType, PTL DEF Spec
=============================================================================
