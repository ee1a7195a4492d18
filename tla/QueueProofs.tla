---------------------------- MODULE QueueProofs ----------------------------
(***************************************************************************)
(* Theorems about the two queues that carry a write further: MutationQueue,*)
(* for any number of items, users, attempts and crashes, whatever the      *)
(* backend does and whichever operations fail; and, in the second half,    *)
(* Vectors, for any number of paths, models, writers and queries.          *)
(***************************************************************************)
EXTENDS MutationQueue, Vectors, FiniteSetTheorems, TLAPS

-----------------------------------------------------------------------------
(* The mutation queue.  The inductive invariant speaks of one item at a    *)
(* time: the drain is one task and an enqueue call only touches its own    *)
(* item.                                                                   *)

Before   == {"idle", "refused", "counted"}   \* no row yet
Unstored == Before \cup {"row"}              \* no payload yet
Held     == {"claimed", "loaded", "agent", "fallback"}
Working  == Held \cup {"mark done"}
Ended    == {"tidy", "clean", "clean note"}

\* A payload is only missing from a row whose caller abandoned it after a
\* failed write, and was told so.
Safe(i) == payload[i] \/ ("disk" \in Faults /\ epc[i] = "errored")

\* What an enqueue call has done so far.
CallOK(i) ==
    /\ epc[i] \in Before => status[i] = "none"
    /\ status[i] = "none" => epc[i] \in Before \cup {"gone"}
    /\ epc[i] \in Unstored => ~payload[i]
    /\ epc[i] = "row" => status[i] \in {"staging", "dead"}
    /\ epc[i] \in {"blob", "noted"} => payload[i] \/ status[i] \in Terminal
    /\ epc[i] = "noted" => note[i] \/ status[i] \in Terminal
    /\ epc[i] \in {"abandon", "abandon_blob"} => "disk" \in Faults
    /\ epc[i] = "accepted" => status[i] \notin {"none", "staging"}

\* What a row that may be claimed, or is, has on disk.
RowOK(i) == status[i] \in {"pending", "running"} =>
    /\ Safe(i)
    /\ epc[i] \notin Unstored
    /\ i \in Adds /\ epc[i] = "accepted" => note[i]

\* What the drain knows of the item it works on: nobody but the item's own,
\* abandoned, enqueue call has changed the row since the claim.
DrainOK(i) ==
    /\ i \in todo => status[i] # "none" /\ epc[i] \notin Before
    /\ witem = i =>
        /\ wpc \in {"activate", "mark dead", "delete blob"} =>
              status[i] # "none" /\ epc[i] \notin Before
        /\ wpc = "activate" => epc[i] # "row" /\ (Safe(i) \/ status[i] \in Terminal)
        /\ wpc = "delete blob" => status[i] = "dead"
        /\ wpc \in Working =>
              /\ Safe(i) /\ epc[i] \notin Unstored
              /\ \/ status[i] = "running"
                 \/ status[i] = "dead" /\ epc[i] \in {"abandon_blob", "errored"}
        /\ wpc \in Ended => status[i] \in Terminal

\* An item that may still be integrated in this life of the process has been
\* integrated at most once in each life before.
CountOK(i) ==
    /\ applied[i] <= 1 + crashes
    /\ boot = "down" \/ status[i] \in {"none", "staging", "pending"}
          \/ (witem = i /\ wpc \in Held) => applied[i] <= crashes
    /\ status[i] = "done" \/ (witem = i /\ wpc = "mark done") => applied[i] > 0

ItemOK(i) == CallOK(i) /\ RowOK(i) /\ DrainOK(i) /\ CountOK(i)

\* The types the argument needs.
Typed ==
    /\ status \in [Items -> Statuses]
    /\ applied \in [Items -> Nat] /\ crashes \in Nat
    /\ epc \in [Items -> InFlight \cup {"idle", "refused", "accepted", "errored", "gone"}]
    /\ boot = "down" => wpc = "asleep"
    /\ wpc \in Working => witem \in Items

Flags == payload \in [Items -> BOOLEAN] /\ note \in [Items -> BOOLEAN]

Types == Typed /\ Flags

IInv == Types /\ \A i \in Items : ItemOK(i)

-----------------------------------------------------------------------------
\* The invariant holds at the start.
LEMMA InitOK == Init => IInv
<1> SUFFICES ASSUME Init PROVE IInv
  OBVIOUS
<1>1. Types
  <2>1. Typed
    BY DEF Init, Typed, Statuses, InFlight, Held, Working
  <2>2. Flags
    BY Zenon DEF Init, Flags
  <2> QED BY <2>1, <2>2 DEF Types
<1>2. ASSUME NEW i \in Items PROVE ItemOK(i)
  <2>1. /\ status[i] = "none" /\ ~payload[i] /\ epc[i] = "idle"
        /\ applied[i] = 0 /\ crashes = 0 /\ i \notin todo /\ witem # i
    BY <1>2, QueueAssumption DEF Init
  <2>2. applied[i] <= crashes /\ applied[i] <= 1 + crashes
    BY <2>1
  <2> QED
    BY <1>2, <2>1, <2>2
       DEF ItemOK, CallOK, RowOK, DrainOK, CountOK, Before, Unstored, Terminal
<1> QED BY <1>1, <1>2 DEF IInv

\* A step that changes nothing the invariant speaks of keeps it.
LEMMA QuietKeeps ==
    ASSUME IInv,
           UNCHANGED <<status, payload, note, applied, crashes, epc, boot, wpc, todo, witem>>
    PROVE  IInv'
BY ZenonT(30) DEF IInv, Types, Typed, Flags, ItemOK, CallOK, RowOK, DrainOK, CountOK, Safe

\* Every step of an enqueue call keeps it.
LEMMA EnqueueKeeps ==
    ASSUME IInv, NEW j \in Items, EnqueueStep(j)
    PROVE  IInv'
<1> USE DEF IInv, Types, Typed, Flags, ItemOK, Safe, Terminal, InFlight, Before, Unstored, Held, Working, Ended,
            table, files, env, task
<1>1. CASE EnqueueCheck(j)
  <2>1. Types'
    BY <1>1 DEF EnqueueCheck, Statuses, activate, mark_dead, delete_payload
  <2>2. ASSUME NEW i \in Items PROVE ItemOK(i)'
    BY <1>1, <2>2 DEF EnqueueCheck, Statuses, activate, mark_dead, delete_payload,
                     CallOK, RowOK, DrainOK, CountOK
  <2> QED BY <2>1, <2>2
<1>2. CASE EnqueueInsert(j)
  <2>1. Types'
    BY <1>2 DEF EnqueueInsert, Statuses, activate, mark_dead, delete_payload
  <2>2. ASSUME NEW i \in Items PROVE ItemOK(i)'
    BY <1>2, <2>2 DEF EnqueueInsert, Statuses, activate, mark_dead, delete_payload,
                     CallOK, RowOK, DrainOK, CountOK
  <2> QED BY <2>1, <2>2
<1>3. CASE WritePayload(j)
  <2>1. Types'
    BY <1>3 DEF WritePayload, Statuses, activate, mark_dead, delete_payload
  <2>2. ASSUME NEW i \in Items PROVE ItemOK(i)'
    BY <1>3, <2>2, ZenonT(30) DEF WritePayload, Statuses, activate, mark_dead, delete_payload,
                     CallOK, RowOK, DrainOK, CountOK
  <2> QED BY <2>1, <2>2
<1>4. CASE WriteNote(j)
  <2>1. Types'
    BY <1>4 DEF WriteNote, Statuses, activate, mark_dead, delete_payload
  <2>2. ASSUME NEW i \in Items PROVE ItemOK(i)'
    BY <1>4, <2>2, ZenonT(30) DEF WriteNote, Statuses, activate, mark_dead, delete_payload,
                     CallOK, RowOK, DrainOK, CountOK
  <2> QED BY <2>1, <2>2
<1>5. CASE EnqueueActivate(j)
  <2>1. Types'
    BY <1>5 DEF EnqueueActivate, Statuses, activate, mark_dead, delete_payload
  <2>2. ASSUME NEW i \in Items PROVE ItemOK(i)'
    BY <1>5, <2>2, ZenonT(30) DEF EnqueueActivate, Statuses, activate, mark_dead, delete_payload,
                     CallOK, RowOK, DrainOK, CountOK
  <2> QED BY <2>1, <2>2
<1>6. CASE AbandonMark(j)
  <2>1. Types'
    BY <1>6 DEF AbandonMark, Statuses, activate, mark_dead, delete_payload
  <2>2. ASSUME NEW i \in Items PROVE ItemOK(i)'
    BY <1>6, <2>2, ZenonT(30) DEF AbandonMark, Statuses, activate, mark_dead, delete_payload,
                     CallOK, RowOK, DrainOK, CountOK
  <2> QED BY <2>1, <2>2
<1>7. CASE AbandonDelete(j)
  <2>1. Types'
    BY <1>7 DEF AbandonDelete, Statuses, activate, mark_dead, delete_payload
  <2>2. ASSUME NEW i \in Items PROVE ItemOK(i)'
    BY <1>7, <2>2 DEF AbandonDelete, Statuses, activate, mark_dead, delete_payload,
                     CallOK, RowOK, DrainOK, CountOK
  <2> QED BY <2>1, <2>2
<1> QED
  BY <1>1, <1>2, <1>3, <1>4, <1>5, <1>6, <1>7 DEF EnqueueStep

\* Every step of recover_staging keeps it.
LEMMA StagingKeeps ==
    ASSUME IInv, StagingStep
    PROVE  IInv'
<1> USE DEF IInv, Types, Typed, Flags, ItemOK, Safe, Terminal, InFlight, Before, Unstored, Held, Working, Ended,
            table, files, env, task
<1>1. CASE StagingCheck
  <2>1. Types'
    BY <1>1, QueueAssumption DEF StagingCheck, Statuses
  <2>2. ASSUME NEW i \in Items PROVE ItemOK(i)'
    BY <1>1, <2>2, QueueAssumption DEF StagingCheck, Statuses,
                     CallOK, RowOK, DrainOK, CountOK
  <2> QED BY <2>1, <2>2
<1>2. CASE StagingActivate
  <2>1. Types'
    BY <1>2, QueueAssumption DEF StagingActivate, activate, Statuses
  <2>2. ASSUME NEW i \in Items PROVE ItemOK(i)'
    BY <1>2, <2>2, QueueAssumption DEF StagingActivate, activate, Statuses,
                     CallOK, RowOK, DrainOK, CountOK
  <2> QED BY <2>1, <2>2
<1>3. CASE StagingDead
  <2>1. Types'
    BY <1>3, QueueAssumption DEF StagingDead, mark_dead, Statuses
  <2>2. ASSUME NEW i \in Items PROVE ItemOK(i)'
    BY <1>3, <2>2, QueueAssumption DEF StagingDead, mark_dead, Statuses,
                     CallOK, RowOK, DrainOK, CountOK
  <2> QED BY <2>1, <2>2
<1>4. CASE StagingDelete
  <2>1. Types'
    BY <1>4, QueueAssumption DEF StagingDelete, delete_payload, Statuses
  <2>2. ASSUME NEW i \in Items PROVE ItemOK(i)'
    BY <1>4, <2>2, QueueAssumption DEF StagingDelete, delete_payload, Statuses,
                     CallOK, RowOK, DrainOK, CountOK
  <2> QED BY <2>1, <2>2
<1>5. CASE StagingEnd
  <2>1. Types'
    BY <1>5, QueueAssumption DEF StagingEnd, EndPass, Statuses
  <2>2. ASSUME NEW i \in Items PROVE ItemOK(i)'
    BY <1>5, <2>2, QueueAssumption DEF StagingEnd, EndPass, Statuses,
                     CallOK, RowOK, DrainOK, CountOK
  <2> QED BY <2>1, <2>2
<1> QED
  BY <1>1, <1>2, <1>3, <1>4, <1>5 DEF StagingStep

\* An integration of the item at work, by the agent or by the fallback: it
\* was not integrated yet in this life of the process.
Integration ==
    /\ wpc \in {"agent", "fallback"} /\ wpc' = "mark done"
    /\ applied' = [applied EXCEPT ![witem] = @ + 1]
    /\ UNCHANGED <<status, payload, note, crashes, epc, boot, todo, witem>>

LEMMA IntegrationKeeps ==
    ASSUME IInv, Integration
    PROVE  IInv'
<1>1. /\ witem \in Items /\ applied \in [Items -> Nat] /\ crashes \in Nat
      /\ applied' = [applied EXCEPT ![witem] = @ + 1] /\ crashes' = crashes
  BY DEF Integration, IInv, Types, Typed, Held, Working
<1>2. Typed' /\ Flags'
  <2>1. applied' \in [Items -> Nat]
    BY <1>1
  <2>2. Typed'
    BY <1>1, <2>1 DEF Integration, IInv, Types, Typed, Held, Working
  <2> QED
    BY <2>2 DEF Integration, IInv, Types, Flags
<1>3. ASSUME NEW i \in Items PROVE CallOK(i)' /\ RowOK(i)' /\ DrainOK(i)'
  BY <1>3 DEF Integration, IInv, ItemOK, CallOK, RowOK, DrainOK, Held, Working,
              Ended, Safe, Terminal
<1>4. ASSUME NEW i \in Items PROVE CountOK(i)'
  <2>1. CASE i # witem
    BY <1>1, <1>4, <2>1 DEF Integration, IInv, ItemOK, CountOK
  <2>2. CASE i = witem
    <3>1. applied[i] <= crashes /\ applied'[i] = applied[i] + 1
      BY <1>1, <2>2 DEF Integration, IInv, ItemOK, CountOK, Held
    <3>2. status'[i] \in {"running", "dead"} /\ boot' # "down"
      BY <1>1, <2>2 DEF Integration, IInv, ItemOK, Types, Typed, DrainOK, Held, Working
    <3>3. applied'[i] <= 1 + crashes' /\ applied'[i] > 0
      BY <1>1, <1>4, <3>1
    <3> QED
      BY <2>2, <3>2, <3>3 DEF Integration, CountOK, Held
  <2> QED
    BY <2>1, <2>2
<1> QED
  BY <1>2, <1>3, <1>4 DEF IInv, Types, ItemOK

\* Every step of process_next_for_user after the claim keeps it.
LEMMA ItemKeeps ==
    ASSUME IInv, ItemStep
    PROVE  IInv'
<1> USE DEF IInv, Types, Typed, Flags, ItemOK, Safe, Terminal, InFlight, Before, Unstored, Held, Working, Ended,
            table, files, env, task
<1>1. CASE KeyUnavailable
  <2>1. Types'
    BY <1>1, QueueAssumption DEF KeyUnavailable, mark_dead, mark_failed, Advance, EndPass, Statuses
  <2>2. ASSUME NEW i \in Items PROVE ItemOK(i)'
    BY <1>1, <2>2, QueueAssumption, ZenonT(30) DEF KeyUnavailable, mark_dead, mark_failed, Advance, EndPass, Statuses,
                     CallOK, RowOK, DrainOK, CountOK
  <2> QED BY <2>1, <2>2
<1>2. CASE ReadPayload
  <2>1. Types'
    BY <1>2, QueueAssumption DEF ReadPayload, Statuses
  <2>2. ASSUME NEW i \in Items PROVE ItemOK(i)'
    BY <1>2, <2>2, QueueAssumption DEF ReadPayload, Statuses,
                     CallOK, RowOK, DrainOK, CountOK
  <2> QED BY <2>1, <2>2
<1>3. CASE PayloadBad
  <2>1. Types'
    BY <1>3, QueueAssumption DEF PayloadBad, mark_dead, Statuses
  <2>2. ASSUME NEW i \in Items PROVE ItemOK(i)'
    BY <1>3, <2>2, QueueAssumption DEF PayloadBad, mark_dead, Statuses,
                     CallOK, RowOK, DrainOK, CountOK
  <2> QED BY <2>1, <2>2
<1>4. CASE TidyBad
  <2>1. Types'
    BY <1>4, QueueAssumption DEF TidyBad, delete_payload, reconcile_notes, Advance, EndPass, Statuses
  <2>2. ASSUME NEW i \in Items PROVE ItemOK(i)'
    BY <1>4, <2>2, QueueAssumption DEF TidyBad, delete_payload, reconcile_notes, Advance, EndPass, Statuses,
                     CallOK, RowOK, DrainOK, CountOK
  <2> QED BY <2>1, <2>2
<1>5. CASE StartRun
  <2>1. Types'
    BY <1>5, QueueAssumption DEF StartRun, Statuses
  <2>2. ASSUME NEW i \in Items PROVE ItemOK(i)'
    BY <1>5, <2>2, QueueAssumption DEF StartRun, Statuses,
                     CallOK, RowOK, DrainOK, CountOK
  <2> QED BY <2>1, <2>2
<1>6. CASE AgentOk
  BY <1>6, IntegrationKeeps DEF AgentOk, Integration, table, files, env
<1>7. CASE AgentTransient
  <2>1. Types'
    BY <1>7, QueueAssumption DEF AgentTransient, mark_failed, Advance, EndPass, Statuses
  <2>2. ASSUME NEW i \in Items PROVE ItemOK(i)'
    BY <1>7, <2>2, QueueAssumption DEF AgentTransient, mark_failed, Advance, EndPass, Statuses,
                     CallOK, RowOK, DrainOK, CountOK
  <2> QED BY <2>1, <2>2
<1>8. CASE AgentDeterministic
  <2>1. Types'
    BY <1>8, QueueAssumption DEF AgentDeterministic, Statuses
  <2>2. ASSUME NEW i \in Items PROVE ItemOK(i)'
    BY <1>8, <2>2, QueueAssumption DEF AgentDeterministic, Statuses,
                     CallOK, RowOK, DrainOK, CountOK
  <2> QED BY <2>1, <2>2
<1>9. CASE FallbackMissing
  <2>1. Types'
    BY <1>9, QueueAssumption DEF FallbackMissing, mark_dead, delete_payload, Advance, EndPass, Statuses
  <2>2. ASSUME NEW i \in Items PROVE ItemOK(i)'
    BY <1>9, <2>2, QueueAssumption DEF FallbackMissing, mark_dead, delete_payload, Advance, EndPass, Statuses,
                     CallOK, RowOK, DrainOK, CountOK
  <2> QED BY <2>1, <2>2
<1>10. CASE FallbackOk
  BY <1>10, IntegrationKeeps DEF FallbackOk, Integration, table, files, env
<1>11. CASE FallbackFails
  <2>1. Types'
    BY <1>11, QueueAssumption DEF FallbackFails, mark_dead, Statuses
  <2>2. ASSUME NEW i \in Items PROVE ItemOK(i)'
    BY <1>11, <2>2, QueueAssumption DEF FallbackFails, mark_dead, Statuses,
                     CallOK, RowOK, DrainOK, CountOK
  <2> QED BY <2>1, <2>2
<1>12. CASE MarkDone
  <2>1. Types'
    BY <1>12, QueueAssumption DEF MarkDone, mark_done, Statuses
  <2>2. ASSUME NEW i \in Items PROVE ItemOK(i)'
    BY <1>12, <2>2, QueueAssumption DEF MarkDone, mark_done, Statuses,
                     CallOK, RowOK, DrainOK, CountOK
  <2> QED BY <2>1, <2>2
<1>13. CASE CleanPayload
  <2>1. Types'
    BY <1>13, QueueAssumption DEF CleanPayload, delete_payload, Statuses
  <2>2. ASSUME NEW i \in Items PROVE ItemOK(i)'
    BY <1>13, <2>2, QueueAssumption DEF CleanPayload, delete_payload, Statuses,
                     CallOK, RowOK, DrainOK, CountOK
  <2> QED BY <2>1, <2>2
<1>14. CASE CleanNote
  <2>1. Types'
    BY <1>14, QueueAssumption DEF CleanNote, Advance, EndPass, Statuses
  <2>2. ASSUME NEW i \in Items PROVE ItemOK(i)'
    BY <1>14, <2>2, QueueAssumption DEF CleanNote, Advance, EndPass, Statuses,
                     CallOK, RowOK, DrainOK, CountOK
  <2> QED BY <2>1, <2>2
<1> QED
  BY <1>1, <1>2, <1>3, <1>4, <1>5, <1>6, <1>7, <1>8, <1>9, <1>10, <1>11, <1>12, <1>13, <1>14 DEF ItemStep

\* The other steps of a drain pass keep it.
LEMMA PassKeeps ==
    ASSUME IInv,
           \/ PassStart
           \/ Scan
           \/ ReconcileUser
           \/ ProcessNothing
           \/ \E i \in Items : Claim(i)
           \/ PassFails
    PROVE  IInv'
<1> USE DEF IInv, Types, Typed, Flags, ItemOK, Safe, Terminal, InFlight, Before, Unstored, Held, Working, Ended,
            table, files, env, task
<1>1. CASE PassStart
  <2>1. Types'
    BY <1>1, QueueAssumption DEF PassStart, RowsWith, Statuses
  <2>2. ASSUME NEW i \in Items PROVE ItemOK(i)'
    BY <1>1, <2>2, QueueAssumption DEF PassStart, RowsWith, Statuses,
                     CallOK, RowOK, DrainOK, CountOK
  <2> QED BY <2>1, <2>2
<1>2. CASE Scan
  <2>1. Types'
    BY <1>2, QueueAssumption DEF Scan, EndPass, Statuses
  <2>2. ASSUME NEW i \in Items PROVE ItemOK(i)'
    BY <1>2, <2>2, QueueAssumption DEF Scan, EndPass, Statuses,
                     CallOK, RowOK, DrainOK, CountOK
  <2> QED BY <2>1, <2>2
<1>3. CASE ReconcileUser
  <2>1. Types'
    BY <1>3, QueueAssumption DEF ReconcileUser, reconcile_notes, Statuses
  <2>2. ASSUME NEW i \in Items PROVE ItemOK(i)'
    BY <1>3, <2>2, QueueAssumption DEF ReconcileUser, reconcile_notes, Statuses,
                     CallOK, RowOK, DrainOK, CountOK
  <2> QED BY <2>1, <2>2
<1>4. CASE ProcessNothing
  <2>1. Types'
    BY <1>4, QueueAssumption DEF ProcessNothing, Advance, EndPass, Statuses
  <2>2. ASSUME NEW i \in Items PROVE ItemOK(i)'
    BY <1>4, <2>2, QueueAssumption DEF ProcessNothing, Advance, EndPass, Statuses,
                     CallOK, RowOK, DrainOK, CountOK
  <2> QED BY <2>1, <2>2
<1>5. CASE \E i \in Items : Claim(i)
  <2>1. Types'
    BY <1>5, QueueAssumption DEF Claim, OldestDue, Oldest, DueRow, Statuses
  <2>2. ASSUME NEW i \in Items PROVE ItemOK(i)'
    BY <1>5, <2>2, QueueAssumption DEF Claim, OldestDue, Oldest, DueRow, Statuses,
                     CallOK, RowOK, DrainOK, CountOK
  <2> QED BY <2>1, <2>2
<1>6. CASE PassFails
  <2>1. Types'
    BY <1>6, QueueAssumption DEF PassFails, EndPass, Statuses
  <2>2. ASSUME NEW i \in Items PROVE ItemOK(i)'
    BY <1>6, <2>2, QueueAssumption DEF PassFails, EndPass, Statuses,
                     CallOK, RowOK, DrainOK, CountOK
  <2> QED BY <2>1, <2>2
<1> QED
  BY <1>1, <1>2, <1>3, <1>4, <1>5, <1>6

\* A crash ends the life of the process, and with it every call in flight.
LEMMA CrashKeeps ==
    ASSUME IInv, Crash
    PROVE  IInv'
<1>1. crashes \in Nat /\ crashes' = crashes + 1 /\ crashes' \in Nat
  <2>1. crashes \in Nat /\ crashes' = crashes + 1
    BY DEF IInv, Types, Typed, Crash
  <2> QED BY <2>1
<1>2. Types'
  <2>1. epc' \in [Items -> InFlight \cup {"idle", "refused", "accepted", "errored", "gone"}]
    BY DEF Crash, IInv, Types, Typed, InFlight
  <2>2. Typed'
    BY <1>1, <2>1 DEF Crash, IInv, Types, Typed, Held, Working, table
  <2> QED
    BY <2>2 DEF Crash, IInv, Types, Flags, files
<1>3. ASSUME NEW i \in Items PROVE CallOK(i)' /\ RowOK(i)' /\ DrainOK(i)'
  <2>1. epc'[i] = IF epc[i] \in InFlight THEN "gone" ELSE epc[i]
    BY <1>3 DEF Crash
  <2> QED
    BY <1>3, <2>1, QueueAssumption
       DEF Crash, IInv, ItemOK, Types, Typed, Flags, CallOK, RowOK, DrainOK, Held, Working,
           Ended, Safe, Terminal, table, files, InFlight, Before, Unstored
<1>4. ASSUME NEW i \in Items PROVE CountOK(i)'
  <2>1. /\ applied[i] \in Nat /\ applied[i] <= 1 + crashes
        /\ status[i] = "done" => applied[i] > 0
    BY <1>4 DEF IInv, Types, Typed, ItemOK, CountOK
  <2>2. applied[i] <= crashes' /\ applied[i] <= 1 + crashes'
    BY <1>1, <2>1
  <2>3. applied' = applied /\ status' = status /\ wpc' = "asleep"
    BY DEF Crash, table
  <2> QED
    BY <2>1, <2>2, <2>3 DEF CountOK, Held
<1> QED
  BY <1>2, <1>3, <1>4 DEF IInv, Types, ItemOK

\* So do a crash, the boot and the environment.
LEMMA ProcessKeeps ==
    ASSUME IInv,
           \/ Crash
           \/ RecoverOnBoot
           \/ \E i \in Items : TimerFires(i)
           \/ \E i \in Items : GrowsOld(i)
           \/ \E u \in Users : KeyChanges(u)
    PROVE  IInv'
<1> USE DEF IInv, Types, Typed, Flags, ItemOK, Safe, Terminal, InFlight, Before, Unstored, Held, Working, Ended,
            table, files, env, task
<1>1. CASE Crash
  BY <1>1, CrashKeeps
<1>2. CASE RecoverOnBoot
  <2>1. Types'
    BY <1>2, QueueAssumption DEF RecoverOnBoot, RowsWith, Statuses
  <2>2. ASSUME NEW i \in Items PROVE ItemOK(i)'
    BY <1>2, <2>2, QueueAssumption DEF RecoverOnBoot, RowsWith, Statuses,
                     CallOK, RowOK, DrainOK, CountOK
  <2> QED BY <2>1, <2>2
<1>3. CASE \E i \in Items : TimerFires(i)
  BY <1>3, QuietKeeps DEF TimerFires, files, env, task
<1>4. CASE \E i \in Items : GrowsOld(i)
  BY <1>4, QuietKeeps DEF GrowsOld, files, env, task
<1>5. CASE \E u \in Users : KeyChanges(u)
  BY <1>5, QuietKeeps DEF KeyChanges, files, env, task
<1> QED
  BY <1>1, <1>2, <1>3, <1>4, <1>5

\* Every step of the specification keeps it.
LEMMA StepKeeps == IInv /\ [Next]_vars => IInv'
<1> SUFFICES ASSUME IInv, [Next]_vars PROVE IInv'
  OBVIOUS
<1>1. CASE \E i \in Items : EnqueueStep(i)
  BY <1>1, EnqueueKeeps
<1>2. CASE DrainStep
  BY <1>2, StagingKeeps, ItemKeeps, PassKeeps DEF DrainStep
<1>3. CASE PassFails
  BY <1>3, PassKeeps
<1>4. CASE \/ Crash
           \/ RecoverOnBoot
           \/ \E i \in Items : TimerFires(i)
           \/ \E i \in Items : GrowsOld(i)
           \/ \E u \in Users : KeyChanges(u)
  BY <1>4, ProcessKeeps
<1>5. CASE UNCHANGED vars
  BY <1>5, QuietKeeps DEF vars, table, files, env, task
<1> QED
  BY <1>1, <1>2, <1>3, <1>4, <1>5 DEF Next

LEMMA QueueInvariant == Spec => []IInv
BY InitOK, StepKeeps, PTL DEF Spec

-----------------------------------------------------------------------------
(* What follows from it. *)

\* With a disk that takes its writes every row the drain may claim has its
\* payload, and an accepted add its note, wherever the process died.
THEOREM RunnableIsDurableHolds ==
    ASSUME "disk" \notin Faults
    PROVE  Spec => []RunnableIsDurable
<1>1. IInv => RunnableIsDurable
  BY DEF IInv, ItemOK, RowOK, Safe, RunnableIsDurable
<1> QED
  BY <1>1, QueueInvariant, PTL

\* Whatever fails, a row whose caller holds a receipt has its payload, and an
\* add its staging note, until it is done or dead.
AcceptedIsDurable ==
    \A i \in Items : epc[i] = "accepted" /\ status[i] \in {"pending", "running"} =>
        payload[i] /\ (i \in Adds => note[i])

\* The payload is stored before the receipt is given and dropped only by the
\* step that ends the row.
THEOREM AcceptedIsDurableHolds == Spec => []AcceptedIsDurable
<1>1. IInv => AcceptedIsDurable
  BY DEF IInv, ItemOK, RowOK, Safe, AcceptedIsDurable
<1> QED
  BY <1>1, QueueInvariant, PTL

\* A row is integrated at most once in each life of the process, and a done
\* row was integrated, whatever fails and however calls and drain interleave.
THEOREM IntegratedOnceHolds == Spec => []IntegratedOnce
<1>1. IInv => IntegratedOnce
  BY DEF IInv, ItemOK, CountOK, IntegratedOnce
<1> QED
  BY <1>1, QueueInvariant, PTL

\* A receipt is only given for a row that was flipped, and done means done.
THEOREM ReceiptHonestHolds == Spec => []ReceiptHonest
<1>1. IInv => ReceiptHonest
  BY DEF IInv, ItemOK, CallOK, CountOK, ReceiptHonest
<1> QED
  BY <1>1, QueueInvariant, PTL

-----------------------------------------------------------------------------
(* Vectors.  First, sequences as the worker uses them: what ToSet says of  *)
(* a sequence that is taken apart, cut or extended.                        *)

LEMMA ToSetEmpty == ToSet(<<>>) = {}
BY DEF ToSet

LEMMA ToSetIn ==
  ASSUME NEW S, NEW s \in Seq(S)
  PROVE  /\ ToSet(s) \subseteq S
         /\ s # <<>> => ToSet(s) # {}
BY DEF ToSet

LEMMA LenZero ==
  ASSUME NEW S, NEW s \in Seq(S)
  PROVE  Len(s) = 0 <=> s = <<>>
OBVIOUS

LEMMA ToSetHead ==
  ASSUME NEW S, NEW s \in Seq(S), s # <<>>
  PROVE  /\ Head(s) \in S /\ Tail(s) \in Seq(S)
         /\ ToSet(s) = {Head(s)} \cup ToSet(Tail(s))
         /\ Len(s) = 1 <=> Tail(s) = <<>>
<1>0. Head(s) \in S /\ Tail(s) \in Seq(S) /\ Len(Tail(s)) = Len(s) - 1 /\ Len(s) \in Nat
  OBVIOUS
<1>1. Len(s) = 1 <=> Tail(s) = <<>>
  <2>1. Len(Tail(s)) = 0 <=> Tail(s) = <<>>
    BY <1>0, LenZero
  <2> QED
    BY <1>0, <2>1
<1>2. ASSUME NEW x \in ToSet(s) PROVE x \in {Head(s)} \cup ToSet(Tail(s))
  <2>1. PICK i \in 1 .. Len(s) : x = s[i]
    BY DEF ToSet
  <2>2. CASE i = 1
    BY <2>1, <2>2
  <2>3. CASE i > 1
    <3>1. i - 1 \in 1 .. Len(Tail(s)) /\ Tail(s)[i - 1] = s[i]
      BY <2>3
    <3>2. DOMAIN Tail(s) = 1 .. Len(Tail(s))
      BY <1>0
    <3> QED
      BY <3>1, <3>2, <2>1 DEF ToSet
  <2> QED
    BY <2>2, <2>3
<1>3. ASSUME NEW x \in {Head(s)} \cup ToSet(Tail(s)) PROVE x \in ToSet(s)
  <2>1. CASE x = Head(s)
    BY <2>1 DEF ToSet
  <2>2. CASE x \in ToSet(Tail(s))
    <3>1. PICK i \in 1 .. Len(Tail(s)) : x = Tail(s)[i]
      BY <2>2 DEF ToSet
    <3>2. i + 1 \in 1 .. Len(s) /\ s[i + 1] = Tail(s)[i]
      BY <3>1
    <3> QED
      BY <3>1, <3>2 DEF ToSet
  <2> QED
    BY <2>1, <2>2
<1> QED
  BY <1>0, <1>1, <1>2, <1>3

LEMMA ToSetAppend ==
  ASSUME NEW S, NEW s \in Seq(S), NEW x \in S
  PROVE  /\ Append(s, x) \in Seq(S)
         /\ ToSet(Append(s, x)) = ToSet(s) \cup {x}
<1>1. Append(s, x) \in Seq(S) /\ Len(Append(s, x)) = Len(s) + 1
  OBVIOUS
<1>2. \A i \in 1 .. Len(s) : Append(s, x)[i] = s[i]
  OBVIOUS
<1>3. Append(s, x)[Len(s) + 1] = x
  OBVIOUS
<1>4. ASSUME NEW y \in ToSet(Append(s, x)) PROVE y \in ToSet(s) \cup {x}
  <2>1. PICK i \in 1 .. Len(s) + 1 : y = Append(s, x)[i]
    BY <1>1 DEF ToSet
  <2> QED
    BY <2>1, <1>2, <1>3 DEF ToSet
<1>5. ASSUME NEW y \in ToSet(s) \cup {x} PROVE y \in ToSet(Append(s, x))
  <2>1. CASE y \in ToSet(s)
    <3>1. PICK i \in 1 .. Len(s) : y = s[i]
      BY <2>1 DEF ToSet
    <3>2. i \in 1 .. Len(Append(s, x)) /\ Append(s, x)[i] = y
      BY <3>1, <1>1, <1>2
    <3> QED
      BY <3>2 DEF ToSet
  <2>2. CASE y = x
    BY <2>2, <1>1, <1>3 DEF ToSet
  <2> QED
    BY <2>1, <2>2
<1> QED
  BY <1>1, <1>4, <1>5

\* A sequence cut in two holds what it held.
LEMMA ToSetCut ==
  ASSUME NEW S, NEW s \in Seq(S), NEW n \in 0 .. Len(s)
  PROVE  /\ SubSeq(s, 1, n) \in Seq(S) /\ SubSeq(s, n + 1, Len(s)) \in Seq(S)
         /\ Len(SubSeq(s, 1, n)) = n
         /\ ToSet(s) = ToSet(SubSeq(s, 1, n)) \cup ToSet(SubSeq(s, n + 1, Len(s)))
<1> DEFINE a == SubSeq(s, 1, n)
           b == SubSeq(s, n + 1, Len(s))
<1>1. a \in Seq(S) /\ Len(a) = n /\ \A i \in 1 .. n : a[i] = s[i]
  OBVIOUS
<1>2. b \in Seq(S) /\ Len(b) = Len(s) - n /\ \A i \in 1 .. Len(s) - n : b[i] = s[i + n]
  OBVIOUS
<1> HIDE DEF a, b
<1>3. ASSUME NEW x \in ToSet(s) PROVE x \in ToSet(a) \cup ToSet(b)
  <2>1. PICK i \in 1 .. Len(s) : x = s[i]
    BY DEF ToSet
  <2>2. CASE i <= n
    BY <2>1, <2>2, <1>1 DEF ToSet
  <2>3. CASE i > n
    <3>1. i - n \in 1 .. Len(b) /\ b[i - n] = x
      BY <2>1, <2>3, <1>2
    <3> QED
      BY <3>1, <1>2 DEF ToSet
  <2> QED
    BY <2>2, <2>3
<1>4. ASSUME NEW x \in ToSet(a) \cup ToSet(b) PROVE x \in ToSet(s)
  <2>1. CASE x \in ToSet(a)
    BY <2>1, <1>1 DEF ToSet
  <2>2. CASE x \in ToSet(b)
    <3>1. PICK i \in 1 .. Len(b) : x = b[i]
      BY <2>2, <1>2 DEF ToSet
    <3>2. i + n \in 1 .. Len(s) /\ s[i + n] = x
      BY <3>1, <1>2
    <3> QED
      BY <3>2 DEF ToSet
  <2> QED
    BY <2>1, <2>2
<1> QED
  BY <1>1, <1>2, <1>3, <1>4 DEF a, b

LEMMA ToSetCat ==
  ASSUME NEW S, NEW s \in Seq(S), NEW u \in Seq(S)
  PROVE  /\ s \o u \in Seq(S)
         /\ ToSet(s \o u) = ToSet(s) \cup ToSet(u)
<1>1. s \o u \in Seq(S) /\ Len(s \o u) = Len(s) + Len(u)
  OBVIOUS
<1>2. \A i \in 1 .. Len(s) : (s \o u)[i] = s[i]
  OBVIOUS
<1>3. \A i \in 1 .. Len(u) : (s \o u)[Len(s) + i] = u[i]
  OBVIOUS
<1>4. ASSUME NEW x \in ToSet(s \o u) PROVE x \in ToSet(s) \cup ToSet(u)
  <2>1. PICK i \in 1 .. Len(s) + Len(u) : x = (s \o u)[i]
    BY <1>1 DEF ToSet
  <2>2. CASE i <= Len(s)
    BY <2>1, <2>2, <1>2 DEF ToSet
  <2>3. CASE i > Len(s)
    <3>1. i - Len(s) \in 1 .. Len(u) /\ Len(s) + (i - Len(s)) = i
      BY <2>1, <2>3
    <3>2. x = u[i - Len(s)]
      BY <3>1, <1>3, <2>1
    <3> QED
      BY <3>1, <3>2 DEF ToSet
  <2> QED
    BY <2>2, <2>3
<1>5. ASSUME NEW x \in ToSet(s) \cup ToSet(u) PROVE x \in ToSet(s \o u)
  <2>1. CASE x \in ToSet(s)
    <3>1. PICK i \in 1 .. Len(s) : x = s[i]
      BY <2>1 DEF ToSet
    <3>2. i \in 1 .. Len(s \o u) /\ (s \o u)[i] = x
      BY <3>1, <1>1, <1>2
    <3> QED
      BY <3>2, <1>1 DEF ToSet
  <2>2. CASE x \in ToSet(u)
    <3>1. PICK i \in 1 .. Len(u) : x = u[i]
      BY <2>2 DEF ToSet
    <3>2. Len(s) + i \in 1 .. Len(s \o u) /\ (s \o u)[Len(s) + i] = x
      BY <3>1, <1>1, <1>3
    <3> QED
      BY <3>2, <1>1 DEF ToSet
  <2> QED
    BY <2>1, <2>2
<1> QED
  BY <1>1, <1>4, <1>5

\* The paths of a sequence of texts.
PathsOf(s) == [i \in 1 .. Len(s) |-> s[i].path]

LEMMA PathsOfIn ==
  ASSUME NEW s \in Seq(Pair)
  PROVE  /\ PathsOf(s) \in Seq(Paths)
         /\ \A e \in ToSet(s) : e.path \in ToSet(PathsOf(s))
<1>1. \A i \in 1 .. Len(s) : s[i] \in Pair
  OBVIOUS
<1>2. PathsOf(s) \in Seq(Paths) /\ Len(PathsOf(s)) = Len(s)
  BY <1>1 DEF PathsOf, Pair
<1>3. ASSUME NEW e \in ToSet(s) PROVE e.path \in ToSet(PathsOf(s))
  <2>1. PICK i \in 1 .. Len(s) : e = s[i]
    BY DEF ToSet
  <2> QED
    BY <2>1, <1>2 DEF ToSet, PathsOf
<1> QED
  BY <1>2, <1>3
-----------------------------------------------------------------------------
(* Types, in parts, with what the worker holds at each of its steps.       *)

StoreTyped ==
    /\ file \in [Paths -> Contents \cup {Absent}] /\ doc \in [Paths -> Contents \cup {Absent}]
    /\ registry \in SUBSET Paths
    /\ rows \in [Paths -> Row \cup {Absent}] /\ config \in Models \cup {Absent}

QueueTyped ==
    /\ queue \in Seq(Paths) /\ IsInjective(queue) /\ Len(queue) <= Capacity
    /\ lost \subseteq Paths /\ torn \subseteq Paths

TasksTyped ==
    /\ health \in HealthInner /\ learned \in {0} \cup {DimsOf[m] : m \in Models}
    /\ probe \in Models \cup {Absent}
    /\ backend \in BOOLEAN /\ events \in 0 .. MaxEvents

CacheTyped ==
    /\ epoch \in Nat /\ (cache = Absent \/ cache \in Snapshot)
    /\ query \in [Queries -> Query \cup {Absent}]

WriterTyped == writer \in [Writers -> Write \cup {Absent}]

Resting == {"idle", "mark", "drain", "stale", "backlog", "boot", "bump", "remove"}
Reading == {"list", "load", "belt", "sweepDoc", "sweepRow"}

\* Paths are read, texts are embedded, rows are written, leftovers are queued:
\* each holding is empty outside its steps, and the path or text a step takes
\* is there.
Shape(w) ==
    /\ w.at \in Resting \cup {"embed", "upsert", "requeue"} => w.todo = <<>>
    /\ w.at \in Resting \cup {"list", "requeue"} => w.pairs = <<>>
    /\ w.at # "upsert" => w.chunk = <<>>
    /\ w.at = "upsert" => w.chunk # <<>>
    /\ w.at \in Resting \cup Reading => w.parked = <<>>
    /\ w.at \in {"belt", "sweepDoc", "sweepRow"} => w.todo # <<>>
    /\ w.at \in {"list", "belt"} => w.phase = "drain"
    /\ w.at \in {"sweepDoc", "sweepRow"} => w.phase # "drain"
    /\ w.at \in {"backlog", "boot"} => w.phase = "rebuild"
    /\ w.phase = "boot" => w.at \in Reading /\ w.pairs = <<>>
    /\ w.at # "idle" => w.model # Absent

WorkerTyped == worker \in Worker /\ Shape(worker)

VTyped == StoreTyped /\ QueueTyped /\ TasksTyped /\ CacheTyped /\ WriterTyped /\ WorkerTyped

LEMMA VTypedTypes == VTyped => VectorsTypeOK
BY DEF VTyped, VectorsTypeOK, StoreTyped, QueueTyped, TasksTyped, CacheTyped, WriterTyped,
       WorkerTyped

\* The queue refuses what it holds and what it has no room for.
LEMMA EnqueueWrite ==
  ASSUME QueueTyped, NEW p \in Paths
  PROVE  /\ enqueue_write(queue, p) \in Seq(Paths) /\ IsInjective(enqueue_write(queue, p))
         /\ Len(enqueue_write(queue, p)) <= Capacity
         /\ ToSet(queue) \subseteq ToSet(enqueue_write(queue, p))
         /\ p \in ToSet(enqueue_write(queue, p)) \cup Refused(queue, p)
         /\ lost \subseteq ToSet(enqueue_write(queue, p)) \cup Refused(queue, p)
         /\ Refused(queue, p) \subseteq Paths
<1>1. CASE p \in ToSet(queue) \/ Len(queue) >= Capacity
  BY <1>1 DEF enqueue_write, Refused, QueueTyped
<1>2. CASE ~(p \in ToSet(queue) \/ Len(queue) >= Capacity)
  <2> DEFINE a == Append(queue, p)
  <2>1. enqueue_write(queue, p) = a
    BY <1>2 DEF enqueue_write
  <2>2. a \in Seq(Paths) /\ ToSet(a) = ToSet(queue) \cup {p}
    BY ToSetAppend DEF QueueTyped
  <2>3. Len(a) = Len(queue) + 1 /\ Len(a) <= Capacity
    BY <1>2, VectorAssumption DEF QueueTyped
  <2>4. \A i \in 1 .. Len(queue) : a[i] = queue[i] /\ a[i] # p
    BY <1>2 DEF QueueTyped, ToSet
  <2>5. a[Len(queue) + 1] = p /\ DOMAIN a = 1 .. Len(queue) + 1 /\ DOMAIN queue = 1 .. Len(queue)
    BY DEF QueueTyped
  <2>6. IsInjective(a)
    BY <2>4, <2>5 DEF IsInjective, QueueTyped
  <2> HIDE DEF a
  <2> QED
    BY <2>1, <2>2, <2>3, <2>6 DEF Refused, QueueTyped
<1> QED
  BY <1>1, <1>2

\* The enumeration of a set of paths is a sequence of them.
LEMMA OrderedIn ==
  ASSUME NEW ps \in SUBSET Paths
  PROVE  Ordered(ps) \in Seq(Paths)
<1>1. IsFiniteSet(ps)
  BY FS_Subset, VectorAssumption
<1>2. Cardinality(ps) \in Nat /\ \E f : f \in Bijection(1 .. Cardinality(ps), ps)
  BY <1>1, FS_CardinalityType DEF ExistsBijection
<1>3. PICK f : f \in Bijection(1 .. Cardinality(ps), ps)
  BY <1>2
<1>4. f \in [1 .. Cardinality(ps) -> ps] /\ IsInjective(f)
  BY <1>3 DEF Bijection, Injection, IsInjective
<1>5. Ordered(ps) \in [1 .. Cardinality(ps) -> ps]
  BY <1>4 DEF Ordered, SetToSeq
<1> QED
  BY <1>2, <1>5
-----------------------------------------------------------------------------
(* The steps keep the types.  A step of a writer on the store, case by case.*)

LEMMA StoreWriteEffect ==
  ASSUME NEW t \in Writers, StoreWrite(t)
  PROVE  LET w == writer[t] IN
         /\ w # Absent
         /\ UNCHANGED <<rows, config, memory, backend, history>>
         /\ \/ /\ w.at = "write" /\ file' = [file EXCEPT ![w.path] = w.of]
               /\ writer' = [writer EXCEPT ![t].at = "register"]
               /\ UNCHANGED <<doc, registry, query>>
            \/ /\ w.at = "register" /\ registry' = registry \cup {w.path}
               /\ writer' = [writer EXCEPT ![t].at = "index"]
               /\ UNCHANGED <<file, doc, query>>
            \/ /\ w.at = "index" /\ doc' = [doc EXCEPT ![w.path] = w.of]
               /\ writer' = [writer EXCEPT ![t].at = "enqueue"]
               /\ Unban(w.path, w.of)
               /\ UNCHANGED <<file, registry>>
            \/ /\ w.at = "unregister" /\ registry' = registry \ {w.path}
               /\ writer' = [writer EXCEPT ![t].at = "unindex"]
               /\ UNCHANGED <<file, doc, query>>
            \/ /\ w.at = "unindex" /\ doc' = [doc EXCEPT ![w.path] = Absent]
               /\ writer' = [writer EXCEPT ![t].at = "unlink"]
               /\ UNCHANGED <<file, registry, query>>
            \/ /\ w.at = "unlink" /\ file' = [file EXCEPT ![w.path] = Absent]
               /\ writer' = [writer EXCEPT ![t].at = "removeRow"]
               /\ UNCHANGED <<doc, registry, query>>
<1> DEFINE w == writer[t]
           s == StoreStep(w)
<1>0. /\ w # Absent
      /\ w.at \in {"write", "register", "index", "unregister", "unindex", "unlink"}
      /\ UNCHANGED <<rows, config, memory, backend, history>>
      /\ file' = IF "file" \in DOMAIN s THEN [file EXCEPT ![w.path] = s.file] ELSE file
      /\ doc' = IF "doc" \in DOMAIN s THEN [doc EXCEPT ![w.path] = s.doc] ELSE doc
      /\ registry' = IF "registered" \notin DOMAIN s THEN registry
                     ELSE IF s.registered THEN registry \cup {w.path} ELSE registry \ {w.path}
      /\ writer' = [writer EXCEPT ![t].at = s.next]
      /\ IF w.at = "index" THEN Unban(w.path, w.of) ELSE UNCHANGED query
  BY DEF StoreWrite
<1>1. CASE w.at = "write"
  <2>1. s = [file |-> w.of, next |-> "register"]
    BY <1>1 DEF StoreStep
  <2> HIDE DEF s
  <2>2. DOMAIN s = {"file", "next"} /\ s.file = w.of /\ s.next = "register"
    BY <2>1
  <2> QED
    BY <1>0, <1>1, <2>2
<1>2. CASE w.at = "register"
  <2>1. s = [registered |-> TRUE, next |-> "index"]
    BY <1>2 DEF StoreStep
  <2> HIDE DEF s
  <2>2. DOMAIN s = {"registered", "next"} /\ s.registered = TRUE /\ s.next = "index"
    BY <2>1
  <2> QED
    BY <1>0, <1>2, <2>2
<1>3. CASE w.at = "index"
  <2>1. s = [doc |-> w.of, next |-> "enqueue"]
    BY <1>3 DEF StoreStep
  <2> HIDE DEF s
  <2>2. DOMAIN s = {"doc", "next"} /\ s.doc = w.of /\ s.next = "enqueue"
    BY <2>1
  <2> QED
    BY <1>0, <1>3, <2>2
<1>4. CASE w.at = "unregister"
  <2>1. s = [registered |-> FALSE, next |-> "unindex"]
    BY <1>4 DEF StoreStep
  <2> HIDE DEF s
  <2>2. DOMAIN s = {"registered", "next"} /\ s.registered = FALSE /\ s.next = "unindex"
    BY <2>1
  <2> QED
    BY <1>0, <1>4, <2>2
<1>5. CASE w.at = "unindex"
  <2>1. s = [doc |-> Absent, next |-> "unlink"]
    BY <1>5 DEF StoreStep
  <2> HIDE DEF s
  <2>2. DOMAIN s = {"doc", "next"} /\ s.doc = Absent /\ s.next = "unlink"
    BY <2>1
  <2> QED
    BY <1>0, <1>5, <2>2
<1>6. CASE w.at = "unlink"
  <2>1. s = [file |-> Absent, next |-> "removeRow"]
    BY <1>6 DEF StoreStep
  <2> HIDE DEF s
  <2>2. DOMAIN s = {"file", "next"} /\ s.file = Absent /\ s.next = "removeRow"
    BY <2>1
  <2> QED
    BY <1>0, <1>6, <2>2
<1> QED
  BY <1>0, <1>1, <1>2, <1>3, <1>4, <1>5, <1>6

\* A writer that moves on.
LEMMA WriterMoves ==
  ASSUME WriterTyped, NEW t \in Writers, writer[t] # Absent,
         NEW s \in {"register", "index", "enqueue", "unindex", "unlink", "removeRow", "bump", "remove"},
         writer' = [writer EXCEPT ![t].at = s]
  PROVE  /\ WriterTyped'
         /\ writer[t] \in Write /\ writer'[t] \in Write /\ writer'[t] # Absent
         /\ writer'[t].at = s /\ writer'[t].path = writer[t].path /\ writer'[t].of = writer[t].of
         /\ \A o \in Writers : o # t => writer'[o] = writer[o]
<1>1. writer[t] \in Write
  BY DEF WriterTyped
<1>2. writer'[t] = [writer[t] EXCEPT !.at = s] /\ \A o \in Writers : o # t => writer'[o] = writer[o]
  BY DEF WriterTyped
<1>3. [writer[t] EXCEPT !.at = s] \in Write
  BY <1>1 DEF Write
<1> QED
  BY <1>1, <1>2, <1>3, AbsentAssumption DEF WriterTyped, Write

LEMMA PaidCounts ==
  ASSUME TasksTyped, Paid \/ Unpaid
  PROVE  events' \in 0 .. MaxEvents
BY VectorAssumption DEF TasksTyped, Paid, Unpaid

LEMMA HealthMoves ==
  ASSUME NEW h \in HealthInner
  PROVE  /\ NoteOk(h) \in HealthInner /\ NoteFailure(h) \in HealthInner
         /\ SetDisabled(h) \in HealthInner /\ NoteConfigured(h) \in HealthInner
         /\ FreshHealth \in HealthInner
<1>1. FreshHealth \in HealthInner /\ NoteConfigured(h) \in HealthInner
  BY HealthAssumption DEF NoteConfigured, FreshHealth, HealthInner
<1>2. NoteOk(h) \in HealthInner
  <2>1. [h EXCEPT !.consecutive_failures = 0] \in HealthInner
    BY HealthAssumption DEF HealthInner
  <2> QED
    BY <2>1 DEF NoteOk
<1>3. NoteFailure(h) \in HealthInner
  <2>1. h.consecutive_failures \in 0 .. RedFailureThreshold
    BY DEF HealthInner
  <2>2. h.consecutive_failures < RedFailureThreshold
        => h.consecutive_failures + 1 \in 0 .. RedFailureThreshold
    BY <2>1, HealthAssumption
  <2>3. ASSUME NEW n \in 0 .. RedFailureThreshold
        PROVE  [h EXCEPT !.consecutive_failures = n] \in HealthInner
    BY DEF HealthInner
  <2> QED
    BY <2>2, <2>3 DEF NoteFailure
<1>4. SetDisabled(h) \in HealthInner
  BY DEF SetDisabled, HealthInner
<1> QED
  BY <1>1, <1>2, <1>3, <1>4

\* An index step lifts the ban of an active concept.
LEMMA UnbanTyped ==
  ASSUME CacheTyped, NEW p, NEW c, Unban(p, c), UNCHANGED <<epoch, cache>>
  PROVE  CacheTyped'
<1>1. ASSUME NEW q \in Queries PROVE query'[q] \in Query \cup {Absent}
  <2>1. query[q] \in Query => [query[q] EXCEPT !.banned = @ \ {p}] \in Query
    BY DEF Query
  <2> QED
    BY <2>1 DEF Unban, CacheTyped
<1>2. query' \in [Queries -> Query \cup {Absent}]
  BY <1>1 DEF Unban
<1> QED
  BY <1>2 DEF CacheTyped

LEMMA WriterStepTyped ==
  ASSUME VTyped, NEW t \in Writers, WriterStep(t)
  PROVE  VTyped'
<1> USE DEF VTyped, memory, store, history
<1>1. ASSUME NEW p \in Paths, NEW c \in Contents, StartPut(t, p, c) PROVE VTyped'
  <2>1. [at |-> "write", path |-> p, of |-> c] \in Write
    BY DEF Write
  <2>2. WriterTyped'
    BY <1>1, <2>1 DEF StartPut, WriterTyped
  <2>3. events' \in 0 .. MaxEvents
    BY <1>1, PaidCounts DEF StartPut
  <2> QED
    BY <1>1, <2>2, <2>3 DEF StartPut, StoreTyped, QueueTyped, TasksTyped, CacheTyped, WorkerTyped
<1>2. ASSUME NEW p \in Paths, StartDelete(t, p) PROVE VTyped'
  <2>1. [at |-> "unregister", path |-> p, of |-> Absent] \in Write
    BY DEF Write
  <2>2. WriterTyped'
    BY <1>2, <2>1 DEF StartDelete, WriterTyped
  <2>3. events' \in 0 .. MaxEvents
    BY <1>2, PaidCounts DEF StartDelete
  <2> QED
    BY <1>2, <2>2, <2>3 DEF StartDelete, StoreTyped, QueueTyped, TasksTyped, CacheTyped, WorkerTyped
<1>3. CASE StoreWrite(t)
  <2>0. writer[t] \in Write
    BY <1>3 DEF StoreWrite, WriterTyped
  <2>1. writer[t].path \in Paths /\ writer[t].of \in Contents \cup {Absent}
    BY <2>0 DEF Write
  <2>2. WriterTyped'
    BY <1>3, StoreWriteEffect, WriterMoves
  <2>3. StoreTyped'
    BY <1>3, StoreWriteEffect, <2>1 DEF StoreTyped
  <2>4. CacheTyped'
    <3>1. UNCHANGED <<epoch, cache>>
      BY <1>3, StoreWriteEffect
    <3>2. CASE UNCHANGED query
      BY <3>1, <3>2 DEF CacheTyped
    <3>3. CASE Unban(writer[t].path, writer[t].of)
      BY <3>1, <3>3, UnbanTyped
    <3> QED
      BY <1>3, StoreWriteEffect, <3>2, <3>3
  <2> QED
    BY <1>3, StoreWriteEffect, <2>2, <2>3, <2>4 DEF QueueTyped, TasksTyped, WorkerTyped
<1>4. CASE PutHook(t)
  <2>0. writer[t] \in Write
    BY <1>4 DEF PutHook, WriterTyped
  <2>1. writer[t].path \in Paths
    BY <2>0 DEF Write
  <2>2. WriterTyped'
    BY <1>4, WriterMoves DEF PutHook
  <2>3. QueueTyped'
    BY <1>4, <2>1, EnqueueWrite DEF PutHook, QueueTyped
  <2> QED
    BY <1>4, <2>2, <2>3 DEF PutHook, StoreTyped, TasksTyped, CacheTyped, WorkerTyped
<1>5. CASE DeleteHook(t)
  <2>0. writer[t] \in Write
    BY <1>5 DEF DeleteHook, WriterTyped
  <2>1. writer[t].path \in Paths
    BY <2>0 DEF Write
  <2>2. WriterTyped'
    BY <1>5, WriterMoves DEF DeleteHook
  <2>3. StoreTyped' /\ QueueTyped'
    BY <1>5, <2>1 DEF DeleteHook, remove_row, StoreTyped, QueueTyped
  <2> QED
    BY <1>5, <2>2, <2>3 DEF DeleteHook, TasksTyped, CacheTyped, WorkerTyped
<1>6. CASE Invalidate(t)
  <2>1. WriterTyped'
    <3>1. CASE writer[t].at = "bump"
      BY <1>6, <3>1, WriterMoves DEF Invalidate
    <3>2. CASE writer[t].at # "bump"
      BY <1>6, <3>2 DEF Invalidate, WriterTyped
    <3> QED
      BY <3>1, <3>2
  <2>2. CacheTyped'
    BY <1>6 DEF Invalidate, Bump, RemoveSnapshot, CacheTyped
  <2> QED
    BY <1>6, <2>1, <2>2 DEF Invalidate, StoreTyped, QueueTyped, TasksTyped, WorkerTyped
<1>7. CASE AbortWrite(t)
  <2>0. writer[t] \in Write
    BY <1>7 DEF AbortWrite, WriterTyped
  <2>1. writer[t].path \in Paths
    BY <2>0 DEF Write
  <2>2. WriterTyped' /\ QueueTyped'
    BY <1>7, <2>1 DEF AbortWrite, WriterTyped, QueueTyped
  <2>3. events' \in 0 .. MaxEvents
    BY <1>7, PaidCounts DEF AbortWrite
  <2> QED
    BY <1>7, <2>2, <2>3 DEF AbortWrite, StoreTyped, TasksTyped, CacheTyped, WorkerTyped
<1> QED
  BY <1>1, <1>2, <1>3, <1>4, <1>5, <1>6, <1>7 DEF WriterStep

\* What becomes of a query.
LEMMA QueryMoves ==
  ASSUME CacheTyped, NEW q \in Queries, NEW r \in Query \cup {Absent}, SetQuery(q, r),
         UNCHANGED cache
  PROVE  CacheTyped'
BY DEF SetQuery, CacheTyped

LEMMA QueryStepTyped ==
  ASSUME VTyped, NEW q \in Queries, QueryStep(q)
  PROVE  VTyped'
<1> USE DEF VTyped, memory, store, history
<1> DEFINE r == query[q]
<1>0. r # Absent => r \in Query
  BY DEF CacheTyped
<1>1. CASE Ask(q)
  <2> DEFINE n == [at |-> "lookup", model |-> config, pass |-> 0, epoch |-> 0, actives |-> {},
                   entries |-> {}, banned |-> Retired]
  <2>1. config \in Models
    BY <1>1 DEF Ask, StoreTyped
  <2>2. n \in Query
    BY <2>1, VectorAssumption DEF Query, Retired
  <2>3. CacheTyped'
    BY <1>1, <2>2 DEF Ask, CacheTyped
  <2>4. TasksTyped'
    <3>1. events' \in 0 .. MaxEvents
      BY <1>1, VectorAssumption DEF Ask, TasksTyped
    <3>2. health' \in HealthInner /\ learned' = DimsOf[config]
      BY <1>1, HealthMoves DEF Ask, record_emb_success, TasksTyped
    <3> QED
      BY <1>1, <3>1, <3>2, <2>1 DEF Ask, TasksTyped
  <2> QED
    BY <1>1, <2>3, <2>4 DEF Ask, StoreTyped, QueueTyped, WorkerTyped, WriterTyped
<1>2. ASSUME NEW n, SetQuery(q, n), CacheTyped' PROVE VTyped'
  BY <1>2 DEF SetQuery, StoreTyped, QueueTyped, TasksTyped, WorkerTyped, WriterTyped
<1>3. CASE Lookup(q)
  <2> DEFINE n == IF cache # Absent
                  THEN [r EXCEPT !.at = "map", !.entries = cache.entries]
                  ELSE [r EXCEPT !.at = "actives", !.epoch = epoch]
  <2>1. r \in Query
    BY <1>3, <1>0 DEF Lookup
  <2>2. CASE cache # Absent
    <3>1. cache.entries \in SUBSET [path : Paths, model : Models]
      BY <2>2 DEF CacheTyped, Snapshot
    <3>2. [r EXCEPT !.at = "map", !.entries = cache.entries] \in Query
      BY <3>1, <2>1 DEF Query
    <3> QED
      BY <1>3, <2>2, <3>2, <1>2, QueryMoves DEF Lookup
  <2>3. CASE cache = Absent
    <3>1. [r EXCEPT !.at = "actives", !.epoch = epoch] \in Query
      BY <2>1 DEF Query, CacheTyped
    <3> QED
      BY <1>3, <2>3, <3>1, <1>2, QueryMoves DEF Lookup
  <2> QED
    BY <2>2, <2>3
<1>4. CASE FetchActives(q)
  <2>1. [r EXCEPT !.at = "rows", !.actives = {p \in Paths : doc[p] \in Active}] \in Query
    BY <1>4, <1>0 DEF FetchActives, Query
  <2> QED
    BY <1>4, <2>1, <1>2, QueryMoves DEF FetchActives
<1>5. CASE FetchRows(q)
  <2> DEFINE es == {[path |-> p, model |-> rows[p].model] :
                       p \in {p \in r.actives : rows[p] # Absent /\ ~rows[p].stale}}
  <2>0. r \in Query
    BY <1>5, <1>0 DEF FetchRows
  <2>1. es \in SUBSET [path : Paths, model : Models]
    <3>1. ASSUME NEW p \in r.actives, rows[p] # Absent
          PROVE  [path |-> p, model |-> rows[p].model] \in [path : Paths, model : Models]
      <4>1. p \in Paths
        BY <2>0 DEF Query
      <4>2. rows[p].model \in Models
        BY <4>1, <3>1 DEF StoreTyped, Row
      <4> QED
        BY <4>1, <4>2
    <3> QED
      BY <3>1
  <2>2. [r EXCEPT !.at = "install", !.actives = {}, !.entries = es] \in Query
    BY <2>0, <2>1 DEF Query
  <2> QED
    BY <1>5, <2>2, <1>2, QueryMoves DEF FetchRows
<1>6. CASE Install(q)
  <2>0. r \in Query
    BY <1>6, <1>0 DEF Install
  <2>1. CASE epoch = r.epoch
    <3>1. [r EXCEPT !.at = "map"] \in Query
      BY <2>0 DEF Query
    <3>2. [entries |-> r.entries, epoch |-> r.epoch] \in Snapshot
      BY <2>0 DEF Query, Snapshot
    <3>3. CacheTyped'
      BY <1>6, <2>1, <3>1, <3>2 DEF Install, SetQuery, CacheTyped
    <3> QED
      BY <1>6, <2>1, <3>3, <1>2 DEF Install
  <2>2. CASE epoch # r.epoch /\ r.pass + 1 < Passes
    <3>1. r.pass + 1 \in 0 .. Passes
      BY <2>0, <2>2, VectorAssumption DEF Query
    <3>2. [r EXCEPT !.at = "actives", !.pass = @ + 1, !.epoch = epoch] \in Query
      BY <2>0, <3>1 DEF Query, CacheTyped
    <3> QED
      BY <1>6, <2>2, <3>2, <1>2, QueryMoves DEF Install
  <2>3. CASE epoch # r.epoch /\ ~(r.pass + 1 < Passes)
    <3>1. [r EXCEPT !.at = "map"] \in Query
      BY <2>0 DEF Query
    <3> QED
      BY <1>6, <2>3, <3>1, <1>2, QueryMoves DEF Install
  <2> QED
    BY <2>1, <2>2, <2>3
<1>7. CASE Answer(q)
  BY <1>7, <1>2, QueryMoves DEF Answer
<1> QED
  BY <1>1, <1>3, <1>4, <1>5, <1>6, <1>7 DEF QueryStep

\* The admin's page, the probe and the environment.
LEMMA OthersTyped ==
  ASSUME VTyped,
         \/ ProbeTick \/ ProbeAnswer
         \/ \E m \in Models : SaveEmbeddings(m) \/ TestEmbeddings(m)
         \/ AskLexical \/ BumpElsewhere \/ Weather
  PROVE  VTyped'
<1> USE DEF VTyped, memory, store, history
<1>0. /\ NoteOk(health) \in HealthInner /\ NoteFailure(health) \in HealthInner
      /\ SetDisabled(health) \in HealthInner /\ NoteConfigured(health) \in HealthInner
  BY HealthMoves DEF TasksTyped
<1>1. CASE ProbeTick
  BY <1>1, <1>0 DEF ProbeTick, StoreTyped, QueueTyped, TasksTyped, CacheTyped, WorkerTyped,
                    WriterTyped
<1>2. CASE ProbeAnswer
  <2>1. health' \in HealthInner /\ learned' \in {0} \cup {DimsOf[m] : m \in Models}
    BY <1>2, <1>0 DEF ProbeAnswer, record_emb_success, record_outcome, TasksTyped
  <2> QED
    BY <1>2, <2>1 DEF ProbeAnswer, StoreTyped, QueueTyped, TasksTyped, CacheTyped, WorkerTyped,
                      WriterTyped
<1>3. ASSUME NEW m \in Models, SaveEmbeddings(m) PROVE VTyped'
  <2>1. events' \in 0 .. MaxEvents
    BY <1>3, PaidCounts DEF SaveEmbeddings
  <2> QED
    BY <1>3, <2>1 DEF SaveEmbeddings, StoreTyped, QueueTyped, TasksTyped, CacheTyped, WorkerTyped,
                      WriterTyped
<1>4. ASSUME NEW m \in Models, TestEmbeddings(m) PROVE VTyped'
  <2>1. health' \in HealthInner /\ learned' \in {0} \cup {DimsOf[n] : n \in Models}
    BY <1>4, <1>0 DEF TestEmbeddings, record_emb_success, record_outcome, TasksTyped
  <2>2. events' \in 0 .. MaxEvents
    BY <1>4, PaidCounts DEF TestEmbeddings, Paid
  <2> QED
    BY <1>4, <2>1, <2>2 DEF TestEmbeddings, StoreTyped, QueueTyped, TasksTyped, CacheTyped,
                            WorkerTyped, WriterTyped
<1>5. CASE AskLexical
  <2>1. events' \in 0 .. MaxEvents
    BY <1>5, PaidCounts DEF AskLexical, Paid
  <2> QED
    BY <1>5, <1>0, <2>1 DEF AskLexical, record_outcome, StoreTyped, QueueTyped, TasksTyped,
                            CacheTyped, WorkerTyped, WriterTyped
<1>6. CASE BumpElsewhere
  <2>1. events' \in 0 .. MaxEvents
    BY <1>6, PaidCounts DEF BumpElsewhere
  <2> QED
    BY <1>6, <2>1 DEF BumpElsewhere, Bump, StoreTyped, QueueTyped, TasksTyped, CacheTyped,
                      WorkerTyped, WriterTyped
<1>7. CASE Weather
  <2>1. events' \in 0 .. MaxEvents
    BY <1>7, PaidCounts DEF Weather
  <2> QED
    BY <1>7, <2>1 DEF Weather, StoreTyped, QueueTyped, TasksTyped, CacheTyped, WorkerTyped,
                      WriterTyped
<1> QED
  BY <1>1, <1>2, <1>3, <1>4, <1>5, <1>6, <1>7

LEMMA RestedTyped ==
  ASSUME NEW f \in BOOLEAN
  PROVE  /\ [Rested EXCEPT !.flag = f] \in Worker /\ Shape([Rested EXCEPT !.flag = f])
         /\ Rested \in Worker /\ Shape(Rested)
<1>1. 0 \in 0 .. Attempts /\ 0 \in Nat /\ <<>> \in Seq(Paths) /\ <<>> \in Seq(Pair)
  BY VectorAssumption
<1>2. Rested \in Worker
  BY <1>1 DEF Rested, Worker
<1>3. Rested.at = "idle" /\ Rested.phase = "drain" /\ Rested.todo = <<>> /\ Rested.pairs = <<>>
      /\ Rested.chunk = <<>> /\ Rested.parked = <<>>
  BY DEF Rested
<1> DEFINE w == [Rested EXCEPT !.flag = f]
<1>4. w \in Worker
  BY <1>2 DEF Worker
<1>5. w.at = "idle" /\ w.phase = "drain" /\ w.todo = <<>> /\ w.pairs = <<>> /\ w.chunk = <<>>
      /\ w.parked = <<>>
  BY <1>2, <1>3 DEF Worker
<1> HIDE DEF w
<1>6. Shape(w) /\ Shape(Rested)
  BY <1>3, <1>5 DEF Shape, Resting, Reading
<1> QED
  BY <1>2, <1>4, <1>6 DEF w

LEMMA InHandIn ==
  ASSUME VTyped
  PROVE  InHand \subseteq Paths
<1> USE DEF VTyped
<1>1. ToSet(queue) \subseteq Paths
  BY ToSetIn DEF QueueTyped
<1>2. ToSet(worker.todo) \subseteq Paths /\ ToSet(worker.parked) \subseteq Paths
  BY ToSetIn DEF WorkerTyped, Worker
<1>3. \A e \in ToSet(worker.pairs \o worker.chunk) : e.path \in Paths
  <2>1. worker.pairs \in Seq(Pair) /\ worker.chunk \in Seq(Pair)
    BY DEF WorkerTyped, Worker
  <2>2. ToSet(worker.pairs \o worker.chunk) \subseteq Pair
    BY <2>1, ToSetCat, ToSetIn
  <2> QED
    BY <2>2 DEF Pair
<1>4. \A t \in Writers : writer[t] # Absent => writer[t].path \in Paths
  BY DEF WriterTyped, Write
<1> QED
  BY <1>1, <1>2, <1>3, <1>4 DEF InHand

LEMMA RestartTyped ==
  ASSUME VTyped, Restart
  PROVE  VTyped'
<1> USE DEF VTyped, memory, store, history
<1>1. events' \in 0 .. MaxEvents
  BY PaidCounts DEF Restart
<1>2. health' \in HealthInner
  BY HealthMoves DEF Restart, TasksTyped
<1>3. TasksTyped'
  BY <1>1, <1>2 DEF Restart, TasksTyped
<1>4. QueueTyped'
  <2>1. <<>> \in Seq(Paths) /\ IsInjective(<<>>) /\ Len(<<>>) <= Capacity
    BY VectorAssumption DEF IsInjective
  <2> QED
    BY <2>1, InHandIn DEF Restart, QueueTyped
<1>5. CacheTyped' /\ WriterTyped'
  BY DEF Restart, CacheTyped, WriterTyped
<1>6. WorkerTyped'
  BY RestedTyped DEF Restart, WorkerTyped
<1> QED
  BY <1>3, <1>4, <1>5, <1>6 DEF Restart, StoreTyped

LEMMA InitTyped ==
  ASSUME VectorsInit
  PROVE  VTyped
<1>0. PICK s \in Starts :
         /\ file = s.file /\ doc = s.file /\ rows = s.rows /\ config = s.config
         /\ registry = {p \in Paths : s.file[p] # Absent}
         /\ health = IF s.config = Absent THEN SetDisabled(FreshHealth) ELSE FreshHealth
  BY DEF VectorsInit
<1>1. StoreTyped
  BY <1>0, StartsAssumption DEF StoreTyped, Row
<1>2. FreshHealth \in HealthInner
  BY HealthAssumption DEF FreshHealth, HealthInner
<1>3. TasksTyped
  BY <1>0, <1>2, HealthMoves, VectorAssumption DEF VectorsInit, TasksTyped
<1>4. QueueTyped
  <2>1. <<>> \in Seq(Paths) /\ IsInjective(<<>>) /\ Len(<<>>) <= Capacity
    BY VectorAssumption DEF IsInjective
  <2> QED
    BY <2>1 DEF VectorsInit, QueueTyped
<1>5. CacheTyped /\ WriterTyped
  BY DEF VectorsInit, CacheTyped, WriterTyped
<1>6. WorkerTyped
  BY RestedTyped DEF VectorsInit, WorkerTyped
<1> QED
  BY <1>1, <1>3, <1>4, <1>5, <1>6 DEF VTyped
-----------------------------------------------------------------------------
(* The worker's steps keep the types: the reading steps.                   *)

LEMMA WorkerFields ==
  ASSUME WorkerTyped
  PROVE  /\ worker.todo \in Seq(Paths) /\ worker.parked \in Seq(Paths)
         /\ worker.pairs \in Seq(Pair) /\ worker.chunk \in Seq(Pair)
         /\ worker.flag \in BOOLEAN /\ worker.listed \in SUBSET Paths
         /\ worker.model \in Models \cup {Absent} /\ worker.learned \in Nat
         /\ worker.tries \in 0 .. Attempts /\ worker.phase \in {"drain", "rebuild", "boot"}
BY DEF WorkerTyped, Worker

LEMMA TickTyped ==
  ASSUME VTyped, Tick
  PROVE  VTyped'
<1> USE DEF VTyped
<1>1. [worker EXCEPT !.at = "mark", !.model = config] \in Worker
  BY DEF WorkerTyped, Worker, StoreTyped
<1>2. config # Absent => Shape([worker EXCEPT !.at = "mark", !.model = config])
  BY DEF WorkerTyped, Worker, Shape, Resting, Reading, Tick
<1>3. WorkerTyped'
  BY <1>1, <1>2 DEF Tick, WorkerTyped
<1>4. health' \in HealthInner
  BY HealthMoves DEF Tick, TasksTyped
<1> QED
  BY <1>3, <1>4 DEF Tick, WorkerOnly, StoreTyped, QueueTyped, TasksTyped, CacheTyped, WriterTyped

LEMMA MarkStaleTyped ==
  ASSUME VTyped, MarkStale
  PROVE  VTyped'
<1> USE DEF VTyped
<1>0. learned \in Nat
  BY VectorAssumption DEF TasksTyped
<1> DEFINE n == [worker EXCEPT !.at = "drain", !.learned = learned]
<1>1. n \in Worker
  BY <1>0 DEF WorkerTyped, Worker
<1>2. Shape(n)
  BY DEF WorkerTyped, Worker, Shape, Resting, Reading, MarkStale
<1>3. WorkerTyped'
  BY <1>1, <1>2 DEF MarkStale, WorkerTyped
<1>4. events' \in 0 .. MaxEvents
  BY PaidCounts DEF MarkStale
<1>5. rows' \in [Paths -> Row \cup {Absent}]
  <2>1. CASE UNCHANGED rows
    BY <2>1 DEF StoreTyped
  <2>2. CASE mark_corpus_stale(worker.model, learned)
    <3>1. \A p \in Paths : rows[p] \in Row => [rows[p] EXCEPT !.stale = TRUE] \in Row
      BY DEF Row
    <3> QED
      BY <2>2, <3>1 DEF mark_corpus_stale, StoreTyped
  <2> QED
    BY <2>1, <2>2 DEF MarkStale
<1> QED
  BY <1>3, <1>4, <1>5 DEF MarkStale, WorkerOnly, StoreTyped, QueueTyped, TasksTyped, CacheTyped,
                          WriterTyped

LEMMA DrainTyped ==
  ASSUME VTyped, Drain
  PROVE  VTyped'
<1> USE DEF VTyped
<1>1. WorkerTyped'
  <2>1. CASE BackendState(health) = "red"
    BY <2>1, RestedTyped, WorkerFields DEF Drain, WorkerTyped
  <2>2. CASE BackendState(health) # "red"
    <3> DEFINE a == IF queue = <<>> THEN "stale" ELSE "list"
               n == [worker EXCEPT !.flag = FALSE, !.boot = worker.flag, !.phase = "drain",
                       !.at = a, !.todo = queue]
    <3>0. a \in {"stale", "list"} /\ (a = "stale" => queue = <<>>) /\ worker' = n
      BY <2>2 DEF Drain
    <3> HIDE DEF a
    <3>1. n \in Worker
      BY <3>0, WorkerFields DEF WorkerTyped, Worker, QueueTyped
    <3>2. Shape(n)
      BY <3>0 DEF WorkerTyped, Worker, Shape, Resting, Reading, Drain
    <3> QED
      BY <3>0, <3>1, <3>2 DEF WorkerTyped
  <2> QED
    BY <2>1, <2>2
<1>2. QueueTyped'
  <2>1. <<>> \in Seq(Paths) /\ IsInjective(<<>>) /\ Len(<<>>) <= Capacity
    BY VectorAssumption DEF IsInjective
  <2> QED
    BY <2>1 DEF Drain, WorkerOnly, QueueTyped
<1> QED
  BY <1>1, <1>2 DEF Drain, WorkerOnly, StoreTyped, TasksTyped, CacheTyped, WriterTyped

LEMMA ListTyped ==
  ASSUME VTyped, List
  PROVE  VTyped'
<1> USE DEF VTyped
<1>1. CASE worker' = [worker EXCEPT !.at = "load", !.listed = registry] /\ Unpaid /\ UNCHANGED lost
  <2> DEFINE n == [worker EXCEPT !.at = "load", !.listed = registry]
  <2>1. n \in Worker
    BY DEF WorkerTyped, Worker, StoreTyped
  <2>2. Shape(n)
    BY DEF WorkerTyped, Worker, Shape, Resting, Reading, List
  <2>3. WorkerTyped' /\ events' \in 0 .. MaxEvents
    BY <1>1, <2>1, <2>2, PaidCounts DEF WorkerTyped
  <2> QED
    BY <1>1, <2>3 DEF List, WorkerOnly, StoreTyped, QueueTyped, TasksTyped, CacheTyped, WriterTyped
<1>2. CASE /\ worker' = [worker EXCEPT !.at = "stale", !.todo = <<>>]
           /\ Paid /\ lost' = lost \cup ToSet(worker.todo)
  <2> DEFINE n == [worker EXCEPT !.at = "stale", !.todo = <<>>]
  <2>0. <<>> \in Seq(Paths)
    OBVIOUS
  <2>1. n \in Worker
    BY <2>0 DEF WorkerTyped, Worker
  <2>2. Shape(n)
    BY DEF WorkerTyped, Worker, Shape, Resting, Reading, List
  <2>3. WorkerTyped' /\ events' \in 0 .. MaxEvents
    BY <1>2, <2>1, <2>2, PaidCounts DEF WorkerTyped
  <2>4. QueueTyped'
    BY <1>2, WorkerFields, ToSetIn DEF List, WorkerOnly, QueueTyped
  <2> QED
    BY <2>3, <2>4 DEF List, WorkerOnly, StoreTyped, TasksTyped, CacheTyped, WriterTyped
<1> QED
  BY <1>1, <1>2 DEF List

\* The path the worker reads next.
LEMMA NextPath ==
  ASSUME WorkerTyped, worker.todo # <<>>
  PROVE  /\ Head(worker.todo) \in Paths /\ Tail(worker.todo) \in Seq(Paths)
         /\ ToSet(worker.todo) = {Head(worker.todo)} \cup ToSet(Tail(worker.todo))
BY WorkerFields, ToSetHead

LEMMA LoadTyped ==
  ASSUME VTyped, Load
  PROVE  VTyped'
<1> USE DEF VTyped
<1> DEFINE p == Head(worker.todo)
<1>0. worker.at = "load" /\ worker \in Worker /\ Shape(worker)
  BY DEF Load, WorkerTyped
<1>q. QueueTyped' /\ WorkerTyped' => VTyped'
  BY DEF Load, WorkerOnly, StoreTyped, TasksTyped, CacheTyped, WriterTyped
<1>u. UNCHANGED <<queue, lost>> => QueueTyped'
  BY DEF Load, QueueTyped
<1>1. CASE worker.todo = <<>>
  <2>1. CASE worker.phase = "boot"
    BY <1>1, <2>1, <1>q, <1>u, RestedTyped, WorkerFields DEF Load, WorkerTyped
  <2>2. CASE worker.phase # "boot"
    <3> DEFINE n == [worker EXCEPT !.at = "embed", !.listed = {}]
    <3>1. worker' = n /\ UNCHANGED <<queue, lost>>
      BY <1>1, <2>2 DEF Load, Loaded
    <3>2. n \in Worker
      BY <1>0 DEF Worker
    <3>3. Shape(n)
      BY <1>0, <1>1, <2>2 DEF Worker, Shape, Resting, Reading
    <3> QED
      BY <3>1, <3>2, <3>3, <1>q, <1>u DEF WorkerTyped
  <2> QED
    BY <2>1, <2>2
<1>2. CASE worker.todo # <<>>
  <2>0. p \in Paths /\ Tail(worker.todo) \in Seq(Paths)
    BY <1>2, NextPath
  <2> DEFINE rest == [worker EXCEPT !.todo = Tail(@)]
  <2>r. rest \in Worker /\ Shape(rest)
    <3>1. rest \in Worker
      BY <1>0, <2>0 DEF Worker
    <3>2. Shape(rest)
      BY <1>0 DEF Worker, Shape, Resting, Reading
    <3> QED
      BY <3>1, <3>2
  <2>1. CASE worker.phase = "drain" /\ (p \notin worker.listed \/ file[p] = Absent)
    <3> DEFINE n == [worker EXCEPT !.at = "belt"]
    <3>1. worker' = n /\ UNCHANGED <<queue, lost>>
      BY <1>2, <2>1 DEF Load
    <3>2. n \in Worker
      BY <1>0 DEF Worker
    <3>3. Shape(n)
      BY <1>0, <1>2, <2>1 DEF Worker, Shape, Resting, Reading
    <3> QED
      BY <3>1, <3>2, <3>3, <1>q, <1>u DEF WorkerTyped
  <2>2. CASE worker.phase # "drain" /\ file[p] = Absent
    <3> DEFINE n == [worker EXCEPT !.at = "sweepDoc"]
    <3>1. worker' = n /\ UNCHANGED <<queue, lost>>
      BY <1>2, <2>2 DEF Load
    <3>2. n \in Worker
      BY <1>0 DEF Worker
    <3>3. Shape(n)
      BY <1>0, <1>2, <2>2 DEF Worker, Shape, Resting, Reading
    <3> QED
      BY <3>1, <3>2, <3>3, <1>q, <1>u DEF WorkerTyped
  <2>3. CASE worker.phase = "boot" /\ file[p] # Absent
    <3>1. worker' = rest /\ queue' = enqueue_write(queue, p) /\ lost' = Refused(queue, p)
      BY <1>2, <2>3 DEF Load
    <3>2. QueueTyped'
      BY <3>1, <2>0, EnqueueWrite DEF Load, QueueTyped
    <3> QED
      BY <3>1, <3>2, <2>r, <1>q DEF WorkerTyped
  <2>4. CASE /\ ~(worker.phase = "drain" /\ (p \notin worker.listed \/ file[p] = Absent))
             /\ ~(worker.phase # "drain" /\ file[p] = Absent)
             /\ ~(worker.phase = "boot" /\ file[p] # Absent)
    <3> DEFINE x == [path |-> p, of |-> file[p]]
               ps == Append(worker.pairs, x)
               n == [rest EXCEPT !.pairs = Append(@, x)]
    <3>1. worker' = n /\ UNCHANGED <<queue, lost>>
      BY <1>2, <2>4 DEF Load
    <3>2. file[p] # Absent /\ worker.phase # "boot"
      BY <2>4
    <3>3. x \in Pair
      BY <2>0, <3>2 DEF Pair, StoreTyped
    <3>4. ps \in Seq(Pair)
      BY <3>3, WorkerFields, ToSetAppend
    <3>5. rest.pairs = worker.pairs /\ n = [rest EXCEPT !.pairs = ps]
      BY <1>0 DEF Worker
    <3>6. rest.at = "load" /\ rest.phase = worker.phase
      BY <1>0 DEF Worker
    <3> HIDE DEF ps, rest, x
    <3>7. n \in Worker
      BY <2>r, <3>4, <3>5 DEF Worker
    <3>8. Shape(n)
      BY <2>r, <3>2, <3>5, <3>6 DEF Worker, Shape, Resting, Reading
    <3> QED
      BY <3>1, <3>7, <3>8, <1>q, <1>u DEF WorkerTyped
  <2> QED
    BY <2>1, <2>2, <2>3, <2>4
<1> QED
  BY <1>1, <1>2

LEMMA SkipTyped ==
  ASSUME VTyped, SkipUnloadable
  PROVE  VTyped'
<1> USE DEF VTyped
<1>0. worker.at = "load" /\ worker \in Worker /\ Shape(worker) /\ worker.todo # <<>>
  BY DEF SkipUnloadable, WorkerTyped
<1>1. Head(worker.todo) \in Paths /\ Tail(worker.todo) \in Seq(Paths)
  BY <1>0, NextPath
<1> DEFINE n == [worker EXCEPT !.todo = Tail(@)]
<1>2. n \in Worker
  BY <1>0, <1>1 DEF Worker
<1>3. Shape(n)
  BY <1>0 DEF Worker, Shape, Resting, Reading
<1>4. WorkerTyped' /\ events' \in 0 .. MaxEvents
  BY <1>2, <1>3, PaidCounts DEF SkipUnloadable, WorkerTyped
<1>5. QueueTyped'
  BY <1>1 DEF SkipUnloadable, QueueTyped
<1> QED
  BY <1>4, <1>5 DEF SkipUnloadable, WorkerOnly, StoreTyped, TasksTyped, CacheTyped, WriterTyped

LEMMA BeltTyped ==
  ASSUME VTyped, Belt
  PROVE  VTyped'
<1> USE DEF VTyped
<1>0. worker.at \in {"belt", "sweepRow"} /\ worker \in Worker /\ Shape(worker)
  BY DEF Belt, WorkerTyped
<1>1. worker.todo # <<>>
  BY <1>0 DEF Shape
<1>2. Head(worker.todo) \in Paths /\ Tail(worker.todo) \in Seq(Paths)
  BY <1>1, NextPath
<1> DEFINE n == [worker EXCEPT !.at = "load", !.todo = Tail(@)]
<1>3. n \in Worker
  BY <1>0, <1>2 DEF Worker
<1>4. Shape(n)
  BY <1>0 DEF Worker, Shape, Resting, Reading
<1>5. WorkerTyped' /\ events' \in 0 .. MaxEvents
  BY <1>3, <1>4, PaidCounts DEF Belt, WorkerTyped
<1>6. StoreTyped'
  BY <1>2 DEF Belt, WorkerOnly, remove_row, StoreTyped
<1> QED
  BY <1>5, <1>6 DEF Belt, WorkerOnly, QueueTyped, TasksTyped, CacheTyped, WriterTyped

LEMMA SweepDocTyped ==
  ASSUME VTyped, SweepDoc
  PROVE  VTyped'
<1> USE DEF VTyped
<1>0. worker.at = "sweepDoc" /\ worker \in Worker /\ Shape(worker)
  BY DEF SweepDoc, WorkerTyped
<1>1. worker.todo # <<>>
  BY <1>0 DEF Shape
<1>2. Head(worker.todo) \in Paths
  BY <1>1, NextPath
<1> DEFINE n == [worker EXCEPT !.at = "sweepRow"]
<1>3. n \in Worker
  BY <1>0 DEF Worker
<1>4. Shape(n)
  BY <1>0 DEF Worker, Shape, Resting, Reading
<1>5. WorkerTyped' /\ events' \in 0 .. MaxEvents
  BY <1>3, <1>4, PaidCounts DEF SweepDoc, WorkerTyped
<1>6. StoreTyped' /\ QueueTyped'
  BY <1>2 DEF SweepDoc, WorkerOnly, StoreTyped, QueueTyped
<1> QED
  BY <1>5, <1>6 DEF SweepDoc, WorkerOnly, TasksTyped, CacheTyped, WriterTyped

\* What the drain parked and what it had not come to.
LEMMA ParkedIn ==
  ASSUME WorkerTyped
  PROVE  /\ Parked(worker) \in Seq(Paths)
         /\ ToSet(worker.parked) \subseteq ToSet(Parked(worker))
         /\ \A e \in ToSet(worker.pairs) : e.path \in ToSet(Parked(worker))
<1>1. Parked(worker) = worker.parked \o PathsOf(worker.pairs)
  BY DEF Parked, PathsOf
<1>2. worker.parked \in Seq(Paths) /\ worker.pairs \in Seq(Pair)
  BY WorkerFields
<1>3. /\ PathsOf(worker.pairs) \in Seq(Paths)
      /\ \A e \in ToSet(worker.pairs) : e.path \in ToSet(PathsOf(worker.pairs))
  BY <1>2, PathsOfIn
<1> QED
  BY <1>1, <1>2, <1>3, ToSetCat

LEMMA FinishEmbedTyped ==
  ASSUME VTyped, FinishEmbed
  PROVE  VTyped'
<1> USE DEF VTyped
<1>0. worker.at = "embed" /\ worker \in Worker /\ Shape(worker)
  BY DEF FinishEmbed, WorkerTyped
<1> DEFINE again == IF worker.phase = "drain" THEN Parked(worker) ELSE <<>>
           n == [worker EXCEPT !.at = "requeue", !.pairs = <<>>, !.tries = 0, !.parked = again]
<1>1. again \in Seq(Paths)
  BY ParkedIn
<1>2. worker' = n
  BY DEF FinishEmbed
<1> HIDE DEF again
<1>3. 0 \in 0 .. Attempts /\ <<>> \in Seq(Pair)
  BY VectorAssumption
<1>4. n \in Worker
  BY <1>0, <1>1, <1>3 DEF Worker
<1>5. Shape(n)
  BY <1>0 DEF Worker, Shape, Resting, Reading
<1> QED
  BY <1>2, <1>4, <1>5 DEF FinishEmbed, WorkerOnly, Quiet, Still, Unpaid, WorkerTyped, StoreTyped,
                          QueueTyped, TasksTyped, CacheTyped, WriterTyped

LEMMA RequeueTyped ==
  ASSUME VTyped, Requeue
  PROVE  VTyped'
<1> USE DEF VTyped
<1>0. worker.at = "requeue" /\ worker \in Worker /\ Shape(worker)
  BY DEF Requeue, WorkerTyped
<1>q. QueueTyped' /\ WorkerTyped' => VTyped'
  BY DEF Requeue, WorkerOnly, StoreTyped, TasksTyped, CacheTyped, WriterTyped
<1>1. CASE worker.parked = <<>>
  <2> DEFINE a == IF worker.wrote THEN "bump"
                  ELSE IF worker.phase = "drain" THEN "stale" ELSE "boot"
             n == [worker EXCEPT !.wrote = FALSE, !.at = a]
  <2>1. a \in {"bump", "stale", "boot"} /\ (a = "boot" => worker.phase # "drain") /\ worker' = n
    BY <1>1 DEF Requeue
  <2>2. worker.phase \in {"drain", "rebuild"}
    BY <1>0 DEF Worker, Shape, Reading
  <2> HIDE DEF a
  <2>3. n \in Worker
    BY <1>0, <2>1 DEF Worker
  <2>4. Shape(n)
    BY <1>0, <1>1, <2>1, <2>2 DEF Worker, Shape, Resting, Reading
  <2> QED
    BY <1>1, <2>1, <2>3, <2>4, <1>q DEF Requeue, WorkerTyped, QueueTyped
<1>2. CASE worker.parked # <<>>
  <2>1. Head(worker.parked) \in Paths /\ Tail(worker.parked) \in Seq(Paths)
    BY <1>2, WorkerFields, ToSetHead
  <2> DEFINE n == [worker EXCEPT !.parked = Tail(@)]
  <2>2. n \in Worker
    BY <1>0, <2>1 DEF Worker
  <2>3. Shape(n)
    BY <1>0 DEF Worker, Shape, Resting, Reading
  <2>4. QueueTyped'
    BY <1>2, <2>1, EnqueueWrite DEF Requeue, QueueTyped
  <2> QED
    BY <1>2, <2>2, <2>3, <2>4, <1>q DEF Requeue, WorkerTyped
<1> QED
  BY <1>1, <1>2

\* A batch is taken off the texts that wait.
BatchLen == IF Len(worker.pairs) < Batch THEN Len(worker.pairs) ELSE Batch
BatchOf  == SubSeq(worker.pairs, 1, BatchLen)
Waiting  == SubSeq(worker.pairs, BatchLen + 1, Len(worker.pairs))

LEMMA BatchIn ==
  ASSUME WorkerTyped, worker.pairs # <<>>
  PROVE  /\ BatchLen \in 1 .. Len(worker.pairs)
         /\ BatchOf \in Seq(Pair) /\ BatchOf # <<>> /\ Waiting \in Seq(Pair)
         /\ Len(BatchOf) = BatchLen
         /\ ToSet(worker.pairs) = ToSet(BatchOf) \cup ToSet(Waiting)
<1>1. worker.pairs \in Seq(Pair)
  BY WorkerFields
<1>2. Len(worker.pairs) \in Nat \ {0}
  BY <1>1, LenZero
<1>3. BatchLen \in 1 .. Len(worker.pairs)
  BY <1>2, VectorAssumption DEF BatchLen
<1>4. /\ BatchOf \in Seq(Pair) /\ Waiting \in Seq(Pair) /\ Len(BatchOf) = BatchLen
      /\ ToSet(worker.pairs) = ToSet(BatchOf) \cup ToSet(Waiting)
  BY <1>1, <1>2, <1>3, ToSetCut DEF BatchOf, Waiting
<1>5. BatchOf # <<>>
  BY <1>3, <1>4, LenZero
<1> QED
  BY <1>3, <1>4, <1>5

\* The three outcomes of an attempt.
LEMMA EmbedEffect ==
  ASSUME WorkerTyped, Embed
  PROVE  \/ worker' = [worker EXCEPT !.at = "upsert", !.pairs = Waiting, !.tries = 0,
                                     !.chunk = BatchOf]
         \/ worker' = [worker EXCEPT !.tries = worker.tries + 1] /\ worker.tries + 1 < Attempts
         \/ worker' = [worker EXCEPT !.pairs = Waiting, !.tries = 0,
                                     !.parked = worker.parked \o PathsOf(BatchOf)]
<1>0. worker.at = "embed" /\ worker \in Worker /\ worker.pairs # <<>>
  BY DEF Embed, WorkerTyped
<1>1. Len(BatchOf) = BatchLen
  BY <1>0, BatchIn
<1> DEFINE n == BatchLen
           given == [worker EXCEPT !.pairs = Waiting, !.tries = 0]
<1>2. [worker EXCEPT !.pairs = SubSeq(@, n + 1, Len(@)), !.tries = 0] = given
  BY <1>0 DEF Waiting, Worker
<1>3. \/ worker' = [given EXCEPT !.at = "upsert", !.chunk = BatchOf]
      \/ worker' = [worker EXCEPT !.tries = @ + 1] /\ worker.tries + 1 < Attempts
      \/ worker' = [given EXCEPT !.parked = @ \o [i \in 1 .. n |-> BatchOf[i].path]]
  BY <1>2 DEF Embed, BatchLen, BatchOf
<1>4. [i \in 1 .. n |-> BatchOf[i].path] = PathsOf(BatchOf)
  BY <1>1 DEF PathsOf
<1>5. given.parked = worker.parked
  BY <1>0 DEF Worker
<1> QED
  BY <1>0, <1>3, <1>4, <1>5 DEF Worker

LEMMA EmbedTyped ==
  ASSUME VTyped, Embed
  PROVE  VTyped'
<1> USE DEF VTyped
<1>0. /\ worker.at = "embed" /\ worker \in Worker /\ Shape(worker)
      /\ worker.pairs # <<>> /\ worker.chunk = <<>>
  BY DEF Embed, WorkerTyped
<1>1. BatchOf \in Seq(Pair) /\ BatchOf # <<>> /\ Waiting \in Seq(Pair)
  BY <1>0, BatchIn
<1>2. 0 \in 0 .. Attempts
  BY VectorAssumption
<1>3. WorkerTyped'
  <2>1. CASE worker' = [worker EXCEPT !.at = "upsert", !.pairs = Waiting, !.tries = 0,
                                      !.chunk = BatchOf]
    <3>1. worker' \in Worker
      BY <1>0, <1>1, <1>2, <2>1 DEF Worker
    <3>2. Shape(worker')
      BY <1>0, <1>1, <2>1 DEF Worker, Shape, Resting, Reading
    <3> QED
      BY <3>1, <3>2 DEF WorkerTyped
  <2>2. CASE worker' = [worker EXCEPT !.tries = worker.tries + 1] /\ worker.tries + 1 < Attempts
    <3>a. worker.tries \in 0 .. Attempts /\ Attempts \in Nat
      BY <1>0, VectorAssumption DEF Worker
    <3>0. worker.tries + 1 \in 0 .. Attempts
      BY <2>2, <3>a
    <3>1. worker' \in Worker
      BY <1>0, <2>2, <3>0 DEF Worker
    <3>2. Shape(worker')
      BY <1>0, <2>2 DEF Worker, Shape, Resting, Reading
    <3> QED
      BY <3>1, <3>2 DEF WorkerTyped
  <2>3. CASE worker' = [worker EXCEPT !.pairs = Waiting, !.tries = 0,
                                      !.parked = worker.parked \o PathsOf(BatchOf)]
    <3>0. worker.parked \o PathsOf(BatchOf) \in Seq(Paths)
      BY <1>1, PathsOfIn, WorkerFields, ToSetCat
    <3> DEFINE ps == worker.parked \o PathsOf(BatchOf)
    <3> HIDE DEF ps
    <3>1. worker' \in Worker
      BY <1>0, <1>1, <1>2, <2>3, <3>0 DEF Worker
    <3>2. Shape(worker')
      BY <1>0, <2>3 DEF Worker, Shape, Resting, Reading
    <3> QED
      BY <3>1, <3>2 DEF WorkerTyped
  <2> QED
    BY <2>1, <2>2, <2>3, EmbedEffect
<1>4. events' \in 0 .. MaxEvents
  BY PaidCounts DEF Embed, embed_batch
<1>5. health' \in HealthInner
  BY HealthMoves DEF Embed, embed_batch, record_emb_success, record_outcome, TasksTyped
<1>6. learned' \in {0} \cup {DimsOf[m] : m \in Models}
  <2>1. worker.model \in Models
    BY <1>0, WorkerFields DEF Shape
  <2> QED
    BY <2>1 DEF Embed, embed_batch, record_emb_success, record_outcome, TasksTyped
<1> QED
  BY <1>3, <1>4, <1>5, <1>6 DEF Embed, WorkerOnly, StoreTyped, QueueTyped, TasksTyped, CacheTyped,
                               WriterTyped

LEMMA UpsertTyped ==
  ASSUME VTyped, Upsert
  PROVE  VTyped'
<1> USE DEF VTyped
<1> DEFINE e == Head(worker.chunk)
           a == IF Len(worker.chunk) = 1 THEN "embed" ELSE "upsert"
<1>0. worker.at = "upsert" /\ worker \in Worker /\ Shape(worker)
  BY DEF Upsert, WorkerTyped
<1>1. worker.chunk # <<>> /\ worker.model \in Models
  BY <1>0, WorkerFields DEF Shape
<1>2. /\ e \in Pair /\ Tail(worker.chunk) \in Seq(Pair)
      /\ Len(worker.chunk) = 1 <=> Tail(worker.chunk) = <<>>
  BY <1>1, WorkerFields, ToSetHead
<1>3. a \in {"embed", "upsert"} /\ (a = "embed" <=> Tail(worker.chunk) = <<>>)
  BY <1>2
<1>4. \/ worker' = [worker EXCEPT !.chunk = Tail(@), !.wrote = TRUE, !.at = a]
      \/ worker' = [worker EXCEPT !.chunk = Tail(@), !.at = a]
  BY DEF Upsert
<1>5. e.path \in Paths /\ e.of \in Contents
  BY <1>2 DEF Pair
<1> HIDE DEF a, e
<1>6. ASSUME NEW b \in BOOLEAN,
             worker' = [worker EXCEPT !.chunk = Tail(worker.chunk), !.wrote = b, !.at = a]
      PROVE  worker' \in Worker /\ Shape(worker')
  <2>1. worker' \in Worker
    BY <1>0, <1>2, <1>3, <1>6 DEF Worker
  <2>2. Shape(worker')
    BY <1>0, <1>3, <1>6 DEF Worker, Shape, Resting, Reading
  <2> QED
    BY <2>1, <2>2
<1>7. worker' \in Worker /\ Shape(worker')
  <2>1. CASE worker' = [worker EXCEPT !.chunk = Tail(@), !.wrote = TRUE, !.at = a]
    BY <2>1, <1>6
  <2>2. CASE worker' = [worker EXCEPT !.chunk = Tail(@), !.at = a]
    <3>1. worker' = [worker EXCEPT !.chunk = Tail(worker.chunk), !.wrote = worker.wrote, !.at = a]
          /\ worker.wrote \in BOOLEAN
      BY <2>2, <1>0 DEF Worker
    <3> QED
      BY <3>1, <1>6
  <2> QED
    BY <2>1, <2>2, <1>4
<1>8. StoreTyped'
  <2>1. [of |-> e.of, model |-> worker.model, stale |-> FALSE] \in Row
    BY <1>1, <1>5 DEF Row
  <2> QED
    BY <1>5, <2>1 DEF Upsert, WorkerOnly, StoreTyped, e
<1>9. QueueTyped' /\ events' \in 0 .. MaxEvents
  BY <1>5, PaidCounts DEF Upsert, WorkerOnly, QueueTyped, e
<1> QED
  BY <1>7, <1>8, <1>9 DEF Upsert, WorkerOnly, WorkerTyped, TasksTyped, CacheTyped, WriterTyped

LEMMA WorkerInvalidateTyped ==
  ASSUME VTyped, WorkerInvalidate
  PROVE  VTyped'
<1> USE DEF VTyped
<1>0. worker.at \in {"bump", "remove"} /\ worker \in Worker /\ Shape(worker)
  BY DEF WorkerInvalidate, WorkerTyped
<1>1. worker.phase \in {"drain", "rebuild"}
  BY <1>0 DEF Worker, Shape, Reading
<1> DEFINE a == IF worker.at = "bump" THEN "remove"
                ELSE IF worker.phase = "drain" THEN "stale" ELSE "boot"
<1>2. worker' = [worker EXCEPT !.at = a]
  BY DEF WorkerInvalidate
<1>3. a \in {"remove", "stale", "boot"} /\ (a = "boot" => worker.phase = "rebuild")
  BY <1>1
<1> HIDE DEF a
<1>4. worker' \in Worker
  BY <1>0, <1>2, <1>3 DEF Worker
<1>5. Shape(worker')
  BY <1>0, <1>2, <1>3 DEF Worker, Shape, Resting, Reading
<1>6. CacheTyped'
  BY DEF WorkerInvalidate, Bump, RemoveSnapshot, WorkerOnly, CacheTyped
<1> QED
  BY <1>4, <1>5, <1>6 DEF WorkerInvalidate, WorkerOnly, WorkerTyped, StoreTyped, QueueTyped,
                          TasksTyped, WriterTyped

LEMMA FindStaleTyped ==
  ASSUME VTyped, FindStale
  PROVE  VTyped'
<1> USE DEF VTyped
<1>0. worker.at = "stale" /\ worker \in Worker /\ Shape(worker)
  BY DEF FindStale, WorkerTyped
<1>1. PICK a \in {"backlog", "boot"} : worker' = [worker EXCEPT !.phase = "rebuild", !.at = a]
  BY DEF FindStale
<1>2. worker' \in Worker
  BY <1>0, <1>1 DEF Worker
<1>3. Shape(worker')
  BY <1>0, <1>1 DEF Worker, Shape, Resting, Reading
<1>4. events' \in 0 .. MaxEvents
  BY PaidCounts DEF FindStale
<1> QED
  BY <1>2, <1>3, <1>4 DEF FindStale, WorkerOnly, Still, WorkerTyped, StoreTyped, QueueTyped,
                          TasksTyped, CacheTyped, WriterTyped

LEMMA BacklogTyped ==
  ASSUME VTyped, Backlog
  PROVE  VTyped'
<1> USE DEF VTyped
<1> DEFINE found == Ordered(backlog_paths(worker.model, learned))
           k == IF Len(found) < StalePerTick THEN Len(found) ELSE StalePerTick
           cut == SubSeq(found, 1, k)
<1>0. worker.at = "backlog" /\ worker \in Worker /\ Shape(worker)
  BY DEF Backlog, WorkerTyped
<1>1. found \in Seq(Paths)
  BY OrderedIn DEF backlog_paths
<1>2. k \in 0 .. Len(found)
  BY <1>1, VectorAssumption
<1>3. \/ worker' = [worker EXCEPT !.at = "load", !.todo = cut]
      \/ worker' = [worker EXCEPT !.at = "boot"]
  BY DEF Backlog
<1> HIDE DEF found, k
<1>4. cut \in Seq(Paths)
  BY <1>1, <1>2, ToSetCut
<1> HIDE DEF cut
<1>5. worker' \in Worker
  <2>1. CASE worker' = [worker EXCEPT !.at = "load", !.todo = cut]
    BY <1>0, <1>4, <2>1 DEF Worker
  <2>2. CASE worker' = [worker EXCEPT !.at = "boot"]
    BY <1>0, <2>2 DEF Worker
  <2> QED
    BY <1>3, <2>1, <2>2
<1>5a. worker.phase = "rebuild"
  BY <1>0 DEF Shape
<1>6. Shape(worker')
  BY <1>0, <1>3, <1>5a DEF Worker, Shape, Resting, Reading
<1>7. events' \in 0 .. MaxEvents
  BY PaidCounts DEF Backlog
<1> QED
  BY <1>5, <1>6, <1>7 DEF Backlog, WorkerOnly, Still, WorkerTyped, StoreTyped, QueueTyped,
                          TasksTyped, CacheTyped, WriterTyped

LEMMA BootBacklogTyped ==
  ASSUME VTyped, BootBacklog
  PROVE  VTyped'
<1> USE DEF VTyped
<1> DEFINE found == backlog_paths(worker.model, worker.learned)
           all == Ordered(found)
<1>0. worker.at = "boot" /\ worker \in Worker /\ Shape(worker)
  BY DEF BootBacklog, WorkerTyped
<1>1. found \subseteq Paths /\ all \in Seq(Paths)
  BY OrderedIn DEF backlog_paths
<1>2. \/ worker' = [Rested EXCEPT !.flag = worker.flag]
      \/ worker' = [worker EXCEPT !.at = "load", !.phase = "boot", !.todo = all]
  BY DEF BootBacklog
<1>3. lost' = lost \/ lost' = lost \cup found
  BY DEF BootBacklog
<1> HIDE DEF found, all
<1>4. WorkerTyped'
  <2>1. CASE worker' = [Rested EXCEPT !.flag = worker.flag]
    BY <2>1, RestedTyped, WorkerFields DEF WorkerTyped
  <2>2. CASE worker' = [worker EXCEPT !.at = "load", !.phase = "boot", !.todo = all]
    <3>1. worker' \in Worker
      BY <1>0, <1>1, <2>2 DEF Worker
    <3>2. Shape(worker')
      BY <1>0, <2>2 DEF Worker, Shape, Resting, Reading
    <3> QED
      BY <3>1, <3>2 DEF WorkerTyped
  <2> QED
    BY <1>2, <2>1, <2>2
<1>5. QueueTyped'
  BY <1>1, <1>3 DEF BootBacklog, QueueTyped
<1>6. events' \in 0 .. MaxEvents
  BY PaidCounts DEF BootBacklog
<1> QED
  BY <1>4, <1>5, <1>6 DEF BootBacklog, WorkerOnly, StoreTyped, TasksTyped, CacheTyped, WriterTyped

LEMMA NextTyped ==
  ASSUME VTyped, [VectorsNext]_vvars
  PROVE  VTyped'
<1>1. CASE UNCHANGED vvars
  BY <1>1 DEF VTyped, vvars, store, memory, history, StoreTyped, QueueTyped, TasksTyped, CacheTyped,
              WriterTyped, WorkerTyped
<1>2. CASE WorkerStep
  BY <1>2, TickTyped, MarkStaleTyped, DrainTyped, ListTyped, LoadTyped, SkipTyped, BeltTyped,
     SweepDocTyped, FinishEmbedTyped, RequeueTyped, EmbedTyped, UpsertTyped, WorkerInvalidateTyped,
     FindStaleTyped, BacklogTyped, BootBacklogTyped DEF WorkerStep
<1> QED
  BY <1>1, <1>2, WriterStepTyped, QueryStepTyped, OthersTyped, RestartTyped DEF VectorsNext

\* Every reachable state is typed: the queue holds no path twice and no more
\* than its capacity, the batch that is written is the one that was embedded,
\* and nothing is left in the worker's hands when it rests.
THEOREM VectorsTyped == VectorsSpec => []VTyped
<1>1. VectorsInit => VTyped
  BY InitTyped
<1>2. VTyped /\ [VectorsNext]_vvars => VTyped'
  BY NextTyped
<1> QED
  BY <1>1, <1>2, PTL DEF VectorsSpec

\* In particular the model's type invariant: a row, a snapshot, a request or a
\* query is there or absent, and no counter leaves its range.
THEOREM VectorsTypes == VectorsSpec => []VectorsTypeOK
BY VectorsTyped, VTypedTypes, PTL
-----------------------------------------------------------------------------
(* RowsCurrent.  Its inductive invariant says, besides the property, what  *)
(* is known of the texts the worker holds (read earlier than they are      *)
(* written), of the registry it listed (earlier than it is looked up) and  *)
(* of the path it is about to remove the row of.                           *)

Texts == ToSet(worker.pairs) \cup ToSet(worker.chunk)

\* A text in the worker's hands is the file's, or is going to be replaced.
TextsCurrent ==
    \A e \in Texts : file[e.path] = Absent \/ e.of = file[e.path] \/ Requested(e.path)

\* What was registered after the listing is still to be queued.
Unlisted ==
    worker.at \in {"load", "belt"} /\ worker.phase = "drain" =>
        \A p \in registry \ worker.listed : Requested(p)

\* The path whose row goes has no concept, or one written since.
Belted ==
    worker.at = "belt" =>
        (Head(worker.todo) \in registry /\ file[Head(worker.todo)] # Absent
         => Requested(Head(worker.todo)))

Current == TextsCurrent /\ Unlisted /\ Belted /\ RowsCurrent

Due(p) == Requested(p) \/ InDrain(p)

LEMMA TextsIn ==
  ASSUME VTyped
  PROVE  \A e \in Texts : e \in Pair /\ e.path \in Paths /\ e.of \in Contents
<1>1. Texts \subseteq Pair
  BY WorkerFields, ToSetIn DEF VTyped, Texts
<1> QED
  BY <1>1 DEF Pair

\* A step that is not the worker's.
LEMMA OthersKeepCurrent ==
  ASSUME VTyped, Current, worker' = worker,
         \A p \in Paths : rows'[p] = rows[p] \/ rows'[p] = Absent,
         \A p \in Paths : file'[p] = file[p] \/ file'[p] = Absent \/ Requested(p)',
         \A p \in Paths : p \in registry' => p \in registry \/ Requested(p)',
         registry' \subseteq Paths,
         \A p \in Paths : Requested(p) => Requested(p)'
  PROVE  Current'
<1>1. TextsCurrent'
  <2>1. Texts' = Texts
    BY DEF Texts
  <2> QED
    BY <2>1, TextsIn DEF Current, TextsCurrent
<1>2. Unlisted'
  BY DEF Current, Unlisted
<1>3. Belted'
  <2> SUFFICES ASSUME worker.at = "belt",
                      Head(worker.todo) \in registry', file'[Head(worker.todo)] # Absent
               PROVE  Requested(Head(worker.todo))'
    BY DEF Belted
  <2> DEFINE p == Head(worker.todo)
  <2>1. p \in Paths
    OBVIOUS
  <2> QED
    BY <2>1 DEF Current, Belted
<1>4. ASSUME NEW p \in Paths,
             rows'[p] # Absent, ~rows'[p].stale, file'[p] # Absent, p \in registry', ~Requested(p)'
      PROVE  rows'[p].of = file'[p] \/ InDrain(p)'
  <2>1. rows'[p] = rows[p] /\ file'[p] = file[p] /\ p \in registry /\ ~Requested(p)
    BY <1>4
  <2>2. rows[p].of = file[p] \/ InDrain(p)
    BY <1>4, <2>1 DEF Current, RowsCurrent
  <2> QED
    BY <2>1, <2>2 DEF InDrain
<1> QED
  BY <1>1, <1>2, <1>3, <1>4 DEF Current, RowsCurrent

\* A step of the worker.
LEMMA WorkerKeepsCurrent ==
  ASSUME VTyped, VTyped', Current, file' = file, registry' = registry,
         \A e \in Texts' : e \in Texts \/ e.of = file[e.path],
         Texts' = {} \/ \A p \in Paths : Requested(p) => Requested(p)',
         \A p \in registry : file[p] # Absent /\ rows'[p] # Absent /\ Due(p) => Due(p)',
         \A p \in registry : rows'[p] # Absent /\ ~rows'[p].stale /\ file[p] # Absent =>
             \/ rows'[p].of = file[p] \/ Due(p)'
             \/ rows[p] # Absent /\ ~rows[p].stale /\ rows'[p].of = rows[p].of
  PROVE  TextsCurrent' /\ RowsCurrent'
<1>1. TextsCurrent'
  <2> SUFFICES ASSUME NEW e \in Texts'
               PROVE  file[e.path] = Absent \/ e.of = file[e.path] \/ Requested(e.path)'
    BY DEF TextsCurrent
  <2>1. CASE e \in Texts
    BY <2>1, TextsIn DEF Current, TextsCurrent
  <2> QED
    BY <2>1
<1>2. ASSUME NEW p \in Paths,
             rows'[p] # Absent, ~rows'[p].stale, file[p] # Absent, p \in registry
      PROVE  rows'[p].of = file[p] \/ Due(p)'
  <2>1. CASE rows[p] # Absent /\ ~rows[p].stale /\ rows'[p].of = rows[p].of
    <3>1. rows[p].of = file[p] \/ Due(p)
      BY <1>2, <2>1 DEF Current, RowsCurrent, Due
    <3> QED
      BY <1>2, <2>1, <3>1
  <2> QED
    BY <1>2, <2>1
<1> QED
  BY <1>1, <1>2 DEF RowsCurrent, Due

\* Outside the drain's reading steps two parts of the invariant say nothing.
LEMMA NotReading ==
  ASSUME VTyped', worker'.at \notin {"load", "belt"} \/ worker'.phase # "drain"
  PROVE  Unlisted' /\ Belted'
BY DEF VTyped, WorkerTyped, Shape, Unlisted, Belted

LEMMA WorkerKeepsRequests ==
  ASSUME writer' = writer,
         ToSet(queue) \cup lost \subseteq ToSet(queue') \cup lost'
  PROVE  \A p \in Paths : Requested(p) => Requested(p)'
BY DEF Requested, Putting

\* An embedding request is in the queue or counted as dropped.
LEMMA EnqueueKeepsRequests ==
  ASSUME QueueTyped, NEW p \in Paths, writer' = writer,
         queue' = enqueue_write(queue, p), lost' = Refused(queue, p)
  PROVE  /\ \A o \in Paths : Requested(o) => Requested(o)'
         /\ Requested(p)'
<1>1. ToSet(queue) \cup lost \subseteq ToSet(queue') \cup lost' /\ p \in ToSet(queue') \cup lost'
  BY EnqueueWrite
<1> QED
  BY <1>1, WorkerKeepsRequests DEF Requested

\* The steps of a put between its file and its hook.
PutSteps == {"register", "index", "enqueue"}

\* A writer that is not between its file and its hook does not leave there.
LEMMA WriterKeepsPuts ==
  ASSUME NEW t \in Writers, \A o \in Writers : o # t => writer'[o] = writer[o],
         \/ writer[t] = Absent \/ writer[t].at \notin PutSteps
         \/ writer'[t] # Absent /\ writer'[t].path = writer[t].path /\ writer'[t].at \in PutSteps,
         NEW p, Putting(p)
  PROVE  Putting(p)'
<1>1. PICK o \in Writers : writer[o] # Absent /\ writer[o].path = p /\ writer[o].at \in PutSteps
  BY DEF Putting, PutSteps
<1>2. writer'[o] # Absent /\ writer'[o].path = p /\ writer'[o].at \in PutSteps
  BY <1>1
<1> QED
  BY <1>2 DEF Putting, PutSteps

LEMMA WriterKeepsCurrent ==
  ASSUME VTyped, VTyped', Current, NEW t \in Writers, WriterStep(t)
  PROVE  Current'
<1> DEFINE w == writer[t]
<1>0. registry \subseteq Paths /\ registry' \subseteq Paths /\ WriterTyped
  BY DEF VTyped, StoreTyped
<1>q. \A p \in Paths : p \in ToSet(queue') \cup lost' \/ Putting(p)' => Requested(p)'
  BY DEF Requested
<1>1. ASSUME NEW p \in Paths, StartDelete(t, p) \/ \E c \in Contents : StartPut(t, p, c)
      PROVE  Current'
  <2>1. w = Absent /\ \A o \in Writers : o # t => writer'[o] = writer[o]
    BY <1>1, <1>0 DEF StartPut, StartDelete, WriterTyped
  <2>2. UNCHANGED <<store, rows, memory, lost>>
    BY <1>1 DEF StartPut, StartDelete
  <2>3. \A o \in Paths : Requested(o) => Requested(o)'
    BY <2>1, <2>2, WriterKeepsPuts DEF Requested, memory
  <2> QED
    BY <2>2, <2>3, <1>0, OthersKeepCurrent DEF store, memory
<1>2. CASE StoreWrite(t)
  <2>0. /\ w \in Write /\ w.path \in Paths
        /\ UNCHANGED <<rows, queue, worker, lost>>
    BY <1>2, <1>0, StoreWriteEffect DEF WriterTyped, Write, memory, history
  <2>1. PICK s \in {"register", "index", "enqueue", "unindex", "unlink", "removeRow"} :
           writer' = [writer EXCEPT ![t].at = s]
    BY <1>2, StoreWriteEffect
  <2>2. /\ writer'[t] # Absent /\ writer'[t].at = s /\ writer'[t].path = w.path
        /\ \A o \in Writers : o # t => writer'[o] = writer[o]
    BY <1>2, <1>0, <2>1, WriterMoves, StoreWriteEffect
  <2>3. s \in PutSteps \/ w.at \notin PutSteps
    <3>1. w.at \in PutSteps => writer'[t].at \in PutSteps
      <4>1. CASE w.at = "register"
        BY <1>2, <4>1, <1>0, <2>0, StoreWriteEffect, WriterMoves DEF PutSteps
      <4>2. CASE w.at = "index"
        BY <1>2, <4>2, <1>0, <2>0, StoreWriteEffect, WriterMoves DEF PutSteps
      <4> QED
        BY <1>2, <4>1, <4>2, StoreWriteEffect DEF PutSteps
    <3> QED
      BY <2>2, <3>1
  <2>4. \A p \in Paths : Requested(p) => Requested(p)'
    BY <2>0, <2>2, <2>3, WriterKeepsPuts DEF Requested
  <2>p. PICK wp \in Paths : wp = w.path
    BY <2>0
  <2>5. w.at \in {"write", "register"} => Requested(wp)'
    <3>1. w.at \in {"write", "register"} => s \in PutSteps
      <4>1. CASE w.at = "write"
        <5>1. writer' = [writer EXCEPT ![t].at = "register"]
          BY <1>2, <4>1, StoreWriteEffect
        <5>2. writer'[t].at = "register"
          BY <5>1, <1>0, <2>0, <1>2, StoreWriteEffect, WriterMoves
        <5> QED
          BY <5>2, <2>2 DEF PutSteps
      <4>2. CASE w.at = "register"
        BY <4>2, <2>3 DEF PutSteps
      <4> QED
        BY <4>1, <4>2
    <3> QED
      BY <3>1, <2>2, <1>q, <2>p DEF Putting, PutSteps
  <2>6. \A p \in Paths : file'[p] = file[p] \/ file'[p] = Absent \/ Requested(p)'
    <3>1. CASE w.at = "write"
      <4>1. file' = [file EXCEPT ![w.path] = w.of]
        BY <1>2, <3>1, StoreWriteEffect
      <4> QED
        BY <4>1, <3>1, <2>5, <2>p DEF VTyped, StoreTyped
    <3>2. CASE w.at = "unlink"
      <4>1. file' = [file EXCEPT ![w.path] = Absent]
        BY <1>2, <3>2, StoreWriteEffect
      <4> QED
        BY <4>1, <2>0 DEF VTyped, StoreTyped
    <3> QED
      BY <1>2, <3>1, <3>2, StoreWriteEffect
  <2>7. \A p \in Paths : p \in registry' => p \in registry \/ Requested(p)'
    <3>1. CASE w.at = "register"
      <4>1. registry' = registry \cup {w.path}
        BY <1>2, <3>1, StoreWriteEffect
      <4> QED
        BY <4>1, <3>1, <2>5, <2>p
    <3>2. CASE w.at # "register"
      <4>1. registry' \subseteq registry
        BY <1>2, <3>2, StoreWriteEffect
      <4> QED
        BY <4>1
    <3> QED
      BY <3>1, <3>2
  <2> QED
    BY <2>0, <2>4, <2>6, <2>7, <1>0, OthersKeepCurrent
<1>3. CASE PutHook(t)
  <2>0. w # Absent /\ w \in Write /\ w.path \in Paths /\ w.at = "enqueue"
    BY <1>3, <1>0 DEF PutHook, WriterTyped, Write
  <2>1. \A o \in Writers : o # t => writer'[o] = writer[o]
    BY <1>3, <2>0, <1>0, WriterMoves DEF PutHook
  <2>2. ToSet(queue) \cup lost \subseteq ToSet(queue') \cup lost' /\ w.path \in ToSet(queue') \cup lost'
    BY <1>3, <2>0, EnqueueWrite DEF PutHook, VTyped
  <2>3. ASSUME NEW p \in Paths, Requested(p) PROVE Requested(p)'
    <3>1. CASE p = w.path \/ p \in ToSet(queue) \cup lost
      BY <3>1, <2>2, <1>q
    <3>2. CASE p # w.path /\ Putting(p)
      <4>1. PICK o \in Writers : writer[o] # Absent /\ writer[o].path = p
                                 /\ writer[o].at \in {"register", "index", "enqueue"}
        BY <3>2 DEF Putting
      <4>2. o # t
        BY <4>1, <3>2
      <4> QED
        BY <4>1, <4>2, <2>1, <1>q DEF Putting
    <3> QED
      BY <2>3, <3>1, <3>2 DEF Requested
  <2>4. UNCHANGED <<file, registry, rows, worker>>
    BY <1>3 DEF PutHook, store
  <2> QED
    BY <2>3, <2>4, <1>0, OthersKeepCurrent
<1>4. CASE DeleteHook(t)
  <2>0. w # Absent /\ w \in Write /\ w.path \in Paths /\ w.at = "removeRow"
    BY <1>4, <1>0 DEF DeleteHook, WriterTyped, Write
  <2>1. \A o \in Writers : o # t => writer'[o] = writer[o]
    BY <1>4, <2>0, <1>0, WriterMoves DEF DeleteHook
  <2>2. queue' = queue /\ lost \subseteq lost'
    BY <1>4 DEF DeleteHook, memory
  <2>3. \A p \in Paths : Requested(p) => Requested(p)'
    BY <2>0, <2>1, <2>2, WriterKeepsPuts DEF Requested, PutSteps
  <2>4. \A p \in Paths : rows'[p] = rows[p] \/ rows'[p] = Absent
    BY <1>4, <2>0 DEF DeleteHook, remove_row, VTyped, StoreTyped
  <2>5. UNCHANGED <<file, registry, worker>>
    BY <1>4 DEF DeleteHook, store, memory
  <2> QED
    BY <2>3, <2>4, <2>5, <1>0, OthersKeepCurrent
<1>5. CASE Invalidate(t)
  <2>0. w # Absent /\ w.at \in {"bump", "remove"}
    BY <1>5 DEF Invalidate
  <2>1. \A o \in Writers : o # t => writer'[o] = writer[o]
    <3>1. CASE w.at = "bump"
      BY <1>5, <3>1, <2>0, <1>0, WriterMoves DEF Invalidate
    <3>2. CASE w.at = "remove"
      BY <1>5, <3>2, <1>0 DEF Invalidate, WriterTyped
    <3> QED
      BY <2>0, <3>1, <3>2
  <2>2. UNCHANGED <<file, registry, rows, queue, worker, lost>>
    BY <1>5 DEF Invalidate, store
  <2>3. \A p \in Paths : Requested(p) => Requested(p)'
    BY <2>0, <2>1, <2>2, WriterKeepsPuts DEF Requested, PutSteps
  <2> QED
    BY <2>2, <2>3, <1>0, OthersKeepCurrent
<1>6. CASE AbortWrite(t)
  <2>0. w # Absent
    BY <1>6 DEF AbortWrite
  <2>1. \A o \in Writers : o # t => writer'[o] = writer[o]
    BY <1>6, <1>0 DEF AbortWrite, WriterTyped
  <2>2. UNCHANGED <<file, registry, rows, queue, worker>> /\ lost \subseteq lost'
    BY <1>6 DEF AbortWrite, store, memory
  <2>3. w.at \in PutSteps => w.path \in lost'
    BY <1>6 DEF AbortWrite, PutSteps
  <2>4. ASSUME NEW p \in Paths, Requested(p) PROVE Requested(p)'
    <3>1. CASE p \in ToSet(queue) \cup lost
      BY <3>1, <2>2, <1>q
    <3>2. CASE Putting(p)
      <4>1. PICK o \in Writers : writer[o] # Absent /\ writer[o].path = p /\ writer[o].at \in PutSteps
        BY <3>2 DEF Putting, PutSteps
      <4>2. CASE o = t
        BY <4>1, <4>2, <2>3, <1>q
      <4>3. CASE o # t
        <5>1. writer'[o] = writer[o]
          BY <4>3, <2>1
        <5> QED
          BY <4>1, <5>1, <1>q DEF Putting, PutSteps
      <4> QED
        BY <4>2, <4>3
    <3> QED
      BY <2>4, <3>1, <3>2 DEF Requested
  <2> QED
    BY <2>2, <2>4, <1>0, OthersKeepCurrent
<1> QED
  BY <1>1, <1>2, <1>3, <1>4, <1>5, <1>6 DEF WriterStep

\* Queries, the admin's page, the probe and the environment leave it all alone.
LEMMA QuietKeepsCurrent ==
  ASSUME VTyped, Current, UNCHANGED <<file, registry, rows, queue, worker, writer, lost>>
  PROVE  Current'
<1>1. \A p \in Paths : Requested(p) => Requested(p)'
  BY WorkerKeepsRequests
<1> QED
  BY <1>1, OthersKeepCurrent DEF VTyped, StoreTyped

\* A restart loses what was in memory, and counts it as dropped.
LEMMA RestartKeepsCurrent ==
  ASSUME VTyped, VTyped', Current, Restart
  PROVE  Current'
<1>0. UNCHANGED <<file, registry, rows>> /\ worker' = Rested /\ lost' = lost \cup InHand
  BY DEF Restart, store
<1>1. Texts' = {}
  BY <1>0, ToSetEmpty DEF Texts, Rested
<1>2. ASSUME NEW p \in Paths, Due(p) PROVE Due(p)'
  <2>1. CASE p \in ToSet(queue) \cup lost
    BY <2>1, <1>0 DEF InHand, Due, Requested
  <2>2. CASE Putting(p)
    BY <2>2, <1>0 DEF Putting, InHand, Due, Requested
  <2>3. CASE InDrain(p)
    <3>1. CASE p \in ToSet(worker.todo) \cup ToSet(worker.parked)
      BY <3>1, <1>0 DEF InHand, Due, Requested
    <3>2. CASE [path |-> p, of |-> file[p]] \in Texts
      <4> DEFINE e == [path |-> p, of |-> file[p]]
      <4>1. e \in ToSet(worker.pairs \o worker.chunk) /\ e.path = p
        BY <3>2, WorkerFields, ToSetCat DEF Texts, VTyped
      <4>2. p \in InHand
        BY <4>1 DEF InHand
      <4> QED
        BY <4>2, <1>0 DEF Due, Requested
    <3> QED
      BY <2>3, <3>1, <3>2 DEF InDrain, Texts
  <2> QED
    BY <1>2, <2>1, <2>2, <2>3 DEF Due, Requested
<1>3. TextsCurrent' /\ RowsCurrent'
  BY <1>0, <1>1, <1>2, WorkerKeepsCurrent DEF VTyped, StoreTyped
<1>4. Unlisted' /\ Belted'
  BY <1>0, NotReading DEF Rested
<1> QED
  BY <1>3, <1>4 DEF Current

LEMMA InitCurrent ==
  ASSUME VectorsInit
  PROVE  Current
<1>0. PICK s \in Starts : file = s.file /\ rows = s.rows
  BY DEF VectorsInit
<1>1. worker = Rested
  BY DEF VectorsInit
<1>2. Texts = {}
  BY <1>1, ToSetEmpty DEF Texts, Rested
<1>3. TextsCurrent /\ Unlisted /\ Belted
  BY <1>1, <1>2 DEF TextsCurrent, Unlisted, Belted, Rested
<1>4. RowsCurrent
  BY <1>0, StartsAssumption DEF RowsCurrent
<1> QED
  BY <1>3, <1>4 DEF Current

\* A worker at rest holds nothing.
LEMMA AtRest ==
  ASSUME VTyped, worker.at \in Resting
  PROVE  Texts = {} /\ \A p \in Paths : ~InDrain(p)
<1>1. worker.todo = <<>> /\ worker.parked = <<>> /\ worker.pairs = <<>> /\ worker.chunk = <<>>
  BY DEF VTyped, WorkerTyped, Shape, Resting
<1> QED
  BY <1>1, ToSetEmpty DEF Texts, InDrain

\* Rows that a step of the worker leaves alone, marks or removes.
RowsKept ==
    \A p \in Paths : \/ rows'[p] = Absent \/ rows'[p].stale
                     \/ rows[p] # Absent /\ ~rows[p].stale /\ rows'[p].of = rows[p].of

LEMMA SameRowsKept ==
  ASSUME VTyped, rows' = rows
  PROVE  RowsKept
BY DEF VTyped, StoreTyped, Row, RowsKept

\* A step of a worker at rest.
LEMMA RestKeepsCurrent ==
  ASSUME VTyped, VTyped', Current, WorkerOnly, worker.at \in Resting, RowsKept, Texts' = {},
         worker'.at \notin {"load", "belt"} \/ worker'.phase # "drain",
         \A p \in Paths : Requested(p) => Due(p)'
  PROVE  Current'
<1>1. registry \subseteq Paths /\ file' = file /\ registry' = registry
  BY DEF VTyped, StoreTyped, WorkerOnly
<1>2. \A p \in Paths : Due(p) => Due(p)'
  BY AtRest DEF Due
<1>3. TextsCurrent' /\ RowsCurrent'
  BY <1>1, <1>2, WorkerKeepsCurrent DEF RowsKept
<1> QED
  BY <1>3, NotReading DEF Current

\* One that neither queues nor drops a request.
LEMMA IdleKeepsCurrent ==
  ASSUME VTyped, VTyped', Current, WorkerOnly, worker.at \in Resting, RowsKept,
         ToSet(queue) \cup lost \subseteq ToSet(queue') \cup lost',
         worker'.at \in Resting \/ (worker'.phase # "drain" /\ worker'.at = "load" /\ worker'.pairs = <<>>)
  PROVE  Current'
<1>1. \A p \in Paths : Requested(p) => Due(p)'
  BY WorkerKeepsRequests DEF WorkerOnly, Due
<1>2. CASE worker'.at \in Resting
  <2>1. Texts' = {}
    <3>1. worker'.pairs = <<>> /\ worker'.chunk = <<>>
      BY <1>2 DEF VTyped, WorkerTyped, Shape, Resting
    <3> QED
      BY <3>1, ToSetEmpty DEF Texts
  <2> QED
    BY <1>1, <1>2, <2>1, RestKeepsCurrent DEF Resting
<1>3. CASE worker'.phase # "drain" /\ worker'.at = "load" /\ worker'.pairs = <<>>
  <2>1. Texts' = {}
    <3>1. worker'.chunk = <<>>
      BY <1>3 DEF VTyped, WorkerTyped, Shape
    <3> QED
      BY <1>3, <3>1, ToSetEmpty DEF Texts
  <2> QED
    BY <1>1, <1>3, <2>1, RestKeepsCurrent
<1> QED
  BY <1>2, <1>3

LEMMA TickKeepsCurrent ==
  ASSUME VTyped, VTyped', Current, Tick
  PROVE  Current'
<1>1. worker.at \in Resting /\ WorkerOnly /\ RowsKept
  BY SameRowsKept DEF Tick, Resting
<1>2. worker'.at \in Resting
  BY DEF Tick, Resting, VTyped, WorkerTyped, Worker
<1> QED
  BY <1>1, <1>2, IdleKeepsCurrent DEF Tick

LEMMA MarkStaleKeepsCurrent ==
  ASSUME VTyped, VTyped', Current, MarkStale
  PROVE  Current'
<1>1. worker.at \in Resting /\ WorkerOnly
  BY DEF MarkStale, Resting
<1>2. worker'.at \in Resting
  BY DEF MarkStale, Resting, VTyped, WorkerTyped, Worker
<1>3. RowsKept
  <2>1. CASE rows' = rows
    BY <2>1, SameRowsKept
  <2>2. CASE mark_corpus_stale(worker.model, learned)
    <3> SUFFICES ASSUME NEW p \in Paths
                 PROVE  \/ rows'[p] = Absent \/ rows'[p].stale
                        \/ rows[p] # Absent /\ ~rows[p].stale /\ rows'[p].of = rows[p].of
      BY DEF RowsKept
    <3>1. rows'[p] = rows[p] \/ (rows[p] # Absent /\ rows'[p] = [rows[p] EXCEPT !.stale = TRUE])
      BY <2>2 DEF mark_corpus_stale
    <3>2. rows[p] # Absent => rows[p] \in Row
      BY DEF VTyped, StoreTyped
    <3> QED
      BY <3>1, <3>2 DEF Row
  <2> QED
    BY <2>1, <2>2 DEF MarkStale
<1> QED
  BY <1>1, <1>2, <1>3, IdleKeepsCurrent DEF MarkStale

LEMMA DrainKeepsCurrent ==
  ASSUME VTyped, VTyped', Current, Drain
  PROVE  Current'
<1>1. worker.at \in Resting /\ WorkerOnly /\ RowsKept /\ worker \in Worker
  BY SameRowsKept DEF Drain, Resting, VTyped, WorkerTyped
<1>2. CASE BackendState(health) = "red"
  <2>1. worker'.at \in Resting
    BY <1>2 DEF Drain, Rested, Resting
  <2> QED
    BY <1>1, <1>2, <2>1, IdleKeepsCurrent DEF Drain
<1>3. CASE BackendState(health) # "red"
  <2>1. worker'.todo = queue /\ worker'.phase = "drain" /\ worker'.at \in {"stale", "list"}
    BY <1>1, <1>3 DEF Drain, Worker
  <2>2. Texts' = {}
    <3>1. worker'.pairs = <<>> /\ worker'.chunk = <<>>
      BY <2>1 DEF VTyped, WorkerTyped, Shape, Resting
    <3> QED
      BY <3>1, ToSetEmpty DEF Texts
  <2>3. \A p \in Paths : Requested(p) => Due(p)'
    BY <2>1 DEF Requested, Putting, InDrain, Due, Drain, WorkerOnly
  <2> QED
    BY <1>1, <2>1, <2>2, <2>3, RestKeepsCurrent
<1> QED
  BY <1>2, <1>3

LEMMA WorkerInvalidateKeepsCurrent ==
  ASSUME VTyped, VTyped', Current, WorkerInvalidate
  PROVE  Current'
<1>1. worker.at \in Resting /\ WorkerOnly /\ RowsKept
  BY SameRowsKept DEF WorkerInvalidate, Resting
<1>2. worker'.at \in Resting
  BY DEF WorkerInvalidate, Resting, VTyped, WorkerTyped, Worker
<1> QED
  BY <1>1, <1>2, IdleKeepsCurrent DEF WorkerInvalidate

LEMMA FindStaleKeepsCurrent ==
  ASSUME VTyped, VTyped', Current, FindStale
  PROVE  Current'
<1>1. worker.at \in Resting /\ WorkerOnly /\ RowsKept
  BY SameRowsKept DEF FindStale, Still, Resting
<1>2. worker'.at \in Resting
  BY DEF FindStale, Resting, VTyped, WorkerTyped, Worker
<1> QED
  BY <1>1, <1>2, IdleKeepsCurrent DEF FindStale, Still

LEMMA BacklogKeepsCurrent ==
  ASSUME VTyped, VTyped', Current, Backlog
  PROVE  Current'
<1>1. worker.at = "backlog" /\ WorkerOnly /\ RowsKept /\ Still /\ worker \in Worker /\ Shape(worker)
  BY SameRowsKept DEF Backlog, Still, VTyped, WorkerTyped
<1>2. worker.at \in Resting /\ worker.phase = "rebuild" /\ worker.pairs = <<>>
  BY <1>1 DEF Shape, Resting
<1>3. \/ worker' = [worker EXCEPT !.at = "boot"]
      \/ \E s : worker' = [worker EXCEPT !.at = "load", !.todo = s]
  BY DEF Backlog
<1>4. worker'.at \in Resting \/ (worker'.phase # "drain" /\ worker'.at = "load" /\ worker'.pairs = <<>>)
  BY <1>1, <1>2, <1>3 DEF Worker, Resting
<1> QED
  BY <1>1, <1>2, <1>4, IdleKeepsCurrent DEF Still

LEMMA BootBacklogKeepsCurrent ==
  ASSUME VTyped, VTyped', Current, BootBacklog
  PROVE  Current'
<1>1. worker.at = "boot" /\ WorkerOnly /\ RowsKept /\ worker \in Worker /\ Shape(worker)
  BY SameRowsKept DEF BootBacklog, VTyped, WorkerTyped
<1>2. worker.at \in Resting /\ worker.pairs = <<>>
  BY <1>1 DEF Shape, Resting
<1>3. \/ worker' = [Rested EXCEPT !.flag = worker.flag]
      \/ \E s : worker' = [worker EXCEPT !.at = "load", !.phase = "boot", !.todo = s]
  BY DEF BootBacklog
<1>4. worker'.at \in Resting \/ (worker'.phase # "drain" /\ worker'.at = "load" /\ worker'.pairs = <<>>)
  BY <1>1, <1>2, <1>3 DEF Worker, Resting, Rested
<1>5. ToSet(queue) \cup lost \subseteq ToSet(queue') \cup lost'
  BY DEF BootBacklog
<1> QED
  BY <1>1, <1>2, <1>4, <1>5, IdleKeepsCurrent

\* A step of a worker that has something in hand.
LEMMA HandsKeepCurrent ==
  ASSUME VTyped, VTyped', Current, WorkerOnly, RowsKept,
         \A e \in Texts' : e \in Texts \/ e.of = file[e.path],
         \A p \in Paths : Requested(p) => Requested(p)',
         \A p \in Paths : p \in registry /\ file[p] # Absent /\ rows'[p] # Absent /\ InDrain(p) => Due(p)'
  PROVE  TextsCurrent' /\ RowsCurrent'
<1>1. registry \subseteq Paths /\ file' = file /\ registry' = registry
  BY DEF VTyped, StoreTyped, WorkerOnly
<1>2. \A p \in registry : file[p] # Absent /\ rows'[p] # Absent /\ Due(p) => Due(p)'
  BY <1>1 DEF Due
<1>3. \A p \in registry : rows'[p] # Absent /\ ~rows'[p].stale /\ file[p] # Absent =>
             \/ rows'[p].of = file[p] \/ Due(p)'
             \/ rows[p] # Absent /\ ~rows[p].stale /\ rows'[p].of = rows[p].of
  BY <1>1 DEF RowsKept
<1> QED
  BY <1>1, <1>2, <1>3, WorkerKeepsCurrent

\* What the drain holds stays in its hands.
LEMMA SameHands ==
  ASSUME WorkerOnly, worker'.phase = worker.phase, worker'.todo = worker.todo,
         worker'.parked = worker.parked, worker'.pairs = worker.pairs, worker'.chunk = worker.chunk
  PROVE  Texts' = Texts /\ \A p \in Paths : InDrain(p) => Due(p)'
BY DEF Texts, InDrain, Due, WorkerOnly

LEMMA StillUnlisted ==
  ASSUME Current, WorkerOnly, VTyped, worker.at \in {"load", "belt"}, worker'.phase = worker.phase,
         worker'.listed = worker.listed, \A p \in Paths : Requested(p) => Requested(p)'
  PROVE  Unlisted'
<1>1. registry' = registry /\ registry \subseteq Paths
  BY DEF VTyped, StoreTyped, WorkerOnly
<1> QED
  BY <1>1 DEF Current, Unlisted

LEMMA ListKeepsCurrent ==
  ASSUME VTyped, VTyped', Current, List
  PROVE  Current'
<1>0. worker.at = "list" /\ WorkerOnly /\ RowsKept /\ worker \in Worker /\ Shape(worker)
  BY SameRowsKept DEF List, VTyped, WorkerTyped
<1>1. \A p \in Paths : Requested(p) => Requested(p)'
  BY WorkerKeepsRequests DEF List, WorkerOnly
<1>2. CASE worker' = [worker EXCEPT !.at = "load", !.listed = registry]
  <2>1. /\ worker'.at = "load" /\ worker'.listed = registry
        /\ worker'.phase = worker.phase /\ worker'.todo = worker.todo
        /\ worker'.parked = worker.parked /\ worker'.pairs = worker.pairs
        /\ worker'.chunk = worker.chunk
    BY <1>0, <1>2 DEF Worker
  <2>2. TextsCurrent' /\ RowsCurrent'
    BY <1>0, <1>1, <2>1, SameHands, HandsKeepCurrent
  <2>3. Unlisted' /\ Belted'
    BY <1>0, <2>1 DEF Unlisted, Belted, WorkerOnly
  <2> QED
    BY <2>2, <2>3 DEF Current
<1>3. CASE /\ worker' = [worker EXCEPT !.at = "stale", !.todo = <<>>]
           /\ lost' = lost \cup ToSet(worker.todo)
  <2>1. worker'.at = "stale" /\ worker'.pairs = worker.pairs /\ worker'.chunk = worker.chunk
    BY <1>0, <1>3 DEF Worker
  <2>2. worker.pairs = <<>> /\ worker.chunk = <<>> /\ worker.parked = <<>>
    BY <1>0 DEF Shape, Reading
  <2>3. Texts' = {} /\ Texts = {}
    BY <2>1, <2>2, ToSetEmpty DEF Texts
  <2>4. \A p \in Paths : InDrain(p) => Due(p)'
    BY <1>3, <2>2, ToSetEmpty DEF InDrain, Due, Requested
  <2>5. TextsCurrent' /\ RowsCurrent'
    BY <1>0, <1>1, <2>3, <2>4, HandsKeepCurrent
  <2> QED
    BY <2>1, <2>5, NotReading DEF Current
<1> QED
  BY <1>2, <1>3 DEF List

LEMMA SweepDocKeepsCurrent ==
  ASSUME VTyped, VTyped', Current, SweepDoc
  PROVE  Current'
<1>0. WorkerOnly /\ RowsKept /\ worker \in Worker
  BY SameRowsKept DEF SweepDoc, VTyped, WorkerTyped
<1>1. \A p \in Paths : Requested(p) => Requested(p)'
  BY WorkerKeepsRequests DEF SweepDoc, WorkerOnly
<1>2. /\ worker'.at = "sweepRow"
      /\ worker'.phase = worker.phase /\ worker'.todo = worker.todo
      /\ worker'.parked = worker.parked /\ worker'.pairs = worker.pairs
      /\ worker'.chunk = worker.chunk
  BY <1>0 DEF Worker, SweepDoc
<1>3. TextsCurrent' /\ RowsCurrent'
  BY <1>0, <1>1, <1>2, SameHands, HandsKeepCurrent
<1> QED
  BY <1>2, <1>3, NotReading DEF Current

\* The row that goes is that of a concept that is gone, or was written again.
LEMMA BeltKeepsCurrent ==
  ASSUME VTyped, VTyped', Current, Belt
  PROVE  Current'
<1> DEFINE b == Head(worker.todo)
<1>0. /\ WorkerOnly /\ worker \in Worker /\ Shape(worker) /\ worker.at \in {"belt", "sweepRow"}
      /\ worker' = [worker EXCEPT !.at = "load", !.todo = Tail(@)]
  BY DEF Belt, VTyped, WorkerTyped
<1>1. \A p \in Paths : Requested(p) => Requested(p)'
  BY WorkerKeepsRequests DEF Belt, WorkerOnly
<1>2. /\ worker'.at = "load" /\ worker'.todo = Tail(worker.todo) /\ worker'.phase = worker.phase
      /\ worker'.parked = worker.parked /\ worker'.pairs = worker.pairs
      /\ worker'.chunk = worker.chunk /\ worker'.listed = worker.listed
  BY <1>0 DEF Worker
<1>3. b \in Paths /\ ToSet(worker.todo) = {b} \cup ToSet(Tail(worker.todo))
  BY <1>0, NextPath DEF VTyped, WorkerTyped, Shape
<1>4. RowsKept /\ (rows'[b] = Absent \/ rows' = rows)
  <2>1. CASE rows' = rows
    BY <2>1, SameRowsKept
  <2>2. CASE remove_row(b)
    BY <1>3, <2>2 DEF remove_row, RowsKept, VTyped, StoreTyped, Row
  <2> QED
    BY <2>1, <2>2 DEF Belt
<1>5. Texts' = Texts
  BY <1>2 DEF Texts
<1>6. ASSUME NEW p \in Paths, p \in registry, file[p] # Absent, rows'[p] # Absent, InDrain(p)
      PROVE  Due(p)'
  <2>1. worker.at = "belt"
    BY <1>0, <1>6 DEF Shape, InDrain
  <2>2. CASE p = b
    <3>1. Requested(p)
      BY <1>6, <2>1, <2>2 DEF Current, Belted
    <3> QED
      BY <1>1, <1>6, <3>1 DEF Due
  <2>3. CASE p # b
    BY <1>2, <1>3, <1>6, <2>3 DEF InDrain, Due, WorkerOnly, Belt
  <2> QED
    BY <2>2, <2>3
<1>7. TextsCurrent' /\ RowsCurrent'
  BY <1>0, <1>1, <1>4, <1>5, <1>6, HandsKeepCurrent
<1>8. CASE worker.at = "belt"
  <2>1. Unlisted' /\ Belted'
    BY <1>0, <1>1, <1>2, <1>8, StillUnlisted DEF Belted
  <2> QED
    BY <1>7, <2>1 DEF Current
<1>9. CASE worker.at = "sweepRow"
  <2>1. worker'.phase # "drain"
    BY <1>0, <1>2, <1>9 DEF Shape
  <2> QED
    BY <1>7, <2>1, NotReading DEF Current
<1> QED
  BY <1>0, <1>8, <1>9


\* A path taken off the list leaves a request or its text behind.
LEMMA TakenKeepsCurrent ==
  ASSUME VTyped, VTyped', Current, WorkerOnly, RowsKept, worker.todo # <<>>,
         worker.at = "load", worker'.at = "load", worker'.phase = worker.phase,
         worker'.listed = worker.listed, worker'.todo = Tail(worker.todo),
         worker'.parked = worker.parked, worker'.chunk = worker.chunk,
         NEW b \in Paths, b = Head(worker.todo),
         NEW E, ToSet(worker'.pairs) = ToSet(worker.pairs) \cup E,
         E \subseteq {[path |-> b, of |-> file[b]]},
         worker.phase = "drain" => E # {} \/ Requested(b)',
         \A p \in Paths : Requested(p) => Requested(p)'
  PROVE  Current'
<1>1. ToSet(worker.todo) = {b} \cup ToSet(Tail(worker.todo))
  BY NextPath DEF VTyped
<1>2. Texts' = Texts \cup E
  BY DEF Texts
<1>3. \A e \in Texts' : e \in Texts \/ e.of = file[e.path]
  BY <1>2
<1>4. ASSUME NEW p \in Paths, InDrain(p)
      PROVE  Due(p)'
  <2>1. CASE p \in ToSet(worker.todo) /\ p = b
    <3>1. CASE Requested(b)'
      BY <2>1, <3>1 DEF Due
    <3>2. CASE E # {}
      <4>1. [path |-> p, of |-> file[p]] \in Texts'
        BY <1>2, <2>1, <3>2
      <4> QED
        BY <1>4, <4>1 DEF InDrain, Due, WorkerOnly, Texts
    <3> QED
      BY <1>4, <3>1, <3>2 DEF InDrain
  <2>2. CASE p \in ToSet(worker.todo) /\ p # b
    BY <1>1, <1>4, <2>2 DEF InDrain, Due, WorkerOnly
  <2>3. CASE p \notin ToSet(worker.todo)
    BY <1>4, <2>3 DEF InDrain, Due, WorkerOnly
  <2> QED
    BY <2>1, <2>2, <2>3
<1>5. TextsCurrent' /\ RowsCurrent'
  BY <1>3, <1>4, HandsKeepCurrent
<1>6. Unlisted' /\ Belted'
  BY StillUnlisted DEF Belted
<1> QED
  BY <1>5, <1>6 DEF Current

LEMMA SkipKeepsCurrent ==
  ASSUME VTyped, VTyped', Current, SkipUnloadable
  PROVE  Current'
<1>b. PICK b : b = Head(worker.todo)
  OBVIOUS
<1>0. /\ WorkerOnly /\ worker \in Worker /\ worker.at = "load" /\ worker.todo # <<>>
      /\ worker' = [worker EXCEPT !.todo = Tail(@)] /\ RowsKept
      /\ lost' = IF worker.phase = "rebuild" THEN lost ELSE lost \cup {b}
  BY <1>b, SameRowsKept DEF SkipUnloadable, VTyped, WorkerTyped
<1>1. b \in Paths
  BY <1>0, <1>b, NextPath DEF VTyped
<1>2. \A p \in Paths : Requested(p) => Requested(p)'
  BY <1>0, WorkerKeepsRequests DEF SkipUnloadable, WorkerOnly
<1>3. /\ worker'.at = "load" /\ worker'.todo = Tail(worker.todo) /\ worker'.phase = worker.phase
      /\ worker'.parked = worker.parked /\ worker'.pairs = worker.pairs
      /\ worker'.chunk = worker.chunk /\ worker'.listed = worker.listed
  BY <1>0 DEF Worker
<1>4. worker.phase = "drain" => Requested(b)'
  BY <1>0 DEF Requested
<1>5. ToSet(worker'.pairs) = ToSet(worker.pairs) \cup {} /\ {} \subseteq {[path |-> b, of |-> file[b]]}
  BY <1>3
<1> QED
  BY <1>0, <1>b, <1>1, <1>2, <1>3, <1>4, <1>5, TakenKeepsCurrent

LEMMA LoadKeepsCurrent ==
  ASSUME VTyped, VTyped', Current, Load
  PROVE  Current'
<1>b. PICK b : b = Head(worker.todo)
  OBVIOUS
<1> DEFINE rest == [worker EXCEPT !.todo = Tail(@)]
<1>0. WorkerOnly /\ worker \in Worker /\ Shape(worker) /\ worker.at = "load" /\ RowsKept
  BY SameRowsKept DEF Load, VTyped, WorkerTyped
<1>k. UNCHANGED <<queue, lost>> => \A p \in Paths : Requested(p) => Requested(p)'
  BY WorkerKeepsRequests DEF WorkerOnly, Load
<1>1. CASE worker.todo = <<>> /\ worker.phase = "boot"
  <2>1. worker'.at = "idle" /\ worker'.pairs = <<>> /\ worker'.chunk = <<>> /\ UNCHANGED <<queue, lost>>
    BY <1>1 DEF Load, Rested
  <2>2. Texts' = {} /\ \A p \in Paths : ~InDrain(p)
    BY <1>1, <2>1, ToSetEmpty DEF Texts, InDrain
  <2>3. TextsCurrent' /\ RowsCurrent'
    BY <1>0, <1>k, <2>1, <2>2, HandsKeepCurrent
  <2> QED
    BY <2>1, <2>3, NotReading DEF Current
<1>2. CASE worker.todo = <<>> /\ worker.phase # "boot"
  <2>1. worker' = [worker EXCEPT !.at = "embed", !.listed = {}] /\ UNCHANGED <<queue, lost>>
    BY <1>2 DEF Load, Loaded
  <2>2. /\ worker'.at = "embed" /\ worker'.phase = worker.phase /\ worker'.todo = worker.todo
        /\ worker'.parked = worker.parked /\ worker'.pairs = worker.pairs
        /\ worker'.chunk = worker.chunk
    BY <1>0, <2>1 DEF Worker
  <2>3. TextsCurrent' /\ RowsCurrent'
    BY <1>0, <1>k, <2>1, <2>2, SameHands, HandsKeepCurrent
  <2> QED
    BY <2>2, <2>3, NotReading DEF Current
<1>3. CASE worker.todo # <<>>
  <2>0. /\ b \in Paths
        /\ \/ /\ worker.phase = "drain" /\ (b \notin worker.listed \/ file[b] = Absent)
              /\ worker' = [worker EXCEPT !.at = "belt"] /\ UNCHANGED <<queue, lost>>
           \/ /\ worker.phase # "drain" /\ file[b] = Absent
              /\ worker' = [worker EXCEPT !.at = "sweepDoc"] /\ UNCHANGED <<queue, lost>>
           \/ /\ worker.phase = "boot" /\ file[b] # Absent
              /\ worker' = rest
              /\ queue' = enqueue_write(queue, b) /\ lost' = Refused(queue, b)
           \/ /\ file[b] # Absent
              /\ worker' = [rest EXCEPT !.pairs = Append(@, [path |-> b, of |-> file[b]])]
              /\ UNCHANGED <<queue, lost>>
    <3>1. b \in Paths
      BY <1>b, <1>3, NextPath DEF VTyped
    <3> QED
      BY <1>b, <1>3, <3>1 DEF Load
  <2>1. CASE /\ worker.phase = "drain" /\ (b \notin worker.listed \/ file[b] = Absent)
             /\ worker' = [worker EXCEPT !.at = "belt"] /\ UNCHANGED <<queue, lost>>
    <3>1. /\ worker'.at = "belt" /\ worker'.phase = worker.phase /\ worker'.todo = worker.todo
          /\ worker'.parked = worker.parked /\ worker'.pairs = worker.pairs
          /\ worker'.chunk = worker.chunk /\ worker'.listed = worker.listed
      BY <1>0, <2>1 DEF Worker
    <3>2. TextsCurrent' /\ RowsCurrent'
      BY <1>0, <1>k, <2>1, <3>1, SameHands, HandsKeepCurrent
    <3>3. Unlisted'
      BY <1>0, <1>k, <2>1, <3>1, StillUnlisted
    <3>4. b \in registry /\ file[b] # Absent => Requested(b)
      BY <1>0, <2>1 DEF Current, Unlisted
    <3>5. Belted'
      BY <1>b, <1>k, <2>0, <2>1, <3>1, <3>4 DEF Belted, WorkerOnly, Load
    <3> QED
      BY <3>2, <3>3, <3>5 DEF Current
  <2>2. CASE /\ worker.phase # "drain" /\ file[b] = Absent
             /\ worker' = [worker EXCEPT !.at = "sweepDoc"] /\ UNCHANGED <<queue, lost>>
    <3>1. /\ worker'.at = "sweepDoc" /\ worker'.phase = worker.phase /\ worker'.todo = worker.todo
          /\ worker'.parked = worker.parked /\ worker'.pairs = worker.pairs
          /\ worker'.chunk = worker.chunk
      BY <1>0, <2>2 DEF Worker
    <3>2. TextsCurrent' /\ RowsCurrent'
      BY <1>0, <1>k, <2>2, <3>1, SameHands, HandsKeepCurrent
    <3> QED
      BY <3>1, <3>2, NotReading DEF Current
  <2>3. CASE /\ worker.phase = "boot" /\ file[b] # Absent /\ worker' = rest
             /\ queue' = enqueue_write(queue, b) /\ lost' = Refused(queue, b)
    <3>1. /\ worker'.at = "load" /\ worker'.todo = Tail(worker.todo) /\ worker'.phase = worker.phase
          /\ worker'.parked = worker.parked /\ worker'.pairs = worker.pairs
          /\ worker'.chunk = worker.chunk /\ worker'.listed = worker.listed
      BY <1>0, <2>3 DEF Worker
    <3>2. (\A p \in Paths : Requested(p) => Requested(p)') /\ Requested(b)'
      BY <2>0, <2>3, <1>0, EnqueueKeepsRequests DEF VTyped, WorkerOnly
    <3>3. ToSet(worker'.pairs) = ToSet(worker.pairs) \cup {} /\ {} \subseteq {[path |-> b, of |-> file[b]]}
      BY <3>1
    <3> QED
      BY <1>0, <1>b, <1>3, <2>0, <3>1, <3>2, <3>3, TakenKeepsCurrent
  <2>4. CASE /\ file[b] # Absent
             /\ worker' = [rest EXCEPT !.pairs = Append(@, [path |-> b, of |-> file[b]])]
             /\ UNCHANGED <<queue, lost>>
    <3> DEFINE e == [path |-> b, of |-> file[b]]
    <3>1. /\ worker'.at = "load" /\ worker'.todo = Tail(worker.todo) /\ worker'.phase = worker.phase
          /\ worker'.parked = worker.parked /\ worker'.pairs = Append(worker.pairs, e)
          /\ worker'.chunk = worker.chunk /\ worker'.listed = worker.listed
      BY <1>0, <2>4 DEF Worker
    <3>2. e \in Pair
      BY <2>0, <2>4 DEF Pair, VTyped, StoreTyped
    <3>3. ToSet(worker'.pairs) = ToSet(worker.pairs) \cup {e}
      BY <3>1, <3>2, WorkerFields, ToSetAppend DEF VTyped
    <3>4. {e} \subseteq {[path |-> b, of |-> file[b]]} /\ {e} # {}
      OBVIOUS
    <3> QED
      BY <1>0, <1>b, <1>3, <1>k, <2>0, <2>4, <3>1, <3>3, <3>4, TakenKeepsCurrent
  <2> QED
    BY <2>0, <2>1, <2>2, <2>3, <2>4
<1> QED
  BY <1>1, <1>2, <1>3

LEMMA FinishEmbedKeepsCurrent ==
  ASSUME VTyped, VTyped', Current, FinishEmbed
  PROVE  Current'
<1>0. /\ WorkerOnly /\ worker \in Worker /\ Shape(worker) /\ worker.at = "embed" /\ RowsKept
      /\ worker.todo = <<>> /\ worker.chunk = <<>>
  BY SameRowsKept DEF FinishEmbed, Quiet, Still, VTyped, WorkerTyped, Shape
<1>1. \A p \in Paths : Requested(p) => Requested(p)'
  BY WorkerKeepsRequests DEF FinishEmbed, Quiet, Still, WorkerOnly
<1>2. /\ worker'.at = "requeue" /\ worker'.phase = worker.phase /\ worker'.pairs = <<>>
      /\ worker'.chunk = <<>> /\ (worker.phase = "drain" => worker'.parked = Parked(worker))
  BY <1>0 DEF FinishEmbed, Worker
<1>3. Texts' = {}
  BY <1>2, ToSetEmpty DEF Texts
<1>4. ASSUME NEW p \in Paths, InDrain(p)
      PROVE  Due(p)'
  <2>1. /\ worker.phase = "drain"
        /\ p \in ToSet(worker.parked) \/ [path |-> p, of |-> file[p]] \in ToSet(worker.pairs)
    BY <1>0, <1>4, ToSetEmpty DEF InDrain
  <2>2. p \in ToSet(Parked(worker))
    BY <2>1, ParkedIn DEF VTyped
  <2> QED
    BY <1>2, <2>1, <2>2 DEF InDrain, Due
<1>5. TextsCurrent' /\ RowsCurrent'
  BY <1>0, <1>1, <1>3, <1>4, HandsKeepCurrent
<1> QED
  BY <1>2, <1>5, NotReading DEF Current

LEMMA RequeueKeepsCurrent ==
  ASSUME VTyped, VTyped', Current, Requeue
  PROVE  Current'
<1>0. WorkerOnly /\ worker \in Worker /\ Shape(worker) /\ worker.at = "requeue" /\ RowsKept
  BY SameRowsKept DEF Requeue, VTyped, WorkerTyped
<1>1. worker.todo = <<>> /\ worker.pairs = <<>> /\ worker.chunk = <<>>
  BY <1>0 DEF Shape
<1>2. /\ worker'.at \in {"requeue", "bump", "stale", "boot"} /\ worker'.phase = worker.phase
      /\ worker'.pairs = <<>> /\ worker'.chunk = <<>>
  BY <1>0, <1>1 DEF Requeue, Worker
<1>3. Texts' = {}
  BY <1>2, ToSetEmpty DEF Texts
<1>4. \A p \in Paths : InDrain(p) => worker.phase = "drain" /\ p \in ToSet(worker.parked)
  BY <1>1, ToSetEmpty DEF InDrain
<1>5. CASE worker.parked = <<>>
  <2>1. \A p \in Paths : Requested(p) => Requested(p)'
    BY <1>5, WorkerKeepsRequests DEF Requeue, WorkerOnly
  <2>2. \A p \in Paths : ~InDrain(p)
    BY <1>4, <1>5, ToSetEmpty
  <2>3. TextsCurrent' /\ RowsCurrent'
    BY <1>0, <1>3, <2>1, <2>2, HandsKeepCurrent
  <2> QED
    BY <1>2, <2>3, NotReading DEF Current
<1>6. CASE worker.parked # <<>>
  <2>1. PICK b : b = Head(worker.parked)
    OBVIOUS
  <2>2. b \in Paths /\ ToSet(worker.parked) = {b} \cup ToSet(Tail(worker.parked))
    BY <1>6, <2>1, WorkerFields, ToSetHead DEF VTyped
  <2>3. (\A p \in Paths : Requested(p) => Requested(p)') /\ Requested(b)'
    BY <1>0, <1>6, <2>1, <2>2, EnqueueKeepsRequests DEF Requeue, WorkerOnly, VTyped
  <2>4. worker'.parked = Tail(worker.parked)
    BY <1>0, <1>6 DEF Requeue, Worker
  <2>5. ASSUME NEW p \in Paths, InDrain(p)
        PROVE  Due(p)'
    <3>1. CASE p = b
      BY <2>3, <3>1 DEF Due
    <3>2. CASE p # b
      BY <1>2, <1>4, <2>2, <2>4, <2>5, <3>2 DEF InDrain, Due
    <3> QED
      BY <3>1, <3>2
  <2>6. TextsCurrent' /\ RowsCurrent'
    BY <1>0, <1>3, <2>3, <2>5, HandsKeepCurrent
  <2> QED
    BY <1>2, <2>6, NotReading DEF Current
<1> QED
  BY <1>5, <1>6

LEMMA EmbedKeepsCurrent ==
  ASSUME VTyped, VTyped', Current, Embed
  PROVE  Current'
<1>0. /\ WorkerOnly /\ worker \in Worker /\ worker.at = "embed" /\ RowsKept /\ WorkerTyped
      /\ worker.pairs # <<>> /\ worker.chunk = <<>>
  BY SameRowsKept DEF Embed, VTyped, WorkerTyped
<1>1. \A p \in Paths : Requested(p) => Requested(p)'
  BY WorkerKeepsRequests DEF Embed, WorkerOnly
<1>2. /\ BatchOf \in Seq(Pair) /\ Waiting \in Seq(Pair)
      /\ ToSet(worker.pairs) = ToSet(BatchOf) \cup ToSet(Waiting)
  BY <1>0, BatchIn
<1>3. Texts = ToSet(BatchOf) \cup ToSet(Waiting)
  BY <1>0, <1>2, ToSetEmpty DEF Texts
<1> DEFINE Done == /\ worker'.at \in {"embed", "upsert"} /\ worker'.phase = worker.phase
                   /\ Texts' \subseteq Texts
                   /\ \A p \in Paths : InDrain(p) => Due(p)'
<1>4. ASSUME worker' = [worker EXCEPT !.at = "upsert", !.pairs = Waiting, !.tries = 0,
                                      !.chunk = BatchOf]
      PROVE  Done
  <2>1. /\ worker'.at = "upsert" /\ worker'.phase = worker.phase /\ worker'.todo = worker.todo
        /\ worker'.parked = worker.parked /\ worker'.pairs = Waiting /\ worker'.chunk = BatchOf
    BY <1>0, <1>4 DEF Worker
  <2>2. Texts' = Texts
    BY <1>3, <2>1 DEF Texts
  <2>3. \A p \in Paths : InDrain(p) => Due(p)'
    BY <1>0, <2>1, <2>2 DEF InDrain, Due, Texts, WorkerOnly
  <2> QED
    BY <2>1, <2>2, <2>3
<1>5. ASSUME worker' = [worker EXCEPT !.tries = worker.tries + 1]
      PROVE  Done
  <2>1. /\ worker'.at = "embed" /\ worker'.phase = worker.phase /\ worker'.todo = worker.todo
        /\ worker'.parked = worker.parked /\ worker'.pairs = worker.pairs
        /\ worker'.chunk = worker.chunk
    BY <1>0, <1>5 DEF Worker
  <2> QED
    BY <1>0, <2>1, SameHands
<1>6. ASSUME worker' = [worker EXCEPT !.pairs = Waiting, !.tries = 0,
                                      !.parked = worker.parked \o PathsOf(BatchOf)]
      PROVE  Done
  <2> DEFINE ps == worker.parked \o PathsOf(BatchOf)
  <2>0. /\ ToSet(worker.parked) \subseteq ToSet(ps)
        /\ \A e \in ToSet(BatchOf) : e.path \in ToSet(ps)
    <3>1. /\ PathsOf(BatchOf) \in Seq(Paths)
          /\ \A e \in ToSet(BatchOf) : e.path \in ToSet(PathsOf(BatchOf))
      BY <1>2, PathsOfIn
    <3> QED
      BY <1>0, <3>1, WorkerFields, ToSetCat
  <2>1. /\ worker'.at = "embed" /\ worker'.phase = worker.phase /\ worker'.todo = worker.todo
        /\ worker'.parked = ps /\ worker'.pairs = Waiting /\ worker'.chunk = worker.chunk
    BY <1>0, <1>6 DEF Worker
  <2> HIDE DEF ps
  <2>2. Texts' = ToSet(Waiting)
    BY <1>0, <2>1, ToSetEmpty DEF Texts
  <2>3. ASSUME NEW p \in Paths, InDrain(p)
        PROVE  Due(p)'
    <3> DEFINE e == [path |-> p, of |-> file[p]]
    <3>1. CASE e \in ToSet(BatchOf)
      <4>1. e.path = p /\ p \in ToSet(ps)
        BY <2>0, <3>1
      <4> QED
        BY <2>1, <2>3, <4>1 DEF InDrain, Due
    <3>2. CASE e \notin ToSet(BatchOf)
      <4>1. p \in ToSet(worker.todo) \cup ToSet(ps) \/ e \in ToSet(Waiting)
        BY <1>3, <2>0, <2>3, <3>2 DEF InDrain, Texts
      <4> QED
        BY <1>0, <2>1, <2>3, <4>1 DEF InDrain, Due, WorkerOnly
    <3> QED
      BY <3>1, <3>2
  <2> QED
    BY <1>3, <2>1, <2>2, <2>3
<1>7. Done
  BY <1>0, <1>4, <1>5, <1>6, EmbedEffect
<1>8. TextsCurrent' /\ RowsCurrent'
  BY <1>0, <1>1, <1>7, HandsKeepCurrent
<1> QED
  BY <1>7, <1>8, NotReading DEF Current

\* The row that is written is that of the present text, or of one that is
\* going to be replaced.
LEMMA UpsertKeepsCurrent ==
  ASSUME VTyped, VTyped', Current, Upsert
  PROVE  Current'
<1>1. PICK e : e = Head(worker.chunk)
  OBVIOUS
<1>0. /\ WorkerOnly /\ worker \in Worker /\ worker.at = "upsert" /\ worker.chunk # <<>>
      /\ rows \in [Paths -> Row \cup {Absent}] /\ registry \subseteq Paths
      /\ file' = file /\ registry' = registry
  BY DEF Upsert, VTyped, WorkerTyped, Shape, StoreTyped, WorkerOnly
<1>2. e \in Pair /\ e.path \in Paths /\ ToSet(worker.chunk) = {e} \cup ToSet(Tail(worker.chunk))
  <2>1. worker.chunk \in Seq(Pair)
    BY WorkerFields DEF VTyped
  <2>2. e \in Pair /\ ToSet(worker.chunk) = {e} \cup ToSet(Tail(worker.chunk))
    BY <1>0, <1>1, <2>1, ToSetHead
  <2> QED
    BY <2>2 DEF Pair
<1>3. /\ worker'.at \in {"embed", "upsert"} /\ worker'.phase = worker.phase
      /\ worker'.todo = worker.todo /\ worker'.parked = worker.parked
      /\ worker'.pairs = worker.pairs /\ worker'.chunk = Tail(worker.chunk)
  BY <1>0 DEF Upsert, Worker
<1>4. \A p \in Paths : Requested(p) => Requested(p)'
  BY WorkerKeepsRequests DEF Upsert, WorkerOnly
<1>5. \A p \in Paths : p # e.path => rows'[p] = rows[p]
  BY <1>0, <1>1, <1>2 DEF Upsert
<1>6. rows'[e.path].of = e.of \/ Requested(e.path)'
  <2>1. CASE rows' = [rows EXCEPT ![e.path] = [of |-> e.of, model |-> worker.model, stale |-> FALSE]]
    BY <1>0, <1>2, <2>1
  <2>2. CASE lost' = lost \cup {e.path}
    BY <2>2 DEF Requested
  <2> QED
    BY <1>1, <2>1, <2>2 DEF Upsert
<1>7. Texts' \subseteq Texts
  BY <1>2, <1>3 DEF Texts
<1>8. TextsCurrent'
  BY <1>0, <1>4, <1>7, TextsIn DEF Current, TextsCurrent
<1>9. ASSUME NEW p \in Paths,
             rows'[p] # Absent, ~rows'[p].stale, file[p] # Absent, p \in registry
      PROVE  rows'[p].of = file[p] \/ Due(p)'
  <2>1. CASE p = e.path
    <3>1. e \in Texts
      BY <1>2 DEF Texts
    <3>2. e.of = file[p] \/ Requested(p)
      BY <1>9, <2>1, <3>1 DEF Current, TextsCurrent
    <3> QED
      BY <1>4, <1>6, <1>9, <2>1, <3>2 DEF Due
  <2>2. CASE p # e.path
    <3>1. rows[p].of = file[p] \/ Requested(p) \/ InDrain(p)
      BY <1>5, <1>9, <2>2 DEF Current, RowsCurrent
    <3>2. [path |-> p, of |-> file[p]] # e
      BY <2>2
    <3>3. InDrain(p) => InDrain(p)'
      BY <1>0, <1>2, <1>3, <3>2 DEF InDrain
    <3> QED
      BY <1>4, <1>5, <2>2, <3>1, <3>3 DEF Due
  <2> QED
    BY <2>1, <2>2
<1>10. RowsCurrent'
  BY <1>0, <1>9 DEF RowsCurrent, Due
<1> QED
  BY <1>3, <1>8, <1>10, NotReading DEF Current

LEMMA NextCurrent ==
  ASSUME VTyped, VTyped', Current, [VectorsNext]_vvars
  PROVE  Current'
<1>1. CASE UNCHANGED vvars
  BY <1>1, QuietKeepsCurrent DEF vvars, store, memory, history
<1>2. CASE \E t \in Writers : WriterStep(t)
  BY <1>2, WriterKeepsCurrent
<1>3. CASE \E q \in Queries : QueryStep(q)
  BY <1>3, QuietKeepsCurrent DEF QueryStep, Ask, Lookup, FetchActives, FetchRows, Install, Answer,
                                 SetQuery, store, history
<1>4. CASE WorkerStep
  BY <1>4, TickKeepsCurrent, MarkStaleKeepsCurrent, DrainKeepsCurrent, ListKeepsCurrent,
     LoadKeepsCurrent, SkipKeepsCurrent, BeltKeepsCurrent, SweepDocKeepsCurrent,
     FinishEmbedKeepsCurrent, RequeueKeepsCurrent, EmbedKeepsCurrent, UpsertKeepsCurrent,
     WorkerInvalidateKeepsCurrent, FindStaleKeepsCurrent, BacklogKeepsCurrent,
     BootBacklogKeepsCurrent DEF WorkerStep
<1>5. CASE \/ ProbeTick \/ ProbeAnswer \/ AskLexical \/ BumpElsewhere \/ Weather
           \/ \E m \in Models : SaveEmbeddings(m) \/ TestEmbeddings(m)
  BY <1>5, QuietKeepsCurrent DEF ProbeTick, ProbeAnswer, AskLexical, BumpElsewhere, Weather,
                                 SaveEmbeddings, TestEmbeddings, store, memory, history
<1> QED
  BY <1>1, <1>2, <1>3, <1>4, <1>5, RestartKeepsCurrent DEF VectorsNext

\* A row in use that was made from an older text is going to be made again,
\* whatever writes overlap, however many fail half way, and whichever step of
\* the worker its queue, its backend or its store refuses: the path is queued,
\* in the drain's hands or about to be queued, or its request was dropped.
THEOREM RowsCurrentHolds == VectorsSpec => []RowsCurrent
<1>1. VectorsInit => VTyped /\ Current
  BY InitTyped, InitCurrent
<1>2. VTyped /\ Current /\ [VectorsNext]_vvars => (VTyped /\ Current)'
  BY NextTyped, NextCurrent
<1>3. Current => RowsCurrent
  BY DEF Current
<1> QED
  BY <1>1, <1>2, <1>3, PTL DEF VectorsSpec
-----------------------------------------------------------------------------
(* NoRetiredAnswer.  Its inductive invariant follows the paths a query may *)
(* answer with from the fetch to the snapshot: what a build in progress    *)
(* has fetched is active, or the write that retired it has not bumped the  *)
(* epoch yet; what is cached is active, or that write has not removed the  *)
(* snapshot yet.                                                           *)

\* The paths of a build, or of an answer.
Fetched(r) == IF r.at = "rows" THEN r.actives ELSE {e.path : e \in r.entries}

\* A build whose snapshot would be installed.
Building(r) == r.at \in {"rows", "install"} /\ r.epoch = epoch

\* A write of the path is under way that will still bump the epoch.
Unbumped(p) == \E t \in Writers : /\ writer[t] # Absent /\ writer[t].path = p
                                  /\ writer[t].at # "remove"

Fetchable(p) == doc[p] \in Active \/ p \in torn \/ Unbumped(p)
Cacheable(p) == doc[p] \in Active \/ p \in torn \/ Busy(p)

\* No query is older than the path's retirement, and none has to leave it out.
Unbanned(p) == \A q \in Queries : query[q] # Absent => p \notin query[q].banned

EpochsPast ==
    \A q \in Queries :
        query[q] # Absent /\ query[q].at \in {"actives", "rows", "install"} => query[q].epoch <= epoch

BannedRetired == \A p \in Paths : doc[p] \in Active => Unbanned(p)

AnswersClean ==
    \A q \in Queries :
        query[q] # Absent /\ query[q].at \in {"rows", "install", "map"} =>
            Fetched(query[q]) \cap query[q].banned = {}

BuildsClean ==
    \A q \in Queries :
        query[q] # Absent /\ Building(query[q]) =>
            \A p \in Fetched(query[q]) : Fetchable(p) /\ Unbanned(p)

CacheClean ==
    cache # Absent => \A e \in cache.entries : Cacheable(e.path) /\ Unbanned(e.path)

Clean == EpochsPast /\ BannedRetired /\ AnswersClean /\ BuildsClean /\ CacheClean

LEMMA FetchedIn ==
  ASSUME NEW r \in Query
  PROVE  Fetched(r) \subseteq Paths
BY DEF Fetched, Query

LEMMA CachedIn ==
  ASSUME CacheTyped, cache # Absent
  PROVE  \A e \in cache.entries : e.path \in Paths
BY DEF CacheTyped, Snapshot

LEMMA FetchableCacheable ==
  ASSUME NEW p, Fetchable(p)
  PROVE  Cacheable(p)
BY DEF Fetchable, Cacheable, Unbumped, Busy

\* A query that is where it was, with no more to leave out.
SameQuery(q) ==
    query[q] # Absent /\ query'[q] # Absent =>
        /\ query'[q].at = query[q].at /\ query'[q].epoch = query[q].epoch
        /\ query'[q].actives = query[q].actives /\ query'[q].entries = query[q].entries
        /\ query'[q].banned \subseteq query[q].banned

\* A step that is no query's.
LEMMA StoreKeepsClean ==
  ASSUME VTyped, VTyped', Clean,
         \A q \in Queries : SameQuery(q) /\ (query[q] = Absent => query'[q] = Absent),
         \A p \in Paths : doc'[p] \in Active => doc[p] \in Active \/ Unbanned(p)',
         epoch' = epoch \/ epoch' = epoch + 1,
         epoch' = epoch => \A p \in Paths : Fetchable(p) => Fetchable(p)',
         cache' = Absent \/ (cache' = cache /\ \A p \in Paths : Cacheable(p) => Cacheable(p)')
  PROVE  Clean'
<1>0. epoch \in Nat /\ CacheTyped /\ CacheTyped' /\ \A q \in Queries : query[q] # Absent => query[q] \in Query
  BY DEF VTyped, CacheTyped
<1>1. \A p \in Paths : Unbanned(p) => Unbanned(p)'
  BY DEF SameQuery, Unbanned
<1>2. \A q \in Queries : query'[q] # Absent =>
         query[q] # Absent /\ Fetched(query'[q]) = Fetched(query[q]) /\ Fetched(query[q]) \subseteq Paths
  BY <1>0, FetchedIn DEF SameQuery, Fetched
<1>3. EpochsPast'
  <2> SUFFICES ASSUME NEW q \in Queries, query'[q] # Absent,
                      query'[q].at \in {"actives", "rows", "install"}
               PROVE  query'[q].epoch <= epoch'
    BY DEF EpochsPast
  <2>1. query[q].epoch <= epoch /\ query'[q].epoch = query[q].epoch
    BY <1>2 DEF SameQuery, Clean, EpochsPast
  <2>2. query[q].epoch \in Nat
    BY <1>0, <1>2 DEF Query
  <2> QED
    BY <1>0, <2>1, <2>2
<1>4. BannedRetired'
  BY <1>1 DEF Clean, BannedRetired
<1>5. AnswersClean'
  BY <1>2 DEF Clean, AnswersClean, SameQuery
<1>6. BuildsClean'
  <2> SUFFICES ASSUME NEW q \in Queries, query'[q] # Absent, Building(query[q])',
                      NEW p \in Fetched(query'[q])
               PROVE  Fetchable(p)' /\ Unbanned(p)'
    BY DEF BuildsClean
  <2>1. query[q] # Absent /\ p \in Fetched(query[q]) /\ p \in Paths
    BY <1>2
  <2>2. query[q].at \in {"rows", "install"} /\ query[q].epoch = epoch' /\ query[q].epoch \in Nat
    BY <1>0, <2>1 DEF Building, SameQuery, Query
  <2>3. epoch' = epoch
    BY <1>0, <2>1, <2>2 DEF Clean, EpochsPast
  <2>4. Fetchable(p) /\ Unbanned(p)
    BY <2>1, <2>2, <2>3 DEF Clean, BuildsClean, Building
  <2> QED
    BY <1>1, <2>1, <2>3, <2>4
<1>7. CacheClean'
  BY <1>0, <1>1, CachedIn DEF Clean, CacheClean
<1> QED
  BY <1>3, <1>4, <1>5, <1>6, <1>7 DEF Clean

\* A step that has nothing to do with them.
LEMMA QuietKeepsClean ==
  ASSUME VTyped, VTyped', Clean, UNCHANGED <<doc, torn, epoch, cache, writer, query>>
  PROVE  Clean'
<1>1. \A q \in Queries : SameQuery(q) /\ (query[q] = Absent => query'[q] = Absent)
  BY DEF SameQuery
<1>2. \A p \in Paths : (Fetchable(p) => Fetchable(p)') /\ (Cacheable(p) => Cacheable(p)')
  BY DEF Fetchable, Cacheable, Unbumped, Busy
<1> QED
  BY <1>1, <1>2, StoreKeepsClean

\* A step of one query, with what it may fetch and what it has to leave out.
LEMMA QueryKeepsClean ==
  ASSUME VTyped, VTyped', Clean, NEW q \in Queries, NEW n,
         query' = [query EXCEPT ![q] = n],
         UNCHANGED <<doc, torn, epoch, writer>>,
         n # Absent =>
             /\ n.at \in {"actives", "rows", "install"} => n.epoch <= epoch
             /\ n.at \in {"rows", "install", "map"} => Fetched(n) \cap n.banned = {}
             /\ Building(n) => \A p \in Fetched(n) : Fetchable(p) /\ Unbanned(p),
         n # Absent => n.banned \subseteq Retired \/ (query[q] # Absent /\ n.banned = query[q].banned),
         cache' = cache \/ (Building(query[q]) /\ query[q] # Absent /\ query[q].at = "install"
                            /\ cache'.entries = query[q].entries)
  PROVE  Clean'
<1>0. query \in [Queries -> Query \cup {Absent}] /\ CacheTyped
  BY DEF VTyped, CacheTyped
<1>1. query'[q] = n /\ \A o \in Queries : o # q => query'[o] = query[o]
  BY <1>0
<1>2. \A p : (Fetchable(p) => Fetchable(p)') /\ (Cacheable(p) => Cacheable(p)')
  BY DEF Fetchable, Cacheable, Unbumped, Busy
<1>3. \A p : Cacheable(p) /\ Unbanned(p) => Unbanned(p)'
  <2> SUFFICES ASSUME NEW p, Cacheable(p), Unbanned(p), NEW o \in Queries, query'[o] # Absent
               PROVE  p \notin query'[o].banned
    BY DEF Unbanned
  <2>1. p \notin Retired
    BY DEF Retired, Cacheable
  <2> QED
    BY <1>1, <2>1 DEF Unbanned
<1>4. EpochsPast'
  BY <1>1 DEF Clean, EpochsPast
<1>5. BannedRetired'
  BY <1>3 DEF Clean, BannedRetired, Cacheable
<1>6. AnswersClean'
  BY <1>1 DEF Clean, AnswersClean
<1>7. BuildsClean'
  <2> SUFFICES ASSUME NEW o \in Queries, query'[o] # Absent, Building(query[o])',
                      NEW p \in Fetched(query'[o])
               PROVE  Fetchable(p)' /\ Unbanned(p)'
    BY DEF BuildsClean
  <2>1. Fetchable(p) /\ Unbanned(p)
    <3>1. CASE o = q
      BY <1>1, <3>1 DEF Building
    <3>2. CASE o # q
      BY <1>1, <3>2 DEF Clean, BuildsClean, Building
    <3> QED
      BY <3>1, <3>2
  <2> QED
    BY <1>2, <1>3, <2>1, FetchableCacheable
<1>8. CacheClean'
  <2>1. CASE cache' = cache
    BY <1>2, <1>3, <2>1 DEF Clean, CacheClean
  <2>2. CASE /\ Building(query[q]) /\ query[q] # Absent /\ query[q].at = "install"
             /\ cache'.entries = query[q].entries
    <3> SUFFICES ASSUME NEW e \in cache'.entries
                 PROVE  Cacheable(e.path)' /\ Unbanned(e.path)'
      BY DEF CacheClean
    <3>1. PICK p : p = e.path
      OBVIOUS
    <3>2. p \in Fetched(query[q])
      BY <2>2, <3>1 DEF Fetched
    <3>3. Fetchable(p) /\ Unbanned(p)
      BY <2>2, <3>2 DEF Clean, BuildsClean
    <3> QED
      BY <1>2, <1>3, <3>1, <3>3, FetchableCacheable
  <2> QED
    BY <2>1, <2>2
<1> QED
  BY <1>4, <1>5, <1>6, <1>7, <1>8 DEF Clean

LEMMA AskKeepsClean ==
  ASSUME VTyped, VTyped', Clean, NEW q \in Queries, Ask(q)
  PROVE  Clean'
<1>1. PICK n : n = [at |-> "lookup", model |-> config, pass |-> 0, epoch |-> 0, actives |-> {},
                    entries |-> {}, banned |-> Retired]
  OBVIOUS
<1>2. n.at = "lookup" /\ n.banned = Retired /\ ~Building(n)
  BY <1>1 DEF Building
<1>3. query' = [query EXCEPT ![q] = n] /\ UNCHANGED <<doc, torn, epoch, cache, writer>>
  BY <1>1 DEF Ask, store
<1> QED
  BY <1>2, <1>3, QueryKeepsClean

LEMMA LookupKeepsClean ==
  ASSUME VTyped, VTyped', Clean, NEW q \in Queries, Lookup(q)
  PROVE  Clean'
<1> DEFINE r == query[q]
<1>0. r \in Query /\ r # Absent
  BY DEF Lookup, VTyped, CacheTyped
<1>1. PICK n : n = IF cache # Absent
                   THEN [r EXCEPT !.at = "map", !.entries = cache.entries]
                   ELSE [r EXCEPT !.at = "actives", !.epoch = epoch]
  OBVIOUS
<1>2. query' = [query EXCEPT ![q] = n] /\ UNCHANGED <<doc, torn, epoch, cache, writer>>
  BY <1>1 DEF Lookup, SetQuery, store, history
<1>3. n.banned = r.banned /\ n.at \in {"map", "actives"} /\ ~Building(n)
  BY <1>0, <1>1 DEF Query, Building
<1>4. n.at = "actives" => n.epoch <= epoch
  BY <1>0, <1>1 DEF Query, VTyped, CacheTyped
<1>5. n.at = "map" => Fetched(n) \cap n.banned = {}
  <2> SUFFICES ASSUME n.at = "map" PROVE Fetched(n) \cap n.banned = {}
    OBVIOUS
  <2>1. cache # Absent /\ n.entries = cache.entries
    BY <1>0, <1>1 DEF Query
  <2>2. Fetched(n) = {e.path : e \in cache.entries}
    BY <2>1 DEF Fetched
  <2>3. \A e \in cache.entries : e.path \notin r.banned
    BY <1>0, <2>1 DEF Clean, CacheClean, Unbanned
  <2> QED
    BY <1>3, <2>2, <2>3
<1> QED
  BY <1>0, <1>2, <1>3, <1>4, <1>5, QueryKeepsClean

\* What is active now is banned from no answer.
LEMMA FetchActivesKeepsClean ==
  ASSUME VTyped, VTyped', Clean, NEW q \in Queries, FetchActives(q)
  PROVE  Clean'
<1> DEFINE r == query[q]
<1>0. r \in Query /\ r # Absent /\ r.at = "actives"
  BY DEF FetchActives, VTyped, CacheTyped
<1>1. PICK n : n = [r EXCEPT !.at = "rows", !.actives = {p \in Paths : doc[p] \in Active}]
  OBVIOUS
<1>2. query' = [query EXCEPT ![q] = n] /\ UNCHANGED <<doc, torn, epoch, cache, writer>>
  BY <1>1 DEF FetchActives, SetQuery, store, history
<1>3. /\ n.banned = r.banned /\ n.at = "rows" /\ n.epoch = r.epoch
      /\ n.actives = {p \in Paths : doc[p] \in Active}
  BY <1>0, <1>1 DEF Query
<1>4. n.epoch <= epoch
  BY <1>0, <1>3 DEF Clean, EpochsPast
<1>5. \A p \in Fetched(n) : Fetchable(p) /\ Unbanned(p)
  BY <1>3 DEF Fetched, Fetchable, Clean, BannedRetired
<1>6. Fetched(n) \cap n.banned = {}
  BY <1>0, <1>3, <1>5 DEF Unbanned
<1> QED
  BY <1>0, <1>2, <1>3, <1>4, <1>5, <1>6, QueryKeepsClean

LEMMA FetchRowsKeepsClean ==
  ASSUME VTyped, VTyped', Clean, NEW q \in Queries, FetchRows(q)
  PROVE  Clean'
<1> DEFINE r == query[q]
<1>0. r \in Query /\ r # Absent /\ r.at = "rows"
  BY DEF FetchRows, VTyped, CacheTyped
<1>1. PICK es : es = {[path |-> p, model |-> rows[p].model] :
                         p \in {p \in r.actives : rows[p] # Absent /\ ~rows[p].stale}}
  OBVIOUS
<1>2. PICK n : n = [r EXCEPT !.at = "install", !.actives = {}, !.entries = es]
  OBVIOUS
<1>3. query' = [query EXCEPT ![q] = n] /\ UNCHANGED <<doc, torn, epoch, cache, writer>>
  BY <1>1, <1>2 DEF FetchRows, SetQuery, store, history
<1>4. n.banned = r.banned /\ n.at = "install" /\ n.epoch = r.epoch /\ n.entries = es
  BY <1>0, <1>2 DEF Query
<1>5. n.epoch <= epoch
  BY <1>0, <1>4 DEF Clean, EpochsPast
<1>6. Fetched(n) \subseteq Fetched(r)
  <2>1. \A e \in es : e.path \in r.actives
    BY <1>1
  <2> QED
    BY <1>0, <1>4, <2>1 DEF Fetched
<1>7. Fetched(n) \cap n.banned = {}
  BY <1>0, <1>4, <1>6 DEF Clean, AnswersClean
<1>8. Building(n) => \A p \in Fetched(n) : Fetchable(p) /\ Unbanned(p)
  BY <1>0, <1>4, <1>6 DEF Clean, BuildsClean, Building
<1> QED
  BY <1>0, <1>3, <1>4, <1>5, <1>7, <1>8, QueryKeepsClean

\* The snapshot that is installed is that of a build no write has overtaken.
LEMMA InstallKeepsClean ==
  ASSUME VTyped, VTyped', Clean, NEW q \in Queries, Install(q)
  PROVE  Clean'
<1> DEFINE r == query[q]
<1>0. r \in Query /\ r # Absent /\ r.at = "install" /\ epoch \in Nat
  BY DEF Install, VTyped, CacheTyped
<1>1. PICK n : n = IF epoch # r.epoch /\ r.pass + 1 < Passes
                   THEN [r EXCEPT !.at = "actives", !.pass = @ + 1, !.epoch = epoch]
                   ELSE [r EXCEPT !.at = "map"]
  OBVIOUS
<1>2. query' = [query EXCEPT ![q] = n] /\ UNCHANGED <<doc, torn, epoch, writer>>
  BY <1>1 DEF Install, SetQuery, store, history
<1>3. n.banned = r.banned /\ n.at \in {"map", "actives"} /\ n.entries = r.entries /\ ~Building(n)
  BY <1>0, <1>1 DEF Query, Building
<1>4. n.at = "actives" => n.epoch <= epoch
  BY <1>0, <1>1 DEF Query
<1>5. n.at = "map" => Fetched(n) \cap n.banned = {}
  <2>1. Fetched(r) \cap r.banned = {}
    BY <1>0 DEF Clean, AnswersClean
  <2>2. Fetched(n) = Fetched(r)
    BY <1>0, <1>3 DEF Fetched
  <2> QED
    BY <1>3, <2>1, <2>2
<1>6. cache' = cache \/ (Building(r) /\ cache'.entries = r.entries)
  BY <1>0 DEF Install, Building
<1> QED
  BY <1>0, <1>2, <1>3, <1>4, <1>5, <1>6, QueryKeepsClean

LEMMA AnswerKeepsClean ==
  ASSUME VTyped, VTyped', Clean, NEW q \in Queries, Answer(q)
  PROVE  Clean'
<1>1. query' = [query EXCEPT ![q] = Absent] /\ UNCHANGED <<doc, torn, epoch, cache, writer>>
  BY DEF Answer, SetQuery, store, history
<1> QED
  BY <1>1, QueryKeepsClean

\* A write that has still to bump the epoch, or to remove the snapshot, and
\* goes on.
LEMMA WriterKeepsUnbumped ==
  ASSUME NEW t \in Writers, \A o \in Writers : o # t => writer'[o] = writer[o],
         writer[t] # Absent /\ writer[t].at # "remove" =>
             writer'[t] # Absent /\ writer'[t].path = writer[t].path /\ writer'[t].at # "remove",
         NEW p, Unbumped(p)
  PROVE  Unbumped(p)'
<1>1. PICK o \in Writers : writer[o] # Absent /\ writer[o].path = p /\ writer[o].at # "remove"
  BY DEF Unbumped
<1>2. writer'[o] # Absent /\ writer'[o].path = p /\ writer'[o].at # "remove"
  BY <1>1
<1> QED
  BY <1>2 DEF Unbumped

LEMMA WriterKeepsBusy ==
  ASSUME NEW t \in Writers, \A o \in Writers : o # t => writer'[o] = writer[o],
         writer[t] # Absent => writer'[t] # Absent /\ writer'[t].path = writer[t].path,
         NEW p, Busy(p)
  PROVE  Busy(p)'
<1>1. PICK o \in Writers : writer[o] # Absent /\ writer[o].path = p
  BY DEF Busy
<1>2. writer'[o] # Absent /\ writer'[o].path = p
  BY <1>1
<1> QED
  BY <1>2 DEF Busy

LEMMA WriterKeepsClean ==
  ASSUME VTyped, VTyped', Clean, NEW t \in Writers, WriterStep(t)
  PROVE  Clean'
<1>0. WriterTyped /\ epoch \in Nat
  BY DEF VTyped, CacheTyped
<1>q. ASSUME query' = query PROVE \A q \in Queries : SameQuery(q) /\ (query[q] = Absent => query'[q] = Absent)
  BY <1>q DEF SameQuery
<1>1. ASSUME NEW p \in Paths, StartDelete(t, p) \/ \E c \in Contents : StartPut(t, p, c)
      PROVE  Clean'
  <2>1. /\ writer[t] = Absent /\ UNCHANGED <<doc, torn, epoch, cache, query>>
        /\ \A o \in Writers : o # t => writer'[o] = writer[o]
    BY <1>0, <1>1 DEF StartDelete, StartPut, store, memory, WriterTyped
  <2>2. \A o \in Paths : (Fetchable(o) => Fetchable(o)') /\ (Cacheable(o) => Cacheable(o)')
    BY <2>1, WriterKeepsUnbumped, WriterKeepsBusy DEF Fetchable, Cacheable
  <2> QED
    BY <1>q, <2>1, <2>2, StoreKeepsClean
<1>2. CASE StoreWrite(t)
  <2>1. PICK c : c = writer[t].path
    OBVIOUS
  <2>2. /\ writer[t] # Absent /\ writer[t] \in Write /\ c \in Paths
        /\ UNCHANGED <<torn, epoch, cache>>
    BY <1>0, <1>2, <2>1, StoreWriteEffect DEF memory, history, WriterTyped, Write
  <2>3. PICK s \in {"register", "index", "enqueue", "unindex", "unlink", "removeRow"} :
           writer' = [writer EXCEPT ![t].at = s]
    BY <1>2, StoreWriteEffect
  <2>4. /\ writer'[t] # Absent /\ writer'[t].path = c /\ writer'[t].at # "remove"
        /\ \A o \in Writers : o # t => writer'[o] = writer[o]
    BY <1>0, <2>1, <2>2, <2>3, WriterMoves
  <2>5. Unbumped(c)' /\ Busy(c)'
    BY <2>4 DEF Unbumped, Busy
  <2>6. \A p \in Paths : p # c => doc'[p] = doc[p]
    BY <1>2, <2>1, <2>2, StoreWriteEffect DEF VTyped, StoreTyped
  <2>7. ASSUME NEW p \in Paths
        PROVE  (Fetchable(p) => Fetchable(p)') /\ (Cacheable(p) => Cacheable(p)')
    <3>1. CASE p = c
      BY <2>5, <3>1 DEF Fetchable, Cacheable
    <3>2. CASE p # c
      BY <2>1, <2>2, <2>4, <2>6, <3>2, WriterKeepsUnbumped, WriterKeepsBusy DEF Fetchable, Cacheable
    <3> QED
      BY <3>1, <3>2
  <2>8. CASE query' = query /\ \A p \in Paths : doc'[p] \in Active => doc[p] \in Active
    BY <1>q, <2>2, <2>7, <2>8, StoreKeepsClean
  <2>9. CASE doc' = [doc EXCEPT ![c] = writer[t].of] /\ Unban(c, writer[t].of)
    <3>1. ASSUME NEW q \in Queries
          PROVE  /\ SameQuery(q) /\ (query[q] = Absent => query'[q] = Absent)
                 /\ query'[q] # Absent /\ writer[t].of \in Active => c \notin query'[q].banned
      <4>1. query[q] \in Query \cup {Absent}
        BY DEF VTyped, CacheTyped
      <4>2. CASE query[q] # Absent /\ writer[t].of \in Active
        <5>1. query'[q] = [query[q] EXCEPT !.banned = @ \ {c}] /\ query[q] \in Query
          BY <2>9, <4>1, <4>2 DEF Unban
        <5>2. /\ query'[q].at = query[q].at /\ query'[q].epoch = query[q].epoch
              /\ query'[q].actives = query[q].actives /\ query'[q].entries = query[q].entries
              /\ query'[q].banned = query[q].banned \ {c}
          BY <5>1 DEF Query
        <5> QED
          BY <4>2, <5>2 DEF SameQuery
      <4>3. CASE ~(query[q] # Absent /\ writer[t].of \in Active)
        <5>1. query'[q] = query[q]
          BY <2>9, <4>3 DEF Unban
        <5> QED
          BY <4>3, <5>1 DEF SameQuery
      <4> QED
        BY <4>2, <4>3
    <3>2. ASSUME NEW p \in Paths, doc'[p] \in Active PROVE doc[p] \in Active \/ Unbanned(p)'
      <4>1. CASE p = c
        <5>1. writer[t].of \in Active
          BY <2>2, <2>9, <3>2, <4>1 DEF VTyped, StoreTyped
        <5> QED
          BY <3>1, <4>1, <5>1 DEF Unbanned
      <4>2. CASE p # c
        BY <2>6, <3>2, <4>2
      <4> QED
        BY <4>1, <4>2
    <3> QED
      BY <2>2, <2>7, <3>1, <3>2, StoreKeepsClean
  <2>10. CASE doc' = [doc EXCEPT ![c] = Absent] /\ query' = query
    BY <2>2, <2>6, <2>8, <2>10, VectorAssumption DEF VTyped, StoreTyped
  <2> QED
    BY <1>2, <2>1, <2>8, <2>9, <2>10, StoreWriteEffect
<1>3. CASE PutHook(t) \/ DeleteHook(t)
  <2>1. /\ writer[t] # Absent /\ writer' = [writer EXCEPT ![t].at = "bump"]
        /\ UNCHANGED <<doc, torn, epoch, cache, query>>
    BY <1>3 DEF PutHook, DeleteHook, store, memory
  <2>2. /\ writer'[t] # Absent /\ writer'[t].path = writer[t].path /\ writer'[t].at # "remove"
        /\ \A o \in Writers : o # t => writer'[o] = writer[o]
    BY <1>0, <2>1, WriterMoves
  <2>3. \A p \in Paths : (Fetchable(p) => Fetchable(p)') /\ (Cacheable(p) => Cacheable(p)')
    BY <2>1, <2>2, WriterKeepsUnbumped, WriterKeepsBusy DEF Fetchable, Cacheable
  <2> QED
    BY <1>q, <2>1, <2>3, StoreKeepsClean
<1>4. CASE Invalidate(t) /\ writer[t].at = "bump"
  <2>1. /\ writer[t] # Absent /\ writer' = [writer EXCEPT ![t].at = "remove"]
        /\ UNCHANGED <<doc, torn, cache, query>> /\ epoch' = epoch + 1
    BY <1>4 DEF Invalidate, Bump, store
  <2>2. /\ writer'[t] # Absent /\ writer'[t].path = writer[t].path
        /\ \A o \in Writers : o # t => writer'[o] = writer[o]
    BY <1>0, <2>1, WriterMoves
  <2>3. \A p \in Paths : Cacheable(p) => Cacheable(p)'
    BY <2>1, <2>2, WriterKeepsBusy DEF Cacheable
  <2> QED
    BY <1>0, <1>q, <2>1, <2>3, StoreKeepsClean
<1>5. CASE Invalidate(t) /\ writer[t].at # "bump"
  <2>1. /\ writer[t].at = "remove" /\ writer' = [writer EXCEPT ![t] = Absent] /\ cache' = Absent
        /\ UNCHANGED <<doc, torn, epoch, query>>
    BY <1>5 DEF Invalidate, RemoveSnapshot, store
  <2>2. \A o \in Writers : o # t => writer'[o] = writer[o]
    BY <1>0, <2>1 DEF WriterTyped
  <2>3. \A p \in Paths : Fetchable(p) => Fetchable(p)'
    BY <2>1, <2>2, WriterKeepsUnbumped DEF Fetchable
  <2> QED
    BY <1>q, <2>1, <2>3, StoreKeepsClean
<1>6. CASE AbortWrite(t)
  <2>1. PICK c : c = writer[t].path
    OBVIOUS
  <2>2. /\ writer' = [writer EXCEPT ![t] = Absent] /\ torn' = torn \cup {c}
        /\ UNCHANGED <<doc, epoch, cache, query>>
    BY <1>6, <2>1 DEF AbortWrite, store, memory
  <2>3. \A o \in Writers : o # t => writer'[o] = writer[o]
    BY <1>0, <2>2 DEF WriterTyped
  <2>4. \A p \in Paths : p # c => (Unbumped(p) => Unbumped(p)') /\ (Busy(p) => Busy(p)')
    BY <2>1, <2>3 DEF Unbumped, Busy
  <2>5. \A p \in Paths : (Fetchable(p) => Fetchable(p)') /\ (Cacheable(p) => Cacheable(p)')
    BY <2>2, <2>4 DEF Fetchable, Cacheable
  <2> QED
    BY <1>q, <2>2, <2>5, StoreKeepsClean
<1> QED
  BY <1>1, <1>2, <1>3, <1>4, <1>5, <1>6 DEF WriterStep

\* The worker bumps, removes and sweeps; the rest of it leaves them alone.
LEMMA WorkerKeepsClean ==
  ASSUME VTyped, VTyped', Clean, WorkerStep
  PROVE  Clean'
<1>0. UNCHANGED <<writer, query>> /\ epoch \in Nat
  BY DEF WorkerStep, Tick, MarkStale, Drain, List, Load, SkipUnloadable, Belt, SweepDoc, FinishEmbed,
         Requeue, Embed, Upsert, WorkerInvalidate, FindStale, Backlog, BootBacklog, WorkerOnly,
         VTyped, CacheTyped
<1>1. \A q \in Queries : SameQuery(q) /\ (query[q] = Absent => query'[q] = Absent)
  BY <1>0 DEF SameQuery
<1>2. \A p \in Paths : (Unbumped(p) => Unbumped(p)') /\ (Busy(p) => Busy(p)')
  BY <1>0 DEF Unbumped, Busy
<1>3. CASE UNCHANGED <<doc, torn, epoch, cache>>
  BY <1>0, <1>3, QuietKeepsClean
<1>4. CASE SweepDoc
  <2>1. PICK c : c = Head(worker.todo)
    OBVIOUS
  <2>2. /\ UNCHANGED <<epoch, cache>>
        /\ \/ UNCHANGED <<doc, torn>>
           \/ /\ doc' = [doc EXCEPT ![c] = Absent]
              /\ torn' = IF doc[c] = Absent THEN torn ELSE torn \cup {c}
    BY <1>4, <2>1 DEF SweepDoc
  <2>3. Absent \notin Active /\ doc \in [Paths -> Contents \cup {Absent}]
    BY VectorAssumption DEF VTyped, StoreTyped
  <2>4. /\ \A p \in Paths : doc'[p] \in Active => doc[p] \in Active
        /\ \A p \in Paths : doc[p] \in Active \/ p \in torn => doc'[p] \in Active \/ p \in torn'
    BY <2>2, <2>3
  <2>5. \A p \in Paths : (Fetchable(p) => Fetchable(p)') /\ (Cacheable(p) => Cacheable(p)')
    BY <1>2, <2>4 DEF Fetchable, Cacheable
  <2> QED
    BY <1>1, <2>2, <2>4, <2>5, StoreKeepsClean
<1>5. CASE WorkerInvalidate
  <2>1. /\ UNCHANGED <<doc, torn>>
        /\ (epoch' = epoch + 1 /\ cache' = cache) \/ (epoch' = epoch /\ cache' = Absent)
    BY <1>5 DEF WorkerInvalidate, Bump, RemoveSnapshot
  <2>2. \A p \in Paths : (Fetchable(p) => Fetchable(p)') /\ (Cacheable(p) => Cacheable(p)')
    BY <1>2, <2>1 DEF Fetchable, Cacheable
  <2> QED
    BY <1>0, <1>1, <2>1, <2>2, StoreKeepsClean
<1>6. CASE ~SweepDoc /\ ~WorkerInvalidate
  BY <1>3, <1>6 DEF WorkerStep, Tick, MarkStale, Drain, List, Load, SkipUnloadable, Belt, FinishEmbed,
         Requeue, Embed, Upsert, FindStale, Backlog, BootBacklog, Quiet, Still
<1> QED
  BY <1>4, <1>5, <1>6

LEMMA NextClean ==
  ASSUME VTyped, VTyped', Clean, [VectorsNext]_vvars
  PROVE  Clean'
<1>1. CASE UNCHANGED vvars
  BY <1>1, QuietKeepsClean DEF vvars, store, memory, history
<1>2. CASE \E q \in Queries : QueryStep(q)
  BY <1>2, AskKeepsClean, LookupKeepsClean, FetchActivesKeepsClean, FetchRowsKeepsClean,
     InstallKeepsClean, AnswerKeepsClean DEF QueryStep
<1>3. CASE \/ ProbeTick \/ ProbeAnswer \/ AskLexical \/ Weather
           \/ \E m \in Models : SaveEmbeddings(m) \/ TestEmbeddings(m)
  BY <1>3, QuietKeepsClean DEF ProbeTick, ProbeAnswer, AskLexical, Weather, SaveEmbeddings,
                               TestEmbeddings, store, memory, history
<1>4. CASE BumpElsewhere
  <2>1. UNCHANGED <<doc, torn, cache, writer, query>> /\ epoch' = epoch + 1 /\ epoch \in Nat
    BY <1>4 DEF BumpElsewhere, Bump, store, VTyped, CacheTyped
  <2>2. \A q \in Queries : SameQuery(q) /\ (query[q] = Absent => query'[q] = Absent)
    BY <2>1 DEF SameQuery
  <2>3. \A p \in Paths : Cacheable(p) => Cacheable(p)'
    BY <2>1 DEF Cacheable, Busy
  <2> QED
    BY <2>1, <2>2, <2>3, StoreKeepsClean
<1>5. CASE Restart
  <2>1. cache' = Absent /\ \A q \in Queries : query'[q] = Absent
    BY <1>5 DEF Restart
  <2> QED
    BY <2>1 DEF Clean, EpochsPast, BannedRetired, AnswersClean, BuildsClean, CacheClean, Unbanned
<1> QED
  BY <1>1, <1>2, <1>3, <1>4, <1>5, WriterKeepsClean, WorkerKeepsClean DEF VectorsNext

\* A query that starts when a concept is retired or deleted, and no write of
\* it is unfinished or was abandoned, does not answer with it, whichever
\* writes, builds and bumps of other scopes race it: its snapshot was removed
\* after its write's bump, and no build the bump overtook is installed.
THEOREM NoRetiredAnswerHolds == VectorsSpec => NoRetiredAnswer
<1>1. VectorsInit => VTyped /\ Clean
  BY InitTyped DEF VectorsInit, Clean, EpochsPast, BannedRetired, AnswersClean, BuildsClean,
                   CacheClean, Unbanned
<1>2. VTyped /\ Clean /\ [VectorsNext]_vvars => (VTyped /\ Clean)'
  BY NextTyped, NextClean
<1>3. VTyped /\ Clean /\ [VectorsNext]_vvars =>
        [\A q \in Queries : Answer(q) => Hits(query[q]) \cap query[q].banned = {}]_vvars
  <2> SUFFICES ASSUME Clean, NEW q \in Queries, Answer(q)
               PROVE  Hits(query[q]) \cap query[q].banned = {}
    OBVIOUS
  <2>1. Fetched(query[q]) \cap query[q].banned = {} /\ query[q].at = "map"
    BY DEF Answer, Clean, AnswersClean
  <2> QED
    BY <2>1 DEF Fetched, Hits
<1> QED
  BY <1>1, <1>2, <1>3, PTL DEF VectorsSpec, NoRetiredAnswer
=============================================================================
