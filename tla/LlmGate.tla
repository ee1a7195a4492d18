------------------------------ MODULE LlmGate ------------------------------
(***************************************************************************)
(* The process-global LLM admission gate of mycelium-librarian             *)
(* (llm_gate.rs).  All gate state sits behind one mutex.  A wait-class     *)
(* caller runs `enter`: it takes a slot at once or queues, then waits on a *)
(* oneshot channel until a dispatch admits it, its bound elapses, `close`  *)
(* releases it, or its future is dropped.  A try-class caller runs         *)
(* `try_enter` and never waits.                                            *)
(*                                                                         *)
(* The dispatch loop runs under the mutex, so it is one action per loop    *)
(* iteration with lock = "dispatch": nothing that needs the mutex can      *)
(* happen before the loop ends, but a waiter that was already sent its     *)
(* outcome may poll its channel, and a bound may elapse, in between.       *)
(*                                                                         *)
(* Left out: the metric counters, and the pruning of waiters whose         *)
(* receiver is gone - a queued waiter's receiver lives in a QueuedWaiter   *)
(* whose Drop takes the waiter out of the queue under the mutex before it  *)
(* drops the receiver.                                                     *)
(***************************************************************************)
EXTENDS Integers, SequencesExt

CONSTANTS
    Waiters,        \* the wait-class calls of `enter`
    Tries,          \* the try-class calls (queue drain, chat resume)
    Users,
    NoUser,         \* enter(None, ...): not subject to the per-user cap
    UserOf,         \* the user each wait-class call is made for
    CapacityMax,    \* CAPACITY_MAX (1024 in the code); CAPACITY_MIN is 1
    PerUserMax      \* PER_USER_MAX (16 in the code); PER_USER_MIN is 1

ASSUME GateAssumption ==
    /\ Waiters \cap Tries = {}
    /\ IsFiniteSet(Waiters) /\ IsFiniteSet(Tries)
    /\ NoUser \notin Users
    /\ UserOf \in [Waiters -> Users \cup {NoUser}]
    /\ CapacityMax \in Nat \ {0} /\ PerUserMax \in Nat \ {0}

VARIABLES
    lock,            \* "free", or "dispatch" while the loop holds the mutex
    capacity,        \* Inner::capacity
    per_user_active, \* Inner::per_user_active
    active,          \* Inner::active
    per_user,        \* Inner::per_user, absent entries being 0
    queue,           \* Inner::queue, the waiters in FIFO order
    last_position,   \* Waiter::last_position, NoPosition outside the queue
    outcome,         \* what the waiter's oneshot channel holds
    pc               \* where each call's own task is

vars == <<lock, capacity, per_user_active, active, per_user, queue,
          last_position, outcome, pc>>

limits == <<capacity, per_user_active>>

Calls == Waiters \cup Tries
NoPosition == -1
Queued(w) == \E i \in 1..Len(queue) : queue[i] = w

TypeOK ==
    /\ lock \in {"free", "dispatch"}
    /\ capacity \in 1..CapacityMax
    /\ per_user_active \in 1..PerUserMax
    /\ active \in Nat
    /\ per_user \in [Users -> Nat]
    /\ queue \in Seq(Waiters)
    /\ last_position \in [Waiters -> Nat \cup {NoPosition}]
    /\ outcome \in [Waiters -> {"none", "Admitted", "Closed"}]
    /\ pc \in [Calls -> {"idle", "waiting", "expired", "holding"}]

Init ==
    /\ lock = "free"
    /\ capacity \in 1..CapacityMax
    /\ per_user_active \in 1..PerUserMax
    /\ active = 0
    /\ per_user = [u \in Users |-> 0]
    /\ queue = <<>>
    /\ last_position = [w \in Waiters |-> NoPosition]
    /\ outcome = [w \in Waiters |-> "none"]
    /\ pc = [c \in Calls |-> "idle"]

-----------------------------------------------------------------------------
(* The mutex-protected state                                               *)

at_user_cap(u) == u \in Users /\ per_user[u] >= per_user_active

take_slot(u) ==
    /\ active' = active + 1
    /\ per_user' = [v \in Users |-> IF v = u THEN per_user[v] + 1 ELSE per_user[v]]

saturating_dec(n) == IF n > 0 THEN n - 1 ELSE 0

free_slot(u) ==
    /\ active' = saturating_dec(active)
    /\ per_user' = [v \in Users |->
                       IF v = u THEN saturating_dec(per_user[v]) ELSE per_user[v]]

\* The 0-based position every queued waiter is told about.
notify_positions(q) ==
    [w \in Waiters |-> IF \E i \in 1..Len(q) : q[i] = w
                       THEN (CHOOSE i \in 1..Len(q) : q[i] = w) - 1
                       ELSE NoPosition]

IndexOf(w) == CHOOSE i \in 1..Len(queue) : queue[i] = w

\* One iteration of the dispatch loop: the first waiter whose user is not
\* at its cap leaves the queue with a slot.
DispatchAdmit(i) ==
    LET w == queue[i] IN
    /\ lock = "dispatch"
    /\ active < capacity
    /\ i \in 1..Len(queue)
    /\ ~at_user_cap(UserOf[w])
    /\ \A j \in 1..(i - 1) : at_user_cap(UserOf[queue[j]])
    /\ take_slot(UserOf[w])
    /\ queue' = RemoveAt(queue, i)
    /\ last_position' = [last_position EXCEPT ![w] = NoPosition]
    /\ outcome' = [outcome EXCEPT ![w] = "Admitted"]
    /\ UNCHANGED <<lock, limits, pc>>

\* The loop finds no free slot or nobody to give it to: report positions
\* and release the mutex.
DispatchDone ==
    /\ lock = "dispatch"
    /\ \/ active >= capacity
       \/ \A i \in 1..Len(queue) : at_user_cap(UserOf[queue[i]])
    /\ last_position' = notify_positions(queue)
    /\ lock' = "free"
    /\ UNCHANGED <<limits, active, per_user, queue, outcome, pc>>

-----------------------------------------------------------------------------
(* enter: wait class                                                       *)

FastPath(w) ==
    /\ queue = <<>>
    /\ active < capacity
    /\ ~at_user_cap(UserOf[w])

EnterFast(w) ==
    /\ lock = "free" /\ pc[w] = "idle"
    /\ FastPath(w)
    /\ take_slot(UserOf[w])
    /\ pc' = [pc EXCEPT ![w] = "holding"]
    /\ UNCHANGED <<lock, limits, queue, last_position, outcome>>

EnterQueue(w) ==
    /\ lock = "free" /\ pc[w] = "idle"
    /\ ~FastPath(w)
    /\ queue' = Append(queue, w)
    /\ lock' = "dispatch"
    /\ pc' = [pc EXCEPT ![w] = "waiting"]
    /\ UNCHANGED <<limits, active, per_user, last_position, outcome>>

\* The waiting future is polled and finds an outcome in its channel.
Receive(w) ==
    /\ pc[w] = "waiting" /\ outcome[w] # "none"
    /\ pc' = [pc EXCEPT ![w] = IF outcome[w] = "Admitted" THEN "holding" ELSE "idle"]
    /\ outcome' = [outcome EXCEPT ![w] = "none"]
    /\ UNCHANGED <<lock, limits, active, per_user, queue, last_position>>

\* The poll finds the channel empty and the bound elapsed; the task has not
\* taken the mutex yet, so a dispatch or a close can still get in.
BoundElapses(w) ==
    /\ pc[w] = "waiting" /\ outcome[w] = "none"
    /\ pc' = [pc EXCEPT ![w] = "expired"]
    /\ UNCHANGED <<lock, limits, active, per_user, queue, last_position, outcome>>

\* Still queued: leave with Timeout.
TimeoutLeave(w) ==
    /\ lock = "free" /\ pc[w] = "expired" /\ Queued(w)
    /\ queue' = RemoveAt(queue, IndexOf(w))
    /\ last_position' = notify_positions(queue')
    /\ pc' = [pc EXCEPT ![w] = "idle"]
    /\ UNCHANGED <<lock, limits, active, per_user, outcome>>

\* No longer queued: a dispatch beat the bound (honour it) or close did.
TimeoutBeaten(w) ==
    /\ lock = "free" /\ pc[w] = "expired" /\ ~Queued(w)
    /\ pc' = [pc EXCEPT ![w] = IF outcome[w] = "Admitted" THEN "holding" ELSE "idle"]
    /\ outcome' = [outcome EXCEPT ![w] = "none"]
    /\ UNCHANGED <<lock, limits, active, per_user, queue, last_position>>

\* QueuedWaiter::drop: the waiting future is dropped (client gone, runner
\* aborted).  A queued waiter leaves; one that was admitted but never polled
\* hands its slot back.
CancelQueued(w) ==
    /\ lock = "free" /\ pc[w] = "waiting" /\ Queued(w)
    /\ queue' = RemoveAt(queue, IndexOf(w))
    /\ last_position' = [last_position EXCEPT ![w] = NoPosition]
    /\ lock' = "dispatch"
    /\ pc' = [pc EXCEPT ![w] = "idle"]
    /\ UNCHANGED <<limits, active, per_user, outcome>>

\* Mutant: an admission that was never polled is not handed back.
CancelAdmitted_leaks(w) ==
    /\ lock = "free" /\ pc[w] = "waiting" /\ ~Queued(w) /\ outcome[w] = "Admitted"
    /\ outcome' = [outcome EXCEPT ![w] = "none"]
    /\ pc' = [pc EXCEPT ![w] = "idle"]
    /\ UNCHANGED <<lock, limits, active, per_user, queue, last_position>>

CancelAdmitted(w) ==
    /\ lock = "free" /\ pc[w] = "waiting" /\ ~Queued(w) /\ outcome[w] = "Admitted"
    /\ free_slot(UserOf[w])
    /\ lock' = "dispatch"
    /\ outcome' = [outcome EXCEPT ![w] = "none"]
    /\ pc' = [pc EXCEPT ![w] = "idle"]
    /\ UNCHANGED <<limits, queue, last_position>>

CancelClosed(w) ==
    /\ lock = "free" /\ pc[w] = "waiting" /\ ~Queued(w) /\ outcome[w] # "Admitted"
    /\ outcome' = [outcome EXCEPT ![w] = "none"]
    /\ pc' = [pc EXCEPT ![w] = "idle"]
    /\ UNCHANGED <<lock, limits, active, per_user, queue, last_position>>

-----------------------------------------------------------------------------
(* try_enter, permits, administration                                      *)

TryEnter(t) ==
    /\ lock = "free" /\ pc[t] = "idle"
    /\ queue = <<>>
    /\ active < capacity
    /\ take_slot(NoUser)
    /\ pc' = [pc EXCEPT ![t] = "holding"]
    /\ UNCHANGED <<lock, limits, queue, last_position, outcome>>

\* Mutant: a released slot wakes nobody.
Release_silent(c) ==
    /\ lock = "free" /\ pc[c] = "holding"
    /\ free_slot(IF c \in Waiters THEN UserOf[c] ELSE NoUser)
    /\ pc' = [pc EXCEPT ![c] = "idle"]
    /\ UNCHANGED <<lock, limits, queue, last_position, outcome>>

\* GatePermit::drop
Release(c) ==
    /\ lock = "free" /\ pc[c] = "holding"
    /\ free_slot(IF c \in Waiters THEN UserOf[c] ELSE NoUser)
    /\ lock' = "dispatch"
    /\ pc' = [pc EXCEPT ![c] = "idle"]
    /\ UNCHANGED <<limits, queue, last_position, outcome>>

clamp(n, lo, hi) == IF n < lo THEN lo ELSE IF n > hi THEN hi ELSE n

SetCapacity(n) ==
    /\ lock = "free"
    /\ capacity' = clamp(n, 1, CapacityMax)
    /\ lock' = "dispatch"
    /\ UNCHANGED <<per_user_active, active, per_user, queue, last_position, outcome, pc>>

SetPerUserActive(n) ==
    /\ lock = "free"
    /\ per_user_active' = clamp(n, 1, PerUserMax)
    /\ lock' = "dispatch"
    /\ UNCHANGED <<capacity, active, per_user, queue, last_position, outcome, pc>>

\* close: every queued waiter is sent Closed; the gate is not latched shut.
Close ==
    /\ lock = "free"
    /\ queue' = <<>>
    /\ outcome' = [w \in Waiters |-> IF Queued(w) THEN "Closed" ELSE outcome[w]]
    /\ last_position' = notify_positions(<<>>)
    /\ UNCHANGED <<lock, limits, active, per_user, pc>>

-----------------------------------------------------------------------------
WaiterStep(w) ==
    \/ EnterFast(w) \/ EnterQueue(w) \/ Receive(w) \/ BoundElapses(w)
    \/ TimeoutLeave(w) \/ TimeoutBeaten(w)
    \/ CancelQueued(w) \/ CancelAdmitted(w) \/ CancelClosed(w)

Next ==
    \/ \E i \in 1..Len(queue) : DispatchAdmit(i)
    \/ DispatchDone
    \/ \E w \in Waiters : WaiterStep(w)
    \/ \E t \in Tries : TryEnter(t)
    \/ \E c \in Calls : Release(c)
    \/ \E n \in 0..(CapacityMax + 1) : SetCapacity(n)
    \/ \E n \in 0..(PerUserMax + 1) : SetPerUserActive(n)
    \/ Close

Spec == Init /\ [][Next]_vars

(***************************************************************************)
(* The dispatch loop terminates and releases the mutex; tokio polls a task *)
(* that was woken; a run holding a permit ends (agent runs are capped in   *)
(* steps and every model request times out).  Nothing forces a bound to    *)
(* elapse: NoStarvation must hold however long the waiters are willing to  *)
(* wait.  A release needs the mutex, which is free again and again but not *)
(* continuously: a std mutex gives no fairness, but every holder frees it  *)
(* within a bounded number of instructions, so a thread that keeps asking  *)
(* gets it.                                                                *)
(***************************************************************************)
Fairness ==
    /\ WF_vars((\E i \in 1..Len(queue) : DispatchAdmit(i)) \/ DispatchDone)
    /\ \A w \in Waiters : WF_vars(Receive(w))
    /\ \A w \in Waiters : SF_vars(TimeoutLeave(w) \/ TimeoutBeaten(w))
    /\ \A c \in Calls : SF_vars(Release(c))

FairSpec == Spec /\ Fairness

-----------------------------------------------------------------------------
(* Properties                                                              *)

\* The calls that own a slot: they hold a permit, or an admission was sent
\* to them and neither received nor handed back yet.
Owners == {c \in Calls : pc[c] = "holding" \/ (c \in Waiters /\ outcome[c] = "Admitted")}
OwnersOf(u) == {w \in Waiters : w \in Owners /\ UserOf[w] = u}

\* No slot is leaked or returned twice: `active` and `per_user` count exactly
\* the owners, whatever mix of timeouts, cancellations, closes and releases
\* raced with the dispatches (QueuedWaiter::drop, the late-admission arm of
\* enter, GatePermit::drop).
SlotAccounting ==
    /\ active = Cardinality(Owners)
    /\ \A u \in Users : per_user[u] = Cardinality(OwnersOf(u))

\* A waiter is in the queue at most once, and it is there exactly while its
\* task waits with an empty channel: no dispatch, timeout, close or
\* cancellation strands a task that nobody will wake, or leaves behind the
\* seat of one that is gone.
QueueWellFormed ==
    /\ \A i, j \in 1..Len(queue) : queue[i] = queue[j] => i = j
    /\ \A w \in Waiters :
          Queued(w) <=> (pc[w] \in {"waiting", "expired"} /\ outcome[w] = "none")
    /\ \A w \in Waiters : outcome[w] # "none" => pc[w] \in {"waiting", "expired"}
    /\ \A t \in Tries : pc[t] \in {"idle", "holding"}

\* Whenever the mutex is free no slot idles beside a waiter that may take it:
\* every operation that frees a slot, raises a limit or appends a waiter ends
\* in a dispatch, and none of the others can make a waiter eligible.
WorkConserving ==
    lock = "free" =>
        \/ active >= capacity
        \/ \A i \in 1..Len(queue) : at_user_cap(UserOf[queue[i]])

\* The gate never admits above its capacity (a shrink may leave active above
\* it, but then admissions stop), and background work is never admitted while
\* an interactive waiter is queued.
AdmissionWithinLimits ==
    /\ active' > active => active' <= capacity'
    /\ \A t \in Tries : (pc[t] = "idle" /\ pc'[t] = "holding") => queue = <<>>

AdmissionRespectsLimits == [][AdmissionWithinLimits]_vars

\* The gate as its callers see it: the owners of slots, the line, the limits, and
\* whether a dispatch is due.
Seen == INSTANCE Admission WITH held <- Owners, line <- queue, cap <- per_user_active, settled <- (lock = "free"),
    told <- (IF lock = "free" THEN last_position ELSE [w \in Waiters |-> NoPosition])

\* llm_gate.rs "head-of-line bypass for capped users, strict FIFO for
\* everyone else", "FIFO order and the counters stay consistent": behind the
\* counters, the oneshot channels and the races of bounds, cancellations and
\* closes with the dispatch loop, every step is one of a plain semaphore with
\* a line or none at all: no slot is lost or given twice, nobody is served
\* out of turn or shown a stale position, nothing else happens before
\* everybody who can be served has been.
ImplementsAdmission == Seen!Spec

\* Although waiters of capped users are bypassed, a waiter that is prepared
\* to wait forever does not wait forever.
NoStarvation == \A w \in Waiters : Queued(w) ~> ~Queued(w)

=============================================================================
