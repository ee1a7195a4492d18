--------------------------- MODULE LlmGateProofs ---------------------------
(***************************************************************************)
(* Proofs about LlmGate for every number of callers, users and slots.      *)
(* The inductive invariant is the conjunction of the type invariant, the   *)
(* shape of the queue (QueueWellFormed), the slot count (SlotAccounting)   *)
(* and WorkConserving.  QueueWellFormed is what the count rests on: a      *)
(* waiter that is admitted was queued with an empty channel, hence owned   *)
(* no slot, and a waiter that leaves the queue by a timeout owns none.     *)
(***************************************************************************)
EXTENDS LlmGate, FiniteSetTheorems, SequenceTheorems, TLAPS

IInv == TypeOK /\ QueueWellFormed /\ SlotAccounting /\ WorkConserving

\* Removing position i from a sequence keeps the other elements in order.
LEMMA RemoveAtFacts ==
    ASSUME NEW S, NEW q \in Seq(S), NEW i \in 1..Len(q)
    PROVE  /\ RemoveAt(q, i) \in Seq(S)
           /\ Len(RemoveAt(q, i)) = Len(q) - 1
           /\ \A j \in 1..(Len(q) - 1) :
                 RemoveAt(q, i)[j] = IF j < i THEN q[j] ELSE q[j + 1]
  <1> DEFINE a == SubSeq(q, 1, i - 1)
             b == SubSeq(q, i + 1, Len(q))
  <1>1. a \in Seq(S) /\ Len(a) = i - 1 /\ \A j \in 1..(i - 1) : a[j] = q[j]
    OBVIOUS
  <1>2. /\ b \in Seq(S) /\ Len(b) = Len(q) - i
        /\ \A j \in 1..(Len(q) - i) : b[j] = q[i + j]
    OBVIOUS
  <1>3. RemoveAt(q, i) = a \o b
    BY DEF RemoveAt
  <1> HIDE DEF a, b
  <1>4. /\ a \o b \in Seq(S)
        /\ Len(a \o b) = Len(a) + Len(b)
        /\ \A j \in 1..(Len(a) + Len(b)) :
              (a \o b)[j] = IF j <= Len(a) THEN a[j] ELSE b[j - Len(a)]
    BY <1>1, <1>2, ConcatProperties, Zenon
  <1>5. ASSUME NEW j \in 1..(Len(q) - 1)
        PROVE  (a \o b)[j] = IF j < i THEN q[j] ELSE q[j + 1]
    <2>1. CASE j < i
      BY <1>1, <1>2, <1>4, <2>1
    <2>2. CASE ~(j < i)
      <3>1. b[j - (i - 1)] = q[j + 1]
        BY <1>2, <2>2
      <3> QED
        BY <1>1, <1>2, <1>4, <2>2, <3>1
    <2> QED
      BY <2>1, <2>2
  <1>6. Len(q) \in Nat /\ Len(a \o b) = Len(q) - 1
    BY <1>1, <1>2, <1>4
  <1> QED
    BY <1>3, <1>4, <1>5, <1>6

\* Appending to a sequence.
LEMMA AppendFacts ==
    ASSUME NEW S, NEW q \in Seq(S), NEW e \in S
    PROVE  /\ Append(q, e) \in Seq(S)
           /\ Len(Append(q, e)) = Len(q) + 1
           /\ \A j \in 1..Len(q) : Append(q, e)[j] = q[j]
           /\ Append(q, e)[Len(q) + 1] = e
  OBVIOUS

\* The index of a queued waiter is one of the queue's positions.
LEMMA IndexOfFacts ==
    ASSUME NEW w, Queued(w)
    PROVE  IndexOf(w) \in 1..Len(queue) /\ queue[IndexOf(w)] = w
  BY DEF Queued, IndexOf

\* The positions reported for any queue are well typed.
LEMMA NotifyType ==
    ASSUME NEW q \in Seq(Waiters)
    PROVE  notify_positions(q) \in [Waiters -> Nat \cup {NoPosition}]
  <1> SUFFICES ASSUME NEW w \in Waiters, \E i \in 1..Len(q) : q[i] = w
               PROVE  (CHOOSE i \in 1..Len(q) : q[i] = w) - 1 \in Nat
    BY DEF notify_positions
  <1>1. (CHOOSE i \in 1..Len(q) : q[i] = w) \in 1..Len(q)
    OBVIOUS
  <1> QED
    BY <1>1

\* Taking and freeing a slot keep the counters natural numbers.
LEMMA SlotTypes ==
    ASSUME active \in Nat, per_user \in [Users -> Nat], NEW u
    PROVE  /\ take_slot(u) => active' \in Nat /\ per_user' \in [Users -> Nat]
           /\ free_slot(u) => active' \in Nat /\ per_user' \in [Users -> Nat]
  BY DEF take_slot, free_slot, saturating_dec

-----------------------------------------------------------------------------
\* Every reachable state of the gate is well typed: in particular clamping
\* keeps the capacity and the per-user cap in their ranges.
LEMMA TypeStep == ASSUME TypeOK, [Next]_vars PROVE TypeOK'
  <1> USE GateAssumption DEF TypeOK, limits, Calls
  <1>1. ASSUME NEW i \in 1..Len(queue), DispatchAdmit(i) PROVE TypeOK'
    <2>1. queue' \in Seq(Waiters)
      BY <1>1, RemoveAtFacts DEF DispatchAdmit
    <2>2. active' \in Nat /\ per_user' \in [Users -> Nat]
      BY <1>1, SlotTypes DEF DispatchAdmit
    <2> QED
      BY <1>1, <2>1, <2>2 DEF DispatchAdmit, NoPosition
  <1>2. CASE DispatchDone
    BY <1>2, NotifyType DEF DispatchDone
  <1>3. ASSUME NEW w \in Waiters, WaiterStep(w) PROVE TypeOK'
    <2>1. CASE EnterFast(w)
      BY <2>1, SlotTypes DEF EnterFast
    <2>2. CASE EnterQueue(w)
      BY <2>2 DEF EnterQueue
    <2>3. CASE Receive(w)
      BY <2>3 DEF Receive
    <2>4. CASE BoundElapses(w)
      BY <2>4 DEF BoundElapses
    <2>5. CASE TimeoutLeave(w)
      <3>1. queue' \in Seq(Waiters)
        BY <2>5, IndexOfFacts, RemoveAtFacts DEF TimeoutLeave
      <3> QED
        BY <2>5, <3>1, NotifyType DEF TimeoutLeave
    <2>6. CASE TimeoutBeaten(w)
      BY <2>6 DEF TimeoutBeaten
    <2>7. CASE CancelQueued(w)
      <3>1. queue' \in Seq(Waiters)
        BY <2>7, IndexOfFacts, RemoveAtFacts DEF CancelQueued
      <3> QED
        BY <2>7, <3>1 DEF CancelQueued, NoPosition
    <2>8. CASE CancelAdmitted(w)
      BY <2>8, SlotTypes DEF CancelAdmitted
    <2>9. CASE CancelClosed(w)
      BY <2>9 DEF CancelClosed
    <2> QED
      BY <1>3, <2>1, <2>2, <2>3, <2>4, <2>5, <2>6, <2>7, <2>8, <2>9 DEF WaiterStep
  <1>4. ASSUME NEW t \in Tries, TryEnter(t) PROVE TypeOK'
    BY <1>4, SlotTypes DEF TryEnter
  <1>5. ASSUME NEW c \in Calls, Release(c) PROVE TypeOK'
    BY <1>5, SlotTypes DEF Release
  <1>6. ASSUME NEW n \in 0..(CapacityMax + 1), SetCapacity(n) PROVE TypeOK'
    BY <1>6 DEF SetCapacity, clamp
  <1>7. ASSUME NEW n \in 0..(PerUserMax + 1), SetPerUserActive(n) PROVE TypeOK'
    BY <1>7 DEF SetPerUserActive, clamp
  <1>8. CASE Close
    <2>1. <<>> \in Seq(Waiters)
      OBVIOUS
    <2> QED
      BY <1>8, <2>1, NotifyType DEF Close
  <1>9. CASE UNCHANGED vars
    BY <1>9 DEF vars
  <1> QED
    BY <1>1, <1>2, <1>3, <1>4, <1>5, <1>6, <1>7, <1>8, <1>9 DEF Next

\* The queue after the waiter at position i left it.
LEMMA RemovedFromQueue ==
    ASSUME TypeOK, QueueWellFormed, NEW i \in 1..Len(queue),
           queue' = RemoveAt(queue, i)
    PROVE  /\ \A j, k \in 1..Len(queue') : queue'[j] = queue'[k] => j = k
           /\ \A w \in Waiters : Queued(w)' <=> (Queued(w) /\ w # queue[i])
  <1> DEFINE q == queue
             r == RemoveAt(queue, i)
  <1>1. /\ q \in Seq(Waiters) /\ Len(q) \in Nat /\ Len(r) = Len(q) - 1
        /\ \A j \in 1..(Len(q) - 1) : r[j] = IF j < i THEN q[j] ELSE q[j + 1]
    BY RemoveAtFacts, SMTT(30) DEF TypeOK
  <1>2. \A j, k \in 1..Len(q) : q[j] = q[k] => j = k
    BY DEF QueueWellFormed
  <1> HIDE DEF q, r
  <1>3. \A j, k \in 1..Len(r) : r[j] = r[k] => j = k
    BY <1>1, <1>2
  <1>4. ASSUME NEW w \in Waiters, NEW j \in 1..Len(r), r[j] = w
        PROVE  (\E k \in 1..Len(q) : q[k] = w) /\ w # q[i]
    <2>0. i \in 1..Len(q)
      BY DEF q
    <2>1. CASE j < i
      <3>1. q[j] = w /\ j \in 1..Len(q) /\ j # i
        BY <1>1, <1>4, <2>0, <2>1
      <3> QED
        BY <1>2, <2>0, <3>1, Zenon
    <2>2. CASE ~(j < i)
      <3>1. q[j + 1] = w /\ j + 1 \in 1..Len(q) /\ j + 1 # i
        BY <1>1, <1>4, <2>0, <2>2
      <3> QED
        BY <1>2, <2>0, <3>1, Zenon
    <2> QED
      BY <2>1, <2>2
  <1>5. ASSUME NEW w \in Waiters, NEW k \in 1..Len(q), q[k] = w, w # q[i]
        PROVE  \E j \in 1..Len(r) : r[j] = w
    <2>0. i \in 1..Len(q) /\ k # i
      BY <1>5 DEF q
    <2>1. CASE k < i
      <3>1. k \in 1..Len(r) /\ r[k] = w
        BY <1>1, <1>5, <2>0, <2>1
      <3> QED
        BY <3>1, Zenon
    <2>2. CASE ~(k < i)
      <3>1. k - 1 \in 1..Len(r) /\ ~(k - 1 < i) /\ (k - 1) + 1 = k
        BY <1>1, <1>5, <2>0, <2>2
      <3>2. r[k - 1] = w
        BY <1>1, <1>5, <3>1
      <3> QED
        BY <3>1, <3>2, Zenon
    <2> QED
      BY <2>1, <2>2
  <1> QED
    BY <1>3, <1>4, <1>5 DEF Queued, q, r

\* The queue keeps its shape.
LEMMA QueueStep ==
    ASSUME TypeOK, QueueWellFormed, [Next]_vars PROVE QueueWellFormed'
  <1> USE GateAssumption DEF TypeOK, limits, Calls
  <1>1. ASSUME NEW i \in 1..Len(queue), DispatchAdmit(i) PROVE QueueWellFormed'
    <2>1. queue[i] \in Waiters /\ Queued(queue[i])
      BY DEF Queued
    <2>2. /\ \A j, k \in 1..Len(queue') : queue'[j] = queue'[k] => j = k
          /\ \A w \in Waiters : Queued(w)' <=> (Queued(w) /\ w # queue[i])
      BY <1>1, RemovedFromQueue DEF DispatchAdmit
    <2> QED
      BY <1>1, <2>1, <2>2 DEF DispatchAdmit, QueueWellFormed
  <1>2. CASE DispatchDone
    BY <1>2 DEF DispatchDone, QueueWellFormed, Queued
  <1>3. ASSUME NEW w \in Waiters, WaiterStep(w) PROVE QueueWellFormed'
    <2>1. CASE EnterFast(w)
      BY <2>1 DEF EnterFast, QueueWellFormed, Queued
    <2>2. CASE EnterQueue(w)
      <3>1. /\ Len(queue') = Len(queue) + 1 /\ Len(queue) \in Nat
            /\ \A j \in 1..Len(queue) : queue'[j] = queue[j]
            /\ queue'[Len(queue) + 1] = w
        BY <2>2, AppendFacts DEF EnterQueue
      <3>2. ~Queued(w)
        BY <2>2 DEF EnterQueue, QueueWellFormed
      <3>3. \A j, k \in 1..Len(queue') : queue'[j] = queue'[k] => j = k
        BY <3>1, <3>2 DEF QueueWellFormed, Queued
      <3>4. \A v \in Waiters : Queued(v)' <=> (Queued(v) \/ v = w)
        <4>1. /\ 1..Len(queue') = 1..Len(queue) \cup {Len(queue) + 1}
              /\ \A j \in 1..Len(queue) : queue'[j] = queue[j]
              /\ queue'[Len(queue) + 1] = w
          BY <3>1
        <4> QED
          BY <4>1, Zenon DEF Queued
      <3>5. outcome[w] = "none"
        BY <2>2 DEF EnterQueue, QueueWellFormed
      <3> QED
        BY <2>2, <3>3, <3>4, <3>5 DEF EnterQueue, QueueWellFormed
    <2>3. CASE Receive(w)
      BY <2>3 DEF Receive, QueueWellFormed, Queued
    <2>4. CASE BoundElapses(w)
      BY <2>4 DEF BoundElapses, QueueWellFormed, Queued
    <2>5. CASE TimeoutLeave(w)
      <3>1. /\ \A j, k \in 1..Len(queue') : queue'[j] = queue'[k] => j = k
            /\ \A v \in Waiters : Queued(v)' <=> (Queued(v) /\ v # w)
        BY <2>5, IndexOfFacts, RemovedFromQueue DEF TimeoutLeave
      <3> QED
        BY <2>5, <3>1 DEF TimeoutLeave, QueueWellFormed
    <2>6. CASE TimeoutBeaten(w)
      BY <2>6 DEF TimeoutBeaten, QueueWellFormed, Queued
    <2>7. CASE CancelQueued(w)
      <3>1. /\ \A j, k \in 1..Len(queue') : queue'[j] = queue'[k] => j = k
            /\ \A v \in Waiters : Queued(v)' <=> (Queued(v) /\ v # w)
        BY <2>7, IndexOfFacts, RemovedFromQueue DEF CancelQueued
      <3> QED
        BY <2>7, <3>1 DEF CancelQueued, QueueWellFormed
    <2>8. CASE CancelAdmitted(w)
      BY <2>8 DEF CancelAdmitted, QueueWellFormed, Queued
    <2>9. CASE CancelClosed(w)
      BY <2>9 DEF CancelClosed, QueueWellFormed, Queued
    <2> QED
      BY <1>3, <2>1, <2>2, <2>3, <2>4, <2>5, <2>6, <2>7, <2>8, <2>9 DEF WaiterStep
  <1>4. ASSUME NEW t \in Tries, TryEnter(t) PROVE QueueWellFormed'
    BY <1>4 DEF TryEnter, QueueWellFormed, Queued
  <1>5. ASSUME NEW c \in Calls, Release(c) PROVE QueueWellFormed'
    BY <1>5 DEF Release, QueueWellFormed, Queued
  <1>6. ASSUME NEW n \in 0..(CapacityMax + 1), SetCapacity(n) PROVE QueueWellFormed'
    BY <1>6 DEF SetCapacity, QueueWellFormed, Queued
  <1>7. ASSUME NEW n \in 0..(PerUserMax + 1), SetPerUserActive(n) PROVE QueueWellFormed'
    BY <1>7 DEF SetPerUserActive, QueueWellFormed, Queued
  <1>8. CASE Close
    <2>1. \A v \in Waiters : ~Queued(v)'
      BY <1>8 DEF Close, Queued
    <2> QED
      BY <1>8, <2>1 DEF Close, QueueWellFormed
  <1>9. CASE UNCHANGED vars
    BY <1>9 DEF vars, QueueWellFormed, Queued
  <1> QED
    BY <1>1, <1>2, <1>3, <1>4, <1>5, <1>6, <1>7, <1>8, <1>9 DEF Next

-----------------------------------------------------------------------------
UserOfCall(c) == IF c \in Waiters THEN UserOf[c] ELSE NoUser

\* The sets of owners are finite, so their cardinalities are numbers.
LEMMA OwnersFinite ==
    /\ IsFiniteSet(Owners)
    /\ \A u : IsFiniteSet(OwnersOf(u))
  <1>1. IsFiniteSet(Calls)
    BY GateAssumption, FS_Union DEF Calls
  <1>2. Owners \subseteq Calls
    BY DEF Owners
  <1>3. \A u : OwnersOf(u) \subseteq Waiters
    BY DEF OwnersOf
  <1> QED
    BY <1>1, <1>2, <1>3, FS_Subset, GateAssumption

\* take_slot for a call that owned nothing counts it.
LEMMA GainSlot ==
    ASSUME TypeOK, SlotAccounting, NEW c \in Calls, c \notin Owners,
           Owners' = Owners \cup {c}, take_slot(UserOfCall(c))
    PROVE  SlotAccounting'
  <1>1. active' = Cardinality(Owners')
    <2>1. Cardinality(Owners \cup {c}) = Cardinality(Owners) + 1
      BY OwnersFinite, FS_AddElement
    <2> QED
      BY <2>1 DEF SlotAccounting, take_slot
  <1>2. ASSUME NEW u \in Users PROVE per_user'[u] = Cardinality(OwnersOf(u)')
    <2>1. CASE UserOfCall(c) = u
      <3>1. c \in Waiters /\ UserOf[c] = u
        BY <2>1, GateAssumption DEF UserOfCall
      <3>2. OwnersOf(u)' = OwnersOf(u) \cup {c} /\ c \notin OwnersOf(u)
        BY <3>1 DEF OwnersOf
      <3>3. Cardinality(OwnersOf(u) \cup {c}) = Cardinality(OwnersOf(u)) + 1
        BY <3>2, OwnersFinite, FS_AddElement
      <3> QED
        BY <2>1, <3>2, <3>3 DEF SlotAccounting, take_slot
    <2>2. CASE UserOfCall(c) # u
      <3>1. OwnersOf(u)' = OwnersOf(u)
        BY <2>2 DEF OwnersOf, UserOfCall
      <3> QED
        BY <2>2, <3>1 DEF SlotAccounting, take_slot, TypeOK
    <2> QED
      BY <2>1, <2>2
  <1> QED
    BY <1>1, <1>2 DEF SlotAccounting

\* free_slot for an owner uncounts it; the saturating subtractions never
\* saturate.
LEMMA LoseSlot ==
    ASSUME TypeOK, SlotAccounting, NEW c \in Owners,
           Owners' = Owners \ {c}, free_slot(UserOfCall(c))
    PROVE  SlotAccounting'
  <1>1. active' = Cardinality(Owners')
    <2>1. /\ Cardinality(Owners \ {c}) = Cardinality(Owners) - 1
          /\ Cardinality(Owners \ {c}) \in Nat
      BY OwnersFinite, FS_RemoveElement, FS_CardinalityType
    <2> QED
      BY <2>1 DEF SlotAccounting, free_slot, saturating_dec, TypeOK
  <1>2. ASSUME NEW u \in Users PROVE per_user'[u] = Cardinality(OwnersOf(u)')
    <2>1. CASE UserOfCall(c) = u
      <3>1. c \in Waiters /\ UserOf[c] = u
        BY <2>1, GateAssumption DEF UserOfCall
      <3>2. OwnersOf(u)' = OwnersOf(u) \ {c} /\ c \in OwnersOf(u)
        BY <3>1 DEF OwnersOf
      <3>3. /\ Cardinality(OwnersOf(u) \ {c}) = Cardinality(OwnersOf(u)) - 1
            /\ Cardinality(OwnersOf(u) \ {c}) \in Nat
        BY <3>2, OwnersFinite, FS_RemoveElement, FS_CardinalityType
      <3> QED
        BY <2>1, <3>2, <3>3 DEF SlotAccounting, free_slot, saturating_dec, TypeOK
    <2>2. CASE UserOfCall(c) # u
      <3>1. OwnersOf(u)' = OwnersOf(u)
        BY <2>2 DEF OwnersOf, UserOfCall
      <3> QED
        BY <2>2, <3>1 DEF SlotAccounting, free_slot, TypeOK
    <2> QED
      BY <2>1, <2>2
  <1> QED
    BY <1>1, <1>2 DEF SlotAccounting

\* A step that changes no owner and no counter keeps the accounts.
LEMMA KeepSlots ==
    ASSUME SlotAccounting, Owners' = Owners, UNCHANGED <<active, per_user>>
    PROVE  SlotAccounting'
  BY DEF SlotAccounting, OwnersOf

\* The accounts balance after every step.
LEMMA SlotStep ==
    ASSUME TypeOK, QueueWellFormed, SlotAccounting, [Next]_vars
    PROVE  SlotAccounting'
  <1> USE GateAssumption DEF TypeOK, limits, Calls
  <1>1. ASSUME NEW i \in 1..Len(queue), DispatchAdmit(i) PROVE SlotAccounting'
    <2>1. queue[i] \in Waiters /\ Queued(queue[i])
      BY DEF Queued
    <2>2. queue[i] \notin Owners
      BY <2>1 DEF QueueWellFormed, Owners
    <2>3. Owners' = Owners \cup {queue[i]}
      BY <1>1, <2>1 DEF DispatchAdmit, Owners
    <2>4. take_slot(UserOfCall(queue[i]))
      BY <1>1, <2>1 DEF DispatchAdmit, UserOfCall
    <2> QED
      BY <2>1, <2>2, <2>3, <2>4, GainSlot
  <1>2. CASE DispatchDone
    BY <1>2, KeepSlots DEF DispatchDone, Owners
  <1>3. ASSUME NEW w \in Waiters, WaiterStep(w) PROVE SlotAccounting'
    <2>1. CASE EnterFast(w)
      <3>1. w \notin Owners
        BY <2>1 DEF EnterFast, QueueWellFormed, Owners
      <3>2. Owners' = Owners \cup {w}
        BY <2>1 DEF EnterFast, Owners
      <3>3. take_slot(UserOfCall(w))
        BY <2>1 DEF EnterFast, UserOfCall
      <3> QED
        BY <3>1, <3>2, <3>3, GainSlot
    <2>2. CASE EnterQueue(w)
      <3>1. Owners' = Owners
        BY <2>2 DEF EnterQueue, Owners
      <3> QED
        BY <2>2, <3>1, KeepSlots DEF EnterQueue
    <2>3. CASE Receive(w)
      <3>1. Owners' = Owners
        BY <2>3 DEF Receive, Owners
      <3> QED
        BY <2>3, <3>1, KeepSlots DEF Receive
    <2>4. CASE BoundElapses(w)
      <3>1. Owners' = Owners
        BY <2>4 DEF BoundElapses, Owners
      <3> QED
        BY <2>4, <3>1, KeepSlots DEF BoundElapses
    <2>5. CASE TimeoutLeave(w)
      <3>1. Owners' = Owners
        BY <2>5 DEF TimeoutLeave, Owners
      <3> QED
        BY <2>5, <3>1, KeepSlots DEF TimeoutLeave
    <2>6. CASE TimeoutBeaten(w)
      <3>1. Owners' = Owners
        BY <2>6 DEF TimeoutBeaten, Owners
      <3> QED
        BY <2>6, <3>1, KeepSlots DEF TimeoutBeaten
    <2>7. CASE CancelQueued(w)
      <3>1. Owners' = Owners
        BY <2>7 DEF CancelQueued, Owners
      <3> QED
        BY <2>7, <3>1, KeepSlots DEF CancelQueued
    <2>8. CASE CancelAdmitted(w)
      <3>1. w \in Owners /\ Owners' = Owners \ {w}
        BY <2>8 DEF CancelAdmitted, Owners
      <3>2. free_slot(UserOfCall(w))
        BY <2>8 DEF CancelAdmitted, UserOfCall
      <3> QED
        BY <3>1, <3>2, LoseSlot
    <2>9. CASE CancelClosed(w)
      <3>1. Owners' = Owners
        BY <2>9 DEF CancelClosed, Owners
      <3> QED
        BY <2>9, <3>1, KeepSlots DEF CancelClosed
    <2> QED
      BY <1>3, <2>1, <2>2, <2>3, <2>4, <2>5, <2>6, <2>7, <2>8, <2>9 DEF WaiterStep
  <1>4. ASSUME NEW t \in Tries, TryEnter(t) PROVE SlotAccounting'
    <2>1. t \notin Owners /\ t \notin Waiters
      BY <1>4 DEF TryEnter, Owners
    <2>2. Owners' = Owners \cup {t}
      BY <1>4 DEF TryEnter, Owners
    <2>3. take_slot(UserOfCall(t))
      BY <1>4, <2>1 DEF TryEnter, UserOfCall
    <2> QED
      BY <2>1, <2>2, <2>3, GainSlot
  <1>5. ASSUME NEW c \in Calls, Release(c) PROVE SlotAccounting'
    <2>1. c \in Owners
      BY <1>5 DEF Release, Owners
    <2>2. Owners' = Owners \ {c}
      BY <1>5 DEF Release, Owners, QueueWellFormed
    <2>3. free_slot(UserOfCall(c))
      BY <1>5 DEF Release, UserOfCall
    <2> QED
      BY <2>1, <2>2, <2>3, LoseSlot
  <1>6. ASSUME NEW n \in 0..(CapacityMax + 1), SetCapacity(n) PROVE SlotAccounting'
    BY <1>6, KeepSlots DEF SetCapacity, Owners
  <1>7. ASSUME NEW n \in 0..(PerUserMax + 1), SetPerUserActive(n) PROVE SlotAccounting'
    BY <1>7, KeepSlots DEF SetPerUserActive, Owners
  <1>8. CASE Close
    <2>1. Owners' = Owners
      BY <1>8 DEF Close, Owners, QueueWellFormed
    <2> QED
      BY <1>8, <2>1, KeepSlots DEF Close
  <1>9. CASE UNCHANGED vars
    BY <1>9, KeepSlots DEF vars, Owners
  <1> QED
    BY <1>1, <1>2, <1>3, <1>4, <1>5, <1>6, <1>7, <1>8, <1>9 DEF Next

-----------------------------------------------------------------------------
\* Taking a waiter out of the queue makes nobody eligible.
LEMMA RemovalKeepsWork ==
    ASSUME TypeOK, QueueWellFormed, WorkConserving, NEW i \in 1..Len(queue),
           queue' = RemoveAt(queue, i), lock = "free",
           UNCHANGED <<limits, active, per_user>>
    PROVE  WorkConserving'
  <1>1. ASSUME NEW j \in 1..Len(queue')
        PROVE  \E k \in 1..Len(queue) : queue'[j] = queue[k]
    <2>1. queue \in Seq(Waiters) /\ Len(queue) \in Nat
      BY DEF TypeOK
    <2>2. Len(queue') = Len(queue) - 1
      BY <2>1, RemoveAtFacts
    <2>3. \A k \in 1..(Len(queue) - 1) :
             queue'[k] = IF k < i THEN queue[k] ELSE queue[k + 1]
      BY <2>1, RemoveAtFacts, Zenon
    <2>4. j \in 1..(Len(queue) - 1) /\ j \in 1..Len(queue) /\ j + 1 \in 1..Len(queue)
      BY <2>1, <2>2
    <2>5. queue'[j] = queue[j] \/ queue'[j] = queue[j + 1]
      BY <2>3, <2>4
    <2> QED
      BY <2>4, <2>5, Zenon
  <1> QED
    BY <1>1 DEF WorkConserving, at_user_cap, limits

\* No step leaves a slot idle beside a waiter that may take it.
LEMMA WorkStep ==
    ASSUME TypeOK, QueueWellFormed, WorkConserving, [Next]_vars
    PROVE  WorkConserving'
  <1> USE DEF limits
  <1>1. ASSUME NEW i \in 1..Len(queue), DispatchAdmit(i) PROVE WorkConserving'
    BY <1>1 DEF DispatchAdmit, WorkConserving
  <1>2. CASE DispatchDone
    BY <1>2 DEF DispatchDone, WorkConserving, at_user_cap
  <1>3. ASSUME NEW w \in Waiters, WaiterStep(w) PROVE WorkConserving'
    <2>1. CASE EnterFast(w)
      BY <2>1 DEF EnterFast, FastPath, WorkConserving
    <2>2. CASE EnterQueue(w)
      BY <2>2 DEF EnterQueue, WorkConserving
    <2>3. CASE Receive(w)
      BY <2>3 DEF Receive, WorkConserving, at_user_cap
    <2>4. CASE BoundElapses(w)
      BY <2>4 DEF BoundElapses, WorkConserving, at_user_cap
    <2>5. CASE TimeoutLeave(w)
      BY <2>5, IndexOfFacts, RemovalKeepsWork DEF TimeoutLeave
    <2>6. CASE TimeoutBeaten(w)
      BY <2>6 DEF TimeoutBeaten, WorkConserving, at_user_cap
    <2>7. CASE CancelQueued(w)
      BY <2>7 DEF CancelQueued, WorkConserving
    <2>8. CASE CancelAdmitted(w)
      BY <2>8 DEF CancelAdmitted, WorkConserving
    <2>9. CASE CancelClosed(w)
      BY <2>9 DEF CancelClosed, WorkConserving, at_user_cap
    <2> QED
      BY <1>3, <2>1, <2>2, <2>3, <2>4, <2>5, <2>6, <2>7, <2>8, <2>9 DEF WaiterStep
  <1>4. ASSUME NEW t \in Tries, TryEnter(t) PROVE WorkConserving'
    BY <1>4 DEF TryEnter, WorkConserving
  <1>5. ASSUME NEW c \in Calls, Release(c) PROVE WorkConserving'
    BY <1>5 DEF Release, WorkConserving
  <1>6. ASSUME NEW n \in 0..(CapacityMax + 1), SetCapacity(n) PROVE WorkConserving'
    BY <1>6 DEF SetCapacity, WorkConserving
  <1>7. ASSUME NEW n \in 0..(PerUserMax + 1), SetPerUserActive(n) PROVE WorkConserving'
    BY <1>7 DEF SetPerUserActive, WorkConserving
  <1>8. CASE Close
    BY <1>8 DEF Close, WorkConserving
  <1>9. CASE UNCHANGED vars
    BY <1>9 DEF vars, WorkConserving, at_user_cap
  <1> QED
    BY <1>1, <1>2, <1>3, <1>4, <1>5, <1>6, <1>7, <1>8, <1>9 DEF Next

\* A new gate satisfies the inductive invariant.
LEMMA InitIInv == Init => IInv
  <1> SUFFICES ASSUME Init PROVE IInv
    OBVIOUS
  <1>1. TypeOK
    <2>1. <<>> \in Seq(Waiters)
      OBVIOUS
    <2> QED
      BY <2>1, GateAssumption DEF Init, TypeOK, Calls, NoPosition
  <1>2. QueueWellFormed
    BY GateAssumption DEF Init, QueueWellFormed, Queued, Calls
  <1>3. SlotAccounting
    <2>1. Owners = {} /\ \A u : OwnersOf(u) = {}
      BY DEF Init, Owners, OwnersOf
    <2> QED
      BY <2>1, FS_EmptySet DEF Init, SlotAccounting
  <1>4. WorkConserving
    BY DEF Init, WorkConserving
  <1> QED
    BY <1>1, <1>2, <1>3, <1>4 DEF IInv

-----------------------------------------------------------------------------
\* The inductive invariant holds in every reachable state of the gate.
THEOREM GateInvariant == Spec => []IInv
  <1>1. IInv /\ [Next]_vars => IInv'
    BY TypeStep, QueueStep, SlotStep, WorkStep DEF IInv
  <1> QED
    BY InitIInv, <1>1, PTL DEF Spec

\* Every reachable state of the gate is well typed: in particular clamping
\* keeps the capacity and the per-user cap in their ranges, whatever the
\* settings page asks for.
THEOREM TypeCorrect == Spec => []TypeOK
  BY GateInvariant, PTL DEF IInv

\* For any number of callers, users and slots: no interleaving of
\* dispatches, bounds, cancellations, closes and releases leaks a slot or
\* returns one twice.
THEOREM SlotsBalance == Spec => []SlotAccounting
  BY GateInvariant, PTL DEF IInv

\* No waiting task is stranded outside the queue without an outcome, and no
\* seat of a departed waiter stays in it.
THEOREM QueueShape == Spec => []QueueWellFormed
  BY GateInvariant, PTL DEF IInv

\* Outside the mutex no slot idles beside a waiter that may take it.
THEOREM NoIdleSlot == Spec => []WorkConserving
  BY GateInvariant, PTL DEF IInv

\* Every step respects the limits.
LEMMA AdmissionStep ==
    ASSUME TypeOK, [Next]_vars PROVE AdmissionWithinLimits
  <1> USE GateAssumption DEF TypeOK, limits, Calls, AdmissionWithinLimits
  <1>1. ASSUME NEW i \in 1..Len(queue), DispatchAdmit(i) PROVE AdmissionWithinLimits
    BY <1>1 DEF DispatchAdmit, take_slot
  <1>2. CASE DispatchDone
    BY <1>2 DEF DispatchDone
  <1>3. ASSUME NEW w \in Waiters, WaiterStep(w) PROVE AdmissionWithinLimits
    <2>1. CASE EnterFast(w)
      BY <2>1 DEF EnterFast, FastPath, take_slot
    <2>2. CASE CancelAdmitted(w)
      BY <2>2 DEF CancelAdmitted, free_slot, saturating_dec
    <2>3. CASE EnterQueue(w) \/ Receive(w) \/ BoundElapses(w)
      BY <2>3 DEF EnterQueue, Receive, BoundElapses
    <2>4. CASE TimeoutLeave(w) \/ TimeoutBeaten(w)
      BY <2>4 DEF TimeoutLeave, TimeoutBeaten
    <2>5. CASE CancelQueued(w) \/ CancelClosed(w)
      BY <2>5, SMTT(30) DEF CancelQueued, CancelClosed
    <2> QED
      BY <1>3, <2>1, <2>2, <2>3, <2>4, <2>5 DEF WaiterStep
  <1>4. ASSUME NEW t \in Tries, TryEnter(t) PROVE AdmissionWithinLimits
    BY <1>4 DEF TryEnter, take_slot
  <1>5. ASSUME NEW c \in Calls, Release(c) PROVE AdmissionWithinLimits
    BY <1>5 DEF Release, free_slot, saturating_dec
  <1>6. ASSUME NEW n \in 0..(CapacityMax + 1), SetCapacity(n) PROVE AdmissionWithinLimits
    BY <1>6 DEF SetCapacity
  <1>7. ASSUME NEW n \in 0..(PerUserMax + 1), SetPerUserActive(n)
        PROVE  AdmissionWithinLimits
    BY <1>7 DEF SetPerUserActive
  <1>8. CASE Close
    BY <1>8 DEF Close
  <1>9. CASE UNCHANGED vars
    BY <1>9 DEF vars
  <1> QED
    BY <1>1, <1>2, <1>3, <1>4, <1>5, <1>6, <1>7, <1>8, <1>9 DEF Next

\* No step of the gate admits above its capacity, also after a shrink, and
\* the try class never takes a slot while an interactive call is queued.
THEOREM AdmissionLimits == Spec => AdmissionRespectsLimits
  <1>1. TypeOK /\ [Next]_vars => [AdmissionWithinLimits]_vars
    BY AdmissionStep
  <1> QED
    BY TypeCorrect, <1>1, PTL DEF Spec, AdmissionRespectsLimits

-----------------------------------------------------------------------------
(* The gate implements Admission.                                          *)

\* The counters the code compares say what the specification says of the
\* set of owners.
LEMMA CountersTell ==
    ASSUME TypeOK, SlotAccounting
    PROVE  /\ Seen!Room <=> active < capacity
           /\ \A w \in Waiters : Seen!Capped(w) <=> at_user_cap(UserOf[w])
  <1>a. \A S : Seen!Cardinality(S) = Cardinality(S)
    BY DEF Seen!Cardinality, Cardinality
  <1>1. Seen!Room <=> active < capacity
    BY <1>a DEF SlotAccounting, Seen!Room
  <1>2. ASSUME NEW w \in Waiters PROVE Seen!Capped(w) <=> at_user_cap(UserOf[w])
    <2>1. {h \in Owners \cap Waiters : UserOf[h] = UserOf[w]} = OwnersOf(UserOf[w])
      BY DEF OwnersOf
    <2>2. UserOf[w] \in Users <=> UserOf[w] # NoUser
      BY GateAssumption
    <2> QED
      BY <1>a, <2>1, <2>2 DEF SlotAccounting, at_user_cap, Seen!Capped
  <1> QED
    BY <1>1, <1>2

\* A new gate is a new line.
LEMMA InitSeen == Init => Seen!Init
  BY GateAssumption DEF Init, Seen!Init, Seen!Places, Owners, Calls, NoPosition

\* What the call's own task does without the mutex is not seen.
LEMMA UnseenStep ==
    ASSUME Owners' = Owners, UNCHANGED <<queue, limits, lock, last_position>>
    PROVE  UNCHANGED Seen!vars
  BY DEF Seen!vars, limits

\* Every step of the gate is a step of the specification, or unseen.
LEMMA SeenStep ==
    ASSUME IInv, [Next]_vars PROVE [Seen!Next]_(Seen!vars)
  <1> USE GateAssumption DEF IInv, TypeOK, limits, Calls
  <1>a. /\ Seen!Room <=> active < capacity
        /\ \A w \in Waiters : Seen!Capped(w) <=> at_user_cap(UserOf[w])
    BY CountersTell
  <1>1. ASSUME NEW i \in 1..Len(queue), DispatchAdmit(i) PROVE Seen!Next
    <2>1. queue[i] \in Waiters /\ \A j \in 1..(i - 1) : queue[j] \in Waiters
      OBVIOUS
    <2>2. Owners' = Owners \cup {queue[i]}
      BY <1>1, <2>1 DEF DispatchAdmit, Owners
    <2>3. queue' = SubSeq(queue, 1, i - 1) \o SubSeq(queue, i + 1, Len(queue))
      BY <1>1 DEF DispatchAdmit, RemoveAt
    <2>4. Seen!Serve(i)
      BY <1>1, <1>a, <2>1, <2>2, <2>3 DEF DispatchAdmit, Seen!Serve
    <2> QED
      BY <2>4 DEF Seen!Next
  <1>2. CASE DispatchDone
    <2>1. Owners' = Owners
      BY <1>2 DEF DispatchDone, Owners
    <2>2. \A i \in 1..Len(queue) : queue[i] \in Waiters
      OBVIOUS
    <2>3. Seen!Settle
      BY <1>2, <1>a, <2>1, <2>2 DEF DispatchDone, Seen!Settle, Seen!Places, notify_positions, NoPosition
    <2> QED
      BY <2>3 DEF Seen!Next
  <1>3. ASSUME NEW w \in Waiters, WaiterStep(w) PROVE [Seen!Next]_(Seen!vars)
    <2>1. CASE EnterFast(w)
      <3>1. w \notin Owners
        BY <2>1 DEF EnterFast, QueueWellFormed, Owners
      <3>2. Owners' = Owners \cup {w}
        BY <2>1 DEF EnterFast, Owners
      <3>3. Seen!Admit(w)
        BY <2>1, <1>a, <3>1, <3>2 DEF EnterFast, FastPath, Seen!Admit
      <3> QED
        BY <3>3 DEF Seen!Next
    <2>2. CASE EnterQueue(w)
      <3>1. w \notin Owners /\ ~Queued(w)
        BY <2>2 DEF EnterQueue, QueueWellFormed, Owners
      <3>2. Owners' = Owners
        BY <2>2 DEF EnterQueue, Owners
      <3>3. Seen!Join(w)
        BY <2>2, <3>1, <3>2 DEF EnterQueue, Seen!Join, Seen!InLine, Seen!Untold, Queued, NoPosition
      <3> QED
        BY <3>3 DEF Seen!Next
    <2>3. CASE Receive(w)
      <3>1. Owners' = Owners
        BY <2>3 DEF Receive, Owners
      <3> QED
        BY <2>3, <3>1, UnseenStep DEF Receive
    <2>4. CASE BoundElapses(w)
      <3>1. Owners' = Owners
        BY <2>4 DEF BoundElapses, Owners
      <3> QED
        BY <2>4, <3>1, UnseenStep DEF BoundElapses
    <2>5. CASE TimeoutLeave(w) \/ CancelQueued(w)
      <3>1. Owners' = Owners
        BY <2>5 DEF TimeoutLeave, CancelQueued, Owners
      <3>2. IndexOf(w) \in 1..Len(queue)
        BY <2>5, IndexOfFacts DEF TimeoutLeave, CancelQueued
      <3>3. queue' = SubSeq(queue, 1, IndexOf(w) - 1) \o SubSeq(queue, IndexOf(w) + 1, Len(queue))
        BY <2>5 DEF TimeoutLeave, CancelQueued, RemoveAt
      <3>4. Seen!Leave(IndexOf(w))
        BY <2>5, <3>1, <3>3 DEF TimeoutLeave, CancelQueued, Seen!Leave, Seen!Places, Seen!Untold, notify_positions, NoPosition
      <3> QED
        BY <3>2, <3>4 DEF Seen!Next
    <2>6. CASE TimeoutBeaten(w)
      <3>1. Owners' = Owners
        BY <2>6 DEF TimeoutBeaten, Owners
      <3> QED
        BY <2>6, <3>1, UnseenStep DEF TimeoutBeaten
    <2>8. CASE CancelAdmitted(w)
      <3>1. w \in Owners
        BY <2>8 DEF CancelAdmitted, Owners
      <3>2. Owners' = Owners \ {w}
        BY <2>8 DEF CancelAdmitted, Owners
      <3>3. Seen!Return(w)
        BY <2>8, <3>1, <3>2 DEF CancelAdmitted, Seen!Return, Seen!Untold, NoPosition
      <3> QED
        BY <3>3 DEF Seen!Next
    <2>9. CASE CancelClosed(w)
      <3>1. Owners' = Owners
        BY <2>9 DEF CancelClosed, Owners
      <3> QED
        BY <2>9, <3>1, UnseenStep DEF CancelClosed
    <2> QED
      BY <1>3, <2>1, <2>2, <2>3, <2>4, <2>5, <2>6, <2>8, <2>9 DEF WaiterStep
  <1>4. ASSUME NEW t \in Tries, TryEnter(t) PROVE Seen!Next
    <2>1. t \notin Owners /\ t \notin Waiters
      BY <1>4 DEF TryEnter, Owners
    <2>2. Owners' = Owners \cup {t}
      BY <1>4 DEF TryEnter, Owners
    <2>3. Seen!Admit(t)
      BY <1>4, <1>a, <2>1, <2>2 DEF TryEnter, Seen!Admit
    <2> QED
      BY <2>3 DEF Seen!Next
  <1>5. ASSUME NEW c \in Calls, Release(c) PROVE Seen!Next
    <2>1. c \in Owners
      BY <1>5 DEF Release, Owners
    <2>2. Owners' = Owners \ {c}
      BY <1>5 DEF Release, Owners, QueueWellFormed
    <2>3. Seen!Return(c)
      BY <1>5, <2>1, <2>2 DEF Release, Seen!Return, Seen!Untold, NoPosition
    <2> QED
      BY <2>3 DEF Seen!Next
  <1>6. ASSUME NEW n \in 0..(CapacityMax + 1), NEW m \in 0..(PerUserMax + 1),
               SetCapacity(n) \/ SetPerUserActive(m)
        PROVE  Seen!Next
    <2>1. Owners' = Owners
      BY <1>6 DEF SetCapacity, SetPerUserActive, Owners
    <2>2. capacity' \in 1..CapacityMax /\ per_user_active' \in 1..PerUserMax
      BY <1>6 DEF SetCapacity, SetPerUserActive, clamp
    <2>3. Seen!SetLimits
      BY <1>6, <2>1, <2>2 DEF SetCapacity, SetPerUserActive, Seen!SetLimits, Seen!Untold, NoPosition
    <2> QED
      BY <2>3 DEF Seen!Next
  <1>8. CASE Close
    <2>1. Owners' = Owners
      BY <1>8 DEF Close, Owners, QueueWellFormed
    <2>2. Seen!Dismiss
      BY <1>8, <2>1 DEF Close, Seen!Dismiss, Seen!Places, notify_positions, NoPosition
    <2> QED
      BY <2>2 DEF Seen!Next
  <1>9. CASE UNCHANGED vars
    <2>1. Owners' = Owners
      BY <1>9 DEF vars, Owners
    <2> QED
      BY <1>9, <2>1, UnseenStep DEF vars
  <1>10. 0 \in 0..(CapacityMax + 1) /\ 0 \in 0..(PerUserMax + 1)
    OBVIOUS
  <1> QED
    BY <1>1, <1>2, <1>3, <1>4, <1>5, <1>6, <1>8, <1>9, <1>10 DEF Next

\* For any number of callers, users and slots, the gate with its counters,
\* channels and races implements the plain line of Admission.
THEOREM GateImplementsAdmission == Spec => ImplementsAdmission
  <1>1. IInv /\ [Next]_vars => [Seen!Next]_(Seen!vars)
    BY SeenStep
  <1> QED
    BY GateInvariant, InitSeen, <1>1, PTL DEF Spec, ImplementsAdmission, Seen!Spec

=============================================================================
