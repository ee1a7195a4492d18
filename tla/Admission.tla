----------------------------- MODULE Admission -----------------------------
(***************************************************************************)
(* What the LLM gate promises, with no counters, channels or polling: a    *)
(* set of calls holds slots, never more are added than capacity and the    *)
(* per-user cap allow, the others stand in line and are served in order    *)
(* (those whose user is at the cap are passed by), and nobody else is let  *)
(* in, or anything else done, while someone in line could be served.       *)
(* Everybody in line is told where it stands.                              *)
(***************************************************************************)
EXTENDS Integers, Sequences, FiniteSets

CONSTANTS Waiters, Tries, UserOf, NoUser, CapacityMax, PerUserMax

VARIABLES
    held,       \* the calls that hold a slot
    line,       \* the waiters, in order of arrival
    capacity,
    cap,        \* slots per user
    settled,    \* everybody in line who can be served has been
    told        \* the place in line each waiter knows of, once settled

vars == <<held, line, capacity, cap, settled, told>>

\* Counted from 0; -1 for who is not in line.
Places(q) ==
    [w \in Waiters |-> IF \E i \in 1 .. Len(q) : q[i] = w THEN (CHOOSE i \in 1 .. Len(q) : q[i] = w) - 1 ELSE -1]

Untold == [w \in Waiters |-> -1]

Capped(w) == UserOf[w] # NoUser /\ Cardinality({h \in held \cap Waiters : UserOf[h] = UserOf[w]}) >= cap
Room      == Cardinality(held) < capacity
InLine(w) == \E i \in 1 .. Len(line) : line[i] = w

Init ==
    /\ held = {} /\ line = <<>>
    /\ capacity \in 1 .. CapacityMax /\ cap \in 1 .. PerUserMax
    /\ settled = TRUE /\ told = Places(<<>>)

\* Served on arrival: nobody is in line.
Admit(c) ==
    /\ settled /\ c \notin held
    /\ line = <<>> /\ Room /\ (c \in Waiters => ~Capped(c))
    /\ held' = held \cup {c}
    /\ UNCHANGED <<line, capacity, cap, settled, told>>

Join(w) ==
    /\ settled /\ w \notin held /\ ~InLine(w)
    /\ line' = Append(line, w)
    /\ settled' = FALSE /\ told' = Untold
    /\ UNCHANGED <<held, capacity, cap>>

\* The first in line whose user is below the cap.
Serve(i) ==
    /\ ~settled /\ Room
    /\ ~Capped(line[i])
    /\ \A j \in 1 .. (i - 1) : Capped(line[j])
    /\ held' = held \cup {line[i]}
    /\ line' = SubSeq(line, 1, i - 1) \o SubSeq(line, i + 1, Len(line))
    /\ UNCHANGED <<capacity, cap, settled, told>>

Settle ==
    /\ ~settled
    /\ ~Room \/ \A i \in 1 .. Len(line) : Capped(line[i])
    /\ settled' = TRUE /\ told' = Places(line)
    /\ UNCHANGED <<held, line, capacity, cap>>

\* A waiter gives up, or all are sent away.
Leave(i) ==
    /\ settled
    /\ line' = SubSeq(line, 1, i - 1) \o SubSeq(line, i + 1, Len(line))
    /\ \/ settled' = TRUE /\ told' = Places(line')
       \/ settled' = FALSE /\ told' = Untold
    /\ UNCHANGED <<held, capacity, cap>>

Dismiss ==
    /\ settled
    /\ line' = <<>> /\ told' = Places(<<>>)
    /\ UNCHANGED <<held, capacity, cap, settled>>

Return(c) ==
    /\ settled /\ c \in held
    /\ held' = held \ {c}
    /\ settled' = FALSE /\ told' = Untold
    /\ UNCHANGED <<line, capacity, cap>>

SetLimits ==
    /\ settled
    /\ capacity' \in 1 .. CapacityMax /\ cap' \in 1 .. PerUserMax
    /\ settled' = FALSE /\ told' = Untold
    /\ UNCHANGED <<held, line>>

Next ==
    \/ \E c \in Waiters \cup Tries : Admit(c) \/ Return(c)
    \/ \E w \in Waiters : Join(w)
    \/ \E i \in 1 .. Len(line) : Serve(i) \/ Leave(i)
    \/ Settle \/ Dismiss \/ SetLimits

Spec == Init /\ [][Next]_vars
=============================================================================
