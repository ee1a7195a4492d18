-------------------------------- MODULE Dream --------------------------------
(***************************************************************************)
(* Dream maintenance: the scheduler's wakes and rotation, the shared       *)
(* per-scope pass and the corpus backfill (mycelium-web                    *)
(* dream_scheduler.rs), the backfill click and the dream request (api.rs), *)
(* and the two phases of a pass (mycelium-librarian dream.rs).             *)
(*                                                                         *)
(* The configuration rows, the backend's health and other holders of the   *)
(* LLM gate change at any time; a user's key may or may not be recovered,  *)
(* and a scope has whatever signals it is found to have.  A pass is in     *)
(* progress for the scheduler ("tick"), for a dream request ("api") or for *)
(* the walk of a backfill click.  A disconnect drops a handler at its      *)
(* await; a restart ends everything in memory.                             *)
(***************************************************************************)
EXTENDS Integers, Sequences, SequencesExt, FiniteSets

CONSTANTS
    Order,            \* the user scopes in id order, then the skills shelf
    Skills,
    Clicks,           \* backfill clicks; the walk a click launches has its name
    NoClick,
    MaxDreamEvents    \* bound: clicks, dream requests, new users, restarts, disconnects, faults

ASSUME DreamAssumption ==
    /\ IsInjective(Order) /\ Order # <<>> /\ Skills = Order[Len(Order)]
    /\ NoClick \notin Clicks
    /\ MaxDreamEvents \in Nat

VARIABLES
    present,    \* the scopes that exist
    enabled,    \* the lifecycle row can be read, and dreams are enabled
    llm,        \* the llm row is usable
    red,        \* the backend is Red
    gate,       \* the holders of the gate, which has one slot here
    cursor,     \* the scheduler's place in the rotation
    pass,       \* the pass of each runner
    running,    \* dream_backfill_running
    marker,     \* dream_backfill_at: the walk that wrote it, or NoClick
    click,      \* where each click's handler stands
    walk,       \* each walk: its place and the scopes left to it
    \* history
    latest,     \* the walk launched last
    kept,       \* a stale marker could not be deleted
    strikes     \* what MaxDreamEvents bounds

config == <<enabled, llm, red>>
fill   == <<running, marker, click, walk, latest, kept>>
dvars  == <<present, config, gate, cursor, pass, fill, strikes>>

Dreamers == {"tick", "api"} \cup Clicks
Idle == [at |-> "idle", scope |-> Skills, todo |-> {}, of |-> 1]

rotation == SelectSeq(Order, LAMBDA s : s \in present)

DreamInit ==
    /\ present \in {S \in SUBSET ToSet(Order) : Skills \in S}
    /\ enabled = TRUE /\ llm = FALSE /\ red = FALSE
    /\ gate = {}
    /\ cursor = 0
    /\ pass = [p \in Dreamers |-> Idle]
    /\ running = FALSE /\ marker = NoClick /\ latest = NoClick /\ kept = FALSE
    /\ click = [c \in Clicks |-> "new"]
    /\ walk = [c \in Clicks |-> [at |-> "none", todo |-> <<>>]]
    /\ strikes = 0

Strike == strikes < MaxDreamEvents /\ strikes' = strikes + 1
Calm   == UNCHANGED strikes

-----------------------------------------------------------------------------
(* What changes around the dreamers. *)

\* admin_save_lifecycle, a row that cannot be read; the llm row; the backend.
Weather ==
    /\ \/ enabled' = ~enabled /\ UNCHANGED <<llm, red>>
       \/ llm' = ~llm /\ UNCHANGED <<enabled, red>>
       \/ red' = ~red /\ UNCHANGED <<enabled, llm>>
    /\ Calm
    /\ UNCHANGED <<present, gate, cursor, pass, fill>>

\* Other work takes and leaves the slot.
OtherWork ==
    /\ gate' \in {{}, {"other"}} /\ gate \in {{}, {"other"}} /\ gate' # gate
    /\ Calm
    /\ UNCHANGED <<present, config, cursor, pass, fill>>

\* A user registers: its id falls anywhere in the rotation.
Register(s) ==
    /\ Strike
    /\ s \notin present
    /\ present' = present \cup {s}
    /\ UNCHANGED <<config, gate, cursor, pass, fill>>

-----------------------------------------------------------------------------
(* run_scope_pass, shared by the scheduler and the walks. *)

\* The pass of p ends with an outcome; its permit is dropped.
Ends(p, outcome) ==
    /\ pass' = [pass EXCEPT ![p] = [@ EXCEPT !.at = outcome, !.todo = {}]]
    /\ gate' = gate \ {p}

Attempted  == {"attempted", "unresolvable"}
Outcomes   == Attempted \cup {"red", "busy"}

CheckRed(p) ==
    /\ pass[p].at = "red?"
    /\ IF red THEN Ends(p, "red")
       ELSE pass' = [pass EXCEPT ![p].at = "resolve"] /\ UNCHANGED gate
    /\ Calm
    /\ UNCHANGED <<present, config, cursor, fill>>

\* Before admission: a key that cannot be recovered never holds a slot.
resolve_scope(p) ==
    /\ pass[p].at = "resolve"
    /\ \/ pass' = [pass EXCEPT ![p].at = "enter"] /\ UNCHANGED gate
       \/ pass[p].scope # Skills /\ Ends(p, "unresolvable")
    /\ Calm
    /\ UNCHANGED <<present, config, cursor, fill>>

\* Try class for the scheduler and the walks; a dream request waits, and may
\* give up at any time (the chat bound), which ends it like a refusal.
TryEnter(p) ==
    /\ pass[p].at = "enter"
    /\ \/ /\ gate = {}
          /\ gate' = {p}
          /\ pass' = [pass EXCEPT ![p].at = "dream", ![p].todo = {}]
       \/ gate # {} /\ Ends(p, "busy")
    /\ Calm
    /\ UNCHANGED <<present, config, cursor, fill>>

\* run_dream gathers the signals: none, no run.
gather_signals(p) ==
    /\ pass[p].at = "dream"
    /\ \/ Ends(p, "attempted")
       \/ \E phases \in SUBSET {"main", "cons"} \ {{}} :
             pass' = [pass EXCEPT ![p].at = "agent", ![p].todo = phases] /\ UNCHANGED gate
    /\ Calm
    /\ UNCHANGED <<present, config, cursor, fill>>

\* The main phase, then the consolidation phase, each if it has signals; an
\* error or a caught panic ends the pass.
run_dream(p) ==
    /\ pass[p].at = "agent"
    /\ LET phase == IF "main" \in pass[p].todo THEN "main" ELSE "cons"
           left == pass[p].todo \ {phase}
       IN \/ left = {} /\ Ends(p, "attempted")
          \/ left # {} /\ pass' = [pass EXCEPT ![p].todo = left] /\ UNCHANGED gate
          \/ Ends(p, "attempted")
    /\ Calm
    /\ UNCHANGED <<present, config, cursor, fill>>

run_scope_pass(p) ==
    CheckRed(p) \/ resolve_scope(p) \/ TryEnter(p) \/ gather_signals(p) \/ run_dream(p)

\* The pass remembers the length of the rotation it was started from.
Starts(p, s) == pass' = [pass EXCEPT ![p] = [at |-> "red?", scope |-> s, todo |-> {}, of |-> Len(rotation)]]

-----------------------------------------------------------------------------
(* The scheduler. *)

\* A wake that is not skipped starts the pass of the scope at the cursor.
tick ==
    /\ pass["tick"].at = "idle"
    /\ enabled /\ llm
    /\ Starts("tick", rotation[(cursor % Len(rotation)) + 1])
    /\ Calm
    /\ UNCHANGED <<present, config, gate, cursor, fill>>

advance_cursor == (cursor + 1) % pass["tick"].of

\* Mutant: a scope whose key cannot be recovered is retried at the next wake.
record_pass_retry ==
    /\ pass["tick"].at \in Outcomes
    /\ pass' = [pass EXCEPT !["tick"] = Idle]
    /\ cursor' = IF pass["tick"].at = "attempted" THEN advance_cursor ELSE cursor
    /\ Calm
    /\ UNCHANGED <<present, config, gate, fill>>

\* The accounting of a wake: an attempted pass moves the cursor on (and writes
\* the last-run readout), a deferred one leaves it.
record_pass ==
    /\ pass["tick"].at \in Outcomes
    /\ pass' = [pass EXCEPT !["tick"] = Idle]
    /\ cursor' = IF pass["tick"].at \in Attempted THEN advance_cursor ELSE cursor
    /\ Calm
    /\ UNCHANGED <<present, config, gate, fill>>

-----------------------------------------------------------------------------
(* A dream request of a user (api_dream). *)

api_dream ==
    /\ pass["api"].at = "idle"
    /\ \E s \in present \ {Skills} : pass' = [pass EXCEPT !["api"] = [Idle EXCEPT !.at = "enter", !.scope = s]]
    /\ Strike
    /\ UNCHANGED <<present, config, gate, cursor, fill>>

api_dream_responds ==
    /\ pass["api"].at \in Outcomes
    /\ pass' = [pass EXCEPT !["api"] = Idle]
    /\ Calm
    /\ UNCHANGED <<present, config, gate, cursor, fill>>

-----------------------------------------------------------------------------
(* The corpus backfill. *)

\* Mutant: no compare-and-swap.
claim_guard_blind(c) ==
    /\ click[c] = "new"
    /\ click' = [click EXCEPT ![c] = "delete"] /\ running' = TRUE
    /\ Strike
    /\ UNCHANGED <<present, config, gate, cursor, pass, marker, walk, latest, kept>>

\* The click claims the guard or is refused.
claim_guard(c) ==
    /\ click[c] = "new"
    /\ IF running THEN click' = [click EXCEPT ![c] = "end"] /\ UNCHANGED running
       ELSE click' = [click EXCEPT ![c] = "delete"] /\ running' = TRUE
    /\ Strike
    /\ UNCHANGED <<present, config, gate, cursor, pass, marker, walk, latest, kept>>

\* The stale marker goes (a failure is only warned of) and the walk is spawned.
post_admin_dream_backfill(c) ==
    /\ click[c] = "delete"
    /\ \/ marker' = NoClick /\ Calm /\ UNCHANGED kept
       \/ Strike /\ UNCHANGED marker /\ kept' = TRUE
    /\ click' = [click EXCEPT ![c] = "end"]
    /\ walk' = [walk EXCEPT ![c].at = "start"]
    /\ latest' = c
    /\ UNCHANGED <<present, config, gate, cursor, pass, running>>

\* No usable client, or no rotation: no marker.
run_backfill(c) ==
    /\ walk[c].at = "start"
    /\ \/ llm /\ walk' = [walk EXCEPT ![c] = [at |-> "walk", todo |-> rotation]] /\ Calm
       \/ ~llm /\ walk' = [walk EXCEPT ![c].at = "release"] /\ Calm
       \/ Strike /\ walk' = [walk EXCEPT ![c].at = "release"]
    /\ UNCHANGED <<present, config, gate, cursor, pass, running, marker, click, latest, kept>>

\* One pass per scope; a skipped one does not stop the walk.
walk_scope(c) ==
    /\ walk[c].at = "walk" /\ walk[c].todo # <<>>
    /\ \/ pass[c].at = "idle" /\ Starts(c, Head(walk[c].todo)) /\ UNCHANGED walk
       \/ /\ pass[c].at \in Outcomes
          /\ pass' = [pass EXCEPT ![c] = Idle]
          /\ walk' = [walk EXCEPT ![c].todo = Tail(@)]
    /\ Calm
    /\ UNCHANGED <<present, config, gate, cursor, running, marker, click, latest, kept>>

write_marker(c) ==
    /\ walk[c].at = "walk" /\ walk[c].todo = <<>>
    /\ walk' = [walk EXCEPT ![c].at = "release"]
    /\ \/ marker' = c /\ Calm
       \/ Strike /\ UNCHANGED marker
    /\ UNCHANGED <<present, config, gate, cursor, pass, running, click, latest, kept>>

\* Dropping the guard.
BackfillGuard(c) ==
    /\ walk[c].at = "release"
    /\ walk' = [walk EXCEPT ![c].at = "none"]
    /\ running' = FALSE
    /\ Calm
    /\ UNCHANGED <<present, config, gate, cursor, pass, marker, click, latest, kept>>

-----------------------------------------------------------------------------

DisconnectClick(c) ==
    /\ Strike
    /\ click[c] = "delete"
    /\ click' = [click EXCEPT ![c] = "end"]
    /\ UNCHANGED <<present, config, gate, cursor, pass, running, marker, walk, latest, kept>>

RestartDreams ==
    /\ Strike
    /\ gate' = {} /\ cursor' = 0 /\ running' = FALSE
    /\ pass' = [p \in Dreamers |-> Idle]
    /\ click' = [c \in Clicks |-> IF click[c] = "new" THEN "new" ELSE "end"]
    /\ walk' = [c \in Clicks |-> [at |-> "none", todo |-> <<>>]]
    /\ UNCHANGED <<present, config, marker, latest, kept>>

Scheduler == tick \/ run_scope_pass("tick") \/ record_pass
Request   == run_scope_pass("api") \/ api_dream_responds
Backfill(c) ==
    run_backfill(c) \/ walk_scope(c) \/ run_scope_pass(c) \/ write_marker(c) \/ BackfillGuard(c)

DreamNext ==
    \/ Weather \/ OtherWork
    \/ \E s \in ToSet(Order) : Register(s)
    \/ Scheduler \/ api_dream \/ Request
    \/ \E c \in Clicks : claim_guard(c) \/ post_admin_dream_backfill(c) \/ Backfill(c) \/ DisconnectClick(c)
    \/ RestartDreams

\* The interval fires, passes end (the LLM calls time out), and so do walks.
DreamFairness ==
    /\ WF_dvars(Scheduler) /\ WF_dvars(Request)
    /\ \A c \in Clicks : WF_dvars(Backfill(c))

-----------------------------------------------------------------------------
(* Properties. *)

\* post_admin_dream_backfill "a stale `complete` must not outlive a fresh trigger",
\* run_backfill "only a completed walk writes one": the marker /health reads is that
\* of the walk launched last, whatever clicks race and walks die, unless the click
\* could not delete the old one.
MarkerHonest == marker # NoClick /\ ~kept => marker = latest

\* Nothing keeps the scheduler from a pass.
Good == enabled /\ llm /\ ~red /\ gate \cap {"other"} = {}

\* The rotation is fair: once dreams are enabled, the backend answers and the gate
\* has room, every scope is attempted again and again, users with lost keys and
\* failing passes notwithstanding (the cursor moves on after any attempt).
EveryScopeDreamt ==
    <>[]Good => \A s \in ToSet(Order) : []<>(s \notin present \/ (pass["tick"].scope = s /\ pass["tick"].at \in Attempted))

=============================================================================
