------------------------------ MODULE ChatPage ------------------------------
(***************************************************************************)
(* A chat page and the streams it follows a turn on: chat.js (the CHAT_JS  *)
(* asset of assets.rs), the page's rendering (api.rs:load_active,          *)
(* pages.rs:chat_page), the stream endpoints (chat_api.rs) and what the    *)
(* runner persists and broadcasts (chat_runner.rs).                        *)
(*                                                                         *)
(* One session and one open page.  A transcript row is its role, its       *)
(* number its seq.  ChatTurns has the turns' own life with its races; here *)
(* only the newest turn is kept, and what the page can see of it.  Bubbles *)
(* and notes are the set of rows shown, the queue events and the draft's   *)
(* first event, which carry no row, are left out.                          *)
(*                                                                         *)
(* A trouble is a network drop, a refusal, a failed statement, a panic or  *)
(* a crash; MaxTroubles bounds them.                                       *)
(***************************************************************************)
EXTENDS Integers, Sequences

CONSTANTS
    Streams,                \* places for the requests a page has open at a time
    CHAT_CHANNEL_CAPACITY,  \* events a receiver may be behind
    REOPEN_MAX,             \* reopen attempts before the poll takes over
    MaxRows,                \* bound: transcript rows
    MaxAsks,                \* bound: messages sent, from this page or another
    MaxTroubles             \* bound: troubles

ASSUME ChatPageAssumption ==
    /\ Streams \subseteq Nat /\ CHAT_CHANNEL_CAPACITY \in Nat \ {0} /\ REOPEN_MAX \in Nat
    /\ MaxRows \in Nat /\ MaxAsks \in Nat /\ MaxTroubles \in Nat

VARIABLES
    transcript,  \* the rows' roles, by seq
    turn,        \* the newest turn: status, attempts, where a sweep puts it back
    channel,     \* the registry has an entry for it
    runner,      \* the runner of the turn
    late,        \* what an earlier run has left to do: its guard's row, its removal
    serving,     \* the process is up
    stream,      \* the page's requests
    tab,         \* the page
    poll,        \* its meta request
    \* history
    skipped,     \* rows the page's cursor was moved past without showing them
    quiet,       \* the guard's rows, which are not broadcast
    asks, troubles

server == <<transcript, turn, channel, runner, late, serving, quiet>>
client == <<tab, poll, skipped>>
pvars  == <<server, stream, client, asks, troubles>>

Roles    == {"user", "tool", "assistant", "error"}
Statuses == {"none", "running", "done", "failed", "interrupted", "waiting_backend"}

\* Row n is behind every row of the user: behind the newest turn's user_seq.
after_user_seq(n) == \A k \in DOMAIN transcript : transcript[k] = "user" => k < n

\* The newest turn can be resumed (session_meta's turn_resumable).
turn_resumable ==
    turn.status = "waiting_backend" \/ (turn.status = "interrupted" /\ turn.attempts = 0)

\* The rows a stream replays, in the order of their seq; user rows never do.
messages_after(cursor) == {n \in DOMAIN transcript : n > cursor /\ transcript[n] # "user"}

Trouble == troubles < MaxTroubles /\ troubles' = troubles + 1

-----------------------------------------------------------------------------
(* The registry.  A receiver belongs to the channel it was made from.       *)

\* A stream without a live tail.
Detached == [on |-> FALSE, buffer |-> << >>, lagged |-> FALSE]

\* A request the page has not made.
Unasked == [kind |-> "none", at |-> "idle", cursor |-> 0, replay |-> {}, rx |-> Detached, saw |-> FALSE]

\* A receiver that is a whole channel behind loses its oldest event.
Received(rx, n) ==
    CASE ~rx.on -> rx
      [] rx.on /\ Len(rx.buffer) = CHAT_CHANNEL_CAPACITY ->
            [rx EXCEPT !.buffer = Append(Tail(@), n), !.lagged = TRUE]
      [] OTHER -> [rx EXCEPT !.buffer = Append(@, n)]

send_broadcast(n) ==
    stream' = IF channel THEN [s \in Streams |-> [stream[s] EXCEPT !.rx = Received(@, n)]] ELSE stream

\* Removing or replacing the entry drops its sender: the receivers are closed.
Closing(requests) == [s \in Streams |-> [requests[s] EXCEPT !.rx.on = FALSE]]

register(requests) == channel' = TRUE /\ stream' = Closing(requests)

remove(requests) == channel' = FALSE /\ stream' = Closing(requests)

subscribe == [Detached EXCEPT !.on = channel]

-----------------------------------------------------------------------------
(* The runner: each event is a row first, then a broadcast.                 *)

NoRun == [at |-> "off", row |-> 0, verdict |-> "none", resumed |-> FALSE]

RunOnly == UNCHANGED <<late, serving, client, asks>>

\* What a run that has given its verdict still does when the next one starts.
Leftover == CASE runner.at = "guard row" -> {"row", "remove"}
              [] runner.at = "remove"    -> {"remove"}
              [] OTHER                   -> {}

\* spawn_chat_run: the entry exists before the task.
spawn_chat_run(resumed, requests) ==
    /\ register(requests)
    /\ runner' = [NoRun EXCEPT !.at = "agent", !.resumed = resumed]

\* An event's row is written and waits for its broadcast, or the write failed
\* and nothing is broadcast.  What follows is the next event or the verdict.
AppendRow(role, verdict) ==
    /\ \/ /\ Len(transcript) < MaxRows
          /\ transcript' = Append(transcript, role)
          /\ runner' = [runner EXCEPT !.at = "broadcast", !.row = Len(transcript) + 1, !.verdict = verdict]
          /\ UNCHANGED troubles
       \/ /\ Trouble /\ UNCHANGED transcript
          /\ runner' = [runner EXCEPT !.at = IF verdict = "none" THEN "agent" ELSE "finalize", !.verdict = verdict]
    /\ UNCHANGED <<turn, channel, stream, quiet>> /\ RunOnly

\* The verdict of a run that failed without its own event, or died.
PathVerdict == IF runner.resumed THEN "interrupted" ELSE "failed"

emit_event ==
    /\ runner.at = "agent"
    /\ \/ AppendRow("tool", "none")
       \/ AppendRow("assistant", "done")
       \/ AppendRow("error", "failed")

\* finish_turn's own error row: no slot, an unreadable transcript, the LLM failed.
finish_with_error_row ==
    /\ runner.at = "agent"
    /\ \E v \in {"failed", PathVerdict} : AppendRow("error", v)

\* The transcript is never behind the stream.
Broadcast ==
    /\ runner.at = "broadcast"
    /\ send_broadcast(runner.row)
    /\ runner' = [runner EXCEPT !.row = 0, !.at = IF runner.verdict = "none" THEN "agent" ELSE "finalize"]
    /\ UNCHANGED <<transcript, turn, channel, quiet, troubles>> /\ RunOnly

\* The status changes only from running; the statement may fail.
finalize_turn ==
    /\ runner.at = "finalize"
    /\ \/ turn' = [turn EXCEPT !.status = IF @ = "running" THEN runner.verdict ELSE @] /\ UNCHANGED troubles
       \/ Trouble /\ UNCHANGED turn
    /\ runner' = [runner EXCEPT !.at = "remove"]
    /\ UNCHANGED <<transcript, channel, stream, quiet>> /\ RunOnly

park_turn ==
    /\ runner.at = "agent"
    /\ turn' = [turn EXCEPT !.status = IF @ = "running" THEN "waiting_backend" ELSE @]
    /\ runner' = [runner EXCEPT !.at = "remove"]
    /\ UNCHANGED <<transcript, channel, stream, quiet, troubles>> /\ RunOnly

\* The gate closes at shutdown: interrupted, without a row.
gate_closed ==
    /\ runner.at = "agent" /\ Trouble
    /\ runner' = [runner EXCEPT !.at = "finalize", !.verdict = "interrupted"]
    /\ UNCHANGED <<transcript, turn, channel, stream, quiet>> /\ RunOnly

unregister ==
    /\ runner.at = "remove"
    /\ remove(stream) /\ runner' = NoRun
    /\ UNCHANGED <<transcript, turn, quiet, troubles>> /\ RunOnly

\* The run dies with its entry still there.
Panic ==
    /\ runner.at \in {"agent", "broadcast", "finalize"} /\ Trouble
    /\ runner' = [runner EXCEPT !.at = "guard", !.row = 0, !.verdict = PathVerdict]
    /\ UNCHANGED <<transcript, turn, channel, stream, quiet>> /\ RunOnly

\* The drop guard: the verdict, then an error row nobody is told of, then the entry.
guard_drop ==
    /\ runner.at \in {"guard", "guard row"}
    /\ IF runner.at = "guard"
       THEN /\ turn' = [turn EXCEPT !.status = IF @ = "running" THEN runner.verdict ELSE @]
            /\ runner' = [runner EXCEPT !.at = "guard row"]
            /\ UNCHANGED <<transcript, quiet>>
       ELSE /\ Len(transcript) < MaxRows
            /\ transcript' = Append(transcript, "error") /\ quiet' = quiet \cup {Len(transcript) + 1}
            /\ runner' = [runner EXCEPT !.at = "remove"]
            /\ UNCHANGED turn
    /\ UNCHANGED <<channel, stream, troubles>> /\ RunOnly

\* An earlier run of the turn ends beside its successor, whose entry its
\* removal takes.
late_row ==
    /\ "row" \in late /\ Len(transcript) < MaxRows
    /\ transcript' = Append(transcript, "error") /\ quiet' = quiet \cup {Len(transcript) + 1}
    /\ late' = late \ {"row"}
    /\ UNCHANGED <<turn, channel, runner, serving, stream, client, asks, troubles>>

late_remove ==
    /\ "remove" \in late /\ "row" \notin late
    /\ remove(stream) /\ late' = {}
    /\ UNCHANGED <<transcript, turn, runner, serving, quiet, client, asks, troubles>>

RunnerStep ==
    \/ late_row \/ late_remove
    \/ emit_event \/ finish_with_error_row \/ Broadcast \/ finalize_turn \/ park_turn
    \/ gate_closed \/ unregister \/ Panic \/ guard_drop

-----------------------------------------------------------------------------
(* The turn between its runs, and the process.                              *)

\* create_turn: the new message replaces what was asked before.
create_turn ==
    /\ turn.status # "running" /\ Len(transcript) < MaxRows
    /\ transcript' = Append(transcript, "user")
    /\ turn' = [status |-> "running", attempts |-> 0, park |-> "interrupted"]

\* Another page of the user submits a message.
AskElsewhere ==
    /\ serving /\ asks < MaxAsks /\ asks' = asks + 1
    /\ create_turn /\ spawn_chat_run(FALSE, stream)
    /\ late' = (late \cup Leftover) \ {"remove"}
    /\ UNCHANGED <<serving, quiet, client, troubles>>

\* The resume worker claims the turn, and spawns its run a little later.
Claim ==
    /\ serving /\ turn_resumable
    /\ late' = late \cup Leftover
    /\ turn' = [turn EXCEPT !.status = "running", !.park = turn.status,
                            !.attempts = IF turn.status = "interrupted" THEN 1 ELSE @]
    /\ runner' = [NoRun EXCEPT !.at = "claimed"]
    /\ UNCHANGED <<transcript, channel, serving, quiet, stream, client, asks, troubles>>

ResumeSpawn ==
    /\ runner.at = "claimed" /\ spawn_chat_run(TRUE, stream)
    /\ UNCHANGED <<transcript, turn, late, serving, quiet, client, asks, troubles>>

\* The process dies: runs and channels with it; the page's requests break.
ProcessDies ==
    /\ serving /\ Trouble /\ serving' = FALSE /\ late' = {}
    /\ runner' = NoRun /\ channel' = FALSE
    /\ stream' = [s \in Streams |-> IF stream[s].at \in {"idle", "end", "refused"} THEN stream[s]
                                   ELSE [stream[s] EXCEPT !.at = "broken"]]
    /\ poll' = IF poll.at = "idle" THEN poll ELSE [poll EXCEPT !.at = "broken"]
    /\ UNCHANGED <<transcript, turn, quiet, tab, skipped, asks>>

\* The boot sweep puts a running turn back where it was claimed from.
ProcessBoots ==
    /\ ~serving /\ serving' = TRUE
    /\ turn' = [turn EXCEPT !.status = IF @ = "running" THEN turn.park ELSE @]
    /\ UNCHANGED <<transcript, channel, runner, late, quiet, stream, client, asks, troubles>>

-----------------------------------------------------------------------------
(* The endpoints. *)

StreamOnly == UNCHANGED <<serving, quiet, client, troubles>>

\* submit_turn: the turn row, and after the visibility lookup the run.  A
\* running turn is a conflict, which the page is told.
submit_turn(s) ==
    /\ stream[s].kind = "submit"
    /\ \/ /\ stream[s].at = "asked" /\ create_turn
          /\ remove([stream EXCEPT ![s].at = "spawn", ![s].cursor = Len(transcript) + 1])
          /\ late' = (late \cup Leftover) \ {"remove"} /\ runner' = NoRun
       \/ /\ stream[s].at = "spawn" /\ UNCHANGED late
          /\ spawn_chat_run(FALSE, [stream EXCEPT ![s].at = "subscribe"])
          /\ UNCHANGED <<transcript, turn>>
       \/ /\ stream[s].at = "asked" /\ turn.status = "running"
          /\ stream' = [stream EXCEPT ![s].at = "refused"]
          /\ UNCHANGED <<transcript, turn, channel, runner, late>>
    /\ UNCHANGED asks /\ StreamOnly

\* api_chat_reattach: a running turn is looked up; without one there is no
\* live tail.
api_chat_reattach(s) ==
    /\ stream[s].kind # "submit" /\ stream[s].at = "asked"
    /\ stream' = [stream EXCEPT ![s].at = IF turn.status = "running" THEN "subscribe" ELSE "snapshot"]
    /\ UNCHANGED <<transcript, turn, channel, runner, late, asks>> /\ StreamOnly

\* chat_stream_response: subscribe, then read the rows after the cursor; the
\* body then yields the rows and the live events.
chat_stream_response(s) ==
    /\ \/ /\ stream[s].at = "subscribe"
          /\ stream' = [stream EXCEPT ![s].rx = subscribe, ![s].at = "snapshot"]
       \/ /\ stream[s].at = "snapshot"
          /\ stream' = [stream EXCEPT ![s].replay = messages_after(stream[s].cursor), ![s].at = "flow"]
    /\ UNCHANGED <<transcript, turn, channel, runner, late, asks>> /\ StreamOnly

\* session_meta reads the newest turn and then the newest seq.
session_meta ==
    /\ serving
    /\ \/ poll.at = "asked" /\ poll' = [poll EXCEPT !.at = "turn", !.status = turn.status, !.resumable = turn_resumable]
       \/ poll.at = "turn" /\ poll' = [poll EXCEPT !.at = "answer", !.max_seq = Len(transcript)]
    /\ UNCHANGED <<server, stream, tab, skipped, asks, troubles>>

-----------------------------------------------------------------------------
(* The page.  `seen` has the rows its streams brought, `shown` also the     *)
(* ones it was rendered with; `note` is the promise to resume.              *)

NoTab == [at |-> "none", lastSeq |-> 0, status |-> "none", seen |-> {}, shown |-> {}, busy |-> FALSE,
          reopenAttempts |-> 0, reopenTimer |-> FALSE, polling |-> FALSE, note |-> FALSE]

NoPoll == [at |-> "idle", cursor |-> 0, status |-> "none", resumable |-> FALSE, max_seq |-> 0]

PageOnly == UNCHANGED <<server, asks>>

\* A request takes the first place that is free.
Free == {s \in Streams : stream[s] = Unasked}
Request(kind, cursor) ==
    \E s \in Free :
        /\ \A f \in Free : s <= f
        /\ stream' = [stream EXCEPT ![s] = [Unasked EXCEPT !.kind = kind, !.at = "asked", !.cursor = cursor]]

AgentRows(lo, hi) == {n \in lo + 1 .. hi : n \in DOMAIN transcript /\ transcript[n] # "user"}

\* load_active reads the session's meta, a statement at a time, and then the
\* rows.  The script starts with what the page was rendered with: a running
\* turn is reattached, an interrupted one polled for.
load_active ==
    /\ serving /\ UNCHANGED <<poll, skipped, troubles>> /\ PageOnly
    /\ \/ /\ tab.at = "none"
          /\ tab' = [tab EXCEPT !.at = "turn", !.status = turn.status, !.note = turn_resumable]
          /\ UNCHANGED stream
       \/ /\ tab.at = "turn"
          /\ tab' = [tab EXCEPT !.at = "max_seq", !.lastSeq = Len(transcript)]
          /\ UNCHANGED stream
       \/ /\ tab.at = "max_seq"
          /\ tab' = [tab EXCEPT !.at = "open", !.status = "none",
                                !.shown = AgentRows(0, Len(transcript)),
                                !.busy = tab.status = "running", !.polling = tab.status = "interrupted"]
          /\ IF tab.status = "running" THEN Request("tail", tab.lastSeq)
                                       ELSE UNCHANGED stream

\* send: refused while the page is busy.  The poll's request, if one is under
\* way, is not called back.
send ==
    /\ tab.at = "open" /\ ~tab.busy /\ asks < MaxAsks /\ asks' = asks + 1
    /\ tab' = [tab EXCEPT !.busy = TRUE, !.polling = FALSE, !.reopenTimer = FALSE, !.reopenAttempts = 0]
    /\ Request("submit", 0)
    /\ UNCHANGED <<server, poll, skipped, troubles>>

\* handleEvent drops what was seen.  A live reply or an error releases the
\* composer; a replayed reply only marks the stream.
handleEvent(s, n, replayed) ==
    IF n \in tab.seen THEN UNCHANGED tab
    ELSE tab' = [tab EXCEPT !.seen = @ \cup {n}, !.shown = @ \cup {n},
                            !.lastSeq = IF n > @ THEN n ELSE @,
                            !.busy = @ /\ transcript[n] # "error"
                                       /\ ~(transcript[n] = "assistant" /\ ~replayed)]

Terminal(n) == transcript[n] \in {"assistant", "error"}

Marks(s, n, replayed) ==
    stream[s].saw \/ (n \notin tab.seen /\ (transcript[n] = "error" \/ (transcript[n] = "assistant" /\ replayed)))

\* The rows first, then the live events; the stream ends after a live
\* terminal event, when the receiver lagged, or when the channel is closed.
Deliver(s) ==
    /\ stream[s].at = "flow"
    /\ LET x == stream[s] IN
       \/ \E n \in x.replay :
             /\ \A m \in x.replay : n <= m
             /\ handleEvent(s, n, TRUE)
             /\ stream' = [stream EXCEPT ![s].replay = @ \ {n}, ![s].saw = Marks(s, n, TRUE)]
       \/ /\ x.replay = {} /\ ~x.rx.lagged /\ x.rx.buffer # << >>
          /\ handleEvent(s, Head(x.rx.buffer), FALSE)
          /\ stream' = [stream EXCEPT ![s].rx.buffer = Tail(@), ![s].saw = Marks(s, Head(x.rx.buffer), FALSE),
                                      ![s].at = IF Terminal(Head(x.rx.buffer)) THEN "end" ELSE "flow"]
       \/ /\ x.replay = {} /\ (x.rx.lagged \/ (x.rx.buffer = << >> /\ ~x.rx.on))
          /\ stream' = [stream EXCEPT ![s].at = "end"] /\ UNCHANGED tab
    /\ UNCHANGED <<poll, skipped, troubles>> /\ PageOnly

\* scheduleReopen: one chain at a time, and then the poll takes over.
scheduleReopen(t) ==
    IF t.reopenTimer THEN t
    ELSE IF t.reopenAttempts >= REOPEN_MAX THEN [t EXCEPT !.polling = TRUE]
    ELSE [t EXCEPT !.reopenAttempts = @ + 1, !.reopenTimer = TRUE]

\* A stream that ends while the page is busy, with no terminal row replayed,
\* is a drop.
onStreamEnd(saw) ==
    tab' = IF ~tab.busy THEN tab
           ELSE IF saw THEN [tab EXCEPT !.busy = FALSE] ELSE scheduleReopen(tab)

\* The end of a stream, by what it was opened for: a submit or a tail, the
\* replay after a verdict, the replay of a spent turn.
StreamEnd(s) ==
    /\ stream[s].at = "end"
    /\ CASE stream[s].kind \in {"submit", "tail"} -> onStreamEnd(stream[s].saw)
         [] stream[s].kind = "final" -> tab' = [tab EXCEPT !.busy = FALSE, !.note = FALSE]
         [] OTHER -> UNCHANGED tab
    /\ stream' = [stream EXCEPT ![s] = Unasked]
    /\ UNCHANGED <<poll, skipped, troubles>> /\ PageOnly

\* A connection breaks.
Drop(s) ==
    /\ stream[s].at \notin {"idle", "broken", "end", "refused"} /\ Trouble
    /\ stream' = [stream EXCEPT ![s].at = "broken"]
    /\ UNCHANGED client /\ PageOnly

\* A submit that breaks or is refused shows its error and releases the
\* composer; a tail that breaks is reopened, and one that is refused is not; a
\* replay is not made again.
StreamBroken(s) ==
    /\ stream[s].at \in {"broken", "refused"}
    /\ CASE stream[s].kind = "submit" -> tab' = [tab EXCEPT !.busy = FALSE]
         [] stream[s].kind = "tail" ->
              IF stream[s].at = "refused" THEN tab' = [tab EXCEPT !.busy = FALSE] ELSE onStreamEnd(FALSE)
         [] stream[s].kind = "final" -> tab' = [tab EXCEPT !.busy = FALSE, !.note = FALSE]
         [] OTHER -> UNCHANGED tab
    /\ skipped' = IF stream[s].kind \in {"final", "spent"}
                  THEN skipped \cup (AgentRows(stream[s].cursor, tab.lastSeq) \ tab.shown) ELSE skipped
    /\ stream' = [stream EXCEPT ![s] = Unasked]
    /\ UNCHANGED <<poll, troubles>> /\ PageOnly

\* A stream request that is answered with an error, or finds no server.
Refuse(s) ==
    /\ stream[s].at = "asked"
    /\ \/ serving /\ Trouble /\ stream' = [stream EXCEPT ![s].at = "refused"]
       \/ ~serving /\ stream' = [stream EXCEPT ![s].at = "broken"] /\ UNCHANGED troubles
    /\ UNCHANGED client /\ PageOnly

\* openStream, when the timer fires.
openStream ==
    /\ tab.reopenTimer
    /\ Request("tail", tab.lastSeq)
    /\ tab' = [tab EXCEPT !.reopenTimer = FALSE]
    /\ UNCHANGED <<poll, skipped, troubles>> /\ PageOnly

-----------------------------------------------------------------------------
(* The liveness poll. *)

\* The cursor is captured before the answer refreshes it.
pollMeta ==
    /\ tab.polling /\ poll.at = "idle"
    /\ poll' = [NoPoll EXCEPT !.at = "asked", !.cursor = tab.lastSeq]
    /\ UNCHANGED <<stream, tab, skipped, troubles>> /\ PageOnly

\* Mutant: the replay starts from the refreshed cursor.
replay_cursor_refreshed == IF poll.max_seq > tab.lastSeq THEN poll.max_seq ELSE tab.lastSeq

\* The cursor of the replay that collects what the page missed.
replay_cursor == poll.cursor

Refreshed == [tab EXCEPT !.lastSeq = IF poll.max_seq > @ THEN poll.max_seq ELSE @]

\* A running turn is reattached, from the refreshed cursor; a verdict is
\* collected and settles the page; a spent interruption is collected, or the
\* page is released when there is nothing to collect; otherwise it polls on.
PollAnswer ==
    /\ poll.at = "answer" /\ poll' = NoPoll
    /\ \/ /\ poll.status = "running"
          /\ tab' = [Refreshed EXCEPT !.polling = FALSE, !.reopenAttempts = 0, !.busy = TRUE, !.note = FALSE]
          /\ Request("tail", tab'.lastSeq)
          /\ skipped' = skipped \cup (AgentRows(tab.lastSeq, tab'.lastSeq) \ tab.shown)
       \/ /\ poll.status \in {"done", "failed"}
          /\ tab' = [Refreshed EXCEPT !.polling = FALSE]
          /\ Request("final", replay_cursor)
          /\ UNCHANGED skipped
       \/ /\ poll.status = "interrupted" /\ ~poll.resumable
          /\ IF poll.max_seq > poll.cursor
             THEN /\ tab' = [Refreshed EXCEPT !.polling = FALSE]
                  /\ Request("spent", replay_cursor)
             ELSE /\ tab' = [Refreshed EXCEPT !.polling = FALSE, !.busy = FALSE]
                  /\ UNCHANGED stream
          /\ UNCHANGED skipped
       \/ /\ poll.status \in {"waiting_backend", "none"} \/ poll.resumable
          /\ tab' = Refreshed
          /\ skipped' = skipped \cup (AgentRows(tab.lastSeq, tab'.lastSeq) \ tab.shown)
          /\ UNCHANGED stream
    /\ UNCHANGED troubles /\ PageOnly

\* A poll that fails is made again; one that finds the session gone is the last.
PollFails ==
    /\ \/ poll.at = "broken" /\ UNCHANGED <<tab, troubles>>
       \/ poll.at \in {"asked", "turn", "answer"} /\ Trouble
          /\ tab' \in {tab, [tab EXCEPT !.polling = FALSE, !.busy = FALSE]}
       \/ poll.at = "asked" /\ ~serving /\ UNCHANGED <<tab, troubles>>
    /\ poll' = NoPoll
    /\ UNCHANGED <<stream, skipped>> /\ PageOnly

-----------------------------------------------------------------------------
\* With as many messages and troubles spent.
PageInit(asked, had) ==
    /\ transcript = << >> /\ turn = [status |-> "none", attempts |-> 0, park |-> "interrupted"]
    /\ channel = FALSE /\ runner = NoRun /\ late = {} /\ serving = TRUE
    /\ stream = [s \in Streams |-> Unasked] /\ tab = NoTab /\ poll = NoPoll
    /\ skipped = {} /\ quiet = {} /\ asks = asked /\ troubles = had

StreamStep(s) ==
    \/ submit_turn(s) \/ api_chat_reattach(s) \/ chat_stream_response(s)
    \/ Deliver(s) \/ StreamEnd(s) \/ Drop(s) \/ StreamBroken(s) \/ Refuse(s)

PageNext ==
    \/ RunnerStep \/ AskElsewhere \/ Claim \/ ResumeSpawn \/ ProcessDies \/ ProcessBoots
    \/ load_active \/ send \/ openStream \/ session_meta \/ pollMeta \/ PollAnswer \/ PollFails
    \/ \E s \in Streams : StreamStep(s)

-----------------------------------------------------------------------------
\* A row of the turn below the page's cursor is on the page: whatever is
\* persisted between a rendering, a subscription and a snapshot, whatever
\* drops, lags or is reopened, the cursor passes no row the page does not have
\* (chat_stream_response: "Nothing is lost either way"; chat.js: the seq gate,
\* the reopen cursor, the poll's captured cursor).  Rows a replay under way is
\* to bring are on their way; the cursor the poll refreshes while the turn is
\* not over, a replay that broke, and the drop guard's row are excepted.
NoRowSkipped ==
    tab.at = "open" =>
        \A n \in AgentRows(0, tab.lastSeq) : after_user_seq(n) =>
            \/ n \in tab.shown \cup skipped \cup quiet
            \/ \E s \in Streams : stream[s].kind \in {"final", "spent"} /\ stream[s].cursor < n

\* The comment at the waiting note of chat_page: "the meta poll's
\* turn_resumable: true keeps the page live until then".  A page that promises
\* that a turn will resume is polling or streaming while the turn can.
KeptLive ==
    (tab.at = "open" /\ tab.note /\ turn_resumable) =>
        \/ tab.polling \/ tab.reopenTimer \/ poll.at # "idle"
        \/ \E s \in Streams : stream[s] # Unasked
=============================================================================
