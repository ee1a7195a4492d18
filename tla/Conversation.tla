---------------------------- MODULE Conversation ----------------------------
(***************************************************************************)
(* The context-budget pass of mycelium-librarian llm.rs: before a request  *)
(* is sent, chat_with_tools drops whole conversational units from the      *)
(* front until the estimated prompt fits the budget.                       *)
(*                                                                         *)
(* A turn is its kind, the tool calls it makes or answers and its length   *)
(* in bytes; the text itself is left out.                                  *)
(***************************************************************************)
EXTENDS Integers, Sequences, SequencesExt, FiniteSetsExt

CONSTANTS
    ContextBudget,   \* CONTEXT_TOKENS_BUDGET
    ResultCap,       \* MAX_TOOL_RESULT_CHARS
    MarkerBytes      \* the length of TOOL_RESULT_TRUNCATION_MARKER

ASSUME BudgetAssumption == {ContextBudget, ResultCap, MarkerBytes} \subseteq Nat

turn_bytes(turns) == FoldSeq(LAMBDA t, n : t.size + n, 0, turns)

est_tokens(bytes) == bytes \div 4

\* The position after the unit that starts at `start`.
unit_end(turns, start) ==
    LET After == {e \in start + 1 .. Len(turns) : turns[e].kind # "result"}
    IN  CASE turns[start].kind = "user" /\ start < Len(turns) /\ turns[start + 1].kind = "assistant"
               -> start + 2
          [] turns[start].kind = "calls" -> Min(After \cup {Len(turns) + 1})
          [] OTHER -> start + 1

\* The positions where units start.  Only a user turn or a call begins a unit
\* longer than itself, and neither is ever inside another's: a position starts
\* one unless that of an earlier user turn or call runs past it.
UnitStarts(turns) ==
    {i \in 1 .. Len(turns) :
        \A j \in 1 .. i - 1 : turns[j].kind \in {"user", "calls"} => unit_end(turns, j) <= i}

\* The mutant forgets the unit that holds the question.
droppable_any(turns) == UnitStarts(turns)

\* Where what is kept may start: at a unit, and not after the last one that
\* holds a user turn.
droppable(turns) ==
    LET users == {s \in UnitStarts(turns) :
                    \E i \in s .. unit_end(turns, s) - 1 : turns[i].kind = "user"}
    IN  {s \in UnitStarts(turns) : users = {} \/ s <= Max(users)}

\* The longest of them that fits the budget, or the shortest.
trim_conversation(turns) ==
    LET from    == droppable(turns)
        Kept(s) == SubSeq(turns, s, Len(turns))
    IN  IF turns = <<>> THEN <<>>
        ELSE Kept(Min({s \in from :
                 s = Max(from) \/ est_tokens(turn_bytes(Kept(s))) <= ContextBudget}))

\* A result is cut at the cap, and marked, on its way to the wire.
bound_tool_result(turn) ==
    IF turn.kind = "result" /\ turn.size > ResultCap
    THEN [turn EXCEPT !.size = ResultCap + MarkerBytes]
    ELSE turn

\* The messages of one request.
chat_messages(conversation) ==
    LET kept == trim_conversation(conversation)
    IN  [i \in DOMAIN kept |-> bound_tool_result(kept[i])]
=============================================================================
