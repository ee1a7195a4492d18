----------------------------- MODULE LlmHealth -----------------------------
(***************************************************************************)
(* The backend-health machine of mycelium-librarian (llm_health.rs): what  *)
(* LlmHealth keeps under its lock and the operations that change it, as    *)
(* functions from one value of the machine to the next.  Each operation    *)
(* takes the lock once, so each is one atomic step of its caller.          *)
(*                                                                         *)
(* Timestamps are left out: they only feed /health and the staleness rule, *)
(* which turns a Green into a Yellow, and no caller tells those two apart. *)
(* consecutive_failures saturates at the threshold, beyond which base_state*)
(* does not tell the counts apart.                                         *)
(***************************************************************************)
EXTENDS Naturals

CONSTANT RedFailureThreshold   \* RED_FAILURE_THRESHOLD

ASSUME HealthAssumption == RedFailureThreshold \in Nat \ {0}

HealthInner ==
    [configured : BOOLEAN, consecutive_failures : 0 .. RedFailureThreshold]

FreshHealth == [configured |-> TRUE, consecutive_failures |-> 0]

BackendState(h) ==
    CASE ~h.configured                                -> "disabled"
      [] h.configured /\ h.consecutive_failures = 0   -> "green"
      [] h.configured /\ h.consecutive_failures \in 1 .. RedFailureThreshold - 1
                                                      -> "yellow"
      [] OTHER                                        -> "red"

NoteOk(h) ==
    IF h.configured THEN [h EXCEPT !.consecutive_failures = 0] ELSE h

NoteFailure(h) ==
    IF h.configured /\ h.consecutive_failures < RedFailureThreshold
    THEN [h EXCEPT !.consecutive_failures = @ + 1]
    ELSE h

SetDisabled(h) == [h EXCEPT !.configured = FALSE]

NoteConfigured(h) == IF h.configured THEN h ELSE FreshHealth
=============================================================================
