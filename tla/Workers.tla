------------------------------ MODULE Workers ------------------------------
(***************************************************************************)
(* Two of the background workers of one process: book ingest and dream     *)
(* maintenance, the latter as its scheduling and as what its passes do to  *)
(* one scope.  The three share no state but the process itself, so a       *)
(* behaviour of all is an interleaving of one of each.  An instance        *)
(* follows one of them.                                                    *)
(***************************************************************************)
EXTENDS Ingest, Dream, Signals

VARIABLE focus   \* the worker this instance follows

wvars == <<ivars, dvars, gvars, focus>>

Next ==
    /\ UNCHANGED focus
    /\ \/ focus = "ingest" /\ IngestNext /\ UNCHANGED <<dvars, gvars>>
       \/ focus = "dream" /\ DreamNext /\ UNCHANGED <<ivars, gvars>>
       \/ focus = "signals" /\ SignalsNext /\ UNCHANGED <<ivars, dvars>>

Fairness == IngestFairness /\ DreamFairness /\ SignalsFairness
============================================================================
