------------------------------ MODULE WebAdmin ------------------------------
(***************************************************************************)
(* The web server's own state beside its workers: the pages over concepts  *)
(* and books (Surface), the chat page and its streams (ChatPage) and the   *)
(* certificates (Tls).  They share no state but the process; an instance   *)
(* follows one of them.                                                    *)
(***************************************************************************)
EXTENDS Tls, Surface, ChatPage

VARIABLE focus   \* the part this instance follows

avars == <<tvars, svars, pvars, focus>>

Next ==
    /\ UNCHANGED focus
    /\ \/ focus = "tls" /\ TlsNext /\ UNCHANGED <<svars, pvars>>
       \/ focus = "surface" /\ SurfaceNext /\ UNCHANGED <<tvars, pvars>>
       \/ focus = "page" /\ PageNext /\ UNCHANGED <<tvars, svars>>
=============================================================================
