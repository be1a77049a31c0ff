------------------------------ MODULE ImeBackend ----------------------------
(***************************************************************************)
(* What a worker promises the gateway, whichever backend it runs: it is an *)
(* object that serves one call at a time.  What it shows (a composition, a *)
(* list of candidates) changes only while it serves a call and never       *)
(* without its version growing; a commit or a reset that succeeds leaves   *)
(* nothing, a commit that fails changes nothing, and a reset cannot fail.  *)
(* Worker.tla implements this.                                             *)
(***************************************************************************)
CONSTANTS
    Lists,  \* candidate lists
    NoList  \* the empty one

VARIABLES
    call,   \* the operation under way, or what it came to
    shows,  \* is there a composition
    list,   \* the candidates
    moved,  \* the version has grown since the call began
    broken  \* the process is gone

imeVars == <<call, shows, list, moved, broken>>

Ops == {"snapshot", "reset", "key", "query", "commit"}

ImeInit ==
    /\ call = "reset"
    /\ shows = FALSE /\ list = NoList
    /\ moved = FALSE /\ broken = FALSE

Ask(op) ==
    /\ call = "none" /\ ~broken
    /\ call' = op
    /\ moved' = FALSE
    /\ UNCHANGED <<shows, list, broken>>

\* A backend may take several steps to serve a call.
Work ==
    /\ call \in {"key", "query", "commit", "reset"} /\ ~broken
    /\ shows' \in BOOLEAN /\ list' \in Lists
    /\ call \in {"commit", "reset"} => shows' = FALSE /\ list' = NoList
    /\ moved' = TRUE
    /\ UNCHANGED <<call, broken>>

Answer(ok) ==
    /\ call \in Ops /\ ~broken
    /\ call' = IF ok THEN "ok" ELSE "failed"
    /\ \/ UNCHANGED <<shows, list, moved>>
       \/ /\ call # "snapshot"
          /\ shows' \in BOOLEAN /\ list' \in Lists
          /\ moved' = TRUE
    /\ call \in {"commit", "reset"} /\ ok => shows' = FALSE /\ list' = NoList
    /\ call = "commit" /\ ~ok => UNCHANGED <<shows, list>>
    /\ call \in {"reset", "snapshot"} => ok
    /\ UNCHANGED broken

Receive ==
    /\ call \in {"ok", "failed"}
    /\ call' = "none"
    /\ UNCHANGED <<shows, list, moved, broken>>

\* The process ends, during a call or between two.
Break ==
    /\ ~broken
    /\ broken' = TRUE
    /\ call' \in {"none", call}
    /\ shows' \in BOOLEAN /\ list' \in Lists /\ moved' \in BOOLEAN

ImeNext ==
    \/ \E op \in Ops : Ask(op)
    \/ Work
    \/ \E ok \in BOOLEAN : Answer(ok)
    \/ Receive
    \/ Break

ImeSpec == ImeInit /\ [][ImeNext]_imeVars
=============================================================================
