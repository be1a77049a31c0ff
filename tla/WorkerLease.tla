----------------------------- MODULE WorkerLease ----------------------------
(***************************************************************************)
(* What the v1 gateway promises about its workers, seen from outside: who  *)
(* holds each of them.  A worker is held by one session at a time, passes  *)
(* from one session to the next only through the pool, and a worker that   *)
(* is gone never comes back; a session gets at most one worker, once.      *)
(* Gateway.tla implements this.                                            *)
(***************************************************************************)
CONSTANTS
    Workers,  \* worker numbers
    Sessions, \* session UUIDs
    Unborn,   \* not started yet
    Pooled,   \* in the pool, for the taking
    Gone      \* shut down, or lost to the pool

VARIABLES
    holder,   \* per worker: Unborn, Pooled, Gone or the session that has it
    asked     \* sessions that have asked for a worker

leaseVars == <<holder, asked>>

LeaseInit ==
    /\ holder = [w \in Workers |-> Unborn]
    /\ asked = {}

\* The pool starts a worker ahead of demand.
Start(w) ==
    /\ holder[w] = Unborn
    /\ holder' = [holder EXCEPT ![w] = Pooled]
    /\ UNCHANGED asked

\* A session asks and gets a worker nobody holds, or gets none.
Lease(s, w) ==
    /\ s \notin asked
    /\ holder[w] \in {Unborn, Pooled}
    /\ asked' = asked \cup {s}
    /\ holder' = [holder EXCEPT ![w] = s]

Refuse(s) ==
    /\ s \notin asked
    /\ asked' = asked \cup {s}
    /\ \/ UNCHANGED holder
       \/ \E w \in Workers :
             /\ holder[w] \in {Unborn, Pooled}
             /\ holder' = [holder EXCEPT ![w] = Gone]

\* A session's worker goes back to the pool or is shut down.
Return(w) ==
    /\ holder[w] \in Sessions
    /\ \E fate \in {Pooled, Gone} : holder' = [holder EXCEPT ![w] = fate]
    /\ UNCHANGED asked

\* A worker nobody holds is shut down, or fails to start.
Drop(w) ==
    /\ holder[w] \in {Unborn, Pooled}
    /\ holder' = [holder EXCEPT ![w] = Gone]
    /\ UNCHANGED asked

LeaseNext ==
    \/ \E w \in Workers : Start(w) \/ Return(w) \/ Drop(w)
    \/ \E s \in Sessions : Refuse(s) \/ \E w \in Workers : Lease(s, w)

LeaseSpec == LeaseInit /\ [][LeaseNext]_leaseVars
=============================================================================
