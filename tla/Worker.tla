------------------------------- MODULE Worker -------------------------------
(***************************************************************************)
(* One worker process of the v1 gateway and the gateway's side of its pipe *)
(* (WorkerProcess::request, run_worker_runtime_mode and                    *)
(* handle_backend_request in src/ime-grpc-host/src/main.rs), over the      *)
(* three backends.                                                         *)
(*                                                                         *)
(* The gateway calls under its pool mutex, so one call is under way at a   *)
(* time, and it passes the worker from session to session with a reset.    *)
(* Requests and answers carry no number and a read has no time limit: that *)
(* an answer is the answer to this call rests on one being written for     *)
(* each request, in order.                                                 *)
(***************************************************************************)
EXTENDS StubBackend, WinImmBackend, LegacyBackend

CONSTANT MaxBacklog \* bound: stale lines in the connection when a call is made

ASSUME WorkerAssumption == MaxOld \in Nat /\ MaxBacklog \in Nat

VARIABLE asked \* the request whose answer the gateway waits for

vars == <<env, mind, ime, requests, answers, proc, conn, old, leg, asked>>

NoRequest == [op |-> "none", arg |-> "-"]
Reset     == [op |-> "reset", arg |-> "-"]

TypeOK ==
    /\ BackendTypeOK
    /\ LegacyTypeOK
    /\ asked \in Requests \cup {NoRequest}

\* spawn_worker has started the process and written its first request.
Init ==
    /\ env \in Envs
    /\ mind = Blank
    /\ ime = {}
    /\ requests = <<Reset>>
    /\ answers = <<>>
    /\ proc = "boot"
    /\ LegacyInit
    /\ asked = Reset

-----------------------------------------------------------------------------
(* The worker's side.                                                      *)

\* run_worker_runtime_mode resets the backend before it reads.
Boot ==
    /\ proc = "boot"
    /\ IF env.kind = "legacy_tcp"
       THEN Starts("boot", Moved(Blank), 0, 0, "none") /\ UNCHANGED ime
       ELSE /\ proc' = "ready"
            /\ mind' = Moved(Blank)
            /\ ime' \in IF env.kind = "win_imm" THEN AfterSelect ELSE {ime}
            /\ UNCHANGED <<answers, leg>>
    /\ UNCHANGED <<env, requests, conn, old>>

Snapshot ==
    /\ Handles(env.kind, "snapshot")
    /\ AnswersOk("snapshot", mind, "none")
    /\ UNCHANGED <<env, ime, legacyVars>>

WorkerStep ==
    /\ \/ Boot
       \/ Snapshot
       \/ StubServes /\ UNCHANGED legacyVars
       \/ WinImmServes /\ UNCHANGED legacyVars
       \/ LegacyServes
    /\ UNCHANGED asked

\* The process dies: a crash, or the gateway's kill.
Dies ==
    /\ proc # "gone"
    /\ proc' = "gone"
    /\ UNCHANGED <<env, mind, ime, requests, answers, legacyVars, asked>>

-----------------------------------------------------------------------------
(* The gateway's side.                                                     *)

\* A request that does not fit a frame is refused before a byte is written, and
\* one to a process that is gone fails: neither is a step.
MayCall ==
    /\ asked = NoRequest
    /\ proc # "gone"
    /\ Len(conn.out) + Len(conn.in) <= MaxBacklog

Call(req) ==
    /\ MayCall
    /\ asked' = req
    /\ requests' = Append(requests, req)
    /\ mind' = [mind EXCEPT !.moved = FALSE]
    /\ UNCHANGED <<env, ime, answers, proc, legacyVars>>

\* The worker goes to another session: what was Own is now another's.
Passed(text) == (text \ {Own}) \cup (IF Own \in text THEN {Other} ELSE {})

PassedLines(lines) == [i \in DOMAIN lines |-> [lines[i] EXCEPT !.text = Passed(@)]]

HandOver ==
    /\ MayCall
    /\ asked' = Reset
    /\ requests' = Append(requests, Reset)
    /\ mind' = [mind EXCEPT !.input = Passed(@), !.comp = Passed(@), !.moved = FALSE]
    /\ ime' = Passed(ime)
    /\ conn' = [conn EXCEPT !.clean = FALSE]
    /\ old' = PassedLines(old)
    /\ UNCHANGED <<env, answers, proc, leg>>

\* Mutant: the read has a time limit, but the worker is kept.
Receive_GivesUp ==
    /\ asked # NoRequest
    /\ asked' = NoRequest
    /\ \/ answers # <<>> /\ answers' = Tail(answers)
       \/ answers = <<>> /\ UNCHANGED answers
    /\ UNCHANGED <<env, mind, ime, requests, proc, legacyVars>>

Receive ==
    /\ asked # NoRequest
    /\ answers # <<>>
    /\ asked' = NoRequest
    /\ answers' = Tail(answers)
    /\ UNCHANGED <<env, mind, ime, requests, proc, legacyVars>>

\* "worker closed pipe unexpectedly".
SeeClosed ==
    /\ asked # NoRequest
    /\ proc = "gone" /\ answers = <<>>
    /\ asked' = NoRequest
    /\ UNCHANGED <<env, mind, ime, requests, answers, proc, legacyVars>>

Next ==
    \/ WorkerStep
    \/ Dies
    \/ \E req \in Requests : Call(req)
    \/ HandOver
    \/ Receive
    \/ SeeClosed
    \/ Host /\ UNCHANGED asked

Spec == Init /\ [][Next]_vars

\* Both processes run; the worker's reads of the host have a time limit, and the
\* IME's own functions return.  The host need not answer.
FairSpec == Spec /\ WF_vars(WorkerStep) /\ WF_vars(Receive \/ SeeClosed)

-----------------------------------------------------------------------------
(* Properties.                                                             *)

\* The pipe stays in step: what is written but not yet answered, under way in
\* the worker, or answered but not yet read is the one call the gateway waits
\* for, whatever failed before (WorkerProcess::request, write_framed_payload).
InStep ==
    LET busy == IF proc = "busy" /\ leg.op # "boot" THEN <<leg.op>> ELSE <<>>
        ops(q) == [i \in DOMAIN q |-> q[i].op] IN
    proc # "gone" =>
        ops(requests) \o busy \o ops(answers) =
            IF asked = NoRequest THEN <<>> ELSE <<asked.op>>

\* The reply that the legacy backend takes for its command's is: no reply to an
\* earlier command is left on the connection, although a failed ensure_ready
\* leaves others (send_command, reset_connection).
OwedOut == {i \in DOMAIN conn.out : conn.out[i].cmd \in {"RESET", "TYPE", "CAND"}}
OwedIn  == {i \in DOMAIN conn.in : conn.in[i].re \in {"OK RESET", "ERR", "CAND_RET"}}

ReplyMatches ==
    /\ OwedOut \cup OwedIn # {} => leg.pc = "reply"
    /\ OwedOut = {} \/ OwedIn = {}
    /\ \A i, j \in OwedOut : i = j
    /\ \A i, j \in OwedIn : i = j

\* An OK answer shows no letters of another session: of the stub never, of the
\* legacy backend while the connection lasts whose RESET the host acknowledged,
\* whoever types at the host in between (reset_for_new_session, clear_local_state).
OwnKeys ==
    \A i \in DOMAIN answers :
        /\ answers[i].ok
        /\ env.kind = "stub" \/ (env.kind = "legacy_tcp" /\ conn.clean)
        => Other \notin answers[i].comp

\* A commit by index takes a candidate of a list that the worker has answered,
\* never of one made on the way to an error (commit_selection).
CommitShown == \A i \in DOMAIN answers : answers[i].committed # "unseen"

\* IME_WINIMM_FORCE_REAL: no fabricated candidate is kept or shown.
RealOnly ==
    env.force => /\ mind.list.from # "fake"
                 /\ \A i \in DOMAIN answers : answers[i].from # "fake"

\* The three backends and the pipe implement ImeBackend: a version tells what a
\* worker shows, and a commit or reset that succeeds leaves nothing of it.
Seen ==
    IF answers # <<>> THEN IF Head(answers).ok THEN "ok" ELSE "failed"
    ELSE IF proc = "gone" THEN "none" ELSE asked.op

Contract == INSTANCE ImeBackend WITH
    call <- Seen, shows <- (mind.comp # {}), list <- mind.list,
    moved <- mind.moved, broken <- (proc = "gone")

BackendContract == Contract!ImeSpec

\* The legacy backend gets on with a call: each of its steps ends the call, comes
\* to a later command, attempt or place of one, or takes a line off the connection;
\* and what the host writes back is never more than it was sent, so that the lines
\* to pass over run out (send_command's retry, send_command_raw's loop, the list of
\* commands in query_remote_update).
Place == [rest |-> 0, prepare |-> 1, activate |-> 2, codepage |-> 3, reply |-> 4]

Later(l, m) ==
    \/ m.cmd > l.cmd
    \/ m.cmd = l.cmd /\ m.try > l.try
    \/ m.cmd = l.cmd /\ m.try = l.try /\ Place[m.pc] > Place[l.pc]

Unread == Len(conn.out) + Len(conn.in) + (IF conn.st = "queued" THEN 1 ELSE 0)

CallProgress ==
    [][proc = "busy" /\ proc' = "busy" =>
         \/ Later(leg, leg')
         \/ leg' = leg /\ Unread' <= Unread /\ (WorkerStep => Unread' < Unread)]_vars

\* A call comes back, however long the legacy host is silent and whenever the
\* worker dies: the pool mutex is not held for ever.
CallsReturn == (asked # NoRequest) ~> (asked = NoRequest)
=============================================================================
