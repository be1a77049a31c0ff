---------------------------- MODULE LegacyBackend ---------------------------
(***************************************************************************)
(* The legacy TCP backend of a v1 worker (LegacyTcpRuntime in              *)
(* src/ime-grpc-host/src/main.rs) and the IME host at the other end of its *)
(* connection (src/reverse/host/ime_host_skeleton.c): lines out, lines     *)
(* back, a time limit on each read, one retry on a new connection.         *)
(*                                                                         *)
(* The host serves one client at a time and accepts the next when the last *)
(* one is gone; its IME context is the same for all of them.  What a       *)
(* dropped connection still held is served or lost before that.            *)
(***************************************************************************)
EXTENDS Backend

CONSTANT MaxOld \* bound: lines of dropped connections the host may still see

VARIABLES
    conn, \* the connection: its state, `activated`, the lines on their way
    old,  \* lines of dropped connections that the host may still serve
    leg   \* where the backend is in ensure_ready, send_command and their callers

legacyVars == <<conn, old, leg>>

\* `clean` is history: the host has acknowledged a RESET of this connection
\* since the worker's session got the worker.
NoConn == [st |-> "none", activated |-> FALSE, out |-> <<>>, in |-> <<>>, clean |-> FALSE]

Lines   == [cmd : {"ACTIVATE", "CP", "RESET", "TYPE", "CAND"}, text : Texts]
Line(c) == [cmd |-> c, text |-> {}]
Answered == {"HELLO", "OK ACTIVATE", "OK CP", "OK RESET", "ERR", "CAND_RET"}
Replies  == [re : Answered, comp : Texts, has : {"list", "nolist", "err"}]
Says(re) == [re |-> re, comp |-> {}, has |-> "nolist"]

\* query_remote_update's commands: IME_LEGACY_COMMAND (TEXTU), CAND, KEYTEXTU
\* and TEXTU, all but CAND typing the whole input.  The place 0 is RESET.
Commands == <<"TYPE", "CAND", "TYPE", "TYPE">>
CommandLine(i, text) ==
    IF i = 0 THEN Line("RESET") ELSE [cmd |-> Commands[i], text |-> text]

\* try: 0 for the bare ensure_ready of a reset, else send_command's attempt.
Rest    == [pc |-> "rest", op |-> "-", cmd |-> 0, try |-> 0, comp |-> {}, committed |-> "none"]
LegPcs  == {"rest", "prepare", "activate", "codepage", "reply"}
LegOps  == {"-", "boot", "key", "query", "commit", "reset"}
Legs    == [pc : LegPcs, op : LegOps, cmd : 0 .. 4, try : 0 .. 2, comp : Texts,
            committed : {"none", "given", "shown", "unseen"}]

LegacyTypeOK ==
    /\ conn \in [st : {"none", "queued", "served", "closed"}, activated : BOOLEAN,
                 out : Seq(Lines), in : Seq(Replies), clean : BOOLEAN]
    /\ old \in Seq(Lines)
    /\ leg \in Legs

LegacyInit == conn = NoConn /\ old = <<>> /\ leg = Rest

-----------------------------------------------------------------------------
(* The connection, as the backend sees it.                                 *)

\* A line written to a connection that the host has closed is lost.
Sent(c, line) == IF c.st = "closed" THEN c ELSE [c EXCEPT !.out = Append(@, line)]

\* What of a dropped connection the host may still see, up to the bound.
Leaves(c) == IF Len(old) + Len(c.out) <= MaxOld THEN old \o c.out ELSE old

\* reset_connection.
DropConn == conn' = NoConn /\ old' = Leaves(conn)

-----------------------------------------------------------------------------
(* The ends of a request.                                                  *)

Unanswered == UNCHANGED <<requests, env, ime>>

\* The worker's first reset has no request and no answer.
EndsOk(m, committed) ==
    /\ IF leg.op = "boot" THEN proc' = "ready" /\ mind' = m /\ UNCHANGED answers
                          ELSE AnswersOk(leg.op, m, committed)
    /\ leg' = Rest

EndsErr == AnswersErr(leg.op, mind) /\ leg' = Rest

\* Mutants: the stream of a failed command is used again; a failed attempt is
\* not counted; one attempt too many.
CommandFails_KeepsStream ==
    /\ UNCHANGED <<conn, old>>
    /\ IF leg.try = 0 THEN EndsOk(mind, leg.committed)
       ELSE IF leg.try = 1
       THEN leg' = [leg EXCEPT !.pc = "prepare", !.try = 2] /\ UNCHANGED <<proc, mind, answers>>
       ELSE IF leg.cmd = 0 THEN EndsOk(mind, leg.committed) ELSE EndsErr

CommandFails_NoCount ==
    IF leg.try = 0 THEN EndsOk(mind, leg.committed) /\ UNCHANGED <<conn, old>>
    ELSE /\ DropConn
         /\ leg' = [leg EXCEPT !.pc = "prepare"]
         /\ UNCHANGED <<proc, mind, answers>>

CommandFails_OnceMore ==
    IF leg.try = 0 THEN EndsOk(mind, leg.committed) /\ UNCHANGED <<conn, old>>
    ELSE /\ DropConn
         /\ IF leg.try <= 2
            THEN /\ leg' = [leg EXCEPT !.pc = "prepare", !.try = @ + 1]
                 /\ UNCHANGED <<proc, mind, answers>>
            ELSE IF leg.cmd = 0 THEN EndsOk(mind, leg.committed) ELSE EndsErr

\* A connect, write or read failed.  send_command drops the connection and
\* tries once more; a RESET that failed twice is ignored, an update is not.
\* The ensure_ready before a RESET gives up at once and keeps the connection.
CommandFails ==
    IF leg.try = 0 THEN EndsOk(mind, leg.committed) /\ UNCHANGED <<conn, old>>
    ELSE /\ DropConn
         /\ IF leg.try = 1
            THEN leg' = [leg EXCEPT !.pc = "prepare", !.try = 2] /\ UNCHANGED <<proc, mind, answers>>
            ELSE IF leg.cmd = 0 THEN EndsOk(mind, leg.committed) ELSE EndsErr

-----------------------------------------------------------------------------
(* ensure_ready and send_command_raw.                                      *)

Goes(pc) == leg' = [leg EXCEPT !.pc = pc]

\* With the connection ready, the command goes out; a bare ensure_ready that
\* succeeded is followed by send_command's first attempt.
GoesOn(c) ==
    /\ conn' = Sent(c, CommandLine(leg.cmd, mind.input))
    /\ leg' = [leg EXCEPT !.pc = "reply", !.try = IF @ = 0 THEN 1 ELSE @]

Busily == proc = "busy" /\ Unanswered

Connect ==
    /\ Busily
    /\ leg.pc = "prepare" /\ conn.st = "none"
    /\ conn' = [NoConn EXCEPT !.st = "queued", !.out = <<Line("ACTIVATE")>>]
    /\ Goes("activate")
    /\ UNCHANGED <<old, proc, mind, answers>>

ConnectFails ==
    /\ Busily
    /\ leg.pc = "prepare" /\ conn.st = "none"
    /\ CommandFails

Reuse ==
    /\ Busily
    /\ leg.pc = "prepare" /\ conn.st # "none"
    /\ IF conn.activated THEN GoesOn(conn)
       ELSE conn' = Sent(conn, Line("ACTIVATE")) /\ Goes("activate")
    /\ UNCHANGED <<old, proc, mind, answers>>

Awaited ==
    CASE leg.pc = "activate" -> "OK ACTIVATE"
      [] leg.pc = "codepage" -> "OK CP"
      [] leg.pc = "reply"    -> IF leg.cmd = 0 THEN "OK RESET" ELSE "CAND_RET"
      [] OTHER               -> "nothing"

Reads == Busily /\ leg.pc \in {"activate", "codepage", "reply"}

PastLine(c) == [c EXCEPT !.in = Tail(@)]

\* read_line: a greeting, or any line that does not start as expected, is
\* passed over.  (Sixteen lines would be an error; there are never so many.)
PassOver ==
    /\ Reads
    /\ conn.in # <<>> /\ Head(conn.in).re # Awaited
    /\ conn' = PastLine(conn)
    /\ UNCHANGED <<old, leg, proc, mind, answers>>

TakeActivate ==
    /\ Reads /\ leg.pc = "activate"
    /\ conn.in # <<>> /\ Head(conn.in).re = Awaited
    /\ conn' = Sent(PastLine(conn), Line("CP"))
    /\ Goes("codepage")
    /\ UNCHANGED <<old, proc, mind, answers>>

TakeCodepage ==
    /\ Reads /\ leg.pc = "codepage"
    /\ conn.in # <<>> /\ Head(conn.in).re = Awaited
    /\ GoesOn([PastLine(conn) EXCEPT !.activated = TRUE])
    /\ UNCHANGED <<old, proc, mind, answers>>

TakeReset ==
    /\ Reads /\ leg.pc = "reply" /\ leg.cmd = 0
    /\ conn.in # <<>> /\ Head(conn.in).re = Awaited
    /\ conn' = [PastLine(conn) EXCEPT !.clean = TRUE]
    /\ EndsOk(mind, leg.committed)
    /\ UNCHANGED old

\* query_remote_update's loop: an err= reply ends it with an error that leaves
\* the old composition and list; a list ends it; else the next command.
TakeCandidates ==
    LET reply == Head(conn.in)
        comp  == IF reply.comp = {} THEN leg.comp ELSE reply.comp IN
    /\ Reads /\ leg.pc = "reply" /\ leg.cmd # 0
    /\ conn.in # <<>> /\ reply.re = Awaited
    /\ UNCHANGED old
    /\ IF reply.has = "err" THEN EndsErr /\ conn' = PastLine(conn)
       ELSE IF reply.has = "nolist" /\ leg.cmd < 4
       THEN /\ leg' = [leg EXCEPT !.cmd = @ + 1, !.try = 1, !.comp = comp]
            /\ conn' = Sent(PastLine(conn), CommandLine(leg.cmd + 1, mind.input))
            /\ UNCHANGED <<proc, mind, answers>>
       ELSE /\ EndsOk([mind EXCEPT !.comp = comp,
                                   !.list = IF reply.has = "list" THEN New("legacy") ELSE NoList],
                      "none")
            /\ conn' = PastLine(conn)

\* Nothing to read: the connection is closed, or the time limit passes before
\* the host answers.
ReadFails ==
    /\ Reads
    /\ conn.in = <<>>
    /\ CommandFails

LegacySteps ==
    \/ Connect \/ ConnectFails \/ Reuse \/ PassOver \/ ReadFails
    \/ TakeActivate \/ TakeCodepage \/ TakeReset \/ TakeCandidates
-----------------------------------------------------------------------------
(* The operations, up to their first command.                              *)

Starts(op, m, cmd, try, committed) ==
    /\ proc' = "busy"
    /\ mind' = m
    /\ leg' = [pc |-> "prepare", op |-> op, cmd |-> cmd, try |-> try, comp |-> m.input,
               committed |-> committed]
    /\ UNCHANGED answers

\* query_remote_update with an empty input asks nobody.
Updates(op, m) ==
    IF m.input = {}
    THEN AnswersOk(op, [m EXCEPT !.comp = {}, !.list = NoList], "none") /\ UNCHANGED leg
    ELSE Starts(op, m, 1, 1, "none")

LegacyKey ==
    /\ Handles("legacy_tcp", "key")
    /\ \E text \in Typed(mind.input, Head(requests).arg) :
          Updates("key", [Moved(mind) EXCEPT !.input = text])

LegacyQuery ==
    /\ Handles("legacy_tcp", "query")
    /\ Updates("query", [Moved(mind) EXCEPT !.input = Snapped(@, Head(requests).arg)])

\* commit_selection clears, then resets the host if it can.
LegacyCommit ==
    LET took == Chosen(mind, Head(requests).arg) IN
    /\ Handles("legacy_tcp", "commit")
    /\ IF took = "none" THEN AnswersErr("commit", mind) /\ UNCHANGED leg
       ELSE Starts("commit", Moved(Blank), 0, 0, took)

\* Mutant: clear_local_state forgets the input.
LegacyReset_KeepsInput ==
    /\ Handles("legacy_tcp", "reset")
    /\ Starts("reset", [Moved(Blank) EXCEPT !.input = mind.input], 0, 0, "none")

LegacyReset ==
    /\ Handles("legacy_tcp", "reset")
    /\ Starts("reset", Moved(Blank), 0, 0, "none")

LegacyServes ==
    \/ LegacySteps
    \/ (LegacyKey \/ LegacyQuery \/ LegacyCommit \/ LegacyReset) /\ UNCHANGED <<env, ime, conn, old>>
-----------------------------------------------------------------------------
(* External: the host.                                                     *)

HostStep == env.kind = "legacy_tcp" /\ UNCHANGED <<env, mind, requests, answers, proc, leg>>

HostAccepts ==
    /\ HostStep
    /\ conn.st = "queued" /\ old = <<>>
    /\ conn' = [conn EXCEPT !.st = "served", !.in = <<Says("HELLO")>>]
    /\ UNCHANGED <<old, ime>>

\* Typing extends the IME's composition, or the IME refuses, or commits.
HostTypes(text) == {ime, ime \cup text, {}}

HostServes ==
    LET line == Head(conn.out)
        Writes(re, comp, has) ==
            conn' = [conn EXCEPT !.out = Tail(@),
                                 !.in = Append(@, [re |-> re, comp |-> comp, has |-> has])] IN
    /\ HostStep
    /\ conn.st = "served" /\ conn.out # <<>>
    /\ UNCHANGED old
    /\ \/ line.cmd = "ACTIVATE" /\ Writes("OK ACTIVATE", {}, "nolist") /\ UNCHANGED ime
       \/ line.cmd = "CP" /\ Writes("OK CP", {}, "nolist") /\ UNCHANGED ime
       \/ /\ line.cmd = "RESET"
          /\ ime' = {}
          /\ \E re \in {"OK RESET", "ERR"} : Writes(re, {}, "nolist")
       \/ /\ line.cmd \in {"TYPE", "CAND"} /\ Bulk \notin line.text
          /\ ime' \in IF line.cmd = "TYPE" THEN HostTypes(line.text) ELSE {ime}
          /\ \E has \in {"list", "nolist", "err"} : Writes("CAND_RET", ime', has)
       \* More than its receive buffer holds: the host hangs up.
       \/ /\ Bulk \in line.text
          /\ conn' = [conn EXCEPT !.st = "closed", !.out = <<>>]
          /\ UNCHANGED ime

HostServesOld ==
    /\ HostStep
    /\ old # <<>> /\ conn.st # "served"
    /\ old' = Tail(old)
    /\ \/ UNCHANGED ime
       \/ Head(old).cmd = "RESET" /\ ime' = {}
       \/ Head(old).cmd = "TYPE" /\ ime' \in HostTypes(Head(old).text \ {Bulk})
    /\ UNCHANGED conn

\* The worker of another session has the host.
HostServesAnother ==
    /\ HostStep
    /\ conn.st # "served"
    /\ ime' \in {ime \cup {Other}, {}}
    /\ UNCHANGED <<conn, old>>

HostDies ==
    /\ HostStep
    /\ ime' = {}
    /\ old' = <<>>
    /\ conn' = IF conn.st = "none" THEN conn ELSE [conn EXCEPT !.st = "closed", !.out = <<>>]

Host == HostAccepts \/ HostServes \/ HostServesOld \/ HostServesAnother \/ HostDies
=============================================================================
