------------------------------- MODULE Gateway ------------------------------
(***************************************************************************)
(* The v1 gateway (src/ime-grpc-host/src/main.rs): gRPC handlers, the      *)
(* session table behind its read/write lock, the worker pool behind its    *)
(* mutex, and the background reaper of idle sessions.                      *)
(*                                                                         *)
(* A handler takes one lock at a time and drops it before it awaits the    *)
(* next, so a handler is a sequence of steps, one per locked section, and  *)
(* `task` holds what it carries in its locals from one to the next.  The   *)
(* reaper releases several sessions in one pool section: while `reaper.pc` *)
(* is in PoolHeld it owns the pool mutex.                                  *)
(*                                                                         *)
(* Time is abstracted to `expired`: a session may pass its idle limit at   *)
(* any moment, and a touch() brings it back.                               *)
(***************************************************************************)
EXTENDS WorkerPool

CONSTANTS
    Requests,   \* slots for concurrent RPC handlers
    NoSession,  \* the session of an empty slot
    MaxSeq,     \* bound: the largest sequence number a client sends
    Pipelined   \* a client may have several RPCs of one session in flight

\* Where a worker is that no session has (see Holder).
Unborn == "unborn"
Pooled == "pooled"
Gone   == "gone"

ASSUME GatewayAssumption ==
    /\ NoSession \notin Sessions
    /\ Sessions \cap {Unborn, Pooled, Gone} = {}
    /\ MaxSeq \in Nat
    /\ Pipelined \in BOOLEAN

VARIABLES
    opened,     \* UUIDs handed out so far
    table,      \* session table: the session's worker_id, NoWorker if absent
    lastSeq,    \* SessionState.last_seq
    expired,    \* sessions of the table idle for longer than the limit
    task,       \* the handler in each slot
    reaper,     \* the reaper's place and its expired_session_ids
    abandoned,  \* history: opens cancelled between their two locks
    accepted    \* history: largest seq of a key event past its check

vars == <<poolVars, opened, table, lastSeq, expired, task, reaper,
          abandoned, accepted>>

Seqs == 1 .. MaxSeq
Live == {s \in Sessions : table[s] # NoWorker}

\* Where a handler waits: before the write lock that registers a new session,
\* before the write lock that records a key's seq, before the pool mutex.
Idle    == "idle"
TaskPcs == {Idle, "insert", "mark", "serve"}
Ops     == {"open", "key", "query", "commit", "reset"}
NoTask  == [pc |-> Idle, op |-> "open", s |-> NoSession, seq |-> 0, w |-> NoWorker]
Tasks   == [pc : TaskPcs, op : Ops, s : Sessions \cup {NoSession}, seq : 0 .. MaxSeq,
            w : WorkerIds \cup {NoWorker}]

PoolHeld  == {"release", "prewarm"}
ReaperPcs == {"sleep", "remove", "wait"} \cup PoolHeld
PoolFree  == reaper.pc \notin PoolHeld

TypeOK ==
    /\ PoolTypeOK
    /\ opened \subseteq Sessions
    /\ table \in [Sessions -> WorkerIds \cup {NoWorker}]
    /\ lastSeq \in [Sessions -> 0 .. MaxSeq]
    /\ expired \subseteq Sessions
    /\ task \in [Requests -> Tasks]
    /\ reaper \in [pc : ReaperPcs, doomed : SUBSET Sessions]
    /\ abandoned \subseteq Sessions
    /\ accepted \in [Sessions -> 0 .. MaxSeq]

\* WorkerPool::new prewarms before the server starts.
Init ==
    /\ PoolInit
    /\ opened = {}
    /\ table = [s \in Sessions |-> NoWorker]
    /\ lastSeq = [s \in Sessions |-> 0]
    /\ expired = {}
    /\ task = [r \in Requests |-> NoTask]
    /\ reaper = [pc |-> IF Prewarm THEN "prewarm" ELSE "sleep", doomed |-> {}]
    /\ abandoned = {}
    /\ accepted = [s \in Sessions |-> 0]
-----------------------------------------------------------------------------
(* Handlers.                                                               *)

Busy(r)    == task[r].pc # Idle
Finish(r)  == task' = [task EXCEPT ![r] = NoTask]
Goes(r, t) == task' = [task EXCEPT ![r] = t]

\* A client waits for the answer to a session's request before it sends the
\* next one, unless Pipelined.
MaySend(r, s) ==
    /\ ~Busy(r)
    /\ Pipelined \/ \A x \in Requests : task[x].s # s

\* open_session, the pool section: a fresh UUID and a worker for it.
OpenAcquire(r, s) ==
    /\ ~Busy(r)
    /\ s \notin opened
    /\ PoolFree
    /\ opened' = opened \cup {s}
    /\ \E want \in BOOLEAN :
          \/ \E w \in WorkerIds :
                /\ Acquire(s, want, w)
                /\ Goes(r, [pc |-> "insert", op |-> "open", s |-> s, seq |-> 0, w |-> w])
          \/ AcquireFails(want) /\ UNCHANGED task
    /\ UNCHANGED <<table, lastSeq, expired, reaper, abandoned, accepted>>

\* open_session, the table section.
OpenInsert(r) ==
    LET t == task[r] IN
    /\ t.pc = "insert"
    /\ table' = [table EXCEPT ![t.s] = t.w]
    /\ lastSeq' = [lastSeq EXCEPT ![t.s] = 0]
    /\ Finish(r)
    /\ UNCHANGED <<poolVars, opened, expired, reaper, abandoned, accepted>>

\* Mutant: a repeated sequence number passes.
KeyCheck_NotStrict(r, s, q) ==
    /\ MaySend(r, s)
    /\ table[s] # NoWorker
    /\ q >= lastSeq[s]
    /\ Goes(r, [pc |-> "mark", op |-> "key", s |-> s, seq |-> q, w |-> table[s]])
    /\ UNCHANGED <<poolVars, opened, table, lastSeq, expired, reaper,
                   abandoned, accepted>>

\* send_key_event, the read section: the check of the sequence number.  A
\* number not above last_seq is answered SEQ_OUT_OF_ORDER from a snapshot,
\* which changes nothing, and so does an unknown session (not_found).
KeyCheck(r, s, q) ==
    /\ MaySend(r, s)
    /\ table[s] # NoWorker
    /\ q > lastSeq[s]
    /\ Goes(r, [pc |-> "mark", op |-> "key", s |-> s, seq |-> q, w |-> table[s]])
    /\ UNCHANGED <<poolVars, opened, table, lastSeq, expired, reaper,
                   abandoned, accepted>>

\* send_key_event, the write section: last_seq is assigned, not raised.
KeyMark(r) ==
    LET t == task[r] IN
    /\ t.pc = "mark"
    /\ IF table[t.s] = NoWorker
       THEN Finish(r) /\ UNCHANGED <<lastSeq, expired, accepted>>
       ELSE /\ lastSeq' = [lastSeq EXCEPT ![t.s] = t.seq]
            /\ expired' = expired \ {t.s}
            /\ accepted' = [accepted EXCEPT ![t.s] = IF t.seq > @ THEN t.seq ELSE @]
            /\ Goes(r, [pc |-> "serve", op |-> "key", s |-> t.s, seq |-> 0, w |-> t.w])
    /\ UNCHANGED <<poolVars, opened, table, reaper, abandoned>>

\* query_candidates, commit_selection and reset_session, the write section:
\* last_seq is raised to the request's number (0 where it carries none), the
\* session is touched and its worker noted.
Touch(r, op, s, q) ==
    /\ MaySend(r, s)
    /\ table[s] # NoWorker
    /\ op = "reset" => q = 0
    /\ lastSeq' = [lastSeq EXCEPT ![s] = IF q > @ THEN q ELSE @]
    /\ expired' = expired \ {s}
    /\ Goes(r, [pc |-> "serve", op |-> op, s |-> s, seq |-> 0, w |-> table[s]])
    /\ UNCHANGED <<poolVars, opened, table, reaper, abandoned, accepted>>

\* What a worker that answers may hold afterwards: a key is appended, or not (a
\* release, a control key), or it is a backspace; a query replaces the buffer by
\* its snapshot unless that is empty, a commit clears it unless it found no
\* text, a reset clears it.
Effect(op, s, buffer) ==
    CASE op = "key"    -> {buffer, buffer \cup {s}} \cup {buffer \ {x} : x \in buffer}
      [] op = "query"  -> {buffer, {s}}
      [] op = "commit" -> {buffer, {}}
      [] OTHER         -> {{}}

\* The pool section of the four session RPCs.  The worker is the one noted
\* under the table lock; a dead or unregistered one makes the call an error.
Serve(r) ==
    LET t == task[r] IN
    /\ t.pc = "serve"
    /\ PoolFree
    /\ IF t.w \in workers \cap alive
       THEN \E buffer \in Effect(t.op, t.s, typed[t.w]) :
                typed' = [typed EXCEPT ![t.w] = buffer]
       ELSE UNCHANGED typed
    /\ Finish(r)
    /\ UNCHANGED <<nextWorkerId, idle, busy, workers, alive, opened, table,
                   lastSeq, expired, reaper, abandoned, accepted>>

\* The client's deadline passes or its stream is reset: the server drops the
\* handler at the lock it awaits.  A dropped open leaves its worker leased.
Cancel(r) ==
    LET t == task[r] IN
    /\ Busy(r)
    /\ Finish(r)
    /\ abandoned' = IF t.pc = "insert" THEN abandoned \cup {t.s} ELSE abandoned
    /\ UNCHANGED <<poolVars, opened, table, lastSeq, expired, reaper, accepted>>

-----------------------------------------------------------------------------
(* The reaper (reap_idle_sessions).                                        *)

ReaperVars == <<opened, task, abandoned, accepted>>

\* The read section: note the expired sessions; none means sleep again.
ReapScan ==
    /\ reaper.pc = "sleep"
    /\ Live \cap expired # {}
    /\ reaper' = [pc |-> "remove", doomed |-> Live \cap expired]
    /\ UNCHANGED <<poolVars, ReaperVars, table, lastSeq, expired>>

\* Mutants: the write section spares what was touched since the scan, but the
\* list to release keeps it; or it removes what is expired by now, but the list
\* to release is the old one.
ReapRemove_Spares ==
    /\ reaper.pc = "remove"
    /\ LET stale == reaper.doomed \cap expired IN
       /\ table' = [s \in Sessions |-> IF s \in stale THEN NoWorker ELSE table[s]]
       /\ lastSeq' = [s \in Sessions |-> IF s \in stale THEN 0 ELSE lastSeq[s]]
       /\ expired' = expired \ stale
    /\ reaper' = [reaper EXCEPT !.pc = "wait"]
    /\ UNCHANGED <<poolVars, ReaperVars>>

ReapRemove_Rescans ==
    /\ reaper.pc = "remove"
    /\ table' = [s \in Sessions |-> IF s \in expired THEN NoWorker ELSE table[s]]
    /\ lastSeq' = [s \in Sessions |-> IF s \in expired THEN 0 ELSE lastSeq[s]]
    /\ expired' = {}
    /\ reaper' = [reaper EXCEPT !.pc = "wait"]
    /\ UNCHANGED <<poolVars, ReaperVars>>

\* The write section: remove what was noted, whatever happened since.
ReapRemove ==
    /\ reaper.pc = "remove"
    /\ table' = [s \in Sessions |-> IF s \in reaper.doomed THEN NoWorker ELSE table[s]]
    /\ lastSeq' = [s \in Sessions |-> IF s \in reaper.doomed THEN 0 ELSE lastSeq[s]]
    /\ expired' = expired \ reaper.doomed
    /\ reaper' = [reaper EXCEPT !.pc = "wait"]
    /\ UNCHANGED <<poolVars, ReaperVars>>

\* The pool section: release them one by one, trim, prewarm.
ReapLock ==
    /\ reaper.pc = "wait"
    /\ reaper' = [reaper EXCEPT !.pc = "release"]
    /\ UNCHANGED <<poolVars, ReaperVars, table, lastSeq, expired>>

ReapRelease(s) ==
    /\ reaper.pc = "release"
    /\ s \in reaper.doomed
    /\ Release(s)
    /\ reaper' = [reaper EXCEPT !.doomed = @ \ {s}]
    /\ UNCHANGED <<ReaperVars, table, lastSeq, expired>>

ReapTrim ==
    /\ reaper.pc = "release"
    /\ reaper.doomed = {}
    /\ \/ TrimOne /\ UNCHANGED reaper
       \/ /\ Len(idle) <= MaxIdle
          /\ reaper' = [reaper EXCEPT !.pc = "prewarm"]
          /\ UNCHANGED poolVars
    /\ UNCHANGED <<ReaperVars, table, lastSeq, expired>>

\* Mutant: a failed spawn is tried again.
ReapPrewarm_Retries ==
    /\ reaper.pc = "prewarm"
    /\ \/ (PrewarmOne \/ PrewarmFails) /\ UNCHANGED reaper
       \/ /\ Len(idle) >= MinIdle
          /\ reaper' = [reaper EXCEPT !.pc = "sleep"]
          /\ UNCHANGED poolVars
    /\ UNCHANGED <<ReaperVars, table, lastSeq, expired>>

\* A failed spawn ends the loop; so does a full deque.  Also the prewarm of
\* WorkerPool::new, before the first request.
ReapPrewarm ==
    /\ reaper.pc = "prewarm"
    /\ \/ PrewarmOne /\ UNCHANGED reaper
       \/ PrewarmFails /\ reaper' = [reaper EXCEPT !.pc = "sleep"]
       \/ /\ Len(idle) >= MinIdle
          /\ reaper' = [reaper EXCEPT !.pc = "sleep"]
          /\ UNCHANGED poolVars
    /\ UNCHANGED <<ReaperVars, table, lastSeq, expired>>

Reap ==
    \/ ReapScan \/ ReapRemove \/ ReapLock \/ ReapTrim \/ ReapPrewarm
    \/ \E s \in Sessions : ReapRelease(s)

-----------------------------------------------------------------------------
(* Environment: time passes, processes die.                                *)

Expire(s) ==
    /\ table[s] # NoWorker
    /\ expired' = expired \cup {s}
    /\ UNCHANGED <<poolVars, ReaperVars, table, lastSeq, reaper>>

WorkerDies(w) ==
    /\ Crash(w)
    /\ UNCHANGED <<ReaperVars, table, lastSeq, expired, reaper>>

-----------------------------------------------------------------------------
Proceed(r) == OpenInsert(r) \/ KeyMark(r) \/ Serve(r)

Next ==
    \/ \E r \in Requests, s \in Sessions :
          \/ OpenAcquire(r, s)
          \/ \E q \in Seqs : KeyCheck(r, s, q)
          \/ \E op \in {"query", "commit", "reset"}, q \in 0 .. MaxSeq : Touch(r, op, s, q)
    \/ \E r \in Requests : OpenInsert(r) \/ KeyMark(r) \/ Serve(r) \/ Cancel(r)
    \/ Reap
    \/ \E s \in Sessions : Expire(s)
    \/ \E w \in WorkerIds : WorkerDies(w)

Spec == Init /\ [][Next]_vars

\* tokio polls every woken task and its locks are FIFO, so a handler gets the
\* pool mutex even though the reaper takes it again and again; the reaper's
\* own steps wait only for locks whose holders never block.
FairSpec ==
    /\ Spec
    /\ WF_vars(Reap)
    /\ \A r \in Requests : SF_vars(Proceed(r))

-----------------------------------------------------------------------------
(* Properties.                                                             *)

\* No worker is in the deque twice, leased to two sessions, or in the deque
\* and leased: what acquire pops nobody else holds (acquire/release/trim).
WorkersExclusive ==
    /\ \A i, j \in DOMAIN idle : idle[i] = idle[j] => i = j
    /\ \A s, t \in Sessions :
          busy[s] = busy[t] /\ busy[s] # NoWorker => s = t
    /\ Queued \cap Leased = {}

\* The pool's two maps and its registry agree: only registered workers are
\* queued or leased, and no process outlives its registration, so the Drop of
\* the pool kills them all.
RegistryComplete == Queued \cup Leased \cup alive \subseteq workers

\* The session table and the pool are changed under different locks; a session
\* in the table still always holds the worker its entry names.
TableMatchesPool == \A s \in Live : busy[s] = table[s]

\* A worker leased to a session that is not in the table is on its way: into
\* the table, back to the pool, or lost to the one hole there is, an open
\* cancelled between its two locks.
LeaseAccounted ==
    \A s \in Sessions : busy[s] # NoWorker =>
        \/ s \in Live \cup abandoned \cup reaper.doomed
        \/ \E r \in Requests : task[r].pc = "insert" /\ task[r].s = s

\* The deque never outgrows the larger of the two configured limits, not even
\* while the reaper returns several workers, trims and prewarms.
IdleBounded == Len(idle) <= (IF MinIdle > MaxIdle THEN MinIdle ELSE MaxIdle)

\* Two sessions of the table never have their keystrokes in one worker, even
\* though handlers use a worker they noted before they got the pool mutex.
LiveSessionsApart ==
    \A w \in WorkerIds : \A s, t \in typed[w] \cap Live : s = t

\* A worker is handed to a session running and with an empty buffer, whatever
\* became of the reset when it was released (acquire_for_session).
CleanHandover ==
    [][\A s \in Sessions : busy[s] = NoWorker /\ busy'[s] # NoWorker =>
         busy'[s] \in alive' /\ typed'[busy'[s]] = {}]_vars

\* A key event is applied only if its number is above that of every key event
\* applied before in its session: "duplicate seq must return SEQ_OUT_OF_ORDER"
\* (src/bin/phase_a_contract_checker.rs).
KeysInOrder ==
    [][\A r \in Requests : task[r].pc = "mark" /\ task'[r].pc = "serve" =>
         task[r].seq > accepted[task[r].s]]_vars

\* A worker holds keystrokes of at most one session at a time: the isolation
\* that scripts/qq_concurrency_isolation.sh is there to show.
Isolated == \A w \in WorkerIds : \A s, t \in typed[w] : s = t

\* What isolation there is, and where it ends: a running worker shows keystrokes of
\* the session it is leased to only, until a handler gets the pool mutex after its
\* session's worker was given back (release_for_session, the pool section of the
\* session RPCs); no other step of anybody breaks that.
Tidy == \A w \in alive : \A s \in typed[w] : busy[s] = w

OnlyLateServesStray ==
    [][Tidy /\ ~Tidy' => \E r \in Requests : Serve(r) /\ busy[task[r].s] # task[r].w]_vars

\* Who holds a worker, read off the pool: the session it is leased to, the pool
\* while it is queued; a number used up without either is lost for good.  The
\* gateway implements WorkerLease under this mapping.
Holder(w) ==
    IF w \in Leased THEN CHOOSE s \in Sessions : busy[s] = w
    ELSE IF w \in Queued THEN Pooled
    ELSE IF w > nextWorkerId THEN Unborn ELSE Gone

Contract == INSTANCE WorkerLease WITH
    Workers <- WorkerIds,
    holder <- [w \in WorkerIds |-> Holder(w)],
    asked <- opened

LeaseContract == Contract!LeaseSpec

\* An idle session that nobody touches again gives its worker back.
IdleReclaimed ==
    \A s \in Sessions :
        (s \in Live /\ s \in expired) ~> ((s \notin expired /\ s \in Live) \/ busy[s] = NoWorker)

\* No handler waits for ever for a lock.
HandlersFinish == \A r \in Requests : Busy(r) ~> ~Busy(r)
=============================================================================
