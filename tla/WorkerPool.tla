----------------------------- MODULE WorkerPool -----------------------------
(***************************************************************************)
(* The pool of worker subprocesses of the v1 gateway (WorkerPool in        *)
(* src/ime-grpc-host/src/main.rs).  Every operation runs under the one     *)
(* pool mutex, so each operator below is one atomic step; Gateway.tla      *)
(* says which handler takes it and when.                                   *)
(*                                                                         *)
(* A worker is its number.  What it shows its client is abstracted to      *)
(* `typed`: the sessions whose keystrokes are in its input buffer.         *)
(***************************************************************************)
EXTENDS Naturals, Sequences, FiniteSets

CONSTANTS
    Sessions,    \* the session UUIDs the gateway may hand out
    MinIdle,     \* IME_POOL_MIN_IDLE
    MaxIdle,     \* IME_POOL_MAX_IDLE
    Prewarm,     \* IME_POOL_PREWARM
    MaxWorkers   \* bound: how many worker numbers a behaviour may use up

ASSUME PoolAssumption ==
    /\ MinIdle \in Nat
    /\ MaxIdle \in Nat
    /\ Prewarm \in BOOLEAN
    /\ MaxWorkers \in Nat

VARIABLES
    nextWorkerId, \* next_worker_id: the last number given out
    idle,         \* idle: VecDeque of worker numbers
    busy,         \* busy_by_session, NoWorker where the map has no entry
    workers,      \* keys of the registry `workers`
    alive,        \* workers whose subprocess runs
    typed         \* per worker: sessions whose keystrokes its buffer holds

poolVars == <<nextWorkerId, idle, busy, workers, alive, typed>>

NoWorker  == 0
WorkerIds == 1 .. MaxWorkers

Queued == {idle[i] : i \in DOMAIN idle}
Leased == {busy[s] : s \in Sessions} \ {NoWorker}

PoolTypeOK ==
    /\ nextWorkerId \in 0 .. MaxWorkers
    /\ idle \in Seq(WorkerIds)
    /\ busy \in [Sessions -> WorkerIds \cup {NoWorker}]
    /\ workers \subseteq WorkerIds
    /\ alive \subseteq WorkerIds
    /\ typed \in [WorkerIds -> SUBSET Sessions]

PoolInit ==
    /\ nextWorkerId = 0
    /\ idle = <<>>
    /\ busy = [s \in Sessions |-> NoWorker]
    /\ workers = {}
    /\ alive = {}
    /\ typed = [w \in WorkerIds |-> {}]

-----------------------------------------------------------------------------
(* spawn_worker.  The number is used up first (allocate_worker_id); beyond *)
(* the bound every spawn fails.  A process that starts and answers its     *)
(* first reset is registered; every failure kills the child, if there is   *)
(* one, and registers nothing.                                             *)
Spawned(w) ==
    /\ nextWorkerId < MaxWorkers
    /\ w = nextWorkerId + 1
    /\ nextWorkerId' = w
    /\ workers' = workers \cup {w}

SpawnFailed ==
    /\ nextWorkerId' = IF nextWorkerId < MaxWorkers THEN nextWorkerId + 1
                                                     ELSE nextWorkerId
    /\ UNCHANGED <<workers, alive>>

\* Mutant: front() for pop_front().
TakeIdle_Peeks(wantPrewarmed, w) ==
    /\ wantPrewarmed
    /\ idle # <<>>
    /\ w = Head(idle)
    /\ UNCHANGED <<idle, nextWorkerId, workers, alive>>

(* acquire_for_session takes a worker to hand out: the front of the deque  *)
(* if the client wants a prewarmed one and there is one, else a new one.   *)
TakeIdle(wantPrewarmed, w) ==
    /\ wantPrewarmed
    /\ idle # <<>>
    /\ w = Head(idle)
    /\ idle' = Tail(idle)
    /\ UNCHANGED <<nextWorkerId, workers, alive>>

TakeSpawned(wantPrewarmed, w) ==
    /\ wantPrewarmed => idle = <<>>
    /\ Spawned(w)
    /\ alive' = alive \cup {w}
    /\ UNCHANGED idle

Take(wantPrewarmed, w) ==
    TakeIdle(wantPrewarmed, w) \/ TakeSpawned(wantPrewarmed, w)

\* Mutant: no reset at hand-over, the one at release is relied on.
Grant_NoReset(s, w) ==
    /\ w \in alive'
    /\ busy' = [busy EXCEPT ![s] = w]
    /\ UNCHANGED typed

(* The worker answered the reset: it is the session's, with a clean buffer. *)
Grant(s, w) ==
    /\ w \in alive'
    /\ typed' = [typed EXCEPT ![w] = {}]
    /\ busy' = [busy EXCEPT ![s] = w]

Acquire(s, wantPrewarmed, w) == Take(wantPrewarmed, w) /\ Grant(s, w)

(* The error returns of acquire_for_session: nothing to hand out, or a      *)
(* worker whose process died before it answered the reset.  Such a worker  *)
(* is in neither the deque nor the busy map from then on, though it stays  *)
(* in the registry.                                                        *)
AcquireFails(wantPrewarmed) ==
    /\ \/ (wantPrewarmed => idle = <<>>) /\ SpawnFailed /\ UNCHANGED idle
       \/ \E w \in WorkerIds : TakeIdle(wantPrewarmed, w) /\ w \notin alive
       \/ /\ wantPrewarmed => idle = <<>>
          /\ \E w \in WorkerIds : Spawned(w)
          /\ UNCHANGED <<idle, alive>>
    /\ UNCHANGED <<busy, typed>>

\* Mutants: get() for remove() on the busy map; no reset at release, the one at
\* hand-over is relied on; a worker dropped from the registry without shutdown,
\* which leaves its process running.
Recycle_KeepsBusy(s) ==
    LET w == busy[s] IN
    /\ w # NoWorker
    /\ Len(idle) < MaxIdle
    /\ idle' = Append(idle, w)
    /\ typed' = IF w \in alive THEN [typed EXCEPT ![w] = {}] ELSE typed
    /\ UNCHANGED <<nextWorkerId, busy, workers, alive>>

Recycle_NoReset(s) ==
    LET w == busy[s] IN
    /\ w # NoWorker
    /\ Len(idle) < MaxIdle
    /\ idle' = Append(idle, w)
    /\ busy' = [busy EXCEPT ![s] = NoWorker]
    /\ UNCHANGED <<nextWorkerId, workers, alive, typed>>

Retire_NoShutdown(s) ==
    LET w == busy[s] IN
    /\ w # NoWorker
    /\ Len(idle) >= MaxIdle
    /\ workers' = workers \ {w}
    /\ busy' = [busy EXCEPT ![s] = NoWorker]
    /\ UNCHANGED <<nextWorkerId, idle, alive, typed>>

(* release_for_session: below the idle limit the worker is reset and goes  *)
(* to the back of the deque, and a reset that fails is ignored; at the     *)
(* limit it is shut down and forgotten.                                    *)
Recycle(s) ==
    LET w == busy[s] IN
    /\ w # NoWorker
    /\ Len(idle) < MaxIdle
    /\ idle' = Append(idle, w)
    /\ typed' = IF w \in alive THEN [typed EXCEPT ![w] = {}] ELSE typed
    /\ busy' = [busy EXCEPT ![s] = NoWorker]
    /\ UNCHANGED <<nextWorkerId, workers, alive>>

Retire(s) ==
    LET w == busy[s] IN
    /\ w # NoWorker
    /\ Len(idle) >= MaxIdle
    /\ workers' = workers \ {w}
    /\ alive' = alive \ {w}
    /\ busy' = [busy EXCEPT ![s] = NoWorker]
    /\ UNCHANGED <<nextWorkerId, idle, typed>>

Release(s) ==
    \/ Recycle(s)
    \/ Retire(s)
    \/ busy[s] = NoWorker /\ UNCHANGED poolVars

\* Mutants: <= for <; the empty id of a failed spawn queued like the others.
PrewarmOne_OneMore ==
    /\ Len(idle) <= MinIdle
    /\ \E w \in WorkerIds :
          /\ Spawned(w)
          /\ alive' = alive \cup {w}
          /\ idle' = Append(idle, w)
    /\ UNCHANGED <<busy, typed>>

PrewarmFails_Queues ==
    /\ Len(idle) < MinIdle
    /\ SpawnFailed
    /\ idle' = Append(idle, NoWorker)
    /\ UNCHANGED <<busy, typed>>

(* One turn of the loop of trim_idle, and of prewarm when the spawn works. *)
TrimOne ==
    LET w == idle[Len(idle)] IN
    /\ Len(idle) > MaxIdle
    /\ idle' = SubSeq(idle, 1, Len(idle) - 1)
    /\ workers' = workers \ {w}
    /\ alive' = alive \ {w}
    /\ UNCHANGED <<nextWorkerId, busy, typed>>

PrewarmOne ==
    /\ Len(idle) < MinIdle
    /\ \E w \in WorkerIds :
          /\ Spawned(w)
          /\ alive' = alive \cup {w}
          /\ idle' = Append(idle, w)
    /\ UNCHANGED <<busy, typed>>

PrewarmFails ==
    /\ Len(idle) < MinIdle
    /\ SpawnFailed
    /\ UNCHANGED <<idle, busy, typed>>

(* External: a worker process may die at any time; nothing tells the pool. *)
Crash(w) ==
    /\ w \in alive
    /\ alive' = alive \ {w}
    /\ UNCHANGED <<nextWorkerId, idle, busy, workers, typed>>
=============================================================================
