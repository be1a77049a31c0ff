---------------------------- MODULE GatewayProofs ---------------------------
(***************************************************************************)
(* Proofs about Gateway.tla, for any sessions, request slots and limits.   *)
(*                                                                         *)
(* The pool's operations keep the pool consistent by themselves (PoolInv). *)
(* That the session table agrees with the pool needs more, because the two *)
(* are changed under different locks: what an open carries from the pool   *)
(* to the table (Inserting), that an id not handed out occurs nowhere      *)
(* (Fresh), and that the reaper removes a session from the table before it *)
(* releases its worker (Reaping).                                          *)
(***************************************************************************)
EXTENDS Gateway, SequenceTheorems, TLAPS

-----------------------------------------------------------------------------
(* Sequences without repetition.                                           *)

Elems(q)    == {q[i] : i \in DOMAIN q}
Distinct(q) == \A i, j \in DOMAIN q : q[i] = q[j] => i = j

\* pop_front of a deque of distinct workers removes its head from it.
LEMMA PopFront ==
    ASSUME NEW S, NEW q \in Seq(S), q # <<>>, Distinct(q)
    PROVE  /\ Head(q) \in S
           /\ Head(q) \in Elems(q)
           /\ Tail(q) \in Seq(S)
           /\ Distinct(Tail(q))
           /\ Elems(Tail(q)) = Elems(q) \ {Head(q)}
<1>1. /\ Head(q) \in S /\ Tail(q) \in Seq(S)
      /\ Len(q) \in Nat \ {0} /\ DOMAIN q = 1 .. Len(q) /\ Head(q) = q[1]
      /\ Len(Tail(q)) = Len(q) - 1 /\ DOMAIN Tail(q) = 1 .. (Len(q) - 1)
      /\ \A i \in 1 .. (Len(q) - 1) : Tail(q)[i] = q[i + 1]
  OBVIOUS
<1>2. Head(q) \in Elems(q)
  BY <1>1 DEF Elems
<1>3. Distinct(Tail(q))
  BY <1>1 DEF Distinct
<1>4. Elems(Tail(q)) = Elems(q) \ {Head(q)}
  <2>1. ASSUME NEW x \in Elems(Tail(q))
        PROVE  x \in Elems(q) \ {Head(q)}
    <3>1. PICK i \in 1 .. (Len(q) - 1) : x = q[i + 1]
      BY <2>1, <1>1 DEF Elems
    <3>2. i + 1 \in DOMAIN q /\ 1 \in DOMAIN q /\ i + 1 # 1
      BY <3>1, <1>1
    <3> QED BY <3>1, <3>2, <1>1 DEF Elems, Distinct
  <2>2. ASSUME NEW x \in Elems(q), x # Head(q)
        PROVE  x \in Elems(Tail(q))
    <3>1. PICK i \in 1 .. Len(q) : x = q[i]
      BY <2>2, <1>1 DEF Elems
    <3>2. i - 1 \in 1 .. (Len(q) - 1) /\ Tail(q)[i - 1] = q[i]
      BY <3>1, <2>2, <1>1
    <3> QED BY <3>1, <3>2, <1>1 DEF Elems
  <2> QED BY <2>1, <2>2
<1> QED BY <1>1, <1>2, <1>3, <1>4

\* push_back of a worker not in the deque.
LEMMA PushBack ==
    ASSUME NEW S, NEW q \in Seq(S), NEW w \in S, w \notin Elems(q), Distinct(q)
    PROVE  /\ Append(q, w) \in Seq(S)
           /\ Distinct(Append(q, w))
           /\ Elems(Append(q, w)) = Elems(q) \cup {w}
<1> DEFINE p == Append(q, w)
<1>1. /\ p \in Seq(S) /\ Len(q) \in Nat /\ DOMAIN q = 1 .. Len(q)
      /\ DOMAIN p = 1 .. (Len(q) + 1)
      /\ p[Len(q) + 1] = w /\ \A i \in 1 .. Len(q) : p[i] = q[i]
  OBVIOUS
<1> HIDE DEF p
<1>2. \A i \in 1 .. Len(q) : p[i] # w
  BY <1>1 DEF Elems
<1>3. Distinct(p)
  BY <1>1, <1>2 DEF Distinct
<1>4. Elems(p) = Elems(q) \cup {w}
  <2>1. ASSUME NEW x \in Elems(p) PROVE x \in Elems(q) \cup {w}
    BY <2>1, <1>1 DEF Elems
  <2>2. ASSUME NEW x \in Elems(q) PROVE x \in Elems(p)
    <3>1. PICK i \in 1 .. Len(q) : x = q[i]
      BY <2>2, <1>1 DEF Elems
    <3> QED BY <3>1, <1>1 DEF Elems
  <2>3. w \in Elems(p)
    BY <1>1 DEF Elems
  <2> QED BY <2>1, <2>2, <2>3
<1> QED BY <1>1, <1>3, <1>4 DEF p

\* pop_back of a deque of distinct workers removes its last from it.
LEMMA PopBack ==
    ASSUME NEW S, NEW q \in Seq(S), Len(q) > 0, Distinct(q)
    PROVE  /\ q[Len(q)] \in S
           /\ q[Len(q)] \in Elems(q)
           /\ SubSeq(q, 1, Len(q) - 1) \in Seq(S)
           /\ Distinct(SubSeq(q, 1, Len(q) - 1))
           /\ Elems(SubSeq(q, 1, Len(q) - 1)) = Elems(q) \ {q[Len(q)]}
<1> DEFINE p == SubSeq(q, 1, Len(q) - 1)
<1>1. Len(q) \in Nat \ {0} /\ DOMAIN q = 1 .. Len(q) /\ q[Len(q)] \in S
  OBVIOUS
<1>2. /\ p \in Seq(S) /\ DOMAIN p = 1 .. (Len(q) - 1)
      /\ \A i \in 1 .. (Len(q) - 1) : p[i] = q[i]
  BY <1>1
<1> HIDE DEF p
<1>3. Distinct(p)
  BY <1>1, <1>2 DEF Distinct
<1>4. Elems(p) = Elems(q) \ {q[Len(q)]}
  <2>1. ASSUME NEW x \in Elems(p) PROVE x \in Elems(q) \ {q[Len(q)]}
    <3>1. PICK i \in 1 .. (Len(q) - 1) : x = q[i]
      BY <2>1, <1>2 DEF Elems
    <3>2. i \in 1 .. Len(q) /\ Len(q) \in 1 .. Len(q) /\ i # Len(q)
      <4>1. Len(q) \in Nat /\ Len(q) > 0
        BY <1>1
      <4> QED BY <4>1
    <3> QED BY <3>1, <3>2, <1>1 DEF Elems, Distinct
  <2>2. ASSUME NEW x \in Elems(q), x # q[Len(q)] PROVE x \in Elems(p)
    <3>1. PICK i \in 1 .. Len(q) : x = q[i]
      BY <2>2, <1>1 DEF Elems
    <3>2. i \in 1 .. (Len(q) - 1)
      BY <3>1, <2>2, <1>1
    <3> QED BY <3>1, <3>2, <1>2 DEF Elems
  <2> QED BY <2>1, <2>2
<1>5. q[Len(q)] \in Elems(q)
  BY <1>1 DEF Elems
<1> QED BY <1>1, <1>2, <1>3, <1>4, <1>5 DEF p

-----------------------------------------------------------------------------
(* The pool.                                                               *)

\* What the pool's operations keep: every worker in use is registered under a
\* number that was given out, and is in use once.
PoolInv ==
    /\ PoolTypeOK
    /\ Distinct(idle)
    /\ \A s, t \in Sessions : busy[s] = busy[t] /\ busy[s] # NoWorker => s = t
    /\ \A s \in Sessions : busy[s] # NoWorker =>
          busy[s] \in workers /\ busy[s] \notin Elems(idle)
    /\ Elems(idle) \subseteq workers
    /\ alive \subseteq workers
    /\ workers \subseteq 1 .. nextWorkerId

\* No operation of the pool puts keystrokes into a buffer.
Wipes == \A w \in WorkerIds : typed'[w] \subseteq typed[w]

LEMMA PoolInvImplies == PoolInv => WorkersExclusive /\ RegistryComplete
<1> SUFFICES ASSUME PoolInv PROVE WorkersExclusive /\ RegistryComplete
  OBVIOUS
<1>1. Queued = Elems(idle)
  BY DEF Queued, Elems
<1>2. \A w \in Leased : w \in workers /\ w \notin Elems(idle)
  BY DEF PoolInv, Leased
<1>3. WorkersExclusive
  BY <1>1, <1>2 DEF PoolInv, WorkersExclusive, Distinct
<1>4. RegistryComplete
  BY <1>1, <1>2 DEF PoolInv, RegistryComplete
<1> QED BY <1>3, <1>4

\* A number just given out is nobody's.
LEMMA NewNumber ==
    ASSUME PoolInv, NEW w \in WorkerIds, Spawned(w)
    PROVE  /\ w \notin workers /\ w \notin Elems(idle)
           /\ \A s \in Sessions : busy[s] # w
           /\ nextWorkerId' \in 0 .. MaxWorkers
           /\ workers' = workers \cup {w}
           /\ workers' \subseteq 1 .. nextWorkerId'
<1>1. nextWorkerId \in Nat /\ MaxWorkers \in Nat /\ w = nextWorkerId + 1
  BY PoolAssumption DEF PoolInv, PoolTypeOK, Spawned
<1>2. w \notin workers
  BY <1>1 DEF PoolInv
<1>3. nextWorkerId' \in 0 .. MaxWorkers /\ workers' = workers \cup {w}
      /\ nextWorkerId' = nextWorkerId + 1
  BY <1>1 DEF Spawned
<1>4. workers' \subseteq 1 .. nextWorkerId'
  BY <1>1, <1>3 DEF PoolInv
<1>5. w # NoWorker
  BY <1>1 DEF NoWorker
<1> QED BY <1>2, <1>3, <1>4, <1>5 DEF PoolInv

\* Giving a number out and failing to start its worker changes nothing else.
LEMMA NumberLost ==
    ASSUME PoolInv, SpawnFailed, UNCHANGED <<idle, busy, typed>>
    PROVE  PoolInv'
<1>1. /\ nextWorkerId' \in 0 .. MaxWorkers
      /\ workers \subseteq 1 .. nextWorkerId'
  BY PoolAssumption DEF PoolInv, PoolTypeOK, SpawnFailed
<1>2. PoolTypeOK'
  BY <1>1 DEF PoolInv, PoolTypeOK, SpawnFailed
<1> QED BY <1>1, <1>2 DEF PoolInv, SpawnFailed

\* acquire_for_session hands a session without a worker one that nobody holds.
LEMMA AcquireKeeps ==
    ASSUME PoolInv, NEW s \in Sessions, busy[s] = NoWorker,
           NEW want \in BOOLEAN, NEW w \in WorkerIds, Acquire(s, want, w)
    PROVE  PoolInv' /\ busy' = [busy EXCEPT ![s] = w] /\ Wipes
<1> USE DEF Acquire, Grant
<1>1. busy' = [busy EXCEPT ![s] = w] /\ busy' \in [Sessions -> WorkerIds \cup {NoWorker}]
      /\ typed' \in [WorkerIds -> SUBSET Sessions] /\ w # NoWorker
  BY DEF PoolInv, PoolTypeOK, WorkerIds, NoWorker
<1>0. Wipes
  BY DEF PoolInv, PoolTypeOK, Wipes
<1>2. CASE TakeIdle(want, w)
  <2>1. /\ idle \in Seq(WorkerIds) /\ idle # <<>> /\ Distinct(idle) /\ w = Head(idle)
        /\ idle' = Tail(idle)
    BY <1>2 DEF PoolInv, PoolTypeOK, TakeIdle
  <2>2. /\ idle' \in Seq(WorkerIds) /\ Distinct(idle') /\ w \in Elems(idle)
        /\ Elems(idle') = Elems(idle) \ {w}
    BY <2>1, PopFront
  <2>3. PoolTypeOK'
    BY <1>1, <1>2, <2>2 DEF PoolInv, PoolTypeOK, TakeIdle
  <2>4. w \in workers /\ \A u \in Sessions : busy[u] # w
    BY <2>2, <1>1 DEF PoolInv
  <2>5. UNCHANGED <<nextWorkerId, workers, alive>>
    BY <1>2 DEF TakeIdle
  <2> QED
    BY <1>0, <1>1, <2>2, <2>3, <2>4, <2>5 DEF PoolInv, PoolTypeOK
<1>3. CASE TakeSpawned(want, w)
  <2>1. Spawned(w) /\ alive' = alive \cup {w} /\ idle' = idle
    BY <1>3 DEF TakeSpawned
  <2>2. /\ w \notin Elems(idle) /\ \A u \in Sessions : busy[u] # w
        /\ nextWorkerId' \in 0 .. MaxWorkers /\ workers' = workers \cup {w}
        /\ workers' \subseteq 1 .. nextWorkerId'
    BY <2>1, NewNumber
  <2>3. PoolTypeOK'
    BY <1>1, <2>1, <2>2 DEF PoolInv, PoolTypeOK
  <2> QED
    BY <1>0, <1>1, <2>1, <2>2, <2>3 DEF PoolInv, PoolTypeOK
<1> QED BY <1>2, <1>3 DEF Take

\* Its error returns lose at most the worker they took.
LEMMA AcquireFailsKeeps ==
    ASSUME PoolInv, NEW want \in BOOLEAN, AcquireFails(want)
    PROVE  PoolInv' /\ UNCHANGED <<busy, typed>>
<1>1. UNCHANGED <<busy, typed>>
  BY DEF AcquireFails
<1>2. CASE SpawnFailed /\ UNCHANGED idle
  BY <1>1, <1>2, NumberLost
<1>3. CASE \E w \in WorkerIds : TakeIdle(want, w) /\ w \notin alive
  <2>1. /\ idle \in Seq(WorkerIds) /\ idle # <<>> /\ Distinct(idle)
        /\ idle' = Tail(idle) /\ UNCHANGED <<nextWorkerId, workers, alive>>
    BY <1>3 DEF PoolInv, PoolTypeOK, TakeIdle
  <2>2. /\ idle' \in Seq(WorkerIds) /\ Distinct(idle')
        /\ Elems(idle') \subseteq Elems(idle)
    BY <2>1, PopFront
  <2> QED BY <1>1, <2>1, <2>2 DEF PoolInv, PoolTypeOK
<1>4. CASE \E w \in WorkerIds : Spawned(w) /\ UNCHANGED <<idle, alive>>
  <2>1. PICK w \in WorkerIds : Spawned(w) /\ UNCHANGED <<idle, alive>>
    BY <1>4
  <2>2. /\ nextWorkerId' \in 0 .. MaxWorkers /\ workers' = workers \cup {w}
        /\ workers' \subseteq 1 .. nextWorkerId'
    BY <2>1, NewNumber
  <2> QED BY <1>1, <2>1, <2>2 DEF PoolInv, PoolTypeOK
<1> QED BY <1>1, <1>2, <1>3, <1>4 DEF AcquireFails

\* release_for_session takes the session's worker from it and leaves it in one
\* place or in none.
LEMMA ReleaseKeeps ==
    ASSUME PoolInv, NEW s \in Sessions, Release(s)
    PROVE  PoolInv' /\ busy' = [busy EXCEPT ![s] = NoWorker] /\ Wipes
<1>0. Wipes
  BY DEF PoolInv, PoolTypeOK, Wipes, Release, Recycle, Retire, poolVars
<1>1. CASE Recycle(s)
  <2> DEFINE w == busy[s]
  <2>1. /\ w # NoWorker /\ w \in WorkerIds
        /\ busy' = [busy EXCEPT ![s] = NoWorker]
        /\ busy' \in [Sessions -> WorkerIds \cup {NoWorker}]
        /\ idle' = Append(idle, w)
        /\ UNCHANGED <<nextWorkerId, workers, alive>>
    BY <1>1 DEF PoolInv, PoolTypeOK, Recycle
  <2>2. w \in workers /\ w \notin Elems(idle)
        /\ \A u \in Sessions : u # s => busy[u] # w
    BY <2>1 DEF PoolInv
  <2>3. typed' \in [WorkerIds -> SUBSET Sessions]
    BY <1>1 DEF PoolInv, PoolTypeOK, Recycle
  <2>4. idle \in Seq(WorkerIds) /\ Distinct(idle)
    BY DEF PoolInv, PoolTypeOK
  <2>5. /\ idle' \in Seq(WorkerIds) /\ Distinct(idle')
        /\ Elems(idle') = Elems(idle) \cup {w}
    BY <2>1, <2>2, <2>4, PushBack
  <2> HIDE DEF w
  <2>6. PoolTypeOK'
    BY <2>1, <2>3, <2>5 DEF PoolInv, PoolTypeOK
  <2>7. \A u \in Sessions : busy'[u] = IF u = s THEN NoWorker ELSE busy[u]
    BY <2>1 DEF PoolInv, PoolTypeOK
  <2> QED BY <1>0, <2>1, <2>2, <2>5, <2>6, <2>7 DEF PoolInv
<1>2. CASE Retire(s)
  <2>1. /\ busy[s] # NoWorker
        /\ busy' = [busy EXCEPT ![s] = NoWorker]
        /\ busy' \in [Sessions -> WorkerIds \cup {NoWorker}]
        /\ workers' = workers \ {busy[s]} /\ alive' = alive \ {busy[s]}
        /\ UNCHANGED <<nextWorkerId, idle, typed>>
    BY <1>2 DEF PoolInv, PoolTypeOK, Retire
  <2>2. busy[s] \notin Elems(idle) /\ \A u \in Sessions : u # s => busy[u] # busy[s]
    BY <2>1 DEF PoolInv
  <2>3. PoolTypeOK'
    BY <2>1 DEF PoolInv, PoolTypeOK
  <2>4. \A u \in Sessions : busy'[u] = IF u = s THEN NoWorker ELSE busy[u]
    BY <2>1 DEF PoolInv, PoolTypeOK
  <2> QED BY <1>0, <2>1, <2>2, <2>3, <2>4 DEF PoolInv
<1>3. CASE busy[s] = NoWorker /\ UNCHANGED poolVars
  <2>1. busy' = [busy EXCEPT ![s] = NoWorker]
    BY <1>3 DEF PoolInv, PoolTypeOK, poolVars
  <2> QED BY <1>0, <1>3, <2>1 DEF PoolInv, PoolTypeOK, poolVars
<1> QED BY <1>1, <1>2, <1>3 DEF Release

LEMMA TrimKeeps ==
    ASSUME PoolInv, TrimOne
    PROVE  PoolInv' /\ UNCHANGED <<busy, typed>>
<1>1. /\ idle \in Seq(WorkerIds) /\ Distinct(idle) /\ Len(idle) > 0
      /\ idle' = SubSeq(idle, 1, Len(idle) - 1)
      /\ workers' = workers \ {idle[Len(idle)]} /\ alive' = alive \ {idle[Len(idle)]}
      /\ UNCHANGED <<nextWorkerId, busy, typed>>
  BY PoolAssumption DEF PoolInv, PoolTypeOK, TrimOne
<1>2. /\ idle' \in Seq(WorkerIds) /\ Distinct(idle')
      /\ Elems(idle') = Elems(idle) \ {idle[Len(idle)]}
      /\ idle[Len(idle)] \in Elems(idle)
  BY <1>1, PopBack
<1>3. PoolTypeOK'
  BY <1>1, <1>2 DEF PoolInv, PoolTypeOK
<1> QED BY <1>1, <1>2, <1>3 DEF PoolInv

LEMMA PrewarmKeeps ==
    ASSUME PoolInv, PrewarmOne
    PROVE  PoolInv' /\ UNCHANGED <<busy, typed>>
<1>1. PICK w \in WorkerIds : /\ Spawned(w)
                             /\ alive' = alive \cup {w}
                             /\ idle' = Append(idle, w)
  BY DEF PrewarmOne
<1>2. UNCHANGED <<busy, typed>> /\ idle \in Seq(WorkerIds) /\ Distinct(idle)
  BY DEF PrewarmOne, PoolInv, PoolTypeOK
<1>3. /\ w \notin Elems(idle) /\ \A s \in Sessions : busy[s] # w
      /\ nextWorkerId' \in 0 .. MaxWorkers /\ workers' = workers \cup {w}
      /\ workers' \subseteq 1 .. nextWorkerId'
  BY <1>1, NewNumber
<1>4. /\ idle' \in Seq(WorkerIds) /\ Distinct(idle')
      /\ Elems(idle') = Elems(idle) \cup {w}
  BY <1>1, <1>2, <1>3, PushBack
<1>5. PoolTypeOK'
  BY <1>1, <1>2, <1>3, <1>4 DEF PoolInv, PoolTypeOK
<1> QED BY <1>1, <1>2, <1>3, <1>4, <1>5 DEF PoolInv

LEMMA CrashKeeps ==
    ASSUME PoolInv, NEW w \in WorkerIds, Crash(w)
    PROVE  PoolInv' /\ UNCHANGED <<busy, typed>>
  BY DEF PoolInv, PoolTypeOK, Crash

\* Steps that leave the pool alone.
LEMMA PoolUntouched ==
    ASSUME PoolInv, UNCHANGED poolVars
    PROVE  PoolInv' /\ UNCHANGED <<busy, typed>>
  BY DEF PoolInv, PoolTypeOK, poolVars

-----------------------------------------------------------------------------
(* The gateway.                                                            *)

GateTypeOK ==
    /\ opened \subseteq Sessions
    /\ table \in [Sessions -> WorkerIds \cup {NoWorker}]
    /\ lastSeq \in [Sessions -> 0 .. MaxSeq]
    /\ expired \subseteq Sessions
    /\ task \in [Requests -> Tasks]
    /\ reaper \in [pc : ReaperPcs, doomed : SUBSET Sessions]
    /\ abandoned \subseteq Sessions
    /\ accepted \in [Sessions -> 0 .. MaxSeq]

\* A handler past its first lock serves a session that was opened; the worker
\* it noted is the only one that session can hold.
Noted ==
    \A r \in Requests : task[r].pc # Idle =>
        /\ task[r].s \in opened
        /\ busy[task[r].s] # NoWorker => busy[task[r].s] = task[r].w

\* Between its two locks an open alone knows its session.
Inserting ==
    \A r \in Requests : task[r].pc = "insert" =>
        /\ task[r].w # NoWorker
        /\ busy[task[r].s] = task[r].w
        /\ table[task[r].s] = NoWorker
        /\ task[r].s \notin reaper.doomed
        /\ \A q \in Requests : task[q].pc = "insert" /\ task[q].s = task[r].s => q = r

\* An id that was not handed out occurs nowhere.
Fresh ==
    \A s \in Sessions \ opened :
        busy[s] = NoWorker /\ table[s] = NoWorker /\ s \notin reaper.doomed

\* The reaper's list: of the table until removed, then out of it until released.
Reaping ==
    /\ reaper.pc = "remove" => \A s \in reaper.doomed : table[s] # NoWorker
    /\ reaper.pc \in {"wait", "release"} => \A s \in reaper.doomed : table[s] = NoWorker
    /\ reaper.pc \in {"sleep", "prewarm"} => reaper.doomed = {}

\* A worker shows keystrokes of sessions that were opened, and of those that
\* still hold a worker only the one that holds it.
TypedOwn ==
    \A w \in WorkerIds : \A s \in typed[w] :
        s \in opened /\ (busy[s] # NoWorker => busy[s] = w)

Inv ==
    /\ PoolInv /\ GateTypeOK
    /\ TableMatchesPool /\ LeaseAccounted
    /\ Noted /\ Inserting /\ Fresh /\ Reaping /\ TypedOwn

LEMMA InvInit == Init => Inv
<1> SUFFICES ASSUME Init PROVE Inv
  OBVIOUS
<1> USE DEF Init, PoolInit
<1>1. PoolInv
  BY PoolAssumption DEF PoolInv, PoolTypeOK, Distinct, Elems, NoWorker
<1>2. GateTypeOK
  BY GatewayAssumption DEF GateTypeOK, NoTask, Tasks, TaskPcs, Ops, Idle, NoWorker,
     ReaperPcs, PoolHeld
<1>3. TableMatchesPool /\ LeaseAccounted
  BY DEF TableMatchesPool, LeaseAccounted, Live
<1>4. Noted /\ Inserting
  BY DEF Noted, Inserting, NoTask, Idle
<1>5. Fresh /\ Reaping /\ TypedOwn
  BY DEF Fresh, Reaping, TypedOwn
<1> QED BY <1>1, <1>2, <1>3, <1>4, <1>5 DEF Inv

\* What a slot's handler becomes, and the rest of the slots.
LEMMA SlotChanges ==
    ASSUME GateTypeOK, NEW r \in Requests, NEW t \in Tasks, task' = [task EXCEPT ![r] = t]
    PROVE  /\ task' \in [Requests -> Tasks]
           /\ task'[r] = t
           /\ \A q \in Requests : q # r => task'[q] = task[q]
  BY DEF GateTypeOK

LEMMA OpenAcquireKeeps ==
    ASSUME Inv, NEW r \in Requests, NEW s \in Sessions, OpenAcquire(r, s)
    PROVE  Inv'
<1>1. /\ s \notin opened /\ opened' = opened \cup {s} /\ task[r].pc = Idle
      /\ UNCHANGED <<table, lastSeq, expired, reaper, abandoned, accepted>>
  BY DEF OpenAcquire, Busy
<1>2. /\ busy[s] = NoWorker /\ table[s] = NoWorker /\ s \notin reaper.doomed
      /\ \A q \in Requests : task[q].pc # Idle => task[q].s # s
      /\ \A w \in WorkerIds : s \notin typed[w]
  BY <1>1 DEF Inv, Fresh, Noted, TypedOwn
<1>3. PICK want \in BOOLEAN :
         \/ \E w \in WorkerIds :
               /\ Acquire(s, want, w)
               /\ Goes(r, [pc |-> "insert", op |-> "open", s |-> s, seq |-> 0, w |-> w])
         \/ AcquireFails(want) /\ UNCHANGED task
  BY DEF OpenAcquire
<1>4. CASE AcquireFails(want) /\ UNCHANGED task
  <2>1. PoolInv' /\ UNCHANGED <<busy, typed>>
    BY <1>4, AcquireFailsKeeps DEF Inv
  <2>2. GateTypeOK'
    BY <1>1, <1>4 DEF Inv, GateTypeOK
  <2>3. TableMatchesPool' /\ LeaseAccounted'
    BY <1>1, <1>4, <2>1 DEF Inv, TableMatchesPool, LeaseAccounted, Live
  <2>4. Noted' /\ Inserting'
    BY <1>1, <1>4, <2>1 DEF Inv, Noted, Inserting
  <2>5. Fresh' /\ Reaping' /\ TypedOwn'
    BY <1>1, <2>1 DEF Inv, Fresh, Reaping, TypedOwn
  <2> QED BY <2>1, <2>2, <2>3, <2>4, <2>5 DEF Inv
<1>5. CASE \E w \in WorkerIds :
              /\ Acquire(s, want, w)
              /\ Goes(r, [pc |-> "insert", op |-> "open", s |-> s, seq |-> 0, w |-> w])
  <2> PICK w \in WorkerIds :
         /\ Acquire(s, want, w)
         /\ Goes(r, [pc |-> "insert", op |-> "open", s |-> s, seq |-> 0, w |-> w])
    BY <1>5
  <2> DEFINE t == [pc |-> "insert", op |-> "open", s |-> s, seq |-> 0, w |-> w]
  <2>1. PoolInv' /\ busy' = [busy EXCEPT ![s] = w] /\ Wipes
    BY <1>2, AcquireKeeps DEF Inv
  <2>2. /\ t \in Tasks /\ t.pc = "insert" /\ t.s = s /\ t.w = w /\ w # NoWorker
        /\ t.pc # Idle
    BY GatewayAssumption DEF NoTask, Tasks, TaskPcs, Ops, Idle, NoWorker, WorkerIds
  <2>3. /\ task' \in [Requests -> Tasks] /\ task'[r] = t
        /\ \A q \in Requests : q # r => task'[q] = task[q]
    BY <2>2, SlotChanges DEF Inv, Goes
  <2> HIDE DEF t
  <2>4. \A u \in Sessions : busy'[u] = IF u = s THEN w ELSE busy[u]
    BY <2>1 DEF Inv, PoolInv, PoolTypeOK
  <2>5. GateTypeOK'
    BY <1>1, <2>3 DEF Inv, GateTypeOK
  <2>6. TableMatchesPool'
    BY <1>1, <1>2, <2>4 DEF Inv, TableMatchesPool, Live
  <2>7. LeaseAccounted'
    <3> SUFFICES ASSUME NEW u \in Sessions, busy'[u] # NoWorker
                 PROVE  \/ u \in (Live \cup abandoned \cup reaper.doomed)'
                        \/ \E q \in Requests : task'[q].pc = "insert" /\ task'[q].s = u
      BY DEF LeaseAccounted
    <3>1. CASE u = s
      BY <3>1, <2>2, <2>3
    <3>2. CASE u # s
      BY <3>2, <1>1, <2>3, <2>4 DEF Inv, LeaseAccounted, Live, Idle
    <3> QED BY <3>1, <3>2
  <2>8. Noted'
    BY <1>1, <1>2, <2>2, <2>3, <2>4 DEF Inv, Noted, GateTypeOK
  <2>9. Inserting'
    BY <1>1, <1>2, <2>2, <2>3, <2>4 DEF Inv, Inserting, Noted, GateTypeOK, Idle
  <2>10. Fresh' /\ Reaping'
    BY <1>1, <2>4 DEF Inv, Fresh, Reaping
  <2>11. TypedOwn'
    BY <1>1, <1>2, <2>1, <2>4 DEF Inv, TypedOwn, Wipes, GateTypeOK
  <2> QED BY <2>1, <2>5, <2>6, <2>7, <2>8, <2>9, <2>10, <2>11 DEF Inv
<1> QED BY <1>3, <1>4, <1>5

LEMMA OpenInsertKeeps ==
    ASSUME Inv, NEW r \in Requests, OpenInsert(r)
    PROVE  Inv'
<1> DEFINE s == task[r].s
           w == task[r].w
<1>1. /\ task[r].pc = "insert" /\ table' = [table EXCEPT ![s] = w]
      /\ lastSeq' = [lastSeq EXCEPT ![s] = 0] /\ task' = [task EXCEPT ![r] = NoTask]
      /\ UNCHANGED <<poolVars, opened, expired, reaper, abandoned, accepted>>
  BY DEF OpenInsert, Finish
<1>2. /\ s \in opened /\ s \in Sessions /\ w \in WorkerIds /\ w # NoWorker
      /\ busy[s] = w /\ table[s] = NoWorker /\ s \notin reaper.doomed
      /\ \A q \in Requests : task[q].pc = "insert" /\ task[q].s = s => q = r
  BY <1>1 DEF Inv, Inserting, Noted, GateTypeOK, Idle, Tasks
<1>3. NoTask \in Tasks /\ NoTask.pc = Idle /\ Idle # "insert"
  BY GatewayAssumption DEF NoTask, Tasks, TaskPcs, Ops, Idle, NoWorker
<1>4. /\ task' \in [Requests -> Tasks] /\ task'[r] = NoTask
      /\ \A q \in Requests : q # r => task'[q] = task[q]
  BY <1>1, <1>3, SlotChanges DEF Inv
<1>5. PoolInv' /\ UNCHANGED <<busy, typed>>
  BY <1>1, PoolUntouched DEF Inv
<1> HIDE DEF s, w
<1>6. GateTypeOK' /\ \A u \in Sessions : table'[u] = IF u = s THEN w ELSE table[u]
  BY <1>1, <1>2, <1>4, GatewayAssumption DEF Inv, GateTypeOK
<1>7. TableMatchesPool'
  BY <1>2, <1>5, <1>6 DEF Inv, TableMatchesPool, Live
<1>8. LeaseAccounted'
  <2> SUFFICES ASSUME NEW u \in Sessions, busy'[u] # NoWorker
               PROVE  \/ u \in (Live \cup abandoned \cup reaper.doomed)'
                      \/ \E q \in Requests : task'[q].pc = "insert" /\ task'[q].s = u
    BY DEF LeaseAccounted
  <2>1. CASE u = s
    BY <2>1, <1>2, <1>6 DEF Live
  <2>2. CASE u # s
    BY <2>2, <1>1, <1>4, <1>5, <1>6 DEF Inv, LeaseAccounted, Live, s
  <2> QED BY <2>1, <2>2
<1>9. Noted' /\ Inserting'
  BY <1>1, <1>2, <1>3, <1>4, <1>5, <1>6 DEF Inv, Noted, Inserting, GateTypeOK
<1>10. Fresh' /\ Reaping'
  BY <1>1, <1>2, <1>5, <1>6 DEF Inv, Fresh, Reaping, GateTypeOK
<1>11. TypedOwn'
  BY <1>1, <1>5 DEF Inv, TypedOwn
<1> QED BY <1>5, <1>6, <1>7, <1>8, <1>9, <1>10, <1>11 DEF Inv

\* A step that changes one slot's handler, not to or from the insertion of a
\* session, and besides it only marks of time and numbers.
LEMMA HandlerStepKeeps ==
    ASSUME Inv, NEW r \in Requests, NEW t \in Tasks,
           task' = [task EXCEPT ![r] = t],
           task[r].pc # "insert", t.pc # "insert",
           t.pc # Idle => /\ t.s \in opened
                          /\ busy[t.s] # NoWorker => busy[t.s] = t.w,
           lastSeq' \in [Sessions -> 0 .. MaxSeq],
           accepted' \in [Sessions -> 0 .. MaxSeq],
           expired' \subseteq Sessions,
           PoolInv', UNCHANGED <<busy, opened, table, reaper, abandoned>>,
           TypedOwn'
    PROVE  Inv'
<1>1. /\ task' \in [Requests -> Tasks] /\ task'[r] = t
      /\ \A q \in Requests : q # r => task'[q] = task[q]
  BY SlotChanges DEF Inv
<1>2. GateTypeOK'
  BY <1>1 DEF Inv, GateTypeOK
<1>3. TableMatchesPool' /\ LeaseAccounted'
  BY <1>1 DEF Inv, TableMatchesPool, LeaseAccounted, Live
<1>4. Noted' /\ Inserting'
  BY <1>1 DEF Inv, Noted, Inserting
<1>5. Fresh' /\ Reaping'
  BY DEF Inv, Fresh, Reaping
<1> QED BY <1>2, <1>3, <1>4, <1>5 DEF Inv

\* What a session of the table holds is what its entry says.
LEMMA EntryHeld ==
    ASSUME Inv, NEW s \in Sessions, table[s] # NoWorker
    PROVE  s \in opened /\ busy[s] = table[s] /\ table[s] \in WorkerIds
  BY DEF Inv, TableMatchesPool, Live, Fresh, GateTypeOK

LEMMA TypedUntouched ==
    ASSUME Inv, UNCHANGED <<typed, busy, opened>>
    PROVE  TypedOwn'
  BY DEF Inv, TypedOwn

LEMMA KeyCheckKeeps ==
    ASSUME Inv, NEW r \in Requests, NEW s \in Sessions, NEW q \in Seqs, KeyCheck(r, s, q)
    PROVE  Inv'
<1> DEFINE t == [pc |-> "mark", op |-> "key", s |-> s, seq |-> q, w |-> table[s]]
<1>1. /\ table[s] # NoWorker /\ task[r].pc = Idle /\ task' = [task EXCEPT ![r] = t]
      /\ UNCHANGED <<poolVars, opened, table, lastSeq, expired, reaper, abandoned, accepted>>
  BY DEF KeyCheck, MaySend, Busy, Goes
<1>2. s \in opened /\ busy[s] = table[s] /\ table[s] \in WorkerIds
  BY <1>1, EntryHeld
<1>3. /\ t \in Tasks /\ t.pc # Idle /\ t.pc # "insert" /\ t.s = s /\ t.w = table[s]
      /\ Idle # "insert"
  BY <1>2, GatewayAssumption DEF Tasks, TaskPcs, Ops, Idle, Seqs
<1>4. PoolInv' /\ UNCHANGED <<busy, typed>> /\ TypedOwn'
  BY <1>1, PoolUntouched, TypedUntouched DEF Inv
<1> HIDE DEF t
<1> QED BY <1>1, <1>2, <1>3, <1>4, HandlerStepKeeps DEF Inv, GateTypeOK

LEMMA KeyMarkKeeps ==
    ASSUME Inv, NEW r \in Requests, KeyMark(r)
    PROVE  Inv'
<1> DEFINE s == task[r].s
           t == IF table[s] = NoWorker THEN NoTask
                ELSE [pc |-> "serve", op |-> "key", s |-> s, seq |-> 0, w |-> task[r].w]
<1>1. /\ task[r].pc = "mark" /\ task' = [task EXCEPT ![r] = t]
      /\ UNCHANGED <<poolVars, opened, table, reaper, abandoned>>
  BY DEF KeyMark, Finish, Goes
<1>2. /\ task[r] \in Tasks /\ s \in opened
      /\ busy[s] # NoWorker => busy[s] = task[r].w
  BY <1>1 DEF Inv, Noted, GateTypeOK, Idle
<1>3. /\ t \in Tasks /\ t.pc # "insert" /\ (t.pc # Idle => t.s = s /\ t.w = task[r].w)
  BY <1>2, GatewayAssumption DEF Tasks, TaskPcs, Ops, Idle, NoTask, NoWorker
<1>4. /\ lastSeq' \in [Sessions -> 0 .. MaxSeq] /\ accepted' \in [Sessions -> 0 .. MaxSeq]
      /\ expired' \subseteq Sessions
  BY <1>2 DEF KeyMark, Inv, GateTypeOK, Tasks
<1>5. PoolInv' /\ UNCHANGED <<busy, typed>> /\ TypedOwn'
  BY <1>1, PoolUntouched, TypedUntouched DEF Inv
<1> HIDE DEF s, t
<1> QED BY <1>1, <1>2, <1>3, <1>4, <1>5, HandlerStepKeeps

LEMMA TouchKeeps ==
    ASSUME Inv, NEW r \in Requests, NEW s \in Sessions,
           NEW op \in {"query", "commit", "reset"}, NEW q \in 0 .. MaxSeq, Touch(r, op, s, q)
    PROVE  Inv'
<1> DEFINE t == [pc |-> "serve", op |-> op, s |-> s, seq |-> 0, w |-> table[s]]
<1>1. /\ table[s] # NoWorker /\ task[r].pc = Idle /\ task' = [task EXCEPT ![r] = t]
      /\ UNCHANGED <<poolVars, opened, table, reaper, abandoned, accepted>>
  BY DEF Touch, MaySend, Busy, Goes
<1>2. s \in opened /\ busy[s] = table[s] /\ table[s] \in WorkerIds
  BY <1>1, EntryHeld
<1>3. /\ t \in Tasks /\ t.pc # "insert" /\ t.s = s /\ t.w = table[s] /\ Idle # "insert"
  BY <1>2, GatewayAssumption DEF Tasks, TaskPcs, Ops, Idle
<1>4. /\ lastSeq' \in [Sessions -> 0 .. MaxSeq] /\ expired' \subseteq Sessions
      /\ accepted' \in [Sessions -> 0 .. MaxSeq]
  BY DEF Touch, Inv, GateTypeOK
<1>5. PoolInv' /\ UNCHANGED <<busy, typed>> /\ TypedOwn'
  BY <1>1, PoolUntouched, TypedUntouched DEF Inv
<1> HIDE DEF t
<1> QED BY <1>1, <1>2, <1>3, <1>4, <1>5, HandlerStepKeeps

\* A served call puts into the noted worker keystrokes of its session only.
LEMMA ServedBuffer ==
    ASSUME Inv, NEW r \in Requests, Serve(r)
    PROVE  /\ typed' \in [WorkerIds -> SUBSET Sessions]
           /\ \A x \in WorkerIds : x \notin alive => typed'[x] = typed[x]
           /\ \A x \in WorkerIds : \A u \in typed'[x] :
                 u \in typed[x] \/ (x = task[r].w /\ u = task[r].s /\ x \in alive)
<1> DEFINE s == task[r].s
           w == task[r].w
<1>1. s \in Sessions
  BY DEF Serve, Inv, Noted, GateTypeOK, Idle
<1>2. CASE w \in workers \cap alive
  <2>1. PICK buffer \in Effect(task[r].op, s, typed[w]) : typed' = [typed EXCEPT ![w] = buffer]
    BY <1>2 DEF Serve
  <2>2. w \in WorkerIds /\ w \in alive /\ typed \in [WorkerIds -> SUBSET Sessions]
    BY <1>2 DEF Inv, PoolInv, PoolTypeOK
  <2>3. buffer \subseteq typed[w] \cup {s}
    <3>1. \/ buffer \in {typed[w], typed[w] \cup {s}, {s}, {}}
          \/ \E x \in typed[w] : buffer = typed[w] \ {x}
      BY <2>1 DEF Effect
    <3> QED BY <3>1
  <2> QED BY <1>1, <2>1, <2>2, <2>3
<1>3. CASE w \notin workers \cap alive
  BY <1>3 DEF Serve, Inv, PoolInv, PoolTypeOK
<1> QED BY <1>2, <1>3

LEMMA ServeKeeps ==
    ASSUME Inv, NEW r \in Requests, Serve(r)
    PROVE  Inv'
<1> DEFINE s == task[r].s
           w == task[r].w
<1>1. /\ task[r].pc = "serve" /\ task' = [task EXCEPT ![r] = NoTask]
      /\ UNCHANGED <<nextWorkerId, idle, busy, workers, alive, opened, table, lastSeq,
                     expired, reaper, abandoned, accepted>>
  BY DEF Serve, Finish
<1>2. /\ s \in opened /\ s \in Sessions /\ (busy[s] # NoWorker => busy[s] = w)
  BY <1>1 DEF Inv, Noted, GateTypeOK, Idle
<1>3. /\ typed' \in [WorkerIds -> SUBSET Sessions]
      /\ \A x \in WorkerIds : \A u \in typed'[x] : u \in typed[x] \/ (x = w /\ u = s)
  BY ServedBuffer
<1>4. PoolInv'
  BY <1>1, <1>3 DEF Inv, PoolInv, PoolTypeOK
<1>5. TypedOwn'
  BY <1>1, <1>2, <1>3 DEF Inv, TypedOwn
<1>6. NoTask \in Tasks /\ NoTask.pc = Idle /\ Idle # "insert"
  BY GatewayAssumption DEF NoTask, Tasks, TaskPcs, Ops, Idle, NoWorker
<1>7. /\ lastSeq' \in [Sessions -> 0 .. MaxSeq] /\ accepted' \in [Sessions -> 0 .. MaxSeq]
      /\ expired' \subseteq Sessions
  BY <1>1 DEF Inv, GateTypeOK
<1> QED BY <1>1, <1>4, <1>5, <1>6, <1>7, HandlerStepKeeps

\* A dropped handler changes nothing but that a dropped open is remembered.
LEMMA CancelKeeps ==
    ASSUME Inv, NEW r \in Requests, Cancel(r)
    PROVE  Inv'
<1>1. /\ task[r].pc # Idle /\ task' = [task EXCEPT ![r] = NoTask]
      /\ abandoned' = IF task[r].pc = "insert" THEN abandoned \cup {task[r].s} ELSE abandoned
      /\ UNCHANGED <<poolVars, opened, table, lastSeq, expired, reaper, accepted>>
  BY DEF Cancel, Busy, Finish
<1>2. NoTask \in Tasks /\ NoTask.pc = Idle /\ Idle # "insert"
  BY GatewayAssumption DEF NoTask, Tasks, TaskPcs, Ops, Idle, NoWorker
<1>3. /\ task' \in [Requests -> Tasks] /\ task'[r] = NoTask
      /\ \A q \in Requests : q # r => task'[q] = task[q]
  BY <1>1, <1>2, SlotChanges DEF Inv
<1>4. PoolInv' /\ UNCHANGED <<busy, typed>> /\ TypedOwn'
  BY <1>1, PoolUntouched, TypedUntouched DEF Inv
<1>5. GateTypeOK'
  BY <1>1, <1>3 DEF Inv, GateTypeOK, Noted
<1>6. TableMatchesPool' /\ Fresh' /\ Reaping'
  BY <1>1, <1>4 DEF Inv, TableMatchesPool, Live, Fresh, Reaping
<1>7. LeaseAccounted'
  <2> SUFFICES ASSUME NEW u \in Sessions, busy'[u] # NoWorker
               PROVE  \/ u \in (Live \cup abandoned \cup reaper.doomed)'
                      \/ \E q \in Requests : task'[q].pc = "insert" /\ task'[q].s = u
    BY DEF LeaseAccounted
  <2>1. \/ u \in Live \cup abandoned \cup reaper.doomed
        \/ \E q \in Requests : task[q].pc = "insert" /\ task[q].s = u
    BY <1>4 DEF Inv, LeaseAccounted
  <2>2. CASE u \in Live \cup abandoned \cup reaper.doomed
    BY <2>2, <1>1 DEF Live
  <2>3. CASE \E q \in Requests : task[q].pc = "insert" /\ task[q].s = u
    BY <2>3, <1>1, <1>3
  <2> QED BY <2>1, <2>2, <2>3
<1>8. Noted' /\ Inserting'
  BY <1>1, <1>2, <1>3, <1>4 DEF Inv, Noted, Inserting
<1> QED BY <1>4, <1>5, <1>6, <1>7, <1>8 DEF Inv

-----------------------------------------------------------------------------
(* The reaper and the environment.                                         *)

\* A step of the reaper's that leaves table and busy map alone.
LEMMA ReaperStepKeeps ==
    ASSUME Inv, PoolInv', UNCHANGED <<busy, typed, table, lastSeq, task, opened, abandoned, accepted>>,
           expired' \subseteq Sessions,
           reaper' \in [pc : ReaperPcs, doomed : SUBSET Sessions],
           Reaping',
           \A s \in reaper'.doomed : s \in reaper.doomed \/ s \in Live,
           \A s \in reaper.doomed : s \in reaper'.doomed
    PROVE  Inv'
<1>1. GateTypeOK' /\ TableMatchesPool'
  BY DEF Inv, GateTypeOK, TableMatchesPool, Live
<1>2. LeaseAccounted' /\ Noted'
  BY DEF Inv, LeaseAccounted, Live, Noted
<1>3. Inserting' /\ Fresh'
  BY DEF Inv, Inserting, Fresh, Live, Noted, GateTypeOK, Idle
<1>4. TypedOwn'
  BY DEF Inv, TypedOwn
<1> QED BY <1>1, <1>2, <1>3, <1>4 DEF Inv

LEMMA ReapScanKeeps == ASSUME Inv, ReapScan PROVE Inv'
<1>1. /\ reaper' = [pc |-> "remove", doomed |-> Live \cap expired]
      /\ UNCHANGED <<poolVars, opened, task, abandoned, accepted, table, lastSeq, expired>>
      /\ reaper.pc = "sleep"
  BY DEF ReapScan, ReaperVars
<1>2. PoolInv' /\ UNCHANGED <<busy, typed>>
  BY <1>1, PoolUntouched DEF Inv
<1>3. reaper' \in [pc : ReaperPcs, doomed : SUBSET Sessions]
  BY <1>1 DEF ReaperPcs, Live
<1>4. Reaping' /\ reaper.doomed = {}
  BY <1>1 DEF Inv, Reaping, Live
<1> QED BY <1>1, <1>2, <1>3, <1>4, ReaperStepKeeps DEF Inv, GateTypeOK

LEMMA ReapLockKeeps == ASSUME Inv, ReapLock PROVE Inv'
<1>1. /\ reaper \in [pc : ReaperPcs, doomed : SUBSET Sessions]
      /\ reaper' = [reaper EXCEPT !.pc = "release"] /\ reaper.pc = "wait"
      /\ UNCHANGED <<poolVars, opened, task, abandoned, accepted, table, lastSeq, expired>>
  BY DEF ReapLock, ReaperVars, Inv, GateTypeOK
<1>2. PoolInv' /\ UNCHANGED <<busy, typed>>
  BY <1>1, PoolUntouched DEF Inv
<1>3. /\ reaper' \in [pc : ReaperPcs, doomed : SUBSET Sessions]
      /\ reaper'.doomed = reaper.doomed /\ reaper'.pc = "release"
  BY <1>1 DEF ReaperPcs, PoolHeld
<1>4. Reaping'
  BY <1>1, <1>3 DEF Inv, Reaping
<1> QED BY <1>1, <1>2, <1>3, <1>4, ReaperStepKeeps DEF Inv, GateTypeOK

LEMMA ReapTrimKeeps == ASSUME Inv, ReapTrim PROVE Inv'
<1>1. /\ reaper \in [pc : ReaperPcs, doomed : SUBSET Sessions]
      /\ reaper.doomed = {} /\ reaper.pc = "release"
      /\ UNCHANGED <<opened, task, abandoned, accepted, table, lastSeq, expired>>
  BY DEF ReapTrim, ReaperVars, Inv, GateTypeOK
<1>2. /\ PoolInv' /\ UNCHANGED <<busy, typed>>
      /\ reaper' = reaper \/ reaper' = [reaper EXCEPT !.pc = "prewarm"]
  BY PoolUntouched, TrimKeeps DEF Inv, ReapTrim
<1>3. /\ reaper' \in [pc : ReaperPcs, doomed : SUBSET Sessions]
      /\ reaper'.doomed = {} /\ reaper'.pc \in {"release", "prewarm"}
  BY <1>1, <1>2 DEF ReaperPcs, PoolHeld
<1>4. Reaping'
  BY <1>1, <1>3 DEF Inv, Reaping
<1> QED BY <1>1, <1>2, <1>3, <1>4, ReaperStepKeeps DEF Inv, GateTypeOK

LEMMA ReapPrewarmKeeps == ASSUME Inv, ReapPrewarm PROVE Inv'
<1>1. /\ reaper \in [pc : ReaperPcs, doomed : SUBSET Sessions]
      /\ reaper.doomed = {} /\ reaper.pc = "prewarm"
      /\ UNCHANGED <<opened, task, abandoned, accepted, table, lastSeq, expired>>
  BY DEF ReapPrewarm, ReaperVars, Inv, GateTypeOK, Reaping
<1>2. /\ PoolInv' /\ UNCHANGED <<busy, typed>>
      /\ reaper' = reaper \/ reaper' = [reaper EXCEPT !.pc = "sleep"]
  BY PoolUntouched, PrewarmKeeps, NumberLost DEF Inv, ReapPrewarm, PrewarmFails
<1>3. /\ reaper' \in [pc : ReaperPcs, doomed : SUBSET Sessions]
      /\ reaper'.doomed = {} /\ reaper'.pc \in {"prewarm", "sleep"}
  BY <1>1, <1>2 DEF ReaperPcs, PoolHeld
<1>4. Reaping'
  BY <1>1, <1>3 DEF Inv, Reaping
<1> QED BY <1>1, <1>2, <1>3, <1>4, ReaperStepKeeps DEF Inv, GateTypeOK

LEMMA ExpireKeeps == ASSUME Inv, NEW s \in Sessions, Expire(s) PROVE Inv'
<1>1. /\ UNCHANGED <<poolVars, opened, task, abandoned, accepted, table, lastSeq, reaper>>
      /\ expired' \subseteq Sessions
  BY DEF Expire, ReaperVars, Inv, GateTypeOK
<1>2. PoolInv' /\ UNCHANGED <<busy, typed>>
  BY <1>1, PoolUntouched DEF Inv
<1>3. Reaping'
  BY <1>1 DEF Inv, Reaping
<1> QED BY <1>1, <1>2, <1>3, ReaperStepKeeps DEF Inv, GateTypeOK

LEMMA WorkerDiesKeeps == ASSUME Inv, NEW w \in WorkerIds, WorkerDies(w) PROVE Inv'
<1>1. UNCHANGED <<opened, task, abandoned, accepted, table, lastSeq, expired, reaper>>
  BY DEF WorkerDies, ReaperVars
<1>2. PoolInv' /\ UNCHANGED <<busy, typed>>
  BY CrashKeeps DEF WorkerDies, Inv
<1>3. Reaping'
  BY <1>1 DEF Inv, Reaping
<1> QED BY <1>1, <1>2, <1>3, ReaperStepKeeps DEF Inv, GateTypeOK

\* What leaves the table is on the reaper's list.
LEMMA ReapRemoveKeeps == ASSUME Inv, ReapRemove PROVE Inv'
<1>1. /\ reaper \in [pc : ReaperPcs, doomed : SUBSET Sessions] /\ reaper.pc = "remove"
      /\ reaper' = [reaper EXCEPT !.pc = "wait"]
      /\ table' = [s \in Sessions |-> IF s \in reaper.doomed THEN NoWorker ELSE table[s]]
      /\ lastSeq' = [s \in Sessions |-> IF s \in reaper.doomed THEN 0 ELSE lastSeq[s]]
      /\ expired' = expired \ reaper.doomed
      /\ UNCHANGED <<poolVars, opened, task, abandoned, accepted>>
  BY DEF ReapRemove, ReaperVars, Inv, GateTypeOK
<1>2. PoolInv' /\ UNCHANGED <<busy, typed>> /\ TypedOwn'
  BY <1>1, PoolUntouched, TypedUntouched DEF Inv
<1>3. /\ reaper' \in [pc : ReaperPcs, doomed : SUBSET Sessions]
      /\ reaper'.doomed = reaper.doomed /\ reaper'.pc = "wait"
  BY <1>1 DEF ReaperPcs
<1>4. GateTypeOK'
  BY <1>1, <1>3, GatewayAssumption DEF Inv, GateTypeOK
<1>5. TableMatchesPool' /\ LeaseAccounted'
  BY <1>1, <1>2, <1>3 DEF Inv, TableMatchesPool, LeaseAccounted, Live
<1>6. Noted' /\ Inserting'
  BY <1>1, <1>2, <1>3 DEF Inv, Noted, Inserting, GateTypeOK, Idle
<1>7. Fresh' /\ Reaping'
  BY <1>1, <1>2, <1>3 DEF Inv, Fresh, Reaping
<1> QED BY <1>2, <1>4, <1>5, <1>6, <1>7 DEF Inv

\* A released session is in no table, on no list and holds no worker.
LEMMA ReapReleaseKeeps == ASSUME Inv, NEW s \in Sessions, ReapRelease(s) PROVE Inv'
<1>1. /\ reaper \in [pc : ReaperPcs, doomed : SUBSET Sessions] /\ reaper.pc = "release"
      /\ s \in reaper.doomed /\ Release(s)
      /\ reaper' = [reaper EXCEPT !.doomed = @ \ {s}]
      /\ UNCHANGED <<opened, task, abandoned, accepted, table, lastSeq, expired>>
  BY DEF ReapRelease, ReaperVars, Inv, GateTypeOK
<1>2. PoolInv' /\ busy' = [busy EXCEPT ![s] = NoWorker] /\ Wipes
  BY <1>1, ReleaseKeeps DEF Inv
<1>3. \A u \in Sessions : busy'[u] = IF u = s THEN NoWorker ELSE busy[u]
  BY <1>2 DEF Inv, PoolInv, PoolTypeOK
<1>4. /\ reaper' \in [pc : ReaperPcs, doomed : SUBSET Sessions]
      /\ reaper'.doomed = reaper.doomed \ {s} /\ reaper'.pc = "release"
  BY <1>1
<1>5. table[s] = NoWorker
  BY <1>1 DEF Inv, Reaping
<1>6. GateTypeOK'
  BY <1>1, <1>4 DEF Inv, GateTypeOK
<1>7. TableMatchesPool' /\ LeaseAccounted'
  BY <1>1, <1>3, <1>4, <1>5 DEF Inv, TableMatchesPool, LeaseAccounted, Live
<1>8. Noted' /\ Inserting'
  BY <1>1, <1>3, <1>4 DEF Inv, Noted, Inserting, GateTypeOK, Idle
<1>9. Fresh' /\ Reaping'
  BY <1>1, <1>3, <1>4 DEF Inv, Fresh, Reaping
<1>10. TypedOwn'
  BY <1>1, <1>2, <1>3 DEF Inv, TypedOwn, Wipes, GateTypeOK
<1> QED BY <1>2, <1>6, <1>7, <1>8, <1>9, <1>10 DEF Inv

LEMMA InvNext == ASSUME Inv, [Next]_vars PROVE Inv'
<1>1. CASE Next
  <2>1. ASSUME NEW r \in Requests, NEW s \in Sessions,
               \/ OpenAcquire(r, s)
               \/ \E q \in Seqs : KeyCheck(r, s, q)
               \/ \E op \in {"query", "commit", "reset"}, q \in 0 .. MaxSeq : Touch(r, op, s, q)
        PROVE  Inv'
    BY <2>1, OpenAcquireKeeps, KeyCheckKeeps, TouchKeeps
  <2>2. ASSUME NEW r \in Requests, OpenInsert(r) \/ KeyMark(r) \/ Serve(r) \/ Cancel(r)
        PROVE  Inv'
    BY <2>2, OpenInsertKeeps, KeyMarkKeeps, ServeKeeps, CancelKeeps
  <2>3. ASSUME Reap PROVE Inv'
    BY <2>3, ReapScanKeeps, ReapRemoveKeeps, ReapLockKeeps, ReapReleaseKeeps,
       ReapTrimKeeps, ReapPrewarmKeeps DEF Reap
  <2>4. ASSUME NEW s \in Sessions, Expire(s) PROVE Inv'
    BY <2>4, ExpireKeeps
  <2>5. ASSUME NEW w \in WorkerIds, WorkerDies(w) PROVE Inv'
    BY <2>5, WorkerDiesKeeps
  <2> QED BY <1>1, <2>1, <2>2, <2>3, <2>4, <2>5 DEF Next
<1>2. CASE UNCHANGED vars
  <2>1. /\ UNCHANGED <<poolVars, opened, task, abandoned, accepted, table, lastSeq, reaper>>
        /\ expired' \subseteq Sessions
    BY <1>2 DEF vars, Inv, GateTypeOK
  <2>2. PoolInv' /\ UNCHANGED <<busy, typed>>
    BY <2>1, PoolUntouched DEF Inv
  <2>3. Reaping'
    BY <2>1 DEF Inv, Reaping
  <2> QED BY <2>1, <2>2, <2>3, ReaperStepKeeps DEF Inv, GateTypeOK
<1> QED BY <1>1, <1>2

\* The invariant behind the theorems below.
THEOREM Invariance == Spec => []Inv
  BY InvInit, InvNext, PTL DEF Spec

-----------------------------------------------------------------------------
(* What follows from the invariant.                                        *)

\* Every variable keeps its type in every reachable state.
THEOREM TypeCorrect == Spec => []TypeOK
<1>1. Inv => TypeOK
  BY DEF Inv, PoolInv, GateTypeOK, TypeOK
<1> QED BY <1>1, Invariance, PTL

\* No worker is queued twice, leased twice, or queued and leased
\* (acquire_for_session, release_for_session, trim_idle, prewarm).
THEOREM NoSharing == Spec => []WorkersExclusive
<1>1. Inv => WorkersExclusive
  BY PoolInvImplies DEF Inv
<1> QED BY <1>1, Invariance, PTL

\* Every worker queued, leased or running is in the pool's registry.
THEOREM AllRegistered == Spec => []RegistryComplete
<1>1. Inv => RegistryComplete
  BY PoolInvImplies DEF Inv
<1> QED BY <1>1, Invariance, PTL

\* A session of the table holds the worker its entry names, under every
\* interleaving of handlers, cancellations and the reaper's three sections.
THEOREM TableAgrees == Spec => []TableMatchesPool
<1>1. Inv => TableMatchesPool
  BY DEF Inv
<1> QED BY <1>1, Invariance, PTL

\* A lease outlives its session's entry only while the reaper is at it, or
\* where an open was cancelled between its locks.
THEOREM LeasesAccounted == Spec => []LeaseAccounted
<1>1. Inv => LeaseAccounted
  BY DEF Inv
<1> QED BY <1>1, Invariance, PTL

\* Two sessions of the table never have keystrokes in one worker.
THEOREM SessionsApart == Spec => []LiveSessionsApart
<1>1. Inv => LiveSessionsApart
  <2> SUFFICES ASSUME Inv, NEW w \in WorkerIds, NEW s \in typed[w] \cap Live,
                      NEW t \in typed[w] \cap Live
               PROVE  s = t
    BY DEF LiveSessionsApart
  <2>1. s \in Sessions /\ t \in Sessions /\ table[s] # NoWorker /\ table[t] # NoWorker
    BY DEF Live
  <2>2. busy[s] = w /\ busy[t] = w /\ w # NoWorker
    BY <2>1, EntryHeld DEF Inv, TypedOwn, WorkerIds, NoWorker
  <2> QED BY <2>1, <2>2 DEF Inv, PoolInv
<1> QED BY <1>1, Invariance, PTL

\* A worker comes to a session running and with an empty buffer: the one step
\* that gives a session a worker resets it first (acquire_for_session).
THEOREM HandoverIsClean == Spec => CleanHandover
<1> DEFINE Clean == \A s \in Sessions : busy[s] = NoWorker /\ busy'[s] # NoWorker =>
                       busy'[s] \in alive' /\ typed'[busy'[s]] = {}
<1>1. ASSUME Inv, [Next]_vars PROVE Clean
  <2> SUFFICES ASSUME NEW s \in Sessions, busy[s] = NoWorker, busy'[s] # NoWorker
               PROVE  busy'[s] \in alive' /\ typed'[busy'[s]] = {}
    OBVIOUS
  <2>1. ASSUME NEW r \in Requests, NEW u \in Sessions, OpenAcquire(r, u)
        PROVE  busy'[s] \in alive' /\ typed'[busy'[s]] = {}
    <3>1. busy[u] = NoWorker
      BY <1>1, <2>1 DEF OpenAcquire, Inv, Fresh
    <3>2. PICK want \in BOOLEAN : (\E w \in WorkerIds : Acquire(u, want, w))
                                  \/ AcquireFails(want)
      BY <2>1 DEF OpenAcquire
    <3>3. PICK w \in WorkerIds : Acquire(u, want, w)
      BY <3>2 DEF AcquireFails
    <3>4. busy' = [busy EXCEPT ![u] = w] /\ typed' = [typed EXCEPT ![w] = {}] /\ w \in alive'
      BY <3>3 DEF Acquire, Grant
    <3>5. busy \in [Sessions -> WorkerIds \cup {NoWorker}] /\ DOMAIN typed = WorkerIds
      BY <1>1 DEF Inv, PoolInv, PoolTypeOK
    <3>6. s = u /\ busy'[s] = w
      BY <3>4, <3>5
    <3> QED BY <3>4, <3>5, <3>6
  <2>2. ASSUME NEW u \in Sessions, ReapRelease(u) PROVE FALSE
    <3>1. busy' = [busy EXCEPT ![u] = NoWorker] /\ DOMAIN busy = Sessions
      BY <1>1, <2>2 DEF ReapRelease, Release, Recycle, Retire, Inv, PoolInv, PoolTypeOK, poolVars
    <3> QED BY <3>1
  <2>3. ASSUME \/ \E r \in Requests : \/ OpenInsert(r) \/ KeyMark(r) \/ Serve(r) \/ Cancel(r)
                                      \/ \E u \in Sessions : \E q \in Seqs : KeyCheck(r, u, q)
               \/ \E r \in Requests, u \in Sessions :
                     \E op \in {"query", "commit", "reset"}, q \in 0 .. MaxSeq :
                         Touch(r, op, u, q)
               \/ ReapScan \/ ReapRemove \/ ReapLock \/ ReapTrim \/ ReapPrewarm
               \/ \E u \in Sessions : Expire(u)
               \/ \E w \in WorkerIds : WorkerDies(w)
               \/ UNCHANGED vars
        PROVE  UNCHANGED busy
    BY <2>3
       DEF OpenInsert, KeyMark, Serve, Cancel, KeyCheck, Touch, ReapScan, ReapRemove,
           ReapLock, ReapTrim, ReapPrewarm, TrimOne, PrewarmOne, PrewarmFails, Expire, WorkerDies, Crash,
           poolVars, vars
  <2> QED BY <1>1, <2>1, <2>2, <2>3 DEF Next, Reap
<1>2. Inv /\ [Next]_vars => [Clean]_vars
  BY <1>1
<1> HIDE DEF Clean
<1>3. Spec => [][Clean]_vars
  BY <1>2, Invariance, PTL DEF Spec
<1> QED BY <1>3 DEF CleanHandover, Clean

\* The deque grows by one, and only below one of its limits.
LEMMA IdleSteps ==
    ASSUME PoolInv
    PROVE  /\ \A want \in BOOLEAN, w \in WorkerIds :
                  TakeIdle(want, w) => Len(idle') <= Len(idle)
           /\ \A s \in Sessions : Recycle(s) => Len(idle') <= MaxIdle
           /\ TrimOne => Len(idle') <= Len(idle)
           /\ PrewarmOne => Len(idle') <= MinIdle
<1>1. idle \in Seq(WorkerIds) /\ busy \in [Sessions -> WorkerIds \cup {NoWorker}]
  BY DEF PoolInv, PoolTypeOK
<1>2. Len(idle) \in Nat /\ MinIdle \in Nat /\ MaxIdle \in Nat
  BY <1>1, PoolAssumption, LenProperties
<1>3. ASSUME NEW want \in BOOLEAN, NEW w \in WorkerIds, TakeIdle(want, w)
      PROVE  Len(idle') <= Len(idle)
  <2>1. idle # <<>> /\ idle' = Tail(idle)
    BY <1>3 DEF TakeIdle
  <2>2. Len(idle') = Len(idle) - 1
    BY <1>1, <2>1, HeadTailProperties
  <2> QED BY <1>2, <2>2
<1>4. ASSUME NEW s \in Sessions, Recycle(s) PROVE Len(idle') <= MaxIdle
  <2>1. /\ busy[s] \in WorkerIds /\ Len(idle) < MaxIdle
        /\ idle' = Append(idle, busy[s])
    BY <1>1, <1>4 DEF Recycle
  <2>2. Len(idle') = Len(idle) + 1
    BY <1>1, <2>1, AppendProperties
  <2> QED BY <1>2, <2>1, <2>2
<1>5. ASSUME TrimOne PROVE Len(idle') <= Len(idle)
  <2>1. idle' = SubSeq(idle, 1, Len(idle) - 1) /\ Len(idle) > 0
    BY <1>2, <1>5 DEF TrimOne
  <2>2. /\ Len(idle) \in Nat \ {0} /\ DOMAIN idle = 1 .. Len(idle)
        /\ \A i \in 1 .. (Len(idle) - 1) : idle[i] \in WorkerIds
    BY <1>1, <1>2, <2>1
  <2>3. Len(SubSeq(idle, 1, Len(idle) - 1)) = Len(idle) - 1
    BY <2>2, SubSeqProperties
  <2> QED BY <1>2, <2>1, <2>3
<1>6. ASSUME PrewarmOne PROVE Len(idle') <= MinIdle
  <2>1. PICK w \in WorkerIds : idle' = Append(idle, w)
    BY <1>6 DEF PrewarmOne
  <2>2. Len(idle') = Len(idle) + 1 /\ Len(idle) < MinIdle
    BY <1>1, <1>6, <2>1, AppendProperties DEF PrewarmOne
  <2> QED BY <1>2, <2>2
<1> QED BY <1>3, <1>4, <1>5, <1>6

\* The deque never outgrows the larger limit, while the reaper returns, trims
\* and prewarms (release_for_session, trim_idle, prewarm).
THEOREM IdleStaysBounded == Spec => []IdleBounded
<1> USE PoolAssumption
<1>1. Init => IdleBounded
  BY DEF Init, PoolInit, IdleBounded
<1>2. ASSUME Inv, IdleBounded, [Next]_vars PROVE IdleBounded'
  <2>0. PoolInv /\ Len(idle) \in Nat
    BY <1>2, LenProperties DEF Inv, PoolInv, PoolTypeOK
  <2>1. ASSUME NEW r \in Requests, NEW u \in Sessions, OpenAcquire(r, u) PROVE IdleBounded'
    <3>1. PICK want \in BOOLEAN : (\E w \in WorkerIds : Acquire(u, want, w))
                                  \/ AcquireFails(want)
      BY <2>1 DEF OpenAcquire
    <3>2. UNCHANGED idle \/ \E w \in WorkerIds : TakeIdle(want, w)
      BY <3>1 DEF Acquire, Take, TakeSpawned, AcquireFails
    <3>3. UNCHANGED idle \/ Len(idle') <= Len(idle)
      BY <2>0, <3>2, IdleSteps
    <3>4. idle' \in Seq(WorkerIds)
      BY <2>1, <1>2, InvNext DEF Inv, PoolInv, PoolTypeOK
    <3>5. Len(idle') \in Nat
      BY <3>4, LenProperties
    <3> QED BY <1>2, <2>0, <3>3, <3>5 DEF IdleBounded
  <2>2. ASSUME NEW u \in Sessions, ReapRelease(u) PROVE IdleBounded'
    <3>1. Recycle(u) \/ UNCHANGED idle
      BY <2>2 DEF ReapRelease, Release, Retire, poolVars
    <3>2. UNCHANGED idle \/ Len(idle') <= MaxIdle
      BY <2>0, <3>1, IdleSteps
    <3>4. idle' \in Seq(WorkerIds)
      BY <2>2, <1>2, InvNext DEF Inv, PoolInv, PoolTypeOK
    <3>5. Len(idle') \in Nat
      BY <3>4, LenProperties
    <3> QED BY <1>2, <2>0, <3>2, <3>5 DEF IdleBounded
  <2>3. ASSUME ReapTrim \/ ReapPrewarm PROVE IdleBounded'
    <3>1. TrimOne \/ PrewarmOne \/ UNCHANGED idle
      BY <2>3 DEF ReapTrim, ReapPrewarm, PrewarmFails, poolVars
    <3>2. UNCHANGED idle \/ Len(idle') <= Len(idle) \/ Len(idle') <= MinIdle
      BY <2>0, <3>1, IdleSteps
    <3>4. idle' \in Seq(WorkerIds)
      BY <2>3, <1>2, InvNext DEF Inv, PoolInv, PoolTypeOK
    <3>5. Len(idle') \in Nat
      BY <3>4, LenProperties
    <3> QED BY <1>2, <2>0, <3>2, <3>5 DEF IdleBounded
  <2>4. ASSUME \/ \E r \in Requests : \/ OpenInsert(r) \/ KeyMark(r) \/ Serve(r) \/ Cancel(r)
                                      \/ \E u \in Sessions : \E q \in Seqs : KeyCheck(r, u, q)
               \/ \E r \in Requests, u \in Sessions :
                     \E op \in {"query", "commit", "reset"}, q \in 0 .. MaxSeq :
                         Touch(r, op, u, q)
               \/ ReapScan \/ ReapRemove \/ ReapLock
               \/ \E u \in Sessions : Expire(u)
               \/ \E w \in WorkerIds : WorkerDies(w)
               \/ UNCHANGED vars
        PROVE  IdleBounded'
    <3>1. UNCHANGED idle
      BY <2>4
         DEF OpenInsert, KeyMark, Serve, Cancel, KeyCheck, Touch, ReapScan, ReapRemove,
             ReapLock, Expire, WorkerDies, Crash, poolVars, vars
    <3> QED BY <1>2, <3>1 DEF IdleBounded
  <2> QED BY <1>2, <2>1, <2>2, <2>3, <2>4 DEF Next, Reap
<1>3. Inv /\ IdleBounded /\ [Next]_vars => IdleBounded'
  BY <1>2
<1> QED BY <1>1, <1>3, Invariance, PTL DEF Spec

-----------------------------------------------------------------------------
(* The order of keys, for clients that wait for an answer.                 *)

\* A session has one handler at a time.
OneHandler ==
    /\ \A r \in Requests : task[r].pc = Idle => task[r].s = NoSession
    /\ \A q, r \in Requests :
          task[q].pc # Idle /\ task[r].pc # Idle /\ task[q].s = task[r].s => q = r

\* A key past its check is above what its session has recorded, which is not
\* below what it has applied, which is nothing before it is in the table.
Ordered ==
    /\ \A r \in Requests : task[r].pc = "mark" =>
          table[task[r].s] = NoWorker \/ task[r].seq > lastSeq[task[r].s]
    /\ \A s \in Live : accepted[s] <= lastSeq[s]
    /\ \A s \in Sessions \ opened : accepted[s] = 0
    /\ \A r \in Requests : task[r].pc = "insert" => accepted[task[r].s] = 0

OrderInv == OneHandler /\ Ordered

LEMMA OrderInit == Init => OrderInv
BY DEF Init, OrderInv, OneHandler, Ordered, NoTask, Idle, Live

\* A handler begins for a session that has none, goes on, or ends.
LEMMA OneHandlerKept ==
    ASSUME Inv, OneHandler, NEW r \in Requests, NEW t \in Tasks, task' = [task EXCEPT ![r] = t],
           \/ t.pc = Idle /\ t.s = NoSession
           \/ t.pc # Idle /\ t.s = task[r].s /\ task[r].pc # Idle
           \/ t.pc # Idle /\ t.s \in Sessions /\ \A q \in Requests : task[q].pc # Idle => task[q].s # t.s
    PROVE  OneHandler'
<1>1. task'[r] = t /\ \A q \in Requests : q # r => task'[q] = task[q]
  BY SlotChanges DEF Inv
<1> QED BY <1>1 DEF OneHandler

LEMMA NoTaskType == NoTask \in Tasks /\ NoTask.pc = Idle /\ NoTask.s = NoSession
BY GatewayAssumption DEF NoTask, Tasks, TaskPcs, Ops, NoWorker, Idle

\* The fields of a handler's slot.
LEMMA HandlerFields ==
    ASSUME Inv, NEW r \in Requests
    PROVE  /\ task[r] \in Tasks /\ task[r].seq \in 0 .. MaxSeq /\ task[r].w \in WorkerIds \cup {NoWorker}
           /\ task[r].pc # Idle => task[r].s \in Sessions /\ task[r].s \in opened
<1>1. task[r] \in Tasks
  BY DEF Inv, GateTypeOK
<1>2. task[r].pc # Idle => task[r].s \in opened /\ opened \subseteq Sessions
  BY DEF Inv, Noted, GateTypeOK
<1> QED BY <1>1, <1>2 DEF Tasks

LEMMA MaySendAlone ==
    ASSUME ~Pipelined, NEW r \in Requests, NEW s \in Sessions, MaySend(r, s)
    PROVE  \A q \in Requests : task[q].s # s
BY DEF MaySend

LEMMA OpenAcquireOrders ==
    ASSUME Inv, OrderInv, NEW r \in Requests, NEW s \in Sessions, OpenAcquire(r, s)
    PROVE  OrderInv'
<1>1. /\ s \notin opened /\ opened' = opened \cup {s}
      /\ UNCHANGED <<table, lastSeq, accepted>>
  BY DEF OpenAcquire
<1>2. \A q \in Requests : task[q].pc # Idle => task[q].s # s
  BY <1>1 DEF Inv, Noted
<1>3. CASE UNCHANGED task
  BY <1>1, <1>3 DEF OrderInv, OneHandler, Ordered, Live
<1>4. ASSUME NEW w \in WorkerIds,
             Goes(r, [pc |-> "insert", op |-> "open", s |-> s, seq |-> 0, w |-> w])
      PROVE  OrderInv'
  <2> DEFINE t == [pc |-> "insert", op |-> "open", s |-> s, seq |-> 0, w |-> w]
  <2>1. t \in Tasks /\ t.pc = "insert" /\ t.s = s /\ t.pc # Idle
    BY GatewayAssumption DEF Tasks, TaskPcs, Ops, Idle
  <2>2. task' = [task EXCEPT ![r] = t]
    BY <1>4 DEF Goes
  <2> HIDE DEF t
  <2>3. OneHandler'
    BY <1>2, <2>1, <2>2, OneHandlerKept DEF OrderInv
  <2>4. task'[r] = t /\ \A q \in Requests : q # r => task'[q] = task[q]
    BY <2>1, <2>2, SlotChanges DEF Inv
  <2>5. Ordered'
    BY <1>1, <2>1, <2>4 DEF OrderInv, Ordered, Live
  <2> QED BY <2>3, <2>5 DEF OrderInv
<1> QED BY <1>3, <1>4 DEF OpenAcquire

LEMMA OpenInsertOrders == ASSUME Inv, OrderInv, NEW r \in Requests, OpenInsert(r) PROVE OrderInv'
<1> DEFINE s == task[r].s
<1>1. /\ task[r].pc = "insert" /\ task' = [task EXCEPT ![r] = NoTask]
      /\ table' = [table EXCEPT ![s] = task[r].w] /\ lastSeq' = [lastSeq EXCEPT ![s] = 0]
      /\ UNCHANGED <<opened, accepted>>
  BY DEF OpenInsert, Finish
<1>2. s \in Sessions /\ s \in opened /\ task[r].pc # Idle
  BY <1>1, HandlerFields DEF Idle
<1>3. OneHandler'
  BY <1>1, NoTaskType, OneHandlerKept DEF OrderInv
<1>4. /\ task'[r] = NoTask /\ \A q \in Requests : q # r => task'[q] = task[q]
      /\ NoTask.pc # "mark" /\ NoTask.pc # "insert"
  BY <1>1, NoTaskType, SlotChanges DEF Inv, Idle
<1>5. \A u \in Sessions : /\ lastSeq'[u] = IF u = s THEN 0 ELSE lastSeq[u]
                          /\ u # s => table'[u] = table[u]
  BY <1>1 DEF Inv, GateTypeOK
<1>6. \A q \in Requests : q # r /\ task[q].pc # Idle => task[q].s # s /\ task[q].s \in Sessions
  BY <1>2, HandlerFields DEF OrderInv, OneHandler
<1>7. accepted[s] = 0
  BY <1>1 DEF OrderInv, Ordered
<1> HIDE DEF s
<1>8. \A u \in Sessions : table'[u] # NoWorker => u = s \/ table[u] # NoWorker
  BY <1>5
<1>9. Ordered'
  BY <1>1, <1>4, <1>5, <1>6, <1>7, <1>8 DEF OrderInv, Ordered, Live, Idle
<1> QED BY <1>3, <1>9 DEF OrderInv

LEMMA KeyCheckOrders ==
    ASSUME Inv, OrderInv, ~Pipelined, NEW r \in Requests, NEW s \in Sessions, NEW q \in Seqs, KeyCheck(r, s, q)
    PROVE  OrderInv'
<1> DEFINE t == [pc |-> "mark", op |-> "key", s |-> s, seq |-> q, w |-> table[s]]
<1>1. /\ q > lastSeq[s] /\ task' = [task EXCEPT ![r] = t]
      /\ UNCHANGED <<opened, table, lastSeq, accepted>>
  BY DEF KeyCheck, Goes
<1>2. \A x \in Requests : task[x].s # s
  BY MaySendAlone DEF KeyCheck
<1>3. t \in Tasks /\ t.pc = "mark" /\ t.s = s /\ t.pc # Idle /\ t.seq = q
  BY GatewayAssumption DEF Tasks, TaskPcs, Ops, Idle, Seqs, Inv, GateTypeOK
<1> HIDE DEF t
<1>4. OneHandler'
  BY <1>1, <1>2, <1>3, OneHandlerKept DEF OrderInv
<1>5. task'[r] = t /\ \A x \in Requests : x # r => task'[x] = task[x]
  BY <1>1, <1>3, SlotChanges DEF Inv
<1>6. Ordered'
  BY <1>1, <1>3, <1>5 DEF OrderInv, Ordered, Live
<1> QED BY <1>4, <1>6 DEF OrderInv

LEMMA KeyMarkOrders == ASSUME Inv, OrderInv, NEW r \in Requests, KeyMark(r) PROVE OrderInv'
<1> DEFINE s == task[r].s
           t == [pc |-> "serve", op |-> "key", s |-> s, seq |-> 0, w |-> task[r].w]
<1>1. task[r].pc = "mark" /\ UNCHANGED <<opened, table>>
  BY DEF KeyMark
<1>2. s \in Sessions /\ s \in opened /\ task[r].pc # Idle /\ task[r].seq \in 0 .. MaxSeq
  BY <1>1, HandlerFields DEF Idle
<1>3. \A x \in Requests : x # r /\ task[x].pc # Idle => task[x].s # s /\ task[x].s \in Sessions
  BY <1>2, HandlerFields DEF OrderInv, OneHandler
<1>4. CASE table[s] = NoWorker
  <2>1. task' = [task EXCEPT ![r] = NoTask] /\ UNCHANGED <<lastSeq, accepted>>
    BY <1>4 DEF KeyMark, Finish
  <2>2. OneHandler'
    BY <2>1, NoTaskType, OneHandlerKept DEF OrderInv
  <2>3. /\ task'[r] = NoTask /\ \A q \in Requests : q # r => task'[q] = task[q]
        /\ NoTask.pc # "mark" /\ NoTask.pc # "insert"
    BY <2>1, NoTaskType, SlotChanges DEF Inv, Idle
  <2>4. Ordered'
    BY <1>1, <2>1, <2>3 DEF OrderInv, Ordered, Live
  <2> QED BY <2>2, <2>4 DEF OrderInv
<1>5. CASE table[s] # NoWorker
  <2>1. /\ task' = [task EXCEPT ![r] = t] /\ lastSeq' = [lastSeq EXCEPT ![s] = task[r].seq]
        /\ accepted' = [accepted EXCEPT ![s] = IF task[r].seq > @ THEN task[r].seq ELSE @]
    BY <1>5 DEF KeyMark, Goes
  <2>2. t \in Tasks /\ t.pc = "serve" /\ t.s = s /\ t.pc # Idle
    BY <1>2, HandlerFields, GatewayAssumption DEF Tasks, TaskPcs, Ops, Idle
  <2>3. task[r].seq > lastSeq[s] /\ accepted[s] <= lastSeq[s]
    BY <1>1, <1>2, <1>5 DEF OrderInv, Ordered, Live
  <2>4. accepted[s] \in Nat /\ lastSeq[s] \in Nat /\ task[r].seq \in Nat
    BY <1>2, GatewayAssumption DEF Inv, GateTypeOK
  <2> HIDE DEF t, s
  <2>5. OneHandler'
    BY <1>2, <2>1, <2>2, OneHandlerKept DEF OrderInv, s
  <2>6. task'[r] = t /\ \A x \in Requests : x # r => task'[x] = task[x]
    BY <2>1, <2>2, SlotChanges DEF Inv
  <2>7. \A u \in Sessions : /\ lastSeq'[u] = IF u = s THEN task[r].seq ELSE lastSeq[u]
                            /\ accepted'[u] = IF u = s THEN task[r].seq ELSE accepted[u]
    BY <2>1, <2>3, <2>4 DEF Inv, GateTypeOK
  <2>8. Ordered'
    <3>1. \A x \in Requests : task'[x].pc = "mark" =>
             table'[task'[x].s] = NoWorker \/ task'[x].seq > lastSeq'[task'[x].s]
      BY <1>1, <1>3, <2>2, <2>6, <2>7 DEF OrderInv, Ordered, Idle
    <3>2. \A u \in Live' : accepted'[u] <= lastSeq'[u]
      BY <1>1, <2>4, <2>7 DEF OrderInv, Ordered, Live
    <3>3. \A u \in Sessions \ opened' : accepted'[u] = 0
      BY <1>1, <1>2, <2>7 DEF OrderInv, Ordered
    <3>4. \A x \in Requests : task'[x].pc = "insert" => accepted'[task'[x].s] = 0
      BY <1>3, <2>2, <2>6, <2>7 DEF OrderInv, Ordered, Idle
    <3> QED BY <3>1, <3>2, <3>3, <3>4 DEF Ordered
  <2> QED BY <2>5, <2>8 DEF OrderInv
<1> QED BY <1>4, <1>5

LEMMA TouchOrders ==
    ASSUME Inv, OrderInv, ~Pipelined, NEW r \in Requests, NEW s \in Sessions,
           NEW op \in {"query", "commit", "reset"}, NEW q \in 0 .. MaxSeq, Touch(r, op, s, q)
    PROVE  OrderInv'
<1> DEFINE t == [pc |-> "serve", op |-> op, s |-> s, seq |-> 0, w |-> table[s]]
<1>1. /\ task' = [task EXCEPT ![r] = t]
      /\ lastSeq' = [lastSeq EXCEPT ![s] = IF q > @ THEN q ELSE @]
      /\ UNCHANGED <<opened, table, accepted>>
  BY DEF Touch, Goes
<1>2. \A x \in Requests : task[x].s # s
  BY MaySendAlone DEF Touch
<1>3. t \in Tasks /\ t.pc = "serve" /\ t.s = s /\ t.pc # Idle
  BY GatewayAssumption DEF Tasks, TaskPcs, Ops, Idle, Inv, GateTypeOK
<1> HIDE DEF t
<1>4. OneHandler'
  BY <1>1, <1>2, <1>3, OneHandlerKept DEF OrderInv
<1>5. task'[r] = t /\ \A x \in Requests : x # r => task'[x] = task[x]
  BY <1>1, <1>3, SlotChanges DEF Inv
<1>6. \A u \in Sessions : /\ u # s => lastSeq'[u] = lastSeq[u]
                          /\ lastSeq'[u] \in Nat /\ lastSeq[u] \in Nat /\ lastSeq[u] <= lastSeq'[u]
                          /\ accepted[u] \in Nat
  BY <1>1, GatewayAssumption DEF Inv, GateTypeOK
<1>7. \A x \in Requests : x # r /\ task[x].pc = "mark" => task[x].s \in Sessions
  BY HandlerFields DEF Idle
<1>8. Ordered'
  BY <1>1, <1>2, <1>3, <1>5, <1>6, <1>7 DEF OrderInv, Ordered, Live
<1> QED BY <1>4, <1>8 DEF OrderInv

\* Serve and Cancel end the handler and change no number.
LEMMA EndOrders ==
    ASSUME Inv, OrderInv, NEW r \in Requests, Finish(r), UNCHANGED <<opened, table, lastSeq, accepted>>
    PROVE  OrderInv'
<1>1. task' = [task EXCEPT ![r] = NoTask]
  BY DEF Finish
<1>2. OneHandler'
  BY <1>1, NoTaskType, OneHandlerKept DEF OrderInv
<1>3. /\ task'[r] = NoTask /\ \A q \in Requests : q # r => task'[q] = task[q]
      /\ NoTask.pc # "mark" /\ NoTask.pc # "insert"
  BY <1>1, NoTaskType, SlotChanges DEF Inv, Idle
<1>4. Ordered'
  BY <1>3 DEF OrderInv, Ordered, Live
<1> QED BY <1>2, <1>4 DEF OrderInv

LEMMA RemoveOrders == ASSUME Inv, OrderInv, ReapRemove PROVE OrderInv'
<1>1. /\ UNCHANGED <<opened, task, accepted>>
      /\ \A s \in Sessions : table'[s] = NoWorker \/ (table'[s] = table[s] /\ lastSeq'[s] = lastSeq[s])
  BY DEF ReapRemove, ReaperVars
<1>2. \A r \in Requests : task[r].pc = "mark" => task[r].s \in Sessions
  BY HandlerFields DEF Idle
<1>3. OneHandler' /\ Ordered'
  BY <1>1, <1>2 DEF OrderInv, OneHandler, Ordered, Live
<1> QED BY <1>3 DEF OrderInv

LEMMA OrderNext == ASSUME ~Pipelined, Inv, OrderInv, [Next]_vars PROVE OrderInv'
<1>1. ASSUME UNCHANGED <<opened, task, accepted, table, lastSeq>> PROVE OrderInv'
  BY <1>1 DEF OrderInv, OneHandler, Ordered, Live
<1>2. ASSUME NEW r \in Requests, Serve(r) \/ Cancel(r) PROVE OrderInv'
  BY <1>2, EndOrders DEF Serve, Cancel
<1>3. ASSUME \/ ReapScan \/ ReapLock \/ ReapTrim \/ ReapPrewarm
             \/ \E s \in Sessions : ReapRelease(s)
             \/ \E s \in Sessions : Expire(s)
             \/ \E w \in WorkerIds : WorkerDies(w)
             \/ UNCHANGED vars
      PROVE  OrderInv'
  BY <1>1, <1>3 DEF ReapScan, ReapLock, ReapTrim, ReapPrewarm, ReapRelease, Expire, WorkerDies,
                    ReaperVars, vars
<1> QED BY <1>2, <1>3, OpenAcquireOrders, OpenInsertOrders, KeyCheckOrders, KeyMarkOrders,
           TouchOrders, RemoveOrders DEF Next, Reap

\* Only its own second section takes a key on, and only in the table.
LEMMA MarkSteps ==
    ASSUME Inv, OrderInv, [Next]_vars, NEW r \in Requests, task[r].pc = "mark",
           table[task[r].s] = NoWorker
    PROVE  task'[r].pc # "serve"
<1>0. task[r].pc # Idle /\ task \in [Requests -> Tasks]
  BY DEF Idle, Inv, GateTypeOK
<1>1. ASSUME UNCHANGED task PROVE task'[r].pc # "serve"
  BY <1>1
<1>2. ASSUME NEW x \in Requests, x # r, NEW t, task' = [task EXCEPT ![x] = t]
      PROVE  task'[r].pc # "serve"
  BY <1>0, <1>2
<1>3. ASSUME task' = [task EXCEPT ![r] = NoTask] PROVE task'[r].pc # "serve"
  BY <1>0, <1>3, NoTaskType DEF Idle
<1>4. ASSUME NEW x \in Requests, NEW s \in Sessions,
             \/ OpenAcquire(x, s)
             \/ \E q \in Seqs : KeyCheck(x, s, q)
             \/ \E op \in {"query", "commit", "reset"}, q \in 0 .. MaxSeq : Touch(x, op, s, q)
      PROVE  task'[r].pc # "serve"
  <2>1. ~Busy(x)
    BY <1>4 DEF OpenAcquire, KeyCheck, Touch, MaySend
  <2>2. x # r
    BY <1>0, <2>1 DEF Busy
  <2> QED BY <1>1, <1>2, <1>4, <2>2 DEF OpenAcquire, KeyCheck, Touch, Goes
<1>5. ASSUME NEW x \in Requests, OpenInsert(x) \/ Serve(x) \/ Cancel(x)
      PROVE  task'[r].pc # "serve"
  BY <1>2, <1>3, <1>5 DEF OpenInsert, Serve, Cancel, Finish
<1>6. ASSUME NEW x \in Requests, KeyMark(x) PROVE task'[r].pc # "serve"
  <2>1. CASE x # r
    BY <1>2, <1>6, <2>1 DEF KeyMark, Finish, Goes
  <2>2. CASE x = r
    BY <1>3, <1>6, <2>2 DEF KeyMark, Finish
  <2> QED BY <2>1, <2>2
<1>7. ASSUME \/ Reap \/ \E s \in Sessions : Expire(s)
             \/ \E w \in WorkerIds : WorkerDies(w)
             \/ UNCHANGED vars
      PROVE  task'[r].pc # "serve"
  BY <1>1, <1>7 DEF Reap, ReapScan, ReapRemove, ReapLock, ReapTrim, ReapPrewarm, ReapRelease,
                    Expire, WorkerDies, ReaperVars, vars
<1> QED BY <1>4, <1>5, <1>6, <1>7 DEF Next

\* Of the gateway: with clients that wait for an answer before the next request
\* of a session, a key is applied only above all keys applied before in its
\* session, however handlers, cancellations and the reaper interleave
\* (send_key_event).  Pipelined, it is not so: the run of it fails.
THEOREM KeysStayInOrder == ASSUME ~Pipelined PROVE Spec => KeysInOrder
<1> DEFINE InOrder == \A r \in Requests : task[r].pc = "mark" /\ task'[r].pc = "serve" =>
                         task[r].seq > accepted[task[r].s]
<1>1. ASSUME Inv, OrderInv, [Next]_vars PROVE InOrder
  <2> SUFFICES ASSUME NEW r \in Requests, task[r].pc = "mark", task'[r].pc = "serve"
               PROVE  task[r].seq > accepted[task[r].s]
    OBVIOUS
  <2>1. task[r].s \in Sessions /\ task[r].pc # Idle /\ task[r].seq \in 0 .. MaxSeq
    BY <1>1, HandlerFields DEF Idle
  <2>2. table[task[r].s] # NoWorker
    <3>1. ASSUME table[task[r].s] = NoWorker PROVE task'[r].pc # "serve"
      BY <1>1, <2>1, <3>1, MarkSteps
    <3> QED BY <3>1
  <2>3. task[r].seq > lastSeq[task[r].s] /\ accepted[task[r].s] <= lastSeq[task[r].s]
    BY <1>1, <2>1, <2>2 DEF OrderInv, Ordered, Live
  <2>4. accepted[task[r].s] \in Nat /\ lastSeq[task[r].s] \in Nat
    BY <1>1, <2>1, GatewayAssumption DEF Inv, GateTypeOK
  <2> QED BY <2>1, <2>3, <2>4, GatewayAssumption
<1>2. Inv /\ OrderInv /\ [Next]_vars => [InOrder]_vars
  BY <1>1
<1>3. Inv /\ OrderInv /\ [Next]_vars => OrderInv'
  BY OrderNext
<1> HIDE DEF InOrder
<1>4. Spec => [][InOrder]_vars
  BY <1>2, <1>3, OrderInit, Invariance, PTL DEF Spec
<1> QED BY <1>4 DEF KeysInOrder, InOrder
-----------------------------------------------------------------------------
(* Where isolation ends.                                                   *)

\* A number not given out yet has an empty buffer.
Unused == \A w \in WorkerIds : w \notin 1 .. nextWorkerId => typed[w] = {}

\* The steps that neither serve a call nor change who holds a worker.
QuietStep ==
    \/ \E r \in Requests : OpenInsert(r) \/ KeyMark(r) \/ Cancel(r)
    \/ \E r \in Requests, s \in Sessions :
          \/ \E q \in Seqs : KeyCheck(r, s, q)
          \/ \E op \in {"query", "commit", "reset"}, q \in 0 .. MaxSeq : Touch(r, op, s, q)
    \/ ReapScan \/ ReapRemove \/ ReapLock
    \/ \E s \in Sessions : Expire(s)
    \/ UNCHANGED vars

LEMMA QuietPool == QuietStep => UNCHANGED poolVars
BY DEF QuietStep, OpenInsert, KeyMark, Cancel, KeyCheck, Touch, ReapScan, ReapRemove, ReapLock,
       Expire, vars

LEMMA StepKinds ==
    [Next]_vars =>
        \/ \E r \in Requests : Serve(r)
        \/ \E r \in Requests, s \in Sessions : OpenAcquire(r, s)
        \/ \E s \in Sessions : ReapRelease(s)
        \/ ReapTrim \/ ReapPrewarm
        \/ \E w \in WorkerIds : WorkerDies(w)
        \/ QuietStep
BY DEF Next, Reap, QuietStep

\* Numbers are given out one by one and never given back.
LEMMA NumbersGrow ==
    ASSUME Inv, [Next]_vars
    PROVE  nextWorkerId' \in {nextWorkerId, nextWorkerId + 1}
<1>1. \A w : Spawned(w) => nextWorkerId' = nextWorkerId + 1
  BY DEF Spawned
<1>2. SpawnFailed => nextWorkerId' \in {nextWorkerId, nextWorkerId + 1}
  BY DEF SpawnFailed
<1>3. ASSUME NEW r \in Requests, Serve(r) PROVE UNCHANGED nextWorkerId
  BY <1>3 DEF Serve
<1>4. ASSUME NEW r \in Requests, NEW s \in Sessions, OpenAcquire(r, s)
      PROVE  nextWorkerId' \in {nextWorkerId, nextWorkerId + 1}
  <2>1. PICK want \in BOOLEAN : (\E w \in WorkerIds : Acquire(s, want, w)) \/ AcquireFails(want)
    BY <1>4 DEF OpenAcquire
  <2> QED BY <2>1, <1>1, <1>2 DEF Acquire, Take, TakeIdle, TakeSpawned, AcquireFails
<1>5. ASSUME NEW s \in Sessions, ReapRelease(s) PROVE UNCHANGED nextWorkerId
  BY <1>5 DEF ReapRelease, Release, Recycle, Retire, poolVars
<1>6. ASSUME ReapTrim \/ ReapPrewarm PROVE nextWorkerId' \in {nextWorkerId, nextWorkerId + 1}
  BY <1>6, <1>1, <1>2 DEF ReapTrim, ReapPrewarm, TrimOne, PrewarmOne, PrewarmFails, poolVars
<1>7. ASSUME NEW w \in WorkerIds, WorkerDies(w) PROVE UNCHANGED nextWorkerId
  BY <1>7 DEF WorkerDies, Crash
<1> QED BY <1>3, <1>4, <1>5, <1>6, <1>7, QuietPool, StepKinds DEF poolVars

\* Only a served call puts keystrokes into a buffer.
LEMMA OthersWipe ==
    ASSUME Inv, [Next]_vars
    PROVE  (\E r \in Requests : Serve(r)) \/ Wipes
<1>0. PoolInv
  BY DEF Inv
<1>1. ASSUME UNCHANGED typed PROVE Wipes
  BY <1>1 DEF Wipes
<1>2. ASSUME NEW r \in Requests, NEW s \in Sessions, OpenAcquire(r, s) PROVE Wipes
  <2>1. s \notin opened
    BY <1>2 DEF OpenAcquire
  <2>2. busy[s] = NoWorker
    BY <2>1 DEF Inv, Fresh
  <2>3. PICK want \in BOOLEAN : (\E w \in WorkerIds : Acquire(s, want, w)) \/ AcquireFails(want)
    BY <1>2 DEF OpenAcquire
  <2> QED BY <1>0, <1>1, <2>2, <2>3, AcquireKeeps, AcquireFailsKeeps
<1>3. ASSUME NEW s \in Sessions, ReapRelease(s) PROVE Wipes
  BY <1>0, <1>3, ReleaseKeeps DEF ReapRelease
<1>4. ASSUME ReapTrim \/ ReapPrewarm PROVE UNCHANGED typed
  BY <1>4 DEF ReapTrim, ReapPrewarm, TrimOne, PrewarmOne, PrewarmFails, poolVars
<1>5. ASSUME NEW w \in WorkerIds, WorkerDies(w) PROVE UNCHANGED typed
  BY <1>5 DEF WorkerDies, Crash
<1> QED BY <1>1, <1>2, <1>3, <1>4, <1>5, QuietPool, StepKinds DEF poolVars

LEMMA UnusedNext == Inv /\ Unused /\ [Next]_vars => Unused'
<1> SUFFICES ASSUME Inv, Unused, [Next]_vars, NEW w \in WorkerIds, w \notin 1 .. nextWorkerId'
             PROVE  typed'[w] = {}
  BY DEF Unused
<1>1. nextWorkerId \in Nat
  BY PoolAssumption DEF Inv, PoolInv, PoolTypeOK
<1>2. w \notin 1 .. nextWorkerId
  BY <1>1, NumbersGrow
<1>3. typed[w] = {}
  BY <1>2 DEF Unused
<1>4. ASSUME NEW r \in Requests, Serve(r) PROVE typed'[w] = typed[w]
  <2>1. w \notin alive
    BY <1>2 DEF Inv, PoolInv
  <2> QED BY <1>4, <2>1, ServedBuffer
<1> QED BY <1>3, <1>4, OthersWipe DEF Wipes

LEMMA UnusedAlways == Spec => []Unused
<1>1. Init => Unused
  BY DEF Init, PoolInit, Unused
<1> QED BY <1>1, UnusedNext, Invariance, PTL DEF Spec

\* Every handler that is served still holds what it noted.
InTime == \A r \in Requests : Serve(r) => busy[task[r].s] = task[r].w

LEMMA TidyStep ==
    ASSUME Inv, Unused, Tidy, [Next]_vars, InTime
    PROVE  Tidy'
<1>0. /\ PoolInv /\ busy \in [Sessions -> WorkerIds \cup {NoWorker}]
      /\ typed \in [WorkerIds -> SUBSET Sessions] /\ alive \subseteq WorkerIds
      /\ NoWorker \notin WorkerIds
  BY DEF Inv, PoolInv, PoolTypeOK, NoWorker, WorkerIds
<1>1. ASSUME UNCHANGED <<busy, typed>>, alive' \subseteq alive PROVE Tidy'
  BY <1>1 DEF Tidy
<1>2. ASSUME NEW r \in Requests, Serve(r) PROVE Tidy'
  <2>1. UNCHANGED <<busy, alive>> /\ busy[task[r].s] = task[r].w
    BY <1>2 DEF Serve, InTime
  <2>2. \A x \in WorkerIds : \A u \in typed'[x] :
           u \in typed[x] \/ (x = task[r].w /\ u = task[r].s)
    BY <1>2, ServedBuffer
  <2> QED BY <1>0, <2>1, <2>2 DEF Tidy
<1>3. ASSUME NEW r \in Requests, NEW s \in Sessions, OpenAcquire(r, s) PROVE Tidy'
  <2>1. s \notin opened
    BY <1>3 DEF OpenAcquire
  <2>2. busy[s] = NoWorker
    BY <2>1 DEF Inv, Fresh
  <2>3. PICK want \in BOOLEAN : (\E w \in WorkerIds : Acquire(s, want, w)) \/ AcquireFails(want)
    BY <1>3 DEF OpenAcquire
  <2>4. CASE AcquireFails(want)
    <3>1. UNCHANGED <<busy, typed, alive>>
      BY <2>4 DEF AcquireFails, SpawnFailed, TakeIdle
    <3> QED BY <3>1, <1>1
  <2>5. ASSUME NEW w \in WorkerIds, Acquire(s, want, w) PROVE Tidy'
    <3>1. /\ busy' = [busy EXCEPT ![s] = w] /\ typed' = [typed EXCEPT ![w] = {}]
          /\ alive' \subseteq alive \cup {w}
      BY <2>5 DEF Acquire, Grant, Take, TakeIdle, TakeSpawned
    <3> SUFFICES ASSUME NEW x \in alive', NEW u \in typed'[x] PROVE busy'[u] = x
      BY DEF Tidy
    <3>2. x # w /\ x \in alive /\ x \in WorkerIds /\ u \in typed[x] /\ u \in Sessions
      BY <1>0, <3>1
    <3>3. busy[u] = x /\ u # s
      BY <1>0, <2>2, <3>2 DEF Tidy
    <3> QED BY <1>0, <3>1, <3>2, <3>3
  <2> QED BY <2>3, <2>4, <2>5
<1>4. ASSUME NEW s \in Sessions, ReapRelease(s) PROVE Tidy'
  <2> DEFINE w == busy[s]
  <2>1. Release(s)
    BY <1>4 DEF ReapRelease
  <2>2. CASE busy[s] = NoWorker /\ UNCHANGED poolVars
    BY <2>2, <1>1 DEF poolVars
  <2>3. CASE Recycle(s) \/ Retire(s)
    <3>1. /\ busy' = [busy EXCEPT ![s] = NoWorker] /\ w \in WorkerIds /\ alive' \subseteq alive
          /\ w \in alive' => typed'[w] = {}
          /\ \A x \in WorkerIds : x # w => typed'[x] = typed[x]
      <4>1. busy' = [busy EXCEPT ![s] = NoWorker] /\ w \in WorkerIds
        BY <2>3, <1>0 DEF Recycle, Retire
      <4>2. CASE Recycle(s)
        BY <4>1, <4>2, <1>0 DEF Recycle
      <4>3. CASE Retire(s)
        BY <4>1, <4>3, <1>0 DEF Retire
      <4> QED BY <4>1, <4>2, <4>3, <2>3
    <3> SUFFICES ASSUME NEW x \in alive', NEW u \in typed'[x] PROVE busy'[u] = x
      BY DEF Tidy
    <3>2. x # w /\ x \in alive /\ x \in WorkerIds /\ u \in typed[x] /\ u \in Sessions
      BY <1>0, <3>1
    <3>3. busy[u] = x /\ u # s
      BY <3>2 DEF Tidy
    <3> QED BY <1>0, <3>1, <3>2, <3>3
  <2> QED BY <2>1, <2>2, <2>3 DEF Release
<1>5. ASSUME ReapTrim PROVE Tidy'
  BY <1>1, <1>5 DEF ReapTrim, TrimOne, poolVars
<1>6. ASSUME ReapPrewarm PROVE Tidy'
  <2>1. CASE PrewarmOne
    <3>1. PICK w \in WorkerIds : Spawned(w) /\ alive' = alive \cup {w}
      BY <2>1 DEF PrewarmOne
    <3>2. w \notin 1 .. nextWorkerId
      BY <3>1, PoolAssumption DEF Spawned, Inv, PoolInv, PoolTypeOK
    <3>3. UNCHANGED <<busy, typed>> /\ typed[w] = {}
      BY <2>1, <3>2 DEF PrewarmOne, Unused
    <3> QED BY <3>1, <3>3 DEF Tidy
  <2>2. CASE ~PrewarmOne
    <3>1. UNCHANGED <<busy, typed, alive>>
      BY <2>2, <1>6 DEF ReapPrewarm, PrewarmFails, SpawnFailed, poolVars
    <3> QED BY <3>1, <1>1
  <2> QED BY <2>1, <2>2
<1>7. ASSUME NEW w \in WorkerIds, WorkerDies(w) PROVE Tidy'
  BY <1>1, <1>7 DEF WorkerDies, Crash
<1>8. ASSUME QuietStep PROVE Tidy'
  BY <1>1, <1>8, QuietPool DEF poolVars
<1> QED BY <1>2, <1>3, <1>4, <1>5, <1>6, <1>7, <1>8, StepKinds

\* A running worker shows keystrokes of the session it is leased to and of no
\* other, until a handler is served whose session's worker was given back while
\* it waited for the pool mutex; nothing else breaks that (release_for_session,
\* acquire_for_session, the pool sections of the session RPCs).
THEOREM OnlyLateServes == Spec => OnlyLateServesStray
<1> DEFINE Late == \E r \in Requests : Serve(r) /\ busy[task[r].s] # task[r].w
<1>1. ASSUME Inv, Unused, [Next]_vars, Tidy, ~Tidy' PROVE Late
  <2>1. ~InTime
    BY <1>1, TidyStep
  <2> QED BY <2>1 DEF InTime
<1>2. Inv /\ Unused /\ [Next]_vars => [Tidy /\ ~Tidy' => Late]_vars
  BY <1>1
<1> HIDE DEF Late
<1>3. Spec => [][Tidy /\ ~Tidy' => Late]_vars
  BY <1>2, Invariance, UnusedAlways, PTL DEF Spec
<1> QED BY <1>3 DEF OnlyLateServesStray, Late

\* A buffer with keystrokes of one session gets others only from a late handler,
\* whether its worker still runs or not.
LEMMA ApartStep ==
    ASSUME Inv, Tidy, Isolated, [Next]_vars, InTime
    PROVE  Isolated'
<1> SUFFICES ASSUME NEW w \in WorkerIds, NEW s \in typed'[w], NEW t \in typed'[w] PROVE s = t
  BY DEF Isolated
<1>1. CASE Wipes
  BY <1>1 DEF Wipes, Isolated
<1>2. ASSUME NEW r \in Requests, Serve(r) PROVE s = t
  <2>1. \A u \in typed'[w] :
           u \in typed[w] \/ (w = task[r].w /\ u = task[r].s /\ w \in alive)
    BY <1>2, ServedBuffer
  <2>2. busy[task[r].s] = task[r].w /\ task[r].s \in Sessions
    BY <1>2 DEF InTime, Serve, Inv, Noted, GateTypeOK, Idle
  <2>3. \A u, v \in Sessions : busy[u] = w /\ busy[v] = w => u = v
    BY DEF Inv, PoolInv, WorkerIds, NoWorker
  <2>4. \A u \in typed[w] : u \in Sessions /\ (w \in alive => busy[u] = w)
    BY DEF Inv, PoolInv, PoolTypeOK, Tidy
  <2>5. s \in typed[w] /\ t \in typed[w] => s = t
    BY DEF Isolated
  <2> QED BY <2>1, <2>2, <2>3, <2>4, <2>5
<1> QED BY <1>1, <1>2, OthersWipe

\* What holds of the isolation that scripts/qq_concurrency_isolation.sh is there
\* to show: if each handler, once it has the pool mutex, still finds its session's
\* worker leased to it, then no worker, running or not, ever holds keystrokes of
\* two sessions, whoever dies, is cancelled or reaped.
THEOREM IsolatedInTime == Spec /\ [][InTime]_vars => []Isolated
<1>1. Init => Tidy /\ Isolated
  BY DEF Init, PoolInit, Tidy, Isolated
<1>2. Inv /\ Unused /\ Tidy /\ Isolated /\ [Next]_vars /\ [InTime]_vars => Tidy' /\ Isolated'
  <2> SUFFICES ASSUME Inv, Unused, Tidy, Isolated, [Next]_vars, [InTime]_vars
               PROVE  Tidy' /\ Isolated'
    OBVIOUS
  <2>1. CASE InTime
    BY <2>1, TidyStep, ApartStep
  <2>2. CASE UNCHANGED vars
    BY <2>2 DEF vars, poolVars, Tidy, Isolated
  <2> QED BY <2>1, <2>2
<1> QED BY <1>1, <1>2, Invariance, UnusedAlways, PTL DEF Spec
=============================================================================
