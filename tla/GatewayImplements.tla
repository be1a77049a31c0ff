-------------------------- MODULE GatewayImplements -------------------------
(***************************************************************************)
(* Proof that the gateway implements WorkerLease under Gateway!Holder.     *)
(*                                                                         *)
(* Under the invariant a worker's holder is determined by three questions: *)
(* which session's lease names it, whether it is in the deque, and whether *)
(* its number was given out (HolderInIs).  Every step of the gateway       *)
(* changes the answers for at most one worker (Moves), and the abstract    *)
(* action follows from which way it moves.                                 *)
(***************************************************************************)
EXTENDS GatewayProofs

\* Holder, with what it reads as parameters: the states before and after a step
\* are two instances of it.
HolderIn(b, q, n, w) ==
    IF w \in {b[s] : s \in Sessions} \ {NoWorker} THEN CHOOSE s \in Sessions : b[s] = w
    ELSE IF w \in Elems(q) THEN Pooled
    ELSE IF w > n THEN Unborn ELSE Gone

Single(b) == \A s, t \in Sessions : b[s] = b[t] /\ b[s] # NoWorker => s = t

LEMMA HolderInIs ==
    ASSUME NEW b, NEW q, NEW n, NEW w, w # NoWorker, Single(b)
    PROVE  /\ \A s \in Sessions : b[s] = w => HolderIn(b, q, n, w) = s
           /\ (\A s \in Sessions : b[s] # w) =>
                 /\ w \in Elems(q) => HolderIn(b, q, n, w) = Pooled
                 /\ w \notin Elems(q) /\ w > n => HolderIn(b, q, n, w) = Unborn
                 /\ w \notin Elems(q) /\ ~(w > n) => HolderIn(b, q, n, w) = Gone
<1>1. ASSUME NEW s \in Sessions, b[s] = w PROVE HolderIn(b, q, n, w) = s
  <2>1. w \in {b[t] : t \in Sessions} \ {NoWorker}
    BY <1>1
  <2>2. HolderIn(b, q, n, w) = CHOOSE t \in Sessions : b[t] = w
    BY <2>1 DEF HolderIn
  <2>3. \A t \in Sessions : b[t] = w => t = s
    BY <1>1 DEF Single
  <2> QED BY <1>1, <2>2, <2>3
<1>2. ASSUME \A s \in Sessions : b[s] # w
      PROVE  w \notin {b[t] : t \in Sessions} \ {NoWorker}
  BY <1>2
<1> QED BY <1>1, <1>2 DEF HolderIn

HolderMap == [w \in WorkerIds |-> Holder(w)]

\* The mapping reads only the leases, the deque and the counter.
LEMMA HolderReads ==
    /\ \A w \in WorkerIds : HolderMap[w] = HolderIn(busy, idle, nextWorkerId, w)
    /\ \A w \in WorkerIds : HolderMap'[w] = HolderIn(busy', idle', nextWorkerId', w)
<1>1. ASSUME NEW w \in WorkerIds
      PROVE  Holder(w) = HolderIn(busy, idle, nextWorkerId, w)
  BY DEF Holder, HolderIn, Leased, Queued, Elems
<1>2. ASSUME NEW w \in WorkerIds
      PROVE  Holder(w)' = HolderIn(busy', idle', nextWorkerId', w)
  BY DEF Holder, HolderIn, Leased, Queued, Elems
<1> QED BY <1>1, <1>2 DEF HolderMap

\* If a step leaves the answers for a worker alone, its holder stays.
LEMMA Stays ==
    ASSUME PoolInv, PoolInv', NEW w \in WorkerIds,
           \A s \in Sessions : busy'[s] = w <=> busy[s] = w,
           w \in Elems(idle') <=> w \in Elems(idle),
           w > nextWorkerId' <=> w > nextWorkerId
    PROVE  HolderMap'[w] = HolderMap[w]
<1>1. w # NoWorker /\ Single(busy) /\ Single(busy')
  BY DEF PoolInv, Single, WorkerIds, NoWorker
<1> DEFINE h == HolderIn(busy, idle, nextWorkerId, w)
           k == HolderIn(busy', idle', nextWorkerId', w)
<1>2. /\ \A s \in Sessions : busy[s] = w => h = s
      /\ (\A s \in Sessions : busy[s] # w) =>
            /\ w \in Elems(idle) => h = Pooled
            /\ w \notin Elems(idle) /\ w > nextWorkerId => h = Unborn
            /\ w \notin Elems(idle) /\ ~(w > nextWorkerId) => h = Gone
  BY <1>1, HolderInIs
<1>3. /\ \A s \in Sessions : busy'[s] = w => k = s
      /\ (\A s \in Sessions : busy'[s] # w) =>
            /\ w \in Elems(idle') => k = Pooled
            /\ w \notin Elems(idle') /\ w > nextWorkerId' => k = Unborn
            /\ w \notin Elems(idle') /\ ~(w > nextWorkerId') => k = Gone
  BY <1>1, HolderInIs
<1> HIDE DEF h, k
<1>4. h = k
  BY <1>2, <1>3
<1> QED BY <1>4, HolderReads DEF h, k

\* A step that disturbs the answers for worker x alone moves x alone.
LEMMA Moves ==
    ASSUME PoolInv, PoolInv', NEW x \in WorkerIds,
           \A w \in WorkerIds \ {x} :
              /\ \A s \in Sessions : busy'[s] = w <=> busy[s] = w
              /\ w \in Elems(idle') <=> w \in Elems(idle)
              /\ w > nextWorkerId' <=> w > nextWorkerId
    PROVE  HolderMap' = [HolderMap EXCEPT ![x] = HolderMap'[x]]
<1>1. \A w \in WorkerIds \ {x} : HolderMap'[w] = HolderMap[w]
  BY Stays
<1>2. /\ HolderMap = [w \in WorkerIds |-> HolderMap[w]]
      /\ HolderMap' = [w \in WorkerIds |-> HolderMap'[w]]
  BY DEF HolderMap
<1> HIDE DEF HolderMap
<1> QED BY <1>1, <1>2

\* Where one worker is, before a step and after it.
LEMMA Where ==
    ASSUME PoolInv, PoolInv', NEW x \in WorkerIds
    PROVE  /\ \A s \in Sessions : busy[s] = x => HolderMap[x] = s
           /\ x \in Elems(idle) => HolderMap[x] = Pooled
           /\ x > nextWorkerId => HolderMap[x] = Unborn
           /\ \A s \in Sessions : busy'[s] = x => HolderMap'[x] = s
           /\ x \in Elems(idle') => HolderMap'[x] = Pooled
           /\ (\A s \in Sessions : busy'[s] # x) /\ x \notin Elems(idle')
                 /\ ~(x > nextWorkerId') => HolderMap'[x] = Gone
<1>1. x # NoWorker /\ Single(busy) /\ Single(busy')
  BY DEF PoolInv, Single, WorkerIds, NoWorker
<1>2. /\ x \in Elems(idle) => \A s \in Sessions : busy[s] # x
      /\ x \in Elems(idle') => \A s \in Sessions : busy'[s] # x
  BY <1>1 DEF PoolInv
<1>3. ASSUME x > nextWorkerId
      PROVE  x \notin Elems(idle) /\ \A s \in Sessions : busy[s] # x
  <2>1. x \notin workers
    BY <1>3, PoolAssumption DEF PoolInv, PoolTypeOK, WorkerIds
  <2> QED BY <2>1, <1>1 DEF PoolInv
<1>4. /\ \A s \in Sessions : busy[s] = x => HolderIn(busy, idle, nextWorkerId, x) = s
      /\ (\A s \in Sessions : busy[s] # x) =>
           /\ x \in Elems(idle) => HolderIn(busy, idle, nextWorkerId, x) = Pooled
           /\ x \notin Elems(idle) /\ x > nextWorkerId =>
                HolderIn(busy, idle, nextWorkerId, x) = Unborn
  BY <1>1, HolderInIs
<1>5. /\ \A s \in Sessions : busy'[s] = x => HolderIn(busy', idle', nextWorkerId', x) = s
      /\ (\A s \in Sessions : busy'[s] # x) =>
           /\ x \in Elems(idle') => HolderIn(busy', idle', nextWorkerId', x) = Pooled
           /\ x \notin Elems(idle') /\ ~(x > nextWorkerId') =>
                HolderIn(busy', idle', nextWorkerId', x) = Gone
  BY <1>1, HolderInIs
<1> QED BY <1>2, <1>3, <1>4, <1>5, HolderReads

-----------------------------------------------------------------------------
(* The pool's operations, seen through the mapping.                        *)

LEMMA NothingMoves ==
    ASSUME UNCHANGED <<busy, idle, nextWorkerId>>
    PROVE  HolderMap' = HolderMap
  BY DEF HolderMap, Holder, Leased, Queued

\* The number given out next names a worker not born yet.
LEMMA NextNumber ==
    ASSUME PoolInv, NEW w \in WorkerIds, w = nextWorkerId + 1
    PROVE  /\ w > nextWorkerId /\ w \notin Elems(idle)
           /\ \A s \in Sessions : busy[s] # w
<1>1. nextWorkerId \in Nat /\ w # NoWorker /\ w > nextWorkerId
  BY PoolAssumption DEF PoolInv, PoolTypeOK, NoWorker
<1>2. w \notin workers
  BY <1>1 DEF PoolInv
<1> QED BY <1>1, <1>2 DEF PoolInv

\* A number that was not given out is not given out by giving out another.
LEMMA OtherNumbers ==
    ASSUME PoolInv, nextWorkerId' = nextWorkerId + 1,
           NEW w \in WorkerIds, w # nextWorkerId + 1
    PROVE  w > nextWorkerId' <=> w > nextWorkerId
<1>1. nextWorkerId \in Nat /\ w \in Nat
  BY PoolAssumption DEF PoolInv, PoolTypeOK, WorkerIds
<1> QED BY <1>1

\* acquire_for_session leases a pooled worker or one just started.
LEMMA AcquireLeases ==
    ASSUME PoolInv, PoolInv', NEW s \in Sessions, busy[s] = NoWorker,
           NEW want \in BOOLEAN, NEW w \in WorkerIds, Acquire(s, want, w)
    PROVE  /\ HolderMap[w] \in {Unborn, Pooled}
           /\ HolderMap' = [HolderMap EXCEPT ![w] = s]
<1>1. \A u \in Sessions : busy'[u] = IF u = s THEN w ELSE busy[u]
  BY DEF Acquire, Grant, PoolInv, PoolTypeOK
<1>2. \A v \in WorkerIds \ {w}, u \in Sessions : busy'[u] = v <=> busy[u] = v
  <2>1. \A v \in WorkerIds : v # NoWorker
    BY DEF WorkerIds, NoWorker
  <2> QED BY <1>1, <2>1
<1>3. CASE TakeIdle(want, w)
  <2>1. /\ idle \in Seq(WorkerIds) /\ idle # <<>> /\ Distinct(idle) /\ w = Head(idle)
        /\ idle' = Tail(idle) /\ nextWorkerId' = nextWorkerId
    BY <1>3 DEF PoolInv, PoolTypeOK, TakeIdle
  <2>2. w \in Elems(idle) /\ Elems(idle') = Elems(idle) \ {w}
    BY <2>1, PopFront
  <2>3. HolderMap' = [HolderMap EXCEPT ![w] = HolderMap'[w]]
    BY <1>2, <2>1, <2>2, Moves
  <2> QED BY <1>1, <2>2, <2>3, Where
<1>4. CASE TakeSpawned(want, w)
  <2>1. w = nextWorkerId + 1 /\ nextWorkerId' = nextWorkerId + 1 /\ idle' = idle
    BY <1>4 DEF TakeSpawned, Spawned
  <2>2. w > nextWorkerId
    BY <2>1, NextNumber
  <2>3. HolderMap' = [HolderMap EXCEPT ![w] = HolderMap'[w]]
    BY <1>2, <2>1, OtherNumbers, Moves
  <2> QED BY <1>1, <2>2, <2>3, Where
<1> QED BY <1>3, <1>4 DEF Acquire, Take

\* A number used up for nothing.
LEMMA NumberGone ==
    ASSUME PoolInv, PoolInv', UNCHANGED <<busy, idle>>,
           NEW w \in WorkerIds, w = nextWorkerId + 1, nextWorkerId' = nextWorkerId + 1
    PROVE  /\ HolderMap[w] = Unborn
           /\ HolderMap' = [HolderMap EXCEPT ![w] = Gone]
<1>1. /\ w > nextWorkerId /\ w \notin Elems(idle) /\ \A s \in Sessions : busy[s] # w
  BY NextNumber
<1>2. ~(w > nextWorkerId')
  BY PoolAssumption DEF PoolInv, PoolTypeOK
<1>3. HolderMap' = [HolderMap EXCEPT ![w] = HolderMap'[w]]
  BY OtherNumbers, Moves
<1> QED BY <1>1, <1>2, <1>3, Where

LEMMA SpawnFailsGone ==
    ASSUME PoolInv, PoolInv', UNCHANGED <<busy, idle>>, SpawnFailed
    PROVE  \/ HolderMap' = HolderMap
           \/ \E w \in WorkerIds : /\ HolderMap[w] = Unborn
                                   /\ HolderMap' = [HolderMap EXCEPT ![w] = Gone]
<1>1. CASE nextWorkerId < MaxWorkers
  <2>1. nextWorkerId + 1 \in WorkerIds /\ nextWorkerId' = nextWorkerId + 1
    BY <1>1, PoolAssumption DEF PoolInv, PoolTypeOK, WorkerIds, SpawnFailed
  <2> QED BY <2>1, NumberGone
<1>2. CASE ~(nextWorkerId < MaxWorkers)
  BY <1>2, NothingMoves DEF SpawnFailed
<1> QED BY <1>1, <1>2

\* An acquire that fails loses a pooled worker, an unborn one, or none.
LEMMA AcquireRefuses ==
    ASSUME PoolInv, PoolInv', NEW want \in BOOLEAN, AcquireFails(want)
    PROVE  \/ HolderMap' = HolderMap
           \/ \E w \in WorkerIds : /\ HolderMap[w] \in {Unborn, Pooled}
                                   /\ HolderMap' = [HolderMap EXCEPT ![w] = Gone]
<1>1. UNCHANGED busy
  BY DEF AcquireFails
<1>2. CASE SpawnFailed /\ UNCHANGED idle
  BY <1>1, <1>2, SpawnFailsGone
<1>3. CASE \E w \in WorkerIds : TakeIdle(want, w) /\ w \notin alive
  <2> PICK w \in WorkerIds : TakeIdle(want, w)
    BY <1>3
  <2>1. /\ idle \in Seq(WorkerIds) /\ idle # <<>> /\ Distinct(idle) /\ w = Head(idle)
        /\ idle' = Tail(idle) /\ nextWorkerId' = nextWorkerId
    BY DEF PoolInv, PoolTypeOK, TakeIdle
  <2>2. w \in Elems(idle) /\ Elems(idle') = Elems(idle) \ {w}
    BY <2>1, PopFront
  <2>3. HolderMap' = [HolderMap EXCEPT ![w] = HolderMap'[w]]
    BY <1>1, <2>1, <2>2, Moves
  <2>4. /\ \A s \in Sessions : busy'[s] # w
        /\ ~(w > nextWorkerId')
    <3>1. w \in workers /\ \A s \in Sessions : busy[s] # NoWorker => busy[s] # w
      BY <2>2 DEF PoolInv
    <3>2. w \in 1 .. nextWorkerId /\ w # NoWorker /\ nextWorkerId \in Nat
      BY <3>1, PoolAssumption DEF PoolInv, PoolTypeOK, WorkerIds, NoWorker
    <3> QED BY <1>1, <2>1, <3>1, <3>2
  <2> QED BY <2>2, <2>3, <2>4, Where
<1>4. CASE \E w \in WorkerIds : Spawned(w) /\ UNCHANGED <<idle, alive>>
  <2> PICK w \in WorkerIds : Spawned(w) /\ UNCHANGED <<idle, alive>>
    BY <1>4
  <2> QED BY <1>1, NumberGone DEF Spawned
<1> QED BY <1>2, <1>3, <1>4 DEF AcquireFails

\* release_for_session takes a worker from its session, to the pool or away.
LEMMA ReleaseReturns ==
    ASSUME PoolInv, PoolInv', NEW s \in Sessions, Recycle(s) \/ Retire(s)
    PROVE  /\ busy[s] \in WorkerIds /\ HolderMap[busy[s]] = s
           /\ \E fate \in {Pooled, Gone} :
                 HolderMap' = [HolderMap EXCEPT ![busy[s]] = fate]
<1> DEFINE w == busy[s]
<1>1. /\ w \in WorkerIds /\ w # NoWorker /\ nextWorkerId' = nextWorkerId
      /\ \A u \in Sessions : busy'[u] = IF u = s THEN NoWorker ELSE busy[u]
  BY DEF Recycle, Retire, PoolInv, PoolTypeOK
<1>2. /\ w \in workers /\ w \notin Elems(idle)
      /\ \A u \in Sessions : busy'[u] # w
  BY <1>1 DEF PoolInv
<1> HIDE DEF w
<1>3. ~(w > nextWorkerId')
  <2>1. w \in 1 .. nextWorkerId /\ nextWorkerId \in Nat
    BY <1>2, PoolAssumption DEF PoolInv, PoolTypeOK
  <2> QED BY <1>1, <2>1
<1>4. idle' = idle \/ Elems(idle') = Elems(idle) \cup {w}
  <2>1. idle \in Seq(WorkerIds) /\ Distinct(idle)
    BY DEF PoolInv, PoolTypeOK
  <2>2. idle' = idle \/ idle' = Append(idle, w)
    BY DEF Recycle, Retire, w
  <2>3. CASE idle' = Append(idle, w)
    BY <1>1, <1>2, <2>1, <2>3, PushBack
  <2> QED BY <2>2, <2>3
<1>5. \A v \in WorkerIds \ {w}, u \in Sessions : busy'[u] = v <=> busy[u] = v
  BY <1>1 DEF w, WorkerIds, NoWorker
<1>6. HolderMap' = [HolderMap EXCEPT ![w] = HolderMap'[w]]
  BY <1>1, <1>4, <1>5, Moves
<1>7. HolderMap'[w] \in {Pooled, Gone}
  BY <1>1, <1>2, <1>3, <1>4, Where
<1>8. HolderMap[w] = s
  BY <1>1, Where DEF w
<1> QED BY <1>1, <1>6, <1>7, <1>8 DEF w

\* trim_idle shuts a pooled worker down.
LEMMA TrimDrops ==
    ASSUME PoolInv, PoolInv', TrimOne
    PROVE  \E w \in WorkerIds : /\ HolderMap[w] = Pooled
                                /\ HolderMap' = [HolderMap EXCEPT ![w] = Gone]
<1> DEFINE w == idle[Len(idle)]
<1>1. /\ idle \in Seq(WorkerIds) /\ Distinct(idle) /\ Len(idle) > 0
      /\ idle' = SubSeq(idle, 1, Len(idle) - 1)
      /\ UNCHANGED <<nextWorkerId, busy>>
  BY PoolAssumption DEF PoolInv, PoolTypeOK, TrimOne
<1>2. /\ w \in WorkerIds /\ w \in Elems(idle) /\ Elems(idle') = Elems(idle) \ {w}
  BY <1>1, PopBack
<1> HIDE DEF w
<1>3. /\ \A s \in Sessions : busy'[s] # w
      /\ ~(w > nextWorkerId')
  <2>1. w \in workers /\ \A s \in Sessions : busy[s] # NoWorker => busy[s] # w
    BY <1>2 DEF PoolInv
  <2>2. w \in 1 .. nextWorkerId /\ w # NoWorker /\ nextWorkerId \in Nat
    BY <1>2, <2>1, PoolAssumption DEF PoolInv, PoolTypeOK, WorkerIds, NoWorker
  <2> QED BY <1>1, <2>1, <2>2
<1>4. HolderMap' = [HolderMap EXCEPT ![w] = HolderMap'[w]]
  BY <1>1, <1>2, Moves
<1> QED BY <1>2, <1>3, <1>4, Where

\* prewarm puts an unborn worker into the pool.
LEMMA PrewarmStarts ==
    ASSUME PoolInv, PoolInv', PrewarmOne
    PROVE  \E w \in WorkerIds : /\ HolderMap[w] = Unborn
                                /\ HolderMap' = [HolderMap EXCEPT ![w] = Pooled]
<1>1. PICK w \in WorkerIds : Spawned(w) /\ idle' = Append(idle, w)
  BY DEF PrewarmOne
<1>2. w = nextWorkerId + 1 /\ nextWorkerId' = nextWorkerId + 1 /\ UNCHANGED busy
  BY <1>1 DEF Spawned, PrewarmOne
<1>3. w > nextWorkerId /\ w \notin Elems(idle)
  BY <1>2, NextNumber
<1>4. idle \in Seq(WorkerIds) /\ Distinct(idle)
  BY DEF PoolInv, PoolTypeOK
<1>5. Elems(idle') = Elems(idle) \cup {w}
  BY <1>1, <1>3, <1>4, PushBack
<1>6. HolderMap' = [HolderMap EXCEPT ![w] = HolderMap'[w]]
  BY <1>2, <1>5, OtherNumbers, Moves
<1> QED BY <1>3, <1>5, <1>6, Where

-----------------------------------------------------------------------------
(* The gateway's steps.                                                    *)

\* The gateway implements WorkerLease: a worker passes from one session to the
\* next only through the pool, one that is gone never comes back, and a session
\* gets a worker at most once, whatever handlers and reaper interleave.
THEOREM GatewayLeases == Spec => LeaseContract
<1>1. Init => Contract!LeaseInit
  <2> SUFFICES ASSUME Init PROVE Contract!LeaseInit
    OBVIOUS
  <2>1. \A w \in WorkerIds : w > nextWorkerId /\ w \notin Leased /\ w \notin Queued
    BY PoolAssumption DEF Init, PoolInit, Leased, Queued, WorkerIds, NoWorker
  <2>2. \A w \in WorkerIds : Holder(w) = Unborn
    BY <2>1 DEF Holder
  <2> QED BY <2>2 DEF Init, Contract!LeaseInit
<1>2. ASSUME Inv, Inv', [Next]_vars
      PROVE  [Contract!LeaseNext]_Contract!leaseVars
  <2>0. PoolInv /\ PoolInv'
    BY <1>2 DEF Inv
  <2>1. ASSUME NEW r \in Requests, NEW s \in Sessions, OpenAcquire(r, s)
        PROVE  Contract!LeaseNext
    <3>1. s \notin opened /\ opened' = opened \cup {s} /\ busy[s] = NoWorker
      BY <1>2, <2>1 DEF OpenAcquire, Inv, Fresh
    <3>2. PICK want \in BOOLEAN : (\E w \in WorkerIds : Acquire(s, want, w))
                                  \/ AcquireFails(want)
      BY <2>1 DEF OpenAcquire
    <3>3. CASE \E w \in WorkerIds : Acquire(s, want, w)
      <4> PICK w \in WorkerIds : Acquire(s, want, w)
        BY <3>3
      <4>1. /\ HolderMap[w] \in {Unborn, Pooled}
            /\ HolderMap' = [HolderMap EXCEPT ![w] = s]
        BY <2>0, <3>1, AcquireLeases
      <4>2. Contract!Lease(s, w)
        BY <3>1, <4>1 DEF HolderMap, Contract!Lease
      <4> QED BY <4>2 DEF Contract!LeaseNext
    <3>4. CASE AcquireFails(want)
      <4>1. \/ HolderMap' = HolderMap
            \/ \E w \in WorkerIds : /\ HolderMap[w] \in {Unborn, Pooled}
                                    /\ HolderMap' = [HolderMap EXCEPT ![w] = Gone]
        BY <2>0, <3>4, AcquireRefuses
      <4>2. Contract!Refuse(s)
        BY <3>1, <4>1 DEF HolderMap, Contract!Refuse
      <4> QED BY <4>2 DEF Contract!LeaseNext
    <3> QED BY <3>2, <3>3, <3>4
  <2>2. ASSUME NEW s \in Sessions, ReapRelease(s)
        PROVE  [Contract!LeaseNext]_Contract!leaseVars
    <3>1. opened' = opened /\ Release(s)
      BY <2>2 DEF ReapRelease, ReaperVars
    <3>2. CASE Recycle(s) \/ Retire(s)
      <4>1. /\ busy[s] \in WorkerIds /\ HolderMap[busy[s]] = s
            /\ \E fate \in {Pooled, Gone} :
                  HolderMap' = [HolderMap EXCEPT ![busy[s]] = fate]
        BY <2>0, <3>2, ReleaseReturns
      <4>2. Contract!Return(busy[s])
        BY <3>1, <4>1 DEF HolderMap, Contract!Return
      <4> QED BY <4>1, <4>2 DEF Contract!LeaseNext
    <3>3. CASE UNCHANGED poolVars
      BY <3>1, <3>3, NothingMoves DEF poolVars, HolderMap, Contract!leaseVars
    <3> QED BY <3>1, <3>2, <3>3 DEF Release
  <2>3. ASSUME ReapTrim \/ ReapPrewarm
        PROVE  [Contract!LeaseNext]_Contract!leaseVars
    <3>1. opened' = opened
      BY <2>3 DEF ReapTrim, ReapPrewarm, ReaperVars
    <3>2. CASE TrimOne
      <4>1. PICK w \in WorkerIds : /\ HolderMap[w] = Pooled
                                   /\ HolderMap' = [HolderMap EXCEPT ![w] = Gone]
        BY <2>0, <3>2, TrimDrops
      <4>2. Contract!Drop(w)
        BY <3>1, <4>1 DEF HolderMap, Contract!Drop
      <4> QED BY <4>2 DEF Contract!LeaseNext
    <3>3. CASE PrewarmOne
      <4>1. PICK w \in WorkerIds : /\ HolderMap[w] = Unborn
                                   /\ HolderMap' = [HolderMap EXCEPT ![w] = Pooled]
        BY <2>0, <3>3, PrewarmStarts
      <4>2. Contract!Start(w)
        BY <3>1, <4>1 DEF HolderMap, Contract!Start
      <4> QED BY <4>2 DEF Contract!LeaseNext
    <3>4. CASE PrewarmFails
      <4>1. \/ HolderMap' = HolderMap
            \/ \E w \in WorkerIds : /\ HolderMap[w] = Unborn
                                    /\ HolderMap' = [HolderMap EXCEPT ![w] = Gone]
        BY <2>0, <3>4, SpawnFailsGone DEF PrewarmFails
      <4>2. CASE HolderMap' = HolderMap
        BY <3>1, <4>2 DEF HolderMap, Contract!leaseVars
      <4>3. CASE \E w \in WorkerIds : /\ HolderMap[w] = Unborn
                                      /\ HolderMap' = [HolderMap EXCEPT ![w] = Gone]
        BY <3>1, <4>3 DEF HolderMap, Contract!Drop, Contract!LeaseNext
      <4> QED BY <4>1, <4>2, <4>3
    <3>5. CASE UNCHANGED poolVars
      BY <3>1, <3>5, NothingMoves DEF poolVars, HolderMap, Contract!leaseVars
    <3> QED BY <2>3, <3>2, <3>3, <3>4, <3>5 DEF ReapTrim, ReapPrewarm
  <2>4. ASSUME \/ \E r \in Requests : \/ OpenInsert(r) \/ KeyMark(r) \/ Serve(r) \/ Cancel(r)
                                      \/ \E s \in Sessions : \E q \in Seqs : KeyCheck(r, s, q)
               \/ \E r \in Requests, s \in Sessions :
                     \E op \in {"query", "commit", "reset"}, q \in 0 .. MaxSeq :
                         Touch(r, op, s, q)
               \/ ReapScan \/ ReapRemove \/ ReapLock
               \/ \E s \in Sessions : Expire(s)
               \/ \E w \in WorkerIds : WorkerDies(w)
               \/ UNCHANGED vars
        PROVE  UNCHANGED Contract!leaseVars
    <3>1. UNCHANGED <<busy, idle, nextWorkerId, opened>>
      BY <2>4
         DEF OpenInsert, KeyMark, Serve, Cancel, KeyCheck, Touch, ReapScan, ReapRemove,
             ReapLock, Expire, WorkerDies, Crash, ReaperVars, poolVars, vars
    <3> QED BY <3>1, NothingMoves DEF HolderMap, Contract!leaseVars
  <2> QED BY <1>2, <2>1, <2>2, <2>3, <2>4 DEF Next, Reap
<1>3. Inv /\ Inv' /\ [Next]_vars => [Contract!LeaseNext]_Contract!leaseVars
  BY <1>2
<1> QED BY <1>1, <1>3, Invariance, PTL DEF Spec, LeaseContract, Contract!LeaseSpec
=============================================================================
