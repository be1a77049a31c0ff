# rime-winime: a verification project

rime-winime lets Rime frontends use closed Windows input methods: a frontend
sends keys over gRPC to a *host* under Wine or Windows, the host feeds them to
the input method (IME) and sends back the composition, the candidates and the
text the IME commits. This directory holds TLA+ models of the parts whose
correctness depends on order: the v1 gateway with its pool of worker processes, the
worker process with its three backends, the v2 host with its Win32 adapter, and the
rime-remote plugin with its gRPC client; and of the functions through which every
candidate list, composition and key passes. TLC checks them on small instances; TLAPS proves
for every size every safety property that the passing runs check, and with them that the
gateway implements an abstract lease and the worker an abstract input method. Six promises
of the repository's documents, comments and tests are refuted by a run each; for each of the
six a theorem gives a condition under which it does hold. Three of the theorems about
passing runs have a premise on the environment too; section 4 lists all premises.

All line numbers refer to the files under `src/`.

## 1. Inventory

| Part | State it keeps | Operations | Correct when |
|---|---|---|---|
| **v1 worker pool** `src/ime-grpc-host/src/main.rs` (`WorkerPool`) | counter of worker ids, deque of idle ids, map session -> worker, registry id -> process | `new`, `spawn_worker`, `prewarm`, `acquire_for_session`, `release_for_session`, `trim_idle`, the request wrappers, `Drop` | a worker is in one place only; the registry holds every process; a worker changes hands with an empty buffer; the deque respects its limits |
| **v1 gateway** same file (`ImeGatewayService`, `reap_idle_sessions`) | session table: worker id, `last_seq`, last activity | open, key event, query, commit, reset, status, ping; a reaper every few seconds | table and pool agree; every lease is accounted for; keys are applied in order; sessions do not mix; idle sessions give their worker back |
| **v1 worker process** same file (`run_worker_runtime_mode`, `WorkerProcess`, `WorkerRuntime`) | its stdin and stdout; the stub's input buffer, candidates, version | `snapshot`, `reset_session`, `send_key_event`, `query_candidates`, `commit_selection`, one answer per request | the answer read is this call's; a reset or commit leaves nothing; every call returns |
| **v1 legacy TCP backend** same file (`LegacyTcpRuntime`) | connection, `activated`, input, composition, candidates | the same, as lines to the reverse-engineered host, with a time limit and one retry | a reply is taken for its own command's; no other session's letters while the connection lasts |
| **v1 Win32 backend** `backend/win_imm/imp.rs` | the IME's context, a buffer of its own beside it | the same, driving the IME in process | no fabricated candidates where they are forbidden; the page shown is the IME's |
| **v2 Win32 adapter** `src/ime-grpc-host-v2/src/win_imm/` (`mod.rs`, `session.rs`, `imm_ops.rs`) | sessions by id: HWND, HIMC, `pending_commits`; one thread's message queue; the IME's own context | open, destroy, process_key, get_context, get_commit, select_candidate | committed text reaches the session it was committed in, once, and is not lost; an id names one context for its lifetime |
| **v2 gRPC service** `src/ime-grpc-host-v2/src/server.rs` | one mutex around the backend | the RPCs | each RPC is atomic |
| **v2 channel backend** `win_imm/channel_adapter.rs` | a backend thread behind a command channel | the same | an answer is not taken for nobody |
| **v2 native backend** `backend/native.rs`, `rime_ffi.rs` | librime's sessions | the same | ids map one to one |
| **v2 key tables** `win_imm/vk_map.rs` | none | X keysym -> virtual key, lParam | a printable key reaches the IME as the character it is |
| **v2 gRPC client** `src/rime-grpc-proxy-v2/src/grpc_client.cc` | session map, stub, deadline | the same RPCs | a failed RPC leaves the map usable |
| **rime-remote plugin** `src/rime-remote/src/` | per engine: remote session id, cached context, pending commit, ascii toggle state | key cycle ProcessKey -> GetCommit -> GetContext, toggles, session life | text at most once and only its own; what is shown is what the host shows |
| **v2 API-hook plugin** `grpc_proxy_module.cc` | like the above, around the librime API | hooks | as above |
| **v1 plugin client** `src/rime-grpc-proxy/` | session id, sequence number | open, key, query, commit | a cached query result belongs to the keys the gateway has; it opens no second session, so a reaped one is lost to it |
| prototypes, tools, tests | - | - | read as statements about the program |

### Interactions

* A v1 client speaks to the gateway over tonic. A handler takes the *session
  table* lock, drops it, and takes the *pool* lock: never both. The pool talks to
  its worker processes over pipes, blocking, while its mutex is held. The reaper
  takes the table for reading, the table for writing, then the pool.
* The pool writes a request to a worker's stdin and reads its stdout, without a time
  limit; requests and answers carry no number. A worker calls its backend, which works in
  memory (stub), drives an IME in the same process (Win32), or sends lines to the legacy
  host (TCP), which serves one connection at a time with one IME context for all.
* A v2 frontend (rime-remote or the API-hook plugin) calls the v2 service. The
  service locks the backend, calls it synchronously, and answers. The adapter and
  the IME share three things: the input context (composition, result string), the
  message queue of the thread, and the return values of the IMM calls.

### Hard behaviours

1. State read under one lock and used under the next: the sequence number, the
   worker id, the list of expired sessions.
2. A handler dropped by its client between two locks.
3. A worker process that dies while idle, leased, or being handed over.
4. An IME that announces a commit by a posted message, by a message sent inside an
   IMM call that the pump never sees, by characters only, or not at all; and a
   result string that stays after it was read.
5. One message queue for all sessions of the host.
6. Ids made from the number of sessions.
7. Deadlines at the client with the RPC applied at the server all the same.
8. A reply that comes after its read timed out, on a connection that is used again.
9. What an IME shows, in offsets, pages and UTF-16 units of its own making.

`PROJECT.json` lists every hazard with its line and the properties about it.

## 2. Modules

    WorkerLease        abstract: who holds a worker, and how it changes hands
      ^ implemented by
    Gateway            handlers, session table, reaper, environment
      | EXTENDS
    WorkerPool         the pool's operations, each under the pool mutex
    GatewayProofs      EXTENDS Gateway, TLAPS: invariants
    GatewayImplements  EXTENDS GatewayProofs: Gateway implements WorkerLease
    MCGateway          EXTENDS Gateway, TLC: symmetry

    ImeBackend         abstract: an input method that serves one call at a time
      ^ implemented by
    Worker             the worker's loop, the gateway's side of its pipe
      | EXTENDS
    StubBackend  WinImmBackend  LegacyBackend    the three backends
      | EXTENDS
    Backend            requests, answers, what the backends share
    WorkerProofs       EXTENDS Worker, TLAPS: invariants
    WorkerImplements   EXTENDS WorkerProofs: Worker implements ImeBackend, OwnKeys

    Reading            one call of each reader, over bounded inputs
      | EXTENDS
    ImmRead  KeyMap    candidate lists and compositions; keys
    MCReading          EXTENDS Reading, TLC: long lists
    ReadingProofs      EXTENDS Reading, FilterProofs

    RimeRemote         plugin: key cycle, ascii toggles, session life; its client
    RimeRemoteProofs   EXTENDS RimeRemote, TLAPS
    MCRimeRemote       EXTENDS RimeRemote, TLC: symmetry

    ImmHost            sessions, message pump, both key ways, commit, selection
    ImmHostProofs      EXTENDS ImmHost, FilterProofs
    MCImmHost          EXTENDS ImmHost, TLC: symmetry

    Filter             the elements of a sequence that are in a set; in ImmHost, ImmRead
    FilterProofs       EXTENDS Filter, TLAPS: induction over numbers, what Filter gives

### WorkerPool and Gateway

`WorkerPool` has the pool's fields as variables: `nextWorkerId`, `idle` (the
deque), `busy` (`busy_by_session`), `workers` (the keys of the registry). Two more
stand for the processes: `alive`, those that run, and `typed`, whose keystrokes a
worker's input buffer holds. A worker is its number, since ids are made from the
counter. Each operator is what happens in one call under the mutex. The errors of
`spawn_worker` and of the reset at hand-over are alternatives of `AcquireFails`;
a reset that fails at release is ignored, as in the code (1475).

`Gateway` splits every handler at its locks:

| Code | Actions |
|---|---|
| `open_session` 1701-1740 | `OpenAcquire` (pool), `OpenInsert` (table) |
| `send_key_event` 1742-1856 | `KeyCheck` (table, read), `KeyMark` (table, write), `Serve` (pool) |
| `query_candidates`, `commit_selection`, `reset_session` 1858-2001 | `Touch` (table, write), `Serve` (pool) |
| `reap_idle_sessions` 2060-2115 | `ReapScan` (read), `ReapRemove` (write), `ReapLock`, `ReapRelease` per session, `ReapTrim` and `ReapPrewarm` per turn of their loops (pool held throughout) |
| a handler dropped by tonic | `Cancel` at any lock it waits for |
| time, process death | `Expire`, `WorkerDies` |

`task[r]` holds the locals a handler carries from one lock to the next: in
particular the worker id it copied. `reaper.doomed` is `expired_session_ids`. Only
what the properties tell apart is kept of a request: whose keystrokes the buffer
may hold afterwards (`Effect`), not the text. Three history variables serve the
properties: `opened`, `abandoned` (opens cancelled between their locks) and
`accepted` (the largest number of an applied key event).

### WorkerLease

The promise of the pool in terms of one function: a worker is unborn, in the pool,
held by one session, or gone; `Start`, `Lease`, `Refuse`, `Return` and `Drop` are
the only ways between them, so that a worker never passes from one session to
another directly, never comes back once gone, and a session gets at most one
worker in its life. `Gateway!Holder` is the refinement mapping.

### Backend, the three backends, Worker

`requests` and `answers` are the two pipes, `proc` where the process is, `mind` the
backend's fields, `ime` the composition in the IME's context, `env` what `from_env` found
(which backend, whether the IMM runtime and the IME's exports are there,
`IME_WINIMM_FORCE_REAL`). A text is whose letters it holds, the session's own or
another's, and whether it is so long that showing it twice exceeds a frame. The reading
goes with the composition; the version is whether it has grown since the call began. A
candidate list is where it came from and whether an OK answer has shown it.

| Code | Definitions |
|---|---|
| `handle_backend_request` 792-963, `worker_error_response` 286-300 | `Ok`, `Err` |
| `write_framed_payload` 247-263, the loop's `?` 1003 | `Fits`, `Reply` (an answer too large ends the process) |
| `WorkerRuntime` 1075-1291 | `StubKey`, `StubQuery`, `StubCommit`, `StubReset` |
| `WinImmBackend` (`imp.rs` 1336-1552) | `WinImmKey`, `WinImmQuery`, `WinImmCommit`, `WinImmReset` |
| `LegacyTcpRuntime` operations 559-652 | `LegacyKey`, `LegacyQuery`, `LegacyCommit`, `LegacyReset`, up to their first command |
| `ensure_ready`, `send_command`, `send_command_raw`, `query_remote_update` 395-557 | `Connect`, `Reuse`, `TakeActivate`, `TakeCodepage`, `TakeReset`, `TakeCandidates`, `PassOver`; every error is `CommandFails` |
| `run_worker_runtime_mode` 965-1007 | `Boot`, `Snapshot`, `WorkerStep` |
| `WorkerProcess::request` 1017-1030 | `Call`, `HandOver`, `Receive`, `SeeClosed` |
| the legacy host (`ime_host_skeleton.c`) | `HostAccepts`, `HostServes`, `HostServesOld`, `HostServesAnother`, `HostDies` |

The stub and the Win32 backend serve a request in one step, since nothing else sees
their state; the legacy backend takes one step per line written or read, with the host in
between. `leg` is where it is: the operation, the place in `query_remote_update`'s list of
commands, and the attempt, 0 for the bare `ensure_ready` of a reset. What a dropped
connection still held (`old`) may be served later. `conn.clean` is history: the host has
acknowledged a RESET on this connection since the session got the worker. `HandOver`
is the gateway's reset between two sessions; what was the session's own is then another's.

### ImeBackend

The trait as a promise: a call is asked, worked on and answered; what the worker shows
changes only while it serves a call and never without the version growing; a commit or
reset that succeeds leaves nothing, a commit that fails changes nothing, a reset cannot
fail. `Worker!Seen` maps the pipe to the call's state.

### ImmRead, KeyMap, Reading

Operators for pure functions, and a module whose behaviours are one call each, over every
input of a bounded shape. A candidate list is the words of the buffer from `dwOffset` on
(an offset of text k, zero, or one outside), its count, page and selection. A composition
is its UTF-16 units with the bytes of each, halves of pairs included, the IME's cursor and
the attribute of each unit. The key tables are as in the source; `ToUnicode` is that
of a US keyboard.

### ImmHost

`table` is `sessions` with its ids, `live` the contexts (HWND/HIMC pairs) not
destroyed, `host` what the adapter and the IME share: per context the composition,
the result string and the pending commits, and the thread's queue. `owner`
records in which context each text was committed and `given` how often it was handed
out. The IME is the environment: `Reactions` lists what it may do with a key or a
notification, `Late` what it may do between calls, and the .cfg chooses among these.

The adapter's helpers are functions from host state to host state, in the order in
which the code calls them: `PumpText` is `pump_messages_for_hwnd`, `Harvest` is
`harvest_thread_messages` with the `append_commit` every caller adds, `Dispatch` is
`dispatch_ime_transmsgs`, `FinalCheck` the last lines of `process_vk`. Each RPC is one action,
because the service holds one mutex from start to end and awaits nothing inside.

### RimeRemote

One engine per thread of control: `proc[e]` is its `RemoteProcessor` (what
`grpc_session_open`, `ascii_was_on_` and the cached context are, and where it is in a
cycle), `sessions` the client's map, `rime[e]` the part of librime it reads and
writes, `host` the sessions at the other end. Every RPC is one step with one of three
outcomes: answered, lost before the host acts, or cut off by the deadline after it.

| Code | Actions |
|---|---|
| constructor 28-85, destructor 87-93, `ShutdownAll` | `Create`, `Destroy`, `Shutdown` |
| `ProcessKeyEvent` 95-213 for a press in Chinese mode | `Press` (ProcessKey), `SyncCommit` (GetCommit), `SyncContext` (GetContext and the rest) |
| the comparison of `ascii_now` with `ascii_was_on_`, 104-117 | `Toggle` (a switch key), `Swallow` (any key after a turn from a menu) |
| `HandleAsciiModeToggle` 274-339 | `InlineAscii`, `SendEscape`, `SendSpace`, `Noop`, then `Settle` for its GetCommit |
| librime | `Composed`, `MenuToggle`, `InlineEnds` |

Texts, candidates and the cursor are not told apart: a composition is empty, one of a
few preedits, or a menu without a preedit, since the decision whether to pass a key on
looks at the preedit alone. `stale` marks engines with a reason to differ from their
session, `lostIds` sessions whose open or destroy went unanswered.

## 3. What the runs check

| Run | Instance | Result |
|---|---|---|
| `gw_safety` | 2 sessions, 2 handlers, 2 workers, pipelining clients, prewarm; 290,831 states | `TypeOK`, `WorkersExclusive`, `RegistryComplete`, `TableMatchesPool`, `LeaseAccounted`, `IdleBounded`, `LiveSessionsApart`, `CleanHandover`, `OnlyLateServesStray`, `LeaseContract` hold |
| `gw_live` | 2 sessions, 1 handler, 2 workers, `MinIdle` 1 over `MaxIdle` 0, numbers up to 2, a client that waits for each answer, fair; 277,331 states | `IdleReclaimed`, `HandlersFinish`, `KeysInOrder` hold |
| `gw_dupkey` | two key events of one session in flight | `KeysInOrder` is violated |
| `gw_isolation` | a slow handler, the reaper, a second session | `Isolated` is violated |
| `host_text` | 2 clients, 2 contexts, 2 texts, every reaction to a key or notification, results announced late; 38,974 states | `TypeOK`, `OwnText`, `KeyTextKept`, `TableInjective` hold |
| `host_ids` | 2 clients, 3 sessions | `SessionStable` is violated |
| `host_once` | 1 client, a key ignored after a commit | `DeliveredOnce` is violated |
| `worker` | each backend in each environment, host silent, gone or busy with others, process dies; 324,383 states | `TypeOK`, `InStep`, `ReplyMatches`, `OwnKeys`, `CommitShown`, `RealOnly`, `BackendContract`, `CallProgress`, `CallsReturn` hold |
| `readers` | lists of up to 3 candidates with every offset, page and selection, and of 8 to 13; compositions of up to 3 units; every printable and named key; 145,084 states | `MenuIsList`, `SamePage`, `LegacyIsList`, `PreeditPlaces`, `KeyTypesItself`, `SelectsShown` hold |
| `remote_safety` | 2 engines, 2 sessions, calls lost and cut, every toggle; 1,179,381 states | `TypeOK`, `SessionUsable`, `NoLeak`, `Shown`, `Drained` hold |
| `remote_timeout` | 1 engine, answers cut off | `KeyOnce` is violated |
| `host_select` | 1 client, an IME that commits inside ImmGenerateMessage | `SelectTextKept` is violated |

What the violated ones show is in `PROJECT.json` under "findings", with the line
of the document or test that says otherwise (the condition under which each holds is a
theorem, section 4):

* two key events of one session in flight together both pass the check of the
  sequence number, and the smaller may be applied last;
* a key of a session reaped in the meantime is typed into the worker's next
  session. Two properties that hold are the boundary. `LiveSessionsApart`: at most one of
  the sessions in such a worker is still in the table. `OnlyLateServesStray`: no step but that
  one, of a handler served after its session's worker was given back, ever
  brings another session's keystrokes into a running worker;
* after a destroy, an open may give out the id of a session still open. `TableInjective`,
  which holds, is the boundary: the old entry is overwritten, never shared;
* a result string that persists is committed a second time by an ignored key;
* a selection through NotifyIME may leave nothing for GetCommit;
* a key that commits without a composition and whose answer misses the deadline is
  both delivered as text and passed on. `Shown` and `Drained`, which hold, are the boundary:
  the composition and the text of such a key do reach the engine.

What the worker's and the readers' properties show, and where they stop:

* `InStep`: nothing in request or answer says which belongs to which; that one answer is
  written for each request, and that a worker whose read failed dies or is not asked
  again, is all that keeps them together.
* `ReplyMatches`: a read that times out leaves its reply coming. `send_command` drops the
  connection for that reason. The bare `ensure_ready` before a RESET does not, and is safe
  only because what it leaves (OK ACTIVATE, OK CP) is no reply that a command waits for.
* `CallProgress` is why `CallsReturn` holds: each step of a call goes on to a later command,
  attempt or place of `query_remote_update`, or takes a line off the connection, and neither
  the host nor anything else adds a line while the worker reads. `CommandFails` without its
  count of attempts breaks both.
* `OwnKeys` excepts the Win32 backend: its reset clears its own strings, and whether the
  IME's context is emptied by being selected again is the IME's choice. It also excepts
  the legacy backend from the moment the connection is lost, since the host's one
  context may hold what others typed.
* `CommitShown` says that a commit by index takes a candidate the worker answered. The
  gateway does not pass on the candidates in a key's answer, so a client that never asked
  for them commits from a list it has not seen.
* `SelectsShown` holds on every page for an IME that takes number keys, and on the first
  page for NotifyIME, which gets the row as an index of the list.
* `MenuIsList` holds where the offsets are in order behind nothing but zeros. Where the
  host leaves one out, `num_candidates` is larger than the number of candidates, and the
  plugin's loop, which runs to `num_candidates`, reads past them.
* `KeyTypesItself` covers ASCII; a Latin-1 keysym is cut to sixteen bits and may be the code of
  another key (0xDC is VK_OEM_5).

### Bounds, and why they are enough

* `MaxWorkers` bounds the ids a behaviour may use up; beyond it every spawn fails, which the
  code handles too. With two sessions and `MaxIdle` 1, two workers suffice for a
  release that requeues, a release that retires and a new lease of a requeued worker;
  `gw_live` has `MinIdle` above `MaxIdle`, so that a trim and a refill follow each other.
* Two sessions and two handlers: every property relates at most two sessions,
  and at most one handler of each. Two handlers of one session (the race of
  `gw_dupkey`) are included since slots do not belong to sessions.
* `MaxSeq`: one number gives both outcomes of the check; `gw_live` has two, so that one
  can be overtaken by the other.
* `gw_safety` allows pipelining, a superset of what a waiting client does.
* `MaxCtxs`, `MaxTexts`, `MaxPending` in `ImmHost`: `OwnText` and `KeyTextKept`
  relate one text to one context while a second one interferes; two contexts are enough
  for an id to be reused. `ImmHostProofs` assumes none of these small.
* `MaxOld`, `MaxBacklog` in `Worker`: the host may still see two lines of dropped
  connections, and a call is made with at most four lines unread or unsent, so that an update's
  two attempts with their ACTIVATE and CP fit. The gateway makes one call at a time, so the pipes
  need no bound. `WorkerProofs` and `WorkerImplements` assume none of these small.
* `MaxCount`, `MaxUnits` in `Reading`: three candidates on pages of one or two give a
  first, middle and last page and a selection on or off it; three units hold a pair with
  a neighbour on either side. `Long` adds lists above the host's eight and the ten number keys. `ReadingProofs` assumes
  none of these small.
* `MaxSessions`, `MaxPreedits` in `RimeRemote`: two engines with one session each, or one
  engine that opens twice, show every way in which the map and the host can part; one
  preedit next to none and a menu gives every outcome of the comparison but a preedit
  changed into another, which `remote_timeout` (two preedits) includes.
* Deadlock is not checked: the bounds end every behaviour, and a gateway without
  requests may rest.

### Fairness

`FairSpec` adds weak fairness of the reaper and, for each handler, strong fairness of
the step it waits to take. tokio polls a woken task eventually, and its mutex and
read/write lock serve waiters in order: a handler that waits for the pool gets it
although the reaper takes it again and again, so the handler's step, enabled whenever the
reaper lets go, is taken. No fairness is given to clients, to cancellation, to
expiry or to crashes. `IdleReclaimed` therefore allows that an idle session comes
back to life. Requests to a worker are taken to end (the worker answers or
dies), since `WorkerProcess::request` has no time limit. `Worker` is where that is checked.

Its `FairSpec` has weak fairness of the worker's own steps and of the gateway's read: both
processes are scheduled, and a read of the legacy host has a time limit, so that `ReadFails` is
taken if nothing comes. The Win32 functions are taken to return. Nothing is assumed of the
host: `CallsReturn` holds although it may never answer, because attempts are counted
and the list of commands ends.

## 4. What is proved

`GatewayProofs` proves for every number of sessions, handlers and workers, all
limits and with or without pipelining, from `PoolAssumption` (the limits are numbers) and
`GatewayAssumption` (`NoSession` and the three places of `WorkerLease` are not sessions):

| Theorem | Statement |
|---|---|
| `TypeCorrect` | `Spec => []TypeOK` |
| `NoSharing` | `Spec => []WorkersExclusive` |
| `AllRegistered` | `Spec => []RegistryComplete` |
| `TableAgrees` | `Spec => []TableMatchesPool` |
| `LeasesAccounted` | `Spec => []LeaseAccounted` |
| `SessionsApart` | `Spec => []LiveSessionsApart` |
| `IdleStaysBounded` | `Spec => []IdleBounded` |
| `HandoverIsClean` | `Spec => CleanHandover` |
| `OnlyLateServes` | `Spec => OnlyLateServesStray` |
| `IsolatedInTime` | `Spec /\ [][InTime]_vars => []Isolated` |
| `KeysStayInOrder` | `ASSUME ~Pipelined PROVE Spec => KeysInOrder` |
| `GatewayLeases` (in `GatewayImplements`) | `Spec => LeaseContract`: `Gateway` implements `WorkerLease` |

The argument. None of these is inductive alone, since what makes the table right
is what handlers and the reaper carry between their locks. `Inv` is their
conjunction with the missing parts:

* `PoolInv`: idle ids are distinct, leases are one to one, idle and leased are
  disjoint, both and the running ones are registered, registered ids are at most `nextWorkerId` (so
  that a new number is new);
* `TableMatchesPool`, `LeaseAccounted`, as checked;
* `Noted`: a handler's noted worker is the one its session has or had;
* `Inserting`: an open between its locks holds the lease of its session, which is
  in no other handler, not in the table and not doomed;
* `Fresh`: a session not yet opened is nowhere;
* `Reaping`: between removal and release, the doomed sessions are out of the table;
* `TypedOwn`: a session of the table whose keystrokes a worker holds has that worker.

Each action has one lemma; pool operations have lemmas of their own
(`PopFront`, `PushBack`, `PopBack`, `NewNumber`, ...), cited wherever the handlers or the
reaper use the operation. `InvNext` combines them.

`IdleBounded` needs its own induction (`IdleSteps`): only `Recycle` and `PrewarmOne`
make the deque longer, each under its own limit.

`GatewayLeases` maps a worker to its holder. In a state with `PoolInv` the holder is
what lease, deque, registry and counter say, and they never disagree (`HolderInIs`,
`HolderReads`); every step of the gateway moves at most one worker (`Moves`, `NothingMoves`),
and each pool operation has a lemma that names the abstract action it is (`AcquireLeases`,
`ReleaseReturns`, `TrimDrops`, `PrewarmStarts`, ...). All other steps stutter.

`InTime` says that a handler served finds its session's worker still leased to it, which is
what `gw_isolation` violates. While no handler is late, a running worker is `Tidy`: the
keystrokes in it are of the session that leases it (`TidyStep`; a worker that changes hands is
wiped first, `OthersWipe`). `OnlyLateServes` is the same lemma read
backwards: a step that ends `Tidy` was a late serve. `IsolatedInTime` needs `Isolated` in the
induction besides, for workers that are no longer running.

`KeysStayInOrder` is for clients that wait; `gw_dupkey` shows that it needs the premise. Its invariant: a session has
at most one handler (`OneHandler`), and what a handler between check and mark carries is
above what its session has recorded, which is not below anything applied (`Ordered`).

`RimeRemoteProofs` proves for any number of engines, sessions and preedits and any
kinds of failure, from `RemoteAssumption` (the bounds are numbers):

| Theorem | Statement |
|---|---|
| `RemoteTypes` | `Spec => []TypeOK` |
| `OpenMeansUsable` | `Spec => []SessionUsable` |
| `NothingLeaks` | `Spec => []NoLeak` |
| `SameShown` | `Spec => []Shown` |
| `TextDrained` | `Spec => []Drained` |
| `UncutKeysOnce` | `ASSUME Uncut PROVE Spec => KeyOnce` |

The invariant `Inv` adds to the first three that a processor is open exactly if the map has
an entry for its engine (`Mapped`), that no two engines share an id (`OneToOne`) and that
the host's ids count upwards (`Numbered`). The calls of a key cycle or a toggle leave all of
this alone (`Quiet`, `Step`); only `Create`, `Destroy` and `Shutdown` have work to do.

`Shown` and `Drained` speak of an engine at rest; on the way there plugin, librime and host
differ. `Views` says how much at each place of a cycle (`Agrees`): with the ProcessKey
answered and refused, librime's input is still the host's composition; in a toggle librime's
input is gone and, if every call was answered, so is the composition. It also needs
that no key cycle runs in ascii mode (`InChinese`) and that an id not given yet shows nothing
(`Untouched`), since the next session to get it starts with it. `Inv` carries it from one engine
to the others: a call for one session leaves every other session alone because no two
engines have one.

`Uncut` says that a call fails before the host acts or not at all (`"cut"` is not among
`Faults`). A key is passed on as unhandled only where its own ProcessKey was refused or lost,
and then the host has not committed for it (`Heeded`); the calls after it may fail as they
like. `remote_timeout` shows that one cut answer is enough for a key typed twice.

`WorkerProofs` and `WorkerImplements` prove for every bound, from `WorkerAssumption` (the
bounds are numbers):

| Theorem | Statement |
|---|---|
| `TypeCorrect` | `Spec => []TypeOK` |
| `PipeInStep` | `Spec => []InStep` |
| `RepliesMatch` | `Spec => []ReplyMatches` |
| `CommitsShown` | `Spec => []CommitShown` |
| `NothingFabricated` | `Spec => []RealOnly` |
| `CallsProgress` | `Spec => CallProgress` |
| `WorkerKeepsContract` | `Spec => BackendContract`: `Worker` implements `ImeBackend` |
| `KeysAreOwn` | `Spec => []OwnKeys` |

The invariant `IInv` adds what these leave out: where the legacy backend can be in a
request (`LegInv`: a reply is awaited only under `send_command`, never under the bare
`ensure_ready`), that request, work and answer are together one call (`Pipe`), and that
the list a running worker keeps has been shown (`Listed`). One lemma covers every
operation that ends with an answer (`Reply`), one every step of the legacy backend that
does not, and one each command's failure.

`CallsProgress` orders the steps of a call by command, attempt and place (`Later`), and below
that by the lines unread; it needs that a connection the
host has not accepted yet has no line to read (`Queued`). What is left to `CallsReturn` is fairness alone.

`WorkerKeepsContract` reads the call off the pipe (`Worker!Seen`): a step that
writes no answer must be `Work` if it changes what the worker shows and a stutter if not, and
each operation's answer must be one the contract allows (`Honest`). The invariant it needs
beside `IInv` is `Steady`: at most one answer is on its way, also from a process that is
gone; while the legacy backend is in the middle of a call its version has grown already, so
that any later change is the same `Work`; and what a commit or reset clears it clears before
its first command. `StepsFine` takes every action to `Fine`, the contract's step with `Steady` after it.

`KeysAreOwn` needs to know whose letters are where before an answer shows them. `Owned` says
it of the backend's input, the lines written and unread, and the host's IME: for the legacy
backend from the acknowledged RESET on, which includes the RESET's reply still on
its way (`Cleared`), because the host empties its context when it writes it; for the stub
always, except between hand-over and its reset. A dropped connection is never clean, so what the host
serves of it later cannot be shown as the session's own.

`ImmHostProofs` proves for any number of clients, contexts and texts, and any length of the
queue, from `HostAssumption`:

| Theorem | Statement |
|---|---|
| `HostTypes` | `Spec => []TypeOK` |
| `IdsApart` | `Spec => []TableInjective` |
| `TextIsOwn` | `ASSUME NoLateChars PROVE Spec => []OwnText` |
| `KeyTextIsKept` | `ASSUME NoLateChars PROVE Spec => KeyTextKept` |
| `FreshIdsAreStable` | `Spec /\ [][FreshId]_vars => []SessionStable` |
| `LastFirstIsStable` | `Spec /\ [][LastFirst]_vars => []SessionStable` |
| `AnnouncedSelectIsKept` | `ASSUME NoSilentNotify PROVE Spec => SelectTextKept` |
| `CharsOnceOnly` | `ASSUME CharsOnly PROVE Spec => []DeliveredOnce` |

`NoLateChars` says that the IME posts no characters between two calls. It may do everything
else at any time, late announcements of results included, and characters as its way of
handling a key. Both properties are false without it, since the pump appends characters for
whatever window to the session that pumps next (a hazard in `PROJECT.json`, `mod.rs:131`);
`host_text` makes the same choice with `LateActs`.

`IdsApart` rests on `TableInv`, which also says that the contexts in the table are live. That the next id,
the size of the table plus one, is in range needs the cardinality of the image of an injection.

The two theorems on `SessionStable`, which `host_ids` violates, are about that same number.
`FreshId`: no open takes an id that is in use. `LastFirst` is an order of use that brings this
about: if only the session with the highest id is destroyed, the ids in use are always 1 to n
(`DenseInv`) and n + 1 is free. A frontend with one session at a time is the smallest case.

Four of the others are one argument used four times. `Within(h, W, Q)` says that the result
string and the pending commits of context c hold texts of `W[c]` only, and the queue
messages of `Q`. Each helper of the adapter keeps it (`HarvestIn`, `DispatchIn`, `FinalCheckIn`,
`ProcessIn`, `NotifyIn`), whatever `W` and `Q` are, as long as characters in
`Q` belong to the session that reads them; so does each action (`NextPlaces`). With all texts
for `W` this is the type invariant (`TypeInv`), with the texts owned by c it is `OwnInv`. For
`KeyTextKept` it is used with the text of the key itself: `KeyIn` says what one key does with it on
either way, and a commit into the result string hides what was there before (`OldResultHidden`).
The text is new (`Numbered`) and so not the one an earlier key left there, which is where `OwnInv`
is needed again. For `SelectTextKept` the texts are those committed before (`PastInv`): the one the
selection makes is not among them, so if it is announced, reading the result string
finds it and not what was there. Late characters do not disturb that, so `AnnouncedSelectIsKept` has no
premise on them: `NoSilentNotify` says only that NotifyIME announces what it makes the IME commit.

`CharsOnceOnly` counts places instead. With an IME that commits by characters alone
(`CharsOnly`), no result string is ever set, and each text is at most once in the queue, in the pending
texts of one session, or handed out (`OnceInv`); a pump moves texts from the first to the
second and keeps them apart (`MoveOnce`, by `KeptPlaces` of `FilterProofs`), `get_commit` from the second
to the third. That the pump may bring them to another session's pending texts does no harm to
this property. What makes `DeliveredOnce` fail in `host_once` is thus the result string alone.

`ReadingProofs` proves for lists of any length (`MaxCount`; `LongLists` with pages of any size)
and compositions of any number of units (`MaxUnits`), from `ReadAssumption` and `ShapeAssumption` (the bounds are numbers):

| Theorem | Statement |
|---|---|
| `MenusAreLists` | `Spec => []MenuIsList` |
| `PagesAgree` | `Spec => []SamePage` |
| `LegacyListsAreOwn` | `Spec => []LegacyIsList` |
| `SelectionsAreShown` | `Spec => []SelectsShown` |
| `PlacesFit` | `Spec => []PreeditPlaces` |
| `KeysTypeThemselves` | `Spec => []KeyTypesItself` |

A behaviour is one call, so the invariant `Answered` says no more than that `got` is what the
reader makes of a well-formed list and composition; the theorems are facts about readers. For
lists, each cut and filter of a proper list is a run of consecutive numbers
(`PartOfPlain`, `KeptRun`, `ReadIs`), and the scan for offsets ends where the zeros do
(`BaseFound`, for any number of zeros; `Reading` has up to two). For compositions, `Counts` relates a text to its bytes up to each
place. `PartCounts` is the lemma the rest stands on: a part that begins between
characters has the difference of two counts, less one byte if it ends inside a pair, because the
half left over becomes a replacement character of three bytes while the pair's four are
counted with its first half. So a later place is never before an earlier one, even where
one of them is inside a pair (`PlacesInOrder`).

`FilterProofs` holds what these need of recursion. The library's induction takes a
predicate, which the provers cannot instantiate; its theorem on well-founded relations
takes a set, and from it follow induction over a set of numbers (`NatSets`, `UpTo`) and the
least element (`Least`). With these a recursive function is shown to exist
(`BuildsExists`, and `SumsExists` for the bytes) and to be what one expects (`KeptType`,
`KeptAppend`, `KeptAll`, `KeptPlaces`).

### The premises

| Premise | Of | Without it |
|---|---|---|
| `~Pipelined`: a client waits for each answer, or gives up on it | `KeysStayInOrder` | `gw_dupkey` |
| `InTime`: no handler is served after its session's worker was given back | `IsolatedInTime` | `gw_isolation` |
| `NoLateChars`: the IME posts characters only while it handles a key | `TextIsOwn`, `KeyTextIsKept` | hazard `mod.rs:131` |
| `FreshId`, or `LastFirst`: no open takes an id in use | `FreshIdsAreStable`, `LastFirstIsStable` | `host_ids` |
| `NoSilentNotify`: NotifyIME announces a commit | `AnnouncedSelectIsKept` | `host_select` |
| `CharsOnly`: the IME commits by characters | `CharsOnceOnly` | `host_once` |
| `Uncut`: no deadline falls between the host's act and its answer | `UncutKeysOnce` | `remote_timeout` |

`~Pipelined`, `NoLateChars`, `NoSilentNotify`, `CharsOnly` and `Uncut` are on constants: `gw_live` has
the first, `host_text` the second, and dropping one or two values from the .cfg of the runs named gives
the others. `InTime`, `FreshId` and `LastFirst` are on the steps of a behaviour, and
ordinary use satisfies them: calls that end before their session expires, one v2 session
after another.

Only model-checked: liveness (`IdleReclaimed`, `HandlersFinish`, `CallsReturn`), which is
beyond the prover.

## 5. Assumptions and what is left out

* *Gateway.* A worker answers or dies. Ids are UUIDs and never repeat. The
  buffer of a worker is abstracted to whose keystrokes it may hold. `get_status`, `ping` and
  snapshots change nothing and are left out. At exit `Drop` kills what the registry
  holds; `RegistryComplete` says that this is all there is.
* *ImmHost.* The IME acts on a key once, over one of its two ways. It commits on
  NotifyIME only what is being composed. Characters come while it
  handles a key, not later. A key it eats on the first way and acts on on the second is
  as one it ignores on the first. A pump reads the whole queue (the code stops at a limit far above
  what a key posts). The window procedure's own default handling is left out. The modifier filter of
  `process_key` lets the key through; a key it stops changes nothing.
* *RimeRemote.* The host gives every id once (what `SessionUsable` needs, and what the IMM
  adapter fails to do, see `host_ids`). A call the host applies, it applies before the engine's next
  call: both use one connection, and the host's mutex is fair. Escape drops a composition and
  Space commits it whole. librime destroys the processors of an engine before it makes new
  ones, so that the branch that reuses a session is never taken. In ascii mode librime edits
  its input alone. Not in the model: candidates picked with the mouse, and the processors
  after this one.
* *Worker.* The pipe loses and reorders nothing. Requests are well-formed JSON with a known
  operation, as the gateway writes them. A line of the legacy host other than those the model has
  is passed over, and there are never sixteen of them. What the host does for another
  worker is any change of its context. An IME reacts to a key in one of four ways; offering it
  the key twice is again one of them. The timeline log is left out.
* *Readers.* The terminator of a text is there. The legacy host's decoding of code pages is
  left out; its texts hold no bracket or bar. An ANSI list is read like a wide one.
* *Not modelled*: the channel backend (not used by `main.rs`), the API-hook plugin (the cycle of
  `RimeRemote` around the librime API), the v1 client (one blocking call
  per key; it never replaces a session id once it has one, so it does not recover from a
  session the gateway reaped).
* *Not to be modelled*: `win_imm_full.rs` (no module declares it), the native backend (its
  state is librime's), the prototypes beyond what the legacy backend uses, tools.

## 6. Plan

1. `ApiHook`: the API-hook plugin (`grpc_proxy_module.cc`) on the model of the client that
   `RimeRemote` has: pending commits, select-key overrides, its own reading of the toggles.
2. `ProxyClient`: the v1 client's sequence numbers and cached query result, composed with
   `Gateway`: is a cached candidate list that of the keys the gateway has, and what does a
   client see whose session was reaped?
3. `ChannelHost`: the backend thread behind its channel, with handlers dropped while it
   works; refines the atomic service of `ImmHost` as long as no handler is dropped.
4. Composition: `Gateway` over `Worker`, with `Effect` and `Crash` replaced by the pipe.
5. Proofs: what items 1 to 4 add. Of the runs' present properties none but liveness is
   without a theorem.
