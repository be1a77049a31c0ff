------------------------------- MODULE ImmHost ------------------------------
(***************************************************************************)
(* The v2 host with the Win32 backend (ImmRimeAdapter in                   *)
(* src/ime-grpc-host-v2/src/win_imm/mod.rs behind server.rs): how text     *)
(* that the IME commits finds its way to the session it belongs to.        *)
(*                                                                         *)
(* Every RPC holds the one backend mutex from start to end and never       *)
(* awaits inside, so each is one step here.  The adapter reads commits in  *)
(* two ways: from WM_IME_COMPOSITION and WM_CHAR messages, which it pumps  *)
(* from the queue of the whole thread, and from the result string of the   *)
(* session's input context (GCS_RESULTSTR), which the IME owns.            *)
(*                                                                         *)
(* A context is the number of its creation and stands for the HWND/HIMC    *)
(* pair.  A committed text is the number of its commit, its words are left *)
(* out.  A composition is 0 (none) or one of two preedits, the menu of     *)
(* candidates changes with it.                                             *)
(***************************************************************************)
EXTENDS Filter, FiniteSets

CONSTANTS
    Clients,    \* frontends that call the host
    MaxCtxs,    \* bound: contexts created in a behaviour
    MaxTexts,   \* bound: texts committed in a behaviour
    MaxPending, \* bound: texts waiting in one session
    KeyActs,    \* what the IME may do with a key
    NotifyActs, \* what it may do when asked to select or to complete
    LateActs    \* what it may do on its own between two calls

ActKinds == {"ignore", "eat", "compose", "post", "silent", "chars"}

ASSUME HostAssumption ==
    /\ MaxCtxs \in Nat /\ MaxTexts \in Nat /\ MaxPending \in Nat
    /\ KeyActs \cup NotifyActs \cup LateActs \subseteq ActKinds

VARIABLES
    table,  \* sessions: the context of an id, NoCtx if there is none
    ctxs,   \* contexts created so far
    live,   \* contexts not destroyed
    host,   \* comp, result, pending per context, and the thread's queue
    owner,  \* history: the context each text was committed in
    given,  \* history: how often a text was handed out (2 stands for more)
    holds   \* per client: the id it uses and the context it was opened on

vars == <<table, ctxs, live, host, owner, given, holds>>

NoCtx  == 0
NoText == 0
Ctxs   == 1 .. MaxCtxs
Ids    == 1 .. MaxCtxs
Texts  == 1 .. MaxTexts
Comps  == 0 .. 2

Messages  == [kind : {"result", "char"}, win : Ctxs, text : Texts]
NoSession == [id |-> 0, ctx |-> NoCtx]

TypeOK ==
    /\ table \in [Ids -> Ctxs \cup {NoCtx}]
    /\ ctxs \in 0 .. MaxCtxs
    /\ live \subseteq Ctxs
    /\ host.comp \in [Ctxs -> Comps]
    /\ host.result \in [Ctxs -> Texts \cup {NoText}]
    /\ host.pending \in [Ctxs -> Seq(Texts)]
    /\ host.queue \in Seq(Messages)
    /\ owner \in Seq(Ctxs)
    /\ given \in [Texts -> 0 .. 2]
    /\ holds \in [Clients -> [id : Ids \cup {0}, ctx : Ctxs \cup {NoCtx}]]

Init ==
    /\ table = [i \in Ids |-> NoCtx]
    /\ ctxs = 0
    /\ live = {}
    /\ host = [comp |-> [c \in Ctxs |-> 0], result |-> [c \in Ctxs |-> NoText],
               pending |-> [c \in Ctxs |-> <<>>], queue |-> <<>>]
    /\ owner = <<>>
    /\ given = [t \in Texts |-> 0]
    /\ holds = [cl \in Clients |-> NoSession]
-----------------------------------------------------------------------------
(* External: the IME.  It may ignore a key or eat it; start, change or end *)
(* the composition, which empties the result string; or commit text t, leaving *)
(* a next composition or none.  A commit goes into the result string,      *)
(* where it stays until the next composition, and is announced by a posted *)
(* message, or by one sent and consumed inside ImmGenerateMessage, which   *)
(* the pump never sees; or it is posted as characters only.                *)
Reactions(acts) ==
    {r \in [act : acts, goesOn : BOOLEAN] :
        r.act \in {"ignore", "eat"} => ~r.goesOn}

Commits(r)  == r.act \in {"post", "silent", "chars"}
Consumes(r) == r.act # "ignore"

Message(kind, c, t) == [kind |-> kind, win |-> c, text |-> t]

\* The preedit after a reaction: none, or one that differs from the last.
NextComp(h, c, r) ==
    IF ~r.goesOn THEN 0 ELSE IF h.comp[c] = 1 THEN 2 ELSE 1

React(h, c, r, t) ==
    CASE r.act = "compose" ->
            [h EXCEPT !.comp[c] = NextComp(h, c, r), !.result[c] = NoText]
      [] r.act = "post" ->
            [h EXCEPT !.comp[c] = NextComp(h, c, r), !.result[c] = t,
                      !.queue = Append(@, Message("result", c, t))]
      [] r.act = "silent" ->
            [h EXCEPT !.comp[c] = NextComp(h, c, r), !.result[c] = t]
      [] r.act = "chars" ->
            [h EXCEPT !.comp[c] = NextComp(h, c, r),
                      !.queue = Append(@, Message("char", c, t))]
      [] OTHER -> h
-----------------------------------------------------------------------------
(* The adapter's helpers: functions from host state to host state.         *)

Read(h, c) == IF h.result[c] = NoText THEN <<>> ELSE <<h.result[c]>>

\* The messages of a kind, and those for a window.
OfKind(kind) == {m \in Messages : m.kind = kind}
For(c)       == {m \in Messages : m.win = c}

Chars(msgs) == [i \in DOMAIN msgs |-> msgs[i].text]

\* Mutant: a result is taken from the announcement, whoever it is for.
ResultText_OfMessage(h, c, msgs) == [i \in DOMAIN msgs |-> msgs[i].text]

\* pump_messages_for_hwnd: every announcement of a result, for whichever window,
\* reads the result string of the session that pumps.
ResultText(h, c, msgs) ==
    IF h.result[c] = NoText THEN <<>> ELSE [i \in DOMAIN msgs |-> h.result[c]]

PumpText(h, c, msgs) ==
    [result |-> ResultText(h, c, Kept(msgs, OfKind("result"))),
     chars  |-> Chars(Kept(msgs, OfKind("char")))]

Wanted(text) == IF text.result # <<>> THEN text.result ELSE text.chars

AppendCommit(h, c, text) == [h EXCEPT !.pending[c] = @ \o text]

\* pump_thread_messages and what every caller does with the answer.
Harvest(h, c) ==
    AppendCommit([h EXCEPT !.queue = <<>>], c, Wanted(PumpText(h, c, h.queue)))

\* dispatch_ime_transmsgs: what ImeToAsciiEx returns is read and sent on, the
\* window's own messages are pumped, and the result string is read if neither
\* gave a result.
Dispatch(h0, c, r, t) ==
    LET h      == [React(h0, c, r, t) EXCEPT !.queue = h0.queue]
        direct == CASE r.act = "post"  -> <<Message("result", c, t)>>
                    [] r.act = "chars" -> <<Message("char", c, t)>>
                    [] OTHER           -> <<>>
        listed == PumpText(h, c, direct)
        pumped == PumpText(h, c, Kept(h.queue, For(c)))
        result == IF listed.result # <<>> THEN listed.result
                  ELSE IF pumped.result # <<>> THEN pumped.result
                  ELSE Read(h, c)
    IN AppendCommit([h EXCEPT !.queue = Kept(@, Messages \ For(c))], c,
                    Wanted([result |-> result, chars |-> listed.chars \o pumped.chars]))

\* Mutants: no last check; one that appends without looking at the result.
FinalCheck_Left(h, c) == h

FinalCheck_Blind(h, c) ==
    IF h.pending[c] = <<>> THEN AppendCommit(h, c, <<h.result[c]>>) ELSE h

\* The end of process_vk: a result nobody announced.
FinalCheck(h, c) ==
    IF h.pending[c] = <<>> THEN AppendCommit(h, c, Read(h, c)) ELSE h

\* process_vk: the key goes to the window (r1: ImmProcessKey and
\* ImmTranslateMessage) and then to the IME itself (r2: ImeProcessKey and
\* ImeToAsciiEx).  A press is followed by its release and one pump more; a key
\* that is a release is not, and with the queue empty it makes no difference.
ProcessVk(h, c, r1, r2, t) ==
    LET h1 == Harvest(React(h, c, r1, t), c)
        h2 == IF Consumes(r2) THEN Harvest(Dispatch(h1, c, r2, t), c) ELSE h1
    IN FinalCheck(Harvest(h2, c), c)

\* External: asked to select or complete, the IME commits only what is composed.
NotifyReactions(h, c) ==
    {r \in Reactions(NotifyActs) : Commits(r) => h.comp[c] # 0}

\* External: the IME acts on a key once, whichever way it reaches it first.  To
\* eat it first and act on it second is no different from ignoring it first.
KeyReactions ==
    {p \in Reactions(KeyActs) \X Reactions(KeyActs) :
        p[1].act = "ignore" \/ p[2].act \in {"ignore", "eat"}}
-----------------------------------------------------------------------------
(* The RPCs.                                                               *)

Used == {i \in Ids : table[i] # NoCtx}

\* The text numbers a step may use up: the next one if the IME commits.
NextText(commits) ==
    IF commits THEN {t \in Texts : t = Len(owner) + 1} ELSE {NoText}

Record(c, t) == owner' = IF t = NoText THEN owner ELSE Append(owner, c)

\* open_session: the id is one more than the number of sessions.  A session
\* already under that id is overwritten: its context lives on unreachable.
\* Whatever activation pumps is dropped.
Open(cl) ==
    LET id == Cardinality(Used) + 1
        c  == ctxs + 1 IN
    /\ holds[cl] = NoSession
    /\ ctxs < MaxCtxs
    /\ ctxs' = c
    /\ live' = live \cup {c}
    /\ table' = [table EXCEPT ![id] = c]
    /\ holds' = [holds EXCEPT ![cl] = [id |-> id, ctx |-> c]]
    /\ host' = [host EXCEPT !.queue = <<>>]
    /\ UNCHANGED <<owner, given>>

\* Mutant: get() for remove() on the session map.
Destroy_KeepsEntry(cl) ==
    LET id == holds[cl].id IN
    /\ holds[cl] # NoSession
    /\ live' = live \ {table[id]}
    /\ host' = [host EXCEPT !.queue = Kept(@, Messages \ For(table[id]))]
    /\ holds' = [holds EXCEPT ![cl] = NoSession]
    /\ UNCHANGED <<table, ctxs, owner, given>>

\* destroy_session: an unknown id is ignored; the answer is always success.
\* Destroying a window discards its messages.
Destroy(cl) ==
    LET id == holds[cl].id IN
    /\ holds[cl] # NoSession
    /\ table' = [table EXCEPT ![id] = NoCtx]
    /\ live' = live \ {table[id]}
    /\ host' = [host EXCEPT !.queue = Kept(@, Messages \ For(table[id]))]
    /\ holds' = [holds EXCEPT ![cl] = NoSession]
    /\ UNCHANGED <<ctxs, owner, given>>

\* What the other calls share: the session of the client's id, if any.  Only
\* get_commit shortens what is pending; the rest keep to the bound.
Serves(cl, c) ==
    /\ holds[cl] # NoSession
    /\ c = table[holds[cl].id]
    /\ c # NoCtx
    /\ UNCHANGED <<table, ctxs, live, holds>>

Room(c) == Len(host.pending[c]) < MaxPending

\* process_key, for a key that its modifier filter lets through.
Key(cl, c) ==
    /\ Serves(cl, c) /\ Room(c)
    /\ \E p \in KeyReactions : \E t \in NextText(Commits(p[1]) \/ Commits(p[2])) :
          /\ host' = ProcessVk(host, c, p[1], p[2], t)
          /\ Record(c, t)
    /\ UNCHANGED given

\* get_context: harvests, and reads what it shows.
GetContext(cl, c) ==
    /\ Serves(cl, c) /\ Room(c)
    /\ host' = Harvest(host, c)
    /\ UNCHANGED <<owner, given>>

\* get_commit: harvests and hands out all that is pending.
GetCommit(cl, c) ==
    LET h == Harvest(host, c)
        times(t) == Len(Kept(h.pending[c], {t}))
        total(t) == given[t] + times(t) IN
    /\ Serves(cl, c)
    /\ host' = [h EXCEPT !.pending[c] = <<>>]
    /\ given' = [t \in Texts |-> IF total(t) > 2 THEN 2 ELSE total(t)]
    /\ UNCHANGED owner
-----------------------------------------------------------------------------
(* select_candidate: the number key first; if it shows any effect, Return  *)
(* confirms what is still being composed.  Otherwise (and for an index     *)
(* without a key) NotifyIME selects, and completes the composition if that *)
(* changed nothing.                                                        *)

Confirm(h, c) == h.comp[c] # 0 /\ h.pending[c] = <<>>

KeyTook(h, k, c, p) ==
    \/ k.pending[c] # <<>>
    \/ k.comp[c] # h.comp[c]
    \/ k.result[c] # NoText
    \/ Consumes(p[1]) \/ Consumes(p[2])

SelectByKey(cl, c) ==
    /\ Serves(cl, c) /\ Room(c)
    /\ \E p \in KeyReactions : \E t \in NextText(Commits(p[1]) \/ Commits(p[2])) :
          LET k == ProcessVk(host, c, p[1], p[2], t) IN
          /\ KeyTook(host, k, c, p)
          /\ IF Confirm(k, c)
             THEN \E q \in KeyReactions :
                     \E u \in IF t = NoText THEN NextText(Commits(q[1]) \/ Commits(q[2]))
                                            ELSE {NoText} :
                        /\ u = NoText => ~Commits(q[1]) /\ ~Commits(q[2])
                        /\ host' = Harvest(ProcessVk(k, c, q[1], q[2], u), c)
                        /\ Record(c, IF t = NoText THEN u ELSE t)
             ELSE host' = k /\ Record(c, t)
    /\ UNCHANGED given

SelectByNotify(cl, c) ==
    /\ Serves(cl, c) /\ Room(c)
    /\ \E r1 \in NotifyReactions(host, c) : \E t \in NextText(Commits(r1)) :
          LET k == Harvest(React(host, c, r1, t), c) IN
          IF k.pending[c] = <<>> /\ k.comp[c] = host.comp[c] /\ host.comp[c] # 0
          THEN \E r2 \in NotifyReactions(k, c) :
                  \E u \in IF t = NoText THEN NextText(Commits(r2)) ELSE {NoText} :
                     /\ u = NoText => ~Commits(r2)
                     /\ host' = Harvest(React(k, c, r2, u), c)
                     /\ Record(c, IF t = NoText THEN u ELSE t)
          ELSE /\ host' = k
               /\ Record(c, t)
    /\ UNCHANGED given

\* External: the IME acts on its own: a cloud candidate, a timer.
Late(c) ==
    /\ c \in live
    /\ Len(host.queue) < MaxPending
    /\ \E r \in Reactions(LateActs) : \E t \in NextText(Commits(r)) :
          /\ host' = React(host, c, r, t)
          /\ Record(c, t)
    /\ UNCHANGED <<table, ctxs, live, given, holds>>

Next ==
    \/ \E cl \in Clients :
          \/ Open(cl) \/ Destroy(cl)
          \/ \E c \in Ctxs :
                \/ Key(cl, c) \/ GetContext(cl, c) \/ GetCommit(cl, c)
                \/ SelectByKey(cl, c) \/ SelectByNotify(cl, c)
    \/ \E c \in Ctxs : Late(c)

Spec == Init /\ [][Next]_vars
-----------------------------------------------------------------------------
(* Properties.                                                             *)

\* Text waits only in the session whose context the IME committed it in,
\* although every session pumps the messages of the whole thread.
OwnText ==
    \A c \in live : \A i \in DOMAIN host.pending[c] : owner[host.pending[c][i]] = c

\* The text a step commits through the result string of context c, and whether
\* it is pending there afterwards.
CommitsResult(c) ==
    Len(owner') > Len(owner) /\ host'.result[c] = Len(owner')

Keeps(c) == \E i \in DOMAIN host'.pending[c] : host'.pending[c][i] = Len(owner')

\* A key that finds nothing pending leaves the text it commits pending, whether
\* the IME announces it, hides it from the pump, or handles the key on the
\* second of its two ways (process_vk and its last check).
KeyTextKept ==
    [][\A c \in Ctxs :
         CommitsResult(c) /\ host.pending[c] = <<>> /\ ~Keeps(c) =>
             ~ \E cl \in Clients : Key(cl, c)]_vars

\* Two ids never name one context, and no id names a destroyed one, even when
\* destroys and opens under reused ids are mixed.
TableInjective ==
    \A i, j \in Used : table[i] \in live /\ (table[i] = table[j] => i = j)

\* What a client holds names the context it was opened on until the client
\* destroys it: "a stable UUID for the session lifetime" (docs/GRPC_PROTOCOL.md).
SessionStable ==
    \A cl \in Clients :
        holds[cl] # NoSession => table[holds[cl].id] = holds[cl].ctx

\* No text is handed out twice: "GCS_RESULTSTR may persist [...] Do NOT re-read
\* it unconditionally" (docs/WIN32_IMM_INTERNALS.md).
DeliveredOnce == \A t \in Texts : given[t] < 2

\* After a selection that commits, the text is there for GetCommit.
SelectTextKept ==
    [][\A c \in Ctxs :
         CommitsResult(c) /\ host.pending[c] = <<>> /\ ~Keeps(c) =>
             ~ \E cl \in Clients : SelectByNotify(cl, c)]_vars
=============================================================================
