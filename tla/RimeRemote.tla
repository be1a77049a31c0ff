----------------------------- MODULE RimeRemote -----------------------------
(***************************************************************************)
(* The rime-remote plugin: the key cycle, the ascii toggles and the life   *)
(* of a RemoteProcessor (src/rime-remote/src/remote_processor.cc), with    *)
(* the session map of its client (src/rime-grpc-proxy-v2/src/grpc_client.cc) *)
(* and the host as src/ime-grpc-host-v2/src/server.rs shows it.            *)
(*                                                                         *)
(* Every call blocks its engine until it is answered or its deadline has   *)
(* passed; then nobody tells the engine whether the host still did it.     *)
(* A step is one call with what the engine does about the answer, so the   *)
(* calls of several engines interleave.                                    *)
(*                                                                         *)
(* A composition is 0 (none), a preedit, or a menu that has no preedit.  Of *)
(* the text to collect, only whether there is any is kept.                 *)
(***************************************************************************)
EXTENDS Naturals

CONSTANTS
    Engines,     \* librime's engines, one RemoteProcessor each
    MaxSessions, \* bound: sessions opened in a behaviour
    MaxPreedits, \* bound: preedits told apart
    Faults       \* how a call may go unanswered

\* A call is answered, or it is lost before the host acts, or its answer is.
Answered == "answered"
FaultKinds == {"lost", "cut"}

ASSUME RemoteAssumption ==
    /\ MaxSessions \in Nat /\ MaxPreedits \in Nat
    /\ Faults \subseteq FaultKinds

VARIABLES
    proc,     \* per engine: its RemoteProcessor and where it is in a cycle
    sessions, \* GrpcImeClientV2::sessions_: the engine's remote session id
    rime,     \* external, per engine: librime's ascii_mode and its input
    host,     \* the host's sessions: opened, live, comp and text per id
    stale,    \* history: engines with a reason to disagree with their session
    lostIds   \* history: sessions whose open or destroy was not answered

vars == <<proc, sessions, rime, host, stale, lostIds>>

NoId == 0
Ids  == 1 .. MaxSessions

None  == 0
Menu  == MaxPreedits + 1
Comps == None .. Menu

\* Mutant: the menu counts for the preedit.
Preedit_OrMenu(c) == c

Preedit(c) == IF c = Menu THEN None ELSE c

Outcomes   == {Answered} \cup Faults
Applied(o) == o # "lost"

\* Styles of switch_key_bindings but noop, and where a processor is: in no cycle,
\* or before the next call of one; after a toggle, the style says which.
Styles == {"inline_ascii", "commit_text", "commit_code", "clear"}
Pcs    == {"none", "idle", "commit", "context"} \cup (Styles \ {"inline_ascii"})

NoProc == [pc |-> "none", open |-> FALSE, cached |-> None, asciiWasOn |-> FALSE,
           accepted |-> FALSE, old |-> None, clean |-> TRUE, wrote |-> FALSE,
           heard |-> TRUE]
NoRime == [ascii |-> FALSE, input |-> None]

Procs == [pc : Pcs, open : BOOLEAN, cached : Comps, asciiWasOn : BOOLEAN,
          accepted : BOOLEAN, old : Comps \ {Menu}, clean : BOOLEAN,
          wrote : BOOLEAN, heard : BOOLEAN]
Rimes == [ascii : BOOLEAN, input : Comps]
Hosts == [opened : 0 .. MaxSessions, live : SUBSET Ids, comp : [Ids -> Comps],
          text : [Ids -> BOOLEAN]]

\* Type invariant.
TypeOK ==
    /\ proc \in [Engines -> Procs]
    /\ sessions \in [Engines -> Ids \cup {NoId}]
    /\ rime \in [Engines -> Rimes]
    /\ host \in Hosts
    /\ stale \subseteq Engines
    /\ lostIds \subseteq Ids

Init ==
    /\ proc = [e \in Engines |-> NoProc]
    /\ sessions = [e \in Engines |-> NoId]
    /\ rime = [e \in Engines |-> NoRime]
    /\ host = [opened |-> 0, live |-> {}, comp |-> [i \in Ids |-> None],
               text |-> [i \in Ids |-> FALSE]]
    /\ stale = {} /\ lostIds = {}
-----------------------------------------------------------------------------
(* The session of a processor.                                             *)

Comp(e)       == host.comp[sessions[e]]
HasSession(e) == sessions[e] # NoId
Idle(e)       == proc[e].pc = "idle" /\ proc[e].open

Opened(h, id) == [h EXCEPT !.opened = id, !.live = @ \cup {id}]
Closed(h, ids) ==
    [h EXCEPT !.live = @ \ ids,
              !.comp = [i \in Ids |-> IF i \in ids THEN None ELSE @[i]],
              !.text = [i \in Ids |-> i \notin ids /\ @[i]]]

\* Constructor: OpenSession, unless the client has a session for the engine.
\* Only an answered open is noted; a processor without one passes every key.
Create(e) ==
    /\ proc[e].pc = "none"
    /\ HasSession(e) \/ host.opened < MaxSessions
    /\ \E o \in IF HasSession(e) THEN {Answered} ELSE Outcomes :
       LET id == IF HasSession(e) THEN sessions[e] ELSE host.opened + 1 IN
          /\ host' = IF HasSession(e) \/ ~Applied(o) THEN host ELSE Opened(host, id)
          /\ sessions' = IF o = Answered THEN [sessions EXCEPT ![e] = id] ELSE sessions
          /\ lostIds' = IF o = "cut" THEN lostIds \cup {id} ELSE lostIds
          /\ proc' = [proc EXCEPT ![e] = [NoProc EXCEPT !.pc = "idle",
                                                        !.open = (o = Answered),
                                                        !.asciiWasOn = rime[e].ascii]]
    /\ UNCHANGED <<rime, stale>>

\* Mutant: find() without erase() on the session map.
Erase_Finds(e) == UNCHANGED sessions

Erase(e) == sessions' = [sessions EXCEPT ![e] = NoId]

\* Destructor: the entry goes first, then DestroySession.  External: librime
\* drops its input, and another engine or schema starts with ascii_mode off.
Destroy(e) ==
    /\ proc[e].pc = "idle"
    /\ IF proc[e].open
       THEN /\ Erase(e)
            /\ \E o \in Outcomes :
                  /\ host' = IF Applied(o) THEN Closed(host, {sessions[e]}) ELSE host
                  /\ lostIds' = IF o = "lost" THEN lostIds \cup {sessions[e]}
                                              ELSE lostIds
       ELSE UNCHANGED <<sessions, host, lostIds>>
    /\ proc' = [proc EXCEPT ![e] = NoProc]
    /\ rime' = [rime EXCEPT ![e] = NoRime]
    /\ stale' = stale \ {e}

\* Mutant: the loop over the sessions ends at the first call that fails.
Closing_UntilFailure(held, missed) == IF missed = {} THEN held ELSE {}

Closing(held, missed) == held \ missed

\* ShutdownAll when the module is finalized: destroys every session of the map
\* and clears it, whatever the answers.  Processors that still exist have no
\* session to destroy, and get no key any more.
Shutdown ==
    LET held == {sessions[e] : e \in Engines} \ {NoId} IN
    /\ \A e \in Engines : proc[e].pc \in {"none", "idle"}
    /\ held # {}
    /\ \E missed \in IF "lost" \in Faults THEN SUBSET held ELSE {{}} :
          /\ host' = Closed(host, Closing(held, missed))
          /\ lostIds' = lostIds \cup missed
    /\ sessions' = [e \in Engines |-> NoId]
    /\ proc' = [e \in Engines |-> NoProc]
    /\ rime' = [e \in Engines |-> NoRime]
    /\ stale' = {}
-----------------------------------------------------------------------------
(* The key cycle: ProcessKey, GetCommit, GetContext.                       *)

\* What the host may do with a key: ignore it, or take it and change the
\* composition, commit a text, or neither (a page of the menu).
Reactions(c) ==
    {r \in [taken : BOOLEAN, next : Comps, text : BOOLEAN] :
        r.taken \/ (r.next = c /\ ~r.text)}

\* A call of ProcessKey that the host answers with one of rs, or does not answer;
\* p is the processor after it, but for what it learns.
ProcessKey(e, rs, p) ==
    \E o \in Outcomes, r \in rs :
       IF Applied(o)
       THEN /\ host' = [host EXCEPT !.comp[sessions[e]] = r.next,
                                    !.text[sessions[e]] = @ \/ r.text]
            /\ proc' = [proc EXCEPT ![e] =
                           [p EXCEPT !.accepted = (o = Answered /\ r.taken),
                                     !.clean = (o = Answered),
                                     !.wrote = r.text]]
       ELSE /\ UNCHANGED host
            /\ proc' = [proc EXCEPT ![e] = [p EXCEPT !.clean = FALSE]]

\* A press in Chinese mode.  Releases, modifiers and keys in ascii mode are
\* passed on and change nothing.
Press(e) ==
    /\ Idle(e)
    /\ ~rime[e].ascii /\ ~proc[e].asciiWasOn
    /\ ProcessKey(e, Reactions(Comp(e)),
                  [proc[e] EXCEPT !.pc = "commit", !.old = Preedit(proc[e].cached)])
    /\ UNCHANGED <<sessions, rime, stale, lostIds>>

\* A call of GetCommit, which empties what the host has to collect.
GetCommit(e, p) ==
    \E o \in Outcomes :
       /\ host' = IF Applied(o) THEN [host EXCEPT !.text[sessions[e]] = FALSE] ELSE host
       /\ proc' = [proc EXCEPT ![e] = [p EXCEPT !.clean = @ /\ (o = Answered),
                                                !.heard = (o = Answered)]]

\* Mutant: the commit is fetched only after an accepted key.
SyncCommit_IfAccepted(e) ==
    /\ proc[e].pc = "commit"
    /\ IF proc[e].accepted
       THEN GetCommit(e, [proc[e] EXCEPT !.pc = "context"])
       ELSE proc' = [proc EXCEPT ![e].pc = "context"] /\ UNCHANGED host
    /\ UNCHANGED <<sessions, rime, stale, lostIds>>

SyncCommit(e) ==
    /\ proc[e].pc = "commit"
    /\ GetCommit(e, [proc[e] EXCEPT !.pc = "context"])
    /\ UNCHANGED <<sessions, rime, stale, lostIds>>

\* A key is passed on if it was not accepted and the preedit is the same.
Passes(e, c) == ~proc[e].accepted /\ Preedit(c) = proc[e].old

Rest(p) == [p EXCEPT !.pc = "idle", !.accepted = FALSE, !.old = None,
                     !.clean = TRUE, !.wrote = FALSE]

\* What set_input and Clear leave in librime.
Show(e, c) == [rime EXCEPT ![e].input = c]

\* GetContext and the end of ProcessKeyEvent.
SyncContext(e) ==
    /\ proc[e].pc = "context"
    /\ \E o \in Outcomes :
       LET c == IF o = Answered THEN Comp(e) ELSE None
           clean == proc[e].clean /\ o = Answered IN
       /\ proc' = [proc EXCEPT ![e] = [Rest(@) EXCEPT !.cached = c]]
       /\ rime' = IF Passes(e, c) THEN rime ELSE Show(e, c)
       /\ stale' = IF ~clean THEN stale \cup {e}
                   ELSE IF Passes(e, c) THEN stale ELSE stale \ {e}
    /\ UNCHANGED <<sessions, host, lostIds>>
-----------------------------------------------------------------------------
(* Ascii mode.  ascii_composer is external: it runs before the processor,  *)
(* applies the style of its key to librime's input and turns the option.   *)
(* The IME drops its composition on Escape and commits it on Space.        *)

Composed(style, c) == IF style \in {"commit_code", "clear"} THEN None ELSE c

Drops(c)  == {r \in Reactions(c) : r.next = None /\ (r.taken <=> c # None)}
Escape(c) == {r \in Drops(c) : ~r.text}
Space(c)  == {r \in Drops(c) : r.text <=> c # None}

\* HandleAsciiModeToggle with a context, up to its first call.  The processor is
\* p meanwhile; input is what ascii_composer left of the input.
InlineAscii(e, style, p, input) ==
    /\ style = "inline_ascii"
    /\ proc' = [proc EXCEPT ![e] = p]
    /\ rime' = [rime EXCEPT ![e] = [ascii |-> TRUE, input |-> input]]
    /\ stale' = stale \cup {e}
    /\ UNCHANGED host

\* Mutant: the host keeps its composition.
SendEscape_Not(e, style, p, input) ==
    /\ style \in {"commit_code", "clear"}
    /\ proc' = [proc EXCEPT ![e] = [p EXCEPT !.pc = style]]
    /\ rime' = [rime EXCEPT ![e] = [ascii |-> TRUE, input |-> input]]
    /\ UNCHANGED <<host, stale>>

SendEscape(e, style, p, input) ==
    /\ style \in {"commit_code", "clear"}
    /\ ProcessKey(e, Escape(Comp(e)), [p EXCEPT !.pc = style])
    /\ rime' = [rime EXCEPT ![e] = [ascii |-> TRUE, input |-> input]]
    /\ UNCHANGED stale

SendSpace(e, style, p) ==
    /\ style = "commit_text"
    /\ ProcessKey(e, Space(Comp(e)), [p EXCEPT !.pc = style])
    /\ rime' = [rime EXCEPT ![e] = [ascii |-> TRUE, input |-> None]]
    /\ UNCHANGED stale

Noop(e, style, p, input) ==
    /\ style = "noop"
    /\ proc' = [proc EXCEPT ![e] = [p EXCEPT !.cached = None]]
    /\ rime' = [rime EXCEPT ![e] = [ascii |-> TRUE, input |-> input]]
    /\ stale' = stale \cup {e}
    /\ UNCHANGED host

HandleToggle(e, style, p, input) ==
    \/ InlineAscii(e, style, p, input)
    \/ SendEscape(e, style, p, input)
    \/ SendSpace(e, style, p)
    \/ Noop(e, style, p, input)

\* The processor after it has seen ascii_mode at now, with ascii_composer's input.
Sees(e, style, now, input) ==
    LET p == [proc[e] EXCEPT !.asciiWasOn = now] IN
    IF now /\ ~proc[e].asciiWasOn /\ proc[e].cached # None
    THEN HandleToggle(e, style, p, input)
    ELSE /\ proc' = [proc EXCEPT ![e] = p]
         /\ rime' = [rime EXCEPT ![e] = [ascii |-> now, input |-> input]]
         /\ UNCHANGED <<host, stale>>

\* A tap of a switch key.  The release finds the option turned, unless a turn
\* that no key announced came first and this one takes it back.
Toggle(e, style) ==
    /\ Idle(e)
    /\ Sees(e, style, ~rime[e].ascii, Composed(style, rime[e].input))
    /\ UNCHANGED <<sessions, lostIds>>

\* The second call of a toggle, GetCommit, and the end of the handler: the cached
\* context goes, and with the style clear librime's input.
Settle(e) ==
    /\ proc[e].pc \in Styles
    /\ GetCommit(e, [Rest(proc[e]) EXCEPT !.cached = None])
    /\ rime' = IF proc[e].pc = "clear" THEN [rime EXCEPT ![e].input = None] ELSE rime
    /\ stale' = IF proc[e].clean /\ proc'[e].clean THEN stale ELSE stale \cup {e}
    /\ UNCHANGED <<sessions, lostIds>>

\* External: the option is turned from a menu, and no key announces it.
MenuToggle(e) ==
    /\ Idle(e)
    /\ rime' = [rime EXCEPT ![e].ascii = ~@]
    /\ stale' = stale \cup {e}
    /\ UNCHANGED <<proc, sessions, host, lostIds>>

\* The next key then is taken for the one that turned it and goes no further.
Swallow(e, style) ==
    /\ Idle(e)
    /\ rime[e].ascii # proc[e].asciiWasOn
    /\ Sees(e, style, rime[e].ascii, rime[e].input)
    /\ UNCHANGED <<sessions, lostIds>>

\* External: what is left of the input in ascii mode is committed or deleted, and
\* ascii_composer turns an inline ascii mode off.
InlineEnds(e) ==
    /\ Idle(e)
    /\ rime[e].ascii /\ rime[e].input # None
    /\ \E on \in BOOLEAN : rime' = [rime EXCEPT ![e] = [ascii |-> on, input |-> None]]
    /\ stale' = stale \cup {e}
    /\ UNCHANGED <<proc, sessions, host, lostIds>>

Cycle(e) ==
    \/ Press(e)
    \/ SyncCommit(e)
    \/ SyncContext(e)
    \/ Settle(e)
    \/ \E style \in Styles : Toggle(e, style)
    \/ \E style \in Styles \cup {"noop"} : Swallow(e, style)
    \/ MenuToggle(e)
    \/ InlineEnds(e)

Next ==
    \/ \E e \in Engines : Create(e) \/ Destroy(e) \/ Cycle(e)
    \/ Shutdown

Spec == Init /\ [][Next]_vars
-----------------------------------------------------------------------------
(* Properties.                                                             *)

\* A processor that counts its session as open has one at the host, and shares
\* it with no other: the map of the client, grpc_session_open and the host agree
\* however constructors, destructors and the finalizer follow each other.
SessionUsable ==
    \A e \in Engines : proc[e].open =>
        /\ HasSession(e) /\ sessions[e] \in host.live
        /\ \A f \in Engines \ {e} : sessions[f] # sessions[e]

\* The host keeps a session that no client knows only after an open or destroy
\* that was not answered.
NoLeak == host.live \subseteq {sessions[e] : e \in Engines} \cup lostIds

\* Between two keys librime's input, what the user sees and what commit_code
\* commits, is the composition of the host: no key finds the two apart, and what a
\* toggle commits locally the host does not commit again.  Excepted are engines
\* with an unanswered call, an inline ascii mode or a menu toggle behind them,
\* until the next complete cycle.
Shown ==
    \A e \in Engines : Idle(e) /\ e \notin stale => rime[e].input = Comp(e)

\* The host keeps committed text from the application no longer than the cycle
\* of the key that committed it, unless that cycle's GetCommit failed: a key
\* whose own answer was lost included.
Drained ==
    \A e \in Engines : Idle(e) /\ host.text[sessions[e]] => ~proc[e].heard

\* A key whose text the host has committed and the application has got is not
\* passed on as well: it would be typed twice.
KeyOnce ==
    [][\A e \in Engines :
          /\ proc[e].pc = "context" /\ proc'[e].pc = "idle"
          /\ Passes(e, proc'[e].cached)
          => ~(proc[e].wrote /\ proc[e].heard)]_vars
=============================================================================
