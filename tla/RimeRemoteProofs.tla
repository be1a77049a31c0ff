-------------------------- MODULE RimeRemoteProofs --------------------------
(***************************************************************************)
(* Proofs about RimeRemote, for every number of engines and every bound:   *)
(* an open processor has a session of its own at the host, the host leaks a *)
(* session only after a failed call, librime and the host show the same     *)
(* between two keys, and no committed text is left behind.                  *)
(***************************************************************************)
EXTENDS RimeRemote, TLAPS

\* The inductive invariant: the client's map, grpc_session_open and the host's
\* sessions agree.
Mapped ==
    \A e \in Engines :
        /\ proc[e].open <=> HasSession(e)
        /\ proc[e].pc = "none" => ~proc[e].open
        /\ proc[e].pc \notin {"none", "idle"} => proc[e].open
        /\ HasSession(e) => sessions[e] \in host.live

OneToOne ==
    \A e, f \in Engines : HasSession(e) /\ sessions[e] = sessions[f] => e = f

\* The host numbers its sessions upwards.
Numbered == host.live \subseteq 1 .. host.opened

Inv == TypeOK /\ Mapped /\ OneToOne /\ Numbered /\ NoLeak
-----------------------------------------------------------------------------
LEMMA MenuFacts ==
    /\ None \in Comps /\ None \in Comps \ {Menu}
    /\ \A c \in Comps : Preedit(c) \in Comps \ {Menu}
  BY RemoteAssumption DEF Comps, None, Menu, Preedit

LEMMA ReactionTypes ==
  ASSUME NEW c \in Comps, NEW r,
         r \in Reactions(c) \/ r \in Escape(c) \/ r \in Space(c)
  PROVE  r.taken \in BOOLEAN /\ r.next \in Comps /\ r.text \in BOOLEAN
  BY DEF Reactions, Escape, Space, Drops

LEMMA InitInv == Init => Inv
<1> SUFFICES ASSUME Init PROVE Inv
  OBVIOUS
<1>1. NoProc \in Procs
  BY MenuFacts DEF NoProc, Procs, Pcs, Styles
<1>2. TypeOK
  BY <1>1, MenuFacts, RemoteAssumption DEF Init, TypeOK, NoRime, Rimes, Hosts, Ids, NoId
<1>3. Mapped /\ OneToOne /\ Numbered /\ NoLeak
  BY DEF Init, Mapped, OneToOne, Numbered, NoLeak, HasSession, NoProc
<1> QED
  BY <1>2, <1>3 DEF Inv


\* What a call for e may do to the session state: nothing.
Quiet ==
    /\ UNCHANGED <<sessions, lostIds>>
    /\ host'.live = host.live /\ host'.opened = host.opened
    /\ \A f \in Engines : /\ proc'[f].open = proc[f].open
                          /\ proc'[f].pc = "none" => proc[f].pc = "none"
                          /\ \/ proc'[f].pc \in {"none", "idle"}
                             \/ proc[f].open

LEMMA QuietKeeps ==
  ASSUME Inv, TypeOK', Quiet
  PROVE  Inv'
<1>1. Mapped'
  BY DEF Inv, Mapped, Quiet, HasSession
<1>2. OneToOne' /\ Numbered' /\ NoLeak'
  BY DEF Inv, OneToOne, Numbered, NoLeak, Quiet, HasSession
<1> QED
  BY <1>1, <1>2 DEF Inv

\* A step that gives e's processor the value q, and host and rime new values.
LEMMA Step ==
  ASSUME Inv, NEW e \in Engines, NEW q \in Procs,
         proc[e].open, q.open = proc[e].open, q.pc # "none",
         proc' = [proc EXCEPT ![e] = q],
         host' \in Hosts, host'.live = host.live, host'.opened = host.opened,
         rime' \in [Engines -> Rimes], stale' \subseteq Engines,
         UNCHANGED <<sessions, lostIds>>
  PROVE  Inv'
<1>1. TypeOK'
  BY DEF Inv, TypeOK
<1>2. Quiet
  BY DEF Inv, TypeOK, Mapped, Quiet
<1> QED
  BY <1>1, <1>2, QuietKeeps

\* A processor that is open has a session whose composition is known.
LEMMA OpenHas ==
  ASSUME Inv, NEW e \in Engines, proc[e].open
  PROVE  sessions[e] \in Ids /\ Comp(e) \in Comps
  BY DEF Inv, TypeOK, Mapped, HasSession, Comp, Hosts, Ids, NoId

LEMMA ProcessKeyKeeps ==
  ASSUME Inv, NEW e \in Engines, proc[e].open, NEW p \in Procs, NEW rs,
         \A r \in rs : r.taken \in BOOLEAN /\ r.next \in Comps /\ r.text \in BOOLEAN,
         ProcessKey(e, rs, p)
  PROVE  /\ \E q \in Procs : /\ proc' = [proc EXCEPT ![e] = q]
                             /\ q.open = p.open /\ q.pc = p.pc
         /\ host' \in Hosts
         /\ host'.live = host.live /\ host'.opened = host.opened
<1>1. PICK o \in Outcomes, r \in rs :
         IF Applied(o)
         THEN /\ host' = [host EXCEPT !.comp[sessions[e]] = r.next,
                                      !.text[sessions[e]] = @ \/ r.text]
              /\ proc' = [proc EXCEPT ![e] =
                             [p EXCEPT !.accepted = (o = Answered /\ r.taken),
                                       !.clean = (o = Answered),
                                       !.wrote = r.text]]
         ELSE /\ UNCHANGED host
              /\ proc' = [proc EXCEPT ![e] = [p EXCEPT !.clean = FALSE]]
  BY DEF ProcessKey
<1>2. sessions[e] \in Ids
  BY OpenHas
<1>3. CASE Applied(o)
  <2> DEFINE q == [p EXCEPT !.accepted = (o = Answered /\ r.taken),
                            !.clean = (o = Answered),
                            !.wrote = r.text]
  <2>1. q \in Procs /\ q.open = p.open /\ q.pc = p.pc
    BY DEF Procs
  <2> DEFINE some == host.text[sessions[e]] \/ r.text
  <2>2. some \in BOOLEAN
    OBVIOUS
  <2>3. host' = [host EXCEPT !.comp[sessions[e]] = r.next,
                             !.text[sessions[e]] = some]
    BY <1>1, <1>3
  <2>4. host' \in Hosts /\ host'.live = host.live /\ host'.opened = host.opened
    <3> HIDE DEF some
    <3> QED
      BY <1>2, <2>2, <2>3 DEF Inv, TypeOK, Hosts
  <2> QED
    BY <1>1, <1>3, <2>1, <2>4
<1>4. CASE ~Applied(o)
  <2>1. [p EXCEPT !.clean = FALSE] \in Procs
    BY DEF Procs
  <2>2. /\ [p EXCEPT !.clean = FALSE].open = p.open
        /\ [p EXCEPT !.clean = FALSE].pc = p.pc
    BY DEF Procs
  <2> QED
    BY <1>1, <1>4, <2>1, <2>2 DEF Inv, TypeOK
<1> QED
  BY <1>3, <1>4

LEMMA GetCommitKeeps ==
  ASSUME Inv, NEW e \in Engines, proc[e].open, NEW p \in Procs, GetCommit(e, p)
  PROVE  /\ \E q \in Procs : /\ proc' = [proc EXCEPT ![e] = q]
                             /\ q.open = p.open /\ q.pc = p.pc
         /\ host' \in Hosts
         /\ host'.live = host.live /\ host'.opened = host.opened
<1>1. PICK o \in Outcomes :
         /\ host' = IF Applied(o) THEN [host EXCEPT !.text[sessions[e]] = FALSE] ELSE host
         /\ proc' = [proc EXCEPT ![e] = [p EXCEPT !.clean = @ /\ (o = Answered),
                                                  !.heard = (o = Answered)]]
  BY DEF GetCommit
<1> DEFINE q == [p EXCEPT !.clean = @ /\ (o = Answered), !.heard = (o = Answered)]
<1>2. q \in Procs /\ q.open = p.open /\ q.pc = p.pc
  BY DEF Procs
<1>3. host' \in Hosts /\ host'.live = host.live /\ host'.opened = host.opened
  BY <1>1, OpenHas DEF Inv, TypeOK, Hosts
<1> QED
  BY <1>1, <1>2, <1>3
-----------------------------------------------------------------------------
(* The key cycle.                                                          *)

LEMMA PressKeeps ==
  ASSUME Inv, NEW e \in Engines, Press(e)
  PROVE  Inv'
<1> DEFINE old == Preedit(proc[e].cached)
           p   == [proc[e] EXCEPT !.pc = "commit", !.old = old]
<1>1. p \in Procs /\ p.open = proc[e].open /\ p.pc = "commit"
  <2>1. proc[e] \in Procs
    BY DEF Inv, TypeOK
  <2>2. old \in Comps \ {Menu}
    BY <2>1, MenuFacts DEF Procs, Preedit
  <2> HIDE DEF old
  <2> QED
    BY <2>1, <2>2 DEF Procs, Pcs
<1>2. proc[e].open /\ ProcessKey(e, Reactions(Comp(e)), p)
  BY DEF Press, Idle
<1>3. \A r \in Reactions(Comp(e)) :
         r.taken \in BOOLEAN /\ r.next \in Comps /\ r.text \in BOOLEAN
  BY <1>2, OpenHas, ReactionTypes
<1> HIDE DEF p
<1>4. PICK q \in Procs : /\ proc' = [proc EXCEPT ![e] = q]
                         /\ q.open = p.open /\ q.pc = p.pc
  BY <1>1, <1>2, <1>3, ProcessKeyKeeps
<1>5. host' \in Hosts /\ host'.live = host.live /\ host'.opened = host.opened
  BY <1>1, <1>2, <1>3, ProcessKeyKeeps
<1> QED
  BY <1>1, <1>2, <1>4, <1>5, Step DEF Press, Inv, TypeOK

LEMMA SyncCommitKeeps ==
  ASSUME Inv, NEW e \in Engines, SyncCommit(e), proc[e].open
  PROVE  Inv'
<1> DEFINE p == [proc[e] EXCEPT !.pc = "context"]
<1>1. p \in Procs /\ p.open = proc[e].open /\ p.pc = "context"
  BY DEF Inv, TypeOK, Procs, Pcs
<1>2. GetCommit(e, p)
  BY DEF SyncCommit
<1> HIDE DEF p
<1>3. PICK q \in Procs : /\ proc' = [proc EXCEPT ![e] = q]
                         /\ q.open = p.open /\ q.pc = p.pc
  BY <1>1, <1>2, GetCommitKeeps
<1>4. host' \in Hosts /\ host'.live = host.live /\ host'.opened = host.opened
  BY <1>1, <1>2, GetCommitKeeps
<1> QED
  BY <1>1, <1>3, <1>4, Step DEF SyncCommit, Inv, TypeOK

LEMMA RestTypes ==
  ASSUME NEW p \in Procs, NEW c \in Comps
  PROVE  LET q == [Rest(p) EXCEPT !.cached = c]
         IN  /\ q \in Procs /\ q.open = p.open /\ q.pc = "idle"
             /\ q.asciiWasOn = p.asciiWasOn /\ q.cached = c
  BY MenuFacts DEF Rest, Procs, Pcs

LEMMA SyncContextKeeps ==
  ASSUME Inv, NEW e \in Engines, SyncContext(e), proc[e].open
  PROVE  Inv'
<1>1. PICK o \in Outcomes :
         LET c == IF o = Answered THEN Comp(e) ELSE None
             clean == proc[e].clean /\ o = Answered
         IN /\ proc' = [proc EXCEPT ![e] = [Rest(@) EXCEPT !.cached = c]]
            /\ rime' = IF Passes(e, c) THEN rime ELSE Show(e, c)
            /\ stale' = IF ~clean THEN stale \cup {e}
                        ELSE IF Passes(e, c) THEN stale ELSE stale \ {e}
  BY DEF SyncContext
<1> DEFINE c == IF o = Answered THEN Comp(e) ELSE None
           q == [Rest(proc[e]) EXCEPT !.cached = c]
<1>2. c \in Comps
  BY OpenHas, MenuFacts
<1> HIDE DEF c
<1>3. q \in Procs /\ q.open = proc[e].open /\ q.pc = "idle"
  BY <1>2, RestTypes DEF Inv, TypeOK
<1>4. proc' = [proc EXCEPT ![e] = q]
  BY <1>1 DEF Inv, TypeOK, c
<1>5. rime' \in [Engines -> Rimes]
  <2>1. rime' = rime \/ rime' = Show(e, c)
    BY <1>1 DEF c
  <2> QED
    BY <1>2, <2>1 DEF Inv, TypeOK, Rimes, Show
<1>6. stale' \subseteq Engines
  <2>1. stale' = stale \cup {e} \/ stale' = stale \/ stale' = stale \ {e}
    BY <1>1
  <2> QED
    BY <2>1 DEF Inv, TypeOK
<1> HIDE DEF q
<1> QED
  BY <1>3, <1>4, <1>5, <1>6, Step DEF SyncContext, Inv, TypeOK
-----------------------------------------------------------------------------
(* Ascii mode.                                                             *)

LEMMA HandleToggleKeeps ==
  ASSUME Inv, NEW e \in Engines, proc[e].open,
         NEW p \in Procs, p.open = proc[e].open, p.pc = "idle",
         NEW style, NEW input \in Comps, HandleToggle(e, style, p, input),
         UNCHANGED <<sessions, lostIds>>
  PROVE  Inv'
<1>1. [rime EXCEPT ![e] = [ascii |-> TRUE, input |-> input]] \in [Engines -> Rimes]
  BY DEF Inv, TypeOK, Rimes
<1>2. [rime EXCEPT ![e] = [ascii |-> TRUE, input |-> None]] \in [Engines -> Rimes]
  BY MenuFacts DEF Inv, TypeOK, Rimes
<1>3. CASE InlineAscii(e, style, p, input)
  BY <1>1, <1>3, Step DEF InlineAscii, Inv, TypeOK
<1>4. CASE SendEscape(e, style, p, input) \/ SendSpace(e, style, p)
  <2> DEFINE s == [p EXCEPT !.pc = style]
  <2>1. PICK rs \in {Escape(Comp(e)), Space(Comp(e))} : ProcessKey(e, rs, s)
    BY <1>4 DEF SendEscape, SendSpace
  <2>2. \A r \in rs : r.taken \in BOOLEAN /\ r.next \in Comps /\ r.text \in BOOLEAN
    BY OpenHas, ReactionTypes
  <2>3. s \in Procs /\ s.open = proc[e].open /\ s.pc = style /\ style # "none"
    BY <1>4 DEF SendEscape, SendSpace, Procs, Pcs, Styles
  <2> HIDE DEF s
  <2>4. PICK q \in Procs : /\ proc' = [proc EXCEPT ![e] = q]
                           /\ q.open = s.open /\ q.pc = s.pc
    BY <2>1, <2>2, <2>3, ProcessKeyKeeps
  <2>5. host' \in Hosts /\ host'.live = host.live /\ host'.opened = host.opened
    BY <2>1, <2>2, <2>3, ProcessKeyKeeps
  <2>6. rime' \in [Engines -> Rimes] /\ stale' = stale
    BY <1>1, <1>2, <1>4 DEF SendEscape, SendSpace
  <2> QED
    BY <2>3, <2>4, <2>5, <2>6, Step DEF Inv, TypeOK
<1>5. CASE Noop(e, style, p, input)
  <2> DEFINE q == [p EXCEPT !.cached = None]
  <2>1. q \in Procs /\ q.open = proc[e].open /\ q.pc = "idle"
    BY MenuFacts DEF Procs
  <2>2. proc' = [proc EXCEPT ![e] = q]
    BY <1>5 DEF Noop
  <2> HIDE DEF q
  <2> QED
    BY <1>1, <1>5, <2>1, <2>2, Step DEF Noop, Inv, TypeOK
<1> QED
  BY <1>3, <1>4, <1>5 DEF HandleToggle

LEMMA SeesKeeps ==
  ASSUME Inv, NEW e \in Engines, Idle(e), NEW style,
         NEW now \in BOOLEAN, NEW input \in Comps, Sees(e, style, now, input),
         UNCHANGED <<sessions, lostIds>>
  PROVE  Inv'
<1> DEFINE p == [proc[e] EXCEPT !.asciiWasOn = now]
<1>1. p \in Procs /\ p.open = proc[e].open /\ p.pc = "idle" /\ proc[e].open
  BY DEF Idle, Inv, TypeOK, Procs
<1>2. [rime EXCEPT ![e] = [ascii |-> now, input |-> input]] \in [Engines -> Rimes]
  BY DEF Inv, TypeOK, Rimes
<1>3. \/ HandleToggle(e, style, p, input)
      \/ /\ proc' = [proc EXCEPT ![e] = p]
         /\ rime' = [rime EXCEPT ![e] = [ascii |-> now, input |-> input]]
         /\ UNCHANGED <<host, stale>>
  BY DEF Sees
<1> HIDE DEF p
<1>4. CASE HandleToggle(e, style, p, input)
  BY <1>1, <1>4, HandleToggleKeeps
<1>5. CASE /\ proc' = [proc EXCEPT ![e] = p]
           /\ rime' = [rime EXCEPT ![e] = [ascii |-> now, input |-> input]]
           /\ UNCHANGED <<host, stale>>
  BY <1>1, <1>2, <1>5, Step DEF Inv, TypeOK
<1> QED
  BY <1>3, <1>4, <1>5

LEMMA ToggleKeeps ==
  ASSUME Inv, NEW e \in Engines, NEW style \in Styles, Toggle(e, style)
  PROVE  Inv'
<1>1. (~rime[e].ascii) \in BOOLEAN
  OBVIOUS
<1>2. Composed(style, rime[e].input) \in Comps
  BY MenuFacts DEF Inv, TypeOK, Rimes, Composed
<1> QED
  BY <1>1, <1>2, SeesKeeps DEF Toggle

LEMMA SwallowKeeps ==
  ASSUME Inv, NEW e \in Engines, NEW style, Swallow(e, style)
  PROVE  Inv'
<1>1. rime[e].ascii \in BOOLEAN /\ rime[e].input \in Comps
  BY DEF Inv, TypeOK, Rimes
<1> QED
  BY <1>1, SeesKeeps DEF Swallow

LEMMA SettleKeeps ==
  ASSUME Inv, NEW e \in Engines, Settle(e)
  PROVE  Inv'
<1> DEFINE p == [Rest(proc[e]) EXCEPT !.cached = None]
<1>1. p \in Procs /\ p.open = proc[e].open /\ p.pc = "idle"
  BY RestTypes, MenuFacts DEF Inv, TypeOK
<1>2. proc[e].open
  BY DEF Settle, Styles, Inv, Mapped
<1>3. GetCommit(e, p)
  BY DEF Settle
<1> HIDE DEF p
<1>4. PICK q \in Procs : /\ proc' = [proc EXCEPT ![e] = q]
                         /\ q.open = p.open /\ q.pc = p.pc
  BY <1>1, <1>2, <1>3, GetCommitKeeps
<1>5. host' \in Hosts /\ host'.live = host.live /\ host'.opened = host.opened
  BY <1>1, <1>2, <1>3, GetCommitKeeps
<1>6. rime' \in [Engines -> Rimes]
  BY MenuFacts DEF Settle, Inv, TypeOK, Rimes
<1>7. stale' \subseteq Engines
  BY DEF Settle, Inv, TypeOK
<1> QED
  BY <1>1, <1>2, <1>4, <1>5, <1>6, <1>7, Step DEF Settle

LEMMA MenuToggleKeeps ==
  ASSUME Inv, NEW e \in Engines, MenuToggle(e) \/ InlineEnds(e)
  PROVE  Inv'
<1>1. rime' \in [Engines -> Rimes]
  <2> DEFINE on == ~rime[e].ascii
  <2>1. on \in BOOLEAN
    OBVIOUS
  <2>2. \/ rime' = [rime EXCEPT ![e].ascii = on]
        \/ \E b \in BOOLEAN : rime' = [rime EXCEPT ![e] = [ascii |-> b, input |-> None]]
    BY DEF MenuToggle, InlineEnds
  <2> HIDE DEF on
  <2> QED
    BY <2>1, <2>2, MenuFacts DEF Inv, TypeOK, Rimes
<1>2. TypeOK'
  BY <1>1 DEF MenuToggle, InlineEnds, Inv, TypeOK
<1>3. Quiet
  BY DEF MenuToggle, InlineEnds, Inv, Mapped, Quiet
<1> QED
  BY <1>2, <1>3, QuietKeeps
-----------------------------------------------------------------------------
(* The life of a processor.                                                *)

LEMMA CreateKeeps ==
  ASSUME Inv, NEW e \in Engines, Create(e)
  PROVE  Inv'
<1> DEFINE id == host.opened + 1
<1>1. sessions[e] = NoId /\ ~HasSession(e) /\ proc[e].pc = "none"
  BY DEF Create, Inv, Mapped, HasSession
<1>2. id \in Ids /\ id \notin host.live /\ id # NoId /\ id \in Nat
  BY <1>1, RemoteAssumption DEF Create, Inv, TypeOK, Hosts, Ids, NoId, Numbered
<1>3. PICK o \in Outcomes :
         /\ host' = IF ~Applied(o) THEN host ELSE Opened(host, id)
         /\ sessions' = IF o = Answered THEN [sessions EXCEPT ![e] = id] ELSE sessions
         /\ lostIds' = IF o = "cut" THEN lostIds \cup {id} ELSE lostIds
         /\ proc' = [proc EXCEPT ![e] = [NoProc EXCEPT !.pc = "idle",
                                                       !.open = (o = Answered),
                                                       !.asciiWasOn = rime[e].ascii]]
  BY <1>1 DEF Create
<1>4. o \in {Answered, "lost", "cut"} /\ (Applied(o) <=> o # "lost") /\ Answered # "lost"
        /\ Answered # "cut"
  BY RemoteAssumption DEF Outcomes, FaultKinds, Applied, Answered
<1> DEFINE b == (o = Answered)
           q == [NoProc EXCEPT !.pc = "idle", !.open = b, !.asciiWasOn = rime[e].ascii]
<1>5. q \in Procs /\ q.pc = "idle" /\ (q.open <=> o = Answered)
  <2>1. NoProc \in Procs
    BY MenuFacts DEF NoProc, Procs, Pcs, Styles
  <2>2. b \in BOOLEAN /\ rime[e].ascii \in BOOLEAN
    BY DEF Inv, TypeOK, Rimes
  <2>3. b <=> o = Answered
    OBVIOUS
  <2> HIDE DEF b
  <2> QED
    BY <2>1, <2>2, <2>3 DEF Procs, Pcs
<1>6. proc' = [proc EXCEPT ![e] = q]
  BY <1>3
<1>7. /\ host' \in Hosts
      /\ o = "lost" => host'.live = host.live /\ host'.opened = host.opened
      /\ o # "lost" => host'.live = host.live \cup {id} /\ host'.opened = id
  <2>1. id \in 0 .. MaxSessions /\ {id} \subseteq Ids
    BY <1>2 DEF Ids
  <2> HIDE DEF id, q, b
  <2>2. CASE o = "lost"
    BY <1>3, <1>4, <2>2 DEF Inv, TypeOK
  <2>3. CASE o # "lost"
    <3>1. host' = [host EXCEPT !.opened = id, !.live = @ \cup {id}]
      BY <1>3, <1>4, <2>3 DEF Opened
    <3> QED
      BY <2>1, <2>3, <3>1 DEF Inv, TypeOK, Hosts
  <2> QED
    BY <2>2, <2>3
<1> HIDE DEF id, q, b
<1>8. TypeOK'
  BY <1>2, <1>3, <1>5, <1>6, <1>7 DEF Inv, TypeOK, Create
<1>9. /\ proc'[e] = q
      /\ \A f \in Engines \ {e} : proc'[f] = proc[f] /\ sessions'[f] = sessions[f]
      /\ sessions'[e] = IF o = Answered THEN id ELSE NoId
  BY <1>1, <1>3, <1>6 DEF Inv, TypeOK
<1>10. Mapped'
  BY <1>2, <1>4, <1>5, <1>7, <1>9 DEF Inv, Mapped, HasSession
<1>11. OneToOne'
  BY <1>2, <1>9 DEF Inv, OneToOne, Mapped, HasSession
<1>12. Numbered'
  BY <1>2, <1>7 DEF Inv, Numbered, TypeOK, Hosts, id
<1>13. NoLeak'
  <2> SUFFICES ASSUME NEW i \in host'.live
               PROVE  i \in lostIds' \/ \E f \in Engines : sessions'[f] = i
    BY DEF NoLeak
  <2>1. CASE i \in host.live
    <3>1. i \in lostIds \/ \E f \in Engines : sessions[f] = i
      BY <2>1 DEF Inv, NoLeak
    <3>2. i # NoId
      BY <2>1 DEF Inv, Numbered, NoId, TypeOK, Hosts
    <3> QED
      BY <1>1, <1>3, <1>9, <3>1, <3>2
  <2>2. CASE i = id
    BY <1>2, <1>3, <1>4, <1>7, <1>9, <2>2
  <2> QED
    BY <1>4, <1>7, <2>1, <2>2
<1> QED
  BY <1>8, <1>10, <1>11, <1>12, <1>13 DEF Inv

LEMMA ClosedFacts ==
  ASSUME NEW h \in Hosts, NEW S
  PROVE  /\ Closed(h, S) \in Hosts
         /\ Closed(h, S).live = h.live \ S /\ Closed(h, S).opened = h.opened
<1> DEFINE c == [i \in Ids |-> IF i \in S THEN None ELSE h.comp[i]]
           t == [i \in Ids |-> i \notin S /\ h.text[i]]
<1>1. c \in [Ids -> Comps]
  BY MenuFacts DEF Hosts
<1>2. t \in [Ids -> BOOLEAN]
  OBVIOUS
<1>3. Closed(h, S) = [h EXCEPT !.live = @ \ S, !.comp = c, !.text = t]
  BY DEF Closed, Hosts
<1> HIDE DEF c, t
<1> QED
  BY <1>1, <1>2, <1>3 DEF Hosts

LEMMA NoneTypes ==
  /\ NoProc \in Procs /\ NoProc.pc = "none" /\ ~NoProc.open
  /\ NoRime \in Rimes /\ NoRime.input = None
  BY MenuFacts DEF NoProc, NoRime, Procs, Rimes, Pcs

LEMMA DestroyKeeps ==
  ASSUME Inv, NEW e \in Engines, Destroy(e)
  PROVE  Inv'
<1>1. /\ proc' = [proc EXCEPT ![e] = NoProc]
      /\ rime' = [rime EXCEPT ![e] = NoRime]
      /\ stale' = stale \ {e}
  BY DEF Destroy
<1>2. CASE ~proc[e].open
  <2>1. UNCHANGED <<sessions, host, lostIds>>
    BY <1>2 DEF Destroy
  <2>2. TypeOK'
    BY <1>1, <2>1, NoneTypes DEF Inv, TypeOK
  <2>3. Mapped'
    BY <1>1, <1>2, <2>1, NoneTypes DEF Inv, TypeOK, Mapped, HasSession
  <2>4. OneToOne' /\ Numbered' /\ NoLeak'
    BY <2>1 DEF Inv, OneToOne, Numbered, NoLeak, HasSession
  <2> QED
    BY <2>2, <2>3, <2>4 DEF Inv
<1>3. CASE proc[e].open
  <2>1. PICK o \in Outcomes :
           /\ host' = IF Applied(o) THEN Closed(host, {sessions[e]}) ELSE host
           /\ lostIds' = IF o = "lost" THEN lostIds \cup {sessions[e]} ELSE lostIds
    BY <1>3 DEF Destroy
  <2>2. sessions' = [sessions EXCEPT ![e] = NoId]
    BY <1>3 DEF Destroy, Erase
  <2>3. /\ host' \in Hosts /\ host'.opened = host.opened
        /\ o = "lost" => host'.live = host.live
        /\ o # "lost" => host'.live = host.live \ {sessions[e]}
    BY <2>1, ClosedFacts DEF Applied, Inv, TypeOK
  <2>4. /\ proc'[e] = NoProc /\ sessions'[e] = NoId
        /\ \A f \in Engines \ {e} : proc'[f] = proc[f] /\ sessions'[f] = sessions[f]
    BY <1>1, <2>2 DEF Inv, TypeOK
  <2>5. TypeOK'
    BY <1>1, <1>3, <2>1, <2>2, <2>3, NoneTypes, OpenHas DEF Inv, TypeOK, Ids, NoId
  <2>6. Mapped'
    BY <1>3, <2>3, <2>4, NoneTypes DEF Inv, Mapped, OneToOne, HasSession
  <2>7. OneToOne'
    BY <2>4 DEF Inv, OneToOne, HasSession
  <2>8. Numbered'
    BY <2>3 DEF Inv, Numbered
  <2>9. NoLeak'
    BY <2>1, <2>3, <2>4 DEF Inv, NoLeak
  <2> QED
    BY <2>5, <2>6, <2>7, <2>8, <2>9 DEF Inv
<1> QED
  BY <1>2, <1>3

LEMMA ShutdownKeeps ==
  ASSUME Inv, Shutdown
  PROVE  Inv'
<1> DEFINE held == {sessions[e] : e \in Engines} \ {NoId}
<1>1. PICK missed \in SUBSET held :
         /\ host' = Closed(host, held \ missed)
         /\ lostIds' = lostIds \cup missed
  BY DEF Shutdown, Closing
<1>2. /\ sessions' = [e \in Engines |-> NoId]
      /\ proc' = [e \in Engines |-> NoProc]
      /\ rime' = [e \in Engines |-> NoRime]
      /\ stale' = {}
  BY DEF Shutdown
<1>3. /\ host' \in Hosts /\ host'.opened = host.opened
      /\ host'.live = host.live \ (held \ missed)
  BY <1>1, ClosedFacts DEF Inv, TypeOK
<1>4. held \subseteq Ids
  BY DEF Inv, TypeOK
<1>5. TypeOK'
  BY <1>1, <1>2, <1>3, <1>4, NoneTypes DEF Inv, TypeOK
<1>6. Mapped' /\ OneToOne'
  BY <1>2, NoneTypes DEF Mapped, OneToOne, HasSession
<1>7. Numbered'
  BY <1>3 DEF Inv, Numbered
<1>8. NoLeak'
  BY <1>1, <1>3 DEF Inv, NoLeak, Numbered, NoId
<1> QED
  BY <1>5, <1>6, <1>7, <1>8 DEF Inv
-----------------------------------------------------------------------------
LEMMA CycleKeeps ==
  ASSUME Inv, NEW e \in Engines, Cycle(e)
  PROVE  Inv'
<1>1. CASE Press(e)
  BY <1>1, PressKeeps
<1>2. CASE SyncCommit(e)
  BY <1>2, SyncCommitKeeps DEF SyncCommit, Inv, Mapped
<1>3. CASE SyncContext(e)
  BY <1>3, SyncContextKeeps DEF SyncContext, Inv, Mapped
<1>4. CASE Settle(e)
  BY <1>4, SettleKeeps
<1>5. CASE \E style \in Styles : Toggle(e, style)
  BY <1>5, ToggleKeeps
<1>6. CASE \E style \in Styles \cup {"noop"} : Swallow(e, style)
  BY <1>6, SwallowKeeps
<1>7. CASE MenuToggle(e) \/ InlineEnds(e)
  BY <1>7, MenuToggleKeeps
<1> QED
  BY <1>1, <1>2, <1>3, <1>4, <1>5, <1>6, <1>7 DEF Cycle

LEMMA InvNext == Inv /\ [Next]_vars => Inv'
<1> SUFFICES ASSUME Inv, [Next]_vars PROVE Inv'
  OBVIOUS
<1>1. CASE \E e \in Engines : Create(e) \/ Destroy(e) \/ Cycle(e)
  BY <1>1, CreateKeeps, DestroyKeeps, CycleKeeps
<1>2. CASE Shutdown
  BY <1>2, ShutdownKeeps
<1>3. CASE UNCHANGED vars
  <2>1. TypeOK' /\ Quiet
    BY <1>3 DEF vars, Inv, TypeOK, Mapped, Quiet
  <2> QED
    BY <2>1, QuietKeeps
<1> QED
  BY <1>1, <1>2, <1>3 DEF Next

LEMMA Invariance == Spec => []Inv
  BY InitInv, InvNext, PTL DEF Spec
-----------------------------------------------------------------------------
(* What the user sees and what the application gets.                       *)

\* A processor p, librime's r and the composition c of its session agree: at
\* rest all three show the same; in a key cycle they still do if the host said
\* that it left the key alone; in a toggle nothing is left to show.
Toggling == Styles \ {"inline_ascii"}
Agrees(p, r, c) ==
    /\ r.ascii = p.asciiWasOn
    /\ p.pc = "idle" => r.input = c /\ p.cached = c /\ (r.ascii => c = None)
    /\ p.pc \in {"commit", "context"} /\ p.clean /\ ~p.accepted => r.input = c
    /\ p.pc \in Toggling => r.input = None /\ (p.clean => c = None)

\* No key cycle runs in ascii mode.
InChinese(p, r) == p.pc \in {"commit", "context"} => ~r.ascii /\ ~p.asciiWasOn

\* t: the session has text to collect.
Collects(p, t) == p.pc \in {"idle", "context"} /\ t => ~p.heard

Truthful ==
    \A e \in Engines : proc[e].open =>
        /\ InChinese(proc[e], rime[e])
        /\ e \notin stale => Agrees(proc[e], rime[e], Comp(e))
        /\ Collects(proc[e], host.text[sessions[e]])

\* What is not there yet shows nothing.
Untouched ==
    /\ \A e \in Engines : proc[e].pc = "none" => rime[e].input = None
    /\ \A i \in Ids : i > host.opened => host.comp[i] = None /\ ~host.text[i]

Views == Truthful /\ Untouched

LEMMA InitViews == Init => Views
<1> SUFFICES ASSUME Init PROVE Views
  OBVIOUS
<1>1. Truthful
  BY NoneTypes DEF Init, Truthful
<1>2. Untouched
  BY NoneTypes DEF Init, Untouched, NoRime
<1> QED
  BY <1>1, <1>2 DEF Views

\* A step of e's cycle touches e's processor, its librime and its session only.
LEMMA ViewStep ==
  ASSUME Inv, Views, NEW e \in Engines, proc[e].open, NEW q, q.open, q.pc # "none",
         proc' = [proc EXCEPT ![e] = q],
         \A f \in Engines \ {e} : rime'[f] = rime[f] /\ (f \in stale' <=> f \in stale),
         sessions' = sessions, host'.opened = host.opened,
         \A i \in Ids \ {sessions[e]} :
             host'.comp[i] = host.comp[i] /\ host'.text[i] = host.text[i],
         InChinese(q, rime'[e]),
         e \notin stale' => Agrees(q, rime'[e], host'.comp[sessions[e]]),
         Collects(q, host'.text[sessions[e]])
  PROVE  Views'
<1>1. proc'[e] = q /\ \A f \in Engines \ {e} : proc'[f] = proc[f]
  BY DEF Inv, TypeOK
<1>2. \A f \in Engines \ {e} : proc[f].open => sessions[f] \in Ids \ {sessions[e]}
  BY OpenHas DEF Inv, Mapped, OneToOne
<1>3. sessions[e] \in Ids /\ sessions[e] <= host.opened
  BY OpenHas DEF Inv, Mapped, Numbered
<1>4. ASSUME NEW f \in Engines, proc'[f].open
      PROVE  /\ InChinese(proc'[f], rime'[f])
             /\ f \notin stale' => Agrees(proc'[f], rime'[f], Comp(f)')
             /\ Collects(proc'[f], host'.text[sessions'[f]])
  <2>1. CASE f = e
    BY <1>1, <2>1 DEF Comp
  <2>2. CASE f # e
    <3>1. /\ proc'[f] = proc[f] /\ rime'[f] = rime[f] /\ (f \in stale' <=> f \in stale)
          /\ host'.comp[sessions'[f]] = host.comp[sessions[f]]
          /\ host'.text[sessions'[f]] = host.text[sessions[f]]
      BY <1>1, <1>2, <1>4, <2>2
    <3> QED
      BY <3>1, <1>4 DEF Views, Truthful, Comp
  <2> QED
    BY <2>1, <2>2
<1>5. Untouched'
  <2>1. \A f \in Engines : proc'[f].pc = "none" => rime'[f].input = None
    BY <1>1 DEF Views, Untouched
  <2>2. \A i \in Ids : i > host'.opened => host'.comp[i] = None /\ ~host'.text[i]
    <3> SUFFICES ASSUME NEW i \in Ids, i > host.opened
                 PROVE  host'.comp[i] = None /\ ~host'.text[i]
      OBVIOUS
    <3>1. i # sessions[e]
      BY <1>3, RemoteAssumption DEF Ids, Inv, TypeOK, Hosts
    <3> QED
      BY <3>1 DEF Views, Untouched
  <2> QED
    BY <2>1, <2>2 DEF Untouched
<1> QED
  BY <1>4, <1>5 DEF Views, Truthful

\* What an answer of ProcessKey tells the engine: one of rs brought c about.
Told(q, rs, c) == q.clean => \E r \in rs : c = r.next /\ q.accepted = r.taken

\* What a call of ProcessKey does.
LEMMA ProcessKeyGives ==
  ASSUME Inv, NEW e \in Engines, proc[e].open, NEW p \in Procs, NEW rs,
         \A r \in rs : r.taken \in BOOLEAN /\ r.next \in Comps /\ r.text \in BOOLEAN,
         ProcessKey(e, rs, p)
  PROVE  /\ \E q \in Procs :
               /\ proc' = [proc EXCEPT ![e] = q]
               /\ q.open = p.open /\ q.pc = p.pc /\ q.asciiWasOn = p.asciiWasOn
               /\ Told(q, rs, host'.comp[sessions[e]])
         /\ host'.opened = host.opened
         /\ \A i \in Ids \ {sessions[e]} :
               host'.comp[i] = host.comp[i] /\ host'.text[i] = host.text[i]
<1>1. PICK o \in Outcomes, r \in rs :
         IF Applied(o)
         THEN /\ host' = [host EXCEPT !.comp[sessions[e]] = r.next,
                                      !.text[sessions[e]] = @ \/ r.text]
              /\ proc' = [proc EXCEPT ![e] =
                             [p EXCEPT !.accepted = (o = Answered /\ r.taken),
                                       !.clean = (o = Answered),
                                       !.wrote = r.text]]
         ELSE /\ UNCHANGED host
              /\ proc' = [proc EXCEPT ![e] = [p EXCEPT !.clean = FALSE]]
  BY DEF ProcessKey
<1>2. sessions[e] \in Ids /\ host \in Hosts
  BY OpenHas DEF Inv, TypeOK
<1>3. CASE Applied(o)
  <2> DEFINE some == host.text[sessions[e]] \/ r.text
             yes  == (o = Answered)
             took == (o = Answered /\ r.taken)
             q    == [p EXCEPT !.accepted = took, !.clean = yes, !.wrote = r.text]
  <2>1. some \in BOOLEAN /\ yes \in BOOLEAN /\ took \in BOOLEAN /\ (yes => took = r.taken)
    OBVIOUS
  <2>2. /\ host' = [host EXCEPT !.comp[sessions[e]] = r.next, !.text[sessions[e]] = some]
        /\ proc' = [proc EXCEPT ![e] = q]
    BY <1>1, <1>3
  <2> HIDE DEF some, yes, took
  <2>3. /\ q \in Procs /\ q.open = p.open /\ q.pc = p.pc /\ q.asciiWasOn = p.asciiWasOn
        /\ q.clean = yes /\ q.accepted = took
    BY <2>1 DEF Procs
  <2>4. /\ host'.comp[sessions[e]] = r.next /\ host'.opened = host.opened
        /\ \A i \in Ids \ {sessions[e]} :
              host'.comp[i] = host.comp[i] /\ host'.text[i] = host.text[i]
    BY <1>2, <2>2 DEF Hosts
  <2> HIDE DEF q
  <2>5. Told(q, rs, host'.comp[sessions[e]])
    BY <2>1, <2>3, <2>4 DEF Told
  <2> QED
    BY <2>2, <2>3, <2>4, <2>5
<1>4. CASE ~Applied(o)
  <2> DEFINE q == [p EXCEPT !.clean = FALSE]
  <2>1. /\ q \in Procs /\ q.open = p.open /\ q.pc = p.pc /\ q.asciiWasOn = p.asciiWasOn
        /\ Told(q, rs, host'.comp[sessions[e]])
    BY DEF Procs, Told
  <2>2. proc' = [proc EXCEPT ![e] = q] /\ host' = host
    BY <1>1, <1>4
  <2> HIDE DEF q
  <2> QED
    BY <2>1, <2>2
<1> QED
  BY <1>3, <1>4

\* A call of GetCommit empties the text, unless it is lost; then nobody has heard.
LEMMA GetCommitGives ==
  ASSUME Inv, NEW e \in Engines, proc[e].open, NEW p \in Procs, GetCommit(e, p)
  PROVE  /\ \E q \in Procs :
               /\ proc' = [proc EXCEPT ![e] = q]
               /\ q.open = p.open /\ q.pc = p.pc /\ q.asciiWasOn = p.asciiWasOn
               /\ q.cached = p.cached /\ q.accepted = p.accepted /\ (q.clean => p.clean)
               /\ host'.text[sessions[e]] => ~q.heard
         /\ host'.opened = host.opened /\ host'.comp = host.comp
         /\ \A i \in Ids \ {sessions[e]} : host'.text[i] = host.text[i]
<1>1. PICK o \in Outcomes :
         /\ host' = IF Applied(o) THEN [host EXCEPT !.text[sessions[e]] = FALSE] ELSE host
         /\ proc' = [proc EXCEPT ![e] = [p EXCEPT !.clean = @ /\ (o = Answered),
                                                  !.heard = (o = Answered)]]
  BY DEF GetCommit
<1>2. sessions[e] \in Ids /\ host \in Hosts
  BY OpenHas DEF Inv, TypeOK
<1> DEFINE yes == (o = Answered)
           all == p.clean /\ yes
           q   == [p EXCEPT !.clean = all, !.heard = yes]
<1>3. yes \in BOOLEAN /\ all \in BOOLEAN /\ (all => p.clean) /\ (yes => Applied(o))
      /\ proc' = [proc EXCEPT ![e] = q]
  BY <1>1 DEF Applied, Answered
<1> HIDE DEF yes, all
<1>4. /\ q \in Procs /\ q.open = p.open /\ q.pc = p.pc /\ q.asciiWasOn = p.asciiWasOn
      /\ q.cached = p.cached /\ q.accepted = p.accepted /\ q.clean = all /\ q.heard = yes
  BY <1>3 DEF Procs
<1>5. /\ host'.opened = host.opened /\ host'.comp = host.comp
      /\ \A i \in Ids \ {sessions[e]} : host'.text[i] = host.text[i]
      /\ Applied(o) => ~host'.text[sessions[e]]
  BY <1>1, <1>2 DEF Hosts
<1> HIDE DEF q
<1> QED
  BY <1>3, <1>4, <1>5
-----------------------------------------------------------------------------
LEMMA PressShows ==
  ASSUME Inv, Views, NEW e \in Engines, Press(e)
  PROVE  Views'
<1> DEFINE old == Preedit(proc[e].cached)
           p   == [proc[e] EXCEPT !.pc = "commit", !.old = old]
<1>1. /\ p \in Procs /\ p.open /\ p.pc = "commit"
      /\ p.asciiWasOn = proc[e].asciiWasOn
  <2>1. proc[e] \in Procs /\ proc[e].open
    BY DEF Press, Idle, Inv, TypeOK
  <2>2. old \in Comps \ {Menu}
    BY <2>1, MenuFacts DEF Procs, Preedit
  <2> HIDE DEF old
  <2> QED
    BY <2>1, <2>2 DEF Procs, Pcs
<1>2. /\ proc[e].open /\ proc[e].pc = "idle" /\ ~rime[e].ascii /\ ~proc[e].asciiWasOn
      /\ ProcessKey(e, Reactions(Comp(e)), p)
      /\ UNCHANGED <<sessions, rime, stale>>
  BY DEF Press, Idle
<1> DEFINE rs == Reactions(Comp(e))
<1>3. /\ \A r \in rs : r.taken \in BOOLEAN /\ r.next \in Comps /\ r.text \in BOOLEAN
      /\ \A r \in rs : ~r.taken => r.next = Comp(e)
  BY <1>2, OpenHas, ReactionTypes DEF Reactions
<1> HIDE DEF p, rs
<1>4. PICK q \in Procs :
         /\ proc' = [proc EXCEPT ![e] = q]
         /\ q.open = p.open /\ q.pc = p.pc /\ q.asciiWasOn = p.asciiWasOn
         /\ Told(q, rs, host'.comp[sessions[e]])
  BY <1>1, <1>2, <1>3, ProcessKeyGives DEF rs
<1>5. /\ host'.opened = host.opened
      /\ \A i \in Ids \ {sessions[e]} :
            host'.comp[i] = host.comp[i] /\ host'.text[i] = host.text[i]
  BY <1>1, <1>2, <1>3, ProcessKeyGives DEF rs
<1>6. InChinese(q, rime'[e]) /\ Collects(q, host'.text[sessions[e]])
  BY <1>1, <1>2, <1>4 DEF InChinese, Collects
<1>7. ASSUME e \notin stale'
      PROVE  Agrees(q, rime'[e], host'.comp[sessions[e]])
  <2>1. rime[e].input = Comp(e) /\ rime[e].ascii = proc[e].asciiWasOn
    BY <1>2, <1>7 DEF Views, Truthful, Agrees
  <2>2. q.clean /\ ~q.accepted => host'.comp[sessions[e]] = Comp(e)
    BY <1>3, <1>4 DEF Told
  <2> QED
    BY <1>1, <1>2, <1>4, <2>1, <2>2 DEF Agrees, Toggling, Styles
<1> QED
  BY <1>1, <1>2, <1>4, <1>5, <1>6, <1>7, ViewStep

LEMMA SyncCommitShows ==
  ASSUME Inv, Views, NEW e \in Engines, SyncCommit(e), proc[e].open
  PROVE  Views'
<1> DEFINE p == [proc[e] EXCEPT !.pc = "context"]
<1>1. /\ p \in Procs /\ p.open /\ p.pc = "context"
      /\ p.asciiWasOn = proc[e].asciiWasOn
      /\ p.clean = proc[e].clean /\ p.accepted = proc[e].accepted
  BY DEF Inv, TypeOK, Procs, Pcs
<1>2. proc[e].pc = "commit" /\ GetCommit(e, p) /\ UNCHANGED <<sessions, rime, stale>>
  BY DEF SyncCommit
<1> HIDE DEF p
<1>3. PICK q \in Procs :
         /\ proc' = [proc EXCEPT ![e] = q]
         /\ q.open = p.open /\ q.pc = p.pc /\ q.asciiWasOn = p.asciiWasOn
         /\ q.cached = p.cached /\ q.accepted = p.accepted /\ (q.clean => p.clean)
         /\ host'.text[sessions[e]] => ~q.heard
  BY <1>1, <1>2, GetCommitGives
<1>4. /\ host'.opened = host.opened /\ host'.comp = host.comp
      /\ \A i \in Ids \ {sessions[e]} : host'.text[i] = host.text[i]
  BY <1>1, <1>2, GetCommitGives
<1>5. InChinese(q, rime'[e]) /\ Collects(q, host'.text[sessions[e]])
  BY <1>1, <1>2, <1>3 DEF InChinese, Collects, Views, Truthful
<1>6. e \notin stale' => Agrees(q, rime'[e], host'.comp[sessions[e]])
  BY <1>1, <1>2, <1>3, <1>4 DEF Agrees, Views, Truthful, Comp, Toggling, Styles
<1> QED
  BY <1>1, <1>2, <1>3, <1>4, <1>5, <1>6, ViewStep

\* An answered context is what the user sees, or what he saw before a key that
\* is passed on.
LEMMA SyncContextShows ==
  ASSUME Inv, Views, NEW e \in Engines, SyncContext(e), proc[e].open
  PROVE  Views'
<1>1. PICK o \in Outcomes :
         LET c == IF o = Answered THEN Comp(e) ELSE None
             clean == proc[e].clean /\ o = Answered
         IN /\ proc' = [proc EXCEPT ![e] = [Rest(@) EXCEPT !.cached = c]]
            /\ rime' = IF Passes(e, c) THEN rime ELSE Show(e, c)
            /\ stale' = IF ~clean THEN stale \cup {e}
                        ELSE IF Passes(e, c) THEN stale ELSE stale \ {e}
  BY DEF SyncContext
<1> DEFINE c == IF o = Answered THEN Comp(e) ELSE None
           q == [Rest(proc[e]) EXCEPT !.cached = c]
<1>2. c \in Comps
  BY OpenHas, MenuFacts
<1>3. proc[e].pc = "context" /\ UNCHANGED <<sessions, host>>
  BY DEF SyncContext
<1>4. /\ proc' = [proc EXCEPT ![e] = q]
      /\ (rime' = rime /\ Passes(e, c)) \/ rime' = Show(e, c)
      /\ \A f \in Engines \ {e} : f \in stale' <=> f \in stale
  BY <1>1 DEF Inv, TypeOK
<1>5. ASSUME e \notin stale'
      PROVE  /\ proc[e].clean /\ c = Comp(e)
             /\ \/ rime' = rime /\ Passes(e, c) /\ e \notin stale
                \/ rime' = Show(e, c)
  BY <1>1, <1>5
<1> HIDE DEF c
<1>6. /\ q.open = proc[e].open /\ q.pc = "idle" /\ q.cached = c
      /\ q.asciiWasOn = proc[e].asciiWasOn /\ q.heard = proc[e].heard
  BY <1>2 DEF Inv, TypeOK, Procs, Rest
<1>7. /\ Show(e, c)[e].input = c /\ Show(e, c)[e].ascii = rime[e].ascii
      /\ \A f \in Engines \ {e} : Show(e, c)[f] = rime[f]
  BY DEF Show, Inv, TypeOK, Rimes
<1> HIDE DEF q
<1>8. rime'[e].ascii = rime[e].ascii /\ \A f \in Engines \ {e} : rime'[f] = rime[f]
  BY <1>4, <1>7
<1>9. rime[e].ascii = FALSE /\ proc[e].asciiWasOn = FALSE
  BY <1>3 DEF Views, Truthful, InChinese, Inv, TypeOK, Rimes, Procs
<1>10. InChinese(q, rime'[e]) /\ Collects(q, host'.text[sessions[e]])
  BY <1>3, <1>6 DEF InChinese, Collects, Views, Truthful
<1>11. ASSUME e \notin stale'
       PROVE  Agrees(q, rime'[e], host'.comp[sessions[e]])
  <2>1. rime'[e].input = Comp(e)
    <3>1. CASE rime' = rime /\ Passes(e, c) /\ e \notin stale
      BY <1>3, <1>5, <1>11, <3>1 DEF Views, Truthful, Agrees, Passes
    <3>2. CASE rime' = Show(e, c)
      BY <1>5, <1>7, <1>11, <3>2
    <3> QED
      BY <1>5, <1>11, <3>1, <3>2
  <2>2. q.cached = Comp(e) /\ host'.comp[sessions[e]] = Comp(e)
    BY <1>3, <1>5, <1>6, <1>11 DEF Comp
  <2> QED
    BY <1>6, <1>8, <1>9, <2>1, <2>2 DEF Agrees, Toggling, Styles
<1> QED
  BY <1>3, <1>4, <1>6, <1>8, <1>10, <1>11, ViewStep

\* The second call of a toggle: nothing is left to show.
LEMMA SettleShows ==
  ASSUME Inv, Views, NEW e \in Engines, Settle(e)
  PROVE  Views'
<1> DEFINE p == [Rest(proc[e]) EXCEPT !.cached = None]
<1>1. proc[e].open /\ proc[e].pc \in Toggling
  BY DEF Settle, Styles, Toggling, Inv, Mapped, TypeOK, Procs, Pcs
<1>2. /\ p \in Procs /\ p.open /\ p.pc = "idle" /\ p.cached = None
      /\ p.asciiWasOn = proc[e].asciiWasOn
  BY <1>1, MenuFacts, RestTypes DEF Inv, TypeOK
<1>3. /\ GetCommit(e, p) /\ sessions' = sessions
      /\ stale' = IF proc[e].clean /\ proc'[e].clean THEN stale ELSE stale \cup {e}
      /\ rime' = IF proc[e].pc = "clear" THEN [rime EXCEPT ![e].input = None] ELSE rime
  BY DEF Settle
<1> HIDE DEF p
<1>4. PICK q \in Procs :
         /\ proc' = [proc EXCEPT ![e] = q]
         /\ q.open = p.open /\ q.pc = p.pc /\ q.asciiWasOn = p.asciiWasOn
         /\ q.cached = p.cached /\ q.accepted = p.accepted /\ (q.clean => p.clean)
         /\ host'.text[sessions[e]] => ~q.heard
  BY <1>1, <1>2, <1>3, GetCommitGives
<1>5. /\ host'.opened = host.opened /\ host'.comp = host.comp
      /\ \A i \in Ids \ {sessions[e]} : host'.text[i] = host.text[i]
  BY <1>1, <1>2, <1>3, GetCommitGives
<1>6. /\ rime'[e].ascii = rime[e].ascii
      /\ rime'[e].input = None \/ rime'[e].input = rime[e].input
      /\ \A f \in Engines \ {e} : rime'[f] = rime[f]
  BY <1>3 DEF Inv, TypeOK, Rimes
<1>7. \A f \in Engines \ {e} : f \in stale' <=> f \in stale
  BY <1>3
<1>8. InChinese(q, rime'[e]) /\ Collects(q, host'.text[sessions[e]])
  BY <1>2, <1>4 DEF InChinese, Collects
<1>9. ASSUME e \notin stale'
      PROVE  Agrees(q, rime'[e], host'.comp[sessions[e]])
  <2>1. proc[e].clean /\ e \notin stale
    BY <1>3, <1>9
  <2>2. rime[e].ascii = proc[e].asciiWasOn /\ rime[e].input = None /\ Comp(e) = None
    BY <1>1, <2>1 DEF Views, Truthful, Agrees
  <2> QED
    BY <1>2, <1>4, <1>5, <1>6, <2>2 DEF Agrees, Comp, Toggling, Styles
<1> QED
  BY <1>1, <1>2, <1>3, <1>4, <1>5, <1>6, <1>7, <1>8, <1>9, ViewStep

\* The step leaves e's librime with this mode and input, and no other's changed.
Turned(e, now, left) ==
    /\ rime'[e].ascii = now /\ rime'[e].input = left
    /\ \A f \in Engines \ {e} : rime'[f] = rime[f]

LEMMA TurnedRime ==
  ASSUME Inv, NEW e \in Engines, NEW now, NEW left,
         rime' = [rime EXCEPT ![e] = [ascii |-> now, input |-> left]]
  PROVE  Turned(e, now, left)
  BY DEF Inv, TypeOK, Turned

\* A toggle drops what the host shows, or leaves e stale.  Before it all agree.
LEMMA HandleToggleShows ==
  ASSUME Inv, Views, NEW e \in Engines, Idle(e), ~proc[e].asciiWasOn,
         NEW p, p = [proc[e] EXCEPT !.asciiWasOn = TRUE],
         NEW style, NEW input \in Comps,
         style \in {"commit_code", "clear"} /\ e \notin stale => input = None,
         HandleToggle(e, style, p, input), UNCHANGED <<sessions, lostIds>>
  PROVE  Views'
<1>1. /\ p \in Procs /\ p.open /\ p.pc = "idle" /\ p.asciiWasOn = TRUE
      /\ p.heard = proc[e].heard /\ proc[e].open /\ proc[e].pc = "idle"
  BY DEF Idle, Inv, TypeOK, Procs
<1>2. CASE InlineAscii(e, style, p, input) \/ Noop(e, style, p, input)
  <2>1. PICK q : /\ proc' = [proc EXCEPT ![e] = q]
                 /\ q.open /\ q.pc = "idle" /\ q.heard = proc[e].heard
    <3> DEFINE n == [p EXCEPT !.cached = None]
    <3>1. n.open /\ n.pc = "idle" /\ n.heard = proc[e].heard
      BY <1>1 DEF Procs
    <3>2. proc' = [proc EXCEPT ![e] = p] \/ proc' = [proc EXCEPT ![e] = n]
      BY <1>2 DEF InlineAscii, Noop
    <3> HIDE DEF n
    <3> QED
      BY <1>1, <3>1, <3>2
  <2>2. Turned(e, TRUE, input) /\ stale' = stale \cup {e} /\ host' = host
    BY <1>2, TurnedRime DEF InlineAscii, Noop
  <2>3. InChinese(q, rime'[e]) /\ Collects(q, host'.text[sessions[e]])
    BY <1>1, <2>1, <2>2 DEF InChinese, Collects, Views, Truthful
  <2> QED
    BY <1>1, <2>1, <2>2, <2>3, ViewStep DEF Turned
<1>3. CASE SendEscape(e, style, p, input) \/ SendSpace(e, style, p)
  <2> DEFINE s == [p EXCEPT !.pc = style]
  <2>1. PICK rs \in {Escape(Comp(e)), Space(Comp(e))} : ProcessKey(e, rs, s)
    BY <1>3 DEF SendEscape, SendSpace
  <2>2. /\ \A r \in rs : r.taken \in BOOLEAN /\ r.next \in Comps /\ r.text \in BOOLEAN
        /\ \A r \in rs : r.next = None
    BY <1>1, OpenHas, ReactionTypes DEF Escape, Space, Drops
  <2>3. s \in Procs /\ s.open /\ s.pc = style /\ style \in Toggling /\ s.asciiWasOn = TRUE
    BY <1>1, <1>3 DEF SendEscape, SendSpace, Procs, Pcs, Styles, Toggling
  <2>4. stale' = stale
    BY <1>3 DEF SendEscape, SendSpace
  <2>5. PICK left : Turned(e, TRUE, left) /\ (e \notin stale => left = None)
    BY <1>3, TurnedRime DEF SendEscape, SendSpace
  <2> HIDE DEF s
  <2>6. PICK q \in Procs :
           /\ proc' = [proc EXCEPT ![e] = q]
           /\ q.open = s.open /\ q.pc = s.pc /\ q.asciiWasOn = s.asciiWasOn
           /\ Told(q, rs, host'.comp[sessions[e]])
    BY <1>1, <2>1, <2>2, <2>3, ProcessKeyGives
  <2>7. /\ host'.opened = host.opened
        /\ \A i \in Ids \ {sessions[e]} :
              host'.comp[i] = host.comp[i] /\ host'.text[i] = host.text[i]
    BY <1>1, <2>1, <2>2, <2>3, ProcessKeyGives
  <2>8. InChinese(q, rime'[e]) /\ Collects(q, host'.text[sessions[e]]) /\ q.pc # "none"
    BY <2>3, <2>6 DEF InChinese, Collects, Toggling, Styles
  <2>9. e \notin stale' => Agrees(q, rime'[e], host'.comp[sessions[e]])
    <3>1. rime'[e].ascii = TRUE /\ (e \notin stale => rime'[e].input = None)
      BY <2>5 DEF Turned
    <3>2. q.clean => host'.comp[sessions[e]] = None
      BY <2>2, <2>6 DEF Told
    <3> QED
      BY <2>3, <2>4, <2>6, <3>1, <3>2 DEF Agrees, Toggling, Styles
  <2>10. \A f \in Engines \ {e} : rime'[f] = rime[f] /\ (f \in stale' <=> f \in stale)
    BY <2>4, <2>5 DEF Turned
  <2> QED
    BY <1>1, <2>3, <2>6, <2>7, <2>8, <2>9, <2>10, ViewStep
<1> QED
  BY <1>2, <1>3 DEF HandleToggle

LEMMA SeesShows ==
  ASSUME Inv, Views, NEW e \in Engines, Idle(e), NEW style, NEW now \in BOOLEAN,
         NEW input \in Comps, Sees(e, style, now, input),
         style \in {"commit_code", "clear"} /\ e \notin stale => input = None,
         e \notin stale => now # rime[e].ascii /\ input \in {None, rime[e].input},
         UNCHANGED <<sessions, lostIds>>
  PROVE  Views'
<1> DEFINE p == [proc[e] EXCEPT !.asciiWasOn = now]
<1>1. /\ p \in Procs /\ p.open /\ p.pc = "idle" /\ p.asciiWasOn = now
      /\ p.cached = proc[e].cached /\ p.heard = proc[e].heard
      /\ proc[e].open /\ proc[e].pc = "idle" /\ proc[e].asciiWasOn \in BOOLEAN
  BY DEF Idle, Inv, TypeOK, Procs
<1>2. CASE now /\ ~proc[e].asciiWasOn /\ proc[e].cached # None
  <2>1. HandleToggle(e, style, p, input) /\ now = TRUE
    BY <1>2 DEF Sees
  <2> QED
    BY <1>2, <2>1, HandleToggleShows
<1>3. CASE ~(now /\ ~proc[e].asciiWasOn /\ proc[e].cached # None)
  <2>1. /\ proc' = [proc EXCEPT ![e] = p]
        /\ rime' = [rime EXCEPT ![e] = [ascii |-> now, input |-> input]]
        /\ host' = host /\ stale' = stale
    BY <1>3 DEF Sees
  <2>2. /\ rime'[e].ascii = now /\ rime'[e].input = input
        /\ \A f \in Engines \ {e} : rime'[f] = rime[f]
    BY <2>1 DEF Inv, TypeOK
  <2> HIDE DEF p
  <2>3. InChinese(p, rime'[e]) /\ Collects(p, host'.text[sessions[e]])
    BY <1>1, <2>1 DEF InChinese, Collects, Views, Truthful
  <2>4. ASSUME e \notin stale'
        PROVE  Agrees(p, rime'[e], host'.comp[sessions[e]])
    <3>1. /\ rime[e].ascii = proc[e].asciiWasOn /\ rime[e].input = Comp(e)
          /\ proc[e].cached = Comp(e) /\ (rime[e].ascii => Comp(e) = None)
      BY <1>1, <2>1, <2>4 DEF Views, Truthful, Agrees
    <3>2. now = ~rime[e].ascii /\ rime[e].ascii \in BOOLEAN
      BY <2>1, <2>4 DEF Inv, TypeOK, Rimes
    <3>3. Comp(e) = None
      BY <1>3, <3>1, <3>2
    <3>4. input = None /\ p.cached = None /\ host'.comp[sessions[e]] = None
      BY <1>1, <2>1, <2>4, <3>1, <3>3 DEF Comp
    <3> QED
      BY <1>1, <2>2, <3>4 DEF Agrees, Toggling, Styles
  <2> QED
    BY <1>1, <2>1, <2>2, <2>3, <2>4, ViewStep
<1> QED
  BY <1>2, <1>3

LEMMA ToggleShows ==
  ASSUME Inv, Views, NEW e \in Engines, NEW style \in Styles, Toggle(e, style)
  PROVE  Views'
<1>1. (~rime[e].ascii) \in BOOLEAN /\ rime[e].ascii \in BOOLEAN
  BY DEF Inv, TypeOK, Rimes
<1>2. /\ Composed(style, rime[e].input) \in Comps
      /\ Composed(style, rime[e].input) \in {None, rime[e].input}
      /\ style \in {"commit_code", "clear"} => Composed(style, rime[e].input) = None
  BY MenuFacts DEF Inv, TypeOK, Rimes, Composed
<1> QED
  BY <1>1, <1>2, SeesShows DEF Toggle

\* A key is swallowed only where librime and the processor differ already.
LEMMA SwallowShows ==
  ASSUME Inv, Views, NEW e \in Engines, NEW style, Swallow(e, style)
  PROVE  Views'
<1>1. rime[e].ascii \in BOOLEAN /\ rime[e].input \in Comps
  BY DEF Inv, TypeOK, Rimes
<1>2. e \in stale
  BY DEF Swallow, Idle, Views, Truthful, Agrees
<1> QED
  BY <1>1, <1>2, SeesShows DEF Swallow

LEMMA MenuToggleShows ==
  ASSUME Inv, Views, NEW e \in Engines, MenuToggle(e) \/ InlineEnds(e)
  PROVE  Views'
<1>1. /\ proc' = proc /\ sessions' = sessions /\ host' = host
      /\ stale' = stale \cup {e} /\ proc[e].open /\ proc[e].pc = "idle"
      /\ \A f \in Engines \ {e} : rime'[f] = rime[f]
  BY DEF MenuToggle, InlineEnds, Idle, Inv, TypeOK
<1>2. proc' = [proc EXCEPT ![e] = proc[e]]
  BY <1>1 DEF Inv, TypeOK
<1>3. InChinese(proc[e], rime'[e]) /\ Collects(proc[e], host.text[sessions[e]])
  BY <1>1 DEF InChinese, Collects, Views, Truthful
<1> QED
  BY <1>1, <1>2, <1>3, ViewStep
-----------------------------------------------------------------------------
\* Host k is h with nothing in the sessions of S.
Cleared(h, k, S) ==
    /\ k.opened = h.opened
    /\ \A i \in Ids \ S : k.comp[i] = h.comp[i] /\ k.text[i] = h.text[i]
    /\ \A i \in Ids \cap S : k.comp[i] = None /\ k.text[i] = FALSE

LEMMA ClosedShows ==
  ASSUME NEW h \in Hosts, NEW S
  PROVE  Cleared(h, Closed(h, S), S)
<1> DEFINE c == [i \in Ids |-> IF i \in S THEN None ELSE h.comp[i]]
           t == [i \in Ids |-> i \notin S /\ h.text[i]]
           k == Closed(h, S)
<1>1. k.comp = c /\ k.text = t /\ k.opened = h.opened
  BY DEF Closed, Hosts
<1>2. \A i \in Ids \ S : c[i] = h.comp[i] /\ t[i] = h.text[i]
  BY DEF Hosts
<1>3. \A i \in Ids \cap S : c[i] = None /\ t[i] = FALSE
  OBVIOUS
<1> HIDE DEF c, t, k
<1> QED
  BY <1>1, <1>2, <1>3 DEF Cleared, k

LEMMA ClosedEmpty ==
  ASSUME Inv, Views, NEW S, host' = Closed(host, S)
  PROVE  \A i \in Ids : i > host'.opened => host'.comp[i] = None /\ ~host'.text[i]
<1>1. host \in Hosts
  BY DEF Inv, TypeOK
<1>2. Cleared(host, host', S)
  BY <1>1, ClosedShows
<1> QED
  BY <1>2 DEF Views, Untouched, Cleared

\* Views when e's processor comes or goes: the others and their sessions stay.
LEMMA LifeStep ==
  ASSUME Inv, Views, NEW e \in Engines, NEW q, proc' = [proc EXCEPT ![e] = q],
         \A f \in Engines \ {e} :
            /\ rime'[f] = rime[f] /\ (f \in stale' <=> f \in stale)
            /\ sessions'[f] = sessions[f]
            /\ proc[f].open => /\ host'.comp[sessions[f]] = host.comp[sessions[f]]
                               /\ host'.text[sessions[f]] = host.text[sessions[f]],
         q.pc = "none" => rime'[e].input = None,
         \A i \in Ids : i > host'.opened => host'.comp[i] = None /\ ~host'.text[i],
         q.open => /\ InChinese(q, rime'[e])
                   /\ Agrees(q, rime'[e], host'.comp[sessions'[e]])
                   /\ Collects(q, host'.text[sessions'[e]])
  PROVE  Views'
<1>1. proc'[e] = q /\ \A f \in Engines \ {e} : proc'[f] = proc[f]
  BY DEF Inv, TypeOK
<1>2. ASSUME NEW f \in Engines, proc'[f].open
      PROVE  /\ InChinese(proc'[f], rime'[f])
             /\ f \notin stale' => Agrees(proc'[f], rime'[f], Comp(f)')
             /\ Collects(proc'[f], host'.text[sessions'[f]])
  <2>1. CASE f = e
    BY <1>1, <1>2, <2>1 DEF Comp
  <2>2. CASE f # e
    BY <1>1, <1>2, <2>2 DEF Views, Truthful, Comp
  <2> QED
    BY <2>1, <2>2
<1>3. \A f \in Engines : proc'[f].pc = "none" => rime'[f].input = None
  BY <1>1 DEF Views, Untouched
<1> QED
  BY <1>2, <1>3 DEF Views, Truthful, Untouched

LEMMA CreateShows ==
  ASSUME Inv, Views, NEW e \in Engines, Create(e)
  PROVE  Views'
<1> DEFINE id == host.opened + 1
<1>1. sessions[e] = NoId /\ ~HasSession(e) /\ proc[e].pc = "none"
  BY DEF Create, Inv, Mapped, HasSession
<1>2. id \in Ids /\ id > host.opened /\ host.opened \in Nat
  BY <1>1, RemoteAssumption DEF Create, Inv, TypeOK, Hosts, Ids
<1>3. PICK o \in Outcomes :
         /\ host' = IF ~Applied(o) THEN host ELSE Opened(host, id)
         /\ sessions' = IF o = Answered THEN [sessions EXCEPT ![e] = id] ELSE sessions
         /\ proc' = [proc EXCEPT ![e] = [NoProc EXCEPT !.pc = "idle",
                                                       !.open = (o = Answered),
                                                       !.asciiWasOn = rime[e].ascii]]
  BY <1>1 DEF Create
<1> DEFINE b == (o = Answered)
           q == [NoProc EXCEPT !.pc = "idle", !.open = b, !.asciiWasOn = rime[e].ascii]
<1>4. /\ q.pc = "idle" /\ q.open = b /\ q.asciiWasOn = rime[e].ascii
      /\ q.cached = None /\ q.heard
  BY DEF NoProc
<1>5. rime' = rime /\ stale' = stale /\ rime[e].input = None
  BY <1>1 DEF Create, Views, Untouched
<1>6. host'.comp = host.comp /\ host'.text = host.text /\ host'.opened >= host.opened
  <2>1. host' = host \/ host' = [host EXCEPT !.opened = id, !.live = @ \cup {id}]
    BY <1>3 DEF Opened
  <2>2. host \in Hosts
    BY DEF Inv, TypeOK
  <2> HIDE DEF id
  <2>3. CASE host' = [host EXCEPT !.opened = id, !.live = @ \cup {id}]
    <3>1. host'.comp = host.comp /\ host'.text = host.text /\ host'.opened = id
      BY <2>2, <2>3 DEF Hosts
    <3> QED
      BY <1>2, <3>1 DEF id
  <2> QED
    BY <1>2, <2>1, <2>3
<1>7. /\ b => sessions'[e] = id
      /\ \A f \in Engines \ {e} : sessions'[f] = sessions[f]
  BY <1>3 DEF Inv, TypeOK
<1>8. host.comp[id] = None /\ ~host.text[id]
  BY <1>2 DEF Views, Untouched
<1>9. proc' = [proc EXCEPT ![e] = q]
  BY <1>3
<1>10. \A i \in Ids : i > host'.opened => host'.comp[i] = None /\ ~host'.text[i]
  <2>1. host'.opened \in Nat /\ Ids \subseteq Nat
    BY <1>2, <1>3 DEF Opened, Ids, Inv, TypeOK, Hosts
  <2> QED
    BY <1>2, <1>6, <2>1 DEF Views, Untouched
<1> HIDE DEF id, q, b
<1>11. q.open => /\ InChinese(q, rime'[e])
                 /\ Agrees(q, rime'[e], host'.comp[sessions'[e]])
                 /\ Collects(q, host'.text[sessions'[e]])
  BY <1>4, <1>5, <1>6, <1>7, <1>8
     DEF InChinese, Agrees, Collects, Toggling, Styles
<1> QED
  BY <1>4, <1>5, <1>6, <1>7, <1>9, <1>10, <1>11, LifeStep

LEMMA DestroyShows ==
  ASSUME Inv, Views, NEW e \in Engines, Destroy(e)
  PROVE  Views'
<1>1. /\ proc' = [proc EXCEPT ![e] = NoProc]
      /\ rime'[e] = NoRime /\ \A f \in Engines \ {e} : rime'[f] = rime[f]
      /\ \A f \in Engines \ {e} : f \in stale' <=> f \in stale
  BY DEF Destroy, Inv, TypeOK
<1>2. \A f \in Engines \ {e} : sessions'[f] = sessions[f]
  BY DEF Destroy, Erase, Inv, TypeOK
<1>3. host' = host \/ host' = Closed(host, {sessions[e]})
  <2>1. CASE proc[e].open
    BY <2>1 DEF Destroy
  <2>2. CASE ~proc[e].open
    BY <2>2 DEF Destroy
  <2> QED
    BY <2>1, <2>2
<1>4. \A f \in Engines \ {e} : proc[f].open =>
         /\ host'.comp[sessions[f]] = host.comp[sessions[f]]
         /\ host'.text[sessions[f]] = host.text[sessions[f]]
  <2> SUFFICES ASSUME NEW f \in Engines \ {e}, proc[f].open
               PROVE  /\ host'.comp[sessions[f]] = host.comp[sessions[f]]
                      /\ host'.text[sessions[f]] = host.text[sessions[f]]
    OBVIOUS
  <2>1. sessions[f] \in Ids /\ sessions[f] # sessions[e] /\ host \in Hosts
    BY OpenHas DEF Inv, TypeOK, Mapped, OneToOne
  <2>2. CASE host' = Closed(host, {sessions[e]})
    <3>1. Cleared(host, host', {sessions[e]})
      BY <2>1, <2>2, ClosedShows
    <3> QED
      BY <2>1, <3>1 DEF Cleared
  <2> QED
    BY <1>3, <2>2
<1>5. \A i \in Ids : i > host'.opened => host'.comp[i] = None /\ ~host'.text[i]
  BY <1>3, ClosedEmpty DEF Views, Untouched
<1> QED
  BY <1>1, <1>2, <1>4, <1>5, NoneTypes, LifeStep

LEMMA ShutdownShows ==
  ASSUME Inv, Views, Shutdown
  PROVE  Views'
<1>1. /\ proc' = [e \in Engines |-> NoProc] /\ rime' = [e \in Engines |-> NoRime]
      /\ \E S : host' = Closed(host, S)
  BY DEF Shutdown
<1>2. Truthful'
  BY <1>1, NoneTypes DEF Truthful
<1>3. Untouched'
  BY <1>1, NoneTypes, ClosedEmpty DEF Untouched
<1> QED
  BY <1>2, <1>3 DEF Views
-----------------------------------------------------------------------------
LEMMA ViewsNext == Inv /\ Views /\ [Next]_vars => Views'
<1> SUFFICES ASSUME Inv, Views, [Next]_vars PROVE Views'
  OBVIOUS
<1>1. CASE \E e \in Engines : Create(e) \/ Destroy(e)
  BY <1>1, CreateShows, DestroyShows
<1>2. ASSUME NEW e \in Engines, Cycle(e)
      PROVE  Views'
  <2>1. CASE Press(e)
    BY <2>1, PressShows
  <2>2. CASE SyncCommit(e)
    BY <2>2, SyncCommitShows DEF SyncCommit, Inv, Mapped
  <2>3. CASE SyncContext(e)
    BY <2>3, SyncContextShows DEF SyncContext, Inv, Mapped
  <2>4. CASE Settle(e)
    BY <2>4, SettleShows
  <2>5. CASE \E style \in Styles : Toggle(e, style)
    BY <2>5, ToggleShows
  <2>6. CASE \E style \in Styles \cup {"noop"} : Swallow(e, style)
    BY <2>6, SwallowShows
  <2>7. CASE MenuToggle(e) \/ InlineEnds(e)
    BY <2>7, MenuToggleShows
  <2> QED
    BY <1>2, <2>1, <2>2, <2>3, <2>4, <2>5, <2>6, <2>7 DEF Cycle
<1>3. CASE Shutdown
  BY <1>3, ShutdownShows
<1>4. CASE UNCHANGED vars
  BY <1>4 DEF vars, Views, Truthful, Untouched, Comp
<1> QED
  BY <1>1, <1>2, <1>3, <1>4 DEF Next

LEMMA ViewsInvariance == Spec => []Views
  BY InitViews, ViewsNext, Invariance, PTL DEF Spec
-----------------------------------------------------------------------------

\* Every variable keeps its type, whatever the calls answer.
THEOREM RemoteTypes == Spec => []TypeOK
<1>1. Inv => TypeOK
  BY DEF Inv
<1> QED
  BY <1>1, Invariance, PTL

\* grpc_session_open means a live session that no other engine has.
THEOREM OpenMeansUsable == Spec => []SessionUsable
<1>1. Inv => SessionUsable
  BY DEF Inv, Mapped, OneToOne, SessionUsable, HasSession
<1> QED
  BY <1>1, Invariance, PTL

\* Only a failed open or destroy leaves a session at the host that nobody has.
THEOREM NothingLeaks == Spec => []NoLeak
<1>1. Inv => NoLeak
  BY DEF Inv
<1> QED
  BY <1>1, Invariance, PTL

\* Between two keys librime shows the composition of the host, unless a failed
\* call, an inline ascii mode or a menu toggle excuses the engine: the cached
\* context, librime's input and the host's composition move together through every
\* key, toggle and restart, of however many engines.
THEOREM SameShown == Spec => []Shown
<1>1. Views => Shown
  BY DEF Views, Truthful, Agrees, Shown, Idle
<1> QED
  BY <1>1, ViewsInvariance, PTL

\* Text stays uncollected at the host only after a GetCommit that failed, whatever
\* became of the key that committed it.
THEOREM TextDrained == Spec => []Drained
<1>1. Views => Drained
  BY DEF Views, Truthful, Collects, Drained, Idle
<1> QED
  BY <1>1, ViewsInvariance, PTL
-----------------------------------------------------------------------------
(* A key is typed twice only after a cut-off answer.                       *)

\* Without cut-off answers a key that committed text was accepted, and the engine
\* knows it; nothing of it is left over for the next key.
Uncut == "cut" \notin Faults

Heeded(p) ==
    /\ p.pc \in {"none", "idle"} => ~p.wrote
    /\ p.pc \in {"commit", "context"} /\ p.wrote => p.accepted

AllHeeded == \A e \in Engines : Heeded(proc[e])

\* What the host does with a key that it does not take.
Honest(rs) ==
    \A r \in rs : /\ r.taken \in BOOLEAN /\ r.next \in Comps /\ r.text \in BOOLEAN
                  /\ r.text => r.taken

LEMMA ReactionsHonest ==
  ASSUME NEW c \in Comps
  PROVE  Honest(Reactions(c)) /\ Honest(Escape(c)) /\ Honest(Space(c))
<1>1. Honest(Reactions(c))
  BY DEF Reactions, Honest
<1> QED
  BY <1>1 DEF Honest, Escape, Space, Drops

LEMMA OneHeeded ==
  ASSUME TypeOK, AllHeeded, NEW e \in Engines, NEW q, Heeded(q),
         proc' = [proc EXCEPT ![e] = q]
  PROVE  AllHeeded'
<1>1. \A f \in Engines : proc'[f] = IF f = e THEN q ELSE proc[f]
  BY DEF TypeOK
<1> QED
  BY <1>1 DEF AllHeeded, Heeded

LEMMA ProcessKeyHeeds ==
  ASSUME Uncut, TypeOK, AllHeeded, NEW e \in Engines, NEW p \in Procs,
         ~p.wrote, p.pc \notin {"none", "idle"},
         NEW rs, Honest(rs), ProcessKey(e, rs, p)
  PROVE  AllHeeded'
<1>1. PICK o \in Outcomes, r \in rs :
         IF Applied(o)
         THEN /\ host' = [host EXCEPT !.comp[sessions[e]] = r.next,
                                      !.text[sessions[e]] = @ \/ r.text]
              /\ proc' = [proc EXCEPT ![e] =
                             [p EXCEPT !.accepted = (o = Answered /\ r.taken),
                                       !.clean = (o = Answered),
                                       !.wrote = r.text]]
         ELSE /\ UNCHANGED host
              /\ proc' = [proc EXCEPT ![e] = [p EXCEPT !.clean = FALSE]]
  BY DEF ProcessKey
<1>2. CASE Applied(o)
  <2> DEFINE yes  == (o = Answered)
             took == (o = Answered /\ r.taken)
             q    == [p EXCEPT !.accepted = took, !.clean = yes, !.wrote = r.text]
  <2>1. o = Answered
    BY <1>2, RemoteAssumption DEF Uncut, Outcomes, Applied, FaultKinds
  <2>2. yes \in BOOLEAN /\ took \in BOOLEAN
    OBVIOUS
  <2>6. r.text => took
    <3>1. r.text => r.taken
      BY DEF Honest
    <3> QED
      BY Zenon, <2>1, <3>1
  <2>3. proc' = [proc EXCEPT ![e] = q]
    BY <1>1, <1>2
  <2> HIDE DEF yes, took
  <2>4. q.pc = p.pc /\ q.accepted = took /\ q.wrote = r.text
    BY DEF Procs
  <2>5. Heeded(q)
    BY <2>6, <2>4 DEF Heeded
  <2> HIDE DEF q
  <2> QED
    BY <2>3, <2>5, OneHeeded
<1>3. CASE ~Applied(o)
  <2> DEFINE q == [p EXCEPT !.clean = FALSE]
  <2>1. proc' = [proc EXCEPT ![e] = q]
    BY <1>1, <1>3
  <2>2. q.pc = p.pc /\ q.wrote = p.wrote
    BY DEF Procs
  <2>3. Heeded(q)
    BY <2>2 DEF Heeded
  <2> HIDE DEF q
  <2> QED
    BY <2>1, <2>3, OneHeeded
<1> QED
  BY <1>2, <1>3

LEMMA GetCommitHeeds ==
  ASSUME TypeOK, AllHeeded, NEW e \in Engines, NEW p \in Procs, Heeded(p), GetCommit(e, p)
  PROVE  AllHeeded'
<1>1. PICK o \in Outcomes :
         proc' = [proc EXCEPT ![e] = [p EXCEPT !.clean = @ /\ (o = Answered),
                                               !.heard = (o = Answered)]]
  BY DEF GetCommit
<1> DEFINE clean == p.clean /\ (o = Answered)
           heard == (o = Answered)
           q     == [p EXCEPT !.clean = clean, !.heard = heard]
<1>2. proc' = [proc EXCEPT ![e] = q]
  BY <1>1
<1>3. q.pc = p.pc /\ q.wrote = p.wrote /\ q.accepted = p.accepted
  BY DEF Procs
<1>4. Heeded(q)
  BY <1>3 DEF Heeded
<1> HIDE DEF q
<1> QED
  BY <1>2, <1>4, OneHeeded

LEMMA SeesHeeds ==
  ASSUME Uncut, Inv, AllHeeded, NEW e \in Engines, Idle(e), NEW style,
         NEW now \in BOOLEAN, NEW input, Sees(e, style, now, input)
  PROVE  AllHeeded'
<1> DEFINE p == [proc[e] EXCEPT !.asciiWasOn = now]
<1>1. p \in Procs /\ p.pc = "idle" /\ ~p.wrote
  BY DEF Idle, Inv, TypeOK, Procs, AllHeeded, Heeded
<1>2. HandleToggle(e, style, p, input) \/ proc' = [proc EXCEPT ![e] = p]
  BY DEF Sees
<1> HIDE DEF p
<1>3. Heeded(p)
  BY <1>1 DEF Heeded
<1>4. CASE proc' = [proc EXCEPT ![e] = p]
  BY <1>3, <1>4, OneHeeded DEF Inv
<1>5. CASE InlineAscii(e, style, p, input)
  BY <1>3, <1>5, OneHeeded DEF InlineAscii, Inv
<1>6. CASE SendEscape(e, style, p, input) \/ SendSpace(e, style, p)
  <2> DEFINE s == [p EXCEPT !.pc = style]
  <2>1. PICK rs \in {Escape(Comp(e)), Space(Comp(e))} : ProcessKey(e, rs, s)
    BY <1>6 DEF SendEscape, SendSpace
  <2>2. Honest(rs)
    BY OpenHas, ReactionsHonest DEF Idle
  <2>3. s \in Procs /\ s.pc \notin {"none", "idle"} /\ ~s.wrote
    BY <1>1, <1>6 DEF SendEscape, SendSpace, Procs, Pcs, Styles
  <2> HIDE DEF s
  <2> QED
    BY <2>1, <2>2, <2>3, ProcessKeyHeeds DEF Inv
<1>7. CASE Noop(e, style, p, input)
  <2> DEFINE q == [p EXCEPT !.cached = None]
  <2>1. q.pc = p.pc /\ q.wrote = p.wrote /\ q.accepted = p.accepted
    BY <1>1 DEF Procs
  <2>2. Heeded(q)
    BY <1>3, <2>1 DEF Heeded
  <2>3. proc' = [proc EXCEPT ![e] = q]
    BY <1>7 DEF Noop
  <2> HIDE DEF q
  <2> QED
    BY <2>2, <2>3, OneHeeded DEF Inv
<1> QED
  BY <1>2, <1>4, <1>5, <1>6, <1>7 DEF HandleToggle

LEMMA CycleHeeds ==
  ASSUME Uncut, Inv, AllHeeded, NEW e \in Engines, Cycle(e)
  PROVE  AllHeeded'
<1>1. proc[e] \in Procs /\ Heeded(proc[e])
  BY DEF Inv, TypeOK, AllHeeded
<1>2. CASE Press(e)
  <2> DEFINE old == Preedit(proc[e].cached)
             s   == [proc[e] EXCEPT !.pc = "commit", !.old = old]
  <2>1. proc[e].open /\ proc[e].pc = "idle" /\ ProcessKey(e, Reactions(Comp(e)), s)
    BY <1>2 DEF Press, Idle
  <2>2. old \in Comps \ {Menu}
    BY <1>1, MenuFacts DEF Procs, Preedit
  <2> HIDE DEF old
  <2>3. s \in Procs /\ s.pc = "commit" /\ ~s.wrote
    BY <1>1, <2>1, <2>2 DEF Procs, Pcs, Heeded
  <2>4. Honest(Reactions(Comp(e)))
    BY <2>1, OpenHas, ReactionsHonest
  <2> HIDE DEF s
  <2> QED
    BY <2>1, <2>3, <2>4, ProcessKeyHeeds DEF Inv
<1>3. CASE SyncCommit(e)
  <2> DEFINE s == [proc[e] EXCEPT !.pc = "context"]
  <2>1. proc[e].pc = "commit" /\ GetCommit(e, s)
    BY <1>3 DEF SyncCommit
  <2>2. s \in Procs /\ s.pc = "context" /\ s.wrote = proc[e].wrote /\ s.accepted = proc[e].accepted
    BY <1>1 DEF Procs, Pcs
  <2>3. Heeded(s)
    BY <1>1, <2>1, <2>2 DEF Heeded
  <2> HIDE DEF s
  <2> QED
    BY <2>1, <2>2, <2>3, GetCommitHeeds DEF Inv
<1>4. CASE SyncContext(e)
  <2>1. PICK c : proc' = [proc EXCEPT ![e] = [Rest(proc[e]) EXCEPT !.cached = c]]
    BY <1>4 DEF SyncContext
  <2> DEFINE q == [Rest(proc[e]) EXCEPT !.cached = c]
  <2>2. q.pc = "idle" /\ q.wrote = FALSE
    BY <1>1 DEF Rest, Procs
  <2>3. Heeded(q)
    BY <2>2 DEF Heeded
  <2> HIDE DEF q
  <2> QED
    BY <2>1, <2>3, OneHeeded DEF Inv, q
<1>5. CASE Settle(e)
  <2> DEFINE s == [Rest(proc[e]) EXCEPT !.cached = None]
  <2>1. GetCommit(e, s)
    BY <1>5 DEF Settle
  <2>2. s \in Procs /\ s.pc = "idle" /\ s.wrote = FALSE
    BY <1>1, MenuFacts DEF Rest, Procs, Pcs
  <2>3. Heeded(s)
    BY <2>2 DEF Heeded
  <2> HIDE DEF s
  <2> QED
    BY <2>1, <2>2, <2>3, GetCommitHeeds DEF Inv
<1>6. CASE \E style \in Styles : Toggle(e, style)
  <2>1. (~rime[e].ascii) \in BOOLEAN
    OBVIOUS
  <2> QED
    BY <1>6, <2>1, SeesHeeds DEF Toggle
<1>7. CASE \E style \in Styles \cup {"noop"} : Swallow(e, style)
  <2>1. rime[e].ascii \in BOOLEAN
    BY DEF Inv, TypeOK, Rimes
  <2> QED
    BY <1>7, <2>1, SeesHeeds DEF Swallow
<1>8. CASE MenuToggle(e) \/ InlineEnds(e)
  BY <1>8 DEF MenuToggle, InlineEnds, AllHeeded, Heeded
<1> QED
  BY <1>2, <1>3, <1>4, <1>5, <1>6, <1>7, <1>8 DEF Cycle

LEMMA NextHeeded == ASSUME Uncut PROVE Inv /\ AllHeeded /\ [Next]_vars => AllHeeded'
<1> SUFFICES ASSUME Inv, AllHeeded, [Next]_vars PROVE AllHeeded'
  OBVIOUS
<1>1. \A b \in BOOLEAN : \A x \in BOOLEAN :
         Heeded([NoProc EXCEPT !.pc = "idle", !.open = b, !.asciiWasOn = x])
  BY DEF Heeded, NoProc
<1>2. Heeded(NoProc)
  BY DEF Heeded, NoProc
<1>3. ASSUME NEW e \in Engines, Create(e)
      PROVE  AllHeeded'
  <2>1. PICK o : proc' = [proc EXCEPT ![e] = [NoProc EXCEPT !.pc = "idle",
                                                          !.open = (o = Answered),
                                                          !.asciiWasOn = rime[e].ascii]]
    BY <1>3 DEF Create
  <2> DEFINE open == (o = Answered)
             q    == [NoProc EXCEPT !.pc = "idle", !.open = open, !.asciiWasOn = rime[e].ascii]
  <2>2. open \in BOOLEAN /\ rime[e].ascii \in BOOLEAN
    BY DEF Inv, TypeOK, Rimes
  <2>3. proc' = [proc EXCEPT ![e] = q]
    BY <2>1
  <2> HIDE DEF open
  <2>4. Heeded(q)
    BY <1>1, <2>2
  <2> HIDE DEF q
  <2> QED
    BY <2>3, <2>4, OneHeeded DEF Inv
<1>4. ASSUME NEW e \in Engines, Destroy(e)
      PROVE  AllHeeded'
  BY <1>2, <1>4, OneHeeded DEF Destroy, Inv
<1>5. ASSUME NEW e \in Engines, Cycle(e)
      PROVE  AllHeeded'
  BY <1>5, CycleHeeds
<1>6. CASE Shutdown
  <2>1. \A e \in Engines : proc'[e] = NoProc
    BY <1>6 DEF Shutdown
  <2> QED
    BY <1>2, <2>1 DEF AllHeeded, Heeded
<1>7. CASE UNCHANGED vars
  BY <1>7 DEF vars, AllHeeded, Heeded
<1> QED
  BY <1>3, <1>4, <1>5, <1>6, <1>7 DEF Next

\* Of ProcessKeyEvent's pass-on rule: a lost call, of ProcessKey or of any later
\* one, never types a key twice; for that its answer must be cut off after the host
\* has acted.  However many engines there are and whatever else they do.
THEOREM UncutKeysOnce == ASSUME Uncut PROVE Spec => KeyOnce
<1>1. Init => AllHeeded
  <2>1. Heeded(NoProc)
    BY DEF Heeded, NoProc
  <2> QED
    BY <2>1 DEF Init, AllHeeded
<1>2. AllHeeded => [\A e \in Engines :
                      /\ proc[e].pc = "context" /\ proc'[e].pc = "idle"
                      /\ Passes(e, proc'[e].cached)
                      => ~(proc[e].wrote /\ proc[e].heard)]_vars
  BY DEF AllHeeded, Heeded, Passes
<1> QED
  BY <1>1, <1>2, NextHeeded, Invariance, PTL DEF Spec, KeyOnce
=============================================================================
