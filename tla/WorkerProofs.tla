---------------------------- MODULE WorkerProofs ----------------------------
(***************************************************************************)
(* Proofs about Worker.tla, for connections with any number of stale lines *)
(* and any number of calls.                                                *)
(*                                                                         *)
(* The inductive invariant has four parts beside the types: the pipe holds *)
(* the one call that the gateway waits for (Pipe), the connection at most  *)
(* one command that is not answered or one answer that is not read         *)
(* (ReplyMatches), what the backend could commit has been shown (Listed),  *)
(* and nothing is fabricated where that is forbidden (Real).               *)
(***************************************************************************)
EXTENDS Worker, SequenceTheorems, TLAPS

Froms      == {"none", "stub", "legacy", "imm", "fake"}
Committeds == {"none", "given", "shown", "unseen"}

-----------------------------------------------------------------------------
(* Types of the operators.                                                 *)

\* A backend's fields in one formula each, to be used instead of the records.
LEMMA MindFields ==
    ASSUME NEW m \in Minds
    PROVE  /\ m.input \in Texts /\ m.comp \in Texts /\ m.list \in Lists /\ m.moved \in BOOLEAN
           /\ m.list.from \in Froms /\ m.list.shown \in BOOLEAN
BY DEF Minds, Lists, Froms

LEMMA MindMoved ==
    ASSUME NEW m \in Minds
    PROVE  Moved(m) \in Minds /\ Moved(m).list = m.list /\ Moved(m).input = m.input
           /\ Moved(m).comp = m.comp
BY DEF Minds, Moved

LEMMA MindShown ==
    ASSUME NEW m \in Minds, NEW b \in BOOLEAN
    PROVE  /\ [m EXCEPT !.list.shown = b] \in Minds
           /\ [m EXCEPT !.list.shown = b].list.from = m.list.from
           /\ [m EXCEPT !.list.shown = b].list.shown = b
BY DEF Minds, Lists

LEMMA BlankType == Blank \in Minds /\ Moved(Blank) \in Minds
                   /\ Moved(Blank).list = NoList /\ Moved(Blank).input = {} /\ NoList \in Lists
BY DEF Blank, Minds, Moved, NoList, Lists, Texts

LEMMA NewType == \A f \in Froms : New(f) \in Lists /\ New(f).from = f /\ ~New(f).shown
BY DEF New, Lists, Froms

LEMMA TypedType ==
    ASSUME NEW t \in Texts, NEW k, NEW x \in Typed(t, k)
    PROVE  x \in Texts
BY DEF Texts, Typed, Own

LEMMA SnappedType ==
    ASSUME NEW t \in Texts, NEW k
    PROVE  Snapped(t, k) \in Texts
BY DEF Texts, Snapped, Own, Bulk

LEMMA ChosenType ==
    ASSUME NEW m \in Minds, NEW by
    PROVE  Chosen(m, by) \in Committeds
BY DEF Chosen, Committeds

LEMMA AnswerType ==
    ASSUME NEW m \in Minds, NEW op \in DOMAIN Args, NEW c \in Committeds
    PROVE  Ok(op, m, c) \in Answers /\ Err(op, m) \in Answers
           /\ Ok(op, m, c).op = op /\ Err(op, m).op = op
BY MindFields DEF Ok, Err, Answers, Texts, Froms, Committeds

-----------------------------------------------------------------------------
(* The inductive invariant.                                                *)

Serving == proc = "busy" /\ leg.op # "boot"

\* Where the backend is in a request, and what the gateway waits for.
LegInv ==
    /\ proc = "busy" => /\ leg.pc # "rest" /\ leg.op # "-"
                        /\ leg.cmd # 0 => leg.op \in {"key", "query"}
                        /\ leg.pc = "reply" => leg.try # 0
    /\ proc \in {"boot", "ready"} => leg.pc = "rest"

Pipe ==
    proc # "gone" =>
        IF asked = NoRequest THEN requests = <<>> /\ answers = <<>> /\ ~Serving
        ELSE \/ requests = <<asked>> /\ answers = <<>> /\ ~Serving
             \/ requests = <<>> /\ answers = <<>> /\ Serving /\ leg.op = asked.op
             \/ requests = <<>> /\ ~Serving /\ \E a \in Answers : answers = <<a>> /\ a.op = asked.op

Listed ==
    /\ proc # "gone" => mind.list = NoList \/ mind.list.shown
    /\ leg.committed # "unseen"
    /\ CommitShown

Real == RealOnly

IInv == TypeOK /\ LegInv /\ Pipe /\ ReplyMatches /\ Listed /\ Real

-----------------------------------------------------------------------------
(* What an answer does.                                                    *)

Fair(m, a) ==
    /\ Shows(a) \/ m.list = NoList \/ m.list.shown
    /\ a.committed # "unseen"
    /\ env.force => m.list.from # "fake" /\ a.from # "fake"

\* What is owed changes with the lines of the connection only.
LEMMA MatchesKept ==
    ASSUME ReplyMatches, conn'.out = conn.out, conn'.in = conn.in, leg' = leg
    PROVE  ReplyMatches'
<1>1. OwedOut' = OwedOut /\ OwedIn' = OwedIn
  BY DEF OwedOut, OwedIn
<1>2. leg'.pc = leg.pc
  OBVIOUS
<1> QED BY <1>1, <1>2 DEF ReplyMatches

LEMMA ReplyResult ==
    ASSUME NEW m \in Minds, NEW a \in Answers, answers \in Seq(Answers), Reply(m, a)
    PROVE  /\ mind' \in Minds /\ answers' \in Seq(Answers) /\ proc' \in {"ready", "gone"}
           /\ mind'.list.from = m.list.from
           /\ proc' = "ready" => answers' = Append(answers, a)
           /\ proc' = "gone" => answers' = answers
           /\ proc' = "ready" /\ Fair(m, a) => mind'.list = NoList \/ mind'.list.shown
<1>1. CASE Fits(a)
  <2> DEFINE b == m.list.shown \/ (Shows(a) /\ m.list # NoList)
  <2>1. b \in BOOLEAN
    OBVIOUS
  <2>2. mind' = [m EXCEPT !.list.shown = b] /\ answers' = Append(answers, a) /\ proc' = "ready"
    BY <1>1 DEF Reply
  <2>3. m.list = NoList \/ b \/ ~Fair(m, a)
    BY DEF Fair
  <2>4. m.list = NoList /\ ~b => [m EXCEPT !.list.shown = b].list = NoList
    BY MindFields DEF Minds, Lists, NoList
  <2> HIDE DEF b
  <2>5. /\ [m EXCEPT !.list.shown = b] \in Minds
        /\ [m EXCEPT !.list.shown = b].list.from = m.list.from
        /\ [m EXCEPT !.list.shown = b].list.shown = b
    BY <2>1, MindShown
  <2> QED BY <2>2, <2>3, <2>4, <2>5
<1>2. CASE ~Fits(a)
  BY <1>2, MindFields DEF Reply
<1> QED BY <1>1, <1>2

\* The request that the worker takes is the one the gateway waits for.
LEMMA Taken ==
    ASSUME IInv, NEW kind, NEW op, Handles(kind, op)
    PROVE  /\ asked # NoRequest /\ asked.op = op /\ requests = <<asked>> /\ answers = <<>>
           /\ requests' = <<>> /\ proc = "ready"
<1>1. proc = "ready" /\ requests # <<>> /\ Head(requests).op = op /\ requests' = Tail(requests)
  BY DEF Handles
<1>2. asked # NoRequest /\ requests = <<asked>> /\ answers = <<>>
  BY <1>1 DEF IInv, Pipe, Serving
<1>3. Head(<<asked>>) = asked /\ Tail(<<asked>>) = <<>>
  OBVIOUS
<1> QED BY <1>1, <1>2, <1>3

\* A request served in one step, by any backend.
LEMMA AnswersKeep ==
    ASSUME IInv, NEW kind, NEW op \in DOMAIN Args, Handles(kind, op),
           NEW m \in Minds, NEW a \in Answers, a.op = op, Fair(m, a), Reply(m, a),
           env' = env, ime' \in Texts, UNCHANGED <<legacyVars, asked>>
    PROVE  IInv'
<1>0. TypeOK /\ BackendTypeOK /\ answers \in Seq(Answers)
  BY DEF IInv, TypeOK, BackendTypeOK
<1>1. /\ asked # NoRequest /\ asked.op = op /\ answers = <<>> /\ requests' = <<>>
      /\ proc = "ready"
  BY Taken
<1>2. /\ mind' \in Minds /\ answers' \in Seq(Answers) /\ proc' \in {"ready", "gone"}
      /\ mind'.list.from = m.list.from
      /\ proc' = "ready" => answers' = <<a>> /\ (mind'.list = NoList \/ mind'.list.shown)
      /\ proc' = "gone" => answers' = <<>>
  BY <1>0, <1>1, ReplyResult
<1>3. TypeOK'
  BY <1>0, <1>1, <1>2 DEF TypeOK, BackendTypeOK, LegacyTypeOK, legacyVars
<1>4. LegInv' /\ Pipe'
  BY <1>1, <1>2 DEF IInv, LegInv, Pipe, Serving, legacyVars
<1>5. ReplyMatches'
  <2>1. conn' = conn /\ leg' = leg
    BY DEF legacyVars
  <2> QED BY <2>1, MatchesKept DEF IInv
<1>6. Listed'
  BY <1>1, <1>2 DEF IInv, Listed, CommitShown, Fair, legacyVars
<1>7. Real'
  BY <1>1, <1>2 DEF IInv, Real, RealOnly, Fair
<1> QED BY <1>3, <1>4, <1>5, <1>6, <1>7 DEF IInv

\* A request that the legacy backend starts to serve.
LEMMA StartsKeep ==
    ASSUME IInv, NEW op \in {"key", "query", "commit", "reset"}, Handles("legacy_tcp", op),
           NEW m \in Minds, m.list = NoList \/ m.list.shown, env.force => m.list.from # "fake",
           NEW cmd \in 0 .. 1, cmd # 0 => op \in {"key", "query"}, NEW try \in 0 .. 1, NEW c \in Committeds, c # "unseen",
           Starts(op, m, cmd, try, c), UNCHANGED <<env, ime, conn, old, asked>>
    PROVE  IInv'
<1>0. TypeOK /\ BackendTypeOK /\ LegacyTypeOK
  BY DEF IInv, TypeOK
<1>1. /\ asked # NoRequest /\ asked.op = op /\ answers = <<>> /\ requests' = <<>>
      /\ proc = "ready"
  BY Taken
<1>2. /\ leg' = [pc |-> "prepare", op |-> op, cmd |-> cmd, try |-> try, comp |-> m.input, committed |-> c]
      /\ mind' = m /\ proc' = "busy" /\ answers' = <<>>
  BY <1>1 DEF Starts
<1>3. leg' \in Legs
  BY <1>2, MindFields DEF Legs, LegPcs, LegOps, Committeds
<1>4. TypeOK'
  BY <1>0, <1>1, <1>2, <1>3 DEF TypeOK, BackendTypeOK, LegacyTypeOK
<1>5. LegInv' /\ Pipe'
  BY <1>1, <1>2 DEF IInv, LegInv, Pipe, Serving
<1>6. ReplyMatches'
  BY <1>1, <1>2 DEF IInv, LegInv, ReplyMatches, OwedOut, OwedIn
<1>7. Listed' /\ Real'
  BY <1>2 DEF IInv, Listed, CommitShown, Real, RealOnly
<1> QED BY <1>4, <1>5, <1>6, <1>7 DEF IInv

-----------------------------------------------------------------------------
(* The lines of the connection.                                            *)

Conns == [st : {"none", "queued", "served", "closed"}, activated : BOOLEAN,
          out : Seq(Lines), in : Seq(Replies), clean : BOOLEAN]

CmdNames == {"RESET", "TYPE", "CAND"}
RepNames == {"OK RESET", "ERR", "CAND_RET"}
Cmds(q)  == {i \in DOMAIN q : q[i].cmd \in CmdNames}
Reps(q)  == {i \in DOMAIN q : q[i].re \in RepNames}

\* Nothing is owed; at most one answer is.
Idle(c) == Cmds(c.out) = {} /\ Reps(c.in) = {}
One(c)  == /\ Cmds(c.out) = {} \/ Reps(c.in) = {}
           /\ \A i, j \in Cmds(c.out) : i = j
           /\ \A i, j \in Reps(c.in) : i = j

LEMMA MatchesIs == ReplyMatches <=> One(conn) /\ (~Idle(conn) => leg.pc = "reply")
BY DEF ReplyMatches, OwedOut, OwedIn, One, Idle, Cmds, Reps, CmdNames, RepNames

LEMMA MatchesIsNext == ReplyMatches' <=> One(conn') /\ (~Idle(conn') => leg'.pc = "reply")
BY DEF ReplyMatches, OwedOut, OwedIn, One, Idle, Cmds, Reps, CmdNames, RepNames

LEMMA IdleIsOne == ASSUME NEW c, Idle(c) PROVE One(c)
BY DEF Idle, One

LEMMA ConnFields ==
    ASSUME NEW c \in Conns
    PROVE  /\ c.out \in Seq(Lines) /\ c.in \in Seq(Replies)
           /\ c.st \in {"none", "queued", "served", "closed"}
           /\ c.activated \in BOOLEAN /\ c.clean \in BOOLEAN
BY DEF Conns

LEMMA ConnOut ==
    ASSUME NEW c \in Conns, NEW q \in Seq(Lines)
    PROVE  /\ [c EXCEPT !.out = q] \in Conns
           /\ [c EXCEPT !.out = q].out = q /\ [c EXCEPT !.out = q].in = c.in
BY DEF Conns

LEMMA ConnQueued ==
    ASSUME NEW c \in Conns, NEW q \in Seq(Lines)
    PROVE  /\ [c EXCEPT !.st = "queued", !.out = q] \in Conns
           /\ [c EXCEPT !.st = "queued", !.out = q].out = q
           /\ [c EXCEPT !.st = "queued", !.out = q].in = c.in
BY DEF Conns

LEMMA ConnIn ==
    ASSUME NEW c \in Conns, NEW q \in Seq(Replies)
    PROVE  /\ [c EXCEPT !.in = q] \in Conns
           /\ [c EXCEPT !.in = q].in = q /\ [c EXCEPT !.in = q].out = c.out
BY DEF Conns

LEMMA ConnFlags ==
    ASSUME NEW c \in Conns, NEW b \in BOOLEAN
    PROVE  /\ [c EXCEPT !.activated = b] \in Conns /\ [c EXCEPT !.clean = b] \in Conns
           /\ [c EXCEPT !.activated = b].in = c.in /\ [c EXCEPT !.activated = b].out = c.out
           /\ [c EXCEPT !.clean = b].in = c.in /\ [c EXCEPT !.clean = b].out = c.out
BY DEF Conns

LEMMA LineTypes ==
    /\ Line("ACTIVATE") \in Lines /\ Line("CP") \in Lines /\ Line("RESET") \in Lines
    /\ \A i \in 0 .. 4, t \in Texts : CommandLine(i, t) \in Lines
    /\ Line("ACTIVATE").cmd \notin CmdNames /\ Line("CP").cmd \notin CmdNames
<1>1. \A i \in 1 .. 4 : Commands[i] \in {"TYPE", "CAND"}
  BY DEF Commands
<1> QED BY <1>1 DEF Line, Lines, CommandLine, CmdNames, Texts

LEMMA CmdsAppend ==
    ASSUME NEW q \in Seq(Lines), NEW e \in Lines
    PROVE  /\ e.cmd \notin CmdNames => Cmds(Append(q, e)) = Cmds(q)
           /\ Cmds(q) = {} => \A i, j \in Cmds(Append(q, e)) : i = j
<1> DEFINE p == Append(q, e)
<1>1. /\ Len(q) \in Nat /\ DOMAIN q = 1 .. Len(q) /\ DOMAIN p = 1 .. Len(q) + 1
      /\ p[Len(q) + 1] = e /\ \A i \in 1 .. Len(q) : p[i] = q[i]
  OBVIOUS
<1> HIDE DEF p
<1>2. e.cmd \notin CmdNames => Cmds(p) = Cmds(q)
  BY <1>1 DEF Cmds
<1>3. Cmds(q) = {} => \A i \in Cmds(p) : i = Len(q) + 1
  BY <1>1 DEF Cmds
<1> QED BY <1>2, <1>3 DEF p

LEMMA CmdsTail ==
    ASSUME NEW q \in Seq(Lines), q # <<>>, \A i, j \in Cmds(q) : i = j
    PROVE  /\ \A i, j \in Cmds(Tail(q)) : i = j
           /\ Cmds(q) = {} => Cmds(Tail(q)) = {}
           /\ Head(q).cmd \in CmdNames => Cmds(Tail(q)) = {} /\ Cmds(q) # {}
<1>1. /\ Len(q) \in Nat \ {0} /\ DOMAIN q = 1 .. Len(q) /\ Head(q) = q[1]
      /\ DOMAIN Tail(q) = 1 .. Len(q) - 1 /\ \A i \in 1 .. Len(q) - 1 : Tail(q)[i] = q[i + 1]
  OBVIOUS
<1>2. \A i \in Cmds(Tail(q)) : i + 1 \in Cmds(q) /\ i \in Nat \ {0}
  BY <1>1 DEF Cmds
<1>3. Head(q).cmd \in CmdNames => 1 \in Cmds(q)
  BY <1>1 DEF Cmds
<1>4. \A i, j \in Cmds(Tail(q)) : i = j
  <2> TAKE i, j \in Cmds(Tail(q))
  <2>1. i + 1 = j + 1
    BY <1>2
  <2> QED BY <2>1, <1>2
<1>5. ASSUME Head(q).cmd \in CmdNames, NEW i \in Cmds(Tail(q)) PROVE FALSE
  <2>1. i + 1 = 1
    BY <1>2, <1>3, <1>5
  <2> QED BY <2>1, <1>2
<1> QED BY <1>2, <1>3, <1>4, <1>5

LEMMA RepsAppend ==
    ASSUME NEW q \in Seq(Replies), NEW e \in Replies
    PROVE  /\ e.re \notin RepNames => Reps(Append(q, e)) = Reps(q)
           /\ Reps(q) = {} => \A i, j \in Reps(Append(q, e)) : i = j
<1> DEFINE p == Append(q, e)
<1>1. /\ Len(q) \in Nat /\ DOMAIN q = 1 .. Len(q) /\ DOMAIN p = 1 .. Len(q) + 1
      /\ p[Len(q) + 1] = e /\ \A i \in 1 .. Len(q) : p[i] = q[i]
  OBVIOUS
<1> HIDE DEF p
<1>2. e.re \notin RepNames => Reps(p) = Reps(q)
  BY <1>1 DEF Reps
<1>3. Reps(q) = {} => \A i \in Reps(p) : i = Len(q) + 1
  BY <1>1 DEF Reps
<1> QED BY <1>2, <1>3 DEF p

LEMMA RepsTail ==
    ASSUME NEW q \in Seq(Replies), q # <<>>, \A i, j \in Reps(q) : i = j
    PROVE  /\ \A i, j \in Reps(Tail(q)) : i = j
           /\ Reps(q) = {} => Reps(Tail(q)) = {}
           /\ Head(q).re \in RepNames => Reps(Tail(q)) = {} /\ Reps(q) # {}
<1>1. /\ Len(q) \in Nat \ {0} /\ DOMAIN q = 1 .. Len(q) /\ Head(q) = q[1]
      /\ DOMAIN Tail(q) = 1 .. Len(q) - 1 /\ \A i \in 1 .. Len(q) - 1 : Tail(q)[i] = q[i + 1]
  OBVIOUS
<1>2. \A i \in Reps(Tail(q)) : i + 1 \in Reps(q) /\ i \in Nat \ {0}
  BY <1>1 DEF Reps
<1>3. Head(q).re \in RepNames => 1 \in Reps(q)
  BY <1>1 DEF Reps
<1>4. \A i, j \in Reps(Tail(q)) : i = j
  <2> TAKE i, j \in Reps(Tail(q))
  <2>1. i + 1 = j + 1
    BY <1>2
  <2> QED BY <2>1, <1>2
<1>5. ASSUME Head(q).re \in RepNames, NEW i \in Reps(Tail(q)) PROVE FALSE
  <2>1. i + 1 = 1
    BY <1>2, <1>3, <1>5
  <2> QED BY <2>1, <1>2
<1> QED BY <1>2, <1>3, <1>4, <1>5

\* A line that goes out on a connection that owes nothing.
LEMMA SendLine ==
    ASSUME NEW c \in Conns, Idle(c), NEW line \in Lines
    PROVE  /\ Sent(c, line) \in Conns /\ One(Sent(c, line))
           /\ line.cmd \notin CmdNames => Idle(Sent(c, line))
<1>1. CASE c.st = "closed"
  BY <1>1, IdleIsOne DEF Sent
<1>2. CASE c.st # "closed"
  <2>1. Append(c.out, line) \in Seq(Lines)
    BY ConnFields
  <2>2. /\ Sent(c, line) \in Conns
        /\ Sent(c, line).out = Append(c.out, line) /\ Sent(c, line).in = c.in
    BY <1>2, <2>1, ConnOut DEF Sent
  <2> QED BY <2>2, CmdsAppend, ConnFields DEF Idle, One
<1> QED BY <1>1, <1>2

\* A line that is read.
LEMMA ReadLine ==
    ASSUME NEW c \in Conns, One(c), c.in # <<>>
    PROVE  /\ PastLine(c) \in Conns /\ One(PastLine(c))
           /\ Idle(c) \/ Head(c.in).re \in RepNames => Idle(PastLine(c))
<1>1. Tail(c.in) \in Seq(Replies)
  BY ConnFields
<1>2. PastLine(c) \in Conns /\ PastLine(c).in = Tail(c.in) /\ PastLine(c).out = c.out
  BY <1>1, ConnIn DEF PastLine
<1> QED BY <1>2, RepsTail, ConnFields DEF Idle, One

-----------------------------------------------------------------------------
(* The legacy backend's steps.                                             *)

LEMMA Types ==
    ASSUME IInv
    PROVE  /\ conn \in Conns /\ leg \in Legs /\ mind \in Minds /\ ime \in Texts
           /\ answers \in Seq(Answers) /\ requests \in Seq(Requests) /\ env \in Envs
           /\ old \in Seq(Lines) /\ proc \in {"boot", "ready", "busy", "gone"}
           /\ asked \in Requests \cup {NoRequest}
           /\ One(conn) /\ (leg.pc # "reply" => Idle(conn))
BY MatchesIs DEF IInv, TypeOK, BackendTypeOK, LegacyTypeOK, Conns

LEMMA LegFields ==
    ASSUME NEW l \in Legs
    PROVE  /\ l.pc \in LegPcs /\ l.op \in LegOps /\ l.cmd \in 0 .. 4 /\ l.try \in 0 .. 2
           /\ l.comp \in Texts /\ l.committed \in Committeds
BY DEF Legs, Committeds

\* What all of them leave alone.
BusyStep == Busily /\ UNCHANGED asked

\* A step that goes on: only the connection and the place change.
LEMMA OnKeeps ==
    ASSUME IInv, BusyStep, UNCHANGED <<proc, mind, answers>>,
           conn' \in Conns, One(conn'), old' \in Seq(Lines), leg' \in Legs,
           leg'.pc # "reply" => Idle(conn'), leg'.pc # "rest",
           leg'.op = leg.op, leg'.committed = leg.committed,
           leg'.cmd = leg.cmd \/ leg.cmd # 0, leg'.pc = "reply" => leg'.try # 0
    PROVE  IInv'
<1>1. TypeOK'
  BY DEF IInv, TypeOK, BackendTypeOK, LegacyTypeOK, BusyStep, Busily, Unanswered, Conns
<1>2. LegInv' /\ Pipe'
  BY DEF IInv, LegInv, Pipe, Serving, BusyStep, Busily, Unanswered
<1>3. ReplyMatches'
  BY MatchesIsNext
<1>4. Listed' /\ Real'
  BY DEF IInv, Listed, CommitShown, Real, RealOnly, BusyStep, Busily, Unanswered
<1> QED BY <1>1, <1>2, <1>3, <1>4 DEF IInv

\* A step that ends the request with an answer, or the worker's first reset.
LEMMA EndKeeps ==
    ASSUME IInv, BusyStep, leg' = Rest,
           conn' \in Conns, Idle(conn'), old' \in Seq(Lines),
           \/ \E m \in Minds :
                 /\ EndsOk(m, leg.committed)
                 /\ m.list = mind.list
           \/ /\ leg.cmd # 0
              /\ \/ EndsErr
                 \/ \E m \in Minds : EndsOk(m, "none") /\ m.list.from # "fake"
    PROVE  IInv'
<1>0. /\ env' = env /\ requests' = requests /\ ime' = ime /\ asked' = asked /\ proc = "busy"
      /\ leg.op \in {"boot", "key", "query", "commit", "reset"}
      /\ leg.cmd # 0 => leg.op \in {"key", "query"}
  BY Types, LegFields DEF BusyStep, Busily, Unanswered, IInv, LegInv, LegOps
<1>1. Rest \in Legs
  BY DEF Rest, Legs, LegPcs, LegOps, Texts
<1>2. leg'.pc = "rest" /\ leg'.committed = "none" /\ leg'.op = "-"
  BY DEF Rest
<1>3. ReplyMatches'
  BY MatchesIsNext, IdleIsOne
<1>4. mind.list = NoList \/ mind.list.shown
  BY <1>0 DEF IInv, Listed
<1>5. env.force => mind.list.from # "fake"
  BY DEF IInv, Real, RealOnly
<1>6. ASSUME leg.op = "boot"
      PROVE  IInv'
  <2>1. proc' = "ready" /\ mind' \in Minds /\ mind'.list = mind.list /\ answers' = answers
    BY <1>0, <1>6 DEF EndsOk
  <2>2. TypeOK'
    BY <2>1, <1>0, <1>1 DEF IInv, TypeOK, BackendTypeOK, LegacyTypeOK, Conns
  <2>3. LegInv' /\ Pipe'
    BY <2>1, <1>0, <1>2, <1>6 DEF IInv, LegInv, Pipe, Serving
  <2>4. Listed' /\ Real'
    BY <2>1, <1>0, <1>2, <1>4, <1>5 DEF IInv, Listed, CommitShown, Real, RealOnly
  <2> QED BY <2>2, <2>3, <2>4, <1>3 DEF IInv
<1>7. ASSUME leg.op # "boot"
      PROVE  IInv'
  <2>1. /\ leg.op \in DOMAIN Args /\ asked # NoRequest /\ asked.op = leg.op
        /\ requests = <<>> /\ answers = <<>>
    <3>1. leg.op \in {"key", "query", "commit", "reset"}
      BY <1>0, <1>7
    <3>2. leg.op \in DOMAIN Args
      BY <3>1 DEF Args
    <3> QED BY <3>2, <1>0, <1>7 DEF IInv, Pipe, Serving
  <2>2. PICK m \in Minds, a \in Answers : Reply(m, a) /\ a.op = leg.op /\ Fair(m, a)
    <3>1. leg.committed \in Committeds /\ leg.committed # "unseen" /\ mind \in Minds
      BY Types, LegFields DEF IInv, Listed
    <3>2. ASSUME NEW m \in Minds, EndsOk(m, leg.committed), m.list = mind.list
          PROVE  Reply(m, Ok(leg.op, m, leg.committed)) /\ Fair(m, Ok(leg.op, m, leg.committed))
      BY <3>1, <3>2, <1>4, <1>5, <1>7, <2>1 DEF EndsOk, AnswersOk, Fair, Ok, Shows
    <3>3. ASSUME NEW m \in Minds, EndsOk(m, "none"), m.list.from # "fake", leg.cmd # 0
          PROVE  Reply(m, Ok(leg.op, m, "none")) /\ Fair(m, Ok(leg.op, m, "none"))
      BY <3>3, <1>0, <1>7, <2>1 DEF EndsOk, AnswersOk, Fair, Ok, Shows
    <3>4. ASSUME EndsErr
          PROVE  Reply(mind, Err(leg.op, mind)) /\ Fair(mind, Err(leg.op, mind))
      BY <3>1, <3>4, <1>4, <1>5 DEF EndsErr, AnswersErr, Fair, Err, Shows
    <3>5. "none" \in Committeds
      BY DEF Committeds
    <3>6. \A m \in Minds, c \in Committeds :
             /\ Ok(leg.op, m, c) \in Answers /\ Ok(leg.op, m, c).op = leg.op
             /\ Err(leg.op, m) \in Answers /\ Err(leg.op, m).op = leg.op
      BY <2>1, AnswerType
    <3> QED BY <3>1, <3>2, <3>3, <3>4, <3>5, <3>6
  <2>3. /\ mind' \in Minds /\ answers' \in Seq(Answers) /\ proc' \in {"ready", "gone"}
        /\ mind'.list.from = m.list.from
        /\ proc' = "ready" => answers' = <<a>> /\ (mind'.list = NoList \/ mind'.list.shown)
        /\ proc' = "gone" => answers' = <<>>
    BY <2>1, <2>2, Types, ReplyResult
  <2>4. TypeOK'
    BY <2>3, <1>0, <1>1 DEF IInv, TypeOK, BackendTypeOK, LegacyTypeOK, Conns
  <2>5. LegInv' /\ Pipe'
    BY <2>1, <2>2, <2>3, <1>0, <1>2 DEF LegInv, Pipe, Serving
  <2>6. Listed'
    BY <2>2, <2>3, <1>2 DEF Listed, CommitShown, Fair
  <2>7. Real'
    BY <2>2, <2>3, <1>0 DEF Real, RealOnly, Fair
  <2> QED BY <2>4, <2>5, <2>6, <2>7, <1>3 DEF IInv
<1> QED BY <1>6, <1>7

LEMMA NoConnType == NoConn \in Conns /\ Idle(NoConn)
BY DEF NoConn, Conns, Idle, Cmds, Reps

LEMMA LeavesType ==
    ASSUME NEW c \in Conns, old \in Seq(Lines)
    PROVE  Leaves(c) \in Seq(Lines)
BY ConnFields DEF Leaves

\* A place in the backend's functions with another pc.
LEMMA LegMoves ==
    ASSUME NEW l \in Legs, NEW pc \in LegPcs, NEW k, k = [l EXCEPT !.pc = pc]
    PROVE  /\ k \in Legs /\ k.pc = pc /\ k.try = l.try
           /\ k.op = l.op /\ k.committed = l.committed /\ k.cmd = l.cmd
BY DEF Legs

LEMMA CommandFailsKeeps ==
    ASSUME IInv, BusyStep, CommandFails
    PROVE  IInv'
<1>0. /\ conn \in Conns /\ old \in Seq(Lines) /\ leg \in Legs /\ mind \in Minds
      /\ leg.try \in 0 .. 2 /\ (leg.pc = "reply" => leg.try # 0)
      /\ leg.pc # "reply" => Idle(conn)
  BY Types, LegFields DEF IInv, LegInv, BusyStep, Busily
<1>1. CASE leg.try = 0
  <2>1. EndsOk(mind, leg.committed) /\ conn' = conn /\ old' = old /\ leg' = Rest /\ Idle(conn)
    BY <1>0, <1>1 DEF CommandFails, EndsOk
  <2> QED BY <1>0, <2>1, EndKeeps
<1>2. ASSUME leg.try # 0
      PROVE  conn' \in Conns /\ Idle(conn') /\ old' \in Seq(Lines)
  BY <1>0, <1>2, NoConnType, LeavesType DEF CommandFails, DropConn
<1>3. CASE leg.try = 1
  <2>1. leg' = [leg EXCEPT !.pc = "prepare", !.try = 2] /\ UNCHANGED <<proc, mind, answers>>
    BY <1>3 DEF CommandFails
  <2>2. /\ leg' \in Legs /\ leg'.pc = "prepare" /\ leg'.op = leg.op
        /\ leg'.committed = leg.committed /\ leg'.cmd = leg.cmd
    <3>1. leg \in Legs /\ "prepare" \in LegPcs /\ 2 \in 0 .. 2
      BY <1>0 DEF LegPcs
    <3> QED BY <2>1, <3>1 DEF Legs
  <2>3. UNCHANGED <<proc, mind, answers>>
    BY <2>1
  <2>4. conn' \in Conns /\ Idle(conn') /\ old' \in Seq(Lines) /\ One(conn')
    BY <1>2, <1>3, IdleIsOne
  <2> QED BY <2>2, <2>3, <2>4, OnKeeps
<1>4. CASE leg.try = 2
  <2>1. IF leg.cmd = 0 THEN EndsOk(mind, leg.committed) ELSE EndsErr
    BY <1>4 DEF CommandFails
  <2>2. leg' = Rest
    BY <2>1 DEF EndsOk, EndsErr
  <2>3. conn' \in Conns /\ Idle(conn') /\ old' \in Seq(Lines)
    BY <1>2, <1>4
  <2> QED BY <1>0, <2>1, <2>2, <2>3, EndKeeps
<1> QED BY <1>0, <1>1, <1>3, <1>4

\* The connection is ready and the command goes out.
LEMMA GoesOnKeeps ==
    ASSUME IInv, BusyStep, UNCHANGED <<proc, mind, answers>>, old' = old,
           NEW c \in Conns, Idle(c), GoesOn(c)
    PROVE  IInv'
<1> DEFINE try == IF leg.try = 0 THEN 1 ELSE leg.try
<1>0. /\ leg \in Legs /\ mind.input \in Texts /\ leg.cmd \in 0 .. 4 /\ leg.try \in 0 .. 2
      /\ old \in Seq(Lines)
  BY Types, MindFields, LegFields
<1>1. conn' \in Conns /\ One(conn')
  BY <1>0, SendLine, LineTypes DEF GoesOn
<1>2. try \in 0 .. 2 /\ try # 0
  BY <1>0
<1>3. leg' = [leg EXCEPT !.pc = "reply", !.try = try]
  BY DEF GoesOn
<1> HIDE DEF try
<1>4. /\ leg' \in Legs /\ leg'.pc = "reply" /\ leg'.try # 0 /\ leg'.op = leg.op
      /\ leg'.committed = leg.committed /\ leg'.cmd = leg.cmd
  BY <1>0, <1>2, <1>3 DEF Legs, LegPcs
<1> QED BY <1>0, <1>1, <1>4, OnKeeps

\* ensure_ready's next line goes out.
LEMMA GoesKeeps ==
    ASSUME IInv, BusyStep, UNCHANGED <<proc, mind, answers, old>>,
           conn' \in Conns, Idle(conn'), NEW pc \in {"activate", "codepage"}, Goes(pc)
    PROVE  IInv'
<1>1. leg \in Legs /\ old \in Seq(Lines)
  BY Types
<1>2. /\ leg' \in Legs /\ leg'.pc = pc /\ leg'.op = leg.op
      /\ leg'.committed = leg.committed /\ leg'.cmd = leg.cmd
  BY <1>1, LegMoves DEF Goes, LegPcs
<1> QED BY <1>1, <1>2, IdleIsOne, OnKeeps

LEMMA ConnectKeeps == ASSUME IInv, Connect, UNCHANGED asked PROVE IInv'
<1> DEFINE q == <<Line("ACTIVATE")>>
<1>1. q \in Seq(Lines) /\ Cmds(q) = {}
  <2>1. q \in Seq(Lines) /\ DOMAIN q = {1} /\ q[1] = Line("ACTIVATE")
    BY LineTypes
  <2> QED BY <2>1, LineTypes DEF Cmds
<1> HIDE DEF q
<1>2. /\ [NoConn EXCEPT !.st = "queued", !.out = q] \in Conns
      /\ [NoConn EXCEPT !.st = "queued", !.out = q].out = q
      /\ [NoConn EXCEPT !.st = "queued", !.out = q].in = <<>>
  <2>1. NoConn.in = <<>>
    BY DEF NoConn
  <2> QED BY <1>1, <2>1, NoConnType, ConnQueued
<1>3. conn' = [NoConn EXCEPT !.st = "queued", !.out = q] /\ Reps(<<>>) = {}
  BY DEF Connect, q, Reps
<1>4. conn' \in Conns /\ Idle(conn')
  BY <1>1, <1>2, <1>3 DEF Idle
<1> QED BY <1>4, GoesKeeps DEF Connect, BusyStep

LEMMA ReuseKeeps == ASSUME IInv, Reuse, UNCHANGED asked PROVE IInv'
<1>1. BusyStep /\ UNCHANGED <<proc, mind, answers, old>> /\ conn \in Conns /\ Idle(conn)
  BY Types DEF Reuse, BusyStep
<1>2. CASE conn.activated
  BY <1>1, <1>2, GoesOnKeeps DEF Reuse
<1>3. CASE ~conn.activated
  <2>1. conn' = Sent(conn, Line("ACTIVATE")) /\ Goes("activate")
    BY <1>3 DEF Reuse
  <2> QED BY <1>1, <2>1, SendLine, LineTypes, GoesKeeps
<1> QED BY <1>2, <1>3

LEMMA PassOverKeeps == ASSUME IInv, PassOver, UNCHANGED asked PROVE IInv'
<1>1. /\ conn' \in Conns /\ One(conn') /\ (leg.pc # "reply" => Idle(conn'))
      /\ leg \in Legs /\ old \in Seq(Lines)
  BY Types, ReadLine DEF PassOver
<1>2. /\ leg' = leg /\ BusyStep /\ UNCHANGED <<proc, mind, answers>> /\ old' = old
      /\ leg.pc # "rest" /\ (leg.pc = "reply" => leg.try # 0)
  BY DEF PassOver, Reads, BusyStep, Busily, IInv, LegInv
<1> QED BY <1>1, <1>2, OnKeeps

LEMMA TakeActivateKeeps == ASSUME IInv, TakeActivate, UNCHANGED asked PROVE IInv'
<1>1. PastLine(conn) \in Conns /\ Idle(PastLine(conn))
  BY Types, ReadLine DEF TakeActivate
<1>2. conn' \in Conns /\ Idle(conn')
  BY <1>1, SendLine, LineTypes DEF TakeActivate
<1> QED BY <1>2, GoesKeeps DEF TakeActivate, Reads, BusyStep

LEMMA TakeCodepageKeeps == ASSUME IInv, TakeCodepage, UNCHANGED asked PROVE IInv'
<1>1. PastLine(conn) \in Conns /\ Idle(PastLine(conn))
  BY Types, ReadLine DEF TakeCodepage
<1>2. /\ [PastLine(conn) EXCEPT !.activated = TRUE] \in Conns
      /\ Idle([PastLine(conn) EXCEPT !.activated = TRUE])
  BY <1>1, ConnFlags DEF Idle
<1> QED BY <1>2, GoesOnKeeps DEF TakeCodepage, Reads, BusyStep

LEMMA TakeResetKeeps == ASSUME IInv, TakeReset, UNCHANGED asked PROVE IInv'
<1>1. Awaited = "OK RESET" /\ Head(conn.in).re = Awaited /\ conn.in # <<>> /\ conn \in Conns /\ One(conn)
  BY Types DEF TakeReset, Awaited
<1>2. PastLine(conn) \in Conns /\ Idle(PastLine(conn))
  BY <1>1, ReadLine DEF RepNames
<1>3. conn' \in Conns /\ Idle(conn')
  BY <1>2, ConnFlags DEF TakeReset, Idle
<1>4. /\ BusyStep /\ EndsOk(mind, leg.committed) /\ leg' = Rest /\ old' \in Seq(Lines)
      /\ mind \in Minds
  BY Types DEF TakeReset, Reads, BusyStep, EndsOk
<1> QED BY <1>3, <1>4, EndKeeps

LEMMA TakeCandidatesKeeps == ASSUME IInv, TakeCandidates, UNCHANGED asked PROVE IInv'
<1> DEFINE reply == Head(conn.in)
           comp  == IF reply.comp = {} THEN leg.comp ELSE reply.comp
           list  == IF reply.has = "list" THEN New("legacy") ELSE NoList
           m     == [mind EXCEPT !.comp = comp, !.list = list]
<1>1. /\ conn \in Conns /\ One(conn) /\ leg \in Legs /\ mind \in Minds /\ old \in Seq(Lines)
      /\ leg.cmd \in 1 .. 4 /\ leg.comp \in Texts /\ mind.input \in Texts
  BY Types, LegFields, MindFields DEF TakeCandidates
<1>2. /\ BusyStep /\ old' = old /\ leg.cmd # 0 /\ leg.pc = "reply" /\ conn.in # <<>>
      /\ reply.re = Awaited /\ Awaited = "CAND_RET"
  BY DEF TakeCandidates, Reads, BusyStep, Awaited
<1>3. reply \in Replies /\ comp \in Texts
  <2>1. reply \in Replies
    BY <1>1, <1>2, ConnFields
  <2> QED BY <2>1, <1>1 DEF Replies
<1>4. PastLine(conn) \in Conns /\ Idle(PastLine(conn))
  BY <1>1, <1>2, ReadLine DEF RepNames
<1>5. CASE reply.has = "err"
  BY <1>1, <1>2, <1>4, <1>5, EndKeeps DEF TakeCandidates, EndsErr
<1>6. CASE reply.has = "nolist" /\ leg.cmd < 4
  <2>1. /\ leg' = [leg EXCEPT !.cmd = @ + 1, !.try = 1, !.comp = comp]
        /\ conn' = Sent(PastLine(conn), CommandLine(leg.cmd + 1, mind.input))
        /\ UNCHANGED <<proc, mind, answers>>
    BY <1>6 DEF TakeCandidates
  <2>2. leg.cmd + 1 \in 0 .. 4 /\ leg.cmd + 1 # 0
    BY <1>1, <1>6
  <2>3. conn' \in Conns /\ One(conn')
    BY <2>1, <2>2, <1>1, <1>4, LineTypes, SendLine
  <2> DEFINE cmd == leg.cmd + 1
  <2>6. leg' = [leg EXCEPT !.cmd = cmd, !.try = 1, !.comp = comp] /\ cmd \in 0 .. 4 /\ 1 \in 0 .. 2
    BY <2>1, <2>2
  <2> HIDE DEF comp, cmd
  <2>4. /\ leg' \in Legs /\ leg'.pc = leg.pc /\ leg'.try = 1 /\ leg'.op = leg.op
        /\ leg'.committed = leg.committed
    BY <2>6, <1>1, <1>3 DEF Legs
  <2> HIDE DEF reply
  <2> QED BY <2>1, <2>3, <2>4, <1>1, <1>2, OnKeeps
<1>7. CASE ~(reply.has = "err") /\ ~(reply.has = "nolist" /\ leg.cmd < 4)
  <2>1. EndsOk(m, "none") /\ conn' = PastLine(conn)
    BY <1>7 DEF TakeCandidates
  <2>2. list \in Lists /\ list.from # "fake"
    BY NewType, BlankType DEF NoList, Froms
  <2>3. m \in Minds /\ m.list = list
    <3> HIDE DEF comp, list
    <3> QED BY <1>1, <1>3, <2>2 DEF Minds
  <2>4. leg' = Rest
    BY <2>1 DEF EndsOk
  <2> HIDE DEF m, list
  <2> QED BY <2>1, <2>2, <2>3, <2>4, <1>1, <1>2, <1>4, EndKeeps
<1> QED BY <1>5, <1>6, <1>7

LEMMA LegacyStepsKeep == ASSUME IInv, LegacySteps, UNCHANGED asked PROVE IInv'
<1>1. CASE ConnectFails
  BY <1>1, CommandFailsKeeps DEF ConnectFails, BusyStep
<1>2. CASE ReadFails
  BY <1>2, CommandFailsKeeps DEF ReadFails, Reads, BusyStep
<1> QED BY <1>1, <1>2, ConnectKeeps, ReuseKeeps, PassOverKeeps, TakeActivateKeeps,
           TakeCodepageKeeps, TakeResetKeeps, TakeCandidatesKeeps DEF LegacySteps

-----------------------------------------------------------------------------
(* The operations.                                                         *)

LEMMA LegacyUpdatesKeep ==
    ASSUME IInv, NEW op \in {"key", "query"}, Handles("legacy_tcp", op),
           NEW m \in Minds, m.list = mind.list, Updates(op, m), UNCHANGED <<env, ime, conn, old, asked>>
    PROVE  IInv'
<1>0. proc = "ready" /\ op \in DOMAIN Args /\ ime \in Texts
  BY Types, Taken DEF Args
<1>1. /\ mind.list = NoList \/ mind.list.shown
      /\ env.force => mind.list.from # "fake"
  BY <1>0 DEF IInv, Listed, Real, RealOnly
<1>2. CASE m.input = {}
  <2> DEFINE n == [m EXCEPT !.comp = {}, !.list = NoList]
             a == Ok(op, n, "none")
  <2>1. Reply(n, a) /\ leg' = leg
    BY <1>2 DEF Updates, AnswersOk
  <2>2. n \in Minds /\ n.list = NoList
    BY BlankType DEF Minds, Texts
  <2>3. a \in Answers /\ a.op = op /\ a.from = NoList.from /\ a.committed = "none"
    BY <2>2, <1>0, AnswerType DEF Ok, Committeds
  <2>4. Fair(n, a)
    BY <2>2, <2>3 DEF Fair, NoList
  <2> HIDE DEF n, a
  <2> QED BY <2>1, <2>2, <2>3, <2>4, <1>0, AnswersKeep DEF legacyVars
<1>3. CASE m.input # {}
  <2>1. Starts(op, m, 1, 1, "none")
    BY <1>3 DEF Updates
  <2> QED BY <2>1, <1>1, StartsKeep DEF Committeds
<1> QED BY <1>2, <1>3

LEMMA LegacyKeyKeeps ==
    ASSUME IInv, LegacyKey, UNCHANGED <<env, ime, conn, old, asked>> PROVE IInv'
<1>0. mind \in Minds /\ Moved(mind) \in Minds /\ mind.input \in Texts
  BY Types, MindMoved, MindFields
<1>1. PICK text \in Typed(mind.input, Head(requests).arg) : Updates("key", [Moved(mind) EXCEPT !.input = text])
  BY DEF LegacyKey
<1>2. text \in Texts
  BY <1>0, TypedType
<1>3. [Moved(mind) EXCEPT !.input = text] \in Minds /\ [Moved(mind) EXCEPT !.input = text].list = Moved(mind).list
  BY <1>0, <1>2 DEF Minds
<1> QED BY <1>0, <1>1, <1>3, MindMoved, LegacyUpdatesKeep DEF LegacyKey

LEMMA LegacyQueryKeeps ==
    ASSUME IInv, LegacyQuery, UNCHANGED <<env, ime, conn, old, asked>> PROVE IInv'
<1> DEFINE text == Snapped(Moved(mind).input, Head(requests).arg)
<1>0. mind \in Minds /\ Moved(mind) \in Minds /\ mind.input \in Texts /\ text \in Texts
  BY Types, MindMoved, MindFields, SnappedType
<1>1. Updates("query", [Moved(mind) EXCEPT !.input = text])
  BY DEF LegacyQuery
<1> HIDE DEF text
<1>3. [Moved(mind) EXCEPT !.input = text] \in Minds /\ [Moved(mind) EXCEPT !.input = text].list = Moved(mind).list
  BY <1>0 DEF Minds
<1> QED BY <1>0, <1>1, <1>3, MindMoved, LegacyUpdatesKeep DEF LegacyQuery

\* What a commit takes, by text or by index, from a list that has been shown.
LEMMA ChosenSeen ==
    ASSUME NEW m \in Minds, m.list = NoList \/ m.list.shown, NEW by
    PROVE  Chosen(m, by) \in Committeds /\ Chosen(m, by) # "unseen"
BY DEF Chosen, Committeds

\* An answer that shows and fabricates nothing, for a list already shown.
LEMMA ErrKeeps ==
    ASSUME IInv, NEW kind, NEW op \in DOMAIN Args, Handles(kind, op),
           NEW m \in Minds, AnswersErr(op, m), m.list = NoList \/ m.list.shown,
           env.force => m.list.from # "fake",
           env' = env, ime' \in Texts, UNCHANGED <<legacyVars, asked>>
    PROVE  IInv'
<1>1. Err(op, m) \in Answers /\ Err(op, m).op = op
  BY AnswerType DEF Committeds
<1>2. Fair(m, Err(op, m)) /\ Reply(m, Err(op, m))
  BY DEF Fair, Err, Shows, AnswersErr
<1> QED BY <1>1, <1>2, AnswersKeep

LEMMA OkKeeps ==
    ASSUME IInv, NEW kind, NEW op \in DOMAIN Args, Handles(kind, op),
           NEW m \in Minds, NEW c \in Committeds, c # "unseen", AnswersOk(op, m, c),
           op \in {"key", "query"} \/ m.list = NoList \/ m.list.shown,
           env.force => m.list.from # "fake",
           env' = env, ime' \in Texts, UNCHANGED <<legacyVars, asked>>
    PROVE  IInv'
<1>1. Ok(op, m, c) \in Answers /\ Ok(op, m, c).op = op
  BY AnswerType
<1>2. Fair(m, Ok(op, m, c)) /\ Reply(m, Ok(op, m, c))
  BY DEF Fair, Ok, Shows, AnswersOk
<1> QED BY <1>1, <1>2, AnswersKeep

LEMMA LegacyServesKeep == ASSUME IInv, LegacyServes, UNCHANGED asked PROVE IInv'
<1>1. CASE LegacySteps
  BY <1>1, LegacyStepsKeep
<1>2. CASE (LegacyKey \/ LegacyQuery \/ LegacyCommit \/ LegacyReset) /\ UNCHANGED <<env, ime, conn, old>>
  <2>1. ASSUME LegacyCommit PROVE IInv'
    <3> DEFINE took == Chosen(mind, Head(requests).arg)
    <3>1. Handles("legacy_tcp", "commit") /\ mind \in Minds /\ ime \in Texts
      BY <2>1, Types DEF LegacyCommit
    <3>2. took \in Committeds /\ took # "unseen"
      BY <3>1, Taken, ChosenSeen DEF IInv, Listed
    <3>3. CASE took = "none"
      <4>1. /\ mind.list = NoList \/ mind.list.shown
            /\ env.force => mind.list.from # "fake"
        BY <3>1, Taken DEF IInv, Listed, Real, RealOnly
      <4> QED BY <3>1, <3>3, <4>1, <2>1, <1>2, ErrKeeps DEF LegacyCommit, legacyVars, Args
    <3>4. CASE took # "none"
      <4>1. Starts("commit", Moved(Blank), 0, 0, took)
        BY <3>4, <2>1 DEF LegacyCommit
      <4> HIDE DEF took
      <4> QED BY <3>1, <3>2, <4>1, <1>2, BlankType, StartsKeep DEF NoList
    <3> QED BY <3>3, <3>4
  <2>2. ASSUME LegacyReset PROVE IInv'
    <3>1. Handles("legacy_tcp", "reset") /\ Starts("reset", Moved(Blank), 0, 0, "none")
      BY <2>2 DEF LegacyReset
    <3> QED BY <3>1, <1>2, BlankType, StartsKeep DEF NoList, Committeds
  <2> QED BY <1>2, <2>1, <2>2, LegacyKeyKeeps, LegacyQueryKeeps
<1> QED BY <1>1, <1>2 DEF LegacyServes

\* What the stub and the Win32 backend do for a commit and a reset.
LEMMA CommitKeeps ==
    ASSUME IInv, NEW kind, Handles(kind, "commit"),
           LET took == Chosen(mind, Head(requests).arg) IN
           IF took = "none" THEN AnswersErr("commit", mind) \/ AnswersErr("commit", Moved(mind))
                            ELSE AnswersOk("commit", Moved(Blank), took),
           env' = env, ime' \in Texts, UNCHANGED <<legacyVars, asked>>
    PROVE  IInv'
<1> DEFINE took == Chosen(mind, Head(requests).arg)
<1>0. proc = "ready" /\ "commit" \in DOMAIN Args /\ mind \in Minds
  BY Types, Taken DEF Args
<1>1. took \in Committeds /\ took # "unseen"
  BY <1>0, ChosenSeen DEF IInv, Listed
<1>2. CASE took = "none"
  <2>1. /\ mind.list = NoList \/ mind.list.shown
        /\ env.force => mind.list.from # "fake"
    BY <1>0 DEF IInv, Listed, Real, RealOnly
  <2> QED BY <1>0, <1>2, <2>1, MindMoved, ErrKeeps
<1>3. CASE took # "none"
  <2>1. AnswersOk("commit", Moved(Blank), took)
    BY <1>3
  <2> HIDE DEF took
  <2> QED BY <1>0, <1>1, <2>1, BlankType, OkKeeps DEF NoList
<1> QED BY <1>2, <1>3

LEMMA ResetKeeps ==
    ASSUME IInv, NEW kind, Handles(kind, "reset"), AnswersOk("reset", Moved(Blank), "none"),
           env' = env, ime' \in Texts, UNCHANGED <<legacyVars, asked>>
    PROVE  IInv'
BY BlankType, OkKeeps DEF NoList, Args, Committeds

\* The stub: a key or query shows the list it makes.
LEMMA StubServesKeep == ASSUME IInv, StubServes, UNCHANGED <<legacyVars, asked>> PROVE IInv'
<1>0. /\ mind \in Minds /\ mind.comp \in Texts /\ env' = env /\ ime' \in Texts
      /\ Moved(mind) \in Minds
  BY Types, MindFields, MindMoved DEF StubServes
<1>1. ASSUME NEW op \in {"key", "query"}, Handles("stub", op), NEW text \in Texts,
             AnswersOk(op, StubShows(mind, text), "none")
      PROVE  IInv'
  <2> DEFINE m == StubShows(mind, text)
  <2>1. StubList(text) \in Lists /\ StubList(text).from # "fake"
    BY NewType, BlankType DEF StubList, NoList, Froms
  <2>2. m \in Minds /\ m.list = StubList(text)
    BY <2>1, <1>0 DEF StubShows, Minds
  <2>3. op \in DOMAIN Args /\ "none" \in Committeds
    BY DEF Args, Committeds
  <2> HIDE DEF m
  <2>4. AnswersOk(op, m, "none")
    BY <1>1 DEF m
  <2> QED BY <1>0, <1>1, <2>1, <2>2, <2>3, <2>4, OkKeeps
<1>2. ASSUME StubKey PROVE IInv'
  <2>1. PICK text \in Typed(mind.comp, Head(requests).arg) : AnswersOk("key", StubShows(mind, text), "none")
    BY <1>2 DEF StubKey
  <2> QED BY <1>0, <1>1, <1>2, <2>1, TypedType DEF StubKey
<1>3. ASSUME StubQuery PROVE IInv'
  BY <1>0, <1>1, <1>3, SnappedType DEF StubQuery
<1>4. ASSUME StubCommit PROVE IInv'
  BY <1>0, <1>4, CommitKeeps DEF StubCommit
<1>5. ASSUME StubReset PROVE IInv'
  BY <1>0, <1>5, ResetKeeps DEF StubReset
<1> QED BY <1>2, <1>3, <1>4, <1>5 DEF StubServes

-----------------------------------------------------------------------------
(* The Win32 backend.                                                      *)

LEMMA FakedType ==
    ASSUME NEW m \in Minds
    PROVE  Faked(m) \in Minds
<1>1. New("fake") \in Lists /\ NoList \in Lists
  BY NewType, BlankType DEF Froms
<1> QED BY <1>1 DEF Faked, Minds

LEMMA RefreshedType ==
    ASSUME NEW m \in Minds, env.force => m.list.from # "fake", NEW text \in Texts, NEW look
    PROVE  /\ Refreshed(m, text, look) \in Minds
           /\ env.force => Refreshed(m, text, look).list.from # "fake"
           /\ Refreshed(m, text, look).list \in {m.list, NoList, New("imm")}
           /\ look \in {"error", "off"} => Refreshed(m, text, look) = m
           /\ look # "list" => Refreshed(m, text, look).list \in {m.list, NoList}
<1>0. m.comp \in Texts
  BY MindFields
<1>1. New("imm") \in Lists /\ NoList \in Lists /\ New("imm").from # "fake" /\ NoList.from # "fake"
  BY NewType, BlankType DEF Froms, NoList
<1> DEFINE list == IF look = "list" THEN New("imm") ELSE NoList
           comp == IF text = {} THEN m.comp ELSE text
<1>2. list \in Lists /\ comp \in Texts
  BY <1>0, <1>1
<1> HIDE DEF list, comp
<1>3. [m EXCEPT !.comp = comp, !.list = list] \in Minds /\ [m EXCEPT !.comp = comp, !.list = list].list = list
  BY <1>2 DEF Minds
<1>4. Refreshed(m, text, look) = IF look \in {"error", "off"} THEN m ELSE [m EXCEPT !.comp = comp, !.list = list]
  BY DEF Refreshed, comp, list
<1> QED BY <1>1, <1>3, <1>4 DEF list

LEMMA WinImmLooks ==
    ASSUME IInv, NEW op \in {"key", "query"}, Handles("win_imm", op),
           NEW m \in Minds, m.list = mind.list, NEW text \in Texts, NEW look,
           NEW n, n = Refreshed(m, text, look),
           \/ AnswersErr(op, n) /\ (look \in {"error", "off"} \/ n.list = NoList)
           \/ AnswersOk(op, n, "none")
           \/ AnswersOk(op, Faked(n), "none") /\ ~env.force,
           env' = env, ime' \in Texts, UNCHANGED <<legacyVars, asked>>
    PROVE  IInv'
<1>0. proc = "ready" /\ op \in DOMAIN Args /\ "none" \in Committeds
  BY Taken DEF Args, Committeds
<1>1. /\ mind.list = NoList \/ mind.list.shown
      /\ env.force => mind.list.from # "fake"
  BY <1>0 DEF IInv, Listed, Real, RealOnly
<1>2. /\ n \in Minds /\ Faked(n) \in Minds /\ (env.force => n.list.from # "fake")
      /\ look \in {"error", "off"} => n = m
  BY <1>1, RefreshedType, FakedType
<1>3. CASE AnswersErr(op, n) /\ (look \in {"error", "off"} \/ n.list = NoList)
  BY <1>0, <1>1, <1>2, <1>3, ErrKeeps
<1>4. CASE AnswersOk(op, n, "none")
  BY <1>0, <1>2, <1>4, OkKeeps
<1>5. CASE AnswersOk(op, Faked(n), "none") /\ ~env.force
  BY <1>0, <1>2, <1>5, OkKeeps
<1> QED BY <1>3, <1>4, <1>5

LEMMA ImeTakesType == ASSUME ime \in Texts, NEW text \in ImeAfterKey PROVE text \in Texts
BY DEF ImeAfterKey, ImeTakes, Texts, Own

LEMMA WinImmKeyKeeps == ASSUME IInv, WinImmKey, UNCHANGED <<env, legacyVars, asked>> PROVE IInv'
<1>0. mind \in Minds /\ Moved(mind) \in Minds /\ mind.comp \in Texts /\ ime \in Texts
  BY Types, MindMoved, MindFields
<1>1. PICK typed \in Typed(mind.comp, Head(requests).arg), text \in ImeAfterKey, look \in Looks :
          LET m == Refreshed([Moved(mind) EXCEPT !.comp = typed], text, look) IN
          /\ ime' = text
          /\ IF look \in {"error", "off"}
             THEN IF env.force THEN AnswersErr("key", m)
                               ELSE AnswersOk("key", Faked(m), "none")
             ELSE AnswersOk("key", IF Empty(m) /\ ~env.force THEN Faked(m) ELSE m, "none")
  BY DEF WinImmKey
<1> DEFINE b == [Moved(mind) EXCEPT !.comp = typed]
           n == Refreshed(b, text, look)
<1>2. typed \in Texts /\ text \in Texts
  BY <1>0, TypedType, ImeTakesType
<1>3. b \in Minds /\ b.list = mind.list
  BY <1>0, <1>2, MindMoved DEF Minds
<1>4. /\ ime' = text /\ Handles("win_imm", "key")
      /\ \/ AnswersErr("key", n) /\ look \in {"error", "off"}
         \/ AnswersOk("key", n, "none")
         \/ AnswersOk("key", Faked(n), "none") /\ ~env.force
  BY <1>1 DEF WinImmKey
<1> HIDE DEF b
<1> QED BY <1>2, <1>3, <1>4, WinImmLooks

LEMMA WinImmQueryKeeps == ASSUME IInv, WinImmQuery, UNCHANGED <<env, legacyVars, asked>> PROVE IInv'
<1> DEFINE typed == Snapped(Moved(mind).comp, Head(requests).arg)
           b     == [Moved(mind) EXCEPT !.comp = typed]
<1>0. mind \in Minds /\ Moved(mind) \in Minds /\ ime \in Texts /\ typed \in Texts
  BY Types, MindMoved, MindFields, SnappedType
<1>1. PICK look \in Looks :
          LET m == Refreshed(b, ime, look) IN
          IF env.force /\ (Empty(m) \/ look \in {"error", "off"})
          THEN AnswersErr("query", m)
          ELSE AnswersOk("query", IF Empty(m) \/ look \in {"error", "off"}
                                  THEN Faked(m) ELSE m, "none")
  BY DEF WinImmQuery
<1> DEFINE n == Refreshed(b, ime, look)
<1>3. b \in Minds /\ b.list = mind.list
  <2> HIDE DEF typed
  <2> QED BY <1>0, MindMoved DEF Minds
<1>4. /\ ime' = ime /\ Handles("win_imm", "query")
      /\ \/ AnswersErr("query", n) /\ (look \in {"error", "off"} \/ n.list = NoList)
         \/ AnswersOk("query", n, "none")
         \/ AnswersOk("query", Faked(n), "none") /\ ~env.force
  BY <1>1 DEF WinImmQuery, Empty
<1> HIDE DEF b
<1> QED BY <1>0, <1>3, <1>4, WinImmLooks

LEMMA AfterSelectType == ASSUME ime \in Texts, NEW text \in AfterSelect PROVE text \in Texts
BY DEF AfterSelect, Texts

LEMMA WinImmServesKeep == ASSUME IInv, WinImmServes, UNCHANGED <<legacyVars, asked>> PROVE IInv'
<1>0. ime \in Texts /\ env' = env
  BY Types DEF WinImmServes
<1>1. ASSUME WinImmCommit PROVE IInv'
  BY <1>0, <1>1, CommitKeeps DEF WinImmCommit
<1>2. ASSUME WinImmReset PROVE IInv'
  BY <1>0, <1>2, AfterSelectType, ResetKeeps DEF WinImmReset
<1> QED BY <1>0, <1>1, <1>2, WinImmKeyKeeps, WinImmQueryKeeps DEF WinImmServes

-----------------------------------------------------------------------------
(* The rest of the worker and the gateway.                                 *)

LEMMA BootKeeps == ASSUME IInv, Boot, UNCHANGED asked PROVE IInv'
<1>0. /\ proc = "boot" /\ leg.pc = "rest" /\ UNCHANGED <<env, requests, conn, old, answers>>
      /\ mind' = Moved(Blank) /\ ime' \in Texts /\ TypeOK /\ conn \in Conns
      /\ leg.pc # "reply" /\ leg.committed # "unseen"
  BY Types, AfterSelectType DEF Boot, Starts, IInv, LegInv, Listed
<1>1. mind' \in Minds /\ mind'.list = NoList /\ mind'.list.from # "fake"
  BY <1>0, BlankType DEF NoList
<1>2. /\ leg' \in Legs /\ leg'.committed # "unseen" /\ ~Serving'
      /\ \/ proc' = "ready" /\ leg' = leg
         \/ /\ proc' = "busy" /\ leg'.pc = "prepare" /\ leg'.op = "boot" /\ leg'.cmd = 0
  <2>1. CASE env.kind = "legacy_tcp"
    <3>1. /\ proc' = "busy"
          /\ leg' = [pc |-> "prepare", op |-> "boot", cmd |-> 0, try |-> 0, comp |-> {}, committed |-> "none"]
      BY <2>1, BlankType DEF Boot, Starts
    <3> QED BY <3>1 DEF Legs, LegPcs, LegOps, Texts, Serving
  <2>2. CASE env.kind # "legacy_tcp"
    BY <2>2, <1>0, Types DEF Boot, Serving
  <2> QED BY <2>1, <2>2
<1>3. TypeOK'
  BY <1>0, <1>1, <1>2 DEF TypeOK, BackendTypeOK, LegacyTypeOK
<1>4. LegInv' /\ Pipe'
  BY <1>0, <1>2 DEF IInv, LegInv, Pipe, Serving
<1>5. ReplyMatches'
  BY <1>0 DEF IInv, ReplyMatches, OwedOut, OwedIn
<1>6. Listed' /\ Real'
  BY <1>0, <1>1, <1>2 DEF IInv, Listed, CommitShown, Real, RealOnly
<1> QED BY <1>3, <1>4, <1>5, <1>6 DEF IInv

LEMMA SnapshotKeeps ==
    ASSUME IInv, Snapshot, UNCHANGED asked
    PROVE  IInv'
<1>1. /\ Handles(env.kind, "snapshot") /\ AnswersOk("snapshot", mind, "none") /\ proc = "ready"
      /\ mind \in Minds /\ env' = env /\ ime' \in Texts /\ UNCHANGED legacyVars
  BY Types, Taken DEF Snapshot
<1>2. /\ mind.list = NoList \/ mind.list.shown
      /\ env.force => mind.list.from # "fake"
  BY <1>1 DEF IInv, Listed, Real, RealOnly
<1> QED BY <1>1, <1>2, OkKeeps DEF Args, Committeds

LEMMA WorkerStepKeeps == ASSUME IInv, WorkerStep PROVE IInv'
BY BootKeeps, SnapshotKeeps, StubServesKeep, WinImmServesKeep, LegacyServesKeep DEF WorkerStep

LEMMA DiesKeeps == ASSUME IInv, Dies PROVE IInv'
<1>1. TypeOK'
  BY DEF Dies, legacyVars, IInv, TypeOK, BackendTypeOK, LegacyTypeOK
<1>2. LegInv'
  BY DEF Dies, legacyVars, IInv, LegInv
<1>3. Pipe'
  BY DEF Dies, legacyVars, IInv, Pipe, Serving
<1>4. ReplyMatches'
  <2>1. conn' = conn /\ leg' = leg
    BY DEF Dies, legacyVars
  <2> QED BY <2>1, MatchesKept DEF IInv
<1>5. Listed' /\ Real'
  BY DEF Dies, legacyVars, IInv, Listed, CommitShown, Real, RealOnly
<1> QED BY <1>1, <1>2, <1>3, <1>4, <1>5 DEF IInv

LEMMA RequestTypes == Reset \in Requests /\ Reset # NoRequest /\ NoRequest \notin Requests
<1>1. \A r \in Requests : r.op \in DOMAIN Args
  BY DEF Requests
<1>2. "none" \notin DOMAIN Args
  BY DEF Args
<1>3. Reset \in [op : {"reset"}, arg : Args["reset"]]
  BY DEF Reset, Args
<1>4. "reset" \in DOMAIN Args
  BY DEF Args
<1> QED BY <1>1, <1>2, <1>3, <1>4 DEF Requests, NoRequest, Reset

\* A call, a hand over included, when none is under way.
LEMMA AskKeeps ==
    ASSUME IInv, MayCall, NEW req \in Requests, asked' = req, requests' = Append(requests, req),
           mind' \in Minds, mind'.list = mind.list, ime' \in Texts, old' \in Seq(Lines),
           conn' \in Conns, conn'.in = conn.in, conn'.out = conn.out,
           UNCHANGED <<env, answers, proc, leg>>
    PROVE  IInv'
<1>1. requests = <<>> /\ answers = <<>> /\ ~Serving /\ proc # "gone"
  BY DEF MayCall, IInv, Pipe
<1>2. requests' = <<req>> /\ req # NoRequest
  BY <1>1, RequestTypes
<1>3. TypeOK'
  BY <1>2 DEF IInv, TypeOK, BackendTypeOK, LegacyTypeOK, Conns
<1>4. LegInv' /\ Pipe'
  BY <1>1, <1>2 DEF IInv, LegInv, Pipe, Serving
<1>5. ReplyMatches'
  BY MatchesKept DEF IInv
<1>6. Listed' /\ Real'
  BY <1>1 DEF IInv, Listed, CommitShown, Real, RealOnly
<1> QED BY <1>3, <1>4, <1>5, <1>6 DEF IInv

LEMMA CallKeeps == ASSUME IInv, NEW req \in Requests, Call(req) PROVE IInv'
<1>1. mind \in Minds /\ ime \in Texts /\ old \in Seq(Lines) /\ conn \in Conns
  BY Types
<1>2. [mind EXCEPT !.moved = FALSE] \in Minds /\ [mind EXCEPT !.moved = FALSE].list = mind.list
  BY <1>1 DEF Minds
<1> QED BY <1>1, <1>2, AskKeeps DEF Call, legacyVars

LEMMA PassedType == ASSUME NEW t \in Texts PROVE Passed(t) \in Texts
BY DEF Texts, Passed, Own, Other

LEMMA HandOverKeeps == ASSUME IInv, HandOver PROVE IInv'
<1>1. mind \in Minds /\ ime \in Texts /\ old \in Seq(Lines) /\ conn \in Conns
      /\ mind.input \in Texts /\ mind.comp \in Texts
  BY Types, MindFields
<1>2. Passed(mind.input) \in Texts /\ Passed(mind.comp) \in Texts /\ Passed(ime) \in Texts
  BY <1>1, PassedType
<1>3. mind' \in Minds /\ mind'.list = mind.list
  <2>1. mind' = [mind EXCEPT !.input = Passed(mind.input), !.comp = Passed(mind.comp), !.moved = FALSE]
    BY DEF HandOver
  <2> QED BY <1>1, <1>2, <2>1 DEF Minds
<1>4. PassedLines(old) \in Seq(Lines)
  <2>1. ASSUME NEW i \in DOMAIN old PROVE [old[i] EXCEPT !.text = Passed(@)] \in Lines
    <3>1. old[i] \in Lines
      BY <1>1
    <3>2. Passed(old[i].text) \in Texts
      BY <3>1, PassedType DEF Lines
    <3> QED BY <3>1, <3>2 DEF Lines
  <2>2. DOMAIN old = 1 .. Len(old) /\ Len(old) \in Nat
    BY <1>1
  <2> QED BY <2>1, <2>2 DEF PassedLines
<1>5. conn' \in Conns /\ conn'.in = conn.in /\ conn'.out = conn.out
  BY <1>1, ConnFlags DEF HandOver
<1>6. MayCall /\ asked' = Reset /\ requests' = Append(requests, Reset) /\ Reset \in Requests
  BY RequestTypes DEF HandOver
<1>7. ime' \in Texts /\ old' \in Seq(Lines) /\ UNCHANGED <<env, answers, proc, leg>>
  BY <1>2, <1>4 DEF HandOver
<1> QED BY <1>3, <1>5, <1>6, <1>7, AskKeeps

LEMMA ReceiveKeeps == ASSUME IInv, Receive PROVE IInv'
<1>1. proc # "gone" => requests = <<>> /\ ~Serving /\ answers' = <<>>
  <2>1. asked # NoRequest /\ answers # <<>> /\ answers' = Tail(answers)
    BY DEF Receive
  <2>2. proc # "gone" => requests = <<>> /\ ~Serving /\ \E a : answers = <<a>>
    BY <2>1 DEF IInv, Pipe
  <2>3. \A a : Tail(<<a>>) = <<>>
    OBVIOUS
  <2> QED BY <2>1, <2>2, <2>3
<1>2. answers' \in Seq(Answers) /\ \A i \in DOMAIN answers' : i + 1 \in DOMAIN answers /\ answers'[i] = answers[i + 1]
  BY Types DEF Receive
<1>3. TypeOK'
  BY <1>2 DEF Receive, legacyVars, IInv, TypeOK, BackendTypeOK, LegacyTypeOK
<1>4. LegInv' /\ Pipe'
  BY <1>1 DEF Receive, legacyVars, IInv, LegInv, Pipe, Serving
<1>5. ReplyMatches'
  <2>1. conn' = conn /\ leg' = leg
    BY DEF Receive, legacyVars
  <2> QED BY <2>1, MatchesKept DEF IInv
<1>6. Listed' /\ Real'
  BY <1>2 DEF Receive, legacyVars, IInv, Listed, CommitShown, Real, RealOnly
<1> QED BY <1>3, <1>4, <1>5, <1>6 DEF IInv

LEMMA SeeClosedKeeps == ASSUME IInv, SeeClosed PROVE IInv'
<1>1. TypeOK'
  BY DEF SeeClosed, legacyVars, IInv, TypeOK, BackendTypeOK, LegacyTypeOK
<1>2. LegInv'
  BY DEF SeeClosed, legacyVars, IInv, LegInv
<1>3. Pipe'
  BY DEF SeeClosed, legacyVars, IInv, Pipe, Serving
<1>4. ReplyMatches'
  <2>1. conn' = conn /\ leg' = leg
    BY DEF SeeClosed, legacyVars
  <2> QED BY <2>1, MatchesKept DEF IInv
<1>5. Listed' /\ Real'
  BY DEF SeeClosed, legacyVars, IInv, Listed, CommitShown, Real, RealOnly
<1> QED BY <1>1, <1>2, <1>3, <1>4, <1>5 DEF IInv

-----------------------------------------------------------------------------
(* The host.                                                               *)

LEMMA HostKeeps ==
    ASSUME IInv, HostStep, UNCHANGED asked, conn' \in Conns, One(conn'),
           Idle(conn') \/ ~Idle(conn), old' \in Seq(Lines), ime' \in Texts
    PROVE  IInv'
<1>1. TypeOK'
  BY DEF HostStep, IInv, TypeOK, BackendTypeOK, LegacyTypeOK, Conns
<1>2. LegInv' /\ Pipe'
  BY DEF HostStep, IInv, LegInv, Pipe, Serving
<1>3. ReplyMatches'
  BY MatchesIs, MatchesIsNext DEF HostStep, IInv
<1>4. Listed' /\ Real'
  BY DEF HostStep, IInv, Listed, CommitShown, Real, RealOnly
<1> QED BY <1>1, <1>2, <1>3, <1>4 DEF IInv

LEMMA HostTypesType ==
    ASSUME ime \in Texts, NEW text \in Texts, NEW x \in HostTypes(text)
    PROVE  x \in Texts
BY DEF HostTypes, Texts

\* The host hangs up.
LEMMA ConnClosed ==
    ASSUME NEW c \in Conns, NEW k, k = [c EXCEPT !.st = "closed", !.out = <<>>]
    PROVE  k \in Conns /\ k.out = <<>> /\ k.in = c.in
<1> DEFINE q == <<>>
<1>1. q \in Seq(Lines) /\ k = [c EXCEPT !.st = "closed", !.out = q]
  OBVIOUS
<1> HIDE DEF q
<1>2. k \in Conns /\ k.out = q /\ k.in = c.in
  BY <1>1 DEF Conns
<1> QED BY <1>2 DEF q

LEMMA HostAcceptsKeeps == ASSUME IInv, HostAccepts, UNCHANGED asked PROVE IInv'
<1> DEFINE q == <<Says("HELLO")>>
<1>0. conn \in Conns /\ One(conn) /\ ime \in Texts /\ old \in Seq(Lines)
  BY Types
<1>1. q \in Seq(Replies) /\ Reps(q) = {}
  <2>1. Says("HELLO") \in Replies /\ Says("HELLO").re = "HELLO"
    BY DEF Says, Replies, Answered, Texts
  <2>2. DOMAIN q = {1} /\ q[1] = Says("HELLO") /\ q \in Seq(Replies)
    BY <2>1
  <2> QED BY <2>1, <2>2 DEF Reps, RepNames
<1>2. conn' = [conn EXCEPT !.st = "served", !.in = q]
  BY DEF HostAccepts
<1> HIDE DEF q
<1>3. conn' \in Conns /\ conn'.out = conn.out /\ conn'.in = q
  BY <1>0, <1>1, <1>2 DEF Conns
<1>4. One(conn') /\ (Idle(conn') \/ ~Idle(conn))
  BY <1>0, <1>1, <1>3 DEF One, Idle
<1> QED BY <1>0, <1>3, <1>4, HostKeeps DEF HostAccepts

\* The host answers a line: a command's with its answer, another's with another.
LEMMA HostWrites ==
    ASSUME IInv, conn.out # <<>>, NEW e \in Replies,
           Head(conn.out).cmd \in CmdNames <=> e.re \in RepNames,
           conn' = [conn EXCEPT !.out = Tail(@), !.in = Append(@, e)]
    PROVE  conn' \in Conns /\ One(conn') /\ (Idle(conn') \/ ~Idle(conn))
<1>0. /\ conn \in Conns /\ One(conn) /\ conn.out \in Seq(Lines) /\ conn.in \in Seq(Replies)
  BY Types, ConnFields
<1>1. Tail(conn.out) \in Seq(Lines) /\ Append(conn.in, e) \in Seq(Replies)
  BY <1>0
<1>2. conn' \in Conns /\ conn'.out = Tail(conn.out) /\ conn'.in = Append(conn.in, e)
  BY <1>0, <1>1 DEF Conns
<1>3. /\ \A i, j \in Cmds(Tail(conn.out)) : i = j
      /\ Cmds(conn.out) = {} => Cmds(Tail(conn.out)) = {}
      /\ Head(conn.out).cmd \in CmdNames => Cmds(Tail(conn.out)) = {} /\ Cmds(conn.out) # {}
  BY <1>0, CmdsTail DEF One
<1>4. /\ e.re \notin RepNames => Reps(Append(conn.in, e)) = Reps(conn.in)
      /\ Reps(conn.in) = {} => \A i, j \in Reps(Append(conn.in, e)) : i = j
  BY <1>0, RepsAppend
<1> QED BY <1>0, <1>2, <1>3, <1>4 DEF One, Idle

LEMMA HostServesKeeps == ASSUME IInv, HostServes, UNCHANGED asked PROVE IInv'
<1> DEFINE line == Head(conn.out)
<1>0. /\ conn \in Conns /\ One(conn) /\ ime \in Texts /\ old \in Seq(Lines) /\ old' = old
      /\ HostStep /\ conn.out # <<>> /\ conn.out \in Seq(Lines) /\ line \in Lines
  BY Types, ConnFields DEF HostServes
<1>1. line.text \in Texts /\ line.cmd \in {"ACTIVATE", "CP", "RESET", "TYPE", "CAND"}
  BY <1>0 DEF Lines
<1>2. ASSUME NEW re \in Answered, NEW comp \in Texts, NEW has \in {"list", "nolist", "err"},
             ime' \in Texts, line.cmd \in CmdNames <=> re \in RepNames,
             conn' = [conn EXCEPT !.out = Tail(@), !.in = Append(@, [re |-> re, comp |-> comp, has |-> has])]
      PROVE  IInv'
  <2> DEFINE e == [re |-> re, comp |-> comp, has |-> has]
  <2>1. e \in Replies /\ e.re = re
    BY DEF Replies
  <2>2. conn' = [conn EXCEPT !.out = Tail(@), !.in = Append(@, e)]
    BY <1>2
  <2> HIDE DEF e
  <2> QED BY <1>0, <1>2, <2>1, <2>2, HostWrites, HostKeeps
<1>3. {} \in Texts
  BY DEF Texts
<1>4. ASSUME line.cmd = "ACTIVATE", UNCHANGED ime,
             conn' = [conn EXCEPT !.out = Tail(@), !.in = Append(@, [re |-> "OK ACTIVATE", comp |-> {}, has |-> "nolist"])]
      PROVE  IInv'
  BY <1>0, <1>2, <1>3, <1>4 DEF Answered, CmdNames, RepNames
<1>5. ASSUME line.cmd = "CP", UNCHANGED ime,
             conn' = [conn EXCEPT !.out = Tail(@), !.in = Append(@, [re |-> "OK CP", comp |-> {}, has |-> "nolist"])]
      PROVE  IInv'
  BY <1>0, <1>2, <1>3, <1>5 DEF Answered, CmdNames, RepNames
<1>6. ASSUME line.cmd = "RESET", ime' = {}, NEW re \in {"OK RESET", "ERR"},
             conn' = [conn EXCEPT !.out = Tail(@), !.in = Append(@, [re |-> re, comp |-> {}, has |-> "nolist"])]
      PROVE  IInv'
  BY <1>0, <1>2, <1>3, <1>6 DEF Answered, CmdNames, RepNames
<1>7. ASSUME line.cmd \in {"TYPE", "CAND"}, NEW has \in {"list", "nolist", "err"},
             ime' \in IF line.cmd = "TYPE" THEN HostTypes(line.text) ELSE {ime},
             conn' = [conn EXCEPT !.out = Tail(@), !.in = Append(@, [re |-> "CAND_RET", comp |-> ime', has |-> has])]
      PROVE  IInv'
  <2>1. ime' \in Texts
    BY <1>0, <1>1, <1>7, HostTypesType
  <2> QED BY <2>1, <1>2, <1>7 DEF Answered, CmdNames, RepNames
<1>8. ASSUME UNCHANGED ime, conn' = [conn EXCEPT !.st = "closed", !.out = <<>>]
      PROVE  IInv'
  <2>1. conn' \in Conns /\ conn'.out = <<>> /\ conn'.in = conn.in
    BY <1>0, <1>8, ConnClosed
  <2>2. Cmds(<<>>) = {}
    BY DEF Cmds
  <2>3. One(conn') /\ (Idle(conn') \/ ~Idle(conn))
    BY <1>0, <2>1, <2>2 DEF One, Idle
  <2> QED BY <1>0, <1>8, <2>1, <2>3, HostKeeps
<1> QED BY <1>4, <1>5, <1>6, <1>7, <1>8 DEF HostServes

LEMMA HostServesOldKeeps == ASSUME IInv, HostServesOld, UNCHANGED asked PROVE IInv'
<1>0. /\ conn \in Conns /\ One(conn) /\ conn' = conn /\ ime \in Texts /\ HostStep
      /\ old \in Seq(Lines) /\ old # <<>> /\ old' = Tail(old)
  BY Types DEF HostServesOld
<1>1. old' \in Seq(Lines) /\ Head(old) \in Lines
  BY <1>0
<1>2. Head(old).text \ {Bulk} \in Texts /\ {} \in Texts
  BY <1>1 DEF Lines, Texts
<1>3. ime' \in Texts
  BY <1>0, <1>2, HostTypesType DEF HostServesOld
<1> QED BY <1>0, <1>1, <1>3, HostKeeps

LEMMA HostServesAnotherKeeps == ASSUME IInv, HostServesAnother, UNCHANGED asked PROVE IInv'
<1>1. ime' \in Texts
  BY Types DEF HostServesAnother, Texts, Other
<1> QED BY <1>1, Types, HostKeeps DEF HostServesAnother

LEMMA HostDiesKeeps == ASSUME IInv, HostDies, UNCHANGED asked PROVE IInv'
<1>0. conn \in Conns /\ One(conn) /\ HostStep /\ ime' \in Texts /\ old' \in Seq(Lines)
  BY Types DEF HostDies, Texts
<1>1. CASE conn.st = "none"
  BY <1>0, <1>1, HostKeeps DEF HostDies
<1>2. CASE conn.st # "none"
  <2>1. conn' = [conn EXCEPT !.st = "closed", !.out = <<>>]
    BY <1>2 DEF HostDies
  <2>2. conn' \in Conns /\ conn'.out = <<>> /\ conn'.in = conn.in
    BY <1>0, <2>1, ConnClosed
  <2>3. Cmds(<<>>) = {}
    BY DEF Cmds
  <2>4. One(conn') /\ (Idle(conn') \/ ~Idle(conn))
    BY <1>0, <2>2, <2>3 DEF One, Idle
  <2> QED BY <1>0, <2>2, <2>4, HostKeeps
<1> QED BY <1>1, <1>2

-----------------------------------------------------------------------------
(* The theorems.                                                           *)

LEMMA InvInit == Init => IInv
<1> SUFFICES ASSUME Init PROVE IInv
  OBVIOUS
<1>1. requests = <<Reset>> /\ Reset \in Requests /\ asked = Reset /\ Reset # NoRequest
  BY RequestTypes DEF Init
<1>2. conn = NoConn /\ conn \in Conns /\ Idle(conn) /\ One(conn)
  BY NoConnType, IdleIsOne DEF Init, LegacyInit
<1>3. Rest \in Legs /\ Rest.pc = "rest" /\ Rest.committed = "none"
  BY DEF Rest, Legs, LegPcs, LegOps, Texts
<1>4. TypeOK
  BY <1>1, <1>2, <1>3, BlankType DEF Init, LegacyInit, TypeOK, BackendTypeOK, LegacyTypeOK, Conns, Texts
<1>5. LegInv /\ Pipe
  BY <1>1, <1>3 DEF Init, LegacyInit, LegInv, Pipe, Serving
<1>6. ReplyMatches
  BY <1>2, MatchesIs
<1>7. Blank.list = NoList /\ NoList.from = "none"
  BY DEF Blank, NoList
<1>8. Listed /\ Real
  BY <1>3, <1>7 DEF Init, LegacyInit, Listed, CommitShown, Real, RealOnly
<1> QED BY <1>4, <1>5, <1>6, <1>8 DEF IInv

LEMMA StutterKeeps == ASSUME IInv, UNCHANGED vars PROVE IInv'
<1>1. TypeOK'
  BY DEF vars, legacyVars, IInv, TypeOK, BackendTypeOK, LegacyTypeOK
<1>2. LegInv' /\ Pipe'
  BY DEF vars, legacyVars, IInv, LegInv, Pipe, Serving
<1>3. ReplyMatches'
  <2>1. conn' = conn /\ leg' = leg
    BY DEF vars, legacyVars
  <2> QED BY <2>1, MatchesKept DEF IInv
<1>4. Listed' /\ Real'
  BY DEF vars, legacyVars, IInv, Listed, CommitShown, Real, RealOnly
<1> QED BY <1>1, <1>2, <1>3, <1>4 DEF IInv

LEMMA InvNext == IInv /\ [Next]_vars => IInv'
<1> SUFFICES ASSUME IInv, [Next]_vars PROVE IInv'
  OBVIOUS
<1>1. ASSUME Host, UNCHANGED asked PROVE IInv'
  BY <1>1, HostAcceptsKeeps, HostServesKeeps, HostServesOldKeeps, HostServesAnotherKeeps,
     HostDiesKeeps DEF Host
<1> QED BY <1>1, WorkerStepKeeps, DiesKeeps, CallKeeps, HandOverKeeps, ReceiveKeeps,
           SeeClosedKeeps, StutterKeeps DEF Next

LEMMA Invariance == Spec => []IInv
BY InvInit, InvNext, PTL DEF Spec

\* Pipe says of each place of a call what InStep says of all of them.
LEMMA InStepHolds == IInv => InStep
<1> SUFFICES ASSUME IInv, proc # "gone" PROVE InStep
  BY DEF InStep
<1> DEFINE busy == IF proc = "busy" /\ leg.op # "boot" THEN <<leg.op>> ELSE <<>>
           ops(q) == [i \in DOMAIN q |-> q[i].op]
<1>1. ops(<<>>) = <<>> /\ \A a : ops(<<a>>) = <<a.op>>
  OBVIOUS
<1>2. busy = IF Serving THEN <<leg.op>> ELSE <<>>
  BY DEF Serving
<1>3. InStep <=> (proc # "gone" =>
        ops(requests) \o busy \o ops(answers) = IF asked = NoRequest THEN <<>> ELSE <<asked.op>>)
  BY DEF InStep
<1> HIDE DEF ops, busy
<1>4. \A x : <<>> \o <<>> \o <<x>> = <<x>> /\ <<>> \o <<x>> \o <<>> = <<x>> /\ <<x>> \o <<>> \o <<>> = <<x>>
  OBVIOUS
<1>5. <<>> \o <<>> \o <<>> = <<>>
  OBVIOUS
<1> QED BY <1>1, <1>2, <1>3, <1>4, <1>5 DEF IInv, Pipe

\* Type correctness of every reachable state of Worker.
THEOREM TypeCorrect == Spec => []TypeOK
<1>1. IInv => TypeOK
  BY DEF IInv
<1> QED BY <1>1, Invariance, PTL

\* Of the pipe: whatever fails and whoever dies, requests and answers stay in
\* step, so that the answer which is read is the answer to the call
\* (WorkerProcess::request, run_worker_runtime_mode).
THEOREM PipeInStep == Spec => []InStep
BY Invariance, InStepHolds, PTL

\* Of the legacy backend: the reply that is taken for a command's is, through
\* every time limit, retry and dropped connection (send_command).
THEOREM RepliesMatch == Spec => []ReplyMatches
<1>1. IInv => ReplyMatches
  BY DEF IInv
<1> QED BY <1>1, Invariance, PTL

\* Of every backend: a commit by index takes a candidate that was shown
\* (commit_selection).
THEOREM CommitsShown == Spec => []CommitShown
<1>1. IInv => CommitShown
  BY DEF IInv, Listed
<1> QED BY <1>1, Invariance, PTL

\* Of the Win32 backend: under IME_WINIMM_FORCE_REAL no candidate is fabricated.
THEOREM NothingFabricated == Spec => []RealOnly
<1>1. IInv => RealOnly
  BY DEF IInv, Real
<1> QED BY <1>1, Invariance, PTL
-----------------------------------------------------------------------------
(* A call gets on.                                                         *)

\* What waits for the host to accept it has had no greeting.
Waits(c) == c.st = "queued" => c.in = <<>>
Queued == Waits(conn)

LEMMA SentWaits ==
    ASSUME NEW c \in Conns, NEW line
    PROVE  Sent(c, line).st = c.st /\ Sent(c, line).in = c.in
BY DEF Sent, Conns

LEMMA PastFields ==
    ASSUME NEW c \in Conns
    PROVE  PastLine(c).st = c.st /\ PastLine(c).in = Tail(c.in) /\ PastLine(c).out = c.out
BY DEF PastLine, Conns

LEMMA PastWaits ==
    ASSUME NEW c \in Conns, Waits(c), c.in # <<>>
    PROVE  PastLine(c) \in Conns /\ PastLine(c).st # "queued"
<1>1. Tail(c.in) \in Seq(Replies)
  BY ConnFields
<1>2. PastLine(c) \in Conns
  BY <1>1, ConnIn DEF PastLine
<1> QED BY <1>2, PastFields DEF Waits

\* A command that fails drops the connection or, before a reset, keeps it.
LEMMA FailWaits == ASSUME Queued, CommandFails PROVE Queued'
BY DEF CommandFails, DropConn, NoConn, Queued, Waits

LEMMA WorkerWaits == ASSUME IInv, Queued, LegacySteps PROVE Queued'
<1>0. conn \in Conns /\ Waits(conn)
  BY Types DEF Queued
<1>1. CASE Connect
  <2>1. conn'.in = <<>>
    BY <1>1 DEF Connect, NoConn
  <2> QED BY <2>1 DEF Queued, Waits
<1>2. CASE ConnectFails \/ ReadFails
  BY <1>2, FailWaits DEF ConnectFails, ReadFails
<1>3. CASE Reuse
  <2>1. PICK line : conn' = Sent(conn, line)
    BY <1>3 DEF Reuse, GoesOn
  <2> QED BY <2>1, <1>0, SentWaits DEF Queued, Waits
<1>4. ASSUME conn.in # <<>>, NEW line, conn' = PastLine(conn) \/ conn' = Sent(PastLine(conn), line)
      PROVE  Queued'
  BY <1>0, <1>4, PastWaits, SentWaits DEF Queued, Waits
<1>5. CASE PassOver \/ TakeActivate
  BY <1>4, <1>5 DEF PassOver, TakeActivate
<1>6. CASE TakeCodepage
  <2> DEFINE c == [PastLine(conn) EXCEPT !.activated = TRUE]
  <2>1. conn.in # <<>> /\ conn' = Sent(c, CommandLine(leg.cmd, mind.input))
    BY <1>6 DEF TakeCodepage, GoesOn
  <2>2. c \in Conns /\ c.st # "queued"
    <3>1. PastLine(conn) \in Conns /\ PastLine(conn).st # "queued"
      BY <2>1, <1>0, PastWaits
    <3> QED BY <3>1 DEF Conns
  <2> HIDE DEF c
  <2> QED BY <2>1, <2>2, SentWaits DEF Queued, Waits
<1>7. CASE TakeReset
  <2>1. conn.in # <<>> /\ conn' = [PastLine(conn) EXCEPT !.clean = TRUE]
    BY <1>7 DEF TakeReset
  <2>2. PastLine(conn) \in Conns /\ PastLine(conn).st # "queued"
    BY <2>1, <1>0, PastWaits
  <2>3. conn'.st = PastLine(conn).st
    BY <2>1, <2>2 DEF Conns
  <2> QED BY <2>2, <2>3 DEF Queued, Waits
<1>8. CASE TakeCandidates
  <2>1. conn.in # <<>> /\ (conn' = PastLine(conn) \/
          conn' = Sent(PastLine(conn), CommandLine(leg.cmd + 1, mind.input)))
    BY <1>8 DEF TakeCandidates
  <2> QED BY <1>4, <2>1
<1> QED BY <1>1, <1>2, <1>3, <1>5, <1>6, <1>7, <1>8 DEF LegacySteps

LEMMA Sums ==
    \A a, b, c, d, g, h \in Int :
        h <= g => /\ c + d <= a + b => c + d + h <= a + b + g
                  /\ c + d < a + b => c + d + h < a + b + g
OBVIOUS

LEMMA Moves ==
    \A a, b \in Nat :
        /\ a - 1 \in Int /\ b - 1 \in Int /\ b + 1 \in Int /\ a \in Int /\ b \in Int /\ 0 \in Int
        /\ (a - 1) + (b + 1) <= a + b /\ 0 + b <= a + b /\ a + b <= a + b
        /\ a + (b - 1) < a + b /\ a + (b - 1) <= a + b
OBVIOUS

\* Fewer lines on the connection, the greeting to come counted as one.
LEMMA UnreadFalls ==
    ASSUME Len(conn.out) \in Int, Len(conn.in) \in Int, Len(conn'.out) \in Int, Len(conn'.in) \in Int,
           Len(conn'.out) + Len(conn'.in) <= Len(conn.out) + Len(conn.in),
           conn'.st = "queued" => conn.st = "queued"
    PROVE  /\ Unread' <= Unread
           /\ Len(conn'.out) + Len(conn'.in) < Len(conn.out) + Len(conn.in) => Unread' < Unread
<1> DEFINE g == IF conn.st = "queued" THEN 1 ELSE 0
           h == IF conn'.st = "queued" THEN 1 ELSE 0
<1>1. g \in Int /\ h \in Int /\ h <= g
  OBVIOUS
<1>2. Unread = Len(conn.out) + Len(conn.in) + g /\ Unread' = Len(conn'.out) + Len(conn'.in) + h
  BY DEF Unread
<1> HIDE DEF g, h
<1> QED BY <1>1, <1>2, Sums, Zenon

\* The host writes one line for each that it takes, and a greeting for the
\* connection that it accepts.
HostKeepsUnread == Unread' <= Unread /\ Queued'

LEMMA HostUnread == ASSUME IInv, Queued, Host PROVE HostKeepsUnread
<1>0. conn \in Conns /\ conn.in \in Seq(Replies) /\ conn.out \in Seq(Lines)
  BY Types, ConnFields
<1>1. CASE HostAccepts
  <2> DEFINE q == <<Says("HELLO")>>
  <2>1. conn.in = <<>> /\ conn.st = "queued"
    BY <1>1 DEF HostAccepts, Queued, Waits
  <2>2. conn'.in = q /\ conn'.st = "served" /\ conn'.out = conn.out /\ Len(q) = 1
    BY <1>0, <1>1 DEF HostAccepts, Conns
  <2> HIDE DEF q
  <2> QED BY <2>1, <2>2, <1>0 DEF HostKeepsUnread, Unread, Queued, Waits
<1>2. ASSUME conn.st = "served", conn.out # <<>>, NEW e,
             conn' = [conn EXCEPT !.out = Tail(@), !.in = Append(@, e)]
      PROVE  HostKeepsUnread
  <2>1. /\ conn'.st = "served" /\ conn'.out = Tail(conn.out) /\ conn'.in = Append(conn.in, e)
    BY <1>0, <1>2 DEF Conns
  <2>2. Len(Tail(conn.out)) = Len(conn.out) - 1 /\ Len(Append(conn.in, e)) = Len(conn.in) + 1
        /\ Len(conn.out) \in Nat /\ Len(conn.in) \in Nat
    BY <1>0, <1>2
  <2>3. Len(conn'.out) = Len(conn.out) - 1 /\ Len(conn'.in) = Len(conn.in) + 1
    BY <2>1, <2>2
  <2>4. Unread' <= Unread
    <3>1. /\ Len(conn.out) \in Int /\ Len(conn.in) \in Int
          /\ Len(conn'.out) \in Int /\ Len(conn'.in) \in Int
          /\ Len(conn'.out) + Len(conn'.in) <= Len(conn.out) + Len(conn.in)
      BY <2>2, <2>3, Moves, Zenon
    <3> QED BY <3>1, <2>1, <1>2, UnreadFalls
  <2> QED BY <2>1, <2>4 DEF HostKeepsUnread, Queued, Waits
<1>3. ASSUME conn' = [conn EXCEPT !.st = "closed", !.out = <<>>] PROVE HostKeepsUnread
  <2>1. conn'.st = "closed" /\ conn'.out = <<>> /\ conn'.in = conn.in
    BY <1>0, <1>3 DEF Conns
  <2>2. Len(conn.out) \in Nat /\ Len(conn.in) \in Nat
    BY <1>0
  <2>3. Len(conn'.out) = 0 /\ Len(conn'.in) = Len(conn.in)
    BY <2>1
  <2>4. Unread' <= Unread
    <3>1. /\ Len(conn.out) \in Int /\ Len(conn.in) \in Int
          /\ Len(conn'.out) \in Int /\ Len(conn'.in) \in Int
          /\ Len(conn'.out) + Len(conn'.in) <= Len(conn.out) + Len(conn.in)
      BY <2>2, <2>3, Moves, Zenon
    <3> QED BY <3>1, <2>1, UnreadFalls
  <2> QED BY <2>1, <2>4 DEF HostKeepsUnread, Queued, Waits
<1>4. ASSUME conn' = conn PROVE HostKeepsUnread
  <2>1. Len(conn.out) \in Nat /\ Len(conn.in) \in Nat
    BY <1>0
  <2>2. Unread' <= Unread
    <3>1. /\ Len(conn.out) \in Int /\ Len(conn.in) \in Int
          /\ Len(conn.out) + Len(conn.in) <= Len(conn.out) + Len(conn.in)
      BY <2>1, Moves, Zenon
    <3> QED BY <3>1, <1>4, UnreadFalls
  <2> QED BY <2>2, <1>4 DEF HostKeepsUnread, Queued, Waits
<1>5. CASE HostServes
  <2>1. conn.st = "served" /\ conn.out # <<>>
    BY <1>5 DEF HostServes
  <2>2. \/ \E e : conn' = [conn EXCEPT !.out = Tail(@), !.in = Append(@, e)]
        \/ conn' = [conn EXCEPT !.st = "closed", !.out = <<>>]
    BY <1>5 DEF HostServes
  <2> QED BY <2>1, <2>2, <1>2, <1>3
<1>6. CASE HostServesOld \/ HostServesAnother
  BY <1>4, <1>6 DEF HostServesOld, HostServesAnother
<1>7. CASE HostDies
  BY <1>3, <1>4, <1>7 DEF HostDies
<1> QED BY <1>1, <1>5, <1>6, <1>7 DEF Host

\* No other step of the worker or of the gateway touches the lines.
Quiet ==
    \/ WorkerStep /\ ~LegacySteps
    \/ Dies \/ (\E req \in Requests : Call(req)) \/ HandOver \/ Receive \/ SeeClosed
    \/ UNCHANGED vars

LEMMA SameLines ==
    ASSUME IInv, Quiet
    PROVE  conn'.st = conn.st /\ conn'.in = conn.in /\ conn'.out = conn.out
<1>0. conn \in Conns
  BY Types
<1>1. CASE HandOver
  <2>1. conn' = [conn EXCEPT !.clean = FALSE]
    BY <1>1 DEF HandOver
  <2> QED BY <2>1, <1>0 DEF Conns
<1>2. CASE WorkerStep /\ ~LegacySteps
  BY <1>2 DEF legacyVars, WorkerStep, Boot, Snapshot, LegacyServes
<1>3. CASE Dies \/ (\E req \in Requests : Call(req)) \/ Receive \/ SeeClosed \/ UNCHANGED vars
  BY <1>3 DEF vars, legacyVars, Dies, Call, Receive, SeeClosed
<1> QED BY <1>1, <1>2, <1>3 DEF Quiet

LEMMA StepKinds == [Next]_vars => LegacySteps \/ Host \/ Quiet
BY DEF Next, Quiet

LEMMA QueuedNext == IInv /\ Queued /\ [Next]_vars => Queued'
<1> SUFFICES ASSUME IInv, Queued, [Next]_vars PROVE Queued'
  OBVIOUS
<1>1. CASE Quiet
  BY <1>1, SameLines DEF Queued, Waits
<1> QED BY <1>1, StepKinds, WorkerWaits, HostUnread DEF HostKeepsUnread

LEMMA QueuedAlways == Spec => []Queued
<1>1. Init => Queued
  BY DEF Init, LegacyInit, NoConn, Queued, Waits
<1> QED BY <1>1, Invariance, QueuedNext, PTL DEF Spec

\* A request that ends leaves the worker idle, or gone.
LEMMA EndsIdle ==
    ASSUME NEW m, NEW c, EndsOk(m, c) \/ EndsErr
    PROVE  proc' # "busy"
BY DEF EndsOk, EndsErr, AnswersOk, AnswersErr, Reply

LEMMA PlaceIs ==
    /\ Place["prepare"] = 1 /\ Place["activate"] = 2 /\ Place["codepage"] = 3 /\ Place["reply"] = 4
BY DEF Place

\* A failure ends the request, or is the first of two.
LEMMA FailsLater == ASSUME IInv, CommandFails, proc' = "busy" PROVE Later(leg, leg')
<1>0. leg \in Legs /\ leg.try \in 0 .. 2
  BY Types, LegFields
<1>1. leg.try = 1 /\ leg' = [leg EXCEPT !.pc = "prepare", !.try = 2]
  BY <1>0, EndsIdle DEF CommandFails
<1>2. leg'.cmd = leg.cmd /\ leg'.try = 2
  BY <1>0, <1>1 DEF Legs
<1> QED BY <1>1, <1>2 DEF Later

LEMMA GoesLater ==
    ASSUME IInv, NEW pc \in {"activate", "codepage"}, Goes(pc),
           leg.pc = "prepare" \/ (leg.pc = "activate" /\ pc = "codepage")
    PROVE  Later(leg, leg')
<1>0. leg \in Legs
  BY Types
<1>1. leg'.pc = pc /\ leg'.cmd = leg.cmd /\ leg'.try = leg.try
  BY <1>0 DEF Goes, Legs
<1> QED BY <1>1, PlaceIs DEF Later

LEMMA GoesOnLater ==
    ASSUME IInv, NEW c, GoesOn(c), leg.pc \in {"prepare", "codepage"}
    PROVE  Later(leg, leg')
<1> DEFINE try == IF leg.try = 0 THEN 1 ELSE leg.try
<1>0. leg \in Legs /\ leg.try \in 0 .. 2
  BY Types, LegFields
<1>1. leg' = [leg EXCEPT !.pc = "reply", !.try = try]
  BY DEF GoesOn
<1>2. try = leg.try \/ try > leg.try
  BY <1>0
<1> HIDE DEF try
<1>3. leg'.pc = "reply" /\ leg'.cmd = leg.cmd /\ leg'.try = try
  BY <1>0, <1>1 DEF Legs
<1> QED BY <1>2, <1>3, PlaceIs DEF Later

LEMMA StepProgress ==
    ASSUME IInv, Queued, LegacySteps, proc' = "busy"
    PROVE  Later(leg, leg') \/ (leg' = leg /\ Unread' < Unread /\ Unread' <= Unread)
<1>0. /\ conn \in Conns /\ conn.in \in Seq(Replies) /\ conn.out \in Seq(Lines)
      /\ leg \in Legs /\ leg.cmd \in 0 .. 4
  BY Types, ConnFields, LegFields
<1>1. CASE Connect
  BY <1>1, GoesLater DEF Connect
<1>2. CASE ConnectFails \/ ReadFails
  BY <1>2, FailsLater DEF ConnectFails, ReadFails
<1>3. CASE Reuse
  BY <1>3, GoesLater, GoesOnLater DEF Reuse
<1>4. CASE PassOver
  <2>1. conn.in # <<>> /\ conn' = PastLine(conn) /\ leg' = leg
    BY <1>4 DEF PassOver
  <2>2. Len(Tail(conn.in)) = Len(conn.in) - 1 /\ Len(conn.in) \in Nat /\ Len(conn.out) \in Nat
    BY <2>1, <1>0
  <2>3. /\ Len(conn'.in) = Len(conn.in) - 1 /\ Len(conn'.out) = Len(conn.out)
        /\ conn'.st = conn.st
    BY <1>0, <2>1, <2>2, PastFields
  <2>4. Unread' < Unread /\ Unread' <= Unread
    <3>1. /\ Len(conn.out) \in Int /\ Len(conn.in) \in Int
          /\ Len(conn'.out) \in Int /\ Len(conn'.in) \in Int
          /\ Len(conn'.out) + Len(conn'.in) <= Len(conn.out) + Len(conn.in)
          /\ Len(conn'.out) + Len(conn'.in) < Len(conn.out) + Len(conn.in)
      BY <2>2, <2>3, Moves, Zenon
    <3> QED BY <3>1, <2>3, UnreadFalls
  <2> QED BY <2>1, <2>4
<1>5. CASE TakeActivate
  BY <1>5, GoesLater DEF TakeActivate
<1>6. CASE TakeCodepage
  BY <1>6, GoesOnLater DEF TakeCodepage
<1>7. CASE TakeReset
  BY <1>7, EndsIdle DEF TakeReset
<1>8. CASE TakeCandidates
  <2> DEFINE comp == IF Head(conn.in).comp = {} THEN leg.comp ELSE Head(conn.in).comp
             cmd  == leg.cmd + 1
  <2>1. leg' = [leg EXCEPT !.cmd = cmd, !.try = 1, !.comp = comp]
    BY <1>8, EndsIdle DEF TakeCandidates
  <2>2. cmd > leg.cmd
    BY <1>0
  <2> HIDE DEF comp, cmd
  <2>3. leg'.cmd = cmd
    BY <2>1, <1>0 DEF Legs
  <2> QED BY <2>2, <2>3 DEF Later
<1> QED BY <1>1, <1>2, <1>3, <1>4, <1>5, <1>6, <1>7, <1>8 DEF LegacySteps

\* A worker that is busy and takes a step takes one of the legacy backend's.
LEMMA BusySteps == ASSUME WorkerStep, proc = "busy" PROVE LegacySteps
BY DEF WorkerStep, Boot, Snapshot, StubServes, StubKey, StubQuery, StubCommit, StubReset,
       WinImmServes, WinImmKey, WinImmQuery, WinImmCommit, WinImmReset, LegacyServes,
       LegacyKey, LegacyQuery, LegacyCommit, LegacyReset, Handles

LEMMA OtherProgress ==
    ASSUME IInv, Queued, [Next]_vars, ~WorkerStep
    PROVE  leg' = leg /\ Unread' <= Unread
<1>1. leg' = leg
  BY DEF Next, vars, legacyVars, Dies, Call, HandOver, Receive, SeeClosed, Host, HostAccepts,
         HostServes, HostServesOld, HostServesAnother, HostDies, HostStep
<1>2. CASE Host
  BY <1>1, <1>2, HostUnread DEF HostKeepsUnread
<1>3. CASE ~Host
  <2>1. Quiet
    BY <1>3 DEF Next, Quiet
  <2>2. conn'.st = conn.st /\ conn'.in = conn.in /\ conn'.out = conn.out
    BY <2>1, SameLines
  <2>3. Len(conn.out) \in Nat /\ Len(conn.in) \in Nat
    BY Types, ConnFields
  <2> QED BY <1>1, <2>2, <2>3 DEF Unread
<1> QED BY <1>2, <1>3

LEMMA BusyProgress ==
    ASSUME IInv, Queued, [Next]_vars, proc = "busy", proc' = "busy"
    PROVE  \/ Later(leg, leg')
           \/ leg' = leg /\ Unread' <= Unread /\ (WorkerStep => Unread' < Unread)
<1>1. CASE WorkerStep
  <2>1. Later(leg, leg') \/ (leg' = leg /\ Unread' < Unread /\ Unread' <= Unread)
    BY <1>1, BusySteps, StepProgress
  <2> QED BY <2>1
<1>2. CASE ~WorkerStep
  BY <1>2, OtherProgress
<1> QED BY <1>1, <1>2

\* Of the legacy backend: each of its steps ends the call, comes to a later
\* command, attempt or place, or takes a line off the connection, and the host
\* never adds to the lines, however often it hangs up, dies or starts again; so a
\* call has as many steps as those allow (send_command, read_line).
THEOREM CallsProgress == Spec => CallProgress
<1>1. IInv /\ Queued /\ [Next]_vars =>
        [proc = "busy" /\ proc' = "busy" =>
           \/ Later(leg, leg')
           \/ leg' = leg /\ Unread' <= Unread /\ (WorkerStep => Unread' < Unread)]_vars
  BY BusyProgress
<1> QED BY <1>1, Invariance, QueuedAlways, PTL DEF Spec, CallProgress
=============================================================================
