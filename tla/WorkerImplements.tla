-------------------------- MODULE WorkerImplements -------------------------
(***************************************************************************)
(* Proof that the pipe and the three backends implement ImeBackend.        *)
(*                                                                         *)
(* The mapping (Worker!Seen) reads the call off the pipe: the answer if    *)
(* there is one, else the request.  So a step of the worker that writes    *)
(* nothing is Work if it changes what the worker shows, and a stutter if   *)
(* it does not; that it is one or the other, and that a commit or a reset  *)
(* which ends well has left nothing to show, is the invariant Steady.      *)
(*                                                                         *)
(* The second half proves OwnKeys, which needs Steady too: the invariant   *)
(* Owned says of the connection, the host's IME and the backend whose      *)
(* letters they hold, from the acknowledged RESET on.                      *)
(***************************************************************************)
EXTENDS WorkerProofs

Booting == proc = "boot" \/ (proc = "busy" /\ leg.op = "boot")

\* Beside IInv: one answer at most is on its way, also from a process that is gone;
\* only the legacy backend takes several steps for a call, and its version has
\* grown by then; a boot belongs to the first reset; and what clears clears first.
Steady ==
    /\ answers = <<>> \/ \E a \in Answers : answers = <<a>>
    /\ proc = "busy" => mind.moved /\ env.kind = "legacy_tcp"
    /\ Booting => asked = Reset /\ answers = <<>>
    /\ proc = "busy" /\ leg.op \in {"boot", "commit", "reset"} =>
          mind.input = {} /\ mind.comp = {} /\ mind.list = NoList

\* What every step has to do.
Fine == Steady' /\ [Contract!ImeNext]_(Contract!imeVars)

LEMMA SeenIs ==
    /\ answers = <<>> => Seen = IF proc = "gone" THEN "none" ELSE asked.op
    /\ \A a : answers = <<a>> => Seen = IF a.ok THEN "ok" ELSE "failed"
BY DEF Seen

LEMMA SeenIsNext ==
    /\ answers' = <<>> => Seen' = IF proc' = "gone" THEN "none" ELSE asked'.op
    /\ \A a : answers' = <<a>> => Seen' = IF a.ok THEN "ok" ELSE "failed"
BY DEF Seen

LEMMA RequestOps == \A r \in Requests : r.op \in DOMAIN Args /\ r.op \in Contract!Ops
<1>1. \A op \in DOMAIN Args : op \in Contract!Ops
  BY DEF Args, Contract!Ops
<1>2. \A r \in Requests : r.op \in DOMAIN Args
  BY DEF Requests
<1> QED BY <1>1, <1>2

-----------------------------------------------------------------------------
(* The kinds of steps.                                                     *)

\* A step that shows nothing new and answers nothing.
LEMMA QuietFine ==
    ASSUME Steady, UNCHANGED <<env, mind, answers, asked>>,
           proc' = proc \/ (proc = "busy" /\ proc' = "ready"),
           proc = "busy" => leg'.op = leg.op \/ proc' = "ready",
           proc = "boot" => answers = <<>>
    PROVE  Fine
<1>1. Steady'
  BY DEF Steady, Booting
<1>2. Seen' = Seen
  BY DEF Seen
<1> QED BY <1>1, <1>2 DEF Fine, Contract!imeVars

\* A step that changes what the worker shows in the middle of a call.
LEMMA WorkFine ==
    ASSUME IInv, Steady, proc \in {"boot", "ready"}, proc' \in {"ready", "busy"}, NEW m \in Minds, m.moved,
           mind' = m, answers = <<>>, UNCHANGED <<env, answers, asked>>, asked # NoRequest,
           asked.op \in {"key", "query", "commit", "reset"},
           asked.op \in {"commit", "reset"} => m = Moved(Blank),
           proc' = "busy" => /\ env.kind = "legacy_tcp"
                             /\ \/ leg'.op = asked.op
                                \/ leg'.op = "boot" /\ asked = Reset
    PROVE  Fine
<1>1. m.list \in Lists /\ m.moved = TRUE
  BY MindFields
<1>2. Moved(Blank).comp = {} /\ Moved(Blank).list = NoList /\ Moved(Blank).input = {}
  BY BlankType DEF Moved, Blank
<1>3. Seen = asked.op /\ Seen' = asked.op
  BY SeenIs, SeenIsNext
<1>4. asked = Reset => asked.op = "reset"
  BY DEF Reset
<1>5. Steady'
  BY <1>2, <1>4 DEF Steady, Booting
<1>6. Contract!Work
  BY <1>1, <1>2, <1>3 DEF Contract!Work
<1> QED BY <1>5, <1>6 DEF Fine, Contract!ImeNext

\* m and a answer op the way ImeBackend says.
Honest(op, m, a) ==
    /\ \/ m.comp = mind.comp /\ m.list = mind.list /\ m.moved = mind.moved /\ ~Shows(a)
       \/ m.moved /\ op # "snapshot"
    /\ op \in {"commit", "reset"} /\ a.ok => m.comp = {} /\ m.list = NoList
    /\ op = "commit" /\ ~a.ok => m.comp = mind.comp /\ m.list = mind.list
    /\ op \in {"reset", "snapshot"} => a.ok

LEMMA ReplyFine ==
    ASSUME Steady, proc # "gone", answers = <<>>, asked \in Requests, asked' = asked,
           NEW op, asked.op = op, NEW m \in Minds, NEW a \in Answers, a.op = op,
           Honest(op, m, a), Reply(m, a)
    PROVE  Fine
<1>1. Seen = op /\ op \in Contract!Ops
  BY SeenIs, RequestOps
<1>2. m.list \in Lists /\ m.comp \in Texts /\ m.moved \in BOOLEAN /\ a.ok \in BOOLEAN
  BY MindFields DEF Answers
<1>3. CASE Fits(a)
  <2> DEFINE b == m.list.shown \/ (Shows(a) /\ m.list # NoList)
             n == [m EXCEPT !.list.shown = b]
  <2>1. answers' = <<a>> /\ proc' = "ready" /\ mind' = n /\ b \in BOOLEAN
    BY <1>3 DEF Reply
  <2>2. ~Shows(a) \/ m.list = NoList => b = m.list.shown
    BY MindFields
  <2> HIDE DEF b
  <2>3. n.comp = m.comp /\ n.moved = m.moved /\ n.list \in Lists
        /\ (b = m.list.shown => n.list = m.list)
    BY <2>1, <1>2 DEF Minds, Lists
  <2> HIDE DEF n
  <2>4. Steady'
    BY <2>1 DEF Steady, Booting
  <2>5. Seen' = IF a.ok THEN "ok" ELSE "failed"
    BY <2>1, SeenIsNext
  <2>6. op \in {"commit", "reset"} => ~Shows(a)
    BY DEF Shows
  <2>7. Contract!Answer(a.ok)
    BY <1>1, <1>2, <2>1, <2>2, <2>3, <2>5, <2>6 DEF Contract!Answer, Honest
  <2> QED BY <1>2, <2>4, <2>7 DEF Fine, Contract!ImeNext
<1>4. CASE ~Fits(a)
  <2>1. proc' = "gone" /\ mind' = m /\ answers' = <<>>
    BY <1>4 DEF Reply
  <2>2. Seen' = "none"
    BY <2>1, SeenIsNext
  <2>3. Steady'
    BY <2>1 DEF Steady, Booting
  <2>4. Contract!Break
    BY <1>2, <2>1, <2>2 DEF Contract!Break
  <2> QED BY <2>3, <2>4 DEF Fine, Contract!ImeNext
<1> QED BY <1>3, <1>4

\* A request that is served in one step.
LEMMA ServedFine ==
    ASSUME IInv, Steady, NEW kind, NEW op \in DOMAIN Args, Handles(kind, op), asked' = asked,
           NEW m \in Minds, NEW c \in Committeds,
           \/ AnswersOk(op, m, c) /\ Honest(op, m, Ok(op, m, c))
           \/ AnswersErr(op, m) /\ Honest(op, m, Err(op, m))
    PROVE  Fine
<1>1. /\ asked \in Requests /\ asked.op = op /\ answers = <<>> /\ proc = "ready"
  BY Types, Taken
<1>2. /\ Ok(op, m, c) \in Answers /\ Err(op, m) \in Answers
      /\ Ok(op, m, c).op = op /\ Err(op, m).op = op
  BY AnswerType
<1> QED BY <1>1, <1>2, ReplyFine DEF AnswersOk, AnswersErr

-----------------------------------------------------------------------------
(* The legacy backend's steps.                                             *)

LEMMA EndFine ==
    ASSUME IInv, Steady, BusyStep, leg' = Rest,
           \/ EndsOk(mind, leg.committed)
           \/ leg.cmd # 0 /\ EndsErr
           \/ leg.cmd # 0 /\ \E m \in Minds : EndsOk(m, "none") /\ m.moved
    PROVE  Fine
<1>0. /\ proc = "busy" /\ env' = env /\ asked' = asked /\ mind \in Minds /\ mind.moved
      /\ leg.op \in {"boot", "key", "query", "commit", "reset"}
      /\ leg.cmd # 0 => leg.op \in {"key", "query"}
      /\ leg.committed \in Committeds
  BY Types, LegFields DEF BusyStep, Busily, Unanswered, IInv, LegInv, LegOps, Steady
<1>1. CASE leg.op = "boot"
  BY <1>0, <1>1, QuietFine DEF EndsOk
<1>2. CASE leg.op # "boot"
  <2>1. leg.op \in DOMAIN Args
    BY <1>0, <1>2 DEF Args
  <2>2. asked \in Requests /\ asked.op = leg.op /\ answers = <<>>
    BY <1>0, <1>2, Types DEF IInv, Pipe, Serving
  <2>3. PICK m \in Minds, a \in Answers : Reply(m, a) /\ a.op = leg.op /\ Honest(leg.op, m, a)
    <3>1. ASSUME NEW m \in Minds, NEW c \in Committeds, EndsOk(m, c), m.moved,
                 m = mind \/ leg.op \in {"key", "query"}
          PROVE  Reply(m, Ok(leg.op, m, c)) /\ Honest(leg.op, m, Ok(leg.op, m, c))
      BY <3>1, <1>0, <1>2 DEF EndsOk, AnswersOk, Honest, Ok, Steady
    <3>2. ASSUME EndsErr, leg.cmd # 0
          PROVE  Reply(mind, Err(leg.op, mind)) /\ Honest(leg.op, mind, Err(leg.op, mind))
      BY <3>2, <1>0 DEF EndsErr, AnswersErr, Honest, Err
    <3>3. "none" \in Committeds
      BY DEF Committeds
    <3>4. \A m \in Minds, c \in Committeds :
             /\ Ok(leg.op, m, c) \in Answers /\ Ok(leg.op, m, c).op = leg.op
             /\ Err(leg.op, m) \in Answers /\ Err(leg.op, m).op = leg.op
      BY <2>1, AnswerType
    <3> QED BY <3>1, <3>2, <3>3, <3>4, <1>0
  <2> QED BY <2>2, <2>3, <1>0, ReplyFine
<1> QED BY <1>1, <1>2

LEMMA OnFine ==
    ASSUME IInv, Steady, BusyStep, UNCHANGED <<proc, mind, answers>>, leg'.op = leg.op
    PROVE  Fine
<1>1. proc = "busy" /\ env' = env /\ asked' = asked
  BY DEF BusyStep, Busily, Unanswered
<1> QED BY <1>1, QuietFine

LEMMA LegOpKept ==
    ASSUME leg \in Legs, NEW pc, NEW cmd, NEW try, NEW comp
    PROVE  /\ [leg EXCEPT !.pc = pc].op = leg.op
           /\ [leg EXCEPT !.cmd = cmd, !.try = try, !.comp = comp].op = leg.op
BY DEF Legs

LEMMA CommandFailsFine ==
    ASSUME IInv, Steady, BusyStep, CommandFails
    PROVE  Fine
<1>0. leg \in Legs /\ leg.try \in 0 .. 2
  BY Types, LegFields
<1>1. CASE leg.try = 1
  <2>1. leg' = [leg EXCEPT !.pc = "prepare", !.try = 2] /\ UNCHANGED <<proc, mind, answers>>
    BY <1>1 DEF CommandFails
  <2>2. leg'.op = leg.op
    BY <1>0, <2>1 DEF Legs
  <2> QED BY <2>1, <2>2, OnFine
<1>2. CASE leg.try # 1
  <2>1. EndsOk(mind, leg.committed) \/ (leg.cmd # 0 /\ EndsErr)
    BY <1>0, <1>2 DEF CommandFails
  <2>2. leg' = Rest
    BY <2>1 DEF EndsOk, EndsErr
  <2> QED BY <2>1, <2>2, EndFine
<1> QED BY <1>1, <1>2

LEMMA TakeCandidatesFine == ASSUME IInv, Steady, TakeCandidates, UNCHANGED asked PROVE Fine
<1> DEFINE reply == Head(conn.in)
           comp  == IF reply.comp = {} THEN leg.comp ELSE reply.comp
           list  == IF reply.has = "list" THEN New("legacy") ELSE NoList
           m     == [mind EXCEPT !.comp = comp, !.list = list]
<1>0. /\ leg \in Legs /\ mind \in Minds /\ conn \in Conns /\ BusyStep /\ leg.cmd # 0
      /\ conn.in # <<>> /\ leg.comp \in Texts /\ mind.moved
  BY Types, LegFields DEF TakeCandidates, Reads, BusyStep, Busily, Steady
<1>1. reply \in Replies /\ comp \in Texts
  <2>1. reply \in Replies
    BY <1>0, ConnFields
  <2> QED BY <2>1, <1>0 DEF Replies
<1>2. CASE reply.has = "err"
  BY <1>0, <1>2, EndFine DEF TakeCandidates, EndsErr
<1>3. CASE reply.has = "nolist" /\ leg.cmd < 4
  <2>1. leg' = [leg EXCEPT !.cmd = @ + 1, !.try = 1, !.comp = comp] /\ UNCHANGED <<proc, mind, answers>>
    BY <1>3 DEF TakeCandidates
  <2> HIDE DEF comp
  <2> QED BY <2>1, <1>0, LegOpKept, OnFine
<1>4. CASE ~(reply.has = "err") /\ ~(reply.has = "nolist" /\ leg.cmd < 4)
  <2>1. EndsOk(m, "none")
    BY <1>4 DEF TakeCandidates
  <2>2. list \in Lists
    BY NewType, BlankType DEF Froms
  <2>3. m \in Minds /\ m.moved
    <3> HIDE DEF comp, list
    <3> QED BY <1>0, <1>1, <2>2 DEF Minds
  <2>4. leg' = Rest
    BY <2>1 DEF EndsOk
  <2> HIDE DEF m
  <2> QED BY <1>0, <2>1, <2>3, <2>4, EndFine
<1> QED BY <1>2, <1>3, <1>4

LEMMA LegacyStepsFine == ASSUME IInv, Steady, LegacySteps, UNCHANGED asked PROVE Fine
<1>0. leg \in Legs
  BY Types
<1>1. CASE ConnectFails
  BY <1>1, CommandFailsFine DEF ConnectFails, BusyStep
<1>2. CASE ReadFails
  BY <1>2, CommandFailsFine DEF ReadFails, Reads, BusyStep
<1>3. CASE Connect \/ PassOver \/ TakeActivate
  <2>1. BusyStep /\ UNCHANGED <<proc, mind, answers>>
    BY <1>3 DEF Connect, PassOver, TakeActivate, Reads, BusyStep
  <2>2. leg'.op = leg.op
    <3>1. CASE Connect
      BY <1>0, <3>1, LegOpKept DEF Connect, Goes
    <3>2. CASE PassOver
      BY <1>0, <3>2, LegOpKept DEF PassOver, Goes
    <3>3. CASE TakeActivate
      BY <1>0, <3>3, LegOpKept DEF TakeActivate, Goes
    <3> QED BY <1>3, <3>1, <3>2, <3>3
  <2> QED BY <2>1, <2>2, OnFine
<1>4. CASE Reuse \/ TakeCodepage
  <2>1. BusyStep /\ UNCHANGED <<proc, mind, answers>>
    BY <1>4 DEF Reuse, TakeCodepage, Reads, BusyStep
  <2>2. \/ Goes("activate")
        \/ \E c : GoesOn(c)
    BY <1>4 DEF Reuse, TakeCodepage
  <2>3. leg'.op = leg.op
    <3>1. ASSUME NEW c, GoesOn(c) PROVE leg'.op = leg.op
      <4> DEFINE try == IF leg.try = 0 THEN 1 ELSE leg.try
      <4>1. leg' = [leg EXCEPT !.pc = "reply", !.try = try]
        BY <3>1 DEF GoesOn
      <4> HIDE DEF try
      <4> QED BY <1>0, <4>1 DEF Legs
    <3>2. ASSUME Goes("activate") PROVE leg'.op = leg.op
      BY <1>0, <3>2, LegOpKept DEF Goes
    <3> QED BY <2>2, <3>1, <3>2
  <2> QED BY <2>1, <2>3, OnFine
<1>5. CASE TakeReset
  BY <1>5, EndFine DEF TakeReset, Reads, BusyStep, EndsOk
<1> QED BY <1>1, <1>2, <1>3, <1>4, <1>5, TakeCandidatesFine DEF LegacySteps

-----------------------------------------------------------------------------
(* The operations.                                                         *)

LEMMA StartsFine ==
    ASSUME IInv, Steady, NEW op \in {"key", "query", "commit", "reset"}, Handles("legacy_tcp", op),
           NEW m \in Minds, m.moved, op \in {"commit", "reset"} => m = Moved(Blank),
           NEW cmd, NEW try, NEW c, Starts(op, m, cmd, try, c), UNCHANGED <<env, asked>>
    PROVE  Fine
<1>1. asked # NoRequest /\ asked.op = op /\ answers = <<>> /\ proc = "ready"
  BY Taken
<1>2. env.kind = "legacy_tcp" /\ proc' = "busy" /\ mind' = m /\ answers' = answers
  BY DEF Handles, Starts
<1>3. leg'.op = op
  BY DEF Starts
<1> QED BY <1>1, <1>2, <1>3, WorkFine

\* An answer to a key or a query, whatever it shows.
LEMMA UpdateFine ==
    ASSUME IInv, Steady, NEW kind, NEW op \in {"key", "query"}, Handles(kind, op), asked' = asked,
           NEW m \in Minds, m.moved, AnswersOk(op, m, "none") \/ AnswersErr(op, m)
    PROVE  Fine
<1>1. op \in DOMAIN Args /\ "none" \in Committeds
  BY DEF Args, Committeds
<1>2. Honest(op, m, Ok(op, m, "none")) /\ Honest(op, m, Err(op, m))
  BY DEF Honest, Ok, Err
<1> QED BY <1>1, <1>2, ServedFine

\* What the stub and the Win32 backend do for a commit and a reset.
LEMMA ClearFine ==
    ASSUME IInv, Steady, NEW kind, NEW op \in {"commit", "reset"}, Handles(kind, op), asked' = asked,
           NEW c \in Committeds,
           \/ AnswersOk(op, Moved(Blank), c)
           \/ op = "commit" /\ (AnswersErr(op, mind) \/ AnswersErr(op, Moved(mind)))
    PROVE  Fine
<1>1. op \in DOMAIN Args
  BY DEF Args
<1>2. Moved(Blank).comp = {} /\ Moved(Blank).list = NoList /\ Moved(Blank).moved = TRUE
  BY BlankType DEF Moved, Blank
<1>3. Honest(op, Moved(Blank), Ok(op, Moved(Blank), c))
  BY <1>2 DEF Honest, Ok
<1>4. /\ mind \in Minds /\ Moved(mind) \in Minds /\ Moved(mind).comp = mind.comp
      /\ Moved(mind).list = mind.list /\ Moved(mind).moved = TRUE
  <2>1. mind \in Minds
    BY Types
  <2> QED BY <2>1, MindMoved DEF Moved, Minds
<1>5. op = "commit" => Honest(op, mind, Err(op, mind)) /\ Honest(op, Moved(mind), Err(op, Moved(mind)))
  BY <1>4 DEF Honest, Err, Shows
<1>6. CASE AnswersOk(op, Moved(Blank), c)
  BY <1>1, <1>3, <1>6, BlankType, ServedFine
<1>7. CASE op = "commit" /\ AnswersErr(op, mind)
  BY <1>1, <1>4, <1>5, <1>7, ServedFine
<1>8. CASE op = "commit" /\ AnswersErr(op, Moved(mind))
  BY <1>1, <1>4, <1>5, <1>8, ServedFine
<1> QED BY <1>6, <1>7, <1>8

LEMMA UpdatesFine ==
    ASSUME IInv, Steady, NEW op \in {"key", "query"}, Handles("legacy_tcp", op),
           NEW m \in Minds, m.moved, Updates(op, m), UNCHANGED <<env, asked>>
    PROVE  Fine
<1>1. CASE m.input = {}
  <2> DEFINE n == [m EXCEPT !.comp = {}, !.list = NoList]
  <2>1. AnswersOk(op, n, "none")
    BY <1>1 DEF Updates
  <2>2. n \in Minds /\ n.moved
    BY BlankType DEF Minds, Texts
  <2> HIDE DEF n
  <2> QED BY <2>1, <2>2, UpdateFine
<1>2. CASE m.input # {}
  BY <1>2, StartsFine DEF Updates
<1> QED BY <1>1, <1>2

\* The fields with the input or the composition replaced, and the version grown.
LEMMA MovedWith ==
    ASSUME NEW m \in Minds, NEW text \in Texts, NEW list \in Lists
    PROVE  /\ [Moved(m) EXCEPT !.input = text] \in Minds /\ [Moved(m) EXCEPT !.input = text].moved = TRUE
           /\ [Moved(m) EXCEPT !.comp = text] \in Minds /\ [Moved(m) EXCEPT !.comp = text].moved = TRUE
           /\ [Moved(m) EXCEPT !.comp = text, !.list = list] \in Minds
           /\ [Moved(m) EXCEPT !.comp = text, !.list = list].moved = TRUE
           /\ Moved(m).input = m.input /\ Moved(m).comp = m.comp
BY DEF Moved, Minds

LEMMA LegacyServesFine == ASSUME IInv, Steady, LegacyServes, UNCHANGED asked PROVE Fine
<1>0. mind \in Minds /\ mind.input \in Texts /\ NoList \in Lists
  BY Types, MindFields, BlankType
<1>1. ASSUME LegacyKey, env' = env PROVE Fine
  <2>1. PICK text \in Typed(mind.input, Head(requests).arg) :
             Updates("key", [Moved(mind) EXCEPT !.input = text])
    BY <1>1 DEF LegacyKey
  <2>2. text \in Texts
    BY <1>0, TypedType
  <2> QED BY <2>1, <2>2, <1>0, <1>1, MovedWith, UpdatesFine DEF LegacyKey
<1>2. ASSUME LegacyQuery, env' = env PROVE Fine
  <2> DEFINE text == Snapped(Moved(mind).input, Head(requests).arg)
  <2>1. Updates("query", [Moved(mind) EXCEPT !.input = text])
    BY <1>2 DEF LegacyQuery
  <2>2. text \in Texts
    BY <1>0, MindMoved, SnappedType
  <2> HIDE DEF text
  <2> QED BY <2>1, <2>2, <1>0, <1>2, MovedWith, UpdatesFine DEF LegacyQuery
<1>3. ASSUME LegacyCommit, env' = env PROVE Fine
  <2> DEFINE took == Chosen(mind, Head(requests).arg)
  <2>1. Handles("legacy_tcp", "commit") /\ took \in Committeds
    BY <1>3, <1>0, ChosenType DEF LegacyCommit
  <2>2. AnswersErr("commit", mind) \/ Starts("commit", Moved(Blank), 0, 0, took)
    BY <1>3 DEF LegacyCommit
  <2>3. Moved(Blank) \in Minds /\ Moved(Blank).moved
    BY BlankType DEF Moved, Blank
  <2> HIDE DEF took
  <2> QED BY <2>1, <2>2, <2>3, <1>3, ClearFine, StartsFine
<1>4. ASSUME LegacyReset, env' = env PROVE Fine
  <2>1. Moved(Blank) \in Minds /\ Moved(Blank).moved
    BY BlankType DEF Moved, Blank
  <2> QED BY <2>1, <1>4, StartsFine DEF LegacyReset
<1> QED BY <1>1, <1>2, <1>3, <1>4, LegacyStepsFine DEF LegacyServes

LEMMA StubServesFine == ASSUME IInv, Steady, StubServes, UNCHANGED asked PROVE Fine
<1>0. mind \in Minds /\ mind.comp \in Texts
  BY Types, MindFields
<1>1. ASSUME NEW op \in {"key", "query"}, Handles("stub", op), NEW text \in Texts,
             AnswersOk(op, StubShows(mind, text), "none")
      PROVE  Fine
  <2> DEFINE m == StubShows(mind, text)
  <2>1. StubList(text) \in Lists
    BY NewType, BlankType DEF StubList, Froms
  <2>2. m \in Minds /\ m.moved = TRUE
    BY <1>0, <2>1, MovedWith DEF StubShows
  <2>3. AnswersOk(op, m, "none")
    BY <1>1
  <2> HIDE DEF m
  <2> QED BY <2>2, <2>3, <1>1, UpdateFine
<1>2. ASSUME StubKey PROVE Fine
  <2>1. PICK text \in Typed(mind.comp, Head(requests).arg) : AnswersOk("key", StubShows(mind, text), "none")
    BY <1>2 DEF StubKey
  <2> QED BY <1>0, <1>1, <1>2, <2>1, TypedType DEF StubKey
<1>3. ASSUME StubQuery PROVE Fine
  BY <1>0, <1>1, <1>3, SnappedType DEF StubQuery
<1>4. ASSUME StubCommit PROVE Fine
  BY <1>0, <1>4, ChosenType, ClearFine DEF StubCommit
<1>5. ASSUME StubReset PROVE Fine
  BY <1>5, ClearFine DEF StubReset, Committeds
<1> QED BY <1>2, <1>3, <1>4, <1>5 DEF StubServes

LEMMA WinImmServesFine == ASSUME IInv, Steady, WinImmServes, UNCHANGED asked PROVE Fine
<1>0. mind \in Minds /\ mind.comp \in Texts /\ ime \in Texts
  BY Types, MindFields
<1>1. ASSUME NEW op \in {"key", "query"}, Handles("win_imm", op), NEW typed \in Texts,
             NEW text \in Texts, NEW look, NEW n,
             n = Refreshed([Moved(mind) EXCEPT !.comp = typed], text, look),
             AnswersOk(op, n, "none") \/ AnswersErr(op, n) \/ AnswersOk(op, Faked(n), "none")
      PROVE  Fine
  <2> DEFINE b    == [Moved(mind) EXCEPT !.comp = typed]
             comp == IF text = {} THEN b.comp ELSE text
             list == IF look = "list" THEN New("imm") ELSE NoList
             fake == IF n.comp = {} THEN NoList ELSE New("fake")
  <2>1. b \in Minds /\ b.moved = TRUE
    BY <1>0, MovedWith, BlankType
  <2>2. b.comp \in Texts
    BY <2>1, MindFields
  <2>3. n = IF look \in {"error", "off"} THEN b ELSE [b EXCEPT !.comp = comp, !.list = list]
    BY <1>1 DEF Refreshed
  <2>4. comp \in Texts /\ list \in Lists /\ fake \in Lists
    BY <2>2, NewType, BlankType DEF Froms
  <2>5. Faked(n) = [n EXCEPT !.list = fake]
    BY DEF Faked
  <2> HIDE DEF b, comp, list, fake
  <2>6. n \in Minds /\ n.moved = TRUE
    BY <2>1, <2>3, <2>4 DEF Minds
  <2>7. Faked(n) \in Minds /\ Faked(n).moved = TRUE
    BY <2>4, <2>5, <2>6 DEF Minds
  <2> QED BY <2>6, <2>7, <1>1, UpdateFine
<1>2. ASSUME WinImmKey PROVE Fine
  <2>1. PICK typed \in Typed(mind.comp, Head(requests).arg), text \in ImeAfterKey, look \in Looks :
            LET m == Refreshed([Moved(mind) EXCEPT !.comp = typed], text, look) IN
            /\ ime' = text
            /\ IF look \in {"error", "off"}
               THEN IF env.force THEN AnswersErr("key", m)
                                 ELSE AnswersOk("key", Faked(m), "none")
               ELSE AnswersOk("key", IF Empty(m) /\ ~env.force THEN Faked(m) ELSE m, "none")
    BY <1>2 DEF WinImmKey
  <2>2. typed \in Texts /\ text \in Texts
    BY <1>0, TypedType, ImeTakesType
  <2> DEFINE n == Refreshed([Moved(mind) EXCEPT !.comp = typed], text, look)
  <2>3. AnswersOk("key", n, "none") \/ AnswersErr("key", n) \/ AnswersOk("key", Faked(n), "none")
    BY <2>1
  <2>4. Handles("win_imm", "key")
    BY <1>2 DEF WinImmKey
  <2> HIDE DEF n
  <2>5. n = Refreshed([Moved(mind) EXCEPT !.comp = typed], text, look)
    BY DEF n
  <2> QED BY <2>2, <2>3, <2>4, <2>5, <1>1
<1>3. ASSUME WinImmQuery PROVE Fine
  <2> DEFINE typed == Snapped(Moved(mind).comp, Head(requests).arg)
             b     == [Moved(mind) EXCEPT !.comp = typed]
  <2>1. PICK look \in Looks :
            LET m == Refreshed(b, ime, look) IN
            IF env.force /\ (Empty(m) \/ look \in {"error", "off"})
            THEN AnswersErr("query", m)
            ELSE AnswersOk("query", IF Empty(m) \/ look \in {"error", "off"}
                                    THEN Faked(m) ELSE m, "none")
    BY <1>3 DEF WinImmQuery
  <2>2. typed \in Texts
    BY <1>0, MindMoved, SnappedType
  <2> DEFINE n == Refreshed(b, ime, look)
  <2>3. AnswersOk("query", n, "none") \/ AnswersErr("query", n) \/ AnswersOk("query", Faked(n), "none")
    BY <2>1
  <2>4. Handles("win_imm", "query")
    BY <1>3 DEF WinImmQuery
  <2> HIDE DEF n, typed
  <2>5. n = Refreshed([Moved(mind) EXCEPT !.comp = typed], ime, look)
    BY DEF n
  <2> QED BY <2>2, <2>3, <2>4, <2>5, <1>0, <1>1
<1>4. ASSUME WinImmCommit PROVE Fine
  BY <1>0, <1>4, ChosenType, ClearFine DEF WinImmCommit
<1>5. ASSUME WinImmReset PROVE Fine
  BY <1>5, ClearFine DEF WinImmReset, Committeds
<1> QED BY <1>2, <1>3, <1>4, <1>5 DEF WinImmServes

-----------------------------------------------------------------------------
(* The rest of the worker, the gateway and the host.                       *)

LEMMA BlankShows ==
    /\ Blank.comp = {} /\ Blank.input = {} /\ Blank.list = NoList /\ Blank.moved = FALSE
    /\ Moved(Blank).comp = {} /\ Moved(Blank).moved = TRUE /\ Moved(Blank) \in Minds
BY BlankType DEF Blank, Moved

LEMMA BootFine == ASSUME IInv, Steady, Boot, UNCHANGED asked PROVE Fine
<1>1. /\ proc = "boot" /\ mind' = Moved(Blank) /\ UNCHANGED <<env, answers>>
      /\ asked = Reset /\ answers = <<>>
  BY DEF Boot, Starts, Steady, Booting
<1>2. asked.op = "reset" /\ asked # NoRequest
  BY <1>1, RequestTypes DEF Reset
<1>3. \/ proc' = "ready"
      \/ proc' = "busy" /\ env.kind = "legacy_tcp" /\ leg'.op = "boot"
  BY DEF Boot, Starts
<1> QED BY <1>1, <1>2, <1>3, BlankShows, WorkFine

LEMMA SnapshotFine == ASSUME IInv, Steady, Snapshot, UNCHANGED asked PROVE Fine
<1>1. Honest("snapshot", mind, Ok("snapshot", mind, "none"))
  BY DEF Honest, Ok, Shows
<1>2. "snapshot" \in DOMAIN Args /\ "none" \in Committeds /\ mind \in Minds
  BY Types DEF Args, Committeds
<1> QED BY <1>1, <1>2, ServedFine DEF Snapshot

LEMMA WorkerStepFine == ASSUME IInv, Steady, WorkerStep PROVE Fine
BY BootFine, SnapshotFine, StubServesFine, WinImmServesFine, LegacyServesFine DEF WorkerStep

LEMMA DiesFine == ASSUME IInv, Steady, Dies PROVE Fine
<1>1. Steady'
  BY DEF Dies, legacyVars, Steady, Booting
<1>2. Seen' \in {"none", Seen}
  BY DEF Dies, Seen
<1>3. mind.list \in Lists /\ mind.moved \in BOOLEAN
  BY Types, MindFields
<1>4. Contract!Break
  BY <1>2, <1>3 DEF Contract!Break, Dies
<1> QED BY <1>1, <1>4 DEF Fine, Contract!ImeNext

\* A call, a hand over included.
LEMMA AskFine ==
    ASSUME IInv, Steady, MayCall, NEW req \in Requests, asked' = req,
           mind'.list = mind.list, mind'.comp = {} <=> mind.comp = {}, mind'.moved = FALSE,
           UNCHANGED <<env, answers, proc, leg>>
    PROVE  Fine
<1>1. answers = <<>> /\ asked = NoRequest /\ proc # "gone" /\ ~Serving
  BY DEF MayCall, IInv, Pipe
<1>2. ~Booting
  BY <1>1, RequestTypes DEF Steady
<1>3. proc # "busy"
  BY <1>1, <1>2 DEF Serving, Booting
<1>4. Steady'
  BY <1>1, <1>2, <1>3 DEF Steady, Booting
<1>5. Seen = "none" /\ Seen' = req.op
  BY <1>1, SeenIs, SeenIsNext DEF NoRequest
<1>6. req.op \in Contract!Ops
  BY RequestOps
<1>7. Contract!Ask(req.op)
  BY <1>1, <1>5 DEF Contract!Ask
<1> QED BY <1>4, <1>6, <1>7 DEF Fine, Contract!ImeNext

LEMMA CallFine == ASSUME IInv, Steady, NEW req \in Requests, Call(req) PROVE Fine
<1>1. mind \in Minds
  BY Types
<1>2. mind'.list = mind.list /\ mind'.comp = mind.comp /\ mind'.moved = FALSE
  BY <1>1 DEF Call, Minds
<1> QED BY <1>2, AskFine DEF Call, legacyVars

LEMMA PassedKeeps == \A text : Passed(text) = {} <=> text = {}
BY DEF Passed

LEMMA HandOverFine == ASSUME IInv, Steady, HandOver PROVE Fine
<1>1. mind \in Minds
  BY Types
<1>2. mind' = [mind EXCEPT !.input = Passed(mind.input), !.comp = Passed(mind.comp), !.moved = FALSE]
  BY DEF HandOver
<1>3. mind'.list = mind.list /\ mind'.comp = Passed(mind.comp) /\ mind'.moved = FALSE
  BY <1>1, <1>2 DEF Minds
<1> QED BY <1>3, PassedKeeps, RequestTypes, AskFine DEF HandOver

LEMMA ReceiveFine == ASSUME IInv, Steady, Receive PROVE Fine
<1>1. PICK a \in Answers : answers = <<a>>
  BY DEF Steady, Receive
<1>2. answers' = <<>> /\ asked' = NoRequest /\ UNCHANGED <<env, mind, proc, leg>>
  BY <1>1 DEF Receive, legacyVars
<1>3. ~Booting
  BY <1>1 DEF Steady
<1>4. Steady'
  BY <1>2, <1>3 DEF Steady, Booting
<1>5. Seen \in {"ok", "failed"} /\ Seen' = "none"
  BY <1>1, <1>2, SeenIs, SeenIsNext DEF NoRequest
<1>6. Contract!Receive
  BY <1>2, <1>5 DEF Contract!Receive
<1> QED BY <1>4, <1>6 DEF Fine, Contract!ImeNext

LEMMA SeeClosedFine == ASSUME IInv, Steady, SeeClosed PROVE Fine
<1>1. proc = "gone" /\ answers = <<>> /\ UNCHANGED <<env, mind, answers, proc, leg>>
  BY DEF SeeClosed, legacyVars
<1>2. Steady'
  BY <1>1 DEF Steady, Booting
<1>3. Seen' = Seen
  BY <1>1, SeenIs, SeenIsNext
<1> QED BY <1>1, <1>2, <1>3 DEF Fine, Contract!imeVars

LEMMA HostFine == ASSUME Steady, HostStep, UNCHANGED asked PROVE Fine
<1>1. UNCHANGED <<env, mind, answers, proc, leg>>
  BY DEF HostStep
<1>2. proc = "boot" => answers = <<>>
  BY DEF Steady, Booting
<1> QED BY <1>1, <1>2, QuietFine

LEMMA StutterFine == ASSUME Steady, UNCHANGED vars PROVE Fine
<1>1. UNCHANGED <<env, mind, answers, proc, leg, asked>>
  BY DEF vars, legacyVars
<1>2. proc = "boot" => answers = <<>>
  BY DEF Steady, Booting
<1> QED BY <1>1, <1>2, QuietFine

-----------------------------------------------------------------------------
(* The theorem.                                                            *)

LEMMA SteadyInit == Init => Steady /\ Contract!ImeInit
<1> SUFFICES ASSUME Init PROVE Steady /\ Contract!ImeInit
  OBVIOUS
<1>1. /\ answers = <<>> /\ asked = Reset /\ proc = "boot" /\ mind = Blank
      /\ asked.op = "reset"
  BY DEF Init, Reset
<1>2. Steady
  BY <1>1 DEF Steady, Booting
<1>3. Seen = "reset"
  BY <1>1, SeenIs
<1> QED BY <1>1, <1>2, <1>3, BlankShows DEF Contract!ImeInit

LEMMA StepsFine == IInv /\ Steady /\ [Next]_vars => Fine
<1> SUFFICES ASSUME IInv, Steady, [Next]_vars PROVE Fine
  OBVIOUS
<1>1. Host => HostStep
  BY DEF Host, HostAccepts, HostServes, HostServesOld, HostServesAnother, HostDies
<1> QED BY <1>1, WorkerStepFine, DiesFine, CallFine, HandOverFine, ReceiveFine, SeeClosedFine,
           HostFine, StutterFine DEF Next

LEMMA SteadyInvariance == Spec => []Steady
<1>1. Init => Steady
  BY SteadyInit
<1>2. IInv /\ Steady /\ [Next]_vars => Steady'
  BY StepsFine DEF Fine
<1> QED BY <1>1, <1>2, Invariance, PTL DEF Spec

\* Of the pipe and the three backends: a worker is the object that ImeBackend
\* describes, whatever its host does and whenever it dies: a call is answered
\* once, the version tells what it shows, a commit or reset that succeeds leaves
\* nothing, and a commit that fails changes nothing (handle_backend_request).
THEOREM WorkerKeepsContract == Spec => BackendContract
<1>1. Init => Contract!ImeInit
  BY SteadyInit
<1>2. IInv /\ Steady /\ [Next]_vars => [Contract!ImeNext]_(Contract!imeVars)
  BY StepsFine DEF Fine
<1>3. Contract!ImeInit /\ [][Contract!ImeNext]_(Contract!imeVars) => BackendContract
  BY DEF BackendContract, Contract!ImeSpec
<1> QED BY <1>1, <1>2, <1>3, Invariance, SteadyInvariance, PTL DEF Spec

-----------------------------------------------------------------------------
(* Whose letters.                                                          *)

Mine(text) == Other \notin text
Elems(q)   == {q[i] : i \in DOMAIN q}

\* Only the lines that type carry a text, only their replies a composition.
Bare(c) ==
    /\ \A l \in Elems(c.out) : l.cmd \in {"TYPE", "CAND"} \/ l.text = {}
    /\ \A r \in Elems(c.in) : r.re = "CAND_RET" \/ r.comp = {}

LinesMine(c) ==
    /\ \A l \in Elems(c.out) : Mine(l.text)
    /\ \A r \in Elems(c.in) : Mine(r.comp)

Cleared(c) == \E r \in Elems(c.in) : r.re = "OK RESET"

\* Nothing comes back before the host has accepted the connection.
Reached(c) == c.clean \/ c.in # <<>> => c.st \in {"served", "closed"}

ShownMine == \A i \in DOMAIN answers : answers[i].ok => Mine(answers[i].comp)

\* From the host's acknowledged RESET on, nothing of another session is on the
\* connection, in the backend, or, while the host serves it, in the host's IME.
OwnLegacy ==
    /\ Bare(conn) /\ Reached(conn)
    /\ proc = "busy" /\ leg.cmd = 0 => leg.op \in {"boot", "commit", "reset"}
    /\ conn.clean => /\ Mine(mind.input) /\ Mine(mind.comp) /\ Mine(leg.comp)
                     /\ LinesMine(conn)
                     /\ ShownMine
    /\ conn.st = "served" /\ (conn.clean \/ Cleared(conn)) => Mine(ime)

\* The stub clears with the reset that hands it over.
OwnStub ==
    /\ proc # "gone" => Mine(mind.comp) \/ requests = <<Reset>>
    /\ ShownMine

Owned ==
    /\ env.kind = "legacy_tcp" => OwnLegacy
    /\ env.kind = "stub" => OwnStub

LEMMA OwnedShows == Owned => OwnKeys
BY DEF Owned, OwnLegacy, OwnStub, OwnKeys, ShownMine, Mine

LEMMA ElemsOf ==
    ASSUME NEW S, NEW q \in Seq(S)
    PROVE  /\ \A e \in S : Elems(Append(q, e)) = Elems(q) \cup {e}
           /\ q # <<>> => Elems(Tail(q)) \subseteq Elems(q) /\ Head(q) \in Elems(q)
<1>1. Len(q) \in Nat /\ DOMAIN q = 1 .. Len(q)
  OBVIOUS
<1>2. ASSUME NEW e \in S PROVE Elems(Append(q, e)) = Elems(q) \cup {e}
  <2> DEFINE p == Append(q, e)
  <2>1. DOMAIN p = 1 .. Len(q) + 1 /\ p[Len(q) + 1] = e /\ \A i \in 1 .. Len(q) : p[i] = q[i]
    OBVIOUS
  <2> HIDE DEF p
  <2>2. Elems(p) \subseteq Elems(q) \cup {e}
    BY <1>1, <2>1 DEF Elems
  <2>3. Elems(q) \cup {e} \subseteq Elems(p)
    <3>1. ASSUME NEW x \in Elems(q) PROVE x \in Elems(p)
      <4>1. PICK i \in 1 .. Len(q) : x = q[i]
        BY <1>1 DEF Elems
      <4>2. i \in DOMAIN p /\ p[i] = x
        BY <1>1, <2>1, <4>1
      <4> QED BY <4>2 DEF Elems
    <3>2. e \in Elems(p)
      <4>1. Len(q) + 1 \in DOMAIN p
        BY <1>1, <2>1
      <4> QED BY <4>1, <2>1 DEF Elems
    <3> QED BY <3>1, <3>2
  <2> QED BY <2>2, <2>3 DEF p
<1>3. ASSUME q # <<>> PROVE Elems(Tail(q)) \subseteq Elems(q) /\ Head(q) \in Elems(q)
  <2>1. /\ Len(q) >= 1 /\ Head(q) = q[1]
        /\ DOMAIN Tail(q) = 1 .. Len(q) - 1 /\ \A i \in 1 .. Len(q) - 1 : Tail(q)[i] = q[i + 1]
    BY <1>3
  <2>2. 1 \in DOMAIN q /\ \A i \in DOMAIN Tail(q) : i + 1 \in DOMAIN q
    BY <1>1, <2>1
  <2> QED BY <2>1, <2>2 DEF Elems
<1> QED BY <1>2, <1>3

LEMMA ElemsNone == Elems(<<>>) = {} /\ \A e : Elems(<<e>>) = {e}
<1>1. ASSUME NEW e PROVE Elems(<<e>>) = {e}
  <2>1. DOMAIN <<e>> = {1} /\ <<e>>[1] = e
    OBVIOUS
  <2> QED BY <2>1 DEF Elems
<1> QED BY <1>1 DEF Elems

\* A connection that owes nothing carries no letters.
LEMMA IdleMine ==
    ASSUME NEW c, Idle(c), Bare(c)
    PROVE  LinesMine(c) /\ ~Cleared(c)
<1>1. \A l \in Elems(c.out) : l.cmd \notin CmdNames
  BY DEF Idle, Cmds, Elems
<1>2. \A r \in Elems(c.in) : r.re \notin RepNames
  BY DEF Idle, Reps, Elems
<1> QED BY <1>1, <1>2 DEF LinesMine, Bare, Mine, Cleared, CmdNames, RepNames

LEMMA SentOwn ==
    ASSUME NEW c \in Conns, Bare(c), Reached(c),
           NEW line \in Lines, line.cmd \in {"TYPE", "CAND"} \/ line.text = {}
    PROVE  /\ Bare(Sent(c, line)) /\ Reached(Sent(c, line))
           /\ LinesMine(c) /\ Mine(line.text) => LinesMine(Sent(c, line))
           /\ Sent(c, line).st = c.st /\ Sent(c, line).clean = c.clean
           /\ Cleared(Sent(c, line)) <=> Cleared(c)
<1>1. CASE c.st = "closed"
  BY <1>1 DEF Sent
<1>2. CASE c.st # "closed"
  <2> DEFINE q == Append(c.out, line)
  <2>1. q \in Seq(Lines) /\ Elems(q) = Elems(c.out) \cup {line}
    BY ConnFields, ElemsOf
  <2>2. Sent(c, line) = [c EXCEPT !.out = q]
    BY <1>2 DEF Sent
  <2> HIDE DEF q
  <2>3. /\ Sent(c, line).out = q /\ Sent(c, line).in = c.in
        /\ Sent(c, line).st = c.st /\ Sent(c, line).clean = c.clean
    BY <2>2 DEF Conns
  <2> QED BY <2>1, <2>3 DEF Bare, Reached, LinesMine, Cleared
<1> QED BY <1>1, <1>2

LEMMA PastOwn ==
    ASSUME NEW c \in Conns, Bare(c), Reached(c), c.in # <<>>
    PROVE  /\ Bare(PastLine(c)) /\ Reached(PastLine(c))
           /\ LinesMine(c) => LinesMine(PastLine(c))
           /\ PastLine(c).st = c.st /\ PastLine(c).clean = c.clean
           /\ Cleared(PastLine(c)) => Cleared(c)
<1> DEFINE q == Tail(c.in)
<1>1. q \in Seq(Replies) /\ Elems(q) \subseteq Elems(c.in)
  BY ConnFields, ElemsOf
<1>2. PastLine(c) = [c EXCEPT !.in = q]
  BY DEF PastLine
<1> HIDE DEF q
<1>3. /\ PastLine(c).out = c.out /\ PastLine(c).in = q
      /\ PastLine(c).st = c.st /\ PastLine(c).clean = c.clean
  BY <1>2 DEF Conns
<1> QED BY <1>1, <1>3 DEF Bare, Reached, LinesMine, Cleared

-----------------------------------------------------------------------------
(* The legacy backend owns what it shows.                                  *)

\* What a step of the backend must keep of the connection.
Follows ==
    /\ Bare(conn') /\ Reached(conn')
    /\ conn'.st = "served" /\ (conn'.clean \/ Cleared(conn')) =>
          conn.st = "served" /\ (conn.clean \/ Cleared(conn))

\* The step goes on, with another line or another connection.
LEMMA OnOwn ==
    ASSUME OwnLegacy, BusyStep, UNCHANGED <<proc, mind, answers>>, Follows,
           conn'.clean => conn.clean /\ LinesMine(conn') /\ Mine(leg'.comp),
           leg'.op = leg.op, leg'.cmd = 0 => leg.cmd = 0
    PROVE  OwnLegacy'
<1>1. ime' = ime /\ proc' = proc
  BY DEF BusyStep, Busily, Unanswered
<1>2. ShownMine' <=> ShownMine
  BY DEF ShownMine
<1> QED BY <1>1, <1>2 DEF OwnLegacy, Follows

LEMMA ReplyShows ==
    ASSUME NEW m \in Minds, NEW a \in Answers, a.comp \subseteq m.comp, answers = <<>>, Reply(m, a)
    PROVE  /\ mind'.input = m.input /\ mind'.comp = m.comp /\ proc' \in {"ready", "gone"}
           /\ Mine(m.comp) => ShownMine'
<1>1. \A i \in DOMAIN <<a>> : <<a>>[i] = a
  OBVIOUS
<1>2. CASE Fits(a)
  <2> DEFINE b == m.list.shown \/ (Shows(a) /\ m.list # NoList)
  <2>1. answers' = <<a>> /\ mind' = [m EXCEPT !.list.shown = b] /\ proc' = "ready"
    BY <1>2 DEF Reply
  <2> HIDE DEF b
  <2>2. mind'.input = m.input /\ mind'.comp = m.comp
    BY <2>1 DEF Minds
  <2> QED BY <1>1, <2>1, <2>2 DEF ShownMine, Mine
<1>3. CASE ~Fits(a)
  BY <1>3 DEF Reply, ShownMine
<1> QED BY <1>2, <1>3

LEMMA AnswerShows ==
    \A op, m, c : Ok(op, m, c).comp \subseteq m.comp /\ Err(op, m).comp \subseteq m.comp
BY DEF Ok, Err

\* The step ends the request.
LEMMA EndOwn ==
    ASSUME IInv, Steady, OwnLegacy, BusyStep, leg' = Rest, Follows,
           NEW m \in Minds,
           conn'.clean => Mine(m.input) /\ Mine(m.comp) /\ LinesMine(conn'),
           \/ m = mind /\ EndsOk(m, leg.committed)
           \/ m = mind /\ leg.cmd # 0 /\ EndsErr
           \/ leg.cmd # 0 /\ EndsOk(m, "none")
    PROVE  OwnLegacy'
<1>0. /\ ime' = ime /\ proc = "busy"
      /\ leg.op \in {"boot", "key", "query", "commit", "reset"}
      /\ leg.cmd # 0 => leg.op \in {"key", "query"}
      /\ leg.committed \in Committeds
  BY Types, LegFields DEF BusyStep, Busily, Unanswered, IInv, LegInv, LegOps
<1>1. Mine(leg'.comp)
  BY DEF Rest, Mine
<1>2. /\ mind'.input = m.input /\ mind'.comp = m.comp /\ proc' \in {"ready", "gone"}
      /\ Mine(m.comp) => ShownMine'
  <2>1. CASE leg.op = "boot"
    <3>1. mind' = m /\ proc' = "ready" /\ answers' = <<>>
      BY <1>0, <2>1 DEF EndsOk, Steady, Booting
    <3> QED BY <3>1 DEF ShownMine
  <2>2. CASE leg.op # "boot"
    <3>1. leg.op \in DOMAIN Args /\ answers = <<>>
      BY <1>0, <2>2 DEF Args, IInv, Pipe, Serving
    <3>2. \A c \in Committeds : Ok(leg.op, m, c) \in Answers /\ Err(leg.op, m) \in Answers
      BY <3>1, AnswerType
    <3>3. PICK a \in Answers : Reply(m, a) /\ a.comp \subseteq m.comp
      BY <1>0, <2>2, <3>2, AnswerShows DEF EndsOk, EndsErr, AnswersOk, AnswersErr, Committeds
    <3> QED BY <3>1, <3>3, ReplyShows
  <2> QED BY <2>1, <2>2
<1> QED BY <1>0, <1>1, <1>2 DEF OwnLegacy, Follows

LEMMA NoConnOwn ==
    ASSUME conn' = NoConn
    PROVE  Follows /\ ~conn'.clean
<1>1. conn'.in = <<>> /\ conn'.out = <<>> /\ conn'.st = "none" /\ conn'.clean = FALSE
  BY DEF NoConn
<1> QED BY <1>1, ElemsNone DEF Follows, Bare, Reached

LEMMA CommandFailsOwn == ASSUME IInv, Steady, OwnLegacy, BusyStep, CommandFails PROVE OwnLegacy'
<1>0. leg \in Legs /\ mind \in Minds /\ leg.try \in 0 .. 2
  BY Types, LegFields
<1>1. CASE leg.try = 0
  <2>1. EndsOk(mind, leg.committed) /\ conn' = conn /\ leg' = Rest
    BY <1>1 DEF CommandFails, EndsOk
  <2>2. Follows /\ (conn'.clean => Mine(mind.input) /\ Mine(mind.comp) /\ LinesMine(conn'))
    BY <2>1 DEF Follows, OwnLegacy
  <2> QED BY <1>0, <2>1, <2>2, EndOwn
<1>2. ASSUME leg.try # 0
      PROVE  Follows /\ ~conn'.clean
  BY <1>2, NoConnOwn DEF CommandFails, DropConn
<1>3. CASE leg.try = 1
  <2>1. leg' = [leg EXCEPT !.pc = "prepare", !.try = 2] /\ UNCHANGED <<proc, mind, answers>>
    BY <1>3 DEF CommandFails
  <2>2. leg'.op = leg.op /\ leg'.cmd = leg.cmd
    BY <1>0, <2>1 DEF Legs
  <2> QED BY <1>2, <1>3, <2>1, <2>2, OnOwn
<1>4. CASE leg.try = 2
  <2>1. EndsOk(mind, leg.committed) \/ (leg.cmd # 0 /\ EndsErr)
    BY <1>4 DEF CommandFails
  <2>2. leg' = Rest
    BY <2>1 DEF EndsOk, EndsErr
  <2> QED BY <1>0, <1>2, <1>4, <2>1, <2>2, EndOwn
<1> QED BY <1>0, <1>1, <1>3, <1>4

\* A step that writes a line to a connection or passes one over.
LEMMA WritesOwn ==
    ASSUME OwnLegacy, BusyStep, UNCHANGED <<proc, mind, answers>>, Follows,
           conn'.clean = conn.clean, LinesMine(conn) /\ Mine(mind.input) => LinesMine(conn'),
           leg'.op = leg.op, leg'.cmd = leg.cmd, leg'.comp = leg.comp
    PROVE  OwnLegacy'
BY OnOwn DEF OwnLegacy

\* The connection as a step leaves it, if it starts as the old one goes on.
LEMMA GoesOnOwn ==
    ASSUME OwnLegacy, leg \in Legs, mind \in Minds, NEW c \in Conns, Bare(c), Reached(c),
           c.st = conn.st, c.clean = conn.clean, Cleared(c) => Cleared(conn),
           LinesMine(conn) => LinesMine(c), GoesOn(c)
    PROVE  /\ Follows /\ conn'.clean = conn.clean
           /\ LinesMine(conn) /\ Mine(mind.input) => LinesMine(conn')
           /\ leg'.op = leg.op /\ leg'.cmd = leg.cmd /\ leg'.comp = leg.comp
<1> DEFINE line == CommandLine(leg.cmd, mind.input)
           try  == IF leg.try = 0 THEN 1 ELSE leg.try
<1>1. line \in Lines
  BY LineTypes, LegFields, MindFields
<1>2. \/ line.text = {}
      \/ line.cmd \in {"TYPE", "CAND"} /\ line.text = mind.input
  <2>1. \A i \in 1 .. 4 : Commands[i] \in {"TYPE", "CAND"}
    BY DEF Commands
  <2> QED BY <2>1, LegFields DEF CommandLine, Line
<1>3. conn' = Sent(c, line) /\ leg' = [leg EXCEPT !.pc = "reply", !.try = try]
  BY DEF GoesOn
<1> HIDE DEF line, try
<1>4. leg'.op = leg.op /\ leg'.cmd = leg.cmd /\ leg'.comp = leg.comp
  BY <1>3 DEF Legs
<1>5. /\ Bare(conn') /\ Reached(conn') /\ conn'.st = c.st /\ conn'.clean = c.clean
      /\ Cleared(conn') <=> Cleared(c)
      /\ LinesMine(c) /\ Mine(line.text) => LinesMine(conn')
  BY <1>1, <1>2, <1>3, SentOwn
<1>6. Mine(mind.input) => Mine(line.text)
  BY <1>2 DEF Mine
<1> QED BY <1>4, <1>5, <1>6 DEF Follows

LEMMA LineOwn ==
    /\ Line("ACTIVATE") \in Lines /\ Line("CP") \in Lines
    /\ \A c : Line(c).text = {} /\ Mine(Line(c).text)
BY LineTypes DEF Line, Mine

LEMMA ConnectOwn == ASSUME OwnLegacy, Connect, UNCHANGED asked, leg \in Legs PROVE OwnLegacy'
<1> DEFINE q == <<Line("ACTIVATE")>>
<1>1. conn' = [NoConn EXCEPT !.st = "queued", !.out = q]
  BY DEF Connect
<1>2. Elems(q) = {Line("ACTIVATE")}
  BY ElemsNone
<1> HIDE DEF q
<1>3. conn'.out = q /\ conn'.in = <<>> /\ conn'.clean = FALSE /\ conn'.st = "queued"
  BY <1>1 DEF NoConn
<1>4. Follows
  BY <1>2, <1>3, ElemsNone, LineOwn DEF Follows, Bare, Reached
<1>5. leg'.op = leg.op /\ leg'.cmd = leg.cmd
  BY DEF Connect, Goes, Legs
<1> QED BY <1>3, <1>4, <1>5, OnOwn DEF Connect, BusyStep

LEMMA ReuseOwn == ASSUME IInv, OwnLegacy, Reuse, UNCHANGED asked PROVE OwnLegacy'
<1>0. /\ leg \in Legs /\ mind \in Minds /\ conn \in Conns /\ Bare(conn) /\ Reached(conn)
      /\ BusyStep /\ UNCHANGED <<proc, mind, answers>>
  BY Types DEF OwnLegacy, Reuse, BusyStep
<1>1. CASE conn.activated
  BY <1>0, <1>1, GoesOnOwn, WritesOwn DEF Reuse
<1>2. CASE ~conn.activated
  <2>1. conn' = Sent(conn, Line("ACTIVATE")) /\ Goes("activate")
    BY <1>2 DEF Reuse
  <2>2. leg'.op = leg.op /\ leg'.cmd = leg.cmd /\ leg'.comp = leg.comp
    BY <1>0, <2>1 DEF Goes, Legs
  <2>3. Follows /\ conn'.clean = conn.clean /\ (LinesMine(conn) => LinesMine(conn'))
    BY <1>0, <2>1, LineOwn, SentOwn DEF Follows
  <2> QED BY <1>0, <2>2, <2>3, WritesOwn
<1> QED BY <1>1, <1>2

LEMMA PassOverOwn == ASSUME IInv, OwnLegacy, PassOver, UNCHANGED asked PROVE OwnLegacy'
<1>0. /\ conn \in Conns /\ Bare(conn) /\ Reached(conn) /\ conn.in # <<>> /\ conn' = PastLine(conn)
      /\ BusyStep /\ UNCHANGED <<proc, mind, answers>> /\ leg' = leg
  BY Types DEF OwnLegacy, PassOver, Reads, BusyStep
<1>1. Follows /\ conn'.clean = conn.clean /\ (LinesMine(conn) => LinesMine(conn'))
  BY <1>0, PastOwn DEF Follows
<1> QED BY <1>0, <1>1, WritesOwn

LEMMA PastConns == ASSUME NEW c \in Conns, c.in # <<>> PROVE PastLine(c) \in Conns
<1>1. Tail(c.in) \in Seq(Replies)
  BY ConnFields
<1> QED BY <1>1, ConnIn DEF PastLine

LEMMA TakeActivateOwn == ASSUME IInv, OwnLegacy, TakeActivate, UNCHANGED asked PROVE OwnLegacy'
<1>0. /\ conn \in Conns /\ Bare(conn) /\ Reached(conn) /\ conn.in # <<>> /\ leg \in Legs
      /\ conn' = Sent(PastLine(conn), Line("CP")) /\ Goes("codepage")
      /\ BusyStep /\ UNCHANGED <<proc, mind, answers>>
  BY Types DEF OwnLegacy, TakeActivate, Reads, BusyStep
<1>1. leg'.op = leg.op /\ leg'.cmd = leg.cmd /\ leg'.comp = leg.comp
  BY <1>0 DEF Goes, Legs
<1>2. Follows /\ conn'.clean = conn.clean /\ (LinesMine(conn) => LinesMine(conn'))
  BY <1>0, PastConns, PastOwn, LineOwn, SentOwn DEF Follows
<1> QED BY <1>0, <1>1, <1>2, WritesOwn

LEMMA FlagsOwn ==
    ASSUME NEW c \in Conns, Bare(c), NEW d,
           d = [c EXCEPT !.activated = TRUE] \/ d = [c EXCEPT !.clean = TRUE]
    PROVE  /\ d \in Conns /\ Bare(d) /\ d.in = c.in /\ d.out = c.out /\ d.st = c.st
           /\ LinesMine(d) <=> LinesMine(c)
           /\ Cleared(d) <=> Cleared(c)
           /\ d = [c EXCEPT !.activated = TRUE] => d.clean = c.clean
<1>1. d \in Conns /\ d.in = c.in /\ d.out = c.out /\ d.st = c.st
  BY DEF Conns
<1>2. d = [c EXCEPT !.activated = TRUE] => d.clean = c.clean
  BY DEF Conns
<1> QED BY <1>1, <1>2 DEF Bare, LinesMine, Cleared

LEMMA TakeCodepageOwn == ASSUME IInv, OwnLegacy, TakeCodepage, UNCHANGED asked PROVE OwnLegacy'
<1> DEFINE d == [PastLine(conn) EXCEPT !.activated = TRUE]
<1>0. /\ conn \in Conns /\ Bare(conn) /\ Reached(conn) /\ conn.in # <<>> /\ leg \in Legs
      /\ mind \in Minds /\ GoesOn(d)
      /\ BusyStep /\ UNCHANGED <<proc, mind, answers>>
  BY Types DEF OwnLegacy, TakeCodepage, Reads, BusyStep
<1>1. /\ PastLine(conn) \in Conns /\ Bare(PastLine(conn)) /\ Reached(PastLine(conn))
      /\ LinesMine(conn) => LinesMine(PastLine(conn))
      /\ PastLine(conn).st = conn.st /\ PastLine(conn).clean = conn.clean
      /\ Cleared(PastLine(conn)) => Cleared(conn)
  BY <1>0, PastConns, PastOwn
<1>2. /\ d \in Conns /\ Bare(d) /\ d.in = PastLine(conn).in /\ d.st = conn.st /\ d.clean = conn.clean
      /\ LinesMine(conn) => LinesMine(d)
      /\ Cleared(d) => Cleared(conn)
  BY <1>1, FlagsOwn
<1> HIDE DEF d
<1>3. Reached(d)
  BY <1>1, <1>2 DEF Reached
<1> QED BY <1>0, <1>2, <1>3, GoesOnOwn, WritesOwn

\* The acknowledged RESET: nothing else is on the connection, the backend has
\* cleared, and the host's IME with the RESET.
LEMMA TakeResetOwn == ASSUME IInv, Steady, OwnLegacy, TakeReset, UNCHANGED asked PROVE OwnLegacy'
<1> DEFINE c == PastLine(conn)
<1>0. /\ conn \in Conns /\ One(conn) /\ Bare(conn) /\ Reached(conn) /\ conn.in # <<>>
      /\ Head(conn.in).re = "OK RESET" /\ BusyStep /\ leg.cmd = 0 /\ EndsOk(mind, leg.committed)
      /\ leg' = Rest /\ mind \in Minds /\ conn' = [c EXCEPT !.clean = TRUE] /\ proc = "busy"
  BY Types DEF OwnLegacy, TakeReset, Reads, BusyStep, Busily, Awaited, EndsOk
<1>1. mind.input = {} /\ mind.comp = {}
  BY <1>0 DEF OwnLegacy, Steady
<1>2. /\ c \in Conns /\ Idle(c) /\ Bare(c) /\ c.st = conn.st /\ LinesMine(c)
  BY <1>0, ReadLine, PastConns, PastOwn, IdleMine DEF RepNames
<1> HIDE DEF c
<1>3. Bare(conn') /\ conn'.st = conn.st /\ LinesMine(conn')
  BY <1>0, <1>2, FlagsOwn
<1>4. conn.st \in {"served", "closed"} /\ Cleared(conn)
  <2>1. Head(conn.in) \in Elems(conn.in)
    BY <1>0, ConnFields, ElemsOf
  <2> QED BY <1>0, <2>1 DEF Reached, Cleared
<1>5. Follows
  BY <1>3, <1>4 DEF Follows, Reached
<1> QED BY <1>0, <1>1, <1>3, <1>5, EndOwn DEF Mine

LEMMA TakeCandidatesOwn ==
    ASSUME IInv, Steady, OwnLegacy, TakeCandidates, UNCHANGED asked PROVE OwnLegacy'
<1> DEFINE reply == Head(conn.in)
           comp  == IF reply.comp = {} THEN leg.comp ELSE reply.comp
           list  == IF reply.has = "list" THEN New("legacy") ELSE NoList
           m     == [mind EXCEPT !.comp = comp, !.list = list]
           c     == PastLine(conn)
<1>0. /\ leg \in Legs /\ mind \in Minds /\ conn \in Conns /\ BusyStep /\ leg.cmd # 0
      /\ conn.in # <<>> /\ leg.comp \in Texts /\ Bare(conn) /\ Reached(conn) /\ leg.cmd \in 1 .. 4
      /\ mind.input \in Texts
  BY Types, LegFields, MindFields DEF OwnLegacy, TakeCandidates, Reads, BusyStep
<1>1. reply \in Elems(conn.in) /\ reply \in Replies
  BY <1>0, ConnFields, ElemsOf
<1>2. comp \in Texts /\ (conn.clean => Mine(comp))
  BY <1>0, <1>1 DEF OwnLegacy, LinesMine, Replies
<1>3. /\ c \in Conns /\ Bare(c) /\ Reached(c) /\ c.st = conn.st /\ c.clean = conn.clean
      /\ LinesMine(conn) => LinesMine(c)
      /\ Cleared(c) => Cleared(conn)
  BY <1>0, PastConns, PastOwn
<1>4. ASSUME conn' = c
      PROVE  Follows /\ conn'.clean = conn.clean
             /\ (conn'.clean => Mine(mind.input) /\ Mine(mind.comp) /\ LinesMine(conn'))
  BY <1>3, <1>4 DEF Follows, OwnLegacy
<1>5. CASE reply.has = "err"
  <2>1. EndsErr /\ conn' = c /\ leg' = Rest
    BY <1>5 DEF TakeCandidates, EndsErr
  <2> QED BY <2>1, <1>0, <1>4, EndOwn
<1>6. CASE reply.has = "nolist" /\ leg.cmd < 4
  <2> DEFINE cmd == leg.cmd + 1
             line == CommandLine(cmd, mind.input)
  <2>1. /\ leg' = [leg EXCEPT !.cmd = cmd, !.try = 1, !.comp = comp]
        /\ conn' = Sent(c, line) /\ UNCHANGED <<proc, mind, answers>>
    BY <1>6 DEF TakeCandidates
  <2>2. cmd \in 1 .. 4
    BY <1>0, <1>6
  <2>3. /\ line \in Lines /\ line.cmd \in {"TYPE", "CAND"} /\ line.text = mind.input
    <3>1. \A i \in 1 .. 4 : Commands[i] \in {"TYPE", "CAND"}
      BY DEF Commands
    <3>2. cmd # 0 /\ cmd \in 0 .. 4
      BY <2>2
    <3> HIDE DEF cmd
    <3> QED BY <1>0, <2>2, <3>1, <3>2, LineTypes DEF CommandLine
  <2> HIDE DEF cmd, line, comp, c, reply
  <2>4. leg'.op = leg.op /\ leg'.cmd = cmd /\ leg'.comp = comp
    BY <1>0, <2>1 DEF Legs
  <2>5. Follows /\ conn'.clean = conn.clean
        /\ (LinesMine(c) /\ Mine(line.text) => LinesMine(conn'))
    BY <2>1, <2>3, <1>3, SentOwn DEF Follows
  <2>6. conn'.clean => conn.clean /\ LinesMine(conn') /\ Mine(leg'.comp)
    BY <2>3, <2>4, <2>5, <1>2, <1>3 DEF OwnLegacy
  <2>7. leg'.cmd # 0
    BY <2>2, <2>4
  <2> QED BY <1>0, <2>1, <2>4, <2>5, <2>6, <2>7, OnOwn
<1>7. CASE ~(reply.has = "err") /\ ~(reply.has = "nolist" /\ leg.cmd < 4)
  <2>1. EndsOk(m, "none") /\ conn' = c
    BY <1>7 DEF TakeCandidates
  <2>2. list \in Lists
    BY NewType, BlankType DEF Froms
  <2>3. m \in Minds /\ m.input = mind.input /\ m.comp = comp
    <3> HIDE DEF comp, list
    <3> QED BY <1>0, <1>2, <2>2 DEF Minds
  <2>4. leg' = Rest
    BY <2>1 DEF EndsOk
  <2> HIDE DEF m
  <2> QED BY <1>0, <1>2, <1>4, <2>1, <2>3, <2>4, EndOwn
<1> QED BY <1>5, <1>6, <1>7

LEMMA LegacyStepsOwn == ASSUME IInv, Steady, OwnLegacy, LegacySteps, UNCHANGED asked PROVE OwnLegacy'
<1>1. CASE ConnectFails
  BY <1>1, CommandFailsOwn DEF ConnectFails, BusyStep
<1>2. CASE ReadFails
  BY <1>2, CommandFailsOwn DEF ReadFails, Reads, BusyStep
<1> QED BY <1>1, <1>2, Types, ConnectOwn, ReuseOwn, PassOverOwn, TakeActivateOwn, TakeCodepageOwn,
           TakeResetOwn, TakeCandidatesOwn DEF LegacySteps

LEMMA TypedMine == \A text, k : Mine(text) => \A x \in Typed(text, k) : Mine(x)
BY DEF Typed, Mine, Own, Other

LEMMA SnappedMine == \A text, k : Mine(text) => Mine(Snapped(text, k))
BY DEF Snapped, Mine, Own, Other, Bulk

\* A request that the backend starts to serve, or answers at once.
LEMMA StartsOwn ==
    ASSUME OwnLegacy, NEW m \in Minds, Mine(mind.input) => Mine(m.input),
           Mine(mind.comp) => Mine(m.comp),
           NEW op, NEW cmd, NEW try, NEW c, Starts(op, m, cmd, try, c),
           cmd = 0 => op \in {"boot", "commit", "reset"}, UNCHANGED <<ime, conn>>
    PROVE  OwnLegacy'
<1>1. leg'.op = op /\ leg'.cmd = cmd /\ leg'.comp = m.input /\ mind' = m
  BY DEF Starts
<1>2. ShownMine' <=> ShownMine
  BY DEF ShownMine, Starts
<1> QED BY <1>1, <1>2 DEF OwnLegacy

LEMMA ServedOwn ==
    ASSUME IInv, OwnLegacy, NEW kind, NEW op \in DOMAIN Args, Handles(kind, op),
           NEW m \in Minds, Mine(mind.input) => Mine(m.input), Mine(mind.comp) => Mine(m.comp),
           NEW c \in Committeds, AnswersOk(op, m, c) \/ AnswersErr(op, m), UNCHANGED <<ime, conn, leg>>
    PROVE  OwnLegacy'
<1>1. answers = <<>>
  BY Taken
<1>2. PICK a \in Answers : Reply(m, a) /\ a.comp \subseteq m.comp
  BY AnswerType, AnswerShows DEF AnswersOk, AnswersErr
<1>3. /\ mind'.input = m.input /\ mind'.comp = m.comp /\ proc' \in {"ready", "gone"}
      /\ Mine(m.comp) => ShownMine'
  BY <1>1, <1>2, ReplyShows
<1> QED BY <1>3 DEF OwnLegacy

LEMMA BlankMine == Mine(Moved(Blank).input) /\ Mine(Moved(Blank).comp)
BY BlankShows, BlankType DEF Mine

LEMMA UpdatesOwn ==
    ASSUME IInv, OwnLegacy, NEW op \in {"key", "query"}, Handles("legacy_tcp", op),
           NEW m \in Minds, Mine(mind.input) => Mine(m.input), Mine(mind.comp) => Mine(m.comp),
           Updates(op, m), UNCHANGED <<ime, conn>>
    PROVE  OwnLegacy'
<1>1. CASE m.input = {}
  <2> DEFINE n == [m EXCEPT !.comp = {}, !.list = NoList]
  <2>1. AnswersOk(op, n, "none") /\ leg' = leg
    BY <1>1 DEF Updates
  <2>2. n \in Minds /\ n.comp = {} /\ n.input = m.input
    BY BlankType DEF Minds, Texts
  <2> HIDE DEF n
  <2> QED BY <2>1, <2>2, ServedOwn DEF Args, Committeds, Mine
<1>2. CASE m.input # {}
  <2>1. Starts(op, m, 1, 1, "none")
    BY <1>2 DEF Updates
  <2> QED BY <2>1, StartsOwn
<1> QED BY <1>1, <1>2

LEMMA LegacyServesOwn == ASSUME IInv, Steady, OwnLegacy, LegacyServes, UNCHANGED asked PROVE OwnLegacy'
<1>0. mind \in Minds /\ mind.input \in Texts /\ mind.comp \in Texts /\ NoList \in Lists
      /\ Moved(mind).input = mind.input /\ Moved(mind) \in Minds
  BY Types, MindFields, MindMoved, BlankType
<1>1. ASSUME NEW text \in Texts
      PROVE  /\ [Moved(mind) EXCEPT !.input = text] \in Minds
             /\ [Moved(mind) EXCEPT !.input = text].input = text
             /\ [Moved(mind) EXCEPT !.input = text].comp = mind.comp
  BY <1>0 DEF Moved, Minds
<1>2. ASSUME LegacyKey, UNCHANGED <<ime, conn>> PROVE OwnLegacy'
  <2>1. PICK text \in Typed(mind.input, Head(requests).arg) :
             Updates("key", [Moved(mind) EXCEPT !.input = text])
    BY <1>2 DEF LegacyKey
  <2>2. text \in Texts /\ (Mine(mind.input) => Mine(text))
    BY <1>0, TypedType, TypedMine
  <2> QED BY <2>1, <2>2, <1>1, <1>2, UpdatesOwn DEF LegacyKey
<1>3. ASSUME LegacyQuery, UNCHANGED <<ime, conn>> PROVE OwnLegacy'
  <2> DEFINE text == Snapped(Moved(mind).input, Head(requests).arg)
  <2>1. Updates("query", [Moved(mind) EXCEPT !.input = text])
    BY <1>3 DEF LegacyQuery
  <2>2. text \in Texts /\ (Mine(mind.input) => Mine(text))
    BY <1>0, SnappedType, SnappedMine
  <2> HIDE DEF text
  <2> QED BY <2>1, <2>2, <1>1, <1>3, UpdatesOwn DEF LegacyQuery
<1>4. ASSUME LegacyCommit, UNCHANGED <<ime, conn>> PROVE OwnLegacy'
  <2> DEFINE took == Chosen(mind, Head(requests).arg)
  <2>1. Handles("legacy_tcp", "commit")
    BY <1>4 DEF LegacyCommit
  <2>2. \/ AnswersErr("commit", mind) /\ leg' = leg
        \/ Starts("commit", Moved(Blank), 0, 0, took)
    BY <1>4 DEF LegacyCommit
  <2> HIDE DEF took
  <2>3. CASE AnswersErr("commit", mind) /\ leg' = leg
    BY <1>0, <2>1, <2>3, <1>4, ServedOwn DEF Args, Committeds
  <2>4. CASE Starts("commit", Moved(Blank), 0, 0, took)
    BY <2>4, <1>4, BlankShows, BlankMine, StartsOwn
  <2> QED BY <2>2, <2>3, <2>4
<1>5. ASSUME LegacyReset, UNCHANGED <<ime, conn>> PROVE OwnLegacy'
  BY <1>5, BlankShows, BlankMine, StartsOwn DEF LegacyReset
<1> QED BY <1>2, <1>3, <1>4, <1>5, LegacyStepsOwn DEF LegacyServes

LEMMA WorkerStepOwn ==
    ASSUME IInv, Steady, env.kind = "legacy_tcp", OwnLegacy, WorkerStep
    PROVE  OwnLegacy'
<1>1. CASE Boot
  <2>1. Starts("boot", Moved(Blank), 0, 0, "none") /\ UNCHANGED <<ime, conn>>
    BY <1>1 DEF Boot
  <2> QED BY <2>1, BlankShows, BlankMine, StartsOwn
<1>2. CASE Snapshot
  <2>1. /\ Handles(env.kind, "snapshot") /\ AnswersOk("snapshot", mind, "none")
        /\ UNCHANGED <<ime, conn, leg>> /\ mind \in Minds
    BY <1>2, Types DEF Snapshot, legacyVars
  <2> QED BY <2>1, ServedOwn DEF Args, Committeds
<1>3. ~StubServes /\ ~WinImmServes
  BY DEF StubServes, StubKey, StubQuery, StubCommit, StubReset,
         WinImmServes, WinImmKey, WinImmQuery, WinImmCommit, WinImmReset, Handles
<1> QED BY <1>1, <1>2, <1>3, LegacyServesOwn DEF WorkerStep

-----------------------------------------------------------------------------
(* The stub owns what it shows.                                            *)

LEMMA StubServedOwn ==
    ASSUME IInv, OwnStub, NEW op \in DOMAIN Args, Handles("stub", op),
           NEW m \in Minds, Mine(mind.comp) \/ op = "reset" => Mine(m.comp),
           NEW c \in Committeds, AnswersOk(op, m, c) \/ AnswersErr(op, m)
    PROVE  OwnStub'
<1>1. answers = <<>> /\ asked.op = op /\ requests = <<asked>> /\ proc = "ready"
  BY Taken
<1>2. op # "reset" => Mine(mind.comp)
  <2>1. op # "reset" => asked # Reset
    BY <1>1 DEF Reset
  <2>2. <<asked>> = <<Reset>> => asked = Reset
    OBVIOUS
  <2> QED BY <1>1, <2>1, <2>2 DEF OwnStub
<1>3. PICK a \in Answers : Reply(m, a) /\ a.comp \subseteq m.comp
  BY AnswerType, AnswerShows DEF AnswersOk, AnswersErr
<1>4. mind'.comp = m.comp /\ (Mine(m.comp) => ShownMine')
  BY <1>1, <1>3, ReplyShows
<1> QED BY <1>2, <1>4 DEF OwnStub

LEMMA StubWorkerStepOwn ==
    ASSUME IInv, Steady, env.kind = "stub", OwnStub, WorkerStep
    PROVE  OwnStub'
<1>0. mind \in Minds /\ mind.comp \in Texts /\ "none" \in Committeds
  BY Types, MindFields DEF Committeds
<1>1. CASE Boot
  <2>1. mind' = Moved(Blank) /\ answers' = answers
    BY <1>1 DEF Boot
  <2> QED BY <2>1, BlankMine DEF OwnStub, ShownMine
<1>2. CASE Snapshot
  BY <1>0, <1>2, StubServedOwn DEF Snapshot, Args
<1>3. CASE StubServes
  <2>1. ASSUME NEW op \in {"key", "query"}, Handles("stub", op), NEW text \in Texts,
               Mine(mind.comp) => Mine(text), AnswersOk(op, StubShows(mind, text), "none")
        PROVE  OwnStub'
    <3> DEFINE m == StubShows(mind, text)
               list == StubList(text)
    <3>1. list \in Lists
      BY NewType, BlankType DEF StubList, Froms
    <3>2. m = [Moved(mind) EXCEPT !.comp = text, !.list = list] /\ Moved(mind) \in Minds
      BY <1>0, MindMoved DEF StubShows
    <3> HIDE DEF list
    <3>3. m \in Minds /\ m.comp = text
      BY <2>1, <3>1, <3>2 DEF Minds
    <3>4. AnswersOk(op, m, "none")
      BY <2>1
    <3> HIDE DEF m
    <3> QED BY <1>0, <2>1, <3>3, <3>4, StubServedOwn DEF Args
  <2>2. ASSUME StubKey PROVE OwnStub'
    <3>1. PICK text \in Typed(mind.comp, Head(requests).arg) : AnswersOk("key", StubShows(mind, text), "none")
      BY <2>2 DEF StubKey
    <3> QED BY <1>0, <2>1, <2>2, <3>1, TypedType, TypedMine DEF StubKey
  <2>3. ASSUME StubQuery PROVE OwnStub'
    BY <1>0, <2>1, <2>3, SnappedType, SnappedMine DEF StubQuery
  <2>4. ASSUME StubCommit PROVE OwnStub'
    <3> DEFINE took == Chosen(mind, Head(requests).arg)
    <3>1. Handles("stub", "commit") /\ took \in Committeds
      BY <2>4, <1>0, ChosenType DEF StubCommit
    <3>2. AnswersErr("commit", mind) \/ AnswersOk("commit", Moved(Blank), took)
      BY <2>4 DEF StubCommit
    <3> HIDE DEF took
    <3> QED BY <1>0, <3>1, <3>2, BlankShows, BlankMine, StubServedOwn DEF Args
  <2>5. ASSUME StubReset PROVE OwnStub'
    BY <1>0, <2>5, BlankShows, BlankMine, StubServedOwn DEF StubReset, Args
  <2> QED BY <1>3, <2>2, <2>3, <2>4, <2>5 DEF StubServes
<1>4. ~WinImmServes
  BY DEF WinImmServes, WinImmKey, WinImmQuery, WinImmCommit, WinImmReset, Handles
<1>5. ~LegacyServes
  <2>1. LegacySteps => proc = "busy"
    BY DEF LegacySteps, Connect, ConnectFails, Reuse, PassOver, ReadFails, TakeActivate,
           TakeCodepage, TakeReset, TakeCandidates, Reads, Busily
  <2> QED BY <2>1 DEF Steady, LegacyServes, LegacyKey, LegacyQuery, LegacyCommit, LegacyReset, Handles
<1> QED BY <1>1, <1>2, <1>3, <1>4, <1>5 DEF WorkerStep

-----------------------------------------------------------------------------
(* The gateway's steps.                                                    *)

\* Nothing of the worker changes; answers may be taken.
LEMMA RestOwn ==
    ASSUME Owned, UNCHANGED <<env, ime, conn, leg>>, mind'.input = mind.input, mind'.comp = mind.comp,
           proc' = "gone" \/ proc' = proc, requests' = requests \/ requests = <<>>,
           env.kind = "stub" /\ requests' # requests => Mine(mind.comp),
           \A i \in DOMAIN answers' : \E j \in DOMAIN answers : answers'[i] = answers[j]
    PROVE  Owned'
<1>1. ShownMine => ShownMine'
  BY DEF ShownMine
<1>2. env.kind = "legacy_tcp" => OwnLegacy'
  BY <1>1 DEF Owned, OwnLegacy
<1>3. env.kind = "stub" => OwnStub'
  BY <1>1 DEF Owned, OwnStub
<1> QED BY <1>2, <1>3 DEF Owned

LEMMA CallOwn == ASSUME IInv, Owned, NEW req \in Requests, Call(req) PROVE Owned'
<1>1. mind \in Minds /\ requests = <<>> /\ proc # "gone"
  BY Types DEF Call, MayCall, IInv, Pipe
<1>2. mind'.input = mind.input /\ mind'.comp = mind.comp
  BY <1>1 DEF Call, Minds
<1>3. env.kind = "stub" => Mine(mind.comp)
  <2>1. <<>> # <<Reset>>
    OBVIOUS
  <2> QED BY <1>1, <2>1 DEF Owned, OwnStub
<1> QED BY <1>1, <1>2, <1>3, RestOwn DEF Call, legacyVars

LEMMA HandOverOwn == ASSUME IInv, Steady, Owned, HandOver PROVE Owned'
<1>1. /\ requests = <<>> /\ answers = <<>> /\ asked = NoRequest /\ proc # "gone" /\ ~Serving
  BY DEF HandOver, MayCall, IInv, Pipe
<1>2. proc = "ready"
  BY <1>1, RequestTypes, Types DEF Steady, Booting, Serving
<1>3. /\ conn \in Conns /\ Idle(conn)
  BY <1>2, Types DEF IInv, LegInv
<1>4. /\ conn'.clean = FALSE /\ conn'.in = conn.in /\ conn'.out = conn.out /\ conn'.st = conn.st
      /\ UNCHANGED <<env, answers, proc, leg>>
  BY <1>3 DEF HandOver, Conns
<1>5. requests' = <<Reset>>
  BY <1>1 DEF HandOver
<1>6. ASSUME env.kind = "legacy_tcp" PROVE OwnLegacy'
  <2>1. Bare(conn') /\ Reached(conn') /\ ~Cleared(conn')
    BY <1>3, <1>4, <1>6, IdleMine DEF Owned, OwnLegacy, Bare, Reached, Cleared
  <2> QED BY <2>1, <1>2, <1>4 DEF OwnLegacy
<1>7. OwnStub'
  BY <1>1, <1>4, <1>5 DEF OwnStub, ShownMine
<1> QED BY <1>4, <1>6, <1>7 DEF Owned

LEMMA GatewayOwn ==
    ASSUME IInv, Steady, Owned, Dies \/ Receive \/ SeeClosed \/ UNCHANGED vars
    PROVE  Owned'
<1>1. UNCHANGED <<env, ime, conn, leg, mind, requests>> /\ (proc' = "gone" \/ proc' = proc)
  BY DEF Dies, Receive, SeeClosed, vars, legacyVars
<1>2. \A i \in DOMAIN answers' : \E j \in DOMAIN answers : answers'[i] = answers[j]
  <2>1. CASE Receive
    <3>1. PICK a \in Answers : answers = <<a>>
      BY <2>1 DEF Steady, Receive
    <3> QED BY <2>1, <3>1 DEF Receive
  <2> QED BY <2>1 DEF Dies, SeeClosed, vars
<1> QED BY <1>1, <1>2, RestOwn

-----------------------------------------------------------------------------
(* The host's steps.                                                       *)

LEMMA HostOwn ==
    ASSUME Owned, env.kind = "legacy_tcp", HostStep, Bare(conn'), Reached(conn'), conn'.clean = conn.clean,
           conn.clean /\ LinesMine(conn) => LinesMine(conn'),
           conn'.st = "served" /\ (conn'.clean \/ Cleared(conn')) => Mine(ime')
    PROVE  Owned'
<1>1. UNCHANGED <<env, mind, requests, answers, proc, leg>> /\ (ShownMine' <=> ShownMine)
  BY DEF HostStep, ShownMine
<1>2. OwnLegacy'
  BY <1>1 DEF Owned, OwnLegacy
<1> QED BY <1>1, <1>2 DEF Owned

LEMMA HostAcceptsOwn ==
    ASSUME IInv, Owned, env.kind = "legacy_tcp", HostAccepts PROVE Owned'
<1> DEFINE q == <<Says("HELLO")>>
<1>0. /\ conn \in Conns /\ Bare(conn) /\ Reached(conn) /\ HostStep /\ conn.st = "queued"
      /\ conn' = [conn EXCEPT !.st = "served", !.in = q]
  BY Types DEF Owned, OwnLegacy, HostAccepts
<1>1. Elems(q) = {Says("HELLO")} /\ Says("HELLO").re = "HELLO" /\ Says("HELLO").comp = {}
  BY ElemsNone DEF Says
<1> HIDE DEF q
<1>2. conn'.in = q /\ conn'.out = conn.out /\ conn'.st = "served" /\ conn'.clean = conn.clean
  BY <1>0 DEF Conns
<1>3. ~conn.clean
  BY <1>0 DEF Reached
<1> QED BY <1>0, <1>1, <1>2, <1>3, HostOwn DEF Bare, Reached, Cleared

LEMMA HostLineOwn ==
    ASSUME IInv, Owned, env.kind = "legacy_tcp", HostStep, conn.st = "served", conn.out # <<>>,
           NEW e \in Replies, e.re = "CAND_RET" \/ e.comp = {},
           conn' = [conn EXCEPT !.out = Tail(@), !.in = Append(@, e)],
           conn.clean => Mine(e.comp),
           conn.clean \/ Cleared(conn) \/ e.re = "OK RESET" => Mine(ime')
    PROVE  Owned'
<1> DEFINE q == Tail(conn.out)
           p == Append(conn.in, e)
<1>0. conn \in Conns /\ Bare(conn) /\ Reached(conn)
  BY Types DEF Owned, OwnLegacy
<1>1. Elems(q) \subseteq Elems(conn.out) /\ Elems(p) = Elems(conn.in) \cup {e}
  <2>1. conn.out \in Seq(Lines) /\ conn.in \in Seq(Replies)
    BY <1>0, ConnFields
  <2>2. Elems(Tail(conn.out)) \subseteq Elems(conn.out)
    BY <2>1, ElemsOf
  <2>3. Elems(Append(conn.in, e)) = Elems(conn.in) \cup {e}
    BY <2>1, ElemsOf
  <2> QED BY <2>2, <2>3
<1>2. conn' = [conn EXCEPT !.out = q, !.in = p]
  OBVIOUS
<1> HIDE DEF q, p
<1>3. conn'.out = q /\ conn'.in = p /\ conn'.st = conn.st /\ conn'.clean = conn.clean
  BY <1>0, <1>2 DEF Conns
<1>4. Bare(conn') /\ Reached(conn') /\ (conn.clean /\ LinesMine(conn) => LinesMine(conn'))
  BY <1>0, <1>1, <1>3 DEF Bare, Reached, LinesMine
<1>5. Cleared(conn') => Cleared(conn) \/ e.re = "OK RESET"
  BY <1>1, <1>3 DEF Cleared
<1> QED BY <1>3, <1>4, <1>5, HostOwn

LEMMA ClosedOwn ==
    ASSUME Owned, env.kind = "legacy_tcp", HostStep, conn \in Conns,
           conn' = [conn EXCEPT !.st = "closed", !.out = <<>>]
    PROVE  Owned'
<1> DEFINE q == <<>>
<1>1. conn' = [conn EXCEPT !.st = "closed", !.out = q] /\ Elems(q) = {}
  BY ElemsNone
<1> HIDE DEF q
<1>2. conn'.in = conn.in /\ conn'.out = q /\ conn'.st = "closed" /\ conn'.clean = conn.clean
  BY <1>1 DEF Conns
<1>3. Bare(conn') /\ Reached(conn') /\ (LinesMine(conn) => LinesMine(conn'))
  BY <1>1, <1>2 DEF Owned, OwnLegacy, Bare, Reached, LinesMine
<1> QED BY <1>2, <1>3, HostOwn

LEMMA ClearedOwes == ASSUME NEW c, Cleared(c) PROVE Reps(c.in) # {}
BY DEF Cleared, Elems, Reps, RepNames

LEMMA HostServesOwn ==
    ASSUME IInv, Owned, env.kind = "legacy_tcp", HostServes PROVE Owned'
<1> DEFINE line == Head(conn.out)
<1>0. /\ conn \in Conns /\ One(conn) /\ conn.st = "served" /\ conn.out # <<>> /\ HostStep
      /\ conn.out \in Seq(Lines) /\ line \in Elems(conn.out) /\ line \in Lines /\ ime \in Texts
  <2>1. conn \in Conns /\ One(conn) /\ conn.st = "served" /\ conn.out # <<>> /\ HostStep /\ ime \in Texts
    BY Types DEF HostServes
  <2> QED BY <2>1, ConnFields, ElemsOf
<1>1. /\ conn.clean => Mine(line.text) /\ Mine(ime)
      /\ Cleared(conn) => Mine(ime)
  BY <1>0 DEF Owned, OwnLegacy, LinesMine
<1>2. line.cmd \in CmdNames => ~Cleared(conn)
  <2>1. 1 \in DOMAIN conn.out /\ conn.out[1] = line
    BY <1>0
  <2>2. line.cmd \in CmdNames => Cmds(conn.out) # {}
    BY <2>1 DEF Cmds
  <2> QED BY <1>0, <2>2, ClearedOwes DEF One
<1>3. ASSUME NEW re \in Answered, NEW comp \in Texts, NEW has \in {"list", "nolist", "err"},
             re = "CAND_RET" \/ comp = {}, conn.clean => Mine(comp),
             conn.clean \/ Cleared(conn) \/ re = "OK RESET" => Mine(ime'),
             conn' = [conn EXCEPT !.out = Tail(@), !.in = Append(@, [re |-> re, comp |-> comp, has |-> has])]
      PROVE  Owned'
  <2> DEFINE e == [re |-> re, comp |-> comp, has |-> has]
  <2>1. e \in Replies /\ e.re = re /\ e.comp = comp
    BY DEF Replies
  <2>2. conn' = [conn EXCEPT !.out = Tail(@), !.in = Append(@, e)]
    BY <1>3
  <2> HIDE DEF e
  <2> QED BY <1>0, <1>3, <2>1, <2>2, HostLineOwn
<1>4. {} \in Texts /\ Mine({})
  BY DEF Texts, Mine
<1>5. ASSUME UNCHANGED ime, NEW re \in {"OK ACTIVATE", "OK CP"},
             conn' = [conn EXCEPT !.out = Tail(@), !.in = Append(@, [re |-> re, comp |-> {}, has |-> "nolist"])]
      PROVE  Owned'
  BY <1>1, <1>3, <1>4, <1>5 DEF Answered
<1>6. ASSUME ime' = {}, NEW re \in {"OK RESET", "ERR"},
             conn' = [conn EXCEPT !.out = Tail(@), !.in = Append(@, [re |-> re, comp |-> {}, has |-> "nolist"])]
      PROVE  Owned'
  BY <1>3, <1>4, <1>6 DEF Answered
<1>7. ASSUME line.cmd \in {"TYPE", "CAND"}, NEW has \in {"list", "nolist", "err"},
             ime' \in IF line.cmd = "TYPE" THEN HostTypes(line.text) ELSE {ime},
             conn' = [conn EXCEPT !.out = Tail(@), !.in = Append(@, [re |-> "CAND_RET", comp |-> ime', has |-> has])]
      PROVE  Owned'
  <2>1. line.text \in Texts
    BY <1>0 DEF Lines
  <2>2. ime' \in Texts
    BY <1>0, <1>7, <2>1, HostTypesType
  <2>3. Mine(line.text) /\ Mine(ime) => Mine(ime')
    BY <1>7 DEF HostTypes, Mine
  <2> QED BY <1>1, <1>2, <1>3, <1>7, <2>2, <2>3 DEF Answered, CmdNames
<1>8. ASSUME conn' = [conn EXCEPT !.st = "closed", !.out = <<>>]
      PROVE  Owned'
  BY <1>0, <1>8, ClosedOwn
<1> QED BY <1>5, <1>6, <1>7, <1>8 DEF HostServes

LEMMA HostRestOwn ==
    ASSUME IInv, Owned, env.kind = "legacy_tcp", HostServesOld \/ HostServesAnother \/ HostDies
    PROVE  Owned'
<1>0. conn \in Conns /\ HostStep
  BY Types DEF HostServesOld, HostServesAnother, HostDies
<1>1. CASE conn' = conn /\ conn.st # "served"
  BY <1>0, <1>1, HostOwn DEF Owned, OwnLegacy
<1>2. CASE conn' = [conn EXCEPT !.st = "closed", !.out = <<>>]
  BY <1>0, <1>2, ClosedOwn
<1> QED BY <1>1, <1>2 DEF HostServesOld, HostServesAnother, HostDies

LEMMA OwnedInit == Init => Owned
<1> SUFFICES ASSUME Init PROVE Owned
  OBVIOUS
<1>1. /\ conn.out = <<>> /\ conn.in = <<>> /\ conn.st = "none" /\ conn.clean = FALSE
      /\ proc = "boot" /\ answers = <<>> /\ requests = <<Reset>>
  BY DEF Init, LegacyInit, NoConn
<1>2. Bare(conn) /\ Reached(conn)
  BY <1>1, ElemsNone DEF Bare, Reached
<1> QED BY <1>1, <1>2 DEF Owned, OwnLegacy, OwnStub, ShownMine

LEMMA OwnedNext == IInv /\ Steady /\ Owned /\ [Next]_vars => Owned'
<1> SUFFICES ASSUME IInv, Steady, Owned, [Next]_vars PROVE Owned'
  OBVIOUS
<1>1. ASSUME WorkerStep PROVE Owned'
  <2>1. env' = env
    BY <1>1 DEF WorkerStep, Boot, Snapshot, StubServes, WinImmServes, LegacyServes, LegacySteps,
             Connect, ConnectFails, Reuse, PassOver, ReadFails, TakeActivate, TakeCodepage, TakeReset,
             TakeCandidates, Reads, Busily, Unanswered
  <2> QED BY <1>1, <2>1, WorkerStepOwn, StubWorkerStepOwn DEF Owned
<1>2. ASSUME Host PROVE Owned'
  <2>1. env.kind = "legacy_tcp"
    BY <1>2 DEF Host, HostAccepts, HostServes, HostServesOld, HostServesAnother, HostDies, HostStep
  <2> QED BY <1>2, <2>1, HostAcceptsOwn, HostServesOwn, HostRestOwn DEF Host
<1> QED BY <1>1, <1>2, CallOwn, HandOverOwn, GatewayOwn DEF Next

\* Of the stub and the legacy backend: an OK answer shows no letters of another
\* session, of the latter while the connection lasts whose RESET the host has
\* acknowledged, whoever types at the host meanwhile (reset_for_new_session,
\* clear_local_state).
THEOREM KeysAreOwn == Spec => []OwnKeys
BY OwnedInit, OwnedNext, OwnedShows, Invariance, SteadyInvariance, PTL DEF Spec
=============================================================================
