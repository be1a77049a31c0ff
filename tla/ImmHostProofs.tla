---------------------------- MODULE ImmHostProofs ---------------------------
(***************************************************************************)
(* Proofs about ImmHost.tla, for any number of clients, contexts, texts.   *)
(*                                                                         *)
(* The ids that open_session makes from the size of the session table stay *)
(* apart in the table (IdsApart); that such an id is also the one a client *)
(* still holds does not follow, and is false (SessionStable).  The types   *)
(* (HostTypes).  Where texts are: in the session they were committed in    *)
(* (TextIsOwn), and there once a key has committed them (KeyTextIsKept).   *)
(*                                                                         *)
(* Of the three promises of the documents that the runs refute, the last   *)
(* sections show how far they go: ids are stable as long as no open takes  *)
(* one in use (FreshIdsAreStable, LastFirstIsStable), a selection keeps    *)
(* its text if the IME announces it (AnnouncedSelectIsKept), and text is   *)
(* handed out once if the IME posts characters (CharsOnceOnly).            *)
(***************************************************************************)
EXTENDS ImmHost, FilterProofs, Functions, FiniteSetTheorems, SequenceTheorems

\* The sessions' contexts are live, distinct and of those created so far; an id
\* that a client holds is one that the table has room for.
TableInv ==
    /\ table \in [Ids -> Nat]
    /\ ctxs \in Nat
    /\ live \subseteq 1 .. ctxs
    /\ \A i \in Used : table[i] \in live
    /\ \A i, j \in Used : table[i] = table[j] => i = j
    /\ \A cl \in Clients : holds[cl] # NoSession => holds[cl].id \in Ids

LEMMA InitTable == Init => TableInv
BY DEF Init, TableInv, Used, NoCtx

\* There are no more sessions than contexts, so the next id fits.
LEMMA NextIdFits ==
    ASSUME TableInv, ctxs < MaxCtxs
    PROVE  Cardinality(Used) + 1 \in Ids
<1> DEFINE f == [i \in Used |-> table[i]]
<1>1. MaxCtxs \in Nat /\ ctxs \in Nat
  BY HostAssumption DEF TableInv
<1>2. f \in Injection(Used, 1 .. ctxs)
  <2>1. \A i \in Used : table[i] \in 1 .. ctxs
    BY DEF TableInv
  <2>2. f \in [Used -> 1 .. ctxs]
    BY <2>1
  <2>3. \A i, j \in Used : f[i] = f[j] => i = j
    BY DEF TableInv
  <2> QED BY <2>2, <2>3 DEF Injection, IsInjective
<1>3. IsFiniteSet(1 .. ctxs) /\ Cardinality(1 .. ctxs) = ctxs
  BY <1>1, FS_Interval
<1> HIDE DEF f
<1>4. IsFiniteSet(Used) /\ Cardinality(Used) <= ctxs
  BY <1>2, <1>3, FS_Injection
<1>5. Cardinality(Used) \in Nat
  BY <1>4, FS_CardinalityType
<1> QED BY <1>1, <1>4, <1>5 DEF Ids

LEMMA OpenTable == ASSUME TableInv, NEW cl \in Clients, Open(cl) PROVE TableInv'
<1> DEFINE id == Cardinality(Used) + 1
           c  == ctxs + 1
<1>1. /\ ctxs' = c /\ live' = live \cup {c} /\ table' = [table EXCEPT ![id] = c]
      /\ holds' = [holds EXCEPT ![cl] = [id |-> id, ctx |-> c]] /\ ctxs < MaxCtxs
  BY DEF Open
<1>2. id \in Ids
  BY <1>1, NextIdFits
<1>3. ctxs \in Nat /\ c \in Nat /\ c # NoCtx /\ c \notin live
  BY DEF TableInv, NoCtx
<1> HIDE DEF id
<1>4. \A i \in Ids : table'[i] = IF i = id THEN c ELSE table[i]
  BY <1>1 DEF TableInv
<1>5. table' \in [Ids -> Nat] /\ live' \subseteq 1 .. ctxs'
  <2>1. live' \subseteq 1 .. ctxs'
    BY <1>1, <1>3 DEF TableInv
  <2>2. table' \in [Ids -> Nat]
    BY <1>1, <1>3 DEF TableInv
  <2> QED BY <2>1, <2>2
<1>6. \A i \in Used' : i = id \/ i \in Used
  BY <1>4 DEF Used
<1>7. \A d \in Clients : holds'[d] # NoSession => holds'[d].id \in Ids
  BY <1>1, <1>2 DEF TableInv
<1>8. \A i \in Used' : i \in Ids
  BY DEF Used
<1>9. \A i \in Used' : table'[i] \in live'
  BY <1>1, <1>4, <1>6, <1>8 DEF TableInv
<1>10. ASSUME NEW i \in Used', NEW j \in Used', table'[i] = table'[j] PROVE i = j
  BY <1>3, <1>4, <1>6, <1>8, <1>10 DEF TableInv
<1> QED BY <1>1, <1>3, <1>5, <1>7, <1>9, <1>10 DEF TableInv

LEMMA DestroyTable == ASSUME TableInv, NEW cl \in Clients, Destroy(cl) PROVE TableInv'
<1> DEFINE id == holds[cl].id
<1>1. /\ ctxs' = ctxs /\ live' = live \ {table[id]} /\ table' = [table EXCEPT ![id] = NoCtx]
      /\ holds' = [holds EXCEPT ![cl] = NoSession] /\ id \in Ids
  BY DEF Destroy, TableInv
<1> HIDE DEF id
<1>2. /\ table' \in [Ids -> Nat]
      /\ \A i \in Ids : table'[i] = IF i = id THEN NoCtx ELSE table[i]
  BY <1>1 DEF TableInv, NoCtx
<1>3. \A i \in Used' : i \in Used /\ i # id /\ table'[i] = table[i]
  BY <1>2 DEF Used
<1>4. \A i \in Used' : table[i] # table[id]
  BY <1>1, <1>3 DEF TableInv, Used
<1>5. \A d \in Clients : holds'[d] # NoSession => holds'[d].id \in Ids
  BY <1>1 DEF TableInv
<1>6. \A i \in Used' : table'[i] \in live'
  BY <1>1, <1>3, <1>4 DEF TableInv
<1>7. \A i, j \in Used' : table'[i] = table'[j] => i = j
  BY <1>3 DEF TableInv
<1>8. ctxs' \in Nat /\ live' \subseteq 1 .. ctxs'
  BY <1>1 DEF TableInv
<1> QED BY <1>2, <1>5, <1>6, <1>7, <1>8 DEF TableInv

\* No other call changes the table.
LEMMA NextTable == TableInv /\ [Next]_vars => TableInv'
<1> SUFFICES ASSUME TableInv, [Next]_vars PROVE TableInv'
  OBVIOUS
<1>1. ASSUME UNCHANGED <<table, ctxs, live, holds>> PROVE TableInv'
  BY <1>1 DEF TableInv, Used
<1>2. ASSUME NEW cl \in Clients, NEW c \in Ctxs,
             Key(cl, c) \/ GetContext(cl, c) \/ GetCommit(cl, c)
             \/ SelectByKey(cl, c) \/ SelectByNotify(cl, c)
      PROVE  TableInv'
  <2>1. Serves(cl, c)
    BY <1>2 DEF Key, GetContext, GetCommit, SelectByKey, SelectByNotify
  <2> QED BY <1>1, <2>1 DEF Serves
<1>3. ASSUME NEW c \in Ctxs, Late(c) PROVE TableInv'
  BY <1>1, <1>3 DEF Late
<1>4. ASSUME UNCHANGED vars PROVE TableInv'
  BY <1>1, <1>4 DEF vars
<1> QED BY <1>2, <1>3, <1>4, OpenTable, DestroyTable DEF Next

\* Of the v2 host: however destroys and opens are mixed and ids reused, no two
\* ids name one context and none names a destroyed one (open_session).
THEOREM IdsApart == Spec => []TableInjective
<1>1. TableInv => TableInjective
  BY DEF TableInv, TableInjective
<1> QED BY <1>1, InitTable, NextTable, PTL DEF Spec

-----------------------------------------------------------------------------
(* Where a text may be.  W gives the texts that a context may hold, Q the  *)
(* messages that may be in the queue.  What pumps for context c appends    *)
(* its result string or characters from the queue, hence Sound.  The       *)
(* lemmas are used four times: with every text in every context (TypeOK),  *)
(* with a context's own (OwnText), with the one text that a key commits    *)
(* (KeyTextKept), and with those committed before (SelectTextKept).        *)

Shapes == [comp    : [Ctxs -> Comps],
           result  : [Ctxs -> Texts \cup {NoText}],
           pending : [Ctxs -> Seq(Texts)],
           queue   : Seq(Messages)]

Placings == [Ctxs -> SUBSET Texts]

Within(h, W, Q) ==
    /\ h \in Shapes
    /\ \A c \in Ctxs : h.result[c] \in W[c] \cup {NoText} /\ h.pending[c] \in Seq(W[c])
    /\ h.queue \in Seq(Q)

Sound(Q, S) == Q \subseteq Messages /\ \A m \in Q : m.kind = "char" => m.text \in S

LEMMA WithinMore ==
    ASSUME NEW h, NEW V \in Placings, NEW W \in Placings, NEW P, NEW Q,
           Within(h, V, P), \A c \in Ctxs : V[c] \subseteq W[c], P \subseteq Q
    PROVE  Within(h, W, Q)
<1>1. \A c \in Ctxs : Seq(V[c]) \subseteq Seq(W[c])
  OBVIOUS
<1>2. Seq(P) \subseteq Seq(Q)
  OBVIOUS
<1>3. \A c \in Ctxs : h.result[c] \in W[c] \cup {NoText} /\ h.pending[c] \in Seq(W[c])
  BY <1>1 DEF Within
<1>4. h.queue \in Seq(Q)
  BY <1>2 DEF Within
<1> QED BY <1>3, <1>4 DEF Within

\* A sequence made of another's places.
LEMMA PlacesSeq ==
    ASSUME NEW S, NEW R, NEW s \in Seq(R), NEW f, f \in [DOMAIN s -> S]
    PROVE  f \in Seq(S)
<1>1. Len(s) \in Nat /\ DOMAIN s = 1 .. Len(s)
  OBVIOUS
<1> QED BY <1>1, SeqDef

LEMMA ResultTextIn ==
    ASSUME NEW h, NEW c, NEW S, h.result[c] \in S \cup {NoText},
           NEW R, NEW msgs \in Seq(R)
    PROVE  ResultText(h, c, msgs) \in Seq(S)
<1>1. CASE h.result[c] = NoText
  BY <1>1 DEF ResultText
<1>2. CASE h.result[c] # NoText
  <2> DEFINE f == [i \in DOMAIN msgs |-> h.result[c]]
  <2>1. f \in [DOMAIN msgs -> S]
    BY <1>2
  <2> HIDE DEF f
  <2>2. f \in Seq(S)
    BY <2>1, PlacesSeq
  <2> QED BY <1>2, <2>2 DEF ResultText, f
<1> QED BY <1>1, <1>2

LEMMA ReadIn ==
    ASSUME NEW h, NEW c, NEW S, h.result[c] \in S \cup {NoText}
    PROVE  Read(h, c) \in Seq(S)
<1>1. \A x \in S : <<x>> \in Seq(S)
  OBVIOUS
<1>2. <<>> \in Seq(S)
  OBVIOUS
<1> QED BY <1>1, <1>2 DEF Read

LEMMA CharsIn ==
    ASSUME NEW S, NEW R, NEW msgs \in Seq(R), \A m \in R : m.text \in S
    PROVE  Chars(msgs) \in Seq(S)
<1>1. \A i \in DOMAIN msgs : msgs[i] \in R
  OBVIOUS
<1>2. Chars(msgs) \in [DOMAIN msgs -> S]
  BY <1>1 DEF Chars
<1> QED BY <1>2, PlacesSeq

LEMMA PumpTextIn ==
    ASSUME NEW h, NEW c, NEW S, h.result[c] \in S \cup {NoText},
           NEW Q, Sound(Q, S), NEW msgs \in Seq(Q)
    PROVE  PumpText(h, c, msgs) \in [result : Seq(S), chars : Seq(S)]
<1>1. Kept(msgs, OfKind("result")) \in Seq(Q \cap OfKind("result"))
  BY KeptType
<1>2. Kept(msgs, OfKind("char")) \in Seq(Q \cap OfKind("char"))
  BY KeptType
<1>3. ResultText(h, c, Kept(msgs, OfKind("result"))) \in Seq(S)
  BY <1>1, ResultTextIn
<1>4. \A m \in Q \cap OfKind("char") : m.text \in S
  BY DEF Sound, OfKind
<1>5. Chars(Kept(msgs, OfKind("char"))) \in Seq(S)
  BY <1>2, <1>4, CharsIn
<1> QED BY <1>3, <1>5 DEF PumpText

LEMMA PumpNothing ==
    ASSUME NEW h, NEW c
    PROVE  PumpText(h, c, <<>>) = [result |-> <<>>, chars |-> <<>>]
<1>1. ResultText(h, c, <<>>) = <<>> /\ Chars(<<>>) = <<>>
  BY DEF ResultText, Chars
<1> QED BY <1>1, KeptNone DEF PumpText

\* One field of a host replaced.
LEMMA HostWith ==
    ASSUME NEW h \in Shapes, NEW x
    PROVE  /\ [h EXCEPT !.pending = x]
                = [comp |-> h.comp, result |-> h.result, pending |-> x, queue |-> h.queue]
           /\ [h EXCEPT !.queue = x]
                = [comp |-> h.comp, result |-> h.result, pending |-> h.pending, queue |-> x]
<1> DEFINE p == [h EXCEPT !.pending = x]
           q == [h EXCEPT !.queue = x]
<1>1. p = [h EXCEPT !.pending = x] /\ q = [h EXCEPT !.queue = x]
  OBVIOUS
<1> HIDE DEF p, q
<1>2. p = [comp |-> h.comp, result |-> h.result, pending |-> x, queue |-> h.queue]
  BY <1>1 DEF Shapes
<1>3. q = [comp |-> h.comp, result |-> h.result, pending |-> h.pending, queue |-> x]
  BY <1>1 DEF Shapes
<1> QED BY <1>2, <1>3 DEF p, q

LEMMA FieldOfHost ==
    ASSUME NEW h \in Shapes, NEW x
    PROVE  /\ LET k == [h EXCEPT !.pending = x]
              IN /\ k.comp = h.comp /\ k.result = h.result /\ k.queue = h.queue
                 /\ k.pending = x
                 /\ k = [comp |-> k.comp, result |-> k.result,
                         pending |-> k.pending, queue |-> k.queue]
           /\ LET k == [h EXCEPT !.queue = x]
              IN /\ k.comp = h.comp /\ k.result = h.result /\ k.pending = h.pending
                 /\ k.queue = x
                 /\ k = [comp |-> k.comp, result |-> k.result,
                         pending |-> k.pending, queue |-> k.queue]
<1> DEFINE p == [h EXCEPT !.pending = x]
           q == [h EXCEPT !.queue = x]
<1>1. /\ p = [comp |-> h.comp, result |-> h.result, pending |-> x, queue |-> h.queue]
      /\ q = [comp |-> h.comp, result |-> h.result, pending |-> h.pending, queue |-> x]
  BY HostWith
<1> HIDE DEF p, q
<1>2. /\ p.comp = h.comp /\ p.result = h.result /\ p.queue = h.queue /\ p.pending = x
      /\ q.comp = h.comp /\ q.result = h.result /\ q.pending = h.pending /\ q.queue = x
  BY <1>1
<1> QED BY <1>1, <1>2 DEF p, q

\* k is h with text appended in context c.
Appended(k, h, c, text) ==
    /\ k.comp = h.comp
    /\ k.result = h.result
    /\ k.queue = h.queue
    /\ k.pending = [h.pending EXCEPT ![c] = @ \o text]

LEMMA AppendIn ==
    ASSUME NEW h, NEW c \in Ctxs, NEW W \in Placings, NEW Q, Within(h, W, Q),
           NEW text \in Seq(W[c])
    PROVE  /\ Within(AppendCommit(h, c, text), W, Q)
           /\ Appended(AppendCommit(h, c, text), h, c, text)
<1> DEFINE k == AppendCommit(h, c, text)
<1>1. h \in Shapes
  BY DEF Within
<1>2. /\ k.comp = h.comp /\ k.result = h.result /\ k.queue = h.queue
      /\ k.pending = [h.pending EXCEPT ![c] = @ \o text]
      /\ k = [comp |-> k.comp, result |-> k.result, pending |-> k.pending, queue |-> k.queue]
  <2> DEFINE p == [h.pending EXCEPT ![c] = @ \o text]
  <2>1. k = [h EXCEPT !.pending = p]
    BY DEF AppendCommit
  <2> HIDE DEF p, k
  <2>2. /\ k.comp = h.comp /\ k.result = h.result /\ k.queue = h.queue /\ k.pending = p
        /\ k = [comp |-> k.comp, result |-> k.result, pending |-> k.pending, queue |-> k.queue]
    <3>1. k = [comp |-> h.comp, result |-> h.result, pending |-> p, queue |-> h.queue]
      BY <1>1, <2>1, HostWith
    <3> QED BY <3>1
  <2> QED BY <2>2 DEF p
<1> HIDE DEF k
<1>3. h.pending[c] \o text \in Seq(W[c]) /\ Seq(W[c]) \subseteq Seq(Texts)
  <2>1. h.pending[c] \in Seq(W[c]) /\ W[c] \subseteq Texts
    BY DEF Within, Placings
  <2>2. h.pending[c] \o text \in Seq(W[c])
    BY <2>1, ConcatProperties
  <2>3. Seq(W[c]) \subseteq Seq(Texts)
    BY <2>1
  <2> QED BY <2>2, <2>3
<1>4. h.pending \in [Ctxs -> Seq(Texts)]
  BY <1>1 DEF Shapes
<1>5. \A d \in Ctxs : k.pending[d] = IF d = c THEN h.pending[c] \o text ELSE h.pending[d]
  BY <1>2, <1>4
<1>6. k.pending \in [Ctxs -> Seq(Texts)]
  BY <1>2, <1>3, <1>4
<1>7. k \in Shapes
  BY <1>1, <1>2, <1>6 DEF Shapes
<1>8. \A d \in Ctxs : k.pending[d] \in Seq(W[d])
  BY <1>3, <1>5 DEF Within
<1>9. Within(k, W, Q)
  BY <1>2, <1>7, <1>8 DEF Within
<1>10. Appended(k, h, c, text)
  BY <1>2 DEF Appended
<1> QED BY <1>9, <1>10 DEF k

LEMMA QueueIn ==
    ASSUME NEW h, NEW W, NEW P, Within(h, W, P),
           NEW Q, Q \subseteq Messages, NEW q \in Seq(Q)
    PROVE  Within([h EXCEPT !.queue = q], W, Q)
<1> DEFINE k == [h EXCEPT !.queue = q]
<1>1. h \in Shapes
  BY DEF Within
<1>2. /\ k.comp = h.comp /\ k.result = h.result /\ k.pending = h.pending /\ k.queue = q
      /\ k = [comp |-> k.comp, result |-> k.result, pending |-> k.pending, queue |-> k.queue]
  <2>1. k = [comp |-> h.comp, result |-> h.result, pending |-> h.pending, queue |-> q]
    BY <1>1, HostWith
  <2> HIDE DEF k
  <2> QED BY <2>1
<1> HIDE DEF k
<1>3. q \in Seq(Messages)
  OBVIOUS
<1>4. k \in Shapes
  BY <1>1, <1>2, <1>3 DEF Shapes
<1>5. Within(k, W, Q)
  BY <1>2, <1>4 DEF Within
<1> QED BY <1>5 DEF k

\* What a pump adds for context c is there and the queue is empty.
LEMMA HarvestIn ==
    ASSUME NEW h, NEW c \in Ctxs, NEW W \in Placings, NEW Q, Within(h, W, Q), Sound(Q, W[c])
    PROVE  /\ Within(Harvest(h, c), W, {})
           /\ Harvest(h, c).result = h.result
           /\ Harvest(h, c).comp = h.comp
           /\ h.queue = <<>> => Harvest(h, c).pending = h.pending
<1> DEFINE e == [h EXCEPT !.queue = <<>>]
           x == Wanted(PumpText(h, c, h.queue))
<1>1. Within(e, W, {})
  <2>1. <<>> \in Seq({})
    OBVIOUS
  <2> QED BY <2>1, QueueIn
<1>2. e.result = h.result /\ e.comp = h.comp /\ e.pending = h.pending
  BY DEF Within, Shapes
<1>3. x \in Seq(W[c])
  <2>1. h.result[c] \in W[c] \cup {NoText} /\ h.queue \in Seq(Q)
    BY DEF Within
  <2>2. PumpText(h, c, h.queue) \in [result : Seq(W[c]), chars : Seq(W[c])]
    BY <2>1, PumpTextIn
  <2> QED BY <2>2 DEF Wanted
<1>4. h.queue = <<>> => x = <<>>
  BY PumpNothing DEF Wanted
<1>5. Harvest(h, c) = AppendCommit(e, c, x)
  BY DEF Harvest
<1> HIDE DEF e, x
<1>6. Within(Harvest(h, c), W, {}) /\ Appended(Harvest(h, c), e, c, x)
  BY <1>1, <1>3, <1>5, AppendIn
<1>7. ASSUME h.queue = <<>> PROVE Harvest(h, c).pending = h.pending
  <2>1. x = <<>>
    BY <1>4, <1>7
  <2>2. e.pending \in [Ctxs -> Seq(Texts)]
    BY <1>1 DEF Within, Shapes
  <2>3. e.pending[c] \o <<>> = e.pending[c]
    BY <2>2
  <2>4. [e.pending EXCEPT ![c] = @ \o x] = e.pending
    BY <2>1, <2>2, <2>3
  <2> QED BY <1>2, <1>6, <2>4 DEF Appended
<1> QED BY <1>2, <1>6, <1>7 DEF Appended

\* What the IME's reaction changes, field by field.
ReactComp(h, c, r) ==
    IF r.act \in {"ignore", "eat"} THEN h.comp ELSE [h.comp EXCEPT ![c] = NextComp(h, c, r)]

ReactResult(result, c, r, t) ==
    IF r.act = "compose" THEN [result EXCEPT ![c] = NoText]
    ELSE IF r.act \in {"post", "silent"} THEN [result EXCEPT ![c] = t]
    ELSE result

ReactQueue(h, c, r, t) ==
    IF r.act = "post" THEN Append(h.queue, Message("result", c, t))
    ELSE IF r.act = "chars" THEN Append(h.queue, Message("char", c, t))
    ELSE h.queue

LEMMA ReactFields ==
    ASSUME NEW h \in Shapes, NEW c \in Ctxs, NEW r, r.act \in ActKinds, NEW t
    PROVE  React(h, c, r, t) = [comp    |-> ReactComp(h, c, r),
                                result  |-> ReactResult(h.result, c, r, t),
                                pending |-> h.pending,
                                queue   |-> ReactQueue(h, c, r, t)]
<1> DEFINE k == React(h, c, r, t)
           x == [h.comp EXCEPT ![c] = NextComp(h, c, r)]
           y == [h.result EXCEPT ![c] = IF r.act = "compose" THEN NoText ELSE t]
           z == Append(h.queue, Message(IF r.act = "post" THEN "result" ELSE "char", c, t))
<1>1. CASE r.act = "compose"
  <2>1. k = [h EXCEPT !.comp = x, !.result = y]
    BY <1>1 DEF React
  <2> HIDE DEF k, x, y
  <2>2. k = [comp |-> x, result |-> y, pending |-> h.pending, queue |-> h.queue]
    BY <2>1 DEF Shapes
  <2> QED BY <1>1, <2>2 DEF k, x, y, ReactComp, ReactResult, ReactQueue
<1>2. CASE r.act = "post"
  <2>1. k = [h EXCEPT !.comp = x, !.result = y, !.queue = z]
    BY <1>2 DEF React
  <2> HIDE DEF k, x, y, z
  <2>2. k = [comp |-> x, result |-> y, pending |-> h.pending, queue |-> z]
    BY <2>1 DEF Shapes
  <2> QED BY <1>2, <2>2 DEF k, x, y, z, ReactComp, ReactResult, ReactQueue
<1>3. CASE r.act = "silent"
  <2>1. k = [h EXCEPT !.comp = x, !.result = y]
    BY <1>3 DEF React
  <2> HIDE DEF k, x, y
  <2>2. k = [comp |-> x, result |-> y, pending |-> h.pending, queue |-> h.queue]
    BY <2>1 DEF Shapes
  <2> QED BY <1>3, <2>2 DEF k, x, y, ReactComp, ReactResult, ReactQueue
<1>4. CASE r.act = "chars"
  <2>1. k = [h EXCEPT !.comp = x, !.queue = z]
    BY <1>4 DEF React
  <2> HIDE DEF k, x, z
  <2>2. k = [comp |-> x, result |-> h.result, pending |-> h.pending, queue |-> z]
    BY <2>1 DEF Shapes
  <2> QED BY <1>4, <2>2 DEF k, x, z, ReactComp, ReactResult, ReactQueue
<1>5. CASE r.act \in {"ignore", "eat"}
  <2>1. k = h
    BY <1>5 DEF React
  <2> HIDE DEF k
  <2>2. k = [comp |-> h.comp, result |-> h.result, pending |-> h.pending, queue |-> h.queue]
    BY <2>1 DEF Shapes
  <2> QED BY <1>5, <2>2 DEF k, ReactComp, ReactResult, ReactQueue
<1> QED BY <1>1, <1>2, <1>3, <1>4, <1>5 DEF ActKinds

\* The text of a commit is one that the context may hold, its announcement one
\* that the queue may.
Allows(W, Q, c, r, t) ==
    /\ r.act \in ActKinds
    /\ Commits(r) => t \in W[c]
    /\ r.act = "post" => Message("result", c, t) \in Q
    /\ r.act = "chars" => Message("char", c, t) \in Q

LEMMA ReactIn ==
    ASSUME NEW h, NEW c \in Ctxs, NEW W \in Placings,
           NEW P, Within(h, W, P), NEW Q, P \subseteq Q, Q \subseteq Messages,
           NEW r, NEW t, Allows(W, Q, c, r, t)
    PROVE  Within(React(h, c, r, t), W, Q)
<1> DEFINE k == React(h, c, r, t)
<1>1. h \in Shapes /\ h.queue \in Seq(P) /\ r.act \in ActKinds
  BY DEF Within, Allows
<1>2. k = [comp |-> ReactComp(h, c, r), result |-> ReactResult(h.result, c, r, t),
           pending |-> h.pending, queue |-> ReactQueue(h, c, r, t)]
  BY <1>1, ReactFields
<1> HIDE DEF k
<1>3. ReactComp(h, c, r) \in [Ctxs -> Comps]
  <2>1. h.comp \in [Ctxs -> Comps] /\ NextComp(h, c, r) \in Comps
    BY <1>1 DEF Shapes, NextComp, Comps
  <2> QED BY <2>1 DEF ReactComp
<1>4. /\ ReactResult(h.result, c, r, t) \in [Ctxs -> Texts \cup {NoText}]
      /\ \A d \in Ctxs : ReactResult(h.result, c, r, t)[d] \in W[d] \cup {NoText}
  <2>1. h.result \in [Ctxs -> Texts \cup {NoText}] /\ W[c] \subseteq Texts
    BY <1>1 DEF Shapes, Placings
  <2>2. \A d \in Ctxs : h.result[d] \in W[d] \cup {NoText}
    BY DEF Within
  <2>3. r.act \in {"post", "silent"} => t \in W[c]
    BY DEF Allows, Commits
  <2> QED BY <2>1, <2>2, <2>3 DEF ReactResult
<1>5. ReactQueue(h, c, r, t) \in Seq(Q)
  <2>1. h.queue \in Seq(Q)
    BY <1>1
  <2> QED BY <2>1 DEF ReactQueue, Allows
<1>6. ReactQueue(h, c, r, t) \in Seq(Messages)
  BY <1>5
<1>7. k \in Shapes
  BY <1>1, <1>2, <1>3, <1>4, <1>6 DEF Shapes
<1>8. Within(k, W, Q)
  <2>1. \A d \in Ctxs : h.pending[d] \in Seq(W[d])
    BY DEF Within
  <2> QED BY <1>2, <1>4, <1>5, <1>7, <2>1 DEF Within
<1> QED BY <1>8 DEF k

\* k has more pending in context c than h: the text that r puts in the result;
\* with the result string empty, the text that it posts as characters.
Adds(k, h, c, r, t) ==
    \E x : /\ k.pending = [h.pending EXCEPT ![c] = @ \o x]
           /\ r.act \in {"post", "silent"} /\ t # NoText => x = <<t>>
           /\ h.result[c] = NoText /\ r.act \notin {"post", "silent"} =>
                 x = IF r.act = "chars" THEN <<t>> ELSE <<>>

\* dispatch_ime_transmsgs after a pump, when nothing is in the queue.
LEMMA DispatchIn ==
    ASSUME NEW h0, NEW c \in Ctxs, NEW W \in Placings, Within(h0, W, {}),
           NEW Q, Sound(Q, W[c]), NEW r, NEW t, Allows(W, Q, c, r, t)
    PROVE  /\ Within(Dispatch(h0, c, r, t), W, {})
           /\ Dispatch(h0, c, r, t).result = ReactResult(h0.result, c, r, t)
           /\ Adds(Dispatch(h0, c, r, t), h0, c, r, t)
<1> DEFINE h      == [React(h0, c, r, t) EXCEPT !.queue = h0.queue]
           direct == CASE r.act = "post"  -> <<Message("result", c, t)>>
                       [] r.act = "chars" -> <<Message("char", c, t)>>
                       [] OTHER           -> <<>>
           listed == PumpText(h, c, direct)
           pumped == PumpText(h, c, Kept(h.queue, For(c)))
           result == IF listed.result # <<>> THEN listed.result
                     ELSE IF pumped.result # <<>> THEN pumped.result
                     ELSE Read(h, c)
           x      == Wanted([result |-> result, chars |-> listed.chars \o pumped.chars])
           e      == [h EXCEPT !.queue = Kept(@, Messages \ For(c))]
<1>1. /\ h0 \in Shapes /\ r.act \in ActKinds /\ Q \subseteq Messages
      /\ h0.queue = <<>>
  <2>1. h0.queue \in Seq({})
    BY DEF Within
  <2>2. h0.queue = <<>>
    BY <2>1
  <2> QED BY <2>2 DEF Within, Allows, Sound
<1>2. Within(React(h0, c, r, t), W, Q)
  BY <1>1, ReactIn
<1>3. Within(h, W, {}) /\ h.queue = <<>>
  <2>1. <<>> \in Seq({})
    OBVIOUS
  <2>2. Within([React(h0, c, r, t) EXCEPT !.queue = <<>>], W, {})
    BY <1>2, <2>1, QueueIn
  <2>3. React(h0, c, r, t) \in Shapes
    BY <1>2 DEF Within
  <2> QED BY <1>1, <2>2, <2>3, FieldOfHost
<1>4. h.result = ReactResult(h0.result, c, r, t) /\ h.pending = h0.pending
  <2>1. React(h0, c, r, t) \in Shapes
    BY <1>2 DEF Within
  <2>2. h.result = React(h0, c, r, t).result /\ h.pending = React(h0, c, r, t).pending
    BY <2>1, FieldOfHost
  <2> QED BY <1>1, <2>2, ReactFields
<1>5. direct \in Seq(Q)
  BY DEF Allows
<1> HIDE DEF h
<1>6. h.result[c] \in W[c] \cup {NoText}
  BY <1>3 DEF Within
<1>7. listed \in [result : Seq(W[c]), chars : Seq(W[c])]
  <2> HIDE DEF direct
  <2> QED BY <1>5, <1>6, PumpTextIn
<1>8. pumped = [result |-> <<>>, chars |-> <<>>]
  BY <1>3, PumpNothing, KeptNone
<1>9. Read(h, c) \in Seq(W[c])
  BY <1>6, ReadIn
<1>10. x \in Seq(W[c])
  <2> HIDE DEF listed, pumped
  <2>1. listed.chars \o pumped.chars \in Seq(W[c])
    BY <1>7, <1>8
  <2> QED BY <1>7, <1>8, <1>9, <2>1 DEF Wanted
<1>11. ASSUME r.act \in {"post", "silent"}, t # NoText PROVE x = <<t>>
  <2>1. h.result[c] = t
    <3>1. h0.result \in [Ctxs -> Texts \cup {NoText}]
      BY <1>1 DEF Shapes
    <3> QED BY <1>4, <1>11, <3>1 DEF ReactResult
  <2>2. CASE r.act = "post"
    <3> DEFINE m == Message("result", c, t)
    <3>1. direct = <<m>> /\ m \in OfKind("result")
      BY <1>1, <2>2 DEF Allows, OfKind, Message
    <3> HIDE DEF direct, m
    <3>2. Kept(direct, OfKind("result")) = <<m>>
      <4>1. <<m>> \in Seq({m}) /\ \A i \in DOMAIN <<m>> : <<m>>[i] = m
        OBVIOUS
      <4>2. \A i \in DOMAIN <<m>> : <<m>>[i] \in OfKind("result")
        BY <3>1, <4>1
      <4>3. Kept(<<m>>, OfKind("result")) = <<m>>
        BY <4>1, <4>2, KeptAll
      <4> QED BY <3>1, <4>3
    <3>3. ResultText(h, c, <<m>>) = <<t>>
      BY <1>11, <2>1 DEF ResultText
    <3>4. listed.result = <<t>>
      BY <3>2, <3>3 DEF PumpText
    <3> HIDE DEF listed, pumped
    <3>5. <<t>> # <<>>
      OBVIOUS
    <3>6. result = <<t>>
      BY <3>4, <3>5
    <3> HIDE DEF result
    <3> QED BY <3>5, <3>6 DEF Wanted
  <2>3. CASE r.act = "silent"
    <3>1. direct = <<>>
      BY <2>3
    <3>2. listed = [result |-> <<>>, chars |-> <<>>]
      BY <3>1, PumpNothing
    <3>3. result = Read(h, c)
      <4> HIDE DEF listed, pumped
      <4> QED BY <1>8, <3>2
    <3>4. Read(h, c) = <<t>>
      BY <1>11, <2>1 DEF Read
    <3>5. <<t>> # <<>>
      OBVIOUS
    <3> HIDE DEF result
    <3> QED BY <3>3, <3>4, <3>5 DEF Wanted
  <2> QED BY <1>11, <2>2, <2>3
<1>18. ASSUME h0.result[c] = NoText, r.act \notin {"post", "silent"}
      PROVE  x = IF r.act = "chars" THEN <<t>> ELSE <<>>
  <2>1. h.result[c] = NoText
    <3>1. h0.result \in [Ctxs -> Texts \cup {NoText}]
      BY <1>1 DEF Shapes
    <3> QED BY <1>4, <1>18, <3>1 DEF ReactResult
  <2>2. Read(h, c) = <<>> /\ \A msgs : ResultText(h, c, msgs) = <<>>
    BY <2>1 DEF Read, ResultText
  <2>3. result = <<>> /\ x = listed.chars \o <<>>
    <3>1. listed.result = <<>>
      BY <2>2 DEF PumpText
    <3> HIDE DEF listed, pumped
    <3>2. result = <<>>
      BY <1>8, <2>2, <3>1
    <3> HIDE DEF result
    <3> QED BY <1>8, <3>2 DEF Wanted
  <2>4. CASE r.act = "chars"
    <3> DEFINE m == Message("char", c, t)
    <3>1. direct = <<m>> /\ m \in OfKind("char") /\ m.text = t
      BY <1>1, <2>4 DEF Allows, OfKind, Message
    <3> HIDE DEF direct, m
    <3>2. Kept(direct, OfKind("char")) = <<m>>
      <4>1. <<m>> \in Seq({m}) /\ \A i \in DOMAIN <<m>> : <<m>>[i] = m
        OBVIOUS
      <4>2. \A i \in DOMAIN <<m>> : <<m>>[i] \in OfKind("char")
        BY <3>1, <4>1
      <4>3. Kept(<<m>>, OfKind("char")) = <<m>>
        BY <4>1, <4>2, KeptAll
      <4> QED BY <3>1, <4>3
    <3>3. Chars(<<m>>) = <<t>>
      BY <3>1 DEF Chars
    <3>4. listed.chars = <<t>>
      BY <3>2, <3>3 DEF PumpText
    <3>5. <<t>> \o <<>> = <<t>>
      OBVIOUS
    <3> QED BY <2>3, <2>4, <3>4, <3>5, Zenon
  <2>5. CASE r.act # "chars"
    <3>1. direct = <<>>
      BY <1>18, <2>5
    <3>2. listed.chars = <<>>
      BY <3>1, PumpNothing
    <3>3. <<>> \o <<>> = <<>>
      OBVIOUS
    <3> QED BY <2>3, <2>5, <3>2, <3>3, Zenon
  <2> QED BY <2>4, <2>5
<1>12. Within(e, W, {}) /\ e.result = h.result /\ e.pending = h.pending
  <2>1. Kept(h.queue, Messages \ For(c)) = <<>> /\ <<>> \in Seq({})
    BY <1>3, KeptNone
  <2>2. e = [h EXCEPT !.queue = <<>>]
    BY <2>1
  <2>3. Within(e, W, {})
    BY <1>3, <2>1, <2>2, QueueIn
  <2>4. h \in Shapes
    BY <1>3 DEF Within
  <2> QED BY <2>2, <2>3, <2>4, FieldOfHost
<1>13. Dispatch(h0, c, r, t) = AppendCommit(e, c, x)
  BY DEF Dispatch, h
<1> HIDE DEF e, x
<1>14. Within(Dispatch(h0, c, r, t), W, {}) /\ Appended(Dispatch(h0, c, r, t), e, c, x)
  BY <1>10, <1>12, <1>13, AppendIn
<1>15. Dispatch(h0, c, r, t).pending = [h0.pending EXCEPT ![c] = @ \o x]
  BY <1>4, <1>12, <1>14 DEF Appended
<1>16. Dispatch(h0, c, r, t).result = ReactResult(h0.result, c, r, t)
  BY <1>4, <1>12, <1>14 DEF Appended
<1>17. Adds(Dispatch(h0, c, r, t), h0, c, r, t)
  BY <1>11, <1>15, <1>18 DEF Adds
<1> QED BY <1>14, <1>16, <1>17

LEMMA FinalCheckIn ==
    ASSUME NEW h, NEW c \in Ctxs, NEW W \in Placings, NEW Q, Within(h, W, Q)
    PROVE  /\ Within(FinalCheck(h, c), W, Q)
           /\ FinalCheck(h, c).result = h.result
           /\ h.pending[c] # <<>> => FinalCheck(h, c) = h
           /\ h.result[c] # NoText => FinalCheck(h, c).pending[c] # <<>>
<1>1. h.result[c] \in W[c] \cup {NoText} /\ h.pending \in [Ctxs -> Seq(Texts)]
  BY DEF Within, Shapes
<1>2. CASE h.pending[c] # <<>>
  BY <1>2 DEF FinalCheck
<1>3. CASE h.pending[c] = <<>>
  <2> DEFINE x == Read(h, c)
             k == FinalCheck(h, c)
  <2>1. x \in Seq(W[c]) /\ (h.result[c] # NoText => x = <<h.result[c]>>)
    BY <1>1, ReadIn DEF Read
  <2>2. k = AppendCommit(h, c, x)
    BY <1>3 DEF FinalCheck
  <2> HIDE DEF x, k
  <2>3. Within(k, W, Q) /\ Appended(k, h, c, x)
    BY <2>1, <2>2, AppendIn
  <2>4. ASSUME h.result[c] # NoText PROVE k.pending[c] # <<>>
    <3>1. k.pending[c] = <<>> \o <<h.result[c]>>
      BY <1>1, <1>3, <2>1, <2>3, <2>4 DEF Appended
    <3>2. <<>> \o <<h.result[c]>> # <<>>
      OBVIOUS
    <3> QED BY <3>1, <3>2
  <2> QED BY <1>3, <2>3, <2>4 DEF Appended, k
<1> QED BY <1>2, <1>3

LEMMA EmptyQueue == \A h, W : Within(h, W, {}) => h.queue = <<>>
BY DEF Within

\* A key, whichever of its two ways the IME takes it on: what is pending stays
\* within bounds, a result string leaves something pending, and a text that the
\* IME itself commits is among it.
LEMMA ProcessIn ==
    ASSUME NEW h, NEW c \in Ctxs, NEW W \in Placings, NEW P, Within(h, W, P),
           NEW Q, P \subseteq Q, Sound(Q, W[c]),
           NEW r1, NEW r2, NEW t, Allows(W, Q, c, r1, t), Allows(W, Q, c, r2, t)
    PROVE  LET k == ProcessVk(h, c, r1, r2, t)
           IN /\ Within(k, W, {})
              /\ k.result = ReactResult(ReactResult(h.result, c, r1, t), c, r2, t)
              /\ k.result[c] # NoText => k.pending[c] # <<>>
              /\ r2.act \in {"post", "silent"} /\ t # NoText =>
                    \E i \in DOMAIN k.pending[c] : k.pending[c][i] = t
<1> DEFINE h0 == React(h, c, r1, t)
           h1 == Harvest(h0, c)
           d  == Dispatch(h1, c, r2, t)
           h2 == IF Consumes(r2) THEN Harvest(d, c) ELSE h1
           h3 == Harvest(h2, c)
           k  == FinalCheck(h3, c)
           f1 == ReactResult(h.result, c, r1, t)
           f2 == ReactResult(f1, c, r2, t)
<1>1. Q \subseteq Messages /\ h \in Shapes /\ r1.act \in ActKinds /\ Sound({}, W[c])
  BY DEF Sound, Within, Allows
<1>2. Within(h0, W, Q) /\ h0.result = f1
  BY <1>1, ReactIn, ReactFields
<1> HIDE DEF h0, f1
<1>3. Within(h1, W, {}) /\ h1.result = f1
  BY <1>2, HarvestIn
<1> HIDE DEF h1
<1>4. /\ Within(h2, W, {}) /\ h2.result = f2
      /\ r2.act \in {"post", "silent"} /\ t # NoText =>
            \E i \in DOMAIN h2.pending[c] : h2.pending[c][i] = t
  <2>1. CASE Consumes(r2)
    <3>1. Within(d, W, {}) /\ d.result = f2 /\ Adds(d, h1, c, r2, t)
      BY <1>3, DispatchIn
    <3>2. d.queue = <<>>
      BY <3>1, EmptyQueue
    <3> HIDE DEF d
    <3>3. h2 = Harvest(d, c)
      BY <2>1
    <3>4. Within(h2, W, {}) /\ h2.result = f2 /\ h2.pending = d.pending
      BY <1>1, <3>1, <3>2, <3>3, HarvestIn
    <3>5. ASSUME r2.act \in {"post", "silent"}, t # NoText
          PROVE  \E i \in DOMAIN h2.pending[c] : h2.pending[c][i] = t
      <4>1. h1.pending \in [Ctxs -> Seq(Texts)]
        BY <1>3 DEF Within, Shapes
      <4>2. h2.pending[c] = h1.pending[c] \o <<t>>
        BY <3>1, <3>4, <3>5, <4>1 DEF Adds
      <4> DEFINE s == h1.pending[c]
      <4>3. s \in Seq(Texts)
        BY <4>1
      <4> HIDE DEF s
      <4>4. Len(s) + 1 \in DOMAIN (s \o <<t>>) /\ (s \o <<t>>)[Len(s) + 1] = t
        BY <4>3
      <4> QED BY <4>2, <4>4 DEF s
    <3> QED BY <3>4, <3>5
  <2>2. CASE ~Consumes(r2)
    BY <1>3, <2>2 DEF Consumes, ReactResult
  <2> QED BY <2>1, <2>2
<1> HIDE DEF h2, f2
<1>5. h2.queue = <<>>
  BY <1>4, EmptyQueue
<1>6. Within(h3, W, {}) /\ h3.result = f2 /\ h3.pending = h2.pending
  BY <1>1, <1>4, <1>5, HarvestIn
<1> HIDE DEF h3
<1>7. /\ Within(k, W, {}) /\ k.result = f2
      /\ h3.pending[c] # <<>> => k = h3
      /\ h3.result[c] # NoText => k.pending[c] # <<>>
  BY <1>6, FinalCheckIn
<1>8. ASSUME r2.act \in {"post", "silent"}, t # NoText
      PROVE  \E i \in DOMAIN k.pending[c] : k.pending[c][i] = t
  <2>1. h3.pending[c] # <<>>
    BY <1>4, <1>6, <1>8
  <2> QED BY <1>4, <1>6, <1>7, <1>8, <2>1
<1> HIDE DEF k
<1>9. ProcessVk(h, c, r1, r2, t) = k
  BY DEF ProcessVk, h0, h1, h2, h3, k
<1>10. k.result[c] # NoText => k.pending[c] # <<>>
  BY <1>6, <1>7
<1>11. k.result = ReactResult(ReactResult(h.result, c, r1, t), c, r2, t)
  BY <1>7 DEF f1, f2
<1> QED BY <1>7, <1>8, <1>9, <1>10, <1>11

-----------------------------------------------------------------------------
(* The same for the steps of the host.                                     *)

\* The queue once the IME has announced t for context c.
Offers(P, c, t) == P \cup {m \in Messages : m.win = c /\ m.text = t}

LEMMA OffersSound ==
    ASSUME NEW P, NEW S, Sound(P, S), NEW c, NEW t, t # NoText => t \in S
    PROVE  Sound(Offers(P, c, t), S)
<1>1. \A m \in Messages : m.text # NoText
  BY HostAssumption DEF Messages, Texts, NoText
<1> QED BY <1>1 DEF Sound, Offers

LEMMA OffersAllow ==
    ASSUME NEW W \in Placings, NEW c \in Ctxs, NEW t, t # NoText => t \in W[c],
           NEW P, NEW r, r.act \in ActKinds, Commits(r) => t # NoText
    PROVE  Allows(W, Offers(P, c, t), c, r, t)
<1>1. Commits(r) => t \in W[c] /\ t \in Texts
  BY DEF Placings
<1>2. \A k \in {"result", "char"} : t \in Texts => Message(k, c, t) \in Offers(P, c, t)
  BY DEF Offers, Messages, Message
<1> QED BY <1>1, <1>2 DEF Allows, Commits

LEMMA NotifyIn ==
    ASSUME NEW W \in Placings, NEW c \in Ctxs, NEW t, t # NoText => t \in W[c],
           NEW P, NEW h, Within(h, W, P), Sound(P, W[c]),
           NEW r, r.act \in ActKinds, Commits(r) => t # NoText
    PROVE  Within(Harvest(React(h, c, r, t), c), W, {})
<1> DEFINE Q == Offers(P, c, t)
<1>1. Sound(Q, W[c]) /\ Allows(W, Q, c, r, t)
  BY OffersSound, OffersAllow
<1>2. P \subseteq Q /\ Q \subseteq Messages
  BY <1>1 DEF Offers, Sound
<1> HIDE DEF Q
<1>3. Within(React(h, c, r, t), W, Q)
  BY <1>1, <1>2, ReactIn
<1> QED BY <1>1, <1>3, HarvestIn

\* What ProcessIn shows of a key.
Processed(k, h, W, c, r1, r2, t) ==
    /\ Within(k, W, {})
    /\ k.result = ReactResult(ReactResult(h.result, c, r1, t), c, r2, t)
    /\ k.result[c] # NoText => k.pending[c] # <<>>
    /\ r2.act \in {"post", "silent"} /\ t # NoText =>
          \E i \in DOMAIN k.pending[c] : k.pending[c][i] = t

LEMMA KeyIn ==
    ASSUME NEW W \in Placings, NEW c \in Ctxs, NEW t, t # NoText => t \in W[c],
           NEW P, NEW h, Within(h, W, P), Sound(P, W[c]),
           NEW p \in KeyReactions, Commits(p[1]) \/ Commits(p[2]) => t # NoText
    PROVE  Processed(ProcessVk(h, c, p[1], p[2], t), h, W, c, p[1], p[2], t)
<1> DEFINE Q == Offers(P, c, t)
<1>1. p[1].act \in ActKinds /\ p[2].act \in ActKinds
  BY HostAssumption DEF KeyReactions, Reactions
<1>2. Sound(Q, W[c])
  BY OffersSound
<1>3. Allows(W, Q, c, p[1], t)
  BY <1>1, OffersAllow
<1>4. Allows(W, Q, c, p[2], t)
  BY <1>1, OffersAllow
<1>5. P \subseteq Q
  BY DEF Offers
<1> HIDE DEF Q
<1> QED BY <1>2, <1>3, <1>4, <1>5, ProcessIn DEF Processed

\* A step commits for one context at most, and W places its text there.
Fits(W) ==
    \A c \in Ctxs :
        owner' = Append(owner, c) /\ Len(owner) + 1 \in Texts => Len(owner) + 1 \in W[c]

Numbered(t) == t = NoText \/ (t \in Texts /\ t = Len(owner) + 1)

LEMMA NextTextIs ==
    ASSUME NEW b \in BOOLEAN, NEW t \in NextText(b)
    PROVE  Numbered(t) /\ (b => t # NoText)
<1>1. CASE b
  BY <1>1, HostAssumption DEF NextText, Numbered, Texts, NoText
<1>2. CASE ~b
  <2>1. NextText(b) = {NoText}
    BY <1>2, Zenon DEF NextText
  <2>2. t = NoText
    BY <2>1
  <2> QED BY <1>2, <2>2 DEF Numbered
<1> QED BY <1>1, <1>2

LEMMA RecordFits ==
    ASSUME NEW W, NEW c \in Ctxs, Fits(W), NEW t, Numbered(t), Record(c, t)
    PROVE  t # NoText => t \in W[c]
BY DEF Fits, Numbered, Record

\* What every step needs of the queue: no characters for a context that may not
\* hold them, and room for what the IME announces between two calls.
Queue(P, W) ==
    /\ P \subseteq Messages
    /\ \A c \in Ctxs : \A t \in W[c] : Message("result", c, t) \in P
    /\ \A c \in Ctxs : Sound(P, W[c])
    /\ "chars" \in LateActs =>
          \A c \in Ctxs : \A t \in W[c] : Message("char", c, t) \in P

LEMMA KeyPlaces ==
    ASSUME NEW W \in Placings, Fits(W), NEW P, Within(host, W, P), Queue(P, W),
           NEW cl \in Clients, NEW c \in Ctxs, Key(cl, c)
    PROVE  Within(host', W, P)
<1>0. PICK p \in KeyReactions :
          \E t \in NextText(Commits(p[1]) \/ Commits(p[2])) :
             host' = ProcessVk(host, c, p[1], p[2], t) /\ Record(c, t)
  BY DEF Key
<1>1. PICK t \in NextText(Commits(p[1]) \/ Commits(p[2])) :
          host' = ProcessVk(host, c, p[1], p[2], t) /\ Record(c, t)
  BY <1>0
<1>2. Numbered(t) /\ (Commits(p[1]) \/ Commits(p[2]) => t # NoText)
  BY NextTextIs DEF Commits
<1>3. t # NoText => t \in W[c]
  BY <1>1, <1>2, RecordFits
<1>4. Processed(host', host, W, c, p[1], p[2], t)
  BY <1>1, <1>2, <1>3, KeyIn DEF Queue
<1>5. Within(host', W, {})
  BY <1>4 DEF Processed
<1> QED BY <1>5, WithinMore

LEMMA SelectByKeyPlaces ==
    ASSUME NEW W \in Placings, Fits(W), NEW P, Within(host, W, P), Queue(P, W),
           NEW cl \in Clients, NEW c \in Ctxs, SelectByKey(cl, c)
    PROVE  Within(host', W, P)
<1>0. PICK p \in KeyReactions : \E t \in NextText(Commits(p[1]) \/ Commits(p[2])) :
          LET k == ProcessVk(host, c, p[1], p[2], t) IN
          IF Confirm(k, c)
          THEN \E q \in KeyReactions :
                  \E u \in IF t = NoText THEN NextText(Commits(q[1]) \/ Commits(q[2]))
                                         ELSE {NoText} :
                     /\ u = NoText => ~Commits(q[1]) /\ ~Commits(q[2])
                     /\ host' = Harvest(ProcessVk(k, c, q[1], q[2], u), c)
                     /\ Record(c, IF t = NoText THEN u ELSE t)
          ELSE host' = k /\ Record(c, t)
  BY DEF SelectByKey
<1>1. PICK t \in NextText(Commits(p[1]) \/ Commits(p[2])) :
          LET k == ProcessVk(host, c, p[1], p[2], t) IN
          IF Confirm(k, c)
          THEN \E q \in KeyReactions :
                  \E u \in IF t = NoText THEN NextText(Commits(q[1]) \/ Commits(q[2]))
                                         ELSE {NoText} :
                     /\ u = NoText => ~Commits(q[1]) /\ ~Commits(q[2])
                     /\ host' = Harvest(ProcessVk(k, c, q[1], q[2], u), c)
                     /\ Record(c, IF t = NoText THEN u ELSE t)
          ELSE host' = k /\ Record(c, t)
  BY <1>0
<1>2. Numbered(t) /\ (Commits(p[1]) \/ Commits(p[2]) => t # NoText)
  BY NextTextIs DEF Commits
<1> DEFINE k == ProcessVk(host, c, p[1], p[2], t)
<1>3. ASSUME t # NoText => t \in W[c] PROVE Within(k, W, {})
  <2>1. Processed(k, host, W, c, p[1], p[2], t)
    BY <1>2, <1>3, KeyIn DEF Queue
  <2> QED BY <2>1 DEF Processed
<1>4. CASE Confirm(k, c)
  <2>0. PICK q \in KeyReactions :
                  \E u \in IF t = NoText THEN NextText(Commits(q[1]) \/ Commits(q[2]))
                                         ELSE {NoText} :
                     /\ u = NoText => ~Commits(q[1]) /\ ~Commits(q[2])
                     /\ host' = Harvest(ProcessVk(k, c, q[1], q[2], u), c)
                     /\ Record(c, IF t = NoText THEN u ELSE t)
    BY <1>1, <1>4
  <2>1. PICK u \in IF t = NoText THEN NextText(Commits(q[1]) \/ Commits(q[2]))
                                 ELSE {NoText} :
                     /\ u = NoText => ~Commits(q[1]) /\ ~Commits(q[2])
                     /\ host' = Harvest(ProcessVk(k, c, q[1], q[2], u), c)
                     /\ Record(c, IF t = NoText THEN u ELSE t)
    BY <2>0
  <2> DEFINE v == IF t = NoText THEN u ELSE t
             j == ProcessVk(k, c, q[1], q[2], u)
  <2>2. Numbered(u)
    <3>1. CASE t = NoText
      BY <2>1, <3>1, NextTextIs DEF Commits
    <3>2. CASE t # NoText
      <4>1. u = NoText
        BY <3>2
      <4> QED BY <4>1 DEF Numbered
    <3> QED BY <3>1, <3>2
  <2>3. v # NoText => v \in W[c]
    BY <1>2, <2>1, <2>2, RecordFits
  <2>4. (t # NoText => t \in W[c]) /\ (u # NoText => u \in W[c])
    BY <2>3
  <2>5. Within(k, W, {}) /\ Sound({}, W[c])
    BY <1>3, <2>4 DEF Sound
  <2> HIDE DEF k
  <2>6. Commits(q[1]) \/ Commits(q[2]) => u # NoText
    BY <2>1
  <2>7. Processed(j, k, W, c, q[1], q[2], u)
    BY <2>4, <2>5, <2>6, KeyIn
  <2> HIDE DEF j
  <2>8. Within(j, W, {})
    BY <2>7 DEF Processed
  <2>9. Within(Harvest(j, c), W, {})
    BY <2>5, <2>8, HarvestIn
  <2>10. host' = Harvest(j, c)
    BY <2>1 DEF j
  <2> QED BY <2>9, <2>10, WithinMore
<1>5. CASE ~Confirm(k, c)
  <2>1. host' = k /\ Record(c, t)
    BY <1>1, <1>5
  <2>2. t # NoText => t \in W[c]
    BY <1>2, <2>1, RecordFits
  <2>3. Within(k, W, {})
    BY <1>3, <2>2
  <2> QED BY <2>1, <2>3, WithinMore
<1> QED BY <1>4, <1>5

LEMMA SelectByNotifyPlaces ==
    ASSUME NEW W \in Placings, Fits(W), NEW P, Within(host, W, P), Queue(P, W),
           NEW cl \in Clients, NEW c \in Ctxs, SelectByNotify(cl, c)
    PROVE  Within(host', W, P)
<1>1. \A h : \A r \in NotifyReactions(h, c) : r.act \in ActKinds
  BY HostAssumption DEF NotifyReactions, Reactions
<1>0. PICK r1 \in NotifyReactions(host, c) : \E t \in NextText(Commits(r1)) :
          LET k == Harvest(React(host, c, r1, t), c) IN
          IF k.pending[c] = <<>> /\ k.comp[c] = host.comp[c] /\ host.comp[c] # 0
          THEN \E r2 \in NotifyReactions(k, c) :
                  \E u \in IF t = NoText THEN NextText(Commits(r2)) ELSE {NoText} :
                     /\ u = NoText => ~Commits(r2)
                     /\ host' = Harvest(React(k, c, r2, u), c)
                     /\ Record(c, IF t = NoText THEN u ELSE t)
          ELSE host' = k /\ Record(c, t)
  BY DEF SelectByNotify
<1>2. PICK t \in NextText(Commits(r1)) :
          LET k == Harvest(React(host, c, r1, t), c) IN
          IF k.pending[c] = <<>> /\ k.comp[c] = host.comp[c] /\ host.comp[c] # 0
          THEN \E r2 \in NotifyReactions(k, c) :
                  \E u \in IF t = NoText THEN NextText(Commits(r2)) ELSE {NoText} :
                     /\ u = NoText => ~Commits(r2)
                     /\ host' = Harvest(React(k, c, r2, u), c)
                     /\ Record(c, IF t = NoText THEN u ELSE t)
          ELSE host' = k /\ Record(c, t)
  BY <1>0
<1>3. Numbered(t) /\ (Commits(r1) => t # NoText)
  <2>1. Commits(r1) \in BOOLEAN
    BY DEF Commits
  <2> QED BY <2>1, NextTextIs
<1> DEFINE k == Harvest(React(host, c, r1, t), c)
           again == k.pending[c] = <<>> /\ k.comp[c] = host.comp[c] /\ host.comp[c] # 0
<1>4. ASSUME t # NoText => t \in W[c] PROVE Within(k, W, {})
  BY <1>1, <1>3, <1>4, NotifyIn DEF Queue
<1>5. CASE again
  <2>0. PICK r2 \in NotifyReactions(k, c) :
                  \E u \in IF t = NoText THEN NextText(Commits(r2)) ELSE {NoText} :
                     /\ u = NoText => ~Commits(r2)
                     /\ host' = Harvest(React(k, c, r2, u), c)
                     /\ Record(c, IF t = NoText THEN u ELSE t)
    BY <1>2, <1>5
  <2>1. PICK u \in IF t = NoText THEN NextText(Commits(r2)) ELSE {NoText} :
                     /\ u = NoText => ~Commits(r2)
                     /\ host' = Harvest(React(k, c, r2, u), c)
                     /\ Record(c, IF t = NoText THEN u ELSE t)
    BY <2>0
  <2> DEFINE v == IF t = NoText THEN u ELSE t
  <2>2. Numbered(u)
    <3>1. CASE t = NoText
      <4>1. Commits(r2) \in BOOLEAN /\ u \in NextText(Commits(r2))
        BY <3>1 DEF Commits
      <4> QED BY <4>1, NextTextIs
    <3>2. CASE t # NoText
      <4>1. u = NoText
        BY <3>2
      <4> QED BY <4>1 DEF Numbered
    <3> QED BY <3>1, <3>2
  <2>3. v # NoText => v \in W[c]
    BY <1>3, <2>1, <2>2, RecordFits
  <2>4. (t # NoText => t \in W[c]) /\ (u # NoText => u \in W[c])
    BY <2>3
  <2>5. Within(k, W, {}) /\ Sound({}, W[c])
    BY <1>4, <2>4 DEF Sound
  <2>6. r2.act \in ActKinds
    BY <1>1
  <2> HIDE DEF k, again
  <2>7. Within(Harvest(React(k, c, r2, u), c), W, {})
    BY <2>1, <2>4, <2>5, <2>6, NotifyIn
  <2> QED BY <2>1, <2>7, WithinMore
<1>6. CASE ~again
  <2>1. host' = k /\ Record(c, t)
    BY <1>2, <1>6
  <2>2. t # NoText => t \in W[c]
    BY <1>3, <2>1, RecordFits
  <2>3. Within(k, W, {})
    BY <1>4, <2>2
  <2> QED BY <2>1, <2>3, WithinMore
<1> QED BY <1>5, <1>6

LEMMA HarvestPlaces ==
    ASSUME NEW W \in Placings, NEW P, Within(host, W, P), Queue(P, W),
           NEW cl \in Clients, NEW c \in Ctxs, GetContext(cl, c) \/ GetCommit(cl, c)
    PROVE  Within(host', W, P)
<1> DEFINE h == Harvest(host, c)
<1>1. Within(h, W, {})
  BY HarvestIn DEF Queue
<1> HIDE DEF h
<1>2. CASE GetContext(cl, c)
  <2>1. host' = h
    BY <1>2 DEF GetContext, h
  <2> QED BY <1>1, <2>1, WithinMore
<1>3. CASE GetCommit(cl, c)
  <2> DEFINE p == [h.pending EXCEPT ![c] = <<>>]
  <2> DEFINE k == [h EXCEPT !.pending = p]
  <2>1. host' = k /\ k = [h EXCEPT !.pending = p]
    BY <1>3 DEF GetCommit, h
  <2>2. h \in Shapes
    BY <1>1 DEF Within
  <2>3. /\ p \in [Ctxs -> Seq(Texts)]
        /\ \A d \in Ctxs : p[d] = IF d = c THEN <<>> ELSE h.pending[d]
    <3>1. h.pending \in [Ctxs -> Seq(Texts)]
      BY <2>2 DEF Shapes
    <3>2. <<>> \in Seq(Texts)
      OBVIOUS
    <3> QED BY <3>1, <3>2
  <2> HIDE DEF p, k
  <2>4. /\ k.comp = h.comp /\ k.result = h.result /\ k.queue = h.queue
        /\ k.pending = p
        /\ k = [comp |-> k.comp, result |-> k.result, pending |-> k.pending, queue |-> k.queue]
    BY <2>1, <2>2 DEF Shapes
  <2>5. k \in Shapes
    BY <2>2, <2>3, <2>4 DEF Shapes
  <2>6. \A d \in Ctxs : p[d] \in Seq(W[d])
    <3>1. \A d \in Ctxs : <<>> \in Seq(W[d]) /\ h.pending[d] \in Seq(W[d])
      BY <1>1 DEF Within
    <3> QED BY <2>3, <3>1
  <2>7. Within(k, W, {})
    BY <1>1, <2>4, <2>5, <2>6 DEF Within
  <2> QED BY <2>1, <2>7, WithinMore
<1> QED BY <1>2, <1>3

LEMMA TablePlaces ==
    ASSUME NEW W \in Placings, NEW P, Within(host, W, P), Queue(P, W),
           NEW cl \in Clients, Open(cl) \/ Destroy(cl)
    PROVE  Within(host', W, P)
<1> DEFINE q == Kept(host.queue, Messages \ For(table[holds[cl].id]))
<1>1. q \in Seq(P)
  <2>1. host.queue \in Seq(P)
    BY DEF Within
  <2>2. q \in Seq(P \cap (Messages \ For(table[holds[cl].id])))
    BY <2>1, KeptType
  <2> HIDE DEF q
  <2> QED BY <2>2
<1>2. <<>> \in Seq(P)
  OBVIOUS
<1>3. host' = [host EXCEPT !.queue = <<>>] \/ host' = [host EXCEPT !.queue = q]
  BY DEF Open, Destroy
<1> HIDE DEF q
<1>4. P \subseteq Messages
  BY DEF Queue
<1>5. Within([host EXCEPT !.queue = <<>>], W, P)
  BY <1>2, <1>4, QueueIn
<1>6. Within([host EXCEPT !.queue = q], W, P)
  BY <1>1, <1>4, QueueIn
<1> QED BY <1>3, <1>5, <1>6

LEMMA LatePlaces ==
    ASSUME NEW W \in Placings, Fits(W), NEW P, Within(host, W, P), Queue(P, W),
           NEW c \in Ctxs, Late(c)
    PROVE  Within(host', W, P)
<1>1. PICK r \in Reactions(LateActs) :
          \E t \in NextText(Commits(r)) : host' = React(host, c, r, t) /\ Record(c, t)
  BY DEF Late
<1>2. PICK t \in NextText(Commits(r)) : host' = React(host, c, r, t) /\ Record(c, t)
  BY <1>1
<1>3. Numbered(t) /\ (Commits(r) => t # NoText)
  <2>1. Commits(r) \in BOOLEAN
    BY DEF Commits
  <2> QED BY <2>1, NextTextIs
<1>4. Commits(r) => t \in W[c]
  BY <1>2, <1>3, RecordFits
<1>5. r.act \in LateActs /\ r.act \in ActKinds
  BY HostAssumption DEF Reactions
<1>6. Allows(W, P, c, r, t)
  <2>1. r.act \in {"post", "chars"} => Commits(r)
    BY DEF Commits
  <2> QED BY <1>4, <1>5, <2>1 DEF Allows, Queue
<1> QED BY <1>2, <1>6, ReactIn DEF Queue

LEMMA NextPlaces ==
    ASSUME NEW W \in Placings, Fits(W), NEW P, Within(host, W, P), Queue(P, W), [Next]_vars
    PROVE  Within(host', W, P)
<1>1. CASE UNCHANGED vars
  <2>1. host' = host
    BY <1>1 DEF vars
  <2> QED BY <2>1
<1>2. CASE Next
  <2>1. ASSUME NEW cl \in Clients, Open(cl) \/ Destroy(cl) PROVE Within(host', W, P)
    BY <2>1, TablePlaces
  <2>2. ASSUME NEW cl \in Clients, NEW c \in Ctxs, Key(cl, c) PROVE Within(host', W, P)
    BY <2>2, KeyPlaces
  <2>3. ASSUME NEW cl \in Clients, NEW c \in Ctxs, GetContext(cl, c) \/ GetCommit(cl, c)
        PROVE  Within(host', W, P)
    BY <2>3, HarvestPlaces
  <2>4. ASSUME NEW cl \in Clients, NEW c \in Ctxs, SelectByKey(cl, c) PROVE Within(host', W, P)
    BY <2>4, SelectByKeyPlaces
  <2>5. ASSUME NEW cl \in Clients, NEW c \in Ctxs, SelectByNotify(cl, c)
        PROVE  Within(host', W, P)
    BY <2>5, SelectByNotifyPlaces
  <2>6. ASSUME NEW c \in Ctxs, Late(c) PROVE Within(host', W, P)
    BY <2>6, LatePlaces
  <2> QED BY <1>2, <2>1, <2>2, <2>3, <2>4, <2>5, <2>6 DEF Next
<1> QED BY <1>1, <1>2

-----------------------------------------------------------------------------
(* TypeOK: every text anywhere.                                            *)

Everywhere == [c \in Ctxs |-> Texts]

TypeInv ==
    /\ TableInv
    /\ ctxs <= MaxCtxs
    /\ holds \in [Clients -> [id : Ids \cup {0}, ctx : Ctxs \cup {NoCtx}]]
    /\ owner \in Seq(Ctxs)
    /\ given \in [Texts -> 0 .. 2]
    /\ Within(host, Everywhere, Messages)

LEMMA InitPlaces ==
    ASSUME Init, NEW W \in Placings, NEW P
    PROVE  Within(host, W, P)
<1>1. host = [comp |-> [c \in Ctxs |-> 0], result |-> [c \in Ctxs |-> NoText],
              pending |-> [c \in Ctxs |-> <<>>], queue |-> <<>>]
  BY DEF Init
<1>2. /\ host.comp = [c \in Ctxs |-> 0] /\ host.result = [c \in Ctxs |-> NoText]
      /\ host.pending = [c \in Ctxs |-> <<>>] /\ host.queue = <<>>
      /\ host = [comp |-> host.comp, result |-> host.result,
                 pending |-> host.pending, queue |-> host.queue]
  BY <1>1
<1>3. <<>> \in Seq(Texts) /\ <<>> \in Seq(Messages) /\ <<>> \in Seq(P)
      /\ \A c \in Ctxs : <<>> \in Seq(W[c])
  OBVIOUS
<1>4. /\ host.comp \in [Ctxs -> Comps] /\ host.result \in [Ctxs -> Texts \cup {NoText}]
      /\ host.pending \in [Ctxs -> Seq(Texts)] /\ host.queue \in Seq(Messages)
  BY <1>2, <1>3 DEF Comps
<1>5. host \in Shapes
  BY <1>2, <1>4 DEF Shapes
<1> QED BY <1>2, <1>3, <1>5 DEF Within

LEMMA InitTypes == Init => TypeInv
<1> SUFFICES ASSUME Init PROVE TypeInv
  OBVIOUS
<1>1. Everywhere \in Placings
  BY DEF Everywhere, Placings
<1>2. Within(host, Everywhere, Messages)
  BY <1>1, InitPlaces
<1>3. ctxs <= MaxCtxs /\ owner \in Seq(Ctxs) /\ given \in [Texts -> 0 .. 2]
  BY HostAssumption DEF Init
<1>4. holds \in [Clients -> [id : Ids \cup {0}, ctx : Ctxs \cup {NoCtx}]]
  BY DEF Init, NoSession
<1> QED BY <1>2, <1>3, <1>4, InitTable DEF TypeInv

\* Whatever a step commits it commits in one context.
LEMMA OwnerStep ==
    ASSUME [Next]_vars
    PROVE  owner' = owner \/ \E c \in Ctxs : owner' = Append(owner, c)
<1>1. ASSUME NEW c \in Ctxs, NEW t, Record(c, t)
      PROVE  owner' = owner \/ owner' = Append(owner, c)
  BY <1>1 DEF Record
<1>2. ASSUME NEW cl \in Clients, NEW c \in Ctxs, SelectByKey(cl, c)
      PROVE  \E t : Record(c, t)
  BY <1>2 DEF SelectByKey
<1>3. ASSUME NEW cl \in Clients, NEW c \in Ctxs, SelectByNotify(cl, c)
      PROVE  \E t : Record(c, t)
  BY <1>3 DEF SelectByNotify
<1>4. ASSUME NEW cl \in Clients, NEW c \in Ctxs, Key(cl, c) PROVE \E t : Record(c, t)
  BY <1>4 DEF Key
<1>5. ASSUME NEW c \in Ctxs, Late(c) PROVE \E t : Record(c, t)
  BY <1>5 DEF Late
<1>6. ASSUME NEW cl \in Clients, NEW c \in Ctxs, GetContext(cl, c) \/ GetCommit(cl, c)
      PROVE  owner' = owner
  BY <1>6 DEF GetContext, GetCommit
<1>7. ASSUME NEW cl \in Clients, Open(cl) \/ Destroy(cl) PROVE owner' = owner
  BY <1>7 DEF Open, Destroy
<1>8. ASSUME UNCHANGED vars PROVE owner' = owner
  BY <1>8 DEF vars
<1> QED BY <1>1, <1>2, <1>3, <1>4, <1>5, <1>6, <1>7, <1>8 DEF Next

LEMMA GivenStep ==
    ASSUME Within(host, Everywhere, Messages), given \in [Texts -> 0 .. 2], [Next]_vars
    PROVE  given' \in [Texts -> 0 .. 2]
<1>1. ASSUME NEW cl \in Clients, NEW c \in Ctxs, GetCommit(cl, c)
      PROVE  given' \in [Texts -> 0 .. 2]
  <2> DEFINE h == Harvest(host, c)
             times(t) == Len(Kept(h.pending[c], {t}))
             total(t) == given[t] + times(t)
  <2>1. Within(h, Everywhere, {})
    <3>1. Everywhere \in Placings
      BY DEF Everywhere, Placings
    <3>2. Sound(Messages, Everywhere[c])
      BY DEF Sound, Everywhere, Messages
    <3> QED BY <3>1, <3>2, HarvestIn
  <2>2. h.pending[c] \in Seq(Texts)
    BY <2>1 DEF Within, Shapes
  <2>3. given' = [t \in Texts |-> IF total(t) > 2 THEN 2 ELSE total(t)]
    BY <1>1 DEF GetCommit
  <2> HIDE DEF h
  <2>4. \A t \in Texts : total(t) \in Nat
    <3> SUFFICES ASSUME NEW t \in Texts PROVE total(t) \in Nat
      OBVIOUS
    <3>1. Kept(h.pending[c], {t}) \in Seq(Texts \cap {t})
      BY <2>2, KeptType
    <3>2. times(t) \in Nat
      BY <3>1
    <3> QED BY <3>2
  <2> HIDE DEF total
  <2> QED BY <2>3, <2>4
<1>2. ASSUME NEW cl \in Clients, NEW c \in Ctxs,
             Key(cl, c) \/ GetContext(cl, c) \/ SelectByKey(cl, c) \/ SelectByNotify(cl, c)
      PROVE  given' = given
  BY <1>2 DEF Key, GetContext, SelectByKey, SelectByNotify
<1>3. ASSUME NEW cl \in Clients, Open(cl) \/ Destroy(cl) PROVE given' = given
  BY <1>3 DEF Open, Destroy
<1>4. ASSUME NEW c \in Ctxs, Late(c) PROVE given' = given
  BY <1>4 DEF Late
<1>5. ASSUME UNCHANGED vars PROVE given' = given
  BY <1>5 DEF vars
<1> QED BY <1>1, <1>2, <1>3, <1>4, <1>5 DEF Next

\* What the clients hold.
LEMMA HoldsStep ==
    ASSUME TypeInv, [Next]_vars
    PROVE  /\ holds' \in [Clients -> [id : Ids \cup {0}, ctx : Ctxs \cup {NoCtx}]]
           /\ ctxs' <= MaxCtxs
<1>1. /\ holds \in [Clients -> [id : Ids \cup {0}, ctx : Ctxs \cup {NoCtx}]]
      /\ ctxs <= MaxCtxs /\ ctxs \in Nat /\ MaxCtxs \in Nat
  BY HostAssumption DEF TypeInv, TableInv
<1>2. ASSUME NEW cl \in Clients, Open(cl)
      PROVE  /\ holds' \in [Clients -> [id : Ids \cup {0}, ctx : Ctxs \cup {NoCtx}]]
             /\ ctxs' <= MaxCtxs
  <2> DEFINE s == [id |-> Cardinality(Used) + 1, ctx |-> ctxs + 1]
  <2>1. ctxs < MaxCtxs /\ ctxs' = ctxs + 1 /\ holds' = [holds EXCEPT ![cl] = s]
    BY <1>2 DEF Open
  <2>2. Cardinality(Used) + 1 \in Ids
    BY <2>1, NextIdFits DEF TypeInv
  <2>3. s \in [id : Ids \cup {0}, ctx : Ctxs \cup {NoCtx}]
    BY <1>1, <2>1, <2>2 DEF Ctxs
  <2> HIDE DEF s
  <2> QED BY <1>1, <2>1, <2>3
<1>3. ASSUME NEW cl \in Clients, Destroy(cl)
      PROVE  /\ holds' \in [Clients -> [id : Ids \cup {0}, ctx : Ctxs \cup {NoCtx}]]
             /\ ctxs' <= MaxCtxs
  <2>1. ctxs' = ctxs /\ holds' = [holds EXCEPT ![cl] = NoSession]
    BY <1>3 DEF Destroy
  <2>2. NoSession \in [id : Ids \cup {0}, ctx : Ctxs \cup {NoCtx}]
    BY DEF NoSession
  <2> QED BY <1>1, <2>1, <2>2
<1>4. ASSUME NEW cl \in Clients, NEW c \in Ctxs,
             Key(cl, c) \/ GetContext(cl, c) \/ GetCommit(cl, c)
             \/ SelectByKey(cl, c) \/ SelectByNotify(cl, c)
      PROVE  holds' = holds /\ ctxs' = ctxs
  <2>1. Serves(cl, c)
    BY <1>4 DEF Key, GetContext, GetCommit, SelectByKey, SelectByNotify
  <2> QED BY <2>1 DEF Serves
<1>5. ASSUME NEW c \in Ctxs, Late(c) PROVE holds' = holds /\ ctxs' = ctxs
  BY <1>5 DEF Late
<1>6. ASSUME UNCHANGED vars PROVE holds' = holds /\ ctxs' = ctxs
  BY <1>6 DEF vars
<1> QED BY <1>1, <1>2, <1>3, <1>4, <1>5, <1>6 DEF Next

LEMMA NextTypes == TypeInv /\ [Next]_vars => TypeInv'
<1> SUFFICES ASSUME TypeInv, [Next]_vars PROVE TypeInv'
  OBVIOUS
<1>1. Everywhere \in Placings /\ Fits(Everywhere)
  BY DEF Everywhere, Placings, Fits
<1>2. Queue(Messages, Everywhere)
  BY DEF Queue, Sound, Everywhere, Messages, Message
<1>3. Within(host', Everywhere, Messages)
  BY <1>1, <1>2, NextPlaces DEF TypeInv
<1>4. owner' \in Seq(Ctxs)
  BY OwnerStep DEF TypeInv
<1>5. Within(host, Everywhere, Messages)' /\ TableInv'
  BY <1>3, NextTable DEF TypeInv, Everywhere, Within, Shapes
<1>6. given' \in [Texts -> 0 .. 2]
  BY GivenStep DEF TypeInv
<1> QED BY <1>4, <1>5, <1>6, HoldsStep DEF TypeInv

LEMMA TypesOK == TypeInv => TypeOK
<1> SUFFICES ASSUME TypeInv PROVE TypeOK
  OBVIOUS
<1>1. ctxs \in 0 .. MaxCtxs /\ live \subseteq Ctxs
  BY HostAssumption DEF TypeInv, TableInv, Ctxs
<1>2. table \in [Ids -> Ctxs \cup {NoCtx}]
  <2>1. \A i \in Ids : table[i] \in Ctxs \cup {NoCtx}
    BY <1>1 DEF TypeInv, TableInv, Used
  <2> QED BY <2>1 DEF TypeInv, TableInv
<1>3. host \in Shapes
  BY DEF TypeInv, Within
<1> QED BY <1>1, <1>2, <1>3 DEF TypeOK, TypeInv, Shapes

\* Of the v2 host: no call leaves the state that the calls of any number of
\* clients, and an IME that does whatever it can, are defined for (ids in the
\* range of the table, texts that were committed, messages for windows there are).
THEOREM HostTypes == Spec => []TypeOK
BY InitTypes, NextTypes, TypesOK, PTL DEF Spec

-----------------------------------------------------------------------------
(* OwnText: a context's own texts only.  Characters posted between two     *)
(* calls are appended to whichever session pumps next, so the invariant    *)
(* needs an IME that posts none then; announcements of results it may      *)
(* post, and what it does with a key is not restricted.                    *)

NoLateChars == "chars" \notin LateActs

Mine(o) == [c \in Ctxs |-> {t \in Texts : t \in DOMAIN o /\ o[t] = c}]

\* A result string holds a text of its own context, so does what is pending,
\* and the queue holds announcements only.
OwnInv ==
    /\ owner \in Seq(Ctxs)
    /\ Within(host, Mine(owner), OfKind("result"))

LEMMA MineTypes == \A o : Mine(o) \in Placings
BY DEF Mine, Placings

LEMMA MineGrows ==
    ASSUME owner \in Seq(Ctxs), [Next]_vars
    PROVE  /\ \A c \in Ctxs : Mine(owner)[c] \subseteq Mine(owner')[c]
           /\ Fits(Mine(owner'))
<1>1. ASSUME NEW c \in Ctxs, NEW t \in Mine(owner)[c] PROVE t \in Mine(owner')[c]
  <2>1. t \in DOMAIN owner /\ owner[t] = c /\ t \in Texts
    BY DEF Mine
  <2>2. t \in DOMAIN owner' /\ owner'[t] = c
    BY <2>1, OwnerStep
  <2> QED BY <2>1, <2>2 DEF Mine
<1>2. ASSUME NEW c \in Ctxs, owner' = Append(owner, c), Len(owner) + 1 \in Texts
      PROVE  Len(owner) + 1 \in Mine(owner')[c]
  <2>1. Len(owner) + 1 \in DOMAIN owner' /\ owner'[Len(owner) + 1] = c
    BY <1>2
  <2> QED BY <1>2, <2>1 DEF Mine
<1> QED BY <1>1, <1>2 DEF Fits

LEMMA OwnQueue == ASSUME NoLateChars, NEW W \in Placings PROVE Queue(OfKind("result"), W)
<1>1. \A c \in Ctxs : \A t \in W[c] : Message("result", c, t) \in OfKind("result")
  BY DEF Placings, OfKind, Messages, Message
<1> QED BY <1>1 DEF Queue, NoLateChars, Sound, OfKind

LEMMA InitOwn == Init => OwnInv
<1> SUFFICES ASSUME Init PROVE OwnInv
  OBVIOUS
<1>1. Within(host, Mine(owner), OfKind("result"))
  BY MineTypes, InitPlaces
<1>2. owner \in Seq(Ctxs)
  BY DEF Init
<1> QED BY <1>1, <1>2 DEF OwnInv

LEMMA NextOwn == ASSUME NoLateChars PROVE OwnInv /\ [Next]_vars => OwnInv'
<1> SUFFICES ASSUME OwnInv, [Next]_vars PROVE OwnInv'
  OBVIOUS
<1> DEFINE V == Mine(owner)
           W == Mine(owner')
           P == OfKind("result")
<1>1. V \in Placings /\ W \in Placings /\ Queue(P, W)
  BY MineTypes, OwnQueue
<1>2. (\A c \in Ctxs : V[c] \subseteq W[c]) /\ Fits(W)
  BY MineGrows DEF OwnInv
<1>3. Within(host, V, P)
  BY DEF OwnInv
<1>4. owner' \in Seq(Ctxs)
  BY OwnerStep DEF OwnInv
<1> HIDE DEF V, W, P
<1>5. Within(host, W, P)
  BY <1>1, <1>2, <1>3, WithinMore
<1>6. Within(host', W, P)
  BY <1>1, <1>2, <1>5, NextPlaces
<1> QED BY <1>4, <1>6 DEF OwnInv, W, P, Within, Shapes, Mine, OfKind

\* Of the v2 host: text waits only in the session whose context the IME
\* committed it in, although every session pumps the announcements for all
\* (pump_messages_for_hwnd), when no characters are posted between two calls.
THEOREM TextIsOwn == ASSUME NoLateChars PROVE Spec => []OwnText
<1>1. TypeInv /\ OwnInv => OwnText
  <2> SUFFICES ASSUME TypeInv, OwnInv, NEW c \in live, NEW i \in DOMAIN host.pending[c]
               PROVE  owner[host.pending[c][i]] = c
    BY DEF OwnText
  <2>1. c \in Ctxs
    BY TypesOK DEF TypeOK
  <2>2. host.pending[c] \in Seq(Mine(owner)[c])
    BY <2>1 DEF OwnInv, Within
  <2>3. host.pending[c][i] \in Mine(owner)[c]
    BY <2>2
  <2> QED BY <2>1, <2>3 DEF Mine
<1>2. OwnInv /\ [Next]_vars => OwnInv'
  BY NextOwn
<1> QED BY <1>1, <1>2, InitOwn, InitTypes, NextTypes, PTL DEF Spec

-----------------------------------------------------------------------------
(* KeyTextKept.                                                            *)

\* A commit into the result string hides what was there, so a key that commits
\* on its first way does what it would do with an empty result string.
LEMMA OldResultHidden ==
    ASSUME NEW h \in Shapes, NEW c \in Ctxs, NEW r1, r1.act \in {"post", "silent"},
           NEW r2, NEW t, NEW k, k = [h EXCEPT !.result = [h.result EXCEPT ![c] = NoText]]
    PROVE  ProcessVk(k, c, r1, r2, t) = ProcessVk(h, c, r1, r2, t)
<1> DEFINE f == [h.result EXCEPT ![c] = NoText]
<1>1. h.result \in [Ctxs -> Texts \cup {NoText}]
  BY DEF Shapes
<1>2. k = [h EXCEPT !.result = f]
  OBVIOUS
<1>3. f \in [Ctxs -> Texts \cup {NoText}] /\ [f EXCEPT ![c] = t] = [h.result EXCEPT ![c] = t]
  BY <1>1
<1> HIDE DEF f
<1>4. /\ k.comp = h.comp /\ k.result = f /\ k.pending = h.pending /\ k.queue = h.queue
      /\ k \in Shapes
  BY <1>2, <1>3 DEF Shapes
<1>5. r1.act \in ActKinds
  BY DEF ActKinds
<1>6. \A j \in Shapes :
         React(j, c, r1, t) = [comp    |-> ReactComp(j, c, r1),
                               result  |-> ReactResult(j.result, c, r1, t),
                               pending |-> j.pending,
                               queue   |-> ReactQueue(j, c, r1, t)]
  BY <1>5, ReactFields
<1>7. React(k, c, r1, t) = [comp    |-> ReactComp(k, c, r1),
                            result  |-> ReactResult(k.result, c, r1, t),
                            pending |-> k.pending,
                            queue   |-> ReactQueue(k, c, r1, t)]
  BY <1>4, <1>6, Zenon
<1>8. ReactComp(k, c, r1) = ReactComp(h, c, r1) /\ ReactQueue(k, c, r1, t) = ReactQueue(h, c, r1, t)
  BY <1>4 DEF ReactComp, NextComp, ReactQueue
<1>9. ReactResult(k.result, c, r1, t) = ReactResult(h.result, c, r1, t)
  BY <1>3, <1>4 DEF ReactResult
<1>10. React(k, c, r1, t) = React(h, c, r1, t)
  <2>1. React(h, c, r1, t) = [comp    |-> ReactComp(h, c, r1),
                              result  |-> ReactResult(h.result, c, r1, t),
                              pending |-> h.pending,
                              queue   |-> ReactQueue(h, c, r1, t)]
    BY <1>6
  <2> QED BY <1>4, <1>7, <1>8, <1>9, <2>1
<1> QED BY <1>10 DEF ProcessVk

\* The first way: the text is all that can be pending, and something is.
LEMMA FirstWayKeeps ==
    ASSUME NoLateChars, OwnInv, NEW c \in Ctxs, host.pending[c] = <<>>,
           NEW p \in KeyReactions, p[1].act \in {"post", "silent"},
           NEW t \in Texts, host' = ProcessVk(host, c, p[1], p[2], t), host'.result[c] = t
    PROVE  \E i \in DOMAIN host'.pending[c] : host'.pending[c][i] = t
<1> DEFINE W == [Mine(owner) EXCEPT ![c] = {t}]
           k == [host EXCEPT !.result = [host.result EXCEPT ![c] = NoText]]
           P == OfKind("result")
<1>1. Mine(owner) \in Placings /\ Within(host, Mine(owner), P)
  BY MineTypes DEF OwnInv
<1>2. W \in Placings /\ \A d \in Ctxs : W[d] = IF d = c THEN {t} ELSE Mine(owner)[d]
  BY <1>1 DEF Placings
<1>3. host \in Shapes
  BY <1>1 DEF Within
<1>4. k = [host EXCEPT !.result = [host.result EXCEPT ![c] = NoText]]
  OBVIOUS
<1> HIDE DEF W, P, k
<1>5. Within(k, W, P)
  <2> DEFINE f == [host.result EXCEPT ![c] = NoText]
  <2>1. /\ f \in [Ctxs -> Texts \cup {NoText}]
        /\ \A d \in Ctxs : f[d] = IF d = c THEN NoText ELSE host.result[d]
    BY <1>3 DEF Shapes
  <2>2. k = [host EXCEPT !.result = f]
    BY <1>4
  <2> HIDE DEF f
  <2>3. /\ k.comp = host.comp /\ k.result = f /\ k.pending = host.pending /\ k.queue = host.queue
        /\ k \in Shapes
    BY <1>3, <2>1, <2>2 DEF Shapes
  <2>4. <<>> \in Seq(W[c])
    OBVIOUS
  <2>5. \A d \in Ctxs : k.pending[d] \in Seq(W[d])
    BY <1>1, <1>2, <2>3, <2>4 DEF Within
  <2>6. \A d \in Ctxs : k.result[d] \in W[d] \cup {NoText}
    BY <1>1, <1>2, <2>1, <2>3 DEF Within
  <2> QED BY <1>1, <2>3, <2>5, <2>6 DEF Within
<1>6. host' = ProcessVk(k, c, p[1], p[2], t)
  BY <1>3, <1>4, OldResultHidden
<1>7. t # NoText /\ t \in W[c] /\ Sound(P, W[c])
  <2>1. Queue(P, W)
    BY <1>2, OwnQueue DEF P
  <2> QED BY <1>2, <2>1, HostAssumption DEF Queue, Texts, NoText
<1>8. Processed(host', k, W, c, p[1], p[2], t)
  BY <1>2, <1>5, <1>6, <1>7, KeyIn
<1>9. host'.pending[c] # <<>> /\ host'.pending[c] \in Seq({t})
  BY <1>2, <1>7, <1>8 DEF Processed, Within
<1>10. 1 \in DOMAIN host'.pending[c] /\ host'.pending[c][1] = t
  <2> DEFINE s == host'.pending[c]
  <2>1. s # <<>> /\ s \in Seq({t})
    BY <1>9
  <2> HIDE DEF s
  <2>2. Len(s) \in Nat /\ Len(s) # 0
    BY <2>1
  <2>3. 1 \in DOMAIN s /\ s[1] = t
    BY <2>1, <2>2
  <2> QED BY <2>3 DEF s
<1> QED BY <1>10

LEMMA KeyKeeps ==
    ASSUME NoLateChars, OwnInv, NEW c \in Ctxs, NEW cl \in Clients, Key(cl, c),
           CommitsResult(c), host.pending[c] = <<>>, [Next]_vars
    PROVE  Keeps(c)
<1>0. PICK p \in KeyReactions :
          \E t \in NextText(Commits(p[1]) \/ Commits(p[2])) :
             host' = ProcessVk(host, c, p[1], p[2], t) /\ Record(c, t)
  BY DEF Key
<1>1. PICK t \in NextText(Commits(p[1]) \/ Commits(p[2])) :
          host' = ProcessVk(host, c, p[1], p[2], t) /\ Record(c, t)
  BY <1>0
<1>2. Numbered(t) /\ (Commits(p[1]) \/ Commits(p[2]) => t # NoText)
  BY NextTextIs DEF Commits
<1>3. owner \in Seq(Ctxs) /\ Len(owner') > Len(owner) /\ host'.result[c] = Len(owner')
  BY DEF OwnInv, CommitsResult
<1>4. t # NoText /\ t \in Texts /\ t = Len(owner) + 1 /\ t = Len(owner')
  BY <1>1, <1>2, <1>3 DEF Record, Numbered
<1>5. Commits(p[1]) \/ Commits(p[2])
  <2>1. (Commits(p[1]) \/ Commits(p[2])) \in BOOLEAN
    BY DEF Commits
  <2>2. ~(Commits(p[1]) \/ Commits(p[2])) => t \in {NoText}
    BY <2>1 DEF NextText
  <2> QED BY <1>4, <2>2
<1>6. p[1].act = "ignore" \/ p[2].act \in {"ignore", "eat"}
  BY DEF KeyReactions
<1>7. Processed(host', host, Mine(owner'), c, p[1], p[2], t)
  <2>1. Mine(owner) \in Placings /\ Mine(owner') \in Placings
    BY MineTypes
  <2>2. (\A d \in Ctxs : Mine(owner)[d] \subseteq Mine(owner')[d]) /\ Fits(Mine(owner'))
    BY MineGrows DEF OwnInv
  <2>3. Within(host, Mine(owner'), OfKind("result"))
    <3>1. Within(host, Mine(owner), OfKind("result"))
      BY DEF OwnInv
    <3> QED BY <2>1, <2>2, <3>1, WithinMore
  <2>4. Sound(OfKind("result"), Mine(owner')[c])
    BY <2>1, OwnQueue DEF Queue
  <2>5. t # NoText => t \in Mine(owner')[c]
    BY <1>1, <1>2, <2>2, RecordFits
  <2> QED BY <1>1, <1>2, <2>1, <2>3, <2>4, <2>5, KeyIn
<1>8. host.result[c] # t
  <2>1. host.result[c] \in Mine(owner)[c] \cup {NoText}
    BY DEF OwnInv, Within
  <2>2. host.result[c] \in DOMAIN owner \/ host.result[c] = NoText
    BY <2>1 DEF Mine
  <2> QED BY <1>3, <1>4, <2>2
<1>9. CASE p[1].act \in {"post", "silent"}
  BY <1>1, <1>3, <1>4, <1>9, FirstWayKeeps DEF Keeps
<1>10. CASE p[2].act \in {"post", "silent"}
  BY <1>4, <1>7, <1>10 DEF Processed, Keeps
<1>11. CASE p[1].act \notin {"post", "silent"} /\ p[2].act \notin {"post", "silent"}
  <2>1. p[1].act = "chars" \/ p[2].act = "chars"
    BY <1>5, <1>11 DEF Commits
  <2>2. p[1].act # "compose" /\ p[2].act # "compose"
    BY <1>6, <2>1
  <2>3. host'.result = host.result
    BY <1>7, <1>11, <2>2 DEF Processed, ReactResult
  <2> QED BY <1>3, <1>4, <1>8, <2>3
<1> QED BY <1>9, <1>10, <1>11

\* Of process_vk: a key that finds nothing pending leaves the text it commits
\* pending, on whichever of its two ways the IME takes it, announced or not.
THEOREM KeyTextIsKept == ASSUME NoLateChars PROVE Spec => KeyTextKept
<1> DEFINE Kind == \A c \in Ctxs :
                      CommitsResult(c) /\ host.pending[c] = <<>> /\ ~Keeps(c) =>
                          ~ \E cl \in Clients : Key(cl, c)
<1>1. OwnInv /\ [Next]_vars => [Kind]_vars
  BY KeyKeeps
<1>2. OwnInv /\ [Next]_vars => OwnInv'
  BY NextOwn
<1> QED BY <1>1, <1>2, InitOwn, PTL DEF Spec, KeyTextKept

-----------------------------------------------------------------------------
(* SessionStable.  The id that open_session makes of the number of         *)
(* sessions may be one that another client still holds.  What a client     *)
(* holds is stable as long as that does not happen, and it does not while  *)
(* the session destroyed is always the last of those opened.               *)

\* An open makes an id that no session is under.
FreshId == \A cl \in Clients : Open(cl) => table[Cardinality(Used) + 1] = NoCtx

\* Only the session with the highest id is destroyed.
LastFirst == \A cl \in Clients : Destroy(cl) => holds[cl].id = Cardinality(Used)

\* The clients' contexts are of those created so far, and each client's own.
StableInv ==
    /\ TypeInv
    /\ SessionStable
    /\ \A cl \in Clients : holds[cl] # NoSession => holds[cl].ctx \in 1 .. ctxs
    /\ \A cl, d \in Clients :
          /\ holds[cl] # NoSession
          /\ holds[d] # NoSession
          /\ holds[cl].ctx = holds[d].ctx
          => cl = d

LEMMA InitStable == Init => StableInv
<1> SUFFICES ASSUME Init PROVE StableInv
  OBVIOUS
<1>1. \A cl \in Clients : holds[cl] = NoSession
  BY DEF Init
<1>2. TypeInv
  BY InitTypes
<1> QED BY <1>1, <1>2 DEF StableInv, SessionStable

LEMMA OpenStable ==
    ASSUME StableInv, NEW cl \in Clients, Open(cl), table[Cardinality(Used) + 1] = NoCtx,
           TypeInv'
    PROVE  StableInv'
<1> DEFINE id == Cardinality(Used) + 1
           c  == ctxs + 1
           s  == [id |-> id, ctx |-> c]
<1>1. /\ ctxs' = c /\ table' = [table EXCEPT ![id] = c]
      /\ holds' = [holds EXCEPT ![cl] = s] /\ holds[cl] = NoSession /\ ctxs < MaxCtxs
  BY DEF Open
<1>2. id \in Ids /\ table[id] = NoCtx
  BY <1>1, NextIdFits DEF StableInv, TypeInv
<1>3. ctxs \in Nat /\ c \in Nat /\ c > ctxs /\ 1 .. ctxs \subseteq 1 .. c /\ c \in 1 .. c
  BY DEF StableInv, TypeInv, TableInv
<1>4. s.id = id /\ s.ctx = c
  OBVIOUS
<1> HIDE DEF id, s
<1>5. \A d \in Clients : holds'[d] = IF d = cl THEN s ELSE holds[d]
  BY <1>1 DEF StableInv, TypeInv
<1>6. \A i \in Ids : table'[i] = IF i = id THEN c ELSE table[i]
  BY <1>1 DEF StableInv, TypeInv, TableInv
<1>7. ASSUME NEW d \in Clients, d # cl, holds[d] # NoSession
      PROVE  /\ holds[d].id \in Ids /\ holds[d].id # id
             /\ table[holds[d].id] = holds[d].ctx
             /\ holds[d].ctx \in 1 .. ctxs /\ holds[d].ctx # c
  <2>1. holds[d].id \in Ids /\ table[holds[d].id] = holds[d].ctx /\ holds[d].ctx \in 1 .. ctxs
    BY <1>7 DEF StableInv, TypeInv, TableInv, SessionStable
  <2>2. holds[d].ctx # NoCtx /\ holds[d].ctx # c
    BY <1>3, <2>1 DEF NoCtx
  <2> QED BY <1>2, <2>1, <2>2
<1> HIDE DEF c
<1>8. ASSUME NEW d \in Clients, holds'[d] # NoSession
      PROVE  table'[holds'[d].id] = holds'[d].ctx /\ holds'[d].ctx \in 1 .. ctxs'
  <2>1. CASE d = cl
    BY <1>1, <1>2, <1>3, <1>4, <1>5, <1>6, <2>1
  <2>2. CASE d # cl
    BY <1>1, <1>3, <1>5, <1>6, <1>7, <1>8, <2>2
  <2> QED BY <2>1, <2>2
<1>9. ASSUME NEW d \in Clients, NEW e \in Clients, holds'[d] # NoSession,
             holds'[e] # NoSession, holds'[d].ctx = holds'[e].ctx
      PROVE  d = e
  <2>1. CASE d = cl /\ e # cl
    BY <1>4, <1>5, <1>7, <1>9, <2>1
  <2>2. CASE d # cl /\ e = cl
    BY <1>4, <1>5, <1>7, <1>9, <2>2
  <2>3. CASE d # cl /\ e # cl
    BY <1>5, <1>9, <2>3 DEF StableInv
  <2> QED BY <2>1, <2>2, <2>3
<1> QED BY <1>8, <1>9 DEF StableInv, SessionStable

LEMMA DestroyStable ==
    ASSUME StableInv, NEW cl \in Clients, Destroy(cl), TypeInv'
    PROVE  StableInv'
<1> DEFINE id == holds[cl].id
<1>1. /\ ctxs' = ctxs /\ table' = [table EXCEPT ![id] = NoCtx]
      /\ holds' = [holds EXCEPT ![cl] = NoSession] /\ holds[cl] # NoSession
  BY DEF Destroy
<1>2. id \in Ids /\ table[id] = holds[cl].ctx
  BY <1>1 DEF StableInv, TypeInv, TableInv, SessionStable
<1>3. \A d \in Clients : holds'[d] = IF d = cl THEN NoSession ELSE holds[d]
  BY <1>1 DEF StableInv, TypeInv
<1>4. ASSUME NEW d \in Clients, holds'[d] # NoSession
      PROVE  /\ d # cl /\ holds'[d] = holds[d]
             /\ table'[holds[d].id] = holds[d].ctx /\ holds[d].ctx \in 1 .. ctxs'
  <2>1. d # cl /\ holds'[d] = holds[d]
    BY <1>3, <1>4
  <2>2. holds[d].id \in Ids /\ table[holds[d].id] = holds[d].ctx /\ holds[d].ctx \in 1 .. ctxs
    BY <1>4, <2>1 DEF StableInv, TypeInv, TableInv, SessionStable
  <2>3. holds[d].id # id
    <3>1. holds[d].ctx # holds[cl].ctx
      BY <1>1, <1>4, <2>1 DEF StableInv
    <3> QED BY <1>2, <2>2, <3>1
  <2>4. table'[holds[d].id] = table[holds[d].id]
    BY <1>1, <2>2, <2>3 DEF StableInv, TypeInv, TableInv
  <2> QED BY <1>1, <2>1, <2>2, <2>4
<1>5. ASSUME NEW d \in Clients, NEW e \in Clients, holds'[d] # NoSession,
             holds'[e] # NoSession, holds'[d].ctx = holds'[e].ctx
      PROVE  d = e
  BY <1>4, <1>5 DEF StableInv
<1> QED BY <1>4, <1>5 DEF StableInv, SessionStable

LEMMA NextStable == StableInv /\ FreshId /\ [Next]_vars => StableInv'
<1> SUFFICES ASSUME StableInv, FreshId, [Next]_vars PROVE StableInv'
  OBVIOUS
<1>0. TypeInv'
  BY NextTypes DEF StableInv
<1>1. ASSUME UNCHANGED <<table, ctxs, live, holds>> PROVE StableInv'
  BY <1>0, <1>1 DEF StableInv, SessionStable
<1>2. ASSUME NEW cl \in Clients, NEW c \in Ctxs,
             Key(cl, c) \/ GetContext(cl, c) \/ GetCommit(cl, c)
             \/ SelectByKey(cl, c) \/ SelectByNotify(cl, c)
      PROVE  StableInv'
  <2>1. Serves(cl, c)
    BY <1>2 DEF Key, GetContext, GetCommit, SelectByKey, SelectByNotify
  <2> QED BY <1>1, <2>1 DEF Serves
<1>3. ASSUME NEW c \in Ctxs, Late(c) PROVE StableInv'
  BY <1>1, <1>3 DEF Late
<1>4. ASSUME UNCHANGED vars PROVE StableInv'
  BY <1>1, <1>4 DEF vars
<1>5. ASSUME NEW cl \in Clients, Open(cl) PROVE StableInv'
  BY <1>0, <1>5, OpenStable DEF FreshId
<1>6. ASSUME NEW cl \in Clients, Destroy(cl) PROVE StableInv'
  BY <1>0, <1>6, DestroyStable
<1> QED BY <1>2, <1>3, <1>4, <1>5, <1>6 DEF Next

LEMMA StableStutters == StableInv /\ UNCHANGED vars => StableInv'
<1> SUFFICES ASSUME StableInv, UNCHANGED vars PROVE StableInv'
  OBVIOUS
<1>1. TypeInv'
  BY NextTypes DEF StableInv
<1> QED BY <1>1 DEF StableInv, SessionStable, vars

\* Of the v2 host: an id stays the session it was given for until its client
\* destroys it, as long as no open takes an id that is in use (open_session
\* takes the number of sessions for unused).
THEOREM FreshIdsAreStable == Spec /\ [][FreshId]_vars => []SessionStable
<1>1. StableInv => SessionStable
  BY DEF StableInv
<1>2. StableInv /\ [FreshId]_vars /\ [Next]_vars => StableInv'
  BY NextStable, StableStutters
<1> QED BY <1>1, InitStable, <1>2, PTL DEF Spec

\* The ids in use are the first ones.
DenseInv ==
    /\ StableInv
    /\ \E n \in 0 .. MaxCtxs : Used = 1 .. n

LEMMA DenseCount ==
    ASSUME NEW n \in Nat, Used = 1 .. n
    PROVE  Cardinality(Used) = n
BY FS_Interval

LEMMA DenseFresh == ASSUME DenseInv PROVE FreshId
<1>1. PICK n \in 0 .. MaxCtxs : Used = 1 .. n
  BY DEF DenseInv
<1>2. n \in Nat /\ n + 1 \in Nat /\ n + 1 \notin Used
  BY <1>1, HostAssumption
<1>3. Cardinality(Used) = n
  BY <1>1, <1>2, DenseCount
<1>4. ASSUME NEW cl \in Clients, Open(cl) PROVE table[Cardinality(Used) + 1] = NoCtx
  <2>1. ctxs < MaxCtxs
    BY <1>4 DEF Open
  <2>2. n + 1 \in Ids
    BY <1>3, <2>1, NextIdFits DEF DenseInv, StableInv, TypeInv
  <2> QED BY <1>2, <1>3, <2>2 DEF Used
<1> QED BY <1>4 DEF FreshId

LEMMA NextDense == DenseInv /\ LastFirst /\ [Next]_vars => DenseInv'
<1> SUFFICES ASSUME DenseInv, LastFirst, [Next]_vars PROVE DenseInv'
  OBVIOUS
<1>0. StableInv' /\ TableInv
  BY DenseFresh, NextStable DEF DenseInv, StableInv, TypeInv
<1>1. PICK n \in 0 .. MaxCtxs : Used = 1 .. n
  BY DEF DenseInv
<1>2. n \in Nat /\ MaxCtxs \in Nat
  BY <1>1, HostAssumption
<1>3. Cardinality(Used) = n
  BY <1>1, <1>2, DenseCount
<1>4. ASSUME table' = table PROVE DenseInv'
  <2>1. Used' = Used
    BY <1>4 DEF Used
  <2> QED BY <1>0, <1>1, <2>1 DEF DenseInv
<1>5. ASSUME NEW cl \in Clients, Open(cl) PROVE DenseInv'
  <2>1. ctxs < MaxCtxs /\ table' = [table EXCEPT ![n + 1] = ctxs + 1]
    BY <1>3, <1>5 DEF Open
  <2>2. n + 1 \in Ids /\ ctxs + 1 # NoCtx
    BY <1>0, <1>3, <2>1, NextIdFits DEF TableInv, NoCtx
  <2>3. \A i \in Ids : table'[i] = IF i = n + 1 THEN ctxs + 1 ELSE table[i]
    BY <1>0, <2>1 DEF TableInv
  <2>4. Used' = Used \cup {n + 1}
    BY <2>2, <2>3 DEF Used
  <2>5. Used' = 1 .. (n + 1) /\ n + 1 \in 0 .. MaxCtxs
    BY <1>1, <1>2, <2>2, <2>4 DEF Ids
  <2> QED BY <1>0, <2>5 DEF DenseInv
<1>6. ASSUME NEW cl \in Clients, Destroy(cl) PROVE DenseInv'
  <2>1. holds[cl] # NoSession /\ holds[cl].id = n
    BY <1>3, <1>6 DEF LastFirst, Destroy
  <2>2. n \in Ids /\ table' = [table EXCEPT ![n] = NoCtx]
    BY <1>0, <1>6, <2>1 DEF Destroy, TableInv
  <2>3. \A i \in Ids : table'[i] = IF i = n THEN NoCtx ELSE table[i]
    BY <1>0, <2>2 DEF TableInv
  <2>4. Used' = Used \ {n}
    BY <2>3 DEF Used
  <2>5. Used' = 1 .. (n - 1) /\ n - 1 \in 0 .. MaxCtxs
    BY <1>1, <1>2, <2>2, <2>4 DEF Ids
  <2> QED BY <1>0, <2>5 DEF DenseInv
<1>7. ASSUME NEW cl \in Clients, NEW c \in Ctxs,
             Key(cl, c) \/ GetContext(cl, c) \/ GetCommit(cl, c)
             \/ SelectByKey(cl, c) \/ SelectByNotify(cl, c)
      PROVE  DenseInv'
  <2>1. Serves(cl, c)
    BY <1>7 DEF Key, GetContext, GetCommit, SelectByKey, SelectByNotify
  <2> QED BY <1>4, <2>1 DEF Serves
<1>8. ASSUME NEW c \in Ctxs, Late(c) PROVE DenseInv'
  BY <1>4, <1>8 DEF Late
<1>9. ASSUME UNCHANGED vars PROVE DenseInv'
  BY <1>4, <1>9 DEF vars
<1> QED BY <1>5, <1>6, <1>7, <1>8, <1>9 DEF Next

LEMMA DenseStutters == DenseInv /\ UNCHANGED vars => DenseInv'
<1> SUFFICES ASSUME DenseInv, UNCHANGED vars PROVE DenseInv'
  OBVIOUS
<1>1. StableInv'
  BY StableStutters DEF DenseInv
<1>2. Used' = Used
  BY DEF vars, Used
<1> QED BY <1>1, <1>2 DEF DenseInv

\* Of the v2 host: ids are stable while sessions are destroyed in the reverse
\* of the order they were opened in, as by a frontend that has one at a time.
THEOREM LastFirstIsStable == Spec /\ [][LastFirst]_vars => []SessionStable
<1>1. Init => DenseInv
  <2> SUFFICES ASSUME Init PROVE DenseInv
    OBVIOUS
  <2>1. Used = {}
    BY DEF Init, Used, NoCtx
  <2>2. Used = 1 .. 0 /\ 0 \in 0 .. MaxCtxs
    BY <2>1, HostAssumption
  <2> QED BY <2>2, InitStable DEF DenseInv
<1>2. DenseInv => SessionStable
  BY DEF DenseInv, StableInv
<1>3. DenseInv /\ [LastFirst]_vars /\ [Next]_vars => DenseInv'
  BY NextDense, DenseStutters
<1> QED BY <1>1, <1>2, <1>3, PTL DEF Spec

-----------------------------------------------------------------------------
(* SelectTextKept.  A selection by NotifyIME has no last check, so its text *)
(* is there only if the IME announces it: the run in which it commits      *)
(* silently loses it.  Characters posted between two calls do no harm, an  *)
(* announced result goes before them.                                      *)

NoSilentNotify == "silent" \notin NotifyActs

\* Every text there is was committed before.
Past(o)   == [c \in Ctxs |-> {t \in Texts : t \in DOMAIN o}]
Spoken(o) == {m \in Messages : m.text \in DOMAIN o}

PastInv ==
    /\ owner \in Seq(Ctxs)
    /\ Within(host, Past(owner), Spoken(owner))

LEMMA PastQueue == \A o : Past(o) \in Placings /\ Queue(Spoken(o), Past(o))
<1> TAKE o
<1>1. Past(o) \in Placings
  BY DEF Past, Placings
<1>2. \A c \in Ctxs : \A t \in Past(o)[c] : \A k \in {"result", "char"} :
         Message(k, c, t) \in Spoken(o)
  BY DEF Past, Spoken, Messages, Message
<1>3. \A c \in Ctxs : Sound(Spoken(o), Past(o)[c])
  BY DEF Sound, Spoken, Past, Messages
<1> QED BY <1>1, <1>2, <1>3 DEF Queue, Spoken

LEMMA PastGrows ==
    ASSUME owner \in Seq(Ctxs), [Next]_vars
    PROVE  /\ \A c \in Ctxs : Past(owner)[c] \subseteq Past(owner')[c]
           /\ Spoken(owner) \subseteq Spoken(owner')
           /\ Fits(Past(owner'))
<1>1. \A t \in DOMAIN owner : t \in DOMAIN owner'
  BY OwnerStep
<1>2. ASSUME NEW c \in Ctxs, owner' = Append(owner, c), Len(owner) + 1 \in Texts
      PROVE  Len(owner) + 1 \in Past(owner')[c]
  <2>1. Len(owner) + 1 \in DOMAIN owner'
    BY <1>2
  <2> QED BY <1>2, <2>1 DEF Past
<1> QED BY <1>1, <1>2 DEF Past, Spoken, Fits

LEMMA InitPast == Init => PastInv
<1> SUFFICES ASSUME Init PROVE PastInv
  OBVIOUS
<1>1. Within(host, Past(owner), Spoken(owner))
  BY PastQueue, InitPlaces
<1> QED BY <1>1 DEF PastInv, Init

LEMMA NextPast == PastInv /\ [Next]_vars => PastInv'
<1> SUFFICES ASSUME PastInv, [Next]_vars PROVE PastInv'
  OBVIOUS
<1> DEFINE V == Past(owner)
           W == Past(owner')
           P == Spoken(owner)
           Q == Spoken(owner')
<1>1. V \in Placings /\ W \in Placings /\ Queue(Q, W)
  BY PastQueue
<1>2. (\A c \in Ctxs : V[c] \subseteq W[c]) /\ P \subseteq Q /\ Fits(W)
  BY PastGrows DEF PastInv
<1>3. Within(host, V, P)
  BY DEF PastInv
<1>4. owner' \in Seq(Ctxs)
  BY OwnerStep DEF PastInv
<1> HIDE DEF V, W, P, Q
<1>5. Within(host, W, Q)
  BY <1>1, <1>2, <1>3, WithinMore
<1>6. Within(host', W, Q)
  BY <1>1, <1>2, <1>5, NextPlaces
<1> QED BY <1>4, <1>6 DEF PastInv, W, Q, Within, Shapes, Past, Spoken

\* An announcement makes a pump read the result string at least once.
LEMMA AnnouncedIsRead ==
    ASSUME NEW h, NEW c, h.result[c] # NoText, NEW q \in Seq(Messages),
           NEW m \in OfKind("result")
    PROVE  LET x == Wanted(PumpText(h, c, Append(q, m))) IN
           1 \in DOMAIN x /\ x[1] = h.result[c]
<1> DEFINE s == Kept(q, OfKind("result"))
           y == [i \in DOMAIN Append(s, m) |-> h.result[c]]
<1>1. m \in Messages
  BY DEF OfKind
<1>2. Kept(Append(q, m), OfKind("result")) = Append(s, m)
  BY <1>1, KeptAppend
<1>3. s \in Seq(Messages \cap OfKind("result"))
  BY KeptType
<1> HIDE DEF s
<1>4. 1 \in DOMAIN Append(s, m)
  <2>1. Len(s) \in Nat /\ Len(Append(s, m)) = Len(s) + 1
    BY <1>3
  <2>2. DOMAIN Append(s, m) = 1 .. (Len(s) + 1)
    BY <1>3
  <2> QED BY <2>1, <2>2
<1>5. 1 \in DOMAIN y /\ y[1] = h.result[c]
  BY <1>4
<1>6. PumpText(h, c, Append(q, m)).result = y
  BY <1>2 DEF PumpText, ResultText
<1> HIDE DEF y
<1>7. y # <<>>
  BY <1>5
<1>8. Wanted(PumpText(h, c, Append(q, m))) = y
  BY <1>6, <1>7 DEF Wanted
<1> QED BY <1>5, <1>8

\* What NotifyIME makes the IME announce is pending after the pump.
LEMMA PostKeeps ==
    ASSUME NEW W \in Placings, NEW P, NEW h, Within(h, W, P), NEW c \in Ctxs, Sound(P, W[c]),
           NEW r, r.act = "post", NEW t, t \in W[c], t # NoText
    PROVE  LET k == Harvest(React(h, c, r, t), c) IN
           \E i \in DOMAIN k.pending[c] : k.pending[c][i] = t
<1> DEFINE Q == Offers(P, c, t)
           y == React(h, c, r, t)
           m == Message("result", c, t)
           e == [y EXCEPT !.queue = <<>>]
           x == Wanted(PumpText(y, c, y.queue))
           k == Harvest(y, c)
<1>1. r.act \in ActKinds /\ Commits(r) /\ h \in Shapes
  BY DEF ActKinds, Commits, Within
<1>2. Within(y, W, Q) /\ Sound(Q, W[c])
  <2>1. Sound(Q, W[c]) /\ Allows(W, Q, c, r, t)
    BY <1>1, OffersSound, OffersAllow
  <2>2. P \subseteq Q /\ Q \subseteq Messages
    BY <2>1 DEF Offers, Sound
  <2> HIDE DEF Q, y
  <2> QED BY <1>1, <2>1, <2>2, ReactIn DEF y
<1>3. y.result[c] = t /\ y.queue = Append(h.queue, m)
  <2>1. y = [comp |-> ReactComp(h, c, r), result |-> ReactResult(h.result, c, r, t),
             pending |-> h.pending, queue |-> ReactQueue(h, c, r, t)]
    BY <1>1, ReactFields
  <2>2. y.result = ReactResult(h.result, c, r, t) /\ y.queue = ReactQueue(h, c, r, t)
    BY <2>1
  <2>3. h.result \in [Ctxs -> Texts \cup {NoText}]
    BY <1>1 DEF Shapes
  <2> QED BY <2>2, <2>3 DEF ReactResult, ReactQueue
<1>4. h.queue \in Seq(Messages) /\ m \in OfKind("result")
  BY <1>1 DEF Shapes, Placings, OfKind, Messages, Message
<1> HIDE DEF Q, y, m
<1>5. 1 \in DOMAIN x /\ x[1] = t
  BY <1>3, <1>4, AnnouncedIsRead
<1>6. x \in Seq(W[c])
  <2>1. y.result[c] \in W[c] \cup {NoText} /\ y.queue \in Seq(Q)
    BY <1>2 DEF Within
  <2>2. PumpText(y, c, y.queue) \in [result : Seq(W[c]), chars : Seq(W[c])]
    BY <1>2, <2>1, PumpTextIn
  <2> QED BY <2>2 DEF Wanted
<1>7. Within(e, W, {})
  <2>1. <<>> \in Seq({})
    OBVIOUS
  <2> QED BY <1>2, <2>1, QueueIn
<1>8. k = AppendCommit(e, c, x)
  BY DEF Harvest
<1> HIDE DEF e, x, k
<1>9. Appended(k, e, c, x)
  BY <1>6, <1>7, <1>8, AppendIn
<1>10. e.pending \in [Ctxs -> Seq(Texts)] /\ e.pending[c] \in Seq(W[c])
  BY <1>7 DEF Within, Shapes
<1>11. k.pending[c] = e.pending[c] \o x
  BY <1>9, <1>10 DEF Appended
<1>12. \E i \in DOMAIN k.pending[c] : k.pending[c][i] = t
  <2> DEFINE a == e.pending[c]
  <2>1. a \in Seq(W[c])
    BY <1>10
  <2>2. k.pending[c] = a \o x
    BY <1>11
  <2> HIDE DEF a
  <2>3. Len(a) \in Nat /\ Len(x) \in Nat /\ Len(x) >= 1 /\ Len(a \o x) = Len(a) + Len(x)
    BY <1>5, <1>6, <2>1
  <2>4. DOMAIN (a \o x) = 1 .. Len(a) + Len(x)
    BY <1>6, <2>1
  <2>5. Len(a) + 1 \in DOMAIN (a \o x) /\ (a \o x)[Len(a) + 1] = x[1]
    BY <1>6, <2>1, <2>3, <2>4
  <2> QED BY <1>5, <2>2, <2>5
<1> QED BY <1>12 DEF k, y

\* What a reaction that is not a post leaves in the result string is not new.
LEMMA NotNew ==
    ASSUME NEW W \in Placings, NEW P, NEW h, Within(h, W, P), NEW c \in Ctxs, Sound(P, W[c]),
           NEW r, r.act \in ActKinds, r.act \notin {"post", "silent"},
           NEW t, t # NoText => t \in W[c], Commits(r) => t # NoText,
           NEW n, h.result[c] # n, n # NoText
    PROVE  Harvest(React(h, c, r, t), c).result[c] # n
<1> DEFINE Q == Offers(P, c, t)
           y == React(h, c, r, t)
<1>1. Within(y, W, Q) /\ Sound(Q, W[c])
  <2>1. Sound(Q, W[c]) /\ Allows(W, Q, c, r, t)
    BY OffersSound, OffersAllow
  <2>2. P \subseteq Q /\ Q \subseteq Messages
    BY <2>1 DEF Offers, Sound
  <2> HIDE DEF Q
  <2> QED BY <2>1, <2>2, ReactIn
<1>2. h \in Shapes
  BY DEF Within
<1>3. y.result = ReactResult(h.result, c, r, t)
  <2>1. y = [comp |-> ReactComp(h, c, r), result |-> ReactResult(h.result, c, r, t),
             pending |-> h.pending, queue |-> ReactQueue(h, c, r, t)]
    BY <1>2, ReactFields
  <2> QED BY <2>1
<1> HIDE DEF y
<1>4. y.result[c] # n
  <2>1. h.result \in [Ctxs -> Texts \cup {NoText}]
    BY <1>2 DEF Shapes
  <2> QED BY <1>3, <2>1 DEF ReactResult
<1>5. Harvest(y, c).result = y.result
  BY <1>1, HarvestIn
<1> QED BY <1>4, <1>5 DEF y

LEMMA SelectKeeps ==
    ASSUME NoSilentNotify, PastInv, NEW c \in Ctxs, NEW cl \in Clients,
           SelectByNotify(cl, c), CommitsResult(c), [Next]_vars
    PROVE  Keeps(c)
<1> DEFINE W == Past(owner')
           P == Spoken(owner')
           n == Len(owner')
<1>1. W \in Placings /\ Fits(W) /\ Sound(P, W[c]) /\ Within(host, W, P)
  <2>1. Past(owner) \in Placings /\ W \in Placings /\ Queue(P, W)
    BY PastQueue
  <2>2. /\ \A d \in Ctxs : Past(owner)[d] \subseteq W[d]
        /\ Spoken(owner) \subseteq P /\ Fits(W)
    BY PastGrows DEF PastInv
  <2>3. Within(host, Past(owner), Spoken(owner))
    BY DEF PastInv
  <2> HIDE DEF W, P
  <2> QED BY <2>1, <2>2, <2>3, WithinMore DEF Queue
<1>2. owner \in Seq(Ctxs) /\ n > Len(owner) /\ host'.result[c] = n
  BY DEF PastInv, CommitsResult
<1>3. n = Len(owner) + 1 /\ n \in Nat /\ n # NoText
  BY <1>2, OwnerStep DEF NoText
<1>4. host.result[c] # n
  <2>1. host.result[c] \in Past(owner)[c] \cup {NoText}
    BY DEF PastInv, Within
  <2>2. host.result[c] \in DOMAIN owner \/ host.result[c] = NoText
    BY <2>1 DEF Past
  <2> QED BY <1>2, <1>3, <2>2
<1>5. \A h : \A r \in NotifyReactions(h, c) : r.act \in ActKinds /\ r.act # "silent"
  BY HostAssumption DEF NotifyReactions, Reactions, NoSilentNotify
<1>6. PICK r1 \in NotifyReactions(host, c) : \E t \in NextText(Commits(r1)) :
          LET k == Harvest(React(host, c, r1, t), c) IN
          IF k.pending[c] = <<>> /\ k.comp[c] = host.comp[c] /\ host.comp[c] # 0
          THEN \E r2 \in NotifyReactions(k, c) :
                  \E u \in IF t = NoText THEN NextText(Commits(r2)) ELSE {NoText} :
                     /\ u = NoText => ~Commits(r2)
                     /\ host' = Harvest(React(k, c, r2, u), c)
                     /\ Record(c, IF t = NoText THEN u ELSE t)
          ELSE host' = k /\ Record(c, t)
  BY DEF SelectByNotify
<1>7. PICK t \in NextText(Commits(r1)) :
          LET k == Harvest(React(host, c, r1, t), c) IN
          IF k.pending[c] = <<>> /\ k.comp[c] = host.comp[c] /\ host.comp[c] # 0
          THEN \E r2 \in NotifyReactions(k, c) :
                  \E u \in IF t = NoText THEN NextText(Commits(r2)) ELSE {NoText} :
                     /\ u = NoText => ~Commits(r2)
                     /\ host' = Harvest(React(k, c, r2, u), c)
                     /\ Record(c, IF t = NoText THEN u ELSE t)
          ELSE host' = k /\ Record(c, t)
  BY <1>6
<1>8. Numbered(t) /\ (Commits(r1) => t # NoText)
  <2>1. Commits(r1) \in BOOLEAN
    BY DEF Commits
  <2> QED BY <2>1, NextTextIs
<1> DEFINE k == Harvest(React(host, c, r1, t), c)
           again == k.pending[c] = <<>> /\ k.comp[c] = host.comp[c] /\ host.comp[c] # 0
<1> HIDE DEF W, P, n
<1>9. ASSUME t # NoText => t \in W[c]
      PROVE  /\ Within(k, W, {})
             /\ r1.act = "post" => \E i \in DOMAIN k.pending[c] : k.pending[c][i] = t
             /\ r1.act # "post" => k.result[c] # n
  <2>1. Within(k, W, {})
    BY <1>1, <1>5, <1>8, <1>9, NotifyIn
  <2>2. r1.act = "post" => \E i \in DOMAIN k.pending[c] : k.pending[c][i] = t
    BY <1>1, <1>8, <1>9, PostKeeps DEF Commits
  <2>3. ASSUME r1.act # "post" PROVE k.result[c] # n
    <3>1. r1.act \in ActKinds /\ r1.act \notin {"post", "silent"}
      BY <1>5, <2>3
    <3>2. n # NoText /\ host.result[c] # n
      BY <1>3, <1>4
    <3>3. Harvest(React(host, c, r1, t), c).result[c] # n
      BY <1>1, <1>8, <1>9, <3>1, <3>2, NotNew
    <3> QED BY <3>3
  <2> QED BY <2>1, <2>2, <2>3
<1>10. CASE again
  <2>1. PICK r2 \in NotifyReactions(k, c) :
                  \E u \in IF t = NoText THEN NextText(Commits(r2)) ELSE {NoText} :
                     /\ u = NoText => ~Commits(r2)
                     /\ host' = Harvest(React(k, c, r2, u), c)
                     /\ Record(c, IF t = NoText THEN u ELSE t)
    BY <1>7, <1>10
  <2>2. PICK u \in IF t = NoText THEN NextText(Commits(r2)) ELSE {NoText} :
                     /\ u = NoText => ~Commits(r2)
                     /\ host' = Harvest(React(k, c, r2, u), c)
                     /\ Record(c, IF t = NoText THEN u ELSE t)
    BY <2>1
  <2> DEFINE v == IF t = NoText THEN u ELSE t
  <2>3. Numbered(u)
    <3>1. CASE t = NoText
      <4>1. Commits(r2) \in BOOLEAN /\ u \in NextText(Commits(r2))
        BY <3>1 DEF Commits
      <4> QED BY <4>1, NextTextIs
    <3>2. CASE t # NoText
      <4>1. u = NoText
        BY <3>2
      <4> QED BY <4>1 DEF Numbered
    <3> QED BY <3>1, <3>2
  <2>4. v # NoText => v \in W[c]
    BY <1>1, <1>8, <2>2, <2>3, RecordFits
  <2>5. (t # NoText => t \in W[c]) /\ (u # NoText => u \in W[c])
    BY <2>4
  <2>6. Within(k, W, {}) /\ Sound({}, W[c]) /\ k.pending[c] = <<>>
    BY <1>9, <1>10, <2>5 DEF Sound
  <2>7. r1.act # "post"
    BY <1>9, <2>5, <2>6
  <2>8. k.result[c] # n
    BY <1>9, <2>5, <2>7
  <2>9. r2.act \in ActKinds /\ r2.act # "silent" /\ (Commits(r2) => u # NoText)
    BY <1>5, <2>2
  <2> HIDE DEF k, again
  <2>10. r2.act # "post" => host'.result[c] # n
    BY <1>1, <1>3, <2>2, <2>5, <2>6, <2>8, <2>9, NotNew
  <2>11. r2.act = "post" /\ u # NoText
    BY <1>2, <2>9, <2>10 DEF n, Commits
  <2>12. \E i \in DOMAIN host'.pending[c] : host'.pending[c][i] = u
    BY <1>1, <2>2, <2>5, <2>6, <2>11, PostKeeps
  <2>13. u = n
    BY <1>3, <2>3, <2>11 DEF Numbered
  <2> QED BY <2>12, <2>13 DEF Keeps, n
<1>11. CASE ~again
  <2>1. host' = k /\ Record(c, t)
    BY <1>7, <1>11
  <2>2. t # NoText => t \in W[c]
    BY <1>1, <1>8, <2>1, RecordFits
  <2>3. r1.act = "post"
    BY <1>2, <1>9, <2>1, <2>2 DEF n
  <2>4. t = n
    BY <1>3, <1>8, <2>3 DEF Numbered, Commits
  <2>5. \E i \in DOMAIN host'.pending[c] : host'.pending[c][i] = t
    BY <1>9, <2>1, <2>2, <2>3
  <2> QED BY <2>4, <2>5 DEF Keeps, n
<1> QED BY <1>10, <1>11

\* Of select_candidate: text that a selection commits is there for GetCommit
\* if the IME announces what NotifyIME makes it commit, whatever it does with
\* keys and between two calls.
THEOREM AnnouncedSelectIsKept == ASSUME NoSilentNotify PROVE Spec => SelectTextKept
<1> DEFINE Kind == \A c \in Ctxs :
                      CommitsResult(c) /\ host.pending[c] = <<>> /\ ~Keeps(c) =>
                          ~ \E cl \in Clients : SelectByNotify(cl, c)
<1>1. PastInv /\ [Next]_vars => [Kind]_vars
  BY SelectKeeps
<1> QED BY <1>1, InitPast, NextPast, PTL DEF Spec, SelectTextKept

-----------------------------------------------------------------------------
(* DeliveredOnce.  A text is read more than once only from the result      *)
(* string, which the IME leaves there: with an IME that posts characters   *)
(* instead, whichever of the pumps meets them, each text is at one place   *)
(* at most, in the queue, pending in one session or handed out.            *)

CharsOnly == (KeyActs \cup NotifyActs \cup LateActs) \cap {"post", "silent"} = {}

\* No text of S is in two places, and none outside S in any.
Once(h, g, S) ==
    /\ h \in Shapes
    /\ \A c \in Ctxs : h.result[c] = NoText
    /\ h.queue \in Seq(OfKind("char"))
    /\ \A i, j \in DOMAIN h.queue : h.queue[i].text = h.queue[j].text => i = j
    /\ \A i \in DOMAIN h.queue : h.queue[i].text \in S /\ g[h.queue[i].text] = 0
    /\ \A c \in Ctxs : \A i \in DOMAIN h.pending[c] :
          /\ h.pending[c][i] \in S /\ g[h.pending[c][i]] = 0
          /\ \A j \in DOMAIN h.queue : h.queue[j].text # h.pending[c][i]
          /\ \A d \in Ctxs : \A j \in DOMAIN h.pending[d] :
                h.pending[c][i] = h.pending[d][j] => c = d /\ i = j
    /\ \A t \in Texts : g[t] < 2 /\ (g[t] # 0 => t \in S)

OnceInv ==
    /\ owner \in Seq(Ctxs)
    /\ given \in [Texts -> 0 .. 2]
    /\ Once(host, given, DOMAIN owner)

\* Texts that are in the queue of h, or new: in R and not yet in S.
Movable(x, h, g, S, R) ==
    /\ x \in Seq(Texts)
    /\ \A i, j \in DOMAIN x : x[i] = x[j] => i = j
    /\ \A i \in DOMAIN x : \/ \E j \in DOMAIN h.queue : h.queue[j].text = x[i]
                           \/ x[i] \in R \ S /\ g[x[i]] = 0

\* k is h with the queue emptied and x appended in context c.
Moves(k, h, c, x) ==
    /\ k \in Shapes
    /\ k.result = h.result
    /\ k.queue = <<>>
    /\ k.pending = [h.pending EXCEPT ![c] = @ \o x]

LEMMA MoveOnce ==
    ASSUME NEW h, NEW g, NEW S, Once(h, g, S), NEW c \in Ctxs,
           NEW R, S \subseteq R, NEW x, Movable(x, h, g, S, R), NEW k, Moves(k, h, c, x)
    PROVE  Once(k, g, R)
<1> DEFINE p == h.pending[c]
<1>0. /\ k \in Shapes /\ k.result = h.result /\ k.queue = <<>>
      /\ k.pending = [h.pending EXCEPT ![c] = @ \o x] /\ x \in Seq(Texts)
  BY DEF Moves, Movable
<1>1. h.pending \in [Ctxs -> Seq(Texts)]
  BY DEF Once, Shapes
<1>2. /\ k.pending[c] = p \o x
      /\ \A d \in Ctxs : d # c => k.pending[d] = h.pending[d]
  BY <1>0, <1>1
<1>3. p \in Seq(Texts)
  BY <1>1
<1> HIDE DEF p
<1>4. /\ Len(p) \in Nat /\ Len(x) \in Nat /\ DOMAIN p = 1 .. Len(p) /\ DOMAIN x = 1 .. Len(x)
      /\ DOMAIN (p \o x) = 1 .. Len(p) + Len(x)
      /\ \A i \in 1 .. Len(p) + Len(x) :
            (p \o x)[i] = IF i <= Len(p) THEN p[i] ELSE x[i - Len(p)]
  BY <1>0, <1>3
<1>5. \A i \in DOMAIN (p \o x) :
         \/ i \in DOMAIN p /\ (p \o x)[i] = p[i]
         \/ i - Len(p) \in DOMAIN x /\ i \notin DOMAIN p /\ (p \o x)[i] = x[i - Len(p)]
  BY <1>4
<1>6. \A i \in DOMAIN x : x[i] \in R /\ g[x[i]] = 0 /\ x[i] \in Texts
  <2>1. \A i \in DOMAIN x : x[i] \in Texts
    BY <1>0
  <2> QED BY <2>1 DEF Once, Movable
<1>7. \A i \in DOMAIN x : \A d \in Ctxs : \A j \in DOMAIN h.pending[d] :
         h.pending[d][j] # x[i]
  BY DEF Once, Movable
<1>8. ASSUME NEW i \in DOMAIN (p \o x)
      PROVE  (p \o x)[i] \in R /\ g[(p \o x)[i]] = 0
  <2>1. \A j \in DOMAIN p : p[j] \in R /\ g[p[j]] = 0
    BY DEF Once, p
  <2> QED BY <1>5, <1>6, <2>1
<1>9. ASSUME NEW i \in DOMAIN (p \o x), NEW j \in DOMAIN (p \o x), (p \o x)[i] = (p \o x)[j]
      PROVE  i = j
  <2>1. \A a, b \in DOMAIN p : p[a] = p[b] => a = b
    BY DEF Once, p
  <2>2. \A a \in DOMAIN x : \A b \in DOMAIN p : p[b] # x[a]
    BY <1>7 DEF p
  <2>3. i \in Int /\ j \in Int /\ Len(p) \in Int /\ (i - Len(p) = j - Len(p) => i = j)
    BY <1>4
  <2>4. \A a, b \in DOMAIN x : x[a] = x[b] => a = b
    BY DEF Movable
  <2> QED BY <1>5, <1>9, <2>1, <2>2, <2>3, <2>4
<1>10. ASSUME NEW i \in DOMAIN (p \o x), NEW d \in Ctxs, d # c, NEW j \in DOMAIN h.pending[d]
       PROVE  (p \o x)[i] # h.pending[d][j]
  <2>1. \A a \in DOMAIN p : p[a] # h.pending[d][j]
    BY <1>10 DEF Once, p
  <2> QED BY <1>5, <1>7, <2>1
<1>11. ASSUME NEW d \in Ctxs, NEW i \in DOMAIN k.pending[d]
       PROVE  k.pending[d][i] \in R /\ g[k.pending[d][i]] = 0
  <2>1. CASE d = c
    BY <1>2, <1>8, <1>11, <2>1
  <2>2. CASE d # c
    <3>1. i \in DOMAIN h.pending[d] /\ k.pending[d][i] = h.pending[d][i]
      BY <1>2, <1>11, <2>2
    <3>2. h.pending[d][i] \in S /\ g[h.pending[d][i]] = 0
      BY <3>1 DEF Once
    <3> QED BY <3>1, <3>2
  <2> QED BY <2>1, <2>2
<1>12. ASSUME NEW d \in Ctxs, NEW i \in DOMAIN k.pending[d],
              NEW e \in Ctxs, NEW j \in DOMAIN k.pending[e], k.pending[d][i] = k.pending[e][j]
       PROVE  d = e /\ i = j
  <2>1. CASE d = c /\ e = c
    BY <1>2, <1>9, <1>12, <2>1
  <2>2. CASE d = c /\ e # c
    <3>1. i \in DOMAIN (p \o x) /\ j \in DOMAIN h.pending[e] /\ (p \o x)[i] = h.pending[e][j]
      BY <1>2, <1>12, <2>2
    <3> QED BY <1>10, <2>2, <3>1
  <2>3. CASE d # c /\ e = c
    <3>1. j \in DOMAIN (p \o x) /\ i \in DOMAIN h.pending[d] /\ (p \o x)[j] = h.pending[d][i]
      BY <1>2, <1>12, <2>3
    <3> QED BY <1>10, <2>3, <3>1
  <2>4. CASE d # c /\ e # c
    BY <1>2, <1>12, <2>4 DEF Once
  <2> QED BY <2>1, <2>2, <2>3, <2>4
<1>13. DOMAIN k.queue = {} /\ k.queue \in Seq(OfKind("char"))
  BY <1>0
<1>14. \A t \in Texts : g[t] < 2 /\ (g[t] # 0 => t \in R)
  BY DEF Once
<1>15. \A d \in Ctxs : k.result[d] = NoText
  BY <1>0 DEF Once
<1> QED BY <1>0, <1>11, <1>12, <1>13, <1>14, <1>15 DEF Once

LEMMA OnceWithin ==
    ASSUME NEW h, NEW g, NEW S, Once(h, g, S)
    PROVE  /\ Within(h, Everywhere, Messages) /\ Everywhere \in Placings
           /\ \A c \in Ctxs : Sound(Messages, Everywhere[c])
<1>1. \A c \in Ctxs : h.result[c] \in Texts \cup {NoText} /\ h.pending[c] \in Seq(Texts)
  BY DEF Once, Shapes
<1> QED BY <1>1 DEF Once, Within, Everywhere, Shapes, Placings, Sound, Messages

\* A pump moves what is in the queue, whichever window it is for.
LEMMA HarvestOnce ==
    ASSUME NEW h, NEW g, NEW S, Once(h, g, S), NEW c \in Ctxs
    PROVE  Once(Harvest(h, c), g, S) /\ Harvest(h, c).queue = <<>>
<1> DEFINE x == Chars(h.queue)
           k == Harvest(h, c)
           e == [h EXCEPT !.queue = <<>>]
<1>1. Within(h, Everywhere, Messages) /\ Everywhere \in Placings /\ h \in Shapes
  BY OnceWithin DEF Once
<1>2. Within(k, Everywhere, {}) /\ k.result = h.result
  BY <1>1, OnceWithin, HarvestIn
<1>3. Wanted(PumpText(h, c, h.queue)) = x
  <2>1. \A msgs : ResultText(h, c, msgs) = <<>>
    BY DEF Once, ResultText
  <2>2. Kept(h.queue, OfKind("char")) = h.queue
    <3>1. \A i \in DOMAIN h.queue : h.queue[i] \in OfKind("char")
      BY DEF Once
    <3> QED BY <3>1, KeptAll DEF Once
  <2> QED BY <2>1, <2>2 DEF PumpText, Wanted
<1>4. k = AppendCommit(e, c, x)
  BY <1>3 DEF Harvest
<1>5. x \in Seq(Texts) /\ DOMAIN x = DOMAIN h.queue /\ \A i \in DOMAIN x : x[i] = h.queue[i].text
  <2>1. \A m \in OfKind("char") : m.text \in Texts
    BY DEF OfKind, Messages
  <2> QED BY <2>1, CharsIn DEF Chars, Once
<1>6. Within(e, Everywhere, {}) /\ e.pending = h.pending
  <2>1. <<>> \in Seq({})
    OBVIOUS
  <2> QED BY <1>1, <2>1, QueueIn, FieldOfHost
<1> HIDE DEF x, k, e
<1>7. Appended(k, e, c, x)
  <2>1. x \in Seq(Everywhere[c])
    BY <1>5 DEF Everywhere
  <2> QED BY <1>1, <1>4, <1>6, <2>1, AppendIn
<1>8. k \in Shapes /\ k.queue = <<>>
  BY <1>2, EmptyQueue DEF Within
<1>9. Moves(k, h, c, x)
  BY <1>2, <1>6, <1>7, <1>8 DEF Appended, Moves
<1>10. Movable(x, h, g, S, S)
  BY <1>5 DEF Once, Movable
<1>11. Once(k, g, S)
  BY <1>9, <1>10, MoveOnce
<1> QED BY <1>8, <1>11 DEF k

\* Reactions of the IME that leave the result string alone, and what they add.
Calm(r) == r.act \in ActKinds \ {"post", "silent"}

New(S, g, r, t) == Commits(r) => t \in Texts /\ t \notin S /\ g[t] = 0

With(S, b, t) == IF b THEN S \cup {t} ELSE S

\* The IME posts a new text.
LEMMA ReactOnce ==
    ASSUME NEW h, NEW g, NEW S, Once(h, g, S), NEW c \in Ctxs,
           NEW r, Calm(r), NEW t, New(S, g, r, t)
    PROVE  Once(React(h, c, r, t), g, With(S, Commits(r), t))
<1> DEFINE k == React(h, c, r, t)
           m == Message("char", c, t)
<1>1. /\ h \in Shapes /\ r.act \in ActKinds /\ Within(h, Everywhere, Messages)
      /\ Everywhere \in Placings /\ (Commits(r) <=> r.act = "chars")
  <2>1. Within(h, Everywhere, Messages) /\ Everywhere \in Placings
    BY OnceWithin
  <2>2. h \in Shapes
    BY DEF Once
  <2>3. r.act \in ActKinds /\ (Commits(r) <=> r.act = "chars")
    BY DEF Calm, Commits
  <2> QED BY <2>1, <2>2, <2>3
<1>2. k = [comp |-> ReactComp(h, c, r), result |-> ReactResult(h.result, c, r, t),
           pending |-> h.pending, queue |-> ReactQueue(h, c, r, t)]
  BY <1>1, ReactFields
<1>3. k \in Shapes
  <2>1. Allows(Everywhere, Messages, c, r, t)
    BY <1>1 DEF Allows, Calm, New, Everywhere, Messages, Message
  <2>2. Within(k, Everywhere, Messages)
    BY <1>1, <2>1, ReactIn
  <2> QED BY <2>2 DEF Within
<1> HIDE DEF k
<1>4. \A d \in Ctxs : k.result[d] = NoText
  <2>1. h.result \in [Ctxs -> Texts \cup {NoText}] /\ \A d \in Ctxs : h.result[d] = NoText
    BY <1>1 DEF Once, Shapes
  <2> QED BY <1>2, <2>1 DEF ReactResult, Calm
<1>5. CASE r.act = "chars"
  <2>1. t \in Texts /\ t \notin S /\ g[t] = 0 /\ m \in OfKind("char") /\ m.text = t
    BY <1>1, <1>5 DEF New, OfKind, Messages, Message
  <2> DEFINE q == h.queue
             z == Append(q, m)
  <2>2. q \in Seq(OfKind("char"))
    BY DEF Once
  <2> HIDE DEF q, m
  <2>3. /\ z \in Seq(OfKind("char")) /\ DOMAIN z = 1 .. Len(q) + 1 /\ DOMAIN q = 1 .. Len(q)
        /\ Len(q) \in Nat /\ \A i \in 1 .. Len(q) + 1 : z[i] = IF i = Len(q) + 1 THEN m ELSE q[i]
    BY <2>1, <2>2
  <2> HIDE DEF z
  <2>4. \A i \in DOMAIN z : \/ i \in DOMAIN q /\ z[i] = q[i]
                            \/ i \notin DOMAIN q /\ i = Len(q) + 1 /\ z[i] = m
    BY <2>3
  <2>5. k.queue = z /\ k.pending = h.pending
    BY <1>2, <1>5 DEF ReactQueue, z, q, m
  <2>6. \A i \in DOMAIN q : q[i].text \in S
    BY DEF Once, q
  <2>7. \A i, j \in DOMAIN z : z[i].text = z[j].text => i = j
    <3>1. \A i, j \in DOMAIN q : q[i].text = q[j].text => i = j
      BY DEF Once, q
    <3> QED BY <2>1, <2>4, <2>6, <3>1
  <2>8. \A i \in DOMAIN z : z[i].text \in S \cup {t} /\ g[z[i].text] = 0
    <3>1. \A i \in DOMAIN q : g[q[i].text] = 0
      BY DEF Once, q
    <3> QED BY <2>1, <2>4, <2>6, <3>1
  <2>9. \A d \in Ctxs : \A i \in DOMAIN h.pending[d] : \A j \in DOMAIN z :
           z[j].text # h.pending[d][i]
    <3>1. \A d \in Ctxs : \A i \in DOMAIN h.pending[d] :
             h.pending[d][i] \in S /\ \A j \in DOMAIN q : q[j].text # h.pending[d][i]
      BY DEF Once, q
    <3> QED BY <2>1, <2>4, <3>1
  <2>10. Once(k, g, S \cup {t})
    <3>1. \A d \in Ctxs : \A i \in DOMAIN h.pending[d] :
             /\ h.pending[d][i] \in S \cup {t} /\ g[h.pending[d][i]] = 0
             /\ \A e \in Ctxs : \A j \in DOMAIN h.pending[e] :
                   h.pending[d][i] = h.pending[e][j] => d = e /\ i = j
      BY DEF Once
    <3>2. \A u \in Texts : g[u] < 2 /\ (g[u] # 0 => u \in S \cup {t})
      BY DEF Once
    <3> QED BY <1>3, <1>4, <2>3, <2>5, <2>7, <2>8, <2>9, <3>1, <3>2 DEF Once
  <2> QED BY <1>1, <1>5, <2>10 DEF k, With
<1>6. CASE r.act # "chars"
  <2>1. k.queue = h.queue /\ k.pending = h.pending
    BY <1>2, <1>6 DEF ReactQueue, Calm
  <2>2. Once(k, g, S)
    BY <1>3, <1>4, <2>1 DEF Once
  <2> QED BY <1>1, <1>6, <2>2 DEF k, With
<1> QED BY <1>5, <1>6

\* What ImeToAsciiEx posts is appended, and only that.
LEMMA DispatchOnce ==
    ASSUME NEW h, NEW g, NEW S, Once(h, g, S), h.queue = <<>>, NEW c \in Ctxs,
           NEW r, Calm(r), NEW t, New(S, g, r, t)
    PROVE  Once(Dispatch(h, c, r, t), g, With(S, Commits(r), t))
<1> DEFINE k == Dispatch(h, c, r, t)
           R == With(S, Commits(r), t)
<1>1. Within(h, Everywhere, {}) /\ Everywhere \in Placings /\ Sound(Messages, Everywhere[c])
  <2>1. Within(h, Everywhere, Messages) /\ <<>> \in Seq({})
    BY OnceWithin
  <2> QED BY <2>1, OnceWithin DEF Within
<1>2. Allows(Everywhere, Messages, c, r, t)
  BY DEF Allows, Calm, New, Commits, Everywhere, Messages, Message
<1> HIDE DEF k, R
<1>3. /\ Within(k, Everywhere, {}) /\ k.result = ReactResult(h.result, c, r, t)
      /\ Adds(k, h, c, r, t)
  BY <1>1, <1>2, DispatchIn DEF k
<1>4. k.result = h.result
  <2>1. h.result \in [Ctxs -> Texts \cup {NoText}] /\ h.result[c] = NoText
    BY DEF Once, Shapes
  <2> QED BY <1>3, <2>1 DEF ReactResult, Calm
<1>5. PICK x : k.pending = [h.pending EXCEPT ![c] = @ \o x]
               /\ x = IF r.act = "chars" THEN <<t>> ELSE <<>>
  BY <1>3 DEF Adds, Once, Calm
<1>6. Moves(k, h, c, x)
  <2>1. k.queue = <<>>
    BY <1>3, EmptyQueue
  <2> QED BY <1>3, <1>4, <1>5, <2>1 DEF Moves, Within
<1>7. Movable(x, h, g, S, R)
  <2>1. CASE r.act = "chars"
    <3>1. t \in Texts /\ t \in R \ S /\ g[t] = 0 /\ x = <<t>>
      BY <1>5, <2>1 DEF New, Commits, With, R
    <3>2. DOMAIN <<t>> = {1} /\ <<t>>[1] = t /\ <<t>> \in Seq(Texts)
      BY <3>1
    <3> QED BY <3>1, <3>2 DEF Movable
  <2>2. CASE r.act # "chars"
    <3>1. x = <<>> /\ DOMAIN <<>> = {} /\ <<>> \in Seq(Texts)
      BY <1>5, <2>2
    <3> QED BY <3>1 DEF Movable
  <2> QED BY <2>1, <2>2
<1>8. S \subseteq R
  BY DEF With, R
<1>9. Once(k, g, R)
  BY <1>6, <1>7, <1>8, MoveOnce
<1> QED BY <1>9 DEF k, R

\* The last check finds no result string.
LEMMA FinalCheckOnce ==
    ASSUME NEW h, NEW g, NEW S, Once(h, g, S), h.queue = <<>>, NEW c \in Ctxs
    PROVE  Once(FinalCheck(h, c), g, S)
<1>1. CASE h.pending[c] # <<>>
  BY <1>1 DEF FinalCheck
<1>2. CASE h.pending[c] = <<>>
  <2> DEFINE k == FinalCheck(h, c)
  <2>1. k = AppendCommit(h, c, <<>>)
    BY <1>2 DEF FinalCheck, Once, Read
  <2> HIDE DEF k
  <2>2. Within(h, Everywhere, Messages) /\ Everywhere \in Placings /\ <<>> \in Seq(Everywhere[c])
    BY OnceWithin
  <2>3. Within(k, Everywhere, Messages) /\ Appended(k, h, c, <<>>)
    BY <2>1, <2>2, AppendIn
  <2>4. Moves(k, h, c, <<>>)
    BY <2>3 DEF Moves, Appended, Within
  <2>5. Movable(<<>>, h, g, S, S)
    <3>1. DOMAIN <<>> = {} /\ <<>> \in Seq(Texts)
      OBVIOUS
    <3> QED BY <3>1 DEF Movable
  <2>6. Once(k, g, S)
    BY <2>4, <2>5, MoveOnce
  <2> QED BY <2>6 DEF k
<1> QED BY <1>1, <1>2

\* A key on which the IME commits at most once, on either way.
LEMMA ProcessOnce ==
    ASSUME NEW h, NEW g, NEW S, Once(h, g, S), NEW c \in Ctxs,
           NEW r1, Calm(r1), NEW r2, Calm(r2), NEW t, New(S, g, r1, t), New(S, g, r2, t),
           ~(Commits(r1) /\ Commits(r2))
    PROVE  Once(ProcessVk(h, c, r1, r2, t), g, With(S, Commits(r1) \/ Commits(r2), t))
<1> DEFINE h0 == React(h, c, r1, t)
           h1 == Harvest(h0, c)
           d  == Dispatch(h1, c, r2, t)
           h2 == IF Consumes(r2) THEN Harvest(d, c) ELSE h1
           h3 == Harvest(h2, c)
           k  == FinalCheck(h3, c)
           R1 == With(S, Commits(r1), t)
           R2 == With(R1, Commits(r2), t)
<1>1. New(R1, g, r2, t) /\ R2 = With(S, Commits(r1) \/ Commits(r2), t)
  BY DEF With, New
<1>2. Once(h0, g, R1)
  BY ReactOnce
<1> HIDE DEF h0, R1
<1>3. Once(h1, g, R1) /\ h1.queue = <<>>
  BY <1>2, HarvestOnce
<1> HIDE DEF h1, R2
<1>4. CASE Consumes(r2)
  <2>1. Once(d, g, R2)
    BY <1>1, <1>3, DispatchOnce DEF R2
  <2> HIDE DEF d
  <2>2. Once(h2, g, R2)
    BY <1>4, <2>1, HarvestOnce
  <2> HIDE DEF h2
  <2>3. Once(h3, g, R2) /\ h3.queue = <<>>
    BY <2>2, HarvestOnce
  <2> HIDE DEF h3
  <2>4. Once(k, g, R2)
    BY <2>3, FinalCheckOnce
  <2> QED BY <1>1, <2>4 DEF ProcessVk, h0, h1, d, h2, h3
<1>5. CASE ~Consumes(r2)
  <2>1. R2 = R1
    BY <1>5 DEF R2, With, Consumes, Commits
  <2>2. h2 = h1
    BY <1>5
  <2> HIDE DEF h2
  <2>3. Once(h3, g, R2) /\ h3.queue = <<>>
    BY <1>3, <2>1, <2>2, HarvestOnce
  <2> HIDE DEF h3
  <2>4. Once(k, g, R2)
    BY <2>3, FinalCheckOnce
  <2> QED BY <1>1, <2>4 DEF ProcessVk, h0, h1, d, h2, h3
<1> QED BY <1>4, <1>5

LEMMA OnceMore ==
    ASSUME NEW h, NEW g, NEW S, Once(h, g, S), NEW R, S \subseteq R
    PROVE  Once(h, g, R)
BY DEF Once

\* The number of the next commit is new, and recorded.
LEMMA NewNext ==
    ASSUME OnceInv, NEW t, Numbered(t)
    PROVE  t # NoText => t \in Texts /\ t \notin DOMAIN owner /\ given[t] = 0
<1>1. Len(owner) \in Nat /\ DOMAIN owner = 1 .. Len(owner)
  BY DEF OnceInv
<1>2. Len(owner) + 1 \notin DOMAIN owner
  BY <1>1
<1>3. \A u \in Texts : u \notin DOMAIN owner => given[u] = 0
  BY DEF OnceInv, Once
<1> QED BY <1>2, <1>3 DEF Numbered

LEMMA RecordMore ==
    ASSUME owner \in Seq(Ctxs), NEW c \in Ctxs, NEW t, Numbered(t), Record(c, t)
    PROVE  /\ DOMAIN owner \subseteq DOMAIN owner'
           /\ t # NoText => t \in DOMAIN owner'
           /\ owner' \in Seq(Ctxs)
BY DEF Record, Numbered

LEMMA CalmReactions ==
    ASSUME CharsOnly
    PROVE  /\ \A p \in KeyReactions : Calm(p[1]) /\ Calm(p[2]) /\ ~(Commits(p[1]) /\ Commits(p[2]))
           /\ \A h, c : \A r \in NotifyReactions(h, c) : Calm(r)
           /\ \A r \in Reactions(LateActs) : Calm(r)
<1>1. \A p \in KeyReactions : p[1].act \in KeyActs /\ p[2].act \in KeyActs
  BY DEF KeyReactions, Reactions
<1>2. \A h, c : \A r \in NotifyReactions(h, c) : r.act \in NotifyActs
  BY DEF NotifyReactions, Reactions
<1>3. \A r \in Reactions(LateActs) : r.act \in LateActs
  BY DEF Reactions
<1>4. \A p \in KeyReactions : ~(Commits(p[1]) /\ Commits(p[2]))
  BY DEF KeyReactions, Commits
<1>5. \A a \in KeyActs \cup NotifyActs \cup LateActs : a \in ActKinds \ {"post", "silent"}
  BY HostAssumption DEF CharsOnly
<1> QED BY <1>1, <1>2, <1>3, <1>4, <1>5 DEF Calm

LEMMA KeyPressOnce ==
    ASSUME CharsOnly, OnceInv, NEW cl \in Clients, NEW c \in Ctxs, Key(cl, c)
    PROVE  OnceInv'
<1>0. PICK p \in KeyReactions :
          \E t \in NextText(Commits(p[1]) \/ Commits(p[2])) :
             host' = ProcessVk(host, c, p[1], p[2], t) /\ Record(c, t)
  BY DEF Key
<1>1. PICK t \in NextText(Commits(p[1]) \/ Commits(p[2])) :
          host' = ProcessVk(host, c, p[1], p[2], t) /\ Record(c, t)
  BY <1>0
<1>2. Numbered(t) /\ (Commits(p[1]) \/ Commits(p[2]) => t # NoText)
  BY NextTextIs DEF Commits
<1> DEFINE S == DOMAIN owner
           R == With(S, Commits(p[1]) \/ Commits(p[2]), t)
<1>3. New(S, given, p[1], t) /\ New(S, given, p[2], t)
  BY <1>2, NewNext DEF New
<1>4. Calm(p[1]) /\ Calm(p[2]) /\ ~(Commits(p[1]) /\ Commits(p[2]))
  BY CalmReactions
<1>5. Once(host, given, S) /\ owner \in Seq(Ctxs) /\ given' = given
  BY DEF OnceInv, Key
<1>6. R \subseteq DOMAIN owner' /\ owner' \in Seq(Ctxs)
  BY <1>1, <1>2, <1>5, RecordMore DEF With
<1> HIDE DEF S, R
<1>7. Once(host', given, R)
  BY <1>1, <1>3, <1>4, <1>5, ProcessOnce DEF R
<1>8. Once(host', given', DOMAIN owner')
  BY <1>5, <1>6, <1>7, OnceMore
<1> QED BY <1>5, <1>6, <1>8 DEF OnceInv, Once, Shapes

LEMMA SelectByKeyOnce ==
    ASSUME CharsOnly, OnceInv, NEW cl \in Clients, NEW c \in Ctxs, SelectByKey(cl, c)
    PROVE  OnceInv'
<1>0. PICK p \in KeyReactions : \E t \in NextText(Commits(p[1]) \/ Commits(p[2])) :
          LET k == ProcessVk(host, c, p[1], p[2], t) IN
          IF Confirm(k, c)
          THEN \E q \in KeyReactions :
                  \E u \in IF t = NoText THEN NextText(Commits(q[1]) \/ Commits(q[2]))
                                         ELSE {NoText} :
                     /\ u = NoText => ~Commits(q[1]) /\ ~Commits(q[2])
                     /\ host' = Harvest(ProcessVk(k, c, q[1], q[2], u), c)
                     /\ Record(c, IF t = NoText THEN u ELSE t)
          ELSE host' = k /\ Record(c, t)
  BY DEF SelectByKey
<1>1. PICK t \in NextText(Commits(p[1]) \/ Commits(p[2])) :
          LET k == ProcessVk(host, c, p[1], p[2], t) IN
          IF Confirm(k, c)
          THEN \E q \in KeyReactions :
                  \E u \in IF t = NoText THEN NextText(Commits(q[1]) \/ Commits(q[2]))
                                         ELSE {NoText} :
                     /\ u = NoText => ~Commits(q[1]) /\ ~Commits(q[2])
                     /\ host' = Harvest(ProcessVk(k, c, q[1], q[2], u), c)
                     /\ Record(c, IF t = NoText THEN u ELSE t)
          ELSE host' = k /\ Record(c, t)
  BY <1>0
<1>2. Numbered(t) /\ (Commits(p[1]) \/ Commits(p[2]) => t # NoText)
  BY NextTextIs DEF Commits
<1> DEFINE S == DOMAIN owner
           R == With(S, Commits(p[1]) \/ Commits(p[2]), t)
           k == ProcessVk(host, c, p[1], p[2], t)
<1>3. New(S, given, p[1], t) /\ New(S, given, p[2], t)
  BY <1>2, NewNext DEF New
<1>4. Calm(p[1]) /\ Calm(p[2]) /\ ~(Commits(p[1]) /\ Commits(p[2]))
  BY CalmReactions
<1>5. Once(host, given, S) /\ owner \in Seq(Ctxs) /\ given' = given
  BY DEF OnceInv, SelectByKey
<1>6. Once(k, given, R)
  <2> HIDE DEF S
  <2> QED BY <1>3, <1>4, <1>5, ProcessOnce
<1>7. t = NoText => R = S
  BY <1>2 DEF With
<1>8. ASSUME NEW h, NEW Q, Once(h, given, Q), Q \subseteq DOMAIN owner', host' = h,
             owner' \in Seq(Ctxs)
      PROVE  OnceInv'
  <2>1. Once(host', given', DOMAIN owner')
    BY <1>5, <1>8, OnceMore
  <2> QED BY <1>5, <1>8, <2>1 DEF OnceInv, Once, Shapes
<1>9. CASE Confirm(k, c)
  <2>0. PICK q \in KeyReactions :
                  \E u \in IF t = NoText THEN NextText(Commits(q[1]) \/ Commits(q[2]))
                                         ELSE {NoText} :
                     /\ u = NoText => ~Commits(q[1]) /\ ~Commits(q[2])
                     /\ host' = Harvest(ProcessVk(k, c, q[1], q[2], u), c)
                     /\ Record(c, IF t = NoText THEN u ELSE t)
    BY <1>1, <1>9
  <2>1. PICK u \in IF t = NoText THEN NextText(Commits(q[1]) \/ Commits(q[2]))
                                 ELSE {NoText} :
                     /\ u = NoText => ~Commits(q[1]) /\ ~Commits(q[2])
                     /\ host' = Harvest(ProcessVk(k, c, q[1], q[2], u), c)
                     /\ Record(c, IF t = NoText THEN u ELSE t)
    BY <2>0
  <2> DEFINE v == IF t = NoText THEN u ELSE t
             j == ProcessVk(k, c, q[1], q[2], u)
             Q == With(R, Commits(q[1]) \/ Commits(q[2]), u)
  <2>2. Numbered(u) /\ (t # NoText => u = NoText)
    <3>1. CASE t = NoText
      BY <2>1, <3>1, NextTextIs DEF Commits
    <3>2. CASE t # NoText
      <4>1. u = NoText
        BY <3>2
      <4> QED BY <4>1 DEF Numbered
    <3> QED BY <3>1, <3>2
  <2>3. Commits(q[1]) \/ Commits(q[2]) => u # NoText /\ R = S
    BY <1>7, <2>1, <2>2
  <2>4. New(R, given, q[1], u) /\ New(R, given, q[2], u)
    BY <2>2, <2>3, NewNext DEF New
  <2>5. Calm(q[1]) /\ Calm(q[2]) /\ ~(Commits(q[1]) /\ Commits(q[2]))
    BY CalmReactions
  <2>6. Q \subseteq DOMAIN owner' /\ owner' \in Seq(Ctxs)
    <3>1. Numbered(v) /\ Record(c, v)
      BY <1>2, <2>1, <2>2
    <3>2. S \subseteq DOMAIN owner' /\ (v # NoText => v \in DOMAIN owner') /\ owner' \in Seq(Ctxs)
      BY <1>5, <3>1, RecordMore
    <3>3. (t # NoText => t \in DOMAIN owner') /\ (u # NoText => u \in DOMAIN owner')
      BY <2>2, <3>2
    <3> QED BY <1>2, <2>3, <3>2, <3>3 DEF With
  <2> HIDE DEF k, R, S
  <2>7. Once(j, given, Q)
    BY <1>6, <2>4, <2>5, ProcessOnce
  <2> HIDE DEF j, Q
  <2>8. Once(Harvest(j, c), given, Q)
    BY <2>7, HarvestOnce
  <2>9. host' = Harvest(j, c)
    BY <2>1 DEF j
  <2> QED BY <1>8, <2>6, <2>8, <2>9
<1>10. CASE ~Confirm(k, c)
  <2>1. host' = k /\ Record(c, t)
    BY <1>1, <1>10
  <2>2. R \subseteq DOMAIN owner' /\ owner' \in Seq(Ctxs)
    BY <1>2, <1>5, <2>1, RecordMore DEF With
  <2> HIDE DEF k, R
  <2> QED BY <1>6, <1>8, <2>1, <2>2
<1> QED BY <1>9, <1>10

LEMMA SelectByNotifyOnce ==
    ASSUME CharsOnly, OnceInv, NEW cl \in Clients, NEW c \in Ctxs, SelectByNotify(cl, c)
    PROVE  OnceInv'
<1>0. PICK r1 \in NotifyReactions(host, c) : \E t \in NextText(Commits(r1)) :
          LET k == Harvest(React(host, c, r1, t), c) IN
          IF k.pending[c] = <<>> /\ k.comp[c] = host.comp[c] /\ host.comp[c] # 0
          THEN \E r2 \in NotifyReactions(k, c) :
                  \E u \in IF t = NoText THEN NextText(Commits(r2)) ELSE {NoText} :
                     /\ u = NoText => ~Commits(r2)
                     /\ host' = Harvest(React(k, c, r2, u), c)
                     /\ Record(c, IF t = NoText THEN u ELSE t)
          ELSE host' = k /\ Record(c, t)
  BY DEF SelectByNotify
<1>1. PICK t \in NextText(Commits(r1)) :
          LET k == Harvest(React(host, c, r1, t), c) IN
          IF k.pending[c] = <<>> /\ k.comp[c] = host.comp[c] /\ host.comp[c] # 0
          THEN \E r2 \in NotifyReactions(k, c) :
                  \E u \in IF t = NoText THEN NextText(Commits(r2)) ELSE {NoText} :
                     /\ u = NoText => ~Commits(r2)
                     /\ host' = Harvest(React(k, c, r2, u), c)
                     /\ Record(c, IF t = NoText THEN u ELSE t)
          ELSE host' = k /\ Record(c, t)
  BY <1>0
<1>2. Numbered(t) /\ (Commits(r1) => t # NoText)
  <2>1. Commits(r1) \in BOOLEAN
    BY DEF Commits
  <2> QED BY <2>1, NextTextIs
<1> DEFINE S == DOMAIN owner
           R == With(S, Commits(r1), t)
           k == Harvest(React(host, c, r1, t), c)
           again == k.pending[c] = <<>> /\ k.comp[c] = host.comp[c] /\ host.comp[c] # 0
<1>3. New(S, given, r1, t) /\ Calm(r1)
  BY <1>2, NewNext, CalmReactions DEF New
<1>5. Once(host, given, S) /\ owner \in Seq(Ctxs) /\ given' = given
  BY DEF OnceInv, SelectByNotify
<1>6. Once(k, given, R)
  <2> HIDE DEF S
  <2>1. Once(React(host, c, r1, t), given, R)
    BY <1>3, <1>5, ReactOnce
  <2> HIDE DEF R
  <2> QED BY <2>1, HarvestOnce
<1>7. t = NoText => R = S
  BY <1>2 DEF With
<1>8. ASSUME NEW h, NEW Q, Once(h, given, Q), Q \subseteq DOMAIN owner', host' = h,
             owner' \in Seq(Ctxs)
      PROVE  OnceInv'
  <2>1. Once(host', given', DOMAIN owner')
    BY <1>5, <1>8, OnceMore
  <2> QED BY <1>5, <1>8, <2>1 DEF OnceInv, Once, Shapes
<1>9. CASE again
  <2>0. PICK r2 \in NotifyReactions(k, c) :
                  \E u \in IF t = NoText THEN NextText(Commits(r2)) ELSE {NoText} :
                     /\ u = NoText => ~Commits(r2)
                     /\ host' = Harvest(React(k, c, r2, u), c)
                     /\ Record(c, IF t = NoText THEN u ELSE t)
    BY <1>1, <1>9
  <2>1. PICK u \in IF t = NoText THEN NextText(Commits(r2)) ELSE {NoText} :
                     /\ u = NoText => ~Commits(r2)
                     /\ host' = Harvest(React(k, c, r2, u), c)
                     /\ Record(c, IF t = NoText THEN u ELSE t)
    BY <2>0
  <2> DEFINE v == IF t = NoText THEN u ELSE t
             j == React(k, c, r2, u)
             Q == With(R, Commits(r2), u)
  <2>2. Numbered(u) /\ (t # NoText => u = NoText)
    <3>1. CASE t = NoText
      <4>1. Commits(r2) \in BOOLEAN /\ u \in NextText(Commits(r2))
        BY <3>1 DEF Commits
      <4> QED BY <3>1, <4>1, NextTextIs
    <3>2. CASE t # NoText
      <4>1. u = NoText
        BY <3>2
      <4> QED BY <4>1 DEF Numbered
    <3> QED BY <3>1, <3>2
  <2>3. Commits(r2) => u # NoText /\ R = S
    BY <1>7, <2>1, <2>2
  <2>4. New(R, given, r2, u)
    BY <2>2, <2>3, NewNext DEF New
  <2>5. Calm(r2)
    BY CalmReactions
  <2>6. Q \subseteq DOMAIN owner' /\ owner' \in Seq(Ctxs)
    <3>1. Numbered(v) /\ Record(c, v)
      BY <1>2, <2>1, <2>2
    <3>2. S \subseteq DOMAIN owner' /\ (v # NoText => v \in DOMAIN owner') /\ owner' \in Seq(Ctxs)
      BY <1>5, <3>1, RecordMore
    <3>3. (t # NoText => t \in DOMAIN owner') /\ (u # NoText => u \in DOMAIN owner')
      BY <2>2, <3>2
    <3> QED BY <1>2, <2>3, <3>2, <3>3 DEF With
  <2> HIDE DEF k, R, S, again
  <2>7. Once(j, given, Q)
    BY <1>6, <2>4, <2>5, ReactOnce
  <2> HIDE DEF j, Q
  <2>8. Once(Harvest(j, c), given, Q)
    BY <2>7, HarvestOnce
  <2>9. host' = Harvest(j, c)
    BY <2>1 DEF j
  <2> QED BY <1>8, <2>6, <2>8, <2>9
<1>10. CASE ~again
  <2>1. host' = k /\ Record(c, t)
    BY <1>1, <1>10
  <2>2. R \subseteq DOMAIN owner' /\ owner' \in Seq(Ctxs)
    BY <1>2, <1>5, <2>1, RecordMore DEF With
  <2> HIDE DEF k, R, again
  <2> QED BY <1>6, <1>8, <2>1, <2>2
<1> QED BY <1>9, <1>10

LEMMA LateOnce ==
    ASSUME CharsOnly, OnceInv, NEW c \in Ctxs, Late(c)
    PROVE  OnceInv'
<1>0. PICK r \in Reactions(LateActs) :
          \E t \in NextText(Commits(r)) : host' = React(host, c, r, t) /\ Record(c, t)
  BY DEF Late
<1>1. PICK t \in NextText(Commits(r)) : host' = React(host, c, r, t) /\ Record(c, t)
  BY <1>0
<1>2. Numbered(t) /\ (Commits(r) => t # NoText)
  <2>1. Commits(r) \in BOOLEAN
    BY DEF Commits
  <2> QED BY <2>1, NextTextIs
<1> DEFINE S == DOMAIN owner
           R == With(S, Commits(r), t)
<1>3. New(S, given, r, t) /\ Calm(r)
  BY <1>2, NewNext, CalmReactions DEF New
<1>4. Once(host, given, S) /\ owner \in Seq(Ctxs) /\ given' = given
  BY DEF OnceInv, Late
<1>5. R \subseteq DOMAIN owner' /\ owner' \in Seq(Ctxs)
  BY <1>1, <1>2, <1>4, RecordMore DEF With
<1> HIDE DEF S
<1>6. Once(host', given, R)
  BY <1>1, <1>3, <1>4, ReactOnce
<1> HIDE DEF R
<1>7. Once(host', given', DOMAIN owner')
  BY <1>4, <1>5, <1>6, OnceMore
<1> QED BY <1>4, <1>5, <1>7 DEF OnceInv, Once, Shapes

\* Messages that are thrown away, of a destroyed window or all.
LEMMA DropOnce ==
    ASSUME NEW h, NEW g, NEW S, Once(h, g, S), NEW T,
           NEW k, k = [h EXCEPT !.queue = Kept(h.queue, T)]
    PROVE  Once(k, g, S)
<1> DEFINE q == h.queue
           z == Kept(q, T)
<1>1. h \in Shapes /\ q \in Seq(OfKind("char"))
  BY DEF Once
<1>2. z \in Seq(OfKind("char"))
  <2>1. z \in Seq(OfKind("char") \cap T)
    BY <1>1, KeptType
  <2> HIDE DEF z
  <2> QED BY <2>1
<1>3. PICK at \in [DOMAIN z -> DOMAIN q] :
         /\ \A i \in DOMAIN z : z[i] = q[at[i]]
         /\ \A i, j \in DOMAIN z : at[i] = at[j] => i = j
  BY <1>1, KeptPlaces
<1> HIDE DEF z
<1>4. k.result = h.result /\ k.pending = h.pending /\ k.comp = h.comp /\ k.queue = z
      /\ k = [comp |-> k.comp, result |-> k.result, pending |-> k.pending, queue |-> k.queue]
  <2> DEFINE r == [comp |-> h.comp, result |-> h.result, pending |-> h.pending, queue |-> z]
  <2>1. k = r
    BY <1>1, HostWith DEF z
  <2>2. /\ r.result = h.result /\ r.pending = h.pending /\ r.comp = h.comp /\ r.queue = z
        /\ r = [comp |-> r.comp, result |-> r.result, pending |-> r.pending, queue |-> r.queue]
    OBVIOUS
  <2> HIDE DEF r
  <2> QED BY <2>1, <2>2, Zenon
<1>5. k \in Shapes
  <2>1. z \in Seq(Messages)
    BY <1>2 DEF OfKind
  <2> QED BY <1>1, <1>4, <2>1 DEF Shapes
<1>6. \A i, j \in DOMAIN z : z[i].text = z[j].text => i = j
  <2>1. \A i, j \in DOMAIN q : q[i].text = q[j].text => i = j
    BY DEF Once
  <2> HIDE DEF q
  <2> QED BY <1>3, <2>1
<1>7. \A i \in DOMAIN z : \E j \in DOMAIN q : z[i] = q[j]
  BY <1>3
<1>8. \A i \in DOMAIN z : z[i].text \in S /\ g[z[i].text] = 0
  BY <1>7 DEF Once
<1>9. \A c \in Ctxs : \A i \in DOMAIN h.pending[c] :
          /\ h.pending[c][i] \in S /\ g[h.pending[c][i]] = 0
          /\ \A j \in DOMAIN z : z[j].text # h.pending[c][i]
          /\ \A d \in Ctxs : \A j \in DOMAIN h.pending[d] :
                h.pending[c][i] = h.pending[d][j] => c = d /\ i = j
  BY <1>7 DEF Once
<1>10. (\A c \in Ctxs : h.result[c] = NoText) /\ \A t \in Texts : g[t] < 2 /\ (g[t] # 0 => t \in S)
  BY DEF Once
<1> QED BY <1>2, <1>4, <1>5, <1>6, <1>8, <1>9, <1>10 DEF Once

LEMMA TableOnce ==
    ASSUME OnceInv, NEW cl \in Clients, Open(cl) \/ Destroy(cl)
    PROVE  OnceInv'
<1>1. Kept(host.queue, {}) = <<>>
  <2>1. host.queue \in Seq(OfKind("char"))
    BY DEF OnceInv, Once
  <2>2. Kept(host.queue, {}) \in Seq(OfKind("char") \cap {})
    BY <2>1, KeptType
  <2> QED BY <2>2
<1>2. host' = [host EXCEPT !.queue = Kept(host.queue, {})]
      \/ host' = [host EXCEPT !.queue = Kept(host.queue, Messages \ For(table[holds[cl].id]))]
  BY <1>1 DEF Open, Destroy
<1>3. Once(host', given, DOMAIN owner)
  BY <1>2, DropOnce DEF OnceInv
<1>4. owner' = owner /\ given' = given
  BY DEF Open, Destroy
<1> QED BY <1>3, <1>4 DEF OnceInv, Once, Shapes

LEMMA ContextOnce ==
    ASSUME OnceInv, NEW cl \in Clients, NEW c \in Ctxs, GetContext(cl, c)
    PROVE  OnceInv'
<1>1. host' = Harvest(host, c) /\ owner' = owner /\ given' = given
  BY DEF GetContext
<1>2. Once(host', given, DOMAIN owner)
  BY <1>1, HarvestOnce DEF OnceInv
<1> QED BY <1>1, <1>2 DEF OnceInv, Once, Shapes

\* How often a text is in a sequence without repetitions.
LEMMA TimesOnce ==
    ASSUME NEW s \in Seq(Texts), \A i, j \in DOMAIN s : s[i] = s[j] => i = j, NEW t
    PROVE  LET n == Len(Kept(s, {t})) IN
           n \in {0, 1} /\ (n = 1 => \E i \in DOMAIN s : s[i] = t)
<1> DEFINE z == Kept(s, {t})
<1>1. z \in Seq(Texts \cap {t})
  BY KeptType
<1>2. PICK at \in [DOMAIN z -> DOMAIN s] :
         /\ \A i \in DOMAIN z : z[i] = s[at[i]]
         /\ \A i, j \in DOMAIN z : at[i] = at[j] => i = j
  BY KeptPlaces
<1> HIDE DEF z
<1>3. Len(z) \in Nat /\ DOMAIN z = 1 .. Len(z) /\ \A i \in DOMAIN z : z[i] = t
  BY <1>1
<1>4. \A i, j \in DOMAIN z : i = j
  BY <1>2, <1>3
<1>5. ~ Len(z) > 1
  <2>1. Len(z) > 1 => 1 \in DOMAIN z /\ 2 \in DOMAIN z
    BY <1>3
  <2> QED BY <1>4, <2>1
<1>6. Len(z) = 1 => \E i \in DOMAIN s : s[i] = t
  BY <1>2, <1>3
<1>7. Len(z) \in {0, 1}
  BY <1>3, <1>5
<1> QED BY <1>6, <1>7 DEF z

LEMMA CommitOnce ==
    ASSUME OnceInv, NEW cl \in Clients, NEW c \in Ctxs, GetCommit(cl, c)
    PROVE  OnceInv'
<1> DEFINE h == Harvest(host, c)
           S == DOMAIN owner
           times(t) == Len(Kept(h.pending[c], {t}))
           total(t) == given[t] + times(t)
           p == [h.pending EXCEPT ![c] = <<>>]
<1>1. /\ host' = [h EXCEPT !.pending = p] /\ owner' = owner
      /\ given' = [t \in Texts |-> IF total(t) > 2 THEN 2 ELSE total(t)]
      /\ owner \in Seq(Ctxs)
  BY DEF GetCommit, OnceInv
<1>2. Once(h, given, S) /\ h.queue = <<>>
  BY HarvestOnce DEF OnceInv
<1> HIDE DEF h, S
<1>3. h \in Shapes /\ h.pending \in [Ctxs -> Seq(Texts)]
  BY <1>2 DEF Once, Shapes
<1>4. ASSUME NEW t \in Texts
      PROVE  /\ times(t) \in {0, 1}
             /\ times(t) = 1 => \E i \in DOMAIN h.pending[c] : h.pending[c][i] = t
  <2> DEFINE s == h.pending[c]
  <2>1. s \in Seq(Texts) /\ \A i, j \in DOMAIN s : s[i] = s[j] => i = j
    BY <1>2, <1>3 DEF Once
  <2> HIDE DEF s
  <2>2. LET n == Len(Kept(s, {t})) IN n \in {0, 1} /\ (n = 1 => \E i \in DOMAIN s : s[i] = t)
    BY <2>1, TimesOnce
  <2> QED BY <2>2 DEF s
<1> HIDE DEF times
<1>5. \A t \in Texts : given[t] \in {0, 1} /\ (given[t] # 0 => t \in S)
  <2>1. \A t \in Texts : given[t] < 2 /\ (given[t] # 0 => t \in S)
    BY <1>2 DEF Once
  <2>2. \A t \in Texts : given[t] \in 0 .. 2
    BY DEF OnceInv
  <2> QED BY <2>1, <2>2
<1>6. ASSUME NEW t \in Texts
      PROVE  /\ given'[t] \in {0, 1}
             /\ given'[t] # 0 => t \in S
             /\ given'[t] # given[t] => \E i \in DOMAIN h.pending[c] : h.pending[c][i] = t
  <2>1. ASSUME times(t) = 1 PROVE given[t] = 0 /\ t \in S
    BY <1>2, <1>4, <2>1 DEF Once
  <2>2. given'[t] = IF total(t) > 2 THEN 2 ELSE total(t)
    BY <1>1
  <2>3. CASE times(t) = 0
    <3>1. given'[t] = given[t]
      BY <1>5, <2>2, <2>3
    <3> QED BY <1>5, <3>1
  <2>4. CASE times(t) = 1
    <3>1. given'[t] = 1
      BY <2>1, <2>2, <2>4
    <3> QED BY <1>4, <2>1, <2>4, <3>1
  <2> QED BY <1>4, <2>3, <2>4
<1>7. /\ p \in [Ctxs -> Seq(Texts)]
      /\ \A d \in Ctxs : p[d] = IF d = c THEN <<>> ELSE h.pending[d]
  <2>1. <<>> \in Seq(Texts)
    OBVIOUS
  <2> QED BY <1>3, <2>1
<1> HIDE DEF p
<1>8. /\ host'.result = h.result /\ host'.queue = <<>> /\ host'.pending = p /\ host' \in Shapes
  <2>1. host' = [comp |-> h.comp, result |-> h.result, pending |-> p, queue |-> h.queue]
    BY <1>1, <1>3, HostWith
  <2>2. host'.result = h.result /\ host'.queue = <<>> /\ host'.pending = p /\ host'.comp = h.comp
    BY <1>2, <2>1
  <2> QED BY <1>3, <1>7, <2>1, <2>2 DEF Shapes
<1>9. ASSUME NEW d \in Ctxs, NEW i \in DOMAIN p[d]
      PROVE  /\ d # c /\ i \in DOMAIN h.pending[d] /\ p[d][i] = h.pending[d][i]
             /\ p[d][i] \in S /\ given'[p[d][i]] = 0
  <2>1. d # c /\ i \in DOMAIN h.pending[d] /\ p[d][i] = h.pending[d][i]
    BY <1>7, <1>9
  <2>2. h.pending[d][i] \in Texts
    BY <1>3, <2>1
  <2>3. h.pending[d][i] \in S /\ given[h.pending[d][i]] = 0
    BY <1>2, <2>1 DEF Once
  <2>4. \A j \in DOMAIN h.pending[c] : h.pending[c][j] # h.pending[d][i]
    BY <1>2, <2>1 DEF Once
  <2> QED BY <1>6, <2>1, <2>2, <2>3, <2>4
<1>10. \A d \in Ctxs : \A i \in DOMAIN p[d] : \A e \in Ctxs : \A j \in DOMAIN p[e] :
          p[d][i] = p[e][j] => d = e /\ i = j
  BY <1>2, <1>9 DEF Once
<1>11. <<>> \in Seq(OfKind("char")) /\ DOMAIN <<>> = {}
  OBVIOUS
<1>12. \A t \in Texts : given'[t] < 2 /\ (given'[t] # 0 => t \in S)
  BY <1>6
<1>13. \A d \in Ctxs : h.result[d] = NoText
  BY <1>2 DEF Once
<1>14. Once(host', given', S)
  BY <1>8, <1>9, <1>10, <1>11, <1>12, <1>13 DEF Once
<1>15. given' \in [Texts -> 0 .. 2]
  BY <1>1, <1>6
<1>16. Once(host', given', DOMAIN owner')
  BY <1>1, <1>14 DEF S
<1>17. owner' \in Seq(Ctxs)
  BY <1>1
<1> HIDE DEF p, total
<1> QED BY <1>15, <1>16, <1>17 DEF OnceInv, Once, Shapes

LEMMA NextOnce == ASSUME CharsOnly PROVE OnceInv /\ [Next]_vars => OnceInv'
<1> SUFFICES ASSUME OnceInv, [Next]_vars PROVE OnceInv'
  OBVIOUS
<1>1. ASSUME NEW cl \in Clients, Open(cl) \/ Destroy(cl) PROVE OnceInv'
  BY <1>1, TableOnce
<1>2. ASSUME NEW cl \in Clients, NEW c \in Ctxs, Key(cl, c) PROVE OnceInv'
  BY <1>2, KeyPressOnce
<1>3. ASSUME NEW cl \in Clients, NEW c \in Ctxs, GetContext(cl, c) PROVE OnceInv'
  BY <1>3, ContextOnce
<1>4. ASSUME NEW cl \in Clients, NEW c \in Ctxs, GetCommit(cl, c) PROVE OnceInv'
  BY <1>4, CommitOnce
<1>5. ASSUME NEW cl \in Clients, NEW c \in Ctxs, SelectByKey(cl, c) PROVE OnceInv'
  BY <1>5, SelectByKeyOnce
<1>6. ASSUME NEW cl \in Clients, NEW c \in Ctxs, SelectByNotify(cl, c) PROVE OnceInv'
  BY <1>6, SelectByNotifyOnce
<1>7. ASSUME NEW c \in Ctxs, Late(c) PROVE OnceInv'
  BY <1>7, LateOnce
<1>8. ASSUME UNCHANGED vars PROVE OnceInv'
  BY <1>8 DEF vars, OnceInv, Once, Shapes
<1> QED BY <1>1, <1>2, <1>3, <1>4, <1>5, <1>6, <1>7, <1>8 DEF Next

LEMMA InitOnce == Init => OnceInv
<1> SUFFICES ASSUME Init PROVE OnceInv
  OBVIOUS
<1>1. host \in Shapes
  <2>1. Within(host, Everywhere, Messages)
    BY InitTypes DEF TypeInv
  <2> QED BY <2>1 DEF Within
<1>2. /\ host.result = [c \in Ctxs |-> NoText] /\ host.pending = [c \in Ctxs |-> <<>>]
      /\ host.queue = <<>> /\ given = [t \in Texts |-> 0] /\ owner = <<>>
  BY DEF Init
<1>3. <<>> \in Seq(OfKind("char")) /\ <<>> \in Seq(Ctxs) /\ DOMAIN <<>> = {}
  OBVIOUS
<1> QED BY <1>1, <1>2, <1>3 DEF OnceInv, Once

\* Of the v2 host: no text is handed out twice, by get_commit to one client or
\* to two, if the IME posts its text as characters, whenever it does and
\* whichever session pumps them.
THEOREM CharsOnceOnly == ASSUME CharsOnly PROVE Spec => []DeliveredOnce
<1>1. OnceInv => DeliveredOnce
  BY DEF OnceInv, Once, DeliveredOnce
<1>2. OnceInv /\ [Next]_vars => OnceInv'
  BY NextOnce
<1> QED BY <1>1, <1>2, InitOnce, PTL DEF Spec
=============================================================================
