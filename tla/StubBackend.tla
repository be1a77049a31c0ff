----------------------------- MODULE StubBackend ----------------------------
(***************************************************************************)
(* The stub backend of a worker (WorkerRuntime in                          *)
(* src/ime-grpc-host/src/main.rs): it shows the letters it is given and    *)
(* makes candidates of them.                                               *)
(***************************************************************************)
EXTENDS Backend

StubList(text) == IF text = {} THEN NoList ELSE New("stub")

StubShows(m, text) == [Moved(m) EXCEPT !.comp = text, !.list = StubList(text)]

StubKey ==
    /\ Handles("stub", "key")
    /\ \E text \in Typed(mind.comp, Head(requests).arg) :
          AnswersOk("key", StubShows(mind, text), "none")

StubQuery ==
    /\ Handles("stub", "query")
    /\ AnswersOk("query", StubShows(mind, Snapped(mind.comp, Head(requests).arg)), "none")

\* Mutant: the candidates stay.
StubCommit_KeepsList ==
    LET took == Chosen(mind, Head(requests).arg) IN
    /\ Handles("stub", "commit")
    /\ IF took = "none" THEN AnswersErr("commit", mind)
       ELSE AnswersOk("commit", [Moved(mind) EXCEPT !.comp = {}], took)

\* Nothing to commit is an error that leaves even the version as it was.
StubCommit ==
    LET took == Chosen(mind, Head(requests).arg) IN
    /\ Handles("stub", "commit")
    /\ IF took = "none" THEN AnswersErr("commit", mind)
       ELSE AnswersOk("commit", Moved(Blank), took)

StubReset ==
    /\ Handles("stub", "reset")
    /\ AnswersOk("reset", Moved(Blank), "none")

StubServes ==
    (StubKey \/ StubQuery \/ StubCommit \/ StubReset) /\ UNCHANGED <<env, ime>>
=============================================================================
