---------------------------- MODULE WinImmBackend ---------------------------
(***************************************************************************)
(* The Win32 IMM backend of a v1 worker (WinImmBackend in                  *)
(* src/ime-grpc-host/src/backend/win_imm/imp.rs).  It drives the IME in    *)
(* its own process with every key, but keeps a buffer of its own beside    *)
(* it: what it shows is the IME's composition if there is one, and its own *)
(* buffer otherwise, with candidates it makes up unless                    *)
(* IME_WINIMM_FORCE_REAL forbids that.                                     *)
(***************************************************************************)
EXTENDS Backend

\* External: the IME may take a key, or not, start over or end its
\* composition.  drive_qq_ime_key offers it each key twice, through the window
\* and through its exports; two reactions are again one of these.
ImeTakes(text) == {text, text \cup {Own}, {Own}, {}}

\* drive_qq_ime_key: without the exports or a context the IME sees no key.
Driven == env.exports /\ env.runtime # "none"

ImeAfterKey == IF Driven THEN ImeTakes(ime) ELSE {ime}

\* What a look at the context gives: a list, none, an error, or the context is
\* not there (imm_runtime_available; only a window can lose it).
Looks ==
    CASE env.runtime = "none"     -> {"off"}
      [] env.runtime = "headless" -> {"list", "nolist", "error"}
      [] OTHER                    -> {"list", "nolist", "error", "off"}

\* refresh_from_imm: an empty IME composition does not replace the buffer.
Refreshed(m, text, look) ==
    IF look \in {"error", "off"} THEN m
    ELSE [m EXCEPT !.comp = IF text = {} THEN @ ELSE text,
                   !.list = IF look = "list" THEN New("imm") ELSE NoList]

\* refresh_fallback_candidates.
Faked(m) == [m EXCEPT !.list = IF m.comp = {} THEN NoList ELSE New("fake")]

Empty(m) == m.list = NoList /\ m.comp # {}

\* Mutant: the fallback first, the check of force_real_imm after it.
WinImmKey_FakesFirst ==
    /\ Handles("win_imm", "key")
    /\ \E typed \in Typed(mind.comp, Head(requests).arg), text \in ImeAfterKey, look \in Looks :
          LET m == Refreshed([Moved(mind) EXCEPT !.comp = typed], text, look) IN
          /\ ime' = text
          /\ IF look \in {"error", "off"}
             THEN IF env.force THEN AnswersErr("key", Faked(m))
                               ELSE AnswersOk("key", Faked(m), "none")
             ELSE AnswersOk("key", IF Empty(m) /\ ~env.force THEN Faked(m) ELSE m, "none")

\* apply_key_event: the IME, the own buffer, a look.
WinImmKey ==
    /\ Handles("win_imm", "key")
    /\ \E typed \in Typed(mind.comp, Head(requests).arg), text \in ImeAfterKey, look \in Looks :
          LET m == Refreshed([Moved(mind) EXCEPT !.comp = typed], text, look) IN
          /\ ime' = text
          /\ IF look \in {"error", "off"}
             THEN IF env.force THEN AnswersErr("key", m)
                               ELSE AnswersOk("key", Faked(m), "none")
             ELSE AnswersOk("key", IF Empty(m) /\ ~env.force THEN Faked(m) ELSE m, "none")

\* Mutant: an empty list is faked whatever force_real_imm says.
WinImmQuery_FakesEmpty ==
    /\ Handles("win_imm", "query")
    /\ \E look \in Looks :
          LET snapped == [Moved(mind) EXCEPT !.comp = Snapped(@, Head(requests).arg)]
              m       == Refreshed(snapped, ime, look) IN
          IF env.force /\ look \in {"error", "off"}
          THEN AnswersErr("query", m)
          ELSE AnswersOk("query", IF Empty(m) \/ look \in {"error", "off"}
                                  THEN Faked(m) ELSE m, "none")
    /\ UNCHANGED ime

\* query_candidates: as a key without the key; but here an empty list for a
\* composition is an error too if fabricated candidates are forbidden.
WinImmQuery ==
    /\ Handles("win_imm", "query")
    /\ \E look \in Looks :
          LET snapped == [Moved(mind) EXCEPT !.comp = Snapped(@, Head(requests).arg)]
              m       == Refreshed(snapped, ime, look) IN
          IF env.force /\ (Empty(m) \/ look \in {"error", "off"})
          THEN AnswersErr("query", m)
          ELSE AnswersOk("query", IF Empty(m) \/ look \in {"error", "off"}
                                  THEN Faked(m) ELSE m, "none")
    /\ UNCHANGED ime

\* commit_selection: the IME is not told; the version grows even on an error.
WinImmCommit ==
    LET took == Chosen(mind, Head(requests).arg) IN
    /\ Handles("win_imm", "commit")
    /\ IF took = "none" THEN AnswersErr("commit", Moved(mind))
       ELSE AnswersOk("commit", Moved(Blank), took)
    /\ UNCHANGED ime

\* reset_for_new_session: the own strings only.  activate_qq_ime selects the
\* IME into the context again, and whether that empties it is the IME's choice.
AfterSelect == IF env.runtime = "none" THEN {ime} ELSE {ime, {}}

WinImmReset ==
    /\ Handles("win_imm", "reset")
    /\ AnswersOk("reset", Moved(Blank), "none")
    /\ ime' \in AfterSelect

WinImmServes ==
    (WinImmKey \/ WinImmQuery \/ WinImmCommit \/ WinImmReset) /\ UNCHANGED env
=============================================================================
