------------------------------- MODULE Backend ------------------------------
(***************************************************************************)
(* What the three backends of a v1 worker process share: the ImeBackend    *)
(* trait (src/ime-grpc-host/src/backend/mod.rs), the requests and answers  *)
(* of the pipe, and handle_backend_request, which calls the backend and    *)
(* builds the answer (src/ime-grpc-host/src/main.rs).                      *)
(*                                                                         *)
(* A text is abstracted to whose letters it holds: those of the session    *)
(* that has the worker (Own), those of any other (Other), and so many of   *)
(* them that an answer which shows it twice is larger than a frame (Bulk). *)
(* A candidate list is where it came from and whether an OK answer has     *)
(* shown it.  The reading goes with the composition and is left out.       *)
(***************************************************************************)
EXTENDS Naturals, Sequences

VARIABLES
    env,      \* what from_env found: backend, IMM runtime, IME exports, force
    mind,     \* the backend's fields
    ime,      \* the text in the IME's context, in this process or in the host
    requests, \* the worker's stdin
    answers,  \* the worker's stdout
    proc      \* where the worker process is

Own   == "own"
Other == "other"
Bulk  == "bulk"
Texts == SUBSET {Own, Other, Bulk}

Lists  == [from : {"none", "stub", "legacy", "imm", "fake"}, shown : BOOLEAN]
NoList == [from |-> "none", shown |-> FALSE]
New(from) == [from |-> from, shown |-> FALSE]

\* `input` is what the legacy backend sends the host; the others have none.
\* `moved`: backend_state_version has grown since the gateway's call began.
Minds == [input : Texts, comp : Texts, list : Lists, moved : BOOLEAN]
Blank == [input |-> {}, comp |-> {}, list |-> NoList, moved |-> FALSE]
Moved(m) == [m EXCEPT !.moved = TRUE]

Args == [snapshot |-> {"-"}, reset |-> {"-"},
         key |-> {"letter", "back", "none"},
         query |-> {"blank", "short", "long"},
         commit |-> {"text", "index", "bad"}]
Requests == UNION {[op : {op}, arg : Args[op]] : op \in DOMAIN Args}

\* A commit says what it committed: the client's text, a candidate of a list
\* that an answer has shown, or one of a list that none has.
Answers == [op : DOMAIN Args, ok : BOOLEAN, comp : Texts, from : {"none", "stub", "legacy", "imm", "fake"},
            committed : {"none", "given", "shown", "unseen"}]

Envs ==
    [kind : {"stub", "legacy_tcp"}, runtime : {"none"}, exports : {FALSE}, force : {FALSE}]
    \cup [kind : {"win_imm"}, runtime : {"none", "headless", "window"},
          exports : BOOLEAN, force : BOOLEAN]

BackendTypeOK ==
    /\ env \in Envs
    /\ mind \in Minds
    /\ ime \in Texts
    /\ requests \in Seq(Requests)
    /\ answers \in Seq(Answers)
    /\ proc \in {"boot", "ready", "busy", "gone"}

-----------------------------------------------------------------------------
\* A key press in an input buffer: a letter (or digit, or apostrophe) is
\* appended, a backspace pops the last character, everything else, a release
\* included, leaves it.
Typed(text, key) ==
    CASE key = "letter" -> {text \cup {Own}}
      [] key = "back"   -> {text} \cup {text \ {x} : x \in text}
      [] OTHER          -> {text}

\* A query replaces the buffer by the client's snapshot, unless that is empty.
Snapped(text, snap) ==
    CASE snap = "short" -> {Own}
      [] snap = "long"  -> {Own, Bulk}
      [] OTHER          -> text

\* commit_selection: the client's text, or the candidate at the index.
Chosen(m, by) ==
    IF by = "text" THEN "given"
    ELSE IF by = "bad" \/ m.list = NoList THEN "none"
    ELSE IF m.list.shown THEN "shown" ELSE "unseen"

-----------------------------------------------------------------------------
\* The worker takes the next request if it is for this operation.
Handles(kind, op) ==
    /\ env.kind = kind
    /\ proc = "ready"
    /\ requests # <<>>
    /\ Head(requests).op = op
    /\ requests' = Tail(requests)

\* write_framed_payload: a key or query answered OK shows the composition, the
\* reading and the candidates made of it; the others show a text once.
Shows(a) == a.ok /\ a.op \in {"key", "query"}
Fits(a)  == ~(Shows(a) /\ Bulk \in a.comp)

\* The loop of run_worker_runtime_mode writes the answer; if it is larger than
\* a frame, the write's error ends the process.
Reply(m, a) ==
    IF Fits(a)
    THEN /\ answers' = Append(answers, a)
         /\ mind' = [m EXCEPT !.list.shown = @ \/ (Shows(a) /\ m.list # NoList)]
         /\ proc' = "ready"
    ELSE proc' = "gone" /\ mind' = m /\ UNCHANGED answers

\* handle_backend_request: key and query show the list, commit what it took.
Ok(op, m, committed) ==
    [op |-> op, ok |-> TRUE, comp |-> IF op = "commit" THEN {} ELSE m.comp,
     from |-> IF op \in {"key", "query"} THEN m.list.from ELSE "none", committed |-> committed]

Err(op, m) ==
    [op |-> op, ok |-> FALSE, comp |-> m.comp, from |-> "none", committed |-> "none"]

AnswersOk(op, m, committed) == Reply(m, Ok(op, m, committed))
AnswersErr(op, m)           == Reply(m, Err(op, m))
=============================================================================
