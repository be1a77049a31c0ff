------------------------------- MODULE ImmRead ------------------------------
(***************************************************************************)
(* How the hosts read what the IME shows: the v2 host's                    *)
(* get_candidate_list and get_composition_string (win_imm/imm_ops.rs), the *)
(* v1 worker's read_imm_candidates (win_imm/imp.rs), and the way of a list *)
(* through the legacy host (ime_host_skeleton.c) and parse_candidate_reply *)
(* (main.rs).                                                              *)
(*                                                                         *)
(* The IME writes a CANDIDATELIST into a buffer of the size it asked for.  *)
(* `words` are the words of that buffer from dwOffset on: k is the offset  *)
(* of text k, Zero none, Past one that lies outside.  A text is its number *)
(* and is empty if it is in `blank`.                                       *)
(***************************************************************************)
EXTENDS Filter, Integers, FiniteSetsExt

CONSTANT Requested \* max_candidates, which the v1 hosts are asked for

ASSUME ReadAssumption == Requested \in Nat

Zero   == 0
Past   == -1
Header == -2 \* not a text: what read_utf16_z_at makes of the buffer's header

Less(a, b) == IF a < b THEN a ELSE b

\* The words at the places from + 1 .. to, those there are.
Part(words, from, to) == SubSeq(words, from + 1, Less(to, Len(words)))
-----------------------------------------------------------------------------
(* get_candidate_list.                                                     *)

\* Mutant: no scan for the offsets.
BaseIdx_Fixed(words) == 0

\* base_idx: where dwOffset[0] is zero, the first word that may be an offset.
BaseIdx(words) ==
    LET real == {i \in DOMAIN words : words[i] \notin {Zero, Past}}
    IN IF real = {} \/ words[1] # Zero THEN 0 ELSE Min(real) - 1

NoMenu == [candidates |-> <<>>, num |-> 0, pageSize |-> 0, pageNo |-> 0, highlighted |-> 0]

GetCandidateList(list) ==
    LET base == BaseIdx(list.words)
        size == IF list.pageSize > 0 THEN list.pageSize ELSE 10 IN
    IF list.count = 0 THEN NoMenu
    ELSE [candidates  |-> Kept(Part(list.words, base, base + list.count), Int \ {Zero, Past}),
          num         |-> list.count,
          pageSize    |-> size,
          pageNo      |-> list.pageStart \div size,
          highlighted |-> list.selection]

\* SyncContextFromBackend: the plugin's rows, candidates(0) to (num - 1).
Beyond == -3
Rows(menu) ==
    [i \in 1 .. menu.num |->
        IF i <= Len(menu.candidates) THEN menu.candidates[i] ELSE Beyond]
-----------------------------------------------------------------------------
(* read_imm_candidates.                                                    *)

\* Mutant: the selection stays an index of the whole list.
ReadImmCandidates_GlobalIndex(list) ==
    LET size  == Less(IF list.pageSize = 0 THEN Requested ELSE list.pageSize, Requested)
        start == Less(list.pageStart, list.count)
        end   == Less(start + size, list.count) IN
    [candidates |-> Kept(Part(list.words, start, end), Int \ ({Past} \cup list.blank)),
     selected   |-> IF list.selection \in start .. end - 1 THEN list.selection ELSE 0,
     pageSize   |-> size]

\* An offset outside, or an empty text, is left out; a zero offset is read.
ReadImmCandidates(list) ==
    LET size  == Less(IF list.pageSize = 0 THEN Requested ELSE list.pageSize, Requested)
        start == Less(list.pageStart, list.count)
        end   == Less(start + size, list.count)
        read  == [i \in DOMAIN Part(list.words, start, end) |->
                     IF list.words[start + i] = Zero THEN Header ELSE list.words[start + i]] IN
    [candidates |-> Kept(read, Int \ ({Past} \cup list.blank)),
     selected   |-> IF list.selection \in start .. end - 1 THEN list.selection - start ELSE 0,
     pageSize   |-> size]
-----------------------------------------------------------------------------
(* The legacy host's line and parse_candidate_reply.                       *)

Etc == -4 \* "..."

\* At most 8 texts, from the start of the list whatever page is shown.
LegacyItems(list) ==
    LET read == [i \in DOMAIN Part(list.words, 0, Less(list.count, 8)) |->
                    IF list.words[i] = Zero THEN Header ELSE list.words[i]] IN
    Kept(read, Int \ {Past}) \o (IF list.count > 8 THEN <<Etc>> ELSE <<>>)

\* Mutant: "..." is taken for a candidate.
ParseItems_KeepsEtc(items, blank) ==
    LET tokens == Kept(items, Int \ blank)
    IN Part(tokens, 0, Requested)

\* Empty tokens and the "..." are left out.
ParseItems(items, blank) ==
    LET tokens == Kept(items, Int \ ({Etc} \cup blank))
    IN Part(tokens, 0, Requested)
-----------------------------------------------------------------------------
(* get_composition_string.  A text is its UTF-16 units: 1, 2 or 3 for a    *)
(* unit whose character has so many bytes, Hi and Lo for the halves of a   *)
(* pair.                                                                   *)

Hi == 4
Lo == 0

\* String::from_utf16_lossy: a pair is a character of four bytes, a half alone
\* the replacement character.
Paired(units, i) ==
    \/ units[i] = Hi /\ i < Len(units) /\ units[i + 1] = Lo
    \/ units[i] = Lo /\ i > 1 /\ units[i - 1] = Hi

\* The bytes that unit i adds: a pair's are counted with its first half.
Utf8Bytes(units, i) ==
    IF units[i] \in {Hi, Lo} /\ ~Paired(units, i) THEN 3 ELSE units[i]

Utf8Len(units) ==
    LET bytes[i \in 0 .. Len(units)] ==
            IF i = 0 THEN 0 ELSE bytes[i - 1] + Utf8Bytes(units, i)
    IN bytes[Len(units)]

\* utf16_to_utf8_offset.
Offset(units, i) == Utf8Len(Part(units, 0, i))

\* Mutant: the last target unit is not in the selection.
Selection_EndsEarly(comp) ==
    LET target == {i \in DOMAIN comp.attrs : comp.attrs[i]} IN
    IF target = {} THEN <<0, Len(comp.units)>> ELSE <<Min(target) - 1, Max(target) - 1>>

\* The clause in conversion, or everything; in units.
Selection(comp) ==
    LET target == {i \in DOMAIN comp.attrs : comp.attrs[i]} IN
    IF target = {} THEN <<0, Len(comp.units)>> ELSE <<Min(target) - 1, Max(target)>>

GetCompositionString(comp) ==
    [length   |-> Utf8Len(comp.units),
     cursor   |-> Offset(comp.units, IF comp.cursor < 0 THEN Len(comp.units) ELSE comp.cursor),
     selStart |-> Offset(comp.units, Selection(comp)[1]),
     selEnd   |-> Offset(comp.units, Selection(comp)[2])]
=============================================================================
