------------------------------- MODULE Reading ------------------------------
(***************************************************************************)
(* What a frontend gets of what the IME shows, and what the IME gets of    *)
(* what the frontend sends: the readers of ImmRead and the tables of       *)
(* KeyMap, over every candidate list, composition and key of a bounded     *)
(* shape.  A behaviour is one call.                                        *)
(***************************************************************************)
EXTENDS ImmRead, KeyMap

CONSTANTS
    MaxCount, \* bound: candidates of a short list
    MaxUnits, \* bound: UTF-16 units of a composition
    LongLists \* <<candidates, page size, page start>> of lists of more

ASSUME ShapeAssumption ==
    /\ MaxCount \in Nat /\ MaxUnits \in Nat
    /\ LongLists \subseteq Nat \X Nat \X Nat

VARIABLES
    list, \* the IME's candidate list
    comp, \* its composition
    key,  \* a key event
    got   \* what the call gave

vars == <<list, comp, key, got>>

\* What the words behind zeros may be, and what may follow them in the buffer.
Bodies(n) == [1 .. n -> {"own", "zero", "past"}]
Words(pad, body, rest) ==
    [i \in 1 .. pad |-> Zero]
    \o [i \in DOMAIN body |-> CASE body[i] = "own"  -> i
                                [] body[i] = "zero" -> Zero
                                [] OTHER            -> Past]
    \o rest

CandidateList(words, count, size, start, selection, blank) ==
    [words |-> words, count |-> count, pageSize |-> size, pageStart |-> start,
     selection |-> selection, blank |-> blank]

ShortLists ==
    UNION {{CandidateList(Words(pad, body, rest), n, size, start, selection, blank) :
              pad \in 0 .. 2, body \in Bodies(n), rest \in {<<>>, <<Past>>},
              size \in 0 .. 2, start \in 0 .. n, selection \in 0 .. n,
              blank \in {{}, {1}}} :
           n \in 0 .. MaxCount}

Plain(n) == [i \in 1 .. n |-> i]
Lists ==
    ShortLists \cup
    {CandidateList(Plain(l[1]), l[1], l[2], l[3], l[3], {}) : l \in LongLists}

Units == {1, 2, 3, Hi, Lo}
Comps ==
    UNION {[units : [1 .. n -> Units], cursor : -1 .. n, attrs : {<<>>} \cup [1 .. n -> BOOLEAN]] :
           n \in 1 .. MaxUnits}

\* The printable characters, the named keys, F1 and a keysym beyond 2^16.
NamedKeys == {keycode \in 65280 .. 65535 : Named(keycode) # NoVk}
Keys == [code : 32 .. 126 \cup NamedKeys \cup {65470, 16797229}, shift : BOOLEAN]

AnyList == CandidateList(<<>>, 0, 0, 0, 0, {})
AnyComp == [units |-> <<1>>, cursor |-> 0, attrs |-> <<>>]
AnyKey  == [code |-> 32, shift |-> FALSE]
Nothing == [from |-> "nothing"]

Init ==
    /\ \/ list \in Lists /\ comp = AnyComp /\ key = AnyKey
       \/ list = AnyList /\ comp \in Comps /\ key = AnyKey
       \/ list = AnyList /\ comp = AnyComp /\ key \in Keys
    /\ got = Nothing

-----------------------------------------------------------------------------
Gets(what) ==
    /\ got = Nothing
    /\ got' = what
    /\ UNCHANGED <<list, comp, key>>

\* v2's get_context and the plugin's use of it.
GetContext ==
    LET menu == GetCandidateList(list) IN
    Gets([from |-> "v2", menu |-> menu, rows |-> Rows(menu),
          composition |-> GetCompositionString(comp)])

RefreshFromImm == Gets([from |-> "imm", page |-> ReadImmCandidates(list)])

QueryLegacy ==
    Gets([from |-> "legacy", candidates |-> ParseItems(LegacyItems(list), list.blank)])

PressKey == Gets([from |-> "key", uvirt |-> Uvirt(key.code, key.shift)])

\* The rows of the page that the IME shows.
PageRows == {i \in 0 .. Len(list.words) : i < list.pageSize /\ list.pageStart + i < list.count}

\* External: the IME that takes number keys takes the row of its page ('0' is
\* the tenth); NI_SELECTCANDIDATESTR gives an index of the list.
Row(vk) == IF vk = 48 THEN 9 ELSE vk - 49
Selected(index, takesKeys) ==
    LET vk == SelectionVk(index) IN
    IF takesKeys /\ vk # NoKey /\ Row(vk) \in PageRows
    THEN list.pageStart + Row(vk) ELSE index

SelectCandidate(index, takesKeys) ==
    Gets([from |-> "select", index |-> index, takesKeys |-> takesKeys,
          selected |-> Selected(index, takesKeys)])

Next ==
    \/ GetContext
    \/ RefreshFromImm
    \/ QueryLegacy
    \/ PressKey
    \/ \E index \in PageRows, takesKeys \in BOOLEAN : SelectCandidate(index, takesKeys)

Spec == Init /\ [][Next]_vars
-----------------------------------------------------------------------------
(* Properties.                                                             *)

\* The offsets of texts 1 to count, in order, behind nothing but zeros.
Padding == {p \in 0 .. Len(list.words) :
                /\ \A i \in 1 .. p : list.words[i] = Zero
                /\ Part(list.words, p, p + list.count) = Plain(list.count)}
Sound  == Padding # {}
Proper == Sound /\ 0 \in Padding /\ list.blank = {}
Aligned == list.pageSize > 0 /\ list.pageStart < list.count /\ list.pageStart % list.pageSize = 0

\* "Some IMEs [...] place the real offsets further into the buffer" (imm_ops.rs):
\* wherever they are, the menu has every candidate in order, and the plugin's
\* loop to num_candidates stays inside (get_candidate_list, SyncContextFromBackend).
MenuIsList ==
    got.from = "v2" /\ Sound =>
        got.menu.candidates = Plain(list.count) /\ got.rows = got.menu.candidates

\* The two hosts show the same page of a proper list: the v1 worker's candidates
\* are those of the v2 menu at its page_no, and the v1 selected_index and the v2
\* highlighted index name one candidate (read_imm_candidates, get_candidate_list).
SamePage ==
    got.from = "imm" /\ Proper /\ Aligned /\ list.pageSize <= Requested =>
        LET menu == GetCandidateList(list)
            from == menu.pageNo * menu.pageSize
            row  == list.selection - from IN
        /\ got.page.candidates = Part(menu.candidates, from, from + menu.pageSize)
        /\ row + 1 \in DOMAIN got.page.candidates =>
              /\ got.page.selected + 1 \in DOMAIN got.page.candidates
              /\ got.page.candidates[got.page.selected + 1] = menu.candidates[menu.highlighted + 1]

\* The legacy way neither invents a candidate (the "..." that the host appends)
\* nor loses or reorders one of the first eight (parse_candidate_reply).
LegacyIsList ==
    got.from = "legacy" /\ Proper =>
        got.candidates = Plain(Less(list.count, Less(8, Requested)))

\* The bytes of the units from + 1 .. to; and whether no pair is split at i.
Bytes(from, to) == Utf8Len(Part(comp.units, from, to))
Whole(i) == ~(i \in 1 .. Len(comp.units) - 1 /\ Paired(comp.units, i) /\ comp.units[i] = Hi)

\* The clause in conversion is the units i + 1 .. j.
Clause(i, j) ==
    LET target == {u \in DOMAIN comp.attrs : comp.attrs[u]}
    IN target \subseteq i + 1 .. j /\ {i + 1, j} \subseteq target

\* Cursor and selection are inside the preedit, in order, whatever the IME's
\* units are; and where the IME's places split no pair they split the preedit
\* as the IME's text is split (get_composition_string).
PreeditPlaces ==
    got.from = "v2" =>
        LET c == got.composition
            n == Len(comp.units) IN
        /\ c.selStart <= c.selEnd /\ c.selEnd <= c.length /\ c.cursor <= c.length
        /\ LET at == IF comp.cursor = -1 THEN n ELSE comp.cursor
           IN Whole(at) => c.cursor + Bytes(at, n) = c.length
        /\ \A i, j \in 0 .. n :
              Clause(i, j) /\ Whole(i) /\ Whole(j) =>
                 c.selEnd - c.selStart = Bytes(i, j) /\ c.selEnd + Bytes(j, n) = c.length

\* A printable keysym, with the shift that types it or with none, reaches the IME
\* as the character it is; no other key of the table as any (is_shifted_char,
\* rime_to_vk: three tables that must agree).
KeyTypesItself ==
    got.from = "key" =>
        got.uvirt.char =
            IF key.code \notin 32 .. 126 THEN NoChar
            ELSE IF key.shift /\ ~IsShiftedChar(key.code)
            THEN ToUnicode(got.uvirt.vk, TRUE) ELSE key.code

\* "OnCurrentPage": the row of the page the IME shows is the one selected, and
\* it is the row the menu gave, by a number key on any page and by NotifyIME on
\* the first (select_candidate, SelectCandidateOnCurrentPage).
SelectsShown ==
    got.from = "select" /\ Proper /\ Aligned /\ (list.pageStart = 0 \/ (got.takesKeys /\ got.index <= 9)) =>
        LET menu == GetCandidateList(list) IN
        menu.candidates[got.selected + 1]
            = menu.candidates[menu.pageNo * menu.pageSize + got.index + 1]
=============================================================================
