---------------------------- MODULE ReadingProofs ---------------------------
(***************************************************************************)
(* Proofs about Reading.tla, for lists and compositions of any length.     *)
(* What a call gives is determined by the list and the composition         *)
(* (Answered), so each theorem is a fact about the readers of ImmRead,     *)
(* stated as a lemma for any well-formed list (Listing) or composition     *)
(* (Composing), and what the IME may show (Lists, Comps).                  *)
(***************************************************************************)
EXTENDS Reading, FilterProofs, SequenceTheorems

-----------------------------------------------------------------------------
(* Parts of sequences.                                                     *)

LEMMA PartIs ==
    ASSUME NEW words \in Seq(Int), NEW a \in Nat, NEW b \in Nat,
           a <= Less(b, Len(words))
    PROVE  /\ Part(words, a, b) \in Seq(Int)
           /\ Len(Part(words, a, b)) = Less(b, Len(words)) - a
           /\ \A i \in 1 .. Less(b, Len(words)) - a : Part(words, a, b)[i] = words[a + i]
<1> DEFINE n == Less(b, Len(words))
           s == SubSeq(words, a + 1, n)
<1>1. Len(words) \in Nat /\ n \in Nat /\ n <= Len(words)
  BY DEF Less
<1>2. a + 1 \in 1 .. Len(words) + 1 /\ n \in a .. Len(words)
  BY <1>1
<1>3. Part(words, a, b) = s
  BY DEF Part
<1> HIDE DEF n
<1>4. s = [i \in 1 .. n - a |-> words[a + i]]
  <2>1. 1 + n - (a + 1) = n - a /\ \A i \in 1 .. n - a : i + (a + 1) - 1 = a + i
    BY <1>1
  <2> QED BY <2>1, <1>1, <1>2, SubSeqProperties
<1>5. \A i \in 1 .. n - a : words[a + i] \in Int
  BY <1>1
<1>6. n - a \in Nat
  BY <1>1, <1>2
<1> HIDE DEF s
<1>7. s \in [1 .. n - a -> Int]
  BY <1>4, <1>5
<1>8. s \in Seq(Int) /\ Len(s) = n - a
  <2>1. s \in Seq(Int)
    BY <1>6, <1>7, SeqDef
  <2> QED BY <1>6, <1>7, <2>1, LenProperties
<1>9. \A i \in 1 .. n - a : s[i] = words[a + i]
  BY <1>4
<1> QED BY <1>3, <1>8, <1>9 DEF n

LEMMA PlainIs ==
    ASSUME NEW n \in Nat
    PROVE  /\ Plain(n) \in Seq(Int) /\ Len(Plain(n)) = n /\ DOMAIN Plain(n) = 1 .. n
           /\ \A i \in 1 .. n : Plain(n)[i] = i
<1>1. Plain(n) \in [1 .. n -> Int]
  BY DEF Plain
<1>2. Plain(n) \in Seq(Int)
  BY <1>1, SeqDef
<1> QED BY <1>1, <1>2, LenProperties DEF Plain

LEMMA SameSeq ==
    ASSUME NEW s \in Seq(Int), NEW t \in Seq(Int), Len(s) = Len(t),
           \A i \in 1 .. Len(s) : s[i] = t[i]
    PROVE  s = t
BY SeqEqual

-----------------------------------------------------------------------------
(* The lists that the IME may have.                                        *)

Listing(l) ==
    /\ l.words \in Seq(Int)
    /\ l.count \in Nat /\ l.pageSize \in Nat /\ l.pageStart \in Nat /\ l.selection \in Nat

LEMMA ListingIs ==
    ASSUME NEW words \in Seq(Int), NEW count \in Nat, NEW size \in Nat, NEW start \in Nat,
           NEW selection \in Nat, NEW blank
    PROVE  Listing(CandidateList(words, count, size, start, selection, blank))
BY DEF Listing, CandidateList

LEMMA WordsType ==
    ASSUME NEW n \in Nat, NEW body \in Bodies(n), NEW pad \in Nat, NEW rest \in Seq(Int)
    PROVE  Words(pad, body, rest) \in Seq(Int)
<1> DEFINE zeros == [i \in 1 .. pad |-> Zero]
           texts == [i \in DOMAIN body |-> CASE body[i] = "own"  -> i
                                             [] body[i] = "zero" -> Zero
                                             [] OTHER            -> Past]
<1>1. zeros \in Seq(Int)
  <2>1. zeros \in [1 .. pad -> Int]
    BY DEF Zero
  <2> HIDE DEF zeros
  <2> QED BY <2>1, SeqDef
<1>2. texts \in Seq(Int)
  <2>1. DOMAIN body = 1 .. n
    BY DEF Bodies
  <2>2. texts \in [1 .. n -> Int]
    BY <2>1 DEF Zero, Past
  <2> HIDE DEF texts
  <2> QED BY <2>2, SeqDef
<1> HIDE DEF zeros, texts
<1>3. zeros \o texts \in Seq(Int)
  BY <1>1, <1>2, ConcatProperties
<1>4. (zeros \o texts) \o rest \in Seq(Int)
  BY <1>3, ConcatProperties
<1> QED BY <1>4 DEF Words, zeros, texts

LEMMA ListsType == ASSUME NEW l \in Lists PROVE Listing(l)
<1>1. <<>> \in Seq(Int) /\ <<Past>> \in Seq(Int)
  BY DEF Past
<1>2. ASSUME l \in ShortLists PROVE Listing(l)
  <2>1. PICK n \in 0 .. MaxCount :
           \E pad \in 0 .. 2, body \in Bodies(n), rest \in {<<>>, <<Past>>},
              size \in 0 .. 2, start \in 0 .. n, selection \in 0 .. n, blank \in {{}, {1}} :
              l = CandidateList(Words(pad, body, rest), n, size, start, selection, blank)
    BY <1>2 DEF ShortLists
  <2>2. PICK pad \in 0 .. 2, body \in Bodies(n), rest \in {<<>>, <<Past>>},
             size \in 0 .. 2, start \in 0 .. n, selection \in 0 .. n, blank \in {{}, {1}} :
             l = CandidateList(Words(pad, body, rest), n, size, start, selection, blank)
    BY <2>1
  <2>3. n \in Nat /\ pad \in Nat /\ size \in Nat /\ start \in Nat /\ selection \in Nat
    OBVIOUS
  <2>4. rest \in Seq(Int)
    BY <1>1, <2>2
  <2>5. Words(pad, body, rest) \in Seq(Int)
    BY <2>3, <2>4, WordsType
  <2> QED BY <2>2, <2>3, <2>5, ListingIs
<1>3. ASSUME NEW k \in LongLists, l = CandidateList(Plain(k[1]), k[1], k[2], k[3], k[3], {})
      PROVE  Listing(l)
  <2>1. k[1] \in Nat /\ k[2] \in Nat /\ k[3] \in Nat
    BY ShapeAssumption
  <2>2. Plain(k[1]) \in Seq(Int)
    BY <2>1, PlainIs
  <2> QED BY <1>3, <2>1, <2>2, ListingIs
<1> QED BY <1>2, <1>3 DEF Lists

-----------------------------------------------------------------------------
(* get_candidate_list.                                                     *)

\* The scan finds where the offsets are.
LEMMA BaseFound ==
    ASSUME Listing(list), NEW p \in Padding, list.count > 0
    PROVE  BaseIdx(list.words) = p
<1> DEFINE w == list.words
           n == list.count
           real == {i \in DOMAIN w : w[i] \notin {Zero, Past}}
<1>1. w \in Seq(Int) /\ n \in Nat /\ Len(w) \in Nat /\ DOMAIN w = 1 .. Len(w)
  BY DEF Listing
<1>2. p \in 0 .. Len(w) /\ (\A i \in 1 .. p : w[i] = Zero) /\ Part(w, p, p + n) = Plain(n)
  BY DEF Padding
<1> HIDE DEF w, n
<1>3. p \in Nat /\ p + n \in Nat /\ p <= Less(p + n, Len(w))
  BY <1>1, <1>2 DEF Less
<1>4. p + 1 <= Len(w) /\ w[p + 1] = 1
  <2>1. Len(Plain(n)) = n /\ Plain(n)[1] = 1
    <3>1. Len(Plain(n)) = n /\ \A i \in 1 .. n : Plain(n)[i] = i
      BY <1>1, PlainIs
    <3>2. 1 \in 1 .. n
      BY <1>1 DEF n
    <3> QED BY <3>1, <3>2
  <2>2. Less(p + n, Len(w)) - p = n
    BY <1>1, <1>2, <1>3, <2>1, PartIs
  <2>3. Part(w, p, p + n)[1] = w[p + 1]
    <3>1. 1 \in 1 .. Less(p + n, Len(w)) - p
      BY <1>1, <2>2 DEF n
    <3> QED BY <1>1, <1>3, <3>1, PartIs
  <2> QED BY <1>1, <1>2, <2>1, <2>2, <2>3 DEF Less, n
<1>5. p + 1 \in real /\ \A i \in real : p + 1 <= i
  BY <1>1, <1>2, <1>4 DEF Zero, Past
<1>6. CASE w[1] # Zero
  <2>1. p = 0
    BY <1>2, <1>3, <1>6
  <2> QED BY <1>6, <2>1 DEF BaseIdx, w
<1>7. CASE w[1] = Zero
  <2>1. real \subseteq Int
    BY <1>1
  <2> HIDE DEF real
  <2>2. Min(real) = p + 1
    <3>1. \E x \in real : \A y \in real : x <= y
      BY <1>5
    <3>2. Min(real) \in real /\ \A y \in real : Min(real) <= y
      BY <3>1, Zenon DEF Min
    <3>3. Min(real) <= p + 1 /\ p + 1 <= Min(real) /\ Min(real) \in Int
      BY <1>5, <2>1, <3>2
    <3> QED BY <1>3, <3>3
  <2>3. BaseIdx(list.words) = Min(real) - 1
    BY <1>5, <1>7 DEF BaseIdx, real, w
  <2> QED BY <1>3, <2>2, <2>3
<1> QED BY <1>6, <1>7

\* The menu of a list that has its texts somewhere behind zeros.
LEMMA MenuIs ==
    ASSUME Listing(list), Sound
    PROVE  LET menu == GetCandidateList(list)
           IN /\ menu.candidates = Plain(list.count)
              /\ menu.num = list.count
              /\ list.count > 0 /\ list.pageSize > 0 =>
                    /\ menu.pageSize = list.pageSize
                    /\ menu.pageNo = list.pageStart \div list.pageSize
                    /\ menu.highlighted = list.selection
<1>1. PICK p \in Padding : TRUE
  BY DEF Sound
<1>2. list.count \in Nat
  BY DEF Listing
<1>3. CASE list.count = 0
  <2>1. Plain(0) = <<>>
    <3>1. Plain(0) \in Seq(Int) /\ Len(Plain(0)) = 0
      BY PlainIs
    <3> QED BY <3>1
  <2>2. GetCandidateList(list) = NoMenu
    BY <1>3 DEF GetCandidateList
  <2> QED BY <1>3, <2>1, <2>2 DEF NoMenu
<1>4. CASE list.count # 0
  <2> DEFINE part == Part(list.words, p, p + list.count)
             T    == Int \ {Zero, Past}
  <2>1. list.count > 0 /\ BaseIdx(list.words) = p
    BY <1>2, <1>4, BaseFound
  <2>2. part = Plain(list.count)
    BY DEF Padding
  <2>3. /\ Plain(list.count) \in Seq(Int) /\ DOMAIN Plain(list.count) = 1 .. list.count
        /\ \A i \in 1 .. list.count : Plain(list.count)[i] = i
    BY <1>2, PlainIs
  <2>4. \A i \in DOMAIN Plain(list.count) : Plain(list.count)[i] \in T
    BY <1>2, <2>3 DEF Zero, Past
  <2> HIDE DEF T
  <2>5. Kept(Plain(list.count), T) = Plain(list.count)
    BY <2>3, <2>4, KeptAll
  <2>6. GetCandidateList(list).candidates = Kept(part, T)
    BY <1>4, <2>1 DEF GetCandidateList, T
  <2>7. GetCandidateList(list).candidates = Plain(list.count)
    BY <2>2, <2>5, <2>6
  <2>8. /\ GetCandidateList(list).num = list.count
        /\ list.pageSize > 0 =>
              /\ GetCandidateList(list).pageSize = list.pageSize
              /\ GetCandidateList(list).pageNo = list.pageStart \div list.pageSize
              /\ GetCandidateList(list).highlighted = list.selection
    BY <1>4 DEF GetCandidateList
  <2> QED BY <2>7, <2>8
<1> QED BY <1>3, <1>4

\* The plugin's loop to num_candidates reads every candidate and nothing else.
LEMMA RowsAre ==
    ASSUME Listing(list), Sound
    PROVE  Rows(GetCandidateList(list)) = GetCandidateList(list).candidates
<1> DEFINE menu == GetCandidateList(list)
           n    == list.count
<1>1. n \in Nat
  BY DEF Listing
<1>2. menu.candidates = Plain(n) /\ menu.num = n
  BY MenuIs
<1> HIDE DEF menu, n
<1>3. Len(Plain(n)) = n /\ \A i \in 1 .. n : Plain(n)[i] = i
  BY <1>1, PlainIs
<1>4. Rows(menu) = [i \in 1 .. n |-> i]
  BY <1>1, <1>2, <1>3 DEF Rows
<1> QED BY <1>2, <1>4 DEF Plain, menu

-----------------------------------------------------------------------------
(* The readers of the v1 hosts, on a proper list.                          *)

\* The texts a + 1 to b, in order.
Run(a, b) == [i \in 1 .. b - a |-> a + i]

LEMMA RunIs ==
    ASSUME NEW a \in Nat, NEW b \in Nat, a <= b
    PROVE  /\ Run(a, b) \in Seq(Int) /\ Len(Run(a, b)) = b - a
           /\ DOMAIN Run(a, b) = 1 .. b - a /\ \A i \in 1 .. b - a : Run(a, b)[i] = a + i
<1>1. Run(a, b) \in [1 .. b - a -> Int] /\ b - a \in Nat
  BY DEF Run
<1>2. Run(a, b) \in Seq(Int)
  BY <1>1, SeqDef
<1> QED BY <1>1, <1>2, LenProperties DEF Run

LEMMA KeptRun ==
    ASSUME NEW a \in Nat, NEW b \in Nat, a <= b, NEW T, \A t \in T : ~(t > 0)
    PROVE  Kept(Run(a, b), Int \ T) = Run(a, b)
<1>1. /\ Run(a, b) \in Seq(Int) /\ DOMAIN Run(a, b) = 1 .. b - a
      /\ \A i \in 1 .. b - a : Run(a, b)[i] = a + i
  BY RunIs
<1>2. \A i \in DOMAIN Run(a, b) : Run(a, b)[i] \in Int \ T
  BY <1>1
<1> QED BY <1>1, <1>2, KeptAll

LEMMA PartOfPlain ==
    ASSUME NEW n \in Nat, NEW a \in Nat, NEW b \in Nat, a <= Less(b, n)
    PROVE  Part(Plain(n), a, b) = Run(a, Less(b, n))
<1>1. Plain(n) \in Seq(Int) /\ Len(Plain(n)) = n /\ \A i \in 1 .. n : Plain(n)[i] = i
  BY PlainIs
<1>2. \A i \in 1 .. Less(b, n) - a : a + i \in 1 .. n
  BY DEF Less
<1> DEFINE p == Part(Plain(n), a, b)
           m == Less(b, n)
<1>3. p \in Seq(Int) /\ Len(p) = m - a /\ \A i \in 1 .. m - a : p[i] = a + i
  BY <1>1, <1>2, PartIs
<1>4. m \in Nat
  BY DEF Less
<1> HIDE DEF p, m
<1>5. /\ Run(a, m) \in Seq(Int) /\ Len(Run(a, m)) = m - a
      /\ \A i \in 1 .. m - a : Run(a, m)[i] = a + i
  BY <1>4, RunIs DEF m
<1> QED BY <1>3, <1>5, SeqEqual DEF p, m

\* A proper list begins with its texts.
LEMMA ProperBegins ==
    ASSUME Listing(list), Proper
    PROVE  /\ list.count <= Len(list.words) /\ list.blank = {}
           /\ \A i \in 1 .. list.count : list.words[i] = i
<1>1. list.words \in Seq(Int) /\ list.count \in Nat /\ Len(list.words) \in Nat
  BY DEF Listing
<1>2. Part(list.words, 0, 0 + list.count) = Plain(list.count) /\ list.blank = {}
  BY DEF Proper, Padding
<1>3. 0 + list.count \in Nat /\ 0 <= Less(0 + list.count, Len(list.words))
  BY <1>1 DEF Less
<1>4. Len(Plain(list.count)) = list.count /\ \A i \in 1 .. list.count : Plain(list.count)[i] = i
  BY <1>1, PlainIs
<1>5. Less(0 + list.count, Len(list.words)) - 0 = list.count
  BY <1>1, <1>2, <1>3, <1>4, PartIs
<1>6. list.count <= Len(list.words)
  BY <1>1, <1>5 DEF Less
<1>7. \A i \in 1 .. list.count : list.words[0 + i] = Plain(list.count)[i]
  BY <1>1, <1>2, <1>3, <1>5, PartIs
<1> QED BY <1>1, <1>2, <1>4, <1>6, <1>7

\* The places start + 1 to end of a proper list, as the readers see them.
LEMMA ReadIs ==
    ASSUME Listing(list), Proper, NEW start \in Nat, NEW end \in Nat,
           start <= end, end <= list.count
    PROVE  [i \in DOMAIN Part(list.words, start, end) |->
               IF list.words[start + i] = Zero THEN Header ELSE list.words[start + i]]
             = Run(start, end)
<1> DEFINE w == list.words
           p == Part(w, start, end)
<1>1. w \in Seq(Int) /\ list.count \in Nat /\ list.count <= Len(w) /\ Len(w) \in Nat
  BY ProperBegins DEF Listing
<1>2. Less(end, Len(w)) = end
  BY <1>1 DEF Less
<1>3. p \in Seq(Int) /\ Len(p) = end - start
  <2> HIDE DEF w
  <2>1. start <= Less(end, Len(w))
    BY <1>2
  <2>2. Part(w, start, end) \in Seq(Int) /\ Len(Part(w, start, end)) = Less(end, Len(w)) - start
    BY <1>1, <2>1, PartIs
  <2> QED BY <1>2, <2>2
<1> HIDE DEF p
<1>4. DOMAIN p = 1 .. end - start
  BY <1>3
<1>5. \A i \in 1 .. end - start : w[start + i] = start + i /\ start + i # Zero
  <2>1. \A i \in 1 .. end - start : start + i \in 1 .. list.count
    BY <1>1
  <2>2. \A i \in 1 .. list.count : w[i] = i
    BY ProperBegins
  <2> HIDE DEF w
  <2> QED BY <2>1, <2>2 DEF Zero
<1> HIDE DEF w
<1>6. [i \in DOMAIN p |-> IF w[start + i] = Zero THEN Header ELSE w[start + i]]
        = [i \in 1 .. end - start |-> start + i]
  BY <1>4, <1>5
<1> QED BY <1>6 DEF p, w, Run

\* The page that read_imm_candidates makes of a proper, aligned list.
LEMMA PageIs ==
    ASSUME Listing(list), Proper, Aligned, list.pageSize <= Requested
    PROVE  LET end  == Less(list.pageStart + list.pageSize, list.count)
               page == ReadImmCandidates(list)
           IN /\ page.candidates = Run(list.pageStart, end)
              /\ page.selected = IF list.selection \in list.pageStart .. end - 1
                                 THEN list.selection - list.pageStart ELSE 0
<1> DEFINE start == list.pageStart
           size  == list.pageSize
           end   == Less(start + size, list.count)
           read  == [i \in DOMAIN Part(list.words, start, end) |->
                        IF list.words[start + i] = Zero THEN Header ELSE list.words[start + i]]
<1>1. /\ start \in Nat /\ size \in Nat /\ size > 0 /\ list.count \in Nat /\ start < list.count
      /\ Requested \in Nat /\ size <= Requested
  BY ReadAssumption DEF Listing, Aligned
<1>2. /\ Less(IF list.pageSize = 0 THEN Requested ELSE list.pageSize, Requested) = size
      /\ Less(list.pageStart, list.count) = start
  BY <1>1 DEF Less
<1>3. end \in Nat /\ start <= end /\ end <= list.count
  BY <1>1 DEF Less
<1>4. ReadImmCandidates(list)
        = [candidates |-> Kept(read, Int \ ({Past} \cup list.blank)),
           selected   |-> IF list.selection \in start .. end - 1
                          THEN list.selection - start ELSE 0,
           pageSize   |-> size]
  BY <1>2 DEF ReadImmCandidates
<1>5. read = Run(start, end)
  <2> HIDE DEF end
  <2> QED BY <1>1, <1>3, ReadIs
<1> HIDE DEF read, end
<1>6. list.blank = {} /\ \A t \in {Past} \cup {} : ~(t > 0)
  BY ProperBegins DEF Past
<1>7. Kept(read, Int \ ({Past} \cup list.blank)) = Run(start, end)
  BY <1>1, <1>3, <1>5, <1>6, KeptRun
<1> QED BY <1>4, <1>7 DEF end

LEMMA AlignedFrom ==
    ASSUME NEW a \in Nat, NEW b \in Nat, b > 0, a % b = 0
    PROVE  (a \div b) * b = a
OBVIOUS

\* The v2 menu's page begins where the IME's does.
LEMMA PageBegins ==
    ASSUME Listing(list), Proper, Aligned
    PROVE  LET menu == GetCandidateList(list)
           IN menu.pageNo * menu.pageSize = list.pageStart
<1>1. Sound /\ list.count > 0 /\ list.pageSize > 0 /\ list.pageStart \in Nat /\ list.pageSize \in Nat
  BY DEF Proper, Aligned, Listing
<1>2. /\ GetCandidateList(list).pageSize = list.pageSize
      /\ GetCandidateList(list).pageNo = list.pageStart \div list.pageSize
  BY <1>1, MenuIs
<1>3. (list.pageStart \div list.pageSize) * list.pageSize = list.pageStart
  BY <1>1, AlignedFrom DEF Aligned
<1> QED BY <1>2, <1>3

\* What the legacy host writes of a proper list and parse_candidate_reply reads.
LEMMA TokensAre ==
    ASSUME Listing(list), Proper
    PROVE  ParseItems(LegacyItems(list), list.blank) = Plain(Less(list.count, Less(8, Requested)))
<1> DEFINE n    == list.count
           m    == Less(n, 8)
           read == [i \in DOMAIN Part(list.words, 0, m) |->
                       IF list.words[i] = Zero THEN Header ELSE list.words[i]]
           etc  == IF n > 8 THEN <<Etc>> ELSE <<>>
           T    == Int \ ({Etc} \cup {})
<1>1. n \in Nat /\ m \in Nat /\ m <= n /\ Requested \in Nat /\ 0 <= m
  BY ReadAssumption DEF Listing, Less
<1>2. read = Run(0, m)
  <2> HIDE DEF m
  <2>1. list.words \in Seq(Int) /\ Len(list.words) \in Nat /\ n <= Len(list.words)
    BY ProperBegins DEF Listing
  <2>2. DOMAIN Part(list.words, 0, m) = 1 .. m
    <3>1. Less(m, Len(list.words)) = m
      BY <1>1, <2>1 DEF Less
    <3>2. Part(list.words, 0, m) \in Seq(Int) /\ Len(Part(list.words, 0, m)) = m
      BY <1>1, <2>1, <3>1, PartIs
    <3> QED BY <3>2
  <2>3. \A i \in 1 .. m : list.words[0 + i] = list.words[i]
    BY <1>1
  <2>4. [i \in DOMAIN Part(list.words, 0, m) |->
            IF list.words[0 + i] = Zero THEN Header ELSE list.words[0 + i]] = Run(0, m)
    BY <1>1, ReadIs
  <2>5. read = [i \in 1 .. m |-> IF list.words[i] = Zero THEN Header ELSE list.words[i]]
    BY <2>2
  <2>6. Run(0, m) = [i \in 1 .. m |-> IF list.words[0 + i] = Zero THEN Header
                                      ELSE list.words[0 + i]]
    BY <2>2, <2>4
  <2> QED BY <2>3, <2>5, <2>6
<1>3. LegacyItems(list) = Run(0, m) \o etc
  <2>1. LegacyItems(list) = Kept(read, Int \ {Past}) \o etc
    BY DEF LegacyItems
  <2>2. \A t \in {Past} : ~(t > 0)
    BY DEF Past
  <2> HIDE DEF read, etc, m
  <2>3. Kept(Run(0, m), Int \ {Past}) = Run(0, m)
    BY <1>1, <2>2, KeptRun
  <2> QED BY <1>2, <2>1, <2>3
<1> HIDE DEF read, m
<1>4. Kept(Run(0, m), T) = Run(0, m)
  <2>1. \A t \in {Etc} \cup {} : ~(t > 0)
    BY DEF Etc
  <2> QED BY <1>1, <2>1, KeptRun
<1>5. Run(0, m) \in Seq(Int) /\ Len(Run(0, m)) = m /\ \A i \in 1 .. m : Run(0, m)[i] = i
  <2>1. \A i \in 1 .. m : Run(0, m)[i] = 0 + i
    BY <1>1, RunIs, m - 0 = m
  <2>2. Run(0, m) \in Seq(Int) /\ Len(Run(0, m)) = m - 0
    BY <1>1, RunIs
  <2> QED BY <1>1, <2>1, <2>2
<1>6. Kept(Run(0, m) \o etc, T) = Run(0, m)
  <2>1. CASE n > 8
    <3>1. Run(0, m) \o etc = Append(Run(0, m), Etc)
      BY <1>5, <2>1
    <3>2. Etc \in Int /\ Etc \notin T
      BY DEF Etc
    <3> HIDE DEF T, etc
    <3>3. Kept(Append(Run(0, m), Etc), T) = Kept(Run(0, m), T)
      BY <1>5, <3>2, KeptAppend
    <3> QED BY <1>4, <3>1, <3>3
  <2>2. CASE ~(n > 8)
    <3>1. Run(0, m) \o etc = Run(0, m)
      BY <1>5, <2>2
    <3> HIDE DEF T, etc
    <3> QED BY <1>4, <3>1
  <2> QED BY <2>1, <2>2
<1>7. list.blank = {}
  BY ProperBegins
<1> HIDE DEF etc
<1>8. ParseItems(LegacyItems(list), list.blank) = Part(Run(0, m), 0, Requested)
  BY <1>3, <1>6, <1>7 DEF ParseItems
<1>9. Part(Run(0, m), 0, Requested) = Plain(Less(n, Less(8, Requested)))
  <2> DEFINE p == Part(Run(0, m), 0, Requested)
             k == Less(n, Less(8, Requested))
  <2>1. Less(Requested, m) = k /\ k \in Nat
    BY <1>1 DEF m, Less
  <2>2. /\ p \in Seq(Int) /\ Len(p) = k - 0
        /\ \A i \in 1 .. k - 0 : p[i] = Run(0, m)[0 + i]
    <3> DEFINE r == Run(0, m)
               b == Less(Requested, Len(r))
    <3>1. 0 <= b /\ b = k
      BY <1>5, <2>1
    <3> HIDE DEF k, r
    <3>2. /\ Part(r, 0, Requested) \in Seq(Int) /\ Len(Part(r, 0, Requested)) = b - 0
          /\ \A i \in 1 .. b - 0 : Part(r, 0, Requested)[i] = r[0 + i]
      BY <1>1, <1>5, <3>1, PartIs DEF r
    <3> QED BY <3>1, <3>2 DEF r
  <2> HIDE DEF p, k
  <2>3. k <= m
    BY <1>1, <2>1 DEF Less
  <2>4. \A i \in 1 .. k : p[i] = i
    BY <1>5, <2>1, <2>2, <2>3
  <2>5. Plain(k) \in Seq(Int) /\ Len(Plain(k)) = k /\ \A i \in 1 .. k : Plain(k)[i] = i
    BY <2>1, PlainIs
  <2>6. p = Plain(k)
    BY <2>1, <2>2, <2>4, <2>5, SeqEqual
  <2> QED BY <2>6 DEF p, k
<1> QED BY <1>8, <1>9

\* The number keys and NotifyIME select the row of the page.
LEMMA RowSelected ==
    ASSUME Listing(list), NEW index \in PageRows, NEW takesKeys \in BOOLEAN,
           list.pageStart = 0 \/ (takesKeys /\ index <= 9)
    PROVE  Selected(index, takesKeys) = list.pageStart + index
<1>1. index \in Nat /\ list.pageStart \in Nat
  BY DEF PageRows, Listing
<1>2. CASE index <= 9
  <2>1. SelectionVk(index) # NoKey /\ Row(SelectionVk(index)) = index
    BY <1>1, <1>2 DEF SelectionVk, Row, NoKey
  <2>2. takesKeys => Selected(index, takesKeys) = list.pageStart + index
    BY <2>1 DEF Selected
  <2>3. ~takesKeys => Selected(index, takesKeys) = index
    BY DEF Selected
  <2> QED BY <1>1, <2>2, <2>3
<1>3. CASE ~(index <= 9)
  <2>1. SelectionVk(index) = NoKey
    BY <1>1, <1>3 DEF SelectionVk, NoKey
  <2>2. Selected(index, takesKeys) = index
    BY <2>1 DEF Selected
  <2> QED BY <1>1, <1>3, <2>2
<1> QED BY <1>2, <1>3

-----------------------------------------------------------------------------
(* Lengths in bytes.                                                       *)

\* f counts the bytes of s unit by unit.
Counts(f, s) ==
    /\ f[0] = 0
    /\ \A i \in 1 .. Len(s) : f[i] = f[i - 1] + Utf8Bytes(s, i)

\* f is what Utf8Len builds on the way to n.
Sums(f, s, n) ==
    f = [i \in 0 .. n |-> IF i = 0 THEN 0 ELSE f[i - 1] + Utf8Bytes(s, i)]

LEMMA SumsStep ==
    ASSUME NEW s, NEW n \in Nat, NEW f, Sums(f, s, n)
    PROVE  \E g : Sums(g, s, n + 1)
<1> DEFINE last == f[n] + Utf8Bytes(s, n + 1)
           g == [i \in 0 .. n + 1 |-> IF i = n + 1 THEN last ELSE f[i]]
           h == [i \in 0 .. n + 1 |-> IF i = 0 THEN 0 ELSE g[i - 1] + Utf8Bytes(s, i)]
<1>1. ASSUME NEW i \in 0 .. n + 1 PROVE g[i] = h[i]
  <2>1. CASE i = n + 1
    <3>1. g[n] = f[n] /\ i # 0 /\ i - 1 = n
      BY <2>1
    <3> QED BY <2>1, <3>1
  <2>2. CASE i = 0
    BY <2>2 DEF Sums
  <2>3. CASE i \in 1 .. n
    <3>1. i \in 0 .. n /\ i - 1 \in 0 .. n /\ i # 0 /\ i # n + 1 /\ i - 1 # n + 1 /\ i - 1 \in 0 .. n + 1
      BY <2>3
    <3>2. g[i] = f[i] /\ g[i - 1] = f[i - 1]
      BY <3>1
    <3>3. f[i] = f[i - 1] + Utf8Bytes(s, i)
      BY <3>1 DEF Sums
    <3> QED BY <3>1, <3>2, <3>3
  <2> QED BY <2>1, <2>2, <2>3
<1>2. g = h
  BY <1>1
<1> HIDE DEF last
<1>3. Sums(g, s, n + 1)
  BY <1>2 DEF Sums
<1> QED BY <1>3

LEMMA SumsExists ==
    ASSUME NEW s, NEW n \in Nat
    PROVE  \E f : Sums(f, s, n)
<1> DEFINE S == {k \in Nat : \E f : Sums(f, s, k)}
<1>1. 0 \in S
  <2> DEFINE f == [i \in 0 .. 0 |-> 0]
  <2>1. f = [i \in 0 .. 0 |-> IF i = 0 THEN 0 ELSE f[i - 1] + Utf8Bytes(s, i)]
    OBVIOUS
  <2>2. Sums(f, s, 0)
    BY <2>1 DEF Sums
  <2> QED BY <2>2
<1>2. ASSUME NEW k \in S PROVE k + 1 \in S
  BY SumsStep
<1>3. S = Nat
  <2>1. S \subseteq Nat
    OBVIOUS
  <2> HIDE DEF S
  <2> QED BY <1>1, <1>2, <2>1, NatSets
<1> QED BY <1>3

\* A count ends with the length.
LEMMA CountIs ==
    ASSUME NEW s, Len(s) \in Nat, NEW f, Counts(f, s)
    PROVE  Utf8Len(s) = f[Len(s)]
<1> DEFINE g == CHOOSE g : Sums(g, s, Len(s))
<1>1. Utf8Len(s) = g[Len(s)]
  BY DEF Utf8Len, Sums
<1>2. Sums(g, s, Len(s))
  BY SumsExists
<1> HIDE DEF g
<1> DEFINE U == {i \in Nat : f[i] = g[i]}
<1>3. 0 \in U
  <2>1. 0 \in 0 .. Len(s)
    OBVIOUS
  <2>2. g[0] = 0
    BY <1>2, <2>1 DEF Sums
  <2> QED BY <2>2 DEF Counts
<1>4. ASSUME NEW n \in U, n \in 0 .. Len(s), n < Len(s) PROVE n + 1 \in U
  <2>1. n + 1 \in 1 .. Len(s) /\ n + 1 \in 0 .. Len(s) /\ n + 1 - 1 = n /\ n + 1 \in Nat /\ n + 1 # 0
    BY <1>4
  <2>2. f[n + 1] = f[n] + Utf8Bytes(s, n + 1)
    BY <2>1 DEF Counts
  <2>3. g[n + 1] = g[n] + Utf8Bytes(s, n + 1)
    BY <1>2, <2>1 DEF Sums
  <2>4. f[n] = g[n]
    OBVIOUS
  <2> QED BY <2>1, <2>2, <2>3, <2>4
<1>5. 0 .. Len(s) \subseteq U
  <2> HIDE DEF U
  <2> QED BY <1>3, <1>4, UpTo
<1>6. Len(s) \in U
  BY <1>5
<1> QED BY <1>1, <1>6

LEMMA CountExists ==
    ASSUME NEW s, Len(s) \in Nat
    PROVE  \E f : Counts(f, s)
<1>1. PICK f : Sums(f, s, Len(s))
  BY SumsExists
<1>2. 0 \in 0 .. Len(s) /\ \A i \in 1 .. Len(s) : i \in 0 .. Len(s) /\ i # 0
  OBVIOUS
<1>3. Counts(f, s)
  BY <1>1, <1>2 DEF Sums, Counts
<1> QED BY <1>3

-----------------------------------------------------------------------------
(* Texts and their parts.                                                  *)

IsText(u) == u \in Seq(Int) /\ \A i \in 1 .. Len(u) : u[i] \in Units

\* A place of u between the halves of a pair.
Splits(u, i) == i \in 1 .. Len(u) - 1 /\ u[i] = Hi /\ u[i + 1] = Lo

LEMMA BytesOf ==
    ASSUME NEW u, IsText(u), NEW i \in 1 .. Len(u)
    PROVE  /\ Utf8Bytes(u, i) \in 0 .. 4
           /\ Splits(u, i) => Utf8Bytes(u, i) = 4
BY DEF Utf8Bytes, IsText, Units, Paired, Splits, Hi, Lo

\* A count grows.
LEMMA CountGrows ==
    ASSUME NEW u, IsText(u), NEW f, Counts(f, u)
    PROVE  \A j \in 0 .. Len(u) : f[j] \in Nat /\ \A i \in 0 .. j : f[i] \in Nat /\ f[i] <= f[j]
<1>1. Len(u) \in Nat
  BY DEF IsText
<1> DEFINE U == {j \in Nat : f[j] \in Nat /\ \A i \in 0 .. j : f[i] \in Nat /\ f[i] <= f[j]}
<1>2. 0 \in U
  BY DEF Counts
<1>3. ASSUME NEW n \in U, n \in 0 .. Len(u), n < Len(u) PROVE n + 1 \in U
  <2>1. n + 1 \in 1 .. Len(u) /\ n + 1 - 1 = n /\ n + 1 \in Nat /\ n \in Nat
    BY <1>1, <1>3
  <2>2. f[n + 1] = f[n] + Utf8Bytes(u, n + 1) /\ Utf8Bytes(u, n + 1) \in 0 .. 4
    BY <2>1, BytesOf DEF Counts
  <2>3. f[n] \in Nat /\ \A i \in 0 .. n : f[i] \in Nat /\ f[i] <= f[n]
    OBVIOUS
  <2>4. f[n + 1] \in Nat /\ f[n] <= f[n + 1]
    BY <2>2, <2>3
  <2>5. ASSUME NEW i \in 0 .. n + 1 PROVE f[i] \in Nat /\ f[i] <= f[n + 1]
    <3>1. CASE i = n + 1
      BY <2>4, <3>1
    <3>2. CASE i \in 0 .. n
      BY <2>3, <2>4, <3>2
    <3> QED BY <2>1, <3>1, <3>2
  <2> QED BY <2>1, <2>4, <2>5
<1>4. 0 .. Len(u) \subseteq U
  <2> HIDE DEF U
  <2> QED BY <1>1, <1>2, <1>3, UpTo
<1> QED BY <1>4

\* The bytes of the units a + 1 to b, where a splits no pair: a pair that b
\* splits has one byte less there than its character has.
LEMMA PartCounts ==
    ASSUME NEW u, IsText(u), NEW f, Counts(f, u),
           NEW a \in 0 .. Len(u), NEW b \in a .. Len(u), ~Splits(u, a)
    PROVE  Utf8Len(Part(u, a, b)) = f[b] - f[a] - (IF a < b /\ Splits(u, b) THEN 1 ELSE 0)
<1> DEFINE p == Part(u, a, b)
           cut == IF a < b /\ Splits(u, b) THEN 1 ELSE 0
           m == b - a
           g == [j \in 0 .. m |-> f[a + j] - f[a] - (IF j = m THEN cut ELSE 0)]
<1>1. u \in Seq(Int) /\ Len(u) \in Nat /\ a \in Nat /\ b \in Nat /\ a <= b /\ b <= Len(u) /\ m \in Nat
  BY DEF IsText
<1>2. p \in Seq(Int) /\ Len(p) = m /\ \A j \in 1 .. m : p[j] = u[a + j]
  <2>1. Less(b, Len(u)) = b /\ a <= Less(b, Len(u))
    BY <1>1 DEF Less
  <2>2. /\ Part(u, a, b) \in Seq(Int) /\ Len(Part(u, a, b)) = Less(b, Len(u)) - a
        /\ \A j \in 1 .. Less(b, Len(u)) - a : Part(u, a, b)[j] = u[a + j]
    BY <1>1, <2>1, PartIs
  <2> QED BY <2>1, <2>2
<1> HIDE DEF p
<1>3. \A j \in 0 .. Len(u) : f[j] \in Nat
  BY CountGrows
<1>4. ASSUME NEW j \in 1 .. m
      PROVE  Utf8Bytes(p, j) = Utf8Bytes(u, a + j) - (IF j = m THEN cut ELSE 0)
  <2>1. a + j \in 1 .. Len(u) /\ p[j] = u[a + j] /\ u[a + j] \in Units
    BY <1>1, <1>2 DEF IsText
  <2>2. CASE u[a + j] \in {1, 2, 3}
    <3>1. ~(j = m /\ Splits(u, b))
      BY <1>1, <2>2 DEF Splits, Hi
    <3>2. Utf8Bytes(p, j) = u[a + j] /\ Utf8Bytes(u, a + j) = u[a + j]
      BY <2>1, <2>2 DEF Utf8Bytes, Hi, Lo
    <3>3. u[a + j] \in Int /\ (IF j = m THEN cut ELSE 0) = 0
      BY <2>2, <3>1
    <3> QED BY <3>2, <3>3
  <2>3. CASE u[a + j] = Hi
    <3>1. CASE j = m
      <4>1. a + j = b /\ a < b
        BY <1>1, <3>1
      <4>2. Utf8Bytes(p, j) = 3
        BY <1>2, <2>1, <2>3, <3>1 DEF Utf8Bytes, Paired, Hi, Lo
      <4>3. Utf8Bytes(u, a + j) = IF Splits(u, b) THEN 4 ELSE 3
        <5>1. b \in 1 .. Len(u) /\ u[b] = Hi
          BY <2>1, <2>3, <4>1
        <5>2. Paired(u, b) <=> Splits(u, b)
          BY <1>1, <5>1 DEF Paired, Splits, Hi, Lo
        <5>3. Utf8Bytes(u, b) = IF Splits(u, b) THEN 4 ELSE 3
          BY <5>1, <5>2 DEF Utf8Bytes, Hi, Lo
        <5> QED BY <4>1, <5>3
      <4> QED BY <3>1, <4>1, <4>2, <4>3
    <3>2. CASE j # m
      <4>1. j + 1 \in 1 .. m /\ p[j + 1] = u[a + j + 1] /\ a + j < Len(u) /\ j < Len(p)
        <5>1. j + 1 \in 1 .. m /\ a + (j + 1) = a + j + 1 /\ a + j < Len(u)
          BY <1>1, <3>2
        <5> QED BY <1>2, <5>1
      <4>2. Paired(p, j) <=> Paired(u, a + j)
        BY <1>1, <2>1, <2>3, <4>1 DEF Paired, Hi, Lo
      <4>3. Utf8Bytes(p, j) = Utf8Bytes(u, a + j)
        BY <2>1, <4>2 DEF Utf8Bytes
      <4>4. Utf8Bytes(u, a + j) \in Int
        BY <2>1, BytesOf
      <4> QED BY <3>2, <4>3, <4>4
    <3> QED BY <3>1, <3>2
  <2>4. CASE u[a + j] = Lo
    <3>1. ~(j = m /\ Splits(u, b))
      BY <1>1, <2>4 DEF Splits, Hi, Lo
    <3>2. Paired(p, j) <=> Paired(u, a + j)
      <4>1. CASE j = 1
        <5>1. ~Paired(p, j)
          BY <2>1, <2>4, <4>1 DEF Paired, Hi, Lo
        <5>2. ~Paired(u, a + j)
          <6>1. a + j - 1 = a
            BY <4>1
          <6>2. ~(a >= 1 /\ u[a] = Hi)
            BY <1>1, <2>1, <2>4, <4>1 DEF Splits
          <6> QED BY <1>1, <2>1, <2>4, <6>1, <6>2 DEF Paired, Hi, Lo
        <5> QED BY <5>1, <5>2
      <4>2. CASE j # 1
        <5>1. j - 1 \in 1 .. m /\ a + (j - 1) = a + j - 1 /\ a + j > 1 /\ j > 1
          BY <1>1, <4>2
        <5>2. p[j - 1] = u[a + j - 1]
          BY <1>2, <5>1
        <5> QED BY <2>1, <2>4, <5>1, <5>2 DEF Paired, Hi, Lo
      <4> QED BY <4>1, <4>2
    <3>3. Utf8Bytes(p, j) = Utf8Bytes(u, a + j)
      BY <2>1, <3>2 DEF Utf8Bytes
    <3>4. Utf8Bytes(u, a + j) \in Int /\ (IF j = m THEN cut ELSE 0) = 0
      BY <2>1, <3>1, BytesOf
    <3> QED BY <3>3, <3>4
  <2> QED BY <2>1, <2>2, <2>3, <2>4 DEF Units
<1>5. cut \in Int /\ (m = 0 => cut = 0)
  BY <1>1
<1> HIDE DEF cut
<1>6. Counts(g, p)
  <2>1. g[0] = 0
    BY <1>1, <1>3, <1>5
  <2>2. ASSUME NEW j \in 1 .. m PROVE g[j] = g[j - 1] + Utf8Bytes(p, j)
    <3>1. j \in 0 .. m /\ j - 1 \in 0 .. m /\ j - 1 # m /\ a + (j - 1) = a + j - 1
      BY <1>1
    <3>2. a + j \in 1 .. Len(u) /\ a + j \in 0 .. Len(u) /\ a + j - 1 \in 0 .. Len(u)
      BY <1>1
    <3>3. f[a + j] = f[a + j - 1] + Utf8Bytes(u, a + j) /\ Utf8Bytes(u, a + j) \in Int
      BY <3>2, BytesOf DEF Counts
    <3>4. f[a + j] \in Int /\ f[a + j - 1] \in Int /\ f[a] \in Int
      BY <1>1, <1>3, <3>2
    <3>5. g[j] = f[a + j] - f[a] - (IF j = m THEN cut ELSE 0) /\ g[j - 1] = f[a + j - 1] - f[a]
      BY <3>1, <3>4
    <3>6. Utf8Bytes(p, j) = Utf8Bytes(u, a + j) - (IF j = m THEN cut ELSE 0)
      BY <1>4
    <3> DEFINE here  == f[a + j]
               prior == f[a + j - 1]
               first == f[a]
               bytes == Utf8Bytes(u, a + j)
               less  == IF j = m THEN cut ELSE 0
    <3>7. less \in Int
      BY <1>5
    <3> HIDE DEF g, m, here, prior, first, bytes, less
    <3>8. /\ here = prior + bytes /\ bytes \in Int /\ here \in Int /\ prior \in Int /\ first \in Int
          /\ g[j] = here - first - less /\ g[j - 1] = prior - first
          /\ Utf8Bytes(p, j) = bytes - less
      BY <3>3, <3>4, <3>5, <3>6 DEF here, prior, first, bytes, less
    <3> QED BY <3>7, <3>8
  <2> HIDE DEF g
  <2> QED BY <1>2, <2>1, <2>2 DEF Counts
<1>7. g[m] = f[b] - f[a] - cut
  <2>1. a + m = b /\ m \in 0 .. m
    BY <1>1
  <2> QED BY <2>1
<1> HIDE DEF g, m
<1>8. Utf8Len(p) = g[Len(p)]
  BY <1>1, <1>2, <1>6, CountIs
<1> QED BY <1>2, <1>7, <1>8 DEF p, cut

\* Where a place of u is in the preedit; the later place is not before the earlier.
LEMMA PlaceIs ==
    ASSUME NEW u, IsText(u), NEW f, Counts(f, u), NEW i \in 0 .. Len(u)
    PROVE  Offset(u, i) = f[i] - (IF Splits(u, i) THEN 1 ELSE 0)
<1>1. Len(u) \in Nat /\ 0 \in 0 .. Len(u) /\ i \in 0 .. Len(u) /\ f[0] = 0
  BY DEF IsText, Counts
<1>2. ~Splits(u, 0) /\ (Splits(u, i) => 0 < i)
  BY <1>1 DEF Splits
<1>3. Utf8Len(Part(u, 0, i)) = f[i] - f[0] - (IF 0 < i /\ Splits(u, i) THEN 1 ELSE 0)
  BY <1>1, <1>2, PartCounts
<1>4. f[i] \in Nat
  BY <1>1, CountGrows
<1> QED BY <1>1, <1>2, <1>3, <1>4 DEF Offset

LEMMA PlacesInOrder ==
    ASSUME NEW u, IsText(u), NEW j \in 0 .. Len(u), NEW i \in 0 .. j
    PROVE  Offset(u, i) <= Offset(u, j)
<1>1. Len(u) \in Nat /\ i \in 0 .. Len(u) /\ j \in Nat /\ i \in Nat
  BY DEF IsText
<1>2. PICK f : Counts(f, u)
  BY <1>1, CountExists
<1>3. /\ Offset(u, i) = f[i] - (IF Splits(u, i) THEN 1 ELSE 0)
      /\ Offset(u, j) = f[j] - (IF Splits(u, j) THEN 1 ELSE 0)
  BY <1>1, <1>2, PlaceIs
<1>4. f[i] \in Nat /\ f[j] \in Nat /\ f[i] <= f[j]
  BY <1>1, <1>2, CountGrows
<1>5. CASE i < j /\ Splits(u, j)
  <2>1. j \in 1 .. Len(u) /\ j - 1 \in 0 .. Len(u) /\ i \in 0 .. j - 1
    BY <1>1, <1>5
  <2>2. f[j] = f[j - 1] + 4
    BY <1>2, <1>5, <2>1, BytesOf DEF Counts
  <2>3. f[j - 1] \in Nat /\ f[i] <= f[j - 1]
    BY <1>2, <2>1, CountGrows
  <2> QED BY <1>3, <1>4, <1>5, <2>2, <2>3
<1>6. CASE i = j
  BY <1>3, <1>4, <1>6
<1>7. CASE ~Splits(u, j)
  BY <1>3, <1>4, <1>7
<1> QED BY <1>1, <1>5, <1>6, <1>7

LEMMA EndIs ==
    ASSUME NEW u, IsText(u)
    PROVE  Utf8Len(u) = Offset(u, Len(u))
<1>1. Len(u) \in Nat
  BY DEF IsText
<1>2. PICK f : Counts(f, u)
  BY <1>1, CountExists
<1>3. Utf8Len(u) = f[Len(u)] /\ f[Len(u)] \in Nat
  BY <1>1, <1>2, CountIs, CountGrows
<1>4. ~Splits(u, Len(u))
  BY <1>1 DEF Splits
<1> QED BY <1>1, <1>2, <1>3, <1>4, PlaceIs

\* The bytes from a place to another, where neither splits a pair.
LEMMA BetweenPlaces ==
    ASSUME NEW u, IsText(u), NEW j \in 0 .. Len(u), NEW i \in 0 .. j,
           ~Splits(u, i), ~Splits(u, j)
    PROVE  /\ Utf8Len(Part(u, i, j)) = Offset(u, j) - Offset(u, i)
           /\ Offset(u, i) \in Nat /\ Offset(u, j) \in Nat
<1>1. Len(u) \in Nat /\ i \in 0 .. Len(u) /\ j \in i .. Len(u)
  BY DEF IsText
<1>2. PICK f : Counts(f, u)
  BY <1>1, CountExists
<1>3. f[i] \in Nat /\ f[j] \in Nat
  BY <1>1, <1>2, CountGrows
<1>4. Offset(u, i) = f[i] /\ Offset(u, j) = f[j]
  BY <1>1, <1>2, <1>3, PlaceIs
<1>5. Utf8Len(Part(u, i, j)) = f[j] - f[i]
  <2>1. Utf8Len(Part(u, i, j)) = f[j] - f[i] - (IF i < j /\ Splits(u, j) THEN 1 ELSE 0)
    BY <1>1, <1>2, PartCounts
  <2> QED BY <1>3, <2>1
<1> QED BY <1>3, <1>4, <1>5

-----------------------------------------------------------------------------
(* The selection.                                                          *)

LEMMA LeastIs ==
    ASSUME NEW S, S \subseteq Nat, S # {}
    PROVE  Min(S) \in S /\ \A y \in S : Min(S) <= y
<1>1. PICK x \in S : \A y \in S : ~(y < x)
  BY Least
<1>2. \E z \in S : \A y \in S : z <= y
  BY <1>1
<1> QED BY <1>2, Zenon DEF Min

LEMMA GreatestIs ==
    ASSUME NEW n \in Nat, NEW S, S \subseteq 0 .. n, S # {}
    PROVE  Max(S) \in S /\ \A y \in S : Max(S) >= y
<1> DEFINE R == {n - x : x \in S}
<1>1. R \subseteq Nat /\ R # {}
  <2>1. \A x \in S : n - x \in Nat
    OBVIOUS
  <2>2. PICK x \in S : TRUE
    OBVIOUS
  <2>3. n - x \in R
    OBVIOUS
  <2> QED BY <2>1, <2>3
<1>2. PICK r \in R : \A q \in R : ~(q < r)
  <2> HIDE DEF R
  <2> QED BY <1>1, Least
<1>3. PICK x \in S : r = n - x
  BY <1>2
<1>4. ASSUME NEW y \in S PROVE x >= y
  <2>1. n - y \in R
    OBVIOUS
  <2>2. ~(n - y < n - x)
    BY <1>2, <1>3, <2>1
  <2> QED BY <2>2
<1>5. \E z \in S : \A y \in S : z >= y
  BY <1>4
<1> QED BY <1>5, Zenon DEF Max

\* What the IME gives: units, a cursor and the attributes of its units, or none.
Composing(c) ==
    /\ IsText(c.units)
    /\ c.cursor \in -1 .. Len(c.units)
    /\ DOMAIN c.attrs \subseteq 1 .. Len(c.units)

Target(c) == {u \in DOMAIN c.attrs : c.attrs[u]}

LEMMA SelectionIs ==
    ASSUME NEW c, Composing(c)
    PROVE  /\ Selection(c)[2] \in 0 .. Len(c.units) /\ Selection(c)[1] \in 0 .. Selection(c)[2]
           /\ \A i, j \in Nat :
                 Target(c) \subseteq i + 1 .. j /\ {i + 1, j} \subseteq Target(c) =>
                    Selection(c)[1] = i /\ Selection(c)[2] = j
<1> DEFINE n == Len(c.units)
           T == Target(c)
<1>1. n \in Nat /\ T \subseteq 1 .. n
  BY DEF Composing, IsText, Target
<1>2. Selection(c) = IF T = {} THEN <<0, n>> ELSE <<Min(T) - 1, Max(T)>>
  BY DEF Selection, Target
<1> HIDE DEF T, n
<1>3. CASE T = {}
  BY <1>1, <1>2, <1>3 DEF T, n
<1>4. CASE T # {}
  <2>1. T \subseteq Nat /\ T \subseteq 0 .. n
    BY <1>1
  <2>2. Min(T) \in T /\ \A y \in T : Min(T) <= y
    BY <1>4, <2>1, LeastIs
  <2>3. Max(T) \in T /\ \A y \in T : Max(T) >= y
    BY <1>1, <1>4, <2>1, GreatestIs
  <2>4. Selection(c)[1] = Min(T) - 1 /\ Selection(c)[2] = Max(T)
    BY <1>2, <1>4
  <2>5. Min(T) \in 1 .. n /\ Max(T) \in 1 .. n /\ Min(T) <= Max(T)
    BY <1>1, <2>2, <2>3
  <2>6. Selection(c)[2] \in 0 .. n /\ Selection(c)[1] \in 0 .. Selection(c)[2]
    BY <1>1, <2>4, <2>5
  <2>7. ASSUME NEW i \in Nat, NEW j \in Nat, T \subseteq i + 1 .. j, {i + 1, j} \subseteq T
        PROVE  Selection(c)[1] = i /\ Selection(c)[2] = j
    <3>1. Min(T) \in i + 1 .. j /\ Max(T) \in i + 1 .. j
      BY <2>2, <2>3, <2>7
    <3>2. Min(T) <= i + 1 /\ Max(T) >= j
      BY <2>2, <2>3, <2>7
    <3> QED BY <2>4, <3>1, <3>2
  <2> QED BY <2>6, <2>7 DEF T, n
<1> QED BY <1>3, <1>4

LEMMA CompsType == ASSUME NEW c \in Comps \cup {AnyComp} PROVE Composing(c)
<1>1. CASE c = AnyComp
  <2>1. <<1>> \in Seq(Int) /\ Len(<<1>>) = 1 /\ <<1>>[1] = 1
    OBVIOUS
  <2>2. DOMAIN <<>> \subseteq 1 .. 1
    <3>1. <<>> \in Seq(Int) /\ Len(<<>>) = 0
      OBVIOUS
    <3>2. DOMAIN <<>> = 1 .. 0
      BY <3>1
    <3> QED BY <3>2
  <2>3. AnyComp.units = <<1>> /\ AnyComp.cursor = 0 /\ AnyComp.attrs = <<>>
    BY DEF AnyComp
  <2> QED BY <1>1, <2>1, <2>2, <2>3 DEF Composing, IsText, Units
<1>2. CASE c \in Comps
  <2>1. PICK n \in 1 .. MaxUnits :
           c \in [units : [1 .. n -> Units], cursor : -1 .. n, attrs : {<<>>} \cup [1 .. n -> BOOLEAN]]
    BY <1>2 DEF Comps
  <2>2. /\ c.units \in [1 .. n -> Units] /\ c.cursor \in -1 .. n /\ n \in Nat
        /\ c.attrs \in {<<>>} \cup [1 .. n -> BOOLEAN]
    BY <2>1, ShapeAssumption
  <2>3. c.units \in [1 .. n -> Int]
    BY <2>2 DEF Units, Hi, Lo
  <2>4. c.units \in Seq(Int)
    BY <2>2, <2>3, SeqDef
  <2>5. Len(c.units) = n
    BY <2>2, <2>3, <2>4, LenProperties
  <2>6. DOMAIN c.attrs \subseteq 1 .. n
    BY <2>2
  <2> QED BY <2>2, <2>4, <2>5, <2>6 DEF Composing, IsText
<1> QED BY <1>1, <1>2

\* What the reader gives of a composition.
LEMMA PlacesAre ==
    ASSUME Composing(comp)
    PROVE  LET c == GetCompositionString(comp)
               n == Len(comp.units)
               at == IF comp.cursor = -1 THEN n ELSE comp.cursor IN
           /\ c.selStart <= c.selEnd /\ c.selEnd <= c.length /\ c.cursor <= c.length
           /\ Whole(at) => c.cursor + Bytes(at, n) = c.length
           /\ \A i, j \in 0 .. n :
                 Clause(i, j) /\ Whole(i) /\ Whole(j) =>
                    c.selEnd - c.selStart = Bytes(i, j) /\ c.selEnd + Bytes(j, n) = c.length
<1> DEFINE c == GetCompositionString(comp)
           u == comp.units
           n == Len(u)
           at == IF comp.cursor = -1 THEN n ELSE comp.cursor
           from == Selection(comp)[1]
           to == Selection(comp)[2]
<1>1. IsText(u) /\ n \in Nat /\ n \in 0 .. n /\ at \in 0 .. n /\ comp.cursor \in Int
  BY DEF Composing, IsText
<1>2. to \in 0 .. n /\ from \in 0 .. to
  BY SelectionIs
<1>3. /\ c.length = Offset(u, n)
      /\ c.cursor = Offset(u, at) /\ c.selStart = Offset(u, from) /\ c.selEnd = Offset(u, to)
  <2>1. Utf8Len(u) = Offset(u, n)
    BY <1>1, EndIs
  <2>2. (IF comp.cursor < 0 THEN n ELSE comp.cursor) = at
    BY DEF Composing
  <2> HIDE DEF at, n, u, from, to
  <2> QED BY <2>1, <2>2 DEF GetCompositionString, n, u, from, to
<1>4. \A i \in 0 .. n : Whole(i) => ~Splits(u, i)
  BY <1>1 DEF Whole, Splits, Paired
<1>5. ~Splits(u, n)
  BY <1>1 DEF Splits
<1> HIDE DEF c, at, from, to, u
<1>6. c.selStart <= c.selEnd /\ c.selEnd <= c.length /\ c.cursor <= c.length
  BY <1>1, <1>2, <1>3, PlacesInOrder
<1>7. ASSUME Whole(at) PROVE c.cursor + Bytes(at, n) = c.length
  <2>1. /\ Utf8Len(Part(u, at, n)) = Offset(u, n) - Offset(u, at)
        /\ Offset(u, at) \in Nat /\ Offset(u, n) \in Nat
    BY <1>1, <1>4, <1>5, <1>7, BetweenPlaces
  <2>2. Bytes(at, n) = Utf8Len(Part(u, at, n))
    BY DEF Bytes, u
  <2> QED BY <1>3, <2>1, <2>2
<1>8. ASSUME NEW i \in 0 .. n, NEW j \in 0 .. n, Clause(i, j), Whole(i), Whole(j)
      PROVE  c.selEnd - c.selStart = Bytes(i, j) /\ c.selEnd + Bytes(j, n) = c.length
  <2>1. Target(comp) \subseteq i + 1 .. j /\ {i + 1, j} \subseteq Target(comp)
    BY <1>8 DEF Clause, Target
  <2>2. i \in Nat /\ j \in Nat /\ i \in 0 .. j /\ j \in 0 .. n
    BY <1>1, <2>1
  <2>3. from = i /\ to = j
    BY <2>1, <2>2, SelectionIs DEF from, to
  <2>4. ~Splits(u, i) /\ ~Splits(u, j)
    BY <1>4, <1>8
  <2>5. /\ Utf8Len(Part(u, i, j)) = Offset(u, j) - Offset(u, i)
        /\ Utf8Len(Part(u, j, n)) = Offset(u, n) - Offset(u, j)
        /\ Offset(u, j) \in Nat /\ Offset(u, n) \in Nat
    BY <1>1, <1>5, <2>2, <2>4, BetweenPlaces
  <2>6. Bytes(i, j) = Utf8Len(Part(u, i, j)) /\ Bytes(j, n) = Utf8Len(Part(u, j, n))
    BY DEF Bytes, u
  <2> QED BY <1>3, <2>3, <2>5, <2>6
<1> QED BY <1>6, <1>7, <1>8 DEF c, at, u

-----------------------------------------------------------------------------
(* The tables of KeyMap.                                                   *)

\* rime_to_vk of the keys that have a name.
LEMMA NamedVks ==
    ASSUME NEW keycode \in NamedKeys
    PROVE  /\ RimeToVk(keycode) = Named(keycode)
           /\ Named(keycode) \in {8, 9, 13, 20, 27, 45, 46, 91, 92, 254}
                                 \cup 33 .. 40 \cup 160 .. 165
<1>1. Named(keycode) \in {8, 9, 13, 20, 27, 45, 46, 91, 92, 254} \cup 33 .. 40 \cup 160 .. 165
  BY DEF NamedKeys, Named, NoVk
<1> QED BY <1>1 DEF NamedKeys, RimeToVk

\* rime_to_vk of a printable character.
LEMMA PrintableVks ==
    ASSUME NEW keycode \in 32 .. 126
    PROVE  RimeToVk(keycode) =
             IF Punctuation(keycode) # NoVk THEN Punctuation(keycode)
             ELSE IF keycode \in Lower THEN keycode - 32 ELSE keycode
<1>1. Named(keycode) = NoVk /\ keycode % 65536 = keycode
  BY DEF Named
<1> QED BY <1>1 DEF RimeToVk, Lower

\* The keyboard undoes rime_to_vk, with the shift that is_shifted_char asks for.
LEMMA KeyboardGivesBack ==
    ASSUME NEW code \in 32 .. 126
    PROVE  ToUnicode(RimeToVk(code), IsShiftedChar(code)) = code
<1>1. CASE code \in Upper \cup Lower \cup Digits
  <2>1. Punctuation(code) = NoVk
    BY <1>1 DEF Punctuation, Upper, Lower, Digits
  <2>2. RimeToVk(code) = IF code \in Lower THEN code - 32 ELSE code
    BY <2>1, PrintableVks
  <2>3. IsShiftedChar(code) <=> code \in Upper
    BY <1>1 DEF IsShiftedChar, Upper, Lower, Digits
  <2> QED BY <1>1, <2>2, <2>3 DEF ToUnicode, Upper, Lower, Digits
<1>2. CASE code \notin Upper \cup Lower \cup Digits
  <2>1. Punctuation(code) # NoVk
    BY <1>2 DEF Punctuation, NoVk, Upper, Lower, Digits
  <2>2. RimeToVk(code) = Punctuation(code)
    BY <2>1, PrintableVks
  <2>3. CASE IsShiftedChar(code)
    <3>1. \/ code \in {33, 35, 36, 37, 38, 40, 41, 42, 64, 94}
          \/ code \in {43, 58, 60, 62, 63, 95, 126}
          \/ code \in {34, 123, 124, 125}
      BY <1>2, <2>3 DEF IsShiftedChar, Upper
    <3>2. CASE code \in {33, 35, 36, 37, 38, 40, 41, 42, 64, 94}
      <4>1. Punctuation(code) \in Digits /\ DigitKeys[Punctuation(code) - 47] = code
        <5>1. <<code, Punctuation(code)>> \in
                {<<33, 49>>, <<64, 50>>, <<35, 51>>, <<36, 52>>, <<37, 53>>, <<94, 54>>, <<38, 55>>, <<42, 56>>, <<40, 57>>, <<41, 48>>}
          BY <3>2 DEF Punctuation
        <5> QED BY <5>1 DEF DigitKeys, Digits
      <4> QED BY <2>2, <2>3, <4>1 DEF ToUnicode, Upper, Digits
    <3>3. CASE code \in {43, 58, 60, 62, 63, 95, 126}
      <4>1. Punctuation(code) \in 186 .. 192 /\ OemShift[Punctuation(code) - 185] = code
        <5>1. <<code, Punctuation(code)>> \in
                {<<58, 186>>, <<43, 187>>, <<60, 188>>, <<95, 189>>, <<62, 190>>, <<63, 191>>, <<126, 192>>}
          BY <3>3 DEF Punctuation
        <5> QED BY <5>1 DEF OemShift
      <4> QED BY <2>2, <2>3, <4>1 DEF ToUnicode, Upper, Digits
    <3>4. CASE code \in {34, 123, 124, 125}
      <4>1. Punctuation(code) \in 219 .. 222 /\ OemShift2[Punctuation(code) - 218] = code
        <5>1. <<code, Punctuation(code)>> \in
                {<<123, 219>>, <<124, 220>>, <<125, 221>>, <<34, 222>>}
          BY <3>4 DEF Punctuation
        <5> QED BY <5>1 DEF OemShift2
      <4> QED BY <2>2, <2>3, <4>1 DEF ToUnicode, Upper, Digits
    <3> QED BY <3>1, <3>2, <3>3, <3>4
  <2>4. CASE ~IsShiftedChar(code)
    <3>1. \/ code = 32
          \/ code \in {44, 45, 46, 47, 59, 61, 96}
          \/ code \in {39, 91, 92, 93}
      BY <1>2, <2>4 DEF IsShiftedChar, Upper, Lower, Digits
    <3>2. CASE code = 32
      <4>1. Punctuation(code) = 32
        BY <3>2 DEF Punctuation
      <4> QED BY <2>2, <3>2, <4>1 DEF ToUnicode, Upper, Digits
    <3>3. CASE code \in {44, 45, 46, 47, 59, 61, 96}
      <4>1. Punctuation(code) \in 186 .. 192 /\ OemPlain[Punctuation(code) - 185] = code
        <5>1. <<code, Punctuation(code)>> \in
                {<<59, 186>>, <<61, 187>>, <<44, 188>>, <<45, 189>>, <<46, 190>>, <<47, 191>>, <<96, 192>>}
          BY <3>3 DEF Punctuation
        <5> QED BY <5>1 DEF OemPlain
      <4> QED BY <2>2, <2>4, <4>1 DEF ToUnicode, Upper, Digits
    <3>4. CASE code \in {39, 91, 92, 93}
      <4>1. Punctuation(code) \in 219 .. 222 /\ OemPlain2[Punctuation(code) - 218] = code
        <5>1. <<code, Punctuation(code)>> \in
                {<<91, 219>>, <<92, 220>>, <<93, 221>>, <<39, 222>>}
          BY <3>4 DEF Punctuation
        <5> QED BY <5>1 DEF OemPlain2
      <4> QED BY <2>2, <2>4, <4>1 DEF ToUnicode, Upper, Digits
    <3> QED BY <3>1, <3>2, <3>3, <3>4
  <2> QED BY <2>3, <2>4
<1> QED BY <1>1, <1>2

\* Neither a named key nor F1 nor a keysym beyond 2^16 is a character's key.
LEMMA OthersAreNoCharacter ==
    ASSUME NEW code \in NamedKeys \cup {65470, 16797229}, NEW shift \in BOOLEAN
    PROVE  ToUnicode(RimeToVk(code), shift) = NoChar
<1>1. CASE code \in NamedKeys
  BY <1>1, NamedVks DEF ToUnicode, Upper, Digits
<1>2. CASE code \in {65470, 16797229}
  <2>1. RimeToVk(code) \in {65470, 20013}
    BY <1>2 DEF RimeToVk, Named, Punctuation, NoVk, Lower
  <2> QED BY <2>1 DEF ToUnicode, Upper, Digits
<1> QED BY <1>1, <1>2

\* Of is_shifted_char and rime_to_vk in process_key.
LEMMA KeyIs ==
    ASSUME NEW k \in Keys
    PROVE  Uvirt(k.code, k.shift).char =
             IF k.code \notin 32 .. 126 THEN NoChar
             ELSE IF k.shift /\ ~IsShiftedChar(k.code)
             THEN ToUnicode(Uvirt(k.code, k.shift).vk, TRUE) ELSE k.code
<1> DEFINE shifted == k.shift \/ IsShiftedChar(k.code)
<1>1. /\ k.code \in 32 .. 126 \cup NamedKeys \cup {65470, 16797229}
      /\ k.shift \in BOOLEAN /\ shifted \in BOOLEAN
  BY DEF Keys
<1>2. /\ Uvirt(k.code, k.shift).vk = RimeToVk(k.code)
      /\ Uvirt(k.code, k.shift).char = ToUnicode(RimeToVk(k.code), shifted)
  BY DEF Uvirt
<1> HIDE DEF shifted
<1>3. CASE k.code \notin 32 .. 126
  BY <1>1, <1>2, <1>3, OthersAreNoCharacter
<1>4. CASE k.code \in 32 .. 126 /\ k.shift /\ ~IsShiftedChar(k.code)
  <2>1. shifted = TRUE
    BY <1>4 DEF shifted
  <2> QED BY <1>2, <1>4, <2>1
<1>5. CASE k.code \in 32 .. 126 /\ ~(k.shift /\ ~IsShiftedChar(k.code))
  <2>1. shifted = IsShiftedChar(k.code)
    BY <1>1, <1>5 DEF shifted, IsShiftedChar
  <2> QED BY <1>2, <1>5, <2>1, KeyboardGivesBack
<1> QED BY <1>3, <1>4, <1>5

-----------------------------------------------------------------------------
(* The calls.                                                              *)

\* What a call gave is what the readers make of the list and the composition,
\* which are such as the IME may have.
Answered ==
    /\ Listing(list) /\ Composing(comp) /\ key \in Keys
    /\ \/ got = Nothing
       \/ got = [from |-> "v2", menu |-> GetCandidateList(list),
                 rows |-> Rows(GetCandidateList(list)),
                 composition |-> GetCompositionString(comp)]
       \/ got = [from |-> "imm", page |-> ReadImmCandidates(list)]
       \/ got = [from |-> "legacy", candidates |-> ParseItems(LegacyItems(list), list.blank)]
       \/ got = [from |-> "key", uvirt |-> Uvirt(key.code, key.shift)]
       \/ \E index \in PageRows, takesKeys \in BOOLEAN :
             got = [from |-> "select", index |-> index, takesKeys |-> takesKeys,
                    selected |-> Selected(index, takesKeys)]

LEMMA InitAnswered == Init => Answered
<1> SUFFICES ASSUME Init PROVE Answered
  OBVIOUS
<1>1. Listing(AnyList)
  <2>1. <<>> \in Seq(Int)
    OBVIOUS
  <2> QED BY <2>1, ListingIs DEF AnyList
<1>2. Listing(list)
  BY <1>1, ListsType DEF Init
<1>3. Composing(comp)
  BY CompsType DEF Init
<1>4. key \in Keys
  <2>1. AnyKey \in Keys
    BY DEF Keys, AnyKey
  <2> QED BY <2>1 DEF Init
<1> QED BY <1>2, <1>3, <1>4 DEF Init, Answered

LEMMA NextAnswered == Answered /\ [Next]_vars => Answered'
<1> SUFFICES ASSUME Answered, [Next]_vars PROVE Answered'
  OBVIOUS
<1>1. list' = list /\ comp' = comp /\ key' = key
  BY DEF Next, GetContext, RefreshFromImm, QueryLegacy, PressKey, SelectCandidate, Gets, vars
<1>2. Listing(list)' /\ Composing(comp)' /\ key' \in Keys
  BY <1>1 DEF Answered, Listing, Composing, IsText
<1>3. CASE GetContext
  BY <1>1, <1>2, <1>3 DEF GetContext, Gets, Answered
<1>4. CASE RefreshFromImm
  BY <1>1, <1>2, <1>4 DEF RefreshFromImm, Gets, Answered
<1>5. CASE QueryLegacy
  BY <1>1, <1>2, <1>5 DEF QueryLegacy, Gets, Answered
<1>6. CASE PressKey
  BY <1>1, <1>2, <1>6 DEF PressKey, Gets, Answered
<1>7. ASSUME NEW index \in PageRows, NEW takesKeys \in BOOLEAN, SelectCandidate(index, takesKeys)
      PROVE  Answered'
  <2>1. got' = [from |-> "select", index |-> index, takesKeys |-> takesKeys,
                selected |-> Selected(index, takesKeys)]
    BY <1>7 DEF SelectCandidate, Gets
  <2>2. PageRows' = PageRows /\ Selected(index, takesKeys)' = Selected(index, takesKeys)
    BY <1>1 DEF PageRows, Selected
  <2> QED BY <1>2, <2>1, <2>2 DEF Answered
<1>8. CASE UNCHANGED vars
  BY <1>1, <1>2, <1>8 DEF vars, Answered, PageRows, Selected
<1> QED BY <1>3, <1>4, <1>5, <1>6, <1>7, <1>8 DEF Next

\* Of get_candidate_list and the plugin's SyncContextFromBackend: whether zeros
\* stand before the offsets or not and whatever follows them, the menu is the
\* IME's list and the plugin's loop stays inside it.
THEOREM MenusAreLists == Spec => []MenuIsList
<1>1. Answered => MenuIsList
  <2> SUFFICES ASSUME Answered, got.from = "v2", Sound
               PROVE  got.menu.candidates = Plain(list.count) /\ got.rows = got.menu.candidates
    BY DEF MenuIsList
  <2>1. got.menu = GetCandidateList(list) /\ got.rows = Rows(GetCandidateList(list))
    BY DEF Answered, Nothing
  <2> QED BY <2>1, MenuIs, RowsAre DEF Answered
<1> QED BY <1>1, InitAnswered, NextAnswered, PTL DEF Spec

\* Of read_imm_candidates and get_candidate_list: of a list of any length with
\* pages of any size the two hosts show one page and select one candidate in it.
THEOREM PagesAgree == Spec => []SamePage
<1>1. Answered => SamePage
  <2> DEFINE menu == GetCandidateList(list)
             from == menu.pageNo * menu.pageSize
             row  == list.selection - from
             end  == Less(list.pageStart + list.pageSize, list.count)
             page == ReadImmCandidates(list)
  <2> SUFFICES ASSUME Answered, got.from = "imm", Proper, Aligned, list.pageSize <= Requested
               PROVE  /\ got.page.candidates = Part(menu.candidates, from, from + menu.pageSize)
                      /\ row + 1 \in DOMAIN got.page.candidates =>
                            /\ got.page.selected + 1 \in DOMAIN got.page.candidates
                            /\ got.page.candidates[got.page.selected + 1]
                                 = menu.candidates[menu.highlighted + 1]
    BY DEF SamePage
  <2>1. got.page = page /\ Listing(list)
    BY DEF Answered, Nothing
  <2>2. /\ list.count \in Nat /\ list.pageStart \in Nat /\ list.pageSize \in Nat
        /\ list.selection \in Nat /\ Sound
        /\ list.pageSize > 0 /\ list.pageStart < list.count /\ list.count > 0
    BY <2>1 DEF Listing, Aligned, Proper
  <2>3. /\ menu.candidates = Plain(list.count) /\ menu.pageSize = list.pageSize
        /\ menu.highlighted = list.selection
    BY <2>1, <2>2, MenuIs
  <2>4. from = list.pageStart
    BY <2>1, PageBegins
  <2>5. /\ page.candidates = Run(list.pageStart, end)
        /\ page.selected = IF list.selection \in list.pageStart .. end - 1
                           THEN list.selection - list.pageStart ELSE 0
    BY <2>1, PageIs
  <2>6. end \in Nat /\ list.pageStart <= end /\ end <= list.count
    BY <2>2 DEF Less
  <2> HIDE DEF menu, page, from
  <2>7. Part(Plain(list.count), list.pageStart, list.pageStart + list.pageSize)
          = Run(list.pageStart, end)
    <3>1. list.pageStart + list.pageSize \in Nat
      BY <2>2
    <3> QED BY <2>2, <2>6, <3>1, PartOfPlain
  <2>8. got.page.candidates = Part(menu.candidates, from, from + menu.pageSize)
    BY <2>1, <2>3, <2>4, <2>5, <2>7
  <2> HIDE DEF end
  <2>9. ASSUME row + 1 \in DOMAIN got.page.candidates
        PROVE  /\ got.page.selected + 1 \in DOMAIN got.page.candidates
               /\ got.page.candidates[got.page.selected + 1] = menu.candidates[menu.highlighted + 1]
    <3>1. /\ DOMAIN Run(list.pageStart, end) = 1 .. end - list.pageStart
          /\ \A i \in 1 .. end - list.pageStart :
                Run(list.pageStart, end)[i] = list.pageStart + i
      BY <2>2, <2>6, RunIs
    <3>2. list.selection \in list.pageStart .. end - 1
      BY <2>1, <2>2, <2>4, <2>5, <2>6, <2>9, <3>1
    <3>3. got.page.selected = list.selection - list.pageStart
      BY <2>1, <2>5, <3>2
    <3>4. \A i \in 1 .. list.count : Plain(list.count)[i] = i
      BY <2>2, PlainIs
    <3>5. list.selection + 1 \in 1 .. list.count
      BY <2>2, <2>6, <3>2
    <3>6. list.selection - list.pageStart + 1 \in 1 .. end - list.pageStart
      BY <2>2, <2>6, <3>2
    <3>7. /\ got.page.selected + 1 \in DOMAIN got.page.candidates
          /\ got.page.candidates[got.page.selected + 1]
               = list.pageStart + (list.selection - list.pageStart + 1)
      BY <2>1, <2>5, <3>1, <3>3, <3>6
    <3>8. menu.candidates[menu.highlighted + 1] = list.selection + 1
      BY <2>3, <3>4, <3>5
    <3>9. list.pageStart + (list.selection - list.pageStart + 1) = list.selection + 1
      BY <2>2
    <3> QED BY <3>7, <3>8, <3>9
  <2> QED BY <2>8, <2>9
<1> QED BY <1>1, InitAnswered, NextAnswered, PTL DEF Spec

\* Of the legacy host's line and parse_candidate_reply: of a list of any length
\* the first candidates arrive, in order, and nothing else does.
THEOREM LegacyListsAreOwn == Spec => []LegacyIsList
<1>1. Answered => LegacyIsList
  <2> SUFFICES ASSUME Answered, got.from = "legacy", Proper
               PROVE  got.candidates = Plain(Less(list.count, Less(8, Requested)))
    BY DEF LegacyIsList
  <2>1. got.candidates = ParseItems(LegacyItems(list), list.blank) /\ Listing(list)
    BY DEF Answered, Nothing
  <2> QED BY <2>1, TokensAre
<1> QED BY <1>1, InitAnswered, NextAnswered, PTL DEF Spec

\* Of select_candidate: with an IME that takes number keys any row of any page
\* that has a key, and without one any row of the first page, is what the menu
\* showed in that row.
THEOREM SelectionsAreShown == Spec => []SelectsShown
<1>1. Answered => SelectsShown
  <2> DEFINE menu == GetCandidateList(list)
  <2> SUFFICES ASSUME Answered, got.from = "select", Proper, Aligned,
                      list.pageStart = 0 \/ (got.takesKeys /\ got.index <= 9)
               PROVE  menu.candidates[got.selected + 1]
                        = menu.candidates[menu.pageNo * menu.pageSize + got.index + 1]
    BY DEF SelectsShown
  <2>1. Listing(list) /\ \E index \in PageRows, takesKeys \in BOOLEAN :
           got = [from |-> "select", index |-> index, takesKeys |-> takesKeys,
                  selected |-> Selected(index, takesKeys)]
    BY DEF Answered, Nothing
  <2>2. PICK index \in PageRows, takesKeys \in BOOLEAN :
           got = [from |-> "select", index |-> index, takesKeys |-> takesKeys,
                  selected |-> Selected(index, takesKeys)]
    BY <2>1
  <2>3. got.index = index /\ got.takesKeys = takesKeys /\ got.selected = Selected(index, takesKeys)
    BY <2>2
  <2>4. Selected(index, takesKeys) = list.pageStart + index
    BY <2>1, <2>3, RowSelected
  <2>5. menu.pageNo * menu.pageSize = list.pageStart
    BY <2>1, PageBegins
  <2> HIDE DEF menu
  <2> QED BY <2>3, <2>4, <2>5
<1> QED BY <1>1, InitAnswered, NextAnswered, PTL DEF Spec

\* Of get_composition_string and utf16_to_utf8_offset: in a text of any length,
\* lone halves of pairs among its units or not, cursor and selection are inside
\* the preedit and in order, and where they split no pair they are at the bytes
\* of the units that the IME means.
THEOREM PlacesFit == Spec => []PreeditPlaces
<1>1. Answered => PreeditPlaces
  <2> DEFINE c == GetCompositionString(comp)
             n == Len(comp.units)
             at == IF comp.cursor = -1 THEN n ELSE comp.cursor
  <2> SUFFICES ASSUME Answered, got.from = "v2"
               PROVE  /\ got.composition.selStart <= got.composition.selEnd
                      /\ got.composition.selEnd <= got.composition.length
                      /\ got.composition.cursor <= got.composition.length
                      /\ Whole(at) =>
                            got.composition.cursor + Bytes(at, n) = got.composition.length
                      /\ \A i, j \in 0 .. n :
                            Clause(i, j) /\ Whole(i) /\ Whole(j) =>
                               /\ got.composition.selEnd - got.composition.selStart = Bytes(i, j)
                               /\ got.composition.selEnd + Bytes(j, n) = got.composition.length
    BY Zenon DEF PreeditPlaces
  <2>1. got.composition = c /\ Composing(comp)
    BY DEF Answered, Nothing
  <2> QED BY <2>1, PlacesAre
<1> QED BY <1>1, InitAnswered, NextAnswered, PTL DEF Spec

\* Of is_shifted_char, rime_to_vk and process_key: three tables, of the host and
\* of the keyboard, agree on every printable character, and no other key of the
\* table types one.
THEOREM KeysTypeThemselves == Spec => []KeyTypesItself
<1>1. Answered => KeyTypesItself
  <2> SUFFICES ASSUME Answered, got.from = "key" PROVE KeyTypesItself
    BY DEF KeyTypesItself
  <2>1. got.uvirt = Uvirt(key.code, key.shift) /\ key \in Keys
    BY DEF Answered, Nothing
  <2> QED BY <2>1, KeyIs DEF KeyTypesItself
<1> QED BY <1>1, InitAnswered, NextAnswered, PTL DEF Spec
=============================================================================
