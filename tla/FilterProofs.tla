---------------------------- MODULE FilterProofs ----------------------------
(***************************************************************************)
(* What Filter!Kept gives, for sequences of any length.  The induction on  *)
(* the length is over sets of numbers (NatSets), since the theorems of the *)
(* library that take a predicate cannot be instantiated by the provers.    *)
(***************************************************************************)
EXTENDS Filter, WellFoundedInduction, TLAPS

-----------------------------------------------------------------------------
(* Induction.                                                              *)

Smaller == {pair \in Nat \X Nat : pair[1] < pair[2]}

LEMMA SmallerFounded == IsWellFoundedOn(Smaller, Nat)
<1>1. Smaller = OpToRel(<, Nat)
  BY DEF Smaller, OpToRel
<1> QED BY NatLessThanWellFounded DEF Smaller, OpToRel

LEMMA Least ==
    ASSUME NEW S, S \subseteq Nat, S # {}
    PROVE  \E x \in S : \A y \in S : ~(y < x)
<1>1. PICK x \in S : \A y \in S : <<y, x>> \notin Smaller
  BY SmallerFounded, WFMin
<1>2. ASSUME NEW y \in S PROVE ~(y < x)
  <2>1. <<y, x>> \notin Smaller
    BY <1>1
  <2> QED BY <2>1 DEF Smaller
<1> QED BY <1>2

LEMMA NatSets ==
    ASSUME NEW S, S \subseteq Nat, 0 \in S, \A n \in S : n + 1 \in S
    PROVE  S = Nat
<1>1. SUFFICES ASSUME Nat \ S # {} PROVE FALSE
  OBVIOUS
<1>2. PICK x \in Nat \ S : \A y \in Nat \ S : ~(y < x)
  BY <1>1, Least
<1>3. x - 1 \in Nat \ S
  BY <1>2
<1> QED BY <1>2, <1>3

\* Up to a bound.
LEMMA UpTo ==
    ASSUME NEW N \in Nat, NEW S, 0 \in S, \A n \in S : n \in 0 .. N /\ n < N => n + 1 \in S
    PROVE  0 .. N \subseteq S
<1> DEFINE U == {n \in Nat : n \in 0 .. N => n \in S}
<1>1. 0 \in U
  OBVIOUS
<1>2. ASSUME NEW n \in U PROVE n + 1 \in U
  <2>1. n \in Nat /\ n + 1 \in Nat
    OBVIOUS
  <2>2. ASSUME n + 1 \in 0 .. N PROVE n + 1 \in S
    <3>1. n \in 0 .. N /\ n < N
      BY <2>1, <2>2
    <3>2. n \in S
      BY <3>1
    <3> QED BY <3>1, <3>2
  <2> QED BY <2>1, <2>2
<1>3. U = Nat
  <2> HIDE DEF U
  <2>1. U \subseteq Nat
    BY DEF U
  <2> QED BY <1>1, <1>2, <2>1, NatSets
<1>4. ASSUME NEW n \in 0 .. N PROVE n \in S
  <2>1. n \in U
    BY <1>3
  <2> QED BY <2>1
<1> QED BY <1>4

-----------------------------------------------------------------------------
(* The function exists.                                                    *)

\* f is what Kept builds on the way to n.
Builds(f, s, T, n) ==
    f = [i \in 0 .. n |->
            IF i = 0 THEN <<>>
            ELSE IF s[i] \in T THEN Append(f[i - 1], s[i]) ELSE f[i - 1]]

LEMMA BuildsStep ==
    ASSUME NEW s, NEW T, NEW n \in Nat, NEW f, Builds(f, s, T, n)
    PROVE  \E g : Builds(g, s, T, n + 1)
<1> DEFINE last == IF s[n + 1] \in T THEN Append(f[n], s[n + 1]) ELSE f[n]
           g == [i \in 0 .. n + 1 |-> IF i = n + 1 THEN last ELSE f[i]]
           h == [i \in 0 .. n + 1 |->
                    IF i = 0 THEN <<>>
                    ELSE IF s[i] \in T THEN Append(g[i - 1], s[i]) ELSE g[i - 1]]
<1>1. ASSUME NEW i \in 0 .. n + 1 PROVE g[i] = h[i]
  <2>1. CASE i = n + 1
    <3>1. g[n] = f[n] /\ i # 0 /\ i - 1 = n
      BY <2>1
    <3> QED BY <2>1, <3>1
  <2>2. CASE i = 0
    BY <2>2 DEF Builds
  <2>3. CASE i \in 1 .. n
    <3>1. i \in 0 .. n /\ i - 1 \in 0 .. n /\ i # 0 /\ i # n + 1 /\ i - 1 # n + 1 /\ i - 1 \in 0 .. n + 1
      BY <2>3
    <3>2. g[i] = f[i] /\ g[i - 1] = f[i - 1]
      BY <3>1
    <3>3. f[i] = IF s[i] \in T THEN Append(f[i - 1], s[i]) ELSE f[i - 1]
      BY <3>1 DEF Builds
    <3> QED BY <3>1, <3>2, <3>3
  <2> QED BY <2>1, <2>2, <2>3
<1>2. g = h
  BY <1>1
<1> HIDE DEF last
<1>3. Builds(g, s, T, n + 1)
  BY <1>2 DEF Builds
<1> QED BY <1>3

LEMMA BuildsExists ==
    ASSUME NEW s, NEW T, NEW n \in Nat
    PROVE  \E f : Builds(f, s, T, n)
<1> DEFINE S == {k \in Nat : \E f : Builds(f, s, T, k)}
<1>1. 0 \in S
  <2> DEFINE f == [i \in 0 .. 0 |-> <<>>]
  <2>1. f = [i \in 0 .. 0 |->
            IF i = 0 THEN <<>>
            ELSE IF s[i] \in T THEN Append(f[i - 1], s[i]) ELSE f[i - 1]]
    OBVIOUS
  <2>2. Builds(f, s, T, 0)
    BY <2>1 DEF Builds
  <2> QED BY <2>2
<1>2. ASSUME NEW k \in S PROVE k + 1 \in S
  BY BuildsStep
<1>3. S = Nat
  <2>1. S \subseteq Nat
    OBVIOUS
  <2> HIDE DEF S
  <2> QED BY <1>1, <1>2, <2>1, NatSets
<1> QED BY <1>3

LEMMA KeptBuilt ==
    ASSUME NEW s, NEW T, Len(s) \in Nat
    PROVE  \E f : /\ Kept(s, T) = f[Len(s)] /\ f[0] = <<>>
                  /\ \A i \in 1 .. Len(s) :
                        f[i] = IF s[i] \in T THEN Append(f[i - 1], s[i]) ELSE f[i - 1]
<1> DEFINE f == CHOOSE f : Builds(f, s, T, Len(s))
<1>1. Kept(s, T) = f[Len(s)]
  BY DEF Kept, Builds
<1>2. Builds(f, s, T, Len(s))
  BY BuildsExists
<1> HIDE DEF f
<1>3. 0 \in 0 .. Len(s) /\ \A i \in 1 .. Len(s) : i \in 0 .. Len(s) /\ i # 0
  OBVIOUS
<1>4. /\ f[0] = <<>>
      /\ \A i \in 1 .. Len(s) :
            f[i] = IF s[i] \in T THEN Append(f[i - 1], s[i]) ELSE f[i - 1]
  BY <1>2, <1>3 DEF Builds
<1> QED BY <1>1, <1>4

-----------------------------------------------------------------------------
(* What it gives.                                                          *)

LEMMA KeptType ==
    ASSUME NEW S, NEW s \in Seq(S), NEW T
    PROVE  Kept(s, T) \in Seq(S \cap T)
<1>1. Len(s) \in Nat /\ \A i \in 1 .. Len(s) : s[i] \in S
  OBVIOUS
<1>2. PICK f : /\ Kept(s, T) = f[Len(s)] /\ f[0] = <<>>
               /\ \A i \in 1 .. Len(s) :
                     f[i] = IF s[i] \in T THEN Append(f[i - 1], s[i]) ELSE f[i - 1]
  BY <1>1, KeptBuilt
<1> DEFINE U == {i \in Nat : f[i] \in Seq(S \cap T)}
<1>3. 0 \in U
  <2>1. <<>> \in Seq(S \cap T)
    OBVIOUS
  <2>2. f[0] \in Seq(S \cap T)
    BY <1>2, <2>1
  <2> QED BY <2>2
<1>4. ASSUME NEW n \in U, n \in 0 .. Len(s), n < Len(s) PROVE n + 1 \in U
  <2>1. n + 1 \in 1 .. Len(s) /\ n + 1 - 1 = n
    BY <1>1, <1>4
  <2>2. f[n + 1] = IF s[n + 1] \in T THEN Append(f[n], s[n + 1]) ELSE f[n]
    BY <1>2, <2>1
  <2>3. f[n] \in Seq(S \cap T) /\ s[n + 1] \in S
    BY <1>1, <2>1
  <2>4. f[n + 1] \in Seq(S \cap T)
    BY <2>2, <2>3
  <2> QED BY <2>1, <2>4
<1>5. 0 .. Len(s) \subseteq U
  <2> HIDE DEF U
  <2> QED BY <1>1, <1>3, <1>4, UpTo
<1>6. Len(s) \in U
  BY <1>1, <1>5
<1> QED BY <1>2, <1>6

LEMMA KeptNone == \A T : Kept(<<>>, T) = <<>>
<1> TAKE T
<1>1. PICK f : Kept(<<>>, T) = f[Len(<<>>)] /\ f[0] = <<>>
  BY KeptBuilt
<1> QED BY <1>1

LEMMA KeptAppend ==
    ASSUME NEW S, NEW s \in Seq(S), NEW e \in S, NEW T
    PROVE  Kept(Append(s, e), T) = IF e \in T THEN Append(Kept(s, T), e) ELSE Kept(s, T)
<1> DEFINE p == Append(s, e)
<1>1. /\ Len(s) \in Nat /\ Len(p) = Len(s) + 1 /\ p[Len(s) + 1] = e
      /\ \A i \in 1 .. Len(s) : p[i] = s[i]
  OBVIOUS
<1> HIDE DEF p
<1>2. PICK f : /\ Kept(s, T) = f[Len(s)] /\ f[0] = <<>>
               /\ \A i \in 1 .. Len(s) :
                     f[i] = IF s[i] \in T THEN Append(f[i - 1], s[i]) ELSE f[i - 1]
  BY <1>1, KeptBuilt
<1>3. PICK g : /\ Kept(p, T) = g[Len(p)] /\ g[0] = <<>>
               /\ \A i \in 1 .. Len(p) :
                     g[i] = IF p[i] \in T THEN Append(g[i - 1], p[i]) ELSE g[i - 1]
  <2>1. Len(p) \in Nat
    BY <1>1
  <2> QED BY <2>1, KeptBuilt
<1> DEFINE U == {i \in Nat : f[i] = g[i]}
<1>4. 0 \in U
  BY <1>2, <1>3
<1>5. ASSUME NEW n \in U, n \in 0 .. Len(s), n < Len(s) PROVE n + 1 \in U
  <2>1. n + 1 \in 1 .. Len(s) /\ n + 1 \in 1 .. Len(p) /\ n + 1 - 1 = n /\ n + 1 \in Nat
    BY <1>1, <1>5
  <2>2. f[n + 1] = IF s[n + 1] \in T THEN Append(f[n], s[n + 1]) ELSE f[n]
    BY <1>2, <2>1
  <2>3. g[n + 1] = IF p[n + 1] \in T THEN Append(g[n], p[n + 1]) ELSE g[n]
    BY <1>3, <2>1
  <2>4. p[n + 1] = s[n + 1] /\ f[n] = g[n]
    BY <1>1, <2>1
  <2> QED BY <2>1, <2>2, <2>3, <2>4
<1>6. 0 .. Len(s) \subseteq U
  <2> HIDE DEF U
  <2> QED BY <1>1, <1>4, <1>5, UpTo
<1>7. f[Len(s)] = g[Len(s)]
  BY <1>1, <1>6
<1>8. g[Len(p)] = IF e \in T THEN Append(g[Len(s)], e) ELSE g[Len(s)]
  <2>1. Len(p) \in 1 .. Len(p) /\ Len(p) - 1 = Len(s)
    BY <1>1
  <2> QED BY <1>1, <1>3, <2>1
<1> QED BY <1>2, <1>3, <1>7, <1>8 DEF p

LEMMA KeptAll ==
    ASSUME NEW S, NEW s \in Seq(S), NEW T, \A i \in DOMAIN s : s[i] \in T
    PROVE  Kept(s, T) = s
<1>1. Len(s) \in Nat /\ DOMAIN s = 1 .. Len(s)
  OBVIOUS
<1>2. PICK f : /\ Kept(s, T) = f[Len(s)] /\ f[0] = <<>>
               /\ \A i \in 1 .. Len(s) :
                     f[i] = IF s[i] \in T THEN Append(f[i - 1], s[i]) ELSE f[i - 1]
  BY <1>1, KeptBuilt
<1> DEFINE U == {i \in Nat : f[i] = SubSeq(s, 1, i)}
<1>3. 0 \in U
  <2>1. SubSeq(s, 1, 0) = <<>>
    OBVIOUS
  <2> QED BY <1>2, <2>1
<1>4. ASSUME NEW n \in U, n \in 0 .. Len(s), n < Len(s) PROVE n + 1 \in U
  <2>1. n + 1 \in 1 .. Len(s) /\ n + 1 - 1 = n /\ n + 1 \in Nat /\ n \in Nat
    BY <1>1, <1>4
  <2>2. f[n + 1] = Append(f[n], s[n + 1])
    <3>1. s[n + 1] \in T
      BY <1>1, <2>1
    <3>2. f[n + 1] = IF s[n + 1] \in T THEN Append(f[n], s[n + 1]) ELSE f[n]
      BY <1>2, <2>1
    <3> QED BY <3>1, <3>2
  <2>3. Append(SubSeq(s, 1, n), s[n + 1]) = SubSeq(s, 1, n + 1)
    <3> DEFINE a == SubSeq(s, 1, n)
               b == SubSeq(s, 1, n + 1)
    <3>1. a \in Seq(S) /\ Len(a) = n /\ \A i \in 1 .. n : a[i] = s[i]
      BY <1>1, <2>1
    <3>2. b \in Seq(S) /\ Len(b) = n + 1 /\ \A i \in 1 .. n + 1 : b[i] = s[i]
      BY <1>1, <2>1
    <3> HIDE DEF a, b
    <3> DEFINE c == Append(a, s[n + 1])
    <3>3. c \in Seq(S) /\ Len(c) = n + 1 /\ c[n + 1] = s[n + 1] /\ \A i \in 1 .. n : c[i] = a[i]
      BY <2>1, <3>1
    <3> HIDE DEF c
    <3>4. \A i \in 1 .. n + 1 : c[i] = b[i]
      BY <2>1, <3>1, <3>2, <3>3
    <3>5. c = b
      BY <3>2, <3>3, <3>4
    <3> QED BY <3>5 DEF a, b, c
  <2> QED BY <2>1, <2>2, <2>3
<1>5. 0 .. Len(s) \subseteq U
  <2> HIDE DEF U
  <2> QED BY <1>1, <1>3, <1>4, UpTo
<1>6. f[Len(s)] = SubSeq(s, 1, Len(s))
  BY <1>1, <1>5
<1>7. SubSeq(s, 1, Len(s)) = s
  OBVIOUS
<1> QED BY <1>2, <1>6, <1>7

\* What is kept was at places of its own, one for each.
LEMMA KeptPlaces ==
    ASSUME NEW S, NEW s \in Seq(S), NEW T
    PROVE  \E at \in [DOMAIN Kept(s, T) -> DOMAIN s] :
              /\ \A i \in DOMAIN Kept(s, T) : Kept(s, T)[i] = s[at[i]]
              /\ \A i, j \in DOMAIN Kept(s, T) : at[i] = at[j] => i = j
<1> DEFINE Placed(k, n) ==
              /\ k \in Seq(S)
              /\ \E at \in [1 .. Len(k) -> 1 .. n] :
                    /\ \A i \in 1 .. Len(k) : k[i] = s[at[i]]
                    /\ \A i, j \in 1 .. Len(k) : at[i] = at[j] => i = j
<1>1. Len(s) \in Nat /\ \A i \in 1 .. Len(s) : s[i] \in S
  OBVIOUS
<1>2. PICK f : /\ Kept(s, T) = f[Len(s)] /\ f[0] = <<>>
               /\ \A i \in 1 .. Len(s) :
                     f[i] = IF s[i] \in T THEN Append(f[i - 1], s[i]) ELSE f[i - 1]
  BY <1>1, KeptBuilt
<1> DEFINE U == {n \in Nat : Placed(f[n], n)}
<1>3. 0 \in U
  <2>1. <<>> \in Seq(S) /\ 1 .. Len(<<>>) = {}
    OBVIOUS
  <2>2. \E at \in [{} -> 1 .. 0] : TRUE
    <3>1. [i \in {} |-> i] \in [{} -> 1 .. 0]
      OBVIOUS
    <3> QED BY <3>1
  <2>3. Placed(<<>>, 0)
    BY <2>1, <2>2
  <2> HIDE DEF Placed
  <2> QED BY <1>2, <2>3
<1>4. ASSUME NEW n \in U, n \in 0 .. Len(s), n < Len(s) PROVE n + 1 \in U
  <2>1. n \in Nat /\ n + 1 \in Nat /\ n + 1 \in 1 .. Len(s) /\ n + 1 - 1 = n /\ Placed(f[n], n)
    BY <1>1, <1>4
  <2> DEFINE k == f[n]
             e == s[n + 1]
  <2>2. f[n + 1] = IF e \in T THEN Append(k, e) ELSE k
    BY <1>2, <2>1
  <2>3. k \in Seq(S) /\ e \in S
    BY <1>1, <2>1
  <2>4. PICK at \in [1 .. Len(k) -> 1 .. n] :
           /\ \A i \in 1 .. Len(k) : k[i] = s[at[i]]
           /\ \A i, j \in 1 .. Len(k) : at[i] = at[j] => i = j
    BY <2>1
  <2>0. Placed(f[n + 1], n + 1) => n + 1 \in U
    BY <2>1
  <2>9. n \in Nat
    BY <2>1
  <2> HIDE DEF k, e, U
  <2>5. CASE e \in T
    <3> DEFINE a == Append(k, e)
               to == [i \in 1 .. Len(k) + 1 |-> IF i = Len(k) + 1 THEN n + 1 ELSE at[i]]
    <3>1. /\ a \in Seq(S) /\ Len(k) \in Nat /\ Len(a) = Len(k) + 1 /\ a[Len(k) + 1] = e
          /\ \A i \in 1 .. Len(k) : a[i] = k[i]
      BY <2>3
    <3> HIDE DEF a
    <3>2. to \in [1 .. Len(a) -> 1 .. n + 1]
      <4>1. \A i \in 1 .. Len(k) + 1 : i # Len(k) + 1 => i \in 1 .. Len(k)
        BY <3>1
      <4>2. \A i \in 1 .. Len(k) : at[i] \in 1 .. n + 1
        BY <2>9
      <4>3. n + 1 \in 1 .. n + 1
        BY <2>9
      <4> QED BY <3>1, <4>1, <4>2, <4>3
    <3>3. \A i \in 1 .. Len(a) : a[i] = s[to[i]]
      <4>1. \A i \in 1 .. Len(a) : i # Len(k) + 1 => i \in 1 .. Len(k)
        BY <3>1
      <4>2. \A i \in 1 .. Len(a) : to[i] = IF i = Len(k) + 1 THEN n + 1 ELSE at[i]
        BY <3>1
      <4> HIDE DEF to, e
      <4>3. ASSUME NEW i \in 1 .. Len(k) PROVE a[i] = s[at[i]]
        BY <2>4, <3>1
      <4>4. a[Len(k) + 1] = s[n + 1]
        BY <3>1 DEF e
      <4>5. ASSUME NEW i \in 1 .. Len(a), i = Len(k) + 1 PROVE a[i] = s[to[i]]
        BY <4>2, <4>4, <4>5
      <4>6. ASSUME NEW i \in 1 .. Len(a), i # Len(k) + 1 PROVE a[i] = s[to[i]]
        <5>1. i \in 1 .. Len(k) /\ to[i] = at[i]
          BY <4>1, <4>2, <4>6
        <5> QED BY <4>3, <5>1
      <4> QED BY <4>5, <4>6
    <3>4. ASSUME NEW i \in 1 .. Len(a), NEW j \in 1 .. Len(a), to[i] = to[j] PROVE i = j
      <4>1. \A l \in 1 .. Len(a) : l # Len(k) + 1 => l \in 1 .. Len(k) /\ at[l] # n + 1
        <5>1. \A l \in 1 .. Len(k) : at[l] # n + 1
          BY <2>9
        <5> QED BY <3>1, <5>1
      <4>2. \A l \in 1 .. Len(a) : to[l] = IF l = Len(k) + 1 THEN n + 1 ELSE at[l]
        BY <3>1
      <4> HIDE DEF to
      <4> QED BY <2>4, <3>4, <4>1, <4>2
    <3> HIDE DEF to
    <3>5. Placed(a, n + 1)
      BY <3>1, <3>2, <3>3, <3>4
    <3> HIDE DEF Placed
    <3> QED BY <2>0, <2>2, <2>5, <3>5 DEF a
  <2>6. CASE e \notin T
    <3>1. at \in [1 .. Len(k) -> 1 .. n + 1]
      BY <2>9
    <3>2. Placed(k, n + 1)
      BY <2>3, <2>4, <3>1
    <3> HIDE DEF Placed
    <3> QED BY <2>0, <2>2, <2>6, <3>2
  <2> QED BY <2>5, <2>6
<1>5. 0 .. Len(s) \subseteq U
  <2> HIDE DEF U
  <2> QED BY <1>1, <1>3, <1>4, UpTo
<1>6. Placed(Kept(s, T), Len(s))
  BY <1>1, <1>2, <1>5
<1> DEFINE k == Kept(s, T)
<1>7. DOMAIN k = 1 .. Len(k) /\ DOMAIN s = 1 .. Len(s)
  <2>1. k \in Seq(S)
    BY <1>6
  <2> HIDE DEF k
  <2> QED BY <2>1
<1> HIDE DEF k
<1> QED BY <1>6, <1>7 DEF k
=============================================================================
