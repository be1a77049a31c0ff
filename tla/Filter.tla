------------------------------- MODULE Filter -------------------------------
(* SelectSeq for a test that is a set, as a function that proofs can unfold. *)
EXTENDS Naturals, Sequences

\* The elements of s that are in T, in their order.
Kept(s, T) ==
    LET f[i \in 0 .. Len(s)] ==
            IF i = 0 THEN <<>>
            ELSE IF s[i] \in T THEN Append(f[i - 1], s[i]) ELSE f[i - 1]
    IN f[Len(s)]
=============================================================================
