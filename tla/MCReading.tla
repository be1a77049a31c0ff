------------------------------ MODULE MCReading -----------------------------
(* The instance of Reading for TLC. *)
EXTENDS Reading

\* More candidates than the legacy host's eight, than ten, and pages to match.
Long == {<<n, size, size * page>> : n \in 8 .. 13, size \in {5, 10, 12}, page \in 0 .. 1}
=============================================================================
