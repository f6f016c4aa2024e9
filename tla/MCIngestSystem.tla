---------------------------- MODULE MCIngestSystem ----------------------------
(* IngestSystem on small sets, for TLC. *)
EXTENDS IngestSystem, TLC

\* Sessions are interchangeable (safety runs only).
SessionSymmetry == Permutations(Session)

===============================================================================
