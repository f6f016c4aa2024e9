--------------------------- MODULE MCStreamSystem ---------------------------
(* StreamSystem on small sets, for TLC. *)
EXTENDS StreamSystem, TLC

\* Requests are interchangeable.
CallerSymmetry == Permutations(Caller)

=============================================================================
