----------------------------- MODULE MCRecordings -----------------------------
(* Recordings on small sets, for TLC. *)
EXTENDS Recordings

===============================================================================
