----------------------------- MODULE MCRetention -----------------------------
(***************************************************************************)
(* Retentions of one and of three days, in steps of a day.                 *)
(***************************************************************************)
EXTENDS Retention, TLC

CONSTANTS c1, c2

Copies == Permutations({c1, c2})

=============================================================================
