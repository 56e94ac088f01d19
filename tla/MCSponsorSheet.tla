--------------------------- MODULE MCSponsorSheet ---------------------------
(***************************************************************************)
(* SponsorSheet for TLC: executions are interchangeable.                   *)
(***************************************************************************)
EXTENDS SponsorSheet, TLC

ExecSymmetry == Permutations(Execs)
=============================================================================
