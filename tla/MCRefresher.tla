---------------------------- MODULE MCRefresher ----------------------------
(***************************************************************************)
(* Instances of Refresher for TLC.  The placement of the threads is the    *)
(* only constant that a configuration file cannot write down: a server     *)
(* runs every thread except the ones that belong to a second process, the  *)
(* `tbproxy refresh` command or a revision that is being replaced.         *)
(***************************************************************************)
EXTENDS Refresher, TLC

CONSTANTS server, cli, r1, r2, d1, d2

MCProcOf ==
    [t \in Threads |-> IF cli \in Procs /\ t = r2 THEN cli ELSE server]

\* Reads are interchangeable, and so are refreshes of the same process.
ReadSymmetry == Permutations(Reads)
ThreadSymmetry == Permutations(Reads) \cup Permutations(Refreshes)
=============================================================================
