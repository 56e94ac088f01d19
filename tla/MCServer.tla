------------------------------ MODULE MCServer ------------------------------
(***************************************************************************)
(* An instance of Server for TLC: all requests come to one process.        *)
(***************************************************************************)
EXTENDS Server, TLC

CONSTANT server

MCProcOf == [t \in Threads |-> server]

RefreshSymmetry == Permutations(Refreshes)
=============================================================================
