------------------------------ MODULE Fetcher ------------------------------
(***************************************************************************)
(* What the Refresher relies on when it calls FetchOrders through the      *)
(* Fetcher interface (internal/snapshot/refresher.go:17-19): a call ends   *)
(* once, either with an error or with the orders as they were at some      *)
(* instant of the call, together with how long the call took.  Refresher   *)
(* builds this contract into RefreshFails and BuildSnapshot; FetchOrders   *)
(* implements it.                                                          *)
(***************************************************************************)
EXTENDS Naturals

VARIABLES
    now,    \* the clock
    phase,  \* "idle", "busy", "ok" or "err"
    from,   \* when the current or last call was made
    asOf,   \* the instant the orders of the last successful call are from
    dur     \* Result.Duration of the last successful call

vars == <<now, phase, from, asOf, dur>>

Init ==
    /\ now = 0
    /\ phase = "idle"
    /\ from = 0
    /\ asOf = 0
    /\ dur = 0

Pass ==
    /\ now' = now + 1
    /\ UNCHANGED <<phase, from, asOf, dur>>

Begin ==
    /\ phase # "busy"
    /\ phase' = "busy"
    /\ from' = now
    /\ UNCHANGED <<now, asOf, dur>>

Succeed ==
    /\ phase = "busy"
    /\ phase' = "ok"
    /\ asOf' \in from .. now
    /\ dur' = now - from
    /\ UNCHANGED <<now, from>>

Fail ==
    /\ phase = "busy"
    /\ phase' = "err"
    /\ UNCHANGED <<now, from, asOf, dur>>

Next == Pass \/ Begin \/ Succeed \/ Fail

Spec == Init /\ [][Next]_vars
=============================================================================
