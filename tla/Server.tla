------------------------------- MODULE Server -------------------------------
(***************************************************************************)
(* internal/httpapi over the Refresher, and `tbproxy serve` around it:     *)
(* which requests reach the Refresher, what its results become as HTTP     *)
(* statuses and freshness metadata, callers that hang up, answers that     *)
(* come too late to be written, and SIGTERM.  Tokens are in module         *)
(* Deployment; the requests here carry a valid one.                        *)
(*                                                                         *)
(* A thread of Refresher is a request.  Its context ends when its caller's *)
(* connection does, and never because of SIGTERM: serve gives http.Server  *)
(* no BaseContext.                                                         *)
(***************************************************************************)
EXTENDS Refresher

CONSTANTS
    FromFile,      \* TRUE: TICKETBUTLER_FILE is set; reading it heeds no context
    StaleAfter,    \* age above which a snapshot is reported as stale
    WriteTimeout   \* http.Server.WriteTimeout (0, here and above: below the
                   \* resolution of the clock)

ASSUME ServerAssumption ==
    /\ FromFile \in BOOLEAN
    /\ StaleAfter \in Nat
    /\ WriteTimeout \in Nat

VARIABLES
    gone,      \* gone[t]: the caller of t has hung up, and t's context is over
    draining,  \* draining[p]: "no", or how far Shutdown is: "waiting", "over"
    \* History, read by properties only:
    shown,     \* the newest snapshot an answer carried while it was stored
    before     \* before[t]: shown when the read t arrived

webVars    == <<gone, draining, shown, before>>
serverVars == <<vars, webVars>>

\* Every variable keeps to its type.
WebTypeOK ==
    /\ gone \in [Threads -> BOOLEAN]
    /\ draining \in [Procs -> {"no", "waiting", "over"}]
    /\ shown \in Snapshot \cup {Nil}
    /\ before \in [Threads -> Snapshot \cup {Nil}]

ServerInit ==
    /\ Init
    /\ gone = [t \in Threads |-> FALSE]
    /\ draining = [p \in Procs |-> "no"]
    /\ shown = Nil
    /\ before = [t \in Threads |-> Nil]

-----------------------------------------------------------------------------
(* Answers.                                                                *)

Age(s) == now - s.at

\* Mutant: the age is counted from the start of the fetch.
Stale_FromStart(s) == Age(s) + s.dur > StaleAfter

Stale(s) == Age(s) > StaleAfter

\* metaFor, and what else of the snapshot the properties ask about.
metaFor(s) == [status |-> 200, snap |-> s, stale |-> Stale(s)]

Bare(status) == [status |-> status, snap |-> Nil, stale |-> FALSE]

\* handleHealth: a missing snapshot is a valid state, any other error is not.
handleHealth(t) ==
    CASE err[t] = "ErrNotFound"                    -> Bare(200)
      [] err[t] \notin {"ErrNotFound", "nil"}      -> Bare(503)
      [] err[t] = "nil"                            -> metaFor(snap[t])

\* Mutant: every failure is reported as "no snapshot yet".
handleData_All503(t) == IF err[t] = "nil" THEN metaFor(snap[t]) ELSE Bare(503)

\* snapshotOr503 and the three handlers that call it.
handleData(t) ==
    CASE err[t] = "ErrNotFound"                    -> Bare(503)
      [] err[t] \notin {"ErrNotFound", "nil"}      -> Bare(500)
      [] err[t] = "nil"                            -> metaFor(snap[t])

\* Mutant: whatever was fetched counts as refreshed.
handleRefresh_No207(t) ==
    IF snap[t] # Nil THEN [status |-> 200, snap |-> snap[t], stale |-> FALSE]
                     ELSE Bare(502)

\* handleRefresh: 502 for anything that kept the orders from being fetched,
\* 207 if only storing failed.
handleRefresh(t) ==
    CASE err[t] = "ErrUpstream" \/ (err[t] # "nil" /\ snap[t] = Nil) -> Bare(502)
      [] err[t] \notin {"ErrUpstream", "nil"} /\ snap[t] # Nil ->
             [status |-> 207, snap |-> snap[t], stale |-> FALSE]
      [] err[t] = "nil" -> [status |-> 200, snap |-> snap[t], stale |-> FALSE]

\* GET /healthz, or GET /v1/summary, /v1/sponsors and /v1/orders, which differ
\* in the part of the snapshot they send; POST /v1/refresh.  Which endpoint a
\* read came to matters only now, and to a read of either kind.
Answers(t) ==
    IF t \in Refreshes THEN {handleRefresh(t)} ELSE {handleHealth(t), handleData(t)}

\* The write deadline is set when the request has been read, and whatever is
\* written after it is lost; the handler is not told.  Reads take seconds.
TooLate(t) == t \in Refreshes /\ now > calledAt[t] + WriteTimeout

-----------------------------------------------------------------------------
(* Requests.                                                               *)

\* The listener is closed once Shutdown has begun.
Listening(p) == draining[p] = "no"

Get(t) ==
    /\ Listening(ProcOf[t])
    /\ CallCurrent(t)
    /\ before' = [before EXCEPT ![t] = shown]
    /\ UNCHANGED <<gone, draining, shown>>

PostRefresh(t) ==
    /\ Listening(ProcOf[t])
    /\ CallRefresh(t)
    /\ UNCHANGED webVars

\* The caller gives up: Apps Script after 60 seconds, Cloud Scheduler at its
\* attempt deadline, Cloud Run at its request timeout.
HangUp(t) ==
    /\ pc[t] # "idle"
    /\ ~gone[t]
    /\ gone' = [gone EXCEPT ![t] = TRUE]
    /\ UNCHANGED <<vars, draining, shown, before>>

\* Upstream and Cloud Storage do nothing more for a context that is over.
Refreshing(t) ==
    /\ \/ LockRefresh(t) \/ RefreshFails(t) \/ SaveFails(t) \/ PublishRefresh(t)
       \/ BuildSnapshot(t) /\ (FromFile \/ ~gone[t])
       \/ SaveOk(t) /\ (~Durable \/ ~gone[t])
    /\ UNCHANGED webVars

Reading(t) ==
    /\ \/ FillCache(t)
       \/ Load(t) /\ (Durable /\ gone[t] => err'[t] = "error")
    /\ UNCHANGED webVars

Newer(x, y) == IF y = Nil \/ AtLeastAsNew(x, y) THEN x ELSE y

\* writeJSON.  Nobody receives the answer if the caller has gone or the write
\* deadline is over.
WriteAnswer(t) ==
    /\ Reply(t)
    /\ \E a \in Answers(t) :
           shown' = IF /\ ~gone[t] /\ ~TooLate(t)
                       /\ a.status = 200 /\ a.snap # Nil
                       /\ t \in Refreshes \/ stored = a.snap
                    THEN Newer(a.snap, shown) ELSE shown
    /\ gone' = [gone EXCEPT ![t] = FALSE]
    /\ before' = [before EXCEPT ![t] = Nil]
    /\ UNCHANGED draining

-----------------------------------------------------------------------------
(* The process.                                                            *)

Serve(p) == Start(p) /\ UNCHANGED webVars

\* Everything in memory goes, the requests under way included.
Gone(p) ==
    /\ Crash(p)
    /\ gone' = Reset(gone, p, FALSE)
    /\ before' = Reset(before, p, Nil)
    /\ draining' = [draining EXCEPT ![p] = "no"]
    /\ UNCHANGED shown

\* Without notice: out of memory, a failing host, or Cloud Run that has waited
\* long enough.
Kill(p) == Gone(p)

\* ctx.Done: Shutdown closes the listener and waits.
Sigterm(p) ==
    /\ up[p]
    /\ draining[p] = "no"
    /\ draining' = [draining EXCEPT ![p] = "waiting"]
    /\ UNCHANGED <<vars, gone, shown, before>>

\* Mutant: Shutdown(context.Background()).
GraceOver_Never(p) == FALSE /\ UNCHANGED serverVars

\* The 15 seconds of shutdownCtx.
GraceOver(p) ==
    /\ draining[p] = "waiting"
    /\ draining' = [draining EXCEPT ![p] = "over"]
    /\ UNCHANGED <<vars, gone, shown, before>>

\* Shutdown returns because every request has been answered or because its
\* context is over; serve returns, and with it the process.
Exit(p) ==
    /\ draining[p] # "no"
    /\ \/ \A t \in Threads : ProcOf[t] = p => pc[t] = "idle"
       \/ draining[p] = "over"
    /\ Gone(p)

ServerNext ==
    \/ Tick /\ UNCHANGED webVars
    \/ \E p \in Procs : Serve(p) \/ Kill(p) \/ Sigterm(p) \/ GraceOver(p) \/ Exit(p)
    \/ \E t \in Refreshes : PostRefresh(t) \/ Refreshing(t)
    \/ \E t \in Reads : Get(t) \/ Reading(t)
    \/ \E t \in Threads : HangUp(t) \/ WriteAnswer(t)

ServerSpec == ServerInit /\ [][ServerNext]_serverVars

\* Timers fire, and a process that may exit does; the requests it waits for
\* need not make progress.
ShutdownFairness ==
    \A p \in Procs : WF_serverVars(GraceOver(p)) /\ WF_serverVars(Exit(p))

ServerFairSpec == ServerSpec /\ ReadFairness /\ ShutdownFairness

-----------------------------------------------------------------------------
(* Properties.                                                             *)

\* handlers.go:106-115: 200 to POST /v1/refresh means stored, unlike 207.  The
\* object is that snapshot or a newer one when the answer is written, although
\* others may have refreshed since it was saved.
RefreshedMeansStored ==
    \A t \in Refreshes :
        pc[t] = "done" /\ handleRefresh(t).status = 200
            => stored \in Snapshot /\ AtLeastAsNew(stored, snap[t])

\* handlers.go:132-141: "no snapshot yet" is only ever said to a request that
\* arrived before anybody had been shown a stored snapshot, whatever instances
\* came and went in between.
NoSnapshotYetIsTrue ==
    \A t \in Reads :
        pc[t] = "done" /\ handleData(t).status = 503 => before[t] = Nil

\* A snapshot that an answer carried while it was stored is what later requests
\* get, or a newer one, through crashes and restarts, if the process they come
\* to could load the object when it started.
NeverOlderThanShown ==
    \A t \in Reads :
        pc[t] = "done" /\ before[t] # Nil /\ warm[ProcOf[t]]
            => /\ handleData(t).status = 200
               /\ AtLeastAsNew(handleData(t).snap, before[t])

\* handlers.go:13-15: health is about whether the data endpoints work.  After
\* it has reported a snapshot they cannot fail for want of one.
HealthyMeansServing ==
    \A t \in Reads :
        pc[t] = "done" /\ handleHealth(t).snap # Nil
            => cached[ProcOf[t]] # Nil

\* server.go:84-103: the flag is right about the orders and not only about
\* fetched_at.  Orders that are not called stale are at most StaleAfter and the
\* duration of their fetch old, and orders called stale are older than
\* StaleAfter.
StaleFlagIsRight ==
    \A t \in Reads :
        pc[t] = "done" => \A a \in Answers(t) :
            a.snap # Nil => IF a.stale
                            THEN now > a.snap.asOf + StaleAfter
                            ELSE now <= a.snap.asOf + a.snap.dur + StaleAfter

\* main.go:166-170: a process that was told to stop stops, even if a request
\* never ends.
ShutdownEnds == \A p \in Procs : draining[p] # "no" ~> draining[p] = "no"

\* As RefreshReturns, with callers that hang up and processes that shut down.
EveryRefreshEnds == RefreshFairness => RefreshReturns

\* main.go:60-61: honouring SIGTERM "means an in-flight refresh is cancelled
\* cleanly instead of being killed".
NotKilledInFlight ==
    [][\A p \in Procs : Exit(p) =>
           \A t \in Refreshes : ProcOf[t] = p => pc[t] \notin Critical]_serverVars
=============================================================================
