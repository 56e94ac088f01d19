----------------------------- MODULE Refresher -----------------------------
(***************************************************************************)
(* internal/snapshot/refresher.go with the two stores under it: the object *)
(* that owns the current snapshot, refreshes it from upstream on demand    *)
(* and hands it out for reads.  Every HTTP request (and every `tbproxy     *)
(* refresh`) is a thread; threads belong to processes, each of which has   *)
(* its own in-memory copy (cached) and its own mutex (refreshMu), and all  *)
(* processes share one stored object.                                      *)
(*                                                                         *)
(* A payload is identified with the instant at which TicketButler produced *)
(* it, so "newer data" is a comparison of instants.  A cancelled context   *)
(* makes the fetch, the save or the load that looks at it fail; all three  *)
(* may fail at any time here, so cancellation has no variable of its own.  *)
(***************************************************************************)
EXTENDS Naturals

CONSTANTS
    Procs,      \* processes that share the stored object
    Refreshes,  \* threads that call Refresh
    Reads,      \* threads that call Current
    ProcOf,     \* the process a thread runs in
    Durable,    \* TRUE: Cloud Storage; FALSE: the in-memory store
    MaxTime,    \* bound on the clock
    Nil,        \* Go's nil, and the object that does not exist
    Garbage     \* an object that snapshot.Decode rejects

Threads == Refreshes \cup Reads

\* Snapshot: FetchedAt, SourceDurationMS, and the orders (with everything
\* derived from them) as of one instant.
Snapshot == [at : Nat, dur : Nat, asOf : Nat]

ASSUME ThreadsAssumption ==
    /\ Refreshes \cap Reads = {}
    /\ ProcOf \in [Threads -> Procs]
    /\ Nil \notin Threads
ASSUME ValuesAssumption ==
    /\ Nil \notin Snapshot
    /\ Garbage \notin Snapshot
    /\ Nil # Garbage
ASSUME BoundsAssumption == MaxTime \in Nat /\ Durable \in BOOLEAN

\* One process at a time: a single Cloud Run instance, no overlapping
\* revision, no `tbproxy refresh` on the side.
SingleInstance == \A p, q \in Procs : p = q

\* The in-memory store lives inside one process.
ASSUME MemoryAssumption == Durable \/ SingleInstance

\* The errors Refresh and Current return, as far as callers tell them apart.
Errors == {"nil", "ErrNotFound", "ErrUpstream", "error"}

VARIABLES
    now,        \* the clock, time.Now
    stored,     \* the bytes behind Store.Load and Store.Save
    up,         \* up[p]: process p is running and serving
    cached,     \* cached[p]: Refresher.cached
    refreshMu,  \* refreshMu[p]: the thread that holds the mutex, or Nil
    pc,         \* pc[t]: the step thread t takes next
    snap,       \* snap[t]: the local variable snap
    err,        \* err[t]: the error about to be returned
    started,    \* started[t]: when the call to FetchOrders began
    \* History, read by properties only:
    calledAt,   \* calledAt[t]: when Refresh was called
    floor,      \* floor[t]: latest[p] when Current was called
    latest,     \* latest[p]: what the last successful fetch of p published
    warm,       \* warm[p]: Warm filled the cache of this run of p
    acked       \* the last snapshot Refresh returned without an error

procVars   == <<up, cached, refreshMu>>
threadVars == <<pc, snap, err, started>>
history    == <<calledAt, floor, latest, warm, acked>>
vars       == <<now, stored, procVars, threadVars, history>>

PC == {"idle", "lock", "fetch", "save", "publish", "load", "fill", "done"}

\* The part of Refresh between refreshMu.Lock and refreshMu.Unlock.
Critical == {"fetch", "save", "publish"}

\* Every variable keeps to the type its Go counterpart has; a Refresh never
\* runs the steps of Current, nor the other way round.
TypeOK ==
    /\ now \in Nat
    /\ stored \in Snapshot \cup {Nil, Garbage}
    /\ up \in [Procs -> BOOLEAN]
    /\ cached \in [Procs -> Snapshot \cup {Nil}]
    /\ refreshMu \in [Procs -> Refreshes \cup {Nil}]
    /\ pc \in [Threads -> PC]
    /\ \A t \in Refreshes : pc[t] \notin {"load", "fill"}
    /\ \A t \in Reads : pc[t] \in {"idle", "load", "fill", "done"}
    /\ snap \in [Threads -> Snapshot \cup {Nil}]
    /\ err \in [Threads -> Errors]
    /\ started \in [Threads -> Nat]
    /\ calledAt \in [Threads -> Nat]
    /\ floor \in [Threads -> Snapshot \cup {Nil}]
    /\ latest \in [Procs -> Snapshot \cup {Nil}]
    /\ warm \in [Procs -> BOOLEAN]
    /\ acked \in Snapshot \cup {Nil}

\* The object an earlier deployment left: none, one that no longer decodes,
\* or a snapshot taken at time 0.
Init ==
    /\ now = 0
    /\ stored \in {Nil, Garbage, [at |-> 0, dur |-> 0, asOf |-> 0]}
    /\ ~Durable => stored = Nil
    /\ up = [p \in Procs |-> FALSE]
    /\ cached = [p \in Procs |-> Nil]
    /\ refreshMu = [p \in Procs |-> Nil]
    /\ pc = [t \in Threads |-> "idle"]
    /\ snap = [t \in Threads |-> Nil]
    /\ err = [t \in Threads |-> "nil"]
    /\ started = [t \in Threads |-> 0]
    /\ calledAt = [t \in Threads |-> 0]
    /\ floor = [t \in Threads |-> Nil]
    /\ latest = [p \in Procs |-> Nil]
    /\ warm = [p \in Procs |-> FALSE]
    /\ acked = Nil

-----------------------------------------------------------------------------
(* The clock and the processes.                                            *)

Tick ==
    /\ now < MaxTime
    /\ now' = now + 1
    /\ UNCHANGED <<stored, procVars, threadVars, history>>

\* Decode accepts what Encode wrote.
Decodes(data) == data \in Snapshot

\* The errors Store.Load can return: the object is missing, or Cloud Storage
\* cannot be read.  Reading memory cannot fail.
LoadErrors ==
    {e \in {"ErrNotFound", "error"} : IF e = "error" THEN Durable ELSE stored = Nil}

SetCached(p, s) == cached' = [cached EXCEPT ![p] = s]

\* Current, called before the listener is opened, so that no request of p
\* runs between its load and its setCached.  Whatever goes wrong (no object,
\* garbage, a failing load) is logged, and p serves all the same.
Warm(p) ==
    \/ /\ Decodes(stored)
       /\ SetCached(p, stored)
       /\ warm' = [warm EXCEPT ![p] = TRUE]
    \/ /\ LoadErrors # {} \/ ~Decodes(stored)
       /\ UNCHANGED <<cached, warm>>

Start(p) ==
    /\ ~up[p]
    /\ up' = [up EXCEPT ![p] = TRUE]
    /\ Warm(p)
    /\ UNCHANGED <<now, stored, refreshMu, threadVars,
                   calledAt, floor, latest, acked>>

\* f with the default d for every thread of p.
Reset(f, p, d) == [t \in Threads |-> IF ProcOf[t] = p THEN d ELSE f[t]]

\* The instance goes away: scaled to zero, redeployed, killed, or a `tbproxy
\* refresh` that ends.  Only the object in Cloud Storage survives.
Crash(p) ==
    /\ up[p]
    /\ up' = [up EXCEPT ![p] = FALSE]
    /\ cached' = [cached EXCEPT ![p] = Nil]
    /\ refreshMu' = [refreshMu EXCEPT ![p] = Nil]
    /\ stored' = IF Durable THEN stored ELSE Nil
    /\ pc' = Reset(pc, p, "idle")
    /\ snap' = Reset(snap, p, Nil)
    /\ err' = Reset(err, p, "nil")
    /\ started' = Reset(started, p, 0)
    /\ calledAt' = Reset(calledAt, p, 0)
    /\ floor' = Reset(floor, p, Nil)
    /\ latest' = [latest EXCEPT ![p] = Nil]
    /\ warm' = [warm EXCEPT ![p] = FALSE]
    /\ UNCHANGED <<now, acked>>

-----------------------------------------------------------------------------
(* Refresh.                                                                *)

Goto(t, l) == pc' = [pc EXCEPT ![t] = l]

\* return s, e: what the caller of Refresh or Current gets.
Returns(t, s, e) ==
    /\ Goto(t, "done")
    /\ snap' = [snap EXCEPT ![t] = s]
    /\ err' = [err EXCEPT ![t] = e]

\* POST /v1/refresh, or the one call of `tbproxy refresh`.
CallRefresh(t) ==
    /\ up[ProcOf[t]]
    /\ pc[t] = "idle"
    /\ Goto(t, "lock")
    /\ calledAt' = [calledAt EXCEPT ![t] = now]
    /\ UNCHANGED <<now, stored, procVars, snap, err, started,
                   floor, latest, warm, acked>>

\* Mutant: no mutex.
LockRefresh_NoMutex(t) ==
    /\ pc[t] = "lock"
    /\ refreshMu' = [refreshMu EXCEPT ![ProcOf[t]] = t]
    /\ started' = [started EXCEPT ![t] = now]
    /\ Goto(t, "fetch")
    /\ UNCHANGED <<now, stored, up, cached, snap, err, history>>

\* Mutant: a refresh that waited shares what a refresh finished after the
\* call produced.
LockRefresh_Coalesces(t) ==
    /\ pc[t] = "lock"
    /\ refreshMu[ProcOf[t]] = Nil
    /\ LET c == cached[ProcOf[t]]
       IN  IF c # Nil /\ c.at >= calledAt[t]
           THEN Returns(t, c, "nil") /\ UNCHANGED <<refreshMu, started>>
           ELSE /\ refreshMu' = [refreshMu EXCEPT ![ProcOf[t]] = t]
                /\ started' = [started EXCEPT ![t] = now]
                /\ Goto(t, "fetch")
                /\ UNCHANGED <<snap, err>>
    /\ UNCHANGED <<now, stored, up, cached, history>>

\* refreshMu.Lock, which no context interrupts, and the call of FetchOrders.
LockRefresh(t) ==
    /\ pc[t] = "lock"
    /\ refreshMu[ProcOf[t]] = Nil
    /\ refreshMu' = [refreshMu EXCEPT ![ProcOf[t]] = t]
    /\ started' = [started EXCEPT ![t] = now]
    /\ Goto(t, "fetch")
    /\ UNCHANGED <<now, stored, up, cached, snap, err, history>>

\* Mutant: the early return leaves the mutex locked.
RefreshFails_KeepsLock(t) ==
    /\ pc[t] = "fetch"
    /\ \E e \in {"ErrUpstream", "error"} : Returns(t, Nil, e)
    /\ UNCHANGED <<now, stored, procVars, started, history>>

\* FetchOrders or Encode fails: the previous snapshot stays, in the store and
\* in memory, and the deferred Unlock runs.
RefreshFails(t) ==
    /\ pc[t] = "fetch"
    /\ \E e \in {"ErrUpstream", "error"} : Returns(t, Nil, e)
    /\ refreshMu' = [refreshMu EXCEPT ![ProcOf[t]] = Nil]
    /\ UNCHANGED <<now, stored, up, cached, started, history>>

\* Build: the snapshot of a fetch that ran from start to at.
Build(start, at, a) == [at |-> at, dur |-> at - start, asOf |-> a]

\* Mutant: FetchedAt is read before the fetch.
BuildSnapshot_StampedEarly(t) ==
    /\ pc[t] = "fetch"
    /\ \E asOf \in started[t] .. now :
           snap' = [snap EXCEPT ![t] =
               [at |-> started[t], dur |-> now - started[t], asOf |-> asOf]]
    /\ Goto(t, "save")
    /\ UNCHANGED <<now, stored, procVars, err, started, history>>

\* FetchOrders succeeds with the orders as of some instant of the fetch, and
\* Build and Encode turn them into a snapshot.
BuildSnapshot(t) ==
    /\ pc[t] = "fetch"
    /\ \E asOf \in started[t] .. now :
           snap' = [snap EXCEPT ![t] = Build(started[t], now, asOf)]
    /\ Goto(t, "save")
    /\ UNCHANGED <<now, stored, procVars, err, started, history>>

SaveOk(t) ==
    /\ pc[t] = "save"
    /\ stored' = snap[t]
    /\ err' = [err EXCEPT ![t] = "nil"]
    /\ Goto(t, "publish")
    /\ UNCHANGED <<now, procVars, snap, started, history>>

\* Mutant: the error of Close is dropped.
SaveFails_Silently(t) ==
    /\ Durable
    /\ pc[t] = "save"
    /\ stored' \in {stored, snap[t]}
    /\ err' = [err EXCEPT ![t] = "nil"]
    /\ Goto(t, "publish")
    /\ UNCHANGED <<now, procVars, snap, started, history>>

\* GCS.Save reports an error: the object was not replaced, or it was and only
\* the answer got lost.  Memory.Save never fails.
SaveFails(t) ==
    /\ Durable
    /\ pc[t] = "save"
    /\ stored' \in {stored, snap[t]}
    /\ err' = [err EXCEPT ![t] = "error"]
    /\ Goto(t, "publish")
    /\ UNCHANGED <<now, procVars, snap, started, history>>

\* Mutant: the failed-save path returns without setCached.
PublishRefresh_SavedOnly(t) ==
    /\ pc[t] = "publish"
    /\ cached' = IF err[t] = "nil"
                 THEN [cached EXCEPT ![ProcOf[t]] = snap[t]] ELSE cached
    /\ Returns(t, snap[t], err[t])
    /\ refreshMu' = [refreshMu EXCEPT ![ProcOf[t]] = Nil]
    /\ latest' = [latest EXCEPT ![ProcOf[t]] = snap[t]]
    /\ acked' = IF err[t] = "nil" THEN snap[t] ELSE acked
    /\ UNCHANGED <<now, stored, up, started, calledAt, floor, warm>>

\* setCached on both the success and the failed-save path, the return of snap
\* with the error of Save, and the deferred Unlock.
PublishRefresh(t) ==
    /\ pc[t] = "publish"
    /\ SetCached(ProcOf[t], snap[t])
    /\ Returns(t, snap[t], err[t])
    /\ refreshMu' = [refreshMu EXCEPT ![ProcOf[t]] = Nil]
    /\ latest' = [latest EXCEPT ![ProcOf[t]] = snap[t]]
    /\ acked' = IF err[t] = "nil" THEN snap[t] ELSE acked
    /\ UNCHANGED <<now, stored, up, started, calledAt, floor, warm>>

-----------------------------------------------------------------------------
(* Current.                                                                *)

CallCurrent(t) ==
    /\ up[ProcOf[t]]
    /\ pc[t] = "idle"
    /\ floor' = [floor EXCEPT ![t] = latest[ProcOf[t]]]
    /\ IF cached[ProcOf[t]] # Nil
       THEN Returns(t, cached[ProcOf[t]], "nil")
       ELSE Goto(t, "load") /\ UNCHANGED <<snap, err>>
    /\ UNCHANGED <<now, stored, procVars, started,
                   calledAt, latest, warm, acked>>

\* Mutant: what was loaded is used without asking whether it decodes.
Load_Undecoded(t) ==
    /\ pc[t] = "load"
    /\ \/ \E e \in LoadErrors : Returns(t, Nil, e)
       \/ /\ stored # Nil
          /\ snap' = [snap EXCEPT ![t] = stored]
          /\ Goto(t, "fill")
          /\ UNCHANGED err
    /\ UNCHANGED <<now, stored, procVars, started, history>>

\* Mutant: a read that has to load waits for the refresh in progress.
Load_Waits(t) ==
    /\ refreshMu[ProcOf[t]] = Nil
    /\ pc[t] = "load"
    /\ \/ Returns(t, Nil, "error")
       \/ /\ Decodes(stored)
          /\ snap' = [snap EXCEPT ![t] = stored]
          /\ Goto(t, "fill")
          /\ UNCHANGED err
    /\ UNCHANGED <<now, stored, procVars, started, history>>

\* Store.Load finds nothing, Decode rejects what it found, Cloud Storage
\* cannot be read, or all is well.
Load(t) ==
    /\ pc[t] = "load"
    /\ \/ \E e \in LoadErrors : Returns(t, Nil, e)
       \/ stored = Garbage /\ Returns(t, Nil, "error")
       \/ /\ Decodes(stored)
          /\ snap' = [snap EXCEPT ![t] = stored]
          /\ Goto(t, "fill")
          /\ UNCHANGED err
    /\ UNCHANGED <<now, stored, procVars, started, history>>

\* Mutant: what Load found is not kept.
FillCache_NotKept(t) ==
    /\ pc[t] = "fill"
    /\ Returns(t, snap[t], "nil")
    /\ UNCHANGED <<now, stored, procVars, started, history>>

\* setCached with what Load found, whatever is cached by now.
FillCache(t) ==
    /\ pc[t] = "fill"
    /\ SetCached(ProcOf[t], snap[t])
    /\ Returns(t, snap[t], "nil")
    /\ UNCHANGED <<now, stored, up, refreshMu, started, history>>

\* The caller has its answer; t stands for the next request.
Reply(t) ==
    /\ pc[t] = "done"
    /\ Goto(t, "idle")
    /\ snap' = [snap EXCEPT ![t] = Nil]
    /\ err' = [err EXCEPT ![t] = "nil"]
    /\ started' = [started EXCEPT ![t] = 0]
    /\ calledAt' = [calledAt EXCEPT ![t] = 0]
    /\ floor' = [floor EXCEPT ![t] = Nil]
    /\ UNCHANGED <<now, stored, procVars, latest, warm, acked>>

-----------------------------------------------------------------------------
RefreshStep(t) ==
    \/ CallRefresh(t) \/ LockRefresh(t) \/ RefreshFails(t)
    \/ BuildSnapshot(t) \/ SaveOk(t) \/ SaveFails(t) \/ PublishRefresh(t)

ReadStep(t) == CallCurrent(t) \/ Load(t) \/ FillCache(t)

Next ==
    \/ Tick
    \/ \E p \in Procs : Start(p) \/ Crash(p)
    \/ \E t \in Refreshes : RefreshStep(t)
    \/ \E t \in Reads : ReadStep(t)
    \/ \E t \in Threads : Reply(t)

Spec == Init /\ [][Next]_vars

\* A goroutine that can run does run.
ReadFairness ==
    \A t \in Reads : WF_vars(Load(t)) /\ WF_vars(FillCache(t))

\* FetchOrders always returns (module FetchOrders); sync.Mutex turns
\* first-in-first-out once somebody has waited for a millisecond, so a waiter
\* is not overtaken for ever.
RefreshFairness ==
    \A t \in Refreshes :
        /\ SF_vars(LockRefresh(t))
        /\ WF_vars(RefreshFails(t) \/ BuildSnapshot(t))
        /\ WF_vars(SaveOk(t) \/ SaveFails(t))
        /\ WF_vars(PublishRefresh(t))

-----------------------------------------------------------------------------
(* Properties.                                                             *)

\* x is at least as new as y, by its FetchedAt and by its orders.
AtLeastAsNew(x, y) == x.at >= y.at /\ x.asOf >= y.asOf

\* refreshMu serialises refreshes of one process (refresher.go:36): between
\* Lock and Unlock there is exactly the holder, and the mutex is held by a
\* thread that is there.
RefreshesSerialised ==
    \A t \in Refreshes :
        pc[t] \in Critical <=> refreshMu[ProcOf[t]] = t

\* What the API says about a snapshot's age is sound: its orders are no older
\* than fetched_at - source_duration and no newer than fetched_at, which is
\* not in the future (refresher.go:61 reads the clock after the fetch).
SourceWindow ==
    \A x \in {stored} \cup {cached[p] : p \in Procs} \cup {snap[t] : t \in Threads} :
        x \in Snapshot
            => x.at <= x.asOf + x.dur /\ x.asOf <= x.at /\ x.at <= now

\* refresher.go:49-51: a Refresh performs its own fetch, so what it returns is
\* never older than the call, however many others it queued behind.
FreshAsAsked ==
    \A t \in Refreshes :
        pc[t] = "done" /\ snap[t] # Nil => snap[t].asOf >= calledAt[t]

\* Once a Refresh of this process has fetched a snapshot, every later read is
\* answered with a snapshot, whether or not it could be stored
\* (refresher.go:66-70) and whatever the store does from then on.
ServedOnceRefreshed ==
    \A t \in Reads :
        pc[t] = "done" /\ floor[t] # Nil => snap[t] # Nil

\* In a process that Warm gave a snapshot, a read returns nothing older than
\* what the last successful fetch had published when the read was made.
WarmServesLatest ==
    \A t \in Reads :
        pc[t] = "done" /\ warm[ProcOf[t]]
            => /\ snap[t] # Nil
               /\ floor[t] # Nil => AtLeastAsNew(snap[t], floor[t])

\* The same without the help of Warm: refresher.go:83, "Current returns the
\* latest snapshot".
CurrentReturnsLatest ==
    \A t \in Reads :
        pc[t] = "done" /\ snap[t] # Nil /\ floor[t] # Nil
            => AtLeastAsNew(snap[t], floor[t])

\* gcs.go:14-17: what Refresh reported as stored survives crashes; the object
\* is that snapshot or a newer one.
AckedIsDurable ==
    Durable /\ acked # Nil
        => stored \in Snapshot /\ AtLeastAsNew(stored, acked)

StoredMovesForward ==
    stored \in Snapshot /\ stored' \in Snapshot => AtLeastAsNew(stored', stored)

\* In one process, whatever it crashes in, the stored snapshot is only ever
\* replaced by one at least as new, although nothing compares the two
\* (gcs.go:64-66, a blind replace): refreshMu orders fetches as it orders saves.
StoredNeverOlder == [][StoredMovesForward]_vars

\* The same as the comment on refreshMu promises it (refresher.go:36-38, "two
\* overlapping triggers cannot both fetch and then race to write").
TriggersCannotRaceToWrite == [][StoredMovesForward]_vars

\* Inside one run of a process nothing but a read that found the cache empty
\* can replace the cached snapshot by an older one.
OnlyColdReadsRegress ==
    [][\A p \in Procs :
          cached[p] # Nil /\ cached'[p] # Nil /\ ~AtLeastAsNew(cached'[p], cached[p])
              => \E t \in Reads : ProcOf[t] = p /\ pc[t] = "fill" /\ pc'[t] = "done"]_vars

\* Every Refresh ends, with an answer or with its process, although it waits
\* for all the others and its own context cannot release it.
RefreshReturns ==
    \A t \in Refreshes : pc[t] = "lock" ~> pc[t] \in {"done", "idle"}

\* Every read ends even while a Refresh hangs (refresher.go:24-26: the caller
\* gives up after 60 seconds, and a fetch takes longer).
ReadReturns ==
    \A t \in Reads : pc[t] = "load" ~> pc[t] \in {"done", "idle"}

=============================================================================
